---------------------------- MODULE ModSeatProofs ----------------------------
(***************************************************************************)
(* Proofs about ModSeat, for any number of turns, joins, moves and upsets,  *)
(* in any combination: the session's hooks go to the room only during a      *)
(* turn of the seat it holds, no feed outlives the mod's interest in it      *)
(* unless two joins overlap, and a Stop ends its own turn while no feed       *)
(* breaks and the seat stays where it is.                                   *)
(***************************************************************************)
EXTENDS ModSeat, SequenceTheorems, TLAPS

\* What a feed and its pump hold is something they can act upon.
Good == {f \in Feed : /\ f.pump.at = "submit" => f.pump.turn # 0
                      /\ f.pump.at = "return" => f.pump.to # 0
                      /\ \A i \in DOMAIN f.out : f.out[i].kind = "text" => f.out[i].turn # 0}

\* While the flag is up the session works on a turn, and on one of this seat if the
\* mod has one.
FlagHolds == mod.inRoomTurn => /\ session.turn \in Turns
                               /\ mod.seat # 0 => session.by = mod.seat

\* TypeOK in parts that are proved one by one.
RoomType  == room \in Room /\ room.holder <= Len(feeds)
ModType   == mod \in Mod /\ mod.feed <= Len(feeds)
SeatsType == seats \in Seq(Places) /\ Len(seats) <= MaxJoins /\ mod.seat <= Len(seats)
RestType  == /\ given \in 0..MaxTurns /\ file \in 0..(MaxMoves + 1)
             /\ joins \in [Joiners -> {"idle", "find", "register"}]
             /\ session \in [turn : 0..Own, by : 0..MaxJoins]
             /\ posts \subseteq Post /\ ended \subseteq Turns \X (Turns \cup {Own})
             /\ happened \subseteq Upsets

IInv == /\ RoomType /\ ModType /\ SeatsType /\ RestType
        /\ feeds \in Seq(Good) /\ FlagHolds

LEMMA TypesAre == IInv => TypeOK /\ OnlyRoomTurns
  <1> SUFFICES ASSUME IInv PROVE TypeOK /\ OnlyRoomTurns OBVIOUS
  <1>1. Good \subseteq Feed BY DEF Good
  <1>2. feeds \in Seq(Feed) BY <1>1 DEF IInv
  <1> QED BY <1>2 DEF IInv, TypeOK, RoomType, ModType, SeatsType, RestType, FlagHolds,
             OnlyRoomTurns, InRoomTurn

-----------------------------------------------------------------------------
(* Feeds that stay good. *)

LEMMA ReadingGood == Reading \in Pump
  BY ModSeatAssumption DEF Reading, Pump

\* Another pump, at an await it has what it needs for.
LEMMA PumpGood ==
    ASSUME NEW f \in Good, NEW p \in Pump, p.at = "submit" => p.turn # 0,
           p.at = "return" => p.to # 0
    PROVE  [f EXCEPT !.pump = p] \in Good
  BY DEF Good, Feed

LEMMA ReadGood ==
    ASSUME NEW f \in Good, f.out # <<>>, NEW p \in Pump, p.at = "submit" => p.turn # 0,
           p.at = "return" => p.to # 0
    PROVE  [f EXCEPT !.out = Tail(@), !.pump = p] \in Good
  <1>1. f \in Feed /\ f.out \in Seq(Line) BY DEF Good, Feed
  <1>2. /\ Tail(f.out) \in Seq(Line)
        /\ \A i \in DOMAIN Tail(f.out) : i + 1 \in DOMAIN f.out /\ Tail(f.out)[i] = f.out[i + 1]
    BY <1>1
  <1>3. \A i \in DOMAIN Tail(f.out) : Tail(f.out)[i].kind = "text" => Tail(f.out)[i].turn # 0
    BY <1>2 DEF Good
  <1> QED BY <1>1, <1>2, <1>3 DEF Good, Feed

LEMMA AtGood ==
    ASSUME NEW f \in Good, NEW a \in {"join", "open", "on", "sleep", "gone"},
           NEW j \in BOOLEAN, NEW o \in BOOLEAN
    PROVE  /\ [f EXCEPT !.at = a] \in Good
           /\ [f EXCEPT !.at = a, !.online = o] \in Good
           /\ [f EXCEPT !.joined = j, !.at = a] \in Good
  BY DEF Good, Feed

LEMMA LineGood ==
    ASSUME NEW f \in Good, NEW l \in Line, l.kind = "text" => l.turn # 0
    PROVE  [f EXCEPT !.out = Append(@, l)] \in Good
  <1>1. f \in Feed /\ f.out \in Seq(Line) BY DEF Good, Feed
  <1>2. /\ Append(f.out, l) \in Seq(Line)
        /\ \A i \in DOMAIN Append(f.out, l) :
             Append(f.out, l)[i] = l \/ (i \in DOMAIN f.out /\ Append(f.out, l)[i] = f.out[i])
    BY <1>1
  <1>3. \A i \in DOMAIN Append(f.out, l) :
          Append(f.out, l)[i].kind = "text" => Append(f.out, l)[i].turn # 0
    BY <1>2 DEF Good
  <1> QED BY <1>1, <1>2, <1>3 DEF Good, Feed

LEMMA SayGood ==
    ASSUME NEW f \in Good, NEW k \in {"online", "retrying", "fatal"}
    PROVE  Say(f, k) \in Good
  <1>1. [kind |-> k, turn |-> 0] \in Line BY ModSeatAssumption DEF Line
  <1> QED BY <1>1, LineGood DEF Say

LEMMA EndsGood ==
    ASSUME NEW f \in Good
    PROVE  Retry(f) \in Good /\ Fatal(f) \in Good /\ Kill(f) \in Good
  <1>1. Say(f, "retrying") \in Good /\ Say(f, "fatal") \in Good BY SayGood
  <1>2. [Say(f, "retrying") EXCEPT !.at = "sleep"] \in Good BY <1>1, AtGood
  <1>3. [Say(f, "fatal") EXCEPT !.at = "gone"] \in Good BY <1>1, AtGood
  <1>4. Kill(f) \in Good
    <2>1. f \in Feed BY DEF Good
    <2>2. PICK e \in Seq(Line) : e = <<>> BY EmptySeq
    <2>3. \A i \in DOMAIN e : e[i].kind = "text" => e[i].turn # 0 BY <2>2
    <2>4. [f EXCEPT !.at = "gone", !.out = e] \in Good BY <2>1, <2>3 DEF Good, Feed
    <2> QED BY <2>2, <2>4 DEF Kill
  <1> QED BY <1>2, <1>3, <1>4 DEF Retry, Fatal

\* One feed changes, or one more comes.
LEMMA FeedChanges ==
    ASSUME NEW s \in Seq(Good), NEW c \in DOMAIN s, NEW g \in Good
    PROVE  /\ [s EXCEPT ![c] = g] \in Seq(Good) /\ Len([s EXCEPT ![c] = g]) = Len(s)
           /\ DOMAIN [s EXCEPT ![c] = g] = DOMAIN s
           /\ [s EXCEPT ![c] = g][c] = g
           /\ \A d \in DOMAIN s \ {c} : [s EXCEPT ![c] = g][d] = s[d]
  OBVIOUS

-----------------------------------------------------------------------------
(* Steps that preserve the invariant. *)

LEMMA ModIs ==
    ASSUME NEW m \in Mod, NEW k \in 0..MaxJoins, NEW s \in Sources, NEW z \in 0..3,
           NEW b \in BOOLEAN, NEW d \in Nat
    PROVE  /\ [m EXCEPT !.seat = k, !.from = s, !.retries = z, !.inRoomTurn = b] \in Mod
           /\ [m EXCEPT !.feed = d, !.seat = k, !.inRoomTurn = b] \in Mod
           /\ [m EXCEPT !.feed = d, !.seat = k] \in Mod
           /\ [m EXCEPT !.feed = d] \in Mod
           /\ [m EXCEPT !.retries = z] \in Mod
           /\ [m EXCEPT !.inRoomTurn = b] \in Mod
  BY DEF Mod

LEMMA UpsetType == ASSUME IInv, NEW k, Upset(k) PROVE happened' \subseteq Upsets
  BY DEF IInv, RestType, Upset

\* A step that changes one feed and nothing else, but for what went wrong.
LEMMA OneFeed ==
    ASSUME IInv, NEW c \in DOMAIN feeds, NEW g \in Good,
           feeds' = [feeds EXCEPT ![c] = g],
           UNCHANGED <<room, given, file, mod, seats, joins, session, posts, ended>>,
           happened' \subseteq Upsets
    PROVE  IInv'
  <1>1. feeds' \in Seq(Good) /\ Len(feeds') = Len(feeds) BY FeedChanges DEF IInv
  <1>2. RoomType' /\ ModType' BY <1>1 DEF IInv, RoomType, ModType
  <1>3. SeatsType' /\ RestType' /\ FlagHolds' BY DEF IInv, SeatsType, RestType, FlagHolds
  <1> QED BY <1>1, <1>2, <1>3 DEF IInv

\* One that changes the mod's variables too.
LEMMA FeedAndMod ==
    ASSUME IInv, NEW c \in DOMAIN feeds, NEW g \in Good,
           feeds' = [feeds EXCEPT ![c] = g],
           mod' \in Mod, mod'.feed <= Len(feeds), mod'.seat <= Len(seats), FlagHolds',
           UNCHANGED <<room, given, file, seats, joins>>,
           session' \in [turn : 0..Own, by : 0..MaxJoins], posts' \subseteq Post,
           UNCHANGED ended, happened' \subseteq Upsets
    PROVE  IInv'
  <1>1. feeds' \in Seq(Good) /\ Len(feeds') = Len(feeds) BY FeedChanges DEF IInv
  <1>2. RoomType' /\ ModType' BY <1>1 DEF IInv, RoomType, ModType
  <1>3. SeatsType' /\ RestType' BY DEF IInv, SeatsType, RestType
  <1> QED BY <1>1, <1>2, <1>3 DEF IInv

LEMMA FeedIsGood == ASSUME IInv, NEW c \in DOMAIN feeds PROVE feeds[c] \in Good /\ feeds[c] \in Feed
  BY DEF IInv, Good

LEMMA JoinKeeps ==
    ASSUME IInv, NEW place \in Places, NEW from \in Sources, Join(place, from),
           Len(feeds') = Len(feeds)
    PROVE  ModType' /\ SeatsType' /\ FlagHolds'
  <1>1. mod \in Mod /\ seats \in Seq(Places) /\ Len(seats) < MaxJoins
    BY DEF IInv, ModType, SeatsType, Join
  <1>2. seats' \in Seq(Places) /\ Len(seats') = Len(seats) + 1 BY <1>1 DEF Join
  <1>3. Len(seats) + 1 \in 0..MaxJoins BY <1>1, ModSeatAssumption
  <1>4. /\ mod' \in Mod /\ mod'.feed = mod.feed /\ mod'.seat = Len(seats) + 1
        /\ mod'.inRoomTurn = FALSE
    <2>1. PICK n : n = Len(seats) + 1 OBVIOUS
    <2>2. mod' = [mod EXCEPT !.seat = n, !.from = from, !.retries = 0, !.inRoomTurn = FALSE]
      BY <2>1 DEF Join
    <2>3. n \in 0..MaxJoins BY <1>3, <2>1
    <2>4. mod' \in Mod
      <3>1. 0 \in 0..3 /\ FALSE \in BOOLEAN OBVIOUS
      <3> QED BY <1>1, <2>2, <2>3, <3>1, ModIs
    <2>5. mod'.feed = mod.feed BY <1>1, <2>2 DEF Mod
    <2>6. mod'.seat = n BY <1>1, <2>2 DEF Mod
    <2>7. mod'.inRoomTurn = FALSE BY <1>1, <2>2 DEF Mod
    <2> QED BY <2>1, <2>4, <2>5, <2>6, <2>7
  <1>5. ModType' BY <1>4 DEF IInv, ModType
  <1>6. SeatsType' BY <1>1, <1>2, <1>3, <1>4, ModSeatAssumption DEF SeatsType
  <1> QED BY <1>4, <1>5, <1>6 DEF FlagHolds

LEMMA SpawnKeeps ==
    ASSUME IInv, NEW s \in Seq(Good), Len(s) = Len(feeds), Spawn
    PROVE  /\ s \o Spawned \in Seq(Good) /\ Len(s \o Spawned) >= Len(s)
           /\ mod' \in Mod /\ mod'.feed <= Len(s \o Spawned)
           /\ mod'.seat = mod.seat /\ mod'.inRoomTurn = mod.inRoomTurn
  <1>1. mod \in Mod /\ mod.feed <= Len(feeds) /\ Len(feeds) \in Nat
    BY DEF IInv, ModType
  <1>2. CASE mod.seat = 0
    <2>1. Spawned = <<>> /\ mod' = mod BY <1>2 DEF Spawned, Spawn
    <2>2. s \o Spawned = s BY <2>1
    <2> QED BY <1>1, <2>1, <2>2
  <1>3. CASE mod.seat # 0
    <2>1. seats[mod.seat] \in Places BY <1>1, <1>3 DEF IInv, SeatsType, Mod
    <2>2. PICK new : new = [to |-> seats[mod.seat], at |-> "join", joined |-> FALSE,
                            online |-> FALSE, out |-> <<>>, pump |-> Reading] OBVIOUS
    <2>3. PICK e \in Seq(Line) : e = <<>> BY EmptySeq
    <2>4. new \in Good
      <3>1. new.out = e /\ DOMAIN e = {} BY <2>2, <2>3
      <3>2. new \in Feed BY <2>1, <2>2, <2>3, ReadingGood DEF Feed
      <3>3. new.pump.at = "read" BY <2>2 DEF Reading
      <3> QED BY <3>1, <3>2, <3>3 DEF Good
    <2>5. Spawned = <<new>> BY <1>3, <2>2 DEF Spawned
    <2>6. <<new>> \in Seq(Good) /\ Len(<<new>>) = 1 BY <2>4
    <2>7. s \o <<new>> \in Seq(Good) /\ Len(s \o <<new>>) = Len(s) + 1 BY <2>6
    <2>8. mod' = [mod EXCEPT !.feed = Len(feeds) + 1] BY <1>3 DEF Spawn
    <2>9. mod' \in Mod /\ mod'.feed = Len(feeds) + 1 /\ mod'.seat = mod.seat
          /\ mod'.inRoomTurn = mod.inRoomTurn
      BY <1>1, <2>8 DEF Mod
    <2> QED BY <1>1, <2>5, <2>7, <2>9
  <1> QED BY <1>2, <1>3

LEMMA InitHolds == Init => IInv
  <1> SUFFICES ASSUME Init PROVE IInv OBVIOUS
  <1>1. /\ mod \in Mod /\ mod.feed = 0 /\ mod.seat = 0 /\ mod.inRoomTurn = FALSE
    <2>1. mod \in [env : 0..1, options : 0..1, seat : {0}, from : {"none"},
                   feed : {0}, inRoomTurn : {FALSE}, retries : {0}]
      BY DEF Init
    <2>2. 0 \in 0..MaxJoins /\ 0 \in Nat /\ FALSE \in BOOLEAN /\ 0 \in 0..3
      BY ModSeatAssumption
    <2>3. "none" \in Sources BY DEF Sources
    <2>4. /\ {0} \subseteq 0..MaxJoins /\ {0} \subseteq Nat /\ {FALSE} \subseteq BOOLEAN
          /\ {0} \subseteq 0..3 /\ {"none"} \subseteq Sources
      BY <2>2, <2>3, Zenon
    <2>5. mod \in Mod BY <2>1, <2>4, Zenon DEF Mod
    <2>6. mod.feed \in {0} /\ mod.seat \in {0} /\ mod.inRoomTurn \in {FALSE} BY <2>1, Zenon
    <2> QED BY <2>5, <2>6, Zenon
  <1>2. feeds = <<>> /\ seats = <<>> /\ feeds \in Seq(Good) /\ seats \in Seq(Places)
    BY EmptySeq DEF Init
  <1>3. 1 \in Places /\ 0 \in 0..MaxTurns /\ 0 \in 0..Own /\ 0 \in 0..MaxJoins
        /\ 0..1 \subseteq 0..(MaxMoves + 1)
    BY ModSeatAssumption DEF Places, Own
  <1>4. RoomType
    <2>1. PICK h \in Nat : h = 0 OBVIOUS
    <2>2. PICK z \in 0..MaxTurns : z = 0 BY <1>3
    <2>3. room = [at |-> 1, holder |-> h, cut |-> FALSE, turn |-> z] BY <2>1, <2>2 DEF Init
    <2>4. room \in Room BY <1>3, <2>3 DEF Room
    <2>5. room.holder = 0 BY <2>1, <2>3
    <2> QED BY <1>2, <2>4, <2>5 DEF RoomType
  <1>5. ModType /\ SeatsType /\ FlagHolds
    BY <1>1, <1>2, ModSeatAssumption DEF ModType, SeatsType, FlagHolds
  <1>6. joins \in [Joiners -> {"idle", "find", "register"}] BY DEF Init
  <1>7. session \in [turn : 0..Own, by : 0..MaxJoins] BY <1>3 DEF Init
  <1>8. RestType BY <1>3, <1>6, <1>7 DEF Init, RestType
  <1> QED BY <1>2, <1>4, <1>5, <1>8 DEF IInv

LEMMA FeedJoinsKeeps == ASSUME IInv, NEW c \in DOMAIN feeds, FeedJoins(c) PROVE IInv'
  <1>1. PICK f \in IF feeds[c].to = room.at
                   THEN {[feeds[c] EXCEPT !.joined = TRUE, !.at = "open"]}
                   ELSE {Retry(feeds[c]), Fatal(feeds[c])} : feeds' = [feeds EXCEPT ![c] = f]
    BY DEF FeedJoins
  <1>2. f \in Good BY <1>1, FeedIsGood, AtGood, EndsGood
  <1>3. happened' \subseteq Upsets BY DEF FeedJoins, IInv, RestType
  <1> QED BY <1>1, <1>2, <1>3, OneFeed DEF FeedJoins

LEMMA FeedOpensKeeps == ASSUME IInv, NEW c \in DOMAIN feeds, FeedOpens(c) PROVE IInv'
  <1>1. feeds[c] \in Good BY FeedIsGood
  <1>2. happened' \subseteq Upsets BY DEF FeedOpens, IInv, RestType
  <1>3. CASE feeds[c].to = room.at /\ room.holder = 0
    <2>1. PICK on : on = [Say(feeds[c], "online") EXCEPT !.at = "on", !.online = TRUE] OBVIOUS
    <2>2. on \in Good BY <1>1, <2>1, SayGood, AtGood
    <2>3. /\ feeds' = [feeds EXCEPT ![c] = on] /\ room' = [room EXCEPT !.holder = c, !.cut = FALSE]
          /\ UNCHANGED <<given, file, mod, seats, joins, session, posts, ended>>
      BY <1>3, <2>1 DEF FeedOpens
    <2>4. feeds' \in Seq(Good) /\ Len(feeds') = Len(feeds) BY <2>2, <2>3, FeedChanges DEF IInv
    <2>5. c \in Nat /\ c <= Len(feeds) BY DEF IInv
    <2>6. room' \in Room /\ room'.holder = c BY <2>3, <2>5 DEF IInv, RoomType, Room
    <2>7. RoomType' /\ ModType' BY <2>3, <2>4, <2>5, <2>6 DEF IInv, RoomType, ModType
    <2>8. SeatsType' /\ RestType' /\ FlagHolds'
      BY <1>2, <2>3 DEF IInv, SeatsType, RestType, FlagHolds
    <2> QED BY <2>4, <2>7, <2>8 DEF IInv
  <1>4. CASE ~(feeds[c].to = room.at /\ room.holder = 0)
    <2>1. PICK g \in IF feeds[c].to # room.at THEN {Retry(feeds[c]), Fatal(feeds[c])}
                     ELSE IF feeds[c].online THEN {Retry(feeds[c])} ELSE {Fatal(feeds[c])} :
            feeds' = [feeds EXCEPT ![c] = g]
      BY <1>4 DEF FeedOpens
    <2>2. g \in Good BY <1>1, <2>1, EndsGood
    <2>3. UNCHANGED <<room, given, file, mod, seats, joins, session, posts, ended>>
      BY <1>4 DEF FeedOpens
    <2> QED BY <1>2, <2>1, <2>2, <2>3, OneFeed
  <1> QED BY <1>3, <1>4

\* The other steps of a feed process.
LEMMA FeedKeeps ==
    ASSUME IInv, NEW c \in DOMAIN feeds,
           FeedFails(c) \/ FeedLost(c) \/ FeedDies(c) \/ FeedWakes(c)
    PROVE  IInv'
  <1>1. feeds[c] \in Good BY FeedIsGood
  <1>2. happened' \subseteq Upsets
    BY UpsetType DEF FeedFails, FeedLost, FeedDies, FeedWakes, IInv, RestType
  <1>3. UNCHANGED <<room, given, file, mod, seats, joins, session, posts, ended>>
    BY DEF FeedFails, FeedLost, FeedDies, FeedWakes
  <1>4. CASE FeedFails(c) \/ FeedLost(c)
    <2>1. Retry(feeds[c]) \in Good /\ feeds' = [feeds EXCEPT ![c] = Retry(feeds[c])]
      BY <1>1, <1>4, EndsGood DEF FeedFails, FeedLost
    <2> QED BY <1>2, <1>3, <2>1, OneFeed
  <1>5. CASE FeedDies(c) \/ FeedWakes(c)
    <2>1. PICK a \in {"join", "open", "gone"} : feeds' = [feeds EXCEPT ![c].at = a]
      BY <1>5 DEF FeedDies, FeedWakes
    <2>2. [feeds[c] EXCEPT !.at = a] \in Good BY <1>1, AtGood
    <2>3. feeds' = [feeds EXCEPT ![c] = [feeds[c] EXCEPT !.at = a]] BY <2>1
    <2> QED BY <1>2, <1>3, <2>2, <2>3, OneFeed
  <1> QED BY <1>4, <1>5

\* A line read, with the pump back at the next.
LEMMA AfterGood ==
    ASSUME NEW f \in Good, f.out # <<>>, NEW p \in Pump, p.at = "read" \/ p.at = "file"
    PROVE  [f EXCEPT !.out = Tail(@), !.pump = p] \in Good
  BY ReadGood

LEMMA FollowGood == \A c : Follow(c) \in Pump /\ (Follow(c).at = "read" \/ Follow(c).at = "file")
  BY ReadingGood DEF Follow, Reading, Pump

LEMMA ReadsStatusKeeps == ASSUME IInv, NEW c \in DOMAIN feeds, ReadsStatus(c) PROVE IInv'
  <1>1. feeds[c] \in Good /\ feeds[c].out # <<>> BY FeedIsGood DEF ReadsStatus, Reads
  <1>2. mod \in Mod BY DEF IInv, ModType
  <1>3. PICK p \in {Reading, Follow(c)} : feeds' = After(c, p) BY DEF ReadsStatus
  <1>4. p \in Pump /\ (p.at = "read" \/ p.at = "file")
    BY <1>3, ReadingGood, FollowGood DEF Reading
  <1>5. PICK g : g = [feeds[c] EXCEPT !.out = Tail(@), !.pump = p] OBVIOUS
  <1>6. g \in Good BY <1>1, <1>4, <1>5, AfterGood
  <1>7. feeds' = [feeds EXCEPT ![c] = g] BY <1>3, <1>5 DEF After
  <1>8. \E z \in 0..3 : mod' = [mod EXCEPT !.retries = z]
    <2>1. mod.retries \in 0..3 BY <1>2 DEF Mod
    <2>2. CASE mod' = [mod EXCEPT !.retries = 0] BY <2>2
    <2>3. CASE mod' = [mod EXCEPT !.retries = IF ~(mod.retries + 1 >= 3) THEN @ + 1
                                              ELSE IF mod.from = "file" THEN 0 ELSE 3]
      <3>1. PICK z \in 0..3 : z = (IF ~(mod.retries + 1 >= 3) THEN mod.retries + 1
                                   ELSE IF mod.from = "file" THEN 0 ELSE 3) BY <2>1
      <3> QED BY <2>3, <3>1
    <2>4. CASE mod' = [mod EXCEPT !.retries = IF mod.from = "file" THEN 0 ELSE @]
      <3>1. PICK z \in 0..3 : z = (IF mod.from = "file" THEN 0 ELSE mod.retries) BY <2>1
      <3> QED BY <2>4, <3>1
    <2> QED BY <2>2, <2>3, <2>4 DEF ReadsStatus
  <1>9. mod' \in Mod /\ mod'.feed = mod.feed /\ mod'.seat = mod.seat
        /\ mod'.inRoomTurn = mod.inRoomTurn
    <2>1. PICK z \in 0..3 : mod' = [mod EXCEPT !.retries = z] BY <1>8
    <2> QED BY <1>2, <2>1 DEF Mod
  <1>10. UNCHANGED <<room, given, file, seats, joins, session, posts, ended, happened>>
    BY DEF ReadsStatus
  <1>11. FlagHolds' BY <1>9, <1>10 DEF IInv, FlagHolds
  <1> QED BY <1>6, <1>7, <1>9, <1>10, <1>11, FeedAndMod
          DEF IInv, ModType, SeatsType, RestType

LEMMA ReadsTurnKeeps == ASSUME IInv, NEW c \in DOMAIN feeds, ReadsTurn(c) PROVE IInv'
  <1>1. feeds[c] \in Good /\ feeds[c] \in Feed /\ feeds[c].out # <<>>
    BY FeedIsGood DEF ReadsTurn, Reads
  <1>2. PICK line : line = Head(feeds[c].out) OBVIOUS
  <1>3. line \in Line /\ line.kind = "text" /\ line.turn # 0
    <2>1. feeds[c].out \in Seq(Line) BY <1>1 DEF Feed
    <2>2. 1 \in DOMAIN feeds[c].out /\ line = feeds[c].out[1] BY <1>1, <1>2, <2>1
    <2> QED BY <1>1, <1>2, <2>1, <2>2 DEF ReadsTurn, Good
  <1>4. mod \in Mod BY DEF IInv, ModType
  <1>5. PICK p : p = [Reading EXCEPT !.at = "submit", !.turn = line.turn, !.by = mod.seat]
    OBVIOUS
  <1>6. p \in Pump /\ p.at = "submit" /\ p.turn # 0
    BY <1>3, <1>4, <1>5, ReadingGood DEF Reading, Pump, Line, Mod
  <1>7. PICK g : g = [feeds[c] EXCEPT !.out = Tail(@), !.pump = p] OBVIOUS
  <1>8. g \in Good BY <1>1, <1>6, <1>7, ReadGood
  <1>9. feeds' = [feeds EXCEPT ![c] = g] BY <1>2, <1>5, <1>7 DEF ReadsTurn, After
  <1>10. happened' \subseteq Upsets BY DEF ReadsTurn, IInv, RestType
  <1> QED BY <1>8, <1>9, <1>10, OneFeed DEF ReadsTurn

LEMMA DropsKeeps == ASSUME IInv, NEW c \in DOMAIN feeds, Drops(c) PROVE IInv'
  <1>1. feeds[c] \in Good /\ feeds[c].out # <<>> BY FeedIsGood DEF Drops, Reads
  <1>2. PICK g : g = [feeds[c] EXCEPT !.out = Tail(@), !.pump = Reading] OBVIOUS
  <1>3. g \in Good BY <1>1, <1>2, ReadingGood, AfterGood DEF Reading
  <1>4. feeds' = [feeds EXCEPT ![c] = g] BY <1>2 DEF Drops, After
  <1>5. happened' \subseteq Upsets BY DEF Drops, IInv, RestType
  <1> QED BY <1>3, <1>4, <1>5, OneFeed DEF Drops

\* The mod has no feed and no seat any more.
LEMMA NoSeatMod ==
    ASSUME IInv, NEW b \in BOOLEAN, b => mod.inRoomTurn,
           mod' = [mod EXCEPT !.feed = 0, !.seat = 0, !.inRoomTurn = b],
           UNCHANGED session
    PROVE  mod' \in Mod /\ mod'.feed = 0 /\ mod'.seat = 0 /\ FlagHolds'
  <1>1. mod \in Mod BY DEF IInv, ModType
  <1>2. PICK z \in 0..MaxJoins : z = 0 BY ModSeatAssumption
  <1>3. mod' = [mod EXCEPT !.feed = z, !.seat = z, !.inRoomTurn = b] /\ z \in Nat BY <1>2
  <1>4. mod' \in Mod BY <1>1, <1>3 DEF Mod
  <1>5. mod'.feed = z /\ mod'.seat = z /\ mod'.inRoomTurn = b BY <1>1, <1>3 DEF Mod
  <1> QED BY <1>2, <1>4, <1>5 DEF IInv, FlagHolds

LEMMA PumpEndsKeeps == ASSUME IInv, NEW c \in DOMAIN feeds, PumpEnds(c) PROVE IInv'
  <1>1. feeds[c] \in Good /\ feeds[c] \in Feed BY FeedIsGood
  <1>2. PICK p : p = [feeds[c].pump EXCEPT !.at = "done"] OBVIOUS
  <1>3. p \in Pump /\ p.at = "done" BY <1>1, <1>2 DEF Feed, Pump
  <1>4. PICK g : g = [feeds[c] EXCEPT !.pump = p] OBVIOUS
  <1>5. g \in Good BY <1>1, <1>3, <1>4, PumpGood
  <1>6. feeds' = [feeds EXCEPT ![c] = g] BY <1>2, <1>4 DEF PumpEnds
  <1>7. UNCHANGED <<room, given, file, seats, joins, session, posts, ended, happened>>
    BY DEF PumpEnds
  <1>8. mod' \in Mod /\ mod'.feed <= Len(feeds) /\ mod'.seat <= Len(seats) /\ FlagHolds'
    <2>1. CASE mod.feed = c
      <3>1. mod' = [mod EXCEPT !.feed = 0, !.seat = 0, !.inRoomTurn = FALSE]
        BY <2>1 DEF PumpEnds
      <3>2. mod' \in Mod /\ mod'.feed = 0 /\ mod'.seat = 0 /\ FlagHolds'
        BY <1>7, <3>1, NoSeatMod
      <3>3. Len(feeds) \in Nat /\ Len(seats) \in Nat BY DEF IInv, SeatsType
      <3> QED BY <3>2, <3>3
    <2>2. CASE mod.feed # c
      <3>1. mod' = mod BY <2>2 DEF PumpEnds
      <3> QED BY <1>7, <3>1 DEF IInv, ModType, SeatsType, FlagHolds
    <2> QED BY <2>1, <2>2
  <1> QED BY <1>5, <1>6, <1>7, <1>8, FeedAndMod DEF IInv, RestType

LEMMA FollowSeatFileKeeps ==
    ASSUME IInv, NEW c \in DOMAIN feeds, FollowSeatFile(c) PROVE IInv'
  <1>1. feeds[c] \in Good BY FeedIsGood
  <1>2. UNCHANGED <<room, given, file, seats, joins, session, posts, ended, happened>>
    BY DEF FollowSeatFile
  <1>3. CASE file = 0 \/ mod.feed # c \/ file = seats[mod.seat]
    <2>1. PICK g : g = [feeds[c] EXCEPT !.pump = Reading] OBVIOUS
    <2>2. g \in Good BY <1>1, <2>1, ReadingGood, PumpGood DEF Reading
    <2>3. feeds' = [feeds EXCEPT ![c] = g] /\ mod' = mod BY <1>3, <2>1 DEF FollowSeatFile
    <2>4. happened' \subseteq Upsets BY <1>2 DEF IInv, RestType
    <2> QED BY <1>2, <2>2, <2>3, <2>4, OneFeed
  <1>4. CASE ~(file = 0 \/ mod.feed # c \/ file = seats[mod.seat])
    <2>1. PICK p : p = [Reading EXCEPT !.at = "return", !.to = file] OBVIOUS
    <2>2. p \in Pump /\ p.at = "return" /\ p.to # 0
      BY <1>4, <2>1, ReadingGood DEF IInv, RestType, Reading, Pump
    <2>3. PICK g : g = [Kill(feeds[c]) EXCEPT !.pump = p] OBVIOUS
    <2>4. g \in Good BY <1>1, <2>2, <2>3, EndsGood, PumpGood
    <2>5. feeds' = [feeds EXCEPT ![c] = g] BY <1>4, <2>1, <2>3 DEF FollowSeatFile
    <2>6. mod' \in Mod /\ mod'.feed = 0 /\ mod'.seat = 0 /\ FlagHolds'
      <3>1. mod \in Mod /\ mod.inRoomTurn \in BOOLEAN BY DEF IInv, ModType, Mod
      <3>2. mod' = [mod EXCEPT !.feed = 0, !.seat = 0, !.inRoomTurn = mod.inRoomTurn]
        BY <1>4, <3>1 DEF FollowSeatFile, Mod
      <3> QED BY <1>2, <3>1, <3>2, NoSeatMod
    <2>7. Len(feeds) \in Nat /\ Len(seats) \in Nat BY DEF IInv, SeatsType
    <2>8. mod'.feed <= Len(feeds) /\ mod'.seat <= Len(seats) BY <2>6, <2>7
    <2>9. session' \in [turn : 0..Own, by : 0..MaxJoins] /\ posts' \subseteq Post
          /\ happened' \subseteq Upsets
      BY <1>2 DEF IInv, RestType
    <2> QED BY <1>2, <2>4, <2>5, <2>6, <2>8, <2>9, FeedAndMod
  <1> QED BY <1>3, <1>4

LEMMA ReturnedKeeps == ASSUME IInv, NEW c \in DOMAIN feeds, Returned(c) PROVE IInv'
  <1>1. feeds[c] \in Good /\ feeds[c] \in Feed BY FeedIsGood
  <1>2. PICK p : p = [Reading EXCEPT !.at = "register"] OBVIOUS
  <1>3. p \in Pump /\ p.at = "register" BY <1>2, ReadingGood DEF Reading, Pump
  <1>4. PICK g : g = [feeds[c] EXCEPT !.pump = p] OBVIOUS
  <1>5. g \in Good BY <1>1, <1>3, <1>4, PumpGood
  <1>6. feeds' = [feeds EXCEPT ![c] = g] BY <1>2, <1>4 DEF Returned
  <1>7. feeds' \in Seq(Good) /\ Len(feeds') = Len(feeds) BY <1>5, <1>6, FeedChanges DEF IInv
  <1>8. feeds[c].pump.to \in Places
    <2>1. feeds[c].pump.at = "return" BY DEF Returned
    <2>2. feeds[c].pump.to \in 0..(MaxMoves + 1) /\ feeds[c].pump.to # 0
      BY <1>1, <2>1 DEF Good, Feed, Pump
    <2> QED BY <2>2 DEF Places
  <1>9. "file" \in Sources BY DEF Sources
  <1>10. ModType' /\ SeatsType' /\ FlagHolds' BY <1>7, <1>8, <1>9, JoinKeeps DEF Returned
  <1>11. UNCHANGED <<room, given, file, joins, session, posts, ended, happened>> BY DEF Returned
  <1>12. RoomType' /\ RestType' BY <1>7, <1>11 DEF IInv, RoomType, RestType
  <1> QED BY <1>7, <1>10, <1>12 DEF IInv

\* A spawn at the end of a join, by a pump (which left s) or a command.
LEMMA SpawnStep ==
    ASSUME IInv, NEW s \in Seq(Good), Len(s) = Len(feeds), Spawn, feeds' = s \o Spawned,
           UNCHANGED <<room, given, file, seats, session, posts, ended, happened>>,
           joins' \in [Joiners -> {"idle", "find", "register"}]
    PROVE  IInv'
  <1>1. /\ feeds' \in Seq(Good) /\ Len(feeds') >= Len(feeds)
        /\ mod' \in Mod /\ mod'.feed <= Len(feeds')
        /\ mod'.seat = mod.seat /\ mod'.inRoomTurn = mod.inRoomTurn
    BY SpawnKeeps
  <1>2. ModType' BY <1>1 DEF ModType
  <1>3. RoomType'
    <2>1. room \in Room /\ room.holder \in Nat /\ room.holder <= Len(feeds) /\ room' = room
      BY DEF IInv, RoomType, Room
    <2>2. Len(feeds) \in Nat /\ Len(feeds') \in Nat BY <1>1 DEF IInv
    <2> QED BY <1>1, <2>1, <2>2 DEF RoomType
  <1>4. SeatsType' /\ RestType' /\ FlagHolds'
    BY <1>1 DEF IInv, SeatsType, RestType, FlagHolds
  <1> QED BY <1>1, <1>2, <1>3, <1>4 DEF IInv

LEMMA RejoinedKeeps == ASSUME IInv, NEW c \in DOMAIN feeds, Rejoined(c) PROVE IInv'
  <1>1. feeds[c] \in Good BY FeedIsGood
  <1>2. PICK p : p = [Reading EXCEPT !.at = "done"] OBVIOUS
  <1>3. p \in Pump /\ p.at = "done" BY <1>2, ReadingGood DEF Reading, Pump
  <1>4. PICK g : g = [feeds[c] EXCEPT !.pump = p] OBVIOUS
  <1>5. g \in Good BY <1>1, <1>3, <1>4, PumpGood
  <1>6. PICK s : s = [feeds EXCEPT ![c] = g] OBVIOUS
  <1>7. s \in Seq(Good) /\ Len(s) = Len(feeds) BY <1>5, <1>6, FeedChanges DEF IInv
  <1>8. feeds' = s \o Spawned BY <1>2, <1>4, <1>6 DEF Rejoined
  <1>9. UNCHANGED <<room, given, file, seats, joins, session, posts, ended, happened>>
        /\ Spawn
    BY DEF Rejoined
  <1>10. joins' \in [Joiners -> {"idle", "find", "register"}] BY <1>9 DEF IInv, RestType
  <1> QED BY <1>7, <1>8, <1>9, <1>10, SpawnStep

LEMMA RegisteredKeeps == ASSUME IInv, NEW j \in Joiners, Registered(j) PROVE IInv'
  <1>1. feeds \in Seq(Good) BY DEF IInv
  <1>2. joins' \in [Joiners -> {"idle", "find", "register"}] BY DEF Registered, IInv, RestType
  <1> QED BY <1>1, <1>2, SpawnStep DEF Registered

LEMMA FindSeatKeeps == ASSUME IInv, NEW j \in Joiners, FindSeat(j) PROVE IInv'
  <1>1. joins' \in [Joiners -> {"idle", "find", "register"}] BY DEF FindSeat, IInv, RestType
  <1>2. UNCHANGED <<room, given, file, feeds, session, posts, ended, happened>> BY DEF FindSeat
  <1>3. RoomType' /\ RestType' BY <1>1, <1>2 DEF IInv, RoomType, RestType
  <1>4. ModType' /\ SeatsType' /\ FlagHolds'
    <2>1. CASE UNCHANGED <<mod, seats>>
      BY <1>2, <2>1 DEF IInv, ModType, SeatsType, FlagHolds
    <2>2. CASE ~UNCHANGED <<mod, seats>>
      <3>1. mod \in Mod BY DEF IInv, ModType
      <3>2. mod.env \in 0..1 /\ mod.options \in 0..1 /\ file \in 0..(MaxMoves + 1)
        BY <3>1 DEF Mod, IInv, RestType
      <3>3. \A k \in 0..(MaxMoves + 1) : k # 0 => k \in Places BY DEF Places
      <3>4. 1 \in Places BY ModSeatAssumption DEF Places
      <3>5. CASE mod.env # 0
        <4>1. Join(mod.env, "env") BY <2>2, <3>5 DEF FindSeat
        <4>2. mod.env \in Places BY <3>2, <3>4, <3>5
        <4> QED BY <1>2, <4>1, <4>2, JoinKeeps DEF Sources
      <3>6. CASE mod.env = 0 /\ file # 0
        <4>1. Join(file, "file") BY <2>2, <3>6 DEF FindSeat
        <4>2. file \in Places BY <3>2, <3>3, <3>6
        <4> QED BY <1>2, <4>1, <4>2, JoinKeeps DEF Sources
      <3>7. CASE mod.env = 0 /\ file = 0 /\ mod.options # 0
        <4>1. Join(mod.options, "options") BY <2>2, <3>7 DEF FindSeat
        <4>2. mod.options \in Places BY <3>2, <3>4, <3>7
        <4> QED BY <1>2, <4>1, <4>2, JoinKeeps DEF Sources
      <3>8. CASE mod.env = 0 /\ file = 0 /\ mod.options = 0
        BY <2>2, <3>8 DEF FindSeat
      <3> QED BY <3>5, <3>6, <3>7, <3>8
    <2> QED BY <2>1, <2>2
  <1> QED BY <1>2, <1>3, <1>4 DEF IInv

LEMMA RoomJoinKeeps == ASSUME IInv, NEW j \in Joiners, RoomJoin(j) PROVE IInv'
  <1>1. joins' \in [Joiners -> {"idle", "find", "register"}] BY DEF RoomJoin, IInv, RestType
  <1>2. happened' \subseteq Upsets BY UpsetType DEF RoomJoin, IInv, RestType
  <1>3. UNCHANGED <<room, given, file, feeds, mod, seats, session, posts, ended>>
    BY DEF RoomJoin
  <1> QED BY <1>1, <1>2, <1>3 DEF IInv, RoomType, ModType, SeatsType, RestType, FlagHolds

LEMMA RoomLeaveKeeps == ASSUME IInv, RoomLeave PROVE IInv'
  <1>1. mod \in Mod /\ mod.feed \in Nat /\ mod.feed # 0 /\ mod.feed <= Len(feeds)
    BY DEF IInv, ModType, Mod, RoomLeave
  <1>2. PICK c \in DOMAIN feeds : c = mod.feed BY <1>1 DEF IInv
  <1>3. PICK g : g = Kill(feeds[c]) OBVIOUS
  <1>4. g \in Good BY <1>3, FeedIsGood, EndsGood
  <1>5. feeds' = [feeds EXCEPT ![c] = g] BY <1>2, <1>3 DEF RoomLeave
  <1>6. UNCHANGED <<room, given, file, seats, joins, session, posts, ended>> BY DEF RoomLeave
  <1>7. mod' \in Mod /\ mod'.feed = 0 /\ mod'.seat = 0 /\ FlagHolds'
    <2>1. mod' = [mod EXCEPT !.feed = 0, !.seat = 0, !.inRoomTurn = FALSE] BY DEF RoomLeave
    <2> QED BY <1>6, <2>1, NoSeatMod
  <1>8. Len(feeds) \in Nat /\ Len(seats) \in Nat BY DEF IInv, SeatsType
  <1>9. mod'.feed <= Len(feeds) /\ mod'.seat <= Len(seats) BY <1>7, <1>8
  <1>10. session' \in [turn : 0..Own, by : 0..MaxJoins] /\ posts' \subseteq Post
    BY <1>6 DEF IInv, RestType
  <1>11. happened' \subseteq Upsets BY UpsetType DEF RoomLeave
  <1> QED BY <1>4, <1>5, <1>6, <1>7, <1>9, <1>10, <1>11, FeedAndMod

\* What the mod posts, while it has a seat.
LEMMA PostedType ==
    ASSUME IInv, mod.seat # 0, NEW turn \in Turns \cup {Own}, NEW kind \in {"stop", "closing"}
    PROVE  Posted(kind, turn) \in Post
  <1>1. mod \in Mod /\ mod.seat \in DOMAIN seats /\ seats \in Seq(Places)
    BY DEF IInv, ModType, SeatsType, Mod
  <1>2. seats[mod.seat] \in Places BY <1>1
  <1> QED BY <1>2 DEF Posted, Post

LEMMA ClosingType ==
    ASSUME IInv, NEW turn \in Turns \cup {Own} PROVE Closing(turn) \subseteq Post
  BY PostedType DEF Closing

LEMMA ModFlag ==
    ASSUME NEW m \in Mod, NEW b \in BOOLEAN
    PROVE  LET n == [m EXCEPT !.inRoomTurn = b]
           IN n \in Mod /\ n.inRoomTurn = b /\ n.feed = m.feed /\ n.seat = m.seat
  BY DEF Mod

LEMMA StartsKeeps == ASSUME IInv, NEW c \in DOMAIN feeds, Starts(c) PROVE IInv'
  <1>1. feeds[c] \in Good /\ feeds[c] \in Feed BY FeedIsGood
  <1>2. PICK p \in Pump : p = feeds[c].pump BY <1>1 DEF Feed
  <1>3. p.turn \in Turns /\ p.by \in 0..MaxJoins
    <2>1. p.at = "submit" BY <1>2 DEF Starts
    <2> QED BY <1>1, <1>2, <2>1 DEF Good, Pump, Turns
  <1>4. mod \in Mod /\ mod.inRoomTurn = FALSE
    <2>1. session.turn = 0 BY DEF Starts
    <2>2. session.turn \notin Turns BY <2>1 DEF Turns
    <2> QED BY <2>2 DEF IInv, FlagHolds, ModType, Mod
  <1>5. PICK b \in BOOLEAN : b = (mod.seat = p.by) OBVIOUS
  <1>6. mod' = [mod EXCEPT !.inRoomTurn = b] BY <1>2, <1>4, <1>5, Zenon DEF Starts
  <1>7. mod' \in Mod /\ mod'.inRoomTurn = b /\ mod'.feed = mod.feed /\ mod'.seat = mod.seat
    BY <1>4, <1>6, ModFlag
  <1>8. session' = [turn |-> p.turn, by |-> p.by] BY <1>2 DEF Starts
  <1>9. session' \in [turn : 0..Own, by : 0..MaxJoins] /\ session'.turn = p.turn
        /\ session'.by = p.by
    BY <1>3, <1>8, ModSeatAssumption DEF Own, Turns
  <1>10. FlagHolds' BY <1>3, <1>5, <1>7, <1>9 DEF FlagHolds
  <1>11. PICK g : g = [feeds[c] EXCEPT !.pump = Reading] OBVIOUS
  <1>12. g \in Good BY <1>1, <1>11, ReadingGood, PumpGood DEF Reading
  <1>13. feeds' = [feeds EXCEPT ![c] = g] BY <1>11 DEF Starts
  <1>14. UNCHANGED <<room, given, file, seats, joins, posts, ended, happened>> BY DEF Starts
  <1>15. mod'.feed <= Len(feeds) /\ mod'.seat <= Len(seats) /\ posts' \subseteq Post
         /\ happened' \subseteq Upsets
    BY <1>7, <1>14 DEF IInv, ModType, SeatsType, RestType
  <1> QED BY <1>7, <1>9, <1>10, <1>12, <1>13, <1>14, <1>15, FeedAndMod

LEMMA RefusedKeeps == ASSUME IInv, NEW c \in DOMAIN feeds, Refused(c) PROVE IInv'
  <1>1. feeds[c] \in Good /\ feeds[c] \in Feed BY FeedIsGood
  <1>2. PICK p \in Pump : p = feeds[c].pump BY <1>1 DEF Feed
  <1>3. p.turn \in Turns
    <2>1. p.at = "submit" BY <1>2 DEF Refused
    <2> QED BY <1>1, <1>2, <2>1 DEF Good, Pump, Turns
  <1>4. mod \in Mod BY DEF IInv, ModType
  <1>5. UNCHANGED <<room, given, file, seats, joins, session, ended>> /\ happened' \subseteq Upsets
    BY UpsetType DEF Refused
  <1>6. PICK g : g = [feeds[c] EXCEPT !.pump = Reading] OBVIOUS
  <1>7. g \in Good BY <1>1, <1>6, ReadingGood, PumpGood DEF Reading
  <1>8. feeds' = [feeds EXCEPT ![c] = g] BY <1>6 DEF Refused
  <1>9. /\ mod' \in Mod /\ mod'.feed = mod.feed /\ mod'.seat = mod.seat
        /\ mod'.inRoomTurn => mod.inRoomTurn
        /\ posts' \subseteq Post
    <2>1. CASE mod.seat = p.by
      <3>1. mod' = [mod EXCEPT !.inRoomTurn = FALSE] /\ posts' = posts \cup Closing(p.turn)
        BY <1>2, <2>1 DEF Refused
      <3>2. Closing(p.turn) \subseteq Post BY <1>3, ClosingType
      <3> QED BY <1>4, <3>1, <3>2, ModFlag DEF IInv, RestType
    <2>2. CASE mod.seat # p.by
      <3>1. mod' = mod /\ posts' = posts BY <1>2, <2>2 DEF Refused
      <3> QED BY <1>4, <3>1 DEF IInv, RestType
    <2> QED BY <2>1, <2>2
  <1>10. FlagHolds' BY <1>5, <1>9 DEF IInv, FlagHolds
  <1>11. mod'.feed <= Len(feeds) /\ mod'.seat <= Len(seats)
         /\ session' \in [turn : 0..Own, by : 0..MaxJoins]
    BY <1>5, <1>9 DEF IInv, ModType, SeatsType, RestType
  <1> QED BY <1>5, <1>7, <1>8, <1>9, <1>10, <1>11, FeedAndMod

LEMMA OwnPromptKeeps == ASSUME IInv, OwnPrompt PROVE IInv'
  <1>1. PICK z \in 0..MaxJoins : z = 0 BY ModSeatAssumption
  <1>2. Own \in 0..Own BY ModSeatAssumption DEF Own
  <1>3. session' = [turn |-> Own, by |-> z] BY <1>1 DEF OwnPrompt
  <1>4. session' \in [turn : 0..Own, by : 0..MaxJoins] BY <1>2, <1>3
  <1>5. mod.inRoomTurn = FALSE
    <2>1. session.turn \notin Turns BY DEF OwnPrompt, Turns
    <2> QED BY <2>1 DEF IInv, FlagHolds, ModType, Mod
  <1>6. UNCHANGED <<room, given, file, feeds, mod, seats, joins, posts, ended, happened>>
    BY DEF OwnPrompt
  <1> QED BY <1>4, <1>5, <1>6 DEF IInv, RoomType, ModType, SeatsType, RestType, FlagHolds

LEMMA EndsKeeps ==
    ASSUME IInv, NEW stop \in BOOLEAN, NEW unanswered \in BOOLEAN, TurnEnds(stop, unanswered)
    PROVE  IInv'
  <1>1. session.turn \in Turns \cup {Own}
    BY ModSeatAssumption DEF IInv, RestType, TurnEnds, Turns, Own
  <1>2. PICK z \in 0..MaxJoins : z = 0 BY ModSeatAssumption
  <1>3. 0 \in 0..Own BY ModSeatAssumption DEF Own
  <1>4. session' = [turn |-> z, by |-> z] BY <1>2 DEF TurnEnds
  <1>5. session' \in [turn : 0..Own, by : 0..MaxJoins] BY <1>2, <1>3, <1>4
  <1>6. mod \in Mod BY DEF IInv, ModType
  <1>7. mod' = [mod EXCEPT !.inRoomTurn = FALSE] BY DEF TurnEnds
  <1>8. mod' \in Mod /\ mod'.feed = mod.feed /\ mod'.seat = mod.seat /\ ~mod'.inRoomTurn
    BY <1>6, <1>7, ModFlag
  <1>9. posts' \subseteq Post
    <2>1. Closing(session.turn) \subseteq Post BY <1>1, ClosingType
    <2>2. InRoomTurn => Posted("stop", session.turn) \in Post BY <1>1, PostedType DEF InRoomTurn
    <2> QED BY <2>1, <2>2 DEF TurnEnds, IInv, RestType
  <1>10. UNCHANGED <<room, given, file, feeds, seats, joins, ended, happened>> BY DEF TurnEnds
  <1>11. RoomType' /\ ModType' BY <1>8, <1>10 DEF IInv, RoomType, ModType
  <1>12. SeatsType' /\ RestType' /\ FlagHolds'
    BY <1>5, <1>8, <1>9, <1>10 DEF IInv, SeatsType, RestType, FlagHolds
  <1> QED BY <1>10, <1>11, <1>12 DEF IInv

\* A step of the room, or of what is on its way to it: the mod and the session stay,
\* and feeds are as many as before.
LEMMA RoomStep ==
    ASSUME IInv, feeds' \in Seq(Good), Len(feeds') = Len(feeds), RoomType',
           UNCHANGED <<mod, seats, joins, session>>,
           given' \in 0..MaxTurns, file' \in 0..(MaxMoves + 1), posts' \subseteq Post,
           ended' \subseteq Turns \X (Turns \cup {Own}), happened' \subseteq Upsets
    PROVE  IInv'
  <1>1. ModType' /\ SeatsType' /\ FlagHolds' BY DEF IInv, ModType, SeatsType, FlagHolds
  <1>2. RestType' BY DEF IInv, RestType
  <1> QED BY <1>1, <1>2 DEF IInv

LEMMA DeliverKeeps == ASSUME IInv, Deliver PROVE IInv'
  <1>1. given \in 0..MaxTurns /\ given < MaxTurns /\ room \in Room BY DEF Deliver, IInv, RestType, RoomType
  <1>2. PICK n \in 0..MaxTurns : n = given + 1 BY <1>1, ModSeatAssumption
  <1>3. given' = n /\ room' = [room EXCEPT !.turn = n] BY <1>2 DEF Deliver
  <1>4. room' \in Room /\ room'.holder = room.holder BY <1>1, <1>2, <1>3 DEF Room
  <1>5. feeds' \in Seq(Good) /\ Len(feeds') = Len(feeds)
    <2>1. CASE feeds' = feeds BY <2>1 DEF IInv
    <2>2. CASE feeds' # feeds
      <3>1. PICK c \in DOMAIN feeds : c = room.holder
        BY <1>1 DEF Deliver, IInv, RoomType, Room
      <3>2. PICK l : l = [kind |-> "text", turn |-> n] OBVIOUS
      <3>3. l \in Line /\ l.turn # 0 BY <1>1, <1>2, <3>2 DEF Line
      <3>4. PICK g : g = Prompted(feeds[c], n) OBVIOUS
      <3>5. g \in Good BY <3>2, <3>3, <3>4, FeedIsGood, LineGood DEF Prompted
      <3>6. feeds' = [feeds EXCEPT ![c] = g] BY <1>2, <2>2, <3>1, <3>4 DEF Deliver
      <3> QED BY <3>5, <3>6, FeedChanges DEF IInv
    <2> QED BY <2>1, <2>2
  <1>6. RoomType' BY <1>4, <1>5 DEF IInv, RoomType
  <1>7. UNCHANGED <<file, mod, seats, joins, session, posts, ended, happened>> BY DEF Deliver
  <1> QED BY <1>2, <1>3, <1>5, <1>6, <1>7, RoomStep DEF IInv, RestType

\* The room with nothing open, and no feed.
LEMMA RoomEmpty ==
    ASSUME IInv, NEW r, NEW a \in Places, NEW b \in BOOLEAN,
           r = [at |-> a, holder |-> 0, cut |-> b, turn |-> 0]
    PROVE  r \in Room /\ r.holder = 0
  <1>1. PICK h \in Nat : h = 0 OBVIOUS
  <1>2. PICK z \in 0..MaxTurns : z = 0 BY ModSeatAssumption
  <1>3. r = [at |-> a, holder |-> h, cut |-> b, turn |-> z] BY <1>1, <1>2
  <1> QED BY <1>1, <1>2, <1>3 DEF Room

LEMMA FeedClosesKeeps == ASSUME IInv, FeedCloses PROVE IInv'
  <1>1. room \in Room BY DEF IInv, RoomType
  <1>2. PICK z \in 0..MaxTurns : z = 0 BY ModSeatAssumption
  <1>3. room' = [room EXCEPT !.holder = z, !.cut = FALSE, !.turn = z] BY <1>2 DEF FeedCloses
  <1>4. room' \in Room /\ room'.holder = 0 BY <1>1, <1>2, <1>3 DEF Room
  <1>5. UNCHANGED <<given, file, feeds, mod, seats, joins, session, posts, ended, happened>>
    BY DEF FeedCloses
  <1>6. RoomType' BY <1>4, <1>5 DEF IInv, RoomType
  <1>7. feeds' \in Seq(Good) /\ Len(feeds') = Len(feeds) BY <1>5 DEF IInv
  <1> QED BY <1>5, <1>6, <1>7, RoomStep DEF IInv, RestType

LEMMA RoomTurnType ==
    ASSUME IInv, NEW z \in 0..MaxTurns, room' = [room EXCEPT !.turn = z], UNCHANGED feeds
    PROVE  RoomType'
  <1>1. room \in Room BY DEF IInv, RoomType
  <1>2. room' \in Room /\ room'.holder = room.holder BY <1>1 DEF Room
  <1> QED BY <1>2 DEF IInv, RoomType

LEMMA AnswerKeeps ==
    ASSUME IInv, NEW p \in posts, TakeStop(p) \/ TakeClosing(p) \/ PostFails(p)
    PROVE  IInv'
  <1>1. p \in Post BY DEF IInv, RestType
  <1>2. feeds' \in Seq(Good) /\ Len(feeds') = Len(feeds)
    BY DEF TakeStop, TakeClosing, PostFails, IInv
  <1>3. UNCHANGED <<given, file, feeds, mod, seats, joins, session>>
    BY DEF TakeStop, TakeClosing, PostFails
  <1>4. CASE TakeStop(p)
    <2>1. posts' \subseteq Post /\ UNCHANGED happened BY <1>4 DEF TakeStop, IInv, RestType
    <2>2. CASE p.to = room.at /\ room.turn # 0
      <3>1. PICK z \in 0..MaxTurns : z = 0 BY ModSeatAssumption
      <3>2. room' = [room EXCEPT !.turn = z] BY <1>4, <2>2, <3>1 DEF TakeStop
      <3>3. RoomType' BY <1>3, <3>2, RoomTurnType
      <3>4. room.turn \in Turns /\ p.of \in Turns \cup {Own}
        BY <1>1, <2>2 DEF IInv, RoomType, Room, Turns, Post
      <3>5. ended' \subseteq Turns \X (Turns \cup {Own})
        BY <1>4, <2>2, <3>4 DEF TakeStop, IInv, RestType
      <3> QED BY <1>2, <1>3, <2>1, <3>3, <3>5, RoomStep DEF IInv, RestType
    <2>3. CASE ~(p.to = room.at /\ room.turn # 0)
      <3>1. UNCHANGED <<room, ended>> BY <1>4, <2>3 DEF TakeStop
      <3>2. RoomType' BY <1>3, <3>1 DEF IInv, RoomType
      <3> QED BY <1>2, <1>3, <2>1, <3>1, <3>2, RoomStep DEF IInv, RestType
    <2> QED BY <2>2, <2>3
  <1>5. CASE TakeClosing(p) \/ PostFails(p)
    <2>1. UNCHANGED <<room, ended>> BY <1>5 DEF TakeClosing, PostFails
    <2>2. RoomType' BY <1>3, <2>1 DEF IInv, RoomType
    <2>3. happened' \subseteq Upsets BY <1>5, UpsetType DEF TakeClosing, PostFails, IInv, RestType
    <2>4. posts' \subseteq Post
      <3>1. p.of \in Turns \cup {Own} BY <1>1 DEF Post
      <3>2. mod.seat # 0 => Posted("stop", p.of) \in Post BY <3>1, PostedType
      <3> QED BY <1>5, <3>2 DEF TakeClosing, PostFails, IInv, RestType
    <2> QED BY <1>2, <1>3, <2>1, <2>2, <2>3, <2>4, RoomStep DEF IInv, RestType
  <1> QED BY <1>4, <1>5

LEMMA CutKeeps == ASSUME IInv, Cut PROVE IInv'
  <1>1. room' \in Room /\ room'.holder = room.holder BY DEF Cut, IInv, RoomType, Room
  <1>2. UNCHANGED <<given, file, feeds, mod, seats, joins, session, posts, ended>> BY DEF Cut
  <1>3. RoomType' BY <1>1, <1>2 DEF IInv, RoomType
  <1>4. happened' \subseteq Upsets BY UpsetType DEF Cut
  <1>5. feeds' \in Seq(Good) /\ Len(feeds') = Len(feeds) BY <1>2 DEF IInv
  <1> QED BY <1>2, <1>3, <1>4, <1>5, RoomStep DEF IInv, RestType

LEMMA MoveKeeps == ASSUME IInv, Move PROVE IInv'
  <1>1. room \in Room /\ room.at \in Places BY DEF IInv, RoomType, Room
  <1>2. PICK a \in Places : a = room.at + 1
    BY <1>1, ModSeatAssumption DEF Move, Places
  <1>3. UNCHANGED <<given, file, feeds, mod, seats, joins, session, posts, ended>> BY DEF Move
  <1>4. RoomType'
    <2>1. CASE room' = [at |-> room.at + 1, holder |-> 0, cut |-> FALSE, turn |-> 0]
      <3>1. room' \in Room /\ room'.holder = 0
        <4>1. PICK r : r = room' OBVIOUS
        <4>2. r = [at |-> a, holder |-> 0, cut |-> FALSE, turn |-> 0] BY <1>2, <2>1, <4>1
        <4>3. r \in Room /\ r.holder = 0 BY <4>2, RoomEmpty
        <4> QED BY <4>1, <4>3
      <3> QED BY <1>3, <3>1 DEF IInv, RoomType
    <2>2. CASE room' = [room EXCEPT !.at = @ + 1, !.cut = room.holder # 0]
      <3>1. PICK b \in BOOLEAN : b = (room.holder # 0) OBVIOUS
      <3>2. room' = [room EXCEPT !.at = a, !.cut = b] BY <1>2, <2>2, <3>1
      <3>3. room' \in Room /\ room'.holder = room.holder BY <1>1, <3>2 DEF Room
      <3> QED BY <1>3, <3>3 DEF IInv, RoomType
    <2> QED BY <2>1, <2>2 DEF Move
  <1>5. happened' \subseteq Upsets BY UpsetType DEF Move
  <1>6. feeds' \in Seq(Good) /\ Len(feeds') = Len(feeds) BY <1>3 DEF IInv
  <1> QED BY <1>3, <1>4, <1>5, <1>6, RoomStep DEF IInv, RestType

LEMMA WriteFileKeeps == ASSUME IInv, WriteFile PROVE IInv'
  <1>1. UNCHANGED <<room, given, feeds, mod, seats, joins, session, posts, ended, happened>>
    BY DEF WriteFile
  <1>2. file' \in 0..(MaxMoves + 1)
    BY ModSeatAssumption DEF WriteFile, IInv, RoomType, Room, Places
  <1>3. RoomType' BY <1>1 DEF IInv, RoomType
  <1>4. feeds' \in Seq(Good) /\ Len(feeds') = Len(feeds) BY <1>1 DEF IInv
  <1> QED BY <1>1, <1>2, <1>3, <1>4, RoomStep DEF IInv, RestType

LEMMA StepKeeps == IInv /\ [Next]_vars => IInv'
  <1> SUFFICES ASSUME IInv, [Next]_vars PROVE IInv' OBVIOUS
  <1>1. ASSUME NEW c \in DOMAIN feeds, FeedStep(c) \/ FeedFails(c) \/ FeedDies(c) PROVE IInv'
    BY <1>1, FeedJoinsKeeps, FeedOpensKeeps, FeedKeeps DEF FeedStep
  <1>2. ASSUME NEW c \in DOMAIN feeds, PumpStep(c) PROVE IInv'
    BY <1>2, ReadsStatusKeeps, ReadsTurnKeeps, DropsKeeps, PumpEndsKeeps, FollowSeatFileKeeps,
       ReturnedKeeps, RejoinedKeeps DEF PumpStep
  <1>3. ASSUME NEW c \in DOMAIN feeds, Starts(c) \/ Refused(c) PROVE IInv'
    BY <1>3, StartsKeeps, RefusedKeeps
  <1>4. ASSUME NEW j \in Joiners, RoomJoin(j) \/ FindSeat(j) \/ Registered(j) PROVE IInv'
    BY <1>4, RoomJoinKeeps, FindSeatKeeps, RegisteredKeeps
  <1>5. ASSUME NEW p \in posts, Answer(p) \/ PostFails(p) PROVE IInv'
    BY <1>5, AnswerKeeps DEF Answer
  <1>6. CASE RoomLeave \/ OwnPrompt \/ Ends
    BY <1>6, RoomLeaveKeeps, OwnPromptKeeps, EndsKeeps DEF Ends
  <1>7. CASE Deliver \/ FeedCloses \/ Cut \/ Move \/ WriteFile
    BY <1>7, DeliverKeeps, FeedClosesKeeps, CutKeeps, MoveKeeps, WriteFileKeeps
  <1>8. CASE UNCHANGED vars
    BY <1>8 DEF vars, IInv, RoomType, ModType, SeatsType, RestType, FlagHolds
  <1> QED BY <1>1, <1>2, <1>3, <1>4, <1>5, <1>6, <1>7, <1>8 DEF Next

\* Whatever goes wrong, in any combination: every variable keeps its type.
THEOREM TypeCorrect == Spec => []TypeOK
  <1>1. IInv /\ [Next]_vars => IInv' BY StepKeeps
  <1>2. IInv => TypeOK BY TypesAre
  <1> QED BY <1>1, <1>2, InitHolds, PTL DEF Spec

\* Hooks go to the room only during a turn that was submitted for the seat the mod
\* holds: what a late submit, a leave, a rejoin or a refusal may break
\* (src/mod/hooks/register.js:298).
THEOREM OnlyRoomTurnsAlways == Spec => []OnlyRoomTurns
  <1>1. IInv /\ [Next]_vars => IInv' BY StepKeeps
  <1>2. IInv => OnlyRoomTurns BY TypesAre
  <1> QED BY <1>1, <1>2, InitHolds, PTL DEF Spec

-----------------------------------------------------------------------------
(* No feed is left behind. *)

Alive(c) == feeds[c].at # "gone"
Busy(c)  == feeds[c].pump.at \in {"return", "register"}

\* Joins do not overlap: one works at a time, and only while the mod has no feed.
OneJoin == /\ Joining => mod.feed = 0
           /\ \A i, j \in Joiners : joins[i] # "idle" /\ joins[j] # "idle" => i = j
           /\ \A c, d \in DOMAIN feeds : Busy(c) /\ Busy(d) => c = d
           /\ \A j \in Joiners, c \in DOMAIN feeds : ~(joins[j] # "idle" /\ Busy(c))

FeedsRead == \A c \in DOMAIN feeds : Alive(c) => mod.feed = c

Watched == IInv /\ ("overlap" \notin happened => OneJoin /\ FeedsRead)

LEMMA JoiningIs == Joining <=> \/ \E j \in Joiners : joins[j] # "idle"
                               \/ \E c \in DOMAIN feeds : Busy(c)
  BY DEF Joining, Busy

\* A step that starts no join, gives the mod no other feed and revives none.
LEMMA Quiet ==
    ASSUME Watched, happened \subseteq happened', UNCHANGED joins, mod'.feed = mod.feed,
           DOMAIN feeds' = DOMAIN feeds,
           \A d \in DOMAIN feeds : (Alive(d)' => Alive(d)) /\ (Busy(d)' => Busy(d))
    PROVE  "overlap" \notin happened' => OneJoin' /\ FeedsRead'
  <1> SUFFICES ASSUME "overlap" \notin happened' PROVE OneJoin' /\ FeedsRead' OBVIOUS
  <1>1. OneJoin /\ FeedsRead BY DEF Watched
  <1>2. FeedsRead' BY <1>1 DEF FeedsRead
  <1>3. Joining' => Joining
    <2>1. Joining' <=> \/ \E j \in Joiners : joins'[j] # "idle"
                       \/ \E c \in DOMAIN feeds' : Busy(c)'
      BY DEF Joining, Busy
    <2> QED BY <2>1, JoiningIs
  <1>4. OneJoin' BY <1>1, <1>3 DEF OneJoin
  <1> QED BY <1>2, <1>4

\* The same, of a step that changes one feed, or none.
LEMMA QuietFeed ==
    ASSUME Watched, happened \subseteq happened', UNCHANGED joins, mod'.feed = mod.feed,
           NEW c \in DOMAIN feeds, NEW g, feeds' = [feeds EXCEPT ![c] = g],
           g.at # "gone" => Alive(c), g.pump.at \in {"return", "register"} => Busy(c)
    PROVE  "overlap" \notin happened' => OneJoin' /\ FeedsRead'
  <1>1. DOMAIN feeds' = DOMAIN feeds OBVIOUS
  <1>2. ASSUME NEW d \in DOMAIN feeds PROVE (Alive(d)' => Alive(d)) /\ (Busy(d)' => Busy(d))
    <2>1. CASE d = c
      <3>1. feeds'[d] = g BY <2>1
      <3> QED BY <2>1, <3>1 DEF Alive, Busy
    <2>2. CASE d # c
      <3>1. feeds'[d] = feeds[d] BY <2>2
      <3> QED BY <3>1 DEF Alive, Busy
    <2> QED BY <2>1, <2>2
  <1> QED BY <1>1, <1>2, Quiet

LEMMA QuietRest ==
    ASSUME Watched, happened \subseteq happened', UNCHANGED <<joins, feeds>>,
           mod'.feed = mod.feed
    PROVE  "overlap" \notin happened' => OneJoin' /\ FeedsRead'
  BY Quiet DEF Alive, Busy

\* The mod lets go of its feed c, which ends.
LEMMA LetsGo ==
    ASSUME Watched, happened \subseteq happened', UNCHANGED joins, mod'.feed = 0,
           NEW c \in DOMAIN feeds, c = mod.feed, NEW g, feeds' = [feeds EXCEPT ![c] = g],
           g.at = "gone"
    PROVE  "overlap" \notin happened' => OneJoin' /\ FeedsRead'
  <1> SUFFICES ASSUME "overlap" \notin happened' PROVE OneJoin' /\ FeedsRead' OBVIOUS
  <1>1. OneJoin /\ FeedsRead BY DEF Watched
  <1>2. DOMAIN feeds' = DOMAIN feeds /\ feeds'[c] = g
        /\ \A d \in DOMAIN feeds \ {c} : feeds'[d] = feeds[d]
    OBVIOUS
  <1>3. c # 0 BY DEF Watched, IInv
  <1>4. ~Joining BY <1>1, <1>3 DEF OneJoin
  <1>5. /\ \A j \in Joiners : joins'[j] = "idle"
        /\ \A d \in DOMAIN feeds \ {c} : ~Busy(d)'
    BY <1>2, <1>4, JoiningIs DEF Busy
  <1>6. FeedsRead'
    <2>1. ~Alive(c)' BY <1>2 DEF Alive
    <2>2. \A d \in DOMAIN feeds \ {c} : ~Alive(d)' BY <1>1, <1>2 DEF FeedsRead, Alive
    <2> QED BY <1>2, <2>1, <2>2 DEF FeedsRead
  <1>7. OneJoin' BY <1>2, <1>5 DEF OneJoin
  <1> QED BY <1>6, <1>7

\* The end of a join: every feed before it is gone, and the new one is the mod's.
LEMMA SpawnWatched ==
    ASSUME Watched, happened' = happened, NEW s \in Seq(Good), Len(s) = Len(feeds),
           \A d \in DOMAIN feeds : s[d].at = feeds[d].at, Joining, Spawn,
           feeds' = s \o Spawned,
           \A j \in Joiners : joins'[j] = "idle" \/ "overlap" \in happened,
           \A d \in DOMAIN s : s[d].pump.at \notin {"return", "register"} \/ "overlap" \in happened
    PROVE  "overlap" \notin happened' => OneJoin' /\ FeedsRead'
  <1> SUFFICES ASSUME "overlap" \notin happened PROVE OneJoin' /\ FeedsRead' OBVIOUS
  <1>1. OneJoin /\ FeedsRead BY DEF Watched
  <1>2. mod.feed = 0 /\ feeds \in Seq(Good) /\ mod \in Mod
    BY <1>1 DEF OneJoin, Watched, IInv, ModType
  <1>3. \A d \in DOMAIN feeds : feeds[d].at = "gone" BY <1>1, <1>2 DEF FeedsRead, Alive
  <1>4. DOMAIN s = DOMAIN feeds BY <1>2
  <1>5. CASE mod.seat = 0
    <2>1. feeds' = s /\ mod' = mod BY <1>5 DEF Spawn, Spawned
    <2>2. FeedsRead' BY <1>3, <1>4, <2>1 DEF FeedsRead, Alive
    <2>3. OneJoin' BY <1>2, <2>1 DEF OneJoin, Busy
    <2> QED BY <2>2, <2>3
  <1>6. CASE mod.seat # 0
    <2>1. PICK new : /\ Spawned = <<new>> /\ new.pump = Reading
      BY <1>6 DEF Spawned
    <2>2. /\ Len(feeds') = Len(s) + 1 /\ DOMAIN feeds' = 1..(Len(s) + 1)
          /\ feeds'[Len(s) + 1] = new /\ \A d \in DOMAIN s : feeds'[d] = s[d]
      BY <2>1
    <2>3. mod'.feed = Len(s) + 1
      BY <1>2, <1>6 DEF Spawn, Mod
    <2>4. DOMAIN feeds' = DOMAIN s \cup {Len(s) + 1} BY <2>2
    <2>5. FeedsRead' BY <1>3, <1>4, <2>2, <2>3, <2>4 DEF FeedsRead, Alive
    <2>6. \A d \in DOMAIN feeds' : ~Busy(d)' BY <2>1, <2>2, <2>4 DEF Busy, Reading
    <2>7. ~Joining' BY <2>6 DEF Joining, Busy
    <2> QED BY <2>5, <2>6, <2>7 DEF OneJoin
  <1> QED BY <1>5, <1>6

LEMMA UpsetGrows == ASSUME NEW k, Upset(k) PROVE happened \subseteq happened'
  BY DEF Upset

LEMMA FeedQuiet ==
    ASSUME Watched, NEW c \in DOMAIN feeds, FeedStep(c) \/ FeedFails(c) \/ FeedDies(c)
    PROVE  "overlap" \notin happened' => OneJoin' /\ FeedsRead'
  <1>1. feeds[c] \in Feed BY FeedIsGood DEF Watched
  <1>2. UNCHANGED <<joins, mod>> /\ happened \subseteq happened'
    BY UpsetGrows DEF FeedStep, FeedJoins, FeedOpens, FeedLost, FeedWakes, FeedFails, FeedDies
  <1>3. CASE FeedDies(c)
    <2>1. PICK g : g = [feeds[c] EXCEPT !.at = "gone"] OBVIOUS
    <2>2. g.at = "gone" /\ g.pump = feeds[c].pump BY <1>1, <2>1 DEF Feed
    <2>3. feeds' = [feeds EXCEPT ![c] = g] BY <1>3, <2>1 DEF FeedDies
    <2> QED BY <1>2, <2>2, <2>3, QuietFeed DEF Busy
  <1>4. CASE ~FeedDies(c)
    <2>1. PICK g : feeds' = [feeds EXCEPT ![c] = g] /\ g.pump = feeds[c].pump
      <3>1. CASE FeedJoins(c)
        <4>1. PICK g \in {[feeds[c] EXCEPT !.joined = TRUE, !.at = "open"],
                          Retry(feeds[c]), Fatal(feeds[c])} : feeds' = [feeds EXCEPT ![c] = g]
          BY <3>1 DEF FeedJoins
        <4>2. g.pump = feeds[c].pump BY <1>1, <4>1 DEF Retry, Fatal, Say, Feed
        <4> QED BY <4>1, <4>2
      <3>2. CASE FeedOpens(c)
        <4>1. PICK g \in {[Say(feeds[c], "online") EXCEPT !.at = "on", !.online = TRUE],
                          Retry(feeds[c]), Fatal(feeds[c])} : feeds' = [feeds EXCEPT ![c] = g]
          BY <3>2 DEF FeedOpens
        <4>2. g.pump = feeds[c].pump BY <1>1, <4>1 DEF Retry, Fatal, Say, Feed
        <4> QED BY <4>1, <4>2
      <3>3. CASE FeedLost(c) \/ FeedFails(c)
        <4>1. feeds' = [feeds EXCEPT ![c] = Retry(feeds[c])] BY <3>3 DEF FeedLost, FeedFails
        <4>2. Retry(feeds[c]).pump = feeds[c].pump BY <1>1 DEF Retry, Say, Feed
        <4> QED BY <4>1, <4>2
      <3>4. CASE FeedWakes(c)
        <4>1. PICK g : g = [feeds[c] EXCEPT !.at = IF feeds[c].joined THEN "open" ELSE "join"]
          OBVIOUS
        <4>2. feeds' = [feeds EXCEPT ![c] = g] BY <3>4, <4>1 DEF FeedWakes
        <4>3. g.pump = feeds[c].pump BY <1>1, <4>1 DEF Feed
        <4> QED BY <4>2, <4>3
      <3> QED BY <1>4, <3>1, <3>2, <3>3, <3>4 DEF FeedStep
    <2>2. Alive(c)
      BY <1>4 DEF Alive, FeedStep, FeedJoins, FeedOpens, FeedLost, FeedWakes, FeedFails
    <2> QED BY <1>2, <2>1, <2>2, QuietFeed DEF Busy
  <1> QED BY <1>3, <1>4

\* Lines read, and submits that end.
LEMMA ReadsQuiet ==
    ASSUME Watched, NEW c \in DOMAIN feeds,
           ReadsStatus(c) \/ ReadsTurn(c) \/ Drops(c) \/ Starts(c) \/ Refused(c)
    PROVE  "overlap" \notin happened' => OneJoin' /\ FeedsRead'
  <1>1. feeds[c] \in Feed /\ mod \in Mod BY FeedIsGood DEF Watched, IInv, ModType
  <1>2. UNCHANGED joins /\ happened \subseteq happened'
    BY UpsetGrows DEF ReadsStatus, ReadsTurn, Drops, Starts, Refused
  <1>3. mod'.feed = mod.feed
    BY <1>1 DEF ReadsStatus, ReadsTurn, Drops, Starts, Refused, Mod
  <1>4. PICK g : /\ feeds' = [feeds EXCEPT ![c] = g] /\ g.at = feeds[c].at
                 /\ g.pump.at \in {"read", "file", "submit"}
    <2>1. CASE Starts(c) \/ Refused(c)
      <3>1. PICK g : g = [feeds[c] EXCEPT !.pump = Reading] OBVIOUS
      <3>2. feeds' = [feeds EXCEPT ![c] = g] BY <2>1, <3>1 DEF Starts, Refused
      <3>3. g.at = feeds[c].at /\ g.pump.at = "read" BY <1>1, <3>1 DEF Feed, Reading
      <3> QED BY <3>2, <3>3
    <2>2. CASE ReadsStatus(c) \/ ReadsTurn(c) \/ Drops(c)
      <3>1. PICK p : feeds' = After(c, p) /\ p.at \in {"read", "file", "submit"}
        <4>1. Reading.at = "read" /\ Follow(c).at \in {"read", "file"} BY DEF Follow, Reading
        <4>2. CASE ReadsStatus(c) BY <4>1, <4>2 DEF ReadsStatus
        <4>3. CASE Drops(c) BY <4>1, <4>3 DEF Drops
        <4>4. CASE ReadsTurn(c)
          <5>1. PICK p : /\ feeds' = After(c, p)
                         /\ p = [Reading EXCEPT !.at = "submit", !.turn = Head(feeds[c].out).turn,
                                                !.by = mod.seat]
            BY <4>4 DEF ReadsTurn
          <5>2. p.at = "submit" BY <5>1 DEF Reading
          <5> QED BY <5>1, <5>2
        <4> QED BY <2>2, <4>2, <4>3, <4>4
      <3>2. PICK g : g = [feeds[c] EXCEPT !.out = Tail(@), !.pump = p] OBVIOUS
      <3>3. feeds' = [feeds EXCEPT ![c] = g] BY <3>1, <3>2 DEF After
      <3>4. g.at = feeds[c].at /\ g.pump = p BY <1>1, <3>2 DEF Feed
      <3> QED BY <3>1, <3>3, <3>4
    <2> QED BY <2>1, <2>2
  <1> QED BY <1>2, <1>3, <1>4, QuietFeed DEF Alive

LEMMA PumpEndsQuiet ==
    ASSUME Watched, NEW c \in DOMAIN feeds, PumpEnds(c)
    PROVE  "overlap" \notin happened' => OneJoin' /\ FeedsRead'
  <1>1. feeds[c] \in Feed /\ mod \in Mod BY FeedIsGood DEF Watched, IInv, ModType
  <1>2. PICK g : g = [feeds[c] EXCEPT !.pump = [feeds[c].pump EXCEPT !.at = "done"]] OBVIOUS
  <1>3. g.at = "gone" /\ g.pump.at = "done" BY <1>1, <1>2 DEF Feed, Pump, PumpEnds
  <1>4. feeds' = [feeds EXCEPT ![c] = g] BY <1>2 DEF PumpEnds
  <1>5. UNCHANGED <<joins, happened>> BY DEF PumpEnds
  <1>6. CASE mod.feed = c
    <2>1. mod'.feed = 0 BY <1>1, <1>6 DEF PumpEnds, Mod
    <2> QED BY <1>3, <1>4, <1>5, <1>6, <2>1, LetsGo
  <1>7. CASE mod.feed # c
    <2>1. mod' = mod BY <1>7 DEF PumpEnds
    <2> QED BY <1>3, <1>4, <1>5, <2>1, QuietFeed
  <1> QED BY <1>6, <1>7

\* followSeatFile stops the feed it leaves, and becomes the one join at work.
LEMMA FollowQuiet ==
    ASSUME Watched, NEW c \in DOMAIN feeds, FollowSeatFile(c)
    PROVE  "overlap" \notin happened' => OneJoin' /\ FeedsRead'
  <1>1. feeds[c] \in Feed /\ mod \in Mod BY FeedIsGood DEF Watched, IInv, ModType
  <1>2. UNCHANGED <<joins, happened>> BY DEF FollowSeatFile
  <1>3. CASE file = 0 \/ mod.feed # c \/ file = seats[mod.seat]
    <2>1. PICK g : g = [feeds[c] EXCEPT !.pump = Reading] OBVIOUS
    <2>2. g.at = feeds[c].at /\ g.pump.at = "read" BY <1>1, <2>1 DEF Feed, Reading
    <2>3. feeds' = [feeds EXCEPT ![c] = g] /\ mod' = mod BY <1>3, <2>1 DEF FollowSeatFile
    <2> QED BY <1>2, <2>2, <2>3, QuietFeed DEF Alive
  <1>4. CASE ~(file = 0 \/ mod.feed # c \/ file = seats[mod.seat])
    <2> SUFFICES ASSUME "overlap" \notin happened PROVE OneJoin' /\ FeedsRead' BY <1>2
    <2>1. OneJoin /\ FeedsRead /\ mod.feed = c /\ c # 0 BY <1>4 DEF Watched, IInv
    <2>2. ~Joining BY <2>1 DEF OneJoin
    <2>3. PICK g : g = [Kill(feeds[c]) EXCEPT !.pump = [Reading EXCEPT !.at = "return", !.to = file]]
      OBVIOUS
    <2>4. g.at = "gone" BY <1>1, <2>3 DEF Kill, Feed
    <2>5. feeds' = [feeds EXCEPT ![c] = g] BY <1>4, <2>3 DEF FollowSeatFile
    <2>6. mod'.feed = 0 BY <1>1, <1>4 DEF FollowSeatFile, Mod
    <2>7. DOMAIN feeds' = DOMAIN feeds /\ feeds'[c] = g
          /\ \A d \in DOMAIN feeds \ {c} : feeds'[d] = feeds[d]
      BY <2>5
    <2>8. \A d \in DOMAIN feeds \ {c} : ~Alive(d)' /\ ~Busy(d)'
      BY <2>1, <2>2, <2>7, JoiningIs DEF FeedsRead, Alive, Busy
    <2>9. ~Alive(c)' BY <2>4, <2>7 DEF Alive
    <2>10. \A j \in Joiners : joins'[j] = "idle" BY <1>2, <2>2, JoiningIs
    <2> QED BY <2>6, <2>7, <2>8, <2>9, <2>10 DEF OneJoin, FeedsRead
  <1> QED BY <1>3, <1>4

LEMMA ReturnedQuiet ==
    ASSUME Watched, NEW c \in DOMAIN feeds, Returned(c)
    PROVE  "overlap" \notin happened' => OneJoin' /\ FeedsRead'
  <1>1. feeds[c] \in Feed /\ mod \in Mod BY FeedIsGood DEF Watched, IInv, ModType
  <1>2. PICK g : g = [feeds[c] EXCEPT !.pump = [Reading EXCEPT !.at = "register"]] OBVIOUS
  <1>3. g.at = feeds[c].at /\ feeds' = [feeds EXCEPT ![c] = g]
    BY <1>1, <1>2 DEF Feed, Returned
  <1>4. Busy(c) /\ UNCHANGED <<joins, happened>> BY DEF Returned, Busy
  <1>5. mod'.feed = mod.feed BY <1>1 DEF Returned, Join, Mod
  <1> QED BY <1>3, <1>4, <1>5, QuietFeed DEF Alive

LEMMA RejoinedQuiet ==
    ASSUME Watched, NEW c \in DOMAIN feeds, Rejoined(c)
    PROVE  "overlap" \notin happened' => OneJoin' /\ FeedsRead'
  <1>1. feeds[c] \in Good /\ feeds[c] \in Feed BY FeedIsGood DEF Watched
  <1>2. PICK p : p = [Reading EXCEPT !.at = "done"] OBVIOUS
  <1>3. p \in Pump /\ p.at = "done" BY <1>2, ReadingGood DEF Reading, Pump
  <1>4. PICK g : g = [feeds[c] EXCEPT !.pump = p] OBVIOUS
  <1>5. g \in Good /\ g.at = feeds[c].at /\ g.pump = p
    BY <1>1, <1>3, <1>4, PumpGood DEF Feed
  <1>6. PICK s : s = [feeds EXCEPT ![c] = g] OBVIOUS
  <1>7. /\ s \in Seq(Good) /\ Len(s) = Len(feeds) /\ DOMAIN s = DOMAIN feeds /\ s[c] = g
        /\ \A d \in DOMAIN feeds \ {c} : s[d] = feeds[d]
    BY <1>5, <1>6, FeedChanges DEF Watched, IInv
  <1>8. \A d \in DOMAIN feeds : s[d].at = feeds[d].at BY <1>5, <1>7
  <1>9. feeds' = s \o Spawned BY <1>2, <1>4, <1>6 DEF Rejoined
  <1>10. Busy(c) /\ Spawn /\ UNCHANGED <<joins, happened>> BY DEF Rejoined, Busy
  <1>11. Joining BY <1>10, JoiningIs
  <1>12. ASSUME "overlap" \notin happened
         PROVE  /\ \A j \in Joiners : joins'[j] = "idle"
                /\ \A d \in DOMAIN s : s[d].pump.at \notin {"return", "register"}
    <2>1. OneJoin BY <1>12 DEF Watched
    <2>2. \A j \in Joiners : joins'[j] = "idle" BY <1>10, <2>1 DEF OneJoin
    <2>3. \A d \in DOMAIN feeds \ {c} : ~Busy(d) BY <1>10, <2>1 DEF OneJoin
    <2> QED BY <1>3, <1>5, <1>7, <2>2, <2>3 DEF Busy
  <1> QED BY <1>7, <1>8, <1>9, <1>10, <1>11, <1>12, SpawnWatched

LEMMA RegisteredQuiet ==
    ASSUME Watched, NEW j \in Joiners, Registered(j)
    PROVE  "overlap" \notin happened' => OneJoin' /\ FeedsRead'
  <1>1. feeds \in Seq(Good) BY DEF Watched, IInv
  <1>2. joins[j] # "idle" /\ Spawn /\ feeds' = feeds \o Spawned /\ UNCHANGED happened
        /\ joins' = [joins EXCEPT ![j] = "idle"]
    BY DEF Registered
  <1>3. Joining BY <1>2, JoiningIs
  <1>4. ASSUME "overlap" \notin happened
        PROVE  /\ \A i \in Joiners : joins'[i] = "idle"
               /\ \A d \in DOMAIN feeds : feeds[d].pump.at \notin {"return", "register"}
    <2>1. OneJoin BY <1>4 DEF Watched
    <2>2. DOMAIN joins = Joiners BY DEF Watched, IInv, RestType
    <2>3. \A i \in Joiners : joins'[i] = "idle" BY <1>2, <2>1, <2>2 DEF OneJoin
    <2>4. \A d \in DOMAIN feeds : ~Busy(d) BY <1>2, <2>1 DEF OneJoin
    <2> QED BY <2>3, <2>4 DEF Busy
  <1> QED BY <1>1, <1>2, <1>3, <1>4, SpawnWatched

\* A join that starts while none is at work; or one that goes on, or gives up.
LEMMA JoinsQuiet ==
    ASSUME Watched, NEW j \in Joiners, RoomJoin(j) \/ FindSeat(j)
    PROVE  "overlap" \notin happened' => OneJoin' /\ FeedsRead'
  <1> SUFFICES ASSUME "overlap" \notin happened' PROVE OneJoin' /\ FeedsRead' OBVIOUS
  <1>1. happened \subseteq happened' BY UpsetGrows DEF RoomJoin, FindSeat
  <1>2. OneJoin /\ FeedsRead BY <1>1 DEF Watched
  <1>3. mod \in Mod /\ DOMAIN joins = Joiners BY DEF Watched, IInv, ModType, RestType
  <1>4. UNCHANGED feeds BY DEF RoomJoin, FindSeat
  <1>5. mod'.feed = mod.feed BY <1>3 DEF RoomJoin, FindSeat, Join, Mod
  <1>6. FeedsRead' BY <1>2, <1>4, <1>5 DEF FeedsRead, Alive
  <1>7. mod.feed = 0 /\ \A i \in Joiners \ {j} : joins[i] = "idle" /\ joins'[i] = "idle"
    <2>1. CASE RoomJoin(j)
      <3>1. ~Joining
        <4>1. Joining => Upset("overlap") BY <2>1 DEF RoomJoin
        <4> QED BY <4>1 DEF Upset
      <3> QED BY <1>3, <2>1, <3>1, JoiningIs DEF RoomJoin
    <2>2. CASE FindSeat(j)
      <3>1. joins[j] # "idle" BY <2>2 DEF FindSeat
      <3>2. \A i \in Joiners \ {j} : joins[i] = "idle" BY <1>2, <3>1 DEF OneJoin
      <3>3. \A i \in Joiners \ {j} : joins'[i] = joins[i] BY <1>3, <2>2 DEF FindSeat
      <3>4. Joining BY <3>1, JoiningIs
      <3> QED BY <1>2, <3>2, <3>3, <3>4 DEF OneJoin
    <2> QED BY <2>1, <2>2
  <1>8. \A d \in DOMAIN feeds : ~Busy(d)
    <2>1. CASE RoomJoin(j)
      <3>1. ~Joining
        <4>1. Joining => Upset("overlap") BY <2>1 DEF RoomJoin
        <4> QED BY <4>1 DEF Upset
      <3> QED BY <3>1, JoiningIs
    <2>2. CASE FindSeat(j)
      <3>1. joins[j] # "idle" BY <2>2 DEF FindSeat
      <3> QED BY <1>2, <3>1 DEF OneJoin
    <2> QED BY <2>1, <2>2
  <1>9. OneJoin' BY <1>4, <1>5, <1>7, <1>8 DEF OneJoin, Busy
  <1> QED BY <1>6, <1>9

LEMMA RoomLeaveQuiet ==
    ASSUME Watched, RoomLeave PROVE "overlap" \notin happened' => OneJoin' /\ FeedsRead'
  <1>1. mod \in Mod /\ mod.feed \in Nat /\ mod.feed # 0 /\ mod.feed <= Len(feeds)
    BY DEF Watched, IInv, ModType, Mod, RoomLeave
  <1>2. PICK c \in DOMAIN feeds : c = mod.feed BY <1>1 DEF Watched, IInv
  <1>3. PICK g : g = Kill(feeds[c]) OBVIOUS
  <1>4. feeds[c] \in Feed BY FeedIsGood DEF Watched
  <1>5. g.at = "gone" BY <1>3, <1>4 DEF Kill, Feed
  <1>6. feeds' = [feeds EXCEPT ![c] = g] BY <1>2, <1>3 DEF RoomLeave
  <1>7. mod'.feed = 0 BY <1>1 DEF RoomLeave, Mod
  <1>8. UNCHANGED joins /\ happened \subseteq happened' BY UpsetGrows DEF RoomLeave
  <1> QED BY <1>2, <1>5, <1>6, <1>7, <1>8, LetsGo

LEMMA RestQuiet ==
    ASSUME Watched,
           OwnPrompt \/ Ends \/ FeedCloses \/ Cut \/ Move \/ WriteFile
           \/ \E p \in posts : Answer(p) \/ PostFails(p)
    PROVE  "overlap" \notin happened' => OneJoin' /\ FeedsRead'
  <1>1. mod \in Mod BY DEF Watched, IInv, ModType
  <1>2. UNCHANGED <<joins, feeds>> /\ mod'.feed = mod.feed
    BY <1>1 DEF OwnPrompt, Ends, TurnEnds, FeedCloses, Cut, Move, WriteFile, Answer, TakeStop,
               TakeClosing, PostFails, Mod
  <1>3. happened \subseteq happened'
    BY UpsetGrows DEF OwnPrompt, Ends, TurnEnds, FeedCloses, Cut, Move, WriteFile, Answer,
                      TakeStop, TakeClosing, PostFails
  <1> QED BY <1>2, <1>3, QuietRest

LEMMA DeliverQuiet ==
    ASSUME Watched, Deliver PROVE "overlap" \notin happened' => OneJoin' /\ FeedsRead'
  <1>1. UNCHANGED <<mod, joins, happened>> BY DEF Deliver
  <1>2. CASE feeds' = feeds BY <1>1, <1>2, QuietRest
  <1>3. CASE feeds' # feeds
    <2>1. PICK c \in DOMAIN feeds : c = room.holder
      BY DEF Deliver, Watched, IInv, RoomType, Room
    <2>2. PICK g : g = Prompted(feeds[c], given + 1) OBVIOUS
    <2>3. feeds' = [feeds EXCEPT ![c] = g] BY <1>3, <2>1, <2>2 DEF Deliver
    <2>4. feeds[c] \in Feed BY FeedIsGood DEF Watched
    <2>5. g.at = feeds[c].at /\ g.pump = feeds[c].pump BY <2>2, <2>4 DEF Prompted, Feed
    <2> QED BY <1>1, <2>3, <2>5, QuietFeed DEF Alive, Busy
  <1> QED BY <1>2, <1>3

LEMMA WatchedKept == Watched /\ [Next]_vars => Watched'
  <1> SUFFICES ASSUME Watched, [Next]_vars PROVE Watched' OBVIOUS
  <1>1. IInv' BY StepKeeps DEF Watched
  <1>2. "overlap" \notin happened' => OneJoin' /\ FeedsRead'
    <2>1. ASSUME NEW c \in DOMAIN feeds, FeedStep(c) \/ FeedFails(c) \/ FeedDies(c)
          PROVE  "overlap" \notin happened' => OneJoin' /\ FeedsRead'
      BY <2>1, FeedQuiet
    <2>2. ASSUME NEW c \in DOMAIN feeds, PumpStep(c) \/ Starts(c) \/ Refused(c)
          PROVE  "overlap" \notin happened' => OneJoin' /\ FeedsRead'
      BY <2>2, ReadsQuiet, PumpEndsQuiet, FollowQuiet, ReturnedQuiet, RejoinedQuiet DEF PumpStep
    <2>3. ASSUME NEW j \in Joiners, RoomJoin(j) \/ FindSeat(j) \/ Registered(j)
          PROVE  "overlap" \notin happened' => OneJoin' /\ FeedsRead'
      BY <2>3, JoinsQuiet, RegisteredQuiet
    <2>4. CASE UNCHANGED vars BY <2>4, QuietRest DEF vars
    <2> QED BY <2>1, <2>2, <2>3, <2>4, RoomLeaveQuiet, DeliverQuiet, RestQuiet DEF Next
  <1> QED BY <1>1, <1>2 DEF Watched

LEMMA InitWatched == Init => Watched
  <1> SUFFICES ASSUME Init PROVE Watched OBVIOUS
  <1>1. IInv BY InitHolds
  <1>2. DOMAIN feeds = {} /\ mod.feed = 0 BY DEF Init
  <1>3. \A j \in Joiners : joins[j] # "idle" => j = "start" BY DEF Init
  <1>4. OneJoin BY <1>2, <1>3 DEF OneJoin
  <1>5. FeedsRead BY <1>2 DEF FeedsRead
  <1> QED BY <1>1, <1>4, <1>5 DEF Watched

\* Without two joins at work at once, every feed process that lives is the one whose
\* lines the mod reads and that /room-leave stops: a rejoin stops the feed it leaves
\* before it starts another (src/mod/hooks/register.js:285).
THEOREM NoOrphanEver == Spec => []NoOrphan
  <1>1. Watched /\ [Next]_vars => Watched' BY WatchedKept
  <1>2. Watched => NoOrphan BY DEF Watched, FeedsRead, Alive, NoOrphan
  <1> QED BY <1>1, <1>2, InitWatched, PTL DEF Spec
-----------------------------------------------------------------------------
(* A Stop and the turn it ends. *)

\* No feed has broken or died, and the mod has been left or moved by nobody.
Undisturbed == happened \cap {"drop", "die", "leave", "move"} = {}

\* The turns a feed has on its way, and what is no turn's.
Texts(f) == {i \in DOMAIN f.out : f.out[i].kind = "text"}
Bare(f)  == Texts(f) = {} /\ f.pump.at # "submit"

\* It has turn t at one place at most, and no other.
Holding(f, t) ==
    \/ Bare(f)
    \/ f.pump.at # "submit" /\ \E i \in DOMAIN f.out : Texts(f) = {i} /\ f.out[i].turn = t
    \/ Texts(f) = {} /\ f.pump.at = "submit" /\ f.pump.turn = t

AllBare == \A c \in DOMAIN feeds : Bare(feeds[c])

\* Nothing moves the mod: every seat is at the one address there is.
Settled == /\ room.at = 1 /\ ~room.cut /\ file \in 0..1
           /\ \A i \in DOMAIN seats : seats[i] = 1
           /\ mod.feed # 0 => mod.seat # 0
           /\ \A c \in DOMAIN feeds : feeds[c].pump.at \notin {"return", "register"}

\* The one feed that is on is the one that holds the handle, for good.
OneOn == \A c \in DOMAIN feeds : feeds[c].at = "on" <=> c = room.holder

\* The open turn is at one place at most: with the feed, the session, or the posts.
OnePlace ==
    /\ \A c \in DOMAIN feeds : /\ Holding(feeds[c], room.turn)
                               /\ c # room.holder => Bare(feeds[c])
    /\ session.turn \in Turns => session.turn = room.turn /\ posts = {} /\ AllBare
    /\ \A p \in posts : p.of = room.turn /\ posts = {p} /\ AllBare

Owns == \A e \in ended : e[1] = e[2]

Lone  == Settled /\ OneOn /\ OnePlace /\ Owns
Stops == IInv /\ (Undisturbed => Lone)

\* What leaves the texts of a feed as they are.
LEMMA SameTexts ==
    ASSUME NEW f, NEW g, NEW t, g.pump.at # "submit", f.pump.at # "submit", g.out = f.out,
           Holding(f, t)
    PROVE  (Bare(f) => Bare(g)) /\ Holding(g, t)
  BY DEF Holding, Bare, Texts

LEMMA SamePump ==
    ASSUME NEW f, NEW g, NEW t, g.pump = f.pump, g.out = f.out, Holding(f, t)
    PROVE  (Bare(f) => Bare(g)) /\ Holding(g, t)
  BY DEF Holding, Bare, Texts

\* A line that is no turn's.
LEMMA SaySame ==
    ASSUME NEW f \in Good, NEW k \in {"online", "retrying", "fatal"}, NEW t, NEW g,
           g.pump = f.pump, g.out = Say(f, k).out, Holding(f, t)
    PROVE  (Bare(f) => Bare(g)) /\ Holding(g, t)
  <1>1. f \in Feed /\ f.out \in Seq(Line) BY DEF Good, Feed
  <1>2. PICK l : l = [kind |-> k, turn |-> 0] OBVIOUS
  <1>3. l.kind # "text" BY <1>2
  <1>4. g.out = Append(f.out, l) BY <1>1, <1>2 DEF Say, Feed
  <1>5. l \in Line BY <1>2, ModSeatAssumption DEF Line
  <1>6. /\ DOMAIN g.out = DOMAIN f.out \cup {Len(f.out) + 1} /\ g.out[Len(f.out) + 1] = l
        /\ \A i \in DOMAIN f.out : g.out[i] = f.out[i]
    BY <1>1, <1>4, <1>5, AppendProperties
  <1>7. Texts(g) = Texts(f) BY <1>3, <1>6 DEF Texts
  <1> QED BY <1>6, <1>7 DEF Holding, Bare

\* The head of what a feed has said is read.
LEMMA TailTexts ==
    ASSUME NEW f \in Good, f.out # <<>>, NEW g, g.out = Tail(f.out)
    PROVE  /\ \A i : i \in Texts(g) <=> i \in Nat \ {0} /\ i + 1 \in Texts(f)
           /\ \A i \in Texts(g) : i \in DOMAIN g.out /\ g.out[i] = f.out[i + 1]
           /\ 1 \in Texts(f) <=> Head(f.out).kind = "text"
           /\ Texts(f) \subseteq Nat \ {0}
           /\ Head(f.out) = f.out[1]
  <1>1. f.out \in Seq(Line) BY DEF Good, Feed
  <1>2. Len(f.out) \in Nat \ {0} /\ DOMAIN f.out = 1..Len(f.out) BY <1>1
  <1>3. DOMAIN g.out = 1..(Len(f.out) - 1) /\ \A i \in DOMAIN g.out : g.out[i] = f.out[i + 1]
    BY <1>1
  <1>4. \A i \in Nat \ {0} : i \in DOMAIN g.out <=> i + 1 \in DOMAIN f.out BY <1>2, <1>3
  <1>5. Head(f.out) = f.out[1] BY <1>1, <1>2
  <1> QED BY <1>2, <1>3, <1>4, <1>5 DEF Texts

\* A line is read that is no turn's, or dropped.
LEMMA ReadAway ==
    ASSUME NEW f \in Good, f.out # <<>>, NEW t, NEW g, g.out = Tail(f.out),
           g.pump.at # "submit", f.pump.at # "submit", Holding(f, t)
    PROVE  (Bare(f) => Bare(g)) /\ Holding(g, t)
  <1>1. CASE Texts(f) = {}
    <2>1. Texts(g) = {} BY <1>1, TailTexts
    <2> QED BY <2>1 DEF Holding, Bare
  <1>2. CASE Texts(f) # {}
    <2>1. PICK i \in DOMAIN f.out : Texts(f) = {i} /\ f.out[i].turn = t
      BY <1>2 DEF Holding, Bare
    <2>2. i \in Nat \ {0} BY <2>1, TailTexts
    <2>3. CASE i = 1
      <3>1. Texts(g) = {} BY <2>1, <2>3, TailTexts
      <3> QED BY <1>2, <3>1 DEF Holding, Bare
    <2>4. CASE i # 1
      <3>1. Texts(g) = {i - 1} BY <2>1, <2>2, <2>4, TailTexts
      <3>2. PICK k : k = i - 1 OBVIOUS
      <3>3. k \in Texts(g) /\ k + 1 = i BY <2>2, <3>1, <3>2
      <3>4. k \in DOMAIN g.out /\ g.out[k] = f.out[i]
        <4>1. \A m \in Texts(g) : m \in DOMAIN g.out /\ g.out[m] = f.out[m + 1] BY TailTexts
        <4>2. k \in DOMAIN g.out /\ g.out[k] = f.out[k + 1] BY <3>3, <4>1
        <4> QED BY <3>3, <4>2
      <3> QED BY <1>2, <2>1, <3>1, <3>2, <3>4 DEF Holding, Bare
    <2> QED BY <2>3, <2>4
  <1> QED BY <1>1, <1>2

\* A turn is read, and waits for the session.
LEMMA ReadTurnAway ==
    ASSUME NEW f \in Good, f.out # <<>>, NEW t, NEW g, g.out = Tail(f.out),
           Head(f.out).kind = "text", g.pump.at = "submit", g.pump.turn = Head(f.out).turn,
           f.pump.at # "submit", Holding(f, t)
    PROVE  ~Bare(f) /\ Holding(g, t)
  <1>1. 1 \in Texts(f) /\ Head(f.out) = f.out[1] BY TailTexts
  <1>2. PICK i \in DOMAIN f.out : Texts(f) = {i} /\ f.out[i].turn = t
    BY <1>1 DEF Holding, Bare
  <1>3. i = 1 BY <1>1, <1>2
  <1>4. Texts(g) = {} BY <1>2, <1>3, TailTexts
  <1> QED BY <1>1, <1>2, <1>3, <1>4 DEF Holding, Bare

\* With no turn open, none is anywhere.
LEMMA NothingOpen ==
    ASSUME IInv, Lone, room.turn = 0
    PROVE  AllBare /\ session.turn \notin Turns /\ posts = {}
  <1>1. AllBare
    <2> SUFFICES ASSUME NEW c \in DOMAIN feeds, ~Bare(feeds[c]) PROVE FALSE BY DEF AllBare
    <2>1. feeds[c] \in Good BY FeedIsGood
    <2>2. Holding(feeds[c], 0) BY DEF Lone, OnePlace
    <2> QED BY <2>1, <2>2 DEF Holding, Good, Texts
  <1>2. session.turn \notin Turns BY DEF Lone, OnePlace, Turns
  <1>3. posts = {}
    <2> SUFFICES ASSUME NEW p \in posts PROVE FALSE OBVIOUS
    <2>1. p.of \in Turns \cup {Own} BY DEF IInv, RestType, Post
    <2>2. p.of = 0 BY DEF Lone, OnePlace
    <2> QED BY <2>1, <2>2, ModSeatAssumption DEF Turns, Own
  <1> QED BY <1>1, <1>2, <1>3

\* One feed changes, and what it holds does not.
LEMMA FeedStays ==
    ASSUME IInv, Lone, NEW c \in DOMAIN feeds, NEW g, feeds' = [feeds EXCEPT ![c] = g],
           UNCHANGED <<room, file, seats, session, posts, ended>>,
           mod'.feed # 0 => mod'.seat # 0,
           g.at = "on" <=> feeds[c].at = "on", g.pump.at \notin {"return", "register"},
           Bare(feeds[c]) => Bare(g), Holding(g, room.turn)
    PROVE  Lone'
  <1>1. DOMAIN feeds' = DOMAIN feeds /\ feeds'[c] = g
        /\ \A d \in DOMAIN feeds \ {c} : feeds'[d] = feeds[d]
    OBVIOUS
  <1>2. Settled' BY <1>1 DEF Lone, Settled
  <1>3. OneOn' BY <1>1 DEF Lone, OneOn
  <1>4. AllBare => AllBare' BY <1>1 DEF AllBare
  <1>5. \A d \in DOMAIN feeds' : /\ Holding(feeds'[d], room'.turn)
                                 /\ d # room'.holder => Bare(feeds'[d])
    BY <1>1 DEF Lone, OnePlace
  <1>6. OnePlace' BY <1>4, <1>5 DEF Lone, OnePlace
  <1> QED BY <1>2, <1>3, <1>6 DEF Lone, Owns

\* No feed changes, nor the room.
LEMMA RestStays ==
    ASSUME Lone, UNCHANGED <<room, feeds, session, posts, ended>>, file' \in 0..1,
           \A i \in DOMAIN seats' : seats'[i] = 1, mod'.feed # 0 => mod'.seat # 0
    PROVE  Lone'
  BY DEF Lone, Settled, OneOn, OnePlace, AllBare, Owns

LEMMA FeedLone ==
    ASSUME IInv, Lone, Undisturbed', NEW c \in DOMAIN feeds,
           FeedStep(c) \/ FeedFails(c) \/ FeedDies(c)
    PROVE  Lone'
  <1>1. feeds[c] \in Good /\ feeds[c] \in Feed BY FeedIsGood
  <1>2. Holding(feeds[c], room.turn) BY DEF Lone, OnePlace
  <1>3. feeds[c].pump.at \notin {"return", "register"} BY DEF Lone, Settled
  <1>4. mod.feed # 0 => mod.seat # 0 BY DEF Lone, Settled
  <1>5. ~FeedFails(c) /\ ~FeedDies(c) BY DEF FeedFails, FeedDies, Upset, Undisturbed
  <1>6. ~FeedLost(c) BY DEF FeedLost, Lone, OneOn, Settled
  <1>7. /\ Retry(feeds[c]).pump = feeds[c].pump /\ Retry(feeds[c]).at = "sleep"
        /\ Retry(feeds[c]).out = Say(feeds[c], "retrying").out
        /\ Fatal(feeds[c]).pump = feeds[c].pump /\ Fatal(feeds[c]).at = "gone"
        /\ Fatal(feeds[c]).out = Say(feeds[c], "fatal").out
    BY <1>1 DEF Retry, Fatal, Say, Feed
  <1>8. \A g \in {Retry(feeds[c]), Fatal(feeds[c])} :
          (Bare(feeds[c]) => Bare(g)) /\ Holding(g, room.turn) /\ g.pump = feeds[c].pump
          /\ g.at # "on"
    BY <1>1, <1>2, <1>7, SaySame
  <1>9. CASE FeedJoins(c)
    <2>1. feeds[c].at # "on" BY <1>9 DEF FeedJoins
    <2>2. UNCHANGED <<room, file, mod, seats, session, posts, ended>> BY <1>9 DEF FeedJoins
    <2>3. PICK g \in {[feeds[c] EXCEPT !.joined = TRUE, !.at = "open"],
                      Retry(feeds[c]), Fatal(feeds[c])} : feeds' = [feeds EXCEPT ![c] = g]
      BY <1>9 DEF FeedJoins
    <2>4. CASE g = [feeds[c] EXCEPT !.joined = TRUE, !.at = "open"]
      <3>1. g.pump = feeds[c].pump /\ g.out = feeds[c].out /\ g.at = "open"
        BY <1>1, <2>4 DEF Feed
      <3>2. (Bare(feeds[c]) => Bare(g)) /\ Holding(g, room.turn) BY <1>2, <3>1, SamePump
      <3> QED BY <1>3, <1>4, <2>1, <2>2, <2>3, <3>1, <3>2, FeedStays
    <2>5. CASE g \in {Retry(feeds[c]), Fatal(feeds[c])}
      BY <1>3, <1>4, <1>8, <2>1, <2>2, <2>3, <2>5, FeedStays
    <2> QED BY <2>3, <2>4, <2>5
  <1>10. CASE FeedOpens(c)
    <2>1. feeds[c].at # "on" BY <1>10 DEF FeedOpens
    <2>2. CASE ~(feeds[c].to = room.at /\ room.holder = 0)
      <3>1. PICK g \in {Retry(feeds[c]), Fatal(feeds[c])} : feeds' = [feeds EXCEPT ![c] = g]
        BY <1>10, <2>2 DEF FeedOpens
      <3>2. UNCHANGED <<room, file, mod, seats, session, posts, ended>>
        BY <1>10, <2>2 DEF FeedOpens
      <3> QED BY <1>3, <1>4, <1>8, <2>1, <3>1, <3>2, FeedStays
    <2>3. CASE feeds[c].to = room.at /\ room.holder = 0
      <3>1. PICK g : g = [Say(feeds[c], "online") EXCEPT !.at = "on", !.online = TRUE] OBVIOUS
      <3>2. /\ feeds' = [feeds EXCEPT ![c] = g] /\ room' = [room EXCEPT !.holder = c, !.cut = FALSE]
            /\ UNCHANGED <<file, mod, seats, session, posts, ended>>
        BY <1>10, <2>3, <3>1 DEF FeedOpens
      <3>3. g.pump = feeds[c].pump /\ g.at = "on" /\ g.out = Say(feeds[c], "online").out
        BY <1>1, <3>1 DEF Say, Feed
      <3>4. (Bare(feeds[c]) => Bare(g)) /\ Holding(g, room.turn) BY <1>1, <1>2, <3>3, SaySame
      <3>5. /\ room'.at = room.at /\ room'.holder = c /\ ~room'.cut /\ room'.turn = room.turn
        BY <3>2 DEF IInv, RoomType, Room
      <3>6. DOMAIN feeds' = DOMAIN feeds /\ feeds'[c] = g
            /\ \A d \in DOMAIN feeds \ {c} : feeds'[d] = feeds[d]
        BY <3>2
      <3>7. 0 \notin DOMAIN feeds BY DEF IInv
      <3>8. \A d \in DOMAIN feeds : Bare(feeds[d]) /\ feeds[d].at # "on"
        BY <2>3, <3>7 DEF Lone, OneOn, OnePlace
      <3>9. Settled' BY <1>3, <3>2, <3>3, <3>5, <3>6 DEF Lone, Settled
      <3>10. OneOn' BY <3>3, <3>5, <3>6, <3>8 DEF OneOn
      <3>11. AllBare' BY <3>4, <3>6, <3>8 DEF AllBare
      <3>12. OnePlace' BY <3>2, <3>5, <3>11 DEF Lone, OnePlace, AllBare, Holding
      <3> QED BY <3>2, <3>9, <3>10, <3>12 DEF Lone, Owns
    <2> QED BY <2>2, <2>3
  <1>11. CASE FeedWakes(c)
    <2>1. PICK g : g = [feeds[c] EXCEPT !.at = IF feeds[c].joined THEN "open" ELSE "join"]
      OBVIOUS
    <2>2. feeds' = [feeds EXCEPT ![c] = g] /\ feeds[c].at # "on"
          /\ UNCHANGED <<room, file, mod, seats, session, posts, ended>>
      BY <1>11, <2>1 DEF FeedWakes
    <2>3. g.pump = feeds[c].pump /\ g.out = feeds[c].out /\ g.at # "on" BY <1>1, <2>1 DEF Feed
    <2>4. (Bare(feeds[c]) => Bare(g)) /\ Holding(g, room.turn) BY <1>2, <2>3, SamePump
    <2> QED BY <1>3, <1>4, <2>2, <2>3, <2>4, FeedStays
  <1> QED BY <1>5, <1>6, <1>9, <1>10, <1>11 DEF FeedStep

LEMMA ReadsLone ==
    ASSUME IInv, Lone, NEW c \in DOMAIN feeds, ReadsStatus(c) \/ ReadsTurn(c) \/ Drops(c)
    PROVE  Lone'
  <1>1. feeds[c] \in Good /\ feeds[c] \in Feed /\ mod \in Mod BY FeedIsGood DEF IInv, ModType
  <1>2. Holding(feeds[c], room.turn) BY DEF Lone, OnePlace
  <1>3. feeds[c].out # <<>> /\ feeds[c].pump.at = "read"
        /\ UNCHANGED <<room, file, seats, session, posts, ended>>
    BY DEF ReadsStatus, ReadsTurn, Drops, Reads
  <1>4. mod'.feed # 0 => mod'.seat # 0
    BY <1>1 DEF ReadsStatus, ReadsTurn, Drops, Lone, Settled, Mod
  <1>5. CASE ReadsStatus(c) \/ Drops(c)
    <2>1. Reading.at = "read" /\ Follow(c).at \in {"read", "file"} BY DEF Follow, Reading
    <2>2. PICK p \in {Reading, Follow(c)} : feeds' = After(c, p)
      BY <1>5 DEF ReadsStatus, Drops
    <2>3. PICK g : g = [feeds[c] EXCEPT !.out = Tail(@), !.pump = p] OBVIOUS
    <2>4. feeds' = [feeds EXCEPT ![c] = g] BY <2>2, <2>3 DEF After
    <2>5. g.at = feeds[c].at /\ g.pump = p /\ g.out = Tail(feeds[c].out) BY <1>1, <2>3 DEF Feed
    <2>6. p.at \in {"read", "file"} BY <2>1, <2>2
    <2>7. (Bare(feeds[c]) => Bare(g)) /\ Holding(g, room.turn)
      BY <1>1, <1>2, <1>3, <2>5, <2>6, ReadAway
    <2> QED BY <1>3, <1>4, <2>4, <2>5, <2>6, <2>7, FeedStays
  <1>6. CASE ReadsTurn(c)
    <2>1. PICK p : /\ feeds' = After(c, p)
                   /\ p = [Reading EXCEPT !.at = "submit", !.turn = Head(feeds[c].out).turn,
                                          !.by = mod.seat]
      BY <1>6 DEF ReadsTurn
    <2>2. p.at = "submit" /\ p.turn = Head(feeds[c].out).turn BY <2>1 DEF Reading
    <2>3. PICK g : g = [feeds[c] EXCEPT !.out = Tail(@), !.pump = p] OBVIOUS
    <2>4. feeds' = [feeds EXCEPT ![c] = g] BY <2>1, <2>3 DEF After
    <2>5. g.at = feeds[c].at /\ g.pump = p /\ g.out = Tail(feeds[c].out) BY <1>1, <2>3 DEF Feed
    <2>6. Head(feeds[c].out).kind = "text" BY <1>6 DEF ReadsTurn
    <2>7. ~Bare(feeds[c]) /\ Holding(g, room.turn)
      BY <1>1, <1>2, <1>3, <2>2, <2>5, <2>6, ReadTurnAway
    <2> QED BY <1>3, <1>4, <2>2, <2>4, <2>5, <2>7, FeedStays
  <1> QED BY <1>5, <1>6

\* The pump ends, or looks at the seat file, which names the address it has; it does not
\* return a feed.
LEMMA PumpLone ==
    ASSUME IInv, Lone, NEW c \in DOMAIN feeds,
           PumpEnds(c) \/ FollowSeatFile(c) \/ Returned(c) \/ Rejoined(c)
    PROVE  Lone'
  <1>1. feeds[c] \in Good /\ feeds[c] \in Feed /\ mod \in Mod BY FeedIsGood DEF IInv, ModType
  <1>2. Holding(feeds[c], room.turn) BY DEF Lone, OnePlace
  <1>3. ~Returned(c) /\ ~Rejoined(c) BY DEF Lone, Settled, Returned, Rejoined
  <1>4. CASE PumpEnds(c)
    <2>1. PICK g : g = [feeds[c] EXCEPT !.pump = [feeds[c].pump EXCEPT !.at = "done"]] OBVIOUS
    <2>2. feeds' = [feeds EXCEPT ![c] = g] BY <1>4, <2>1 DEF PumpEnds
    <2>3. g.at = feeds[c].at /\ g.pump.at = "done" /\ g.out = feeds[c].out
      BY <1>1, <2>1 DEF Feed, Pump
    <2>4. (Bare(feeds[c]) => Bare(g)) /\ Holding(g, room.turn)
      BY <1>2, <1>4, <2>3, SameTexts DEF PumpEnds
    <2>5. mod'.feed # 0 => mod'.seat # 0 BY <1>1, <1>4 DEF PumpEnds, Lone, Settled, Mod
    <2>6. UNCHANGED <<room, file, seats, session, posts, ended>> BY <1>4 DEF PumpEnds
    <2> QED BY <2>2, <2>3, <2>4, <2>5, <2>6, FeedStays
  <1>5. CASE FollowSeatFile(c)
    <2>1. file = 0 \/ mod.feed # c \/ file = seats[mod.seat]
      <3> SUFFICES ASSUME file # 0, mod.feed = c PROVE file = seats[mod.seat] OBVIOUS
      <3>1. c # 0 BY DEF IInv
      <3>2. mod.seat \in DOMAIN seats BY <1>1, <3>1 DEF Lone, Settled, IInv, SeatsType, Mod
      <3> QED BY <3>2 DEF Lone, Settled
    <2>2. PICK g : g = [feeds[c] EXCEPT !.pump = Reading] OBVIOUS
    <2>3. feeds' = [feeds EXCEPT ![c] = g] /\ mod' = mod BY <1>5, <2>1, <2>2 DEF FollowSeatFile
    <2>4. g.at = feeds[c].at /\ g.pump.at = "read" /\ g.out = feeds[c].out
      BY <1>1, <2>2 DEF Feed, Reading
    <2>5. (Bare(feeds[c]) => Bare(g)) /\ Holding(g, room.turn)
      BY <1>2, <1>5, <2>4, SameTexts DEF FollowSeatFile
    <2>6. UNCHANGED <<room, file, seats, session, posts, ended>> BY <1>5 DEF FollowSeatFile
    <2>7. mod'.feed # 0 => mod'.seat # 0 BY <2>3 DEF Lone, Settled
    <2> QED BY <2>3, <2>4, <2>5, <2>6, <2>7, FeedStays
  <1> QED BY <1>3, <1>4, <1>5

\* A turn that waited for the session leaves every feed bare.
LEMMA SubmitEnds ==
    ASSUME IInv, Lone, NEW c \in DOMAIN feeds, feeds[c].pump.at = "submit",
           feeds' = [feeds EXCEPT ![c].pump = Reading]
    PROVE  /\ DOMAIN feeds' = DOMAIN feeds /\ AllBare'
           /\ \A d \in DOMAIN feeds : /\ feeds'[d].at = feeds[d].at
                                      /\ feeds'[d].pump.at \notin {"return", "register"}
           /\ feeds[c].pump.turn = room.turn /\ room.turn \in Turns
           /\ session.turn \notin Turns /\ posts = {}
  <1>1. feeds[c] \in Good /\ feeds[c] \in Feed BY FeedIsGood
  <1>2. Texts(feeds[c]) = {} /\ feeds[c].pump.turn = room.turn /\ ~Bare(feeds[c])
    BY DEF Lone, OnePlace, Holding, Bare
  <1>3. c = room.holder BY <1>2 DEF Lone, OnePlace
  <1>4. PICK g : g = [feeds[c] EXCEPT !.pump = Reading] OBVIOUS
  <1>5. feeds' = [feeds EXCEPT ![c] = g] BY <1>4
  <1>6. g.at = feeds[c].at /\ g.pump.at = "read" /\ g.out = feeds[c].out
    BY <1>1, <1>4 DEF Feed, Reading
  <1>7. Bare(g) BY <1>2, <1>6 DEF Bare, Texts
  <1>8. DOMAIN feeds' = DOMAIN feeds /\ feeds'[c] = g
        /\ \A d \in DOMAIN feeds \ {c} : feeds'[d] = feeds[d]
    BY <1>5
  <1>9. AllBare' BY <1>3, <1>7, <1>8 DEF AllBare, Lone, OnePlace
  <1>10. room.turn \in Turns
    <2>1. feeds[c].pump.turn # 0 /\ feeds[c].pump.turn \in 0..MaxTurns
      BY <1>1 DEF Good, Feed, Pump
    <2> QED BY <1>2, <2>1, ModSeatAssumption DEF Turns
  <1>11. session.turn \notin Turns /\ posts = {} BY <1>2 DEF Lone, OnePlace, AllBare
  <1> QED BY <1>2, <1>6, <1>8, <1>9, <1>10, <1>11 DEF Lone, Settled

LEMMA StartsLone ==
    ASSUME IInv, Lone, NEW c \in DOMAIN feeds, Starts(c) PROVE Lone'
  <1>1. UNCHANGED <<room, file, seats, posts, ended>> /\ feeds[c].pump.at = "submit"
        /\ feeds' = [feeds EXCEPT ![c].pump = Reading]
        /\ session'.turn = feeds[c].pump.turn
    BY DEF Starts
  <1>2. mod'.feed = mod.feed /\ mod'.seat = mod.seat BY DEF Starts, IInv, ModType, Mod
  <1>3. Settled' BY <1>1, <1>2, SubmitEnds DEF Lone, Settled
  <1>4. OneOn' BY <1>1, SubmitEnds DEF Lone, OneOn
  <1>5. OnePlace' BY <1>1, SubmitEnds DEF OnePlace, AllBare, Holding
  <1> QED BY <1>1, <1>3, <1>4, <1>5 DEF Lone, Owns

\* What is posted has its turn.
LEMMA PostedOf ==
    ASSUME NEW t PROVE /\ \A p \in Closing(t) : p.of = t /\ Closing(t) = {p}
                       /\ \A k : Posted(k, t).of = t
  BY DEF Closing, Posted

LEMMA RefusedLone ==
    ASSUME IInv, Lone, NEW c \in DOMAIN feeds, Refused(c) PROVE Lone'
  <1>1. UNCHANGED <<room, file, seats, session, ended>> /\ feeds[c].pump.at = "submit"
        /\ feeds' = [feeds EXCEPT ![c].pump = Reading]
    BY DEF Refused
  <1>2. mod'.feed = mod.feed /\ mod'.seat = mod.seat BY DEF Refused, IInv, ModType, Mod
  <1>3. posts' \in {posts, posts \cup Closing(feeds[c].pump.turn)} BY DEF Refused
  <1>4. posts' \in {{}, Closing(room.turn)} BY <1>1, <1>3, SubmitEnds
  <1>5. Settled' BY <1>1, <1>2, SubmitEnds DEF Lone, Settled
  <1>6. OneOn' BY <1>1, SubmitEnds DEF Lone, OneOn
  <1>7. AllBare' /\ session'.turn \notin Turns BY <1>1, SubmitEnds
  <1>8. \A p \in posts' : p.of = room'.turn /\ posts' = {p} BY <1>1, <1>4, PostedOf
  <1>9. OnePlace' BY <1>7, <1>8 DEF OnePlace, AllBare, Holding
  <1> QED BY <1>1, <1>5, <1>6, <1>9 DEF Lone, Owns

LEMMA SessionLone ==
    ASSUME IInv, Lone, OwnPrompt \/ Ends PROVE Lone'
  <1>1. mod'.feed = mod.feed /\ mod'.seat = mod.seat
        /\ UNCHANGED <<room, file, feeds, seats, ended>>
    BY DEF OwnPrompt, Ends, TurnEnds, IInv, ModType, Mod
  <1>2. Settled' /\ OneOn' /\ Owns' BY <1>1 DEF Lone, Settled, OneOn, Owns
  <1>3. Own \notin Turns /\ 0 \notin Turns BY ModSeatAssumption DEF Own, Turns
  <1>4. CASE OwnPrompt
    <2>1. session'.turn = Own /\ posts' = posts BY <1>4 DEF OwnPrompt
    <2> QED BY <1>1, <1>2, <1>3, <2>1 DEF Lone, OnePlace, AllBare
  <1>5. ASSUME NEW stop \in BOOLEAN, NEW unanswered \in BOOLEAN, TurnEnds(stop, unanswered)
        PROVE  Lone'
    <2>1. session'.turn = 0 BY <1>5 DEF TurnEnds
    <2>2. CASE session.turn \in Turns
      <3>1. session.turn = room.turn /\ posts = {} /\ AllBare BY <2>2 DEF Lone, OnePlace
      <3>2. AllBare' BY <1>1, <3>1 DEF AllBare
      <3>3. posts' \in {{}, {Posted("stop", session.turn)}, Closing(session.turn)}
        <4>1. CASE stop BY <1>5, <3>1, <4>1 DEF TurnEnds
        <4>2. CASE ~stop BY <1>5, <3>1, <4>2 DEF TurnEnds
        <4> QED BY <4>1, <4>2
      <3>4. \A p \in posts' : p.of = room'.turn /\ posts' = {p} BY <1>1, <3>1, <3>3, PostedOf
      <3>5. OnePlace' BY <1>1, <1>3, <2>1, <3>2, <3>4 DEF Lone, OnePlace, AllBare, Holding
      <3> QED BY <1>2, <3>5 DEF Lone
    <2>3. CASE session.turn \notin Turns
      <3>1. ~mod.inRoomTurn BY <2>3 DEF IInv, FlagHolds
      <3>2. posts' = posts BY <1>5, <3>1 DEF TurnEnds, InRoomTurn
      <3> QED BY <1>1, <1>2, <1>3, <2>1, <3>2 DEF Lone, OnePlace, AllBare
    <2> QED BY <2>2, <2>3
  <1> QED BY <1>4, <1>5 DEF Ends

\* The room opens a turn only when none is open, and nothing of an earlier one is left.
LEMMA DeliverLone ==
    ASSUME IInv, Lone, Deliver PROVE Lone'
  <1>1. AllBare /\ session.turn \notin Turns /\ posts = {} BY NothingOpen DEF Deliver
  <1>2. PICK c \in DOMAIN feeds : c = room.holder
    BY DEF Deliver, IInv, RoomType, Room
  <1>3. feeds[c] \in Good /\ feeds[c] \in Feed /\ feeds[c].out \in Seq(Line)
    BY FeedIsGood DEF Feed
  <1>4. UNCHANGED <<file, mod, seats, session, posts, ended>> BY DEF Deliver
  <1>5. PICK n : n = given + 1 OBVIOUS
  <1>6. room'.at = room.at /\ room'.holder = c /\ room'.cut = room.cut /\ room'.turn = n
    BY <1>2, <1>5 DEF Deliver, IInv, RoomType, Room
  <1>7. CASE feeds' = feeds
    <2>1. Settled' /\ OneOn' BY <1>2, <1>4, <1>6, <1>7 DEF Lone, Settled, OneOn
    <2>2. AllBare' BY <1>1, <1>7 DEF AllBare
    <2>3. OnePlace' BY <1>1, <1>4, <2>2 DEF OnePlace, AllBare, Holding
    <2> QED BY <1>4, <2>1, <2>3 DEF Lone, Owns
  <1>8. CASE feeds' # feeds
    <2>1. PICK l : l = [kind |-> "text", turn |-> n] OBVIOUS
    <2>2. PICK g : g = [feeds[c] EXCEPT !.out = Append(@, l)] OBVIOUS
    <2>3. feeds' = [feeds EXCEPT ![c] = g]
      BY <1>2, <1>5, <1>8, <2>1, <2>2 DEF Deliver, Prompted
    <2>4. g.at = feeds[c].at /\ g.pump = feeds[c].pump /\ g.out = Append(feeds[c].out, l)
      BY <1>3, <2>2 DEF Feed
    <2>5. DOMAIN feeds' = DOMAIN feeds /\ feeds'[c] = g
          /\ \A d \in DOMAIN feeds \ {c} : feeds'[d] = feeds[d]
      BY <2>3
    <2>6. Holding(g, n)
      <3>1. l.kind = "text" /\ l.turn = n BY <2>1
      <3>2. Len(feeds[c].out) \in Nat /\ DOMAIN feeds[c].out = 1..Len(feeds[c].out) BY <1>3
      <3>3. n \in 0..MaxTurns
        BY <1>5, ModSeatAssumption DEF Deliver, IInv, RestType
      <3>4. l \in Line BY <2>1, <3>3 DEF Line
      <3>5. /\ DOMAIN g.out = DOMAIN feeds[c].out \cup {Len(feeds[c].out) + 1}
            /\ g.out[Len(feeds[c].out) + 1] = l
            /\ \A i \in DOMAIN feeds[c].out : g.out[i] = feeds[c].out[i]
        BY <1>3, <2>4, <3>2, <3>4, AppendProperties
      <3>6. Texts(feeds[c]) = {} /\ g.pump.at # "submit" BY <1>1, <2>4 DEF AllBare, Bare
      <3>7. Texts(g) = {Len(feeds[c].out) + 1} BY <3>1, <3>2, <3>5, <3>6 DEF Texts
      <3> QED BY <3>1, <3>5, <3>6, <3>7 DEF Holding
    <2>7. Settled' BY <1>4, <1>6, <2>4, <2>5 DEF Lone, Settled
    <2>8. OneOn' BY <1>2, <1>6, <2>4, <2>5 DEF Lone, OneOn
    <2>9. \A d \in DOMAIN feeds' : /\ Holding(feeds'[d], room'.turn)
                                   /\ d # room'.holder => Bare(feeds'[d])
      BY <1>1, <1>6, <2>5, <2>6 DEF AllBare, Holding
    <2>10. OnePlace' BY <1>1, <1>4, <2>9 DEF OnePlace
    <2> QED BY <1>4, <2>7, <2>8, <2>10 DEF Lone, Owns
  <1> QED BY <1>7, <1>8

\* A Stop that is taken is of the turn that is open, and was the last of it.
LEMMA AnswerLone ==
    ASSUME IInv, Lone, NEW p \in posts, Answer(p) \/ PostFails(p) PROVE Lone'
  <1>1. UNCHANGED <<file, feeds, mod, seats, session>>
    BY DEF Answer, TakeStop, TakeClosing, PostFails
  <1>2. p.of = room.turn /\ posts = {p} /\ AllBare /\ AllBare'
    BY <1>1 DEF Lone, OnePlace, AllBare
  <1>3. session.turn \notin Turns BY <1>2 DEF Lone, OnePlace
  <1>4. /\ \A e \in ended' : e[1] = e[2]
        /\ room'.at = room.at /\ room'.cut = room.cut /\ room'.holder = room.holder
        /\ \A q \in posts' : q.of = room'.turn /\ posts' = {q}
    <2>1. CASE TakeStop(p)
      <3>1. posts' = {} BY <1>2, <2>1 DEF TakeStop
      <3>2. room'.at = room.at /\ room'.cut = room.cut /\ room'.holder = room.holder
        BY <2>1 DEF TakeStop, IInv, RoomType, Room
      <3>3. ended' \in {ended, ended \cup {<<room.turn, p.of>>}} BY <2>1 DEF TakeStop
      <3> QED BY <1>2, <3>1, <3>2, <3>3 DEF Lone, Owns
    <2>2. CASE TakeClosing(p)
      <3>1. posts' \in {{}, {Posted("stop", p.of)}} BY <1>2, <2>2 DEF TakeClosing
      <3>2. UNCHANGED <<room, ended>> BY <2>2 DEF TakeClosing
      <3> QED BY <1>2, <3>1, <3>2, PostedOf DEF Lone, Owns
    <2>3. CASE PostFails(p)
      <3>1. posts' = {} /\ UNCHANGED <<room, ended>> BY <1>2, <2>3 DEF PostFails
      <3> QED BY <3>1 DEF Lone, Owns
    <2> QED BY <2>1, <2>2, <2>3 DEF Answer
  <1>5. Settled' /\ OneOn' BY <1>1, <1>4 DEF Lone, Settled, OneOn
  <1>6. OnePlace' BY <1>1, <1>2, <1>3, <1>4 DEF OnePlace, AllBare, Holding
  <1> QED BY <1>4, <1>5, <1>6 DEF Lone, Owns

\* A join takes the one address; the feed it starts has nothing yet.
LEMMA JoinLone ==
    ASSUME IInv, Lone, NEW j \in Joiners, RoomJoin(j) \/ FindSeat(j) \/ Registered(j)
    PROVE  Lone'
  <1>1. mod \in Mod /\ feeds \in Seq(Good) /\ seats \in Seq(Places) /\ mod.seat <= Len(seats)
        /\ mod.env \in 0..1 /\ mod.options \in 0..1 /\ file \in 0..1
    BY DEF IInv, ModType, SeatsType, Lone, Settled, Mod
  <1>2. UNCHANGED <<room, file, session, posts, ended>> BY DEF RoomJoin, FindSeat, Registered
  <1>3. CASE RoomJoin(j) BY <1>2, <1>3, RestStays DEF RoomJoin, Lone, Settled
  <1>4. CASE FindSeat(j)
    <2>1. UNCHANGED feeds BY <1>4 DEF FindSeat
    <2>2. CASE UNCHANGED <<mod, seats>> BY <1>2, <2>1, <2>2, RestStays DEF Lone, Settled
    <2>3. CASE ~UNCHANGED <<mod, seats>>
      <3>1. PICK from, place : Join(place, from) /\ place \in {mod.env, file, mod.options}
                               /\ place # 0
        BY <1>4, <2>3 DEF FindSeat
      <3>2. place = 1 BY <1>1, <3>1
      <3>3. /\ seats' = Append(seats, 1) /\ mod'.seat = Len(seats) + 1
        BY <1>1, <3>1, <3>2 DEF Join, Mod
      <3>4. 1 \in Places BY ModSeatAssumption DEF Places
      <3>5. \A i \in DOMAIN seats' : seats'[i] = 1
        BY <1>1, <3>3, <3>4, AppendProperties DEF Lone, Settled
      <3>6. mod'.seat # 0 BY <1>1, <3>3
      <3> QED BY <1>1, <1>2, <2>1, <3>5, <3>6, RestStays
    <2> QED BY <2>2, <2>3
  <1>5. CASE Registered(j)
    <2>1. Spawn /\ feeds' = feeds \o Spawned /\ UNCHANGED seats BY <1>5 DEF Registered
    <2>2. CASE mod.seat = 0
      <3>1. feeds' = feeds /\ mod' = mod BY <1>1, <2>1, <2>2 DEF Spawn, Spawned
      <3> QED BY <1>1, <1>2, <2>1, <3>1, RestStays DEF Lone, Settled
    <2>3. CASE mod.seat # 0
      <3>1. PICK new : /\ Spawned = <<new>> /\ new.pump = Reading /\ new.out = <<>>
                       /\ new.at = "join"
        BY <2>3 DEF Spawned
      <3>2. /\ DOMAIN feeds' = DOMAIN feeds \cup {Len(feeds) + 1} /\ Len(feeds) + 1 \notin DOMAIN feeds
            /\ feeds'[Len(feeds) + 1] = new /\ \A d \in DOMAIN feeds : feeds'[d] = feeds[d]
        BY <1>1, <2>1, <3>1
      <3>3. mod'.seat = mod.seat BY <1>1, <2>1, <2>3 DEF Spawn, Mod
      <3>4. Bare(new) /\ new.at # "on" /\ new.pump.at \notin {"return", "register"}
        <4>1. DOMAIN new.out = {} BY <3>1
        <4> QED BY <3>1, <4>1 DEF Bare, Texts, Reading
      <3>5. Len(feeds) + 1 # room.holder BY <1>1 DEF IInv, RoomType, Room
      <3>6. Settled' BY <1>2, <2>1, <2>3, <3>2, <3>3, <3>4 DEF Lone, Settled
      <3>7. OneOn' BY <1>2, <3>2, <3>4, <3>5 DEF Lone, OneOn
      <3>8. AllBare => AllBare' BY <3>2, <3>4 DEF AllBare
      <3>9. \A d \in DOMAIN feeds' : /\ Holding(feeds'[d], room'.turn)
                                     /\ d # room'.holder => Bare(feeds'[d])
        BY <1>2, <3>2, <3>4 DEF Lone, OnePlace, Holding
      <3>10. OnePlace' BY <1>2, <3>8, <3>9 DEF Lone, OnePlace
      <3> QED BY <1>2, <3>6, <3>7, <3>10 DEF Lone, Owns
    <2> QED BY <2>2, <2>3
  <1> QED BY <1>3, <1>4, <1>5

LEMMA StopsKept == Stops /\ [Next]_vars => Stops'
  <1> SUFFICES ASSUME Stops, [Next]_vars PROVE Stops' OBVIOUS
  <1>1. IInv' BY StepKeeps DEF Stops
  <1> SUFFICES ASSUME Undisturbed' PROVE Lone' BY <1>1 DEF Stops
  <1>2. happened \subseteq happened'
    <2>1. ASSUME NEW c \in DOMAIN feeds, FeedStep(c) \/ FeedFails(c) \/ FeedDies(c)
          PROVE  happened \subseteq happened'
      BY <2>1, UpsetGrows DEF FeedStep, FeedJoins, FeedOpens, FeedLost, FeedWakes, FeedFails,
                              FeedDies
    <2>2. ASSUME NEW c \in DOMAIN feeds, PumpStep(c) \/ Starts(c) \/ Refused(c)
          PROVE  happened \subseteq happened'
      BY <2>2, UpsetGrows DEF PumpStep, ReadsStatus, ReadsTurn, Drops, PumpEnds, FollowSeatFile,
                              Returned, Rejoined, Starts, Refused
    <2>3. ASSUME NEW j \in Joiners, RoomJoin(j) \/ FindSeat(j) \/ Registered(j)
          PROVE  happened \subseteq happened'
      BY <2>3, UpsetGrows DEF RoomJoin, FindSeat, Registered
    <2>4. ASSUME NEW p \in posts, Answer(p) \/ PostFails(p) PROVE happened \subseteq happened'
      BY <2>4, UpsetGrows DEF Answer, TakeStop, TakeClosing, PostFails
    <2>5. CASE RoomLeave \/ OwnPrompt \/ Ends
      BY <2>5, UpsetGrows DEF RoomLeave, OwnPrompt, Ends, TurnEnds
    <2>6. CASE Deliver \/ FeedCloses \/ Cut \/ Move \/ WriteFile
      BY <2>6, UpsetGrows DEF Deliver, FeedCloses, Cut, Move, WriteFile
    <2>7. CASE UNCHANGED vars BY <2>7 DEF vars
    <2> QED BY <2>1, <2>2, <2>3, <2>4, <2>5, <2>6, <2>7 DEF Next
  <1>3. IInv /\ Lone BY <1>2 DEF Stops, Undisturbed
  <1>4. ASSUME NEW c \in DOMAIN feeds, FeedStep(c) \/ FeedFails(c) \/ FeedDies(c) PROVE Lone'
    BY <1>3, <1>4, FeedLone
  <1>5. ASSUME NEW c \in DOMAIN feeds, PumpStep(c) PROVE Lone'
    BY <1>3, <1>5, ReadsLone, PumpLone DEF PumpStep
  <1>6. ASSUME NEW c \in DOMAIN feeds, Starts(c) \/ Refused(c) PROVE Lone'
    BY <1>3, <1>6, StartsLone, RefusedLone
  <1>7. ASSUME NEW j \in Joiners, RoomJoin(j) \/ FindSeat(j) \/ Registered(j) PROVE Lone'
    BY <1>3, <1>7, JoinLone
  <1>8. ASSUME NEW p \in posts, Answer(p) \/ PostFails(p) PROVE Lone'
    BY <1>3, <1>8, AnswerLone
  <1>9. ~RoomLeave /\ ~Cut /\ ~Move BY DEF RoomLeave, Cut, Move, Upset, Undisturbed
  <1>10. ~FeedCloses
    BY <1>3 DEF FeedCloses, Lone, Settled, OneOn, IInv, RoomType, Room
  <1>11. CASE WriteFile
    <2>1. file' = 1 /\ UNCHANGED <<room, feeds, mod, seats, session, posts, ended>>
      BY <1>3, <1>11 DEF WriteFile, Lone, Settled
    <2> QED BY <1>3, <2>1, RestStays DEF Lone, Settled
  <1>12. CASE UNCHANGED vars
    BY <1>3, <1>12, RestStays DEF vars, Lone, Settled
  <1> QED BY <1>3, <1>4, <1>5, <1>6, <1>7, <1>8, <1>9, <1>10, <1>11, <1>12, SessionLone,
             DeliverLone DEF Next

LEMMA InitStops == Init => Stops
  <1> SUFFICES ASSUME Init PROVE Stops OBVIOUS
  <1>1. IInv BY InitHolds
  <1>2. /\ DOMAIN feeds = {} /\ DOMAIN seats = {} /\ posts = {} /\ ended = {} /\ file \in 0..1
        /\ room.at = 1 /\ ~room.cut /\ session.turn = 0 /\ mod.feed = 0
    BY DEF Init
  <1>3. 0 \notin Turns BY DEF Turns
  <1> QED BY <1>1, <1>2, <1>3 DEF Stops, Lone, Settled, OneOn, OnePlace, Owns

\* With no feed broken or dead and the seat never left nor moved, a Stop the mod posts
\* ends the turn it was posted for, though joins overlap, submits are refused and posts
\* are lost: the turn that is open is at one place of the mod at most
\* (src/mod/hooks/register.js:320, src/src/web.mjs:722).
THEOREM StopsEndTheirTurns == Spec => []StopEndsItsTurn
  <1>1. Stops /\ [Next]_vars => Stops' BY StopsKept
  <1>2. Stops => StopEndsItsTurn BY DEF Stops, Undisturbed, Lone, Owns, StopEndsItsTurn
  <1> QED BY <1>1, <1>2, InitStops, PTL DEF Spec
=============================================================================
