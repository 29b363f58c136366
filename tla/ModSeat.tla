------------------------------- MODULE ModSeat -------------------------------
(***************************************************************************)
(* A Claude Code session as an agent seat through the room-seat mod          *)
(* (src/mod/hooks/register.js): the mod inside the session, the feed         *)
(* processes it spawns (src/mod/feed.mjs), and the room's side of that seat   *)
(* (src/src/web.mjs, src/src/seats.mjs).                                      *)
(*                                                                         *)
(* The mod is one thread that gives way at its awaits: each join, and the    *)
(* pump of each feed, stands at one of them. An address and token of the     *)
(* seat is a number: room.at is the one the room answers to now. Turns,       *)
(* joins and feeds are numbered from 1 in the order they come; 0 is none.    *)
(* The n-th join makes the n-th seat object, and seats[n] is its address.    *)
(* Of what the mod posts, only what ends a turn is kept: replies and the       *)
(* hooks of tools go out under the same conditions, and Hooks has what the     *)
(* room makes of them.                                                       *)
(***************************************************************************)
EXTENDS Naturals, Sequences, FiniteSets

CONSTANTS Commands,                \* the /room-joins that can be at work at a time
          MaxTurns, MaxJoins, MaxMoves, MaxPipe,   \* bounds
          MaxUpsets,                               \* how many kinds of upset in one run
          Upsets                                   \* what may go wrong, see below

Turns    == 1..MaxTurns
Joins    == 1..MaxJoins
Places   == 1..(MaxMoves + 1)
Own      == MaxTurns + 1          \* a turn of the session's owner
Joiners  == {"start"} \cup Commands

\* "drop": the network fails; "die": a feed process dies; "leave": the owner takes
\* the seat offline; "move": the room gets a new address or the seat a new token;
\* "refuse": the session does not take a prompt; "lose": a post of the mod fails;
\* "overlap": /room-join is run while another join is still at work.
ASSUME ModSeatAssumption ==
    /\ "start" \notin Commands
    /\ MaxTurns \in Nat /\ MaxJoins \in Nat /\ MaxMoves \in Nat /\ MaxPipe \in Nat
    /\ MaxUpsets \in Nat
    /\ Upsets \subseteq {"drop", "die", "leave", "move", "refuse", "lose", "overlap"}

VARIABLES
    room,       \* its address, the feed that holds the handle, whether that
                \* connection is broken, and the turn that is open
    given,      \* turns so far
    file,       \* the address in the project's seat file, 0 if there is none
    feeds,      \* the feed processes, each with its pump in the mod
    mod,        \* the module's variables
    seats,      \* the address of every join
    joins,      \* where session.start and /room-join stand
    session,    \* the turn the session works on, and the seat it was submitted for
    posts,      \* what the mod has sent the room
    ended,      \* history: <<open turn, turn it was sent for>> of every Stop
    happened    \* history: what went wrong

vars == <<room, given, file, feeds, mod, seats, joins, session, posts, ended, happened>>

Room    == [at : Places, holder : Nat, cut : BOOLEAN, turn : 0..MaxTurns]
Line    == [kind : {"online", "retrying", "fatal", "text"}, turn : 0..MaxTurns]
Pump    == [at : {"read", "submit", "file", "return", "register", "done"},
            turn : 0..MaxTurns, by : 0..MaxJoins, to : 0..(MaxMoves + 1)]
Feed    == [to : Places, at : {"join", "open", "on", "sleep", "gone"},
            joined : BOOLEAN, online : BOOLEAN, out : Seq(Line), pump : Pump]
Sources == {"none", "env", "file", "options"}
Mod     == [env : 0..1, options : 0..1, seat : 0..MaxJoins, from : Sources,
            feed : Nat, inRoomTurn : BOOLEAN, retries : 0..3]
Post    == [kind : {"stop", "closing"}, of : Turns \cup {Own}, to : Places]

Reading == [at |-> "read", turn |-> 0, by |-> 0, to |-> 0]

\* A session the room itself runs may be told not to join on its own.
Init == /\ room = [at |-> 1, holder |-> 0, cut |-> FALSE, turn |-> 0]
        /\ given = 0 /\ file \in 0..1 /\ feeds = <<>> /\ seats = <<>>
        /\ mod \in [env : 0..1, options : 0..1, seat : {0}, from : {"none"},
                    feed : {0}, inRoomTurn : {FALSE}, retries : {0}]
        /\ \E skip \in BOOLEAN :
             joins = [j \in Joiners |->
                        IF j = "start" /\ (mod.env # 0 \/ ~skip) THEN "find" ELSE "idle"]
        /\ session = [turn |-> 0, by |-> 0]
        /\ posts = {} /\ ended = {} /\ happened = {}

Upset(k) == /\ k \in Upsets /\ Cardinality(happened \cup {k}) <= MaxUpsets
            /\ happened' = happened \cup {k}

-----------------------------------------------------------------------------
(* Joining. *)

\* Claude Code ends a feed's process when its stream is returned.
Kill(f) == [f EXCEPT !.at = "gone", !.out = <<>>]

\* join(), up to its await: the session has a new seat, and no feed for it yet.
Join(place, from) ==
    /\ Len(seats) < MaxJoins
    /\ seats' = Append(seats, place)
    /\ mod' = [mod EXCEPT !.seat = Len(seats) + 1, !.from = from, !.retries = 0,
                          !.inRoomTurn = FALSE]

\* The rest of join(): the seat is read again, and is none if the owner left or a
\* feed died in between; spawning then throws.
Spawn ==
    IF mod.seat = 0 THEN UNCHANGED mod ELSE mod' = [mod EXCEPT !.feed = Len(feeds) + 1]

Spawned ==
    IF mod.seat = 0 THEN <<>>
    ELSE <<[to |-> seats[mod.seat], at |-> "join", joined |-> FALSE, online |-> FALSE,
            out |-> <<>>, pump |-> Reading]>>

Joining == \/ \E j \in Joiners : joins[j] # "idle"
           \/ \E c \in DOMAIN feeds : feeds[c].pump.at \in {"return", "register"}

\* Commands come once the session has started.
RoomJoin(j) ==
    /\ j \in Commands /\ joins["start"] = "idle" /\ joins[j] = "idle" /\ mod.feed = 0
    /\ joins' = [joins EXCEPT ![j] = "find"]
    /\ IF Joining THEN Upset("overlap") ELSE UNCHANGED happened
    /\ UNCHANGED <<room, given, file, feeds, mod, seats, session, posts, ended>>

\* findSeat: the environment, the seat file, the plugin options, in this order.
FindSeat(j) ==
    LET from == IF mod.env # 0 THEN "env" ELSE IF file # 0 THEN "file"
                ELSE IF mod.options # 0 THEN "options" ELSE "none"
        place == CASE from = "env"     -> mod.env
                   [] from = "file"    -> file
                   [] from = "options" -> mod.options
                   [] OTHER            -> 0
    IN /\ joins[j] = "find"
       /\ IF from = "none"
          THEN joins' = [joins EXCEPT ![j] = "idle"] /\ UNCHANGED <<mod, seats>>
          ELSE joins' = [joins EXCEPT ![j] = "register"] /\ Join(place, from)
       /\ UNCHANGED <<room, given, file, feeds, session, posts, ended, happened>>

Registered(j) ==
    /\ joins[j] = "register"
    /\ joins' = [joins EXCEPT ![j] = "idle"]
    /\ Spawn /\ feeds' = feeds \o Spawned
    /\ UNCHANGED <<room, given, file, seats, session, posts, ended, happened>>

RoomLeave ==
    /\ mod.feed # 0 /\ Upset("leave")
    /\ mod' = [mod EXCEPT !.feed = 0, !.seat = 0, !.inRoomTurn = FALSE]
    /\ feeds' = [feeds EXCEPT ![mod.feed] = Kill(@)]
    /\ UNCHANGED <<room, given, file, seats, joins, session, posts, ended>>

-----------------------------------------------------------------------------
(* The feed process. *)

\* f after it printed a line.
Say(f, kind) == [f EXCEPT !.out = Append(@, [kind |-> kind, turn |-> 0])]

Retry(f) == [Say(f, "retrying") EXCEPT !.at = "sleep"]
Fatal(f) == [Say(f, "fatal") EXCEPT !.at = "gone"]

CanSay(c) == Len(feeds[c].out) < MaxPipe

\* POST /seat/join. An old address refuses the connection, and the feed tries again;
\* an old token is answered 401, and the feed gives up. Which of the two an old place
\* is, is not kept.
FeedJoins(c) ==
    /\ feeds[c].at = "join" /\ CanSay(c)
    /\ \E f \in IF feeds[c].to = room.at
               THEN {[feeds[c] EXCEPT !.joined = TRUE, !.at = "open"]}
               ELSE {Retry(feeds[c]), Fatal(feeds[c])} :
         feeds' = [feeds EXCEPT ![c] = f]
    /\ UNCHANGED <<room, given, file, mod, seats, joins, session, posts, ended, happened>>

\* GET /seat/events: the room gives the handle to one connection at a time, and 409
\* to the others.
FeedOpens(c) ==
    LET f == feeds[c]
        on == [Say(f, "online") EXCEPT !.at = "on", !.online = TRUE]
    IN /\ f.at = "open" /\ CanSay(c)
       /\ IF f.to = room.at /\ room.holder = 0
          THEN /\ feeds' = [feeds EXCEPT ![c] = on]
               /\ room' = [room EXCEPT !.holder = c, !.cut = FALSE]
          ELSE /\ \E g \in IF f.to # room.at THEN {Retry(f), Fatal(f)}
                          ELSE IF f.online THEN {Retry(f)} ELSE {Fatal(f)} :
                    feeds' = [feeds EXCEPT ![c] = g]
               /\ UNCHANGED room
       /\ UNCHANGED <<given, file, mod, seats, joins, session, posts, ended, happened>>

\* A request fails on the way.
FeedFails(c) ==
    /\ feeds[c].at \in {"join", "open"} /\ CanSay(c) /\ Upset("drop")
    /\ feeds' = [feeds EXCEPT ![c] = Retry(@)]
    /\ UNCHANGED <<room, given, file, mod, seats, joins, session, posts, ended>>

\* The stream ends at this side.
FeedLost(c) ==
    /\ feeds[c].at = "on" /\ (room.holder # c \/ room.cut) /\ CanSay(c)
    /\ feeds' = [feeds EXCEPT ![c] = Retry(@)]
    /\ UNCHANGED <<room, given, file, mod, seats, joins, session, posts, ended, happened>>

\* The process dies without a word.
FeedDies(c) ==
    /\ feeds[c].at # "gone" /\ Upset("die")
    /\ feeds' = [feeds EXCEPT ![c].at = "gone"]
    /\ UNCHANGED <<room, given, file, mod, seats, joins, session, posts, ended>>

FeedWakes(c) ==
    /\ feeds[c].at = "sleep"
    /\ feeds' = [feeds EXCEPT ![c].at = IF feeds[c].joined THEN "open" ELSE "join"]
    /\ UNCHANGED <<room, given, file, mod, seats, joins, session, posts, ended, happened>>

-----------------------------------------------------------------------------
(* The pump of a feed: it reads lines while the feed is the current one. *)

\* The pump's next line, unless it stands at an await.
Reads(c) == feeds[c].pump.at = "read" /\ feeds[c].out # <<>>

\* The feed after the pump read a line, and stands at p.
After(c, p) == [feeds EXCEPT ![c].out = Tail(@), ![c].pump = p]

Follow(c) == IF mod.from = "file" THEN [Reading EXCEPT !.at = "file"] ELSE Reading

ReadsStatus(c) ==
    LET line == Head(feeds[c].out)
        many == mod.retries + 1 >= 3
    IN /\ Reads(c) /\ mod.feed = c
       /\ \/ /\ line.kind = "online"
             /\ mod' = [mod EXCEPT !.retries = 0]
             /\ feeds' = After(c, Reading)
          \/ /\ line.kind = "retrying"
             /\ mod' = [mod EXCEPT !.retries = IF ~many THEN @ + 1
                                              ELSE IF mod.from = "file" THEN 0 ELSE 3]
             /\ feeds' = After(c, IF many THEN Follow(c) ELSE Reading)
          \/ /\ line.kind = "fatal"
             /\ mod' = [mod EXCEPT !.retries = IF mod.from = "file" THEN 0 ELSE @]
             /\ feeds' = After(c, Follow(c))
       /\ UNCHANGED <<room, given, file, seats, joins, session, posts, ended, happened>>

\* A turn: $.prompt.submit waits until the session is idle.
ReadsTurn(c) ==
    LET line == Head(feeds[c].out) IN
    /\ Reads(c) /\ mod.feed = c /\ line.kind = "text"
    /\ feeds' = After(c, [Reading EXCEPT !.at = "submit", !.turn = line.turn, !.by = mod.seat])
    /\ UNCHANGED <<room, given, file, mod, seats, joins, session, posts, ended, happened>>

\* What a feed says that is not the current one stays unprocessed.
Drops(c) ==
    /\ Reads(c) /\ mod.feed # c
    /\ feeds' = After(c, Reading)
    /\ UNCHANGED <<room, given, file, mod, seats, joins, session, posts, ended, happened>>

\* The process is gone and all it said is read.
PumpEnds(c) ==
    /\ feeds[c].pump.at = "read" /\ feeds[c].out = <<>> /\ feeds[c].at = "gone"
    /\ feeds' = [feeds EXCEPT ![c].pump.at = "done"]
    /\ mod' = IF mod.feed = c
              THEN [mod EXCEPT !.feed = 0, !.seat = 0, !.inRoomTurn = FALSE] ELSE mod
    /\ UNCHANGED <<room, given, file, seats, joins, session, posts, ended, happened>>

\* Mutant: the feed it leaves behind is not stopped.
FollowKeepsFeed(c) ==
    /\ feeds[c].pump.at = "file"
    /\ IF file = 0 \/ mod.feed # c \/ file = seats[mod.seat]
       THEN feeds' = [feeds EXCEPT ![c].pump = Reading] /\ UNCHANGED mod
       ELSE /\ feeds' = [feeds EXCEPT ![c].pump = [Reading EXCEPT !.at = "return", !.to = file]]
            /\ mod' = [mod EXCEPT !.feed = 0, !.seat = 0]
    /\ UNCHANGED <<room, given, file, seats, joins, session, posts, ended, happened>>

\* followSeatFile after it read the file: it rejoins if the file names another
\* address or token, and this feed is still the current one.
FollowSeatFile(c) ==
    /\ feeds[c].pump.at = "file"
    /\ IF file = 0 \/ mod.feed # c \/ file = seats[mod.seat]
       THEN feeds' = [feeds EXCEPT ![c].pump = Reading] /\ UNCHANGED mod
       ELSE /\ feeds' = [feeds EXCEPT ![c] = [Kill(@) EXCEPT
                                   !.pump = [Reading EXCEPT !.at = "return", !.to = file]]]
            /\ mod' = [mod EXCEPT !.feed = 0, !.seat = 0]
    /\ UNCHANGED <<room, given, file, seats, joins, session, posts, ended, happened>>

Returned(c) ==
    /\ feeds[c].pump.at = "return"
    /\ Join(feeds[c].pump.to, "file")
    /\ feeds' = [feeds EXCEPT ![c].pump = [Reading EXCEPT !.at = "register"]]
    /\ UNCHANGED <<room, given, file, joins, session, posts, ended, happened>>

Rejoined(c) ==
    /\ feeds[c].pump.at = "register"
    /\ Spawn /\ feeds' = [feeds EXCEPT ![c].pump = [Reading EXCEPT !.at = "done"]] \o Spawned
    /\ UNCHANGED <<room, given, file, seats, joins, session, posts, ended, happened>>

-----------------------------------------------------------------------------
(* The session. *)

\* While this holds, hooks of the session go to the room.
InRoomTurn == mod.seat # 0 /\ mod.inRoomTurn

Posted(kind, turn) == [kind |-> kind, of |-> turn, to |-> seats[mod.seat]]

\* closeRoomTurn, up to its first await: the reason, as a reply.
Closing(turn) == IF mod.seat = 0 THEN {} ELSE {Posted("closing", turn)}

\* Mutant: the turn is the room's whichever seat asked for it.
StartsForAny(c) ==
    LET p == feeds[c].pump IN
    /\ p.at = "submit" /\ session.turn = 0
    /\ session' = [turn |-> p.turn, by |-> p.by]
    /\ mod' = [mod EXCEPT !.inRoomTurn = mod.seat # 0]
    /\ feeds' = [feeds EXCEPT ![c].pump = Reading]
    /\ UNCHANGED <<room, given, file, seats, joins, posts, ended, happened>>

\* Idle, the session starts the turn, and submit resolves.
Starts(c) ==
    LET p == feeds[c].pump IN
    /\ p.at = "submit" /\ session.turn = 0
    /\ session' = [turn |-> p.turn, by |-> p.by]
    /\ mod' = [mod EXCEPT !.inRoomTurn = @ \/ mod.seat = p.by]
    /\ feeds' = [feeds EXCEPT ![c].pump = Reading]
    /\ UNCHANGED <<room, given, file, seats, joins, posts, ended, happened>>

\* Mutant: a turn that cannot start is dropped without a word.
RefusedSilently(c) ==
    /\ feeds[c].pump.at = "submit" /\ Upset("refuse")
    /\ mod' = [mod EXCEPT !.inRoomTurn = @ /\ mod.seat # feeds[c].pump.by]
    /\ feeds' = [feeds EXCEPT ![c].pump = Reading]
    /\ UNCHANGED <<room, given, file, seats, joins, session, posts, ended>>

\* The session drops the prompt, or submit throws.
Refused(c) ==
    LET p == feeds[c].pump IN
    /\ p.at = "submit" /\ Upset("refuse")
    /\ IF mod.seat = p.by
       THEN mod' = [mod EXCEPT !.inRoomTurn = FALSE] /\ posts' = posts \cup Closing(p.turn)
       ELSE UNCHANGED <<mod, posts>>
    /\ feeds' = [feeds EXCEPT ![c].pump = Reading]
    /\ UNCHANGED <<room, given, file, seats, joins, session, ended>>

OwnPrompt ==
    /\ session.turn = 0
    /\ session' = [turn |-> Own, by |-> 0]
    /\ UNCHANGED <<room, given, file, feeds, mod, seats, joins, posts, ended, happened>>

\* Mutant: the Stop leaves the flag to turn.complete, which closes the turn again.
ClosesTwice(stop, unanswered) ==
    /\ session.turn # 0 /\ (stop \/ unanswered)
    /\ session' = [turn |-> 0, by |-> 0]
    /\ mod' = [mod EXCEPT !.inRoomTurn = FALSE]
    /\ posts' = posts \cup (IF stop /\ InRoomTurn THEN {Posted("stop", session.turn)} ELSE {})
                     \cup (IF unanswered /\ mod.inRoomTurn THEN Closing(session.turn) ELSE {})
    /\ UNCHANGED <<room, given, file, feeds, seats, joins, ended, happened>>

\* The turn ends: with a Stop hook if stop, without an answer if unanswered.
\* turn.complete comes after the Stop.
TurnEnds(stop, unanswered) ==
    /\ session.turn # 0 /\ (stop \/ unanswered)
    /\ session' = [turn |-> 0, by |-> 0]
    /\ mod' = [mod EXCEPT !.inRoomTurn = FALSE]
    /\ posts' = posts \cup (IF stop /\ InRoomTurn THEN {Posted("stop", session.turn)} ELSE {})
                     \cup (IF ~stop /\ mod.inRoomTurn THEN Closing(session.turn) ELSE {})
    /\ UNCHANGED <<room, given, file, feeds, seats, joins, ended, happened>>

-----------------------------------------------------------------------------
(* The room. *)

\* The feed after it made a prompt of a turn.
Prompted(f, turn) == [f EXCEPT !.out = Append(@, [kind |-> "text", turn |-> turn])]

\* drain: the turn goes to the seat that holds the handle, over a connection that
\* may be broken already.
Deliver ==
    LET c == room.holder
        reaches == ~room.cut /\ feeds[c].at = "on"
    IN /\ c # 0 /\ room.turn = 0 /\ given < MaxTurns /\ CanSay(c)
       /\ given' = given + 1
       /\ room' = [room EXCEPT !.turn = given + 1]
       /\ feeds' = IF reaches THEN [feeds EXCEPT ![c] = Prompted(@, given + 1)] ELSE feeds
       /\ UNCHANGED <<file, mod, seats, joins, session, posts, ended, happened>>

\* The feed's close handler: the seat is offline and its turn abandoned.
FeedCloses ==
    /\ room.holder # 0 /\ (room.cut \/ feeds[room.holder].at # "on")
    /\ room' = [room EXCEPT !.holder = 0, !.cut = FALSE, !.turn = 0]
    /\ UNCHANGED <<given, file, feeds, mod, seats, joins, session, posts, ended, happened>>

\* A Stop ends the turn that is open, if its token is the seat's.
TakeStop(p) ==
    /\ p \in posts /\ p.kind = "stop"
    /\ posts' = posts \ {p}
    /\ IF p.to = room.at /\ room.turn # 0
       THEN /\ room' = [room EXCEPT !.turn = 0]
            /\ ended' = ended \cup {<<room.turn, p.of>>}
       ELSE UNCHANGED <<room, ended>>
    /\ UNCHANGED <<given, file, feeds, mod, seats, joins, session, happened>>

\* The reason was taken, or answered with a 401, and the Stop follows, for the seat
\* there is by then.
TakeClosing(p) ==
    /\ p \in posts /\ p.kind = "closing"
    /\ posts' = (posts \ {p}) \cup
                (IF mod.seat = 0 THEN {} ELSE {Posted("stop", p.of)})
    /\ UNCHANGED <<room, given, file, feeds, mod, seats, joins, session, ended, happened>>

\* A post fails, at an address that is no more or on the way: nobody repeats it.
PostFails(p) ==
    /\ p \in posts /\ posts' = posts \ {p}
    /\ IF p.to # room.at THEN UNCHANGED happened ELSE Upset("lose")
    /\ UNCHANGED <<room, given, file, feeds, mod, seats, joins, session, ended>>

\* The connection breaks; the two sides find out on their own.
Cut ==
    /\ room.holder # 0 /\ ~room.cut /\ Upset("drop")
    /\ room' = [room EXCEPT !.cut = TRUE]
    /\ UNCHANGED <<given, file, feeds, mod, seats, joins, session, posts, ended>>

\* The room restarts at another address, with nothing open; or the seat gets a new
\* token, and its feed is ended.
Move ==
    /\ room.at <= MaxMoves /\ Upset("move")
    /\ \/ room' = [at |-> room.at + 1, holder |-> 0, cut |-> FALSE, turn |-> 0]
       \/ room' = [room EXCEPT !.at = @ + 1, !.cut = room.holder # 0]
    /\ UNCHANGED <<given, file, feeds, mod, seats, joins, session, posts, ended>>

\* The Room extension writes the seat file.
WriteFile ==
    /\ file # room.at /\ file' = room.at
    /\ UNCHANGED <<room, given, feeds, mod, seats, joins, session, posts, ended, happened>>

-----------------------------------------------------------------------------
FeedStep(c) == FeedJoins(c) \/ FeedOpens(c) \/ FeedLost(c) \/ FeedWakes(c)

PumpStep(c) == \/ ReadsStatus(c) \/ ReadsTurn(c) \/ Drops(c) \/ PumpEnds(c)
               \/ FollowSeatFile(c) \/ Returned(c) \/ Rejoined(c)

Ends == \E stop, unanswered \in BOOLEAN : TurnEnds(stop, unanswered)

Answer(p) == TakeStop(p) \/ TakeClosing(p)

Next == \/ \E c \in DOMAIN feeds : \/ FeedStep(c) \/ FeedFails(c) \/ FeedDies(c)
                                  \/ PumpStep(c)
                                  \/ Starts(c) \/ Refused(c)
        \/ \E j \in Joiners : RoomJoin(j) \/ FindSeat(j) \/ Registered(j)
        \/ \E p \in posts : Answer(p) \/ PostFails(p)
        \/ RoomLeave \/ OwnPrompt \/ Ends
        \/ Deliver \/ FeedCloses \/ Cut \/ Move \/ WriteFile

Spec == Init /\ [][Next]_vars

\* Timers, promises and processes go on; a turn ends; the room finds out that a
\* connection is broken (its keepalive fails) and answers what it is sent; the
\* extension writes the file. A prompt that waits for the session is the next one
\* it takes, whatever its owner types meanwhile.
Fairness ==
    /\ \A c \in Joins : /\ WF_vars(c \in DOMAIN feeds /\ FeedStep(c))
                        /\ WF_vars(c \in DOMAIN feeds /\ PumpStep(c))
                        /\ SF_vars(c \in DOMAIN feeds /\ Starts(c))
    /\ \A j \in Joiners : WF_vars(FindSeat(j) \/ Registered(j))
    /\ WF_vars(\E p \in posts : Answer(p)) /\ WF_vars(Ends)
    /\ WF_vars(FeedCloses) /\ WF_vars(WriteFile)

FairSpec == Spec /\ Fairness

-----------------------------------------------------------------------------
TypeOK == /\ room \in Room /\ given \in 0..MaxTurns /\ file \in 0..(MaxMoves + 1)
          /\ feeds \in Seq(Feed) /\ room.holder <= Len(feeds)
          /\ mod \in Mod /\ mod.feed <= Len(feeds) /\ mod.seat <= Len(seats)
          /\ seats \in Seq(Places) /\ Len(seats) <= MaxJoins
          /\ joins \in [Joiners -> {"idle", "find", "register"}]
          /\ session \in [turn : 0..Own, by : 0..MaxJoins]
          /\ posts \subseteq Post /\ ended \subseteq Turns \X (Turns \cup {Own})
          /\ happened \subseteq Upsets

\* The mod sends the session's hooks to the room only while the session works on a
\* turn of the room that was submitted for the seat it holds now, whatever leaves,
\* rejoins, moves or fails while a submit waits.
OnlyRoomTurns ==
    InRoomTurn => session.turn \in Turns /\ session.by = mod.seat

\* A Stop ends the turn it was sent for, as long as no feed breaks or dies, and
\* the mod does not join again.
StopEndsItsTurn ==
    happened \cap {"drop", "die", "leave", "move"} = {} => \A e \in ended : e[1] = e[2]

\* No feed process is alive that the mod does not read, unless two joins overlapped.
NoOrphan ==
    "overlap" \notin happened => \A c \in DOMAIN feeds : feeds[c].at # "gone" => mod.feed = c

\* A turn the room gives the seat does not stay open for ever, unless a post of the
\* mod is lost, which nobody repeats, or joins overlapped.
RoomTurnCloses ==
    \A t \in Turns : room.turn = t ~> room.turn # t \/ happened \cap {"lose", "overlap"} # {}
=============================================================================
