------------------------------ MODULE SeatBridge ------------------------------
(***************************************************************************)
(* The seats of other people's Claude Code sessions: the bridge that runs in   *)
(* each of them (src/src/seat.mjs), the feed the room serves it (web.mjs,        *)
(* seats.mjs), who is sent what (fanout.mjs), and what a session hears of it     *)
(* as channel notifications (channel.mjs).                                      *)
(*                                                                         *)
(* Seats refuses a second feed for a handle, so a handle has one connection at  *)
(* most: its frames, and whether each end still believes in it. Turns are the   *)
(* messages of people, numbered as they are accepted.                           *)
(***************************************************************************)
EXTENDS Naturals, Sequences, FiniteSets, FiniteSetsExt

CONSTANTS Handles,            \* the agent seats of the room
          MaxMessages,        \* messages people address to them
          MaxMishaps,         \* mishaps in one behaviour
          Mishaps             \* what may go wrong

\* "drop": a feed is cut and one end knows at once; "crash": the room dies and starts
\* again; "exit": a session ends and another takes its seat.
Kinds == {"drop", "crash", "exit"}

ASSUME BridgeAssumption ==
    /\ MaxMessages \in Nat /\ MaxMishaps \in Nat /\ Mishaps \subseteq Kinds

VARIABLES
    up,         \* the room runs
    turns,      \* every message accepted: whom it addresses
    waiting,    \* queued messages of each handle
    inflight,   \* the turn in flight of each handle: its messages
    table,      \* Seats: "none", "open", or "cut" when only the room believes in it
    frames,     \* what is on its way on the feed of each handle
    bridge,     \* the phase of each bridge
    heard,      \* each session's notifications, in order
    at,         \* each session's work: the last turn it took, whether it is at it and has replied
    told,       \* messages whose sender was told of a rejection
    got,        \* history: messages a session heard
    spent,      \* bound: mishaps so far
    mishaps     \* history: what went wrong; "stale" when a session ended a turn that
                \* was not its own

room == <<up, turns, waiting, inflight, table, told>>
session == <<heard, at, got>>
bridgeVars == <<room, frames, bridge, session, spent, mishaps>>

Idle == [taken |-> 0, busy |-> FALSE, said |-> FALSE]

BridgeInit ==
    /\ up = TRUE /\ turns = <<>>
    /\ waiting = [h \in Handles |-> {}] /\ inflight = [h \in Handles |-> {}]
    /\ table = [h \in Handles |-> "none"] /\ frames = [h \in Handles |-> <<>>]
    /\ bridge = [h \in Handles |-> "off"] /\ heard = [h \in Handles |-> <<>>]
    /\ at = [h \in Handles |-> Idle]
    /\ told = {} /\ got = {} /\ spent = 0 /\ mishaps = {}

Mishap(k) == /\ k \in Mishaps /\ spent < MaxMishaps
             /\ spent' = spent + 1 /\ mishaps' = mishaps \cup {k}

----------------------------------------------------------------------------
(* Who is sent what.                                                       *)

Online(h) == table[h] # "none"

Frame(kind, ids) == [kind |-> kind, ids |-> ids, text |-> TRUE, led |-> FALSE]

\* A turn is its seat's alone; the others are shown a mirror, whose messages are not
\* the text a bridge looks for.
\* Mutant: a turn is everybody's.
AddressedToAll(h, g, ids) == Frame("turn", ids)
Addressed(h, g, ids) ==
    IF g = h THEN Frame("turn", ids) ELSE [Frame("mirror", ids) EXCEPT !.text = FALSE]

\* The brief goes to the seat about to be addressed, and before its turn.
\* Mutant: the brief follows its turn.
BriefFollows(brief, turn) == <<turn, brief>>
BriefLeads(brief, turn) == <<brief, turn>>

Sent(h, g, ids, brief) ==
    IF brief /\ g = h
    THEN BriefLeads(Frame("brief", ids), [Addressed(h, g, ids) EXCEPT !.led = TRUE])
    ELSE <<Addressed(h, g, ids)>>

\* What is written to a connection that is cut arrives nowhere.
Deliver(g, fs) == IF table[g] = "open" THEN frames[g] \o fs ELSE frames[g]

----------------------------------------------------------------------------
(* The queue.                                                              *)

Ready(w, r) == {h \in Handles : w[h] # {} /\ r[h] = {}}

\* The sender of a message that cannot be delivered hears of it.
\* Mutant: the turn of a seat that has gone is only ended.
Unheard(ids) == told
Reject(ids) == told \cup ids

\* drain: the first ready destination is started; those before it that are offline
\* are rejected on the way.
Drain(w, r, brief) ==
    LET first(h) == Min(w[h])
        live   == {h \in Ready(w, r) : Online(h)}
        start  == {h \in live : \A g \in live : first(h) <= first(g)}
        lost   == {h \in Ready(w, r) \ live : \A g \in start : first(h) < first(g)}
    IN  /\ told' = Reject(UNION {w[h] : h \in lost})
        /\ waiting' = [h \in Handles |-> IF h \in start \cup lost THEN {} ELSE w[h]]
        /\ inflight' = [h \in Handles |-> IF h \in start THEN w[h] ELSE r[h]]
        /\ frames' = [g \in Handles |->
                        IF start = {} THEN frames[g]
                        ELSE LET h == CHOOSE h \in start : TRUE
                             IN  Deliver(g, Sent(h, g, w[h], brief))]

\* A message for a seat that is online; the observer may have a brief for it.
Submit(h) ==
    LET id == Len(turns) + 1
    IN  /\ up /\ Len(turns) < MaxMessages /\ Online(h)
        /\ turns' = Append(turns, h)
        /\ \E brief \in BOOLEAN : Drain([waiting EXCEPT ![h] = @ \cup {id}], inflight, brief)
        /\ UNCHANGED <<up, table, bridge, session, spent, mishaps>>

----------------------------------------------------------------------------
(* The bridge.                                                             *)

\* A session starts its bridge, which joins and is seeded, when the room has anything to
\* tell. Without a room it dies.
Connect(h) ==
    /\ bridge[h] = "off" /\ up
    /\ bridge' = [bridge EXCEPT ![h] = "waiting"]
    /\ heard' = [heard EXCEPT ![h] = IF turns = <<>> THEN <<>> ELSE <<Frame("seed", {})>>]
    /\ UNCHANGED <<room, frames, at, got, spent, mishaps>>

\* Mutant: a feed that is refused is not tried again.
GivenUp(h) == "deaf"
Refused(h) == "waiting"

\* Its timer fires and it asks for its feed. The room opens one for a handle: one that is
\* cut, but not closed, is in its way.
OpenFeed(h) ==
    /\ bridge[h] = "waiting"
    /\ IF up /\ ~Online(h)
       THEN /\ table' = [table EXCEPT ![h] = "open"]
            /\ bridge' = [bridge EXCEPT ![h] = "live"]
       ELSE bridge' = [bridge EXCEPT ![h] = Refused(h)] /\ UNCHANGED table
    /\ UNCHANGED <<up, turns, waiting, inflight, told, frames, session, spent, mishaps>>

\* A frame becomes a notification, if it has anything to say.
Notified(f) == IF f.text THEN <<f>> ELSE <<>>

Reads(h) ==
    LET f == Head(frames[h])
    IN  /\ bridge[h] = "live" /\ frames[h] # <<>>
        /\ heard' = [heard EXCEPT ![h] = @ \o Notified(f)]
        /\ got' = IF f.kind = "turn" THEN got \cup f.ids ELSE got
        /\ frames' = [frames EXCEPT ![h] = Tail(@)]
        /\ UNCHANGED <<room, bridge, at, spent, mishaps>>

\* The stream ends; what the bridge has not read of it is lost.
Ended(h) == /\ bridge' = [bridge EXCEPT ![h] = "waiting"]
            /\ frames' = [frames EXCEPT ![h] = <<>>]

Notices(h) ==
    /\ bridge[h] = "live" /\ table[h] = "none" /\ Ended(h)
    /\ UNCHANGED <<room, session, spent, mishaps>>

Drops(h) ==
    /\ bridge[h] = "live" /\ table[h] = "open" /\ Mishap("drop")
    /\ Ended(h) /\ table' = [table EXCEPT ![h] = "cut"]
    /\ UNCHANGED <<up, turns, waiting, inflight, told, session>>

\* The close handler of a feed: the seat is retired and its turn abandoned.
Retire(h) ==
    /\ up /\ table' = [table EXCEPT ![h] = "none"]
    /\ told' = told \cup inflight[h] /\ inflight' = [inflight EXCEPT ![h] = {}]
    /\ UNCHANGED <<up, turns, waiting, frames, bridge, session>>

Closes(h)      == table[h] = "cut" /\ Retire(h) /\ UNCHANGED <<spent, mishaps>>
ClosesFirst(h) == table[h] = "open" /\ Retire(h) /\ Mishap("drop")

----------------------------------------------------------------------------
(* The session.                                                            *)

\* The turns it has heard and not taken up: where they are in what it heard.
Unread(h) == {i \in DOMAIN heard[h] : i > at[h].taken /\ heard[h][i].kind = "turn"}

\* The messages of the turn it is at, or was.
Own(h) == heard[h][at[h].taken].ids

\* Notifications queue up in a session that is at work.
Takes(h) ==
    /\ ~at[h].busy /\ Unread(h) # {}
    /\ at' = [at EXCEPT ![h] = [taken |-> Min(Unread(h)), busy |-> TRUE, said |-> FALSE]]
    /\ UNCHANGED <<room, frames, bridge, heard, got, spent, mishaps>>

\* Its reply is a mirror for every other seat, whoever it mentions, and never a turn.
\* Of a seat that is offline nothing is mirrored.
Replies(h) ==
    LET mirror == Frame("mirror", Own(h))
    IN  /\ up /\ at[h].busy /\ ~at[h].said
        /\ at' = [at EXCEPT ![h].said = TRUE]
        /\ frames' = [g \in Handles |-> IF g # h /\ Online(h) THEN Deliver(g, <<mirror>>)
                                        ELSE frames[g]]
        /\ UNCHANGED <<room, bridge, heard, got, spent, mishaps>>

\* Its Stop hook ends the turn of its handle in flight, and the room drains.
Finishes(h) ==
    /\ at[h].busy /\ at' = [at EXCEPT ![h].busy = FALSE]
    /\ IF up
       THEN /\ \E brief \in BOOLEAN : Drain(waiting, [inflight EXCEPT ![h] = {}], brief)
            /\ mishaps' = mishaps \cup (IF inflight[h] \in {Own(h), {}} THEN {} ELSE {"stale"})
       ELSE UNCHANGED <<told, waiting, inflight, frames, mishaps>>
    /\ UNCHANGED <<up, turns, table, bridge, heard, got, spent>>

\* The session ends; the next one knows nothing of it.
Exits(h) ==
    /\ bridge[h] # "off" /\ Mishap("exit")
    /\ bridge' = [bridge EXCEPT ![h] = "off"] /\ frames' = [frames EXCEPT ![h] = <<>>]
    /\ table' = [table EXCEPT ![h] = IF @ = "open" THEN "cut" ELSE @]
    /\ heard' = [heard EXCEPT ![h] = <<>>] /\ at' = [at EXCEPT ![h] = Idle]
    /\ UNCHANGED <<up, turns, waiting, inflight, told, got>>

\* The room dies with its queue, and starts again.
Crashes ==
    /\ up /\ Mishap("crash") /\ up' = FALSE
    /\ waiting' = [h \in Handles |-> {}] /\ inflight' = [h \in Handles |-> {}]
    /\ table' = [h \in Handles |-> "none"]
    /\ UNCHANGED <<turns, told, frames, bridge, session>>

Boots == /\ ~up /\ up' = TRUE
         /\ UNCHANGED <<turns, waiting, inflight, table, told, frames, bridge, session, spent, mishaps>>

----------------------------------------------------------------------------

BridgeNext ==
        \/ \E h \in Handles :
              \/ Submit(h) \/ Connect(h) \/ OpenFeed(h) \/ Reads(h)
              \/ Notices(h) \/ Drops(h) \/ Closes(h) \/ ClosesFirst(h)
              \/ Takes(h) \/ Replies(h) \/ Finishes(h) \/ Exits(h)
        \/ Crashes \/ Boots

BridgeSpec == BridgeInit /\ [][BridgeNext]_bridgeVars

\* Requests are answered, timers fire, both ends of a dead connection notice in the
\* end, and somebody starts the room again. Nobody need speak, work or leave.
FairBridgeSpec ==
    /\ BridgeSpec /\ WF_bridgeVars(Boots)
    /\ \A h \in Handles : /\ WF_bridgeVars(OpenFeed(h)) /\ WF_bridgeVars(Notices(h))
                          /\ WF_bridgeVars(Closes(h))

----------------------------------------------------------------------------
(* Properties.                                                             *)

\* What a session hears: a seed first, or not at all; only turns addressed to its own
\* seat, each after the brief that led it, in the order they were accepted and none
\* twice, through any number of reconnections. Another agent's words are never one.
HeardAsSent ==
    \A h \in Handles : \A i \in DOMAIN heard[h] :
        LET f == heard[h][i]
        IN  /\ f.kind = "seed" => i = 1
            /\ f.kind = "turn" =>
                 /\ \A id \in f.ids : turns[id] = h
                 /\ f.led => i > 1 /\ heard[h][i - 1] = Frame("brief", f.ids)
                 /\ \A j \in 1..(i - 1) : heard[h][j].kind = "turn" => Max(heard[h][j].ids) < Min(f.ids)

\* A message that was accepted is queued, in flight, heard by a session, or its sender
\* was told it was not: whichever end of the feed notices first, unless the room died
\* or a session ended a turn that was not its own.
HeardOrTold ==
    mishaps \cap {"crash", "stale"} = {} =>
        DOMAIN turns = got \cup told \cup UNION {waiting[h] \cup inflight[h] : h \in Handles}

\* A seat that has lost its feed gets it back, though its old connection is in the way
\* at first, unless its session ends.
SeatComesBack ==
    \A h \in Handles :
        bridge[h] = "waiting"
            ~> (bridge[h] = "off" \/ (bridge[h] = "live" /\ table[h] = "open"))
=============================================================================
