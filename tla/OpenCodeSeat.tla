---------------------------- MODULE OpenCodeSeat ----------------------------
(***************************************************************************)
(* The OpenCode seat driver (src/src/opencode.mjs) between the room and an  *)
(* opencode server, and the room's half of one seat: the turn in flight,    *)
(* the feed, and what replies and Stop hooks do to them.                    *)
(*                                                                         *)
(* Every handler of the driver is asynchronous and is started without being *)
(* awaited, so several are under way at once, each suspended at a request.  *)
(* "handlers" is the set of those activations; an action runs one of them   *)
(* from one await to the next, or serves the request it waits on. The two   *)
(* servers are reached over separate connections: nothing orders requests   *)
(* and events but the handlers themselves.                                  *)
(***************************************************************************)
EXTENDS Naturals, Sequences, FiniteSets

CONSTANTS MaxTurns,   \* bound: turns the room hands to this seat
          MaxEvents,  \* bound: opencode events on their way to the driver
          Upsets,     \* "drop": feeds drop; "refuse": requests to opencode fail
          Alone       \* bound: those that come once in a behaviour, and by themselves

ASSUME SeatAssumption == /\ MaxTurns \in Nat /\ MaxEvents \in Nat
                         /\ Upsets \subseteq {"drop", "refuse"} /\ Alone \subseteq Upsets

Turns == 1 .. MaxTurns      \* room turns; a promptId is minted for each, so is one of these
None  == 0

\* An activation: which handler, for which promptId, started by whose error,
\* and the await it is suspended at. "accepted", "aborted" and "said" wait for
\* the response to a request that has been served.
Phases   == {"session", "prompt", "accepted", "abort", "aborted", "saying", "said", "stopping"}
Handlers == [by : {"turn", "deadline", "error", "idle"}, p : Turns, of : 0 .. MaxTurns, ph : Phases]
Events   == [session : 0 .. MaxTurns, kind : {"idle", "error"}, of : 0 .. MaxTurns]

\* What has happened: a Stop of one turn ended another; a turn was finished or
\* aborted while its prompt was at work, by what another turn left behind; a
\* feed dropped; a request to opencode failed.
Happenings == {"stopped", "cut", "drop", "refuse"}

VARIABLES
    given,      \* room: turns handed to this seat so far
    roomTurn,   \* room: the turn in flight for this seat (Queue.#inflight)
    feed,       \* room: is the seat's event feed open
    wire,       \* the turn event on its way to the driver
    sessionId,  \* driver: its session, named by the turn that created it
    turn,       \* driver: the promptId of the turn it is running
    timers,     \* driver: turns whose deadline timer is armed
    handlers,   \* driver: activations under way
    running,    \* opencode: prompts at work
    sessionOf,  \* opencode: the session each prompt went to
    errored,    \* opencode: prompts that have failed (each does so once)
    events,     \* opencode events on their way to the driver, in order
    happened    \* history, see Happenings

roomVars == <<given, roomTurn, feed, wire>>
ocVars   == <<running, sessionOf, errored, events>>
vars == <<roomVars, sessionId, turn, timers, handlers, ocVars, happened>>

Init == /\ given = 0 /\ roomTurn = None /\ feed = TRUE /\ wire = None
        /\ sessionId = None /\ turn = None /\ timers = {} /\ handlers = {}
        /\ running = {} /\ sessionOf = [p \in Turns |-> None] /\ errored = {} /\ events = <<>>
        /\ happened = {}

At(by, p, of, ph) == [by |-> by, p |-> p, of |-> of, ph |-> ph]
Goes(h, ph)       == (handlers \ {h}) \cup {[h EXCEPT !.ph = ph]}
Returns(h)        == handlers \ {h}

\* The handler posts the Stop hook and waits: endTurn.
Posts(h) == handlers' = Goes(h, "stopping")

Notes(what, cond) == happened' = IF cond THEN happened \cup {what} ELSE happened

\* An upset that Upsets admits. What is in Alone happens once, and with nothing else.
Upset(what) == /\ what \in Upsets /\ happened \cap Alone = {}
               /\ what \in Alone => happened \cap Upsets = {}
               /\ Notes(what, TRUE)

\* Mutants: the guard is gone; it comes after the timer is cleared.
FinishUnguarded(h)    == turn' = None /\ timers' = timers \ {turn} /\ Posts(h)
FinishDisarmsFirst(h) == /\ timers' = timers \ {turn}
                         /\ \/ turn = h.p /\ turn' = None /\ Posts(h)
                            \/ turn # h.p /\ handlers' = Returns(h) /\ UNCHANGED turn

\* finish: only the owner of the turn clears it, disarms it and closes it.
Finish(h) == \/ turn = h.p /\ turn' = None /\ timers' = timers \ {h.p} /\ Posts(h)
             \/ turn # h.p /\ handlers' = Returns(h) /\ UNCHANGED <<turn, timers>>

-----------------------------------------------------------------------------
(* The room *)

\* drain gives the seat a turn, over its feed.
RoomGives ==
    /\ roomTurn = None /\ feed /\ given < MaxTurns
    /\ given' = given + 1
    /\ roomTurn' = given' /\ wire' = given'
    /\ UNCHANGED <<feed, sessionId, turn, timers, handlers, ocVars, happened>>

\* The seat's feed closes: the turn in flight is abandoned. A turn event under
\* way may still be read.
FeedDrops ==
    /\ Upset("drop") /\ feed
    /\ feed' = FALSE /\ roomTurn' = None
    /\ wire' \in {wire, None}
    /\ UNCHANGED <<given, sessionId, turn, timers, handlers, ocVars>>

FeedReturns ==
    /\ ~feed /\ wire = None
    /\ feed' = TRUE
    /\ UNCHANGED <<given, roomTurn, wire, sessionId, turn, timers, handlers,
                   ocVars, happened>>

\* POST /seat/reply: the text goes to whatever turn is in flight.
RoomHears(h) ==
    /\ h.ph = "saying"
    /\ handlers' = Goes(h, "said")
    /\ UNCHANGED <<roomVars, sessionId, turn, timers, ocVars, happened>>

\* POST /seat/hook/Stop: ends whatever turn is in flight.
RoomStops(h) ==
    /\ h.ph = "stopping"
    /\ handlers' = Returns(h)
    /\ Notes("stopped", roomTurn \notin {None, h.p})
    /\ roomTurn' = None
    /\ UNCHANGED <<given, feed, wire, sessionId, turn, timers, ocVars>>

-----------------------------------------------------------------------------
(* The driver *)

\* onRoomEvent, up to its first await that really waits: a session is created
\* once, but only once it is there.
OnTurn ==
    /\ wire # None
    /\ wire' = None
    /\ IF sessionId = None
       THEN /\ handlers' = handlers \cup {At("turn", wire, wire, "session")}
            /\ UNCHANGED <<turn, timers, sessionOf>>
       ELSE /\ handlers' = handlers \cup {At("turn", wire, wire, "prompt")}
            /\ turn' = wire /\ timers' = timers \cup {wire}
            /\ sessionOf' = [sessionOf EXCEPT ![wire] = sessionId]
    /\ UNCHANGED <<given, roomTurn, feed, sessionId, running, errored, events, happened>>

\* The session is there: the turn becomes the driver's, its deadline is armed
\* and the prompt is posted.
SessionCreated(h) ==
    /\ h.ph = "session"
    /\ sessionId' = h.p /\ sessionOf' = [sessionOf EXCEPT ![h.p] = h.p]
    /\ turn' = h.p /\ timers' = timers \cup {h.p}
    /\ handlers' = Goes(h, "prompt")
    /\ UNCHANGED <<roomVars, running, errored, events, happened>>

\* Mutant: the turn of a refused prompt is left to the deadline.
TurnRefusedKept(h) ==
    /\ Upset("refuse")
    /\ h.by = "turn" /\ h.ph \in {"session", "prompt", "accepted"}
    /\ turn' = IF turn = h.p THEN None ELSE turn
    /\ timers' = IF turn = h.p THEN timers \ {h.p} ELSE timers
    /\ handlers' = Returns(h)
    /\ UNCHANGED <<roomVars, sessionId, ocVars>>

\* The catch of onRoomEvent: the session or the prompt was refused, or the
\* response was lost after the prompt was accepted.
TurnRefused(h) ==
    /\ Upset("refuse")
    /\ h.by = "turn" /\ h.ph \in {"session", "prompt", "accepted"}
    /\ turn' = IF turn = h.p THEN None ELSE turn
    /\ timers' = IF turn = h.p THEN timers \ {h.p} ELSE timers
    /\ handlers' = Goes(h, "saying")
    /\ UNCHANGED <<roomVars, sessionId, ocVars>>

TurnAccepted(h) ==
    /\ h.ph = "accepted"
    /\ handlers' = Returns(h)
    /\ UNCHANGED <<roomVars, sessionId, turn, timers, ocVars, happened>>

\* onDeadline. A timer that fires for a turn already replaced does nothing.
DeadlineFires(p) ==
    /\ p \in timers
    /\ timers' = timers \ {p}
    /\ handlers' = IF turn = p THEN handlers \cup {At("deadline", p, p, "abort")} ELSE handlers
    /\ UNCHANGED <<roomVars, sessionId, turn, ocVars, happened>>

\* The abort has been answered, or has failed: it is best-effort.
DeadlineSays(h) ==
    /\ \/ h.ph = "aborted" /\ UNCHANGED happened
       \/ h.ph = "abort" /\ Upset("refuse")
    /\ handlers' = Goes(h, "saying")
    /\ UNCHANGED <<roomVars, sessionId, turn, timers, ocVars>>

\* The room has been told: the deadline and error handlers finish the turn if
\* it is still theirs; the catch of onRoomEvent ends it whoever's it is.
Said(h) ==
    /\ h.ph = "said"
    /\ \/ h.by # "turn" /\ Finish(h)
       \/ h.by = "turn" /\ Posts(h) /\ UNCHANGED <<turn, timers>>
    /\ UNCHANGED <<roomVars, sessionId, ocVars, happened>>

\* onOpencodeEvent, for the event at the head. Events of another session, and
\* events between turns, are ignored. Neither names a prompt.
OnOpencodeEvent ==
    /\ events # <<>>
    /\ events' = Tail(events)
    /\ LET ev == Head(events)
       IN \/ /\ ev.session # sessionId \/ turn = None
             /\ UNCHANGED <<handlers, turn, timers, happened>>
          \/ /\ ev.session = sessionId /\ turn # None /\ ev.kind = "error"
             /\ handlers' = handlers \cup {At("error", turn, ev.of, "saying")}
             /\ UNCHANGED <<turn, timers, happened>>
          \/ /\ ev.session = sessionId /\ turn # None /\ ev.kind = "idle"
             /\ Finish(At("idle", turn, turn, "said"))
             /\ Notes("cut", turn \in running)
    /\ UNCHANGED <<roomVars, sessionId, running, sessionOf, errored>>

-----------------------------------------------------------------------------
(* opencode *)

PromptArrives(h) ==
    /\ h.ph = "prompt"
    /\ running' = running \cup {h.p}
    /\ handlers' = Goes(h, "accepted")
    /\ UNCHANGED <<roomVars, sessionId, turn, timers, sessionOf, errored, events, happened>>

AtWork(s) == {p \in running : sessionOf[p] = s}

\* A session goes idle when its work is done.
SessionIdles(s) ==
    /\ AtWork(s) # {} /\ Len(events) < MaxEvents
    /\ events' = Append(events, [session |-> s, kind |-> "idle", of |-> s])
    /\ running' = running \ AtWork(s)
    /\ UNCHANGED <<roomVars, sessionId, turn, timers, handlers, sessionOf, errored, happened>>

\* A prompt fails; its session goes idle later.
PromptErrs(p) ==
    /\ p \in running \ errored /\ Len(events) < MaxEvents
    /\ errored' = errored \cup {p}
    /\ events' = Append(events, [session |-> sessionOf[p], kind |-> "error", of |-> p])
    /\ UNCHANGED <<roomVars, sessionId, turn, timers, handlers, running, sessionOf, happened>>

\* The driver's session is aborted, and goes idle if it was at work.
AbortArrives(h) ==
    /\ h.ph = "abort" /\ Len(events) < MaxEvents
    /\ handlers' = Goes(h, "aborted")
    /\ running' = running \ AtWork(sessionId)
    /\ events' = IF AtWork(sessionId) = {} THEN events
                 ELSE Append(events, [session |-> sessionId, kind |-> "idle", of |-> sessionId])
    /\ Notes("cut", turn # h.p /\ turn \in AtWork(sessionId))
    /\ UNCHANGED <<roomVars, sessionId, turn, timers, sessionOf, errored>>

\* opencode's own feed drops, and an event with it.
EventLost ==
    /\ Upset("drop") /\ events # <<>>
    /\ events' = Tail(events)
    /\ UNCHANGED <<roomVars, sessionId, turn, timers, handlers, running, sessionOf, errored>>

-----------------------------------------------------------------------------
Room     == RoomGives \/ FeedDrops \/ FeedReturns
Driver   == OnTurn \/ OnOpencodeEvent \/ \E p \in Turns : DeadlineFires(p)
Awaits   == \E h \in handlers : \/ RoomHears(h) \/ RoomStops(h)
                                \/ SessionCreated(h) \/ TurnRefused(h) \/ TurnAccepted(h)
                                \/ DeadlineSays(h) \/ Said(h)
                                \/ PromptArrives(h) \/ AbortArrives(h)
Opencode == EventLost \/ \E p \in Turns : SessionIdles(p) \/ PromptErrs(p)

Next == Room \/ Driver \/ Awaits \/ Opencode
Spec == Init /\ [][Next]_vars

\* Node delivers what has arrived, timers fire and requests are answered or
\* fail. Nothing is assumed of the model: it may stay busy for ever.
FairSpec == Spec /\ WF_vars(Driver) /\ WF_vars(Awaits)

-----------------------------------------------------------------------------
(* Properties *)

TypeOK ==
    /\ given \in 0 .. MaxTurns /\ roomTurn \in 0 .. MaxTurns /\ wire \in 0 .. MaxTurns
    /\ feed \in BOOLEAN
    /\ sessionId \in 0 .. MaxTurns /\ turn \in 0 .. MaxTurns
    /\ timers \subseteq Turns
    /\ handlers \subseteq Handlers
    /\ running \subseteq Turns /\ errored \subseteq Turns
    /\ sessionOf \in [Turns -> 0 .. MaxTurns]
    /\ events \in Seq(Events)
    /\ happened \subseteq Happenings

\* A turn the driver runs always has a deadline ahead of it, or its deadline
\* handler under way and still to finish it: nothing else closes a turn whose
\* model has stalled.
AlwaysTimed == turn # None =>
    \/ turn \in timers
    \/ \E h \in handlers : /\ h.by = "deadline" /\ h.p = turn
                           /\ h.ph \in {"abort", "aborted", "saying", "said"}

\* "Two turns in succession each close exactly once" (opencode-driver.test.mjs):
\* while the feeds hold and nothing is refused, however idles, errors and
\* deadlines of one turn race, the Stops they post end that turn and no other, and
\* no deadline stays armed but that of the turn the driver runs.
StopEndsOwnTurn == happened \cap {"drop", "refuse"} = {} =>
    "stopped" \notin happened /\ timers \subseteq {turn}

\* The room's queue is never left behind a seat that will not finish: every
\* turn the room has in flight is over at some time, however opencode stalls
\* or refuses (turns follow each other, so over is with none in flight).
RoomTurnCloses == []<>(roomTurn = None)

-----------------------------------------------------------------------------
(* What comments of the repository say and the code does not do *)

\* "A late finish for turn A clears turn B's timer and ends B while its prompt
\* is still running" (opencode.mjs) is what the guard is for; opencode's idle
\* names a session, never a prompt.
NeverCutShort == "cut" \notin happened
=============================================================================
