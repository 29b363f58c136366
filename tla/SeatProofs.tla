------------------------------ MODULE SeatProofs ------------------------------
(***************************************************************************)
(* Proofs about the seats of agents that run outside the room.             *)
(*                                                                         *)
(* OpenCodeSeat: its types, that the driver never runs a turn with no      *)
(* deadline ahead of it, and that its Stops end their own turns while      *)
(* nothing fails, for any number of turns and any bound on events.         *)
(*                                                                         *)
(* SeatBridge: that a session hears what was sent to it, as it was sent,   *)
(* and that nothing accepted is lost without a word, for any number of     *)
(* seats, messages and mishaps.                                            *)
(***************************************************************************)
EXTENDS OpenCodeSeat, SeatBridge, SequenceTheorems, WellFoundedInduction, TLAPS

(***************************************************************************)
(* OpenCodeSeat.                                                           *)
(***************************************************************************)

IInv == TypeOK /\ AlwaysTimed

\* The awaits at which a deadline handler has its turn still to finish.
Ahead == {"abort", "aborted", "saying", "said"}

\* A handler that moves to its next await is still a handler, of the same turn
\* and for the same reason.
LEMMA GoesKeeps ==
    ASSUME TypeOK, NEW h \in Handlers, NEW ph \in Phases
    PROVE  /\ Goes(h, ph) \subseteq Handlers
           /\ Returns(h) \subseteq Handlers
           /\ \E g \in Goes(h, ph) : g.by = h.by /\ g.p = h.p /\ g.ph = ph
<1>. DEFINE g == [h EXCEPT !.ph = ph]
<1>1. g \in Handlers /\ g.by = h.by /\ g.p = h.p /\ g.ph = ph
  BY DEF Handlers
<1>. QED BY <1>1 DEF TypeOK, Goes, Returns

\* The deadline that AlwaysTimed asks for survives a handler's move from one
\* await to the next, while the turn and the timers stand.
LEMMA MoveKeeps ==
    ASSUME TypeOK, AlwaysTimed, UNCHANGED <<turn, timers>>,
           NEW h \in handlers, NEW ph \in Phases,
           h.by # "deadline" \/ h.ph \notin Ahead \/ ph \in Ahead,
           handlers' = Goes(h, ph) \/ (handlers' = Returns(h) /\ ph \notin Ahead)
    PROVE  handlers' \subseteq Handlers /\ AlwaysTimed'
<1>1. h \in Handlers
  BY DEF TypeOK
<1>2. /\ Goes(h, ph) \subseteq Handlers /\ Returns(h) \subseteq Handlers
      /\ \E g \in Goes(h, ph) : g.by = h.by /\ g.p = h.p /\ g.ph = ph
  BY <1>1, GoesKeeps
<1>3. SUFFICES ASSUME turn # None, turn \notin timers
               PROVE  \E g \in handlers' : g.by = "deadline" /\ g.p = turn /\ g.ph \in Ahead
  BY <1>2, <1>3 DEF AlwaysTimed, Ahead
<1>4. PICK d \in handlers : d.by = "deadline" /\ d.p = turn /\ d.ph \in Ahead
  BY <1>3 DEF AlwaysTimed, Ahead
<1>5. CASE d # h
  BY <1>4, <1>5 DEF Goes, Returns
<1>6. CASE d = h
  BY <1>2, <1>4, <1>6
<1>. QED BY <1>5, <1>6

\* A finish keeps both, whichever handler's it is: it clears a turn together
\* with its timer, and a handler that finds another turn is nobody's deadline.
LEMMA FinishKeeps ==
    ASSUME TypeOK, AlwaysTimed, NEW h \in Handlers, Finish(h)
    PROVE  /\ turn' \in 0 .. MaxTurns /\ timers' \subseteq Turns
           /\ handlers' \subseteq Handlers
           /\ AlwaysTimed'
<1>1. "stopping" \in Phases
  BY DEF Phases
<1>2. handlers' \subseteq Handlers
  BY <1>1, GoesKeeps DEF Finish, Posts
<1>3. turn' \in 0 .. MaxTurns /\ timers' \subseteq Turns
  BY SeatAssumption DEF Finish, TypeOK, None
<1>4. AlwaysTimed'
  <2>1. CASE turn = h.p /\ turn' = None
    BY <2>1 DEF AlwaysTimed
  <2>2. CASE turn # h.p /\ handlers' = Returns(h) /\ UNCHANGED <<turn, timers>>
    BY <2>2 DEF AlwaysTimed, Returns
  <2>. QED BY <2>1, <2>2 DEF Finish
<1>. QED BY <1>2, <1>3, <1>4

\* A new handler takes no deadline away.
LEMMA StartKeeps ==
    ASSUME TypeOK, AlwaysTimed, UNCHANGED <<turn, timers>>,
           NEW h \in Handlers, handlers' = handlers \cup {h}
    PROVE  handlers' \subseteq Handlers /\ AlwaysTimed'
BY DEF TypeOK, AlwaysTimed

\* The history only ever holds what it names.
LEMMA UpsetKeeps ==
    ASSUME TypeOK, NEW what \in Happenings, UNCHANGED happened \/ Upset(what)
    PROVE  happened' \subseteq Happenings
BY DEF TypeOK, Upset, Notes

\* The room and the driver start with no turn.
LEMMA InitHolds == Init => IInv
BY SeatAssumption DEF Init, IInv, TypeOK, AlwaysTimed, None

\* The steps of the room keep the invariant: they leave the driver alone.
LEMMA RoomKeeps ==
    ASSUME IInv, Room
    PROVE  IInv'
<1>. USE SeatAssumption
<1>1. CASE RoomGives
  BY <1>1 DEF RoomGives, IInv, TypeOK, AlwaysTimed, ocVars, None
<1>2. CASE FeedDrops
  <2>1. roomTurn' = None /\ wire' \in {wire, None} /\ feed' = FALSE
    BY <1>2 DEF FeedDrops
  <2>2. roomTurn' \in 0 .. MaxTurns /\ wire' \in 0 .. MaxTurns
    BY <2>1 DEF IInv, TypeOK, None
  <2>3. feed' \in BOOLEAN
    BY <2>1
  <2>4. happened' \subseteq Happenings
    BY <1>2, UpsetKeeps DEF FeedDrops, Happenings, IInv
  <2>. QED BY <1>2, <2>2, <2>3, <2>4 DEF FeedDrops, IInv, TypeOK, AlwaysTimed, ocVars
<1>3. CASE FeedReturns
  BY <1>3 DEF FeedReturns, IInv, TypeOK, AlwaysTimed, ocVars, None
<1>. QED BY <1>1, <1>2, <1>3 DEF Room

\* A turn becomes the driver's together with its timer.
LEMMA OnTurnKeeps ==
    ASSUME IInv, OnTurn
    PROVE  IInv'
<1>1. wire \in Turns
  BY DEF OnTurn, IInv, TypeOK, Turns, None
<1>2. /\ At("turn", wire, wire, "session") \in Handlers
      /\ At("turn", wire, wire, "prompt") \in Handlers
  BY <1>1 DEF At, Handlers, Phases, Turns
<1>3. CASE sessionId = None
  <2>1. /\ handlers' = handlers \cup {At("turn", wire, wire, "session")}
        /\ UNCHANGED <<turn, timers, sessionOf>>
    BY <1>3 DEF OnTurn
  <2>2. handlers' \subseteq Handlers /\ AlwaysTimed'
    BY <1>2, <2>1, StartKeeps DEF IInv
  <2>. QED BY <1>1, <2>1, <2>2, SeatAssumption DEF OnTurn, IInv, TypeOK, None
<1>4. CASE sessionId # None
  <2>1. /\ handlers' = handlers \cup {At("turn", wire, wire, "prompt")}
        /\ turn' = wire /\ timers' = timers \cup {wire}
        /\ sessionOf' = [sessionOf EXCEPT ![wire] = sessionId]
    BY <1>4 DEF OnTurn
  <2>2. AlwaysTimed'
    BY <2>1 DEF AlwaysTimed
  <2>3. handlers' \subseteq Handlers /\ turn' \in 0 .. MaxTurns /\ timers' \subseteq Turns
    BY <1>1, <1>2, <2>1 DEF IInv, TypeOK, Turns
  <2>4. sessionOf' \in [Turns -> 0 .. MaxTurns]
    BY <1>1, <2>1 DEF IInv, TypeOK
  <2>. QED BY <2>2, <2>3, <2>4, SeatAssumption DEF OnTurn, IInv, TypeOK, None
<1>. QED BY <1>3, <1>4

\* A timer that fires for the running turn leaves its handler in its place.
LEMMA DeadlineKeeps ==
    ASSUME IInv, NEW p \in Turns, DeadlineFires(p)
    PROVE  IInv'
<1>. DEFINE d == At("deadline", p, p, "abort")
<1>1. d \in Handlers /\ d.by = "deadline" /\ d.p = p /\ d.ph = "abort"
  BY DEF At, Handlers, Phases, Turns
<1>2. handlers' \subseteq Handlers /\ timers' \subseteq Turns
  BY <1>1 DEF DeadlineFires, IInv, TypeOK
<1>3. AlwaysTimed'
  <2>1. CASE turn = p
    BY <1>1, <2>1 DEF DeadlineFires, AlwaysTimed
  <2>2. CASE turn # p
    BY <2>2 DEF DeadlineFires, AlwaysTimed, IInv
  <2>. QED BY <2>1, <2>2
<1>. QED BY <1>2, <1>3 DEF DeadlineFires, IInv, TypeOK, roomVars, ocVars

\* An event ends the running turn, starts a handler of its own, or is ignored.
LEMMA EventKeeps ==
    ASSUME IInv, OnOpencodeEvent
    PROVE  IInv'
<1>. DEFINE ev == Head(events)
<1>1. ev \in Events /\ events' \in Seq(Events)
  BY HeadTailProperties DEF OnOpencodeEvent, IInv, TypeOK
<1>2. /\ handlers' \subseteq Handlers /\ turn' \in 0 .. MaxTurns /\ timers' \subseteq Turns
      /\ happened' \subseteq Happenings /\ AlwaysTimed'
  <2>1. CASE UNCHANGED <<handlers, turn, timers, happened>>
    BY <2>1 DEF IInv, TypeOK, AlwaysTimed
  <2>2. CASE /\ turn # None
             /\ handlers' = handlers \cup {At("error", turn, ev.of, "saying")}
             /\ UNCHANGED <<turn, timers, happened>>
    <3>1. At("error", turn, ev.of, "saying") \in Handlers
      BY <1>1, <2>2 DEF At, Handlers, Phases, Events, IInv, TypeOK, Turns, None
    <3>. QED BY <2>2, <3>1, StartKeeps DEF IInv, TypeOK
  <2>3. CASE /\ turn # None
             /\ Finish(At("idle", turn, turn, "said"))
             /\ Notes("cut", turn \in running)
    <3>1. At("idle", turn, turn, "said") \in Handlers
      BY <2>3 DEF At, Handlers, Phases, IInv, TypeOK, Turns, None
    <3>2. happened' \subseteq Happenings
      BY <2>3 DEF Notes, Happenings, IInv, TypeOK
    <3>. QED BY <2>3, <3>1, <3>2, FinishKeeps DEF IInv
  <2>. QED BY <2>1, <2>2, <2>3 DEF OnOpencodeEvent
<1>. QED BY <1>1, <1>2 DEF OnOpencodeEvent, IInv, TypeOK, roomVars

\* Every handler's move from one await to the next keeps the invariant.
LEMMA AwaitsKeep ==
    ASSUME IInv, Awaits
    PROVE  IInv'
<1>. USE SeatAssumption DEF IInv
<1>1. PICK h \in handlers :
           \/ RoomHears(h) \/ RoomStops(h)
           \/ SessionCreated(h) \/ TurnRefused(h) \/ TurnAccepted(h)
           \/ DeadlineSays(h) \/ Said(h)
           \/ PromptArrives(h) \/ AbortArrives(h)
  BY DEF Awaits
<1>2. h \in Handlers /\ h.p \in Turns
  BY DEF TypeOK, Handlers
<1>3. CASE RoomHears(h)
  <2>1. handlers' \subseteq Handlers /\ AlwaysTimed'
    BY <1>3, MoveKeeps DEF RoomHears, Phases, Ahead
  <2>. QED BY <1>3, <2>1 DEF RoomHears, TypeOK, roomVars, ocVars
<1>4. CASE RoomStops(h)
  <2>1. handlers' \subseteq Handlers /\ AlwaysTimed'
    BY <1>4, MoveKeeps DEF RoomStops, Phases, Ahead
  <2>. QED BY <1>4, <2>1 DEF RoomStops, TypeOK, ocVars, Notes, Happenings, None
<1>5. CASE SessionCreated(h)
  <2>1. handlers' \subseteq Handlers
    BY <1>2, <1>5, GoesKeeps DEF SessionCreated, Phases
  <2>2. AlwaysTimed'
    BY <1>5 DEF SessionCreated, AlwaysTimed
  <2>3. /\ sessionOf' \in [Turns -> 0 .. MaxTurns] /\ timers' \subseteq Turns
        /\ sessionId' \in 0 .. MaxTurns /\ turn' \in 0 .. MaxTurns
    <3>1. h.p \in 0 .. MaxTurns
      BY <1>2 DEF Turns
    <3>. QED BY <1>2, <1>5, <3>1 DEF SessionCreated, TypeOK
  <2>. QED BY <1>5, <2>1, <2>2, <2>3 DEF SessionCreated, TypeOK, roomVars
<1>6. CASE TurnRefused(h)
  <2>1. handlers' \subseteq Handlers
    BY <1>2, <1>6, GoesKeeps DEF TurnRefused, Phases
  <2>2. AlwaysTimed'
    <3>1. CASE turn = h.p
      BY <1>6, <3>1 DEF TurnRefused, AlwaysTimed
    <3>2. CASE turn # h.p
      BY <1>6, <3>2, MoveKeeps DEF TurnRefused, Phases, Ahead
    <3>. QED BY <3>1, <3>2
  <2>3. happened' \subseteq Happenings
    BY <1>6, UpsetKeeps DEF TurnRefused, Happenings
  <2>. QED BY <1>6, <2>1, <2>2, <2>3 DEF TurnRefused, TypeOK, roomVars, ocVars, None
<1>7. CASE TurnAccepted(h)
  <2>1. handlers' \subseteq Handlers /\ AlwaysTimed'
    BY <1>7, MoveKeeps DEF TurnAccepted, Phases, Ahead
  <2>. QED BY <1>7, <2>1 DEF TurnAccepted, TypeOK, roomVars, ocVars
<1>8. CASE DeadlineSays(h)
  <2>1. handlers' \subseteq Handlers /\ AlwaysTimed'
    BY <1>8, MoveKeeps DEF DeadlineSays, Phases, Ahead
  <2>2. happened' \subseteq Happenings
    BY <1>8, UpsetKeeps DEF DeadlineSays, Happenings
  <2>. QED BY <1>8, <2>1, <2>2 DEF DeadlineSays, TypeOK, roomVars, ocVars
<1>9. CASE Said(h)
  <2>1. /\ handlers' \subseteq Handlers /\ AlwaysTimed'
        /\ turn' \in 0 .. MaxTurns /\ timers' \subseteq Turns
    <3>1. CASE Finish(h)
      BY <1>2, <3>1, FinishKeeps
    <3>2. CASE h.by = "turn" /\ Posts(h) /\ UNCHANGED <<turn, timers>>
      BY <3>2, MoveKeeps DEF Posts, Phases, TypeOK
    <3>. QED BY <1>9, <3>1, <3>2 DEF Said
  <2>. QED BY <1>9, <2>1 DEF Said, TypeOK, roomVars, ocVars
<1>10. CASE PromptArrives(h)
  <2>1. handlers' \subseteq Handlers /\ AlwaysTimed'
    BY <1>10, MoveKeeps DEF PromptArrives, Phases, Ahead
  <2>. QED BY <1>2, <1>10, <2>1 DEF PromptArrives, TypeOK, roomVars
<1>11. CASE AbortArrives(h)
  <2>1. handlers' \subseteq Handlers /\ AlwaysTimed'
    BY <1>11, MoveKeeps DEF AbortArrives, Phases, Ahead
  <2>2. events' \in Seq(Events)
    <3>1. [session |-> sessionId, kind |-> "idle", of |-> sessionId] \in Events
      BY DEF Events, TypeOK
    <3>. QED BY <1>11, <3>1 DEF AbortArrives, TypeOK
  <2>. QED BY <1>11, <2>1, <2>2 DEF AbortArrives, TypeOK, roomVars, Notes, Happenings
<1>. QED BY <1>1, <1>3, <1>4, <1>5, <1>6, <1>7, <1>8, <1>9, <1>10, <1>11

\* opencode's own steps keep it: they touch prompts and events alone.
LEMMA OpencodeKeeps ==
    ASSUME IInv, Opencode
    PROVE  IInv'
<1>1. CASE EventLost
  <2>1. events' \in Seq(Events)
    BY <1>1, HeadTailProperties DEF EventLost, IInv, TypeOK
  <2>2. happened' \subseteq Happenings
    BY <1>1, UpsetKeeps DEF EventLost, Happenings, IInv
  <2>. QED BY <1>1, <2>1, <2>2 DEF EventLost, IInv, TypeOK, AlwaysTimed, roomVars
<1>2. ASSUME NEW s \in Turns, SessionIdles(s)
      PROVE  IInv'
  <2>1. [session |-> s, kind |-> "idle", of |-> s] \in Events
    BY DEF Events, Turns
  <2>2. events' \in Seq(Events) /\ running' \subseteq Turns
    BY <1>2, <2>1 DEF SessionIdles, IInv, TypeOK
  <2>. QED BY <1>2, <2>2 DEF SessionIdles, IInv, TypeOK, AlwaysTimed, roomVars
<1>3. ASSUME NEW p \in Turns, PromptErrs(p)
      PROVE  IInv'
  <2>1. p \in 0 .. MaxTurns
    BY DEF Turns
  <2>2. [session |-> sessionOf[p], kind |-> "error", of |-> p] \in Events
    BY <2>1 DEF Events, IInv, TypeOK
  <2>3. events' \in Seq(Events) /\ errored' \subseteq Turns
    BY <1>3, <2>2 DEF PromptErrs, IInv, TypeOK
  <2>. QED BY <1>3, <2>3 DEF PromptErrs, IInv, TypeOK, AlwaysTimed, roomVars
<1>. QED BY <1>1, <1>2, <1>3 DEF Opencode

\* The inductive invariant of the seat.
THEOREM SeatInductive == Spec => []IInv
<1>1. IInv /\ [Next]_vars => IInv'
  <2>. SUFFICES ASSUME IInv, [Next]_vars
                PROVE  IInv'
    OBVIOUS
  <2>1. CASE UNCHANGED vars
    BY <2>1 DEF vars, roomVars, ocVars, IInv, TypeOK, AlwaysTimed
  <2>2. CASE Driver
    BY <2>2, OnTurnKeeps, DeadlineKeeps, EventKeeps DEF Driver
  <2>. QED BY <2>1, <2>2, RoomKeeps, AwaitsKeep, OpencodeKeeps DEF Next
<1>. QED BY <1>1, InitHolds, PTL DEF Spec

\* Every variable of the seat keeps its type (the state of opencode.mjs and the
\* room's record of the seat's turn).
THEOREM TypeCorrect == Spec => []TypeOK
BY SeatInductive, PTL DEF IInv

\* The turn the driver runs has its deadline ahead of it, armed or under way:
\* onDeadline and finish never leave a turn that nothing would close.
THEOREM DeadlineAhead == Spec => []AlwaysTimed
BY SeatInductive, PTL DEF IInv

-----------------------------------------------------------------------------
(* Stops and the turns they end.                                           *)

\* No feed has dropped and no request has failed.
Clean == happened \cap {"drop", "refuse"} = {}

\* The handlers that stand for the room's turn while the driver runs none: its session
\* is being created, or its Stop is on the way.
Standing == {h \in handlers : h.ph \in {"session", "stopping"}}

\* The turn the room has in flight is in one place alone: on the wire, the driver's own,
\* or with the one handler that stands for it. A handler of onRoomEvent posts no Stop.
OnePlace ==
    /\ wire # None => wire = roomTurn /\ turn = None /\ Standing = {}
    /\ turn # None => turn = roomTurn /\ wire = None /\ Standing = {}
    /\ \A h \in Standing : h.p = roomTurn /\ wire = None /\ turn = None /\ Standing = {h}
    /\ \A h \in handlers : h.by = "turn" => h.ph \in {"session", "prompt", "accepted"}

SInv == Clean => OnePlace /\ "stopped" \notin happened /\ timers \subseteq {turn}

\* A handler that moves among the awaits that stand for no turn, or returns, changes no place.
LEMMA MoveInPlace ==
    ASSUME TypeOK, OnePlace, UNCHANGED <<wire, roomTurn, turn>>,
           NEW h \in handlers, NEW ph \in Phases,
           h.ph \notin {"session", "stopping"},
           ph \notin {"session", "stopping"}, h.by = "turn" => ph \in {"prompt", "accepted"},
           handlers' = Goes(h, ph) \/ handlers' = Returns(h)
    PROVE  OnePlace'
<1>1. h \in Handlers
  BY DEF TypeOK
<1>. DEFINE g == [h EXCEPT !.ph = ph]
<1>2. g.by = h.by /\ g.ph = ph
  BY <1>1 DEF Handlers
<1>. HIDE DEF g
<1>3. Goes(h, ph) = Returns(h) \cup {g}
  BY DEF Goes, Returns, g
<1>4. Standing' = Standing
  BY <1>2, <1>3 DEF Standing, Returns
<1>5. \A f \in handlers' : f.by = "turn" => f.ph \in {"session", "prompt", "accepted"}
  BY <1>2, <1>3 DEF OnePlace, Returns
<1>. QED BY <1>4, <1>5 DEF OnePlace

\* A finish moves the turn it owns from the driver to its Stop, and takes its timer.
LEMMA FinishInPlace ==
    ASSUME TypeOK, OnePlace, timers \subseteq {turn}, UNCHANGED <<wire, roomTurn>>,
           NEW h \in Handlers, h.by # "turn", h.ph \notin {"session", "stopping"}, Finish(h)
    PROVE  OnePlace' /\ timers' \subseteq {turn'}
<1>. DEFINE g == [h EXCEPT !.ph = "stopping"]
<1>1. g.by = h.by /\ g.ph = "stopping" /\ g.p = h.p /\ h.p # None
  BY DEF Handlers, Turns, None
<1>. HIDE DEF g
<1>2. CASE turn = h.p /\ turn' = None /\ timers' = timers \ {h.p} /\ Posts(h)
  <2>1. handlers' = (handlers \ {h}) \cup {g}
    BY <1>2 DEF Posts, Goes, g
  <2>2. turn = roomTurn /\ wire = None /\ Standing = {}
    BY <1>1, <1>2 DEF OnePlace
  <2>3. Standing' = {g}
    BY <1>1, <2>1, <2>2 DEF Standing
  <2>4. \A f \in handlers' : f.by = "turn" => f.ph \in {"session", "prompt", "accepted"}
    BY <1>1, <2>1 DEF OnePlace
  <2>5. \A f \in Standing' : f.p = roomTurn' /\ wire' = None /\ turn' = None /\ Standing' = {f}
    BY <1>1, <1>2, <2>2, <2>3
  <2>. QED BY <1>2, <2>2, <2>4, <2>5 DEF OnePlace
<1>3. CASE turn # h.p /\ handlers' = Returns(h) /\ UNCHANGED <<turn, timers>>
  <2>1. Standing' = Standing
    BY <1>3 DEF Standing, Returns
  <2>. QED BY <1>3, <2>1 DEF OnePlace, Returns
<1>. QED BY <1>2, <1>3 DEF Finish

\* The room gives a turn only when none is anywhere.
LEMMA RoomInPlace ==
    ASSUME TypeOK, SInv, Room
    PROVE  SInv'
<1>1. CASE RoomGives
  <2>. SUFFICES ASSUME Clean' PROVE OnePlace' /\ "stopped" \notin happened' /\ timers' \subseteq {turn'}
    BY DEF SInv
  <2>1. Clean /\ OnePlace /\ "stopped" \notin happened /\ timers \subseteq {turn}
    BY <1>1 DEF RoomGives, SInv, Clean
  <2>2. Standing' = Standing
    BY <1>1 DEF RoomGives, Standing
  <2>3. Standing = {}
    <3>. SUFFICES ASSUME NEW h \in Standing PROVE FALSE
      OBVIOUS
    <3>1. h.p = None
      BY <1>1, <2>1 DEF RoomGives, OnePlace
    <3>2. h.p \in Turns
      BY DEF Standing, TypeOK, Handlers
    <3>. QED BY <3>1, <3>2 DEF Turns, None
  <2>4. turn = None
    BY <1>1, <2>1 DEF RoomGives, OnePlace
  <2>. QED BY <1>1, <2>1, <2>2, <2>3, <2>4 DEF RoomGives, OnePlace
<1>2. CASE FeedDrops
  BY <1>2 DEF FeedDrops, Upset, Notes, SInv, Clean
<1>3. CASE FeedReturns
  BY <1>3 DEF FeedReturns, SInv, Clean, OnePlace, Standing
<1>. QED BY <1>1, <1>2, <1>3 DEF Room

\* The wire hands its turn to the driver, or to the handler that waits for the session.
LEMMA OnTurnInPlace ==
    ASSUME TypeOK, SInv, OnTurn
    PROVE  SInv'
<1>. SUFFICES ASSUME Clean' PROVE OnePlace' /\ "stopped" \notin happened' /\ timers' \subseteq {turn'}
  BY DEF SInv
<1>1. OnePlace /\ "stopped" \notin happened /\ timers \subseteq {turn}
  BY DEF OnTurn, SInv, Clean
<1>2. wire = roomTurn /\ turn = None /\ Standing = {} /\ wire # None /\ wire' = None /\ roomTurn' = roomTurn
  BY <1>1 DEF OnTurn, OnePlace
<1>3. timers = {}
  BY <1>1, <1>2 DEF TypeOK, Turns, None
<1>4. CASE sessionId = None
  <2>. DEFINE g == At("turn", wire, wire, "session")
  <2>1. g.by = "turn" /\ g.p = wire /\ g.ph = "session"
    BY DEF At
  <2>2. handlers' = handlers \cup {g} /\ UNCHANGED <<turn, timers>>
    BY <1>4 DEF OnTurn
  <2>. HIDE DEF g
  <2>3. Standing' = {g}
    BY <1>2, <2>1, <2>2 DEF Standing
  <2>4. \A f \in handlers' : f.by = "turn" => f.ph \in {"session", "prompt", "accepted"}
    BY <1>1, <2>1, <2>2 DEF OnePlace
  <2>5. \A f \in Standing' : f.p = roomTurn' /\ wire' = None /\ turn' = None /\ Standing' = {f}
    BY <1>2, <2>1, <2>2, <2>3
  <2>. QED BY <1>1, <1>2, <1>3, <2>2, <2>4, <2>5 DEF OnePlace, OnTurn
<1>5. CASE sessionId # None
  <2>. DEFINE g == At("turn", wire, wire, "prompt")
  <2>1. g.by = "turn" /\ g.ph = "prompt"
    BY DEF At
  <2>2. handlers' = handlers \cup {g} /\ turn' = wire /\ timers' = timers \cup {wire}
    BY <1>5 DEF OnTurn
  <2>. HIDE DEF g
  <2>3. Standing' = {}
    BY <1>2, <2>1, <2>2 DEF Standing
  <2>4. \A f \in handlers' : f.by = "turn" => f.ph \in {"session", "prompt", "accepted"}
    BY <1>1, <2>1, <2>2 DEF OnePlace
  <2>. QED BY <1>1, <1>2, <1>3, <2>2, <2>3, <2>4 DEF OnePlace, OnTurn
<1>. QED BY <1>4, <1>5

\* A deadline starts a handler that stands for nothing yet.
LEMMA DeadlineInPlace ==
    ASSUME TypeOK, SInv, NEW p \in Turns, DeadlineFires(p)
    PROVE  SInv'
<1>. SUFFICES ASSUME Clean' PROVE OnePlace' /\ "stopped" \notin happened' /\ timers' \subseteq {turn'}
  BY DEF SInv
<1>. DEFINE g == At("deadline", p, p, "abort")
<1>1. g.by = "deadline" /\ g.ph = "abort"
  BY DEF At
<1>2. OnePlace /\ "stopped" \notin happened /\ timers \subseteq {turn}
  BY DEF DeadlineFires, SInv, Clean
<1>3. handlers' = handlers \/ handlers' = handlers \cup {g}
  BY DEF DeadlineFires
<1>. HIDE DEF g
<1>4. Standing' = Standing
  BY <1>1, <1>3 DEF Standing
<1>5. \A f \in handlers' : f.by = "turn" => f.ph \in {"session", "prompt", "accepted"}
  BY <1>1, <1>2, <1>3 DEF OnePlace
<1>. QED BY <1>2, <1>4, <1>5 DEF DeadlineFires, OnePlace, roomVars

\* An event is ignored, starts a handler that stands for nothing, or finishes the turn.
LEMMA EventInPlace ==
    ASSUME TypeOK, SInv, OnOpencodeEvent
    PROVE  SInv'
<1>. SUFFICES ASSUME Clean' PROVE OnePlace' /\ "stopped" \notin happened' /\ timers' \subseteq {turn'}
  BY DEF SInv
<1>1. UNCHANGED <<wire, roomTurn>>
  BY DEF OnOpencodeEvent, roomVars
<1>. DEFINE ev == Head(events)
<1>2. CASE UNCHANGED <<handlers, turn, timers, happened>>
  BY <1>1, <1>2 DEF SInv, Clean, OnePlace, Standing
<1>3. CASE /\ handlers' = handlers \cup {At("error", turn, ev.of, "saying")}
           /\ UNCHANGED <<turn, timers, happened>>
  <2>. DEFINE g == At("error", turn, ev.of, "saying")
  <2>1. g.by = "error" /\ g.ph = "saying" /\ handlers' = handlers \cup {g}
    BY <1>3 DEF At
  <2>. HIDE DEF g
  <2>2. OnePlace /\ "stopped" \notin happened /\ timers \subseteq {turn}
    BY <1>3 DEF SInv, Clean
  <2>3. Standing' = Standing
    BY <2>1 DEF Standing
  <2>4. \A f \in handlers' : f.by = "turn" => f.ph \in {"session", "prompt", "accepted"}
    BY <2>1, <2>2 DEF OnePlace
  <2>. QED BY <1>1, <1>3, <2>2, <2>3, <2>4 DEF OnePlace
<1>4. CASE turn # None /\ Finish(At("idle", turn, turn, "said")) /\ Notes("cut", turn \in running)
  <2>. DEFINE g == At("idle", turn, turn, "said")
  <2>1. g \in Handlers /\ g.by = "idle" /\ g.ph = "said"
    BY <1>4 DEF At, Handlers, Phases, TypeOK, Turns, None
  <2>. HIDE DEF g
  <2>2. OnePlace /\ "stopped" \notin happened' /\ timers \subseteq {turn}
    BY <1>4 DEF SInv, Clean, Notes
  <2>3. Finish(g)
    BY <1>4 DEF g
  <2>. QED BY <1>1, <2>1, <2>2, <2>3, FinishInPlace
<1>. QED BY <1>2, <1>3, <1>4 DEF OnOpencodeEvent

\* A handler's move: it takes the turn, finishes it, stops it, or stands for nothing.
LEMMA AwaitsInPlace ==
    ASSUME TypeOK, SInv, Awaits
    PROVE  SInv'
<1>. SUFFICES ASSUME Clean' PROVE OnePlace' /\ "stopped" \notin happened' /\ timers' \subseteq {turn'}
  BY DEF SInv
<1>1. PICK h \in handlers :
           \/ RoomHears(h) \/ RoomStops(h)
           \/ SessionCreated(h) \/ TurnRefused(h) \/ TurnAccepted(h)
           \/ DeadlineSays(h) \/ Said(h)
           \/ PromptArrives(h) \/ AbortArrives(h)
  BY DEF Awaits
<1>2. h \in Handlers /\ h.p \in Turns
  BY DEF TypeOK, Handlers
<1>3. ~TurnRefused(h)
  BY DEF TurnRefused, Upset, Notes, Clean
<1>4. happened \subseteq happened'
  BY <1>1, <1>3 DEF RoomHears, RoomStops, SessionCreated, TurnAccepted, DeadlineSays, Said,
                    PromptArrives, AbortArrives, Upset, Notes
<1>5. OnePlace /\ "stopped" \notin happened /\ timers \subseteq {turn}
  BY <1>4 DEF SInv, Clean
<1>6. CASE RoomHears(h)
  <2>1. h.by # "turn"
    BY <1>5, <1>6 DEF RoomHears, OnePlace
  <2>2. OnePlace'
    BY <1>5, <1>6, <2>1, MoveInPlace DEF RoomHears, roomVars, Phases
  <2>. QED BY <1>5, <1>6, <2>2 DEF RoomHears
<1>7. CASE RoomStops(h)
  <2>1. h \in Standing
    BY <1>7 DEF RoomStops, Standing
  <2>2. h.p = roomTurn /\ wire = None /\ turn = None /\ Standing = {h}
    BY <1>5, <2>1 DEF OnePlace
  <2>3. Standing' = {}
    BY <1>7, <2>2 DEF RoomStops, Returns, Standing
  <2>4. \A f \in handlers' : f.by = "turn" => f.ph \in {"session", "prompt", "accepted"}
    BY <1>5, <1>7 DEF RoomStops, Returns, OnePlace
  <2>5. "stopped" \notin happened'
    BY <1>5, <1>7, <2>2 DEF RoomStops, Notes
  <2>. QED BY <1>5, <1>7, <2>2, <2>3, <2>4, <2>5 DEF RoomStops, OnePlace
<1>8. CASE SessionCreated(h)
  <2>. DEFINE g == [h EXCEPT !.ph = "prompt"]
  <2>1. g.ph = "prompt"
    BY <1>2 DEF Handlers
  <2>2. handlers' = (handlers \ {h}) \cup {g}
    BY <1>8 DEF SessionCreated, Goes
  <2>. HIDE DEF g
  <2>3. h.p = roomTurn /\ wire = None /\ turn = None /\ Standing = {h}
    BY <1>5, <1>8 DEF SessionCreated, Standing, OnePlace
  <2>4. Standing' = {}
    BY <2>1, <2>2, <2>3 DEF Standing
  <2>5. timers = {}
    BY <1>5, <2>3 DEF TypeOK, Turns, None
  <2>6. \A f \in handlers' : f.by = "turn" => f.ph \in {"session", "prompt", "accepted"}
    BY <1>5, <2>1, <2>2 DEF OnePlace
  <2>. QED BY <1>5, <1>8, <2>3, <2>4, <2>5, <2>6 DEF SessionCreated, OnePlace, roomVars
<1>9. CASE TurnAccepted(h)
  <2>1. OnePlace'
    BY <1>5, <1>9, MoveInPlace DEF TurnAccepted, roomVars, Phases
  <2>. QED BY <1>5, <1>9, <2>1 DEF TurnAccepted
<1>10. CASE DeadlineSays(h)
  <2>1. h.by # "turn"
    BY <1>5, <1>10 DEF DeadlineSays, OnePlace
  <2>2. OnePlace'
    BY <1>5, <1>10, <2>1, MoveInPlace DEF DeadlineSays, roomVars, Phases
  <2>3. "stopped" \notin happened'
    BY <1>5, <1>10 DEF DeadlineSays, Upset, Notes
  <2>. QED BY <1>5, <1>10, <2>2, <2>3 DEF DeadlineSays
<1>11. CASE Said(h)
  <2>1. h.by # "turn"
    BY <1>5, <1>11 DEF Said, OnePlace
  <2>2. Finish(h) /\ UNCHANGED <<wire, roomTurn, happened>> /\ h.ph = "said"
    BY <1>11, <2>1 DEF Said, roomVars
  <2>. QED BY <1>2, <1>5, <2>1, <2>2, FinishInPlace
<1>12. CASE PromptArrives(h)
  <2>1. OnePlace'
    BY <1>5, <1>12, MoveInPlace DEF PromptArrives, roomVars, Phases
  <2>. QED BY <1>5, <1>12, <2>1 DEF PromptArrives
<1>13. CASE AbortArrives(h)
  <2>1. h.by # "turn"
    BY <1>5, <1>13 DEF AbortArrives, OnePlace
  <2>2. OnePlace'
    BY <1>5, <1>13, <2>1, MoveInPlace DEF AbortArrives, roomVars, Phases
  <2>. QED BY <1>5, <1>13, <2>2 DEF AbortArrives, Notes
<1>. QED BY <1>1, <1>3, <1>6, <1>7, <1>8, <1>9, <1>10, <1>11, <1>12, <1>13

\* opencode's own steps move no turn.
LEMMA OpencodeInPlace ==
    ASSUME TypeOK, SInv, Opencode
    PROVE  SInv'
<1>1. CASE EventLost
  BY <1>1 DEF EventLost, Upset, Notes, SInv, Clean
<1>2. ASSUME NEW s \in Turns, SessionIdles(s) \/ PromptErrs(s) PROVE SInv'
  BY <1>2 DEF SessionIdles, PromptErrs, SInv, Clean, OnePlace, Standing, roomVars
<1>. QED BY <1>1, <1>2 DEF Opencode

\* Where the turn is, for every behaviour of the seat.
THEOREM TurnInOnePlace == Spec => []SInv
<1>1. Init => SInv
  BY DEF Init, SInv, OnePlace, Standing
<1>2. TypeOK /\ SInv /\ [Next]_vars => SInv'
  <2>. SUFFICES ASSUME TypeOK, SInv, [Next]_vars PROVE SInv'
    OBVIOUS
  <2>1. CASE UNCHANGED vars
    BY <2>1 DEF vars, roomVars, ocVars, SInv, Clean, OnePlace, Standing
  <2>2. CASE Driver
    BY <2>2, OnTurnInPlace, DeadlineInPlace, EventInPlace DEF Driver
  <2>. QED BY <2>1, <2>2, RoomInPlace, AwaitsInPlace, OpencodeInPlace DEF Next
<1>. QED BY <1>1, <1>2, TypeCorrect, PTL DEF Spec

\* While no feed drops and no request fails, a Stop the driver posts (finish, endTurn in
\* opencode.mjs) ends the turn it was posted for, and no deadline of another turn is armed.
THEOREM StopsEndOwnTurns == Spec => []StopEndsOwnTurn
<1>1. SInv => StopEndsOwnTurn
  BY DEF SInv, Clean, StopEndsOwnTurn
<1>. QED BY <1>1, TurnInOnePlace, PTL

(***************************************************************************)
(* SeatBridge. What a session has heard and what is on its way to it are two*)
(* lists that a drain lengthens and a read moves a frame between; the      *)
(* messages that still wait are younger than everything in either. Frame by*)
(* frame, for any such lists, and then one lemma for every action.         *)
(***************************************************************************)

Items == [kind : {"seed", "brief", "turn", "mirror"}, ids : SUBSET Nat,
          text : BOOLEAN, led : BOOLEAN]
Works == [taken : Nat, busy : BOOLEAN, said : BOOLEAN]

BridgeTypes ==
    /\ turns \in Seq(Handles)
    /\ waiting \in [Handles -> SUBSET DOMAIN turns]
    /\ inflight \in [Handles -> SUBSET DOMAIN turns]
    /\ table \in [Handles -> {"none", "open", "cut"}]
    /\ bridge \in [Handles -> {"off", "waiting", "live"}]
    /\ frames \in [Handles -> Seq(Items)] /\ heard \in [Handles -> Seq(Items)]
    /\ at \in [Handles -> Works]
    /\ told \subseteq DOMAIN turns /\ got \subseteq DOMAIN turns

\* Every message in one set was accepted before every message in the other.
Older(S, T) == \A i \in S, j \in T : i < j

\* A turn of h: messages that address it, all older than those still waiting.
OwnTurn(f, h, ts, w) ==
    /\ f.ids # {} /\ f.ids \subseteq DOMAIN ts /\ f.text
    /\ \A i \in f.ids : ts[i] = h
    /\ Older(f.ids, w)

OwnTurns(s, h, ts, w) == \A i \in DOMAIN s : s[i].kind = "turn" => OwnTurn(s[i], h, ts, w)

InOrder(s) ==
    \A i, j \in DOMAIN s :
        (i < j /\ s[i].kind = "turn" /\ s[j].kind = "turn") => Older(s[i].ids, s[j].ids)

Follow(hd, fr) ==
    \A i \in DOMAIN hd, j \in DOMAIN fr :
        (hd[i].kind = "turn" /\ fr[j].kind = "turn") => Older(hd[i].ids, fr[j].ids)

BriefOf(s, i, f) == i > 1 /\ s[i - 1] = Frame("brief", f.ids)

Briefed(s) == \A i \in DOMAIN s : (s[i].kind = "turn" /\ s[i].led) => BriefOf(s, i, s[i])

\* On the way, the brief of the first frame may have been read.
BriefedAfter(hd, fr) ==
    \A i \in DOMAIN fr :
        (fr[i].kind = "turn" /\ fr[i].led)
            => \/ BriefOf(fr, i, fr[i])
               \/ i = 1 /\ BriefOf(hd, Len(hd) + 1, fr[i])

SeedFirst(hd, fr) ==
    /\ \A i \in DOMAIN hd : hd[i].kind = "seed" => i = 1
    /\ \A i \in DOMAIN fr : fr[i].kind # "seed" /\ (~fr[i].text => fr[i].kind = "mirror")

\* What a session of h has heard, and what is on its way to it.
Hears(h, hd, fr, ts, w) ==
    /\ OwnTurns(hd, h, ts, w) /\ OwnTurns(fr, h, ts, w)
    /\ InOrder(hd) /\ InOrder(fr) /\ Follow(hd, fr)
    /\ Briefed(hd) /\ BriefedAfter(hd, fr) /\ SeedFirst(hd, fr)

Lines ==
    \A h \in Handles :
        /\ \A i \in waiting[h] : turns[i] = h
        /\ Hears(h, heard[h], frames[h], turns, waiting[h])
        /\ bridge[h] # "live" => frames[h] = <<>> /\ table[h] # "open"
        /\ bridge[h] = "off" => heard[h] = <<>> /\ ~at[h].busy

Counted ==
    /\ \A h \in Handles : \A i \in DOMAIN heard[h] :
          heard[h][i].kind = "turn" => heard[h][i].ids \subseteq got
    /\ \A h \in Handles : at[h].busy =>
          at[h].taken \in DOMAIN heard[h] /\ heard[h][at[h].taken].kind = "turn"

Accounted ==
    mishaps \cap {"crash", "stale"} = {} =>
        \A i \in DOMAIN turns :
            i \in got \cup told \/ \E h \in Handles : i \in waiting[h] \cup inflight[h]

BridgeInv == BridgeTypes /\ Lines /\ Counted /\ Accounted

\* What is put at the end of a list.
LEMMA PutLast ==
    ASSUME NEW S, NEW s \in Seq(S), NEW f \in S
    PROVE  /\ Len(s) \in Nat /\ DOMAIN s = 1..Len(s)
           /\ s \o <<f>> \in Seq(S) /\ s \o <<f>> # <<>>
           /\ Len(s \o <<f>>) = Len(s) + 1
           /\ DOMAIN (s \o <<f>>) = 1..(Len(s) + 1)
           /\ \A i \in 1..Len(s) : (s \o <<f>>)[i] = s[i] /\ s[i] \in S
           /\ (s \o <<f>>)[Len(s) + 1] = f
<1>1. Len(s) \in Nat /\ DOMAIN s = 1..Len(s) /\ \A i \in 1..Len(s) : s[i] \in S
  OBVIOUS
<1>2. <<f>> \in Seq(S) /\ Len(<<f>>) = 1 /\ <<f>>[1] = f
  OBVIOUS
<1>3. /\ s \o <<f>> \in Seq(S) /\ Len(s \o <<f>>) = Len(s) + Len(<<f>>)
      /\ \A i \in 1..(Len(s) + Len(<<f>>)) :
            (s \o <<f>>)[i] = IF i <= Len(s) THEN s[i] ELSE <<f>>[i - Len(s)]
  BY <1>2, ConcatProperties
<1>4. DOMAIN (s \o <<f>>) = 1..(Len(s) + 1)
  BY <1>2, <1>3
<1> QED BY <1>1, <1>2, <1>3, <1>4

\* What is left of a list without its first element.
LEMMA TakenFirst ==
    ASSUME NEW S, NEW s \in Seq(S), s # <<>>
    PROVE  /\ Len(s) \in Nat /\ Len(s) > 0 /\ DOMAIN s = 1..Len(s)
           /\ Head(s) = s[1] /\ Head(s) \in S
           /\ Tail(s) \in Seq(S) /\ Len(Tail(s)) = Len(s) - 1
           /\ DOMAIN Tail(s) = 1..(Len(s) - 1)
           /\ \A i \in 1..(Len(s) - 1) : Tail(s)[i] = s[i + 1] /\ i + 1 \in DOMAIN s
<1>1. /\ Len(s) \in Nat /\ Len(s) > 0 /\ DOMAIN s = 1..Len(s)
      /\ Head(s) = s[1] /\ Head(s) \in S
  BY EmptySeq, LenProperties
<1>2. /\ Tail(s) \in Seq(S) /\ Len(Tail(s)) = Len(s) - 1
      /\ \A i \in 1..(Len(s) - 1) : Tail(s)[i] = s[i + 1]
  BY <1>1, HeadTailProperties
<1> QED BY <1>1, <1>2

\* A frame that is no turn changes nothing for the turns.
LEMMA AsideFits ==
    ASSUME NEW h, NEW ts, NEW w, NEW hd \in Seq(Items), NEW fr \in Seq(Items),
           Hears(h, hd, fr, ts, w), NEW f \in Items, f.kind \in {"brief", "mirror"},
           f.text \/ f.kind = "mirror"
    PROVE  Hears(h, hd, fr \o <<f>>, ts, w) /\ fr \o <<f>> \in Seq(Items)
<1> DEFINE s == fr \o <<f>>
<1>1. /\ Len(fr) \in Nat /\ DOMAIN fr = 1..Len(fr) /\ s \in Seq(Items)
      /\ DOMAIN s = 1..(Len(fr) + 1) /\ s[Len(fr) + 1] = f
      /\ \A i \in 1..Len(fr) : s[i] = fr[i]
  BY PutLast
<1> HIDE DEF s
<1>2. \A i \in DOMAIN s : s[i].kind = "turn" => i \in DOMAIN fr /\ s[i] = fr[i]
  BY <1>1
<1>3. OwnTurns(s, h, ts, w)
  BY <1>2 DEF Hears, OwnTurns
<1>4. InOrder(s)
  BY <1>2 DEF Hears, InOrder
<1>5. Follow(hd, s)
  BY <1>2 DEF Hears, Follow
<1>6. BriefedAfter(hd, s)
  <2>1. SUFFICES ASSUME NEW i \in DOMAIN s, s[i].kind = "turn", s[i].led
                 PROVE  BriefOf(s, i, s[i]) \/ (i = 1 /\ BriefOf(hd, Len(hd) + 1, s[i]))
    BY DEF BriefedAfter
  <2>2. i \in DOMAIN fr /\ s[i] = fr[i]
    BY <1>2, <2>1
  <2>3. BriefOf(fr, i, fr[i]) \/ (i = 1 /\ BriefOf(hd, Len(hd) + 1, fr[i]))
    BY <2>1, <2>2 DEF Hears, BriefedAfter
  <2>4. i > 1 => s[i - 1] = fr[i - 1]
    BY <1>1, <2>2
  <2> QED BY <2>2, <2>3, <2>4 DEF BriefOf
<1>7. SeedFirst(hd, s)
  BY <1>1 DEF Hears, SeedFirst
<1>8. Hears(h, hd, s, ts, w)
  BY <1>3, <1>4, <1>5, <1>6, <1>7 DEF Hears
<1> QED BY <1>1, <1>8 DEF s

\* The turn that takes everything that waited is younger than all there was.
LEMMA TurnFits ==
    ASSUME NEW h, NEW ts, NEW w, NEW hd \in Seq(Items), NEW fr \in Seq(Items),
           Hears(h, hd, fr, ts, w), NEW f \in Items, f.kind = "turn", f.ids = w, f.text,
           w # {}, w \subseteq DOMAIN ts, \A i \in w : ts[i] = h,
           f.led => fr # <<>> /\ fr[Len(fr)] = Frame("brief", w)
    PROVE  Hears(h, hd, fr \o <<f>>, ts, {}) /\ fr \o <<f>> \in Seq(Items)
<1> DEFINE s == fr \o <<f>>
           n == Len(fr) + 1
<1>1. /\ Len(fr) \in Nat /\ DOMAIN fr = 1..Len(fr) /\ s \in Seq(Items)
      /\ DOMAIN s = 1..n /\ s[n] = f
      /\ \A i \in 1..Len(fr) : s[i] = fr[i]
  BY PutLast
<1> HIDE DEF s
<1>2. \A i \in DOMAIN s : (i \in DOMAIN fr /\ s[i] = fr[i]) \/ (i = n /\ s[i] = f)
  BY <1>1
<1>3. /\ \A i \in DOMAIN hd : hd[i].kind = "turn" => OwnTurn(hd[i], h, ts, {}) /\ Older(hd[i].ids, w)
      /\ \A i \in DOMAIN fr : fr[i].kind = "turn" => OwnTurn(fr[i], h, ts, {}) /\ Older(fr[i].ids, w)
  BY DEF Hears, OwnTurns, OwnTurn, Older
<1>4. OwnTurns(hd, h, ts, {})
  BY <1>3 DEF OwnTurns
<1>5. OwnTurns(s, h, ts, {})
  <2>1. OwnTurn(f, h, ts, {})
    BY DEF OwnTurn, Older
  <2> QED BY <1>2, <1>3, <2>1 DEF OwnTurns
<1>6. InOrder(s)
  <2>1. SUFFICES ASSUME NEW i \in DOMAIN s, NEW j \in DOMAIN s, i < j,
                        s[i].kind = "turn", s[j].kind = "turn"
                 PROVE  Older(s[i].ids, s[j].ids)
    BY DEF InOrder
  <2>2. i \in DOMAIN fr /\ s[i] = fr[i]
    BY <1>1, <2>1
  <2>3. CASE j \in DOMAIN fr /\ s[j] = fr[j]
    BY <2>1, <2>2, <2>3 DEF Hears, InOrder
  <2>4. CASE j = n /\ s[j] = f
    BY <1>3, <2>1, <2>2, <2>4
  <2> QED BY <1>2, <2>3, <2>4
<1>7. Follow(hd, s)
  BY <1>2, <1>3 DEF Hears, Follow
<1>8. BriefedAfter(hd, s)
  <2>1. SUFFICES ASSUME NEW i \in DOMAIN s, s[i].kind = "turn", s[i].led
                 PROVE  BriefOf(s, i, s[i]) \/ (i = 1 /\ BriefOf(hd, Len(hd) + 1, s[i]))
    BY DEF BriefedAfter
  <2>2. CASE i \in DOMAIN fr /\ s[i] = fr[i]
    <3>1. BriefOf(fr, i, fr[i]) \/ (i = 1 /\ BriefOf(hd, Len(hd) + 1, fr[i]))
      BY <2>1, <2>2 DEF Hears, BriefedAfter
    <3>2. i > 1 => s[i - 1] = fr[i - 1]
      BY <1>1, <2>2
    <3> QED BY <2>2, <3>1, <3>2 DEF BriefOf
  <2>3. CASE i = n /\ s[i] = f
    <3>1. fr # <<>> /\ fr[Len(fr)] = Frame("brief", f.ids)
      BY <2>1, <2>3
    <3>2. Len(fr) > 0
      BY <1>1, <3>1
    <3>3. n > 1 /\ s[n - 1] = fr[Len(fr)]
      BY <1>1, <3>2
    <3> QED BY <2>3, <3>1, <3>3 DEF BriefOf
  <2> QED BY <1>2, <2>2, <2>3
<1>9. SeedFirst(hd, s)
  BY <1>2 DEF Hears, SeedFirst
<1>10. Hears(h, hd, s, ts, {})
  BY <1>4, <1>5, <1>6, <1>7, <1>8, <1>9 DEF Hears
<1> QED BY <1>1, <1>10 DEF s

LEMMA PairOf ==
    ASSUME NEW S, NEW a \in S, NEW b \in S
    PROVE  <<a, b>> = <<a>> \o <<b>>
<1>1. /\ <<a>> \in Seq(S) /\ Len(<<a>>) = 1 /\ <<a>>[1] = a
      /\ <<b>> \in Seq(S) /\ Len(<<b>>) = 1 /\ <<b>>[1] = b
      /\ <<a, b>> \in Seq(S) /\ Len(<<a, b>>) = 2 /\ <<a, b>>[1] = a /\ <<a, b>>[2] = b
  OBVIOUS
<1>2. /\ <<a>> \o <<b>> \in Seq(S) /\ Len(<<a>> \o <<b>>) = 1 + 1
      /\ \A i \in 1..(1 + 1) : (<<a>> \o <<b>>)[i] = IF i <= 1 THEN <<a>>[i] ELSE <<b>>[i - 1]
  BY <1>1, ConcatProperties
<1>3. \A i \in 1..2 : (<<a>> \o <<b>>)[i] = <<a, b>>[i]
  BY <1>1, <1>2
<1>4. Len(<<a>> \o <<b>>) = Len(<<a, b>>)
  BY <1>1, <1>2
<1> QED BY <1>1, <1>2, <1>3, <1>4, SeqEqual

\* What a drain sends to one seat, of the messages that wait for another, or for it.
LEMMA SentFits ==
    ASSUME NEW g, NEW h, NEW ts, NEW w \in SUBSET Nat, NEW v, NEW brief \in BOOLEAN,
           NEW hd \in Seq(Items), NEW fr \in Seq(Items), Hears(g, hd, fr, ts, v),
           w # {}, w \subseteq DOMAIN ts, \A i \in w : ts[i] = h, g = h => v = w
    PROVE  /\ Hears(g, hd, fr \o Sent(h, g, w, brief), ts, IF g = h THEN {} ELSE v)
           /\ fr \o Sent(h, g, w, brief) \in Seq(Items)
<1> DEFINE call == Frame("turn", w)
           lead == Frame("brief", w)
           led  == [call EXCEPT !.led = TRUE]
           mirror == [Frame("mirror", w) EXCEPT !.text = FALSE]
<1>1. /\ call \in Items /\ call.kind = "turn" /\ call.ids = w /\ call.text /\ ~call.led
      /\ led \in Items /\ led.kind = "turn" /\ led.ids = w /\ led.text
      /\ lead \in Items /\ lead.kind = "brief" /\ lead.text
      /\ mirror \in Items /\ mirror.kind = "mirror"
  BY DEF Frame, Items
<1>2. CASE g # h
  <2>1. Sent(h, g, w, brief) = <<mirror>>
    BY <1>2 DEF Sent, Addressed
  <2> HIDE DEF mirror
  <2> QED BY <1>1, <1>2, <2>1, AsideFits
<1>3. CASE g = h /\ ~brief
  <2>1. Sent(h, g, w, brief) = <<call>>
    BY <1>3 DEF Sent, Addressed
  <2> HIDE DEF call
  <2>2. Hears(h, hd, fr \o <<call>>, ts, {}) /\ fr \o <<call>> \in Seq(Items)
    BY <1>1, <1>3, TurnFits
  <2> QED BY <1>3, <2>1, <2>2
<1>4. CASE g = h /\ brief
  <2>1. Sent(h, g, w, brief) = <<lead, led>>
    BY <1>4 DEF Sent, Addressed, BriefLeads
  <2> DEFINE s == fr \o <<lead>>
  <2> HIDE DEF lead, led, call
  <2>2. Hears(h, hd, s, ts, w) /\ s \in Seq(Items)
    BY <1>1, <1>4, AsideFits
  <2>3. s # <<>> /\ s[Len(s)] = lead
    BY <1>1, PutLast
  <2>4. fr \o <<lead, led>> = s \o <<led>>
    <3>1. <<lead>> \in Seq(Items) /\ <<led>> \in Seq(Items)
      BY <1>1
    <3>2. <<lead, led>> = <<lead>> \o <<led>>
      BY <1>1, PairOf
    <3> QED BY <3>1, <3>2, ConcatAssociative
  <2> HIDE DEF s
  <2>5. led.led => s # <<>> /\ s[Len(s)] = Frame("brief", w)
    BY <2>3 DEF lead
  <2>6. led \in Items /\ led.kind = "turn" /\ led.ids = w /\ led.text
    BY <1>1
  <2>7. Hears(h, hd, s \o <<led>>, ts, {}) /\ s \o <<led>> \in Seq(Items)
    BY <2>2, <2>5, <2>6, TurnFits
  <2> QED BY <1>4, <2>1, <2>4, <2>7
<1> QED BY <1>2, <1>3, <1>4

\* A frame that is read becomes a notification, or nothing at all.
LEMMA ReadFits ==
    ASSUME NEW h, NEW ts, NEW w, NEW hd \in Seq(Items), NEW fr \in Seq(Items),
           Hears(h, hd, fr, ts, w), fr # <<>>
    PROVE  /\ Hears(h, hd \o Notified(Head(fr)), Tail(fr), ts, w)
           /\ hd \o Notified(Head(fr)) \in Seq(Items) /\ Tail(fr) \in Seq(Items)
<1> DEFINE f == Head(fr)
           rest == Tail(fr)
<1>1. /\ Len(fr) \in Nat /\ Len(fr) > 0 /\ DOMAIN fr = 1..Len(fr) /\ f = fr[1] /\ f \in Items
      /\ rest \in Seq(Items) /\ DOMAIN rest = 1..(Len(fr) - 1)
      /\ \A i \in 1..(Len(fr) - 1) : rest[i] = fr[i + 1] /\ i + 1 \in DOMAIN fr
  BY TakenFirst
<1> HIDE DEF f, rest
<1>2. \A i \in DOMAIN rest : i \in Nat /\ i > 0 /\ i + 1 \in DOMAIN fr /\ rest[i] = fr[i + 1]
  BY <1>1
<1>3. 1 \in DOMAIN fr
  BY <1>1
<1>4. OwnTurns(rest, h, ts, w)
  BY <1>2 DEF Hears, OwnTurns
<1>5. InOrder(rest)
  BY <1>2 DEF Hears, InOrder
<1>6. f.kind # "seed" /\ (~f.text => f.kind = "mirror")
  BY <1>1, <1>3 DEF Hears, SeedFirst
<1>7. CASE ~f.text
  <2>1. Notified(f) = <<>> /\ f.kind = "mirror"
    BY <1>6, <1>7 DEF Notified
  <2>2. hd \o <<>> = hd
    OBVIOUS
  <2>3. Follow(hd, rest)
    BY <1>2 DEF Hears, Follow
  <2>4. BriefedAfter(hd, rest)
    <3>1. SUFFICES ASSUME NEW i \in DOMAIN rest, rest[i].kind = "turn", rest[i].led
                   PROVE  BriefOf(rest, i, rest[i])
      BY DEF BriefedAfter
    <3>2. /\ i \in Nat /\ i > 0 /\ i + 1 \in DOMAIN fr /\ rest[i] = fr[i + 1]
      BY <1>2
    <3>3. fr[i] = Frame("brief", rest[i].ids)
      BY <3>1, <3>2 DEF Hears, BriefedAfter, BriefOf
    <3>4. fr[i].kind = "brief"
      BY <3>3 DEF Frame
    <3>5. i # 1
      BY <1>1, <2>1, <3>4
    <3>6. i - 1 \in DOMAIN rest /\ rest[i - 1] = fr[i]
      BY <1>1, <3>2, <3>5
    <3> QED BY <3>2, <3>3, <3>5, <3>6 DEF BriefOf
  <2>5. SeedFirst(hd, rest)
    BY <1>2 DEF Hears, SeedFirst
  <2>6. Hears(h, hd, rest, ts, w)
    BY <1>4, <1>5, <2>3, <2>4, <2>5 DEF Hears
  <2> QED BY <1>1, <2>1, <2>2, <2>6 DEF f, rest
<1>8. CASE f.text
  <2> DEFINE s == hd \o <<f>>
             n == Len(hd) + 1
  <2>1. Notified(f) = <<f>>
    BY <1>8 DEF Notified
  <2>2. /\ Len(hd) \in Nat /\ DOMAIN hd = 1..Len(hd) /\ s \in Seq(Items) /\ Len(s) = n
        /\ DOMAIN s = 1..n /\ s[n] = f
        /\ \A i \in 1..Len(hd) : s[i] = hd[i]
    BY <1>1, PutLast
  <2> HIDE DEF s
  <2>3. \A i \in DOMAIN s : (i \in DOMAIN hd /\ s[i] = hd[i]) \/ (i = n /\ s[i] = f)
    BY <2>2
  <2>4. OwnTurns(s, h, ts, w)
    BY <1>1, <1>3, <2>3 DEF Hears, OwnTurns
  <2>5. f.kind = "turn" => /\ \A i \in DOMAIN hd : hd[i].kind = "turn" => Older(hd[i].ids, f.ids)
                           /\ \A i \in DOMAIN rest : rest[i].kind = "turn" => Older(f.ids, rest[i].ids)
    <3>1. f.kind = "turn" => \A i \in DOMAIN hd : hd[i].kind = "turn" => Older(hd[i].ids, f.ids)
      BY <1>1, <1>3 DEF Hears, Follow
    <3>2. ASSUME f.kind = "turn", NEW i \in DOMAIN rest, rest[i].kind = "turn"
          PROVE  Older(f.ids, rest[i].ids)
      <4>1. i + 1 \in DOMAIN fr /\ rest[i] = fr[i + 1] /\ 1 < i + 1
        BY <1>2
      <4> QED BY <1>1, <1>3, <3>2, <4>1 DEF Hears, InOrder
    <3> QED BY <3>1, <3>2
  <2>6. InOrder(s)
    <3>1. SUFFICES ASSUME NEW i \in DOMAIN s, NEW j \in DOMAIN s, i < j,
                          s[i].kind = "turn", s[j].kind = "turn"
                   PROVE  Older(s[i].ids, s[j].ids)
      BY DEF InOrder
    <3>2. i \in DOMAIN hd /\ s[i] = hd[i]
      BY <2>2, <3>1
    <3>3. CASE j \in DOMAIN hd /\ s[j] = hd[j]
      BY <3>1, <3>2, <3>3 DEF Hears, InOrder
    <3>4. CASE j = n /\ s[j] = f
      BY <2>5, <3>1, <3>2, <3>4
    <3> QED BY <2>3, <3>3, <3>4
  <2>7. Follow(s, rest)
    <3>1. SUFFICES ASSUME NEW i \in DOMAIN s, NEW j \in DOMAIN rest,
                          s[i].kind = "turn", rest[j].kind = "turn"
                   PROVE  Older(s[i].ids, rest[j].ids)
      BY DEF Follow
    <3>2. CASE i \in DOMAIN hd /\ s[i] = hd[i]
      BY <1>2, <3>1, <3>2 DEF Hears, Follow
    <3>3. CASE i = n /\ s[i] = f
      BY <2>5, <3>1, <3>3
    <3> QED BY <2>3, <3>2, <3>3
  <2>8. Briefed(s)
    <3>1. SUFFICES ASSUME NEW i \in DOMAIN s, s[i].kind = "turn", s[i].led
                   PROVE  BriefOf(s, i, s[i])
      BY DEF Briefed
    <3>2. CASE i \in DOMAIN hd /\ s[i] = hd[i]
      <4>1. BriefOf(hd, i, hd[i])
        BY <3>1, <3>2 DEF Hears, Briefed
      <4>2. i > 1 => s[i - 1] = hd[i - 1]
        BY <2>2, <3>2
      <4> QED BY <3>2, <4>1, <4>2 DEF BriefOf
    <3>3. CASE i = n /\ s[i] = f
      <4>1. BriefOf(hd, n, f)
        BY <1>1, <1>3, <3>1, <3>3 DEF Hears, BriefedAfter, BriefOf
      <4>2. n > 1 => s[n - 1] = hd[n - 1]
        BY <2>2
      <4> QED BY <3>3, <4>1, <4>2 DEF BriefOf
    <3> QED BY <2>3, <3>2, <3>3
  <2>9. BriefedAfter(s, rest)
    <3>1. SUFFICES ASSUME NEW i \in DOMAIN rest, rest[i].kind = "turn", rest[i].led
                   PROVE  BriefOf(rest, i, rest[i]) \/ (i = 1 /\ BriefOf(s, Len(s) + 1, rest[i]))
      BY DEF BriefedAfter
    <3>2. /\ i \in Nat /\ i > 0 /\ i + 1 \in DOMAIN fr /\ rest[i] = fr[i + 1]
      BY <1>2
    <3>3. fr[i] = Frame("brief", rest[i].ids)
      BY <3>1, <3>2 DEF Hears, BriefedAfter, BriefOf
    <3>4. CASE i = 1
      <4>1. s[Len(s)] = fr[i] /\ Len(s) + 1 > 1 /\ (Len(s) + 1) - 1 = Len(s)
        BY <1>1, <2>2, <3>4
      <4> QED BY <3>3, <3>4, <4>1 DEF BriefOf
    <3>5. CASE i # 1
      <4>1. i > 1 /\ i - 1 \in DOMAIN rest /\ rest[i - 1] = fr[i]
        BY <1>1, <3>2, <3>5
      <4> QED BY <3>3, <4>1 DEF BriefOf
    <3> QED BY <3>4, <3>5
  <2>10. SeedFirst(s, rest)
    BY <1>2, <1>6, <2>3 DEF Hears, SeedFirst
  <2>11. Hears(h, s, rest, ts, w)
    BY <1>4, <1>5, <2>4, <2>6, <2>7, <2>8, <2>9, <2>10 DEF Hears
  <2> QED BY <1>1, <2>1, <2>2, <2>11 DEF f, rest, s
<1> QED BY <1>1, <1>7, <1>8 DEF Items

\* A message more makes nothing that was heard or sent younger.
LEMMA GrowthFits ==
    ASSUME NEW h, NEW S, NEW ts \in Seq(S), NEW g \in S, NEW w, NEW v, NEW hd, NEW fr,
           Hears(h, hd, fr, ts, w), v \in {w, w \cup {Len(ts) + 1}}
    PROVE  Hears(h, hd, fr, Append(ts, g), v)
<1>1. /\ Len(ts) \in Nat /\ DOMAIN ts = 1..Len(ts) /\ Append(ts, g) \in Seq(S)
      /\ Len(Append(ts, g)) = Len(ts) + 1
      /\ \A i \in 1..Len(ts) : Append(ts, g)[i] = ts[i]
  BY AppendProperties, LenProperties
<1>2. DOMAIN Append(ts, g) = 1..(Len(ts) + 1)
  BY <1>1, LenProperties
<1>3. ASSUME NEW f, OwnTurn(f, h, ts, w)
      PROVE  OwnTurn(f, h, Append(ts, g), v)
  <2>1. f.ids \subseteq 1..Len(ts)
    BY <1>1, <1>3 DEF OwnTurn
  <2>2. Older(f.ids, v)
    BY <1>1, <1>3, <2>1 DEF OwnTurn, Older
  <2> QED BY <1>1, <1>2, <1>3, <2>1, <2>2 DEF OwnTurn
<1>4. OwnTurns(hd, h, Append(ts, g), v) /\ OwnTurns(fr, h, Append(ts, g), v)
  BY <1>3 DEF Hears, OwnTurns
<1> QED BY <1>4 DEF Hears

\* Fewer wait, and a session that has nothing on its way may forget what it heard.
LEMMA LossFits ==
    ASSUME NEW h, NEW ts, NEW w, NEW v, NEW hd, NEW fr, Hears(h, hd, fr, ts, w), v \subseteq w
    PROVE  /\ Hears(h, hd, fr, ts, v) /\ Hears(h, hd, <<>>, ts, v) /\ Hears(h, <<>>, <<>>, ts, v)
           /\ Hears(h, <<Frame("seed", {})>>, <<>>, ts, v)
<1>1. OwnTurns(hd, h, ts, v) /\ OwnTurns(fr, h, ts, v)
  BY DEF Hears, OwnTurns, OwnTurn, Older
<1>2. Hears(h, hd, fr, ts, v) /\ Hears(h, hd, <<>>, ts, v) /\ Hears(h, <<>>, <<>>, ts, v)
  BY <1>1 DEF Hears, OwnTurns, InOrder, Follow, Briefed, BriefedAfter, SeedFirst
<1>3. LET s == <<Frame("seed", {})>>
      IN  DOMAIN s = {1} /\ s[1].kind = "seed"
  BY DEF Frame
<1>4. Hears(h, <<Frame("seed", {})>>, <<>>, ts, v)
  BY <1>3 DEF Hears, OwnTurns, InOrder, Follow, Briefed, BriefedAfter, SeedFirst
<1> QED BY <1>2, <1>4

\* What has messages has a first and a last one.
LEMMA Bounds ==
    ASSUME NEW n \in Nat, NEW S \in SUBSET (1..n), S # {}
    PROVE  /\ Min(S) \in S /\ \A i \in S : Min(S) <= i
           /\ Max(S) \in S /\ \A i \in S : Max(S) >= i
<1>1. ASSUME NEW T \in SUBSET Nat, T # {}
      PROVE  \E i \in T : \A j \in T : i <= j
  <2>1. PICK R : R = OpToRel(<, Nat) OBVIOUS
  <2>2. IsWellFoundedOn(R, Nat) BY <2>1, NatLessThanWellFounded
  <2>3. \A x, y \in Nat : x < y => <<x, y>> \in R BY <2>1 DEF OpToRel
  <2>4. PICK i \in T : \A j \in T : ~ (<<j, i>> \in R)
    BY <1>1, <2>2, WFMin
  <2>5. ASSUME NEW j \in T PROVE i <= j
    <3>1. i \in Nat /\ j \in Nat
      OBVIOUS
    <3>2. ~ (j < i)
      BY <2>3, <2>4, <3>1
    <3> QED BY <3>1, <3>2
  <2> QED BY <2>5
<1>2. \E i \in S : \A j \in S : i <= j
  BY <1>1
<1>3. \E i \in S : \A j \in S : i >= j
  <2> DEFINE above == {i \in 0..n : \A j \in S : i >= j}
  <2>1. n \in above /\ above \in SUBSET Nat
    OBVIOUS
  <2>2. PICK m \in above : \A j \in above : m <= j
    <3> HIDE DEF above
    <3> QED BY <1>1, <2>1
  <2>3. m \in S
    <3>1. SUFFICES ASSUME m \notin S PROVE FALSE
      OBVIOUS
    <3>2. m \in 0..n /\ \A j \in S : j \in 1..n /\ m > j
      BY <3>1
    <3>3. PICK j \in S : TRUE
      OBVIOUS
    <3>4. m - 1 \in 0..n /\ \A i \in S : m - 1 >= i
      BY <3>2, <3>3
    <3> QED BY <2>2, <3>4
  <2> QED BY <2>3
<1> QED BY <1>2, <1>3 DEF Min, Max

\* The parts of the invariant say what the properties say.
LEMMA InvariantTells ==
    ASSUME BridgeInv
    PROVE  HeardAsSent /\ HeardOrTold
<1>1. BridgeTypes /\ Lines /\ Counted /\ Accounted
  BY DEF BridgeInv
<1>2. HeardOrTold
  <2>1. /\ got \subseteq DOMAIN turns /\ told \subseteq DOMAIN turns
        /\ \A h \in Handles : waiting[h] \subseteq DOMAIN turns /\ inflight[h] \subseteq DOMAIN turns
    BY <1>1 DEF BridgeTypes
  <2> QED BY <1>1, <2>1 DEF Accounted, HeardOrTold
<1>3. HeardAsSent
  <2>1. SUFFICES ASSUME NEW h \in Handles, NEW i \in DOMAIN heard[h]
                 PROVE  /\ heard[h][i].kind = "seed" => i = 1
                        /\ heard[h][i].kind = "turn" =>
                             /\ \A id \in heard[h][i].ids : turns[id] = h
                             /\ heard[h][i].led => i > 1 /\ heard[h][i - 1] = Frame("brief", heard[h][i].ids)
                             /\ \A j \in 1..(i - 1) : heard[h][j].kind = "turn"
                                     => Max(heard[h][j].ids) < Min(heard[h][i].ids)
    BY DEF HeardAsSent
  <2>2. Hears(h, heard[h], frames[h], turns, waiting[h])
    BY <1>1 DEF Lines
  <2>3. /\ Len(heard[h]) \in Nat /\ DOMAIN heard[h] = 1..Len(heard[h])
        /\ Len(turns) \in Nat /\ DOMAIN turns = 1..Len(turns)
    BY <1>1, LenProperties DEF BridgeTypes
  <2>4. heard[h][i].kind = "seed" => i = 1
    BY <2>2 DEF Hears, SeedFirst
  <2>5. ASSUME heard[h][i].kind = "turn"
        PROVE  /\ \A id \in heard[h][i].ids : turns[id] = h
               /\ heard[h][i].led => i > 1 /\ heard[h][i - 1] = Frame("brief", heard[h][i].ids)
    BY <2>2, <2>5 DEF Hears, OwnTurns, OwnTurn, Briefed, BriefOf
  <2>6. ASSUME heard[h][i].kind = "turn", NEW j \in 1..(i - 1), heard[h][j].kind = "turn"
        PROVE  Max(heard[h][j].ids) < Min(heard[h][i].ids)
    <3>1. j \in DOMAIN heard[h] /\ j < i
      BY <2>3
    <3>2. /\ heard[h][i].ids # {} /\ heard[h][i].ids \subseteq 1..Len(turns)
          /\ heard[h][j].ids # {} /\ heard[h][j].ids \subseteq 1..Len(turns)
      BY <2>2, <2>3, <2>6, <3>1 DEF Hears, OwnTurns, OwnTurn
    <3>3. Max(heard[h][j].ids) \in heard[h][j].ids /\ Min(heard[h][i].ids) \in heard[h][i].ids
      BY <2>3, <3>2, Bounds
    <3>4. Older(heard[h][j].ids, heard[h][i].ids)
      BY <2>2, <2>6, <3>1 DEF Hears, InOrder
    <3> QED BY <3>3, <3>4 DEF Older
  <2> QED BY <2>4, <2>5, <2>6
<1> QED BY <1>2, <1>3

\* What a drain needs of the queue it is given, and what it does to it and to what is
\* on its way.
Drainable(ts, w, r) ==
    /\ ts \in Seq(Handles) /\ w \in [Handles -> SUBSET DOMAIN ts]
    /\ r \in [Handles -> SUBSET DOMAIN ts] /\ told \subseteq DOMAIN ts
    /\ frames \in [Handles -> Seq(Items)] /\ heard \in [Handles -> Seq(Items)]
    /\ \A h \in Handles : /\ Hears(h, heard[h], frames[h], ts, w[h])
                          /\ \A i \in w[h] : ts[i] = h

Drained(ts, w, r) ==
    /\ waiting' \in [Handles -> SUBSET DOMAIN ts] /\ inflight' \in [Handles -> SUBSET DOMAIN ts]
    /\ told \subseteq told' /\ told' \subseteq DOMAIN ts
    /\ frames' \in [Handles -> Seq(Items)]
    /\ \A h \in Handles :
          /\ waiting'[h] \subseteq w[h]
          /\ w[h] \cup r[h] \subseteq waiting'[h] \cup inflight'[h] \cup told'
          /\ Hears(h, heard[h], frames'[h], ts, waiting'[h])
          /\ frames'[h] = frames[h] \/ table[h] = "open"

LEMMA DrainFits ==
    ASSUME NEW ts, NEW w, NEW r, NEW brief \in BOOLEAN, Drainable(ts, w, r), Drain(w, r, brief)
    PROVE  Drained(ts, w, r)
<1>0. /\ ts \in Seq(Handles) /\ w \in [Handles -> SUBSET DOMAIN ts]
      /\ r \in [Handles -> SUBSET DOMAIN ts] /\ told \subseteq DOMAIN ts
      /\ frames \in [Handles -> Seq(Items)] /\ heard \in [Handles -> Seq(Items)]
      /\ \A h \in Handles : /\ Hears(h, heard[h], frames[h], ts, w[h])
                            /\ \A i \in w[h] : ts[i] = h
  BY DEF Drainable
<1> DEFINE first(h) == Min(w[h])
           live  == {h \in Ready(w, r) : Online(h)}
           start == {h \in live : \A g \in live : first(h) <= first(g)}
           lost  == {h \in Ready(w, r) \ live : \A g \in start : first(h) < first(g)}
<1>1. /\ start \subseteq Ready(w, r) /\ lost \subseteq Ready(w, r) /\ start \cap lost = {}
  OBVIOUS
<1>2. /\ told' = told \cup UNION {w[h] : h \in lost}
      /\ waiting' = [h \in Handles |-> IF h \in start \cup lost THEN {} ELSE w[h]]
      /\ inflight' = [h \in Handles |-> IF h \in start THEN w[h] ELSE r[h]]
      /\ frames' = [g \in Handles |->
                      IF start = {} THEN frames[g]
                      ELSE LET h == CHOOSE h \in start : TRUE
                           IN  Deliver(g, Sent(h, g, w[h], brief))]
  BY Zenon DEF Drain, Reject
<1>3. \A h \in Ready(w, r) : h \in Handles /\ w[h] # {} /\ r[h] = {}
  BY DEF Ready
<1> HIDE DEF start, lost
<1>4. \A h \in lost : h \in Handles /\ w[h] \subseteq told'
  BY <1>1, <1>2, <1>3
<1>5. told' \subseteq DOMAIN ts /\ told \subseteq told'
  BY <1>0, <1>1, <1>2, <1>3
<1>6. waiting' \in [Handles -> SUBSET DOMAIN ts] /\ inflight' \in [Handles -> SUBSET DOMAIN ts]
  BY <1>0, <1>2
<1>7. ASSUME NEW h \in Handles
      PROVE  /\ waiting'[h] \subseteq w[h]
             /\ w[h] \cup r[h] \subseteq waiting'[h] \cup inflight'[h] \cup told'
  BY <1>0, <1>1, <1>2, <1>3, <1>4
<1>8. ASSUME NEW g \in Handles
      PROVE  /\ frames'[g] \in Seq(Items) /\ Hears(g, heard[g], frames'[g], ts, waiting'[g])
             /\ frames'[g] = frames[g] \/ table[g] = "open"
  <2>1. CASE frames'[g] = frames[g]
    BY <1>0, <1>7, <2>1, LossFits
  <2>2. CASE frames'[g] # frames[g]
    <3>1. start # {}
      BY <1>2, <2>2
    <3>2. PICK h \in start : frames'[g] = Deliver(g, Sent(h, g, w[h], brief))
      <4>1. PICK k : k = CHOOSE h \in start : TRUE
        OBVIOUS
      <4>2. k \in start
        BY <3>1, <4>1
      <4>3. frames'[g] = Deliver(g, Sent(k, g, w[k], brief))
        BY <1>2, <3>1, <4>1
      <4> QED BY <4>2, <4>3
    <3>3. table[g] = "open" /\ frames'[g] = frames[g] \o Sent(h, g, w[h], brief)
      BY <2>2, <3>2 DEF Deliver
    <3>4. h \in Handles /\ w[h] # {} /\ waiting'[h] = {}
      BY <1>1, <1>2, <1>3
    <3>5. w[h] \in SUBSET Nat /\ w[h] \subseteq DOMAIN ts /\ \A i \in w[h] : ts[i] = h
      BY <1>0, <3>4, LenProperties
    <3>6. /\ Hears(g, heard[g], frames'[g], ts, IF g = h THEN {} ELSE w[g])
          /\ frames'[g] \in Seq(Items)
      <4>1. /\ heard[g] \in Seq(Items) /\ frames[g] \in Seq(Items)
            /\ Hears(g, heard[g], frames[g], ts, w[g]) /\ (g = h => w[g] = w[h])
        BY <1>0
      <4>2. /\ Hears(g, heard[g], frames[g] \o Sent(h, g, w[h], brief), ts, IF g = h THEN {} ELSE w[g])
            /\ frames[g] \o Sent(h, g, w[h], brief) \in Seq(Items)
        BY <3>4, <3>5, <4>1, SentFits
      <4> QED BY <3>3, <4>2
    <3>7. waiting'[g] \subseteq IF g = h THEN {} ELSE w[g]
      BY <1>7, <3>4
    <3> QED BY <3>3, <3>6, <3>7, LossFits
  <2> QED BY <2>1, <2>2
<1>9. frames' \in [Handles -> Seq(Items)]
  <2>1. frames' = [g \in Handles |-> frames'[g]]
    BY <1>2
  <2> QED BY <1>8, <2>1
<1> QED BY <1>5, <1>6, <1>7, <1>8, <1>9 DEF Drained

LEMMA BridgeStarts == BridgeInit => BridgeInv
<1> SUFFICES ASSUME BridgeInit PROVE BridgeInv
  OBVIOUS
<1>1. BridgeTypes
  BY DEF BridgeInit, BridgeTypes, Idle, Works
<1>2. Lines
  BY DEF BridgeInit, Lines, Idle, Hears, OwnTurns, InOrder, Follow, Briefed, BriefedAfter, SeedFirst
<1>3. Counted /\ Accounted
  BY DEF BridgeInit, Counted, Accounted, Idle
<1> QED BY <1>1, <1>2, <1>3 DEF BridgeInv

LEMMA SubmitFits ==
    ASSUME BridgeInv, NEW h \in Handles, Submit(h)
    PROVE  BridgeInv'
<1>1. BridgeTypes /\ Lines /\ Counted /\ Accounted
  BY DEF BridgeInv
<1>2. PICK ts : ts = turns'
  OBVIOUS
<1>3. PICK w : w = [waiting EXCEPT ![h] = @ \cup {Len(turns) + 1}]
  OBVIOUS
<1>4. /\ ts = Append(turns, h)
      /\ \E brief \in BOOLEAN : Drain(w, inflight, brief)
      /\ UNCHANGED <<table, bridge, heard, at, got, mishaps>>
  BY <1>2, <1>3 DEF Submit, session
<1>5. PICK brief \in BOOLEAN : Drain(w, inflight, brief)
  BY <1>4
<1>6. /\ Len(turns) \in Nat /\ DOMAIN turns = 1..Len(turns)
      /\ ts \in Seq(Handles) /\ DOMAIN ts = 1..(Len(turns) + 1)
      /\ \A i \in 1..Len(turns) : ts[i] = turns[i]
      /\ ts[Len(turns) + 1] = h
  <2>1. turns \in Seq(Handles)
    BY <1>1 DEF BridgeTypes
  <2>2. /\ ts \in Seq(Handles) /\ Len(ts) = Len(turns) + 1
        /\ \A i \in 1..Len(turns) : ts[i] = turns[i]
        /\ ts[Len(turns) + 1] = h
    BY <1>4, <2>1, AppendProperties
  <2> QED BY <2>1, <2>2, LenProperties
<1>7. /\ w \in [Handles -> SUBSET DOMAIN ts] /\ inflight \in [Handles -> SUBSET DOMAIN ts]
      /\ told \subseteq DOMAIN ts /\ got \subseteq DOMAIN ts
      /\ w[h] = waiting[h] \cup {Len(turns) + 1}
      /\ \A g \in Handles \ {h} : w[g] = waiting[g]
  BY <1>1, <1>3, <1>6 DEF BridgeTypes
<1>8. ASSUME NEW g \in Handles
      PROVE  Hears(g, heard[g], frames[g], ts, w[g]) /\ \A i \in w[g] : ts[i] = g
  <2>1. Hears(g, heard[g], frames[g], turns, waiting[g]) /\ \A i \in waiting[g] : turns[i] = g
    BY <1>1 DEF Lines
  <2>2. turns \in Seq(Handles) /\ waiting[g] \subseteq DOMAIN turns
    BY <1>1 DEF BridgeTypes
  <2>3. w[g] \in {waiting[g], waiting[g] \cup {Len(turns) + 1}}
    BY <1>7
  <2>4. Hears(g, heard[g], frames[g], ts, w[g])
    BY <1>4, <2>1, <2>2, <2>3, GrowthFits
  <2> QED BY <1>6, <1>7, <2>1, <2>2, <2>4
<1>9. Drained(ts, w, inflight)
  <2>1. frames \in [Handles -> Seq(Items)] /\ heard \in [Handles -> Seq(Items)]
    BY <1>1 DEF BridgeTypes
  <2>2. PICK r : r = inflight
    OBVIOUS
  <2>3. Drainable(ts, w, r)
    BY <1>6, <1>7, <1>8, <2>1, <2>2 DEF Drainable
  <2> QED BY <1>5, <2>2, <2>3, DrainFits
<1>10. BridgeTypes'
  BY <1>1, <1>2, <1>4, <1>6, <1>7, <1>9 DEF BridgeTypes, Drained
<1>11. Lines'
  BY <1>1, <1>2, <1>4, <1>8, <1>9 DEF Lines, Drained
<1>12. Counted'
  BY <1>1, <1>4 DEF Counted
<1>13. Accounted'
  <2>1. SUFFICES ASSUME mishaps \cap {"crash", "stale"} = {}, NEW i \in DOMAIN ts
                 PROVE  i \in got \cup told' \/ \E g \in Handles : i \in waiting'[g] \cup inflight'[g]
    BY <1>2, <1>4 DEF Accounted
  <2>2. i \in got \cup told \/ \E g \in Handles : i \in w[g] \cup inflight[g]
    BY <1>1, <1>6, <1>7, <2>1 DEF Accounted
  <2> QED BY <1>9, <2>2 DEF Drained
<1> QED BY <1>10, <1>11, <1>12, <1>13 DEF BridgeInv

LEMMA FinishesFits ==
    ASSUME BridgeInv, NEW h \in Handles, Finishes(h)
    PROVE  BridgeInv'
<1>1. BridgeTypes /\ Lines /\ Counted /\ Accounted
  BY DEF BridgeInv
<1>2. /\ at[h].busy /\ at' = [at EXCEPT ![h].busy = FALSE]
      /\ UNCHANGED <<turns, table, bridge, heard, got>>
  BY DEF Finishes
<1>3. /\ at' \in [Handles -> Works] /\ ~at'[h].busy
      /\ \A g \in Handles : at'[g].busy => at'[g] = at[g]
  BY <1>1, <1>2 DEF BridgeTypes, Works
<1>4. Counted'
  BY <1>1, <1>2, <1>3 DEF Counted
<1>5. CASE ~up
  <2>1. UNCHANGED <<told, waiting, inflight, frames, mishaps>>
    BY <1>5 DEF Finishes
  <2>2. BridgeTypes'
    BY <1>1, <1>2, <1>3, <2>1 DEF BridgeTypes
  <2>3. Lines'
    BY <1>1, <1>2, <1>3, <2>1 DEF Lines
  <2>4. Accounted'
    BY <1>1, <1>2, <2>1 DEF Accounted
  <2> QED BY <1>4, <2>2, <2>3, <2>4 DEF BridgeInv
<1>6. CASE up
  <2>1. PICK r : r = [inflight EXCEPT ![h] = {}]
    OBVIOUS
  <2>2. /\ \E brief \in BOOLEAN : Drain(waiting, r, brief)
        /\ mishaps' = mishaps \cup (IF inflight[h] \in {Own(h), {}} THEN {} ELSE {"stale"})
    BY <1>6, <2>1 DEF Finishes
  <2>3. PICK brief \in BOOLEAN : Drain(waiting, r, brief)
    BY <2>2
  <2>4. /\ r \in [Handles -> SUBSET DOMAIN turns] /\ r[h] = {}
        /\ \A g \in Handles \ {h} : r[g] = inflight[g]
    BY <1>1, <2>1 DEF BridgeTypes
  <2>5. Drained(turns, waiting, r)
    <3>1. PICK ts, w : ts = turns /\ w = waiting
      OBVIOUS
    <3>2. Drainable(turns, waiting, r)
      BY <1>1, <2>4 DEF BridgeTypes, Lines, Drainable
    <3> QED BY <2>3, <3>1, <3>2, DrainFits
  <2>6. BridgeTypes'
    BY <1>1, <1>2, <1>3, <2>5 DEF BridgeTypes, Drained
  <2>7. Lines'
    BY <1>1, <1>2, <1>3, <2>5 DEF Lines, Drained
  <2>8. Accounted'
    <3>1. SUFFICES ASSUME mishaps' \cap {"crash", "stale"} = {}, NEW i \in DOMAIN turns
                   PROVE  i \in got \cup told' \/ \E g \in Handles : i \in waiting'[g] \cup inflight'[g]
      BY <1>2 DEF Accounted
    <3>2. mishaps \cap {"crash", "stale"} = {} /\ inflight[h] \in {Own(h), {}}
      BY <2>2, <3>1
    <3>3. inflight[h] \subseteq got
      BY <1>1, <1>2, <3>2 DEF Counted, Own
    <3>4. i \in got \cup told \/ \E g \in Handles : i \in waiting[g] \cup r[g]
      BY <1>1, <2>4, <3>2, <3>3 DEF Accounted
    <3> QED BY <2>5, <3>4 DEF Drained
  <2> QED BY <1>4, <2>6, <2>7, <2>8 DEF BridgeInv
<1> QED BY <1>5, <1>6

LEMMA ConnectFits ==
    ASSUME BridgeInv, NEW h \in Handles, Connect(h)
    PROVE  BridgeInv'
<1>1. BridgeTypes /\ Lines /\ Counted /\ Accounted
  BY DEF BridgeInv
<1>2. PICK s \in {<<>>, <<Frame("seed", {})>>} : heard' = [heard EXCEPT ![h] = s]
  BY DEF Connect
<1>3. /\ bridge[h] = "off" /\ bridge' = [bridge EXCEPT ![h] = "waiting"]
      /\ UNCHANGED <<turns, waiting, inflight, table, told, frames, at, got, mishaps>>
  BY DEF Connect, room
<1>4. s \in Seq(Items) /\ \A i \in DOMAIN s : s[i].kind = "seed"
  <2>1. Frame("seed", {}) \in Items /\ Frame("seed", {}).kind = "seed"
    BY DEF Frame, Items
  <2>2. CASE s = <<>>
    BY <2>2
  <2>3. CASE s = <<Frame("seed", {})>>
    BY <2>1, <2>3
  <2> QED BY <1>2, <2>2, <2>3
<1>5. /\ heard' \in [Handles -> Seq(Items)] /\ heard'[h] = s
      /\ \A g \in Handles \ {h} : heard'[g] = heard[g] /\ bridge'[g] = bridge[g]
      /\ bridge' \in [Handles -> {"off", "waiting", "live"}] /\ bridge'[h] = "waiting"
  BY <1>1, <1>2, <1>3, <1>4 DEF BridgeTypes
<1>6. ~at[h].busy /\ frames[h] = <<>> /\ table[h] # "open"
  BY <1>1, <1>3 DEF Lines
<1>7. Hears(h, s, frames[h], turns, waiting[h])
  <2>1. Hears(h, heard[h], frames[h], turns, waiting[h])
    BY <1>1 DEF Lines
  <2> QED BY <1>2, <1>6, <2>1, LossFits
<1>8. BridgeTypes'
  BY <1>1, <1>3, <1>5 DEF BridgeTypes
<1>9. Lines'
  BY <1>1, <1>3, <1>5, <1>6, <1>7 DEF Lines
<1>10. Counted'
  <2>1. \A g \in Handles : \A i \in DOMAIN heard'[g] :
          heard'[g][i].kind = "turn" => heard'[g][i].ids \subseteq got
    BY <1>1, <1>4, <1>5 DEF Counted
  <2>2. \A g \in Handles : at[g].busy => g # h
    BY <1>6
  <2> QED BY <1>1, <1>3, <1>5, <2>1, <2>2 DEF Counted
<1>11. Accounted'
  BY <1>1, <1>3 DEF Accounted
<1> QED BY <1>8, <1>9, <1>10, <1>11 DEF BridgeInv

LEMMA OpenFeedFits ==
    ASSUME BridgeInv, NEW h \in Handles, OpenFeed(h)
    PROVE  BridgeInv'
<1>1. BridgeTypes /\ Lines /\ Counted /\ Accounted
  BY DEF BridgeInv
<1>2. /\ UNCHANGED <<turns, waiting, inflight, told, frames, heard, at, got, mishaps>>
      /\ \/ table' = [table EXCEPT ![h] = "open"] /\ bridge' = [bridge EXCEPT ![h] = "live"]
         \/ UNCHANGED table /\ bridge' = [bridge EXCEPT ![h] = "waiting"]
      /\ bridge[h] = "waiting"
  BY DEF OpenFeed, session, Refused
<1>3. BridgeTypes'
  BY <1>1, <1>2 DEF BridgeTypes
<1>4. /\ \A g \in Handles \ {h} : bridge'[g] = bridge[g] /\ table'[g] = table[g]
      /\ bridge'[h] = "live" \/ (bridge'[h] = "waiting" /\ table'[h] = table[h])
  BY <1>1, <1>2 DEF BridgeTypes
<1>5. Lines'
  BY <1>1, <1>2, <1>4 DEF Lines
<1>6. Counted' /\ Accounted'
  BY <1>1, <1>2 DEF Counted, Accounted
<1> QED BY <1>3, <1>5, <1>6 DEF BridgeInv

LEMMA ReadsFits ==
    ASSUME BridgeInv, NEW h \in Handles, Reads(h)
    PROVE  BridgeInv'
<1>1. BridgeTypes /\ Lines /\ Counted /\ Accounted
  BY DEF BridgeInv
<1>2. PICK f, hd, fr : f = Head(frames[h]) /\ hd = heard[h] \o Notified(f) /\ fr = Tail(frames[h])
  OBVIOUS
<1>3. /\ bridge[h] = "live" /\ frames[h] # <<>>
      /\ heard' = [heard EXCEPT ![h] = hd] /\ frames' = [frames EXCEPT ![h] = fr]
      /\ got' = IF f.kind = "turn" THEN got \cup f.ids ELSE got
      /\ UNCHANGED <<turns, waiting, inflight, table, told, bridge, at, mishaps>>
  BY <1>2 DEF Reads, room
<1>4. /\ heard[h] \in Seq(Items) /\ frames[h] \in Seq(Items)
      /\ Hears(h, heard[h], frames[h], turns, waiting[h])
  BY <1>1 DEF BridgeTypes, Lines
<1>5. /\ hd \in Seq(Items) /\ fr \in Seq(Items) /\ Hears(h, hd, fr, turns, waiting[h])
  BY <1>2, <1>3, <1>4, ReadFits
<1>6. f \in Items /\ 1 \in DOMAIN frames[h] /\ f = frames[h][1]
  BY <1>2, <1>3, <1>4, TakenFirst
<1>7. got' \subseteq DOMAIN turns /\ got \subseteq got' /\ (f.kind = "turn" => f.ids \subseteq got')
  BY <1>1, <1>3, <1>4, <1>6 DEF BridgeTypes, Hears, OwnTurns, OwnTurn
<1>8. /\ heard' \in [Handles -> Seq(Items)] /\ frames' \in [Handles -> Seq(Items)]
      /\ heard'[h] = hd /\ frames'[h] = fr
      /\ \A g \in Handles \ {h} : heard'[g] = heard[g] /\ frames'[g] = frames[g]
  BY <1>1, <1>3, <1>5 DEF BridgeTypes
<1>9. BridgeTypes'
  BY <1>1, <1>3, <1>7, <1>8 DEF BridgeTypes
<1>10. Lines'
  BY <1>1, <1>3, <1>5, <1>8 DEF Lines
<1>11. /\ DOMAIN heard[h] \subseteq DOMAIN hd
       /\ \A i \in DOMAIN heard[h] : hd[i] = heard[h][i]
       /\ \A i \in DOMAIN hd : i \in DOMAIN heard[h] \/ hd[i] = f
  <2>1. CASE ~f.text
    <3>1. hd = heard[h]
      BY <1>2, <1>4, <2>1 DEF Notified
    <3> QED BY <3>1
  <2>2. CASE f.text
    <3>1. hd = heard[h] \o <<f>>
      BY <1>2, <2>2 DEF Notified
    <3>2. /\ Len(heard[h]) \in Nat /\ DOMAIN heard[h] = 1..Len(heard[h])
          /\ DOMAIN hd = 1..(Len(heard[h]) + 1) /\ hd[Len(heard[h]) + 1] = f
          /\ \A i \in 1..Len(heard[h]) : hd[i] = heard[h][i]
      BY <1>4, <1>6, <3>1, PutLast
    <3> QED BY <3>2
  <2> QED BY <2>1, <2>2
<1>12. Counted'
  BY <1>1, <1>3, <1>7, <1>8, <1>11 DEF Counted
<1>13. Accounted'
  BY <1>1, <1>3, <1>7 DEF Accounted
<1> QED BY <1>9, <1>10, <1>12, <1>13 DEF BridgeInv

\* The feed of h ends, whatever the room believes of it, and the session perhaps with it.
LEMMA EndFits ==
    ASSUME BridgeInv, NEW h \in Handles, NEW b \in {"off", "waiting"}, NEW s,
           NEW t \in {"none", "cut"}, NEW work \in Works,
           bridge' = [bridge EXCEPT ![h] = b], frames' = [frames EXCEPT ![h] = <<>>],
           table' = [table EXCEPT ![h] = t], heard' = [heard EXCEPT ![h] = s],
           at' = [at EXCEPT ![h] = work],
           \/ b = "waiting" /\ s = heard[h] /\ work = at[h]
           \/ b = "off" /\ s = <<>> /\ ~work.busy,
           UNCHANGED <<turns, waiting, inflight, told, got>>,
           mishaps' \cap {"crash", "stale"} = mishaps \cap {"crash", "stale"}
    PROVE  BridgeInv'
<1>1. BridgeTypes /\ Lines /\ Counted /\ Accounted
  BY DEF BridgeInv
<1>2. s \in Seq(Items)
  <2>1. heard[h] \in Seq(Items) /\ <<>> \in Seq(Items)
    BY <1>1 DEF BridgeTypes
  <2> QED BY <2>1
<1>3. BridgeTypes'
  BY <1>1, <1>2 DEF BridgeTypes
<1>4. /\ \A g \in Handles \ {h} : /\ bridge'[g] = bridge[g] /\ frames'[g] = frames[g]
                                  /\ table'[g] = table[g] /\ heard'[g] = heard[g] /\ at'[g] = at[g]
      /\ bridge'[h] = b /\ frames'[h] = <<>> /\ table'[h] = t /\ heard'[h] = s /\ at'[h] = work
  BY <1>1 DEF BridgeTypes
<1>5. Hears(h, s, <<>>, turns, waiting[h])
  <2>1. Hears(h, heard[h], frames[h], turns, waiting[h])
    BY <1>1 DEF Lines
  <2> QED BY <2>1, LossFits
<1>6. Lines'
  BY <1>1, <1>4, <1>5 DEF Lines
<1>7. Counted'
  <2>1. CASE s = heard[h] /\ work = at[h]
    BY <1>1, <1>4, <2>1 DEF Counted
  <2>2. CASE s = <<>> /\ ~work.busy
    <3>1. DOMAIN s = {}
      BY <2>2
    <3> QED BY <1>1, <1>4, <2>2, <3>1 DEF Counted
  <2> QED BY <2>1, <2>2
<1>8. Accounted'
  BY <1>1 DEF Accounted
<1> QED BY <1>3, <1>6, <1>7, <1>8 DEF BridgeInv

LEMMA LeavesFit ==
    ASSUME BridgeInv, NEW h \in Handles, Notices(h) \/ Drops(h) \/ Exits(h)
    PROVE  BridgeInv'
<1>1. BridgeTypes
  BY DEF BridgeInv
<1>2. table[h] \in {"none", "open", "cut"} /\ at[h] \in Works
  BY <1>1 DEF BridgeTypes
<1>3. /\ table = [table EXCEPT ![h] = table[h]] /\ heard = [heard EXCEPT ![h] = heard[h]]
      /\ at = [at EXCEPT ![h] = at[h]]
  BY <1>1 DEF BridgeTypes
<1>4. CASE Notices(h)
  <2>1. /\ bridge' = [bridge EXCEPT ![h] = "waiting"] /\ frames' = [frames EXCEPT ![h] = <<>>]
        /\ table[h] = "none"
        /\ UNCHANGED <<turns, waiting, inflight, table, told, heard, at, got, mishaps>>
    BY <1>4 DEF Notices, Ended, room, session
  <2>2. /\ table' = [table EXCEPT ![h] = "none"] /\ heard' = [heard EXCEPT ![h] = heard[h]]
        /\ at' = [at EXCEPT ![h] = at[h]]
    BY <1>3, <2>1
  <2> QED BY <1>2, <2>1, <2>2, EndFits
<1>5. CASE Drops(h)
  <2>1. /\ bridge' = [bridge EXCEPT ![h] = "waiting"] /\ frames' = [frames EXCEPT ![h] = <<>>]
        /\ table' = [table EXCEPT ![h] = "cut"] /\ mishaps' = mishaps \cup {"drop"}
        /\ UNCHANGED <<turns, waiting, inflight, told, heard, at, got>>
    BY <1>5 DEF Drops, Ended, Mishap, session
  <2>2. heard' = [heard EXCEPT ![h] = heard[h]] /\ at' = [at EXCEPT ![h] = at[h]]
    BY <1>3, <2>1
  <2>3. mishaps' \cap {"crash", "stale"} = mishaps \cap {"crash", "stale"}
    BY <2>1
  <2> QED BY <1>2, <2>1, <2>2, <2>3, EndFits
<1>6. CASE Exits(h)
  <2>1. PICK t : t = IF table[h] = "open" THEN "cut" ELSE table[h]
    OBVIOUS
  <2>2. t \in {"none", "cut"}
    BY <1>2, <2>1
  <2>3. /\ bridge' = [bridge EXCEPT ![h] = "off"] /\ frames' = [frames EXCEPT ![h] = <<>>]
        /\ table' = [table EXCEPT ![h] = t] /\ mishaps' = mishaps \cup {"exit"}
        /\ heard' = [heard EXCEPT ![h] = <<>>] /\ at' = [at EXCEPT ![h] = Idle]
        /\ UNCHANGED <<turns, waiting, inflight, told, got>>
    BY <1>6, <2>1 DEF Exits, Mishap
  <2>4. Idle \in Works /\ ~Idle.busy
    BY DEF Idle, Works
  <2>5. mishaps' \cap {"crash", "stale"} = mishaps \cap {"crash", "stale"}
    BY <2>3
  <2> QED BY <2>2, <2>3, <2>4, <2>5, EndFits
<1> QED BY <1>4, <1>5, <1>6

LEMMA RetireFits ==
    ASSUME BridgeInv, NEW h \in Handles, Closes(h) \/ ClosesFirst(h)
    PROVE  BridgeInv'
<1>1. BridgeTypes /\ Lines /\ Counted /\ Accounted
  BY DEF BridgeInv
<1>2. /\ table' = [table EXCEPT ![h] = "none"]
      /\ told' = told \cup inflight[h] /\ inflight' = [inflight EXCEPT ![h] = {}]
      /\ UNCHANGED <<turns, waiting, frames, bridge, heard, at, got>>
      /\ mishaps' \in {mishaps, mishaps \cup {"drop"}}
  BY DEF Closes, ClosesFirst, Retire, Mishap, session
<1>3. BridgeTypes'
  BY <1>1, <1>2 DEF BridgeTypes
<1>4. \A g \in Handles : table'[g] \in {table[g], "none"}
  BY <1>1, <1>2 DEF BridgeTypes
<1>5. Lines'
  BY <1>1, <1>2, <1>4 DEF Lines
<1>6. Counted'
  BY <1>1, <1>2 DEF Counted
<1>7. Accounted'
  <2>1. \A g \in Handles : inflight[g] \subseteq inflight'[g] \cup told'
    BY <1>1, <1>2 DEF BridgeTypes
  <2>2. mishaps' \cap {"crash", "stale"} = mishaps \cap {"crash", "stale"}
    BY <1>2
  <2> QED BY <1>1, <1>2, <2>1, <2>2 DEF Accounted
<1> QED BY <1>3, <1>5, <1>6, <1>7 DEF BridgeInv

LEMMA TakesFits ==
    ASSUME BridgeInv, NEW h \in Handles, Takes(h)
    PROVE  BridgeInv'
<1>1. BridgeTypes /\ Lines /\ Counted /\ Accounted
  BY DEF BridgeInv
<1>2. PICK n : n = Min(Unread(h))
  OBVIOUS
<1>3. /\ Unread(h) # {} /\ at' = [at EXCEPT ![h] = [taken |-> n, busy |-> TRUE, said |-> FALSE]]
      /\ UNCHANGED <<turns, waiting, inflight, table, told, frames, bridge, heard, got, mishaps>>
  BY <1>2 DEF Takes, room
<1>4. n \in Nat /\ n \in DOMAIN heard[h] /\ heard[h][n].kind = "turn"
  <2>1. Len(heard[h]) \in Nat /\ DOMAIN heard[h] = 1..Len(heard[h])
    BY <1>1, LenProperties DEF BridgeTypes
  <2>2. Unread(h) \subseteq 1..Len(heard[h])
    BY <2>1 DEF Unread
  <2>3. n \in Unread(h)
    BY <1>2, <1>3, <2>1, <2>2, Bounds
  <2> QED BY <2>1, <2>2, <2>3 DEF Unread
<1>5. /\ at' \in [Handles -> Works]
      /\ at'[h].taken = n /\ at'[h].busy /\ \A g \in Handles \ {h} : at'[g] = at[g]
  BY <1>1, <1>3, <1>4 DEF BridgeTypes, Works
<1>6. bridge[h] # "off"
  <2>1. heard[h] # <<>>
    BY <1>4
  <2> QED BY <1>1, <2>1 DEF Lines
<1>7. BridgeTypes'
  BY <1>1, <1>3, <1>5 DEF BridgeTypes
<1>8. Lines'
  BY <1>1, <1>3, <1>5, <1>6 DEF Lines
<1>9. Counted'
  BY <1>1, <1>3, <1>4, <1>5 DEF Counted
<1>10. Accounted'
  BY <1>1, <1>3 DEF Accounted
<1> QED BY <1>7, <1>8, <1>9, <1>10 DEF BridgeInv

LEMMA RepliesFits ==
    ASSUME BridgeInv, NEW h \in Handles, Replies(h)
    PROVE  BridgeInv'
<1>1. BridgeTypes /\ Lines /\ Counted /\ Accounted
  BY DEF BridgeInv
<1>2. PICK mirror : mirror = Frame("mirror", Own(h))
  OBVIOUS
<1>3. /\ at[h].busy /\ at' = [at EXCEPT ![h].said = TRUE]
      /\ frames' = [g \in Handles |-> IF g # h /\ Online(h) THEN Deliver(g, <<mirror>>)
                                      ELSE frames[g]]
      /\ UNCHANGED <<turns, waiting, inflight, table, told, bridge, heard, got, mishaps>>
  BY <1>2 DEF Replies, room
<1>4. mirror \in Items /\ mirror.kind = "mirror"
  <2>1. at[h].taken \in DOMAIN heard[h] /\ heard[h] \in Seq(Items)
    BY <1>1, <1>3 DEF Counted, BridgeTypes
  <2>2. heard[h][at[h].taken] \in Items
    BY <2>1
  <2>3. Own(h) \subseteq Nat
    BY <2>2 DEF Own, Items
  <2> QED BY <1>2, <2>3 DEF Frame, Items
<1>5. ASSUME NEW g \in Handles
      PROVE  /\ frames'[g] \in Seq(Items) /\ Hears(g, heard[g], frames'[g], turns, waiting[g])
             /\ frames'[g] = frames[g] \/ table[g] = "open"
  <2>1. /\ heard[g] \in Seq(Items) /\ frames[g] \in Seq(Items)
        /\ Hears(g, heard[g], frames[g], turns, waiting[g])
    BY <1>1 DEF BridgeTypes, Lines
  <2>2. frames'[g] = frames[g] \/ (table[g] = "open" /\ frames'[g] = frames[g] \o <<mirror>>)
    BY <1>3 DEF Deliver
  <2>3. /\ Hears(g, heard[g], frames[g] \o <<mirror>>, turns, waiting[g])
        /\ frames[g] \o <<mirror>> \in Seq(Items)
    BY <1>4, <2>1, AsideFits
  <2> QED BY <2>1, <2>2, <2>3
<1>6. /\ at' \in [Handles -> Works]
      /\ \A g \in Handles : at'[g].busy = at[g].busy /\ at'[g].taken = at[g].taken
  BY <1>1, <1>3 DEF BridgeTypes, Works
<1>7. frames' \in [Handles -> Seq(Items)]
  <2>1. frames' = [g \in Handles |-> frames'[g]]
    BY <1>3
  <2> QED BY <1>5, <2>1
<1>8. BridgeTypes'
  BY <1>1, <1>3, <1>6, <1>7 DEF BridgeTypes
<1>9. Lines'
  BY <1>1, <1>3, <1>5, <1>6 DEF Lines
<1>10. Counted'
  BY <1>1, <1>3, <1>6 DEF Counted
<1>11. Accounted'
  BY <1>1, <1>3 DEF Accounted
<1> QED BY <1>8, <1>9, <1>10, <1>11 DEF BridgeInv

LEMMA CrashesFits ==
    ASSUME BridgeInv, Crashes
    PROVE  BridgeInv'
<1>1. BridgeTypes /\ Lines /\ Counted /\ Accounted
  BY DEF BridgeInv
<1>2. /\ waiting' = [h \in Handles |-> {}] /\ inflight' = [h \in Handles |-> {}]
      /\ table' = [h \in Handles |-> "none"] /\ mishaps' = mishaps \cup {"crash"}
      /\ UNCHANGED <<turns, told, frames, bridge, heard, at, got>>
  BY DEF Crashes, Mishap, session
<1>3. BridgeTypes'
  BY <1>1, <1>2 DEF BridgeTypes
<1>4. \A h \in Handles : Hears(h, heard[h], frames[h], turns, {})
  BY <1>1, LossFits DEF Lines
<1>5. Lines'
  BY <1>1, <1>2, <1>4 DEF Lines
<1>6. Counted' /\ Accounted'
  BY <1>1, <1>2 DEF Counted, Accounted
<1> QED BY <1>3, <1>5, <1>6 DEF BridgeInv

LEMMA BridgeStays ==
    ASSUME BridgeInv, UNCHANGED <<turns, waiting, inflight, table, told, frames, bridge, session, mishaps>>
    PROVE  BridgeInv'
<1>1. BridgeTypes'
  BY DEF BridgeInv, BridgeTypes, session
<1>2. Lines'
  BY DEF BridgeInv, Lines, session
<1>3. Counted' /\ Accounted'
  BY DEF BridgeInv, Counted, Accounted, session
<1> QED BY <1>1, <1>2, <1>3 DEF BridgeInv

LEMMA BridgeKeeps == BridgeInv /\ [BridgeNext]_bridgeVars => BridgeInv'
<1> SUFFICES ASSUME BridgeInv, [BridgeNext]_bridgeVars
             PROVE  BridgeInv'
  OBVIOUS
<1>1. ASSUME NEW h \in Handles,
             Submit(h) \/ Connect(h) \/ OpenFeed(h) \/ Reads(h) \/ Finishes(h)
      PROVE  BridgeInv'
  BY <1>1, SubmitFits, ConnectFits, OpenFeedFits, ReadsFits, FinishesFits
<1>2. ASSUME NEW h \in Handles, Notices(h) \/ Drops(h) \/ Exits(h) \/ Closes(h) \/ ClosesFirst(h)
      PROVE  BridgeInv'
  BY <1>2, LeavesFit, RetireFits
<1>3. ASSUME NEW h \in Handles, Takes(h) \/ Replies(h)
      PROVE  BridgeInv'
  BY <1>3, TakesFits, RepliesFits
<1>4. CASE Crashes
  BY <1>4, CrashesFits
<1>5. CASE Boots
  BY <1>5, BridgeStays DEF Boots
<1>6. CASE UNCHANGED bridgeVars
  BY <1>6, BridgeStays DEF bridgeVars, room
<1> QED BY <1>1, <1>2, <1>3, <1>4, <1>5, <1>6 DEF BridgeNext

\* Whatever a session hears and whatever is on its way to it stays in its order, and
\* nothing that was accepted is lost without a word, for any number of seats, messages
\* and mishaps, in any combination.
THEOREM BridgeInductive == BridgeSpec => []BridgeInv
<1>1. BridgeInit => BridgeInv
  BY BridgeStarts
<1>2. BridgeInv /\ [BridgeNext]_bridgeVars => BridgeInv'
  BY BridgeKeeps
<1> QED BY <1>1, <1>2, PTL DEF BridgeSpec

\* A session hears its own turns only, each after its brief, in the order they were
\* accepted and none twice, through any number of reconnections (src/src/fanout.mjs,
\* the feed of src/src/seats.mjs and src/src/seat.mjs).
THEOREM TurnsAreHeardAsSent == BridgeSpec => []HeardAsSent
<1>1. BridgeInv => HeardAsSent
  BY InvariantTells
<1> QED BY <1>1, BridgeInductive, PTL

\* Every message that was accepted is queued, in flight, heard, or its sender was told,
\* while the room lives and sessions end their own turns (src/src/web.mjs: drain,
\* abandonTurn).
THEOREM AcceptedIsHeardOrTold == BridgeSpec => []HeardOrTold
<1>1. BridgeInv => HeardOrTold
  BY InvariantTells
<1> QED BY <1>1, BridgeInductive, PTL
===============================================================================
