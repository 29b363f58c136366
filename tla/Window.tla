------------------------------- MODULE Window -------------------------------
(***************************************************************************)
(* The window of the VS Code extension: its room session and the processes    *)
(* behind it. extension.js starts the room at the first reveal of a view and  *)
(* restarts or closes everything; session.js starts the room, follows its      *)
(* event feed and publishes it by starting it again on a public address behind *)
(* a dev tunnel; supervisor.js keeps one process of each name; local-seat.js   *)
(* writes the seat file; room-view.js and room-webview.js show the room.       *)
(*                                                                         *)
(* All of it is one thread of asynchronous functions. A session, and a         *)
(* gesture of the person, is one such function: "at" is the await it is held   *)
(* in, and a step runs it from one await to the next. Session s has the port   *)
(* s, which no other has, and process p is the p-th that was spawned. Times     *)
(* are left out: what waits ten seconds gives up when what it waits for is      *)
(* gone, or as the upset "slow" while it is still to come.                      *)
(***************************************************************************)
EXTENDS Naturals, Sequences, SequencesExt

CONSTANTS MaxGestures,        \* reveals and commands of the person
          MaxUpsets,          \* kinds of upset in one behaviour
          Upsets              \* what may go wrong

\* "slow": a process is given up on; "crash": one dies on its own; "tool": no
\* dev tunnel or no login; "refuse": the seat file may not be written; "linger": a
\* killed process outlives the wait for its end (a POSIX kill returns at once);
\* "overlap": a command is given while an earlier one is at work.
Kinds == {"slow", "crash", "tool", "refuse", "linger", "overlap"}

ASSUME WindowAssumption ==
    MaxGestures \in Nat /\ MaxUpsets \in Nat /\ Upsets \subseteq Kinds

Names == {"room", "tunnel"}

VARIABLES
    procs,      \* every process spawned, in order
    sup,        \* the supervisor: the process it keeps under each name, or 0
    sessions,   \* every session started, in order
    window,     \* roomSession, roomStarting, and whether the window is open
    ops,        \* the person's commands, in order
    view,       \* what the Room view shows
    seat,       \* the folder's seat: in the roster, and the port its file names
    gestures,   \* bound: gestures so far
    happened    \* history: what went wrong

vars == <<procs, sup, sessions, window, ops, view, seat, gestures, happened>>

Init == /\ procs = <<>> /\ sup = [n \in Names |-> 0]
        /\ sessions = <<>> /\ window = [session |-> 0, starting |-> 0, open |-> TRUE]
        /\ ops = <<>> /\ view = [published |-> FALSE, busy |-> FALSE]
        /\ seat = [seated |-> FALSE, file |-> 0]
        /\ gestures = 0 /\ happened = {}

Note(k)  == happened' = happened \cup {k}
Upset(k) == k \in Upsets /\ Cardinality(happened \cup {k}) <= MaxUpsets /\ Note(k)

Alive(p)   == procs[p].state \in {"starting", "up", "deaf"}
\* What answers on a port: also a process that has been told to die.
Serving(s) == {p \in DOMAIN procs : /\ procs[p].name = "room" /\ procs[p].port = s
                                    /\ procs[p].state \in {"up", "dying"}}
Working    == {o \in DOMAIN ops : ops[o].at # "done"}
Idle       == Working = {} /\ window.starting = 0

----------------------------------------------------------------------------
(* The supervisor. A process is taken out of the table and told to die, and    *)
(* its end awaited, before its successor is spawned.                         *)

Kill(n) == /\ procs' = [p \in DOMAIN procs |->
                          IF p = sup[n] /\ Alive(p) THEN [procs[p] EXCEPT !.state = "dying"]
                          ELSE procs[p]]
           /\ sup' = [sup EXCEPT ![n] = 0]

\* The end of a killed process; on POSIX the wait is over with the signal.
Ended(p) == IF p = 0 \/ procs[p].state # "dying" THEN UNCHANGED happened ELSE Upset("linger")

Fresh(n, port, host) == [name |-> n, port |-> port, host |-> host, state |-> "starting"]

Spawn(n, port, host) == /\ procs' = Append(procs, Fresh(n, port, host))
                        /\ sup' = [sup EXCEPT ![n] = Len(procs) + 1]

\* The process a start must see the end of first.
\* Mutant: what has the name is just replaced.
PredecessorNone(n) == 0
Predecessor(n) == sup[n]

\* Where an await leads: to the end of process p, if there is one, or on.
At(next)                 == [at |-> next, victim |-> 0]
AfterKill(p, kill, next) == IF p = 0 THEN At(next) ELSE [at |-> kill, victim |-> p]

Start(n, port, host) == IF Predecessor(n) = 0 THEN Spawn(n, port, host) ELSE Kill(n)
Stop(n)              == IF sup[n] = 0 THEN UNCHANGED <<procs, sup>> ELSE Kill(n)

----------------------------------------------------------------------------
(* A session's start.                                                      *)

Gesture == window.open /\ gestures < MaxGestures /\ gestures' = gestures + 1

NewSession == [at |-> "pick", victim |-> 0, published |-> FALSE, feed |-> "none", conn |-> 0]

\* Mutant: every view that asks starts a room of its own.
EnsureEach == /\ sessions' = Append(sessions, NewSession)
              /\ window' = [window EXCEPT !.starting = Len(sessions) + 1]
\* The room, started once and shared: a start at work is everybody's start.
EnsureSession ==
    IF window.session # 0 \/ window.starting # 0 THEN UNCHANGED <<sessions, window>>
    ELSE /\ sessions' = Append(sessions, NewSession)
         /\ window' = [window EXCEPT !.starting = Len(sessions) + 1]

\* The session the caller of ensureSession is given or waits for.
Asked == IF window.session # 0 THEN window.session
         ELSE IF window.starting # 0 THEN window.starting ELSE Len(sessions) + 1

SessionGoto(s, c) == sessions' = [sessions EXCEPT ![s].at = c.at, ![s].victim = c.victim]

Pick(s) ==
    /\ sessions[s].at = "pick"
    /\ Start("room", s, "local") /\ SessionGoto(s, AfterKill(Predecessor("room"), "kill", "boot"))
    /\ UNCHANGED <<window, ops, view, seat, gestures, happened>>

PickKilled(s) ==
    /\ sessions[s].at = "kill" /\ Ended(sessions[s].victim)
    /\ Spawn("room", s, "local") /\ SessionGoto(s, At("boot"))
    /\ UNCHANGED <<window, ops, view, seat, gestures>>

\* Listening, with the owner's token on disk: the feed starts.
Booted(s) ==
    /\ sessions[s].at = "boot" /\ Serving(s) # {}
    /\ sessions' = [sessions EXCEPT ![s].at = "seat", ![s].feed = "on"]
    /\ UNCHANGED <<procs, sup, window, ops, view, seat, gestures, happened>>

\* Ten seconds are over: for a room that is not coming, or is only slow.
Late(s) == IF Serving(s) # {} THEN FALSE
           ELSE IF sup["room"] # 0 /\ procs[sup["room"]].state = "starting"
                THEN Upset("slow") ELSE UNCHANGED happened

GiveUp(s) ==
    /\ sessions[s].at = "boot" /\ Late(s)
    /\ Stop("room") /\ SessionGoto(s, AfterKill(sup["room"], "stop", "failed"))
    /\ window' = IF sup["room"] # 0 THEN window ELSE [window EXCEPT !.starting = 0]
    /\ UNCHANGED <<ops, view, seat, gestures>>

GaveUp(s) ==
    /\ sessions[s].at = "stop" /\ Ended(sessions[s].victim)
    /\ SessionGoto(s, At("failed")) /\ window' = [window EXCEPT !.starting = 0]
    /\ UNCHANGED <<procs, sup, ops, view, seat, gestures>>

\* ensureLocalSeat: with the seat in the roster the file is written at once, and
\* otherwise once the room has added it. Whatever fails is only logged.
\* Mutant: a seat that is in the roster already is left as it is.
FileOnlyWhenNew(s) == seat
FileFor(s) == [seat EXCEPT !.file = s]
EnsureSeat(s, adding) ==
    \/ /\ Serving(s) # {} /\ seat.seated /\ ~adding
       /\ seat' = FileFor(s) /\ UNCHANGED happened
    \/ /\ Serving(s) # {} /\ ~seat.seated /\ adding /\ UNCHANGED <<seat, happened>>
    \/ /\ Serving(s) # {} /\ ~adding /\ Upset("refuse")   \* the file is tracked by git
       /\ UNCHANGED seat
    \/ /\ Serving(s) = {} /\ ~adding                      \* no roster to be had
       /\ UNCHANGED <<seat, happened>>

\* The room refuses a handle that is taken, and a room that is down answers nothing.
AddSeat(s) == seat' = IF Serving(s) = {} \/ seat.seated THEN seat
                      ELSE [seated |-> TRUE, file |-> s]

\* Started: the session is the window's, and the Room view is told of it.
Ready(s, a) ==
    /\ sessions' = [sessions EXCEPT ![s].at = a]
    /\ IF a # "ready" THEN UNCHANGED <<window, view>>
       ELSE /\ window' = [window EXCEPT !.session = s, !.starting = 0]
            /\ view' = [view EXCEPT !.published = sessions[s].published]

Seat(s) ==
    /\ sessions[s].at = "seat"
    /\ \E adding \in BOOLEAN :
         EnsureSeat(s, adding) /\ Ready(s, IF adding THEN "add" ELSE "ready")
    /\ UNCHANGED <<procs, sup, ops, gestures>>

Added(s) ==
    /\ sessions[s].at = "add" /\ AddSeat(s) /\ Ready(s, "ready")
    /\ UNCHANGED <<procs, sup, ops, gestures, happened>>

StartStep(s) == \/ Pick(s) \/ PickKilled(s) \/ Booted(s) \/ GiveUp(s) \/ GaveUp(s)
                \/ Seat(s) \/ Added(s)

----------------------------------------------------------------------------
(* The event feed: one subscription, that tries again until it is stopped.    *)

Connect(s) ==
    /\ sessions[s].feed = "on" /\ sessions[s].conn = 0
    /\ \E p \in Serving(s) :
         procs[p].state = "up" /\ sessions' = [sessions EXCEPT ![s].conn = p]
    /\ UNCHANGED <<procs, sup, window, ops, view, seat, gestures, happened>>

\* Mutant: a dropped feed is not tried again.
DroppedStops(f, p) == IF f.conn = p THEN [f EXCEPT !.conn = 0, !.feed = "stopped"] ELSE f
Dropped(f, p) == IF f.conn = p THEN [f EXCEPT !.conn = 0] ELSE f

Unsubscribed(f) == IF f.feed = "on" THEN [f EXCEPT !.feed = "stopped", !.conn = 0] ELSE f

\* stop of the window's session.
StopFeed(ss) == IF window.session = 0 THEN ss
                ELSE [ss EXCEPT ![window.session] = Unsubscribed(@)]

----------------------------------------------------------------------------
(* Publishing, and the end of it.                                           *)

\* One overlap in a behaviour is enough to be followed to its end.
Overlap == "overlap" \notin happened /\ Upset("overlap")

Reveal ==
    /\ Gesture /\ EnsureSession
    /\ view' = IF window.session = 0 THEN view
               ELSE [view EXCEPT !.published = sessions[window.session].published]
    /\ IF Asked > Len(sessions) /\ Working # {} THEN Overlap ELSE UNCHANGED happened
    /\ UNCHANGED <<procs, sup, ops, seat>>

NewOp(kind, s) == [kind |-> kind, session |-> s, at |-> "ensure", victim |-> 0, names |-> <<>>]

\* The button asks for the opposite of what is shown. A second click reaches the
\* host before the button is disabled.
ClickPublish ==
    /\ Gesture /\ EnsureSession /\ (view.busy => Working # {}) 
    /\ IF Working # {} THEN Overlap ELSE UNCHANGED happened
    /\ ops' = Append(ops, NewOp(IF view.published THEN "unshare" ELSE "share", Asked))
    /\ UNCHANGED <<procs, sup, view, seat>>

Goto(o, c) == ops' = [ops EXCEPT ![o].at = c.at, ![o].victim = c.victim]

\* The last thing a republish does: the view is told how things are.
Finish(o) ==
    view' = [published |-> sessions'[ops[o].session].published, busy |-> FALSE]

ShareOp(o, at) == ops[o].kind \in {"share", "unshare"} /\ ops[o].at = at
Sharing(o)     == ops[o].kind = "share"
Port(o)        == ops[o].session

Republish(o) ==
    /\ ShareOp(o, "ensure") /\ sessions[Port(o)].at = "ready"
    /\ IF Sharing(o)
       THEN \/ /\ Goto(o, At("login"))
               /\ view' = [published |-> sessions[Port(o)].published, busy |-> TRUE]
               /\ UNCHANGED <<procs, sup, sessions, happened>>
            \/ /\ Upset("tool") /\ Goto(o, At("done")) /\ UNCHANGED <<procs, sup, sessions>>
               /\ Finish(o)
       ELSE /\ Stop("tunnel") /\ Goto(o, AfterKill(sup["tunnel"], "untunnel", "room"))
            /\ view' = [published |-> sessions[Port(o)].published, busy |-> TRUE]
            /\ UNCHANGED <<sessions, happened>>
    /\ UNCHANGED <<window, seat, gestures>>

\* The session that was waited for did not start: there is nothing to publish.
NoSession(o) ==
    /\ ops[o].at = "ensure" /\ sessions[Port(o)].at = "failed"
    /\ Goto(o, At("done"))
    /\ UNCHANGED <<procs, sup, sessions, window, view, seat, gestures, happened>>

Login(o) ==
    /\ ShareOp(o, "login")
    /\ \/ /\ Start("tunnel", Port(o), "public")
          /\ Goto(o, AfterKill(Predecessor("tunnel"), "retunnel", "url"))
          /\ UNCHANGED <<sessions, view, happened>>
       \/ /\ Upset("tool") /\ Goto(o, At("done")) /\ UNCHANGED <<procs, sup, sessions>>
          /\ Finish(o)
    /\ UNCHANGED <<window, seat, gestures>>

TunnelKilled(o) ==
    /\ ShareOp(o, "retunnel") /\ Ended(ops[o].victim)
    /\ Spawn("tunnel", Port(o), "public") /\ Goto(o, At("url"))
    /\ UNCHANGED <<sessions, window, view, seat, gestures>>

StartRoom(o) == /\ Start("room", Port(o), IF Sharing(o) THEN "public" ELSE "local")
                /\ Goto(o, AfterKill(Predecessor("room"), "reroom", "up"))

\* The tunnel has printed its URL: the room starts again, on every address.
HasUrl(o) ==
    /\ ShareOp(o, "url") /\ sup["tunnel"] # 0 /\ procs[sup["tunnel"]].state = "up"
    /\ StartRoom(o)
    /\ UNCHANGED <<sessions, window, view, seat, gestures, happened>>

NoUrl(o) ==
    /\ ShareOp(o, "url")
    /\ IF sup["tunnel"] = 0 THEN UNCHANGED happened
       ELSE IF procs[sup["tunnel"]].state = "starting" THEN Upset("slow")
       ELSE procs[sup["tunnel"]].state # "up" /\ UNCHANGED happened
    /\ Stop("tunnel") /\ Goto(o, AfterKill(sup["tunnel"], "nourl", "nourl"))
    /\ UNCHANGED <<sessions, window, view, seat, gestures>>

NoUrlStopped(o) ==
    /\ ShareOp(o, "nourl") /\ Ended(ops[o].victim)
    /\ UNCHANGED sessions /\ Goto(o, At("done")) /\ Finish(o)
    /\ UNCHANGED <<procs, sup, window, seat, gestures>>

\* Stop sharing: with the tunnel stopped, the room starts again on loopback.
Untunneled(o) ==
    /\ \/ ShareOp(o, "untunnel") /\ Ended(ops[o].victim)
       \/ ShareOp(o, "room") /\ UNCHANGED happened
    /\ StartRoom(o)
    /\ UNCHANGED <<sessions, window, view, seat, gestures>>

RoomKilled(o) ==
    /\ ShareOp(o, "reroom") /\ Ended(ops[o].victim)
    /\ Spawn("room", Port(o), IF Sharing(o) THEN "public" ELSE "local") /\ Goto(o, At("up"))
    /\ UNCHANGED <<sessions, window, view, seat, gestures>>

RoomUp(o) ==
    /\ ShareOp(o, "up") /\ Serving(Port(o)) # {}
    /\ sessions' = [sessions EXCEPT ![Port(o)].published = Sharing(o)]
    /\ Goto(o, At("seat"))
    /\ UNCHANGED <<procs, sup, window, view, seat, gestures, happened>>

\* The room did not come back: a tunnel to it is of no use.
\* Mutant: the tunnel is left, as after a publish that went well.
NotUpKeepsTunnel(o) == UNCHANGED <<procs, sup>> /\ Goto(o, At("notup"))
NotUpStops(o) == IF Sharing(o)
                 THEN Stop("tunnel") /\ Goto(o, AfterKill(sup["tunnel"], "notup", "notup"))
                 ELSE UNCHANGED <<procs, sup>> /\ Goto(o, At("notup"))
RoomNotUp(o) ==
    /\ ShareOp(o, "up") /\ Late(Port(o)) /\ NotUpStops(o)
    /\ UNCHANGED <<sessions, window, view, seat, gestures>>

Failed(o) ==
    /\ ShareOp(o, "notup") /\ Ended(ops[o].victim)
    /\ sessions' = [sessions EXCEPT ![Port(o)].published = FALSE]
    /\ Goto(o, At("done")) /\ Finish(o)
    /\ UNCHANGED <<procs, sup, window, seat, gestures>>

Reseat(o, a) == /\ UNCHANGED sessions /\ Goto(o, At(a))
                /\ IF a = "done" THEN Finish(o) ELSE UNCHANGED view

SeatAgain(o) ==
    /\ ShareOp(o, "seat")
    /\ \E adding \in BOOLEAN :
         EnsureSeat(Port(o), adding) /\ Reseat(o, IF adding THEN "add" ELSE "done")
    /\ UNCHANGED <<procs, sup, window, gestures>>

AddedAgain(o) ==
    /\ ShareOp(o, "add") /\ AddSeat(Port(o)) /\ Reseat(o, "done")
    /\ UNCHANGED <<procs, sup, window, gestures, happened>>

ShareStep(o) == \/ Republish(o) \/ NoSession(o) \/ Login(o) \/ TunnelKilled(o)
                \/ HasUrl(o) \/ NoUrl(o) \/ NoUrlStopped(o) \/ Untunneled(o)
                \/ RoomKilled(o) \/ RoomUp(o) \/ RoomNotUp(o) \/ Failed(o)
                \/ SeatAgain(o) \/ AddedAgain(o)

----------------------------------------------------------------------------
(* Restart Services, and the window's end: everything is stopped one process    *)
(* after the other, the last started first.                                 *)

Running(n) == IF sup[n] = 0 THEN <<>> ELSE <<n>>
ByOrder    == IF sup["room"] > sup["tunnel"] THEN Running("room") \o Running("tunnel")
                                             ELSE Running("tunnel") \o Running("room")

StopAll(kind) ==
    /\ Gesture
    /\ IF Idle THEN UNCHANGED happened ELSE Overlap
    /\ sessions' = StopFeed(sessions)
    /\ window' = [window EXCEPT !.session = 0]
    /\ ops' = Append(ops, [NewOp(kind, 0) EXCEPT !.at = "stopping", !.names = ByOrder])
    /\ UNCHANGED <<procs, sup, view, seat>>

Restart    == StopAll("restart")
Deactivate == StopAll("close")

StopNext(o) ==
    /\ ops[o].at = "stopping" /\ ops[o].names # <<>>
    /\ Kill(Head(ops[o].names))
    /\ ops' = [ops EXCEPT ![o].at = "stopped", ![o].victim = sup[Head(ops[o].names)]]
    /\ UNCHANGED <<sessions, window, view, seat, gestures, happened>>

StopNextEnded(o) ==
    /\ ops[o].at = "stopped" /\ Ended(ops[o].victim)
    /\ ops' = [ops EXCEPT ![o].at = "stopping", ![o].victim = 0, ![o].names = Tail(@)]
    /\ UNCHANGED <<procs, sup, sessions, window, view, seat, gestures>>

RestartEnsures(o) ==
    /\ ops[o].kind = "restart" /\ ops[o].at = "stopping" /\ ops[o].names = <<>>
    /\ EnsureSession /\ ops' = [ops EXCEPT ![o].at = "ensure", ![o].session = Asked]
    /\ UNCHANGED <<procs, sup, view, seat, gestures, happened>>

Restarted(o) ==
    /\ ops[o].kind = "restart" /\ ops[o].at = "ensure" /\ sessions[Port(o)].at = "ready"
    /\ Goto(o, At("done"))
    /\ UNCHANGED <<procs, sup, sessions, window, view, seat, gestures, happened>>

\* Deactivated: the extension host is gone, with every function in it.
Closed(o) ==
    /\ ops[o].kind = "close" /\ ops[o].at = "stopping" /\ ops[o].names = <<>>
    /\ ops' = [p \in DOMAIN ops |-> [ops[p] EXCEPT !.at = "done"]]
    /\ window' = [session |-> 0, starting |-> 0, open |-> FALSE]
    /\ sessions' = [s \in DOMAIN sessions |-> Unsubscribed(sessions[s])]
    /\ UNCHANGED <<procs, sup, view, seat, gestures, happened>>

StopStep(o) == \/ StopNext(o) \/ StopNextEnded(o) \/ RestartEnsures(o) \/ Restarted(o)
               \/ Closed(o)

----------------------------------------------------------------------------
(* The processes.                                                          *)

\* A room listens when nothing holds its port (or is deaf), a tunnel prints its URL.
Up(p) ==
    /\ procs[p].state = "starting"
    /\ procs' = [procs EXCEPT ![p].state =
                   IF procs[p].name = "room" /\ Serving(procs[p].port) # {} THEN "deaf" ELSE "up"]
    /\ UNCHANGED <<sup, sessions, window, ops, view, seat, gestures, happened>>

Die(p) ==
    /\ procs[p].state = "dying"
    /\ procs' = [procs EXCEPT ![p].state = "gone"]
    /\ sessions' = [s \in DOMAIN sessions |-> Dropped(sessions[s], p)]
    /\ UNCHANGED <<sup, window, ops, view, seat, gestures, happened>>

\* An exit nobody asked for; a room's stops the session's feed.
Crash(p) ==
    /\ Alive(p) /\ Upset("crash")
    /\ procs' = [procs EXCEPT ![p].state = "gone"]
    /\ LET ss == [s \in DOMAIN sessions |-> Dropped(sessions[s], p)]
       IN  sessions' = IF procs[p].name = "room" /\ window.open THEN StopFeed(ss) ELSE ss
    /\ UNCHANGED <<sup, window, ops, view, seat, gestures>>

----------------------------------------------------------------------------

HostStep ==
    /\ window.open
    /\ \/ \E s \in DOMAIN sessions : StartStep(s) \/ Connect(s)
       \/ \E o \in DOMAIN ops : ShareStep(o) \/ StopStep(o)

Person == Reveal \/ ClickPublish \/ Restart \/ Deactivate

Next == HostStep \/ Person \/ \E p \in DOMAIN procs : Up(p) \/ Die(p) \/ Crash(p)

Spec == Init /\ [][Next]_vars

----------------------------------------------------------------------------
(* Properties.                                                             *)

Calm(ks) == happened \cap ks = {}

\* With nothing at work, the session every view works with has its room, supervised
\* and on its own port, and the seat file by which Claude Code in the folder joins
\* names it (unless it could not be written): both views ask for the room at once,
\* a start that fails stops what it started, a restart takes another port.
SessionHasRoom ==
    Idle /\ window.session # 0 /\ Calm({"overlap", "crash", "slow", "linger"}) =>
        /\ sup["room"] \in Serving(window.session) /\ Alive(sup["room"])
        /\ seat = [seated |-> TRUE, file |-> window.session] \/ "refuse" \in happened

\* With nothing at work, no process runs that the supervisor cannot stop, so a
\* closed window leaves neither a room nor a tunnel behind.
NoOrphans ==
    Idle /\ Calm({"overlap"}) =>
        \A p \in DOMAIN procs : Alive(p) => window.open /\ sup[procs[p].name] = p

\* With nothing at work the view tells whether the room is shared: "published"
\* only with a tunnel up and a room on every address, "local only" with no tunnel.
SharingIsTold ==
    Idle /\ window.session # 0 /\ Calm({"overlap", "crash", "linger"}) =>
        /\ view.published = sessions[window.session].published
        /\ IF view.published
           THEN /\ procs[sup["tunnel"]].state = "up"
                /\ \E p \in Serving(window.session) : p = sup["room"] /\ procs[p].host = "public"
           ELSE \A p \in DOMAIN procs : procs[p].name = "tunnel" => ~Alive(p)

\* The feed of the session finds the room again after every rebind.
FeedFollows ==
    \A s \in 1..2 :
       (window.session = s /\ Calm({"crash", "overlap"})) ~>
           \/ window.session # s \/ ~Calm({"crash", "overlap"})
           \/ sessions[s].conn # 0 /\ procs[sessions[s].conn].state = "up"
           \/ \A p \in Serving(s) : procs[p].state # "up"

\* The extension host and the operating system go on; the person need not.
FairSpec == /\ Spec /\ WF_vars(HostStep)
            /\ WF_vars(\E p \in DOMAIN procs : Up(p) \/ Die(p))
=============================================================================
