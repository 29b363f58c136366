-------------------------------- MODULE Fleet --------------------------------
(***************************************************************************)
(* The workers of a room and the sidebar that shows them. In the room: the    *)
(* roster and its administration (src/src/identity.mjs, admin.mjs), the fleet  *)
(* that mints a seat and launches it (workers.mjs), the supervisor of the       *)
(* processes (supervisor.mjs), and as much of the seats and delegations as the *)
(* sidebar hears of. In the window: the pool (src/extension/src/workers.js)     *)
(* that asks the room over HTTP and follows its event feed, and the Add button *)
(* of the view (chat/workers-webview.js).                                    *)
(*                                                                         *)
(* The handle and the name worker-i are the number i. The room serves one call *)
(* at a time; processes, closed connections, the feed's frames and the answers  *)
(* to the pool's calls are each as late as they like, frames in their order.   *)
(***************************************************************************)
EXTENDS Naturals, Sequences, SequencesExt

CONSTANTS MaxMembers,         \* members ever made
          MaxActs,            \* commands, calls of the pool and delegations
          MaxUpsets,          \* kinds of upset in one behaviour
          Upsets              \* what may go wrong

\* "exit": a worker dies on its own; "drop": the feed is cut; "rebind": the room
\* is stopped and starts again; "crash": it dies; "admin": a command is about a worker
\* or the window's own member; "foreign": somebody else spawns or stops a worker;
\* "norepo": no folder or no repository to work in; "nosession": the window has no
\* session and starts none.
Kinds == {"exit", "drop", "rebind", "crash", "admin", "foreign", "norepo", "nosession"}

ASSUME FleetAssumption ==
    /\ MaxMembers \in Nat \ {0} /\ MaxActs \in Nat /\ MaxUpsets \in Nat
    /\ Upsets \subseteq Kinds

Handles == 1..MaxMembers
Ana     == MaxMembers + 1     \* a name that is no worker's
Nobody  == [member |-> 0, proc |-> 0, ending |-> FALSE]

VARIABLES
    who,        \* every member ever made, in order
    members,    \* the registry: who of them is in the room
    bans,       \* banned names
    fleet,      \* the fleet's own workers
    procs,      \* every worker process, in order
    sup,        \* the supervisor: the process under each handle's name, or 0
    seats,      \* the seat that holds each handle
    work,       \* delegations out: whose, and whether they are being verified
    up,         \* the room runs
    feed,       \* the extension's subscription: whether it is open, its frames
    pool,       \* the pool's row of each handle
    calls,      \* calls of the pool under way
    adding,     \* the Add button is disabled
    acts,       \* bound: commands, calls and delegations so far
    happened    \* history: what went wrong; "late" when a frame overtook the answer to
                \* its spawn or outlived its worker, the end of a delegation
                \* overlapped with the next, or two answers about a handle crossed

room == <<who, members, bans, fleet, procs, sup, seats, work, up>>
vars == <<room, feed, pool, calls, adding, acts, happened>>

Owner == [name |-> 0, kind |-> "person", role |-> "owner", handle |-> 0, worker |-> FALSE,
          token |-> 1]

Init == /\ who = <<Owner>> /\ members = {1} /\ bans = {}
        /\ fleet = {} /\ procs = <<>> /\ sup = [h \in Handles |-> 0]
        /\ seats = [h \in Handles |-> Nobody] /\ work = {} /\ up = TRUE
        /\ feed = [open |-> TRUE, frames |-> <<>>]
        /\ pool = [h \in Handles |-> "none"] /\ calls = <<>> /\ adding = FALSE
        /\ acts = 0 /\ happened = {}

Note(k)  == happened' = happened \cup {k}
Upset(k) == k \in Upsets /\ Cardinality(happened \cup {k}) <= MaxUpsets /\ Note(k)

Spend == acts < MaxActs /\ acts' = acts + 1

\* The bus, as the extension's subscription hears it: what is not open is not told.
\* The fleet's own 'worker' events are left out, as the pool has no case for them.
Frame(event, h, m) == [event |-> event, handle |-> h, member |-> m]
Heard(frames) == feed' = IF feed.open THEN [feed EXCEPT !.frames = @ \o frames] ELSE feed

----------------------------------------------------------------------------
(* The roster.                                                             *)

Agents      == {m \in members : who[m].kind = "agent"}
Owners      == {m \in members : who[m].role = "owner"}
TakenNames  == {who[m].name : m \in members}
TakenAgents == {who[m].handle : m \in Agents}
MayGo(m)    == who[m].role = "owner" => Cardinality(Owners) > 1
Banned(m)   == who[m].name \in bans

\* The window's calls and its feed are those of the first member.
Known     == up /\ 1 \in members /\ who[1].token = 1 /\ ~Banned(1)
Entitled  == Known /\ who[1].role = "owner"
CutOff(m) == feed' = IF m = 1 THEN [open |-> FALSE, frames |-> feed.frames] ELSE feed

\* The feed of a member's seat is ended; its close handler runs later.
Evict(ms) == seats' = [h \in Handles |-> IF seats[h].member \in ms
                                         THEN [seats[h] EXCEPT !.ending = TRUE] ELSE seats[h]]

AddMember(m) == who' = Append(who, m) /\ members' = members \cup {Len(who) + 1}
Fits         == Len(who) < MaxMembers

Admin(ms) == /\ up /\ Spend
             /\ IF \E m \in ms : who[m].worker \/ m = 1
                THEN Upset("admin") ELSE UNCHANGED happened

Invite(n, role) ==
    /\ Admin({}) /\ Fits /\ n \notin TakenNames /\ n \notin bans
    /\ AddMember([Owner EXCEPT !.name = n, !.role = role])
    /\ UNCHANGED <<bans, fleet, procs, sup, seats, work, up, feed, pool, calls, adding>>

InviteAgent(n, h) ==
    /\ Admin({}) /\ Fits /\ n \notin TakenNames /\ n \notin bans /\ h \notin TakenAgents
    /\ AddMember([Owner EXCEPT !.name = n, !.kind = "agent", !.role = "member", !.handle = h])
    /\ UNCHANGED <<bans, fleet, procs, sup, seats, work, up, feed, pool, calls, adding>>

RemoveMember(m) ==
    /\ Admin({m}) /\ MayGo(m)
    /\ members' = members \ {m} /\ Evict({m}) /\ CutOff(m)
    /\ UNCHANGED <<who, bans, fleet, procs, sup, work, up, pool, calls, adding>>

Ban(m) ==
    /\ Admin({m}) /\ MayGo(m)
    /\ bans' = bans \cup {who[m].name}
    /\ members' = members \ {m} /\ Evict({m}) /\ CutOff(m)
    /\ UNCHANGED <<who, fleet, procs, sup, work, up, pool, calls, adding>>

Unban(n) ==
    /\ Admin({}) /\ n \in bans /\ bans' = bans \ {n}
    /\ UNCHANGED <<who, members, fleet, procs, sup, seats, work, up, feed, pool, calls, adding>>

Role(m, r) ==
    /\ Admin({m}) /\ (r = "owner" \/ MayGo(m))
    /\ who' = [who EXCEPT ![m].role = r]
    /\ UNCHANGED <<members, bans, fleet, procs, sup, seats, work, up, feed, pool, calls, adding>>

Rename(m, n) ==
    /\ Admin({m}) /\ n \notin TakenNames
    /\ who' = [who EXCEPT ![m].name = n]
    /\ UNCHANGED <<members, bans, fleet, procs, sup, seats, work, up, feed, pool, calls, adding>>

\* A new token: what is connected with the old one is cut off.
Rotate(m) ==
    /\ Admin({m})
    /\ who' = [who EXCEPT ![m].token = @ + 1] /\ Evict({m}) /\ CutOff(m)
    /\ UNCHANGED <<members, bans, fleet, procs, sup, work, up, pool, calls, adding>>

Administer ==
    \/ \E n \in {1, Ana}, r \in {"owner", "member"} : Invite(n, r)
    \/ \E n, h \in {1, Ana} : h # Ana /\ InviteAgent(n, h)
    \/ \E m \in members : \/ RemoveMember(m) \/ Ban(m) \/ Rotate(m)
                          \/ \E r \in {"owner", "member"} : Role(m, r)
                          \/ \E n \in {1, Ana} : Rename(m, n)
    \/ \E n \in bans : Unban(n)

----------------------------------------------------------------------------
(* The fleet.                                                              *)

WorkerOf(h) == {w \in fleet : w.handle = h}
Alive(p)    == procs[p].state \in {"booting", "joined"}

\* Mutant: only the fleet's own workers are looked at.
TakenHandlesOwn == {w.handle : w \in fleet}
TakenHandles == {w.handle : w \in fleet} \cup TakenAgents \cup TakenNames

\* The lowest free one: a stopped worker's handle comes back.
NextHandle == CHOOSE h \in Handles \ TakenHandles :
                  \A g \in Handles \ TakenHandles : h <= g

\* Mint a seat and launch it; the answer is the handle.
SpawnWorker ==
    LET h == NextHandle
        m == Len(who) + 1
        p == Len(procs) + 1
    IN  /\ Owners # {} /\ Fits /\ Handles \ TakenHandles # {}
        /\ AddMember([name |-> h, kind |-> "agent", role |-> "member", handle |-> h,
                      worker |-> TRUE, token |-> 1])
        /\ procs' = Append(procs, [handle |-> h, member |-> m, state |-> "booting"])
        /\ sup' = [sup EXCEPT ![h] = p]
        /\ fleet' = fleet \cup {[handle |-> h, member |-> m, proc |-> p, state |-> "starting"]}
        /\ UNCHANGED <<bans, seats, work, up, feed>>

\* A worker's member goes with its process.
\* Mutant: the seat is left on the roster.
LeftBehind(ms) == members
WithoutSeats(ms) == members \ ms

Stop(ws) ==
    LET hs == {w.handle : w \in ws}
        ms == {w.member : w \in ws}
    IN  /\ procs' = [p \in DOMAIN procs |->
                       IF procs[p].handle \in hs /\ sup[procs[p].handle] = p /\ Alive(p)
                       THEN [procs[p] EXCEPT !.state = "dying"] ELSE procs[p]]
        /\ sup' = [h \in Handles |-> IF h \in hs THEN 0 ELSE sup[h]]
        /\ fleet' = fleet \ ws
        /\ members' = WithoutSeats(ms)

StopWorker(h) ==
    /\ WorkerOf(h) # {} /\ Stop(WorkerOf(h))
    /\ Evict({w.member : w \in WorkerOf(h)})
    /\ UNCHANGED <<who, bans, work, up, feed>>

\* The orchestrator's tools, or another owner's calls: the pool is not asked.
Foreign ==
    /\ up /\ Spend /\ Upset("foreign")
    /\ SpawnWorker \/ \E h \in Handles : StopWorker(h)
    /\ UNCHANGED <<pool, calls, adding>>

----------------------------------------------------------------------------
(* The processes and their seats.                                           *)

Joins(p) ==
    LET h == procs[p].handle
        m == procs[p].member
    IN  /\ up /\ procs[p].state = "booting" /\ seats[h] = Nobody
        /\ m \in members /\ who[m].token = 1 /\ ~Banned(m)
        /\ procs' = [procs EXCEPT ![p].state = "joined"]
        /\ seats' = [seats EXCEPT ![h] = [member |-> m, proc |-> p, ending |-> FALSE]]
        /\ Heard(<<Frame("seat-online", h, m)>>)
        /\ UNCHANGED <<who, members, bans, fleet, sup, work, up, pool, calls, adding, acts, happened>>

\* The close handler of a seat's feed: the seat is retired and its work abandoned.
\* An evicted worker stays, and goes on trying.
Closes(h) ==
    /\ up /\ seats[h].ending
    /\ seats' = [seats EXCEPT ![h] = Nobody]
    /\ work' = {IF d.handle = h /\ d.stage = "out" THEN [d EXCEPT !.stage = "abandoned"] ELSE d :
                 d \in work}
    /\ procs' = [procs EXCEPT ![seats[h].proc].state = IF @ = "joined" THEN "booting" ELSE @]
    /\ UNCHANGED <<who, members, bans, fleet, sup, up, feed, pool, calls, adding, acts, happened>>

\* A worker that outlived the room it was launched by: no supervisor has it.
Stray(p) == Alive(p) /\ sup[procs[p].handle] # p

\* The supervisor's exit event finds the worker by its name. A stop that was asked
\* for is not an exit.
Reported(p) == procs[p].state # "dying" /\ ~Stray(p)

Exited(p) == IF Reported(p)
             THEN {[w EXCEPT !.state = IF w.handle = procs[p].handle THEN "exited" ELSE @] : w \in fleet}
             ELSE fleet

Ends(p) ==
    /\ \/ (procs[p].state = "dying" \/ Stray(p)) /\ UNCHANGED happened
       \/ Alive(p) /\ up /\ Upset("exit")
    /\ procs' = [procs EXCEPT ![p].state = "gone"]
    /\ fleet' = Exited(p)
    /\ seats' = [h \in Handles |-> IF seats[h].proc = p
                                   THEN [seats[h] EXCEPT !.ending = TRUE] ELSE seats[h]]
    /\ UNCHANGED <<who, members, bans, sup, work, up, feed, pool, calls, adding, acts>>

\* Work for a seat that is online; behind other work it waits.
Delegate(h) ==
    /\ up /\ seats[h] # Nobody /\ Spend
    /\ work' = work \cup {[id |-> acts, handle |-> h, member |-> seats[h].member, stage |-> "out"]}
    /\ Heard(<<Frame("sent", h, seats[h].member)>>)
    /\ UNCHANGED <<who, members, bans, fleet, procs, sup, seats, up, pool, calls, adding, happened>>

\* The first of them is worked on, and its reply is in; its tests may outlast the
\* worker.
Reply(d) ==
    /\ up /\ d.stage = "out" /\ seats[d.handle].member = d.member /\ ~seats[d.handle].ending
    /\ \A e \in work : e.handle = d.handle /\ e.stage = "out" => d.id <= e.id
    /\ work' = (work \ {d}) \cup {[d EXCEPT !.stage = "done"]}
    /\ Heard(<<Frame("activity", d.handle, d.member)>>)
    /\ UNCHANGED <<who, members, bans, fleet, procs, sup, seats, up, pool, calls, adding, acts,
                   happened>>

\* The end of a delegation is told once its tests have run.
Verified(d) ==
    /\ up /\ d.stage # "out" /\ work' = work \ {d}
    /\ Heard(<<Frame(d.stage, d.handle, d.member)>>)
    /\ IF \E e \in work' : e.member = d.member THEN Note("late") ELSE UNCHANGED happened
    /\ UNCHANGED <<who, members, bans, fleet, procs, sup, seats, up, pool, calls, adding, acts>>

\* A room that is down has no seats, no work and nobody at its feed.
Down == /\ up /\ up' = FALSE
        /\ seats' = [h \in Handles |-> Nobody] /\ work' = {}
        /\ feed' = [open |-> FALSE, frames |-> feed.frames]
        /\ UNCHANGED <<who, bans, pool, calls, adding, acts>>

\* On a signal it reaps its workers.
RoomStops == Down /\ Upset("rebind") /\ Stop(fleet)

\* When it dies without one they run on, and look for a room to join.
RoomCrashes ==
    /\ Down /\ Upset("crash")
    /\ procs' = [p \in DOMAIN procs |->
                   [procs[p] EXCEPT !.state = IF @ = "joined" THEN "booting" ELSE @]]
    /\ sup' = [h \in Handles |-> 0] /\ fleet' = {} /\ UNCHANGED members

\* Boot removes the workers of the room before one by one, as an administrator would:
\* never the last owner. (Without an owner it makes one: Store has that.)
Workers == {m \in members : who[m].worker}
Kept    == {m \in Owners : Owners \subseteq Workers /\ \A o \in Owners : o <= m}

RoomBoots ==
    /\ ~up /\ up' = TRUE
    /\ members' = members \ (Workers \ Kept)
    /\ UNCHANGED <<who, bans, fleet, procs, sup, seats, work, feed, pool, calls, adding, acts,
                   happened>>

----------------------------------------------------------------------------
(* The pool and its view.                                                   *)

Call(kind, h) == /\ Spend
                 /\ calls' = Append(calls, [kind |-> kind, handle |-> h, answer |-> "none"])

\* The click disables the button at once; without a session the pool is not asked.
ClickAdd == /\ ~adding /\ adding' = TRUE
            /\ \/ Call("spawn", 0) /\ UNCHANGED happened
               \/ Upset("nosession") /\ UNCHANGED <<calls, acts>>
            /\ UNCHANGED <<room, feed, pool>>

\* The chat's first input: a worker if there are none.
EnsureOne == /\ \A h \in Handles : pool[h] = "none"
             /\ Call("spawn", 0)
             /\ UNCHANGED <<room, feed, pool, adding, happened>>

ClickStop(h) == /\ pool[h] # "none" /\ Call("stop", h)
                /\ UNCHANGED <<room, feed, pool, adding, happened>>

Answer(c, a, h) == calls' = [calls EXCEPT ![c].answer = a, ![c].handle = h]

ServeSpawn(c) ==
    /\ calls[c].kind = "spawn" /\ calls[c].answer = "none"
    /\ \/ Entitled /\ SpawnWorker /\ Answer(c, "ok", NextHandle) /\ UNCHANGED happened
       \/ /\ \/ Entitled /\ Upset("norepo")
             \/ (~Entitled \/ ~Fits) /\ UNCHANGED happened
          /\ Answer(c, "refused", 0) /\ UNCHANGED <<room, feed>>
    /\ UNCHANGED <<pool, adding, acts>>

ServeStop(c) ==
    /\ calls[c].kind = "stop" /\ calls[c].answer = "none"
    /\ IF Entitled /\ WorkerOf(calls[c].handle) # {}
       THEN StopWorker(calls[c].handle) /\ Answer(c, "ok", calls[c].handle)
       ELSE Answer(c, "refused", calls[c].handle) /\ UNCHANGED <<room, feed>>
    /\ UNCHANGED <<pool, adding, acts, happened>>

\* The pool posts its list: the view enables the button with every one.
Changed == adding' = FALSE

\* Mutant: only a change of the rows is posted.
RefusedSilently == UNCHANGED adding
Refused == Changed

\* Two answers about one handle can cross.
Crosses(c) == \E d \in DOMAIN calls \ {c} :
                 /\ calls[c].answer = "ok" /\ calls[d].answer = "ok"
                 /\ calls[d].handle = calls[c].handle

Answered(c) ==
    /\ calls[c].answer # "none" /\ calls' = RemoveAt(calls, c)
    /\ IF Crosses(c) THEN Note("late") ELSE UNCHANGED happened
    /\ CASE calls[c].answer = "ok" /\ calls[c].kind = "spawn" ->
                pool' = [pool EXCEPT ![calls[c].handle] = "starting"] /\ Changed
         [] calls[c].answer = "ok" /\ calls[c].kind = "stop" ->
                pool' = [pool EXCEPT ![calls[c].handle] = "none"] /\ Changed
         [] calls[c].answer = "refused" /\ calls[c].kind = "spawn" ->
                UNCHANGED pool /\ Refused
         [] OTHER -> UNCHANGED <<pool, adding>>
    /\ UNCHANGED <<room, feed, acts>>

\* What a frame makes of the row of its handle.
\* Mutant: being online says nothing about a worker that starts.
AppliedWithoutOnline(event, state) ==
    CASE event = "sent" -> "busy"
      [] event \in {"done", "abandoned"} -> "idle"
      [] event = "activity" /\ state = "starting" -> "busy"
      [] OTHER -> state
Applied(event, state) ==
    CASE event = "sent" -> "busy"
      [] event \in {"done", "abandoned"} -> "idle"
      [] event = "seat-online" /\ state = "starting" -> "idle"
      [] event = "activity" /\ state = "starting" -> "busy"
      [] OTHER -> state

\* The frame is of a worker whose spawn is not answered yet, or is not there now.
Untimely(f) ==
    \/ \E c \in DOMAIN calls : calls[c].answer = "ok" /\ calls[c].kind = "spawn"
                               /\ calls[c].handle = f.handle
    \/ \A w \in fleet : w.member # f.member

ApplyRoomEvent ==
    LET f == Head(feed.frames)
        h == f.handle
    IN  /\ feed.frames # <<>> /\ feed' = [feed EXCEPT !.frames = Tail(@)]
        /\ IF Untimely(f) /\ \A w \in members : who[w].handle = h => who[w].worker
           THEN Note("late") ELSE UNCHANGED happened
        /\ pool' = [pool EXCEPT ![h] = IF @ = "none" THEN @ ELSE Applied(f.event, @)]
        /\ IF \/ pool[h] # "none" /\ f.event # "seat-online"
              \/ pool'[h] # pool[h]
           THEN Changed ELSE UNCHANGED adding
        /\ UNCHANGED <<room, calls, acts>>

FeedDrops == /\ feed.open /\ Upset("drop") /\ feed' = [open |-> FALSE, frames |-> <<>>]
             /\ UNCHANGED <<room, pool, calls, adding, acts>>

FeedOpens == /\ ~feed.open /\ Known /\ feed' = [feed EXCEPT !.open = TRUE]
             /\ UNCHANGED <<room, pool, calls, adding, acts, happened>>

----------------------------------------------------------------------------

Serves   == \E c \in DOMAIN calls : ServeSpawn(c) \/ ServeStop(c)
Settles  == \E c \in DOMAIN calls : Answered(c)
RoomStep == \/ \E h \in Handles : Closes(h)
            \/ \E d \in work : Reply(d) \/ Verified(d)
            \/ Serves \/ RoomBoots
PoolStep == Settles \/ ApplyRoomEvent \/ FeedOpens
ProcStep == \E p \in DOMAIN procs : Joins(p) \/ Ends(p)

Next == \/ Administer \/ Foreign \/ RoomStep \/ PoolStep \/ ProcStep
        \/ \E h \in Handles : Delegate(h) \/ ClickStop(h)
        \/ RoomStops \/ RoomCrashes \/ ClickAdd \/ EnsureOne \/ FeedDrops

Spec == Init /\ [][Next]_vars

----------------------------------------------------------------------------
(* Properties.                                                             *)

Calm(ks) == happened \cap ks = {}

\* An address is one seat's: through invites, renames, bans and the fleet's own
\* handles, no two members share a name, and no two seats a handle.
OneSeatPerAddress ==
    /\ \A m, n \in members : who[m].name = who[n].name => m = n
    /\ \A m, n \in Agents : who[m].handle = who[n].handle => m = n

\* While the room runs, every worker process is one its fleet can stop, except those
\* that a crash of the room before left behind: they are on no roster, and every worker
\* seat of the roster is a worker's of the fleet, unless an administrator took the seat
\* or made its worker an owner. A process that holds no seat any more has been told to
\* end, and a worker is reported as exited only for the end of its own process, never
\* for that of a stopped one whose handle it was given.
WorkersAreAccounted ==
    up => /\ \A p \in DOMAIN procs : Alive(p) =>
               /\ Stray(p) \/ \E w \in fleet : w.proc = p /\ w.state # "exited"
               /\ Stray(p) => "crash" \in happened
               /\ (procs[p].member \in members <=> ~Stray(p)) \/ "admin" \in happened
          /\ \A m \in Workers : \/ \E w \in fleet : w.member = m
                                \/ "admin" \in happened /\ ~Calm({"rebind", "crash"})
          /\ \A w \in fleet : w.state = "exited" => procs[w.proc].state = "gone"

\* When every call is answered and every frame applied, the sidebar shows the
\* fleet: a row for each worker, starting until its seat is online, and then busy
\* or idle as it has work.
SidebarAgrees ==
    (calls = <<>> /\ feed.frames = <<>> /\ \A h \in Handles : ~seats[h].ending)
    /\ Calm({"exit", "drop", "rebind", "crash", "admin", "foreign", "late"}) =>
        \A h \in Handles :
            pool[h] = IF WorkerOf(h) = {} THEN "none"
                      ELSE IF \A w \in WorkerOf(h) : seats[h].member # w.member THEN "starting"
                      ELSE IF \E d \in work : \E w \in WorkerOf(h) : d.member = w.member THEN "busy" ELSE "idle"

\* Whatever becomes of the spawn, the Add button comes back: of a click that reached
\* the pool, and of one that did not as soon as any other spawn is under way.
AddComesBack ==
    adding /\ ((\E c \in DOMAIN calls : calls[c].kind = "spawn") \/ Calm({"nosession"}))
        ~> ~adding

\* The room answers what is asked of it and the answers arrive, whatever else goes
\* on; nobody need ask, crash or end.
FairSpec == Spec /\ WF_vars(Serves) /\ WF_vars(Settles)
=============================================================================
