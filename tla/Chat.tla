-------------------------------- MODULE Chat --------------------------------
(***************************************************************************)
(* The orchestrator chat of the VS Code extension: the webview with its      *)
(* probe queue and its chips (src/extension/src/chat/webview.js, probes.js,   *)
(* panel.js), the extension host that keeps the orchestrator process          *)
(* (extension.js, supervisor.js, orchestrator.js), and the Claude Code        *)
(* processes themselves, which are external and serve one turn at a time in    *)
(* the order of their input.                                                *)
(*                                                                         *)
(* A turn is who asked for it and what it asks: a person, a worker's report   *)
(* or the chat's own probe. What a process prints reaches the webview in       *)
(* order, so an event is handled where it is printed; a message of the         *)
(* webview to the host is a step of its own, because the host also writes to    *)
(* the process. Process p is the p-th the host has spawned for this chat.      *)
(***************************************************************************)
EXTENDS Naturals, Sequences, SequencesExt

CONSTANTS MaxActs,            \* clicks and messages of the person
          MaxRelays,          \* worker reports
          MaxSwitches,        \* changes of the permission mode
          Admitted            \* what may go wrong, see below

\* "crash": a process dies on its own, or cannot be run after all; "kill": a
\* change of mode takes a process with turns still owed; "cross": a change of mode
\* starts before the one before it is through; "nostart": the start of a process
\* throws.
Troubles == {"crash", "kill", "cross", "nostart"}

ASSUME ChatAssumption ==
    /\ MaxActs \in Nat /\ MaxRelays \in Nat /\ MaxSwitches \in Nat
    /\ Admitted \subseteq Troubles

Procs    == 1..(MaxSwitches + 1)
Switches == 1..MaxSwitches
Probes   == {"model", "context"}
Modes    == {"manual", "bypass"}       \* an ordinary mode and the destructive one
None     == "none"

VARIABLES
    claude,     \* the processes: whether they run, their mode, what they owe
    host,       \* the supervised process, the one the chat writes to, its mode
    switch,     \* where every change of the permission mode stands
    toHost,     \* messages of the webview the host has not handled
    probes,     \* the webview's probe queue
    webview,    \* the rest of the webview
    used,       \* bounds: gestures and relays so far
    astray,     \* history: a probe was asked for out of turn, overtaken or lost, and none
                \* has been asked for in an idle chat since
    clicks,     \* history: clicks on the destructive row since the panel opened
    troubled    \* history: what went wrong

chatVars == <<claude, host, switch, toHost, probes, webview, used, astray, clicks,
              troubled>>

Turn    == [from : {"user", "relay", "probe"}, what : {"talk", "model", "context"}]
NoTurn  == [from |-> None, what |-> None]
Message == [kind : {"input"}, turn : Turn] \cup [kind : {"mode"}, mode : Modes]
Proc    == [state : {"unborn", "running", "dying", "gone"}, mode : Modes,
            input : Seq(Turn), turn : Turn \cup {NoTurn}]

ChatInit ==
    /\ claude = [p \in Procs |->
                  [state |-> IF p = 1 THEN "running" ELSE "unborn", mode |-> "manual",
                   input |-> <<>>, turn |-> NoTurn]]
    /\ host = [supervised |-> 1, wired |-> 1, mode |-> "manual"]
    /\ switch = [s \in Switches |-> [at |-> "idle", mode |-> "manual"]]
    /\ toHost = <<>>
    /\ probes = [inFlight |-> None, queued |-> <<>>]
    /\ webview = [asked |-> FALSE, options |-> FALSE, bubble |-> FALSE,
               panel |-> None, armed |-> FALSE, chip |-> "manual"]
    /\ used = [gestures |-> 0, relays |-> 0]
    /\ astray = FALSE /\ clicks = 0 /\ troubled = {}

----------------------------------------------------------------------------
(* The probe queue. Each operator takes the queue with what it has sent.      *)

Dispatch(q) ==
    IF q.inFlight # None \/ q.queued = <<>> THEN q
    ELSE [inFlight |-> Head(q.queued), queued |-> Tail(q.queued),
          sent |-> Append(q.sent, Head(q.queued))]

Request(q, name) ==
    IF q.inFlight = name \/ Contains(q.queued, name) THEN q
    ELSE Dispatch([q EXCEPT !.queued = Append(@, name)])

\* Mutant: the probe that was answered stays in flight.
AnswerKeepsIt(q) == Dispatch(q)
Answer(q) == Dispatch([q EXCEPT !.inFlight = None])

Queue == [inFlight |-> probes.inFlight, queued |-> probes.queued, sent |-> <<>>]

\* Mutant: only a probe that waits hides what is said.
SuppressingQueued == probes.queued # <<>>
Suppressing == probes.inFlight # None

Input(from, what) == [kind |-> "input", turn |-> [from |-> from, what |-> what]]

\* The webview's queue becomes q and its sends go to the host, behind what others
\* are waiting for.
Keep(q, others) ==
    /\ probes' = [inFlight |-> q.inFlight, queued |-> q.queued]
    /\ toHost' = toHost \o [i \in 1..Len(q.sent) |-> Input("probe", q.sent[i])]
    /\ astray' = IF q.sent = <<>> THEN astray ELSE others # {}

----------------------------------------------------------------------------
(* What is owed: turns asked for whose end the webview has not seen.          *)

Live(p)     == claude[p].state = "running"
OwedBy(p)   == ToSet(claude[p].input) \cup ({claude[p].turn} \ {NoTurn})
OnTheWay    == {toHost[i].turn : i \in {j \in 1..Len(toHost) : toHost[j].kind = "input"}}
Owed        == OnTheWay \cup UNION {OwedBy(p) : p \in {r \in Procs : Live(r)}}

\* A process that is being stopped may go on printing for a while.
Prints(p)   == claude[p].state \in {"running", "dying"}
Outstanding == OnTheWay \cup UNION {OwedBy(p) : p \in {r \in Procs : Prints(r)}}

IsProbe(t)  == t.from = "probe"
Strays(p)   == \E t \in OwedBy(p) : IsProbe(t)

Noted(k)   == troubled' = troubled \cup {k}
\* What the environment may choose is to be admitted, what follows from it is not.
Trouble(k) == k \in Admitted /\ Noted(k)

----------------------------------------------------------------------------
(* The person.                                                             *)

Acts == /\ used.gestures < MaxActs
        /\ used' = [used EXCEPT !.gestures = @ + 1]

\* send; a command picked in the dashboard goes the same way, also after the end of
\* a process was told as fatal and the composer closed.
Send ==
    /\ Acts
    /\ toHost' = Append(toHost, Input("user", "talk"))
    /\ UNCHANGED <<claude, host, switch, probes, webview, astray, clicks, troubled>>

\* The picker asks for the list when it has none; with one it opens, and a choice
\* is an input like any other.
ClickModel ==
    /\ Acts
    /\ IF webview.options
       THEN toHost' = Append(toHost, Input("user", "talk")) /\ UNCHANGED <<probes, astray>>
       ELSE Keep(Request(Queue, "model"), Outstanding)
    /\ UNCHANGED <<claude, host, switch, webview, clicks, troubled>>

\* Opening the context panel closes the permission panel, and asks for numbers.
ClickContext ==
    /\ Acts
    /\ IF webview.panel = "context"
       THEN webview' = [webview EXCEPT !.panel = None] /\ UNCHANGED <<probes, toHost, astray>>
       ELSE /\ webview' = [webview EXCEPT !.panel = "context"]
            /\ Keep(Request(Queue, "context"), Outstanding)
    /\ UNCHANGED <<claude, host, switch, clicks, troubled>>

ClickPermission ==
    /\ Acts
    /\ webview' = [webview EXCEPT !.panel = IF @ = "permission" THEN None ELSE "permission",
                                  !.armed = FALSE]
    /\ clicks' = 0
    /\ UNCHANGED <<claude, host, switch, toHost, probes, astray, troubled>>

\* Mutant: the destructive mode is chosen at once.
ChooseAtOnce(m) ==
    /\ Acts /\ webview.panel = "permission"
    /\ clicks' = IF m = "bypass" THEN clicks + 1 ELSE clicks
    /\ webview' = [webview EXCEPT !.armed = FALSE, !.panel = None]
    /\ toHost' = Append(toHost, [kind |-> "mode", mode |-> m])
    /\ UNCHANGED <<claude, host, switch, probes, astray, troubled>>

ChooseMode(m) ==
    /\ Acts /\ webview.panel = "permission"
    /\ clicks' = IF m = "bypass" THEN clicks + 1 ELSE clicks
    /\ IF m = "bypass" /\ ~webview.armed
       THEN webview' = [webview EXCEPT !.armed = TRUE] /\ UNCHANGED toHost
       ELSE /\ webview' = [webview EXCEPT !.armed = FALSE, !.panel = None]
            /\ toHost' = Append(toHost, [kind |-> "mode", mode |-> m])
    /\ UNCHANGED <<claude, host, switch, probes, astray, troubled>>

----------------------------------------------------------------------------
(* The extension host.                                                     *)

\* onInput writes the turn to the process the chat is wired to; if that one is
\* stopped or dead the turn is lost.
HandleInput ==
    /\ toHost # <<>> /\ Head(toHost).kind = "input"
    /\ toHost' = Tail(toHost)
    /\ LET p == host.wired IN
       IF Live(p) THEN /\ claude' = [claude EXCEPT ![p].input = Append(@, Head(toHost).turn)]
                       /\ UNCHANGED <<astray, troubled>>
                  ELSE /\ UNCHANGED claude /\ Noted("kill")
                       /\ astray' = (astray \/ IsProbe(Head(toHost).turn))
    /\ UNCHANGED <<host, switch, probes, webview, used, clicks>>

\* A worker's report is written to the process as a turn, and overtakes what the
\* webview has sent.
Relay ==
    /\ used.relays < MaxRelays /\ Live(host.wired)
    /\ used' = [used EXCEPT !.relays = @ + 1]
    /\ claude' = [claude EXCEPT ![host.wired].input =
                   Append(@, [from |-> "relay", what |-> "talk"])]
    /\ astray' = (astray \/ \E t \in OnTheWay : IsProbe(t))
    /\ UNCHANGED <<host, switch, toHost, probes, webview, clicks, troubled>>

\* setPermissionMode, up to the await of the saved mode.
HandleMode ==
    /\ toHost # <<>> /\ Head(toHost).kind = "mode"
    /\ toHost' = Tail(toHost)
    /\ \E s \in Switches :
         /\ switch[s].at = "idle" /\ \A r \in 1..(s - 1) : switch[r].at # "idle"
         /\ switch' = [switch EXCEPT ![s] = [at |-> "saving", mode |-> Head(toHost).mode]]
    /\ host' = [host EXCEPT !.mode = Head(toHost).mode]
    /\ IF \E s \in Switches : switch[s].at \in {"saving", "killing"}
       THEN Trouble("cross") ELSE UNCHANGED troubled
    /\ UNCHANGED <<claude, probes, webview, used, astray, clicks>>

\* Mutant: the chat stays wired to the process it had.
SpawnUnwired(s, mode) ==
    \E p \in Procs :
      /\ claude[p].state = "unborn" /\ \A r \in 1..(p - 1) : claude[r].state # "unborn"
      /\ claude' = [claude EXCEPT ![p].state = "running", ![p].mode = mode]
      /\ host' = [host EXCEPT !.supervised = p]
      /\ switch' = [switch EXCEPT ![s].at = "done"]
      /\ webview' = [webview EXCEPT !.chip = host.mode]
      /\ UNCHANGED <<astray, troubled>>

\* supervisor.start spawns a process and the chat is wired to it; or it throws, which
\* leaves the chat with the process that was stopped. The chip is told in either case.
SpawnClaude(s, mode) ==
    /\ switch' = [switch EXCEPT ![s].at = "done"]
    /\ webview' = [webview EXCEPT !.chip = host.mode]
    /\ \/ /\ \E p \in Procs :
               /\ claude[p].state = "unborn" /\ \A r \in 1..(p - 1) : claude[r].state # "unborn"
               /\ claude' = [claude EXCEPT ![p].state = "running", ![p].mode = mode]
               /\ host' = [host EXCEPT !.supervised = p, !.wired = p]
          /\ astray' = (astray \/ Strays(host.wired))
          /\ UNCHANGED troubled
       \/ Trouble("nostart") /\ UNCHANGED <<claude, host, astray>>

\* The mode is saved: the recipe is built, and supervisor.start first stops the
\* process it supervises, awaiting its end; with none it spawns at once.
Saved(s) ==
    /\ switch[s].at = "saving"
    /\ LET old == host.supervised IN
       IF old # 0
       THEN /\ claude' = IF Live(old) THEN [claude EXCEPT ![old].state = "dying"] ELSE claude
            /\ host' = [host EXCEPT !.supervised = 0]
            /\ switch' = [switch EXCEPT ![s] = [at |-> "killing", mode |-> host.mode]]
            /\ IF Live(old) /\ OwedBy(old) # {} THEN Noted("kill") ELSE UNCHANGED troubled
            /\ astray' = (astray \/ Strays(old))
            /\ UNCHANGED webview
       ELSE SpawnClaude(s, host.mode)
    /\ UNCHANGED <<toHost, probes, used, clicks>>

\* It cannot be saved, which nobody hears of.
Unsaved(s) ==
    /\ switch[s].at = "saving"
    /\ switch' = [switch EXCEPT ![s].at = "done"]
    /\ UNCHANGED <<claude, host, toHost, probes, webview, used, astray, clicks, troubled>>

Killed(s) ==
    /\ switch[s].at = "killing"
    /\ SpawnClaude(s, switch[s].mode)
    /\ UNCHANGED <<toHost, probes, used, clicks>>

----------------------------------------------------------------------------
(* The processes, and what the webview makes of what they print.              *)

\* The session event: the picker's probe, the first time only.
Greet(p) ==
    /\ Prints(p) /\ ~webview.asked
    /\ webview' = [webview EXCEPT !.asked = TRUE]
    /\ Keep(Request(Queue, "model"), Outstanding)
    /\ UNCHANGED <<claude, host, switch, used, clicks, troubled>>

BeginTurn(p) ==
    /\ Prints(p) /\ claude[p].turn = NoTurn /\ claude[p].input # <<>>
    /\ claude' = [claude EXCEPT ![p].turn = Head(claude[p].input), ![p].input = Tail(@)]
    /\ UNCHANGED <<host, switch, toHost, probes, webview, used, astray, clicks, troubled>>

\* onText: nothing is shown while a probe is in flight.
Say(p) ==
    /\ Prints(p) /\ claude[p].turn # NoTurn
    /\ webview' = [webview EXCEPT !.bubble = @ \/ ~Suppressing]
    /\ UNCHANGED <<claude, host, switch, toHost, probes, used, astray, clicks, troubled>>

EndBubble == /\ webview' = [webview EXCEPT !.bubble = FALSE]
             /\ UNCHANGED <<claude, host, switch, toHost, probes, used, astray, clicks, troubled>>

\* A thought or a tool call begins a row of its own, a probe's turn has none; so does
\* what a worker does. What is added to a row that is there changes nothing here.
Show(p) == Prints(p) /\ claude[p].turn # NoTurn /\ claude[p].turn.from # "probe" /\ EndBubble
WorkerCard == EndBubble

\* Mutant: a report that was asked for asks for the next.
AfterTurnLoops == Request(Answer(Queue), "context")
\* onTurnEnd: the probe in flight is answered by whatever turn this was; without
\* one it was a conversation's turn, and the context is asked for.
AfterTurn == IF Suppressing THEN Answer(Queue) ELSE Request(Queue, "context")

\* The model list and the context report are read from what answered their probe.
Fits(turn) == probes.inFlight = turn.what

ViewAfter(turn) ==
    [webview EXCEPT !.bubble = FALSE, !.options = @ \/ (Fits(turn) /\ turn.what = "model")]

\* What is outstanding beside the turn that process p is at.
Behind(p) == OnTheWay \cup ToSet(claude[p].input)
             \cup UNION {OwedBy(r) : r \in {x \in Procs \ {p} : Prints(x)}}

EndTurn(p) ==
    /\ Prints(p) /\ claude[p].turn # NoTurn
    /\ claude' = [claude EXCEPT ![p].turn = NoTurn]
    /\ Keep(AfterTurn, Behind(p))
    /\ webview' = ViewAfter(claude[p].turn)
    /\ UNCHANGED <<host, switch, used, clicks, troubled>>

\* A stopped process ends, as was asked for, or a running one dies.
Exit(p) ==
    /\ Prints(p)
    /\ claude' = [claude EXCEPT ![p].state = "gone", ![p].turn = NoTurn, ![p].input = <<>>]
    /\ IF Live(p) THEN Trouble("crash") ELSE UNCHANGED troubled
    /\ astray' = (astray \/ Strays(p))
    /\ UNCHANGED <<host, switch, toHost, probes, webview, used, clicks>>

----------------------------------------------------------------------------
User == \/ Send \/ ClickModel \/ ClickContext \/ ClickPermission
        \/ \E m \in Modes : ChooseMode(m)

Delivery == HandleInput \/ HandleMode

ChatNext ==
        \/ User \/ Delivery \/ Relay \/ WorkerCard
        \/ \E s \in Switches : Saved(s) \/ Unsaved(s) \/ Killed(s)
        \/ \E p \in Procs : Greet(p) \/ BeginTurn(p) \/ Say(p) \/ Show(p) \/ EndTurn(p) \/ Exit(p)

ChatSpec == ChatInit /\ [][ChatNext]_chatVars

\* The host handles its messages, an awaited step resolves, and a running process
\* answers the turns it is given. Nothing says that a person does anything.
FairChatSpec ==
    /\ ChatSpec
    /\ WF_chatVars(Delivery)
    /\ \A s \in Switches : WF_chatVars(Saved(s)) /\ WF_chatVars(Killed(s))
    /\ \A p \in Procs : WF_chatVars(Live(p) /\ (BeginTurn(p) \/ EndTurn(p)))
----------------------------------------------------------------------------
(* Properties.                                                             *)

\* Type invariant.
TypeOK ==
    /\ claude \in [Procs -> Proc]
    /\ host \in [supervised : 0..(MaxSwitches + 1), wired : Procs, mode : Modes]
    /\ switch \in [Switches -> [at : {"idle", "saving", "killing", "done"}, mode : Modes]]
    /\ toHost \in Seq(Message)
    /\ probes \in [inFlight : Probes \cup {None}, queued : Seq(Probes)]
    /\ webview \in [asked : BOOLEAN, options : BOOLEAN, bubble : BOOLEAN,
                 panel : {None, "context", "permission"}, armed : BOOLEAN, chip : Modes]
    /\ used \in [gestures : 0..MaxActs, relays : 0..MaxRelays]
    /\ clicks \in Nat /\ troubled \in SUBSET Troubles
    /\ astray \in BOOLEAN

\* While no process was killed or died, what the view does is owed: replies are kept out
\* of the transcript only while a probe has its answer to come, and a reply's text is
\* open for more only while a turn runs, so that nothing said to a person is hidden, or
\* put behind another turn's text (onText, onTurnEnd). A killed turn has no end.
ViewIsOwed ==
    troubled \cap {"kill", "crash"} = {} =>
        /\ Suppressing => \E t \in Owed : t.from = "probe" /\ t.what = probes.inFlight
        /\ webview.bubble => \E p \in Procs : claude[p].turn # NoTurn

\* What a process prints is hidden if it answers a probe, and shown otherwise, which
\* the position of the turn alone tells (suppressing, onTurnEnd in probes.js): busy with
\* whatever messages, reports, changes of mode and deaths of processes, the chat hides a
\* person's reply, or shows a probe's, only if a probe was asked for behind another turn,
\* overtaken by a report or lost with its process, and no longer than until one is asked
\* for with nothing outstanding.
ProbesKeepToThemselves ==
    \A p \in Procs : Prints(p) /\ claude[p].turn # NoTurn =>
        (Suppressing <=> IsProbe(claude[p].turn)) \/ astray

\* Bypassing every permission check takes two clicks since the panel was opened,
\* whichever panels were opened and closed in between (choosePermissionMode).
BypassTakesTwoClicks ==
    [][Len(toHost') > Len(toHost) /\ Last(toHost') = [kind |-> "mode", mode |-> "bypass"]
         => clicks' >= 2]_chatVars

\* The process the supervisor would stop is the one the chat talks to, whatever changes
\* of mode are under way, cross or fail. Once they are through, and none crossed another,
\* a process that runs is that one and runs in the mode the chip tells; there is one
\* supervised, unless a start failed (setPermissionMode).
ChipTellsMode ==
    /\ host.supervised \in {0, host.wired}
    /\ (\A s \in Switches : switch[s].at \in {"idle", "done"}) /\ "cross" \notin troubled =>
          /\ \A p \in Procs : Live(p) => p = host.supervised /\ claude[p].mode = webview.chip
          /\ host.supervised = 0 => "nostart" \in troubled

\* A probe never asks for another without end: when the person and the workers are
\* quiet, the chat is (the guard probes.js is there for).
Quiet == toHost = <<>> /\ \A p \in Procs : Live(p) => OwedBy(p) = {}
ProbesSettle == <>[]Quiet
=============================================================================
