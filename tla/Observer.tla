------------------------------ MODULE Observer -------------------------------
(***************************************************************************)
(* The observer (src/src/observer.mjs, wired in src/src/server.mjs): it     *)
(* buffers what happens in the room, has a model fold it into the brief now *)
(* and then, and speaks up about new signals in it.                         *)
(*                                                                         *)
(* Time is kept as what the code measures: the ticks a timer has left, the  *)
(* ticks since the last cycle began and the age of the budget window, the   *)
(* last two up to where they stop to matter. A timer may fire late.         *)
(***************************************************************************)
EXTENDS Integers, FiniteSets, Sequences

CONSTANTS Signals,                          \* the reversals and forks a brief can hold
          MaxNoted,                         \* bound: events that happen in all
          MaxEvents, Debounce, MinInterval, \* config.observer
          Window, Cap, MaxCost,             \* the budget, and what a cycle costs at most
          NotesPerWindow,
          MaxAnnounced,                     \* MAX_ANNOUNCED, the signals it remembers
          Failures                          \* "full": what a note is written to can be full

ASSUME ObserverAssumption ==
    /\ IsFiniteSet(Signals)
    /\ MaxNoted \in Nat /\ MaxEvents \in Nat
    /\ Debounce \in Nat /\ MinInterval \in Nat
    /\ Window \in Nat /\ Cap \in Nat /\ MaxCost \in Nat
    /\ NotesPerWindow \in Nat /\ MaxAnnounced \in Nat
    /\ Failures \subseteq {"full"}

Events == 1..MaxNoted
Off    == -1                \* no timer is armed

\* A run of flush(): what it asks the model about, and the brief it goes by.
Over   == [st |-> "over", prev |-> {}, events |-> {}]
Cycles == [st : {"asked"}, prev : SUBSET Events, events : SUBSET Events] \cup {Over}

VARIABLES
    noted,            \* the events so far are 1..noted
    buffer,           \* the events no cycle has taken
    timer,            \* ticks left, or Off
    running, queued,  \* a cycle runs; another is to follow it
    cycles,           \* the cycles that run
    since,            \* ticks since the last cycle began, up to MinInterval
    window,           \* its age, up to Window, and what was spent and said in it
    brief,            \* the events it reflects and the signals it holds
    announced,        \* the signals it remembers having spoken of, oldest first
    lost,             \* history: events whose cycle gave no brief
    said, repeated,   \* history: signals a note was published about, and those twice
    forgot,           \* history: signals it spoke of and has forgotten since
    held              \* history: for want of budget the buffer was left as it is

notes == <<announced, said, repeated, forgot>>
history == <<lost, held>>
pace == <<timer, running, queued, since>>
observerVars ==
    <<noted, buffer, pace, cycles, window, brief, notes, history>>

ObserverInit ==
    /\ noted = 0 /\ buffer = {}
    /\ timer = Off /\ running = FALSE /\ queued = FALSE /\ since = MinInterval
    /\ cycles = {}
    /\ window = [age |-> 0, spent |-> 0, notes |-> 0]
    /\ brief = [of |-> {}, signals |-> {}]
    /\ announced = <<>> /\ said = {} /\ repeated = {} /\ forgot = {}
    /\ lost = {} /\ held = FALSE

Rolled(w) == IF w.age = Window THEN [age |-> 0, spent |-> 0, notes |-> 0] ELSE w

\* Mutant: the budget may be used up once more.
SpentOver(w) == Cap > 0 /\ w.spent > Cap

Spent(w) == Cap > 0 /\ w.spent >= Cap

\* What is left until the rate floor allows a cycle.
Wait == MinInterval - since

Asked == {c \in cycles : c.st = "asked"}

-----------------------------------------------------------------------------
(* The cycle. *)

\* Mutant: the events stay in the buffer until the cycle is over.
FlushKeeps(evs, others) ==
    /\ window' = Rolled(window)
    /\ cycles' = others \cup {[st |-> "asked", prev |-> brief.of, events |-> evs]}
    /\ buffer' = evs /\ since' = 0 /\ held' = FALSE

\* With budget left, the buffer is taken along to the model; else the cycle is
\* over at once.
Flush(evs, others) ==
    /\ window' = Rolled(window)
    /\ \/ /\ Spent(Rolled(window)) \/ evs = {}
          /\ cycles' = others \cup {Over}
          /\ buffer' = evs /\ held' = (evs # {})
          /\ UNCHANGED since
       \/ /\ ~Spent(Rolled(window)) /\ evs # {}
          /\ cycles' = others \cup {[st |-> "asked", prev |-> brief.of, events |-> evs]}
          /\ buffer' = {} /\ held' = FALSE
          /\ since' = 0

\* One cycle at a time, and not before the rate floor allows it. evs is the
\* buffer and others are the cycles at that moment.
Kick(busy, again, evs, others) ==
    \/ /\ busy
       /\ timer' = Off /\ running' = TRUE /\ queued' = TRUE
       /\ buffer' = evs /\ cycles' = others /\ held' = FALSE
       /\ UNCHANGED <<since, window>>
    \/ /\ ~busy /\ Wait # 0
       /\ timer' = Wait
       /\ running' = FALSE /\ queued' = again
       /\ buffer' = evs /\ cycles' = others /\ held' = FALSE
       /\ UNCHANGED <<since, window>>
    \/ /\ ~busy /\ Wait = 0
       /\ timer' = Off /\ running' = TRUE /\ queued' = again
       /\ Flush(evs, others)

\* Something happens in the room. The timer starts over with every event.
Note ==
    /\ noted < MaxNoted
    /\ noted' = noted + 1
    /\ LET evs == buffer \cup {noted + 1} IN
       \/ /\ Cardinality(evs) >= MaxEvents
          /\ Kick(running, queued, evs, cycles)
       \/ /\ Cardinality(evs) < MaxEvents
          /\ timer' = Debounce /\ buffer' = evs /\ held' = FALSE
          /\ UNCHANGED <<running, queued, cycles, since, window>>
    /\ UNCHANGED <<brief, notes, lost>>

TimerFires ==
    /\ timer = 0
    /\ Kick(running, queued, buffer, cycles)
    /\ UNCHANGED <<noted, brief, notes, lost>>

\* Mutant: what came in meanwhile is left for the next event to take along.
CycleOverAlone(c) ==
    /\ c.st = "over"
    /\ running' = FALSE /\ queued' = FALSE /\ cycles' = cycles \ {c}
    /\ UNCHANGED <<noted, buffer, timer, since, window, brief, notes, history>>

\* The cycle's promise has settled; what came in meanwhile gets its own.
CycleOver(c) ==
    /\ c.st = "over"
    /\ \/ /\ queued /\ buffer # {}
          /\ Kick(FALSE, FALSE, buffer, cycles \ {c})
       \/ /\ ~queued \/ buffer = {}
          /\ running' = FALSE /\ queued' = FALSE /\ cycles' = cycles \ {c}
          /\ UNCHANGED <<buffer, timer, since, window, held>>
    /\ UNCHANGED <<noted, brief, notes, lost>>

Ends(c) == cycles' = (cycles \ {c}) \cup {Over}

-----------------------------------------------------------------------------
(* What the model makes of it. *)

\* The signals the brief so far does not hold.
News(signals) == signals \ brief.signals

\* Of what was announced only the newest MaxAnnounced are remembered.
Excess(all) == IF Len(all) > MaxAnnounced THEN Len(all) - MaxAnnounced ELSE 0
Remembered(all) == SubSeq(all, Excess(all) + 1, Len(all))
Dropped(all) == {all[i] : i \in 1..Excess(all)}

Elements(all) == {all[i] : i \in DOMAIN all}

\* The ways to go through some of the signals, one by one.
Orders == UNION {{order \in [1..n -> Signals] : Cardinality(Elements(order)) = n}
                    : n \in 0..Cardinality(Signals)}

\* What it remembers when it comes to the i-th of told.
Before(told, i) == Elements(Remembered(announced \o SubSeq(told, 1, i - 1)))

\* The news in some order, a note for each piece that is not remembered just
\* then, until the window's notes are used up. One that cannot be written
\* counts, and the rest are not tried.
Speak(signals, w) ==
    \E told \in Orders, failed \in SUBSET Signals :
        /\ Elements(told) \subseteq News(signals)
        /\ \A i \in DOMAIN told : told[i] \notin Before(told, i)
        /\ w.notes + Len(told) <= NotesPerWindow
        /\ \/ /\ failed = {}
              /\ \/ News(signals) \subseteq Elements(announced) \cup Elements(told)
                 \/ w.notes + Len(told) = NotesPerWindow
           \/ /\ "full" \in Failures
              /\ told # <<>> /\ failed = {told[Len(told)]}
        /\ announced' = Remembered(announced \o told)
        /\ forgot' = forgot \cup Dropped(announced \o told)
        /\ window' = [w EXCEPT !.notes = @ + Len(told)]
        /\ LET published == Elements(told) \ failed IN
           said' = said \cup published /\ repeated' = repeated \cup (said \cap published)

\* The model cannot be run, or exits with an error.
CycleFails(c) ==
    /\ c.st = "asked"
    /\ Ends(c)
    /\ lost' = lost \cup c.events
    /\ UNCHANGED <<noted, buffer, pace, window, brief, notes, held>>

\* It answers, and the room is charged. Without a brief to be found in the
\* answer, or a ledger that can be saved, the old one stays.
CycleAnswers(c) ==
    /\ c.st = "asked"
    /\ Ends(c)
    /\ \E cost \in 0..MaxCost :
       LET w == [window EXCEPT !.spent = @ + cost] IN
       \/ /\ lost' = lost \cup c.events
          /\ window' = w
          /\ UNCHANGED <<brief, notes>>
       \/ \E signals \in SUBSET Signals :
             /\ brief' = [of |-> c.prev \cup c.events, signals |-> signals]
             /\ Speak(signals, Rolled(w))
             /\ UNCHANGED lost
    /\ UNCHANGED <<noted, buffer, pace, held>>

\* GET /api/state asks whether the budget is spent, which rolls the window.
Peek == /\ window.age = Window
        /\ window' = Rolled(window)
        /\ UNCHANGED <<noted, buffer, pace, cycles, brief, notes, history>>

Sooner(n, bound) == IF n < bound THEN n + 1 ELSE bound

Tick == /\ timer > 0 \/ since < MinInterval \/ window.age < Window
        /\ timer' = IF timer > 0 THEN timer - 1 ELSE timer
        /\ since' = Sooner(since, MinInterval)
        /\ window' = [window EXCEPT !.age = Sooner(@, Window)]
        /\ UNCHANGED <<noted, buffer, running, queued, cycles, brief, notes, history>>

ObserverNext ==
    \/ Note \/ TimerFires \/ Peek \/ Tick
    \/ \E c \in cycles : CycleOver(c) \/ CycleFails(c) \/ CycleAnswers(c)

ObserverSpec == ObserverInit /\ [][ObserverNext]_observerVars

\* Timers fire and settled promises are followed up. Nothing is assumed of the
\* model: runModel waits for it without a limit.
FairObserverSpec ==
    /\ ObserverSpec
    /\ WF_observerVars(Tick) /\ WF_observerVars(TimerFires)
    /\ WF_observerVars(\E c \in cycles : CycleOver(c))

-----------------------------------------------------------------------------
(* Properties. *)

\* Every variable keeps its type.
ObserverTypeOK ==
    /\ noted \in 0..MaxNoted /\ buffer \subseteq Events
    /\ timer \in Off..Debounce \cup 1..MinInterval
    /\ running \in BOOLEAN /\ queued \in BOOLEAN /\ since \in 0..MinInterval
    /\ cycles \subseteq Cycles
    /\ window \in [age : 0..Window, spent : Nat, notes : Nat]
    /\ brief \in [of : SUBSET Events, signals : SUBSET Signals]
    /\ announced \in Seq(Signals)
    /\ said \subseteq Signals /\ repeated \subseteq said /\ forgot \subseteq Signals
    /\ lost \subseteq Events /\ held \in BOOLEAN

\* The events that are with some of the cycles cs.
Taken(cs) == UNION {c.events : c \in cs}

\* No event is summarised twice, and none is forgotten but with a cycle that
\* failed: each is in the buffer, with one cycle, in the brief or so lost.
EventsAccounted ==
    /\ 1..noted = buffer \cup Taken(cycles) \cup brief.of \cup lost
    /\ buffer \cap (brief.of \cup lost) = {} /\ brief.of \cap lost = {}
    /\ Taken(cycles) \cap (buffer \cup brief.of \cup lost) = {}

\* No cycle discards the work of another: the brief a cycle will replace is the
\* one it was shown (src/src/observer.mjs:113).
BuiltOnLatest == \A c \in Asked : c.prev = brief.of

\* The rate floor holds on every path to the model, also after a slow cycle
\* (src/src/observer.mjs:138).
Paced == [][(\E c \in cycles' \ cycles : c.st = "asked") => since = MinInterval]_observerVars

\* A window is overspent by no more than the cycle that exhausts it, whenever
\* the answer comes in.
BudgetHolds == Cap > 0 => window.spent < Cap + MaxCost

\* A signal is spoken of again only when it was forgotten in between, for the
\* sake of newer ones (src/src/observer.mjs:212-217), and no window hears more
\* notes than it may.
SpeaksRarely == /\ repeated \subseteq forgot
                /\ window.notes <= NotesPerWindow

\* What is buffered has something to wake the observer, unless the budget was
\* what held it back.
Awake == buffer # {} => timer # Off \/ queued \/ held

\* While the model keeps answering, what happens reaches it in the end, or the
\* budget is spent.
Answering == []<>(Asked = {})
ReachesTheModel ==
    Answering => \A e \in Events : e \in buffer ~> (e \notin buffer \/ held)
=============================================================================
