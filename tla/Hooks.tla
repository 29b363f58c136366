-------------------------------- MODULE Hooks --------------------------------
(***************************************************************************)
(* What the room makes of the hooks of the sessions it drives: the turn log *)
(* (src/src/turns.mjs), the prompt memory of the queue (src/src/queue.mjs)  *)
(* and the cost ledger (src/src/ledger.mjs), under handleHook and drain of  *)
(* src/src/web.mjs.                                                        *)
(*                                                                         *)
(* A turn opens when the room delivers it, under a number of the room's. A  *)
(* session answers it with a prompt, whose id the room learns from the      *)
(* first hook that carries it. Turns and prompts are numbered from 1; 0 is   *)
(* none. A seat whose feed dropped is back at once (Room has the time it is  *)
(* away).                                                                  *)
(***************************************************************************)
EXTENDS Naturals, Sequences, FiniteSets, Functions

CONSTANTS Seats, Local,        \* the agent seats' handles, and the local channel
          Members, Owner,      \* people, and the one each seat belongs to
          SplitMode,           \* config.splitMode
          Keep, Saved,         \* MAX_TURNS of the turn log; how many of them are saved
          Items, Memory,       \* MAX_TURNS of the ledger, MAX_PROMPT_MEMORY
          Length,              \* how much a member writes to a destination at a time
          Uses,                \* the tokens a transcript may tell of, 0 if it cannot be read
          MaxTurns, MaxPrompts, MaxNotes, MaxUpsets,  \* bounds
          Upsets               \* what may go wrong, see below

Dests   == Seats \cup {Local}
Turns   == 1..MaxTurns
Prompts == 1..MaxPrompts
\* Who composed a turn, by the length of what they wrote; 0 if nothing.
Weights == [Members -> Nat]
Nobody  == [m \in Members |-> 0]
Inflight == 0               \* the key of the prompt memory that is no prompt

\* "own": the host types prompts in the local session; "refire": a Stop hook is
\* sent again; "drop": a feed drops in mid-turn; "crash": the room dies and is
\* started again.
ASSUME HooksAssumption ==
    /\ Local \notin Seats /\ Owner \in [Seats -> Members]
    /\ IsFiniteSet(Members) /\ IsFiniteSet(Seats)
    /\ SplitMode \in {"equal", "weighted"}
    /\ Keep \in Nat /\ Saved \in 0..Keep /\ Items \in Nat \ {0} /\ Memory \in Nat
    /\ Length \in [Members -> Nat \ {0}]
    /\ MaxTurns \in Nat /\ MaxPrompts \in Nat
    /\ Uses \subseteq Nat /\ MaxNotes \in Nat /\ MaxUpsets \in Nat
    /\ Upsets \subseteq {"own", "refire", "drop", "crash"}

VARIABLES
    opened,     \* turns so far
    queue,      \* who waits for a destination, the turn in flight there, prompt memory
    log,        \* the turn log: turns, those kept, those open, and the indexes
    saved,      \* the log as saveTurns() last wrote it
    ledger,     \* items (prompts, oldest first), the prompts seen, totals
    sent,       \* the turn that was delivered and that the session has not begun
    running,    \* the prompt each session works on
    asked,      \* prompts so far
    answers,    \* history: the turn a prompt answers, 0 for the host's own
    bills,      \* history: everything the ledger took up
    happened    \* history: what went wrong

sessions == <<sent, running, asked, answers>>
hist     == <<bills, happened>>
vars     == <<opened, queue, log, saved, ledger, sessions, hist>>

Turn  == [dest : Dests, who : Weights, prompt : 0..MaxPrompts, did : SUBSET Prompts,
          done : BOOLEAN]
Log   == [turn : [Turns -> Turn], kept : SUBSET Turns, open : [Dests -> 0..MaxTurns],
          known : SUBSET Turns, byId : [Prompts -> 0..MaxTurns]]
Entry == [key : 0..MaxPrompts, who : Weights]
Queue == [waiting : [Dests -> Weights], inflight : [Dests -> 0..MaxTurns],
          memory : Seq(Entry)]
Bill  == [prompt : 0..MaxPrompts, dest : Dests, use : Nat, who : Weights]

Fresh(d, who) == [dest |-> d, who |-> who, prompt |-> 0, did |-> {}, done |-> FALSE]

NoTurn == Fresh(Local, Nobody)

NoLog == [turn |-> [t \in Turns |-> NoTurn], kept |-> {}, open |-> [d \in Dests |-> 0],
          known |-> {}, byId |-> [p \in Prompts |-> 0]]

NoQueue == [waiting |-> [d \in Dests |-> Nobody], inflight |-> [d \in Dests |-> 0],
            memory |-> <<>>]

Init == /\ opened = 0 /\ queue = NoQueue /\ log = NoLog /\ saved = NoLog
        /\ ledger = [items |-> <<>>, seen |-> {}, totals |-> Nobody]
        /\ sent = [d \in Dests |-> 0] /\ running = sent
        /\ asked = 0 /\ answers = [p \in Prompts |-> 0]
        /\ bills = <<>> /\ happened = {}

Larger(a, b) == IF a > b THEN a ELSE b

-----------------------------------------------------------------------------
(* The turn log. Each operator is the log after the method of that name. *)

\* The n oldest of the turns ts.
Oldest(ts, n) == {t \in ts : Cardinality({u \in ts : u < t}) < n}

OpenTurns(l) == {l.open[d] : d \in Dests} \ {0}

\* The oldest turns past Keep, of those that are not open.
Gone(l) == Oldest(l.kept \ OpenTurns(l), Larger(Cardinality(l.kept), Keep) - Keep)

\* They go with all the indexes hold of them.
Evict(l) ==
    [l EXCEPT !.kept  = @ \ Gone(l),
              !.known = @ \ Gone(l),
              !.byId  = [p \in Prompts |->
                           IF \E t \in Gone(l) : l.turn[t].prompt = p THEN 0 ELSE @[p]]]

Open(l, t, d, who) ==
    Evict([turn |-> [l.turn EXCEPT ![t] = Fresh(d, who)], open |-> [l.open EXCEPT ![d] = t],
           kept |-> l.kept \cup {t}, known |-> l.known \cup {t}, byId |-> l.byId])

\* The first hook to carry a prompt id names its destination's open turn.
BindPrompt(l, p, d) ==
    LET t == l.open[d] IN
    IF t = 0 \/ p = 0 THEN l
    ELSE IF l.turn[t].prompt # 0 THEN l
    ELSE [l EXCEPT !.turn[t].prompt = p, !.byId[p] = t]

\* Work of prompt p is put down to the turn that is open.
Did(l, p, d) ==
    IF l.open[d] = 0 THEN l
    ELSE [l EXCEPT !.turn[l.open[d]].did = @ \cup {p}]

Activity(l, p, d) == Did(BindPrompt(l, p, d), p, d)

\* The turn ends, with the usage of p if a prompt ended it.
Close(l, p, d) ==
    LET b == IF p = 0 THEN l ELSE Activity(l, p, d) IN
    IF b.open[d] = 0 THEN b
    ELSE [b EXCEPT !.turn[b.open[d]].done = TRUE, !.open[d] = 0]

\* The log as a restart finds it: the newest turns, none of them open.
Recent(l) ==
    LET ts == l.kept \ Oldest(l.kept, Larger(Cardinality(l.kept), Saved) - Saved)
        of(p) == {t \in ts : l.turn[t].prompt = p}
    IN [l EXCEPT !.turn = [t \in Turns |-> IF t \in ts THEN l.turn[t] ELSE NoTurn],
                 !.kept = ts, !.known = ts, !.open = [d \in Dests |-> 0],
                 !.byId = [p \in Prompts |->
                             IF of(p) = {} THEN 0
                             ELSE CHOOSE t \in of(p) : \A u \in of(p) : u <= t]]

-----------------------------------------------------------------------------
(* The queue, as far as turns and prompts go. *)

\* The prompt memory after a set(): a key that is there keeps its place.
Put(memory, key, who) ==
    IF \E i \in DOMAIN memory : memory[i].key = key
    THEN [i \in DOMAIN memory |->
            IF memory[i].key = key THEN [key |-> key, who |-> who] ELSE memory[i]]
    ELSE Append(memory, [key |-> key, who |-> who])

\* The oldest entries past Memory go, but for what is behind Inflight.
Trim(memory) ==
    LET keepFrom == {i \in DOMAIN memory :
                        /\ i <= Larger(Len(memory), Memory) - Memory
                        /\ \A j \in 1..i : memory[j].key # Inflight}
    IN SubSeq(memory, Cardinality(keepFrom) + 1, Len(memory))

EndTurn(q, p, d) ==
    [q EXCEPT !.inflight[d] = 0,
              !.memory = IF p = 0 \/ q.inflight[d] = 0 THEN @
                         ELSE Trim(Put(@, p, log.turn[q.inflight[d]].who))]

BeginTurn(q, t, d) ==
    [q EXCEPT !.waiting[d] = Nobody, !.inflight[d] = t,
              !.memory = IF d = Local THEN Put(@, Inflight, q.waiting[d]) ELSE @]

Waited(q) == {d \in Dests : q.waiting[d] # Nobody}

\* Mutant: a destination gets its next turn while one is in flight.
ReadyBusy(q) == Waited(q)

\* The idle destinations that somebody waits for.
Ready(q) == {d \in Waited(q) : q.inflight[d] = 0}

\* drain(): one of them gets its turn.
Drain(q, l) ==
    \/ /\ Ready(q) = {}
       /\ queue' = q /\ log' = l /\ UNCHANGED <<opened, sent>>
    \/ \E d \in Ready(q) :
          /\ opened' = opened + 1
          /\ queue' = BeginTurn(q, opened', d)
          /\ log' = Open(l, opened', d, q.waiting[d])
          /\ sent' = [sent EXCEPT ![d] = opened']

-----------------------------------------------------------------------------
(* The ledger. *)

\* Math.round(a / b)
Nearest(a, b) == (2 * a + b) \div (2 * b)

Paying(who) == {m \in Members : who[m] > 0}

\* The whole tokens each participant is charged.
Split(use, who) ==
    [m \in Members |->
        IF who[m] = 0 THEN 0
        ELSE IF SplitMode = "weighted" THEN Nearest(use * who[m], SumFunction(who))
        ELSE Nearest(use, Cardinality(Paying(who)))]

\* Mutant: prompts are forgotten one item too soon.
RecordForgets(led, p, use, who) ==
    IF p \in led.seen THEN led
    ELSE LET all  == Append(led.items, p)
             over == Larger(Len(all), Items) - Items
         IN [items  |-> SubSeq(all, over + 1, Len(all)),
             seen   |-> {all[i] : i \in (over + 2)..Len(all)} \ {0},
             totals |-> [m \in Members |-> led.totals[m] + Split(use, who)[m]]]

\* Nothing is taken up twice for a prompt; what has no prompt always is.
Record(led, p, use, who) ==
    IF p \in led.seen THEN led
    ELSE LET all  == Append(led.items, p)
             over == Larger(Len(all), Items) - Items
         IN [items  |-> SubSeq(all, over + 1, Len(all)),
             seen   |-> ((led.seen \cup {p}) \ {all[i] : i \in 1..over}) \ {0},
             totals |-> [m \in Members |-> led.totals[m] + Split(use, who)[m]]]

-----------------------------------------------------------------------------
(* The room's handlers. *)

Happens(what) == /\ what \in Upsets \ happened /\ Cardinality(happened) < MaxUpsets
                 /\ happened' = happened \cup {what}

\* A message for d, a seat being for its owner; those that wait for one destination
\* make one turn.
Submit(d, m) ==
    /\ d \in Seats => m = Owner[d]
    /\ queue.waiting[d][m] = 0
    /\ opened + Cardinality(Waited(queue) \cup {d}) <= MaxTurns
    /\ Drain([queue EXCEPT !.waiting[d][m] = Length[m]], log)
    /\ UNCHANGED <<saved, ledger, running, asked, answers, hist>>

\* A seat's turns are its owner's; for the local session the prompt memory knows.
Payers(p, d) ==
    IF d \in Seats THEN [Nobody EXCEPT ![Owner[d]] = 1]
    ELSE LET known(key) == {i \in DOMAIN queue.memory : queue.memory[i].key = key}
         IN IF known(p) # {} THEN queue.memory[CHOOSE i \in known(p) : TRUE].who
            ELSE IF known(Inflight) # {} THEN queue.memory[CHOOSE i \in known(Inflight) : TRUE].who
            ELSE Nobody

\* The transcript of p can be read and tells of use tokens, or it cannot (0).
Charge(p, d, use) ==
    IF use = 0 THEN UNCHANGED <<ledger, bills>>
    ELSE /\ ledger' = Record(ledger, p, use, Payers(p, d))
         /\ bills' = IF p \in ledger.seen THEN bills
                     ELSE Append(bills, [prompt |-> p, dest |-> d, use |-> use, who |-> Payers(p, d)])

\* handleHook("Stop"), with its drain.
HandleStop(p, d) ==
    /\ \E use \in Uses : Charge(p, d, use)
    /\ saved' = Recent(Close(log, p, d))
    /\ Drain(EndTurn(queue, p, d), Close(log, p, d))

\* PreToolUse, PostToolUse and Notification.
Tool(d) ==
    /\ running[d] # 0
    /\ log' = Activity(log, running[d], d)
    /\ UNCHANGED <<opened, queue, saved, ledger, sessions, hist>>

\* The session answers through the channel or the seat.
Reply(d) ==
    /\ running[d] # 0
    /\ log' = Did(log, running[d], d)
    /\ UNCHANGED <<opened, queue, saved, ledger, sessions, hist>>

Stop(d) ==
    /\ running[d] # 0
    /\ HandleStop(running[d], d)
    /\ running' = [running EXCEPT ![d] = 0]
    /\ UNCHANGED <<asked, answers, happened>>

\* The observer's own spending takes a place in the ledger.
Spend ==
    /\ Len(SelectSeq(bills, LAMBDA b : b.prompt = 0)) < MaxNotes
    /\ ledger' = Record(ledger, 0, 1, Nobody)
    /\ bills' = Append(bills, [prompt |-> 0, dest |-> Local, use |-> 1, who |-> Nobody])
    /\ UNCHANGED <<opened, queue, log, saved, sessions, happened>>

-----------------------------------------------------------------------------
(* The sessions. *)

\* A session that is at rest takes the turn it was sent.
Begin(d) ==
    /\ sent[d] # 0 /\ running[d] = 0 /\ asked < MaxPrompts
    /\ asked' = asked + 1
    /\ running' = [running EXCEPT ![d] = asked']
    /\ answers' = [answers EXCEPT ![asked'] = sent[d]]
    /\ sent' = [sent EXCEPT ![d] = 0]
    /\ UNCHANGED <<opened, queue, log, saved, ledger, hist>>

\* The host types a prompt in the local session.
OwnPrompt ==
    /\ running[Local] = 0 /\ asked < MaxPrompts
    /\ Happens("own")
    /\ asked' = asked + 1
    /\ running' = [running EXCEPT ![Local] = asked']
    /\ UNCHANGED <<opened, queue, log, saved, ledger, sent, answers, bills>>

\* A Stop hook is sent again, before the ledger took up Items other prompts.
Refire(p, d) ==
    /\ \E i \in DOMAIN bills : /\ bills[i].prompt = p /\ bills[i].dest = d
                               /\ i > Larger(Len(bills), Items) - Items
    /\ Happens("refire")
    /\ HandleStop(p, d)
    /\ UNCHANGED <<running, asked, answers>>

\* A seat's feed drops in mid-turn, and the turn is given up.
Abandon(d) ==
    /\ d \in Seats /\ queue.inflight[d] # 0
    /\ Happens("drop")
    /\ queue' = EndTurn(queue, 0, d)
    /\ log' = Close(log, 0, d) /\ saved' = Recent(log')
    /\ \/ sent' = [sent EXCEPT ![d] = 0]
       \/ UNCHANGED sent
    /\ UNCHANGED <<opened, ledger, running, asked, answers, bills>>

\* The room dies and starts over on what it saved; the sessions do not notice.
Restart(l) ==
    /\ Happens("crash")
    /\ queue' = NoQueue /\ log' = l /\ saved' = l
    /\ UNCHANGED <<opened, sent, asked, answers>>

Crash == Restart(saved) /\ UNCHANGED <<ledger, running, bills>>

\* It dies in Stop, between the ledger and the log.
StopDies(d) ==
    /\ running[d] # 0
    /\ \E use \in Uses \ {0} : Charge(running[d], d, use)
    /\ running' = [running EXCEPT ![d] = 0]
    /\ Restart(saved)

Next == \/ Spend \/ OwnPrompt \/ Crash
        \/ \E d \in Dests :
              \/ \E m \in Members : Submit(d, m)
              \/ Begin(d) \/ Tool(d) \/ Reply(d) \/ Stop(d)
              \/ \E p \in Prompts : Refire(p, d)
              \/ Abandon(d) \/ StopDies(d)

Spec == Init /\ [][Next]_vars

-----------------------------------------------------------------------------
(* Properties. *)

\* Every variable keeps its type.
TypeOK ==
    /\ opened \in 0..MaxTurns /\ asked \in 0..MaxPrompts
    /\ queue \in Queue /\ log \in Log /\ saved \in Log
    /\ ledger.items \in Seq(0..MaxPrompts) /\ ledger.seen \subseteq Prompts
    /\ sent \in [Dests -> 0..MaxTurns] /\ running \in [Dests -> 0..MaxPrompts]
    /\ answers \in [Prompts -> 0..MaxTurns]
    /\ bills \in Seq(Bill)
    /\ happened \subseteq Upsets

\* No prompt is charged twice, whatever hooks are repeated and wherever the room
\* is restarted (src/src/ledger.mjs:90).
ChargedOnce ==
    \A i, j \in DOMAIN bills : bills[i].prompt = bills[j].prompt => i = j \/ bills[i].prompt = 0

\* While nothing goes wrong, the work of a prompt is put down to the turn it
\* answers, with sessions of several destinations at work at once.
RightTurn ==
    happened = {} =>
        \A t \in 1..opened :
            /\ \A p \in log.turn[t].did : answers[p] = t
            /\ log.turn[t].prompt # 0 => answers[log.turn[t].prompt] = t

\* Who composed a turn pays for it: its authors, or the seat's owner.
Composers(p) ==
    LET t == log.turn[answers[p]] IN
    IF t.dest = Local THEN t.who ELSE [Nobody EXCEPT ![Owner[t.dest]] = 1]

\* While nothing goes wrong, those who composed a turn are charged for it, though
\* the room has started the next one by the time it is asked about a prompt.
ComposersPay ==
    happened = {} =>
        \A i \in DOMAIN bills :
            bills[i].prompt # 0 => bills[i].who = Composers(bills[i].prompt)

Linked(l) ==
    /\ OpenTurns(l) \subseteq l.kept
    /\ l.known = l.kept
    /\ \A p \in Prompts : l.byId[p] \in l.kept \cup {0}

\* The log stays bounded, loses no open turn, and its indexes hold the turns it
\* keeps and no other; a turn can be found by its prompt, unless another took it.
IndexSound ==
    /\ Cardinality(log.kept) <= Larger(Keep, Cardinality(Dests))
    /\ Linked(log)
    /\ happened = {} =>
          \A t \in log.kept : log.turn[t].prompt # 0 => log.byId[log.turn[t].prompt] = t
=============================================================================
