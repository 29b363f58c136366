--------------------------- MODULE ExtensionProofs ---------------------------
(***************************************************************************)
(* Proofs about the VS Code extension. Its chat (Chat), for any number of     *)
(* gestures, reports, mode changes and mishaps: what its view does is owed,   *)
(* what answers a probe is what it hides until a probe goes astray, its chip  *)
(* tells the mode of the process that runs, and the destructive mode takes    *)
(* two clicks. The heart of it is the line of owed turns (InLine): until a    *)
(* probe goes astray the only one there is, is the one in flight, at the head *)
(* of what the process the chat is wired to owes.                            *)
(*                                                                         *)
(* And its window (Window), for any number of sessions, commands, processes  *)
(* and upsets: its session has its room, nothing is orphaned, and the view    *)
(* tells what is shared. The heart of it is which processes each await finds  *)
(* (Stages), which rests on one thing being at work at a time (Control).      *)
(***************************************************************************)
EXTENDS Chat, Window, SequenceTheorems, TLAPS

\* Turns on their way to a process, in the messages th of the webview.
Way(th) == {th[i].turn : i \in {j \in 1..Len(th) : th[j].kind = "input"}}

\* A click on the destructive row arms it, and only that does.
Armed == webview.armed => clicks >= 1

Busy(s) == switch[s].at \in {"saving", "killing"}

\* While no change of the mode crosses another, one is at work at most, and no process runs
\* but the supervised one. It has the chip's mode, until it has been stopped, and its
\* successor will have the mode the chip is told.
ModesFollow ==
    /\ host.supervised \in {0, host.wired}
    /\ "cross" \notin troubled =>
          /\ \A s, r \in Switches : Busy(s) /\ Busy(r) => s = r
          /\ \A p \in Procs : Live(p) => p = host.supervised
          /\ (\A s \in Switches : switch[s].at # "killing") =>
                /\ \A p \in Procs : Live(p) => claude[p].mode = webview.chip
                /\ host.supervised = 0 => "nostart" \in troubled
          /\ \A s \in Switches : switch[s].at = "killing" =>
                switch[s].mode = host.mode /\ host.supervised = 0

OwesNone(p) == claude[p].input = <<>> /\ claude[p].turn = NoTurn

\* What was stopped in order owed nothing, and what has ended, or was not born, owes nothing.
NothingCut ==
    troubled \cap {"kill", "crash"} = {} =>
        \A p \in Procs : claude[p].state = "dying" => OwesNone(p)
Silent == \A p \in Procs : ~Prints(p) => OwesNone(p)

Plain(turn, input) ==
    turn.from # "probe" /\ \A i \in DOMAIN input : input[i].from # "probe"
PlainWay(th) == \A i \in DOMAIN th : th[i].kind = "input" => th[i].turn.from # "probe"

\* The line of owed turns is the turn of a process, its input, and what is on its way to
\* it. A probe is nowhere but at its head, and one is in flight just when one is there.
Line(turn, input, th, inFlight) ==
    /\ turn.from = "probe" => inFlight # None
    /\ \A i \in DOMAIN input : input[i].from = "probe" =>
          i = 1 /\ turn = NoTurn /\ inFlight # None
    /\ \A i \in DOMAIN th : (th[i].kind = "input" /\ th[i].turn.from = "probe") =>
          /\ turn = NoTurn /\ input = <<>> /\ inFlight # None
          /\ \A j \in DOMAIN th : j < i => th[j].kind # "input"
    /\ inFlight # None /\ PlainWay(th) => ~Plain(turn, input)

\* Until one goes astray, probes are asked for in the line of the wired process alone, and
\* while one is in flight nobody else owes anything.
InLine ==
    ~astray =>
        /\ \A p \in Procs : p # host.wired => Plain(claude[p].turn, claude[p].input)
        /\ Line(claude[host.wired].turn, claude[host.wired].input, toHost, probes.inFlight)
        /\ probes.inFlight # None => \A p \in Procs : p # host.wired \/ ~Live(p) => OwesNone(p)

Core == ModesFollow /\ NothingCut /\ Silent /\ InLine /\ ViewIsOwed

ChatInv == TypeOK /\ Armed /\ Core

LEMMA AtEnd ==
    ASSUME NEW S, NEW s \in Seq(S), NEW e \in S
    PROVE  /\ Append(s, e) \in Seq(S) /\ Len(s) \in Nat /\ Len(Append(s, e)) = Len(s) + 1
           /\ DOMAIN s = 1..Len(s) /\ DOMAIN Append(s, e) = 1..(Len(s) + 1)
           /\ \A i \in 1..Len(s) : Append(s, e)[i] = s[i] /\ s[i] \in S
           /\ Append(s, e)[Len(s) + 1] = e
<1>1. /\ Append(s, e) \in Seq(S) /\ Len(Append(s, e)) = Len(s) + 1
      /\ \A i \in 1..Len(s) : Append(s, e)[i] = s[i]
      /\ Append(s, e)[Len(s) + 1] = e
  BY AppendProperties
<1> QED BY <1>1, LenProperties

LEMMA AtFront ==
    ASSUME NEW S, NEW s \in Seq(S), s # <<>>
    PROVE  /\ Tail(s) \in Seq(S) /\ Len(s) \in Nat /\ Len(s) > 0 /\ Len(Tail(s)) = Len(s) - 1
           /\ DOMAIN s = 1..Len(s) /\ DOMAIN Tail(s) = 1..(Len(s) - 1)
           /\ Head(s) = s[1] /\ Head(s) \in S
           /\ \A i \in 1..(Len(s) - 1) : Tail(s)[i] = s[i + 1] /\ i + 1 \in 1..Len(s)
<1>1. Len(s) \in Nat /\ Len(s) > 0 /\ DOMAIN s = 1..Len(s) /\ Head(s) = s[1] /\ Head(s) \in S
  BY EmptySeq, LenProperties
<1>2. /\ Tail(s) \in Seq(S) /\ Len(Tail(s)) = Len(s) - 1
      /\ \A i \in 1..(Len(s) - 1) : Tail(s)[i] = s[i + 1]
  BY <1>1, HeadTailProperties
<1> QED BY <1>1, <1>2, LenProperties

\* What is on the way when a message is sent, and when one arrives.
LEMMA WayGrows ==
    ASSUME NEW th \in Seq(Message), NEW m \in Message
    PROVE  /\ Way(th) \subseteq Way(Append(th, m))
           /\ m.kind = "input" => m.turn \in Way(Append(th, m))
           /\ Way(th) = {} => \A i \in DOMAIN th : th[i].kind # "input"
<1>1. /\ Append(th, m) \in Seq(Message) /\ Len(th) \in Nat /\ Len(Append(th, m)) = Len(th) + 1
      /\ DOMAIN th = 1..Len(th)
      /\ \A i \in 1..Len(th) : Append(th, m)[i] = th[i]
      /\ Append(th, m)[Len(th) + 1] = m
  BY AtEnd
<1> HIDE DEF Message
<1>2. ASSUME NEW i \in 1..Len(th), th[i].kind = "input"
      PROVE  th[i].turn \in Way(Append(th, m))
  <2>1. i \in 1..Len(Append(th, m)) /\ Append(th, m)[i] = th[i]
    BY <1>1
  <2> QED BY <1>2, <2>1 DEF Way
<1>3. Way(th) \subseteq Way(Append(th, m))
  BY <1>2 DEF Way
<1>4. m.kind = "input" => m.turn \in Way(Append(th, m))
  <2>1. Len(th) + 1 \in 1..Len(Append(th, m))
    BY <1>1
  <2> QED BY <1>1, <2>1 DEF Way
<1>5. Way(th) = {} => \A i \in DOMAIN th : th[i].kind # "input"
  BY <1>1 DEF Way
<1> QED BY <1>3, <1>4, <1>5

LEMMA WayShrinks ==
    ASSUME NEW th \in Seq(Message), th # <<>>
    PROVE  \A t \in Way(th) : t \in Way(Tail(th)) \/ (Head(th).kind = "input" /\ t = Head(th).turn)
<1>1. /\ Len(th) \in Nat /\ Len(th) > 0 /\ Head(th) = th[1]
      /\ Len(Tail(th)) = Len(th) - 1
      /\ \A i \in 1..(Len(th) - 1) : Tail(th)[i] = th[i + 1]
  BY AtFront
<1>2. ASSUME NEW i \in 1..Len(th), th[i].kind = "input", i # 1
      PROVE  th[i].turn \in Way(Tail(th))
  <2>1. i - 1 \in 1..Len(Tail(th)) /\ Tail(th)[i - 1] = th[i]
    BY <1>1, <1>2
  <2> QED BY <1>2, <2>1 DEF Way
<1> QED BY <1>1, <1>2 DEF Way

----------------------------------------------------------------------------
(* The probe queue.                                                        *)

\* A request sends nothing and leaves what is in flight, or sends what it puts in flight.
LEMMA RequestGives ==
    ASSUME NEW f \in Probes \cup {None}, NEW qs \in Seq(Probes), NEW name \in Probes,
           NEW r, r = Request([inFlight |-> f, queued |-> qs, sent |-> <<>>], name)
    PROVE  /\ r.queued \in Seq(Probes)
           /\ \/ r.sent = <<>> /\ r.inFlight = f
              \/ f = None /\ \E x \in Probes : r.sent = <<x>> /\ r.inFlight = x
<1> DEFINE q == [inFlight |-> f, queued |-> qs, sent |-> <<>>]
           l == Append(qs, name)
           g == [inFlight |-> f, queued |-> l, sent |-> <<>>]
<1>1. /\ l \in Seq(Probes) /\ l # <<>> /\ Head(l) \in Probes /\ Tail(l) \in Seq(Probes)
  <2>1. l \in Seq(Probes) /\ Len(l) = Len(qs) + 1 /\ Len(qs) \in Nat
    BY AtEnd
  <2>2. l # <<>>
    BY <2>1
  <2> QED BY <2>1, <2>2, AtFront
<1>2. r = q \/ r = Dispatch(g)
  BY DEF Request
<1>3. CASE r = q
  BY <1>3
<1> HIDE DEF l
<1>4. CASE r = Dispatch(g) /\ f # None
  <2>1. r = g
    BY <1>4 DEF Dispatch
  <2> QED BY <1>1, <2>1
<1>5. CASE r = Dispatch(g) /\ f = None
  <2>1. r = [inFlight |-> Head(l), queued |-> Tail(l), sent |-> Append(<<>>, Head(l))]
    BY <1>1, <1>5 DEF Dispatch
  <2>2. Append(<<>>, Head(l)) = <<Head(l)>>
    OBVIOUS
  <2>3. r.queued = Tail(l) /\ r.sent = <<Head(l)>> /\ r.inFlight = Head(l)
    BY <2>1, <2>2
  <2> QED BY <1>1, <1>5, <2>3
<1> QED BY <1>2, <1>3, <1>4, <1>5

\* An answer leaves nothing in flight, or the next that waited, which it sends.
LEMMA AnswerGives ==
    ASSUME NEW f \in Probes \cup {None}, NEW qs \in Seq(Probes),
           NEW r, r = Answer([inFlight |-> f, queued |-> qs, sent |-> <<>>])
    PROVE  /\ r.queued \in Seq(Probes)
           /\ \/ r.sent = <<>> /\ r.inFlight = None
              \/ \E x \in Probes : r.sent = <<x>> /\ r.inFlight = x
<1> DEFINE g == [inFlight |-> None, queued |-> qs, sent |-> <<>>]
<1>1. r = Dispatch(g)
  BY DEF Answer
<1>2. CASE qs = <<>>
  <2>1. r = g
    BY <1>1, <1>2 DEF Dispatch
  <2> QED BY <2>1
<1>3. CASE qs # <<>>
  <2>1. Head(qs) \in Probes /\ Tail(qs) \in Seq(Probes)
    BY <1>3, AtFront
  <2>2. r = [inFlight |-> Head(qs), queued |-> Tail(qs), sent |-> Append(<<>>, Head(qs))]
    BY <1>1, <1>3 DEF Dispatch
  <2>3. Append(<<>>, Head(qs)) = <<Head(qs)>>
    OBVIOUS
  <2>4. r.queued = Tail(qs) /\ r.sent = <<Head(qs)>> /\ r.inFlight = Head(qs)
    BY <2>2, <2>3
  <2> QED BY <2>1, <2>4
<1> QED BY <1>2, <1>3

ProbeTurn(x) == [from |-> "probe", what |-> x]

\* What a queue has sent is at the end of the messages.
LEMMA KeepSends ==
    ASSUME NEW q, NEW others, Keep(q, others), toHost \in Seq(Message),
           q.sent = <<>> \/ \E x \in Probes : q.sent = <<x>>
    PROVE  /\ probes' = [inFlight |-> q.inFlight, queued |-> q.queued]
           /\ q.sent = <<>> => toHost' = toHost
           /\ \A x \in Probes : q.sent = <<x>> =>
                 /\ toHost' = Append(toHost, Input("probe", x))
                 /\ Input("probe", x) \in Message /\ Input("probe", x).kind = "input"
                 /\ Input("probe", x).turn = ProbeTurn(x)
<1>1. /\ probes' = [inFlight |-> q.inFlight, queued |-> q.queued]
      /\ toHost' = toHost \o [i \in 1..Len(q.sent) |-> Input("probe", q.sent[i])]
  BY DEF Keep
<1>2. ASSUME q.sent = <<>>
      PROVE  toHost' = toHost
  <2>1. [i \in 1..Len(q.sent) |-> Input("probe", q.sent[i])] = <<>>
    BY <1>2
  <2> QED BY <1>1, <2>1
<1>3. ASSUME NEW x \in Probes, q.sent = <<x>>
      PROVE  /\ toHost' = Append(toHost, Input("probe", x))
             /\ Input("probe", x) \in Message /\ Input("probe", x).kind = "input"
             /\ Input("probe", x).turn = ProbeTurn(x)
  <2>1. PICK m : m = Input("probe", x)
    OBVIOUS
  <2>2. m \in Message /\ m.kind = "input" /\ m.turn = ProbeTurn(x)
    BY <2>1 DEF Input, Message, Turn, Probes, ProbeTurn
  <2>3. [i \in 1..Len(q.sent) |-> Input("probe", q.sent[i])] = <<m>>
    <3>1. Len(q.sent) = 1 /\ q.sent[1] = x
      BY <1>3
    <3>2. [i \in 1..1 |-> Input("probe", q.sent[i])] = [i \in 1..1 |-> m]
      BY <2>1, <3>1
    <3>3. [i \in 1..1 |-> m] = <<m>>
      OBVIOUS
    <3> QED BY <3>1, <3>2, <3>3
  <2>4. toHost' = toHost \o <<m>>
    BY <1>1, <2>3
  <2>5. toHost' = Append(toHost, m)
    BY <2>2, <2>4
  <2> QED BY <2>1, <2>2, <2>5
<1> QED BY <1>1, <1>2, <1>3

----------------------------------------------------------------------------
(* Steps that only add to what is owed.                                     *)

----------------------------------------------------------------------------
(* What a step does to the line.                                            *)

\* No turn is a probe's in an empty line.
LEMMA PlainNothing == Plain(NoTurn, <<>>)
BY DEF Plain, NoTurn, None

\* A message that is no probe joins the line behind what is there.
LEMMA PlainJoins ==
    ASSUME NEW th \in Seq(Message), NEW m \in Message, NEW turn, NEW input, NEW f,
           m.kind = "input" => m.turn.from # "probe", Line(turn, input, th, f)
    PROVE  Line(turn, input, Append(th, m), f)
<1>1. /\ Len(th) \in Nat /\ DOMAIN th = 1..Len(th) /\ DOMAIN Append(th, m) = 1..(Len(th) + 1)
      /\ \A i \in 1..Len(th) : Append(th, m)[i] = th[i]
      /\ Append(th, m)[Len(th) + 1] = m
  BY AtEnd
<1> DEFINE a == Append(th, m)
<1> HIDE DEF Message, a
<1>2. ASSUME NEW i \in DOMAIN a, a[i].kind = "input", a[i].turn.from = "probe"
      PROVE  /\ turn = NoTurn /\ input = <<>> /\ f # None
             /\ \A j \in DOMAIN a : j < i => a[j].kind # "input"
  <2>1. i \in DOMAIN th /\ a[i] = th[i]
    BY <1>1, <1>2 DEF a
  <2>2. \A j \in DOMAIN a : j < i => j \in DOMAIN th /\ a[j] = th[j]
    BY <1>1, <2>1 DEF a
  <2> QED BY <1>2, <2>1, <2>2 DEF Line
<1>3. PlainWay(a) => PlainWay(th)
  BY <1>1 DEF PlainWay, a
<1>4. Line(turn, input, a, f)
  BY <1>2, <1>3 DEF Line
<1> QED BY <1>4 DEF a

\* A probe that is sent into an empty line is its head.
LEMMA ProbeJoins ==
    ASSUME NEW th \in Seq(Message), NEW m \in Message, NEW x \in Probes,
           m.kind = "input", m.turn = ProbeTurn(x),
           \A i \in DOMAIN th : th[i].kind # "input"
    PROVE  Line(NoTurn, <<>>, Append(th, m), x)
<1>1. /\ Len(th) \in Nat /\ DOMAIN th = 1..Len(th) /\ DOMAIN Append(th, m) = 1..(Len(th) + 1)
      /\ \A i \in 1..Len(th) : Append(th, m)[i] = th[i]
      /\ Append(th, m)[Len(th) + 1] = m
  BY AtEnd
<1> HIDE DEF Message
<1>2. x # None
  BY DEF Probes, None
<1>3. \A j \in DOMAIN Append(th, m) : j < Len(th) + 1 => Append(th, m)[j].kind # "input"
  BY <1>1
<1>4. NoTurn.from # "probe"
  BY DEF NoTurn, None
<1>5. ~PlainWay(Append(th, m))
  <2>1. Len(th) + 1 \in DOMAIN Append(th, m) /\ m.turn.from = "probe"
    BY <1>1 DEF ProbeTurn
  <2> QED BY <1>1, <2>1 DEF PlainWay
<1> QED BY <1>1, <1>2, <1>3, <1>4, <1>5 DEF Line

\* With nothing in flight there is no probe, and without a probe nothing is in flight.
LEMMA NoProbe ==
    ASSUME NEW turn, NEW input, NEW th, Line(turn, input, th, None)
    PROVE  Plain(turn, input) /\ PlainWay(th)
BY DEF Line, Plain, PlainWay

LEMMA AllPlain ==
    ASSUME NEW turn, NEW input, NEW th, Plain(turn, input), PlainWay(th)
    PROVE  Line(turn, input, th, None)
BY DEF Line, Plain, PlainWay

\* A message leaves the way; one that is no input leaves the line as it is.
LEMMA WayLeaves ==
    ASSUME NEW th \in Seq(Message), th # <<>>
    PROVE  /\ PlainWay(th) => PlainWay(Tail(th))
           /\ PlainWay(Tail(th)) /\ ~PlainWay(th) =>
                 Head(th).kind = "input" /\ Head(th).turn.from = "probe"
           /\ \A turn, input, f :
                 Head(th).kind # "input" /\ Line(turn, input, th, f) => Line(turn, input, Tail(th), f)
<1> DEFINE r == Tail(th)
<1>1. /\ Len(th) \in Nat /\ Len(th) > 0 /\ DOMAIN th = 1..Len(th) /\ DOMAIN r = 1..(Len(th) - 1)
      /\ Head(th) = th[1]
      /\ \A i \in 1..(Len(th) - 1) : r[i] = th[i + 1] /\ i + 1 \in 1..Len(th)
  BY AtFront
<1> HIDE DEF r, Message
<1>2. PlainWay(th) => PlainWay(r)
  BY <1>1 DEF PlainWay
<1>3. ASSUME PlainWay(r), ~PlainWay(th)
      PROVE  Head(th).kind = "input" /\ Head(th).turn.from = "probe"
  <2>1. PICK i \in DOMAIN th : th[i].kind = "input" /\ th[i].turn.from = "probe"
    BY <1>3 DEF PlainWay
  <2>2. ASSUME i # 1 PROVE FALSE
    <3>1. i - 1 \in DOMAIN r /\ r[i - 1] = th[i]
      BY <1>1, <2>1, <2>2
    <3> QED BY <1>3, <2>1, <3>1 DEF PlainWay
  <2> QED BY <1>1, <2>1, <2>2
<1>4. ASSUME NEW turn, NEW input, NEW f, Head(th).kind # "input", Line(turn, input, th, f)
      PROVE  Line(turn, input, r, f)
  <2>1. ASSUME NEW i \in DOMAIN r, r[i].kind = "input", r[i].turn.from = "probe"
        PROVE  /\ turn = NoTurn /\ input = <<>> /\ f # None
               /\ \A j \in DOMAIN r : j < i => r[j].kind # "input"
    <3>1. i + 1 \in DOMAIN th /\ th[i + 1] = r[i] /\ i \in Nat
      BY <1>1, <2>1
    <3>2. \A j \in DOMAIN r : j < i => j + 1 \in DOMAIN th /\ r[j] = th[j + 1] /\ j + 1 < i + 1
      BY <1>1, <3>1
    <3> QED BY <1>4, <2>1, <3>1, <3>2 DEF Line
  <2>2. PlainWay(r) => PlainWay(th)
    BY <1>3, <1>4
  <2> QED BY <1>4, <2>1, <2>2 DEF Line
<1> QED BY <1>2, <1>3, <1>4 DEF r

\* A message goes from the line's way to its input.
LEMMA LineMoves ==
    ASSUME NEW th \in Seq(Message), th # <<>>, Head(th).kind = "input",
           NEW turn, NEW input \in Seq(Turn), NEW f, Line(turn, input, th, f)
    PROVE  Line(turn, Append(input, Head(th).turn), Tail(th), f)
<1> DEFINE l == Append(input, Head(th).turn)
           r == Tail(th)
<1>1. /\ Len(th) \in Nat /\ Len(th) > 0 /\ DOMAIN th = 1..Len(th) /\ DOMAIN r = 1..(Len(th) - 1)
      /\ Head(th) = th[1] /\ th[1] \in Message
      /\ \A i \in 1..(Len(th) - 1) : r[i] = th[i + 1] /\ i + 1 \in 1..Len(th)
  BY AtFront
<1>2. th[1].turn \in Turn
  BY <1>1 DEF Message
<1>3. /\ Len(input) \in Nat /\ DOMAIN input = 1..Len(input) /\ DOMAIN l = 1..(Len(input) + 1)
      /\ \A i \in 1..Len(input) : l[i] = input[i]
      /\ l[Len(input) + 1] = th[1].turn
  BY <1>1, <1>2, AtEnd
<1>4. PlainWay(r) /\ ~PlainWay(th) => th[1].turn.from = "probe"
  BY <1>1, WayLeaves
<1> HIDE DEF l, r, Message, Turn
<1>5. ASSUME NEW i \in DOMAIN l, l[i].from = "probe"
      PROVE  i = 1 /\ turn = NoTurn /\ f # None
  <2>1. CASE i \in DOMAIN input
    BY <1>3, <1>5, <2>1 DEF Line
  <2>2. CASE i = Len(input) + 1
    <3>1. th[1].kind = "input" /\ th[1].turn.from = "probe" /\ 1 \in DOMAIN th
      BY <1>1, <1>3, <1>5, <2>2
    <3>2. turn = NoTurn /\ input = <<>> /\ f # None
      BY <3>1 DEF Line
    <3> QED BY <1>3, <2>2, <3>2
  <2> QED BY <1>3, <1>5, <2>1, <2>2
<1>6. ASSUME NEW i \in DOMAIN r, r[i].kind = "input", r[i].turn.from = "probe"
      PROVE  FALSE
  <2>1. th[i + 1].kind = "input" /\ th[i + 1].turn.from = "probe" /\ i + 1 \in DOMAIN th /\ 1 < i + 1
        /\ 1 \in DOMAIN th
    BY <1>1, <1>6
  <2>2. \A j \in DOMAIN th : j < i + 1 => th[j].kind # "input"
    BY <2>1 DEF Line
  <2> QED BY <1>1, <2>1, <2>2
<1>7. f # None /\ PlainWay(r) => ~Plain(turn, l)
  <2>1. SUFFICES ASSUME f # None, PlainWay(r), Plain(turn, l) PROVE FALSE
    OBVIOUS
  <2>2. Plain(turn, input)
    BY <1>3, <2>1 DEF Plain
  <2>3. th[1].turn.from # "probe"
    BY <1>3, <2>1 DEF Plain
  <2> QED BY <1>4, <2>1, <2>2, <2>3 DEF Line
<1>8. Line(turn, l, r, f)
  BY <1>5, <1>6, <1>7 DEF Line
<1> QED BY <1>8 DEF l, r

\* A message that is no probe is lost before it is in an empty line.
LEMMA LineLoses ==
    ASSUME NEW th \in Seq(Message), th # <<>>, Head(th).kind = "input",
           Head(th).turn.from # "probe", NEW turn, NEW input, NEW f, Line(turn, input, th, f),
           f # None => turn = NoTurn /\ input = <<>>
    PROVE  Line(turn, input, Tail(th), f)
<1>1. /\ Len(th) \in Nat /\ Len(th) > 0 /\ DOMAIN th = 1..Len(th) /\ Head(th) = th[1]
  BY AtFront
<1>2. f = None
  <2>1. SUFFICES ASSUME f # None PROVE FALSE
    OBVIOUS
  <2>2. ~PlainWay(th)
    BY <2>1, PlainNothing DEF Line
  <2>3. PICK i \in DOMAIN th : th[i].kind = "input" /\ th[i].turn.from = "probe"
    BY <2>2 DEF PlainWay
  <2>4. \A j \in DOMAIN th : j < i => th[j].kind # "input"
    BY <2>3 DEF Line
  <2>5. i # 1 /\ 1 \in DOMAIN th /\ i \in Nat /\ i > 1
    BY <1>1, <2>3
  <2> QED BY <1>1, <2>4, <2>5
<1>3. Plain(turn, input) /\ PlainWay(th)
  BY <1>2, NoProbe
<1>4. PlainWay(Tail(th))
  BY <1>3, WayLeaves
<1> QED BY <1>2, <1>3, <1>4, AllPlain

\* A turn that is no probe's is written to a process that no probe is on the way to.
LEMMA LineGrows ==
    ASSUME NEW th, NEW turn, NEW input \in Seq(Turn), NEW f, NEW t \in Turn,
           Line(turn, input, th, f), t.from # "probe", PlainWay(th)
    PROVE  Line(turn, Append(input, t), th, f)
<1> DEFINE l == Append(input, t)
<1>1. /\ Len(input) \in Nat /\ DOMAIN input = 1..Len(input) /\ DOMAIN l = 1..(Len(input) + 1)
      /\ \A i \in 1..Len(input) : l[i] = input[i]
      /\ l[Len(input) + 1] = t
  BY AtEnd
<1> HIDE DEF l, Turn
<1>2. \A i \in DOMAIN l : l[i].from = "probe" => i \in DOMAIN input /\ l[i] = input[i]
  BY <1>1
<1>3. Plain(turn, l) => Plain(turn, input)
  BY <1>1 DEF Plain
<1>4. Line(turn, l, th, f)
  BY <1>2, <1>3 DEF Line, PlainWay
<1> QED BY <1>4 DEF l

\* A process begins a turn.
LEMMA LineBegins ==
    ASSUME NEW th, NEW input \in Seq(Turn), input # <<>>, NEW f, Line(NoTurn, input, th, f)
    PROVE  Line(Head(input), Tail(input), th, f)
<1> DEFINE r == Tail(input)
<1>1. /\ Len(input) \in Nat /\ Len(input) > 0
      /\ DOMAIN input = 1..Len(input) /\ DOMAIN r = 1..(Len(input) - 1)
      /\ Head(input) = input[1]
      /\ \A i \in 1..(Len(input) - 1) : r[i] = input[i + 1] /\ i + 1 \in 1..Len(input)
  BY AtFront
<1> HIDE DEF r, Turn
<1>2. input[1].from = "probe" => f # None
  BY <1>1 DEF Line
<1>3. \A i \in DOMAIN r : r[i].from # "probe"
  <2>1. \A i \in DOMAIN r : i + 1 \in DOMAIN input /\ r[i] = input[i + 1] /\ i + 1 # 1
    BY <1>1
  <2> QED BY <2>1 DEF Line
<1>4. PlainWay(th)
  BY DEF Line, PlainWay
<1>5. f # None => input[1].from = "probe"
  <2>1. SUFFICES ASSUME f # None PROVE input[1].from = "probe"
    OBVIOUS
  <2>2. ~Plain(NoTurn, input)
    BY <1>4, <2>1 DEF Line
  <2>3. PICK i \in DOMAIN input : input[i].from = "probe"
    BY <2>2 DEF Plain, NoTurn, None
  <2>4. i = 1
    BY <2>3 DEF Line
  <2> QED BY <2>3, <2>4
<1>6. Line(input[1], r, th, f)
  BY <1>2, <1>3, <1>4, <1>5 DEF Line, Plain, PlainWay
<1> QED BY <1>1, <1>6 DEF r

\* A process ends a turn: a probe in flight is the one that is answered.
LEMMA LineEnds ==
    ASSUME NEW turn, NEW input, NEW th, NEW f, turn # NoTurn, Line(turn, input, th, f)
    PROVE  /\ Line(NoTurn, input, th, None)
           /\ f # None <=> turn.from = "probe"
<1>1. PlainWay(th) /\ \A i \in DOMAIN input : input[i].from # "probe"
  BY DEF Line, PlainWay
<1>2. Plain(NoTurn, input)
  BY <1>1 DEF Plain, NoTurn, None
<1>3. f # None <=> turn.from = "probe"
  BY <1>1 DEF Line, Plain
<1> QED BY <1>1, <1>2, <1>3, AllPlain

\* A process that no probe is with is gone.
LEMMA LineClears ==
    ASSUME NEW turn, NEW input, NEW th, NEW f, Plain(turn, input), Line(turn, input, th, f)
    PROVE  Line(NoTurn, <<>>, th, f) /\ (f # None => turn = NoTurn /\ input = <<>>)
<1>1. CASE f = None
  <2>1. PlainWay(th)
    BY <1>1, NoProbe
  <2> QED BY <1>1, <2>1, PlainNothing, AllPlain
<1>2. CASE f # None
  <2>1. ~PlainWay(th)
    BY <1>2 DEF Line
  <2>2. turn = NoTurn /\ input = <<>>
    BY <2>1 DEF Line, PlainWay
  <2> QED BY <2>2
<1> QED BY <1>1, <1>2

----------------------------------------------------------------------------
(* Steps that only add to what is owed.                                     *)

LEMMA OwedStays ==
    ASSUME Way(toHost) \subseteq Way(toHost'),
           \A p \in Procs : Live(p) => Live(p)' /\ OwedBy(p) \subseteq OwedBy(p)'
    PROVE  Owed \subseteq Owed'
BY DEF Owed, OnTheWay, Way

\* Nothing is sent and nobody is served.
LEMMA CoreRests ==
    ASSUME Core, UNCHANGED <<claude, host, switch, toHost, probes, astray, troubled>>,
           webview'.chip = webview.chip, webview'.bubble => webview.bubble
    PROVE  Core'
<1>1. ModesFollow'
  BY DEF Core, ModesFollow, Busy, Live
<1>2. NothingCut' /\ Silent'
  BY DEF Core, NothingCut, Silent, OwesNone, Prints
<1>3. InLine'
  BY DEF Core, InLine, Live, OwesNone
<1>4. ViewIsOwed'
  BY DEF Core, ViewIsOwed, Suppressing, Owed, OnTheWay, OwedBy, Live
<1> QED BY <1>1, <1>2, <1>3, <1>4 DEF Core

LEMMA SendingKeeps ==
    ASSUME TypeOK, Core, NEW m \in Message, toHost' = Append(toHost, m),
           m.kind = "input" => m.turn.from # "probe",
           UNCHANGED <<claude, host, switch, probes, astray, troubled>>,
           webview'.chip = webview.chip, webview'.bubble = webview.bubble
    PROVE  Core' /\ toHost' \in Seq(Message)
<1>1. toHost \in Seq(Message)
  BY DEF TypeOK
<1>2. toHost' \in Seq(Message) /\ Way(toHost) \subseteq Way(toHost')
  BY <1>1, AtEnd, WayGrows
<1>3. ModesFollow'
  BY DEF Core, ModesFollow, Busy, Live
<1>4. NothingCut' /\ Silent'
  BY DEF Core, NothingCut, Silent, OwesNone, Prints
<1>5. InLine'
  <2>1. \A turn, input, f : Line(turn, input, toHost, f) => Line(turn, input, toHost', f)
    BY <1>1, PlainJoins
  <2> QED BY <2>1 DEF Core, InLine, Live, OwesNone
<1>6. ViewIsOwed'
  <2>1. Owed \subseteq Owed'
    BY <1>2, OwedStays DEF Live, OwedBy
  <2> QED BY <2>1 DEF Core, ViewIsOwed, Suppressing
<1> QED BY <1>2, <1>3, <1>4, <1>5, <1>6 DEF Core

LEMMA NothingThere == ASSUME NEW S, NEW s \in Seq(S), DOMAIN s = {} PROVE s = <<>>
<1>1. Len(s) \in Nat /\ DOMAIN s = 1..Len(s)
  BY LenProperties
<1>2. Len(s) = 0
  BY <1>1
<1> QED BY <1>2, EmptySeq

LEMMA OwesNothing ==
    ASSUME TypeOK, NEW p \in Procs
    PROVE  /\ OwedBy(p) = {} => OwesNone(p)
           /\ ~Strays(p) => Plain(claude[p].turn, claude[p].input)
<1>1. claude[p].input \in Seq(Turn)
  BY DEF TypeOK, Proc
<1>2. ASSUME OwedBy(p) = {} PROVE OwesNone(p)
  <2>1. claude[p].turn = NoTurn /\ ToSet(claude[p].input) = {}
    BY <1>2 DEF OwedBy
  <2>2. DOMAIN claude[p].input = {}
    BY <2>1 DEF ToSet
  <2>3. claude[p].input = <<>>
    BY <1>1, <2>2, NothingThere
  <2> QED BY <2>1, <2>3 DEF OwesNone
<1>3. ASSUME ~Strays(p) PROVE Plain(claude[p].turn, claude[p].input)
  <2>1. \A t \in OwedBy(p) : t.from # "probe"
    BY <1>3 DEF Strays, IsProbe
  <2>2. claude[p].turn = NoTurn \/ claude[p].turn \in OwedBy(p)
    BY DEF OwedBy
  <2>3. \A i \in DOMAIN claude[p].input : claude[p].input[i] \in OwedBy(p)
    BY DEF OwedBy, ToSet
  <2>4. NoTurn.from # "probe"
    BY DEF NoTurn, None
  <2> QED BY <2>1, <2>2, <2>3, <2>4 DEF Plain
<1> QED BY <1>2, <1>3

\* What no probe is on the way to.
LEMMA WayIsPlain ==
    ASSUME TypeOK
    PROVE  /\ OnTheWay = {} => \A i \in DOMAIN toHost : toHost[i].kind # "input"
           /\ (\A t \in OnTheWay : ~IsProbe(t)) => PlainWay(toHost)
<1>1. DOMAIN toHost = 1..Len(toHost)
  BY LenProperties DEF TypeOK
<1>2. \A i \in DOMAIN toHost : toHost[i].kind = "input" => toHost[i].turn \in OnTheWay
  BY <1>1 DEF OnTheWay
<1> QED BY <1>2 DEF PlainWay, IsProbe

\* A probe is sent when nobody owes anything.
LEMMA FirstProbe ==
    ASSUME TypeOK, NEW x \in Probes, NEW m \in Message, m.kind = "input", m.turn = ProbeTurn(x),
           toHost' = Append(toHost, m), probes'.inFlight = x, host' = host,
           claude' \in [Procs -> Proc],
           \A p \in Procs : OwesNone(p)', \A i \in DOMAIN toHost : toHost[i].kind # "input"
    PROVE  InLine'
<1>1. Line(NoTurn, <<>>, toHost', x)
  BY ProbeJoins DEF TypeOK
<1>2. host.wired \in Procs
  BY DEF TypeOK
<1>3. \A p \in Procs : claude'[p].turn = NoTurn /\ claude'[p].input = <<>>
  BY DEF OwesNone
<1> QED BY <1>1, <1>2, <1>3, PlainNothing DEF InLine, OwesNone

\* A request of the webview.
LEMMA AskingKeeps ==
    ASSUME TypeOK, Core, NEW name \in Probes, NEW q, q = Request(Queue, name),
           Keep(q, Outstanding), UNCHANGED <<claude, host, switch, troubled>>,
           webview'.chip = webview.chip, webview'.bubble = webview.bubble
    PROVE  /\ Core' /\ toHost' \in Seq(Message) /\ astray' \in BOOLEAN
           /\ probes' \in [inFlight : Probes \cup {None}, queued : Seq(Probes)]
<1>1. /\ toHost \in Seq(Message) /\ probes.inFlight \in Probes \cup {None} /\ probes.queued \in Seq(Probes)
      /\ astray \in BOOLEAN
  BY DEF TypeOK
<1>2. /\ q.queued \in Seq(Probes)
      /\ \/ q.sent = <<>> /\ q.inFlight = probes.inFlight
         \/ probes.inFlight = None /\ \E x \in Probes : q.sent = <<x>> /\ q.inFlight = x
  BY <1>1, RequestGives DEF Queue
<1>3. /\ probes' = [inFlight |-> q.inFlight, queued |-> q.queued]
      /\ q.sent = <<>> => toHost' = toHost
      /\ \A x \in Probes : q.sent = <<x>> =>
            /\ toHost' = Append(toHost, Input("probe", x))
            /\ Input("probe", x) \in Message /\ Input("probe", x).kind = "input"
            /\ Input("probe", x).turn = ProbeTurn(x)
  BY <1>1, <1>2, KeepSends
<1>4. astray' = IF q.sent = <<>> THEN astray ELSE Outstanding # {}
  BY DEF Keep
<1>5. /\ probes' \in [inFlight : Probes \cup {None}, queued : Seq(Probes)]
      /\ astray' \in BOOLEAN
  BY <1>1, <1>2, <1>3, <1>4
<1>6. ModesFollow' /\ NothingCut' /\ Silent'
  BY DEF Core, ModesFollow, Busy, Live, NothingCut, Silent, OwesNone, Prints
<1>7. CASE q.sent = <<>> /\ q.inFlight = probes.inFlight
  <2>1. toHost' = toHost /\ probes'.inFlight = probes.inFlight /\ astray' = astray
    BY <1>3, <1>4, <1>7
  <2>2. InLine'
    BY <2>1 DEF Core, InLine, Live, OwesNone
  <2>3. ViewIsOwed'
    BY <2>1 DEF Core, ViewIsOwed, Suppressing, Owed, OnTheWay, OwedBy, Live
  <2> QED BY <1>1, <1>5, <1>6, <2>1, <2>2, <2>3 DEF Core
<1>8. CASE probes.inFlight = None /\ \E x \in Probes : q.sent = <<x>> /\ q.inFlight = x
  <2>1. PICK x \in Probes : q.sent = <<x>> /\ q.inFlight = x
    BY <1>8
  <2>2. PICK m : m = Input("probe", x)
    OBVIOUS
  <2>3. /\ toHost' = Append(toHost, m) /\ m \in Message /\ m.kind = "input" /\ m.turn = ProbeTurn(x)
        /\ probes'.inFlight = x /\ astray' = (Outstanding # {})
    BY <1>3, <1>4, <2>1, <2>2
  <2>4. toHost' \in Seq(Message) /\ Way(toHost) \subseteq Way(toHost') /\ ProbeTurn(x) \in Way(toHost')
    BY <1>1, <2>3, AtEnd, WayGrows
  <2>5. ViewIsOwed'
    <3>1. ProbeTurn(x) \in Owed' /\ ProbeTurn(x).from = "probe" /\ ProbeTurn(x).what = x
      BY <2>4 DEF Owed, OnTheWay, Way, ProbeTurn
    <3>2. webview'.bubble = webview.bubble /\ claude' = claude
      OBVIOUS
    <3> QED BY <2>3, <3>1, <3>2 DEF Core, ViewIsOwed
  <2>6. InLine'
    <3>1. SUFFICES ASSUME Outstanding = {} PROVE InLine'
      BY <2>3 DEF InLine
    <3>2. OnTheWay = {} /\ \A p \in Procs : Prints(p) => OwedBy(p) = {}
      BY <3>1 DEF Outstanding
    <3>3. \A p \in Procs : OwesNone(p)'
      <4>1. \A p \in Procs : OwesNone(p)
        BY <3>2, OwesNothing DEF Core, Silent
      <4> QED BY <4>1 DEF OwesNone
    <3>4. claude' \in [Procs -> Proc] /\ host' = host
      BY DEF TypeOK
    <3> QED BY <2>3, <3>2, <3>3, <3>4, WayIsPlain, FirstProbe
  <2> QED BY <1>5, <1>6, <2>4, <2>5, <2>6 DEF Core
<1> QED BY <1>2, <1>7, <1>8

----------------------------------------------------------------------------
(* The person, and the greeting of a process.                                *)

LEMMA PlainMessages ==
    /\ Input("user", "talk") \in Message /\ Input("user", "talk").turn.from # "probe"
    /\ \A m \in Modes : /\ [kind |-> "mode", mode |-> m] \in Message
                        /\ [kind |-> "mode", mode |-> m].kind # "input"
BY DEF Input, Message, Turn

LEMMA ActsKeep ==
    ASSUME TypeOK, Acts
    PROVE  used' \in [gestures : 0..MaxActs, relays : 0..MaxRelays]
<1>1. used \in [gestures : 0..MaxActs, relays : 0..MaxRelays]
  BY DEF TypeOK
<1>2. used.gestures < MaxActs /\ used' = [used EXCEPT !.gestures = @ + 1] /\ MaxActs \in Nat
  BY ChatAssumption DEF Acts
<1>3. used.gestures + 1 \in 0..MaxActs
  BY <1>1, <1>2
<1> QED BY <1>1, <1>2, <1>3

LEMMA SendKeeps == ASSUME ChatInv, Send PROVE ChatInv'
<1>1. TypeOK /\ Armed /\ Core
  BY DEF ChatInv
<1>2. PICK m : m = Input("user", "talk")
  OBVIOUS
<1>3. /\ used' = [used EXCEPT !.gestures = @ + 1] /\ used.gestures < MaxActs
      /\ toHost' = Append(toHost, m)
      /\ UNCHANGED <<claude, host, switch, probes, webview, astray, clicks, troubled>>
  BY <1>2 DEF Send, Acts
<1>4. Core' /\ toHost' \in Seq(Message)
  BY <1>1, <1>2, <1>3, PlainMessages, SendingKeeps
<1>5. used' \in [gestures : 0..MaxActs, relays : 0..MaxRelays]
  BY <1>1, ActsKeep DEF Send
<1>6. TypeOK' /\ Armed'
  BY <1>1, <1>3, <1>4, <1>5 DEF TypeOK, Armed
<1> QED BY <1>4, <1>6 DEF ChatInv

LEMMA ClickModelKeeps == ASSUME ChatInv, ClickModel PROVE ChatInv'
<1>1. TypeOK /\ Armed /\ Core
  BY DEF ChatInv
<1>2. /\ used' = [used EXCEPT !.gestures = @ + 1] /\ used.gestures < MaxActs
      /\ UNCHANGED <<claude, host, switch, webview, clicks, troubled>>
  BY DEF ClickModel, Acts
<1>3. used' \in [gestures : 0..MaxActs, relays : 0..MaxRelays]
  BY <1>1, ActsKeep DEF ClickModel
<1>4. CASE webview.options
  <2>1. PICK m : m = Input("user", "talk")
    OBVIOUS
  <2>2. toHost' = Append(toHost, m) /\ UNCHANGED <<probes, astray>>
    BY <1>4, <2>1 DEF ClickModel
  <2>3. Core' /\ toHost' \in Seq(Message)
    BY <1>1, <1>2, <2>1, <2>2, PlainMessages, SendingKeeps
  <2>4. TypeOK' /\ Armed'
    BY <1>1, <1>2, <1>3, <2>2, <2>3 DEF TypeOK, Armed
  <2> QED BY <2>3, <2>4 DEF ChatInv
<1>5. CASE ~webview.options
  <2>1. PICK q : q = Request(Queue, "model")
    OBVIOUS
  <2>2. Keep(q, Outstanding)
    BY <1>5, <2>1 DEF ClickModel
  <2>3. "model" \in Probes
    BY DEF Probes
  <2>4. /\ Core' /\ toHost' \in Seq(Message) /\ astray' \in BOOLEAN
        /\ probes' \in [inFlight : Probes \cup {None}, queued : Seq(Probes)]
    BY <1>1, <1>2, <2>1, <2>2, <2>3, AskingKeeps
  <2>5. TypeOK' /\ Armed'
    BY <1>1, <1>2, <1>3, <2>4 DEF TypeOK, Armed
  <2> QED BY <2>4, <2>5 DEF ChatInv
<1> QED BY <1>4, <1>5

Views == [asked : BOOLEAN, options : BOOLEAN, bubble : BOOLEAN,
          panel : {None, "context", "permission"}, armed : BOOLEAN, chip : Modes]

LEMMA ClickContextKeeps == ASSUME ChatInv, ClickContext PROVE ChatInv'
<1>1. TypeOK /\ Armed /\ Core /\ webview \in Views
  BY DEF ChatInv, TypeOK, Views
<1>2. /\ used' = [used EXCEPT !.gestures = @ + 1] /\ used.gestures < MaxActs
      /\ UNCHANGED <<claude, host, switch, clicks, troubled>>
  BY DEF ClickContext, Acts
<1>3. used' \in [gestures : 0..MaxActs, relays : 0..MaxRelays]
  BY <1>1, ActsKeep DEF ClickContext
<1>4. \E v \in {None, "context"} : webview' = [webview EXCEPT !.panel = v]
  BY DEF ClickContext
<1>5. /\ webview' \in Views /\ webview'.chip = webview.chip /\ webview'.bubble = webview.bubble
      /\ webview'.armed = webview.armed
  BY <1>1, <1>4 DEF Views
<1>6. CASE webview.panel = "context"
  <2>1. UNCHANGED <<probes, toHost, astray>>
    BY <1>6 DEF ClickContext
  <2>2. Core'
    BY <1>1, <1>2, <1>5, <2>1, CoreRests
  <2>3. TypeOK' /\ Armed'
    BY <1>1, <1>2, <1>3, <1>5, <2>1 DEF TypeOK, Armed, Views
  <2> QED BY <2>2, <2>3 DEF ChatInv
<1>7. CASE webview.panel # "context"
  <2>1. PICK q : q = Request(Queue, "context")
    OBVIOUS
  <2>2. Keep(q, Outstanding)
    BY <1>7, <2>1 DEF ClickContext
  <2>3. "context" \in Probes
    BY DEF Probes
  <2>4. /\ Core' /\ toHost' \in Seq(Message) /\ astray' \in BOOLEAN
        /\ probes' \in [inFlight : Probes \cup {None}, queued : Seq(Probes)]
    BY <1>1, <1>2, <1>5, <2>1, <2>2, <2>3, AskingKeeps
  <2>5. TypeOK' /\ Armed'
    BY <1>1, <1>2, <1>3, <1>5, <2>4 DEF TypeOK, Armed, Views
  <2> QED BY <2>4, <2>5 DEF ChatInv
<1> QED BY <1>6, <1>7

LEMMA ClickPermissionKeeps == ASSUME ChatInv, ClickPermission PROVE ChatInv'
<1>1. TypeOK /\ Armed /\ Core /\ webview \in Views
  BY DEF ChatInv, TypeOK, Views
<1>2. /\ used' = [used EXCEPT !.gestures = @ + 1] /\ used.gestures < MaxActs /\ clicks' = 0
      /\ UNCHANGED <<claude, host, switch, toHost, probes, astray, troubled>>
      /\ \E v \in {None, "permission"} : webview' = [webview EXCEPT !.panel = v, !.armed = FALSE]
  BY DEF ClickPermission, Acts
<1>3. used' \in [gestures : 0..MaxActs, relays : 0..MaxRelays]
  BY <1>1, ActsKeep DEF ClickPermission
<1>4. /\ webview' \in Views /\ webview'.chip = webview.chip /\ webview'.bubble = webview.bubble
      /\ ~webview'.armed
  BY <1>1, <1>2 DEF Views
<1>5. Core'
  BY <1>1, <1>2, <1>4, CoreRests
<1>6. TypeOK' /\ Armed'
  BY <1>1, <1>2, <1>3, <1>4 DEF TypeOK, Armed, Views
<1> QED BY <1>5, <1>6 DEF ChatInv

LEMMA ChooseModeKeeps == ASSUME ChatInv, NEW m \in Modes, ChooseMode(m) PROVE ChatInv'
<1>1. TypeOK /\ Armed /\ Core /\ webview \in Views /\ clicks \in Nat
  BY DEF ChatInv, TypeOK, Views
<1>2. /\ used' = [used EXCEPT !.gestures = @ + 1] /\ used.gestures < MaxActs
      /\ clicks' = (IF m = "bypass" THEN clicks + 1 ELSE clicks)
      /\ UNCHANGED <<claude, host, switch, probes, astray, troubled>>
  BY DEF ChooseMode, Acts
<1>3. used' \in [gestures : 0..MaxActs, relays : 0..MaxRelays]
  BY <1>1, ActsKeep DEF ChooseMode
<1>4. CASE m = "bypass" /\ ~webview.armed
  <2>1. webview' = [webview EXCEPT !.armed = TRUE] /\ UNCHANGED toHost
    BY <1>4 DEF ChooseMode
  <2>2. webview' \in Views /\ webview'.chip = webview.chip /\ webview'.bubble = webview.bubble
    BY <1>1, <2>1 DEF Views
  <2>3. Core'
    BY <1>1, <1>2, <2>1, <2>2, CoreRests
  <2>4. TypeOK' /\ Armed'
    BY <1>1, <1>2, <1>3, <1>4, <2>1, <2>2 DEF TypeOK, Armed, Views
  <2> QED BY <2>3, <2>4 DEF ChatInv
<1>5. CASE ~(m = "bypass" /\ ~webview.armed)
  <2>1. PICK e : e = [kind |-> "mode", mode |-> m]
    OBVIOUS
  <2>2. /\ webview' = [webview EXCEPT !.armed = FALSE, !.panel = None]
        /\ toHost' = Append(toHost, e)
    BY <1>5, <2>1 DEF ChooseMode
  <2>3. /\ webview' \in Views /\ webview'.chip = webview.chip /\ webview'.bubble = webview.bubble
        /\ ~webview'.armed
    BY <1>1, <2>2 DEF Views
  <2>4. Core' /\ toHost' \in Seq(Message)
    BY <1>1, <1>2, <2>1, <2>2, <2>3, PlainMessages, SendingKeeps
  <2>5. TypeOK' /\ Armed'
    BY <1>1, <1>2, <1>3, <2>3, <2>4 DEF TypeOK, Armed, Views
  <2> QED BY <2>4, <2>5 DEF ChatInv
<1> QED BY <1>4, <1>5

LEMMA GreetKeeps == ASSUME ChatInv, NEW p \in Procs, Greet(p) PROVE ChatInv'
<1>1. TypeOK /\ Armed /\ Core /\ webview \in Views
  BY DEF ChatInv, TypeOK, Views
<1>2. PICK q : q = Request(Queue, "model")
  OBVIOUS
<1>3. /\ webview' = [webview EXCEPT !.asked = TRUE] /\ Keep(q, Outstanding)
      /\ UNCHANGED <<claude, host, switch, used, clicks, troubled>>
  BY <1>2 DEF Greet
<1>4. /\ webview' \in Views /\ webview'.chip = webview.chip /\ webview'.bubble = webview.bubble
      /\ webview'.armed = webview.armed
  BY <1>1, <1>3 DEF Views
<1>5. "model" \in Probes
  BY DEF Probes
<1>6. /\ Core' /\ toHost' \in Seq(Message) /\ astray' \in BOOLEAN
      /\ probes' \in [inFlight : Probes \cup {None}, queued : Seq(Probes)]
  BY <1>1, <1>2, <1>3, <1>4, <1>5, AskingKeeps
<1>7. TypeOK' /\ Armed'
  BY <1>1, <1>3, <1>4, <1>6 DEF TypeOK, Armed, Views
<1> QED BY <1>6, <1>7 DEF ChatInv

LEMMA EndBubbleKeeps == ASSUME ChatInv, EndBubble PROVE ChatInv'
<1>1. TypeOK /\ Armed /\ Core /\ webview \in Views
  BY DEF ChatInv, TypeOK, Views
<1>2. /\ webview' = [webview EXCEPT !.bubble = FALSE]
      /\ UNCHANGED <<claude, host, switch, toHost, probes, used, astray, clicks, troubled>>
  BY DEF EndBubble
<1>3. /\ webview' \in Views /\ webview'.chip = webview.chip /\ ~webview'.bubble
      /\ webview'.armed = webview.armed
  BY <1>1, <1>2 DEF Views
<1>4. Core'
  BY <1>1, <1>2, <1>3, CoreRests
<1>5. TypeOK' /\ Armed'
  BY <1>1, <1>2, <1>3 DEF TypeOK, Armed, Views
<1> QED BY <1>4, <1>5 DEF ChatInv
----------------------------------------------------------------------------
(* The host, and what a process makes of its input.                          *)

LEMMA HandleModeKeeps == ASSUME ChatInv, HandleMode PROVE ChatInv'
<1>1. TypeOK /\ Armed /\ Core /\ toHost \in Seq(Message)
  BY DEF ChatInv, TypeOK
<1>2. PICK s \in Switches :
        /\ switch[s].at = "idle"
        /\ switch' = [switch EXCEPT ![s] = [at |-> "saving", mode |-> Head(toHost).mode]]
  BY DEF HandleMode
<1>3. PICK md : md = Head(toHost).mode
  OBVIOUS
<1>4. /\ toHost # <<>> /\ Head(toHost).kind = "mode" /\ toHost' = Tail(toHost)
      /\ host' = [host EXCEPT !.mode = md]
      /\ UNCHANGED <<claude, probes, webview, used, astray, clicks>>
      /\ IF \E r \in Switches : Busy(r) THEN Noted("cross") ELSE UNCHANGED troubled
  BY <1>3 DEF HandleMode, Trouble, Busy
<1>5. Head(toHost) \in Message /\ toHost' \in Seq(Message)
  BY <1>1, <1>4, AtFront
<1>6. md \in Modes
  BY <1>3, <1>4, <1>5 DEF Message
<1>7. /\ switch' \in [Switches -> [at : {"idle", "saving", "killing", "done"}, mode : Modes]]
      /\ switch'[s].at = "saving" /\ \A r \in Switches \ {s} : switch'[r] = switch[r]
      /\ host' \in [supervised : 0..(MaxSwitches + 1), wired : Procs, mode : Modes]
      /\ host'.supervised = host.supervised /\ host'.wired = host.wired /\ host'.mode = md
  BY <1>1, <1>2, <1>3, <1>4, <1>6 DEF TypeOK
<1>8. /\ troubled \subseteq troubled' /\ troubled' \in SUBSET Troubles
      /\ troubled' \cap {"kill", "crash"} = troubled \cap {"kill", "crash"}
      /\ "nostart" \in troubled' <=> "nostart" \in troubled
  BY <1>1, <1>4 DEF Noted, TypeOK, Troubles
<1>9. TypeOK' /\ Armed'
  BY <1>1, <1>4, <1>5, <1>7, <1>8 DEF TypeOK, Armed
<1>10. ModesFollow'
  <2>1. host'.supervised \in {0, host'.wired}
    BY <1>1, <1>7 DEF Core, ModesFollow
  <2>2. SUFFICES ASSUME "cross" \notin troubled' PROVE ModesFollow'
    BY <2>1 DEF ModesFollow
  <2>3. \A r \in Switches : ~Busy(r)
    BY <1>4, <2>2 DEF Noted
  <2>4. \A r \in Switches : switch[r].at # "killing"
    BY <2>3 DEF Busy
  <2>5. /\ \A p \in Procs : Live(p) => p = host.supervised /\ claude[p].mode = webview.chip
        /\ host.supervised = 0 => "nostart" \in troubled
    BY <1>1, <1>8, <2>2, <2>4 DEF Core, ModesFollow
  <2>6. \A r \in Switches : switch'[r].at \in {"saving", "killing"} => r = s
    BY <1>7, <2>3 DEF Busy
  <2>7. \A r \in Switches : switch'[r].at # "killing"
    BY <1>7, <2>6
  <2> QED BY <1>4, <1>7, <1>8, <2>1, <2>5, <2>6, <2>7 DEF ModesFollow, Busy, Live
<1>11. NothingCut' /\ Silent'
  BY <1>1, <1>4, <1>8 DEF Core, NothingCut, Silent, OwesNone, Prints
<1>12. ViewIsOwed'
  <2>1. Way(toHost) \subseteq Way(toHost')
    BY <1>1, <1>4, WayShrinks
  <2>2. Owed \subseteq Owed'
    BY <1>4, <2>1, OwedStays DEF Live, OwedBy
  <2> QED BY <1>1, <1>4, <1>8, <2>2 DEF Core, ViewIsOwed, Suppressing
<1>13. InLine'
  <2>1. SUFFICES ASSUME ~astray PROVE InLine'
    BY <1>4 DEF InLine
  <2>2. Line(claude[host.wired].turn, claude[host.wired].input, toHost', probes.inFlight)
    BY <1>1, <1>4, <2>1, WayLeaves DEF Core, InLine
  <2> QED BY <1>1, <1>4, <1>7, <2>1, <2>2 DEF Core, InLine, Live, OwesNone
<1> QED BY <1>9, <1>10, <1>11, <1>12, <1>13 DEF ChatInv, Core

\* A turn is put at the end of a process's input.
LEMMA InputAdds ==
    ASSUME TypeOK, NEW w \in Procs, NEW t \in Turn,
           claude' = [claude EXCEPT ![w].input = Append(@, t)]
    PROVE  /\ claude' \in [Procs -> Proc]
           /\ claude'[w].input = Append(claude[w].input, t) /\ claude[w].input \in Seq(Turn)
           /\ \A p \in Procs : /\ claude'[p].state = claude[p].state
                               /\ claude'[p].mode = claude[p].mode
                               /\ claude'[p].turn = claude[p].turn
                               /\ p # w => claude'[p].input = claude[p].input
                               /\ OwedBy(p) \subseteq OwedBy(p)'
           /\ t \in OwedBy(w)'
<1>1. claude \in [Procs -> Proc] /\ claude[w].input \in Seq(Turn)
  BY DEF TypeOK, Proc
<1>2. PICK l : l = Append(claude[w].input, t)
  OBVIOUS
<1>3. /\ l \in Seq(Turn) /\ DOMAIN l = 1..(Len(claude[w].input) + 1) /\ Len(claude[w].input) \in Nat
      /\ DOMAIN claude[w].input = 1..Len(claude[w].input)
      /\ \A i \in 1..Len(claude[w].input) : l[i] = claude[w].input[i]
      /\ l[Len(claude[w].input) + 1] = t
  BY <1>1, <1>2, AtEnd
<1>4. /\ claude'[w].input = l
      /\ \A p \in Procs : /\ claude'[p].state = claude[p].state
                          /\ claude'[p].mode = claude[p].mode
                          /\ claude'[p].turn = claude[p].turn
                          /\ p # w => claude'[p].input = claude[p].input
  BY <1>1, <1>2 DEF Proc
<1>5. claude' \in [Procs -> Proc]
  BY <1>1, <1>2, <1>3 DEF Proc
<1>6. ToSet(claude[w].input) \subseteq ToSet(l) /\ t \in ToSet(l)
  <2>1. \A i \in DOMAIN claude[w].input : i \in DOMAIN l
    BY <1>3
  <2>2. Len(claude[w].input) + 1 \in DOMAIN l
    BY <1>3
  <2> QED BY <1>3, <2>1, <2>2 DEF ToSet
<1> QED BY <1>1, <1>2, <1>4, <1>5, <1>6 DEF OwedBy


\* A turn is written to the wired process, which runs.
LEMMA WritingKeeps ==
    ASSUME TypeOK, Core, NEW t \in Turn, Live(host.wired),
           claude' = [claude EXCEPT ![host.wired].input = Append(@, t)],
           UNCHANGED <<host, switch, probes, webview, troubled>>
    PROVE  /\ claude' \in [Procs -> Proc] /\ ModesFollow' /\ NothingCut' /\ Silent'
           /\ claude[host.wired].input \in Seq(Turn)
           /\ Owed \subseteq Owed' => ViewIsOwed'
           /\ \A p \in Procs : Live(p)' <=> Live(p)
           /\ \A p \in Procs : OwedBy(p) \subseteq OwedBy(p)'
           /\ t \in OwedBy(host.wired)'
           /\ InLine /\ ~astray
                /\ Line(claude[host.wired].turn, Append(claude[host.wired].input, t), toHost',
                        probes.inFlight)
                => InLine'
<1>1. PICK w \in Procs : w = host.wired
  BY DEF TypeOK
<1>2. /\ claude' \in [Procs -> Proc]
      /\ claude'[w].input = Append(claude[w].input, t) /\ claude[w].input \in Seq(Turn)
      /\ \A p \in Procs : /\ claude'[p].state = claude[p].state
                          /\ claude'[p].mode = claude[p].mode
                          /\ claude'[p].turn = claude[p].turn
                          /\ p # w => claude'[p].input = claude[p].input
                          /\ OwedBy(p) \subseteq OwedBy(p)'
      /\ t \in OwedBy(w)'
  BY <1>1, InputAdds
<1>3. \A p \in Procs : (Live(p)' <=> Live(p)) /\ (Prints(p)' <=> Prints(p))
  BY <1>2 DEF Live, Prints
<1>4. ModesFollow'
  BY <1>1, <1>2, <1>3 DEF Core, ModesFollow, Busy
<1>5. claude[w].state = "running" /\ \A p \in Procs : p # w => (OwesNone(p)' <=> OwesNone(p))
  BY <1>1, <1>2 DEF Live, OwesNone
<1>6. NothingCut'
  BY <1>2, <1>5 DEF Core, NothingCut
<1>7. Silent'
  BY <1>3, <1>5 DEF Core, Silent, Prints
<1>8. Owed \subseteq Owed' => ViewIsOwed'
  BY <1>2 DEF Core, ViewIsOwed, Suppressing
<1>9. ASSUME InLine, ~astray,
             Line(claude[w].turn, Append(claude[w].input, t), toHost', probes.inFlight)
      PROVE  InLine'
  BY <1>1, <1>2, <1>3, <1>5, <1>9 DEF InLine
<1> QED BY <1>1, <1>2, <1>3, <1>4, <1>6, <1>7, <1>8, <1>9

LEMMA HandleInputKeeps == ASSUME ChatInv, HandleInput PROVE ChatInv'
<1>1. TypeOK /\ Armed /\ Core /\ toHost \in Seq(Message) /\ host.wired \in Procs /\ astray \in BOOLEAN
  BY DEF ChatInv, TypeOK
<1>2. PICK t : t = Head(toHost).turn
  OBVIOUS
<1>3. /\ toHost # <<>> /\ Head(toHost).kind = "input" /\ toHost' = Tail(toHost)
      /\ IF Live(host.wired)
         THEN claude' = [claude EXCEPT ![host.wired].input = Append(@, t)] /\ UNCHANGED <<astray, troubled>>
         ELSE UNCHANGED claude /\ Noted("kill") /\ astray' = (astray \/ IsProbe(t))
      /\ UNCHANGED <<host, switch, probes, webview, used, clicks>>
  BY <1>2 DEF HandleInput
<1>4. Head(toHost) \in Message /\ toHost' \in Seq(Message)
  BY <1>1, <1>3, AtFront
<1>5. t \in Turn
  BY <1>2, <1>3, <1>4 DEF Message
<1>6. CASE ~Live(host.wired)
  <2>1. UNCHANGED claude /\ troubled' = troubled \cup {"kill"} /\ astray' = (astray \/ IsProbe(t))
    BY <1>3, <1>6 DEF Noted
  <2>2. TypeOK' /\ Armed'
    BY <1>1, <1>3, <1>4, <2>1 DEF TypeOK, Armed, Troubles
  <2>3. /\ "cross" \in troubled' <=> "cross" \in troubled
        /\ "nostart" \in troubled' <=> "nostart" \in troubled
    BY <2>1
  <2>4. ModesFollow'
    BY <1>1, <1>3, <2>1, <2>3 DEF Core, ModesFollow, Busy, Live
  <2>5. NothingCut' /\ Silent' /\ ViewIsOwed'
    BY <1>1, <2>1 DEF NothingCut, ViewIsOwed, Core, Silent, OwesNone, Prints
  <2>6. InLine'
    <3>1. SUFFICES ASSUME ~astray, ~IsProbe(t) PROVE InLine'
      BY <2>1 DEF InLine
    <3>2. /\ Line(claude[host.wired].turn, claude[host.wired].input, toHost, probes.inFlight)
          /\ probes.inFlight # None => OwesNone(host.wired)
      BY <1>1, <1>6, <3>1 DEF Core, InLine
    <3>3. Line(claude[host.wired].turn, claude[host.wired].input, toHost', probes.inFlight)
      BY <1>1, <1>2, <1>3, <3>1, <3>2, LineLoses DEF IsProbe, OwesNone
    <3> QED BY <1>1, <1>3, <2>1, <3>1, <3>3 DEF Core, InLine, Live, OwesNone
  <2> QED BY <2>2, <2>4, <2>5, <2>6 DEF ChatInv, Core
<1>7. CASE Live(host.wired)
  <2>1. claude' = [claude EXCEPT ![host.wired].input = Append(@, t)] /\ UNCHANGED <<astray, troubled>>
    BY <1>3, <1>7
  <2>2. /\ claude' \in [Procs -> Proc] /\ ModesFollow' /\ NothingCut' /\ Silent'
        /\ claude[host.wired].input \in Seq(Turn)
        /\ Owed \subseteq Owed' => ViewIsOwed'
        /\ \A p \in Procs : Live(p)' <=> Live(p)
        /\ \A p \in Procs : OwedBy(p) \subseteq OwedBy(p)'
        /\ t \in OwedBy(host.wired)'
        /\ InLine /\ ~astray
             /\ Line(claude[host.wired].turn, Append(claude[host.wired].input, t), toHost',
                     probes.inFlight)
             => InLine'
    BY <1>1, <1>3, <1>5, <1>7, <2>1, WritingKeeps
  <2>3. TypeOK' /\ Armed'
    BY <1>1, <1>3, <1>4, <2>1, <2>2 DEF TypeOK, Armed
  <2>4. Owed \subseteq Owed'
    <3>1. \A x \in Way(toHost) : x \in Way(toHost') \/ x = t
      BY <1>1, <1>2, <1>3, WayShrinks
    <3>2. \A x \in Owed : x \in Owed'
      <4>1. TAKE x \in Owed
      <4>2. CASE x \in Way(toHost)
        BY <1>1, <1>3, <1>7, <2>2, <3>1, <4>2 DEF Owed, OnTheWay, Way
      <4>3. CASE \E p \in Procs : Live(p) /\ x \in OwedBy(p)
        BY <2>2, <4>3 DEF Owed
      <4> QED BY <4>1, <4>2, <4>3 DEF Owed, OnTheWay, Way
    <3> QED BY <3>2
  <2>5. InLine'
    <3>1. SUFFICES ASSUME ~astray PROVE InLine'
      BY <2>1 DEF InLine
    <3>2. Line(claude[host.wired].turn, claude[host.wired].input, toHost, probes.inFlight)
      BY <1>1, <3>1 DEF Core, InLine
    <3>3. Line(claude[host.wired].turn, Append(claude[host.wired].input, t), toHost', probes.inFlight)
      BY <1>1, <1>2, <1>3, <2>2, <3>2, LineMoves
    <3> QED BY <1>1, <2>2, <3>1, <3>3 DEF Core
  <2> QED BY <2>2, <2>3, <2>4, <2>5 DEF ChatInv, Core
<1> QED BY <1>6, <1>7

LEMMA RelayKeeps == ASSUME ChatInv, Relay PROVE ChatInv'
<1>1. TypeOK /\ Armed /\ Core /\ host.wired \in Procs /\ astray \in BOOLEAN
  BY DEF ChatInv, TypeOK
<1>2. PICK t \in Turn : t = [from |-> "relay", what |-> "talk"]
  BY DEF Turn
<1>3. /\ used.relays < MaxRelays /\ Live(host.wired) /\ used' = [used EXCEPT !.relays = @ + 1]
      /\ claude' = [claude EXCEPT ![host.wired].input = Append(@, t)]
      /\ astray' = (astray \/ \E x \in OnTheWay : IsProbe(x))
      /\ UNCHANGED <<host, switch, toHost, probes, webview, clicks, troubled>>
  BY <1>2 DEF Relay
<1>4. /\ claude' \in [Procs -> Proc] /\ ModesFollow' /\ NothingCut' /\ Silent'
      /\ claude[host.wired].input \in Seq(Turn)
      /\ Owed \subseteq Owed' => ViewIsOwed'
      /\ \A p \in Procs : Live(p)' <=> Live(p)
      /\ \A p \in Procs : OwedBy(p) \subseteq OwedBy(p)'
      /\ InLine /\ ~astray
           /\ Line(claude[host.wired].turn, Append(claude[host.wired].input, t), toHost',
                   probes.inFlight)
           => InLine'
  BY <1>1, <1>3, WritingKeeps
<1>5. used' \in [gestures : 0..MaxActs, relays : 0..MaxRelays]
  BY <1>1, <1>3, ChatAssumption DEF TypeOK
<1>6. TypeOK' /\ Armed'
  BY <1>1, <1>3, <1>4, <1>5 DEF TypeOK, Armed
<1>7. Owed \subseteq Owed'
  BY <1>3, <1>4, OwedStays DEF Way
<1>8. InLine'
  <2>1. SUFFICES ASSUME ~astray, \A x \in OnTheWay : ~IsProbe(x) PROVE InLine'
    BY <1>3 DEF InLine
  <2>2. Line(claude[host.wired].turn, claude[host.wired].input, toHost, probes.inFlight)
    BY <1>1, <2>1 DEF Core, InLine
  <2>3. t.from # "probe" /\ PlainWay(toHost)
    BY <1>1, <1>2, <2>1, WayIsPlain
  <2>4. Line(claude[host.wired].turn, Append(claude[host.wired].input, t), toHost', probes.inFlight)
    BY <1>3, <1>4, <2>2, <2>3, LineGrows
  <2> QED BY <1>1, <1>4, <2>1, <2>4 DEF Core
<1> QED BY <1>4, <1>6, <1>7, <1>8 DEF ChatInv, Core

----------------------------------------------------------------------------
(* What the processes print.                                               *)

LEMMA BeginTurnKeeps == ASSUME ChatInv, NEW p \in Procs, BeginTurn(p) PROVE ChatInv'
<1>1. TypeOK /\ Armed /\ Core /\ host.wired \in Procs
  BY DEF ChatInv, TypeOK
<1>2. PICK l : l = claude[p].input
  OBVIOUS
<1>3. /\ Prints(p) /\ claude[p].turn = NoTurn /\ l # <<>>
      /\ claude' = [claude EXCEPT ![p].turn = Head(l), ![p].input = Tail(l)]
      /\ UNCHANGED <<host, switch, toHost, probes, webview, used, astray, clicks, troubled>>
  BY <1>2 DEF BeginTurn
<1>4. claude \in [Procs -> Proc] /\ l \in Seq(Turn)
  BY <1>1, <1>2 DEF TypeOK, Proc
<1>5. /\ Tail(l) \in Seq(Turn) /\ Len(l) \in Nat /\ Len(l) > 0
      /\ DOMAIN l = 1..Len(l) /\ DOMAIN Tail(l) = 1..(Len(l) - 1)
      /\ Head(l) = l[1] /\ Head(l) \in Turn
      /\ \A i \in 1..(Len(l) - 1) : Tail(l)[i] = l[i + 1] /\ i + 1 \in 1..Len(l)
  BY <1>3, <1>4, AtFront
<1>6. Head(l) # NoTurn
  <2>1. \A t \in Turn : t # NoTurn
    BY DEF Turn, NoTurn, None
  <2> QED BY <1>5, <2>1
<1>7. /\ claude' \in [Procs -> Proc]
      /\ claude'[p].turn = Head(l) /\ claude'[p].input = Tail(l)
      /\ \A r \in Procs : /\ claude'[r].state = claude[r].state
                          /\ claude'[r].mode = claude[r].mode
                          /\ r # p => claude'[r] = claude[r]
  BY <1>3, <1>4, <1>5 DEF Proc
<1>8. \A r \in Procs : (Live(r)' <=> Live(r)) /\ (Prints(r)' <=> Prints(r))
  BY <1>7 DEF Live, Prints
<1>9. TypeOK' /\ Armed'
  BY <1>1, <1>3, <1>7 DEF TypeOK, Armed
<1>10. ModesFollow'
  BY <1>1, <1>3, <1>7, <1>8 DEF Core, ModesFollow, Busy
<1>11. NothingCut' /\ Silent'
  BY <1>1, <1>2, <1>3, <1>7, <1>8 DEF Core, NothingCut, Silent, OwesNone
<1>12. ViewIsOwed'
  <2>1. \A r \in Procs : OwedBy(r) \subseteq OwedBy(r)'
    <3>1. ToSet(l) \subseteq ToSet(Tail(l)) \cup {Head(l)}
      <4>1. ASSUME NEW i \in 1..Len(l), i # 1
            PROVE  l[i] \in ToSet(Tail(l))
        <5>1. i - 1 \in 1..(Len(l) - 1) /\ Tail(l)[i - 1] = l[i]
          BY <1>5, <4>1
        <5> QED BY <1>5, <5>1 DEF ToSet
      <4> QED BY <1>5, <4>1 DEF ToSet
    <3> QED BY <1>2, <1>3, <1>6, <1>7, <3>1 DEF OwedBy
  <2>2. Owed \subseteq Owed'
    BY <1>3, <1>8, <2>1, OwedStays DEF Way
  <2>3. \A r \in Procs : claude[r].turn # NoTurn => claude'[r].turn # NoTurn
    BY <1>3, <1>7
  <2> QED BY <1>1, <1>3, <2>2, <2>3 DEF Core, ViewIsOwed, Suppressing
<1>13. InLine'
  <2>1. SUFFICES ASSUME ~astray PROVE InLine'
    BY <1>3 DEF InLine
  <2>2. InLine
    BY <1>1 DEF Core
  <2>3. CASE p = host.wired
    <3>1. Line(NoTurn, l, toHost, probes.inFlight)
      BY <1>2, <1>3, <2>1, <2>2, <2>3 DEF InLine
    <3>2. Line(Head(l), Tail(l), toHost, probes.inFlight)
      BY <1>3, <1>4, <3>1, LineBegins
    <3>3. probes.inFlight # None => Live(p)
      BY <1>2, <1>3, <2>1, <2>2 DEF InLine, OwesNone
    <3> QED BY <1>3, <1>7, <1>8, <2>1, <2>2, <2>3, <3>2, <3>3 DEF InLine, OwesNone
  <2>4. CASE p # host.wired
    <3>1. probes.inFlight = None
      BY <1>2, <1>3, <2>1, <2>2, <2>4 DEF InLine, OwesNone
    <3>2. Plain(Head(l), Tail(l))
      <4>1. Plain(NoTurn, l)
        BY <1>2, <1>3, <2>1, <2>2, <2>4 DEF InLine
      <4>2. 1 \in DOMAIN l /\ \A i \in DOMAIN Tail(l) : i + 1 \in DOMAIN l /\ Tail(l)[i] = l[i + 1]
        BY <1>5
      <4> QED BY <1>5, <4>1, <4>2 DEF Plain
    <3> QED BY <1>1, <1>3, <1>7, <2>1, <2>2, <2>4, <3>1, <3>2 DEF InLine
  <2> QED BY <2>3, <2>4
<1> QED BY <1>9, <1>10, <1>11, <1>12, <1>13 DEF ChatInv, Core

LEMMA SayKeeps == ASSUME ChatInv, NEW p \in Procs, Say(p) PROVE ChatInv'
<1>1. TypeOK /\ Armed /\ Core /\ webview \in Views
  BY DEF ChatInv, TypeOK, Views
<1>2. /\ claude[p].turn # NoTurn
      /\ webview' = [webview EXCEPT !.bubble = @ \/ ~Suppressing]
      /\ UNCHANGED <<claude, host, switch, toHost, probes, used, astray, clicks, troubled>>
  BY DEF Say
<1>3. /\ webview' \in Views /\ webview'.chip = webview.chip /\ webview'.armed = webview.armed
  BY <1>1, <1>2 DEF Views
<1>4. TypeOK' /\ Armed'
  BY <1>1, <1>2, <1>3 DEF TypeOK, Armed, Views
<1>5. ModesFollow' /\ NothingCut' /\ Silent'
  BY <1>1, <1>2, <1>3 DEF Core, ModesFollow, Busy, Live, NothingCut, Silent, OwesNone, Prints
<1>6. InLine'
  BY <1>1, <1>2 DEF Core, InLine, Live, OwesNone
<1>7. ViewIsOwed'
  <2>1. Suppressing' = Suppressing /\ Owed' = Owed
    BY <1>2 DEF Suppressing, Owed, OnTheWay, OwedBy, Live
  <2> QED BY <1>1, <1>2, <2>1 DEF Core, ViewIsOwed
<1> QED BY <1>4, <1>5, <1>6, <1>7 DEF ChatInv, Core

\* The end of a turn leaves no probe in flight, or one it sends.
LEMMA AfterTurnGives ==
    ASSUME TypeOK, NEW q, q = AfterTurn
    PROVE  /\ q.queued \in Seq(Probes)
           /\ \/ q.sent = <<>> /\ q.inFlight = None
              \/ \E x \in Probes : q.sent = <<x>> /\ q.inFlight = x
<1>1. probes.inFlight \in Probes \cup {None} /\ probes.queued \in Seq(Probes)
  BY DEF TypeOK
<1>2. CASE Suppressing
  <2>1. q = Answer(Queue)
    BY <1>2 DEF AfterTurn
  <2> QED BY <1>1, <2>1, AnswerGives DEF Queue
<1>3. CASE ~Suppressing
  <2>1. q = Request(Queue, "context") /\ probes.inFlight = None
    BY <1>3 DEF AfterTurn, Suppressing
  <2>2. "context" \in Probes
    BY DEF Probes
  <2> QED BY <1>1, <2>1, <2>2, RequestGives DEF Queue
<1> QED BY <1>2, <1>3

LEMMA EndTurnKeeps == ASSUME ChatInv, NEW p \in Procs, EndTurn(p) PROVE ChatInv'
<1>1. /\ TypeOK /\ Armed /\ Core /\ webview \in Views /\ host.wired \in Procs
      /\ toHost \in Seq(Message) /\ claude \in [Procs -> Proc] /\ astray \in BOOLEAN
  BY DEF ChatInv, TypeOK, Views
<1>2. PICK q : q = AfterTurn
  OBVIOUS
<1>3. /\ claude[p].turn # NoTurn
      /\ claude' = [claude EXCEPT ![p].turn = NoTurn]
      /\ Keep(q, Behind(p))
      /\ webview' = ViewAfter(claude[p].turn)
      /\ UNCHANGED <<host, switch, used, clicks, troubled>>
  BY <1>2 DEF EndTurn
<1>4. /\ q.queued \in Seq(Probes)
      /\ \/ q.sent = <<>> /\ q.inFlight = None
         \/ \E x \in Probes : q.sent = <<x>> /\ q.inFlight = x
  BY <1>1, <1>2, AfterTurnGives
<1>5. /\ probes' = [inFlight |-> q.inFlight, queued |-> q.queued]
      /\ q.sent = <<>> => toHost' = toHost
      /\ \A x \in Probes : q.sent = <<x>> =>
            /\ toHost' = Append(toHost, Input("probe", x))
            /\ Input("probe", x) \in Message /\ Input("probe", x).kind = "input"
            /\ Input("probe", x).turn = ProbeTurn(x)
  BY <1>1, <1>3, <1>4, KeepSends
<1>6. astray' = IF q.sent = <<>> THEN astray ELSE Behind(p) # {}
  BY <1>3 DEF Keep
<1>7. /\ claude' \in [Procs -> Proc] /\ claude'[p].turn = NoTurn /\ claude'[p].input = claude[p].input
      /\ \A r \in Procs : /\ claude'[r].state = claude[r].state
                          /\ claude'[r].mode = claude[r].mode
                          /\ r # p => claude'[r] = claude[r]
  BY <1>1, <1>3 DEF Proc
<1>8. /\ webview' \in Views /\ webview'.chip = webview.chip /\ webview'.armed = webview.armed
      /\ ~webview'.bubble
  BY <1>1, <1>3 DEF Views, ViewAfter
<1>9. /\ toHost' \in Seq(Message)
      /\ probes' \in [inFlight : Probes \cup {None}, queued : Seq(Probes)]
  <2>1. CASE q.sent = <<>> /\ q.inFlight = None
    BY <1>1, <1>4, <1>5, <2>1
  <2>2. CASE \E x \in Probes : q.sent = <<x>> /\ q.inFlight = x
    <3>1. PICK x \in Probes : q.sent = <<x>> /\ q.inFlight = x
      BY <2>2
    <3>2. PICK m : m = Input("probe", x)
      OBVIOUS
    <3>3. toHost' = Append(toHost, m) /\ m \in Message
      BY <1>5, <3>1, <3>2
    <3> QED BY <1>1, <1>4, <1>5, <3>1, <3>3, AtEnd
  <2> QED BY <1>4, <2>1, <2>2
<1>10. TypeOK' /\ Armed'
  BY <1>1, <1>3, <1>6, <1>7, <1>8, <1>9 DEF TypeOK, Armed, Views
<1>11. \A r \in Procs : (Live(r)' <=> Live(r)) /\ (Prints(r)' <=> Prints(r))
  BY <1>7 DEF Live, Prints
<1>12. ModesFollow'
  BY <1>1, <1>3, <1>7, <1>8, <1>11 DEF Core, ModesFollow, Busy
<1>13. NothingCut' /\ Silent'
  <2>1. \A r \in Procs : OwesNone(r) => OwesNone(r)'
    BY <1>7 DEF OwesNone
  <2> QED BY <1>1, <1>3, <1>7, <1>11, <2>1 DEF Core, NothingCut, Silent
<1>14. CASE q.sent = <<>> /\ q.inFlight = None
  <2>1. toHost' = toHost /\ probes'.inFlight = None /\ astray' = astray
    BY <1>5, <1>6, <1>14
  <2>2. ViewIsOwed'
    BY <1>8, <2>1 DEF ViewIsOwed, Suppressing
  <2>3. InLine'
    <3>1. SUFFICES ASSUME ~astray PROVE InLine'
      BY <2>1 DEF InLine
    <3>2. InLine
      BY <1>1 DEF Core
    <3>3. CASE p = host.wired
      <4>1. Line(NoTurn, claude[p].input, toHost, None)
        BY <1>3, <3>1, <3>2, <3>3, LineEnds DEF InLine
      <4> QED BY <1>1, <1>3, <1>7, <2>1, <3>1, <3>2, <3>3, <4>1 DEF InLine
    <3>4. CASE p # host.wired
      <4>1. probes.inFlight = None
        BY <1>3, <3>1, <3>2, <3>4 DEF InLine, OwesNone
      <4>2. Plain(NoTurn, claude[p].input)
        BY <3>1, <3>2, <3>4, PlainNothing DEF InLine, Plain
      <4> QED BY <1>1, <1>3, <1>7, <2>1, <3>1, <3>2, <3>4, <4>1, <4>2 DEF InLine
    <3> QED BY <3>3, <3>4
  <2> QED BY <1>10, <1>12, <1>13, <2>2, <2>3 DEF ChatInv, Core
<1>15. CASE \E x \in Probes : q.sent = <<x>> /\ q.inFlight = x
  <2>1. PICK x \in Probes : q.sent = <<x>> /\ q.inFlight = x
    BY <1>15
  <2>2. PICK m : m = Input("probe", x)
    OBVIOUS
  <2>3. /\ toHost' = Append(toHost, m) /\ m \in Message /\ m.kind = "input" /\ m.turn = ProbeTurn(x)
        /\ probes'.inFlight = x /\ astray' = (Behind(p) # {})
    BY <1>5, <1>6, <2>1, <2>2
  <2>4. ProbeTurn(x) \in Way(toHost')
    BY <1>1, <2>3, WayGrows
  <2>5. ViewIsOwed'
    <3>1. ProbeTurn(x) \in Owed' /\ ProbeTurn(x).from = "probe" /\ ProbeTurn(x).what = x
      BY <2>4 DEF Owed, OnTheWay, Way, ProbeTurn
    <3> QED BY <1>8, <2>3, <3>1 DEF ViewIsOwed
  <2>6. InLine'
    <3>1. SUFFICES ASSUME Behind(p) = {} PROVE InLine'
      BY <2>3 DEF InLine
    <3>2. /\ OnTheWay = {} /\ ToSet(claude[p].input) = {}
          /\ \A r \in Procs : r # p /\ Prints(r) => OwedBy(r) = {}
      BY <3>1 DEF Behind
    <3>3. claude[p].input = <<>>
      <4>1. claude[p].input \in Seq(Turn)
        BY <1>1 DEF Proc
      <4>2. DOMAIN claude[p].input = {}
        BY <3>2 DEF ToSet
      <4> QED BY <4>1, <4>2, NothingThere
    <3>4. \A r \in Procs : OwesNone(r)'
      <4>1. \A r \in Procs : r # p => OwesNone(r)
        BY <1>1, <3>2, OwesNothing DEF Core, Silent
      <4> QED BY <1>7, <3>3, <4>1 DEF OwesNone
    <3> QED BY <1>1, <1>3, <1>7, <2>3, <3>2, <3>4, WayIsPlain, FirstProbe
  <2> QED BY <1>10, <1>12, <1>13, <2>5, <2>6 DEF ChatInv, Core
<1> QED BY <1>4, <1>14, <1>15

LEMMA ExitKeeps == ASSUME ChatInv, NEW p \in Procs, Exit(p) PROVE ChatInv'
<1>1. TypeOK /\ Armed /\ Core /\ claude \in [Procs -> Proc] /\ astray \in BOOLEAN /\ host.wired \in Procs
  BY DEF ChatInv, TypeOK
<1>2. /\ Prints(p)
      /\ claude' = [claude EXCEPT ![p].state = "gone", ![p].turn = NoTurn, ![p].input = <<>>]
      /\ IF Live(p) THEN Trouble("crash") ELSE UNCHANGED troubled
      /\ astray' = (astray \/ Strays(p))
      /\ UNCHANGED <<host, switch, toHost, probes, webview, used, clicks>>
  BY DEF Exit
<1>3. /\ claude' \in [Procs -> Proc] /\ claude'[p].turn = NoTurn /\ claude'[p].input = <<>>
      /\ claude'[p].state = "gone"
      /\ \A r \in Procs : claude'[r].mode = claude[r].mode /\ (r # p => claude'[r] = claude[r])
  <2>1. claude[p] \in Proc
    BY <1>1
  <2>2. PICK c : c = [claude[p] EXCEPT !.state = "gone", !.turn = NoTurn, !.input = <<>>]
    OBVIOUS
  <2>3. /\ c \in Proc /\ c.turn = NoTurn /\ c.input = <<>> /\ c.state = "gone"
        /\ c.mode = claude[p].mode
    <3>1. <<>> \in Seq(Turn)
      OBVIOUS
    <3> HIDE DEF Turn, NoTurn
    <3> QED BY <2>1, <2>2, <3>1 DEF Proc
  <2>4. claude' = [claude EXCEPT ![p] = c]
    BY <1>1, <1>2, <2>2
  <2> HIDE DEF Proc
  <2> QED BY <1>1, <2>3, <2>4
<1>4. /\ \A r \in Procs : Live(r)' <=> Live(r) /\ r # p
      /\ \A r \in Procs : OwesNone(r) => OwesNone(r)'
      /\ OwesNone(p)'
  BY <1>3 DEF Live, OwesNone
<1>5. /\ IF Live(p) THEN troubled' = troubled \cup {"crash"} ELSE troubled' = troubled
      /\ "cross" \in troubled <=> "cross" \in troubled'
      /\ "nostart" \in troubled <=> "nostart" \in troubled'
      /\ troubled' \in SUBSET Troubles
  BY <1>1, <1>2 DEF TypeOK, Troubles, Trouble, Noted
<1>6. TypeOK' /\ Armed'
  BY <1>1, <1>2, <1>3, <1>5 DEF TypeOK, Armed
<1>7. ModesFollow'
  BY <1>1, <1>2, <1>3, <1>4, <1>5 DEF Core, ModesFollow, Busy
<1>8. Silent'
  BY <1>1, <1>3, <1>4 DEF Core, Silent, Prints
<1>9. NothingCut'
  BY <1>1, <1>3, <1>4, <1>5 DEF Core, NothingCut
<1>10. ViewIsOwed'
  <2>1. SUFFICES ASSUME ~Live(p), troubled \cap {"kill", "crash"} = {} PROVE ViewIsOwed'
    BY <1>5 DEF ViewIsOwed
  <2>2. claude[p].turn = NoTurn
    <3>1. claude[p].state = "dying"
      BY <1>2, <2>1 DEF Prints, Live
    <3> QED BY <1>1, <2>1, <3>1 DEF Core, NothingCut, OwesNone
  <2>3. \A r \in Procs : Live(r) => Live(r)' /\ OwedBy(r) \subseteq OwedBy(r)'
    BY <1>3, <1>4, <2>1 DEF OwedBy
  <2>4. Owed \subseteq Owed'
    BY <1>2, <2>3, OwedStays DEF Way
  <2>5. \A r \in Procs : claude[r].turn # NoTurn => claude'[r].turn # NoTurn
    BY <1>3, <2>2
  <2> QED BY <1>1, <1>2, <1>5, <2>1, <2>4, <2>5 DEF Core, ViewIsOwed, Suppressing
<1>11. InLine'
  <2>1. SUFFICES ASSUME ~astray, ~Strays(p) PROVE InLine'
    BY <1>2 DEF InLine
  <2>2. InLine /\ Plain(claude[p].turn, claude[p].input)
    BY <1>1, <2>1, OwesNothing DEF Core
  <2>3. CASE p = host.wired
    <3>1. /\ Line(NoTurn, <<>>, toHost, probes.inFlight)
      BY <2>1, <2>2, <2>3, LineClears DEF InLine
    <3> QED BY <1>1, <1>2, <1>3, <1>4, <2>1, <2>2, <2>3, <3>1 DEF InLine
  <2>4. CASE p # host.wired
    <3>1. \A r \in Procs : r # p => claude'[r] = claude[r]
      BY <1>3
    <3> QED BY <1>1, <1>2, <1>3, <1>4, <2>1, <2>2, <2>4, PlainNothing DEF InLine
  <2> QED BY <2>3, <2>4
<1> QED BY <1>6, <1>7, <1>8, <1>9, <1>10, <1>11 DEF ChatInv, Core

----------------------------------------------------------------------------
(* A change of the mode.                                                   *)

\* A change is through: its process is spawned, of the mode the chip is told, or the start
\* fails, and none runs.
LEMMA SpawnKeeps ==
    ASSUME ChatInv, NEW s \in Switches, NEW mode \in Modes, SpawnClaude(s, mode), Busy(s),
           "cross" \notin troubled => mode = host.mode /\ host.supervised = 0,
           UNCHANGED <<toHost, probes, used, clicks>>
    PROVE  ChatInv'
<1>1. /\ TypeOK /\ Armed /\ Core /\ webview \in Views /\ claude \in [Procs -> Proc]
      /\ host \in [supervised : 0..(MaxSwitches + 1), wired : Procs, mode : Modes]
      /\ host.wired \in Procs /\ host.mode \in Modes /\ astray \in BOOLEAN
      /\ switch \in [Switches -> [at : {"idle", "saving", "killing", "done"}, mode : Modes]]
  BY DEF ChatInv, TypeOK, Views
<1>2. /\ switch' = [switch EXCEPT ![s].at = "done"]
      /\ webview' = [webview EXCEPT !.chip = host.mode]
  BY DEF SpawnClaude
<1>3. /\ webview' \in Views /\ webview'.chip = host.mode /\ webview'.armed = webview.armed
      /\ webview'.bubble = webview.bubble
      /\ switch' \in [Switches -> [at : {"idle", "saving", "killing", "done"}, mode : Modes]]
      /\ switch'[s].at = "done" /\ \A r \in Switches : r # s => switch'[r] = switch[r]
  BY <1>1, <1>2 DEF Views
<1>4. "cross" \notin troubled => \A r \in Switches : switch'[r].at \notin {"saving", "killing"}
  BY <1>1, <1>3 DEF Core, ModesFollow, Busy
<1>5. "cross" \notin troubled => \A r \in Procs : ~Live(r)
  <2>1. 0 \notin Procs
    BY DEF Procs
  <2> QED BY <1>1, <2>1 DEF Core, ModesFollow
<1>6. ASSUME NEW p \in Procs, claude[p].state = "unborn",
             claude' = [claude EXCEPT ![p].state = "running", ![p].mode = mode],
             host' = [host EXCEPT !.supervised = p, !.wired = p],
             astray' = (astray \/ Strays(host.wired)), UNCHANGED troubled
      PROVE  ChatInv'
  <2>1. /\ claude' \in [Procs -> Proc] /\ claude'[p].state = "running" /\ claude'[p].mode = mode
        /\ claude'[p].turn = claude[p].turn /\ claude'[p].input = claude[p].input
        /\ \A r \in Procs : r # p => claude'[r] = claude[r]
    <3>1. claude[p] \in Proc
      BY <1>1
    <3>2. PICK c : c = [claude[p] EXCEPT !.state = "running", !.mode = mode]
      OBVIOUS
    <3>3. /\ c \in Proc /\ c.turn = claude[p].turn /\ c.input = claude[p].input
          /\ c.state = "running" /\ c.mode = mode
      BY <3>1, <3>2 DEF Proc
    <3>4. claude' = [claude EXCEPT ![p] = c]
      BY <1>1, <1>6, <3>2
    <3> HIDE DEF Proc
    <3> QED BY <1>1, <3>3, <3>4
  <2>2. /\ host' \in [supervised : 0..(MaxSwitches + 1), wired : Procs, mode : Modes]
        /\ host'.supervised = p /\ host'.wired = p
    <3>1. p \in 0..(MaxSwitches + 1)
      BY ChatAssumption DEF Procs
    <3> QED BY <1>1, <1>6, <3>1
  <2>3. /\ \A r \in Procs : Live(r)' <=> Live(r) \/ r = p
        /\ ~Live(p) /\ ~Prints(p)
        /\ \A r \in Procs : claude'[r].turn = claude[r].turn /\ claude'[r].input = claude[r].input
        /\ \A r \in Procs : OwesNone(r)' <=> OwesNone(r)
    BY <1>6, <2>1 DEF Live, Prints, OwesNone
  <2>4. TypeOK' /\ Armed'
    BY <1>1, <1>3, <1>6, <2>1, <2>2 DEF TypeOK, Armed, Views
  <2>5. ModesFollow'
    <3>1. SUFFICES ASSUME "cross" \notin troubled PROVE ModesFollow'
      BY <1>6, <2>2 DEF ModesFollow
    <3>2. \A r \in Procs : Live(r)' => r = p
      BY <1>5, <2>3, <3>1
    <3>3. p # 0 /\ claude'[p].mode = host.mode
      BY <2>1, <3>1 DEF Procs
    <3>4. \A r \in Switches : switch'[r].at # "killing"
      BY <1>4, <3>1
    <3> QED BY <1>3, <1>4, <1>6, <2>2, <3>1, <3>2, <3>3, <3>4 DEF ModesFollow, Busy
  <2>6. NothingCut' /\ Silent'
    BY <1>1, <1>6, <2>1, <2>3 DEF Core, NothingCut, Silent, Prints
  <2>7. ViewIsOwed'
    <3>1. Owed \subseteq Owed'
      BY <2>3, OwedStays DEF Way, OwedBy
    <3> QED BY <1>1, <1>3, <1>6, <2>3, <3>1 DEF Core, ViewIsOwed, Suppressing
  <2>8. InLine'
    <3>1. SUFFICES ASSUME ~astray, ~Strays(host.wired) PROVE InLine'
      BY <1>6 DEF InLine
    <3>2. /\ InLine /\ Plain(claude[host.wired].turn, claude[host.wired].input)
          /\ claude[p].turn = NoTurn /\ claude[p].input = <<>>
      BY <1>1, <2>3, <3>1, OwesNothing DEF Core, Silent, OwesNone
    <3>3. /\ Line(NoTurn, <<>>, toHost, probes.inFlight)
          /\ probes.inFlight # None => OwesNone(host.wired)
      BY <3>1, <3>2, LineClears DEF InLine, OwesNone
    <3> QED BY <1>1, <2>2, <2>3, <3>1, <3>2, <3>3 DEF InLine
  <2> QED BY <2>4, <2>5, <2>6, <2>7, <2>8 DEF ChatInv, Core
<1>7. ASSUME troubled' = troubled \cup {"nostart"}, UNCHANGED <<claude, host, astray>>
      PROVE  ChatInv'
  <2>1. /\ troubled' \in SUBSET Troubles /\ "nostart" \in troubled'
        /\ "cross" \in troubled' <=> "cross" \in troubled
        /\ troubled' \cap {"kill", "crash"} = troubled \cap {"kill", "crash"}
    BY <1>1, <1>7 DEF TypeOK, Troubles
  <2>2. TypeOK' /\ Armed'
    BY <1>1, <1>3, <1>7, <2>1 DEF TypeOK, Armed, Views
  <2>3. ModesFollow'
    <3>1. SUFFICES ASSUME "cross" \notin troubled PROVE ModesFollow'
      BY <1>1, <1>7, <2>1 DEF Core, ModesFollow
    <3>2. \A r \in Procs : ~Live(r)'
      BY <1>5, <1>7, <3>1 DEF Live
    <3>3. \A r \in Switches : switch'[r].at # "killing"
      BY <1>4, <3>1
    <3> QED BY <1>1, <1>4, <1>7, <2>1, <3>1, <3>2, <3>3 DEF Core, ModesFollow, Busy
  <2>4. NothingCut' /\ Silent'
    BY <1>1, <1>7, <2>1 DEF Core, NothingCut, Silent, Prints, OwesNone
  <2>5. ViewIsOwed'
    <3>1. Owed' = Owed
      BY <1>7 DEF Owed, OnTheWay, OwedBy, Live
    <3> QED BY <1>1, <1>3, <1>7, <2>1, <3>1 DEF Core, ViewIsOwed, Suppressing
  <2>6. InLine'
    BY <1>1, <1>7 DEF Core, InLine, OwesNone, Live
  <2> QED BY <2>2, <2>3, <2>4, <2>5, <2>6 DEF ChatInv, Core
<1> QED BY <1>6, <1>7 DEF SpawnClaude, Trouble, Noted

LEMMA KilledKeeps == ASSUME ChatInv, NEW s \in Switches, Killed(s) PROVE ChatInv'
<1>1. /\ switch[s].at = "killing" /\ SpawnClaude(s, switch[s].mode) /\ Busy(s)
      /\ UNCHANGED <<toHost, probes, used, clicks>>
  BY DEF Killed, Busy
<1>2. switch[s].mode \in Modes
  BY DEF ChatInv, TypeOK
<1>3. "cross" \notin troubled => switch[s].mode = host.mode /\ host.supervised = 0
  BY <1>1 DEF ChatInv, Core, ModesFollow
<1> QED BY <1>1, <1>2, <1>3, SpawnKeeps

\* The process that is stopped first.
LEMMA StopKeeps ==
    ASSUME ChatInv, NEW s \in Switches, Saved(s), host.supervised # 0
    PROVE  ChatInv'
<1>1. /\ TypeOK /\ Armed /\ Core /\ claude \in [Procs -> Proc]
      /\ host \in [supervised : 0..(MaxSwitches + 1), wired : Procs, mode : Modes]
      /\ host.wired \in Procs /\ host.mode \in Modes /\ astray \in BOOLEAN
      /\ switch \in [Switches -> [at : {"idle", "saving", "killing", "done"}, mode : Modes]]
  BY DEF ChatInv, TypeOK
<1>2. PICK w \in Procs : w = host.supervised /\ w = host.wired
  BY <1>1 DEF Core, ModesFollow
<1>3. /\ switch[s].at = "saving"
      /\ claude' = IF Live(w) THEN [claude EXCEPT ![w].state = "dying"] ELSE claude
      /\ host' = [host EXCEPT !.supervised = 0]
      /\ switch' = [switch EXCEPT ![s] = [at |-> "killing", mode |-> host.mode]]
      /\ IF Live(w) /\ OwedBy(w) # {} THEN Noted("kill") ELSE UNCHANGED troubled
      /\ astray' = (astray \/ Strays(w))
      /\ UNCHANGED <<toHost, probes, webview, used, clicks>>
  BY <1>2 DEF Saved
<1>4. /\ claude' \in [Procs -> Proc] /\ claude'[w].state # "running"
      /\ \A r \in Procs : /\ r # w => claude'[r] = claude[r]
                          /\ claude'[r].mode = claude[r].mode
                          /\ claude'[r].turn = claude[r].turn /\ claude'[r].input = claude[r].input
      /\ Live(w) => claude'[w].state = "dying"
      /\ ~Live(w) => claude' = claude
  <2>1. CASE Live(w)
    <3>1. PICK c : c = [claude[w] EXCEPT !.state = "dying"]
      OBVIOUS
    <3>2. claude' = [claude EXCEPT ![w] = c]
      BY <1>1, <1>3, <2>1, <3>1
    <3>3. /\ c \in Proc /\ c.state = "dying" /\ c.mode = claude[w].mode
          /\ c.turn = claude[w].turn /\ c.input = claude[w].input
      <4>1. claude[w] \in Proc
        BY <1>1
      <4> HIDE DEF Turn, NoTurn
      <4> QED BY <3>1, <4>1 DEF Proc
    <3> HIDE DEF Proc
    <3> QED BY <1>1, <2>1, <3>2, <3>3
  <2>2. CASE ~Live(w)
    BY <1>1, <1>3, <2>2 DEF Live
  <2> QED BY <2>1, <2>2
<1>5. /\ host' \in [supervised : 0..(MaxSwitches + 1), wired : Procs, mode : Modes]
      /\ host'.wired = w /\ host'.mode = host.mode /\ host'.supervised = 0
  BY <1>1, <1>2, <1>3, ChatAssumption
<1>6. /\ switch' \in [Switches -> [at : {"idle", "saving", "killing", "done"}, mode : Modes]]
      /\ switch'[s].at = "killing" /\ switch'[s].mode = host.mode
      /\ \A r \in Switches : r # s => switch'[r] = switch[r]
  BY <1>1, <1>3
<1>7. /\ "kill" \in troubled' \/ ~Live(w) \/ OwedBy(w) = {}
      /\ "cross" \in troubled <=> "cross" \in troubled'
      /\ troubled' \in SUBSET Troubles
      /\ "kill" \notin troubled' => troubled' = troubled
  BY <1>1, <1>3 DEF Noted, TypeOK, Troubles
<1>8. /\ \A r \in Procs : Live(r)' <=> Live(r) /\ r # w
      /\ \A r \in Procs : (Prints(r)' <=> Prints(r)) /\ (OwesNone(r)' <=> OwesNone(r))
  BY <1>4 DEF Live, Prints, OwesNone
<1>9. TypeOK' /\ Armed'
  BY <1>1, <1>3, <1>4, <1>5, <1>6, <1>7 DEF TypeOK, Armed
<1>10. ModesFollow'
  <2>1. SUFFICES ASSUME "cross" \notin troubled PROVE ModesFollow'
    BY <1>5, <1>7 DEF ModesFollow
  <2>2. \A r \in Switches : Busy(r) => r = s
    BY <1>1, <1>3, <2>1 DEF Core, ModesFollow, Busy
  <2>3. \A r \in Switches : switch'[r].at \in {"saving", "killing"} => r = s
    BY <1>6, <2>2 DEF Busy
  <2>4. \A r \in Procs : ~Live(r)'
    BY <1>1, <1>2, <1>8, <2>1 DEF Core, ModesFollow
  <2>5. ~(\A r \in Switches : switch'[r].at # "killing")
    BY <1>6
  <2>6. \A r \in Switches : switch'[r].at = "killing" => switch'[r].mode = host'.mode
    BY <1>5, <1>6, <2>3
  <2> QED BY <1>5, <2>3, <2>4, <2>5, <2>6 DEF ModesFollow, Busy
<1>11. Silent'
  BY <1>1, <1>8 DEF Core, Silent
<1>12. NothingCut'
  <2>1. ASSUME "kill" \notin troubled', "crash" \notin troubled', NEW r \in Procs,
               claude'[r].state = "dying"
        PROVE  OwesNone(r)
    <3>1. CASE r = w /\ Live(w)
      BY <1>1, <1>7, <2>1, <3>1, OwesNothing
    <3>2. CASE ~(r = w /\ Live(w))
      <4>1. claude'[r] = claude[r] /\ troubled' = troubled
        BY <1>4, <1>7, <2>1, <3>2
      <4> QED BY <1>1, <2>1, <4>1 DEF Core, NothingCut
    <3> QED BY <3>1, <3>2
  <2> QED BY <1>8, <2>1 DEF NothingCut
<1>13. ViewIsOwed'
  <2>1. SUFFICES ASSUME troubled' \cap {"kill", "crash"} = {} PROVE ViewIsOwed'
    BY DEF ViewIsOwed
  <2>2. troubled' = troubled /\ (~Live(w) \/ OwedBy(w) = {})
    BY <1>7, <2>1
  <2>3. Owed \subseteq Owed'
    <3>1. \A r \in Procs : OwedBy(r)' = OwedBy(r)
      BY <1>4 DEF OwedBy
    <3>2. OnTheWay' = OnTheWay
      BY <1>3 DEF OnTheWay
    <3> QED BY <1>8, <2>2, <3>1, <3>2 DEF Owed
  <2> QED BY <1>1, <1>3, <1>4, <2>1, <2>2, <2>3 DEF Core, ViewIsOwed, Suppressing
<1>14. InLine'
  <2>1. SUFFICES ASSUME ~astray, ~Strays(w) PROVE InLine'
    BY <1>3 DEF InLine
  <2>2. InLine /\ Plain(claude[w].turn, claude[w].input)
    BY <1>1, <2>1, OwesNothing DEF Core
  <2>3. probes.inFlight # None => OwesNone(w)
    BY <1>2, <2>1, <2>2, LineClears DEF InLine, OwesNone
  <2> QED BY <1>2, <1>3, <1>4, <1>5, <1>8, <2>1, <2>2, <2>3 DEF InLine
<1> QED BY <1>9, <1>10, <1>11, <1>12, <1>13, <1>14 DEF ChatInv, Core

LEMMA SavedKeeps == ASSUME ChatInv, NEW s \in Switches, Saved(s) PROVE ChatInv'
<1>1. CASE host.supervised # 0
  BY <1>1, StopKeeps
<1>2. CASE host.supervised = 0
  <2>1. /\ switch[s].at = "saving" /\ SpawnClaude(s, host.mode) /\ Busy(s)
        /\ UNCHANGED <<toHost, probes, used, clicks>>
    BY <1>2 DEF Saved, Busy
  <2>2. host.mode \in Modes
    BY DEF ChatInv, TypeOK
  <2> QED BY <1>2, <2>1, <2>2, SpawnKeeps
<1> QED BY <1>1, <1>2

LEMMA UnsavedKeeps == ASSUME ChatInv, NEW s \in Switches, Unsaved(s) PROVE ChatInv'
<1>1. /\ TypeOK /\ Armed /\ Core
      /\ switch \in [Switches -> [at : {"idle", "saving", "killing", "done"}, mode : Modes]]
  BY DEF ChatInv, TypeOK
<1>2. /\ switch[s].at = "saving" /\ switch' = [switch EXCEPT ![s].at = "done"]
      /\ UNCHANGED <<claude, host, toHost, probes, webview, used, astray, clicks, troubled>>
  BY DEF Unsaved
<1>3. /\ switch' \in [Switches -> [at : {"idle", "saving", "killing", "done"}, mode : Modes]]
      /\ switch'[s].at = "done" /\ \A r \in Switches : r # s => switch'[r] = switch[r]
  BY <1>1, <1>2
<1>4. TypeOK' /\ Armed'
  BY <1>1, <1>2, <1>3 DEF TypeOK, Armed
<1>5. ModesFollow'
  <2>1. /\ \A r \in Switches : switch'[r].at \in {"saving", "killing"} => Busy(r)
        /\ \A r \in Switches : switch'[r].at = "killing" <=> switch[r].at = "killing"
        /\ \A r \in Switches : switch'[r].at = "killing" => switch'[r].mode = switch[r].mode
    BY <1>2, <1>3 DEF Busy
  <2> QED BY <1>1, <1>2, <2>1 DEF Core, ModesFollow, Busy, Live
<1>6. NothingCut' /\ Silent' /\ InLine'
  BY <1>1, <1>2 DEF Core, NothingCut, Silent, InLine, OwesNone, Prints, Live
<1>7. ViewIsOwed'
  BY <1>1, <1>2 DEF Core, ViewIsOwed, Suppressing, Owed, OnTheWay, OwedBy, Live
<1> QED BY <1>4, <1>5, <1>6, <1>7 DEF ChatInv, Core

----------------------------------------------------------------------------
(* The chat.                                                               *)

LEMMA ChatStarts == ChatInit => ChatInv
<1> SUFFICES ASSUME ChatInit PROVE ChatInv
  OBVIOUS
<1> USE ChatAssumption
<1>1. 1 \in Procs
  BY DEF Procs
<1>2. <<>> \in Seq(Turn) /\ <<>> \in Seq(Message) /\ <<>> \in Seq(Probes) /\ DOMAIN <<>> = {}
  OBVIOUS
<1>3. /\ claude \in [Procs -> Proc]
      /\ \A p \in Procs : /\ claude[p].input = <<>> /\ claude[p].turn = NoTurn
                          /\ claude[p].mode = "manual" /\ claude[p].state # "dying"
                          /\ claude[p].state = "running" <=> p = 1
  BY <1>2 DEF ChatInit, Proc, Modes
<1>4. /\ host = [supervised |-> 1, wired |-> 1, mode |-> "manual"]
      /\ host \in [supervised : 0..(MaxSwitches + 1), wired : Procs, mode : Modes]
      /\ host.wired = 1 /\ host.supervised = 1
  BY <1>1 DEF ChatInit, Modes
<1>5. /\ switch \in [Switches -> [at : {"idle", "saving", "killing", "done"}, mode : Modes]]
      /\ \A s \in Switches : switch[s].at = "idle"
  BY DEF ChatInit, Modes
<1>6. /\ webview \in Views /\ webview.chip = "manual" /\ ~webview.bubble /\ ~webview.armed
  BY DEF ChatInit, Views, Modes
<1>7. /\ toHost = <<>> /\ probes.inFlight = None /\ troubled = {} /\ astray = FALSE /\ clicks = 0
      /\ probes \in [inFlight : Probes \cup {None}, queued : Seq(Probes)]
      /\ used \in [gestures : 0..MaxActs, relays : 0..MaxRelays]
  BY <1>2 DEF ChatInit
<1>8. TypeOK /\ Armed
  BY <1>2, <1>3, <1>4, <1>5, <1>6, <1>7 DEF TypeOK, Armed, Views
<1>9. ModesFollow
  BY <1>1, <1>3, <1>4, <1>5, <1>6 DEF ModesFollow, Busy, Live
<1>10. NothingCut /\ Silent /\ ViewIsOwed
  BY <1>3, <1>6, <1>7 DEF NothingCut, Silent, OwesNone, ViewIsOwed, Suppressing
<1>11. InLine
  <2>1. PlainWay(<<>>)
    BY <1>2 DEF PlainWay
  <2>2. Line(NoTurn, <<>>, <<>>, None)
    BY <2>1, PlainNothing, AllPlain
  <2> QED BY <1>1, <1>3, <1>4, <1>7, <2>2, PlainNothing DEF InLine
<1> QED BY <1>8, <1>9, <1>10, <1>11 DEF ChatInv, Core

LEMMA ChatKeeps == ChatInv /\ [ChatNext]_chatVars => ChatInv'
<1> SUFFICES ASSUME ChatInv, [ChatNext]_chatVars PROVE ChatInv'
  OBVIOUS
<1>1. CASE UNCHANGED chatVars
  <2>1. TypeOK' /\ Armed'
    BY <1>1 DEF ChatInv, TypeOK, Armed, chatVars
  <2>2. Core'
    BY <1>1, CoreRests DEF ChatInv, chatVars
  <2> QED BY <2>1, <2>2 DEF ChatInv
<1>2. CASE User
  BY <1>2, SendKeeps, ClickModelKeeps, ClickContextKeeps, ClickPermissionKeeps, ChooseModeKeeps
     DEF User
<1>3. CASE Delivery \/ Relay
  BY <1>3, HandleInputKeeps, HandleModeKeeps, RelayKeeps DEF Delivery
<1>4. CASE WorkerCard
  BY <1>4, EndBubbleKeeps DEF WorkerCard
<1>5. ASSUME NEW s \in Switches, Saved(s) \/ Unsaved(s) \/ Killed(s) PROVE ChatInv'
  BY <1>5, SavedKeeps, UnsavedKeeps, KilledKeeps
<1>6. ASSUME NEW p \in Procs, Greet(p) \/ BeginTurn(p) \/ Say(p) \/ Show(p) \/ EndTurn(p) \/ Exit(p)
      PROVE  ChatInv'
  <2>1. Show(p) => EndBubble
    BY DEF Show
  <2> QED BY <1>6, <2>1, GreetKeeps, BeginTurnKeeps, SayKeeps, EndBubbleKeeps, EndTurnKeeps, ExitKeeps
<1> QED BY <1>1, <1>2, <1>3, <1>4, <1>5, <1>6 DEF ChatNext

\* The chat's inductive invariant.
THEOREM ChatInductive == ChatSpec => []ChatInv
<1>1. ChatInit => ChatInv
  BY ChatStarts
<1>2. ChatInv /\ [ChatNext]_chatVars => ChatInv'
  BY ChatKeeps
<1> QED BY <1>1, <1>2, PTL DEF ChatSpec

\* Replies are kept back, and a reply's text left open, only while that is owed.
THEOREM ViewIsAlwaysOwed == ChatSpec => []ViewIsOwed
<1>1. ChatInv => ViewIsOwed
  BY DEF ChatInv, Core
<1> QED BY <1>1, ChatInductive, PTL

\* Whatever is printed is hidden just when it answers a probe, unless a probe was asked for
\* behind another turn, overtaken or lost, and none was asked for in an idle chat since.
THEOREM ProbesAlwaysKeepToThemselves == ChatSpec => []ProbesKeepToThemselves
<1>1. ASSUME ChatInv PROVE ProbesKeepToThemselves
  <2>1. SUFFICES ASSUME NEW p \in Procs, claude[p].turn # NoTurn, ~astray
                 PROVE  Suppressing <=> IsProbe(claude[p].turn)
    BY DEF ProbesKeepToThemselves
  <2>2. InLine
    BY <1>1 DEF ChatInv, Core
  <2>3. CASE p = host.wired
    BY <2>1, <2>2, <2>3, LineEnds DEF InLine, Suppressing, IsProbe
  <2>4. CASE p # host.wired
    BY <2>1, <2>2, <2>4 DEF InLine, Suppressing, IsProbe, OwesNone, Plain
  <2> QED BY <2>3, <2>4
<1> QED BY <1>1, ChatInductive, PTL

\* The supervisor would stop the process the chat talks to, and the chip tells the mode of
\* what runs.
THEOREM ChipAlwaysTellsMode == ChatSpec => []ChipTellsMode
<1>1. ASSUME ChatInv PROVE ChipTellsMode
  <2>1. (\A s \in Switches : switch[s].at \in {"idle", "done"})
           => \A s \in Switches : switch[s].at # "killing"
    OBVIOUS
  <2> QED BY <1>1, <2>1 DEF ChatInv, Core, ModesFollow, ChipTellsMode
<1> QED BY <1>1, ChatInductive, PTL

\* No step sends the destructive mode before two clicks.
Unasked == Len(toHost') > Len(toHost) /\ Last(toHost') = [kind |-> "mode", mode |-> "bypass"]
               => clicks' >= 2

LEMMA LastSent ==
    ASSUME NEW th \in Seq(Message), NEW m \in Message
    PROVE  Last(Append(th, m)) = m
<1>1. /\ Len(Append(th, m)) = Len(th) + 1 /\ Append(th, m)[Len(th) + 1] = m
  BY AtEnd
<1> QED BY <1>1 DEF Last

\* An input is no mode.
LEMMA InputIsAsked ==
    ASSUME TypeOK, NEW m \in Message, m.kind = "input", toHost' = Append(toHost, m)
    PROVE  Unasked
<1>1. Last(toHost') = m
  BY LastSent DEF TypeOK
<1> QED BY <1>1 DEF Unasked

LEMMA RestIsAsked == ASSUME UNCHANGED toHost PROVE Unasked
<1>1. ~(Len(toHost') > Len(toHost))
  OBVIOUS
<1> QED BY <1>1 DEF Unasked

LEMMA AskingIsAsked ==
    ASSUME TypeOK, NEW name \in Probes, NEW q, NEW others, q = Request(Queue, name) \/ q = AfterTurn, Keep(q, others)
    PROVE  Unasked
<1>1. toHost \in Seq(Message) /\ probes.inFlight \in Probes \cup {None} /\ probes.queued \in Seq(Probes)
  BY DEF TypeOK
<1>2. q.sent = <<>> \/ \E x \in Probes : q.sent = <<x>>
  <2>1. q = Request(Queue, name) => q.sent = <<>> \/ \E x \in Probes : q.sent = <<x>>
    BY <1>1, RequestGives DEF Queue
  <2>2. q = AfterTurn => q.sent = <<>> \/ \E x \in Probes : q.sent = <<x>>
    BY AfterTurnGives
  <2> QED BY <2>1, <2>2
<1>3. /\ q.sent = <<>> => toHost' = toHost
      /\ \A x \in Probes : q.sent = <<x>> =>
            /\ toHost' = Append(toHost, Input("probe", x))
            /\ Input("probe", x) \in Message /\ Input("probe", x).kind = "input"
  BY <1>1, <1>2, KeepSends
<1>4. CASE q.sent = <<>>
  BY <1>3, <1>4, RestIsAsked
<1>5. CASE \E x \in Probes : q.sent = <<x>>
  <2>1. PICK x \in Probes : q.sent = <<x>>
    BY <1>5
  <2>2. PICK m : m = Input("probe", x)
    OBVIOUS
  <2>3. toHost' = Append(toHost, m) /\ m \in Message /\ m.kind = "input"
    BY <1>3, <2>1, <2>2
  <2> QED BY <2>3, InputIsAsked
<1> QED BY <1>2, <1>4, <1>5

\* The host takes its messages from the front.
LEMMA TakenIsAsked == ASSUME TypeOK, toHost # <<>>, toHost' = Tail(toHost) PROVE Unasked
<1>1. Len(toHost) \in Nat /\ Len(toHost') = Len(toHost) - 1
  BY AtFront DEF TypeOK
<1> QED BY <1>1 DEF Unasked

LEMMA ChoiceIsAsked == ASSUME ChatInv, NEW m \in Modes, ChooseMode(m) PROVE Unasked
<1>1. TypeOK /\ Armed /\ clicks \in Nat
  BY DEF ChatInv, TypeOK
<1>2. clicks' = (IF m = "bypass" THEN clicks + 1 ELSE clicks)
  BY DEF ChooseMode
<1>3. CASE m = "bypass" /\ ~webview.armed
  BY <1>3, RestIsAsked DEF ChooseMode
<1>4. CASE ~(m = "bypass" /\ ~webview.armed)
  <2>1. PICK e : e = [kind |-> "mode", mode |-> m]
    OBVIOUS
  <2>2. toHost' = Append(toHost, e) /\ e \in Message /\ e.mode = m
    BY <1>4, <2>1 DEF ChooseMode, Message
  <2>3. Last(toHost') = e
    BY <1>1, <2>2, LastSent DEF TypeOK
  <2>4. CASE m = "bypass"
    <3>1. clicks >= 1 /\ clicks' = clicks + 1
      BY <1>1, <1>2, <1>4, <2>4 DEF Armed
    <3> QED BY <1>1, <3>1 DEF Unasked
  <2>5. CASE m # "bypass"
    BY <2>2, <2>3, <2>5 DEF Unasked
  <2> QED BY <2>4, <2>5
<1> QED BY <1>3, <1>4

LEMMA EveryStepAsked == ASSUME ChatInv, ChatNext PROVE Unasked
<1>1. TypeOK
  BY DEF ChatInv
<1>2. "model" \in Probes /\ "context" \in Probes
  BY DEF Probes
<1>3. CASE Send
  <2>1. PICK m : m = Input("user", "talk")
    OBVIOUS
  <2>2. toHost' = Append(toHost, m) /\ m \in Message /\ m.kind = "input"
    BY <1>3, <2>1, PlainMessages DEF Send, Input
  <2> QED BY <1>1, <2>2, InputIsAsked
<1>4. CASE ClickModel
  <2>1. CASE webview.options
    <3>1. PICK m : m = Input("user", "talk")
      OBVIOUS
    <3>2. toHost' = Append(toHost, m) /\ m \in Message /\ m.kind = "input"
      BY <1>4, <2>1, <3>1, PlainMessages DEF ClickModel, Input
    <3> QED BY <1>1, <3>2, InputIsAsked
  <2>2. CASE ~webview.options
    <3>1. PICK q : q = Request(Queue, "model")
      OBVIOUS
    <3>2. Keep(q, Outstanding)
      BY <1>4, <2>2, <3>1 DEF ClickModel
    <3> QED BY <1>1, <1>2, <3>1, <3>2, AskingIsAsked
  <2> QED BY <2>1, <2>2
<1>5. CASE ClickContext
  <2>1. CASE webview.panel = "context"
    BY <1>5, <2>1, RestIsAsked DEF ClickContext
  <2>2. CASE webview.panel # "context"
    <3>1. PICK q : q = Request(Queue, "context")
      OBVIOUS
    <3>2. Keep(q, Outstanding)
      BY <1>5, <2>2, <3>1 DEF ClickContext
    <3> QED BY <1>1, <1>2, <3>1, <3>2, AskingIsAsked
  <2> QED BY <2>1, <2>2
<1>6. CASE ClickPermission \/ Relay \/ WorkerCard
  <2>1. UNCHANGED toHost
    BY <1>6 DEF ClickPermission, Relay, WorkerCard, EndBubble
  <2> QED BY <2>1, RestIsAsked
<1>7. CASE \E m \in Modes : ChooseMode(m)
  BY <1>7, ChoiceIsAsked
<1>8. CASE Delivery
  <2>1. toHost # <<>> /\ toHost' = Tail(toHost)
    BY <1>8 DEF Delivery, HandleInput, HandleMode
  <2> QED BY <1>1, <2>1, TakenIsAsked
<1>9. CASE \E s \in Switches : Saved(s) \/ Unsaved(s) \/ Killed(s)
  <2>1. UNCHANGED toHost
    BY <1>9 DEF Saved, Unsaved, Killed
  <2> QED BY <2>1, RestIsAsked
<1>10. ASSUME NEW p \in Procs, Greet(p)
       PROVE  Unasked
  <2>1. PICK q : q = Request(Queue, "model")
    OBVIOUS
  <2>2. Keep(q, Outstanding)
    BY <1>10, <2>1 DEF Greet
  <2> QED BY <1>1, <1>2, <2>1, <2>2, AskingIsAsked
<1>11. ASSUME NEW p \in Procs, EndTurn(p)
       PROVE  Unasked
  <2>1. PICK q : q = AfterTurn
    OBVIOUS
  <2>2. Keep(q, Behind(p))
    BY <1>11, <2>1 DEF EndTurn
  <2> QED BY <1>1, <1>2, <2>1, <2>2, AskingIsAsked
<1>12. ASSUME NEW p \in Procs, BeginTurn(p) \/ Say(p) \/ Show(p) \/ Exit(p)
       PROVE  Unasked
  <2>1. UNCHANGED toHost
    BY <1>12 DEF BeginTurn, Say, Show, EndBubble, Exit
  <2> QED BY <2>1, RestIsAsked
<1> QED BY <1>3, <1>4, <1>5, <1>6, <1>7, <1>8, <1>9, <1>10, <1>11, <1>12 DEF ChatNext, User

\* Bypassing every permission check takes two clicks since the panel was opened.
THEOREM BypassAlwaysTakesTwoClicks == ChatSpec => BypassTakesTwoClicks
<1>1. ChatInv /\ [ChatNext]_chatVars
        => [Len(toHost') > Len(toHost) /\ Last(toHost') = [kind |-> "mode", mode |-> "bypass"]
              => clicks' >= 2]_chatVars
  <2>1. SUFFICES ASSUME ChatInv, ChatNext PROVE Unasked
    BY DEF Unasked
  <2> QED BY <2>1, EveryStepAsked
<1> QED BY <1>1, ChatInductive, PTL DEF ChatSpec, BypassTakesTwoClicks
----------------------------------------------------------------------------
(* The window. Its inductive invariant says, for every await a start, a        *)
(* publishing or a stop is held in, which processes there are: one thing is    *)
(* at work at a time, as long as no command is given on top of another.        *)

Process == [name : Names, port : Nat, host : {"local", "public"},
            state : {"starting", "up", "deaf", "dying", "gone"}]
Session == [at : {"pick", "kill", "boot", "stop", "seat", "add", "ready", "failed"},
            victim : Nat, published : BOOLEAN, feed : {"none", "on", "stopped"}, conn : Nat]

\* Where a publishing is once its session is there, and where a stop is.
PastAts == {"login", "retunnel", "url", "nourl", "untunnel", "room", "reroom", "up", "notup",
            "seat", "add"}
StopAts == {"stopping", "stopped"}
CommandAts == PastAts \cup StopAts \cup {"ensure", "done"}
Command == [kind : {"share", "unshare", "restart", "close"}, session : Nat,
            at : CommandAts, victim : Nat, names : Seq(Names)]
ViewState == [published : BOOLEAN, busy : BOOLEAN]
SeatState == [seated : BOOLEAN, file : Nat]

Table ==
    /\ procs \in Seq(Process) /\ sup \in [Names -> 0..Len(procs)]
    /\ \A n \in Names : sup[n] # 0 => procs[sup[n]].name = n

WindowTypes ==
    /\ Table
    /\ sessions \in Seq(Session) /\ ops \in Seq(Command)
    /\ window \in [session : Nat, starting : Nat, open : BOOLEAN]
    /\ view \in ViewState /\ seat \in SeatState
    /\ gestures \in Nat /\ happened \in SUBSET Kinds

Settled(s) == sessions[s].at \in {"ready", "failed"}

\* What a command that is at work finds.
Placed(o) ==
    /\ window.open
    /\ ops[o].at = "ensure" =>
          /\ ops[o].kind # "close" /\ ops[o].session \in DOMAIN sessions
          /\ \/ ops[o].session \in {window.session, window.starting}
             \/ /\ window.session = 0 /\ window.starting = 0
                /\ sessions[ops[o].session].at = "failed"
    /\ ops[o].at \in StopAts =>
          ops[o].kind \in {"restart", "close"} /\ window.session = 0 /\ window.starting = 0
    /\ ops[o].at \in PastAts =>
          /\ ops[o].kind \in {"share", "unshare"}
          /\ window.session = ops[o].session /\ window.session # 0 /\ window.starting = 0

\* One thing at a time.
Control ==
    /\ \A o, r \in Working : o = r
    /\ \A s \in DOMAIN sessions : Settled(s) <=> s # window.starting
    /\ window.starting # 0 =>
          window.starting \in DOMAIN sessions /\ window.session = 0 /\ window.open
    /\ window.session # 0 =>
          /\ window.session \in DOMAIN sessions /\ sessions[window.session].at = "ready"
          /\ window.open
    /\ \A o \in Working : Placed(o)

Gentle == Calm({"overlap", "crash", "linger"})
Smooth == Calm({"overlap", "crash", "slow", "linger"})

Clear(n)    == sup[n] = 0
\* What is dying is process v, whose end is awaited.
Awaits(v)   == \A p \in DOMAIN procs : procs[p].state = "dying" => p = v
TunnelUp    == sup["tunnel"] # 0 /\ procs[sup["tunnel"]].state = "up"
RoomIn(w, states) ==
    /\ sup["room"] # 0
    /\ procs[sup["room"]].port = w /\ procs[sup["room"]].state \in states
Coming(w)   == RoomIn(w, {"starting", "up"})
Housed(w)   == RoomIn(w, {"up"})
Hosted(h)   == sup["room"] # 0 => procs[sup["room"]].host = h
Shared(w)   == TunnelUp /\ Housed(w) /\ Hosted("public")
SeatOk(w)   == seat = [seated |-> TRUE, file |-> w] \/ "refuse" \in happened

World ==
    /\ \A p \in DOMAIN procs : Alive(p) => sup[procs[p].name] = p
    /\ Gentle => \A n \in Names : sup[n] # 0 => Alive(sup[n])
    /\ ~window.open => \A n \in Names : Clear(n)

\* With nothing at work that touches a process: the window has session w, or none,
\* which is published or not, and the view shows one or the other.
Rest(w, published, shown) ==
    /\ Gentle => /\ Awaits(0)
                 /\ w = 0 => Clear("tunnel")
                 /\ w # 0 => /\ shown = published
                             /\ IF published THEN Shared(w) ELSE Clear("tunnel")
    /\ Smooth /\ w # 0 => Housed(w) /\ SeatOk(w)

\* A start of session s, that awaits the end of process v.
StartStage(v, published, at, s) ==
    /\ at \in {"kill", "stop"} => Clear("room")
    /\ at \notin {"kill", "stop"} => v = 0
    /\ Gentle => Awaits(v) /\ Clear("tunnel") /\ ~published
    /\ Smooth => /\ at # "stop"
                 /\ at = "boot" => Coming(s)
                 /\ at \in {"seat", "add"} => Housed(s)
                 /\ at = "add" => ~seat.seated

\* A publishing of session w, or the end of it.
ShareStage(v, published, kind, at, w) ==
    /\ at \in {"login", "retunnel", "url", "nourl"} => kind = "share"
    /\ at \in {"untunnel", "room"} => kind = "unshare"
    /\ at \in {"retunnel", "nourl", "untunnel", "room"} => Clear("tunnel")
    /\ at = "reroom" => Clear("room")
    /\ at \in {"login", "url", "room", "up", "seat", "add"} => v = 0
    /\ Gentle =>
          /\ Awaits(v)
          /\ at \in {"login", "retunnel", "url", "nourl"} => ~published
          /\ at \in {"login", "notup"} => Clear("tunnel")
          /\ at \in {"reroom", "up", "seat", "add"} =>
                IF kind = "share" THEN TunnelUp ELSE Clear("tunnel")
          /\ at = "up" => Hosted(IF kind = "share" THEN "public" ELSE "local")
          /\ at \in {"seat", "add"} =>
                /\ published = (kind = "share")
                /\ kind = "share" => Shared(w)
    /\ Smooth =>
          /\ SeatOk(w) /\ at # "notup"
          /\ at \notin {"reroom", "up"} => Housed(w)
          /\ at = "up" => Coming(w)

\* A stop of everything, with the processes under these names left.
StopStage(v, names, at) ==
    /\ Gentle => Awaits(v)
    /\ at = "stopping" => /\ v = 0
                          /\ \A n \in Names : ~Clear(n) => n \in ToSet(names)
    /\ at = "stopped" => \A n \in Names : ~Clear(n) => n \in ToSet(Tail(names))

\* A command that waits for its session.
EnsureStage(v, published, kind) ==
    /\ v = 0
    /\ kind = "share" /\ Gentle => ~published

AtRest == window.starting = 0 /\ \A o \in Working : ops[o].at = "ensure"

Stages ==
    /\ World
    /\ window.starting # 0 =>
          StartStage(sessions[window.starting].victim, sessions[window.starting].published,
                     sessions[window.starting].at, window.starting)
    /\ AtRest => Rest(window.session, sessions[window.session].published, view.published)
    /\ \A o \in Working :
          /\ ops[o].at \in PastAts =>
                ShareStage(ops[o].victim, sessions[ops[o].session].published, ops[o].kind,
                           ops[o].at, ops[o].session)
          /\ ops[o].at \in StopAts => StopStage(ops[o].victim, ops[o].names, ops[o].at)
          /\ ops[o].at = "ensure" =>
                EnsureStage(ops[o].victim, sessions[ops[o].session].published, ops[o].kind)

WindowInv == WindowTypes /\ (Calm({"overlap"}) => Control /\ Stages)

LEMMA AtPlace ==
    ASSUME NEW S, NEW s \in Seq(S), NEW i \in DOMAIN s, NEW e \in S,
           NEW g, g = [s EXCEPT ![i] = e]
    PROVE  /\ g \in Seq(S) /\ DOMAIN g = DOMAIN s /\ Len(g) = Len(s) /\ g[i] = e
           /\ \A j \in DOMAIN s : j # i => g[j] = s[j]
<1>1. DOMAIN s = 1..Len(s) /\ Len(s) \in Nat /\ s \in [1..Len(s) -> S]
  BY LenProperties
<1> QED BY <1>1, ExceptSeq

LEMMA EachPlace ==
    ASSUME NEW S, NEW s \in Seq(S), NEW g \in [DOMAIN s -> S]
    PROVE  g \in Seq(S) /\ DOMAIN g = DOMAIN s /\ Len(g) = Len(s)
<1>1. DOMAIN s = 1..Len(s) /\ Len(s) \in Nat
  BY LenProperties
<1>2. g \in Seq(S)
  BY <1>1, SeqDef
<1> QED BY <1>1, <1>2, LenProperties

\* A command that goes on, and a session that does.
Moved(f, g, o, a, v) ==
    /\ DOMAIN g = DOMAIN f /\ \A r \in DOMAIN f : r # o => g[r] = f[r]
    /\ g[o].kind = f[o].kind /\ g[o].session = f[o].session
    /\ g[o].at = a /\ g[o].victim = v

SameFate(c, d) == d.at = c.at /\ d.victim = c.victim /\ d.published = c.published
Alike(f, g)    == DOMAIN g = DOMAIN f /\ \A s \in DOMAIN f : SameFate(f[s], g[s])
Advanced(f, g, s, a, v) ==
    /\ DOMAIN g = DOMAIN f /\ \A r \in DOMAIN f : r # s => SameFate(f[r], g[r])
    /\ g[s].at = a /\ g[s].victim = v /\ g[s].published = f[s].published

NamesKept(f, g, o) == g[o].names = f[o].names

LEMMA CommandMoves ==
    ASSUME NEW f \in Seq(Command), NEW o \in DOMAIN f, NEW a \in CommandAts, NEW v \in Nat,
           NEW g, g = [f EXCEPT ![o].at = a, ![o].victim = v]
    PROVE  g \in Seq(Command) /\ Moved(f, g, o, a, v) /\ NamesKept(f, g, o)
<1>1. f[o] \in Command
  BY LenProperties
<1>2. PICK c : c = [f[o] EXCEPT !.at = a, !.victim = v]
  OBVIOUS
<1>3. /\ c \in Command /\ c.kind = f[o].kind /\ c.session = f[o].session /\ c.at = a
      /\ c.victim = v /\ c.names = f[o].names
  BY <1>1, <1>2 DEF Command
<1>4. g = [f EXCEPT ![o] = c]
  BY <1>2
<1> HIDE DEF Command
<1>5. /\ g \in Seq(Command) /\ DOMAIN g = DOMAIN f /\ g[o] = c
      /\ \A r \in DOMAIN f : r # o => g[r] = f[r]
  <2>1. \A h : h = [f EXCEPT ![o] = c] =>
            /\ h \in Seq(Command) /\ DOMAIN h = DOMAIN f /\ h[o] = c
            /\ \A r \in DOMAIN f : r # o => h[r] = f[r]
    BY <1>3, AtPlace
  <2> QED BY <1>4, <2>1
<1> QED BY <1>3, <1>5 DEF Moved, NamesKept

LEMMA SessionMoves ==
    ASSUME NEW f \in Seq(Session), NEW s \in DOMAIN f,
           NEW a, a \in {"pick", "kill", "boot", "stop", "seat", "add", "ready", "failed"},
           NEW v \in Nat, NEW g, g = [f EXCEPT ![s].at = a, ![s].victim = v]
    PROVE  g \in Seq(Session) /\ Advanced(f, g, s, a, v)
<1>1. f[s] \in Session
  BY LenProperties
<1>2. PICK c : c = [f[s] EXCEPT !.at = a, !.victim = v]
  OBVIOUS
<1>3. c \in Session /\ c.published = f[s].published /\ c.at = a /\ c.victim = v
  BY <1>1, <1>2 DEF Session
<1>4. g = [f EXCEPT ![s] = c]
  BY <1>2
<1> HIDE DEF Session
<1>5. /\ g \in Seq(Session) /\ DOMAIN g = DOMAIN f /\ g[s] = c
      /\ \A r \in DOMAIN f : r # s => g[r] = f[r]
  <2>1. \A h : h = [f EXCEPT ![s] = c] =>
            /\ h \in Seq(Session) /\ DOMAIN h = DOMAIN f /\ h[s] = c
            /\ \A r \in DOMAIN f : r # s => h[r] = f[r]
    BY <1>3, AtPlace
  <2> QED BY <1>4, <2>1
<1> QED BY <1>3, <1>5 DEF Advanced, SameFate

\* A session that only changes in what the view is shown of it.
Marked(f, g, s, b) ==
    /\ DOMAIN g = DOMAIN f
    /\ \A r \in DOMAIN f : g[r].at = f[r].at /\ g[r].victim = f[r].victim
    /\ g[s].published = b

LEMMA SessionMarked ==
    ASSUME NEW f \in Seq(Session), NEW s \in DOMAIN f, NEW b \in BOOLEAN,
           NEW g, g = [f EXCEPT ![s].published = b]
    PROVE  g \in Seq(Session) /\ Marked(f, g, s, b)
<1>1. f[s] \in Session
  BY LenProperties
<1>2. PICK c : c = [f[s] EXCEPT !.published = b]
  OBVIOUS
<1>3. c \in Session /\ c.published = b /\ c.at = f[s].at /\ c.victim = f[s].victim
  BY <1>1, <1>2 DEF Session
<1>4. g = [f EXCEPT ![s] = c]
  BY <1>2
<1> HIDE DEF Session
<1>5. /\ g \in Seq(Session) /\ DOMAIN g = DOMAIN f /\ g[s] = c
      /\ \A r \in DOMAIN f : r # s => g[r] = f[r]
  BY <1>3, <1>4, AtPlace
<1> QED BY <1>3, <1>5 DEF Marked

\* The feed of a session is no part of its fate.
LEMMA FeedMoves ==
    ASSUME NEW f \in Seq(Session), NEW s \in DOMAIN f, NEW c \in Session, SameFate(f[s], c),
           NEW g, g = [f EXCEPT ![s] = c]
    PROVE  g \in Seq(Session) /\ Alike(f, g)
<1> HIDE DEF Session
<1>1. /\ g \in Seq(Session) /\ DOMAIN g = DOMAIN f /\ g[s] = c
      /\ \A r \in DOMAIN f : r # s => g[r] = f[r]
  BY AtPlace
<1> QED BY <1>1 DEF Alike, SameFate

LEMMA FeedsMove ==
    ASSUME NEW f \in Seq(Session), NEW g, g = [s \in DOMAIN f |-> g[s]],
           \A s \in DOMAIN f : g[s] \in Session /\ SameFate(f[s], g[s])
    PROVE  g \in Seq(Session) /\ Alike(f, g)
<1>1. g \in [DOMAIN f -> Session]
  OBVIOUS
<1> HIDE DEF Session
<1>2. g \in Seq(Session) /\ DOMAIN g = DOMAIN f
  BY <1>1, EachPlace
<1> QED BY <1>2 DEF Alike

LEMMA AtType ==
    ASSUME NEW f \in Seq(Session), NEW s \in DOMAIN f
    PROVE  f[s] \in Session
BY LenProperties

LEMMA FeedFates ==
    ASSUME NEW c \in Session, NEW p
    PROVE  /\ Unsubscribed(c) \in Session /\ SameFate(c, Unsubscribed(c))
           /\ Dropped(c, p) \in Session /\ SameFate(c, Dropped(c, p))
BY DEF Session, SameFate, Unsubscribed, Dropped

LEMMA FeedStops ==
    ASSUME NEW f \in Seq(Session), NEW g, g = StopFeed(f)
    PROVE  g \in Seq(Session) /\ Alike(f, g)
<1>1. CASE window.session = 0 \/ window.session \notin DOMAIN f
  <2>1. g = f
    <3>1. f = [i \in DOMAIN f |-> f[i]]
      BY LenProperties
    <3> QED BY <1>1, <3>1 DEF StopFeed
  <2> QED BY <2>1 DEF Alike, SameFate
<1>2. CASE window.session # 0 /\ window.session \in DOMAIN f
  <2>1. PICK s : s = window.session
    OBVIOUS
  <2>2. s \in DOMAIN f /\ f[s] \in Session
    BY <1>2, <2>1, AtType
  <2>3. PICK c : c = Unsubscribed(f[s])
    OBVIOUS
  <2>4. c \in Session /\ SameFate(f[s], c)
    BY <2>2, <2>3, FeedFates
  <2>5. g = [f EXCEPT ![s] = c]
    BY <1>2, <2>1, <2>3 DEF StopFeed
  <2> QED BY <2>2, <2>4, <2>5, FeedMoves
<1> QED BY <1>1, <1>2

----------------------------------------------------------------------------
(* What goes wrong, and what becomes of the process table.                   *)

Grows == happened' \in SUBSET Kinds /\ happened \subseteq happened'

LEMMA Upsetting ==
    ASSUME happened \in SUBSET Kinds, NEW k, Upset(k)
    PROVE  Grows /\ k \in happened'
BY WindowAssumption DEF Upset, Note, Grows

LEMMA Ending ==
    ASSUME happened \in SUBSET Kinds, NEW v, Ended(v)
    PROVE  Grows /\ (Gentle' /\ Awaits(v) => Awaits(0))
<1>1. CASE v = 0 \/ procs[v].state # "dying"
  BY <1>1 DEF Ended, Grows, Awaits
<1>2. CASE ~(v = 0 \/ procs[v].state # "dying")
  <2>1. Upset("linger")
    BY <1>2 DEF Ended
  <2>2. Grows /\ "linger" \in happened'
    BY <2>1, Upsetting
  <2> QED BY <2>2 DEF Gentle, Calm
<1> QED BY <1>1, <1>2

LEMMA BeingLate ==
    ASSUME happened \in SUBSET Kinds, NEW s, Late(s)
    PROVE  Grows /\ (Smooth' /\ Table => ~Coming(s))
<1>1. Serving(s) = {}
  BY DEF Late
<1>2. CASE sup["room"] # 0 /\ procs[sup["room"]].state = "starting"
  <2>1. Upset("slow")
    BY <1>1, <1>2 DEF Late
  <2>2. Grows /\ "slow" \in happened'
    BY <2>1, Upsetting
  <2> QED BY <2>2 DEF Smooth, Calm
<1>3. CASE ~(sup["room"] # 0 /\ procs[sup["room"]].state = "starting")
  <2>1. Grows
    BY <1>1, <1>3 DEF Late, Grows
  <2>2. ASSUME Table, Coming(s)
        PROVE  FALSE
    <3>1. /\ sup["room"] # 0 /\ procs[sup["room"]].port = s
          /\ procs[sup["room"]].state = "up"
      BY <1>3, <2>2 DEF Coming, RoomIn
    <3>2. sup["room"] \in DOMAIN procs /\ procs[sup["room"]].name = "room"
      BY <2>2, <3>1, LenProperties DEF Table, Names
    <3> QED BY <1>1, <3>1, <3>2 DEF Serving
  <2> QED BY <2>1, <2>2
<1> QED BY <1>2, <1>3

LEMMA Calmer ==
    ASSUME Grows
    PROVE  /\ Gentle' => Gentle /\ ~("linger" \in happened') /\ ~("crash" \in happened')
           /\ Smooth' => Smooth /\ ~("slow" \in happened')
           /\ Smooth' => Gentle' /\ Gentle
           /\ Calm({"overlap"})' => Calm({"overlap"}) /\ ~("overlap" \in happened')
           /\ \A w : seat' = seat /\ SeatOk(w) => SeatOk(w)'
BY DEF Grows, Gentle, Smooth, Calm, SeatOk

LEMMA TableFacts ==
    ASSUME Table
    PROVE  /\ Len(procs) \in Nat /\ DOMAIN procs = 1..Len(procs)
           /\ \A p \in DOMAIN procs : procs[p] \in Process /\ p # 0
           /\ \A n \in Names : sup[n] \in Nat /\ (sup[n] # 0 => sup[n] \in DOMAIN procs)
           /\ \A n, m \in Names : n # m /\ sup[n] # 0 => sup[n] # sup[m]
<1>1. Len(procs) \in Nat /\ DOMAIN procs = 1..Len(procs) /\ procs \in [1..Len(procs) -> Process]
  BY LenProperties DEF Table
<1>2. \A n \in Names : sup[n] \in Nat /\ (sup[n] # 0 => sup[n] \in DOMAIN procs)
  BY <1>1 DEF Table
<1>3. \A n, m \in Names : n # m /\ sup[n] # 0 => sup[n] # sup[m]
  BY <1>2 DEF Table
<1> QED BY <1>1, <1>2, <1>3

\* A process that is told to die goes out of the table, and all else stays.
LEMMA Killing ==
    ASSUME Table, NEW n \in Names, Kill(n)
    PROVE  /\ Table' /\ sup'[n] = 0 /\ \A m \in Names : m # n => sup'[m] = sup[m]
           /\ DOMAIN procs' = DOMAIN procs
           /\ \A p \in DOMAIN procs :
                 /\ procs'[p].name = procs[p].name
                 /\ p # sup[n] => procs'[p] = procs[p]
                 /\ Alive(p)' => Alive(p) /\ p # sup[n]
                 /\ procs'[p].state = "dying" => p = sup[n] \/ procs[p].state = "dying"
<1>1. PICK v : v = sup[n]
  OBVIOUS
<1>2. /\ procs' = [p \in DOMAIN procs |-> IF p = v /\ Alive(p)
                       THEN [procs[p] EXCEPT !.state = "dying"] ELSE procs[p]]
      /\ sup' = [sup EXCEPT ![n] = 0]
  BY <1>1 DEF Kill
<1>3. \A p \in DOMAIN procs : procs[p] \in Process
  BY TableFacts
<1>4. ASSUME NEW p \in DOMAIN procs
      PROVE  /\ procs'[p] \in Process /\ procs'[p].name = procs[p].name
             /\ p # v => procs'[p] = procs[p]
             /\ Alive(p)' => Alive(p) /\ p # v
             /\ procs'[p].state = "dying" => p = v \/ procs[p].state = "dying"
  <2>1. procs[p] \in Process
    BY <1>3
  <2>2. CASE p = v /\ Alive(p)
    <3>1. procs'[p] = [procs[p] EXCEPT !.state = "dying"]
      BY <1>2, <2>2
    <3>2. procs'[p] \in Process /\ procs'[p].name = procs[p].name /\ procs'[p].state = "dying"
      BY <2>1, <3>1 DEF Process
    <3> QED BY <2>2, <3>2 DEF Alive
  <2>3. CASE ~(p = v /\ Alive(p))
    <3>1. procs'[p] = procs[p]
      BY <1>2, <2>3
    <3> QED BY <2>1, <2>3, <3>1 DEF Alive
  <2> QED BY <2>2, <2>3
<1> HIDE DEF Process
<1>5. DOMAIN procs' = DOMAIN procs
  BY <1>2
<1>6. procs' \in Seq(Process) /\ Len(procs') = Len(procs)
  <2>1. procs' \in [DOMAIN procs -> Process]
    BY <1>2, <1>4
  <2> QED BY <2>1, EachPlace DEF Table
<1>7. sup'[n] = 0 /\ \A m \in Names : m # n => sup'[m] = sup[m]
  BY <1>2 DEF Table
<1>8. Table'
  <2>1. sup' \in [Names -> 0..Len(procs')]
    BY <1>2, <1>6, TableFacts DEF Table
  <2>2. ASSUME NEW m \in Names, sup'[m] # 0
        PROVE  procs'[sup'[m]].name = m
    <3>1. sup'[m] = sup[m] /\ sup[m] # 0
      BY <1>7, <2>2
    <3>2. sup[m] \in DOMAIN procs
      BY <3>1, TableFacts
    <3>3. procs'[sup[m]].name = procs[sup[m]].name /\ procs[sup[m]].name = m
      BY <1>4, <3>1, <3>2 DEF Table
    <3> QED BY <3>1, <3>3
  <2> QED BY <1>6, <2>1, <2>2 DEF Table
<1> QED BY <1>1, <1>4, <1>5, <1>7, <1>8

LEMMA KillingKeeps ==
    ASSUME Table, World, NEW n \in Names, Kill(n), Grows, window'.open = window.open
    PROVE  /\ World' /\ Clear(n)' /\ \A m \in Names : m # n => (Clear(m)' <=> Clear(m))
           /\ \A v : v = sup[n] /\ Awaits(0) => Awaits(v)'
           /\ n = "room" /\ TunnelUp => TunnelUp'
           /\ n = "tunnel" => \A w, states : RoomIn(w, states) => RoomIn(w, states)'
           /\ n = "tunnel" => \A h : Hosted(h) => Hosted(h)'
<1>1. /\ Table' /\ sup'[n] = 0 /\ \A m \in Names : m # n => sup'[m] = sup[m]
      /\ DOMAIN procs' = DOMAIN procs
      /\ \A p \in DOMAIN procs :
            /\ procs'[p].name = procs[p].name
            /\ p # sup[n] => procs'[p] = procs[p]
            /\ Alive(p)' => Alive(p) /\ p # sup[n]
            /\ procs'[p].state = "dying" => p = sup[n] \/ procs[p].state = "dying"
  BY Killing
<1>2. /\ \A p \in DOMAIN procs : procs[p] \in Process /\ p # 0
      /\ \A m \in Names : sup[m] # 0 => sup[m] \in DOMAIN procs
      /\ \A m, l \in Names : m # l /\ sup[m] # 0 => sup[m] # sup[l]
  BY TableFacts
<1>3. ASSUME NEW m \in Names, m # n, sup[m] # 0
      PROVE  /\ sup'[m] = sup[m] /\ procs'[sup[m]] = procs[sup[m]]
             /\ procs'[sup'[m]] = procs[sup[m]]
  BY <1>1, <1>2, <1>3
<1>4. World'
  <2>1. ASSUME NEW p \in DOMAIN procs, Alive(p)'
        PROVE  sup'[procs'[p].name] = p
    <3>1. /\ Alive(p) /\ p # sup[n] /\ procs'[p].name = procs[p].name
          /\ sup[procs[p].name] = p /\ procs[p].name \in Names
      BY <1>1, <1>2, <2>1 DEF World, Process
    <3> QED BY <1>1, <3>1
  <2>2. ASSUME Gentle', NEW m \in Names, sup'[m] # 0
        PROVE  Alive(sup[m])' /\ sup'[m] = sup[m]
    <3>1. m # n /\ sup[m] # 0 /\ Alive(sup[m])
      BY <1>1, <2>2, Calmer DEF World
    <3> QED BY <1>3, <3>1 DEF Alive
  <2>3. ~window'.open => \A m \in Names : sup'[m] = 0
    BY <1>1 DEF World, Clear
  <2>4. \A p \in DOMAIN procs' : Alive(p)' => sup'[procs'[p].name] = p
    BY <1>1, <2>1
  <2>5. Gentle' => \A m \in Names : sup'[m] # 0 => Alive(sup[m])' /\ sup'[m] = sup[m]
    BY <2>2
  <2> QED BY <2>3, <2>4, <2>5 DEF World, Clear, Alive
<1>5. Clear(n)' /\ \A m \in Names : m # n => (Clear(m)' <=> Clear(m))
  BY <1>1 DEF Clear
<1>6. \A v : v = sup[n] /\ Awaits(0) => Awaits(v)'
  BY <1>1, <1>2 DEF Awaits
<1>7. n = "room" /\ TunnelUp => TunnelUp'
  BY <1>3 DEF TunnelUp, Names
<1>8. n = "tunnel" => \A w, states : RoomIn(w, states) => RoomIn(w, states)'
  BY <1>3 DEF RoomIn, Names
<1>9. n = "tunnel" => \A h : Hosted(h) => Hosted(h)'
  <2>1. n = "tunnel" => sup'["room"] = sup["room"]
    BY <1>1 DEF Names
  <2> QED BY <1>3, <2>1 DEF Hosted, Names
<1> QED BY <1>4, <1>5, <1>6, <1>7, <1>8, <1>9

\* A process that is spawned is there, on its way up.
LEMMA Spawning ==
    ASSUME Table, NEW n \in Names, NEW port \in Nat, NEW addr \in {"local", "public"},
           Spawn(n, port, addr)
    PROVE  /\ Table' /\ sup'[n] # 0 /\ \A m \in Names : m # n => sup'[m] = sup[m]
           /\ DOMAIN procs \subseteq DOMAIN procs'
           /\ \A p \in DOMAIN procs : procs'[p] = procs[p]
           /\ \A p \in DOMAIN procs' : p \notin DOMAIN procs => p = sup'[n]
           /\ procs'[sup'[n]] = Fresh(n, port, addr)
<1>1. procs' = Append(procs, Fresh(n, port, addr)) /\ sup' = [sup EXCEPT ![n] = Len(procs) + 1]
  BY DEF Spawn
<1>2. Fresh(n, port, addr) \in Process /\ Fresh(n, port, addr).name = n
  BY DEF Fresh, Process
<1>3. Len(procs) \in Nat /\ DOMAIN procs = 1..Len(procs)
  BY TableFacts
<1> HIDE DEF Process
<1>4. /\ procs' \in Seq(Process) /\ DOMAIN procs' = 1..(Len(procs) + 1)
      /\ Len(procs') = Len(procs) + 1
      /\ \A i \in 1..Len(procs) : procs'[i] = procs[i]
      /\ procs'[Len(procs) + 1] = Fresh(n, port, addr)
  <2>1. procs \in Seq(Process)
    BY DEF Table
  <2> QED BY <1>1, <1>2, <2>1, AtEnd
<1>5. sup'[n] = Len(procs) + 1 /\ \A m \in Names : m # n => sup'[m] = sup[m]
  BY <1>1 DEF Table
<1>6. Table'
  <2>1. sup' \in [Names -> 0..Len(procs')]
    BY <1>1, <1>3, <1>4 DEF Table
  <2>2. ASSUME NEW m \in Names, sup'[m] # 0
        PROVE  procs'[sup'[m]].name = m
    <3>1. CASE m = n
      BY <1>2, <1>4, <1>5, <3>1
    <3>2. CASE m # n
      <4>1. sup'[m] = sup[m] /\ sup[m] # 0
        BY <1>5, <2>2, <3>2
      <4>2. sup[m] \in DOMAIN procs
        BY <4>1, TableFacts
      <4>3. procs'[sup[m]] = procs[sup[m]] /\ procs[sup[m]].name = m
        BY <1>3, <1>4, <4>1, <4>2 DEF Table
      <4> QED BY <4>1, <4>3
    <3> QED BY <3>1, <3>2
  <2> QED BY <1>4, <2>1, <2>2 DEF Table
<1> QED BY <1>3, <1>4, <1>5, <1>6

LEMMA SpawningKeeps ==
    ASSUME Table, World, NEW n \in Names, NEW port \in Nat, NEW addr \in {"local", "public"},
           Spawn(n, port, addr), Clear(n), Grows, window'.open = window.open, window.open
    PROVE  /\ World' /\ \A m \in Names : m # n => (Clear(m)' <=> Clear(m))
           /\ \A v : Awaits(v) => Awaits(v)'
           /\ n = "room" /\ TunnelUp => TunnelUp'
           /\ n = "room" => Coming(port)' /\ Hosted(addr)'
           /\ n = "tunnel" => \A w, states : RoomIn(w, states) => RoomIn(w, states)'
           /\ n = "tunnel" => \A h : Hosted(h) => Hosted(h)'
<1>1. /\ Table' /\ sup'[n] # 0 /\ \A m \in Names : m # n => sup'[m] = sup[m]
      /\ DOMAIN procs \subseteq DOMAIN procs'
      /\ \A p \in DOMAIN procs : procs'[p] = procs[p]
      /\ \A p \in DOMAIN procs' : p \notin DOMAIN procs => p = sup'[n]
      /\ procs'[sup'[n]] = Fresh(n, port, addr)
  BY Spawning
<1>2. /\ \A p \in DOMAIN procs : procs[p] \in Process
      /\ \A m \in Names : sup[m] # 0 => sup[m] \in DOMAIN procs
  BY TableFacts
<1>3. /\ procs'[sup'[n]].name = n /\ procs'[sup'[n]].port = port
      /\ procs'[sup'[n]].host = addr /\ procs'[sup'[n]].state = "starting"
  BY <1>1 DEF Fresh
<1>4. ASSUME NEW m \in Names, m # n, sup[m] # 0
      PROVE  /\ sup'[m] = sup[m] /\ procs'[sup[m]] = procs[sup[m]]
             /\ procs'[sup'[m]] = procs[sup[m]]
  BY <1>1, <1>2, <1>4
<1>5. World'
  <2>1. ASSUME NEW p \in DOMAIN procs', Alive(p)'
        PROVE  sup'[procs'[p].name] = p
    <3>1. CASE p \in DOMAIN procs
      <4>1. procs'[p] = procs[p] /\ Alive(p) /\ procs[p].name \in Names
        BY <1>1, <1>2, <2>1, <3>1 DEF Alive, Process
      <4>2. sup[procs[p].name] = p
        BY <3>1, <4>1 DEF World
      <4>3. procs[p].name # n
        BY <1>2, <3>1, <4>2, TableFacts DEF Clear
      <4> QED BY <1>1, <4>1, <4>2, <4>3
    <3>2. CASE p \notin DOMAIN procs
      BY <1>1, <1>3, <3>2
    <3> QED BY <3>1, <3>2
  <2>2. ASSUME Gentle', NEW m \in Names, sup'[m] # 0
        PROVE  procs'[sup'[m]].state \in {"starting", "up", "deaf"}
    <3>1. CASE m = n
      BY <1>3, <3>1
    <3>2. CASE m # n
      <4>1. sup[m] # 0 /\ Alive(sup[m])
        BY <1>1, <2>2, <3>2, Calmer DEF World
      <4> QED BY <1>4, <3>2, <4>1 DEF Alive
    <3> QED BY <3>1, <3>2
  <2>3. Gentle' => \A m \in Names : sup'[m] # 0 => procs'[sup'[m]].state \in {"starting", "up", "deaf"}
    BY <2>2
  <2> QED BY <2>1, <2>3 DEF World, Alive
<1>6. \A m \in Names : m # n => (Clear(m)' <=> Clear(m))
  BY <1>1 DEF Clear
<1>7. \A v : Awaits(v) => Awaits(v)'
  BY <1>1, <1>3 DEF Awaits
<1>8. n = "room" /\ TunnelUp => TunnelUp'
  BY <1>4 DEF TunnelUp, Names
<1>9. n = "room" => Coming(port)' /\ Hosted(addr)'
  BY <1>1, <1>3 DEF Coming, RoomIn, Hosted
<1>10. n = "tunnel" => \A w, states : RoomIn(w, states) => RoomIn(w, states)'
  BY <1>4 DEF RoomIn, Names
<1>11. n = "tunnel" => \A h : Hosted(h) => Hosted(h)'
  <2>1. n = "tunnel" => sup'["room"] = sup["room"]
    BY <1>1 DEF Names
  <2> QED BY <1>4, <2>1 DEF Hosted, Names
<1> QED BY <1>5, <1>6, <1>7, <1>8, <1>9, <1>10, <1>11

\* And a step that leaves the processes alone.
LEMMA Standing ==
    ASSUME World, UNCHANGED <<procs, sup>>, Grows, window'.open = window.open
    PROVE  /\ World' /\ \A n : Clear(n)' <=> Clear(n)
           /\ \A v : Awaits(v)' <=> Awaits(v)
           /\ TunnelUp' <=> TunnelUp
           /\ \A w, states : RoomIn(w, states)' <=> RoomIn(w, states)
           /\ \A h : Hosted(h)' <=> Hosted(h)
<1>1. World'
  BY Calmer DEF World, Alive, Clear
<1> QED BY <1>1 DEF Clear, Awaits, TunnelUp, RoomIn, Hosted

\* A room that serves the port of a session is the supervised one, and up.
LEMMA ServedByItsRoom ==
    ASSUME Table, World, Awaits(0), NEW s, Serving(s) # {}
    PROVE  Housed(s)
<1>1. PICK p \in DOMAIN procs : /\ procs[p].name = "room" /\ procs[p].port = s
                                /\ procs[p].state \in {"up", "dying"}
  BY DEF Serving
<1>2. procs[p].state = "up"
  BY <1>1, TableFacts DEF Awaits
<1>3. sup["room"] = p /\ p # 0
  BY <1>1, <1>2, TableFacts DEF World, Alive
<1> QED BY <1>1, <1>2, <1>3 DEF Housed, RoomIn

LEMMA HousedServes ==
    ASSUME Table, NEW s, Housed(s)
    PROVE  sup["room"] \in Serving(s) /\ Alive(sup["room"])
<1>1. sup["room"] # 0 /\ procs[sup["room"]].port = s /\ procs[sup["room"]].state = "up"
  BY DEF Housed, RoomIn
<1>2. sup["room"] \in DOMAIN procs /\ procs[sup["room"]].name = "room"
  BY <1>1, TableFacts DEF Table, Names
<1> QED BY <1>1, <1>2 DEF Serving, Alive

----------------------------------------------------------------------------
(* What is at work goes on, ends, or is left alone.                           *)

SameAts(f, g) == DOMAIN g = DOMAIN f /\ \A s \in DOMAIN f : g[s].at = f[s].at

LEMMA AtWork ==
    ASSUME Control, NEW o \in Working
    PROVE  /\ \A r \in Working : r = o
           /\ o \in DOMAIN ops /\ ops[o].at # "done" /\ Placed(o)
BY DEF Control, Working

LEMMA MovedWork ==
    ASSUME Control, NEW o \in Working, NEW a, NEW v, Moved(ops, ops', o, a, v)
    PROVE  /\ a # "done" => Working' = {o}
           /\ a = "done" => Working' = {}
           /\ ops'[o].at = a /\ ops'[o].victim = v
           /\ ops'[o].kind = ops[o].kind /\ ops'[o].session = ops[o].session
<1>1. /\ DOMAIN ops' = DOMAIN ops /\ \A r \in DOMAIN ops : r # o => ops'[r] = ops[r]
      /\ ops'[o].at = a /\ ops'[o].victim = v
      /\ ops'[o].kind = ops[o].kind /\ ops'[o].session = ops[o].session
  BY DEF Moved
<1>2. o \in DOMAIN ops /\ \A r \in DOMAIN ops : r # o => ops[r].at = "done"
  BY AtWork DEF Working
<1>3. \A r \in DOMAIN ops' : ops'[r].at # "done" <=> r = o /\ a # "done"
  BY <1>1, <1>2
<1> QED BY <1>1, <1>2, <1>3 DEF Working

\* A publishing goes on.
LEMMA ShareGoesOn ==
    ASSUME Control, NEW o \in Working, NEW a \in PastAts, NEW v, NEW w, NEW kind, NEW published,
           Moved(ops, ops', o, a, v), UNCHANGED window, SameAts(sessions, sessions'),
           window.starting = 0, window.session = w, w # 0, window.open,
           w = ops[o].session, kind = ops[o].kind, kind \in {"share", "unshare"},
           published = sessions'[w].published,
           World', ShareStage(v, published, kind, a, w)'
    PROVE  (Control /\ Stages)'
<1>1. /\ Working' = {o} /\ ops'[o].at = a /\ ops'[o].victim = v
      /\ ops'[o].kind = kind /\ ops'[o].session = w
  BY MovedWork DEF PastAts
<1>2. a # "ensure" /\ a \notin StopAts
  BY DEF PastAts, StopAts
<1>3. Control'
  <2>1. /\ \A x, r \in Working' : x = r
        /\ \A x \in Working' : Placed(x)'
    BY <1>1, <1>2 DEF Placed
  <2>2. \A s \in DOMAIN sessions' : Settled(s)' <=> s # window'.starting
    BY DEF SameAts, Settled, Control
  <2>3. /\ window'.starting = 0
        /\ window'.session \in DOMAIN sessions' /\ sessions'[window'.session].at = "ready"
        /\ window'.open
    BY DEF SameAts, Control
  <2> QED BY <2>1, <2>2, <2>3 DEF Control
<1>4. Stages'
  <2>1. ~AtRest'
    BY <1>1, <1>2 DEF AtRest
  <2>2. \A x \in Working' : /\ x = o /\ ops'[x].at = a
                            /\ ShareStage(ops[x].victim, sessions[ops[x].session].published,
                                          ops[x].kind, ops[x].at, ops[x].session)'
    <3>1. ShareStage(ops[o].victim, sessions[ops[o].session].published,
                     ops[o].kind, ops[o].at, ops[o].session)'
      BY <1>1 DEF ShareStage, Awaits, Clear, Hosted, Shared, Housed, RoomIn, SeatOk, Coming, TunnelUp, Gentle, Smooth
    <3> QED BY <1>1, <3>1
  <2> QED BY <1>2, <2>1, <2>2 DEF Stages
<1> QED BY <1>3, <1>4

\* The last thing at work comes to its end.
LEMMA WorkEnds ==
    ASSUME Control, NEW o \in Working, NEW v, NEW w, NEW published, NEW shown,
           Moved(ops, ops', o, "done", v), UNCHANGED window, SameAts(sessions, sessions'),
           window.starting = 0, window.session = w, published = sessions'[w].published,
           shown = view'.published, World', Rest(w, published, shown)'
    PROVE  (Control /\ Stages)'
<1>1. Working' = {}
  BY MovedWork
<1>2. Control'
  <2>1. \A s \in DOMAIN sessions' : Settled(s)' <=> s # window'.starting
    BY DEF SameAts, Settled, Control
  <2>2. /\ window'.starting = 0
        /\ window'.session # 0 =>
              /\ window'.session \in DOMAIN sessions' /\ sessions'[window'.session].at = "ready"
              /\ window'.open
    BY DEF SameAts, Control
  <2> QED BY <1>1, <2>1, <2>2 DEF Control
<1>3. Rest(window.session, sessions[window.session].published, view.published)'
  BY DEF Rest, Awaits, Clear, Shared, Housed, Hosted, TunnelUp, RoomIn, SeatOk, Gentle, Smooth
<1> QED BY <1>1, <1>2, <1>3 DEF Stages

\* What waited for a session leaves all as it is.
LEMMA WaitEnds ==
    ASSUME Control, Stages, NEW o \in Working, NEW v, Moved(ops, ops', o, "done", v),
           ops[o].at = "ensure", UNCHANGED <<procs, sup, sessions, window, view, seat, happened>>
    PROVE  (Control /\ Stages)'
<1>1. Working' = {} /\ \A r \in Working : ops[r].at = "ensure"
  BY MovedWork, AtWork
<1>2. Control'
  BY <1>1 DEF Control, Settled
<1>3. World'
  BY DEF Stages, World, Alive, Clear, Gentle, Calm
<1>4. window.starting # 0 =>
          StartStage(sessions[window.starting].victim, sessions[window.starting].published,
                     sessions[window.starting].at, window.starting)'
  BY DEF Stages, StartStage, Clear, Awaits, Coming, Housed, RoomIn, Gentle, Smooth, Calm
<1>5. window.starting = 0 => Rest(window.session, sessions[window.session].published, view.published)'
  BY <1>1 DEF Stages, AtRest, Rest, Awaits, Clear, Shared, Housed, Hosted, TunnelUp, RoomIn, SeatOk,
              Gentle, Smooth, Calm
<1> QED BY <1>1, <1>2, <1>3, <1>4, <1>5 DEF Stages, AtRest

\* A step of the processes alone.
LEMMA WorkStands ==
    ASSUME Control, Stages, Alike(sessions, sessions'), UNCHANGED <<window, ops, view, seat>>,
           0 \notin DOMAIN sessions,
           Grows, World', \A n \in Names : Clear(n)' <=> Clear(n),
           Gentle' => /\ \A v : Awaits(v) => Awaits(v)'
                      /\ TunnelUp => TunnelUp'
                      /\ \A w : Housed(w) => Housed(w)'
                      /\ \A w : Awaits(0) /\ Coming(w) => Coming(w)'
                      /\ \A h : Hosted(h) => Hosted(h)'
    PROVE  (Control /\ Stages)'
<1>1. /\ DOMAIN sessions' = DOMAIN sessions
      /\ \A s \in DOMAIN sessions : /\ sessions'[s].at = sessions[s].at
                                    /\ sessions'[s].victim = sessions[s].victim
                                    /\ sessions'[s].published = sessions[s].published
  BY DEF Alike, SameFate
<1>2. Working' = Working
  BY DEF Working
<1>3. Control'
  <2>1. \A s \in DOMAIN sessions' : Settled(s)' <=> s # window'.starting
    BY <1>1 DEF Settled, Control
  <2>2. /\ window'.starting # 0 =>
              window'.starting \in DOMAIN sessions' /\ window'.session = 0 /\ window'.open
        /\ window'.session # 0 =>
              /\ window'.session \in DOMAIN sessions' /\ sessions'[window'.session].at = "ready"
              /\ window'.open
    BY <1>1 DEF Control
  <2>3. \A x \in Working' : Placed(x)'
    BY <1>1, <1>2 DEF Placed, Control
  <2> QED BY <1>2, <2>1, <2>2, <2>3 DEF Control
<1>4. \A w : SeatOk(w) => SeatOk(w)'
  BY Calmer
<1>5. /\ Gentle' => Gentle /\ TRUE
      /\ Smooth' => Smooth /\ Gentle /\ Gentle'
  BY Calmer
<1>6. Gentle' => \A w : Shared(w) => Shared(w)'
  BY DEF Shared
<1> DEFINE s == window.starting
           w == window.session
<1>7. ASSUME s # 0
      PROVE  StartStage(sessions[s].victim, sessions[s].published, sessions[s].at, s)'
  <2>1. s \in DOMAIN sessions
    BY <1>7 DEF Control
  <2>2. PICK v, b, a, t : /\ v = sessions[s].victim /\ b = sessions[s].published
                          /\ a = sessions[s].at /\ t = s
    OBVIOUS
  <2>3. /\ sessions'[s'].victim = v /\ sessions'[s'].published = b /\ sessions'[s'].at = a /\ s' = t
    BY <1>1, <2>1, <2>2
  <2>4. StartStage(v, b, a, t)
    BY <1>7, <2>2 DEF Stages
  <2>5. StartStage(v, b, a, t)'
    BY <1>5, <2>4 DEF StartStage, Names
  <2> QED BY <2>3, <2>5 DEF StartStage, Clear, Awaits, Coming, Housed, RoomIn
<1>8. ASSUME AtRest'
      PROVE  Rest(window.session, sessions[window.session].published, view.published)'
  <2>1. AtRest
    BY <1>2, <1>8 DEF AtRest
  <2>2. CASE w = 0
    <3>1. Gentle => Awaits(0) /\ Clear("tunnel")
      BY <2>1, <2>2 DEF Stages, Rest
    <3> QED BY <1>5, <2>2, <3>1 DEF Rest, Names
  <2>3. CASE w # 0
    <3>1. w \in DOMAIN sessions
      BY <2>3 DEF Control
    <3>2. PICK b, x, c : b = sessions[w].published /\ x = w /\ c = view.published
      OBVIOUS
    <3>3. sessions'[w'].published = b /\ w' = x /\ view'.published = c
      BY <1>1, <3>1, <3>2
    <3>4. Rest(x, b, c)
      BY <2>1, <3>2 DEF Stages
    <3>5. Rest(x, b, c)'
      BY <1>4, <1>5, <1>6, <3>4 DEF Rest, Names
    <3> QED BY <3>3, <3>5 DEF Rest, Awaits, Clear, Shared, Housed, Hosted, TunnelUp, RoomIn, SeatOk
  <2> QED BY <2>2, <2>3
<1>9. ASSUME NEW o \in Working
      PROVE  /\ ops'[o].at \in PastAts =>
                   ShareStage(ops[o].victim, sessions[ops[o].session].published, ops[o].kind,
                              ops[o].at, ops[o].session)'
             /\ ops'[o].at \in StopAts => StopStage(ops[o].victim, ops[o].names, ops[o].at)'
             /\ ops'[o].at = "ensure" =>
                   EnsureStage(ops[o].victim, sessions[ops[o].session].published, ops[o].kind)'
  <2>1. PICK v, b, k, a, t, ns : /\ v = ops[o].victim /\ b = sessions[ops[o].session].published
                                 /\ k = ops[o].kind /\ a = ops[o].at /\ t = ops[o].session
                                 /\ ns = ops[o].names
    OBVIOUS
  <2>2. /\ v = ops'[o].victim /\ k = ops'[o].kind /\ a = ops'[o].at /\ t = ops'[o].session
        /\ ns = ops'[o].names
    BY <2>1
  <2>3. a \in PastAts \cup {"ensure"} => t \in DOMAIN sessions /\ b = sessions'[t].published
    <3>1. a \in PastAts \cup {"ensure"} => t \in DOMAIN sessions
      BY <2>1, AtWork DEF Placed, Control
    <3> QED BY <1>1, <2>1, <3>1
  <2>4. ASSUME a \in PastAts
        PROVE  ShareStage(v, b, k, a, t)'
    <3>1. ShareStage(v, b, k, a, t)
      BY <2>1, <2>4 DEF Stages
    <3> QED BY <1>4, <1>5, <1>6, <3>1 DEF ShareStage, Names
  <2>5. ASSUME a \in StopAts
        PROVE  StopStage(v, ns, a)'
    <3>1. StopStage(v, ns, a)
      BY <2>1, <2>5 DEF Stages
    <3> QED BY <1>5, <3>1 DEF StopStage
  <2>6. ASSUME a = "ensure"
        PROVE  EnsureStage(v, b, k)'
    <3>1. EnsureStage(v, b, k)
      BY <2>1, <2>6 DEF Stages
    <3> QED BY <1>5, <3>1 DEF EnsureStage
  <2>7. a \in PastAts =>
            ShareStage(ops[o].victim, sessions[ops[o].session].published, ops[o].kind,
                       ops[o].at, ops[o].session)'
    BY <2>2, <2>3, <2>4 DEF ShareStage, Awaits, Clear, Hosted, Shared, Housed, RoomIn, SeatOk,
                            Coming, TunnelUp
  <2>8. a \in StopAts => StopStage(ops[o].victim, ops[o].names, ops[o].at)'
    BY <2>2, <2>5 DEF StopStage, Awaits
  <2>9. a = "ensure" =>
            EnsureStage(ops[o].victim, sessions[ops[o].session].published, ops[o].kind)'
    BY <2>2, <2>3, <2>6 DEF EnsureStage
  <2> QED BY <2>2, <2>7, <2>8, <2>9
<1> QED BY <1>2, <1>3, <1>7, <1>8, <1>9 DEF Stages

----------------------------------------------------------------------------
(* A start goes on, fails, or gives the window its session.                   *)

LEMMA TypeFacts ==
    ASSUME WindowTypes
    PROVE  /\ Table /\ Len(sessions) \in Nat /\ DOMAIN sessions = 1..Len(sessions)
           /\ 0 \notin DOMAIN sessions /\ DOMAIN sessions \subseteq Nat
           /\ \A s \in DOMAIN sessions : sessions[s] \in Session
           /\ Len(ops) \in Nat /\ DOMAIN ops = 1..Len(ops)
           /\ \A o \in DOMAIN ops : ops[o] \in Command
           /\ happened \in SUBSET Kinds
           /\ window.session \in Nat /\ window.starting \in Nat
BY LenProperties DEF WindowTypes

\* While a start is at work, a command can only wait for it.
LEMMA StartAtWork ==
    ASSUME WindowTypes, Control, NEW s \in DOMAIN sessions, ~Settled(s)
    PROVE  /\ window.starting = s /\ s # 0 /\ window.session = 0 /\ window.open
           /\ \A r \in DOMAIN sessions : r # s => Settled(r)
           /\ \A o \in Working : /\ ops[o].at = "ensure" /\ ops[o].session = s
                                 /\ ops[o].kind # "close"
<1>1. /\ window.starting = s /\ s # 0 /\ window.session = 0 /\ window.open
      /\ \A r \in DOMAIN sessions : r # s => Settled(r)
  BY TypeFacts DEF Control
<1>2. ASSUME NEW o \in Working
      PROVE  ops[o].at \in CommandAts /\ ops[o].at # "done"
  BY TypeFacts DEF Command, Working
<1>3. \A o \in Working : /\ ops[o].at \notin PastAts /\ ops[o].at \notin StopAts
                         /\ ops[o].at = "ensure" => ops[o].session = s /\ ops[o].kind # "close"
  BY <1>1, TypeFacts DEF Control, Placed
<1> QED BY <1>1, <1>2, <1>3 DEF CommandAts

LEMMA StartGoesOn ==
    ASSUME WindowTypes, Control, Stages, NEW s \in DOMAIN sessions, ~Settled(s), Grows,
           NEW a \in {"pick", "kill", "boot", "stop", "seat", "add"}, NEW v, NEW published,
           Advanced(sessions, sessions', s, a, v), published = sessions[s].published,
           UNCHANGED <<window, ops>>, World', StartStage(v, published, a, s)'
    PROVE  (Control /\ Stages)'
<1>1. /\ DOMAIN sessions' = DOMAIN sessions
      /\ \A r \in DOMAIN sessions : /\ sessions'[r].published = sessions[r].published
                                    /\ r # s => sessions'[r].at = sessions[r].at
      /\ sessions'[s].at = a /\ sessions'[s].victim = v
  BY DEF Advanced, SameFate
<1>2. /\ window.starting = s /\ s # 0 /\ window.session = 0 /\ window.open
      /\ \A r \in DOMAIN sessions : r # s => Settled(r)
      /\ \A o \in Working : /\ ops[o].at = "ensure" /\ ops[o].session = s
                            /\ ops[o].kind # "close"
  BY StartAtWork
<1>3. Working' = Working
  BY DEF Working
<1>4. Control'
  <2>1. \A r \in DOMAIN sessions' : Settled(r)' <=> r # window'.starting
    BY <1>1, <1>2 DEF Settled
  <2>2. \A o \in Working' : Placed(o)'
    BY <1>1, <1>2, <1>3 DEF Placed, StopAts, PastAts
  <2>3. \A o, r \in Working' : o = r
    BY <1>3 DEF Control
  <2> QED BY <1>1, <1>2, <2>1, <2>2, <2>3 DEF Control
<1>5. Stages'
  <2>1. StartStage(sessions[window.starting].victim, sessions[window.starting].published,
                   sessions[window.starting].at, window.starting)'
    BY <1>1, <1>2 DEF StartStage, Clear, Awaits, Coming, Housed, RoomIn, Gentle, Smooth
  <2>2. ASSUME NEW o \in Working
        PROVE  EnsureStage(ops[o].victim, sessions[ops[o].session].published, ops[o].kind)'
    BY <1>1, <1>2, Calmer DEF EnsureStage, Stages
  <2>3. \A o \in Working' : ops'[o].at = "ensure"
    BY <1>2, <1>3
  <2> QED BY <1>2, <1>3, <2>1, <2>2, <2>3 DEF Stages, AtRest, PastAts, StopAts
<1> QED BY <1>4, <1>5

\* The start is over: with a session, or with none.
LEMMA StartIsOver ==
    ASSUME WindowTypes, Control, Stages, NEW s \in DOMAIN sessions, ~Settled(s), Grows,
           NEW a \in {"ready", "failed"}, NEW v, NEW w, NEW published, NEW shown,
           Advanced(sessions, sessions', s, a, v), UNCHANGED ops, window'.starting = 0,
           window'.session = w, window'.open = window.open,
           w = IF a = "ready" THEN s ELSE 0,
           published = sessions'[w].published, shown = view'.published,
           World', Rest(w, published, shown)'
    PROVE  (Control /\ Stages)'
<1>1. /\ DOMAIN sessions' = DOMAIN sessions
      /\ \A r \in DOMAIN sessions : /\ sessions'[r].published = sessions[r].published
                                    /\ r # s => sessions'[r].at = sessions[r].at
      /\ sessions'[s].at = a /\ sessions'[s].victim = v
  BY DEF Advanced, SameFate
<1>2. /\ window.starting = s /\ s # 0 /\ window.session = 0 /\ window.open
      /\ \A r \in DOMAIN sessions : r # s => Settled(r)
      /\ \A o \in Working : /\ ops[o].at = "ensure" /\ ops[o].session = s
                            /\ ops[o].kind # "close"
  BY StartAtWork
<1>3. Working' = Working
  BY DEF Working
<1>4. Control'
  <2>1. \A r \in DOMAIN sessions' : Settled(r)' <=> r # window'.starting
    BY <1>1, <1>2, TypeFacts DEF Settled
  <2>2. \A o \in Working' : Placed(o)'
    BY <1>1, <1>2, <1>3 DEF Placed, StopAts, PastAts
  <2>3. \A o, r \in Working' : o = r
    BY <1>3 DEF Control
  <2> QED BY <1>1, <1>2, <2>1, <2>2, <2>3 DEF Control
<1>5. Stages'
  <2>1. Rest(window.session, sessions[window.session].published, view.published)'
    BY DEF Rest, Awaits, Clear, Shared, Housed, Hosted, TunnelUp, RoomIn, SeatOk, Gentle, Smooth
  <2>2. ASSUME NEW o \in Working
        PROVE  EnsureStage(ops[o].victim, sessions[ops[o].session].published, ops[o].kind)'
    BY <1>1, <1>2, Calmer DEF EnsureStage, Stages
  <2>3. \A o \in Working' : ops'[o].at = "ensure"
    BY <1>2, <1>3
  <2> QED BY <1>2, <1>3, <2>1, <2>2, <2>3 DEF Stages, PastAts, StopAts
<1> QED BY <1>4, <1>5

\* A start begins, alone or with the one command that waits for it.
LEMMA StartBegins ==
    ASSUME WindowTypes, Control, World, window.open, window.session = 0, window.starting = 0, Grows,
           sessions' = Append(sessions, NewSession),
           window' = [window EXCEPT !.starting = Len(sessions) + 1],
           UNCHANGED <<procs, sup, seat>>,
           Gentle' => Awaits(0) /\ Clear("tunnel"),
           \A o, r \in Working' : o = r,
           \A o \in Working' : /\ ops'[o].at = "ensure" /\ ops'[o].kind # "close"
                               /\ ops'[o].session = Len(sessions) + 1 /\ ops'[o].victim = 0
    PROVE  (Control /\ Stages)'
<1>1. NewSession \in Session
  BY DEF NewSession, Session
<1>2. PICK n : n = Len(sessions) + 1
  OBVIOUS
<1> HIDE DEF Session
<1>3. /\ DOMAIN sessions' = 1..n /\ DOMAIN sessions = 1..(n - 1) /\ n \in Nat /\ n # 0
      /\ \A r \in DOMAIN sessions : sessions'[r] = sessions[r]
      /\ sessions'[n] = NewSession
  BY <1>1, <1>2, AtEnd, TypeFacts DEF WindowTypes
<1>4. /\ sessions'[n].at = "pick" /\ sessions'[n].victim = 0 /\ ~sessions'[n].published
  BY <1>3 DEF NewSession
<1>5. window'.starting = n /\ window'.session = 0 /\ window'.open
  BY <1>2 DEF WindowTypes
<1>6. Control'
  <2>1. \A r \in DOMAIN sessions : Settled(r)
    BY TypeFacts DEF Control
  <2>2. \A r \in DOMAIN sessions' : Settled(r)' <=> r # window'.starting
    BY <1>3, <1>4, <1>5, <2>1 DEF Settled
  <2>3. \A o \in Working' : Placed(o)'
    BY <1>2, <1>3, <1>5 DEF Placed, StopAts, PastAts
  <2> QED BY <1>3, <1>5, <2>2, <2>3 DEF Control
<1>7. World'
  BY <1>5, Standing
<1>8. StartStage(0, FALSE, "pick", n)'
  BY Calmer DEF StartStage, Awaits, Clear
<1>9. StartStage(sessions[window.starting].victim, sessions[window.starting].published,
                 sessions[window.starting].at, window.starting)'
  <2>1. sessions'[n].published = FALSE
    BY <1>3 DEF NewSession
  <2> QED BY <1>4, <1>5, <1>8, <2>1 DEF StartStage, Clear, Awaits, Coming, Housed, RoomIn, Gentle, Smooth
<1>10. \A o \in Working' :
          EnsureStage(ops[o].victim, sessions[ops[o].session].published, ops[o].kind)'
  BY <1>2, <1>4 DEF EnsureStage
<1> QED BY <1>3, <1>5, <1>6, <1>7, <1>9, <1>10 DEF Stages, AtRest, PastAts, StopAts

----------------------------------------------------------------------------
(* Every step of a start.                                                  *)

LEMMA SessionGoes ==
    ASSUME WindowTypes, NEW s \in DOMAIN sessions, NEW c, SessionGoto(s, c),
           c.at \in {"pick", "kill", "boot", "stop", "seat", "add", "ready", "failed"},
           c.victim \in Nat
    PROVE  sessions' \in Seq(Session) /\ Advanced(sessions, sessions', s, c.at, c.victim)
<1>1. PICK a, v : a = c.at /\ v = c.victim
  OBVIOUS
<1>2. sessions' = [sessions EXCEPT ![s].at = a, ![s].victim = v]
  BY <1>1 DEF SessionGoto
<1>3. sessions \in Seq(Session)
  BY DEF WindowTypes
<1>4. sessions' \in Seq(Session) /\ Advanced(sessions, sessions', s, a, v)
  BY <1>1, <1>2, <1>3, SessionMoves
<1> QED BY <1>1, <1>4

\* What an await of a start finds.
LEMMA StartFinds ==
    ASSUME WindowTypes, Control, Stages, NEW s \in DOMAIN sessions, ~Settled(s)
    PROVE  /\ World /\ window.open /\ window.session = 0
           /\ StartStage(sessions[s].victim, sessions[s].published, sessions[s].at, s)
BY StartAtWork DEF Stages

LEMMA PickKeeps ==
    ASSUME WindowInv, NEW s \in DOMAIN sessions, Pick(s)
    PROVE  WindowInv'
<1>1. /\ sessions[s].at = "pick" /\ Start("room", s, "local")
      /\ SessionGoto(s, AfterKill(sup["room"], "kill", "boot"))
      /\ UNCHANGED <<window, ops, view, seat, gestures, happened>>
  BY DEF Pick, Predecessor
<1>2. WindowTypes /\ Table /\ Grows /\ s \in Nat
  BY <1>1, TypeFacts DEF WindowInv, Grows
<1>3. ~Settled(s)
  BY <1>1 DEF Settled
<1>4. CASE sup["room"] = 0
  <2>1. Spawn("room", s, "local") /\ SessionGoto(s, At("boot"))
    BY <1>1, <1>4 DEF Start, Predecessor, AfterKill
  <2>2. At("boot").at = "boot" /\ At("boot").victim = 0
    BY DEF At
  <2>3. sessions' \in Seq(Session) /\ Advanced(sessions, sessions', s, "boot", 0)
    BY <1>2, <2>1, <2>2, SessionGoes
  <2>4. Table'
    BY <1>2, <2>1, Spawning DEF Names
  <2>5. WindowTypes'
    BY <1>1, <1>2, <2>3, <2>4 DEF WindowTypes
  <2>6. ASSUME Calm({"overlap"})'
        PROVE  (Control /\ Stages)'
    <3>1. Control /\ Stages
      BY <1>2, <2>6, Calmer DEF WindowInv
    <3>2. PICK b : b = sessions[s].published
      OBVIOUS
    <3>3. World /\ window.open /\ StartStage(sessions[s].victim, b, "pick", s)
      BY <1>1, <1>2, <1>3, <3>1, <3>2, StartFinds
    <3>4. /\ World' /\ Coming(s)' /\ (Clear("tunnel")' <=> Clear("tunnel"))
          /\ \A v : Awaits(v) => Awaits(v)'
      BY <1>1, <1>2, <1>4, <2>1, <3>3, SpawningKeeps DEF Names, Clear
    <3>5. StartStage(0, b, "boot", s)'
      BY <1>2, <3>3, <3>4, Calmer DEF StartStage
    <3> QED BY <1>1, <1>2, <1>3, <2>3, <3>1, <3>2, <3>4, <3>5, StartGoesOn
  <2> QED BY <2>5, <2>6 DEF WindowInv
<1>5. CASE sup["room"] # 0
  <2>1. PICK p : p = sup["room"]
    OBVIOUS
  <2>2. Kill("room") /\ SessionGoto(s, [at |-> "kill", victim |-> p])
    BY <1>1, <1>5, <2>1 DEF Start, Predecessor, AfterKill
  <2>3. p \in Nat
    BY <1>2, <2>1, TableFacts DEF Names
  <2>4. sessions' \in Seq(Session) /\ Advanced(sessions, sessions', s, "kill", p)
    <3>1. PICK c : c = [at |-> "kill", victim |-> p]
      OBVIOUS
    <3>2. c.at = "kill" /\ c.victim = p /\ SessionGoto(s, c)
      BY <2>2, <3>1
    <3> QED BY <1>2, <2>3, <3>2, SessionGoes
  <2>5. Table'
    BY <1>2, <2>2, Killing DEF Names
  <2>6. WindowTypes'
    BY <1>1, <1>2, <2>4, <2>5 DEF WindowTypes
  <2>7. ASSUME Calm({"overlap"})'
        PROVE  (Control /\ Stages)'
    <3>1. Control /\ Stages
      BY <1>2, <2>7, Calmer DEF WindowInv
    <3>2. PICK b : b = sessions[s].published
      OBVIOUS
    <3>3. World /\ window.open /\ StartStage(sessions[s].victim, b, "pick", s)
      BY <1>1, <1>2, <1>3, <3>1, <3>2, StartFinds
    <3>4. /\ World' /\ Clear("room")' /\ (Clear("tunnel")' <=> Clear("tunnel"))
          /\ Awaits(0) => Awaits(p)'
      BY <1>1, <1>2, <2>1, <2>2, <3>3, KillingKeeps DEF Names
    <3>5. StartStage(p, b, "kill", s)'
      BY <1>2, <3>3, <3>4, Calmer DEF StartStage
    <3> QED BY <1>1, <1>2, <1>3, <2>4, <3>1, <3>2, <3>4, <3>5, StartGoesOn
  <2> QED BY <2>6, <2>7 DEF WindowInv
<1> QED BY <1>4, <1>5

LEMMA PickKilledKeeps ==
    ASSUME WindowInv, NEW s \in DOMAIN sessions, PickKilled(s)
    PROVE  WindowInv'
<1>1. /\ sessions[s].at = "kill" /\ Ended(sessions[s].victim) /\ Spawn("room", s, "local")
      /\ SessionGoto(s, At("boot")) /\ UNCHANGED <<window, ops, view, seat, gestures>>
  BY DEF PickKilled
<1>2. PICK v : v = sessions[s].victim
  OBVIOUS
<1>3. /\ WindowTypes /\ Table /\ Grows /\ s \in Nat
      /\ Gentle' /\ Awaits(v) => Awaits(0)
  BY <1>1, <1>2, TypeFacts, Ending DEF WindowInv
<1>4. ~Settled(s)
  BY <1>1 DEF Settled
<1>5. sessions' \in Seq(Session) /\ Advanced(sessions, sessions', s, "boot", 0)
  <2>1. At("boot").at = "boot" /\ At("boot").victim = 0
    BY DEF At
  <2> QED BY <1>1, <1>3, <2>1, SessionGoes
<1>6. Table'
  BY <1>1, <1>3, Spawning DEF Names
<1>7. WindowTypes'
  BY <1>1, <1>3, <1>5, <1>6 DEF WindowTypes, Grows
<1>8. ASSUME Calm({"overlap"})'
      PROVE  (Control /\ Stages)'
  <2>1. Control /\ Stages
    BY <1>3, <1>8, Calmer DEF WindowInv
  <2>2. PICK b : b = sessions[s].published
    OBVIOUS
  <2>3. World /\ window.open /\ StartStage(v, b, "kill", s)
    BY <1>1, <1>2, <1>3, <1>4, <2>1, <2>2, StartFinds
  <2>4. Clear("room")
    BY <2>3 DEF StartStage
  <2>5. /\ World' /\ Coming(s)' /\ (Clear("tunnel")' <=> Clear("tunnel"))
        /\ \A x : Awaits(x) => Awaits(x)'
    BY <1>1, <1>3, <2>3, <2>4, SpawningKeeps DEF Names
  <2>6. StartStage(0, b, "boot", s)'
    BY <1>3, <2>3, <2>5, Calmer DEF StartStage
  <2> QED BY <1>1, <1>3, <1>4, <1>5, <2>1, <2>2, <2>5, <2>6, StartGoesOn
<1> QED BY <1>7, <1>8 DEF WindowInv

LEMMA BootedKeeps ==
    ASSUME WindowInv, NEW s \in DOMAIN sessions, Booted(s)
    PROVE  WindowInv'
<1>1. /\ sessions[s].at = "boot" /\ Serving(s) # {}
      /\ sessions' = [sessions EXCEPT ![s].at = "seat", ![s].feed = "on"]
      /\ UNCHANGED <<procs, sup, window, ops, view, seat, gestures, happened>>
  BY DEF Booted
<1>2. WindowTypes /\ Table /\ Grows /\ sessions[s] \in Session /\ sessions \in Seq(Session)
  BY <1>1, TypeFacts DEF WindowInv, WindowTypes, Grows
<1>3. ~Settled(s)
  BY <1>1 DEF Settled
<1>4. PICK b, v : b = sessions[s].published /\ v = sessions[s].victim
  OBVIOUS
<1>5. PICK c : c = [sessions[s] EXCEPT !.at = "seat", !.feed = "on"]
  OBVIOUS
<1>6. c \in Session /\ c.at = "seat" /\ c.victim = v /\ c.published = b
  BY <1>2, <1>4, <1>5 DEF Session
<1>7. sessions' = [sessions EXCEPT ![s] = c]
  BY <1>1, <1>5
<1>8. sessions' \in Seq(Session) /\ Advanced(sessions, sessions', s, "seat", v)
  <2> HIDE DEF Session
  <2>1. \A h : h = [sessions EXCEPT ![s] = c] =>
            /\ h \in Seq(Session) /\ DOMAIN h = DOMAIN sessions /\ h[s] = c
            /\ \A r \in DOMAIN sessions : r # s => h[r] = sessions[r]
    BY <1>2, <1>6, AtPlace
  <2> QED BY <1>4, <1>6, <1>7, <2>1 DEF Advanced, SameFate
<1>9. WindowTypes'
  BY <1>1, <1>2, <1>8 DEF WindowTypes, Table
<1>10. ASSUME Calm({"overlap"})'
       PROVE  (Control /\ Stages)'
  <2>1. Control /\ Stages
    BY <1>2, <1>10, Calmer DEF WindowInv
  <2>2. World /\ window.open /\ StartStage(v, b, "boot", s)
    BY <1>1, <1>2, <1>3, <1>4, <2>1, StartFinds
  <2>3. Gentle => Housed(s)
    BY <1>1, <1>2, <2>2, ServedByItsRoom DEF StartStage
  <2>4. /\ World' /\ (Clear("tunnel")' <=> Clear("tunnel"))
        /\ (Awaits(0)' <=> Awaits(0)) /\ (Housed(s)' <=> Housed(s))
    BY <1>1, <1>2, <2>2, Standing DEF Housed
  <2>5. StartStage(v, b, "seat", s)'
    BY <1>2, <2>2, <2>3, <2>4, Calmer DEF StartStage
  <2> QED BY <1>1, <1>2, <1>3, <1>4, <1>8, <2>1, <2>4, <2>5, StartGoesOn
<1> QED BY <1>9, <1>10 DEF WindowInv

LEMMA GiveUpKeeps ==
    ASSUME WindowInv, NEW s \in DOMAIN sessions, GiveUp(s)
    PROVE  WindowInv'
<1>1. /\ sessions[s].at = "boot" /\ Late(s) /\ Stop("room")
      /\ SessionGoto(s, AfterKill(sup["room"], "stop", "failed"))
      /\ window' = IF sup["room"] # 0 THEN window ELSE [window EXCEPT !.starting = 0]
      /\ UNCHANGED <<ops, view, seat, gestures>>
  BY DEF GiveUp
<1>2. /\ WindowTypes /\ Table /\ Grows
      /\ Smooth' => ~Coming(s)
  BY <1>1, TypeFacts, BeingLate DEF WindowInv
<1>3. ~Settled(s)
  BY <1>1 DEF Settled
<1>4. PICK p, b : p = sup["room"] /\ b = sessions[s].published
  OBVIOUS
<1>5. p \in Nat
  BY <1>2, <1>4, TableFacts DEF Names
<1>6. ASSUME Calm({"overlap"})'
      PROVE  /\ Control /\ Stages /\ World /\ window.open /\ window.session = 0
             /\ StartStage(sessions[s].victim, b, "boot", s) /\ ~Smooth'
  <2>1. Control /\ Stages
    BY <1>2, <1>6, Calmer DEF WindowInv
  <2>2. /\ World /\ window.open /\ window.session = 0
        /\ StartStage(sessions[s].victim, b, "boot", s)
    BY <1>1, <1>2, <1>3, <1>4, <2>1, StartFinds
  <2>3. ~Smooth'
    BY <1>2, <2>2, Calmer DEF StartStage
  <2> QED BY <2>1, <2>2, <2>3
<1>7. CASE p = 0
  <2>1. UNCHANGED <<procs, sup>> /\ window' = [window EXCEPT !.starting = 0]
    BY <1>1, <1>4, <1>7 DEF Stop
  <2>2. sessions' \in Seq(Session) /\ Advanced(sessions, sessions', s, "failed", 0)
    <3>1. At("failed").at = "failed" /\ At("failed").victim = 0 /\ SessionGoto(s, At("failed"))
      BY <1>1, <1>4, <1>7 DEF At, AfterKill
    <3> QED BY <1>2, <3>1, SessionGoes
  <2>3. WindowTypes'
    <3>1. window' \in [session : Nat, starting : Nat, open : BOOLEAN]
      BY <1>2, <2>1 DEF WindowTypes
    <3>2. Table' /\ happened' \in SUBSET Kinds
      BY <1>2, <2>1 DEF Table, Grows
    <3>3. UNCHANGED <<ops, view, seat, gestures>>
      BY <1>1
    <3> QED BY <1>2, <2>2, <3>1, <3>2, <3>3 DEF WindowTypes
  <2>4. ASSUME Calm({"overlap"})'
        PROVE  (Control /\ Stages)'
    <3>1. window'.session = 0 /\ window'.starting = 0 /\ window'.open = window.open
      BY <1>2, <1>6, <2>1, <2>4 DEF WindowTypes
    <3>2. World' /\ (Clear("tunnel")' <=> Clear("tunnel")) /\ (Awaits(0)' <=> Awaits(0))
      BY <1>2, <1>6, <2>1, <2>4, <3>1, Standing
    <3>3. \A x, y : Rest(0, x, y)'
      BY <1>2, <1>6, <2>4, <3>2, Calmer DEF Rest, StartStage
    <3>4. PICK x, y : x = sessions'[0].published /\ y = view'.published
      OBVIOUS
    <3>5. Rest(0, x, y)'
      BY <3>3
    <3> QED BY <1>1, <1>2, <1>3, <1>6, <2>2, <2>4, <3>1, <3>2, <3>4, <3>5, StartIsOver
  <2> QED BY <2>3, <2>4 DEF WindowInv
<1>8. CASE p # 0
  <2>1. Kill("room") /\ window' = window
    BY <1>1, <1>4, <1>8 DEF Stop
  <2>2. sessions' \in Seq(Session) /\ Advanced(sessions, sessions', s, "stop", p)
    <3>1. PICK c : c = [at |-> "stop", victim |-> p]
      OBVIOUS
    <3>2. c.at = "stop" /\ c.victim = p /\ SessionGoto(s, c)
      BY <1>1, <1>4, <1>8, <3>1 DEF AfterKill
    <3> QED BY <1>2, <1>5, <3>2, SessionGoes
  <2>3. Table'
    BY <1>2, <2>1, Killing DEF Names
  <2>4. WindowTypes'
    BY <1>1, <1>2, <2>1, <2>2, <2>3 DEF WindowTypes, Grows
  <2>5. ASSUME Calm({"overlap"})'
        PROVE  (Control /\ Stages)'
    <3>1. /\ World' /\ Clear("room")' /\ (Clear("tunnel")' <=> Clear("tunnel"))
          /\ Awaits(0) => Awaits(p)'
      BY <1>2, <1>4, <1>6, <2>1, <2>5, KillingKeeps DEF Names
    <3>2. StartStage(p, b, "stop", s)'
      BY <1>2, <1>6, <2>5, <3>1, Calmer DEF StartStage
    <3> QED BY <1>1, <1>2, <1>3, <1>4, <1>6, <2>1, <2>2, <2>5, <3>1, <3>2, StartGoesOn
  <2> QED BY <2>4, <2>5 DEF WindowInv
<1> QED BY <1>7, <1>8

LEMMA GaveUpKeeps ==
    ASSUME WindowInv, NEW s \in DOMAIN sessions, GaveUp(s)
    PROVE  WindowInv'
<1>1. /\ sessions[s].at = "stop" /\ Ended(sessions[s].victim) /\ SessionGoto(s, At("failed"))
      /\ window' = [window EXCEPT !.starting = 0]
      /\ UNCHANGED <<procs, sup, ops, view, seat, gestures>>
  BY DEF GaveUp
<1>2. PICK v, b : v = sessions[s].victim /\ b = sessions[s].published
  OBVIOUS
<1>3. /\ WindowTypes /\ Table /\ Grows
      /\ Gentle' /\ Awaits(v) => Awaits(0)
  BY <1>1, <1>2, TypeFacts, Ending DEF WindowInv
<1>4. ~Settled(s)
  BY <1>1 DEF Settled
<1>5. sessions' \in Seq(Session) /\ Advanced(sessions, sessions', s, "failed", 0)
  <2>1. At("failed").at = "failed" /\ At("failed").victim = 0
    BY DEF At
  <2> QED BY <1>1, <1>3, <2>1, SessionGoes
<1>6. WindowTypes'
  BY <1>1, <1>3, <1>5 DEF WindowTypes, Table, Grows
<1>7. ASSUME Calm({"overlap"})'
      PROVE  (Control /\ Stages)'
  <2>1. Control /\ Stages
    BY <1>3, <1>7, Calmer DEF WindowInv
  <2>2. World /\ window.open /\ window.session = 0 /\ StartStage(v, b, "stop", s)
    BY <1>1, <1>2, <1>3, <1>4, <2>1, StartFinds
  <2>3. window'.session = 0 /\ window'.starting = 0 /\ window'.open = window.open
    BY <1>1, <1>3, <2>2 DEF WindowTypes
  <2>4. World' /\ (Clear("tunnel")' <=> Clear("tunnel")) /\ (Awaits(0)' <=> Awaits(0))
    BY <1>1, <1>3, <2>2, <2>3, Standing
  <2>5. \A x, y : Rest(0, x, y)'
    BY <1>3, <2>2, <2>4, Calmer DEF Rest, StartStage
  <2>6. PICK x, y : x = sessions'[0].published /\ y = view'.published
    OBVIOUS
  <2>7. Rest(0, x, y)'
    BY <2>5
  <2> QED BY <1>1, <1>3, <1>4, <1>5, <2>1, <2>3, <2>4, <2>6, <2>7, StartIsOver
<1> QED BY <1>6, <1>7 DEF WindowInv

\* The seat file: with the room there it is written, or may not be.
LEMMA Seating ==
    ASSUME WindowTypes, NEW s \in Nat, NEW adding \in BOOLEAN, EnsureSeat(s, adding)
    PROVE  /\ seat' \in SeatState /\ Grows
           /\ adding => seat' = seat /\ ~seat.seated
           /\ ~adding /\ Serving(s) # {} => SeatOk(s)'
<1>1. seat \in SeatState /\ happened \in SUBSET Kinds
  BY DEF WindowTypes
<1>2. CASE Serving(s) # {} /\ seat.seated /\ ~adding /\ seat' = FileFor(s) /\ UNCHANGED happened
  <2>1. seat' = [seat EXCEPT !.file = s]
    BY <1>2 DEF FileFor
  <2>2. seat' = [seated |-> TRUE, file |-> s]
    BY <1>1, <1>2, <2>1 DEF SeatState
  <2> QED BY <1>1, <1>2, <2>2 DEF SeatState, Grows, SeatOk
<1>3. CASE Serving(s) # {} /\ ~seat.seated /\ adding /\ UNCHANGED <<seat, happened>>
  BY <1>1, <1>3 DEF Grows
<1>4. CASE ~adding /\ Upset("refuse") /\ UNCHANGED seat
  <2>1. Grows /\ "refuse" \in happened'
    BY <1>1, <1>4, Upsetting
  <2> QED BY <1>1, <1>4, <2>1 DEF SeatOk
<1>5. CASE Serving(s) = {} /\ ~adding /\ UNCHANGED <<seat, happened>>
  BY <1>1, <1>5 DEF Grows
<1> QED BY <1>2, <1>3, <1>4, <1>5 DEF EnsureSeat

LEMMA AddingSeat ==
    ASSUME WindowTypes, NEW s \in Nat, AddSeat(s)
    PROVE  /\ seat' \in SeatState
           /\ seat.seated => seat' = seat
           /\ ~seat.seated /\ Serving(s) # {} => SeatOk(s)'
BY DEF AddSeat, WindowTypes, SeatState, SeatOk

\* A start that only waits for its seat, or has it.
LEMMA SeatStageKeeps ==
    ASSUME WindowTypes, Control, Stages, NEW s \in DOMAIN sessions, Grows,
           sessions[s].at \in {"seat", "add"}, NEW a \in {"add", "ready"}, Ready(s, a),
           UNCHANGED <<procs, sup, ops>>,
           a = "add" => seat' = seat /\ ~seat.seated,
           a = "ready" /\ Smooth' => SeatOk(s)',
           sessions' \in Seq(Session), Advanced(sessions, sessions', s, a, sessions[s].victim)
    PROVE  (Control /\ Stages)'
<1>1. ~Settled(s)
  BY DEF Settled
<1>2. PICK v, b, at : v = sessions[s].victim /\ b = sessions[s].published /\ at = sessions[s].at
  OBVIOUS
<1>3. World /\ window.open /\ window.session = 0 /\ StartStage(v, b, at, s) /\ s # 0
  BY <1>1, <1>2, StartFinds, TypeFacts
<1>4. window'.open = window.open
  BY DEF Ready, WindowTypes
<1>5. /\ World' /\ (Clear("tunnel")' <=> Clear("tunnel"))
      /\ (Awaits(0)' <=> Awaits(0)) /\ (Housed(s)' <=> Housed(s))
  BY <1>3, <1>4, Standing DEF Housed
<1>6. CASE a = "add"
  <2>1. UNCHANGED <<window, view>>
    BY <1>6 DEF Ready
  <2>2. StartStage(v, b, "add", s)'
    BY <1>2, <1>3, <1>5, <1>6, Calmer DEF StartStage
  <2> QED BY <1>1, <1>2, <1>5, <1>6, <2>1, <2>2, StartGoesOn
<1>7. CASE a = "ready"
  <2>1. /\ window' = [window EXCEPT !.session = s, !.starting = 0]
        /\ view' = [view EXCEPT !.published = b]
    BY <1>2, <1>7 DEF Ready
  <2>2. window'.session = s /\ window'.starting = 0 /\ view'.published = b
    BY <2>1 DEF WindowTypes, ViewState
  <2>3. sessions'[s].published = b
    BY <1>2 DEF Advanced
  <2>4. Rest(s, b, b)'
    BY <1>2, <1>3, <1>5, <1>7, Calmer DEF Rest, StartStage
  <2> QED BY <1>1, <1>2, <1>4, <1>5, <1>7, <2>2, <2>3, <2>4, StartIsOver
<1> QED BY <1>6, <1>7

LEMMA ReadyTypes ==
    ASSUME WindowTypes, NEW s \in DOMAIN sessions, NEW a \in {"add", "ready"}, Ready(s, a)
    PROVE  /\ sessions' \in Seq(Session)
           /\ Advanced(sessions, sessions', s, a, sessions[s].victim)
           /\ window' \in [session : Nat, starting : Nat, open : BOOLEAN]
           /\ view' \in ViewState
<1>1. sessions[s] \in Session /\ sessions \in Seq(Session) /\ s \in Nat
  BY TypeFacts DEF WindowTypes
<1>2. PICK c : c = [sessions[s] EXCEPT !.at = a]
  OBVIOUS
<1>3. c \in Session /\ c.at = a /\ c.victim = sessions[s].victim /\ c.published = sessions[s].published
  BY <1>1, <1>2 DEF Session
<1>4. sessions' = [sessions EXCEPT ![s] = c]
  BY <1>2 DEF Ready
<1>5. sessions' \in Seq(Session) /\ Advanced(sessions, sessions', s, a, sessions[s].victim)
  <2> HIDE DEF Session
  <2>1. \A h : h = [sessions EXCEPT ![s] = c] =>
            /\ h \in Seq(Session) /\ DOMAIN h = DOMAIN sessions /\ h[s] = c
            /\ \A r \in DOMAIN sessions : r # s => h[r] = sessions[r]
    BY <1>1, <1>3, AtPlace
  <2> QED BY <1>3, <1>4, <2>1 DEF Advanced, SameFate
<1>6. /\ window' \in [session : Nat, starting : Nat, open : BOOLEAN]
      /\ view' \in ViewState
  <2>1. CASE a # "ready"
    BY <2>1 DEF Ready, WindowTypes
  <2>2. CASE a = "ready"
    <3>1. sessions[s].published \in BOOLEAN
      BY <1>1 DEF Session
    <3>2. /\ window' = [window EXCEPT !.session = s, !.starting = 0]
          /\ view' = [view EXCEPT !.published = sessions[s].published]
      BY <2>2 DEF Ready
    <3>3. window' \in [session : Nat, starting : Nat, open : BOOLEAN]
      BY <1>1, <3>2 DEF WindowTypes
    <3>4. view' \in ViewState
      BY <3>1, <3>2 DEF WindowTypes, ViewState
    <3> QED BY <3>3, <3>4
  <2> QED BY <2>1, <2>2
<1> QED BY <1>5, <1>6

LEMMA SeatKeeps ==
    ASSUME WindowInv, NEW s \in DOMAIN sessions, Seat(s)
    PROVE  WindowInv'
<1>1. PICK adding \in BOOLEAN : EnsureSeat(s, adding) /\ Ready(s, IF adding THEN "add" ELSE "ready")
  BY DEF Seat
<1>2. sessions[s].at = "seat" /\ UNCHANGED <<procs, sup, ops, gestures>>
  BY DEF Seat
<1>3. PICK a : a = IF adding THEN "add" ELSE "ready"
  OBVIOUS
<1>4. WindowTypes /\ Table /\ s \in Nat /\ a \in {"add", "ready"} /\ Ready(s, a)
  BY <1>1, <1>3, TypeFacts DEF WindowInv
<1>5. /\ seat' \in SeatState /\ Grows
      /\ adding => seat' = seat /\ ~seat.seated
      /\ ~adding /\ Serving(s) # {} => SeatOk(s)'
  BY <1>1, <1>4, Seating
<1>6. /\ sessions' \in Seq(Session)
      /\ Advanced(sessions, sessions', s, a, sessions[s].victim)
      /\ window' \in [session : Nat, starting : Nat, open : BOOLEAN]
      /\ view' \in ViewState
  BY <1>4, ReadyTypes
<1>7. WindowTypes'
  BY <1>2, <1>4, <1>5, <1>6 DEF WindowTypes, Table, Grows
<1>8. ASSUME Calm({"overlap"})'
      PROVE  (Control /\ Stages)'
  <2>1. Control /\ Stages
    BY <1>5, <1>8, Calmer DEF WindowInv
  <2>2. ~Settled(s)
    BY <1>2 DEF Settled
  <2>3. StartStage(sessions[s].victim, sessions[s].published, "seat", s)
    BY <1>2, <1>4, <2>1, <2>2, StartFinds
  <2>4. a = "ready" /\ Smooth' => SeatOk(s)'
    <3>1. Smooth' => Serving(s) # {}
      BY <1>4, <1>5, <2>3, HousedServes, Calmer DEF StartStage
    <3> QED BY <1>3, <1>5, <3>1
  <2>5. a = "add" => seat' = seat /\ ~seat.seated
    BY <1>3, <1>5
  <2> QED BY <1>2, <1>4, <1>5, <1>6, <2>1, <2>4, <2>5, SeatStageKeeps
<1> QED BY <1>7, <1>8 DEF WindowInv

LEMMA AddedKeeps ==
    ASSUME WindowInv, NEW s \in DOMAIN sessions, Added(s)
    PROVE  WindowInv'
<1>1. /\ sessions[s].at = "add" /\ AddSeat(s) /\ Ready(s, "ready")
      /\ UNCHANGED <<procs, sup, ops, gestures, happened>>
  BY DEF Added
<1>2. WindowTypes /\ Table /\ Grows /\ s \in Nat
  BY <1>1, TypeFacts DEF WindowInv, Grows
<1>3. /\ seat' \in SeatState
      /\ ~seat.seated /\ Serving(s) # {} => SeatOk(s)'
  BY <1>1, <1>2, AddingSeat
<1>4. /\ sessions' \in Seq(Session)
      /\ Advanced(sessions, sessions', s, "ready", sessions[s].victim)
      /\ window' \in [session : Nat, starting : Nat, open : BOOLEAN]
      /\ view' \in ViewState
  BY <1>1, <1>2, ReadyTypes
<1>5. WindowTypes'
  BY <1>1, <1>2, <1>3, <1>4 DEF WindowTypes, Table
<1>6. ASSUME Calm({"overlap"})'
      PROVE  (Control /\ Stages)'
  <2>1. Control /\ Stages
    BY <1>2, <1>6, Calmer DEF WindowInv
  <2>2. ~Settled(s)
    BY <1>1 DEF Settled
  <2>3. StartStage(sessions[s].victim, sessions[s].published, "add", s)
    BY <1>1, <1>2, <2>1, <2>2, StartFinds
  <2>4. Smooth' => SeatOk(s)'
    BY <1>2, <1>3, <2>3, HousedServes, Calmer DEF StartStage
  <2> QED BY <1>1, <1>2, <1>4, <2>1, <2>4, SeatStageKeeps
<1> QED BY <1>5, <1>6 DEF WindowInv

LEMMA ConnectKeeps ==
    ASSUME WindowInv, NEW s \in DOMAIN sessions, Connect(s)
    PROVE  WindowInv'
<1>1. UNCHANGED <<procs, sup, window, ops, view, seat, gestures, happened>>
  BY DEF Connect
<1>2. PICK p \in Serving(s) : sessions' = [sessions EXCEPT ![s].conn = p]
  BY DEF Connect
<1>3. /\ WindowTypes /\ Table /\ Grows /\ sessions[s] \in Session /\ sessions \in Seq(Session)
      /\ 0 \notin DOMAIN sessions
  BY <1>1, TypeFacts DEF WindowInv, WindowTypes, Grows
<1>4. p \in Nat
  BY <1>3, TableFacts DEF Serving
<1>5. PICK c : c = [sessions[s] EXCEPT !.conn = p]
  OBVIOUS
<1>6. c \in Session /\ SameFate(sessions[s], c)
  BY <1>3, <1>4, <1>5 DEF Session, SameFate
<1>7. sessions' = [sessions EXCEPT ![s] = c]
  BY <1>2, <1>5
<1>8. sessions' \in Seq(Session) /\ Alike(sessions, sessions')
  BY <1>3, <1>6, <1>7, FeedMoves
<1>9. WindowTypes'
  BY <1>1, <1>3, <1>8 DEF WindowTypes, Table
<1>10. ASSUME Calm({"overlap"})'
       PROVE  (Control /\ Stages)'
  <2>1. Control /\ Stages /\ World
    BY <1>3, <1>10, Calmer DEF WindowInv, Stages
  <2>2. /\ World' /\ \A n : Clear(n)' <=> Clear(n)
        /\ \A v : Awaits(v)' <=> Awaits(v)
        /\ TunnelUp' <=> TunnelUp
        /\ \A w, states : RoomIn(w, states)' <=> RoomIn(w, states)
        /\ \A h : Hosted(h)' <=> Hosted(h)
    BY <1>1, <1>3, <2>1, Standing
  <2>3. /\ \A w : Housed(w) => Housed(w)'
        /\ \A w : Coming(w) => Coming(w)'
    BY <2>2 DEF Housed, Coming
  <2> QED BY <1>1, <1>3, <1>8, <2>1, <2>2, <2>3, WorkStands
<1> QED BY <1>9, <1>10 DEF WindowInv

----------------------------------------------------------------------------
(* The processes: one comes up, ends, or crashes.                             *)

\* A process that changes state stays under its name.
LEMMA TableChanges ==
    ASSUME Table, NEW p \in DOMAIN procs, NEW x \in {"up", "deaf", "gone"},
           procs' = [procs EXCEPT ![p].state = x], UNCHANGED sup
    PROVE  /\ Table' /\ DOMAIN procs' = DOMAIN procs
           /\ \A q \in DOMAIN procs : q # p => procs'[q] = procs[q]
           /\ procs'[p].name = procs[p].name /\ procs'[p].port = procs[p].port
           /\ procs'[p].host = procs[p].host /\ procs'[p].state = x
<1>1. procs[p] \in Process /\ procs \in Seq(Process)
  BY TableFacts DEF Table
<1>2. PICK c : c = [procs[p] EXCEPT !.state = x]
  OBVIOUS
<1>3. /\ c \in Process /\ c.name = procs[p].name /\ c.port = procs[p].port
      /\ c.host = procs[p].host /\ c.state = x
  BY <1>1, <1>2 DEF Process
<1>4. procs' = [procs EXCEPT ![p] = c]
  BY <1>2
<1> HIDE DEF Process
<1>5. /\ procs' \in Seq(Process) /\ DOMAIN procs' = DOMAIN procs /\ Len(procs') = Len(procs)
      /\ procs'[p] = c /\ \A q \in DOMAIN procs : q # p => procs'[q] = procs[q]
  <2>1. \A h : h = [procs EXCEPT ![p] = c] =>
            /\ h \in Seq(Process) /\ DOMAIN h = DOMAIN procs /\ Len(h) = Len(procs) /\ h[p] = c
            /\ \A q \in DOMAIN procs : q # p => h[q] = procs[q]
    BY <1>1, <1>3, AtPlace
  <2> QED BY <1>4, <2>1
<1>6. ASSUME NEW n \in Names, sup'[n] # 0
      PROVE  procs'[sup'[n]].name = n
  <2>1. sup[n] \in DOMAIN procs /\ procs[sup[n]].name = n
    BY <1>6, TableFacts DEF Table
  <2> QED BY <1>3, <1>5, <2>1
<1>7. Table'
  <2>1. sup' \in [Names -> 0..Len(procs')]
    BY <1>5 DEF Table
  <2> QED BY <1>5, <1>6, <2>1 DEF Table
<1> QED BY <1>3, <1>5, <1>7

LEMMA UpKeeps ==
    ASSUME WindowInv, NEW p \in DOMAIN procs, Up(p)
    PROVE  WindowInv'
<1>1. procs[p].state = "starting" /\ UNCHANGED <<sup, sessions, window, ops, view, seat, gestures, happened>>
  BY DEF Up
<1>2. PICK x : x = IF procs[p].name = "room" /\ Serving(procs[p].port) # {} THEN "deaf" ELSE "up"
  OBVIOUS
<1>3. x \in {"up", "deaf", "gone"} /\ procs' = [procs EXCEPT ![p].state = x]
  BY <1>2 DEF Up
<1>4. WindowTypes /\ Table /\ Grows /\ 0 \notin DOMAIN sessions
  BY <1>1, TypeFacts DEF WindowInv, Grows
<1>5. /\ Table' /\ DOMAIN procs' = DOMAIN procs
      /\ \A q \in DOMAIN procs : q # p => procs'[q] = procs[q]
      /\ procs'[p].name = procs[p].name /\ procs'[p].port = procs[p].port
      /\ procs'[p].host = procs[p].host /\ procs'[p].state = x
  BY <1>1, <1>3, <1>4, TableChanges
<1>6. WindowTypes'
  BY <1>1, <1>4, <1>5 DEF WindowTypes
<1>7. ASSUME Calm({"overlap"})'
      PROVE  (Control /\ Stages)'
  <2>1. Control /\ Stages /\ World
    BY <1>4, <1>7, Calmer DEF WindowInv, Stages
  <2>2. \A q \in DOMAIN procs : /\ Alive(q)' <=> Alive(q)
                                /\ procs'[q].name = procs[q].name
                                /\ procs'[q].port = procs[q].port
                                /\ procs'[q].host = procs[q].host
                                /\ procs[q].state = "up" => procs'[q].state = "up"
                                /\ procs'[q].state = "dying" => procs[q].state = "dying"
    BY <1>1, <1>2, <1>5 DEF Alive
  <2>3. \A n \in Names : sup'[n] = sup[n] /\ (sup[n] # 0 => sup[n] \in DOMAIN procs)
    BY <1>1, <1>4, TableFacts
  <2>4. World'
    <3>1. \A q \in DOMAIN procs' : Alive(q)' => sup'[procs'[q].name] = q
      BY <1>1, <1>5, <2>1, <2>2 DEF World
    <3>2. Gentle' => \A n \in Names : sup'[n] # 0 => Alive(sup[n])' /\ sup'[n] = sup[n]
      BY <1>4, <2>1, <2>2, <2>3, Calmer DEF World
    <3>3. ~window'.open => \A n \in Names : sup'[n] = 0
      BY <1>1, <2>1 DEF World, Clear
    <3> QED BY <3>1, <3>2, <3>3 DEF World, Clear, Alive
  <2>5. \A v : Awaits(v) => Awaits(v)'
    BY <1>5, <2>2 DEF Awaits
  <2>6. TunnelUp => TunnelUp'
    BY <2>2, <2>3 DEF TunnelUp, Names
  <2>7. \A w : Housed(w) => Housed(w)'
    BY <2>2, <2>3 DEF Housed, RoomIn, Names
  <2>8. \A h : Hosted(h) => Hosted(h)'
    BY <2>2, <2>3 DEF Hosted, Names
  <2>9. ASSUME NEW w, Awaits(0), Coming(w)
        PROVE  Coming(w)'
    <3>1. CASE sup["room"] = p
      <4>1. procs[p].name = "room" /\ procs[p].port = w /\ p # 0
        BY <1>4, <2>9, <3>1, TableFacts DEF Coming, RoomIn, Table, Names
      <4>2. Serving(w) = {}
        <5>1. ASSUME Serving(w) # {}
              PROVE  FALSE
          <6>1. Housed(w)
            BY <1>4, <2>1, <2>9, <5>1, ServedByItsRoom
          <6> QED BY <1>1, <3>1, <6>1 DEF Housed, RoomIn
        <5> QED BY <5>1
      <4>3. x = "up"
        BY <1>2, <4>1, <4>2
      <4> QED BY <1>1, <1>5, <3>1, <4>1, <4>3 DEF Coming, RoomIn
    <3>2. CASE sup["room"] # p
      <4>1. procs'[sup["room"]] = procs[sup["room"]]
        BY <1>5, <2>3, <2>9, <3>2 DEF Coming, RoomIn, Names
      <4> QED BY <1>1, <2>9, <4>1 DEF Coming, RoomIn
    <3> QED BY <3>1, <3>2
  <2>10. Alike(sessions, sessions')
    BY <1>1 DEF Alike, SameFate
  <2>11. \A n \in Names : Clear(n)' <=> Clear(n)
    BY <1>1 DEF Clear
  <2> QED BY <1>1, <1>4, <2>1, <2>4, <2>5, <2>6, <2>7, <2>8, <2>9, <2>10, <2>11, WorkStands
<1> QED BY <1>6, <1>7 DEF WindowInv

LEMMA DieKeeps ==
    ASSUME WindowInv, NEW p \in DOMAIN procs, Die(p)
    PROVE  WindowInv'
<1>1. /\ procs[p].state = "dying" /\ procs' = [procs EXCEPT ![p].state = "gone"]
      /\ UNCHANGED <<sup, window, ops, view, seat, gestures, happened>>
  BY DEF Die
<1>2. sessions' = [s \in DOMAIN sessions |-> Dropped(sessions[s], p)]
  BY DEF Die
<1>3. /\ WindowTypes /\ Table /\ Grows /\ 0 \notin DOMAIN sessions
      /\ \A s \in DOMAIN sessions : sessions[s] \in Session
      /\ sessions \in Seq(Session)
  BY <1>1, TypeFacts DEF WindowInv, WindowTypes, Grows
<1>4. /\ Table' /\ DOMAIN procs' = DOMAIN procs
      /\ \A q \in DOMAIN procs : q # p => procs'[q] = procs[q]
      /\ procs'[p].name = procs[p].name /\ procs'[p].port = procs[p].port
      /\ procs'[p].host = procs[p].host /\ procs'[p].state = "gone"
  BY <1>1, <1>3, TableChanges
<1>5. sessions' \in Seq(Session) /\ Alike(sessions, sessions')
  <2>1. \A s \in DOMAIN sessions : /\ sessions'[s] \in Session
                                   /\ SameFate(sessions[s], sessions'[s])
    BY <1>2, <1>3, FeedFates
  <2>2. sessions' = [s \in DOMAIN sessions |-> sessions'[s]]
    BY <1>2
  <2> QED BY <1>3, <2>1, <2>2, FeedsMove
<1>6. WindowTypes'
  BY <1>1, <1>3, <1>4, <1>5 DEF WindowTypes
<1>7. ASSUME Calm({"overlap"})'
      PROVE  (Control /\ Stages)'
  <2>1. Control /\ Stages /\ World
    BY <1>3, <1>7, Calmer DEF WindowInv, Stages
  <2>2. \A q \in DOMAIN procs : /\ Alive(q)' <=> Alive(q)
                                /\ procs'[q].name = procs[q].name
                                /\ Alive(q) => procs'[q] = procs[q]
                                /\ procs'[q].host = procs[q].host
                                /\ procs'[q].state = "dying" => procs[q].state = "dying"
    BY <1>1, <1>4 DEF Alive
  <2>3. \A n \in Names : sup'[n] = sup[n] /\ (sup[n] # 0 => sup[n] \in DOMAIN procs)
    BY <1>1, <1>3, TableFacts
  <2>4. World'
    <3>1. \A q \in DOMAIN procs' : Alive(q)' => sup'[procs'[q].name] = q
      BY <1>1, <1>4, <2>1, <2>2 DEF World
    <3>2. Gentle' => \A n \in Names : sup'[n] # 0 => Alive(sup[n])' /\ sup'[n] = sup[n]
      BY <1>3, <2>1, <2>2, <2>3, Calmer DEF World
    <3>3. ~window'.open => \A n \in Names : sup'[n] = 0
      BY <1>1, <2>1 DEF World, Clear
    <3> QED BY <3>1, <3>2, <3>3 DEF World, Clear, Alive
  <2>5. \A v : Awaits(v) => Awaits(v)'
    BY <1>4, <2>2 DEF Awaits
  <2>6. TunnelUp => TunnelUp'
    BY <2>2, <2>3 DEF TunnelUp, Names, Alive
  <2>7. /\ \A w : Housed(w) => Housed(w)'
        /\ \A w : Coming(w) => Coming(w)'
    BY <2>2, <2>3 DEF Housed, Coming, RoomIn, Names, Alive
  <2>8. \A h : Hosted(h) => Hosted(h)'
    BY <2>2, <2>3 DEF Hosted, Names
  <2>9. \A n \in Names : Clear(n)' <=> Clear(n)
    BY <1>1 DEF Clear
  <2> QED BY <1>1, <1>3, <1>5, <2>1, <2>4, <2>5, <2>6, <2>7, <2>8, <2>9, WorkStands
<1> QED BY <1>6, <1>7 DEF WindowInv

LEMMA CrashKeeps ==
    ASSUME WindowInv, NEW p \in DOMAIN procs, Crash(p)
    PROVE  WindowInv'
<1>1. /\ Upset("crash") /\ procs' = [procs EXCEPT ![p].state = "gone"]
      /\ UNCHANGED <<sup, window, ops, view, seat, gestures>>
  BY DEF Crash
<1>2. PICK ss : ss = [s \in DOMAIN sessions |-> Dropped(sessions[s], p)]
  OBVIOUS
<1>3. sessions' = IF procs[p].name = "room" /\ window.open THEN StopFeed(ss) ELSE ss
  BY <1>2 DEF Crash
<1>4. /\ WindowTypes /\ Table /\ Grows /\ 0 \notin DOMAIN sessions /\ "crash" \in happened'
      /\ \A s \in DOMAIN sessions : sessions[s] \in Session
      /\ sessions \in Seq(Session)
  BY <1>1, TypeFacts, Upsetting DEF WindowInv, WindowTypes
<1>5. /\ Table' /\ DOMAIN procs' = DOMAIN procs
      /\ \A q \in DOMAIN procs : q # p => procs'[q] = procs[q]
      /\ procs'[p].name = procs[p].name /\ procs'[p].port = procs[p].port
      /\ procs'[p].host = procs[p].host /\ procs'[p].state = "gone"
  BY <1>1, <1>4, TableChanges
<1>6. ss \in Seq(Session) /\ Alike(sessions, ss)
  <2>1. \A s \in DOMAIN sessions : ss[s] \in Session /\ SameFate(sessions[s], ss[s])
    BY <1>2, <1>4, FeedFates
  <2>2. ss = [s \in DOMAIN sessions |-> ss[s]]
    BY <1>2
  <2> QED BY <1>4, <2>1, <2>2, FeedsMove
<1>7. sessions' \in Seq(Session) /\ Alike(sessions, sessions')
  <2>1. CASE sessions' = ss
    BY <1>6, <2>1
  <2>2. CASE sessions' = StopFeed(ss)
    <3>1. sessions' \in Seq(Session) /\ Alike(ss, sessions')
      BY <1>6, <2>2, FeedStops
    <3> QED BY <1>6, <3>1 DEF Alike, SameFate
  <2> QED BY <1>3, <2>1, <2>2
<1>8. WindowTypes'
  BY <1>1, <1>4, <1>5, <1>7 DEF WindowTypes, Grows
<1>9. ASSUME Calm({"overlap"})'
      PROVE  (Control /\ Stages)'
  <2>1. Control /\ Stages /\ World
    BY <1>4, <1>9, Calmer DEF WindowInv, Stages
  <2>2. ~Gentle'
    BY <1>4 DEF Gentle, Calm
  <2>3. World'
    <3>1. \A q \in DOMAIN procs : Alive(q)' => Alive(q) /\ q # p
      BY <1>5 DEF Alive
    <3>2. \A q \in DOMAIN procs' : Alive(q)' => sup'[procs'[q].name] = q
      BY <1>1, <1>5, <2>1, <3>1 DEF World
    <3>3. ~window'.open => \A n \in Names : sup'[n] = 0
      BY <1>1, <2>1 DEF World, Clear
    <3> QED BY <2>2, <3>2, <3>3 DEF World, Clear
  <2>4. \A n \in Names : Clear(n)' <=> Clear(n)
    BY <1>1 DEF Clear
  <2> QED BY <1>1, <1>4, <1>7, <2>1, <2>2, <2>3, <2>4, WorkStands
<1> QED BY <1>8, <1>9 DEF WindowInv

----------------------------------------------------------------------------
(* The person's gestures.                                                  *)

\* A session that something names is there, and a process whose end is awaited has a name.
Known ==
    /\ window.session # 0 => window.session \in DOMAIN sessions
    /\ window.starting # 0 => window.starting \in DOMAIN sessions
    /\ \A o \in DOMAIN ops :
          /\ ops[o].kind \in {"share", "unshare"} => ops[o].session \in DOMAIN sessions
          /\ ops[o].at = "stopped" => ops[o].names # <<>>

LEMMA Ensuring ==
    ASSUME WindowTypes, Known, EnsureSession
    PROVE  /\ sessions' \in Seq(Session)
           /\ window' \in [session : Nat, starting : Nat, open : BOOLEAN]
           /\ DOMAIN sessions \subseteq DOMAIN sessions'
           /\ Asked \in Nat /\ Asked # 0 /\ Asked \in DOMAIN sessions'
           /\ window'.session = window.session /\ window'.open = window.open
           /\ window'.starting # 0 => window'.starting \in DOMAIN sessions'
           /\ \/ /\ UNCHANGED <<sessions, window>> /\ Asked \in DOMAIN sessions
                 /\ Asked \in {window.session, window.starting}
                 /\ window.session # 0 => Asked = window.session
              \/ /\ window.session = 0 /\ window.starting = 0 /\ Asked = Len(sessions) + 1
                 /\ sessions' = Append(sessions, NewSession)
                 /\ window' = [window EXCEPT !.starting = Len(sessions) + 1]
<1>1. /\ sessions \in Seq(Session) /\ DOMAIN sessions \subseteq Nat /\ 0 \notin DOMAIN sessions
      /\ Len(sessions) \in Nat /\ DOMAIN sessions = 1..Len(sessions)
      /\ window \in [session : Nat, starting : Nat, open : BOOLEAN]
  BY TypeFacts DEF WindowTypes
<1>2. CASE window.session # 0 \/ window.starting # 0
  <2>1. UNCHANGED <<sessions, window>>
    BY <1>2 DEF EnsureSession
  <2>2. /\ Asked \in {window.session, window.starting} /\ Asked # 0
        /\ window.session # 0 => Asked = window.session
    BY <1>2 DEF Asked
  <2>3. Asked \in DOMAIN sessions
    BY <2>2 DEF Known
  <2> QED BY <1>1, <2>1, <2>2, <2>3 DEF Known
<1>3. CASE window.session = 0 /\ window.starting = 0
  <2>1. /\ sessions' = Append(sessions, NewSession)
        /\ window' = [window EXCEPT !.starting = Len(sessions) + 1]
    BY <1>3 DEF EnsureSession
  <2>2. Asked = Len(sessions) + 1
    BY <1>3 DEF Asked
  <2>3. NewSession \in Session
    BY DEF NewSession, Session
  <2>4. /\ sessions' \in Seq(Session) /\ DOMAIN sessions' = 1..(Len(sessions) + 1)
    <3> HIDE DEF Session
    <3> QED BY <1>1, <2>1, <2>3, AtEnd
  <2>5. /\ window' \in [session : Nat, starting : Nat, open : BOOLEAN]
        /\ window'.session = window.session /\ window'.open = window.open
        /\ window'.starting = Len(sessions) + 1
    BY <1>1, <2>1
  <2> QED BY <1>1, <1>3, <2>1, <2>2, <2>4, <2>5
<1> QED BY <1>2, <1>3

LEMMA RevealKeeps ==
    ASSUME Known, WindowInv, Reveal
    PROVE  WindowInv'
<1>1. /\ window.open /\ gestures' = gestures + 1 /\ EnsureSession
      /\ view' = IF window.session = 0 THEN view
                 ELSE [view EXCEPT !.published = sessions[window.session].published]
      /\ IF Asked > Len(sessions) /\ Working # {} THEN Overlap ELSE UNCHANGED happened
      /\ UNCHANGED <<procs, sup, ops, seat>>
  BY DEF Reveal, Gesture
<1>2. WindowTypes /\ Table /\ happened \in SUBSET Kinds
  BY TypeFacts DEF WindowInv
<1>3. Grows /\ (Asked > Len(sessions) /\ Working # {} => "overlap" \in happened')
  <2>1. CASE Asked > Len(sessions) /\ Working # {}
    <3>1. Upset("overlap")
      BY <1>1, <2>1 DEF Overlap
    <3> QED BY <1>2, <3>1, Upsetting
  <2>2. CASE ~(Asked > Len(sessions) /\ Working # {})
    BY <1>1, <1>2, <2>2 DEF Grows
  <2> QED BY <2>1, <2>2
<1>4. view' \in ViewState
  <2>1. CASE window.session = 0
    BY <1>1, <1>2, <2>1 DEF WindowTypes
  <2>2. CASE window.session # 0
    <3>1. sessions[window.session] \in Session
      BY <1>2, <2>2, TypeFacts DEF Known
    <3>2. sessions[window.session].published \in BOOLEAN
      BY <3>1 DEF Session
    <3> QED BY <1>1, <1>2, <2>2, <3>2 DEF WindowTypes, ViewState
  <2> QED BY <2>1, <2>2
<1>5. /\ sessions' \in Seq(Session)
      /\ window' \in [session : Nat, starting : Nat, open : BOOLEAN]
      /\ Asked \in Nat /\ Asked # 0
      /\ \/ UNCHANGED <<sessions, window>> /\ Asked \in DOMAIN sessions
         \/ /\ window.session = 0 /\ window.starting = 0 /\ Asked = Len(sessions) + 1
            /\ sessions' = Append(sessions, NewSession)
            /\ window' = [window EXCEPT !.starting = Len(sessions) + 1]
  BY <1>1, <1>2, Ensuring
<1>6. WindowTypes'
  <2>1. gestures' \in Nat /\ seat' \in SeatState /\ ops' \in Seq(Command)
    BY <1>1, <1>2 DEF WindowTypes
  <2>2. Table' /\ happened' \in SUBSET Kinds
    BY <1>1, <1>2, <1>3 DEF Table, Grows
  <2> QED BY <1>4, <1>5, <2>1, <2>2 DEF WindowTypes
<1>7. ASSUME Calm({"overlap"})'
      PROVE  (Control /\ Stages)'
  <2>1. Control /\ Stages /\ World
    BY <1>3, <1>7, Calmer DEF WindowInv, Stages
  <2>2. ~(Asked > Len(sessions) /\ Working # {}) /\ happened' = happened
    BY <1>1, <1>3, <1>7 DEF Calm
  <2>3. CASE UNCHANGED <<sessions, window>>
    <3>1. Control'
      BY <1>1, <2>1, <2>3 DEF Control, Settled, Working, Placed
    <3>2. World' /\ Working' = Working
      BY <1>1, <2>1, <2>2, <2>3 DEF World, Alive, Clear, Gentle, Calm, Working
    <3>3. window.starting # 0 =>
              StartStage(sessions[window.starting].victim, sessions[window.starting].published,
                         sessions[window.starting].at, window.starting)'
      BY <1>1, <2>1, <2>2, <2>3 DEF Stages, StartStage, Clear, Awaits, Coming, Housed, RoomIn,
                                    Gentle, Smooth, Calm
    <3>4. AtRest' => Rest(window.session, sessions[window.session].published, view.published)'
      <4>1. AtRest' => AtRest
        BY <1>1, <2>3, <3>2 DEF AtRest
      <4>2. window.session # 0 => view'.published = sessions[window.session].published
        BY <1>1, <1>2 DEF WindowTypes, ViewState
      <4>3. AtRest => Rest(window.session, sessions[window.session].published, view.published)
        BY <2>1 DEF Stages
      <4> QED BY <1>1, <2>2, <2>3, <4>1, <4>2, <4>3
              DEF Rest, Awaits, Clear, Shared, Housed, Hosted, TunnelUp, RoomIn, SeatOk,
                  Gentle, Smooth, Calm
    <3>5. ASSUME NEW o \in Working
          PROVE  /\ ops'[o].at \in PastAts =>
                       ShareStage(ops[o].victim, sessions[ops[o].session].published, ops[o].kind,
                                  ops[o].at, ops[o].session)'
                 /\ ops'[o].at \in StopAts => StopStage(ops[o].victim, ops[o].names, ops[o].at)'
                 /\ ops'[o].at = "ensure" =>
                       EnsureStage(ops[o].victim, sessions[ops[o].session].published, ops[o].kind)'
      <4>1. ops'[o].at \in PastAts =>
                ShareStage(ops[o].victim, sessions[ops[o].session].published, ops[o].kind,
                           ops[o].at, ops[o].session)'
        BY <1>1, <2>1, <2>2, <2>3 DEF Stages, ShareStage, Awaits, Clear, Hosted, Shared, Housed,
                                      RoomIn, SeatOk, Coming, TunnelUp, Gentle, Smooth, Calm
      <4>2. ops'[o].at \in StopAts => StopStage(ops[o].victim, ops[o].names, ops[o].at)'
        BY <1>1, <2>1, <2>2, <2>3 DEF Stages, StopStage, Awaits, Clear, Gentle, Calm
      <4>3. ops'[o].at = "ensure" =>
                EnsureStage(ops[o].victim, sessions[ops[o].session].published, ops[o].kind)'
        BY <1>1, <2>1, <2>2, <2>3 DEF Stages, EnsureStage, Gentle, Calm
      <4> QED BY <4>1, <4>2, <4>3
    <3> QED BY <1>1, <2>3, <3>1, <3>2, <3>3, <3>4, <3>5 DEF Stages
  <2>4. CASE /\ window.session = 0 /\ window.starting = 0 /\ Asked = Len(sessions) + 1
             /\ sessions' = Append(sessions, NewSession)
             /\ window' = [window EXCEPT !.starting = Len(sessions) + 1]
    <3>1. Working = {} /\ Working' = {}
      BY <1>1, <1>2, <2>2, <2>4, TypeFacts DEF Working
    <3>2. Rest(window.session, sessions[window.session].published, view.published)
      BY <2>1, <2>4, <3>1 DEF Stages, AtRest
    <3>3. Gentle' => Awaits(0) /\ Clear("tunnel")
      BY <1>3, <2>4, <3>2, Calmer DEF Rest
    <3> QED BY <1>1, <1>2, <1>3, <2>1, <2>4, <3>1, <3>3, StartBegins
  <2> QED BY <1>5, <2>3, <2>4
<1> QED BY <1>6, <1>7 DEF WindowInv

LEMMA ClickPublishKeeps ==
    ASSUME Known, WindowInv, ClickPublish
    PROVE  WindowInv'
<1>1. PICK k, n, x : /\ k = IF view.published THEN "unshare" ELSE "share"
                     /\ n = Len(ops) + 1 /\ x = Asked
  OBVIOUS
<1>2. /\ window.open /\ gestures' = gestures + 1 /\ EnsureSession
      /\ IF Working # {} THEN Overlap ELSE UNCHANGED happened
      /\ ops' = Append(ops, NewOp(k, x))
      /\ UNCHANGED <<procs, sup, view, seat>>
  BY <1>1 DEF ClickPublish, Gesture
<1>3. WindowTypes /\ Table /\ happened \in SUBSET Kinds /\ ops \in Seq(Command)
  BY TypeFacts DEF WindowInv, WindowTypes
<1>4. Grows /\ (Working # {} => "overlap" \in happened')
  <2>1. CASE Working # {}
    <3>1. Upset("overlap")
      BY <1>2, <2>1 DEF Overlap
    <3> QED BY <1>3, <3>1, Upsetting
  <2>2. CASE Working = {}
    BY <1>2, <1>3, <2>2 DEF Grows
  <2> QED BY <2>1, <2>2
<1>5. /\ sessions' \in Seq(Session)
      /\ window' \in [session : Nat, starting : Nat, open : BOOLEAN]
      /\ x \in Nat /\ x # 0 /\ x \in DOMAIN sessions'
      /\ \/ /\ UNCHANGED <<sessions, window>> /\ x \in DOMAIN sessions
            /\ x \in {window.session, window.starting}
            /\ window.session # 0 => x = window.session
         \/ /\ window.session = 0 /\ window.starting = 0 /\ x = Len(sessions) + 1
            /\ sessions' = Append(sessions, NewSession)
            /\ window' = [window EXCEPT !.starting = Len(sessions) + 1]
  BY <1>1, <1>2, <1>3, Ensuring
<1>6. PICK c : c = NewOp(k, x)
  OBVIOUS
<1>7. /\ c \in Command /\ c.kind = k /\ c.session = x /\ c.at = "ensure" /\ c.victim = 0
      /\ k \in {"share", "unshare"}
  <2>1. <<>> \in Seq(Names)
    BY EmptySeq
  <2> QED BY <1>1, <1>5, <1>6, <2>1 DEF NewOp, Command, CommandAts
<1>8. /\ ops' \in Seq(Command) /\ DOMAIN ops' = 1..n /\ DOMAIN ops = 1..(n - 1) /\ n \in Nat
      /\ \A o \in DOMAIN ops : ops'[o] = ops[o]
      /\ ops'[n] = c
  <2> HIDE DEF Command
  <2> QED BY <1>1, <1>2, <1>3, <1>6, <1>7, AtEnd
<1>9. WindowTypes'
  <2>1. gestures' \in Nat /\ seat' \in SeatState /\ view' \in ViewState
    BY <1>2, <1>3 DEF WindowTypes
  <2>2. Table' /\ happened' \in SUBSET Kinds
    BY <1>2, <1>3, <1>4 DEF Table, Grows
  <2> QED BY <1>5, <1>8, <2>1, <2>2 DEF WindowTypes
<1>10. ASSUME Calm({"overlap"})'
       PROVE  (Control /\ Stages)'
  <2>1. Control /\ Stages /\ World
    BY <1>4, <1>10, Calmer DEF WindowInv, Stages
  <2>2. Working = {} /\ happened' = happened
    BY <1>2, <1>4, <1>10 DEF Calm
  <2>3. Working' = {n}
    <3>1. \A o \in DOMAIN ops : ops[o].at = "done"
      BY <2>2 DEF Working
    <3>2. \A o \in 1..n : o # n => ops'[o].at = "done"
      BY <1>8, <3>1
    <3>3. ops'[n].at # "done" /\ n \in 1..n
      BY <1>3, <1>7, <1>8, <1>1, TypeFacts
    <3> QED BY <1>8, <3>2, <3>3 DEF Working
  <2>4. CASE /\ UNCHANGED <<sessions, window>> /\ x \in DOMAIN sessions
             /\ x \in {window.session, window.starting}
             /\ window.session # 0 => x = window.session
    <3>1. Control'
      <4>1. Placed(n)'
        BY <1>2, <1>7, <1>8, <2>4 DEF Placed, PastAts, StopAts
      <4> QED BY <2>1, <2>3, <2>4, <4>1 DEF Control, Settled
    <3>2. World'
      BY <1>2, <2>1, <2>2, <2>4 DEF World, Alive, Clear, Gentle, Calm
    <3>3. window.starting # 0 =>
              StartStage(sessions[window.starting].victim, sessions[window.starting].published,
                         sessions[window.starting].at, window.starting)'
      BY <1>2, <2>1, <2>2, <2>4 DEF Stages, StartStage, Clear, Awaits, Coming, Housed, RoomIn,
                                    Gentle, Smooth, Calm
    <3>4. window.starting = 0 =>
              Rest(window.session, sessions[window.session].published, view.published)
      BY <2>1, <2>2 DEF Stages, AtRest
    <3>5. AtRest' => Rest(window.session, sessions[window.session].published, view.published)'
      BY <1>2, <2>2, <2>4, <3>4
              DEF AtRest, Rest, Awaits, Clear, Shared, Housed, Hosted, TunnelUp, RoomIn, SeatOk,
                  Gentle, Smooth, Calm
    <3>6. k = "share" /\ Gentle => ~sessions[x].published
      <4>1. CASE window.starting = 0
        <5>1. window.session = x /\ x # 0
          BY <1>5, <2>4, <4>1
        <5>2. Gentle => view.published = sessions[x].published
          BY <3>4, <4>1, <5>1 DEF Rest
        <5> QED BY <1>1, <5>2
      <4>2. CASE window.starting # 0
        <5>1. window.session = 0 /\ x = window.starting
          BY <1>5, <2>1, <2>4, <4>2 DEF Control
        <5> QED BY <2>1, <4>2, <5>1 DEF Stages, StartStage
      <4> QED BY <4>1, <4>2
    <3>7. EnsureStage(ops[n].victim, sessions[ops[n].session].published, ops[n].kind)'
      BY <1>7, <1>8, <2>2, <2>4, <3>6 DEF EnsureStage, Gentle, Calm
    <3>8. ops'[n].at = "ensure"
      BY <1>7, <1>8
    <3> QED BY <2>3, <2>4, <3>1, <3>2, <3>3, <3>5, <3>7, <3>8 DEF Stages, PastAts, StopAts
  <2>5. CASE /\ window.session = 0 /\ window.starting = 0 /\ x = Len(sessions) + 1
             /\ sessions' = Append(sessions, NewSession)
             /\ window' = [window EXCEPT !.starting = Len(sessions) + 1]
    <3>1. Rest(window.session, sessions[window.session].published, view.published)
      BY <2>1, <2>2, <2>5 DEF Stages, AtRest
    <3>2. Gentle' => Awaits(0) /\ Clear("tunnel")
      BY <1>4, <2>5, <3>1, Calmer DEF Rest
    <3>3. \A o \in Working' : /\ ops'[o].at = "ensure" /\ ops'[o].kind # "close"
                              /\ ops'[o].session = Len(sessions) + 1 /\ ops'[o].victim = 0
      BY <1>7, <1>8, <2>3, <2>5
    <3>4. \A o, r \in Working' : o = r
      BY <2>3
    <3> QED BY <1>2, <1>3, <1>4, <2>1, <2>5, <3>2, <3>3, <3>4, StartBegins
  <2> QED BY <1>5, <2>4, <2>5
<1> QED BY <1>9, <1>10 DEF WindowInv

LEMMA JoinedNames ==
    ASSUME NEW s \in Seq(Names), NEW t \in Seq(Names)
    PROVE  s \o t \in Seq(Names) /\ \A n : n \in ToSet(s) \/ n \in ToSet(t) => n \in ToSet(s \o t)
<1>1. /\ s \o t \in Seq(Names) /\ Len(s \o t) = Len(s) + Len(t)
      /\ \A i \in 1..(Len(s) + Len(t)) : (s \o t)[i] = IF i <= Len(s) THEN s[i] ELSE t[i - Len(s)]
  BY ConcatProperties
<1>2. /\ DOMAIN (s \o t) = 1..(Len(s) + Len(t))
      /\ DOMAIN s = 1..Len(s) /\ DOMAIN t = 1..Len(t) /\ Len(s) \in Nat /\ Len(t) \in Nat
  BY <1>1, LenProperties
<1>3. ASSUME NEW i \in DOMAIN s
      PROVE  i \in DOMAIN (s \o t) /\ (s \o t)[i] = s[i]
  BY <1>1, <1>2
<1>4. ASSUME NEW i \in DOMAIN t
      PROVE  Len(s) + i \in DOMAIN (s \o t) /\ (s \o t)[Len(s) + i] = t[i]
  BY <1>1, <1>2
<1>5. ASSUME NEW n, n \in ToSet(s) \/ n \in ToSet(t)
      PROVE  n \in ToSet(s \o t)
  <2>1. CASE n \in ToSet(s)
    <3>1. PICK i \in DOMAIN s : n = s[i]
      BY <2>1 DEF ToSet
    <3> QED BY <1>3, <3>1 DEF ToSet
  <2>2. CASE n \in ToSet(t)
    <3>1. PICK i \in DOMAIN t : n = t[i]
      BY <2>2 DEF ToSet
    <3> QED BY <1>4, <3>1 DEF ToSet
  <2> QED BY <1>5, <2>1, <2>2
<1> QED BY <1>1, <1>5

\* What is stopped one after the other is everything that is kept under a name.
LEMMA AllByOrder ==
    ASSUME Table
    PROVE  ByOrder \in Seq(Names) /\ \A n \in Names : ~Clear(n) => n \in ToSet(ByOrder)
<1>1. ASSUME NEW n \in Names
      PROVE  Running(n) \in Seq(Names) /\ (~Clear(n) => n \in ToSet(Running(n)))
  <2>1. CASE sup[n] = 0
    <3>1. <<>> \in Seq(Names)
      BY EmptySeq
    <3> QED BY <2>1, <3>1 DEF Running, Clear
  <2>2. CASE sup[n] # 0
    <3>1. Running(n) = <<n>>
      BY <2>2 DEF Running
    <3>2. <<n>> \in Seq(Names)
      OBVIOUS
    <3>3. 1 \in DOMAIN <<n>> /\ <<n>>[1] = n
      OBVIOUS
    <3> QED BY <3>1, <3>2, <3>3 DEF ToSet
  <2> QED BY <2>1, <2>2
<1>2. "room" \in Names /\ "tunnel" \in Names /\ \A n \in Names : n \in {"room", "tunnel"}
  BY DEF Names
<1>3. PICK r, t : r = Running("room") /\ t = Running("tunnel")
  OBVIOUS
<1>4. /\ r \in Seq(Names) /\ t \in Seq(Names)
      /\ \A n \in Names : ~Clear(n) => n \in ToSet(r) \/ n \in ToSet(t)
  BY <1>1, <1>2, <1>3
<1>5. ByOrder = r \o t \/ ByOrder = t \o r
  BY <1>3 DEF ByOrder
<1> QED BY <1>4, <1>5, JoinedNames

LEMMA StopAllKeeps ==
    ASSUME WindowInv, NEW kind \in {"restart", "close"}, StopAll(kind)
    PROVE  WindowInv'
<1>1. PICK c, n : c = [NewOp(kind, 0) EXCEPT !.at = "stopping", !.names = ByOrder] /\ n = Len(ops) + 1
  OBVIOUS
<1>2. /\ window.open /\ gestures' = gestures + 1
      /\ IF Idle THEN UNCHANGED happened ELSE Overlap
      /\ sessions' = StopFeed(sessions) /\ window' = [window EXCEPT !.session = 0]
      /\ ops' = Append(ops, c) /\ UNCHANGED <<procs, sup, view, seat>>
  BY <1>1 DEF StopAll, Gesture
<1>3. /\ WindowTypes /\ Table /\ happened \in SUBSET Kinds /\ ops \in Seq(Command)
      /\ sessions \in Seq(Session) /\ 0 \notin DOMAIN sessions
  BY TypeFacts DEF WindowInv, WindowTypes
<1>4. Grows /\ (~Idle => "overlap" \in happened')
  <2>1. CASE ~Idle
    <3>1. Upset("overlap")
      BY <1>2, <2>1 DEF Overlap
    <3> QED BY <1>3, <3>1, Upsetting
  <2>2. CASE Idle
    BY <1>2, <1>3, <2>2 DEF Grows
  <2> QED BY <2>1, <2>2
<1>5. /\ c \in Command /\ c.kind = kind /\ c.at = "stopping" /\ c.victim = 0 /\ c.names = ByOrder
  <2>1. ByOrder \in Seq(Names)
    BY <1>3, AllByOrder
  <2>2. c = [kind |-> kind, session |-> 0, at |-> "stopping", victim |-> 0, names |-> ByOrder]
    BY <1>1 DEF NewOp
  <2> QED BY <2>1, <2>2 DEF Command, CommandAts, StopAts
<1>6. /\ ops' \in Seq(Command) /\ DOMAIN ops' = 1..n /\ DOMAIN ops = 1..(n - 1) /\ n \in Nat
      /\ n \in 1..n /\ \A o \in DOMAIN ops : ops'[o] = ops[o]
      /\ ops'[n] = c
  <2> HIDE DEF Command
  <2>1. Len(ops) \in Nat
    BY <1>3, LenProperties
  <2> QED BY <1>1, <1>2, <1>3, <1>5, <2>1, AtEnd
<1>7. sessions' \in Seq(Session) /\ Alike(sessions, sessions')
  BY <1>2, <1>3, FeedStops
<1>8. /\ window' \in [session : Nat, starting : Nat, open : BOOLEAN]
      /\ window'.session = 0 /\ window'.starting = window.starting /\ window'.open = window.open
  BY <1>2, <1>3 DEF WindowTypes
<1>9. WindowTypes'
  <2>1. gestures' \in Nat /\ seat' \in SeatState /\ view' \in ViewState
    BY <1>2, <1>3 DEF WindowTypes
  <2>2. Table' /\ happened' \in SUBSET Kinds
    BY <1>2, <1>3, <1>4 DEF Table, Grows
  <2> QED BY <1>6, <1>7, <1>8, <2>1, <2>2 DEF WindowTypes
<1>10. ASSUME Calm({"overlap"})'
       PROVE  (Control /\ Stages)'
  <2>1. Control /\ Stages /\ World
    BY <1>4, <1>10, Calmer DEF WindowInv, Stages
  <2>2. Working = {} /\ window.starting = 0
    BY <1>4, <1>10 DEF Calm, Idle
  <2>3. Working' = {n}
    <3>1. \A o \in DOMAIN ops : ops[o].at = "done"
      BY <2>2 DEF Working
    <3>2. \A o \in 1..n : o # n => ops'[o].at = "done"
      BY <1>6, <3>1
    <3>3. ops'[n].at # "done"
      BY <1>5, <1>6
    <3> QED BY <1>6, <3>2, <3>3 DEF Working
  <2>4. Control'
    <3>1. Placed(n)'
      BY <1>2, <1>5, <1>6, <1>8, <2>2 DEF Placed, PastAts, StopAts
    <3>2. \A s \in DOMAIN sessions' : Settled(s)' <=> s # window'.starting
      BY <1>3, <1>7, <1>8, <2>1, <2>2 DEF Control, Settled, Alike, SameFate
    <3> QED BY <1>8, <2>2, <2>3, <3>1, <3>2 DEF Control
  <2>5. /\ World' /\ \A m : Clear(m)' <=> Clear(m)
        /\ \A v : Awaits(v)' <=> Awaits(v)
    BY <1>2, <1>4, <1>8, <2>1, Standing
  <2>6. Gentle => Awaits(0)
    BY <2>1, <2>2 DEF Stages, AtRest, Rest
  <2>7. PICK ns : ns = ByOrder
    OBVIOUS
  <2>8. StopStage(0, ns, "stopping")'
    <3>1. \A m \in Names : ~Clear(m) => m \in ToSet(ns)
      BY <1>3, <2>7, AllByOrder
    <3> QED BY <1>4, <2>5, <2>6, <3>1, Calmer DEF StopStage
  <2>9. StopStage(ops[n].victim, ops[n].names, ops[n].at)'
    <3>1. ops'[n].victim = 0 /\ ops'[n].names = ns /\ ops'[n].at = "stopping"
      BY <1>5, <1>6, <2>7
    <3> QED BY <2>8, <3>1 DEF StopStage, Awaits, Clear
  <2>10. ops'[n].at = "stopping"
    BY <1>5, <1>6
  <2> QED BY <1>8, <2>2, <2>3, <2>4, <2>5, <2>9, <2>10 DEF Stages, AtRest, PastAts, StopAts
<1> QED BY <1>9, <1>10 DEF WindowInv

----------------------------------------------------------------------------
(* Stopping everything.                                                    *)

LEMMA StopGoesOn ==
    ASSUME Control, NEW o \in Working, NEW a \in StopAts, NEW v, NEW names,
           Moved(ops, ops', o, a, v), ops'[o].names = names,
           UNCHANGED <<sessions, window>>, ops[o].at \in StopAts,
           World', StopStage(v, names, a)'
    PROVE  (Control /\ Stages)'
<1>1. /\ Working' = {o} /\ ops'[o].at = a /\ ops'[o].victim = v /\ ops'[o].kind = ops[o].kind
  BY MovedWork DEF StopAts
<1>2. a # "ensure" /\ a \notin PastAts
  BY DEF PastAts, StopAts
<1>3. /\ ops[o].kind \in {"restart", "close"} /\ window.session = 0 /\ window.starting = 0
      /\ window.open
  BY AtWork DEF Placed
<1>4. Control'
  <2>1. Placed(o)'
    BY <1>1, <1>2, <1>3 DEF Placed
  <2> QED BY <1>1, <1>3, <2>1 DEF Control, Settled
<1>5. Stages'
  <2>1. StopStage(ops[o].victim, ops[o].names, ops[o].at)'
    BY <1>1 DEF StopStage, Awaits, Clear, Gentle
  <2> QED BY <1>1, <1>2, <1>3, <2>1 DEF Stages, AtRest
<1> QED BY <1>4, <1>5

\* What a stop finds.
LEMMA StopFinds ==
    ASSUME WindowTypes, Control, Stages, NEW o \in DOMAIN ops, ops[o].at \in StopAts
    PROVE  /\ o \in Working /\ World /\ window.open /\ window.session = 0 /\ window.starting = 0
           /\ StopStage(ops[o].victim, ops[o].names, ops[o].at)
           /\ \A r \in Working : r = o
<1>1. o \in Working
  BY DEF Working, StopAts
<1> QED BY <1>1, AtWork DEF Stages, Placed

LEMMA StopNextKeeps ==
    ASSUME WindowInv, NEW o \in DOMAIN ops, StopNext(o)
    PROVE  WindowInv'
<1>1. PICK n, p, ns : n = Head(ops[o].names) /\ p = sup[n] /\ ns = ops[o].names
  OBVIOUS
<1>2. /\ ops[o].at = "stopping" /\ ns # <<>> /\ Kill(n)
      /\ ops' = [ops EXCEPT ![o].at = "stopped", ![o].victim = p]
      /\ UNCHANGED <<sessions, window, view, seat, gestures, happened>>
  BY <1>1 DEF StopNext
<1>3. WindowTypes /\ Table /\ Grows /\ ops[o] \in Command /\ ops \in Seq(Command)
  BY <1>2, TypeFacts DEF WindowInv, WindowTypes, Grows
<1>4. ns \in Seq(Names) /\ n \in Names
  <2>1. ns \in Seq(Names)
    BY <1>1, <1>3 DEF Command
  <2> QED BY <1>1, <1>2, <2>1, AtFront
<1>5. p \in Nat
  BY <1>1, <1>3, <1>4, TableFacts
<1>6. ops' \in Seq(Command) /\ Moved(ops, ops', o, "stopped", p) /\ ops'[o].names = ns
  <2>1. "stopped" \in CommandAts
    BY DEF CommandAts, StopAts
  <2>2. Moved(ops, ops', o, "stopped", p) /\ NamesKept(ops, ops', o) /\ ops' \in Seq(Command)
    BY <1>2, <1>3, <1>5, <2>1, CommandMoves
  <2> QED BY <1>1, <2>2 DEF NamesKept
<1>7. Table'
  BY <1>2, <1>3, <1>4, Killing
<1>8. WindowTypes'
  BY <1>2, <1>3, <1>6, <1>7 DEF WindowTypes
<1>9. ASSUME Calm({"overlap"})'
      PROVE  (Control /\ Stages)'
  <2>1. Control /\ Stages
    BY <1>3, <1>9, Calmer DEF WindowInv
  <2>2. /\ o \in Working /\ World /\ window.open
        /\ StopStage(ops[o].victim, ns, "stopping")
    BY <1>1, <1>2, <1>3, <2>1, StopFinds DEF StopAts
  <2>3. /\ World' /\ Clear(n)' /\ \A m \in Names : m # n => (Clear(m)' <=> Clear(m))
        /\ Awaits(0) => Awaits(p)'
    BY <1>1, <1>2, <1>3, <1>4, <2>2, KillingKeeps
  <2>4. \A m : m \in ToSet(ns) /\ m # n => m \in ToSet(Tail(ns))
    <3>1. /\ Len(ns) \in Nat /\ DOMAIN ns = 1..Len(ns) /\ DOMAIN Tail(ns) = 1..(Len(ns) - 1)
          /\ n = ns[1]
          /\ \A i \in 1..(Len(ns) - 1) : Tail(ns)[i] = ns[i + 1]
      BY <1>1, <1>2, <1>4, AtFront
    <3>2. ASSUME NEW i \in DOMAIN ns, ns[i] # n
          PROVE  ns[i] \in ToSet(Tail(ns))
      <4>1. i - 1 \in 1..(Len(ns) - 1) /\ Tail(ns)[i - 1] = ns[i]
        BY <3>1, <3>2
      <4> QED BY <3>1, <4>1 DEF ToSet
    <3> QED BY <3>2 DEF ToSet
  <2>5. StopStage(p, ns, "stopped")'
    BY <1>2, <1>3, <2>2, <2>3, <2>4, Calmer DEF StopStage
  <2> QED BY <1>2, <1>6, <2>1, <2>2, <2>3, <2>5, StopGoesOn DEF StopAts
<1> QED BY <1>8, <1>9 DEF WindowInv

LEMMA StopNextEndedKeeps ==
    ASSUME Known, WindowInv, NEW o \in DOMAIN ops, StopNextEnded(o)
    PROVE  WindowInv'
<1>1. PICK v, ns, t : v = ops[o].victim /\ ns = ops[o].names /\ t = Tail(ns)
  OBVIOUS
<1>2. /\ ops[o].at = "stopped" /\ Ended(v) /\ ns # <<>>
      /\ ops' = [ops EXCEPT ![o].at = "stopping", ![o].victim = 0, ![o].names = Tail(@)]
      /\ UNCHANGED <<procs, sup, sessions, window, view, seat, gestures>>
  BY <1>1 DEF StopNextEnded, Known
<1>3. /\ WindowTypes /\ Table /\ Grows /\ ops[o] \in Command /\ ops \in Seq(Command)
      /\ Gentle' /\ Awaits(v) => Awaits(0)
  BY <1>2, TypeFacts, Ending DEF WindowInv, WindowTypes
<1>4. PICK c : c = [ops[o] EXCEPT !.at = "stopping", !.victim = 0, !.names = t]
  OBVIOUS
<1>5. /\ c \in Command /\ c.kind = ops[o].kind /\ c.session = ops[o].session
      /\ c.at = "stopping" /\ c.victim = 0 /\ c.names = t
  <2>1. ns \in Seq(Names)
    BY <1>1, <1>3 DEF Command
  <2>2. t \in Seq(Names)
    BY <1>1, <1>2, <2>1, AtFront
  <2> QED BY <1>3, <1>4, <2>2 DEF Command, CommandAts, StopAts
<1>6. ops' = [ops EXCEPT ![o] = c]
  BY <1>1, <1>2, <1>4
<1>7. ops' \in Seq(Command) /\ Moved(ops, ops', o, "stopping", 0) /\ ops'[o].names = t
  <2> HIDE DEF Command
  <2>1. \A g : g = [ops EXCEPT ![o] = c] =>
            /\ g \in Seq(Command) /\ DOMAIN g = DOMAIN ops /\ g[o] = c
            /\ \A r \in DOMAIN ops : r # o => g[r] = ops[r]
    BY <1>3, <1>5, AtPlace
  <2> QED BY <1>5, <1>6, <2>1 DEF Moved
<1>8. WindowTypes'
  BY <1>2, <1>3, <1>7 DEF WindowTypes, Table, Grows
<1>9. ASSUME Calm({"overlap"})'
      PROVE  (Control /\ Stages)'
  <2>1. Control /\ Stages
    BY <1>3, <1>9, Calmer DEF WindowInv
  <2>2. /\ o \in Working /\ World /\ window.open
        /\ StopStage(v, ns, "stopped")
    BY <1>1, <1>2, <1>3, <2>1, StopFinds DEF StopAts
  <2>3. /\ World' /\ \A m : Clear(m)' <=> Clear(m)
        /\ \A x : Awaits(x)' <=> Awaits(x)
    BY <1>2, <1>3, <2>2, Standing
  <2>4. StopStage(0, t, "stopping")'
    BY <1>1, <1>3, <2>2, <2>3, Calmer DEF StopStage
  <2> QED BY <1>2, <1>7, <2>1, <2>2, <2>3, <2>4, StopGoesOn DEF StopAts
<1> QED BY <1>8, <1>9 DEF WindowInv

LEMMA RestartEnsuresKeeps ==
    ASSUME Known, WindowInv, NEW o \in DOMAIN ops, RestartEnsures(o)
    PROVE  WindowInv'
<1>1. PICK x : x = Asked
  OBVIOUS
<1>2. /\ ops[o].kind = "restart" /\ ops[o].at = "stopping" /\ ops[o].names = <<>>
      /\ EnsureSession /\ ops' = [ops EXCEPT ![o].at = "ensure", ![o].session = x]
      /\ UNCHANGED <<procs, sup, view, seat, gestures, happened>>
  BY <1>1 DEF RestartEnsures
<1>3. WindowTypes /\ Table /\ Grows /\ ops[o] \in Command /\ ops \in Seq(Command)
  BY <1>2, TypeFacts DEF WindowInv, WindowTypes, Grows
<1>4. /\ sessions' \in Seq(Session)
      /\ window' \in [session : Nat, starting : Nat, open : BOOLEAN]
      /\ x \in Nat /\ x # 0
      /\ \/ x \in {window.session, window.starting}
         \/ /\ window.session = 0 /\ window.starting = 0 /\ x = Len(sessions) + 1
            /\ sessions' = Append(sessions, NewSession)
            /\ window' = [window EXCEPT !.starting = Len(sessions) + 1]
  BY <1>1, <1>2, <1>3, Ensuring
<1>5. PICK c : c = [ops[o] EXCEPT !.at = "ensure", !.session = x]
  OBVIOUS
<1>6. /\ c \in Command /\ c.kind = "restart" /\ c.session = x /\ c.at = "ensure"
      /\ c.victim = ops[o].victim
  BY <1>2, <1>3, <1>4, <1>5 DEF Command, CommandAts
<1>7. /\ ops' \in Seq(Command) /\ DOMAIN ops' = DOMAIN ops /\ ops'[o] = c
      /\ \A r \in DOMAIN ops : r # o => ops'[r] = ops[r]
  <2> HIDE DEF Command
  <2>1. ops' = [ops EXCEPT ![o] = c]
    BY <1>2, <1>5
  <2>2. \A g : g = [ops EXCEPT ![o] = c] =>
            /\ g \in Seq(Command) /\ DOMAIN g = DOMAIN ops /\ g[o] = c
            /\ \A r \in DOMAIN ops : r # o => g[r] = ops[r]
    BY <1>3, <1>6, AtPlace
  <2> QED BY <2>1, <2>2
<1>8. WindowTypes'
  BY <1>2, <1>3, <1>4, <1>7 DEF WindowTypes, Table
<1>9. ASSUME Calm({"overlap"})'
      PROVE  (Control /\ Stages)'
  <2>1. Control /\ Stages
    BY <1>3, <1>9, Calmer DEF WindowInv
  <2>2. /\ o \in Working /\ World /\ window.open /\ window.session = 0 /\ window.starting = 0
        /\ StopStage(ops[o].victim, <<>>, "stopping") /\ \A r \in Working : r = o
    BY <1>2, <1>3, <2>1, StopFinds DEF StopAts
  <2>3. ops[o].victim = 0 /\ (Gentle => Awaits(0)) /\ Clear("tunnel")
    <3>1. ops[o].victim = 0 /\ \A n \in Names : ~Clear(n) => n \in ToSet(<<>>)
      BY <2>2 DEF StopStage
    <3>2. ToSet(<<>>) = {}
      BY DEF ToSet
    <3> QED BY <2>2, <3>1, <3>2 DEF StopStage, Names
  <2>4. Working' = {o}
    <3>1. \A r \in DOMAIN ops : r # o => ops[r].at = "done"
      BY <2>2 DEF Working
    <3> QED BY <1>6, <1>7, <3>1 DEF Working
  <2>5. /\ x = Len(sessions) + 1 /\ sessions' = Append(sessions, NewSession)
        /\ window' = [window EXCEPT !.starting = Len(sessions) + 1]
    BY <1>4, <2>2
  <2>6. Gentle' => Awaits(0) /\ Clear("tunnel")
    BY <1>3, <2>3, Calmer
  <2>7. \A r \in Working' : /\ ops'[r].at = "ensure" /\ ops'[r].kind # "close"
                            /\ ops'[r].session = Len(sessions) + 1 /\ ops'[r].victim = 0
    BY <1>6, <1>7, <2>3, <2>4, <2>5
  <2>8. \A y, r \in Working' : y = r
    BY <2>4
  <2> QED BY <1>2, <1>3, <2>1, <2>2, <2>5, <2>6, <2>7, <2>8, StartBegins
<1> QED BY <1>8, <1>9 DEF WindowInv

LEMMA RestartedKeeps ==
    ASSUME WindowInv, NEW o \in DOMAIN ops, Restarted(o) \/ NoSession(o)
    PROVE  WindowInv'
<1>1. /\ ops[o].at = "ensure" /\ Goto(o, At("done"))
      /\ UNCHANGED <<procs, sup, sessions, window, view, seat, gestures, happened>>
  BY DEF Restarted, NoSession
<1>2. ops' = [ops EXCEPT ![o].at = "done", ![o].victim = 0]
  BY <1>1 DEF Goto, At
<1>3. WindowTypes /\ Table /\ Grows /\ ops \in Seq(Command)
  BY <1>1, TypeFacts DEF WindowInv, WindowTypes, Grows
<1>4. ops' \in Seq(Command) /\ Moved(ops, ops', o, "done", 0)
  <2>1. "done" \in CommandAts
    BY DEF CommandAts
  <2> QED BY <1>2, <1>3, <2>1, CommandMoves
<1>5. WindowTypes'
  BY <1>1, <1>3, <1>4 DEF WindowTypes, Table
<1>6. ASSUME Calm({"overlap"})'
      PROVE  (Control /\ Stages)'
  <2>1. Control /\ Stages
    BY <1>3, <1>6, Calmer DEF WindowInv
  <2>2. o \in Working
    BY <1>1 DEF Working
  <2> QED BY <1>1, <1>4, <2>1, <2>2, WaitEnds
<1> QED BY <1>5, <1>6 DEF WindowInv

LEMMA ClosedKeeps ==
    ASSUME WindowInv, NEW o \in DOMAIN ops, Closed(o)
    PROVE  WindowInv'
<1>1. /\ ops[o].at = "stopping" /\ ops[o].names = <<>>
      /\ ops' = [p \in DOMAIN ops |-> [ops[p] EXCEPT !.at = "done"]]
      /\ window' = [session |-> 0, starting |-> 0, open |-> FALSE]
      /\ sessions' = [s \in DOMAIN sessions |-> Unsubscribed(sessions[s])]
      /\ UNCHANGED <<procs, sup, view, seat, gestures, happened>>
  BY DEF Closed
<1>2. /\ WindowTypes /\ Table /\ Grows /\ ops \in Seq(Command) /\ sessions \in Seq(Session)
      /\ \A p \in DOMAIN ops : ops[p] \in Command
      /\ \A s \in DOMAIN sessions : sessions[s] \in Session
      /\ 0 \notin DOMAIN sessions
  BY <1>1, TypeFacts DEF WindowInv, WindowTypes, Grows
<1>3. ASSUME NEW p \in DOMAIN ops
      PROVE  ops'[p] \in Command /\ ops'[p].at = "done"
  <2>1. ops'[p] = [ops[p] EXCEPT !.at = "done"] /\ ops[p] \in Command
    BY <1>1, <1>2
  <2> QED BY <2>1 DEF Command, CommandAts
<1>4. ops' \in Seq(Command) /\ DOMAIN ops' = DOMAIN ops
  <2>1. ops' \in [DOMAIN ops -> Command]
    BY <1>1, <1>3
  <2> HIDE DEF Command
  <2> QED BY <1>2, <2>1, EachPlace
<1>5. sessions' \in Seq(Session) /\ Alike(sessions, sessions')
  <2>1. \A s \in DOMAIN sessions : sessions'[s] \in Session /\ SameFate(sessions[s], sessions'[s])
    BY <1>1, <1>2, FeedFates
  <2>2. sessions' = [s \in DOMAIN sessions |-> sessions'[s]]
    BY <1>1
  <2> QED BY <1>2, <2>1, <2>2, FeedsMove
<1>6. /\ window' \in [session : Nat, starting : Nat, open : BOOLEAN]
      /\ window'.session = 0 /\ window'.starting = 0 /\ window'.open = FALSE
  BY <1>1
<1>7. WindowTypes'
  BY <1>1, <1>2, <1>4, <1>5, <1>6 DEF WindowTypes, Table
<1>8. ASSUME Calm({"overlap"})'
      PROVE  (Control /\ Stages)'
  <2>1. Control /\ Stages
    BY <1>2, <1>8, Calmer DEF WindowInv
  <2>2. /\ World /\ window.open /\ window.starting = 0
        /\ StopStage(ops[o].victim, <<>>, "stopping")
    BY <1>1, <1>2, <2>1, StopFinds DEF StopAts
  <2>3. (Gentle => Awaits(0)) /\ \A n \in Names : Clear(n)
    <3>1. ops[o].victim = 0 /\ \A n \in Names : ~Clear(n) => n \in ToSet(<<>>)
      BY <2>2 DEF StopStage
    <3>2. ToSet(<<>>) = {}
      BY DEF ToSet
    <3> QED BY <2>2, <3>1, <3>2 DEF StopStage
  <2>4. Working' = {}
    BY <1>3, <1>4 DEF Working
  <2>5. Control'
    <3>1. \A s \in DOMAIN sessions' : Settled(s)' <=> s # window'.starting
      BY <1>2, <1>5, <1>6, <2>1, <2>2 DEF Control, Settled, Alike, SameFate
    <3> QED BY <1>6, <2>4, <3>1 DEF Control
  <2>6. World'
    BY <1>1, <2>2, <2>3 DEF World, Alive, Clear, Gentle, Calm
  <2>7. Rest(window.session, sessions[window.session].published, view.published)'
    BY <1>1, <1>6, <2>3 DEF Rest, Clear, Awaits, Gentle, Calm, Names
  <2> QED BY <1>6, <2>4, <2>5, <2>6, <2>7 DEF Stages
<1> QED BY <1>7, <1>8 DEF WindowInv

----------------------------------------------------------------------------
(* Publishing, and the end of it.                                           *)

LEMMA CommandGoes ==
    ASSUME WindowTypes, NEW o \in DOMAIN ops, NEW c, Goto(o, c), c.at \in CommandAts,
           c.victim \in Nat
    PROVE  ops' \in Seq(Command) /\ Moved(ops, ops', o, c.at, c.victim)
<1>1. PICK a, v : a = c.at /\ v = c.victim
  OBVIOUS
<1>2. ops' = [ops EXCEPT ![o].at = a, ![o].victim = v]
  BY <1>1 DEF Goto
<1>3. ops \in Seq(Command)
  BY DEF WindowTypes
<1>4. ops' \in Seq(Command) /\ Moved(ops, ops', o, a, v)
  BY <1>1, <1>2, <1>3, CommandMoves
<1> QED BY <1>1, <1>4

LEMMA GoesTo ==
    ASSUME WindowTypes, NEW o \in DOMAIN ops, NEW a \in CommandAts, Goto(o, At(a))
    PROVE  ops' \in Seq(Command) /\ Moved(ops, ops', o, a, 0)
<1>1. PICK c : c = At(a)
  OBVIOUS
<1>2. c.at = a /\ c.victim = 0 /\ Goto(o, c)
  BY <1>1 DEF At
<1> QED BY <1>2, CommandGoes

LEMMA GoesAfter ==
    ASSUME WindowTypes, NEW o \in DOMAIN ops, NEW k \in CommandAts, NEW a \in CommandAts,
           NEW p \in Nat, Goto(o, AfterKill(p, k, a))
    PROVE  /\ ops' \in Seq(Command)
           /\ p = 0 => Moved(ops, ops', o, a, 0)
           /\ p # 0 => Moved(ops, ops', o, k, p)
<1>1. CASE p = 0
  <2>1. Goto(o, At(a))
    BY <1>1 DEF AfterKill
  <2> QED BY <1>1, <2>1, GoesTo
<1>2. CASE p # 0
  <2>1. PICK c : c = [at |-> k, victim |-> p]
    OBVIOUS
  <2>2. c.at = k /\ c.victim = p /\ Goto(o, c)
    BY <1>2, <2>1 DEF AfterKill
  <2> QED BY <1>2, <2>2, CommandGoes
<1> QED BY <1>1, <1>2

LEMMA StartsProcess ==
    ASSUME WindowTypes, NEW o \in DOMAIN ops, NEW k \in CommandAts, NEW a \in CommandAts,
           NEW n \in Names, NEW port \in Nat, NEW addr \in {"local", "public"}, NEW p,
           Start(n, port, addr), Goto(o, AfterKill(Predecessor(n), k, a)), p = sup[n]
    PROVE  /\ Table' /\ ops' \in Seq(Command) /\ p \in Nat
           /\ p = 0 => Spawn(n, port, addr) /\ Moved(ops, ops', o, a, 0)
           /\ p # 0 => Kill(n) /\ Moved(ops, ops', o, k, p)
<1>1. Table /\ p \in Nat /\ Goto(o, AfterKill(p, k, a))
  BY TypeFacts, TableFacts DEF Predecessor
<1>2. /\ p = 0 => Spawn(n, port, addr)
      /\ p # 0 => Kill(n)
  BY DEF Start, Predecessor
<1> QED BY <1>1, <1>2, GoesAfter, Spawning, Killing

LEMMA StopsProcess ==
    ASSUME WindowTypes, NEW o \in DOMAIN ops, NEW k \in CommandAts, NEW a \in CommandAts,
           NEW n \in Names, NEW p, Stop(n), Goto(o, AfterKill(sup[n], k, a)), p = sup[n]
    PROVE  /\ Table' /\ ops' \in Seq(Command) /\ p \in Nat
           /\ p = 0 => UNCHANGED <<procs, sup>> /\ Moved(ops, ops', o, a, 0)
           /\ p # 0 => Kill(n) /\ Moved(ops, ops', o, k, p)
<1>1. Table /\ p \in Nat /\ Goto(o, AfterKill(p, k, a))
  BY TypeFacts, TableFacts
<1>2. /\ p = 0 => UNCHANGED <<procs, sup>>
      /\ p # 0 => Kill(n)
  BY DEF Stop
<1>3. UNCHANGED <<procs, sup>> => Table'
  BY <1>1 DEF Table
<1> QED BY <1>1, <1>2, <1>3, GoesAfter, Killing

LEMMA Finishing ==
    ASSUME NEW o \in DOMAIN ops, sessions' \in Seq(Session), ops[o].session \in DOMAIN sessions',
           Finish(o)
    PROVE  view' \in ViewState /\ view'.published = sessions'[ops[o].session].published
<1>1. sessions'[ops[o].session] \in Session
  BY LenProperties
<1> QED BY <1>1 DEF Finish, ViewState, Session

LEMMA TypesKept ==
    ASSUME WindowTypes, Grows, Table', sessions' \in Seq(Session), ops' \in Seq(Command),
           UNCHANGED <<window, gestures>>, view' \in ViewState, seat' \in SeatState
    PROVE  WindowTypes'
BY DEF WindowTypes, Grows

\* What an await of a publishing finds.
LEMMA ShareFinds ==
    ASSUME WindowTypes, Control, Stages, NEW o \in DOMAIN ops, ops[o].at \in PastAts,
           NEW w, w = ops[o].session
    PROVE  /\ o \in Working /\ World /\ window.open /\ window.session = w /\ window.starting = 0
           /\ w # 0 /\ w \in DOMAIN sessions /\ ops[o].kind \in {"share", "unshare"}
           /\ ShareStage(ops[o].victim, sessions[w].published, ops[o].kind, ops[o].at, w)
<1>1. o \in Working
  BY DEF Working, PastAts
<1>2. Placed(o)
  BY <1>1, AtWork
<1> QED BY <1>1, <1>2 DEF Stages, Placed, Control

\* And what one finds that has its session.
LEMMA RepublishFinds ==
    ASSUME WindowTypes, Control, Stages, NEW o \in DOMAIN ops, ops[o].at = "ensure",
           NEW w, w = ops[o].session, sessions[w].at = "ready"
    PROVE  /\ o \in Working /\ World /\ window.open /\ window.session = w /\ window.starting = 0
           /\ w # 0 /\ w \in DOMAIN sessions
           /\ Rest(w, sessions[w].published, view.published)
           /\ EnsureStage(ops[o].victim, sessions[w].published, ops[o].kind)
<1>1. o \in Working /\ \A r \in Working : r = o
  BY AtWork DEF Working
<1>2. /\ window.open /\ w \in DOMAIN sessions
      /\ \/ w \in {window.session, window.starting}
         \/ sessions[w].at = "failed"
  BY <1>1, AtWork DEF Placed
<1>3. w # window.starting /\ w # 0
  BY <1>2, TypeFacts DEF Control, Settled
<1>4. window.session = w /\ window.starting = 0
  BY <1>2, <1>3 DEF Control
<1>5. AtRest
  BY <1>1, <1>4 DEF AtRest
<1> QED BY <1>1, <1>2, <1>3, <1>4, <1>5 DEF Stages

\* The rest stays one when nothing changes but what the view shows.
LEMMA RestStands ==
    ASSUME World, UNCHANGED <<procs, sup, seat>>, Grows, window'.open = window.open,
           NEW w, w # 0, NEW b, NEW x, Rest(w, b, x)
    PROVE  Rest(w, b, b)'
<1>1. /\ \A n : Clear(n)' <=> Clear(n)
      /\ \A v : Awaits(v)' <=> Awaits(v)
      /\ TunnelUp' <=> TunnelUp
      /\ \A y, states : RoomIn(y, states)' <=> RoomIn(y, states)
      /\ \A h : Hosted(h)' <=> Hosted(h)
  BY Standing
<1>2. SeatOk(w) => SeatOk(w)'
  BY Calmer
<1> QED BY <1>1, <1>2, Calmer DEF Rest, Shared, Housed

LEMMA RepublishKeeps ==
    ASSUME Known, WindowInv, NEW o \in DOMAIN ops, Republish(o)
    PROVE  WindowInv'
<1>1. PICK w, k, b, p : /\ w = ops[o].session /\ k = ops[o].kind
                        /\ b = sessions[w].published /\ p = sup["tunnel"]
  OBVIOUS
<1>2. /\ k \in {"share", "unshare"} /\ ops[o].at = "ensure" /\ sessions[w].at = "ready"
      /\ UNCHANGED <<window, seat, gestures>>
  BY <1>1 DEF Republish, ShareOp, Port
<1>3. \/ /\ k = "share" /\ Goto(o, At("login"))
         /\ view' = [published |-> b, busy |-> TRUE]
         /\ UNCHANGED <<procs, sup, sessions, happened>>
      \/ /\ k = "share" /\ Upset("tool") /\ Goto(o, At("done"))
         /\ UNCHANGED <<procs, sup, sessions>> /\ Finish(o)
      \/ /\ k # "share" /\ Stop("tunnel") /\ Goto(o, AfterKill(sup["tunnel"], "untunnel", "room"))
         /\ view' = [published |-> b, busy |-> TRUE]
         /\ UNCHANGED <<sessions, happened>>
  BY <1>1 DEF Republish, Sharing, Port
<1>4. /\ WindowTypes /\ Table /\ happened \in SUBSET Kinds /\ sessions \in Seq(Session)
      /\ w \in DOMAIN sessions /\ w \in Nat /\ sessions[w] \in Session /\ seat \in SeatState
  BY <1>1, <1>2, TypeFacts DEF WindowInv, WindowTypes, Known
<1>5. b \in BOOLEAN /\ [published |-> b, busy |-> TRUE] \in ViewState
  <2>1. b \in BOOLEAN
    BY <1>1, <1>4 DEF Session
  <2> QED BY <2>1 DEF ViewState
<1>6. ASSUME Calm({"overlap"})', Grows
      PROVE  /\ Control /\ Stages /\ o \in Working /\ World /\ window.open /\ window.session = w
             /\ window.starting = 0 /\ w # 0 /\ Rest(w, b, view.published)
             /\ EnsureStage(ops[o].victim, b, k)
  <2>1. Control /\ Stages
    BY <1>6, Calmer DEF WindowInv
  <2> QED BY <1>1, <1>2, <1>4, <2>1, RepublishFinds
<1>7. CASE /\ k = "share" /\ Goto(o, At("login")) /\ view' = [published |-> b, busy |-> TRUE]
           /\ UNCHANGED <<procs, sup, sessions, happened>>
  <2>1. ops' \in Seq(Command) /\ Moved(ops, ops', o, "login", 0)
    <3>1. "login" \in CommandAts
      BY DEF CommandAts, PastAts
    <3> QED BY <1>4, <1>7, <3>1, GoesTo
  <2>2. Grows /\ Table'
    BY <1>4, <1>7 DEF Grows, Table
  <2>3. WindowTypes'
    BY <1>2, <1>4, <1>5, <1>7, <2>1, <2>2, TypesKept
  <2>4. ASSUME Calm({"overlap"})'
        PROVE  (Control /\ Stages)'
    <3>1. /\ Control /\ Stages /\ o \in Working /\ World /\ window.open /\ window.session = w
          /\ window.starting = 0 /\ w # 0 /\ Rest(w, b, view.published)
          /\ EnsureStage(ops[o].victim, b, k)
      BY <1>6, <2>2, <2>4
    <3>2. /\ World' /\ \A n : Clear(n)' <=> Clear(n)
          /\ \A v : Awaits(v)' <=> Awaits(v)
          /\ \A y, states : RoomIn(y, states)' <=> RoomIn(y, states)
      BY <1>2, <1>7, <2>2, <3>1, Standing
    <3>3. SeatOk(w) => SeatOk(w)'
      BY <1>2, <2>2, Calmer
    <3>4. ShareStage(0, b, k, "login", w)'
      BY <1>7, <2>2, <3>1, <3>2, <3>3, Calmer DEF ShareStage, EnsureStage, Rest, Housed
    <3>5. SameAts(sessions, sessions') /\ b = sessions'[w].published /\ "login" \in PastAts
      BY <1>1, <1>7 DEF SameAts, PastAts
    <3> QED BY <1>1, <1>2, <2>1, <3>1, <3>2, <3>4, <3>5, ShareGoesOn
  <2> QED BY <2>3, <2>4 DEF WindowInv
<1>8. CASE /\ k = "share" /\ Upset("tool") /\ Goto(o, At("done"))
           /\ UNCHANGED <<procs, sup, sessions>> /\ Finish(o)
  <2>1. ops' \in Seq(Command) /\ Moved(ops, ops', o, "done", 0)
    <3>1. "done" \in CommandAts
      BY DEF CommandAts
    <3> QED BY <1>4, <1>8, <3>1, GoesTo
  <2>2. Grows /\ Table'
    BY <1>4, <1>8, Upsetting DEF Table
  <2>3. view' \in ViewState /\ view'.published = b
    BY <1>1, <1>4, <1>8, Finishing
  <2>4. WindowTypes'
    BY <1>2, <1>4, <1>8, <2>1, <2>2, <2>3, TypesKept
  <2>5. ASSUME Calm({"overlap"})'
        PROVE  (Control /\ Stages)'
    <3>1. /\ Control /\ Stages /\ o \in Working /\ World /\ window.open /\ window.session = w
          /\ window.starting = 0 /\ w # 0 /\ Rest(w, b, view.published)
      BY <1>6, <2>2, <2>5
    <3>2. World'
      BY <1>2, <1>8, <2>2, <3>1, Standing
    <3>3. Rest(w, b, b)'
      BY <1>2, <1>8, <2>2, <3>1, RestStands
    <3>4. SameAts(sessions, sessions') /\ b = sessions'[w].published
      BY <1>1, <1>8 DEF SameAts
    <3> QED BY <1>2, <2>1, <2>3, <3>1, <3>2, <3>3, <3>4, WorkEnds
  <2> QED BY <2>4, <2>5 DEF WindowInv
<1>9. CASE /\ k # "share" /\ Stop("tunnel")
           /\ Goto(o, AfterKill(sup["tunnel"], "untunnel", "room"))
           /\ view' = [published |-> b, busy |-> TRUE] /\ UNCHANGED <<sessions, happened>>
  <2>1. /\ Table' /\ ops' \in Seq(Command) /\ p \in Nat
        /\ p = 0 => UNCHANGED <<procs, sup>> /\ Moved(ops, ops', o, "room", 0)
        /\ p # 0 => Kill("tunnel") /\ Moved(ops, ops', o, "untunnel", p)
    <3>1. "untunnel" \in CommandAts /\ "room" \in CommandAts /\ "tunnel" \in Names
      BY DEF CommandAts, PastAts, Names
    <3> QED BY <1>1, <1>4, <1>9, <3>1, StopsProcess
  <2>2. Grows
    BY <1>4, <1>9 DEF Grows
  <2>3. WindowTypes'
    BY <1>2, <1>4, <1>5, <1>9, <2>1, <2>2, TypesKept
  <2>4. ASSUME Calm({"overlap"})'
        PROVE  (Control /\ Stages)'
    <3>1. /\ Control /\ Stages /\ o \in Working /\ World /\ window.open /\ window.session = w
          /\ window.starting = 0 /\ w # 0 /\ Rest(w, b, view.published) /\ k = "unshare"
      BY <1>2, <1>6, <1>9, <2>2, <2>4
    <3>2. SeatOk(w) => SeatOk(w)'
      BY <1>2, <2>2, Calmer
    <3>3. /\ SameAts(sessions, sessions') /\ b = sessions'[w].published
          /\ "room" \in PastAts /\ "untunnel" \in PastAts
      BY <1>1, <1>9 DEF SameAts, PastAts
    <3>4. CASE p = 0
      <4>1. /\ World' /\ \A n : Clear(n)' <=> Clear(n)
            /\ \A v : Awaits(v)' <=> Awaits(v)
            /\ \A y, states : RoomIn(y, states)' <=> RoomIn(y, states)
        BY <1>2, <2>1, <2>2, <3>1, <3>4, Standing
      <4>2. Clear("tunnel")
        BY <1>1, <3>4 DEF Clear
      <4>3. ShareStage(0, b, k, "room", w)'
        BY <2>2, <3>1, <3>2, <4>1, <4>2, Calmer DEF ShareStage, Rest, Housed
      <4> QED BY <1>1, <1>2, <2>1, <3>1, <3>3, <3>4, <4>1, <4>3, ShareGoesOn
    <3>5. CASE p # 0
      <4>1. /\ World' /\ Clear("tunnel")'
            /\ Awaits(0) => Awaits(p)'
            /\ \A y, states : RoomIn(y, states) => RoomIn(y, states)'
        BY <1>1, <1>2, <1>4, <2>1, <2>2, <3>1, <3>5, KillingKeeps DEF Names
      <4>2. ShareStage(p, b, k, "untunnel", w)'
        BY <2>2, <3>1, <3>2, <4>1, Calmer DEF ShareStage, Rest, Housed
      <4> QED BY <1>1, <1>2, <2>1, <3>1, <3>3, <3>5, <4>1, <4>2, ShareGoesOn
    <3> QED BY <3>4, <3>5
  <2> QED BY <2>3, <2>4 DEF WindowInv
<1> QED BY <1>3, <1>7, <1>8, <1>9

LEMMA LoginKeeps ==
    ASSUME Known, WindowInv, NEW o \in DOMAIN ops, Login(o)
    PROVE  WindowInv'
<1>1. PICK w, k, b, p : /\ w = ops[o].session /\ k = ops[o].kind
                        /\ b = sessions[w].published /\ p = sup["tunnel"]
  OBVIOUS
<1>2. /\ k \in {"share", "unshare"} /\ ops[o].at = "login" /\ ops[o].at \in PastAts
      /\ UNCHANGED <<window, seat, gestures>>
  BY <1>1 DEF Login, ShareOp, PastAts
<1>3. \/ /\ Start("tunnel", w, "public")
         /\ Goto(o, AfterKill(Predecessor("tunnel"), "retunnel", "url"))
         /\ UNCHANGED <<sessions, view, happened>>
      \/ /\ Upset("tool") /\ Goto(o, At("done"))
         /\ UNCHANGED <<procs, sup, sessions>> /\ Finish(o)
  BY <1>1 DEF Login, Port
<1>4. /\ WindowTypes /\ Table /\ happened \in SUBSET Kinds /\ sessions \in Seq(Session)
      /\ w \in DOMAIN sessions /\ w \in Nat /\ seat \in SeatState /\ view \in ViewState
  BY <1>1, <1>2, TypeFacts DEF WindowInv, WindowTypes, Known
<1>5. ASSUME Calm({"overlap"})', Grows
      PROVE  /\ Control /\ Stages /\ o \in Working /\ World /\ window.open /\ window.session = w
             /\ window.starting = 0 /\ w # 0
             /\ ShareStage(ops[o].victim, b, k, "login", w)
  <2>1. Control /\ Stages
    BY <1>5, Calmer DEF WindowInv
  <2> QED BY <1>1, <1>2, <1>4, <2>1, ShareFinds
<1>6. CASE /\ Start("tunnel", w, "public")
           /\ Goto(o, AfterKill(Predecessor("tunnel"), "retunnel", "url"))
           /\ UNCHANGED <<sessions, view, happened>>
  <2>1. /\ Table' /\ ops' \in Seq(Command) /\ p \in Nat
        /\ p = 0 => Spawn("tunnel", w, "public") /\ Moved(ops, ops', o, "url", 0)
        /\ p # 0 => Kill("tunnel") /\ Moved(ops, ops', o, "retunnel", p)
    <3>1. "retunnel" \in CommandAts /\ "url" \in CommandAts /\ "tunnel" \in Names
      BY DEF CommandAts, PastAts, Names
    <3> QED BY <1>1, <1>4, <1>6, <3>1, StartsProcess
  <2>2. Grows
    BY <1>4, <1>6 DEF Grows
  <2>3. WindowTypes'
    BY <1>2, <1>4, <1>6, <2>1, <2>2, TypesKept
  <2>4. ASSUME Calm({"overlap"})'
        PROVE  (Control /\ Stages)'
    <3>1. /\ Control /\ Stages /\ o \in Working /\ World /\ window.open /\ window.session = w
          /\ window.starting = 0 /\ w # 0
          /\ ShareStage(ops[o].victim, b, k, "login", w) /\ k = "share"
      BY <1>5, <2>2, <2>4 DEF ShareStage
    <3>2. SeatOk(w) => SeatOk(w)'
      BY <1>2, <2>2, Calmer
    <3>3. /\ SameAts(sessions, sessions') /\ b = sessions'[w].published
          /\ "url" \in PastAts /\ "retunnel" \in PastAts
      BY <1>1, <1>6 DEF SameAts, PastAts
    <3>4. CASE p = 0
      <4>1. /\ World' /\ \A v : Awaits(v) => Awaits(v)'
            /\ \A y, states : RoomIn(y, states) => RoomIn(y, states)'
        BY <1>1, <1>2, <1>4, <2>1, <2>2, <3>1, <3>4, SpawningKeeps DEF Names, Clear
      <4>2. ShareStage(0, b, k, "url", w)'
        BY <2>2, <3>1, <3>2, <4>1, Calmer DEF ShareStage, Housed
      <4> QED BY <1>1, <1>2, <2>1, <3>1, <3>3, <3>4, <4>1, <4>2, ShareGoesOn
    <3>5. CASE p # 0
      <4>1. /\ World' /\ Clear("tunnel")'
            /\ Awaits(0) => Awaits(p)'
            /\ \A y, states : RoomIn(y, states) => RoomIn(y, states)'
        BY <1>1, <1>2, <1>4, <2>1, <2>2, <3>1, <3>5, KillingKeeps DEF Names
      <4>2. ShareStage(p, b, k, "retunnel", w)'
        BY <2>2, <3>1, <3>2, <4>1, Calmer DEF ShareStage, Housed
      <4> QED BY <1>1, <1>2, <2>1, <3>1, <3>3, <3>5, <4>1, <4>2, ShareGoesOn
    <3> QED BY <3>4, <3>5
  <2> QED BY <2>3, <2>4 DEF WindowInv
<1>7. CASE /\ Upset("tool") /\ Goto(o, At("done"))
           /\ UNCHANGED <<procs, sup, sessions>> /\ Finish(o)
  <2>1. ops' \in Seq(Command) /\ Moved(ops, ops', o, "done", 0)
    <3>1. "done" \in CommandAts
      BY DEF CommandAts
    <3> QED BY <1>4, <1>7, <3>1, GoesTo
  <2>2. Grows /\ Table'
    BY <1>4, <1>7, Upsetting DEF Table
  <2>3. view' \in ViewState /\ view'.published = b
    BY <1>1, <1>4, <1>7, Finishing
  <2>4. WindowTypes'
    BY <1>2, <1>4, <1>7, <2>1, <2>2, <2>3, TypesKept
  <2>5. ASSUME Calm({"overlap"})'
        PROVE  (Control /\ Stages)'
    <3>1. /\ Control /\ Stages /\ o \in Working /\ World /\ window.open /\ window.session = w
          /\ window.starting = 0 /\ w # 0
          /\ ShareStage(ops[o].victim, b, k, "login", w)
      BY <1>5, <2>2, <2>5
    <3>2. World'
      BY <1>2, <1>7, <2>2, <3>1, Standing
    <3>3. Rest(w, b, b)
      BY <3>1 DEF ShareStage, Rest
    <3>4. Rest(w, b, b)'
      BY <1>2, <1>7, <2>2, <3>1, <3>3, RestStands
    <3>5. SameAts(sessions, sessions') /\ b = sessions'[w].published
      BY <1>1, <1>7 DEF SameAts
    <3> QED BY <1>2, <2>1, <2>3, <3>1, <3>2, <3>4, <3>5, WorkEnds
  <2> QED BY <2>4, <2>5 DEF WindowInv
<1> QED BY <1>3, <1>6, <1>7

LEMMA TunnelKilledKeeps ==
    ASSUME Known, WindowInv, NEW o \in DOMAIN ops, TunnelKilled(o)
    PROVE  WindowInv'
<1>1. PICK w, k, b, v : /\ w = ops[o].session /\ k = ops[o].kind
                        /\ b = sessions[w].published /\ v = ops[o].victim
  OBVIOUS
<1>2. /\ k \in {"share", "unshare"} /\ ops[o].at = "retunnel" /\ ops[o].at \in PastAts
      /\ Ended(v) /\ Spawn("tunnel", w, "public") /\ Goto(o, At("url"))
      /\ UNCHANGED <<sessions, window, view, seat, gestures>>
  BY <1>1 DEF TunnelKilled, ShareOp, PastAts, Port
<1>3. /\ WindowTypes /\ Table /\ sessions \in Seq(Session) /\ w \in DOMAIN sessions /\ w \in Nat
      /\ seat \in SeatState /\ view \in ViewState /\ Grows
      /\ Gentle' /\ Awaits(v) => Awaits(0)
  BY <1>1, <1>2, TypeFacts, Ending DEF WindowInv, WindowTypes, Known
<1>4. ops' \in Seq(Command) /\ Moved(ops, ops', o, "url", 0)
  <2>1. "url" \in CommandAts
    BY DEF CommandAts, PastAts
  <2> QED BY <1>2, <1>3, <2>1, GoesTo
<1>5. Table'
  BY <1>2, <1>3, Spawning DEF Names
<1>6. WindowTypes'
  BY <1>2, <1>3, <1>4, <1>5, TypesKept
<1>7. ASSUME Calm({"overlap"})'
      PROVE  (Control /\ Stages)'
  <2>1. Control /\ Stages
    BY <1>3, <1>7, Calmer DEF WindowInv
  <2>2. /\ o \in Working /\ World /\ window.open /\ window.session = w
        /\ window.starting = 0 /\ w # 0 /\ ShareStage(v, b, k, "retunnel", w)
    BY <1>1, <1>2, <1>3, <2>1, ShareFinds
  <2>3. SeatOk(w) => SeatOk(w)'
    BY <1>2, <1>3, Calmer
  <2>4. SameAts(sessions, sessions') /\ b = sessions'[w].published /\ "url" \in PastAts
    BY <1>1, <1>2 DEF SameAts, PastAts
  <2>5. Clear("tunnel")
    BY <2>2 DEF ShareStage
  <2>6. /\ World' /\ \A x : Awaits(x) => Awaits(x)'
        /\ \A y, states : RoomIn(y, states) => RoomIn(y, states)'
    BY <1>2, <1>3, <2>2, <2>5, SpawningKeeps DEF Names
  <2>7. ShareStage(0, b, k, "url", w)'
    BY <1>3, <2>2, <2>3, <2>6, Calmer DEF ShareStage, Housed
  <2> QED BY <1>1, <1>2, <1>4, <2>1, <2>2, <2>4, <2>6, <2>7, ShareGoesOn
<1> QED BY <1>6, <1>7 DEF WindowInv

\* The room starts again: at once, or when the end of the one there was has been seen.
LEMMA StartRoomKeeps ==
    ASSUME Known, WindowInv, NEW o \in DOMAIN ops, ops[o].at \in PastAts, StartRoom(o), Grows,
           UNCHANGED <<sessions, window, view, seat, gestures>>,
           NEW k, k = ops[o].kind, k \in {"share", "unshare"},
           NEW w, w = ops[o].session,
           Calm({"overlap"})' /\ Gentle' =>
               Awaits(0) /\ IF k = "share" THEN TunnelUp ELSE Clear("tunnel"),
           Calm({"overlap"})' /\ Smooth' => SeatOk(w)
    PROVE  WindowInv'
<1>1. PICK b, p, h : /\ b = sessions[w].published /\ p = sup["room"]
                     /\ h = IF k = "share" THEN "public" ELSE "local"
  OBVIOUS
<1>2. Start("room", w, h) /\ Goto(o, AfterKill(Predecessor("room"), "reroom", "up"))
  BY <1>1 DEF StartRoom, Port, Sharing
<1>3. /\ WindowTypes /\ Table /\ sessions \in Seq(Session) /\ w \in DOMAIN sessions /\ w \in Nat
      /\ seat \in SeatState /\ view \in ViewState /\ h \in {"local", "public"}
  BY <1>1, TypeFacts DEF WindowInv, WindowTypes, Known
<1>4. /\ Table' /\ ops' \in Seq(Command) /\ p \in Nat
      /\ p = 0 => Spawn("room", w, h) /\ Moved(ops, ops', o, "up", 0)
      /\ p # 0 => Kill("room") /\ Moved(ops, ops', o, "reroom", p)
  <2>1. "reroom" \in CommandAts /\ "up" \in CommandAts /\ "room" \in Names
    BY DEF CommandAts, PastAts, Names
  <2> QED BY <1>1, <1>2, <1>3, <2>1, StartsProcess
<1>5. WindowTypes'
  BY <1>3, <1>4, TypesKept
<1>6. ASSUME Calm({"overlap"})'
      PROVE  (Control /\ Stages)'
  <2>1. Control /\ Stages
    BY <1>6, Calmer DEF WindowInv
  <2>2. /\ o \in Working /\ World /\ window.open /\ window.session = w
        /\ window.starting = 0 /\ w # 0
    BY <1>3, <2>1, ShareFinds
  <2>3. SeatOk(w) => SeatOk(w)'
    BY Calmer
  <2>4. /\ SameAts(sessions, sessions') /\ b = sessions'[w].published
        /\ "up" \in PastAts /\ "reroom" \in PastAts
    BY <1>1 DEF SameAts, PastAts
  <2>5. CASE p = 0
    <3>1. /\ World' /\ (Clear("tunnel")' <=> Clear("tunnel"))
          /\ \A x : Awaits(x) => Awaits(x)'
          /\ TunnelUp => TunnelUp'
          /\ Coming(w)' /\ Hosted(h)'
      BY <1>1, <1>3, <1>4, <2>2, <2>5, SpawningKeeps DEF Names, Clear
    <3>2. ShareStage(0, b, k, "up", w)'
      BY <1>1, <1>6, <2>3, <3>1, Calmer DEF ShareStage
    <3> QED BY <1>4, <2>1, <2>2, <2>4, <2>5, <3>1, <3>2, ShareGoesOn
  <2>6. CASE p # 0
    <3>1. /\ World' /\ Clear("room")' /\ (Clear("tunnel")' <=> Clear("tunnel"))
          /\ Awaits(0) => Awaits(p)'
          /\ TunnelUp => TunnelUp'
      BY <1>1, <1>3, <1>4, <2>2, <2>6, KillingKeeps DEF Names
    <3>2. ShareStage(p, b, k, "reroom", w)'
      BY <1>6, <2>3, <3>1, Calmer DEF ShareStage
    <3> QED BY <1>4, <2>1, <2>2, <2>4, <2>6, <3>1, <3>2, ShareGoesOn
  <2> QED BY <2>5, <2>6
<1> QED BY <1>5, <1>6 DEF WindowInv

LEMMA HasUrlKeeps ==
    ASSUME Known, WindowInv, NEW o \in DOMAIN ops, HasUrl(o)
    PROVE  WindowInv'
<1>1. PICK w, k : w = ops[o].session /\ k = ops[o].kind
  OBVIOUS
<1>2. /\ k \in {"share", "unshare"} /\ ops[o].at = "url" /\ ops[o].at \in PastAts
      /\ sup["tunnel"] # 0 /\ procs[sup["tunnel"]].state = "up" /\ StartRoom(o)
      /\ UNCHANGED <<sessions, window, view, seat, gestures, happened>>
  BY <1>1 DEF HasUrl, ShareOp, PastAts
<1>3. WindowTypes /\ Grows
  BY <1>2, TypeFacts DEF WindowInv, Grows
<1>4. ASSUME Calm({"overlap"})'
      PROVE  /\ Gentle' => Awaits(0) /\ IF k = "share" THEN TunnelUp ELSE Clear("tunnel")
             /\ Smooth' => SeatOk(w)
  <2>1. Control /\ Stages
    BY <1>3, <1>4, Calmer DEF WindowInv
  <2>2. ShareStage(ops[o].victim, sessions[w].published, k, "url", w)
    BY <1>1, <1>2, <1>3, <2>1, ShareFinds
  <2> QED BY <1>2, <1>3, <2>2, Calmer DEF ShareStage, TunnelUp
<1> QED BY <1>1, <1>2, <1>3, <1>4, StartRoomKeeps

LEMMA UntunneledKeeps ==
    ASSUME Known, WindowInv, NEW o \in DOMAIN ops, Untunneled(o)
    PROVE  WindowInv'
<1>1. PICK w, k, v, a : /\ w = ops[o].session /\ k = ops[o].kind /\ v = ops[o].victim
                        /\ a = ops[o].at
  OBVIOUS
<1>2. /\ k \in {"share", "unshare"} /\ a \in {"untunnel", "room"} /\ a \in PastAts
      /\ a = "untunnel" => Ended(v)
      /\ a = "room" => UNCHANGED happened
      /\ StartRoom(o) /\ UNCHANGED <<sessions, window, view, seat, gestures>>
  BY <1>1 DEF Untunneled, ShareOp, PastAts
<1>3. /\ WindowTypes /\ Grows
      /\ a = "untunnel" /\ Gentle' /\ Awaits(v) => Awaits(0)
  BY <1>2, TypeFacts, Ending DEF WindowInv, Grows
<1>4. ASSUME Calm({"overlap"})'
      PROVE  /\ Gentle' => Awaits(0) /\ IF k = "share" THEN TunnelUp ELSE Clear("tunnel")
             /\ Smooth' => SeatOk(w)
  <2>1. Control /\ Stages
    BY <1>3, <1>4, Calmer DEF WindowInv
  <2>2. ShareStage(v, sessions[w].published, k, a, w)
    BY <1>1, <1>2, <1>3, <2>1, ShareFinds
  <2> QED BY <1>2, <1>3, <2>2, Calmer DEF ShareStage
<1> QED BY <1>1, <1>2, <1>3, <1>4, StartRoomKeeps

LEMMA NoUrlKeeps ==
    ASSUME Known, WindowInv, NEW o \in DOMAIN ops, NoUrl(o)
    PROVE  WindowInv'
<1>1. PICK w, k, b, p : /\ w = ops[o].session /\ k = ops[o].kind
                        /\ b = sessions[w].published /\ p = sup["tunnel"]
  OBVIOUS
<1>2. /\ k \in {"share", "unshare"} /\ ops[o].at = "url" /\ ops[o].at \in PastAts
      /\ Stop("tunnel") /\ Goto(o, AfterKill(sup["tunnel"], "nourl", "nourl"))
      /\ UNCHANGED <<sessions, window, view, seat, gestures>>
      /\ Upset("slow") \/ UNCHANGED happened
  BY <1>1 DEF NoUrl, ShareOp, PastAts
<1>3. /\ WindowTypes /\ Table /\ sessions \in Seq(Session) /\ w \in DOMAIN sessions /\ w \in Nat
      /\ seat \in SeatState /\ view \in ViewState /\ happened \in SUBSET Kinds
  BY <1>1, <1>2, TypeFacts DEF WindowInv, WindowTypes, Known
<1>4. Grows
  BY <1>2, <1>3, Upsetting DEF Grows
<1>5. /\ Table' /\ ops' \in Seq(Command) /\ p \in Nat
      /\ p = 0 => UNCHANGED <<procs, sup>> /\ Moved(ops, ops', o, "nourl", 0)
      /\ p # 0 => Kill("tunnel") /\ Moved(ops, ops', o, "nourl", p)
  <2>1. "nourl" \in CommandAts /\ "tunnel" \in Names
    BY DEF CommandAts, PastAts, Names
  <2> QED BY <1>1, <1>2, <1>3, <2>1, StopsProcess
<1>6. WindowTypes'
  BY <1>2, <1>3, <1>4, <1>5, TypesKept
<1>7. ASSUME Calm({"overlap"})'
      PROVE  (Control /\ Stages)'
  <2>1. Control /\ Stages
    BY <1>4, <1>7, Calmer DEF WindowInv
  <2>2. /\ o \in Working /\ World /\ window.open /\ window.session = w
        /\ window.starting = 0 /\ w # 0 /\ ShareStage(ops[o].victim, b, k, "url", w)
    BY <1>1, <1>2, <1>3, <2>1, ShareFinds
  <2>3. SeatOk(w) => SeatOk(w)'
    BY <1>2, <1>4, Calmer
  <2>4. SameAts(sessions, sessions') /\ b = sessions'[w].published /\ "nourl" \in PastAts
    BY <1>1, <1>2 DEF SameAts, PastAts
  <2>5. CASE p = 0
    <3>1. /\ World' /\ \A n : Clear(n)' <=> Clear(n)
          /\ \A v : Awaits(v)' <=> Awaits(v)
          /\ \A y, states : RoomIn(y, states)' <=> RoomIn(y, states)
      BY <1>2, <1>4, <1>5, <2>2, <2>5, Standing
    <3>2. Clear("tunnel")
      BY <1>1, <2>5 DEF Clear
    <3>3. ShareStage(0, b, k, "nourl", w)'
      BY <1>4, <2>2, <2>3, <3>1, <3>2, Calmer DEF ShareStage, Housed
    <3> QED BY <1>1, <1>2, <1>5, <2>1, <2>2, <2>4, <2>5, <3>1, <3>3, ShareGoesOn
  <2>6. CASE p # 0
    <3>1. /\ World' /\ Clear("tunnel")'
          /\ Awaits(0) => Awaits(p)'
          /\ \A y, states : RoomIn(y, states) => RoomIn(y, states)'
      BY <1>1, <1>2, <1>3, <1>4, <1>5, <2>2, <2>6, KillingKeeps DEF Names
    <3>2. ShareStage(p, b, k, "nourl", w)'
      BY <1>4, <2>2, <2>3, <3>1, Calmer DEF ShareStage, Housed
    <3> QED BY <1>1, <1>2, <1>5, <2>1, <2>2, <2>4, <2>6, <3>1, <3>2, ShareGoesOn
  <2> QED BY <2>5, <2>6
<1> QED BY <1>6, <1>7 DEF WindowInv

LEMMA NoUrlStoppedKeeps ==
    ASSUME Known, WindowInv, NEW o \in DOMAIN ops, NoUrlStopped(o)
    PROVE  WindowInv'
<1>1. PICK w, k, b, v : /\ w = ops[o].session /\ k = ops[o].kind
                        /\ b = sessions[w].published /\ v = ops[o].victim
  OBVIOUS
<1>2. /\ k \in {"share", "unshare"} /\ ops[o].at = "nourl" /\ ops[o].at \in PastAts
      /\ Ended(v) /\ UNCHANGED sessions /\ Goto(o, At("done")) /\ Finish(o)
      /\ UNCHANGED <<procs, sup, window, seat, gestures>>
  BY <1>1 DEF NoUrlStopped, ShareOp, PastAts
<1>3. /\ WindowTypes /\ Table /\ sessions \in Seq(Session) /\ w \in DOMAIN sessions
      /\ seat \in SeatState /\ Grows
      /\ Gentle' /\ Awaits(v) => Awaits(0)
  BY <1>1, <1>2, TypeFacts, Ending DEF WindowInv, WindowTypes, Known
<1>4. ops' \in Seq(Command) /\ Moved(ops, ops', o, "done", 0)
  <2>1. "done" \in CommandAts
    BY DEF CommandAts
  <2> QED BY <1>2, <1>3, <2>1, GoesTo
<1>5. view' \in ViewState /\ view'.published = b /\ Table'
  BY <1>1, <1>2, <1>3, Finishing DEF Table
<1>6. WindowTypes'
  BY <1>2, <1>3, <1>4, <1>5, TypesKept
<1>7. ASSUME Calm({"overlap"})'
      PROVE  (Control /\ Stages)'
  <2>1. Control /\ Stages
    BY <1>3, <1>7, Calmer DEF WindowInv
  <2>2. /\ o \in Working /\ World /\ window.open /\ window.session = w
        /\ window.starting = 0 /\ w # 0 /\ ShareStage(v, b, k, "nourl", w)
    BY <1>1, <1>2, <1>3, <2>1, ShareFinds
  <2>3. SeatOk(w) => SeatOk(w)'
    BY <1>2, <1>3, Calmer
  <2>4. /\ World' /\ \A n : Clear(n)' <=> Clear(n)
        /\ \A x : Awaits(x)' <=> Awaits(x)
        /\ \A y, states : RoomIn(y, states)' <=> RoomIn(y, states)
    BY <1>2, <1>3, <2>2, Standing
  <2>5. Rest(w, b, b)'
    BY <1>3, <2>2, <2>3, <2>4, Calmer DEF ShareStage, Rest, Housed
  <2>6. SameAts(sessions, sessions') /\ b = sessions'[w].published
    BY <1>1, <1>2 DEF SameAts
  <2> QED BY <1>2, <1>4, <1>5, <2>1, <2>2, <2>4, <2>5, <2>6, WorkEnds
<1> QED BY <1>6, <1>7 DEF WindowInv

LEMMA RoomKilledKeeps ==
    ASSUME Known, WindowInv, NEW o \in DOMAIN ops, RoomKilled(o)
    PROVE  WindowInv'
<1>1. PICK w, k, b, v, h : /\ w = ops[o].session /\ k = ops[o].kind
                           /\ b = sessions[w].published /\ v = ops[o].victim
                           /\ h = IF k = "share" THEN "public" ELSE "local"
  OBVIOUS
<1>2. /\ k \in {"share", "unshare"} /\ ops[o].at = "reroom" /\ ops[o].at \in PastAts
      /\ Ended(v) /\ Spawn("room", w, h) /\ Goto(o, At("up"))
      /\ UNCHANGED <<sessions, window, view, seat, gestures>>
  BY <1>1 DEF RoomKilled, ShareOp, PastAts, Port, Sharing
<1>3. /\ WindowTypes /\ Table /\ sessions \in Seq(Session) /\ w \in DOMAIN sessions /\ w \in Nat
      /\ seat \in SeatState /\ view \in ViewState /\ Grows /\ h \in {"local", "public"}
      /\ Gentle' /\ Awaits(v) => Awaits(0)
  BY <1>1, <1>2, TypeFacts, Ending DEF WindowInv, WindowTypes, Known
<1>4. ops' \in Seq(Command) /\ Moved(ops, ops', o, "up", 0)
  <2>1. "up" \in CommandAts
    BY DEF CommandAts, PastAts
  <2> QED BY <1>2, <1>3, <2>1, GoesTo
<1>5. Table'
  BY <1>2, <1>3, Spawning DEF Names
<1>6. WindowTypes'
  BY <1>2, <1>3, <1>4, <1>5, TypesKept
<1>7. ASSUME Calm({"overlap"})'
      PROVE  (Control /\ Stages)'
  <2>1. Control /\ Stages
    BY <1>3, <1>7, Calmer DEF WindowInv
  <2>2. /\ o \in Working /\ World /\ window.open /\ window.session = w
        /\ window.starting = 0 /\ w # 0 /\ ShareStage(v, b, k, "reroom", w)
    BY <1>1, <1>2, <1>3, <2>1, ShareFinds
  <2>3. SeatOk(w) => SeatOk(w)'
    BY <1>2, <1>3, Calmer
  <2>4. SameAts(sessions, sessions') /\ b = sessions'[w].published /\ "up" \in PastAts
    BY <1>1, <1>2 DEF SameAts, PastAts
  <2>5. Clear("room")
    BY <2>2 DEF ShareStage
  <2>6. /\ World' /\ (Clear("tunnel")' <=> Clear("tunnel"))
        /\ \A x : Awaits(x) => Awaits(x)'
        /\ TunnelUp => TunnelUp'
        /\ Coming(w)' /\ Hosted(h)'
    BY <1>2, <1>3, <2>2, <2>5, SpawningKeeps DEF Names
  <2>7. ShareStage(0, b, k, "up", w)'
    BY <1>1, <1>3, <2>2, <2>3, <2>6, Calmer DEF ShareStage
  <2> QED BY <1>1, <1>2, <1>4, <2>1, <2>2, <2>4, <2>6, <2>7, ShareGoesOn
<1> QED BY <1>6, <1>7 DEF WindowInv

LEMMA RoomUpKeeps ==
    ASSUME Known, WindowInv, NEW o \in DOMAIN ops, RoomUp(o)
    PROVE  WindowInv'
<1>1. PICK w, k, c : /\ w = ops[o].session /\ k = ops[o].kind /\ c = (k = "share")
  OBVIOUS
<1>2. /\ k \in {"share", "unshare"} /\ ops[o].at = "up" /\ ops[o].at \in PastAts
      /\ Serving(w) # {} /\ sessions' = [sessions EXCEPT ![w].published = c]
      /\ Goto(o, At("seat"))
      /\ UNCHANGED <<procs, sup, window, view, seat, gestures, happened>>
  BY <1>1 DEF RoomUp, ShareOp, PastAts, Port, Sharing
<1>3. /\ WindowTypes /\ Table /\ sessions \in Seq(Session) /\ w \in DOMAIN sessions
      /\ seat \in SeatState /\ view \in ViewState /\ Grows /\ c \in BOOLEAN
  BY <1>1, <1>2, TypeFacts DEF WindowInv, WindowTypes, Known, Grows
<1>4. ops' \in Seq(Command) /\ Moved(ops, ops', o, "seat", 0)
  <2>1. "seat" \in CommandAts
    BY DEF CommandAts, PastAts
  <2> QED BY <1>2, <1>3, <2>1, GoesTo
<1>5. sessions' \in Seq(Session) /\ Marked(sessions, sessions', w, c)
  BY <1>2, <1>3, SessionMarked
<1>6. Table'
  BY <1>2, <1>3 DEF Table
<1>7. WindowTypes'
  BY <1>2, <1>3, <1>4, <1>5, <1>6, TypesKept
<1>8. ASSUME Calm({"overlap"})'
      PROVE  (Control /\ Stages)'
  <2>1. Control /\ Stages
    BY <1>3, <1>8, Calmer DEF WindowInv
  <2>2. /\ o \in Working /\ World /\ window.open /\ window.session = w
        /\ window.starting = 0 /\ w # 0
        /\ ShareStage(ops[o].victim, sessions[w].published, k, "up", w)
    BY <1>1, <1>2, <1>3, <2>1, ShareFinds
  <2>3. SeatOk(w) => SeatOk(w)'
    BY <1>2, <1>3, Calmer
  <2>4. SameAts(sessions, sessions') /\ c = sessions'[w].published /\ "seat" \in PastAts
    BY <1>5 DEF SameAts, PastAts, Marked
  <2>5. Gentle => Housed(w)
    BY <1>2, <1>3, <2>2, ServedByItsRoom DEF ShareStage
  <2>6. /\ World' /\ \A n : Clear(n)' <=> Clear(n)
        /\ \A x : Awaits(x)' <=> Awaits(x)
        /\ TunnelUp' <=> TunnelUp
        /\ \A y, states : RoomIn(y, states)' <=> RoomIn(y, states)
        /\ \A h : Hosted(h)' <=> Hosted(h)
    BY <1>2, <1>3, <2>2, Standing
  <2>7. ShareStage(0, c, k, "seat", w)'
    <3>1. c = (k = "share")
      BY <1>1
    <3> QED BY <1>2, <1>3, <2>2, <2>3, <2>5, <2>6, <3>1, Calmer DEF ShareStage, Housed, Shared
  <2> QED BY <1>1, <1>2, <1>4, <2>1, <2>2, <2>4, <2>6, <2>7, ShareGoesOn
<1> QED BY <1>7, <1>8 DEF WindowInv

LEMMA RoomNotUpKeeps ==
    ASSUME Known, WindowInv, NEW o \in DOMAIN ops, RoomNotUp(o)
    PROVE  WindowInv'
<1>1. PICK w, k, b, p : /\ w = ops[o].session /\ k = ops[o].kind
                        /\ b = sessions[w].published /\ p = sup["tunnel"]
  OBVIOUS
<1>2. /\ k \in {"share", "unshare"} /\ ops[o].at = "up" /\ ops[o].at \in PastAts
      /\ Late(w) /\ NotUpStops(o)
      /\ UNCHANGED <<sessions, window, view, seat, gestures>>
  BY <1>1 DEF RoomNotUp, ShareOp, PastAts, Port
<1>3. /\ WindowTypes /\ Table /\ sessions \in Seq(Session) /\ w \in DOMAIN sessions /\ w \in Nat
      /\ seat \in SeatState /\ view \in ViewState /\ Grows
      /\ Smooth' => ~Coming(w)
  BY <1>1, <1>2, TypeFacts, BeingLate DEF WindowInv, WindowTypes, Known
<1>4. "notup" \in CommandAts /\ "tunnel" \in Names /\ "notup" \in PastAts
  BY DEF CommandAts, PastAts, Names
<1>5. ASSUME Calm({"overlap"})'
      PROVE  /\ Control /\ Stages /\ o \in Working /\ World /\ window.open /\ window.session = w
             /\ window.starting = 0 /\ w # 0 /\ ShareStage(ops[o].victim, b, k, "up", w)
             /\ ~Smooth'
  <2>1. Control /\ Stages
    BY <1>3, <1>5, Calmer DEF WindowInv
  <2>2. /\ o \in Working /\ World /\ window.open /\ window.session = w
        /\ window.starting = 0 /\ w # 0 /\ ShareStage(ops[o].victim, b, k, "up", w)
    BY <1>1, <1>2, <1>3, <2>1, ShareFinds
  <2>3. ~Smooth'
    BY <1>3, <2>2, Calmer DEF ShareStage
  <2> QED BY <2>1, <2>2, <2>3
<1>6. SameAts(sessions, sessions') /\ b = sessions'[w].published
  BY <1>1, <1>2 DEF SameAts
<1>7. CASE UNCHANGED <<procs, sup>> /\ (k = "share" => p = 0) /\ Moved(ops, ops', o, "notup", 0)
           /\ ops' \in Seq(Command)
  <2>1. Table'
    BY <1>3, <1>7 DEF Table
  <2>2. WindowTypes'
    BY <1>2, <1>3, <1>7, <2>1, TypesKept
  <2>3. ASSUME Calm({"overlap"})'
        PROVE  (Control /\ Stages)'
    <3>1. /\ World' /\ \A n : Clear(n)' <=> Clear(n)
          /\ \A x : Awaits(x)' <=> Awaits(x)
      BY <1>2, <1>3, <1>5, <1>7, <2>3, Standing
    <3>2. k = "share" => Clear("tunnel")
      BY <1>1, <1>7 DEF Clear
    <3>3. ShareStage(0, b, k, "notup", w)'
      BY <1>2, <1>3, <1>5, <2>3, <3>1, <3>2, Calmer DEF ShareStage
    <3> QED BY <1>1, <1>2, <1>4, <1>5, <1>6, <1>7, <2>3, <3>1, <3>3, ShareGoesOn
  <2> QED BY <2>2, <2>3 DEF WindowInv
<1>8. CASE /\ Kill("tunnel") /\ p # 0 /\ p \in Nat /\ Moved(ops, ops', o, "notup", p)
           /\ ops' \in Seq(Command)
  <2>1. Table'
    BY <1>3, <1>4, <1>8, Killing
  <2>2. WindowTypes'
    BY <1>2, <1>3, <1>8, <2>1, TypesKept
  <2>3. ASSUME Calm({"overlap"})'
        PROVE  (Control /\ Stages)'
    <3>1. World' /\ Clear("tunnel")' /\ (Awaits(0) => Awaits(p)')
      BY <1>1, <1>2, <1>3, <1>4, <1>5, <1>8, <2>3, KillingKeeps
    <3>2. ShareStage(p, b, k, "notup", w)'
      BY <1>2, <1>3, <1>5, <2>3, <3>1, Calmer DEF ShareStage
    <3> QED BY <1>1, <1>2, <1>4, <1>5, <1>6, <1>8, <2>3, <3>1, <3>2, ShareGoesOn
  <2> QED BY <2>2, <2>3 DEF WindowInv
<1>9. CASE k = "share"
  <2>1. Stop("tunnel") /\ Goto(o, AfterKill(sup["tunnel"], "notup", "notup"))
    BY <1>1, <1>2, <1>9 DEF NotUpStops, Sharing
  <2>2. /\ Table' /\ ops' \in Seq(Command) /\ p \in Nat
        /\ p = 0 => UNCHANGED <<procs, sup>> /\ Moved(ops, ops', o, "notup", 0)
        /\ p # 0 => Kill("tunnel") /\ Moved(ops, ops', o, "notup", p)
    BY <1>1, <1>3, <1>4, <2>1, StopsProcess
  <2> QED BY <1>7, <1>8, <2>2
<1>10. CASE k # "share"
  <2>1. UNCHANGED <<procs, sup>> /\ Goto(o, At("notup"))
    BY <1>1, <1>2, <1>10 DEF NotUpStops, Sharing
  <2>2. ops' \in Seq(Command) /\ Moved(ops, ops', o, "notup", 0)
    BY <1>3, <1>4, <2>1, GoesTo
  <2> QED BY <1>7, <1>10, <2>1, <2>2
<1> QED BY <1>9, <1>10

LEMMA FailedKeeps ==
    ASSUME Known, WindowInv, NEW o \in DOMAIN ops, Failed(o)
    PROVE  WindowInv'
<1>1. PICK w, k, v : w = ops[o].session /\ k = ops[o].kind /\ v = ops[o].victim
  OBVIOUS
<1>2. /\ k \in {"share", "unshare"} /\ ops[o].at = "notup" /\ ops[o].at \in PastAts
      /\ Ended(v) /\ sessions' = [sessions EXCEPT ![w].published = FALSE]
      /\ Goto(o, At("done")) /\ Finish(o) /\ UNCHANGED <<procs, sup, window, seat, gestures>>
  BY <1>1 DEF Failed, ShareOp, PastAts, Port
<1>3. /\ WindowTypes /\ Table /\ sessions \in Seq(Session) /\ w \in DOMAIN sessions
      /\ seat \in SeatState /\ Grows
      /\ Gentle' /\ Awaits(v) => Awaits(0)
  BY <1>1, <1>2, TypeFacts, Ending DEF WindowInv, WindowTypes, Known
<1>4. ops' \in Seq(Command) /\ Moved(ops, ops', o, "done", 0)
  <2>1. "done" \in CommandAts
    BY DEF CommandAts
  <2> QED BY <1>2, <1>3, <2>1, GoesTo
<1>5. sessions' \in Seq(Session) /\ Marked(sessions, sessions', w, FALSE)
  BY <1>2, <1>3, SessionMarked
<1>6. view' \in ViewState /\ view'.published = FALSE /\ Table'
  <2>1. w \in DOMAIN sessions' /\ sessions'[w].published = FALSE
    BY <1>3, <1>5 DEF Marked
  <2> QED BY <1>1, <1>2, <1>3, <1>5, <2>1, Finishing DEF Table
<1>7. WindowTypes'
  BY <1>2, <1>3, <1>4, <1>5, <1>6, TypesKept
<1>8. ASSUME Calm({"overlap"})'
      PROVE  (Control /\ Stages)'
  <2>1. Control /\ Stages
    BY <1>3, <1>8, Calmer DEF WindowInv
  <2>2. /\ o \in Working /\ World /\ window.open /\ window.session = w
        /\ window.starting = 0 /\ w # 0 /\ ShareStage(v, sessions[w].published, k, "notup", w)
    BY <1>1, <1>2, <1>3, <2>1, ShareFinds
  <2>3. /\ World' /\ \A n : Clear(n)' <=> Clear(n)
        /\ \A x : Awaits(x)' <=> Awaits(x)
    BY <1>2, <1>3, <2>2, Standing
  <2>4. Rest(w, FALSE, FALSE)'
    BY <1>3, <2>2, <2>3, Calmer DEF ShareStage, Rest
  <2>5. SameAts(sessions, sessions') /\ FALSE = sessions'[w].published
    BY <1>5 DEF SameAts, Marked
  <2> QED BY <1>2, <1>4, <1>6, <2>1, <2>2, <2>3, <2>4, <2>5, WorkEnds
<1> QED BY <1>7, <1>8 DEF WindowInv

\* The seat, again: what follows a room that is back.
LEMMA ReseatKeeps ==
    ASSUME Known, WindowInv, NEW o \in DOMAIN ops, NEW at \in {"seat", "add"},
           ops[o].at = at, NEW k \in {"share", "unshare"}, k = ops[o].kind,
           NEW w, w = ops[o].session,
           NEW a \in {"add", "done"}, Reseat(o, a), Grows, seat' \in SeatState,
           UNCHANGED <<procs, sup, window, gestures>>,
           Smooth' /\ SeatOk(w) /\ Housed(w) => SeatOk(w)'
    PROVE  WindowInv'
<1>1. PICK b, v : b = sessions[w].published /\ v = ops[o].victim
  OBVIOUS
<1>2. /\ ops[o].at \in PastAts /\ UNCHANGED sessions /\ Goto(o, At(a))
      /\ a = "done" => Finish(o)
      /\ a # "done" => UNCHANGED view
  BY DEF PastAts, Reseat
<1>3. /\ WindowTypes /\ Table /\ sessions \in Seq(Session) /\ view \in ViewState
      /\ w \in DOMAIN sessions
  BY TypeFacts DEF WindowInv, WindowTypes, Known
<1>4. ops' \in Seq(Command) /\ Moved(ops, ops', o, a, 0)
  <2>1. a \in CommandAts
    BY DEF CommandAts, PastAts
  <2> QED BY <1>2, <1>3, <2>1, GoesTo
<1>5. view' \in ViewState /\ (a = "done" => view'.published = b) /\ Table'
  <2>1. a = "done" => view' \in ViewState /\ view'.published = b
    BY <1>1, <1>2, <1>3, Finishing
  <2>2. a # "done" => view' \in ViewState
    BY <1>2, <1>3
  <2> QED BY <1>3, <2>1, <2>2 DEF Table
<1>6. WindowTypes'
  BY <1>2, <1>3, <1>4, <1>5, TypesKept
<1>7. ASSUME Calm({"overlap"})'
      PROVE  (Control /\ Stages)'
  <2>1. Control /\ Stages
    BY <1>7, Calmer DEF WindowInv
  <2>2. /\ o \in Working /\ World /\ window.open /\ window.session = w
        /\ window.starting = 0 /\ w # 0 /\ ShareStage(v, b, k, at, w)
    BY <1>1, <1>2, <1>3, <2>1, ShareFinds
  <2>3. /\ World' /\ \A n : Clear(n)' <=> Clear(n)
        /\ \A x : Awaits(x)' <=> Awaits(x)
        /\ TunnelUp' <=> TunnelUp
        /\ \A y, states : RoomIn(y, states)' <=> RoomIn(y, states)
        /\ \A h : Hosted(h)' <=> Hosted(h)
    BY <2>2, Standing
  <2>4. SameAts(sessions, sessions') /\ b = sessions'[w].published
    BY <1>1, <1>2 DEF SameAts
  <2>5. v = 0 /\ (Smooth' => Housed(w) /\ SeatOk(w)')
    BY <2>2, Calmer DEF ShareStage
  <2>6. /\ Gentle' => /\ Awaits(0) /\ b = (k = "share")
                      /\ IF k = "share" THEN Shared(w) ELSE Clear("tunnel")
    BY <2>2, <2>5, Calmer DEF ShareStage
  <2>7. (Shared(w)' <=> Shared(w)) /\ (Housed(w)' <=> Housed(w))
    BY <2>3 DEF Shared, Housed
  <2>8. CASE a = "add"
    <3>1. ShareStage(0, b, k, "add", w)'
      BY <2>3, <2>5, <2>6, <2>7 DEF ShareStage, Shared
    <3>2. "add" \in PastAts
      BY DEF PastAts
    <3> QED BY <1>4, <2>1, <2>2, <2>3, <2>4, <2>8, <3>1, <3>2, ShareGoesOn
  <2>9. CASE a = "done"
    <3>1. Rest(w, b, b)'
      BY <2>2, <2>3, <2>5, <2>6, <2>7 DEF Rest
    <3> QED BY <1>4, <1>5, <2>1, <2>2, <2>3, <2>4, <2>9, <3>1, WorkEnds
  <2> QED BY <2>8, <2>9
<1> QED BY <1>6, <1>7 DEF WindowInv

LEMMA SeatAgainKeeps ==
    ASSUME Known, WindowInv, NEW o \in DOMAIN ops, SeatAgain(o)
    PROVE  WindowInv'
<1>1. PICK w, k : w = ops[o].session /\ k = ops[o].kind
  OBVIOUS
<1>2. PICK adding \in BOOLEAN :
        EnsureSeat(w, adding) /\ Reseat(o, IF adding THEN "add" ELSE "done")
  BY <1>1 DEF SeatAgain, Port
<1>3. PICK a : a = IF adding THEN "add" ELSE "done"
  OBVIOUS
<1>4. /\ k \in {"share", "unshare"} /\ ops[o].at = "seat"
      /\ UNCHANGED <<procs, sup, window, gestures>>
  BY <1>1 DEF SeatAgain, ShareOp
<1>5. WindowTypes /\ Table /\ w \in DOMAIN sessions /\ w \in Nat
  BY <1>1, <1>4, TypeFacts DEF WindowInv, Known
<1>6. /\ seat' \in SeatState /\ Grows
      /\ adding => seat' = seat
      /\ ~adding /\ Serving(w) # {} => SeatOk(w)'
  BY <1>2, <1>5, Seating
<1>7. SeatOk(w) /\ Housed(w) => SeatOk(w)'
  BY <1>5, <1>6, HousedServes, Calmer
<1>8. a \in {"add", "done"} /\ Reseat(o, a)
  BY <1>2, <1>3
<1> QED BY <1>1, <1>4, <1>6, <1>7, <1>8, ReseatKeeps

LEMMA AddedAgainKeeps ==
    ASSUME Known, WindowInv, NEW o \in DOMAIN ops, AddedAgain(o)
    PROVE  WindowInv'
<1>1. PICK w, k : w = ops[o].session /\ k = ops[o].kind
  OBVIOUS
<1>2. /\ k \in {"share", "unshare"} /\ ops[o].at = "add" /\ AddSeat(w) /\ Reseat(o, "done")
      /\ UNCHANGED <<procs, sup, window, gestures, happened>>
  BY <1>1 DEF AddedAgain, ShareOp, Port
<1>3. WindowTypes /\ Table /\ w \in DOMAIN sessions /\ w \in Nat /\ Grows
  BY <1>1, <1>2, TypeFacts DEF WindowInv, Known, Grows
<1>4. /\ seat' \in SeatState
      /\ seat.seated => seat' = seat
      /\ ~seat.seated /\ Serving(w) # {} => SeatOk(w)'
  BY <1>2, <1>3, AddingSeat
<1>5. SeatOk(w) /\ Housed(w) => SeatOk(w)'
  BY <1>3, <1>4, HousedServes, Calmer
<1> QED BY <1>1, <1>2, <1>3, <1>4, <1>5, ReseatKeeps

----------------------------------------------------------------------------
(* What is named is there.                                                  *)

\* A command that goes on, but not to await the end of a process of a stop.
Onward(o) == \E c : Goto(o, c) /\ c.at # "stopped"

LEMMA Goes ==
    ASSUME NEW o, NEW a, a # "stopped"
    PROVE  /\ Goto(o, At(a)) => Onward(o)
           /\ \A p, k : k # "stopped" /\ Goto(o, AfterKill(p, k, a)) => Onward(o)
<1>1. At(a).at # "stopped"
  BY DEF At
<1>2. \A p, k : k # "stopped" => AfterKill(p, k, a).at # "stopped"
  BY DEF AfterKill, At
<1> QED BY <1>1, <1>2 DEF Onward

LEMMA KnownStays ==
    ASSUME WindowTypes, Known, DOMAIN sessions \subseteq DOMAIN sessions',
           window'.session \in {0, window.session} \cup DOMAIN sessions',
           window'.starting \in {0, window.starting} \cup DOMAIN sessions',
           ops' = ops \/ \E o \in DOMAIN ops : Onward(o)
    PROVE  Known'
<1>1. /\ window'.session # 0 => window'.session \in DOMAIN sessions'
      /\ window'.starting # 0 => window'.starting \in DOMAIN sessions'
  BY DEF Known
<1>2. CASE ops' = ops
  BY <1>1, <1>2 DEF Known
<1>3. CASE \E o \in DOMAIN ops : Onward(o)
  <2>1. PICK o \in DOMAIN ops : Onward(o)
    BY <1>3
  <2>2. PICK c : Goto(o, c) /\ c.at # "stopped"
    BY <2>1 DEF Onward
  <2>3. \A r \in DOMAIN ops : ops[r] \in Command
    BY TypeFacts
  <2>4. PICK a, v : a = c.at /\ v = c.victim
    OBVIOUS
  <2>5. a # "stopped" /\ ops' = [ops EXCEPT ![o].at = a, ![o].victim = v]
    BY <2>2, <2>4 DEF Goto
  <2>6. /\ DOMAIN ops' = DOMAIN ops
        /\ \A r \in DOMAIN ops : r # o => ops'[r] = ops[r]
        /\ ops'[o] = [ops[o] EXCEPT !.at = a, !.victim = v]
    <3>1. ops \in Seq(Command)
      BY DEF WindowTypes
    <3> QED BY <2>5, <3>1
  <2>7. /\ ops'[o].at = a /\ ops'[o].kind = ops[o].kind
        /\ ops'[o].session = ops[o].session
    BY <2>3, <2>6 DEF Command
  <2>8. \A r \in DOMAIN ops' :
          /\ ops'[r].kind \in {"share", "unshare"} => ops'[r].session \in DOMAIN sessions'
          /\ ops'[r].at = "stopped" => ops'[r].names # <<>>
    BY <2>5, <2>6, <2>7 DEF Known
  <2> QED BY <1>1, <2>8 DEF Known
<1> QED BY <1>2, <1>3

LEMMA StartKnows ==
    ASSUME WindowTypes, Known, NEW s \in DOMAIN sessions, StartStep(s)
    PROVE  Known'
<1>1. ops' = ops
  BY DEF StartStep, Pick, PickKilled, Booted, GiveUp, GaveUp, Seat, Added
<1>2. sessions \in Seq(Session) /\ window \in [session : Nat, starting : Nat, open : BOOLEAN]
  BY DEF WindowTypes
<1>3. \A c : SessionGoto(s, c) => DOMAIN sessions' = DOMAIN sessions
  BY <1>2 DEF SessionGoto
<1>4. \A a : Ready(s, a) => /\ DOMAIN sessions' = DOMAIN sessions
                            /\ window'.session \in {window.session, s}
                            /\ window'.starting \in {0, window.starting}
  BY <1>2 DEF Ready
<1>5. CASE Pick(s) \/ PickKilled(s) \/ Booted(s)
  <2>1. UNCHANGED window /\ DOMAIN sessions' = DOMAIN sessions
    BY <1>2, <1>3, <1>5 DEF Pick, PickKilled, Booted
  <2> QED BY <1>1, <2>1, KnownStays
<1>6. CASE GiveUp(s) \/ GaveUp(s)
  <2>1. DOMAIN sessions' = DOMAIN sessions
    BY <1>3, <1>6 DEF GiveUp, GaveUp
  <2>2. window'.session = window.session /\ window'.starting \in {0, window.starting}
    BY <1>2, <1>6 DEF GiveUp, GaveUp
  <2> QED BY <1>1, <2>1, <2>2, KnownStays
<1>7. CASE Seat(s) \/ Added(s)
  <2>1. PICK a : Ready(s, a)
    BY <1>7 DEF Seat, Added
  <2> QED BY <1>1, <1>4, <2>1, KnownStays
<1> QED BY <1>5, <1>6, <1>7 DEF StartStep

LEMMA ShareKnows ==
    ASSUME WindowTypes, Known, NEW o \in DOMAIN ops, ShareStep(o)
    PROVE  Known'
<1>1. sessions \in Seq(Session)
  BY DEF WindowTypes
<1>2. UNCHANGED window /\ DOMAIN sessions' = DOMAIN sessions
  BY <1>1 DEF ShareStep, Republish, NoSession, Login, TunnelKilled, HasUrl, NoUrl, NoUrlStopped,
              Untunneled, RoomKilled, RoomUp, RoomNotUp, Failed, SeatAgain, AddedAgain, Reseat
<1>3. Onward(o)
  <2>1. CASE Republish(o) \/ NoSession(o) \/ Login(o) \/ TunnelKilled(o)
    BY <2>1, Goes DEF Republish, NoSession, Login, TunnelKilled
  <2>2. CASE HasUrl(o) \/ NoUrl(o) \/ NoUrlStopped(o) \/ Untunneled(o)
    BY <2>2, Goes DEF HasUrl, NoUrl, NoUrlStopped, Untunneled, StartRoom
  <2>3. CASE RoomKilled(o) \/ RoomUp(o) \/ RoomNotUp(o) \/ Failed(o)
    BY <2>3, Goes DEF RoomKilled, RoomUp, RoomNotUp, NotUpStops, Failed
  <2>4. CASE SeatAgain(o) \/ AddedAgain(o)
    <3>1. PICK a \in {"add", "done"} : Reseat(o, a)
      BY <2>4 DEF SeatAgain, AddedAgain
    <3> QED BY <3>1, Goes DEF Reseat
  <2> QED BY <2>1, <2>2, <2>3, <2>4 DEF ShareStep
<1> QED BY <1>2, <1>3, KnownStays

LEMMA OpKnows ==
    ASSUME WindowTypes, Known, NEW o \in DOMAIN ops, DOMAIN sessions \subseteq DOMAIN sessions',
           window'.session \in {0, window.session}, window'.starting \in {0, window.starting} \cup DOMAIN sessions',
           DOMAIN ops' = DOMAIN ops, \A r \in DOMAIN ops : r # o => ops'[r] = ops[r],
           ops'[o].kind = ops[o].kind,
           ops[o].kind \in {"share", "unshare"} => ops'[o].session = ops[o].session,
           ops'[o].at = "stopped" => ops'[o].names # <<>>
    PROVE  Known'
BY DEF Known

LEMMA StopKnows ==
    ASSUME WindowTypes, Known, NEW o \in DOMAIN ops, StopStep(o)
    PROVE  Known'
<1>1. /\ sessions \in Seq(Session) /\ ops \in Seq(Command) /\ ops[o] \in Command
      /\ window \in [session : Nat, starting : Nat, open : BOOLEAN]
      /\ \A r \in DOMAIN ops : ops[r] \in Command
  BY TypeFacts DEF WindowTypes
<1>2. CASE StopNext(o)
  <2>1. PICK v : v = sup[Head(ops[o].names)]
    OBVIOUS
  <2>2. /\ ops[o].names # <<>> /\ UNCHANGED <<sessions, window>>
        /\ ops' = [ops EXCEPT ![o].at = "stopped", ![o].victim = v]
    BY <1>2, <2>1 DEF StopNext
  <2>3. /\ DOMAIN ops' = DOMAIN ops /\ \A r \in DOMAIN ops : r # o => ops'[r] = ops[r]
        /\ ops'[o] = [ops[o] EXCEPT !.at = "stopped", !.victim = v]
    BY <1>1, <2>2
  <2>4. /\ ops'[o].kind = ops[o].kind /\ ops'[o].session = ops[o].session
        /\ ops'[o].names = ops[o].names
    BY <1>1, <2>3 DEF Command
  <2> QED BY <2>2, <2>3, <2>4, OpKnows
<1>3. CASE StopNextEnded(o)
  <2>1. PICK ns : ns = Tail(ops[o].names)
    OBVIOUS
  <2>2. /\ ops' = [ops EXCEPT ![o].at = "stopping", ![o].victim = 0, ![o].names = ns]
        /\ UNCHANGED <<sessions, window>>
    BY <1>1, <1>3, <2>1 DEF StopNextEnded
  <2>3. /\ DOMAIN ops' = DOMAIN ops /\ \A r \in DOMAIN ops : r # o => ops'[r] = ops[r]
        /\ ops'[o] = [ops[o] EXCEPT !.at = "stopping", !.victim = 0, !.names = ns]
    BY <1>1, <2>2
  <2>4. /\ ops'[o].kind = ops[o].kind /\ ops'[o].session = ops[o].session
        /\ ops'[o].at # "stopped"
    BY <1>1, <2>3 DEF Command
  <2> QED BY <2>2, <2>3, <2>4, OpKnows
<1>4. CASE RestartEnsures(o)
  <2>1. PICK x : x = Asked
    OBVIOUS
  <2>2. /\ ops[o].kind = "restart" /\ EnsureSession
        /\ ops' = [ops EXCEPT ![o].at = "ensure", ![o].session = x]
    BY <1>4, <2>1 DEF RestartEnsures
  <2>3. /\ DOMAIN sessions \subseteq DOMAIN sessions' /\ window'.session = window.session
        /\ window'.starting # 0 => window'.starting \in DOMAIN sessions'
    BY <2>2, Ensuring
  <2>4. /\ DOMAIN ops' = DOMAIN ops /\ \A r \in DOMAIN ops : r # o => ops'[r] = ops[r]
        /\ ops'[o] = [ops[o] EXCEPT !.at = "ensure", !.session = x]
    BY <1>1, <2>2
  <2>5. ops'[o].kind = ops[o].kind /\ ops'[o].at # "stopped"
    BY <1>1, <2>4 DEF Command
  <2> QED BY <2>2, <2>3, <2>4, <2>5, OpKnows
<1>5. CASE Restarted(o)
  <2>1. Onward(o) /\ UNCHANGED <<sessions, window>>
    BY <1>5, Goes DEF Restarted
  <2> QED BY <2>1, KnownStays
<1>6. CASE Closed(o)
  <2>1. /\ ops' = [p \in DOMAIN ops |-> [ops[p] EXCEPT !.at = "done"]]
        /\ window' = [session |-> 0, starting |-> 0, open |-> FALSE]
        /\ sessions' = [s \in DOMAIN sessions |-> Unsubscribed(sessions[s])]
    BY <1>6 DEF Closed
  <2>2. ASSUME NEW r \in DOMAIN ops
        PROVE  /\ ops'[r].at = "done" /\ ops'[r].kind = ops[r].kind
               /\ ops'[r].session = ops[r].session
    <3>1. ops'[r] = [ops[r] EXCEPT !.at = "done"]
      BY <2>1
    <3> QED BY <1>1, <3>1 DEF Command
  <2> QED BY <2>1, <2>2 DEF Known
<1> QED BY <1>2, <1>3, <1>4, <1>5, <1>6 DEF StopStep

\* A command more.
LEMMA NewKnows ==
    ASSUME WindowTypes, Known, DOMAIN sessions \subseteq DOMAIN sessions',
           window'.session # 0 => window'.session \in DOMAIN sessions',
           window'.starting # 0 => window'.starting \in DOMAIN sessions',
           NEW c \in Command, ops' = Append(ops, c), c.at # "stopped",
           c.kind \in {"share", "unshare"} => c.session \in DOMAIN sessions'
    PROVE  Known'
<1>1. /\ DOMAIN ops = 1..Len(ops) /\ DOMAIN ops' = 1..(Len(ops) + 1) /\ Len(ops) \in Nat
      /\ \A r \in 1..Len(ops) : ops'[r] = ops[r]
      /\ ops'[Len(ops) + 1] = c
  <2>1. ops \in Seq(Command)
    BY DEF WindowTypes
  <2> HIDE DEF Command
  <2> QED BY <2>1, AtEnd
<1>2. ASSUME NEW r \in DOMAIN ops'
      PROVE  /\ ops'[r].kind \in {"share", "unshare"} => ops'[r].session \in DOMAIN sessions'
             /\ ops'[r].at = "stopped" => ops'[r].names # <<>>
  <2>1. CASE r = Len(ops) + 1
    BY <1>1, <2>1
  <2>2. CASE r # Len(ops) + 1
    BY <1>1, <1>2, <2>2 DEF Known
  <2> QED BY <2>1, <2>2
<1> QED BY <1>2 DEF Known

LEMMA PersonKnows ==
    ASSUME WindowTypes, Known, Person
    PROVE  Known'
<1>1. /\ sessions \in Seq(Session) /\ ops \in Seq(Command)
      /\ window \in [session : Nat, starting : Nat, open : BOOLEAN]
  BY DEF WindowTypes
<1>2. EnsureSession =>
        /\ DOMAIN sessions \subseteq DOMAIN sessions' /\ window'.session = window.session
        /\ window'.starting # 0 => window'.starting \in DOMAIN sessions'
        /\ Asked \in Nat /\ Asked \in DOMAIN sessions'
  BY Ensuring
<1>3. CASE Reveal
  <2>1. EnsureSession /\ ops' = ops
    BY <1>3 DEF Reveal
  <2> QED BY <1>2, <2>1, KnownStays
<1>4. CASE ClickPublish
  <2>1. PICK k, x : k = (IF view.published THEN "unshare" ELSE "share") /\ x = Asked
    OBVIOUS
  <2>2. EnsureSession /\ ops' = Append(ops, NewOp(k, x))
    BY <1>4, <2>1 DEF ClickPublish
  <2>3. PICK c : c = NewOp(k, x)
    OBVIOUS
  <2>4. c \in Command /\ c.at # "stopped" /\ c.session = x
    <3>1. <<>> \in Seq(Names)
      BY EmptySeq
    <3> QED BY <1>2, <2>1, <2>2, <2>3, <3>1 DEF NewOp, Command, CommandAts
  <2>5. window'.session # 0 => window'.session \in DOMAIN sessions'
    BY <1>2, <2>2 DEF Known
  <2> QED BY <1>2, <2>1, <2>2, <2>3, <2>4, <2>5, NewKnows
<1>5. ASSUME NEW kind \in {"restart", "close"}, StopAll(kind)
      PROVE  Known'
  <2>1. PICK c : c = [NewOp(kind, 0) EXCEPT !.at = "stopping", !.names = ByOrder]
    OBVIOUS
  <2>2. /\ sessions' = StopFeed(sessions) /\ window' = [window EXCEPT !.session = 0]
        /\ ops' = Append(ops, c)
    BY <1>5, <2>1 DEF StopAll
  <2>3. c \in Command /\ c.at # "stopped" /\ c.kind = kind
    <3>1. ByOrder \in Seq(Names)
      BY TypeFacts, AllByOrder
    <3>2. <<>> \in Seq(Names)
      BY EmptySeq
    <3> QED BY <2>1, <3>1, <3>2 DEF NewOp, Command, CommandAts, StopAts
  <2>4. DOMAIN sessions' = DOMAIN sessions
    BY <1>1, <2>2, FeedStops DEF Alike
  <2>5. window'.session = 0 /\ window'.starting = window.starting
    BY <1>1, <2>2
  <2>6. window'.starting # 0 => window'.starting \in DOMAIN sessions'
    BY <2>4, <2>5 DEF Known
  <2> QED BY <2>2, <2>3, <2>4, <2>5, <2>6, NewKnows
<1> QED BY <1>3, <1>4, <1>5 DEF Person, Restart, Deactivate

LEMMA ProcessKnows ==
    ASSUME WindowTypes, Known, NEW p \in DOMAIN procs, Up(p) \/ Die(p) \/ Crash(p)
    PROVE  Known'
<1>1. UNCHANGED <<window, ops>> /\ sessions \in Seq(Session)
  BY DEF Up, Die, Crash, WindowTypes
<1>2. DOMAIN sessions' = DOMAIN sessions
  <2>1. CASE Up(p) \/ Die(p)
    BY <2>1 DEF Up, Die
  <2>2. CASE Crash(p)
    <3>1. PICK ss : ss = [s \in DOMAIN sessions |-> Dropped(sessions[s], p)]
      OBVIOUS
    <3>2. sessions' \in {ss, StopFeed(ss)}
      BY <2>2, <3>1 DEF Crash
    <3>3. DOMAIN StopFeed(ss) = DOMAIN ss /\ DOMAIN ss = DOMAIN sessions
      BY <3>1 DEF StopFeed
    <3> QED BY <3>2, <3>3
  <2> QED BY <2>1, <2>2
<1> QED BY <1>1, <1>2, KnownStays

----------------------------------------------------------------------------
(* The invariant, and what it says with nothing at work.                    *)

LEMMA WindowStarts ==
    ASSUME Init
    PROVE  Known /\ WindowInv
<1>1. /\ procs = <<>> /\ sup = [n \in Names |-> 0] /\ sessions = <<>> /\ ops = <<>>
      /\ window = [session |-> 0, starting |-> 0, open |-> TRUE]
      /\ view = [published |-> FALSE, busy |-> FALSE]
      /\ seat = [seated |-> FALSE, file |-> 0] /\ gestures = 0 /\ happened = {}
  BY DEF Init
<1>2. DOMAIN procs = {} /\ DOMAIN sessions = {} /\ DOMAIN ops = {} /\ Len(procs) = 0
  BY <1>1
<1>3. \A S : <<>> \in Seq(S)
  BY EmptySeq
<1>4. Known
  BY <1>1, <1>2 DEF Known
<1>5. WindowTypes
  <2>1. Table
    <3>1. sup \in [Names -> 0..0] /\ \A n \in Names : sup[n] = 0
      BY <1>1
    <3> QED BY <1>1, <1>2, <1>3, <3>1 DEF Table
  <2> QED BY <1>1, <1>3, <2>1 DEF WindowTypes, ViewState, SeatState
<1>6. Working = {}
  BY <1>2 DEF Working
<1>7. Control
  BY <1>1, <1>2, <1>6 DEF Control
<1>8. Stages
  <2>1. World
    BY <1>1, <1>2 DEF World
  <2>2. ASSUME NEW b, NEW x
        PROVE  Rest(0, b, x)
    BY <1>1, <1>2 DEF Rest, Awaits, Clear, Names
  <2> QED BY <1>1, <1>6, <2>1, <2>2 DEF Stages
<1> QED BY <1>4, <1>5, <1>7, <1>8 DEF WindowInv

LEMMA WindowStands ==
    ASSUME Known, WindowInv, UNCHANGED vars
    PROVE  (Known /\ WindowInv)'
<1>1. UNCHANGED <<procs, sup, sessions, window, ops, view, seat, gestures, happened>>
  BY DEF vars
<1>2. Known'
  BY <1>1 DEF Known
<1>3. WindowTypes'
  BY <1>1 DEF WindowInv, WindowTypes, Table
<1>4. Working' = Working /\ (Calm({"overlap"})' <=> Calm({"overlap"}))
  BY <1>1 DEF Working, Calm
<1>5. Control => Control'
  BY <1>1, <1>4 DEF Control, Settled, Placed
<1>6. Stages => Stages'
  <2>1. Grows
    BY <1>1, TypeFacts DEF WindowInv, Grows
  <2>2. World => /\ World' /\ \A n : Clear(n)' <=> Clear(n)
                 /\ \A v : Awaits(v)' <=> Awaits(v)
                 /\ TunnelUp' <=> TunnelUp
                 /\ \A w, states : RoomIn(w, states)' <=> RoomIn(w, states)
                 /\ \A h : Hosted(h)' <=> Hosted(h)
    BY <1>1, <2>1, Standing
  <2>3. \A w : SeatOk(w)' <=> SeatOk(w)
    BY <1>1 DEF SeatOk
  <2>4. (Gentle' <=> Gentle) /\ (Smooth' <=> Smooth)
    BY <1>1 DEF Gentle, Smooth, Calm
  <2>5. World => \A w : /\ Shared(w)' <=> Shared(w)
                        /\ Housed(w)' <=> Housed(w)
                        /\ Coming(w)' <=> Coming(w)
    BY <2>2 DEF Shared, Housed, Coming
  <2>6. ASSUME World, NEW w, NEW b, NEW x, Rest(w, b, x)
        PROVE  Rest(w, b, x)'
    BY <2>2, <2>3, <2>4, <2>5, <2>6 DEF Rest
  <2>7. ASSUME World, NEW v, NEW b, NEW a, NEW s, StartStage(v, b, a, s)
        PROVE  StartStage(v, b, a, s)'
    BY <1>1, <2>2, <2>4, <2>5, <2>7 DEF StartStage
  <2>8. ASSUME World, NEW v, NEW b, NEW k, NEW a, NEW w, ShareStage(v, b, k, a, w)
        PROVE  ShareStage(v, b, k, a, w)'
    BY <2>2, <2>3, <2>4, <2>5, <2>8 DEF ShareStage
  <2>9. ASSUME World, NEW v, NEW ns, NEW a, StopStage(v, ns, a)
        PROVE  StopStage(v, ns, a)'
    BY <2>2, <2>4, <2>9 DEF StopStage
  <2>10. ASSUME NEW v, NEW b, NEW k, EnsureStage(v, b, k)
         PROVE  EnsureStage(v, b, k)'
    BY <2>4, <2>10 DEF EnsureStage
  <2> QED BY <1>1, <1>4, <2>2, <2>6, <2>7, <2>8, <2>9, <2>10 DEF Stages, AtRest
<1> QED BY <1>2, <1>3, <1>4, <1>5, <1>6 DEF WindowInv

LEMMA WindowSteps ==
    ASSUME Known, WindowInv, Next
    PROVE  (Known /\ WindowInv)'
<1>1. WindowTypes
  BY DEF WindowInv
<1>2. ASSUME NEW s \in DOMAIN sessions, StartStep(s)
      PROVE  (Known /\ WindowInv)'
  <2>1. Known'
    BY <1>1, <1>2, StartKnows
  <2>2. WindowInv'
    BY <1>2, PickKeeps, PickKilledKeeps, BootedKeeps, GiveUpKeeps, GaveUpKeeps, SeatKeeps,
       AddedKeeps DEF StartStep
  <2> QED BY <2>1, <2>2
<1>3. ASSUME NEW s \in DOMAIN sessions, Connect(s)
      PROVE  (Known /\ WindowInv)'
  <2>1. UNCHANGED <<window, ops>> /\ DOMAIN sessions' = DOMAIN sessions
    BY <1>1, <1>3 DEF Connect, WindowTypes
  <2>2. Known'
    BY <1>1, <2>1, KnownStays
  <2> QED BY <1>3, <2>2, ConnectKeeps
<1>4. ASSUME NEW o \in DOMAIN ops, ShareStep(o)
      PROVE  (Known /\ WindowInv)'
  <2>1. Known'
    BY <1>1, <1>4, ShareKnows
  <2>2. NoSession(o) => WindowInv'
    BY RestartedKeeps
  <2>3. WindowInv'
    BY <1>4, <2>2, RepublishKeeps, LoginKeeps, TunnelKilledKeeps, HasUrlKeeps, NoUrlKeeps,
       NoUrlStoppedKeeps, UntunneledKeeps, RoomKilledKeeps, RoomUpKeeps, RoomNotUpKeeps,
       FailedKeeps, SeatAgainKeeps, AddedAgainKeeps DEF ShareStep
  <2> QED BY <2>1, <2>3
<1>5. ASSUME NEW o \in DOMAIN ops, StopStep(o)
      PROVE  (Known /\ WindowInv)'
  <2>1. Known'
    BY <1>1, <1>5, StopKnows
  <2>2. WindowInv'
    BY <1>5, StopNextKeeps, StopNextEndedKeeps, RestartEnsuresKeeps, RestartedKeeps, ClosedKeeps
       DEF StopStep
  <2> QED BY <2>1, <2>2
<1>6. ASSUME Person
      PROVE  (Known /\ WindowInv)'
  <2>1. Known'
    BY <1>1, <1>6, PersonKnows
  <2>2. WindowInv'
    BY <1>6, RevealKeeps, ClickPublishKeeps, StopAllKeeps DEF Person, Restart, Deactivate
  <2> QED BY <2>1, <2>2
<1>7. ASSUME NEW p \in DOMAIN procs, Up(p) \/ Die(p) \/ Crash(p)
      PROVE  (Known /\ WindowInv)'
  <2>1. Known'
    BY <1>1, <1>7, ProcessKnows
  <2>2. WindowInv'
    BY <1>7, UpKeeps, DieKeeps, CrashKeeps
  <2> QED BY <2>1, <2>2
<1> QED BY <1>2, <1>3, <1>4, <1>5, <1>6, <1>7 DEF Next, HostStep

\* The invariant: as long as no command is given on top of another, one thing is at
\* work at a time, and each await finds the processes that the code before it left.
THEOREM WindowInductive == Spec => [](Known /\ WindowInv)
<1>1. Init => Known /\ WindowInv
  BY WindowStarts
<1>2. (Known /\ WindowInv) /\ [Next]_vars => (Known /\ WindowInv)'
  BY WindowSteps, WindowStands
<1> QED BY <1>1, <1>2, PTL DEF Spec

LEMMA IdleRests ==
    ASSUME WindowInv, Idle, Calm({"overlap"})
    PROVE  /\ Table /\ Control /\ World /\ view \in ViewState
           /\ Rest(window.session, sessions[window.session].published, view.published)
<1>1. WindowTypes /\ Control /\ Stages
  BY DEF WindowInv
<1>2. AtRest
  BY DEF AtRest, Idle
<1> QED BY <1>1, <1>2 DEF Stages, WindowTypes

\* Both views, a retry, a restart and every publishing leave the window's session
\* with a room of its own, supervised and on its port, and a seat file that names it.
THEOREM EverySessionHasRoom == Spec => []SessionHasRoom
<1>1. Known /\ WindowInv => SessionHasRoom
  <2> SUFFICES ASSUME WindowInv, Idle, window.session # 0,
                      Calm({"overlap", "crash", "slow", "linger"})
               PROVE  /\ sup["room"] \in Serving(window.session) /\ Alive(sup["room"])
                      /\ seat = [seated |-> TRUE, file |-> window.session] \/ "refuse" \in happened
    BY DEF SessionHasRoom
  <2>1. Smooth /\ Calm({"overlap"})
    BY DEF Smooth, Calm
  <2>2. Table /\ Rest(window.session, sessions[window.session].published, view.published)
    BY <2>1, IdleRests
  <2>3. Housed(window.session) /\ SeatOk(window.session)
    BY <2>1, <2>2 DEF Rest
  <2> QED BY <2>2, <2>3, HousedServes DEF SeatOk
<1> QED BY <1>1, WindowInductive, PTL

\* Whatever runs is in the supervisor's table, so Restart Services and the window's
\* end stop it: a process is never spawned over one that has its name.
THEOREM NothingIsOrphaned == Spec => []NoOrphans
<1>1. Known /\ WindowInv => NoOrphans
  <2> SUFFICES ASSUME WindowInv, Idle, Calm({"overlap"}), NEW p \in DOMAIN procs, Alive(p)
               PROVE  window.open /\ sup[procs[p].name] = p
    BY DEF NoOrphans
  <2>1. Table /\ World
    BY IdleRests
  <2>2. sup[procs[p].name] = p /\ p # 0 /\ procs[p].name \in Names
    BY <2>1, TableFacts DEF World, Process
  <2>3. window.open
    BY <2>1, <2>2 DEF World, Clear
  <2> QED BY <2>2, <2>3
<1> QED BY <1>1, WindowInductive, PTL

\* The view never says "published" of a room without a tunnel or on loopback, nor
\* "local only" while a tunnel runs: a publishing undoes what it had begun.
THEOREM SharingAlwaysTold == Spec => []SharingIsTold
<1>1. Known /\ WindowInv => SharingIsTold
  <2> SUFFICES ASSUME WindowInv, Idle, window.session # 0, Calm({"overlap", "crash", "linger"})
               PROVE  /\ view.published = sessions[window.session].published
                      /\ IF view.published
                         THEN /\ procs[sup["tunnel"]].state = "up"
                              /\ \E p \in Serving(window.session) :
                                   p = sup["room"] /\ procs[p].host = "public"
                         ELSE \A p \in DOMAIN procs : procs[p].name = "tunnel" => ~Alive(p)
    BY DEF SharingIsTold
  <2>1. Gentle /\ Calm({"overlap"})
    BY DEF Gentle, Calm
  <2>2. PICK w, b : w = window.session /\ b = sessions[w].published
    OBVIOUS
  <2>3. Table /\ World /\ Rest(w, b, view.published)
    BY <2>1, <2>2, IdleRests
  <2>4. view.published = b /\ IF b THEN Shared(w) ELSE Clear("tunnel")
    BY <2>1, <2>2, <2>3 DEF Rest
  <2>5. CASE b
    <3>1. Shared(w)
      BY <2>4, <2>5
    <3>2. procs[sup["tunnel"]].state = "up" /\ Housed(w) /\ Hosted("public") /\ sup["room"] # 0
      BY <3>1 DEF Shared, TunnelUp, Housed, RoomIn
    <3>3. sup["room"] \in Serving(w) /\ procs[sup["room"]].host = "public"
      BY <2>3, <3>2, HousedServes DEF Hosted
    <3> QED BY <2>2, <2>4, <2>5, <3>2, <3>3
  <2>6. CASE ~b
    <3>1. sup["tunnel"] = 0
      BY <2>4, <2>6 DEF Clear
    <3>2. ASSUME NEW p \in DOMAIN procs, procs[p].name = "tunnel", Alive(p)
          PROVE  FALSE
      BY <2>3, <3>1, <3>2, TableFacts DEF World
    <3> QED BY <2>2, <2>4, <2>6, <3>2
  <2>7. b \in BOOLEAN
    <3>1. view \in ViewState
      BY <2>1, IdleRests
    <3> QED BY <2>4, <3>1 DEF ViewState
  <2> QED BY <2>5, <2>6, <2>7
<1> QED BY <1>1, WindowInductive, PTL
=============================================================================
