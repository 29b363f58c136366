----------------------------- MODULE RoomProofs -----------------------------
(***************************************************************************)
(* Proofs about Room, for any set of seats, any number of messages and any  *)
(* set of disturbances.                                                    *)
(*                                                                         *)
(* The argument is about drain(): it moves whole batches out of the queue,  *)
(* to idle destinations or to rejection (DrainSplits), and what it does to  *)
(* a queue, a set of turns and a log that fit together still fits           *)
(* (DrainKeeps). Every handler that drains first brings the three to such a *)
(* state; the others change one of them in a way that fits by itself.       *)
(***************************************************************************)
EXTENDS Room, SequenceTheorems, TLAPS

\* Accounted, for given components and messages up to n: each is in one place.
Split(n, p, f, e, r, x) ==
    /\ p \subseteq 1 .. n /\ e \subseteq 1 .. n /\ r \subseteq 1 .. n /\ x \subseteq 1 .. n
    /\ \A d \in Dests : f[d] \subseteq 1 .. n
    /\ \A m \in 1 .. n : m \in p \/ m \in e \/ m \in r \/ m \in x \/ \E d \in Dests : m \in f[d]
    /\ \A m \in 1 .. n : /\ m \in p => m \notin e /\ m \notin r /\ m \notin x
                         /\ m \in e => m \notin r /\ m \notin x
                         /\ m \in r => m \notin x
    /\ \A d \in Dests : \A m \in f[d] : m \notin p /\ m \notin e /\ m \notin r /\ m \notin x
    /\ \A d, c \in Dests : d # c => \A m \in f[d] : m \notin f[c]

Log(f, o)    == \A d \in Dests : o[d] # {} => o[d] = f[d]
Order(ms, p) == \A m \in p : \A k \in 1 .. Len(ms) :
                    m < k /\ ms[k].to = ms[m].to => k \in p

\* The shapes of what drain works on.
Shapes(ms, p, f, o) == /\ ms \in Seq([to : Dests, kind : Kinds, for : Members]) /\ Len(ms) <= MaxMsgs
                       /\ p \subseteq 1 .. Len(ms)
                       /\ f \in [Dests -> SUBSET Ids]
                       /\ o \in [Dests -> SUBSET Ids]

\* Queue, turns, log and fates, fitting together.
Fit(ms, p, f, o, e, r, x) == /\ Shapes(ms, p, f, o)
                             /\ Split(Len(ms), p, f, e, r, x)
                             /\ Log(f, o)
                             /\ Order(ms, p)

\* An open feed is of the member that holds its handle.
Side == /\ roster \in [Agents -> {"absent", "private", "delegatable"}]
        /\ holder \in [Agents -> Members] /\ seatOf \in [Agents -> Members]
        /\ feed \in [Agents -> {"offline", "online", "uncut", "ending"}]
        /\ paused \in BOOLEAN
        /\ \A h \in Agents : feed[h] = "online" => roster[h] # "absent" /\ seatOf[h] = holder[h]

Records == reports \in [Ids -> Nat] /\ AnsweredOnce

\* The inductive invariant.
IInv == /\ Side
        /\ Records
        /\ Fit(msg, pending, inflight, openTurn, ended, rejected, dropped)

\* The effect of drain: the batches of S start, those of R are rejected.
Drained(ms, p, f, o, S, R) ==
    /\ S \subseteq Dests /\ R \subseteq Dests /\ S \cap R = {}
    /\ \A d \in S \cup R : f[d] = {}
    /\ pending'  = {m \in p : DestOf(ms[m].to) \notin S \cup R}
    /\ inflight' = [d \in Dests |-> IF d \in S THEN For(ms, p, d) ELSE f[d]]
    /\ openTurn' = [d \in Dests |-> IF d \in S THEN For(ms, p, d) ELSE o[d]]
    /\ rejected' = rejected \cup {m \in p : DestOf(ms[m].to) \in R}

\* drain() moves whole batches, and only out of idle destinations.
LEMMA DrainSplits ==
    ASSUME NEW ms, NEW p, NEW f, NEW o, Drain(ms, p, f, o)
    PROVE  \E S, R \in SUBSET Dests : Drained(ms, p, f, o, S, R)
<1> DEFINE idle == Idle(ms, p, f)
           Ahead(d, e) == \E m \in For(ms, p, d) : \A k \in For(ms, p, e) : m < k
           S == {d \in idle : /\ Deliverable(d)
                              /\ \A e \in idle \ {d} : Deliverable(e) => Ahead(d, e)}
           R == {d \in idle : ~Deliverable(d) /\ \A e \in S : Ahead(d, e)}
           Batch(D) == UNION {For(ms, p, d) : d \in D}
<1>1. S \in SUBSET Dests /\ R \in SUBSET Dests /\ S \cap R = {}
  BY Zenon DEF Idle
<1>2. \A d \in S \cup R : f[d] = {}
  BY Zenon DEF Idle
<1>3. /\ pending'  = p \ Batch(S \cup R)
      /\ inflight' = [d \in Dests |-> IF d \in S THEN For(ms, p, d) ELSE f[d]]
      /\ openTurn' = [d \in Dests |-> IF d \in S THEN For(ms, p, d) ELSE o[d]]
      /\ rejected' = rejected \cup Batch(R)
  BY Zenon DEF Drain
<1> HIDE DEF S, R
<1>4. \A D : Batch(D) = {m \in p : DestOf(ms[m].to) \in D}
  BY DEF For
<1>5. Drained(ms, p, f, o, S, R)
  BY <1>1, <1>2, <1>3, <1>4 DEF Drained
<1> QED BY <1>1, <1>5

\* What fits together before drain() fits together after it.
LEMMA DrainKeeps ==
    ASSUME NEW ms, NEW p, NEW f, NEW o, NEW e, NEW x,
           Fit(ms, p, f, o, e, rejected, x),
           Drain(ms, p, f, o)
    PROVE  Fit(ms, pending', inflight', openTurn', e, rejected', x)
<1> USE DEF Fit
<1>1. PICK S \in SUBSET Dests, R \in SUBSET Dests : Drained(ms, p, f, o, S, R)
  BY DrainSplits
<1> USE <1>1
<1>2. Len(ms) \in Nat /\ \A m \in p : m \in 1 .. Len(ms) /\ ms[m].to \in Dests
  <2>1. ms \in Seq([to : Dests, kind : Kinds, for : Members]) /\ p \subseteq 1 .. Len(ms)
    BY DEF Shapes
  <2>2. \A m \in 1 .. Len(ms) : ms[m] \in [to : Dests, kind : Kinds, for : Members]
    BY <2>1, ElementOfSeq
  <2>3. Len(ms) \in Nat
    BY <2>1, LenProperties
  <2> QED BY <2>1, <2>2, <2>3
<1>3. \A m \in p : DestOf(ms[m].to) \in Dests
  BY <1>2 DEF DestOf, Dests
<1>4. Shapes(ms, pending', inflight', openTurn')
  <2>1. 1 .. Len(ms) \subseteq Ids
    BY <1>2, RoomAssumption DEF Shapes, Ids
  <2>2. \A d \in Dests : For(ms, p, d) \in SUBSET Ids
    BY <2>1 DEF Shapes, For
  <2>3. pending' \subseteq 1 .. Len(ms)
    BY DEF Shapes, Drained
  <2>4. inflight' \in [Dests -> SUBSET Ids] /\ openTurn' \in [Dests -> SUBSET Ids]
    BY <2>2 DEF Shapes, Drained
  <2> QED BY <2>3, <2>4 DEF Shapes
<1>5. Split(Len(ms), pending', inflight', e, rejected', x)
  <2>1. /\ pending' \subseteq 1 .. Len(ms) /\ rejected' \subseteq 1 .. Len(ms)
        /\ \A d \in Dests : inflight'[d] \subseteq 1 .. Len(ms)
    BY DEF Split, Drained, For
  <2>2. \A m \in 1 .. Len(ms) : \/ m \in pending' \/ m \in e \/ m \in rejected' \/ m \in x
                                \/ \E d \in Dests : m \in inflight'[d]
    <3> SUFFICES ASSUME NEW m \in 1 .. Len(ms)
                 PROVE  \/ m \in pending' \/ m \in e \/ m \in rejected' \/ m \in x
                        \/ \E d \in Dests : m \in inflight'[d]
      OBVIOUS
    <3>1. CASE m \in p
      BY <3>1, <1>3 DEF Drained, For
    <3>2. CASE m \in e \/ m \in rejected \/ m \in x
      BY <3>2 DEF Drained
    <3>3. CASE \E d \in Dests : m \in f[d]
      BY <3>3 DEF Drained
    <3> QED BY <3>1, <3>2, <3>3 DEF Split
  <2>3. \A m \in 1 .. Len(ms) : /\ m \in pending' => m \notin e /\ m \notin rejected' /\ m \notin x
                                /\ m \in e => m \notin rejected' /\ m \notin x
                                /\ m \in rejected' => m \notin x
    BY DEF Split, Drained
  <2>4. \A d \in Dests : \A m \in inflight'[d] :
            m \notin pending' /\ m \notin e /\ m \notin rejected' /\ m \notin x
    <3> SUFFICES ASSUME NEW d \in Dests, NEW m \in inflight'[d]
                 PROVE  m \notin pending' /\ m \notin e /\ m \notin rejected' /\ m \notin x
      OBVIOUS
    <3>1. CASE d \in S
      BY <3>1, <1>2 DEF Split, Drained, For
    <3>2. CASE d \notin S
      BY <3>2 DEF Split, Drained
    <3> QED BY <3>1, <3>2
  <2>5. \A d, c \in Dests : d # c => \A m \in inflight'[d] : m \notin inflight'[c]
    BY DEF Split, Drained, For
  <2> QED BY <2>1, <2>2, <2>3, <2>4, <2>5 DEF Split
<1>6. Log(inflight', openTurn')
  BY DEF Log, Drained
<1>7. Order(ms, pending')
  BY <1>2 DEF Order, Drained
<1> QED BY <1>4, <1>5, <1>6, <1>7

-----------------------------------------------------------------------------
\* Before it drains, a handler that accepts a message leaves a state that fits.
LEMMA EnqueueFits ==
    ASSUME NEW x \in Dests, NEW k \in Kinds, IInv, Submit(x, k)
    PROVE  /\ Fit(msg', pending \cup {New}, inflight, openTurn, ended, rejected, dropped)
           /\ New \in Ids /\ Len(msg') = New
           /\ Len(msg) \in Nat
<1> DEFINE r == [to |-> x, kind |-> k, for |-> IF x = Local THEN 0 ELSE holder[x]]
           p == pending \cup {New}
<1> USE DEF IInv, Fit
<1>1. msg \in Seq([to : Dests, kind : Kinds, for : Members]) /\ Len(msg) \in Nat
  BY LenProperties DEF Shapes
<1>2. r \in [to : Dests, kind : Kinds, for : Members]
  BY RoomAssumption DEF Side, Dests, Members
<1>3. msg' = Append(msg, r) /\ Len(msg) < MaxMsgs
  BY DEF Submit
<1>4. /\ msg' \in Seq([to : Dests, kind : Kinds, for : Members])
      /\ Len(msg') = Len(msg) + 1
      /\ \A m \in 1 .. Len(msg) : msg'[m] = msg[m]
  BY <1>1, <1>2, <1>3, AppendProperties
<1>5. New \in Ids /\ Len(msg') = New /\ 1 .. New = (1 .. Len(msg)) \cup {New}
  BY <1>1, <1>3, <1>4, RoomAssumption DEF New, Ids
<1>6. Shapes(msg', p, inflight, openTurn)
  <2>1. Len(msg') <= MaxMsgs
    BY <1>1, <1>3, <1>4, RoomAssumption
  <2>2. p \subseteq 1 .. Len(msg')
    BY <1>5 DEF Shapes
  <2> QED BY <1>4, <2>1, <2>2 DEF Shapes
<1>7. Split(New, p, inflight, ended, rejected, dropped)
  <2>1. New \notin 1 .. Len(msg)
    BY <1>1 DEF New
  <2> QED BY <1>5, <2>1 DEF Split
<1>8. Order(msg', p)
  <2> SUFFICES ASSUME NEW m \in p, NEW i \in 1 .. New, m < i, msg'[i].to = msg'[m].to
               PROVE  i \in p
    BY <1>5 DEF Order
  <2>1. CASE i = New
    BY <2>1
  <2>2. CASE i \in 1 .. Len(msg) /\ m \in pending
    BY <2>2, <1>4 DEF Order, Split
  <2>3. CASE i \in 1 .. Len(msg) /\ m = New
    BY <2>3, <1>1 DEF New
  <2> QED BY <1>5, <2>1, <2>2, <2>3
<1> QED BY <1>1, <1>5, <1>6, <1>7, <1>8

\* So does a destination whose turn is over, its messages ended or rejected,
\* and its log entry closed.
LEMMA TurnOverFits ==
    ASSUME NEW d \in Dests, IInv,
           NEW o \in [Dests -> SUBSET Ids], o[d] = {},
           \A c \in Dests \ {d} : o[c] = openTurn[c]
    PROVE  LET f == [inflight EXCEPT ![d] = {}]
           IN  /\ Fit(msg, pending, f, o, ended \cup inflight[d], rejected, dropped)
               /\ Fit(msg, pending, f, o, ended, rejected \cup inflight[d], dropped)
<1> DEFINE f == [inflight EXCEPT ![d] = {}]
<1> USE DEF IInv, Fit
<1>1. /\ f \in [Dests -> SUBSET Ids] /\ f[d] = {}
      /\ \A c \in Dests \ {d} : f[c] = inflight[c]
  BY DEF Shapes
<1> HIDE DEF f
<1>2. Shapes(msg, pending, f, o)
  BY <1>1 DEF Shapes
<1>3. /\ Split(Len(msg), pending, f, ended \cup inflight[d], rejected, dropped)
      /\ Split(Len(msg), pending, f, ended, rejected \cup inflight[d], dropped)
  BY <1>1 DEF Split
<1>4. Log(f, o)
  BY <1>1 DEF Log
<1> QED BY <1>2, <1>3, <1>4 DEF f

\* Taking the records of a turn keeps them answered at most once.
LEMMA ResolveKeeps ==
    ASSUME NEW turn, Records, Resolve(turn), UNCHANGED msg
    PROVE  Records'
<1> DEFINE taken  == owed \cap turn
           tested == {m \in taken : msg[m].kind = "execution"}
<1>1. /\ owed' = owed \ taken
      /\ verifying' = verifying \cup tested
      /\ reports' = [m \in Ids |-> IF m \in taken \ tested THEN reports[m] + 1 ELSE reports[m]]
  BY Zenon DEF Resolve
<1>2. tested \subseteq taken /\ taken \subseteq owed
  OBVIOUS
<1> HIDE DEF taken, tested
<1> QED BY <1>1, <1>2 DEF Records, AnsweredOnce

\* A freshly started server, whatever roster it loaded, satisfies IInv.
THEOREM InitEstablishes == Init => IInv
<1> SUFFICES ASSUME Init PROVE IInv
  OBVIOUS
<1> USE DEF Init
<1>1. Len(msg) = 0 /\ msg \in Seq([to : Dests, kind : Kinds, for : Members])
  BY EmptySeq
<1>2. Side
  <2>1. 0 \in Members
    BY RoomAssumption DEF Members
  <2> QED BY <2>1 DEF Side
<1>3. Records
  BY DEF Records, AnsweredOnce
<1>4. Fit(msg, pending, inflight, openTurn, ended, rejected, dropped)
  BY <1>1, RoomAssumption DEF Fit, Shapes, Split, Log, Order, Ids, Dests
<1> QED BY <1>2, <1>3, <1>4 DEF IInv

-----------------------------------------------------------------------------
\* Every step keeps the invariant. One step of the proof per action; under it
\* the three parts of IInv.
FitNow == Fit(msg, pending, inflight, openTurn, ended, rejected, dropped)

\* A handler that accepts a message and drains.
LEMMA AcceptKeeps ==
    ASSUME NEW x \in Dests, NEW k \in Kinds, IInv, Submit(x, k),
           Drain(msg', pending \cup {New}, inflight, openTurn),
           UNCHANGED <<ended, dropped>>
    PROVE  FitNow'
<1>1. Fit(msg', pending', inflight', openTurn', ended, rejected', dropped)
  BY EnqueueFits, DrainKeeps
<1> QED BY <1>1 DEF FitNow

\* Records survive a step that leaves them alone, even as messages arrive.
LEMMA RecordsUnchanged ==
    ASSUME IInv, UNCHANGED deleVars, \/ UNCHANGED msg
                                     \/ \E x \in Dests, k \in Kinds : Submit(x, k)
    PROVE  Records'
<1>1. CASE UNCHANGED msg
  BY <1>1 DEF IInv, Records, AnsweredOnce, deleVars
<1>2. CASE \E x \in Dests, k \in Kinds : Submit(x, k)
  <2>1. Len(msg') = Len(msg) + 1 /\ Len(msg) \in Nat
    BY <1>2, EnqueueFits DEF New
  <2> QED BY <2>1 DEF IInv, Records, AnsweredOnce, deleVars, Ids
<1> QED BY <1>1, <1>2

\* Every handler of the room, and no handler at all, keeps IInv.
THEOREM StepKeeps == IInv /\ [Next]_vars => IInv'
<1> SUFFICES ASSUME IInv, [Next]_vars PROVE IInv'
  OBVIOUS
<1> USE RoomAssumption
<1>0. Side /\ Records /\ FitNow
  BY DEF IInv, FitNow
<1>1. ASSUME NEW x \in Dests, Msg(x) PROVE IInv'
  <2>1. "chat" \in Kinds /\ Submit(x, "chat")
    BY <1>1 DEF Msg, Kinds
  <2>2. Side'
    BY <1>0, <1>1 DEF Msg, Side, seatVars
  <2>3. Records'
    BY <1>1, <2>1, RecordsUnchanged DEF Msg
  <2>4. FitNow'
    BY <1>1, <2>1, AcceptKeeps DEF Msg
  <2> QED BY <2>2, <2>3, <2>4 DEF IInv, FitNow
<1>2. ASSUME NEW x \in Dests, MsgUnsaved(x) PROVE IInv'
  <2>1. "chat" \in Kinds /\ Submit(x, "chat")
    BY <1>2 DEF MsgUnsaved, Kinds
  <2>2. Side'
    BY <1>0, <1>2 DEF MsgUnsaved, Side, seatVars
  <2>3. Records'
    BY <1>2, <2>1, RecordsUnchanged DEF MsgUnsaved
  <2>4. FitNow'
    BY <1>2, <2>1, EnqueueFits DEF MsgUnsaved, Queued, FitNow
  <2> QED BY <2>2, <2>3, <2>4 DEF IInv, FitNow
<1>3. ASSUME NEW h \in Agents, NEW k \in Kinds \ {"chat"}, Delegate(h, k) PROVE IInv'
  <2>1. h \in Dests /\ Submit(h, k)
    BY <1>3 DEF Delegate, Dests
  <2>2. New \in Ids /\ Len(msg') = New /\ Len(msg) \in Nat /\ New = Len(msg) + 1
    BY <2>1, EnqueueFits DEF New
  <2>3. Side'
    BY <1>0, <1>3 DEF Delegate, Side, seatVars
  <2>4. Records'
    BY <1>0, <1>3, <2>2 DEF Delegate, Records, AnsweredOnce, Ids
  <2>5. FitNow'
    BY <1>3, <2>1, AcceptKeeps DEF Delegate
  <2> QED BY <2>3, <2>4, <2>5 DEF IInv, FitNow
<1>4. ASSUME NEW h \in Agents, NEW k \in Kinds \ {"chat"}, DelegateUnsaved(h, k) PROVE IInv'
  <2>1. h \in Dests /\ Submit(h, k)
    BY <1>4 DEF DelegateUnsaved, Dests
  <2>2. Side'
    BY <1>0, <1>4 DEF DelegateUnsaved, Side, seatVars
  <2>3. Records'
    BY <1>4, <2>1, RecordsUnchanged DEF DelegateUnsaved
  <2>4. FitNow'
    BY <1>4, <2>1, EnqueueFits DEF DelegateUnsaved, Queued, FitNow
  <2> QED BY <2>2, <2>3, <2>4 DEF IInv, FitNow
<1>5. ASSUME NEW h \in Agents, SeatReply(h) PROVE IInv'
  <2>1. Side'
    BY <1>0, <1>5 DEF SeatReply, Side, seatVars
  <2>2. Records'
    BY <1>0, <1>5, ResolveKeeps DEF SeatReply
  <2>3. FitNow'
    BY <1>0, <1>5 DEF SeatReply, FitNow, queueVars
  <2> QED BY <2>1, <2>2, <2>3 DEF IInv, FitNow
<1>6. ASSUME NEW d \in Dests, Stop(d) PROVE IInv'
  <2> DEFINE f == [inflight EXCEPT ![d] = {}]
             o == [openTurn EXCEPT ![d] = {}]
  <2>1. Side'
    BY <1>0, <1>6 DEF Stop, Side, seatVars
  <2>2. Records'
    BY <1>6, RecordsUnchanged DEF Stop
  <2>3. /\ o \in [Dests -> SUBSET Ids] /\ o[d] = {}
        /\ \A c \in Dests \ {d} : o[c] = openTurn[c]
    BY <1>0 DEF FitNow, Fit, Shapes
  <2>4. Fit(msg, pending, f, o, ended \cup inflight[d], rejected, dropped)
    <3> HIDE DEF o
    <3> QED BY <2>3, TurnOverFits
  <2>5. Drain(msg, pending, f, o)
    BY <1>6 DEF Stop
  <2>6. Fit(msg, pending', inflight', openTurn', ended \cup inflight[d], rejected', dropped)
    <3> HIDE DEF o, f
    <3> QED BY <2>4, <2>5, DrainKeeps
  <2>7. FitNow'
    BY <1>6, <2>6 DEF FitNow, Stop
  <2> QED BY <2>1, <2>2, <2>7 DEF IInv, FitNow
<1>7. ASSUME NEW d \in Dests, StopUnsaved(d) PROVE IInv'
  <2>1. Side'
    BY <1>0, <1>7 DEF StopUnsaved, Side, seatVars
  <2>2. Records'
    BY <1>7, RecordsUnchanged DEF StopUnsaved
  <2>3. FitNow'
    BY <1>0, <1>7 DEF StopUnsaved, FitNow, Fit, Shapes, Log
  <2> QED BY <2>1, <2>2, <2>3 DEF IInv, FitNow
<1>8. ASSUME NEW m \in Ids, VerifyDone(m) PROVE IInv'
  <2>1. Side'
    BY <1>0, <1>8 DEF VerifyDone, Side, seatVars
  <2>2. Records'
    BY <1>0, <1>8 DEF VerifyDone, Records, AnsweredOnce
  <2>3. FitNow'
    BY <1>0, <1>8 DEF VerifyDone, FitNow, queueVars
  <2> QED BY <2>1, <2>2, <2>3 DEF IInv, FitNow
<1>9. ASSUME NEW h \in Agents, SeatConnect(h) PROVE IInv'
  <2>1. Side'
    BY <1>0, <1>9 DEF SeatConnect, Side, Members
  <2>2. Records'
    BY <1>9, RecordsUnchanged DEF SeatConnect
  <2>3. FitNow'
    BY <1>0, <1>9 DEF SeatConnect, FitNow, queueVars
  <2> QED BY <2>1, <2>2, <2>3 DEF IInv, FitNow
<1>10. ASSUME NEW h \in Agents, SeatClose(h) PROVE IInv'
  <2>1. Side'
    BY <1>0, <1>10 DEF SeatClose, Side, Members
  <2>2. Records'
    BY <1>0, <1>10, ResolveKeeps DEF SeatClose
  <2>3. /\ h \in Dests
        /\ openTurn' \in [Dests -> SUBSET Ids] /\ openTurn'[h] = {}
        /\ \A c \in Dests \ {h} : openTurn'[c] = openTurn[c]
    BY <1>0, <1>10 DEF SeatClose, FitNow, Fit, Shapes, Log, Dests
  <2>4. inflight' = [inflight EXCEPT ![h] = {}] /\ rejected' = rejected \cup inflight[h]
    BY <1>10 DEF SeatClose
  <2>5. Fit(msg, pending, inflight', openTurn', ended, rejected', dropped)
    BY <2>3, <2>4, TurnOverFits
  <2>6. FitNow'
    BY <1>10, <2>5 DEF FitNow, SeatClose
  <2> QED BY <2>1, <2>2, <2>6 DEF IInv, FitNow
<1>11. ASSUME NEW h \in Agents, NEW r \in {"private", "delegatable"}, Mint(h, r) PROVE IInv'
  <2>1. Side'
    BY <1>0, <1>11 DEF Mint, Side, Members
  <2>2. Records'
    BY <1>11, RecordsUnchanged DEF Mint
  <2>3. FitNow'
    BY <1>0, <1>11 DEF Mint, FitNow, queueVars
  <2> QED BY <2>1, <2>2, <2>3 DEF IInv, FitNow
<1>12. ASSUME NEW h \in Agents, Remove(h) PROVE IInv'
  <2>1. Side'
    BY <1>0, <1>12 DEF Remove, Revoke, Evict, Side
  <2>2. Records'
    BY <1>12, RecordsUnchanged DEF Remove
  <2>3. FitNow'
    BY <1>0, <1>12 DEF Remove, FitNow, queueVars
  <2> QED BY <2>1, <2>2, <2>3 DEF IInv, FitNow
<1>20. ASSUME NEW h \in Agents, RemoveUnsaved(h) PROVE IInv'
  <2>1. Side'
    BY <1>0, <1>20 DEF RemoveUnsaved, Revoke, Side
  <2>2. Records'
    BY <1>20, RecordsUnchanged DEF RemoveUnsaved
  <2>3. FitNow'
    BY <1>0, <1>20 DEF RemoveUnsaved, FitNow, queueVars
  <2> QED BY <2>1, <2>2, <2>3 DEF IInv, FitNow
<1>13. ASSUME NEW h \in Agents, Rotate(h) PROVE IInv'
  <2>1. Side'
    BY <1>0, <1>13 DEF Rotate, Evict, Side
  <2>2. Records'
    BY <1>13, RecordsUnchanged DEF Rotate
  <2>3. FitNow'
    BY <1>0, <1>13 DEF Rotate, FitNow, queueVars
  <2> QED BY <2>1, <2>2, <2>3 DEF IInv, FitNow
<1>14. ASSUME ClearQueue PROVE IInv'
  <2>1. Side'
    BY <1>0, <1>14 DEF ClearQueue, Side, seatVars
  <2>2. Records'
    BY <1>14, RecordsUnchanged DEF ClearQueue
  <2>3. FitNow'
    BY <1>0, <1>14 DEF ClearQueue, FitNow, Fit, Shapes, Split, Order
  <2> QED BY <2>1, <2>2, <2>3 DEF IInv, FitNow
<1>15. ASSUME NEW b \in BOOLEAN, Pause(b) PROVE IInv'
  <2>1. Side'
    BY <1>0, <1>15 DEF Pause, Side, seatVars
  <2>2. Records'
    BY <1>15, RecordsUnchanged DEF Pause
  <2>3. FitNow'
    BY <1>0, <1>15 DEF Pause, FitNow, queueVars
  <2> QED BY <2>1, <2>2, <2>3 DEF IInv, FitNow
<1>16. CASE UNCHANGED vars
  BY <1>0, <1>16 DEF vars, seatVars, queueVars, deleVars, IInv, FitNow, Side, Records, AnsweredOnce
<1>17. CASE Requests
  BY <1>17, <1>1, <1>2, <1>3, <1>4 DEF Requests
<1>18. CASE Answers
  BY <1>18, <1>5, <1>6, <1>7, <1>8 DEF Answers
<1>19. CASE Comings
  BY <1>19, <1>9, <1>10, <1>11, <1>12, <1>13, <1>20 DEF Comings
<1> QED BY <1>14, <1>15, <1>16, <1>17, <1>18, <1>19 DEF Next

\* IInv is an invariant of the room.
THEOREM Inductive == Spec => []IInv
<1>1. Init => IInv
  BY InitEstablishes
<1>2. IInv /\ [Next]_vars => IInv'
  BY StepKeeps
<1> QED BY <1>1, <1>2, PTL DEF Spec

-----------------------------------------------------------------------------
\* What the invariant gives.
LEMMA Implications ==
    ASSUME IInv
    PROVE  /\ TypeOK /\ Accounted /\ LogFollowsQueue
           /\ Fifo /\ AnsweredOnce
<1> USE DEF IInv, Fit
<1>1. Len(msg) \in Nat /\ 1 .. Len(msg) \subseteq Ids
  BY LenProperties, RoomAssumption DEF Shapes, Ids
<1>2. AnsweredOnce
  BY DEF Records
<1>3. TypeOK
  BY <1>1, <1>2 DEF TypeOK, Side, Records, AnsweredOnce, Shapes, Split
<1>4. Accounted
  <2>1. \A m : m \in Running <=> \E d \in Dests : m \in inflight[d]
    BY DEF Running
  <2> QED BY <2>1 DEF Accounted, Split
<1>5. LogFollowsQueue
  BY DEF LogFollowsQueue, Log
<1>6. Fifo
  BY DEF Fifo, Order
<1> QED BY <1>2, <1>3, <1>4, <1>5, <1>6

\* Type correctness.
THEOREM TypeCorrect == Spec => []TypeOK
BY Inductive, Implications, PTL

\* No accepted message is lost, duplicated or resurrected, whatever the
\* interleaving of requests, hooks, closes, removals and disk failures.
THEOREM MessagesAccounted == Spec => []Accounted
BY Inductive, Implications, PTL

\* An open turn of the log is always the turn the queue has in flight.
THEOREM LogAgrees == Spec => []LogFollowsQueue
BY Inductive, Implications, PTL

\* No message overtakes an older one to the same addressee.
THEOREM FirstComeFirstServed == Spec => []Fifo
BY Inductive, Implications, PTL

\* No delegation is reported twice.
THEOREM DelegationAnsweredOnce == Spec => []AnsweredOnce
BY Inductive, Implications, PTL

-----------------------------------------------------------------------------
\* Only a reply or a close takes a record, and each from the turn in flight.
LEMMA OnlyTakenInFlight ==
    ASSUME IInv, [Next]_vars
    PROVE  \A m \in owed \ owed' : m \in Running
<1>1. ASSUME NEW h \in Agents, owed' = owed \ (owed \cap inflight[h])
      PROVE  \A m \in owed \ owed' : m \in Running
  BY <1>1 DEF Running, Dests
<1>2. ASSUME NEW h \in Agents, Resolve(inflight[h])
      PROVE  \A m \in owed \ owed' : m \in Running
  BY <1>1, <1>2 DEF Resolve
<1>3. CASE Requests
  BY <1>3 DEF Requests, Msg, MsgUnsaved, Delegate, DelegateUnsaved, deleVars
<1>4. CASE Answers
  BY <1>4, <1>2 DEF Answers, SeatReply, Stop, StopUnsaved, VerifyDone, deleVars
<1>5. CASE Comings
  BY <1>5, <1>2 DEF Comings, SeatConnect, SeatClose, Remove, RemoveUnsaved, Rotate,
               Mint, deleVars
<1>6. CASE ClearQueue \/ (\E b \in BOOLEAN : Pause(b)) \/ UNCHANGED vars
  BY <1>6 DEF ClearQueue, Pause, vars, deleVars
<1> QED BY <1>3, <1>4, <1>5, <1>6 DEF Next

\* A reply can only answer a delegation of the turn its seat is running.
THEOREM IdentityNotPosition == Spec => TakenInFlight
<1>1. IInv /\ [Next]_vars => [\A m \in owed \ owed' : m \in Running]_vars
  BY OnlyTakenInFlight
<1> QED BY <1>1, Inductive, PTL DEF Spec, TakenInFlight

-----------------------------------------------------------------------------
\* What drain() newly hands over, from a queue of messages whose seats are as
\* the roster says.
LEMMA DrainHands ==
    ASSUME NEW ms, NEW p, NEW f, NEW o, Side,
           \A m \in p : ms[m].to \in Dests,
           Drain(ms, p, f, o), NEW d \in Dests, NEW m \in inflight'[d], m \notin f[d]
    PROVE  \/ AddresseeGone(ms[m]) /\ d = Local
           \/ ms[m].to = d /\ (d # Local /\ feed[d] = "online"
                                => AddresseeGone(ms[m]) \/ ms[m].for = seatOf[d])
<1>1. PICK S \in SUBSET Dests, R \in SUBSET Dests : Drained(ms, p, f, o, S, R)
  BY DrainSplits
<1>2. m \in p /\ DestOf(ms[m].to) = d
  BY <1>1 DEF Drained, For
<1>3. CASE ms[m].to = d
  BY <1>3, RoomAssumption DEF Side, AddresseeGone, Dests
<1>4. CASE ms[m].to # d
  BY <1>2, <1>4, RoomAssumption DEF DestOf, AddresseeGone
<1> QED BY <1>3, <1>4

\* One step hands a message to its addressee, or the addressee has gone.
LEMMA HandsAsAddressed ==
    ASSUME IInv, [Next]_vars
    PROVE  \A d \in Dests : \A m \in inflight'[d] \ inflight[d] :
              LET r == msg'[m]
              IN  \/ AddresseeGone(r) /\ d \in {Local, r.to}
                  \/ r.to = d /\ (d # Local /\ feed[d] = "online" => r.for = seatOf[d])
<1> SUFFICES ASSUME NEW d \in Dests, NEW m \in inflight'[d], m \notin inflight[d]
             PROVE  \/ AddresseeGone(msg'[m]) /\ d \in {Local, msg'[m].to}
                    \/ msg'[m].to = d /\ (d # Local /\ feed[d] = "online" => msg'[m].for = seatOf[d])
  OBVIOUS
<1>1. Side /\ Fit(msg, pending, inflight, openTurn, ended, rejected, dropped)
  BY DEF IInv
<1>2. ASSUME NEW ms, NEW p, NEW f, NEW o, NEW e,
             Fit(ms, p, f, o, e, rejected, dropped), ms = msg',
             Drain(ms, p, f, o), f[d] = inflight[d] \/ f[d] = {}
      PROVE  \/ AddresseeGone(msg'[m]) /\ d \in {Local, msg'[m].to}
             \/ msg'[m].to = d /\ (d # Local /\ feed[d] = "online" => msg'[m].for = seatOf[d])
  <2>1. \A k \in p : ms[k].to \in Dests
    <3>1. ms \in Seq([to : Dests, kind : Kinds, for : Members]) /\ p \subseteq 1 .. Len(ms)
      BY <1>2 DEF Fit, Shapes
    <3>2. \A k \in 1 .. Len(ms) : ms[k] \in [to : Dests, kind : Kinds, for : Members]
      BY <3>1, ElementOfSeq
    <3> QED BY <3>1, <3>2
  <2>2. m \notin f[d]
    BY <1>2
  <2>3. \/ AddresseeGone(ms[m]) /\ d = Local
        \/ ms[m].to = d /\ (d # Local /\ feed[d] = "online"
                             => AddresseeGone(ms[m]) \/ ms[m].for = seatOf[d])
    BY <1>1, <1>2, <2>1, <2>2, DrainHands
  <2> QED BY <1>2, <2>3
<1>3. ASSUME NEW x \in Dests, NEW k \in Kinds, Submit(x, k),
             Drain(msg', pending \cup {New}, inflight, openTurn)
      PROVE  \/ AddresseeGone(msg'[m]) /\ d \in {Local, msg'[m].to}
             \/ msg'[m].to = d /\ (d # Local /\ feed[d] = "online" => msg'[m].for = seatOf[d])
  BY <1>3, <1>2, EnqueueFits
<1>4. ASSUME NEW c \in Dests, Stop(c)
      PROVE  \/ AddresseeGone(msg'[m]) /\ d \in {Local, msg'[m].to}
             \/ msg'[m].to = d /\ (d # Local /\ feed[d] = "online" => msg'[m].for = seatOf[d])
  <2> DEFINE f == [inflight EXCEPT ![c] = {}]
             o == [openTurn EXCEPT ![c] = {}]
  <2>1. /\ o \in [Dests -> SUBSET Ids] /\ o[c] = {}
        /\ \A b \in Dests \ {c} : o[b] = openTurn[b]
        /\ f[d] = inflight[d] \/ f[d] = {}
    BY <1>1 DEF Fit, Shapes
  <2>2. Drain(msg, pending, f, o) /\ msg' = msg
    BY <1>4 DEF Stop
  <2>3. Fit(msg, pending, f, o, ended \cup inflight[c], rejected, dropped)
    <3> HIDE DEF o
    <3> QED BY <2>1, TurnOverFits
  <2> HIDE DEF f, o
  <2> QED BY <1>2, <2>1, <2>2, <2>3
<1>5. CASE Requests
  <2>1. "chat" \in Kinds /\ Agents \subseteq Dests
    BY DEF Kinds, Dests
  <2> QED BY <1>3, <1>5, <2>1 DEF Requests, Msg, MsgUnsaved, Delegate, DelegateUnsaved, Queued
<1>6. CASE Answers
  BY <1>4, <1>6 DEF Answers, SeatReply, StopUnsaved, VerifyDone, queueVars
<1>7. CASE Comings
  BY <1>1, <1>7 DEF Comings, SeatConnect, SeatClose, Remove, RemoveUnsaved, Rotate, Mint,
                    queueVars, Fit, Shapes
<1>8. CASE ClearQueue \/ (\E b \in BOOLEAN : Pause(b)) \/ UNCHANGED vars
  BY <1>8 DEF ClearQueue, Pause, vars, queueVars
<1> QED BY <1>5, <1>6, <1>7, <1>8 DEF Next

\* A message whose addressee is still a member goes out over that member's own
\* feed or over one already ended; others go to the host's session or to the
\* next holder of the handle.
THEOREM AddresseesGetTheirs == Spec => HandedAsAddressed
<1>1. IInv /\ [Next]_vars
        => [\A d \in Dests : \A m \in inflight'[d] \ inflight[d] :
              LET r == msg'[m]
              IN  \/ AddresseeGone(r) /\ d \in {Local, r.to}
                  \/ r.to = d /\ (d # Local /\ feed[d] = "online" => r.for = seatOf[d])]_vars
  BY HandsAsAddressed
<1> QED BY <1>1, Inductive, PTL DEF Spec, HandedAsAddressed

-----------------------------------------------------------------------------
(* The room implements MessageLife. *)

\* How one step may move messages about.
Progress ==
    /\ Len(msg) \in Nat /\ Len(msg') \in Nat /\ Len(msg) <= Len(msg')
    /\ ended \subseteq ended' /\ rejected \subseteq rejected' /\ dropped \subseteq dropped'
    /\ \A m \in pending' : m \in pending \/ m \notin 1 .. Len(msg)
    /\ \A m \in ended' \ ended : \E d \in Dests : m \in inflight[d]
    /\ dropped' \ dropped \subseteq pending
    /\ \A d \in Dests :
          \/ inflight'[d] = inflight[d]
          \/ /\ \A m \in inflight[d] : m \in ended' \/ m \in rejected'
             /\ \A m \in inflight'[d] : m \in pending \/ m \notin 1 .. Len(msg)

\* drain() moves messages that way, from a queue that may hold a new message
\* and turns of which some may just have ended.
LEMMA DrainProgress ==
    ASSUME NEW ms, NEW p, NEW f, NEW o, Drain(ms, p, f, o),
           \A m \in p : m \in pending \/ m \notin 1 .. Len(msg),
           \A d \in Dests : f[d] = inflight[d] \/ (f[d] = {} /\ inflight[d] \subseteq ended')
    PROVE  /\ \A m \in pending' : m \in pending \/ m \notin 1 .. Len(msg)
           /\ rejected \subseteq rejected'
           /\ \A d \in Dests :
                 \/ inflight'[d] = inflight[d]
                 \/ /\ \A m \in inflight[d] : m \in ended' \/ m \in rejected'
                    /\ \A m \in inflight'[d] : m \in pending \/ m \notin 1 .. Len(msg)
<1>1. PICK S \in SUBSET Dests, R \in SUBSET Dests : Drained(ms, p, f, o, S, R)
  BY DrainSplits
<1>2. rejected \subseteq rejected' /\ pending' \subseteq p
  BY <1>1 DEF Drained
<1>3. ASSUME NEW d \in Dests
      PROVE  \/ inflight'[d] = inflight[d]
             \/ /\ \A m \in inflight[d] : m \in ended' \/ m \in rejected'
                /\ \A m \in inflight'[d] : m \in pending \/ m \notin 1 .. Len(msg)
  <2>1. CASE d \in S
    <3>1. f[d] = {} /\ inflight'[d] = For(ms, p, d)
      BY <1>1, <2>1 DEF Drained
    <3> QED BY <3>1 DEF For
  <2>2. CASE d \notin S
    <3>1. inflight'[d] = f[d]
      BY <1>1, <2>2 DEF Drained
    <3> QED BY <3>1
  <2> QED BY <2>1, <2>2
<1> QED BY <1>2, <1>3

\* Every handler moves each message only along Onward.
LEMMA StepProgress ==
    ASSUME IInv, [Next]_vars
    PROVE  Progress
<1>1. Len(msg) \in Nat /\ inflight \in [Dests -> SUBSET Ids]
  BY LenProperties DEF IInv, Fit, Shapes
<1>2. ASSUME NEW x \in Dests, NEW k \in Kinds, Submit(x, k), UNCHANGED <<ended, dropped>>,
             Queued \/ Drain(msg', pending \cup {New}, inflight, openTurn)
      PROVE  Progress
  <2>1. Len(msg') = New /\ New \notin 1 .. Len(msg) /\ Len(msg') \in Nat /\ Len(msg) <= Len(msg')
    BY <1>1, <1>2, EnqueueFits DEF New
  <2>2. CASE Queued
    BY <1>1, <1>2, <2>1, <2>2 DEF Progress, Queued
  <2>3. CASE Drain(msg', pending \cup {New}, inflight, openTurn)
    <3>1. \A m \in pending \cup {New} : m \in pending \/ m \notin 1 .. Len(msg)
      BY <2>1
    <3>2. /\ \A m \in pending' : m \in pending \/ m \notin 1 .. Len(msg)
          /\ rejected \subseteq rejected'
          /\ \A d \in Dests :
                \/ inflight'[d] = inflight[d]
                \/ /\ \A m \in inflight[d] : m \in ended' \/ m \in rejected'
                   /\ \A m \in inflight'[d] : m \in pending \/ m \notin 1 .. Len(msg)
      BY <2>3, <3>1, DrainProgress
    <3> QED BY <1>1, <1>2, <2>1, <3>2 DEF Progress
  <2> QED BY <1>2, <2>2, <2>3
<1>3. ASSUME NEW d \in Dests, Stop(d) PROVE Progress
  <2> DEFINE f == [inflight EXCEPT ![d] = {}]
  <2>1. ended' = ended \cup inflight[d] /\ UNCHANGED <<msg, dropped>>
    BY <1>3 DEF Stop
  <2>2. \A c \in Dests : f[c] = inflight[c] \/ (f[c] = {} /\ inflight[c] \subseteq ended')
    BY <1>1, <2>1
  <2>3. Drain(msg, pending, f, [openTurn EXCEPT ![d] = {}])
    BY <1>3 DEF Stop
  <2> HIDE DEF f
  <2>4. /\ \A m \in pending' : m \in pending \/ m \notin 1 .. Len(msg)
        /\ rejected \subseteq rejected'
        /\ \A c \in Dests :
              \/ inflight'[c] = inflight[c]
              \/ /\ \A m \in inflight[c] : m \in ended' \/ m \in rejected'
                 /\ \A m \in inflight'[c] : m \in pending \/ m \notin 1 .. Len(msg)
    BY <2>2, <2>3, DrainProgress
  <2> QED BY <1>1, <2>1, <2>4 DEF Progress
<1>4. ASSUME NEW h \in Agents, SeatClose(h) PROVE Progress
  <2>1. /\ inflight' = [inflight EXCEPT ![h] = {}] /\ rejected' = rejected \cup inflight[h]
        /\ UNCHANGED <<msg, pending, ended, dropped>>
    BY <1>4 DEF SeatClose
  <2> QED BY <1>1, <2>1 DEF Progress, Dests
<1>5. ASSUME ClearQueue PROVE Progress
  BY <1>1, <1>5 DEF ClearQueue, Progress
<1>6. ASSUME UNCHANGED <<msg, pending, inflight, rejected, ended, dropped>> PROVE Progress
  BY <1>1, <1>6 DEF Progress
<1>7. CASE Requests
  <2>1. "chat" \in Kinds /\ Agents \subseteq Dests
    BY DEF Kinds, Dests
  <2> QED BY <1>2, <1>6, <1>7, <2>1
          DEF Requests, Msg, MsgUnsaved, Delegate, DelegateUnsaved, queueVars
<1>8. CASE Answers
  BY <1>8, <1>3, <1>6 DEF Answers, SeatReply, StopUnsaved, VerifyDone, queueVars
<1>9. CASE Comings
  BY <1>9, <1>4, <1>6 DEF Comings, SeatConnect, Remove, RemoveUnsaved, Rotate, Mint, queueVars
<1>10. CASE (\E b \in BOOLEAN : Pause(b)) \/ UNCHANGED vars
  BY <1>10, <1>6 DEF Pause, vars, queueVars
<1> QED BY <1>5, <1>7, <1>8, <1>9, <1>10 DEF Next

\* Where each message is, read off its fate.
FatesRead == \A m \in Ids :
    /\ fate[m] = "ended"    <=> m \in ended
    /\ fate[m] = "rejected" <=> m \in rejected
    /\ fate[m] = "dropped"  <=> m \in dropped
    /\ fate[m] = "running"  <=> \E d \in Dests : m \in inflight[d]
    /\ fate[m] = "queued"   <=> m \in pending
    /\ fate[m] = "new"      <=> m \notin 1 .. Len(msg)
    /\ fate[m] \in {"new", "queued", "running", "ended", "rejected", "dropped"}

\* In a state that fits, the fate of a message reads off the one set that holds it.
LEMMA FateOf == IInv => FatesRead
<1> SUFFICES ASSUME IInv, NEW m \in Ids
             PROVE  /\ fate[m] = "ended"    <=> m \in ended
                    /\ fate[m] = "rejected" <=> m \in rejected
                    /\ fate[m] = "dropped"  <=> m \in dropped
                    /\ fate[m] = "running"  <=> \E d \in Dests : m \in inflight[d]
                    /\ fate[m] = "queued"   <=> m \in pending
                    /\ fate[m] = "new"      <=> m \notin 1 .. Len(msg)
                    /\ fate[m] \in {"new", "queued", "running", "ended", "rejected", "dropped"}
  BY DEF FatesRead
<1>1. InHand(m) <=> \E d \in Dests : m \in inflight[d]
  BY DEF InHand
<1>2. fate[m] = CASE m \in ended    -> "ended"
                  [] m \in rejected -> "rejected"
                  [] m \in dropped  -> "dropped"
                  [] InHand(m)      -> "running"
                  [] m \in pending  -> "queued"
                  [] OTHER          -> "new"
  BY DEF fate
<1>3. Split(Len(msg), pending, inflight, ended, rejected, dropped)
  BY DEF IInv, Fit
<1> QED BY <1>1, <1>2, <1>3 DEF Split

\* Every handler is a step of MessageLife or leaves its state alone.
LEMMA StepImplements ==
    ASSUME IInv, IInv', Progress
    PROVE  Life!Next
<1>1. FatesRead
  BY FateOf
<1>2. FatesRead'
  BY FateOf, PTL
<1>3. /\ Split(Len(msg), pending, inflight, ended, rejected, dropped)
      /\ Split(Len(msg'), pending', inflight', ended', rejected', dropped')
      /\ \A d \in Dests : inflight[d] \subseteq Ids /\ inflight'[d] \subseteq Ids
  BY DEF IInv, Fit, Shapes
<1>4. Life!Moves
  <2> SUFFICES ASSUME NEW m \in Ids
               PROVE  fate'[m] = fate[m] \/ Life!Onward(fate[m], fate'[m])
    BY DEF Life!Moves
  <2>1. CASE fate[m] = "new"
    BY <2>1, <1>1, <1>2, <1>3 DEF FatesRead, Life!Onward, Progress, Split
  <2>2. CASE fate[m] = "queued"
    BY <2>2, <1>1, <1>2, <1>3 DEF FatesRead, Life!Onward, Progress, Split
  <2>3. CASE fate[m] = "running"
    BY <2>3, <1>1, <1>2, <1>3 DEF FatesRead, Life!Onward, Progress, Split
  <2>4. CASE fate[m] \in {"ended", "rejected", "dropped"}
    BY <2>4, <1>1, <1>2 DEF FatesRead, Progress
  <2> QED BY <1>1, <2>1, <2>2, <2>3, <2>4 DEF FatesRead
<1>5. Life!OneTurnEach
  BY <1>2, <1>3 DEF FatesRead, Life!OneTurnEach, Split
<1>6. Life!Serial
  <2> SUFFICES ASSUME NEW d \in Dests, inflight'[d] # inflight[d], NEW m \in inflight[d]
               PROVE  fate'[m] \in {"ended", "rejected", "dropped"}
    BY DEF Life!Serial, Life!Final
  <2>1. m \in ended' \/ m \in rejected'
    BY DEF Progress
  <2> QED BY <1>2, <1>3, <2>1 DEF FatesRead
<1> QED BY <1>4, <1>5, <1>6 DEF Life!Next

\* The room keeps MessageLife's promise: a message moves only forward, runs in
\* one turn, and a destination's turn is over before its next one starts.
THEOREM Implements == Spec => LifeSpec
<1>1. Init => Life!Init
  <2> SUFFICES ASSUME Init PROVE Life!Init
    OBVIOUS
  <2>1. \A m : ~InHand(m)
    BY DEF Init, InHand
  <2> QED BY <2>1 DEF Init, Life!Init, fate
<1>2. IInv /\ IInv' /\ [Next]_vars => [Life!Next]_<<fate, inflight>>
  BY StepProgress, StepImplements
<1> QED BY <1>1, <1>2, Inductive, PTL DEF Spec, LifeSpec, Life!Spec
=============================================================================
