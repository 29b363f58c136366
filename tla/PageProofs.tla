----------------------------- MODULE PageProofs -----------------------------
(***************************************************************************)
(* What the room's page and its permission prompts keep, for any number of  *)
(* members, pages, prompts, turns, messages and upsets: the session hears   *)
(* of a prompt once and from somebody with authority (VerdictsAreDue), a    *)
(* page's messages are the room's (StreamFaithful), and a page at rest      *)
(* shows the room's prompts, none twice, and its turn (PageAgrees), each    *)
(* unless a history variable says why not.                                  *)
(***************************************************************************)
EXTENDS Page, SequenceTheorems, TLAPS

\* The message frames on their way to p.
Coming(p) == {i \in DOMAIN frames[p] : frames[p][i].kind = "message"}

\* A verdict was sent for a prompt there is.
Known == \A i \in DOMAIN sent : sent[i].id \in DOMAIN prompts

\* The messages of a page and those coming to it are the room's, in its order.
Ordered(p) ==
    /\ \A i, j \in DOMAIN stream[p] : i < j => stream[p][i] < stream[p][j]
    /\ \A i \in DOMAIN stream[p] : stream[p][i] <= messages
    /\ \A i \in Coming(p) : /\ 0 < frames[p][i].id /\ frames[p][i].id <= messages
                            /\ \A j \in DOMAIN stream[p] : stream[p][j] < frames[p][i].id
    /\ \A i, j \in Coming(p) : i < j => frames[p][i].id < frames[p][j].id

\* What a page that has no stream yet will be filled with.
Filling(p) ==
    /\ \A i \in DOMAIN answers[p] :
          \E n \in 0..messages : /\ answers[p][i].messages = Newest(n)
                                 /\ phase[p] = "loading" /\ ~lost[p] => n = messages
    /\ phase[p] \in {"gate", "loading"} => frames[p] = <<>>
    /\ phase[p] = "gate" /\ role[p] # "gone" => answers[p] = <<>> /\ asked[p] = 0

\* A page has no gap after the first s messages, and what it has not yet is coming. The
\* first are missing only from a page that has as many as an answer.
Gapless(p, s) ==
    /\ \A i \in DOMAIN stream[p] : stream[p][i] = s + i
    /\ s = 0 \/ Len(stream[p]) >= MaxRecent
    /\ \A k \in (s + Len(stream[p]) + 1)..messages : \E i \in Coming(p) : frames[p][i].id = k

\* So it is, unless a message was published while the page had no stream.
Complete(p) == phase[p] \in {"connecting", "live"} /\ ~lost[p] => \E s \in Nat : Gapless(p, s)

Sound(p) == Ordered(p) /\ Filling(p) /\ Complete(p)

IInv == TypeOK /\ Known /\ VerdictsAreDue /\ \A p \in Pages : Sound(p)

-----------------------------------------------------------------------------
(* The prompts.                                                            *)

LEMMA ListIsSeq ==
    ASSUME NEW S, NEW n \in Nat, NEW f \in [1..n -> S]
    PROVE  f \in Seq(S) /\ Len(f) = n
<1>1. f \in Seq(S)
  BY SeqDef
<1> QED BY <1>1

\* The newest of n messages: in order, without a gap, up to the last.
LEMMA NewestIs ==
    ASSUME NEW n \in Nat
    PROVE  /\ Newest(n) \in Seq(Nat) /\ DOMAIN Newest(n) = 1..Len(Newest(n))
           /\ Len(Newest(n)) \in Nat /\ Len(Newest(n)) <= n
           /\ Len(Newest(n)) = n \/ Len(Newest(n)) = MaxRecent
           /\ \A i \in DOMAIN Newest(n) : Newest(n)[i] = n - Len(Newest(n)) + i
<1> DEFINE size == IF n < MaxRecent THEN n ELSE MaxRecent
<1>1. size \in Nat /\ size <= n /\ (size = n \/ size = MaxRecent)
  BY PageAssumption
<1>2. Newest(n) = [i \in 1..size |-> n - size + i]
  BY DEF Newest
<1> HIDE DEF size
<1>3. \A i \in 1..size : n - size + i \in Nat
  BY <1>1
<1>4. Newest(n) \in [1..size -> Nat]
  BY <1>2, <1>3
<1>5. Newest(n) \in Seq(Nat) /\ Len(Newest(n)) = size
  BY <1>1, <1>4, ListIsSeq
<1> QED BY <1>1, <1>2, <1>5

LEMMA FrameType ==
    ASSUME NEW kind \in {"request", "approval", "news", "message"}, NEW id \in Nat
    PROVE  Frame(kind, id) \in Told
BY DEF Frame, Told

LEMMA OldAnswer ==
    ASSUME NEW a \in Answer, NEW b \in BOOLEAN, NEW n \in Nat
    PROVE  /\ [a EXCEPT !.old = b] \in Answer /\ [a EXCEPT !.old = b].messages = a.messages
           /\ [a EXCEPT !.behind = n] \in Answer /\ [a EXCEPT !.behind = n].messages = a.messages
           /\ [a EXCEPT !.behind = n, !.old = b] \in Answer
           /\ [a EXCEPT !.behind = n, !.old = b].messages = a.messages
BY DEF Answer

\* Answers that are outdated are answers.
LEMMA OutdatedType ==
    ASSUME NEW list \in Seq(Answer)
    PROVE  /\ Outdated(list) \in Seq(Answer)
           /\ DOMAIN Outdated(list) = DOMAIN list
           /\ Len(Outdated(list)) = Len(list)
           /\ \A i \in DOMAIN list : Outdated(list)[i].messages = list[i].messages
<1>1. \A i \in 1..Len(list) : list[i] \in Answer
  OBVIOUS
<1>2. DOMAIN list = 1..Len(list) /\ Len(list) \in Nat
  OBVIOUS
<1>3. \A i \in 1..Len(list) : /\ [list[i] EXCEPT !.old = TRUE] \in Answer
                              /\ [list[i] EXCEPT !.old = TRUE].messages = list[i].messages
  BY <1>1, OldAnswer
<1>4. Outdated(list) = [i \in 1..Len(list) |-> [list[i] EXCEPT !.old = TRUE]]
  BY <1>2 DEF Outdated
<1>5. Outdated(list) \in [1..Len(list) -> Answer]
  BY <1>3, <1>4
<1>6. Outdated(list) \in Seq(Answer) /\ Len(Outdated(list)) = Len(list)
  BY <1>2, <1>5, ListIsSeq
<1>7. \A i \in DOMAIN list : Outdated(list)[i].messages = list[i].messages
  BY <1>2, <1>3, <1>4
<1> QED BY <1>2, <1>5, <1>6, <1>7

\* ... and nothing but their age is new.
LEMMA OutdatedIs ==
    ASSUME NEW list \in Seq(Answer)
    PROVE  /\ DOMAIN Outdated(list) = DOMAIN list
           /\ \A i \in DOMAIN list : /\ Outdated(list)[i].old /\ Outdated(list)[i].behind = list[i].behind
                                     /\ Outdated(list)[i].cards = list[i].cards
                                     /\ Outdated(list)[i].messages = list[i].messages
<1>1. \A a \in Answer : /\ [a EXCEPT !.old = TRUE].old /\ [a EXCEPT !.old = TRUE].behind = a.behind
                        /\ [a EXCEPT !.old = TRUE].cards = a.cards
                        /\ [a EXCEPT !.old = TRUE].messages = a.messages
  BY DEF Answer
<1>2. \A i \in DOMAIN list : list[i] \in Answer
  OBVIOUS
<1> QED BY <1>1, <1>2 DEF Outdated

\* What the types say of one page.
LEMMA ViewsAre ==
    ASSUME TypeOK, NEW p \in Pages
    PROVE  /\ frames[p] \in Seq(Told) /\ answers[p] \in Seq(Answer) /\ shown[p] \in View
           /\ \A i \in DOMAIN answers[p] : /\ answers[p][i] \in Answer /\ answers[p][i].behind \in Nat
                                           /\ answers[p][i].old \in BOOLEAN
           /\ DOMAIN prompts = 1..Len(prompts) /\ Len(prompts) \in Nat /\ p \in Members
           /\ Pending \subseteq DOMAIN prompts
<1>1. \A a \in Answer : a.behind \in Nat /\ a.old \in BOOLEAN
  BY DEF Answer
<1>2. frames[p] \in Seq(Told) /\ answers[p] \in Seq(Answer) /\ shown[p] \in View /\ prompts \in Seq(Fates)
  BY DEF TypeOK
<1>3. p \in Members
  BY PageAssumption
<1> QED BY <1>1, <1>2, <1>3 DEF Pending

LEMMA AnnounceType ==
    ASSUME TypeOK, NEW f \in Told, Announce(f)
    PROVE  /\ frames' \in [Pages -> Seq(Told)] /\ phase' = phase
           /\ asked' = asked /\ lost' = lost /\ early' = early
           /\ answers' \in [Pages -> Seq(Answer)]
           /\ stale' \in [Pages -> BOOLEAN]
<1>1. \A p \in Pages : frames[p] \in Seq(Told) /\ Append(frames[p], f) \in Seq(Told)
  BY DEF TypeOK
<1>2. frames' \in [Pages -> Seq(Told)]
  BY <1>1 DEF Announce, Publish
<1>3. answers' \in [Pages -> Seq(Answer)]
  BY OutdatedType DEF Announce, Missed, TypeOK
<1>4. stale' \in [Pages -> BOOLEAN]
  BY DEF Announce, Missed, TypeOK
<1> QED BY <1>2, <1>3, <1>4 DEF Announce

\* Init and every step keep the types.
LEMMA TypeInit == Init => TypeOK
<1> SUFFICES ASSUME Init PROVE TypeOK
  OBVIOUS
<1>1. role \in [Members -> Roles]
  BY DEF Init, Roles
<1>2. prompts \in Seq(Fates) /\ sent \in Seq(Verdict)
  BY DEF Init
<1>3. \A S : <<>> \in Seq(S)
  OBVIOUS
<1>4. frames \in [Pages -> Seq(Told)] /\ answers \in [Pages -> Seq(Answer)] /\ stream \in [Pages -> Seq(Nat)]
  BY <1>3 DEF Init
<1>5. shown \in [Pages -> View] /\ DOMAIN prompts \subseteq Ids
  BY DEF Init, Nothing, View
<1>6. phase \in [Pages -> {"gate", "loading", "connecting", "live"}] /\ asked \in [Pages -> Nat]
  BY DEF Init
<1>7. stale \in [Pages -> BOOLEAN] /\ lost \in [Pages -> BOOLEAN] /\ early \in [Pages -> BOOLEAN]
  BY DEF Init
<1>8. /\ busy \in BOOLEAN /\ turns \in Nat /\ messages \in Nat /\ upsets \in Nat
      /\ posts = {} /\ replies = {}
  BY DEF Init
<1> QED BY <1>1, <1>2, <1>4, <1>5, <1>6, <1>7, <1>8 DEF TypeOK

LEMMA TypeStep == TypeOK /\ [Next]_vars => TypeOK'
<1> SUFFICES ASSUME TypeOK, [Next]_vars PROVE TypeOK'
  OBVIOUS
<1> USE DEF room, link, clicks, history
<1>1. CASE Ask
  <2>1. Frame("request", Len(prompts) + 1) \in Told
    BY FrameType DEF TypeOK
  <2>2. prompts' \in Seq(Fates) /\ DOMAIN prompts' \subseteq Ids
    <3>1. /\ prompts' = Append(prompts, "open") /\ prompts \in Seq(Fates) /\ "open" \in Fates
          /\ Len(prompts) < MaxAsks /\ MaxAsks \in Nat
      BY <1>1, PageAssumption DEF Ask, TypeOK, Fates
    <3> QED BY <3>1 DEF Ids
  <2>3. /\ Announce(Frame("request", Len(prompts) + 1))
        /\ UNCHANGED <<role, sent, busy, turns, messages, shown, stream, posts, replies, upsets>>
    BY <1>1 DEF Ask
  <2> QED BY <2>1, <2>2, <2>3, AnnounceType DEF TypeOK
<1>2. CASE TurnStarts
  <2>1. Frame("news", 0) \in Told
    BY FrameType
  <2> QED BY <1>2, <2>1, AnnounceType DEF TurnStarts, TypeOK
<1>3. CASE TurnEnds
  <2>1. Frame("news", 0) \in Told
    BY FrameType
  <2> QED BY <1>3, <2>1, AnnounceType DEF TurnEnds, TypeOK
<1>3a. CASE Tells
  <2>1. Frame("news", 0) \in Told
    BY FrameType
  <2> QED BY <1>3a, <2>1, AnnounceType DEF Tells, TypeOK
<1>4. CASE Say
  <2>1. Frame("message", messages + 1) \in Told
    BY FrameType DEF TypeOK
  <2> QED BY <1>4, <2>1 DEF Say, Publish, TypeOK
<1>5. CASE Restart
  <2>1. prompts' \in [1..Len(prompts) -> Fates] /\ Len(prompts) \in Nat
    BY <1>5 DEF Restart, TypeOK, Fates
  <2>2. prompts' \in Seq(Fates) /\ DOMAIN prompts' \subseteq Ids
    BY <1>5, <2>1, ListIsSeq DEF Restart, TypeOK
  <2>3. \A S : <<>> \in Seq(S)
    OBVIOUS
  <2>4. /\ frames' \in [Pages -> Seq(Told)] /\ answers' \in [Pages -> Seq(Answer)]
        /\ asked' \in [Pages -> Nat]
    BY <1>5, <2>3 DEF Restart
  <2>5. phase' \in [Pages -> {"gate", "loading", "connecting", "live"}]
    BY <1>5 DEF Restart, TypeOK
  <2>6. stale' \in [Pages -> BOOLEAN] /\ lost' \in [Pages -> BOOLEAN]
    BY <1>5 DEF Restart, TypeOK
  <2>7. upsets' \in Nat /\ busy' = FALSE /\ posts' = {} /\ replies' = {}
    BY <1>5 DEF Restart, Upset, TypeOK
  <2>8. UNCHANGED <<role, sent, turns, messages, shown, stream, early>>
    BY <1>5 DEF Restart
  <2> QED BY <2>2, <2>4, <2>5, <2>6, <2>7, <2>8 DEF TypeOK
<1>6. ASSUME NEW id \in Pending, Expire(id) PROVE TypeOK'
  <2>1. id \in DOMAIN prompts /\ id \in Nat
    BY DEF Pending, TypeOK
  <2>2. Frame("approval", id) \in Told
    BY <2>1, FrameType
  <2>3. prompts' \in Seq(Fates) /\ DOMAIN prompts' \subseteq Ids
    BY <1>6, <2>1, ExceptSeq DEF Expire, TypeOK, Fates
  <2> QED BY <1>6, <2>2, <2>3, AnnounceType DEF Expire, Expired, TypeOK
<1>7. ASSUME NEW m \in Members, Role(m) PROVE TypeOK'
  <2>1. answers' \in [Pages -> Seq(Answer)]
    BY <1>7, OutdatedType DEF Role, Missed, TypeOK
  <2> QED BY <1>7, <2>1 DEF Role, Missed, Upset, TypeOK, Roles, MayApprove
<1>8. ASSUME NEW m \in Members, Leave(m) PROVE TypeOK'
  BY <1>8 DEF Leave, Upset, TypeOK, Roles
<1>9. ASSUME NEW c \in posts \cup Elsewhere, ServeVerdict(c) PROVE TypeOK'
  <2>1. c.id \in Nat /\ c.by \in Members
    BY DEF TypeOK, Elsewhere
  <2>2. replies' \subseteq [by : Pages, id : Nat, barred : BOOLEAN]
    <3>1. replies \subseteq [by : Pages, id : Nat, barred : BOOLEAN]
      BY DEF TypeOK
    <3> DEFINE barred == c.id \in Pending /\ ~MayApprove(c.by)
    <3>2. \A r \in replies' \ replies : r.by \in Pages /\ r = [by |-> c.by, id |-> c.id, barred |-> barred]
      BY <1>9 DEF ServeVerdict
    <3>4. barred \in BOOLEAN
      OBVIOUS
    <3> HIDE DEF barred
    <3>3. \A r \in replies' \ replies : r \in [by : Pages, id : Nat, barred : BOOLEAN]
      BY <2>1, <3>2, <3>4
    <3> QED BY <3>1, <3>3
  <2>3. posts' \subseteq [by : Members, id : Nat]
    BY <1>9 DEF ServeVerdict, TypeOK
  <2>4. CASE c.id \in Pending /\ MayApprove(c.by)
    <3>1. Frame("approval", c.id) \in Told
      BY <2>1, FrameType
    <3>2. Announce(Frame("approval", c.id)) /\ UNCHANGED <<role, busy, turns, messages, shown, stream, upsets>>
      BY <1>9, <2>4 DEF ServeVerdict
    <3>3. prompts' \in Seq(Fates) /\ DOMAIN prompts' \subseteq Ids
      <4>1. prompts' = [prompts EXCEPT ![c.id] = "answered"]
        BY <1>9, <2>4 DEF ServeVerdict, Resolved
      <4>2. c.id \in 1..Len(prompts) /\ "answered" \in Fates /\ prompts \in Seq(Fates) /\ DOMAIN prompts \subseteq Ids
        BY <2>4 DEF Pending, TypeOK, Fates
      <4> QED BY <4>1, <4>2, ExceptSeq
    <3>4. [id |-> c.id, by |-> role[c.by]] \in Verdict
      BY <2>1 DEF TypeOK, Verdict, Roles
    <3>5. sent' \in Seq(Verdict)
      <4>1. sent' = Append(sent, [id |-> c.id, by |-> role[c.by]])
        BY <1>9, <2>4 DEF ServeVerdict
      <4>2. sent \in Seq(Verdict)
        BY DEF TypeOK
      <4> QED BY <3>4, <4>1, <4>2, AppendProperties
    <3> QED BY <2>2, <2>3, <3>1, <3>2, <3>3, <3>5, AnnounceType DEF TypeOK
  <2>5. CASE ~(c.id \in Pending /\ MayApprove(c.by))
    BY <1>9, <2>2, <2>3, <2>5 DEF ServeVerdict, TypeOK
  <2> QED BY <2>4, <2>5
<1>10. ASSUME NEW r \in replies, Answered(r) PROVE TypeOK'
  <2>1. r.by \in Pages /\ r.barred \in BOOLEAN /\ shown \in [Pages -> View]
    BY DEF TypeOK
  <2>2. shown[r.by] \in View
    BY <2>1
  <2>3. [shown[r.by] EXCEPT !.cards[r.id] = 0] \in View
    BY <2>2 DEF View
  <2>4. shown' \in [Pages -> View]
    BY <1>10, <2>1, <2>3 DEF Answered
  <2> QED BY <1>10, <2>1, <2>4 DEF Answered, TypeOK
<1>11. ASSUME NEW p \in Pages, Start(p) \/ Connect(p) PROVE TypeOK'
  <2>1. /\ phase' \in [Pages -> {"gate", "loading", "connecting", "live"}]
        /\ asked' \in [Pages -> Nat]
    <3>1. CASE Start(p)
      BY <3>1 DEF Start, TypeOK
    <3>2. CASE Connect(p)
      BY <3>2 DEF Connect, TypeOK
    <3> QED BY <1>11, <3>1, <3>2
  <2>2. UNCHANGED <<room, frames, answers, shown, stream, clicks, history, upsets>>
    BY <1>11 DEF Start, Connect
  <2> QED BY <2>1, <2>2 DEF TypeOK
<1>12. ASSUME NEW p \in Pages, ServeState(p) PROVE TypeOK'
  <2>1. Newest(messages) \in Seq(Nat)
    BY NewestIs DEF TypeOK
  <2>2. Pending \in SUBSET Nat
    BY DEF Pending, TypeOK
  <2>3. Snapshot(p) \in Answer
    BY <2>1, <2>2 DEF Snapshot, Answer, MayApprove, TypeOK
  <2>4. Append(answers[p], Snapshot(p)) \in Seq(Answer)
    BY <2>3 DEF TypeOK
  <2>5. answers' \in [Pages -> Seq(Answer)]
    BY <1>12, <2>4 DEF ServeState, TypeOK
  <2>6. phase' \in [Pages -> {"gate", "loading", "connecting", "live"}]
    BY <1>12 DEF ServeState, TypeOK
  <2>7. asked' \in [Pages -> Nat]
    BY <1>12 DEF ServeState, TypeOK
  <2>8. UNCHANGED <<room, frames, shown, stream, clicks, history, upsets>>
    BY <1>12 DEF ServeState
  <2> QED BY <2>5, <2>6, <2>7, <2>8 DEF TypeOK
<1>13. ASSUME NEW p \in Pages, Hears(p) PROVE TypeOK'
  <2>1. Head(frames[p]) \in Told /\ Tail(frames[p]) \in Seq(Told)
    BY <1>13 DEF Hears, TypeOK
  <2>2. \A a \in Answer : Passed(Head(frames[p]), a) \in Answer
    <3> TAKE a \in Answer
    <3>1. a.behind \in Nat /\ a.old \in BOOLEAN
      BY DEF Answer
    <3>2. CASE a.behind > 0
      <4>1. a.behind - 1 \in Nat
        BY <3>1, <3>2
      <4> QED BY <3>2, <4>1, OldAnswer DEF Passed
    <3>3. CASE ~(a.behind > 0)
      BY <3>3, OldAnswer DEF Passed
    <3> QED BY <3>2, <3>3
  <2>3. [i \in DOMAIN answers[p] |-> Passed(Head(frames[p]), answers[p][i])] \in Seq(Answer)
    <3>1. answers[p] \in Seq(Answer) /\ DOMAIN answers[p] = 1..Len(answers[p]) /\ Len(answers[p]) \in Nat
      BY DEF TypeOK
    <3>2. \A i \in DOMAIN answers[p] : answers[p][i] \in Answer
      BY <3>1
    <3>3. [i \in DOMAIN answers[p] |-> Passed(Head(frames[p]), answers[p][i])] \in [1..Len(answers[p]) -> Answer]
      BY <2>2, <3>1, <3>2
    <3> QED BY <3>1, <3>3, ListIsSeq
  <2>4. answers' \in [Pages -> Seq(Answer)]
    BY <1>13, <2>3 DEF Hears, TypeOK
  <2>5. frames' \in [Pages -> Seq(Told)]
    BY <1>13, <2>1 DEF Hears, TypeOK
  <2>6. /\ stream' \in [Pages -> Seq(Nat)] /\ asked' \in [Pages -> Nat]
        /\ shown' \in [Pages -> View]
    <3>0. /\ stream[p] \in Seq(Nat) /\ shown[p] \in View /\ Head(frames[p]).id \in Nat
          /\ stream \in [Pages -> Seq(Nat)] /\ shown \in [Pages -> View] /\ asked \in [Pages -> Nat]
      BY <2>1 DEF TypeOK, Told
    <3>1. CASE Head(frames[p]).kind = "message"
      <4>1. Append(stream[p], Head(frames[p]).id) \in Seq(Nat)
        BY <3>0
      <4> QED BY <1>13, <3>0, <3>1, <4>1 DEF Hears
    <3>2. CASE Head(frames[p]).kind = "request"
      <4>1. [shown[p] EXCEPT !.cards[Head(frames[p]).id] = @ + 1] \in View
        <5> DEFINE cards == shown[p].cards
                   id    == Head(frames[p]).id
        <5>1. cards \in [Ids -> Nat] /\ \A k \in Ids : cards[k] + 1 \in Nat
          BY <3>0 DEF View
        <5> HIDE DEF cards, id
        <5>2. [cards EXCEPT ![id] = cards[id] + 1] \in [Ids -> Nat]
          BY <5>1
        <5>3. [shown[p] EXCEPT !.cards = [cards EXCEPT ![id] = cards[id] + 1]] \in View
          BY <3>0, <5>2 DEF View
        <5> QED BY <5>3 DEF cards, id
      <4> QED BY <1>13, <3>0, <3>2, <4>1 DEF Hears
    <3>3. CASE Head(frames[p]).kind = "approval"
      <4>1. [shown[p] EXCEPT !.cards[Head(frames[p]).id] = 0] \in View
        BY <3>0 DEF View
      <4> QED BY <1>13, <3>0, <3>3, <4>1 DEF Hears
    <3>4. CASE Head(frames[p]).kind = "news"
      <4>1. asked' = [asked EXCEPT ![p] = @ + 1] /\ UNCHANGED <<stream, shown>>
        BY <1>13, <3>4 DEF Hears
      <4> QED BY <3>0, <4>1
    <3> QED BY <2>1, <3>1, <3>2, <3>3, <3>4 DEF Told
  <2> QED BY <1>13, <2>4, <2>5, <2>6 DEF Hears, TypeOK
<1>14. ASSUME NEW p \in Pages, Cut(p) PROVE TypeOK'
  <2>1. answers[p] \in Seq(Answer) /\ DOMAIN answers[p] = 1..Len(answers[p]) /\ Len(answers[p]) \in Nat
    BY DEF TypeOK
  <2>2. ASSUME NEW i \in DOMAIN answers[p]
        PROVE  [answers[p][i] EXCEPT !.behind = 0, !.old = @ \/ Unread(p, answers[p][i].behind)] \in Answer
    <3>1. answers[p][i] \in Answer
      BY <2>1
    <3>2. (answers[p][i].old \/ Unread(p, answers[p][i].behind)) \in BOOLEAN
      OBVIOUS
    <3> QED BY <3>1, <3>2, OldAnswer
  <2>3. Passing(p) \in [1..Len(answers[p]) -> Answer]
    BY <2>1, <2>2 DEF Passing
  <2>4. Passing(p) \in Seq(Answer)
    BY <2>1, <2>3, ListIsSeq
  <2>5. answers' \in [Pages -> Seq(Answer)]
    BY <1>14, <2>4 DEF Cut, TypeOK
  <2>6. /\ phase' \in [Pages -> {"gate", "loading", "connecting", "live"}]
        /\ frames' \in [Pages -> Seq(Told)]
    BY <1>14 DEF Cut, TypeOK
  <2>7. stale' \in [Pages -> BOOLEAN] /\ lost' \in [Pages -> BOOLEAN]
    BY <1>14 DEF Cut, TypeOK
  <2>8. upsets' \in Nat /\ UNCHANGED <<room, asked, shown, stream, clicks, early>>
    BY <1>14 DEF Cut, Upset, TypeOK
  <2> QED BY <2>5, <2>6, <2>7, <2>8 DEF TypeOK
<1>15. ASSUME NEW p \in Pages, NEW i \in DOMAIN answers[p], Load(p, i) PROVE TypeOK'
  <2>1. answers[p] \in Seq(Answer) /\ answers[p][i] \in Answer /\ i \in 1..Len(answers[p])
    BY DEF TypeOK
  <2>2. SubSeq(answers[p], 1, i - 1) \in Seq(Answer) /\ SubSeq(answers[p], i + 1, Len(answers[p])) \in Seq(Answer)
    BY <2>1
  <2>3. Outdated(SubSeq(answers[p], 1, i - 1)) \o SubSeq(answers[p], i + 1, Len(answers[p])) \in Seq(Answer)
    BY <2>2, OutdatedType, ConcatProperties
  <2>4. answers' \in [Pages -> Seq(Answer)]
    BY <1>15, <2>3 DEF Load, TypeOK
  <2>5. stream' \in [Pages -> Seq(Nat)]
    BY <1>15, <2>1 DEF Load, Filled, TypeOK, Answer
  <2>6. /\ shown' \in [Pages -> View]
        /\ stale' \in [Pages -> BOOLEAN] /\ early' \in [Pages -> BOOLEAN]
    <3>1. [can |-> answers[p][i].can, busy |-> answers[p][i].busy,
           cards |-> [id \in Ids |-> IF id \in answers[p][i].cards THEN 1 ELSE 0]] \in View
      BY <2>1 DEF Answer, View
    <3>2. answers[p][i].old \in BOOLEAN /\ Overtook(p, answers[p][i]) \in BOOLEAN
      BY <2>1 DEF Answer, Overtook
    <3> QED BY <1>15, <3>1, <3>2 DEF Load, TypeOK
  <2> QED BY <1>15, <2>4, <2>5, <2>6 DEF Load, TypeOK
<1>16. ASSUME NEW p \in Pages, NEW id \in Ids, Click(p, id) PROVE TypeOK'
  <2>1. id \in Nat
    BY DEF Ids
  <2>2. posts' \subseteq [by : Members, id : Nat]
    BY <1>16, <2>1, PageAssumption DEF Click, TypeOK
  <2>3. UNCHANGED <<room, link, shown, stream, replies, history, upsets>>
    BY <1>16 DEF Click
  <2> QED BY <2>2, <2>3 DEF TypeOK
<1>17. CASE UNCHANGED vars
  BY <1>17 DEF vars, TypeOK
<1> QED BY <1>1, <1>2, <1>3, <1>3a, <1>4, <1>5, <1>6, <1>7, <1>8, <1>9, <1>10, <1>11, <1>12,
           <1>13, <1>14, <1>15, <1>16, <1>17 DEF Next

-----------------------------------------------------------------------------
(* Verdicts.                                                               *)

\* A prompt that is settled stays so, and no verdict is sent but for an open one.
LEMMA DueStep ==
    ASSUME TypeOK, Known, VerdictsAreDue, [Next]_vars
    PROVE  Known' /\ VerdictsAreDue'
<1> USE DEF room
<1> DEFINE Settles == \A id \in DOMAIN prompts : prompts[id] = "answered" => id \in DOMAIN prompts' /\ prompts'[id] = "answered"
<1>1. ASSUME sent' = sent, Settles PROVE Known' /\ VerdictsAreDue'
  BY <1>1 DEF Known, VerdictsAreDue
<1>2. CASE UNCHANGED <<prompts, sent>>
  BY <1>1, <1>2
<1>3. CASE Ask
  <2>1. prompts' = Append(prompts, "open") /\ prompts \in Seq(Fates) /\ "open" \in Fates
    BY <1>3 DEF Ask, TypeOK, Fates
  <2>2. Settles
    BY <2>1, AppendProperties
  <2> QED BY <1>1, <1>3, <2>2 DEF Ask
<1>4. ASSUME NEW id \in Pending, Expire(id) PROVE Known' /\ VerdictsAreDue'
  <2>1. Settles
    BY <1>4 DEF Expire, Pending, TypeOK
  <2> QED BY <1>1, <1>4, <2>1 DEF Expire
<1>5. CASE Restart
  <2>1. Settles
    BY <1>5 DEF Restart, Pending
  <2> QED BY <1>1, <1>5, <2>1 DEF Restart
<1>6. ASSUME NEW c \in posts \cup Elsewhere, ServeVerdict(c) PROVE Known' /\ VerdictsAreDue'
  <2>1. CASE ~(c.id \in Pending /\ MayApprove(c.by))
    BY <1>2, <1>6, <2>1 DEF ServeVerdict
  <2>2. CASE c.id \in Pending /\ MayApprove(c.by)
    <3> DEFINE new == [id |-> c.id, by |-> role[c.by]]
    <3>1. /\ prompts' = [prompts EXCEPT ![c.id] = "answered"] /\ sent' = Append(sent, new)
          /\ c.id \in DOMAIN prompts /\ prompts[c.id] = "open" /\ role[c.by] = "approver"
      BY <1>6, <2>2 DEF ServeVerdict, Resolved, Pending, MayApprove
    <3>2. new.id = c.id /\ new.by = "approver" /\ new \in Verdict /\ sent \in Seq(Verdict)
      BY <3>1 DEF TypeOK, Verdict, Roles
    <3>3. \A i \in DOMAIN sent : sent[i].id \in DOMAIN prompts /\ sent[i].id # c.id
      BY <3>1 DEF Known, VerdictsAreDue
    <3> HIDE DEF new
    <3>4. /\ DOMAIN sent = 1..Len(sent) /\ Len(sent) \in Nat /\ DOMAIN sent' = 1..(Len(sent) + 1)
          /\ sent'[Len(sent) + 1] = new /\ \A i \in DOMAIN sent : sent'[i] = sent[i]
      BY <3>1, <3>2, AppendProperties
    <3>5. DOMAIN prompts' = DOMAIN prompts
      BY <3>1
    <3>6. \A i \in DOMAIN sent' : i \in DOMAIN sent \/ i = Len(sent) + 1
      BY <3>4
    <3>7. Known'
      BY <3>1, <3>2, <3>3, <3>4, <3>5, <3>6 DEF Known
    <3>8. \A i \in DOMAIN sent' : prompts'[sent'[i].id] = "answered" /\ sent'[i].by = "approver"
      BY <3>1, <3>2, <3>3, <3>4, <3>6 DEF VerdictsAreDue
    <3>9. \A i, j \in DOMAIN sent' : sent'[j].id = sent'[i].id => j = i
      BY <3>2, <3>3, <3>4, <3>6 DEF VerdictsAreDue
    <3> QED BY <3>7, <3>8, <3>9 DEF VerdictsAreDue
  <2> QED BY <2>1, <2>2
<1>7. CASE UNCHANGED vars
  BY <1>2, <1>7 DEF vars
<1>8. CASE TurnStarts \/ TurnEnds \/ Tells \/ Say
  BY <1>2, <1>8 DEF TurnStarts, TurnEnds, Tells, Say
<1>9. ASSUME NEW m \in Members, Role(m) \/ Leave(m) PROVE Known' /\ VerdictsAreDue'
  BY <1>2, <1>9 DEF Role, Leave
<1>10. ASSUME NEW r \in replies, Answered(r) PROVE Known' /\ VerdictsAreDue'
  BY <1>2, <1>10 DEF Answered
<1>11. ASSUME NEW p \in Pages, Start(p) \/ ServeState(p) \/ Connect(p) \/ Hears(p) \/ Cut(p)
       PROVE  Known' /\ VerdictsAreDue'
  BY <1>2, <1>11 DEF Start, ServeState, Connect, Hears, Cut
<1>12. ASSUME NEW p \in Pages, NEW i \in DOMAIN answers[p], Load(p, i) PROVE Known' /\ VerdictsAreDue'
  BY <1>2, <1>12 DEF Load
<1>13. ASSUME NEW p \in Pages, NEW id \in Ids, Click(p, id) PROVE Known' /\ VerdictsAreDue'
  BY <1>2, <1>13 DEF Click
<1> QED BY <1>3, <1>4, <1>5, <1>6, <1>7, <1>8, <1>9, <1>10, <1>11, <1>12, <1>13 DEF Next

-----------------------------------------------------------------------------
(* The pages.                                                              *)

\* What a step leaves of a page when it moves none of its messages.
LEMMA Carries ==
    ASSUME NEW p \in Pages, TypeOK, Sound(p), messages' = messages,
           stream'[p] = stream[p], lost'[p] = lost[p],
           frames'[p] = frames[p],
           \/ phase'[p] = phase[p]
           \/ phase[p] = "connecting" /\ phase'[p] = "live"
           \/ phase[p] = "live" /\ phase'[p] = "connecting",
           DOMAIN answers'[p] = DOMAIN answers[p],
           \A i \in DOMAIN answers[p] : answers'[p][i].messages = answers[p][i].messages,
           answers[p] = <<>> => answers'[p] = <<>>,
           phase[p] = "gate" => asked'[p] = asked[p],
           role[p] = "gone" => role'[p] = "gone"
    PROVE  Sound(p)'
<1>1. Ordered(p)'
  BY DEF Sound, Ordered, Coming
<1>2. Filling(p)'
  BY DEF Sound, Filling
<1>3. Complete(p)'
  BY DEF Sound, Complete, Gapless, Coming
<1> QED BY <1>1, <1>2, <1>3 DEF Sound

\* A frame that is no message adds nothing to a page.
LEMMA AnnounceCarries ==
    ASSUME NEW p \in Pages, TypeOK, Sound(p), NEW f \in Told, f.kind # "message", Announce(f),
           UNCHANGED <<role, messages, stream>>
    PROVE  Sound(p)'
<1>1. /\ answers[p] \in Seq(Answer) /\ frames[p] \in Seq(Told)
      /\ phase' = phase /\ lost' = lost /\ asked' = asked
  BY DEF Announce, TypeOK
<1>2. \/ answers'[p] = answers[p]
      \/ answers'[p] = Outdated(answers[p])
  BY DEF Announce, Missed
<1>3. /\ DOMAIN answers'[p] = DOMAIN answers[p]
      /\ \A i \in DOMAIN answers[p] : answers'[p][i].messages = answers[p][i].messages
      /\ answers[p] = <<>> => answers'[p] = <<>>
  <2>1. CASE answers'[p] = answers[p]
    BY <2>1
  <2>2. CASE answers'[p] = Outdated(answers[p])
    <3>1. answers[p] = <<>> => Outdated(answers[p]) = <<>>
      BY DEF Outdated
    <3> QED BY <1>1, <2>2, <3>1, OutdatedType
  <2> QED BY <1>2, <2>1, <2>2
<1>4. CASE frames'[p] = frames[p]
  BY <1>1, <1>3, <1>4, Carries
<1>5. CASE phase[p] = "live" /\ frames'[p] = Append(frames[p], f)
  <2>1. /\ DOMAIN frames[p] = 1..Len(frames[p]) /\ Len(frames[p]) \in Nat
        /\ DOMAIN frames'[p] = 1..(Len(frames[p]) + 1)
        /\ frames'[p][Len(frames[p]) + 1] = f
        /\ \A i \in DOMAIN frames[p] : frames'[p][i] = frames[p][i]
    BY <1>1, <1>5, AppendProperties
  <2>2. Coming(p)' = Coming(p) /\ \A i \in Coming(p) : frames'[p][i] = frames[p][i]
    BY <2>1 DEF Coming
  <2>3. Ordered(p)'
    BY <2>2 DEF Sound, Ordered
  <2>4. Filling(p)'
    BY <1>1, <1>3, <1>5 DEF Sound, Filling
  <2>5. Complete(p)'
    <3>1. \A s \in Nat : Gapless(p, s) => Gapless(p, s)'
      BY <2>2 DEF Gapless
    <3> QED BY <1>1, <3>1 DEF Sound, Complete
  <2> QED BY <2>3, <2>4, <2>5 DEF Sound
<1> QED BY <1>4, <1>5 DEF Announce, Publish

LEMMA ComingType ==
    ASSUME NEW p \in Pages, TypeOK
    PROVE  /\ \A i \in Coming(p) : i \in 1..Len(frames[p]) /\ frames[p][i].id \in Nat
           /\ \A i \in DOMAIN stream[p] : stream[p][i] \in Nat
           /\ \A i \in DOMAIN answers[p] : Len(answers[p][i].messages) \in Nat
<1>1. frames[p] \in Seq(Told) /\ stream[p] \in Seq(Nat) /\ answers[p] \in Seq(Answer)
  BY DEF TypeOK
<1>2. \A i \in DOMAIN frames[p] : i \in 1..Len(frames[p]) /\ frames[p][i] \in Told
  BY <1>1
<1>3. \A t \in Told : t.id \in Nat
  BY DEF Told
<1>4. \A a \in Answer : Len(a.messages) \in Nat
  BY DEF Answer
<1>5. \A i \in DOMAIN answers[p] : answers[p][i] \in Answer
  BY <1>1
<1>6. \A i \in Coming(p) : i \in 1..Len(frames[p]) /\ frames[p][i].id \in Nat
  BY <1>2, <1>3 DEF Coming
<1> QED BY <1>1, <1>4, <1>5, <1>6

\* An answer has the newest messages of some moment.
LEMMA ServedIs ==
    ASSUME NEW p \in Pages, Sound(p), NEW i \in DOMAIN answers[p]
    PROVE  /\ \E n \in 0..messages : /\ answers[p][i].messages = Newest(n)
                                     /\ phase[p] = "loading" /\ ~lost[p] => n = messages
           /\ \E n \in 0..messages : answers[p][i].messages = Newest(n)
<1>1. PICK n \in 0..messages : answers[p][i].messages = Newest(n)
                               /\ (phase[p] = "loading" /\ ~lost[p] => n = messages)
  BY DEF Sound, Filling
<1> QED BY <1>1

LEMMA SayKeeps ==
    ASSUME NEW p \in Pages, TypeOK, Sound(p), Say
    PROVE  Sound(p)'
<1> DEFINE f == Frame("message", messages + 1)
<1>1. /\ messages \in Nat /\ messages' = messages + 1 /\ stream' = stream /\ phase' = phase
      /\ answers' = answers /\ role' = role /\ asked' = asked
      /\ (lost'[p] <=> lost[p] \/ Unheard(p)) /\ frames[p] \in Seq(Told) /\ stream[p] \in Seq(Nat)
      /\ frames'[p] = IF phase[p] = "live" THEN Append(frames[p], f) ELSE frames[p]
      /\ f \in Told
  <2>1. messages \in Nat /\ frames[p] \in Seq(Told) /\ stream[p] \in Seq(Nat)
    BY DEF TypeOK
  <2>2. UNCHANGED <<role, stream, phase, answers, asked>> /\ messages' = messages + 1
    BY DEF Say
  <2>3. f \in Told
    BY <2>1, FrameType
  <2>4. frames'[p] = IF phase[p] = "live" THEN Append(frames[p], f) ELSE frames[p]
    BY DEF Say, Publish
  <2>5. lost'[p] <=> lost[p] \/ Unheard(p)
    BY DEF Say
  <2> QED BY <2>1, <2>2, <2>3, <2>4, <2>5
<1>2. f.kind = "message" /\ f.id = messages + 1
  BY DEF Frame
<1> HIDE DEF f
<1>3. CASE phase[p] # "live"
  <2>1. Ordered(p)'
    <3>1. Coming(p)' = Coming(p) /\ frames'[p] = frames[p]
      BY <1>1, <1>3 DEF Coming
    <3> QED BY <1>1, <3>1, ComingType DEF Sound, Ordered
  <2>2. Filling(p)'
    <3>1. ASSUME NEW i \in DOMAIN answers[p], phase[p] = "loading", ~lost'[p] PROVE FALSE
      <4>1. answers[p] # <<>>
        BY <3>1
      <4> QED BY <1>1, <3>1, <4>1 DEF Unheard
    <3>2. ASSUME NEW i \in DOMAIN answers[p]
          PROVE  \E n \in 0..(messages + 1) : answers[p][i].messages = Newest(n)
      <4>1. PICK n \in 0..messages : answers[p][i].messages = Newest(n)
        BY ServedIs
      <4>2. n \in 0..(messages + 1)
        BY <1>1
      <4> QED BY <4>1, <4>2
    <3>3. frames'[p] = frames[p] /\ DOMAIN answers'[p] = DOMAIN answers[p]
      BY <1>1, <1>3
    <3> QED BY <1>1, <3>1, <3>2, <3>3 DEF Sound, Filling
  <2>3. Complete(p)'
    BY <1>1, <1>3 DEF Complete, Unheard
  <2> QED BY <2>1, <2>2, <2>3 DEF Sound
<1>4. CASE phase[p] = "live"
  <2>1. /\ DOMAIN frames[p] = 1..Len(frames[p]) /\ Len(frames[p]) \in Nat
        /\ DOMAIN frames'[p] = 1..(Len(frames[p]) + 1)
        /\ frames'[p][Len(frames[p]) + 1] = f
        /\ \A i \in DOMAIN frames[p] : frames'[p][i] = frames[p][i]
    BY <1>1, <1>4, AppendProperties
  <2>2. /\ Coming(p)' = Coming(p) \cup {Len(frames[p]) + 1}
        /\ \A i \in Coming(p) : /\ i \in 1..Len(frames[p]) /\ frames'[p][i] = frames[p][i]
                                /\ frames[p][i].id \in Nat
    BY <1>1, <1>2, <2>1, ComingType DEF Coming
  <2>3. \A i \in DOMAIN stream[p] : stream[p][i] \in Nat
    BY <1>1
  <2>4. /\ \A i \in DOMAIN stream'[p] : stream'[p][i] <= messages'
        /\ \A i, j \in DOMAIN stream'[p] : i < j => stream'[p][i] < stream'[p][j]
    BY <1>1, <2>3 DEF Sound, Ordered
  <2>5. \A i \in Coming(p)' : /\ 0 < frames'[p][i].id /\ frames'[p][i].id <= messages'
                              /\ \A j \in DOMAIN stream'[p] : stream'[p][j] < frames'[p][i].id
    BY <1>1, <1>2, <2>1, <2>2, <2>3 DEF Sound, Ordered
  <2>6. \A i, j \in Coming(p)' : i < j => frames'[p][i].id < frames'[p][j].id
    BY <1>1, <1>2, <2>1, <2>2 DEF Sound, Ordered
  <2>7. Filling(p)'
    <3>1. ASSUME NEW i \in DOMAIN answers[p]
          PROVE  \E n \in 0..(messages + 1) : answers[p][i].messages = Newest(n)
      <4>1. PICK n \in 0..messages : answers[p][i].messages = Newest(n)
        BY ServedIs
      <4>2. n \in 0..(messages + 1)
        BY <1>1
      <4> QED BY <4>1, <4>2
    <3> QED BY <1>1, <1>4, <3>1 DEF Sound, Filling
  <2>8. Complete(p)'
    <3> SUFFICES ASSUME ~lost[p] PROVE \E s \in Nat : Gapless(p, s)'
      BY <1>1 DEF Complete
    <3>1. PICK s \in Nat : Gapless(p, s)
      BY <1>4 DEF Sound, Complete
    <3>2. ASSUME NEW k \in (s + Len(stream[p]) + 1)..(messages + 1)
          PROVE  \E i \in Coming(p)' : frames'[p][i].id = k
      <4>1. CASE k = messages + 1
        BY <1>2, <2>1, <2>2, <4>1
      <4>2. CASE k # messages + 1
        <5>1. k \in (s + Len(stream[p]) + 1)..messages
          BY <1>1, <3>1, <4>2
        <5> QED BY <2>2, <3>1, <5>1 DEF Gapless
      <4> QED BY <4>1, <4>2
    <3>3. Gapless(p, s)'
      BY <1>1, <3>1, <3>2 DEF Gapless
    <3> QED BY <3>3
  <2> QED BY <2>4, <2>5, <2>6, <2>7, <2>8 DEF Sound, Ordered
<1> QED BY <1>3, <1>4

LEMMA HearsKeeps ==
    ASSUME NEW p \in Pages, TypeOK, Sound(p), Hears(p)
    PROVE  Sound(p)'
<1> DEFINE f == Head(frames[p])
<1>1. /\ messages' = messages /\ phase' = phase /\ role' = role /\ lost' = lost
      /\ frames[p] # <<>> /\ frames'[p] = Tail(frames[p])
      /\ frames[p] \in Seq(Told) /\ stream[p] \in Seq(Nat) /\ messages \in Nat
  BY DEF Hears, TypeOK, room, history
<1>2. /\ Len(frames[p]) \in Nat /\ Len(frames[p]) > 0 /\ DOMAIN frames[p] = 1..Len(frames[p])
      /\ DOMAIN frames'[p] = 1..(Len(frames[p]) - 1)
      /\ \A i \in DOMAIN frames'[p] : frames'[p][i] = frames[p][i + 1]
      /\ f = frames[p][1] /\ f \in Told
  BY <1>1
<1>3. /\ DOMAIN answers'[p] = DOMAIN answers[p]
      /\ \A i \in DOMAIN answers[p] : answers'[p][i].messages = answers[p][i].messages
  <2>1. answers' = [answers EXCEPT ![p] = [i \in DOMAIN answers[p] |-> Passed(f, answers[p][i])]]
    BY DEF Hears
  <2>2. \A a \in Answer : Passed(f, a).messages = a.messages
    BY OldAnswer DEF Passed, Answer
  <2>3. \A i \in DOMAIN answers[p] : answers[p][i] \in Answer
    BY DEF TypeOK
  <2> HIDE DEF f
  <2> QED BY <2>1, <2>2, <2>3 DEF TypeOK
<1>4. phase[p] # "gate" /\ phase[p] # "loading"
  BY <1>1 DEF Sound, Filling
<1>5. Filling(p)'
  BY <1>1, <1>3, <1>4 DEF Sound, Filling
<1>6. \A i : i \in Coming(p)' <=> i \in Nat /\ i + 1 \in Coming(p) /\ i # 0
  BY <1>2 DEF Coming
<1>7. \A i \in Coming(p) : i \in 1..Len(frames[p]) /\ frames[p][i].id \in Nat
  BY ComingType
<1>8. \A i \in DOMAIN stream[p] : stream[p][i] \in Nat
  BY <1>1
<1>9. CASE f.kind # "message"
  <2>1. stream' = stream
    BY <1>1, <1>2, <1>9 DEF Hears, Told
  <2>2. \A i \in Coming(p) : i - 1 \in Coming(p)' /\ i > 1
    <3> SUFFICES ASSUME NEW i \in Coming(p) PROVE i - 1 \in Coming(p)' /\ i > 1
      OBVIOUS
    <3>1. i \in 1..Len(frames[p]) /\ i # 1
      BY <1>2, <1>7, <1>9 DEF Coming
    <3>2. i - 1 \in Nat /\ i - 1 # 0 /\ (i - 1) + 1 = i /\ i > 1
      BY <1>2, <3>1
    <3> QED BY <1>6, <3>2
  <2>3. \A i \in Coming(p)' : i + 1 \in Coming(p) /\ frames'[p][i] = frames[p][i + 1] /\ i \in Nat
    BY <1>2, <1>6 DEF Coming
  <2>4. Ordered(p)'
    <3>1. \A i, j \in Coming(p)' : i < j => frames'[p][i].id < frames'[p][j].id
      <4>1. \A i, j \in Coming(p)' : i < j => i + 1 < j + 1
        BY <2>3
      <4> QED BY <2>3, <4>1 DEF Sound, Ordered
    <3>2. \A i \in Coming(p)' : /\ 0 < frames'[p][i].id /\ frames'[p][i].id <= messages
                                /\ \A j \in DOMAIN stream[p] : stream[p][j] < frames'[p][i].id
      BY <2>3 DEF Sound, Ordered
    <3> QED BY <1>1, <2>1, <3>1, <3>2 DEF Sound, Ordered
  <2>5. \A i \in Coming(p) : frames'[p][i - 1] = frames[p][i]
    BY <1>2, <1>7, <2>2 DEF Coming
  <2>6. Complete(p)'
    <3> SUFFICES ASSUME phase[p] \in {"connecting", "live"}, ~lost[p] PROVE \E s \in Nat : Gapless(p, s)'
      BY <1>1 DEF Complete
    <3>1. PICK s \in Nat : Gapless(p, s)
      BY DEF Sound, Complete
    <3>2. ASSUME NEW k \in (s + Len(stream[p]) + 1)..messages PROVE \E i \in Coming(p)' : frames'[p][i].id = k
      <4>1. PICK i \in Coming(p) : frames[p][i].id = k
        BY <3>1 DEF Gapless
      <4> QED BY <2>2, <2>5, <4>1
    <3>3. Gapless(p, s)'
      BY <1>1, <2>1, <3>1, <3>2 DEF Gapless
    <3> QED BY <3>3
  <2> QED BY <1>5, <2>4, <2>6 DEF Sound
<1>10. CASE f.kind = "message"
  <2>1. stream'[p] = Append(stream[p], f.id) /\ f.id \in Nat
    BY <1>2, <1>10 DEF Hears, TypeOK, Told
  <2>2. /\ DOMAIN stream[p] = 1..Len(stream[p]) /\ Len(stream[p]) \in Nat
        /\ DOMAIN stream'[p] = 1..(Len(stream[p]) + 1) /\ Len(stream'[p]) = Len(stream[p]) + 1
        /\ stream'[p][Len(stream[p]) + 1] = f.id
        /\ \A i \in DOMAIN stream[p] : stream'[p][i] = stream[p][i]
    BY <1>1, <2>1, AppendProperties
  <2>3. 1 \in Coming(p) /\ frames[p][1].id = f.id
    BY <1>2, <1>10 DEF Coming
  <2>4. \A i \in Coming(p)' : /\ i + 1 \in Coming(p) /\ frames'[p][i] = frames[p][i + 1]
                              /\ i \in Nat /\ 1 < i + 1
    BY <1>2, <1>6 DEF Coming
  <2>5. \A i \in Coming(p) : i = 1 \/ (i - 1 \in Coming(p)' /\ frames'[p][i - 1] = frames[p][i] /\ 1 < i)
    <3> SUFFICES ASSUME NEW i \in Coming(p), i # 1
                 PROVE  i - 1 \in Coming(p)' /\ frames'[p][i - 1] = frames[p][i] /\ 1 < i
      OBVIOUS
    <3>1. i \in 1..Len(frames[p])
      BY <1>7
    <3>2. i - 1 \in Nat /\ i - 1 # 0 /\ (i - 1) + 1 = i /\ 1 < i /\ i - 1 \in 1..(Len(frames[p]) - 1)
      BY <1>2, <3>1
    <3>3. i - 1 \in Coming(p)'
      BY <1>6, <3>2
    <3> QED BY <1>2, <3>2, <3>3
  <2> HIDE DEF f
  <2>6. \A i, j \in DOMAIN stream'[p] : i < j => stream'[p][i] < stream'[p][j]
    <3>1. \A i \in DOMAIN stream[p] : stream[p][i] < f.id /\ i < Len(stream[p]) + 1
      BY <2>2, <2>3 DEF Sound, Ordered
    <3>2. \A i \in DOMAIN stream'[p] : i \in DOMAIN stream[p] \/ i = Len(stream[p]) + 1
      BY <2>2
    <3>3. \A i, j \in DOMAIN stream[p] : i < j => stream[p][i] < stream[p][j]
      BY DEF Sound, Ordered
    <3> QED BY <2>2, <3>1, <3>2, <3>3
  <2>7. \A i \in DOMAIN stream'[p] : stream'[p][i] <= messages'
    <3>1. \A i \in DOMAIN stream'[p] : i \in DOMAIN stream[p] \/ i = Len(stream[p]) + 1
      BY <2>2
    <3>2. \A i \in DOMAIN stream[p] : stream[p][i] <= messages
      BY DEF Sound, Ordered
    <3>3. f.id <= messages
      BY <2>3 DEF Sound, Ordered
    <3> QED BY <1>1, <2>2, <3>1, <3>2, <3>3
  <2>8. \A i \in Coming(p)' : /\ 0 < frames'[p][i].id /\ frames'[p][i].id <= messages'
                              /\ \A j \in DOMAIN stream'[p] : stream'[p][j] < frames'[p][i].id
    <3>1. TAKE i \in Coming(p)'
    <3>2. 0 < frames'[p][i].id /\ frames'[p][i].id <= messages' /\ f.id < frames'[p][i].id
      BY <1>1, <1>7, <2>3, <2>4 DEF Sound, Ordered
    <3>3. \A j \in DOMAIN stream[p] : stream[p][j] < frames'[p][i].id
      BY <2>4 DEF Sound, Ordered
    <3> QED BY <2>2, <3>2, <3>3
  <2>9. \A i, j \in Coming(p)' : i < j => frames'[p][i].id < frames'[p][j].id
    BY <1>7, <2>4 DEF Sound, Ordered
  <2>10. Complete(p)'
    <3> SUFFICES ASSUME phase[p] \in {"connecting", "live"}, ~lost[p] PROVE \E s \in Nat : Gapless(p, s)'
      BY <1>1 DEF Complete
    <3>0. PICK s \in Nat : Gapless(p, s)
      BY DEF Sound, Complete
    <3>1. \A i \in DOMAIN stream[p] : stream[p][i] = s + i
      BY <3>0 DEF Gapless
    <3>2. \A k \in (s + Len(stream[p]) + 1)..messages : \E i \in Coming(p) : frames[p][i].id = k
      BY <3>0 DEF Gapless
    <3>3. f.id > s + Len(stream[p]) /\ f.id <= messages
      <4>1. 0 < f.id /\ f.id <= messages /\ \A i \in DOMAIN stream[p] : stream[p][i] < f.id
        BY <2>3 DEF Sound, Ordered
      <4>2. CASE Len(stream[p]) > 0
        <5>1. Len(stream[p]) \in DOMAIN stream[p]
          BY <2>2, <4>2
        <5>2. stream[p][Len(stream[p])] = s + Len(stream[p])
          BY <3>1, <5>1
        <5> QED BY <4>1, <5>1, <5>2
      <4>3. CASE Len(stream[p]) = 0
        <5>1. s = 0
          BY <3>0, <4>3, PageAssumption DEF Gapless
        <5> QED BY <4>1, <4>3, <5>1
      <4> QED BY <2>2, <4>2, <4>3
    <3>4. f.id = s + Len(stream[p]) + 1
      <4>1. PICK i \in Coming(p) : frames[p][i].id = s + Len(stream[p]) + 1
        <5>1. s + Len(stream[p]) + 1 \in (s + Len(stream[p]) + 1)..messages
          BY <1>1, <2>1, <2>2, <2>3, <3>3
        <5> QED BY <3>2, <5>1
      <4>2. i = 1 \/ 1 < i
        BY <1>7
      <4>3. 1 < i => f.id < s + Len(stream[p]) + 1
        BY <2>3, <4>1 DEF Sound, Ordered
      <4> QED BY <2>1, <2>2, <2>3, <3>3, <4>1, <4>2, <4>3
    <3>5. \A i \in DOMAIN stream'[p] : stream'[p][i] = s + i
      BY <2>2, <3>1, <3>4
    <3>6. ASSUME NEW k \in (s + Len(stream'[p]) + 1)..messages' PROVE \E i \in Coming(p)' : frames'[p][i].id = k
      <4>0. k \in (s + Len(stream[p]) + 1)..messages /\ k # s + Len(stream[p]) + 1
        BY <1>1, <2>2
      <4>1. PICK i \in Coming(p) : frames[p][i].id = k
        BY <3>2, <4>0
      <4>2. i # 1
        BY <2>3, <3>4, <4>0, <4>1
      <4> QED BY <2>5, <4>1, <4>2
    <3>7. s = 0 \/ Len(stream'[p]) >= MaxRecent
      <4>1. Len(stream[p]) >= MaxRecent => Len(stream[p]) + 1 >= MaxRecent
        BY <2>2, PageAssumption
      <4> QED BY <2>2, <3>0, <4>1 DEF Gapless
    <3>8. Gapless(p, s)'
      BY <3>5, <3>6, <3>7 DEF Gapless
    <3> QED BY <3>8
  <2> QED BY <1>5, <2>6, <2>7, <2>8, <2>9, <2>10 DEF Sound, Ordered
<1> QED BY <1>9, <1>10

\* An answer that arrives leaves those served later as they are, those served before it
\* of the past.
LEMMA LoadLeaves ==
    ASSUME TypeOK, NEW p \in Pages, NEW n \in DOMAIN answers[p], Load(p, n)
    PROVE  \A i \in DOMAIN answers'[p] : \E k \in DOMAIN answers[p] :
              \/ answers'[p][i] = answers[p][k]
              \/ /\ answers'[p][i].old /\ answers'[p][i].behind = answers[p][k].behind
                 /\ answers'[p][i].cards = answers[p][k].cards
                 /\ answers'[p][i].messages = answers[p][k].messages
<1> DEFINE before == SubSeq(answers[p], 1, n - 1)
           after  == SubSeq(answers[p], n + 1, Len(answers[p]))
<1>1. /\ answers[p] \in Seq(Answer) /\ n \in 1..Len(answers[p]) /\ Len(answers[p]) \in Nat
      /\ DOMAIN answers[p] = 1..Len(answers[p]) /\ answers'[p] = Outdated(before) \o after
  <2>1. /\ answers[p] \in Seq(Answer) /\ n \in 1..Len(answers[p]) /\ Len(answers[p]) \in Nat
        /\ DOMAIN answers[p] = 1..Len(answers[p])
    BY ViewsAre
  <2>2. answers'[p] = Outdated(before) \o after
    BY DEF Load, TypeOK
  <2> QED BY <2>1, <2>2
<1>2. /\ before \in Seq(Answer) /\ Len(before) = n - 1 /\ DOMAIN before = 1..(n - 1)
      /\ \A i \in 1..(n - 1) : before[i] = answers[p][i]
  <2>1. answers[p] \in Seq(Answer) /\ 1 \in Nat /\ n - 1 \in Nat /\ n - 1 <= Len(answers[p])
    BY <1>1
  <2> QED BY <2>1, SubSeqProperties
<1>3. /\ after \in Seq(Answer) /\ Len(after) = Len(answers[p]) - n
      /\ \A i \in 1..(Len(answers[p]) - n) : after[i] = answers[p][n + i]
  <2> DEFINE last == Len(answers[p])
  <2>1. answers[p] \in Seq(Answer) /\ last \in Nat /\ n \in Nat /\ n > 0 /\ n <= last
    BY <1>1
  <2>2. after \in Seq(Answer) /\ Len(after) = last - n
    BY <2>1
  <2>3. \A i \in 1..(last - n) : after[i] = answers[p][n + i]
    BY <2>1
  <2> QED BY <2>2, <2>3
<1> HIDE DEF before, after
<1>4. /\ Outdated(before) \in Seq(Answer) /\ Len(Outdated(before)) = n - 1
      /\ \A i \in 1..(n - 1) : /\ Outdated(before)[i].old /\ Outdated(before)[i].behind = answers[p][i].behind
                               /\ Outdated(before)[i].cards = answers[p][i].cards
                               /\ Outdated(before)[i].messages = answers[p][i].messages
  <2>1. Outdated(before) \in Seq(Answer) /\ Len(Outdated(before)) = Len(before)
    BY <1>2, OutdatedType
  <2>2. \A i \in DOMAIN before : /\ Outdated(before)[i].old /\ Outdated(before)[i].behind = before[i].behind
                                 /\ Outdated(before)[i].cards = before[i].cards
                                 /\ Outdated(before)[i].messages = before[i].messages
    BY <1>2, OutdatedIs
  <2> QED BY <1>2, <2>1, <2>2
<1>5. /\ DOMAIN answers'[p] = 1..(Len(answers[p]) - 1)
      /\ \A i \in 1..(n - 1) : answers'[p][i] = Outdated(before)[i]
      /\ \A i \in n..(Len(answers[p]) - 1) : answers'[p][i] = after[i - (n - 1)]
  <2>1. Len(Outdated(before)) + Len(after) = Len(answers[p]) - 1
    BY <1>1, <1>3, <1>4
  <2>2. /\ DOMAIN answers'[p] = 1..(Len(Outdated(before)) + Len(after))
        /\ \A i \in 1..(Len(Outdated(before)) + Len(after)) :
              answers'[p][i] = IF i <= Len(Outdated(before)) THEN Outdated(before)[i]
                               ELSE after[i - Len(Outdated(before))]
    <3>1. Outdated(before) \in Seq(Answer) /\ after \in Seq(Answer)
      BY <1>3, <1>4
    <3>2. /\ Len(Outdated(before) \o after) = Len(Outdated(before)) + Len(after)
          /\ Outdated(before) \o after \in Seq(Answer)
          /\ \A i \in 1..(Len(Outdated(before)) + Len(after)) :
                (Outdated(before) \o after)[i] = IF i <= Len(Outdated(before)) THEN Outdated(before)[i]
                                                 ELSE after[i - Len(Outdated(before))]
      BY <3>1, ConcatProperties
    <3>3. DOMAIN answers'[p] = 1..(Len(Outdated(before)) + Len(after))
      BY <1>1, <3>2
    <3> QED BY <1>1, <3>2, <3>3
  <2>3. \A i \in 1..(n - 1) : i \in 1..(Len(answers[p]) - 1) /\ i <= n - 1
    BY <1>1
  <2>4. \A i \in n..(Len(answers[p]) - 1) : i \in 1..(Len(answers[p]) - 1) /\ ~(i <= n - 1)
    BY <1>1
  <2> QED BY <1>4, <2>1, <2>2, <2>3, <2>4
<1> SUFFICES ASSUME NEW i \in 1..(Len(answers[p]) - 1)
             PROVE  \E k \in DOMAIN answers[p] :
                       \/ answers'[p][i] = answers[p][k]
                       \/ /\ answers'[p][i].old /\ answers'[p][i].behind = answers[p][k].behind
                          /\ answers'[p][i].cards = answers[p][k].cards
                          /\ answers'[p][i].messages = answers[p][k].messages
  BY <1>5
<1>6. CASE i \in 1..(n - 1)
  <2>1. i \in DOMAIN answers[p]
    BY <1>1
  <2> QED BY <1>4, <1>5, <1>6, <2>1
<1>7. CASE i \notin 1..(n - 1)
  <2>1. /\ i \in n..(Len(answers[p]) - 1) /\ i - (n - 1) \in 1..(Len(answers[p]) - n)
        /\ n + (i - (n - 1)) = i + 1 /\ i + 1 \in DOMAIN answers[p]
    BY <1>1, <1>7
  <2> QED BY <1>3, <1>5, <2>1
<1> QED BY <1>6, <1>7

LEMMA LoadKeeps ==
    ASSUME NEW p \in Pages, TypeOK, Sound(p), NEW n \in DOMAIN answers[p], Load(p, n)
    PROVE  Sound(p)'
<1> DEFINE a == answers[p][n]
<1>1. /\ answers[p] \in Seq(Answer) /\ n \in 1..Len(answers[p]) /\ a \in Answer
      /\ stream[p] \in Seq(Nat) /\ messages \in Nat
  BY DEF TypeOK
<1>2. /\ UNCHANGED <<role, messages, frames, lost>>
      /\ stream'[p] = Filled(p, a)
      /\ phase'[p] = IF phase[p] = "loading" THEN "connecting" ELSE phase[p]
      /\ answers'[p] = Outdated(SubSeq(answers[p], 1, n - 1)) \o SubSeq(answers[p], n + 1, Len(answers[p]))
  BY DEF Load, TypeOK, room
<1>3. \A i \in DOMAIN answers'[p] : \E k \in DOMAIN answers[p] : answers'[p][i].messages = answers[p][k].messages
  BY LoadLeaves
<1>4. PICK m \in 0..messages : a.messages = Newest(m) /\ (phase[p] = "loading" /\ ~lost[p] => m = messages)
  BY ServedIs
<1>5. phase[p] # "gate" \/ role[p] = "gone"
  BY <1>1 DEF Sound, Filling
<1>6. CASE phase[p] # "loading"
  <2>1. stream'[p] = stream[p] /\ phase'[p] = phase[p]
    BY <1>2, <1>6 DEF Filled
  <2>2. Coming(p)' = Coming(p)
    BY <1>2 DEF Coming
  <2>3. Ordered(p)' /\ Complete(p)'
    BY <1>2, <2>1, <2>2 DEF Sound, Ordered, Complete, Gapless
  <2>4. Filling(p)'
    BY <1>2, <1>3, <1>5, <1>6, <2>1 DEF Sound, Filling
  <2> QED BY <2>3, <2>4 DEF Sound
<1>7. CASE phase[p] = "loading"
  <2>1. stream'[p] = a.messages /\ phase'[p] = "connecting" /\ frames'[p] = <<>>
    BY <1>2, <1>7 DEF Filled, Sound, Filling
  <2>2. Coming(p)' = {}
    BY <2>1 DEF Coming
  <2> DEFINE size == Len(Newest(m))
             first == m - size
  <2>3. /\ size \in Nat /\ first \in Nat /\ m \in Nat /\ m <= messages /\ m = first + size
        /\ first = 0 \/ size = MaxRecent
        /\ DOMAIN stream'[p] = 1..size /\ Len(stream'[p]) = size
        /\ \A i \in 1..size : stream'[p][i] = first + i
    <3>1. m \in Nat /\ m <= messages
      BY <1>1
    <3>2. /\ DOMAIN Newest(m) = 1..size /\ size \in Nat /\ size <= m
          /\ size = m \/ size = MaxRecent
          /\ \A i \in DOMAIN Newest(m) : Newest(m)[i] = m - size + i
      BY <3>1, NewestIs
    <3>3. stream'[p] = Newest(m) /\ Len(stream'[p]) = size
      BY <1>4, <2>1
    <3> HIDE DEF size
    <3> QED BY <3>1, <3>2, <3>3
  <2> HIDE DEF a, size, first
  <2>4. Ordered(p)'
    <3>1. \A i \in 1..size : first + i <= messages /\ \A j \in 1..size : i < j => first + i < first + j
      BY <1>1, <2>3
    <3> QED BY <1>2, <2>2, <2>3, <3>1 DEF Ordered
  <2>5. Filling(p)'
    BY <1>2, <1>3, <2>1 DEF Sound, Filling
  <2>7. Complete(p)'
    <3> SUFFICES ASSUME ~lost[p] PROVE Gapless(p, first)'
      BY <1>2, <2>3 DEF Complete
    <3>1. m = messages
      BY <1>4, <1>7
    <3>2. \A k \in (first + size + 1)..messages : FALSE
      BY <1>1, <2>3, <3>1
    <3>3. first = 0 \/ size >= MaxRecent
      BY <2>3, PageAssumption
    <3> QED BY <1>2, <2>3, <3>2, <3>3 DEF Gapless
  <2> QED BY <2>4, <2>5, <2>7 DEF Sound
<1> QED BY <1>6, <1>7

LEMMA ServeStateKeeps ==
    ASSUME NEW p \in Pages, TypeOK, Sound(p), ServeState(p)
    PROVE  Sound(p)'
<1>1. /\ UNCHANGED <<role, messages, frames, lost, stream>> /\ messages \in Nat /\ answers[p] \in Seq(Answer)
  BY DEF ServeState, room, history, TypeOK
<1>2. CASE role[p] # "gone"
  <2> DEFINE new == Snapshot(p)
  <2>1. answers'[p] = Append(answers[p], new) /\ phase' = phase
    BY <1>2 DEF ServeState, TypeOK
  <2>2. new.messages = Newest(messages) /\ messages \in 0..messages
    BY <1>1 DEF Snapshot
  <2>5. new \in Answer
    <3>1. Newest(messages) \in Seq(Nat)
      BY <1>1, NewestIs
    <3>2. Pending \in SUBSET Nat
      BY DEF Pending, TypeOK
    <3> QED BY <3>1, <3>2 DEF Snapshot, Answer, MayApprove, TypeOK
  <2> HIDE DEF new
  <2>3. /\ DOMAIN answers[p] = 1..Len(answers[p]) /\ Len(answers[p]) \in Nat
        /\ DOMAIN answers'[p] = 1..(Len(answers[p]) + 1)
        /\ \A i \in DOMAIN answers[p] : answers'[p][i] = answers[p][i]
        /\ answers'[p][Len(answers[p]) + 1] = new
    BY <1>1, <2>1, <2>5, AppendProperties
  <2>4. Ordered(p)' /\ Complete(p)'
    BY <1>1, <2>1 DEF Sound, Ordered, Complete, Gapless, Coming
  <2>6. \A i \in DOMAIN answers'[p] : i \in DOMAIN answers[p] \/ i = Len(answers[p]) + 1
    BY <2>3
  <2>7. \A i \in DOMAIN answers'[p] :
          \E n \in 0..messages : /\ answers'[p][i].messages = Newest(n)
                                 /\ phase[p] = "loading" /\ ~lost[p] => n = messages
    BY <2>2, <2>3, <2>6 DEF Sound, Filling
  <2>8. phase[p] # "gate"
    BY <1>2 DEF ServeState, Sound, Filling, TypeOK
  <2>9. Filling(p)'
    BY <1>1, <2>1, <2>7, <2>8 DEF Sound, Filling
  <2> QED BY <2>4, <2>9 DEF Sound
<1>3. CASE role[p] = "gone"
  <2>1. answers' = answers /\ phase'[p] = (IF phase[p] = "loading" THEN "gate" ELSE phase[p])
    BY <1>3 DEF ServeState, TypeOK
  <2>2. Ordered(p)'
    BY <1>1 DEF Sound, Ordered, Coming
  <2>3. Filling(p)'
    BY <1>1, <1>3, <2>1 DEF Sound, Filling
  <2>4. Complete(p)'
    BY <1>1, <2>1 DEF Sound, Complete, Gapless, Coming
  <2> QED BY <2>2, <2>3, <2>4 DEF Sound
<1> QED BY <1>2, <1>3

\* One step per action: those of p itself, of other pages, and of the room.
LEMMA SoundStep ==
    ASSUME NEW p \in Pages, TypeOK, Sound(p), [Next]_vars
    PROVE  Sound(p)'
<1> USE DEF room, link, clicks, history
<1>1. ASSUME UNCHANGED <<role, messages>>, stream'[p] = stream[p], lost'[p] = lost[p],
             frames'[p] = frames[p], phase'[p] = phase[p], answers'[p] = answers[p],
             asked'[p] = asked[p]
      PROVE  Sound(p)'
  BY <1>1, Carries
<1>2. CASE Ask
  <2>1. Frame("request", Len(prompts) + 1) \in Told /\ Frame("request", Len(prompts) + 1).kind # "message"
    BY FrameType DEF TypeOK, Frame
  <2> QED BY <1>2, <2>1, AnnounceCarries DEF Ask
<1>3. CASE TurnStarts \/ TurnEnds \/ Tells
  <2>1. Frame("news", 0) \in Told /\ Frame("news", 0).kind # "message"
    BY FrameType DEF Frame
  <2> QED BY <1>3, <2>1, AnnounceCarries DEF TurnStarts, TurnEnds, Tells
<1>4. CASE Say
  BY <1>4, SayKeeps
<1>5. CASE Restart
  <2>1. /\ UNCHANGED <<role, messages, stream>> /\ frames'[p] = <<>> /\ answers'[p] = <<>> /\ asked'[p] = 0
        /\ phase'[p] = IF phase[p] = "loading" THEN "gate"
                       ELSE IF phase[p] = "live" THEN "connecting" ELSE phase[p]
        /\ (lost'[p] <=> lost[p] \/ UnreadMessage(p))
    BY <1>5 DEF Restart
  <2>2. Coming(p)' = {}
    BY <2>1 DEF Coming
  <2>3. Ordered(p)' /\ Filling(p)'
    BY <2>1, <2>2 DEF Sound, Ordered, Filling
  <2>4. ~lost'[p] => Coming(p) = {}
    BY <2>1 DEF Coming, UnreadMessage
  <2>5. Complete(p)'
    BY <2>1, <2>4 DEF Sound, Complete, Gapless, TypeOK
  <2> QED BY <2>3, <2>5 DEF Sound
<1>6. ASSUME NEW id \in Pending, Expire(id) PROVE Sound(p)'
  <2>1. Frame("approval", id) \in Told /\ Frame("approval", id).kind # "message"
    BY FrameType DEF Pending, TypeOK, Frame
  <2> QED BY <1>6, <2>1, AnnounceCarries DEF Expire, Expired
<1>7. ASSUME NEW m \in Members, Role(m) PROVE Sound(p)'
  <2>1. /\ UNCHANGED <<messages, phase, frames, asked, stream, lost>>
        /\ answers'[p] = answers[p] \/ answers'[p] = Outdated(answers[p])
        /\ role[p] = "gone" => role'[p] = "gone"
    BY <1>7 DEF Role, Missed, TypeOK
  <2>2. answers[p] \in Seq(Answer)
    BY DEF TypeOK
  <2>3. /\ DOMAIN answers'[p] = DOMAIN answers[p]
        /\ \A i \in DOMAIN answers[p] : answers'[p][i].messages = answers[p][i].messages
        /\ answers[p] = <<>> => answers'[p] = <<>>
    BY <2>1, <2>2, OutdatedType DEF Outdated
  <2> QED BY <2>1, <2>3, Carries
<1>8. ASSUME NEW m \in Members, Leave(m) PROVE Sound(p)'
  <2>1. /\ UNCHANGED <<messages, frames, asked, answers, stream, lost>>
        /\ phase'[p] = phase[p] \/ (phase[p] = "live" /\ phase'[p] = "connecting")
        /\ role[p] = "gone" => role'[p] = "gone"
    BY <1>8 DEF Leave, TypeOK
  <2> QED BY <2>1, Carries
<1>9. ASSUME NEW c \in posts \cup Elsewhere, ServeVerdict(c) PROVE Sound(p)'
  <2>1. CASE c.id \in Pending /\ MayApprove(c.by)
    <3>1. Frame("approval", c.id) \in Told /\ Frame("approval", c.id).kind # "message"
      BY <2>1, FrameType DEF Pending, TypeOK, Frame
    <3>2. Announce(Frame("approval", c.id)) /\ UNCHANGED <<role, messages, stream>>
      BY <1>9, <2>1 DEF ServeVerdict
    <3> QED BY <3>1, <3>2, AnnounceCarries
  <2>2. CASE ~(c.id \in Pending /\ MayApprove(c.by))
    BY <1>1, <1>9, <2>2 DEF ServeVerdict
  <2> QED BY <2>1, <2>2
<1>10. ASSUME NEW r \in replies, Answered(r) PROVE Sound(p)'
  BY <1>1, <1>10 DEF Answered
<1>11. ASSUME NEW q \in Pages, Start(q) PROVE Sound(p)'
  <2>1. CASE q # p
    BY <1>1, <1>11, <2>1 DEF Start
  <2>2. CASE q = p
    <3>1. /\ UNCHANGED <<role, messages, frames, answers, stream, lost>>
          /\ phase[p] = "gate" /\ phase'[p] = "loading" /\ role[p] # "gone"
      BY <1>11, <2>2 DEF Start, TypeOK
    <3>2. answers[p] = <<>> /\ frames[p] = <<>>
      BY <3>1 DEF Sound, Filling
    <3>3. Ordered(p)' /\ Complete(p)'
      BY <3>1 DEF Sound, Ordered, Complete, Gapless, Coming
    <3>4. Filling(p)'
      BY <3>1, <3>2 DEF Filling
    <3> QED BY <3>3, <3>4 DEF Sound
  <2> QED BY <2>1, <2>2
<1>12. ASSUME NEW q \in Pages, ServeState(q) PROVE Sound(p)'
  <2>1. CASE q # p
    BY <1>1, <1>12, <2>1 DEF ServeState, TypeOK
  <2> QED BY <1>12, <2>1, ServeStateKeeps
<1>13. ASSUME NEW q \in Pages, Connect(q) PROVE Sound(p)'
  <2>1. /\ UNCHANGED <<role, messages, frames, answers, asked, stream, lost>>
        /\ phase'[p] = phase[p] \/ (phase[p] = "connecting" /\ phase'[p] = "live")
    BY <1>13 DEF Connect, TypeOK
  <2> QED BY <2>1, Carries
<1>14. ASSUME NEW q \in Pages, Hears(q) PROVE Sound(p)'
  <2>1. CASE q # p
    <3>1. UNCHANGED <<role, messages, phase, lost>> /\ frames'[p] = frames[p] /\ answers'[p] = answers[p]
      BY <1>14, <2>1 DEF Hears, TypeOK
    <3>2. Head(frames[q]).kind \in {"request", "approval", "news", "message"}
      <4>1. frames[q] \in Seq(Told) /\ frames[q] # <<>>
        BY <1>14 DEF Hears, TypeOK
      <4>2. Head(frames[q]) \in Told
        BY <4>1
      <4>3. \A t \in Told : t.kind \in {"request", "approval", "news", "message"}
        BY DEF Told
      <4> QED BY <4>2, <4>3
    <3>3. stream'[p] = stream[p] /\ asked'[p] = asked[p]
      BY <1>14, <2>1, <3>2 DEF Hears, TypeOK
    <3> QED BY <1>1, <3>1, <3>3
  <2> QED BY <1>14, <2>1, HearsKeeps
<1>15. ASSUME NEW q \in Pages, Cut(q) PROVE Sound(p)'
  <2>1. CASE q # p
    BY <1>1, <1>15, <2>1 DEF Cut, TypeOK
  <2>2. CASE q = p
    <3>1. /\ UNCHANGED <<role, messages, stream>> /\ frames'[p] = <<>> /\ phase[p] = "live" /\ phase'[p] = "connecting"
          /\ answers'[p] = Passing(p) /\ (lost'[p] <=> lost[p] \/ UnreadMessage(p))
      BY <1>15, <2>2 DEF Cut, TypeOK
    <3>2. Coming(p)' = {}
      BY <3>1 DEF Coming
    <3>3. \A i \in DOMAIN answers[p] : answers[p][i] \in Answer
      BY DEF TypeOK
    <3>4. /\ DOMAIN Passing(p) = DOMAIN answers[p]
          /\ \A i \in DOMAIN answers[p] : Passing(p)[i].messages = answers[p][i].messages
      BY <3>3 DEF Passing, Answer
    <3>5. Ordered(p)' /\ Filling(p)'
      <4>1. Ordered(p)'
        BY <3>1, <3>2 DEF Sound, Ordered
      <4>2. \A i \in DOMAIN answers'[p] :
               /\ i \in DOMAIN answers[p] /\ answers'[p][i].messages = answers[p][i].messages
        BY <3>1, <3>4
      <4>3. phase'[p] = "connecting"
        BY <3>1
      <4>4. \A i \in DOMAIN answers[p] : \E n \in 0..messages : answers[p][i].messages = Newest(n)
        BY ServedIs
      <4>5. messages' = messages
        BY <3>1
      <4>6. \A i \in DOMAIN answers'[p] : \E n \in 0..messages' : answers'[p][i].messages = Newest(n)
        BY <4>2, <4>4, <4>5
      <4>7. Filling(p)'
        BY <4>3, <4>6 DEF Filling
      <4> QED BY <4>1, <4>7
    <3>6. ~lost'[p] => Coming(p) = {}
      BY <3>1 DEF Coming, UnreadMessage
    <3>7. Complete(p)'
      BY <3>1, <3>6 DEF Sound, Complete, Gapless, TypeOK
    <3> QED BY <3>5, <3>7 DEF Sound
  <2> QED BY <2>1, <2>2
<1>16. ASSUME NEW q \in Pages, NEW i \in DOMAIN answers[q], Load(q, i) PROVE Sound(p)'
  <2>1. CASE q # p
    BY <1>1, <1>16, <2>1 DEF Load, TypeOK
  <2> QED BY <1>16, <2>1, LoadKeeps
<1>17. ASSUME NEW q \in Pages, NEW id \in Ids, Click(q, id) PROVE Sound(p)'
  BY <1>1, <1>17 DEF Click
<1>18. CASE UNCHANGED vars
  BY <1>1, <1>18 DEF vars
<1> QED BY <1>2, <1>3, <1>4, <1>5, <1>6, <1>7, <1>8, <1>9, <1>10, <1>11, <1>12, <1>13, <1>14,
           <1>15, <1>16, <1>17, <1>18 DEF Next

-----------------------------------------------------------------------------
(* Theorems.                                                               *)

LEMMA InitSound == Init => Known /\ VerdictsAreDue /\ \A p \in Pages : Sound(p)
BY DEF Init, Known, VerdictsAreDue, Sound, Ordered, Filling, Complete, Coming

\* The inductive invariant: the types, verdicts of prompts that were answered, and of each
\* page what it has and what is coming to it.
THEOREM PageInductive == Spec => []IInv
<1>1. Init => IInv
  BY TypeInit, InitSound DEF IInv
<1>2. IInv /\ [Next]_vars => IInv'
  BY TypeStep, DueStep, SoundStep DEF IInv
<1> QED BY <1>1, <1>2, PTL DEF Spec

\* Every variable keeps its type.
THEOREM PageTypes == Spec => []TypeOK
BY PageInductive, PTL DEF IInv

\* The session hears of a prompt once at most, of one that was open, and from an approver.
THEOREM VerdictsAlwaysDue == Spec => []VerdictsAreDue
BY PageInductive, PTL DEF IInv

\* The messages of a page are the room's, in order and none twice; and unless some were
\* published while it had no stream, the newest without a gap: as many as an answer of
\* /api/state has at least, or all there are.
THEOREM StreamAlwaysFaithful == Spec => []StreamFaithful
<1>1. IInv => StreamFaithful
  <2> SUFFICES ASSUME IInv, NEW p \in Pages
               PROVE  /\ \A i, j \in DOMAIN stream[p] : i < j => stream[p][i] < stream[p][j]
                      /\ Quiet(p) /\ ~lost[p] =>
                             /\ \A i \in DOMAIN stream[p] : stream[p][i] = messages - Len(stream[p]) + i
                             /\ Len(stream[p]) \in MaxRecent..messages \cup {messages}
    BY DEF StreamFaithful
  <2>1. Sound(p) /\ messages \in Nat /\ Len(stream[p]) \in Nat /\ DOMAIN stream[p] = 1..Len(stream[p])
    BY DEF IInv, TypeOK
  <2>2. ASSUME Quiet(p), ~lost[p]
        PROVE  /\ \A i \in DOMAIN stream[p] : stream[p][i] = messages - Len(stream[p]) + i
               /\ Len(stream[p]) \in MaxRecent..messages \cup {messages}
    <3>1. Coming(p) = {} /\ phase[p] = "live"
      BY <2>2 DEF Quiet, Coming
    <3>2. PICK s \in Nat : Gapless(p, s)
      BY <2>1, <2>2, <3>1 DEF Sound, Complete
    <3>3. s + Len(stream[p]) >= messages
      <4>1. \A k \in (s + Len(stream[p]) + 1)..messages : FALSE
        BY <3>1, <3>2 DEF Gapless
      <4> QED BY <2>1, <4>1
    <3>4. s = 0 \/ Len(stream[p]) >= MaxRecent
      BY <3>2 DEF Gapless
    <3>5. s + Len(stream[p]) = messages
      <4>1. CASE Len(stream[p]) = 0
        BY <2>1, <3>3, <3>4, <4>1, PageAssumption
      <4>2. CASE Len(stream[p]) # 0
        <5>1. Len(stream[p]) \in DOMAIN stream[p]
          BY <2>1, <4>2
        <5>2. stream[p][Len(stream[p])] = s + Len(stream[p]) /\ stream[p][Len(stream[p])] <= messages
          BY <2>1, <3>2, <5>1 DEF Sound, Gapless, Ordered
        <5> QED BY <2>1, <3>3, <5>2
      <4> QED BY <4>1, <4>2
    <3>6. s = messages - Len(stream[p])
      BY <2>1, <3>5
    <3>7. \A i \in DOMAIN stream[p] : stream[p][i] = s + i
      BY <3>2 DEF Gapless
    <3> QED BY <2>1, <3>4, <3>5, <3>6, <3>7, PageAssumption
  <2> QED BY <2>1, <2>2 DEF Sound, Ordered
<1> QED BY <1>1, PageInductive, PTL

-----------------------------------------------------------------------------
(* What pages show.                                                       *)

\* In a list of frames, after the first n: one of that kind about prompt id; other news.
Later(list, n, kind, id) ==
    \E i \in DOMAIN list : n < i /\ list[i].kind = kind /\ list[i].id = id

NewsLater(list, n) == \E i \in DOMAIN list : n < i /\ list[i].kind = "news"

\* Cards that become the open prompts when the frames after the first n are applied.
Becomes(cards, open, ids, list, n) ==
    \A id \in ids :
        id \in open <=> /\ ~Later(list, n, "approval", id)
                        /\ id \in cards \/ Later(list, n, "request", id)

\* Frames tell the end of prompts that ended, after their beginning; and where they tell
\* the beginning of a prompt that ended they tell the end.
Narrated(open, list) ==
    /\ \A i \in DOMAIN list : list[i].kind = "approval" => list[i].id \notin open
    /\ \A i \in DOMAIN list :
          list[i].kind = "request" /\ list[i].id \notin open => Later(list, i, "approval", list[i].id)
    /\ \A i, j \in DOMAIN list :
          list[i].kind = "approval" /\ list[j].kind = "request" /\ list[i].id = list[j].id => j < i

\* The prompts that page p has cards of.
Cards(p) == {id \in Ids : shown[p].cards[id] > 0}

\* Every card and every frame is of a prompt there is.
Numbered(p) ==
    /\ Cards(p) \subseteq DOMAIN prompts
    /\ \A i \in DOMAIN answers[p] : answers[p][i].cards \subseteq DOMAIN prompts
    /\ \A i \in DOMAIN frames[p] :
          frames[p][i].kind \in {"request", "approval"} => frames[p][i].id \in DOMAIN prompts

\* What a view becomes with the frames after the first n is what /api/state would tell.
Recent(p, can, cards, n) ==
    /\ can = MayApprove(p)
    /\ MayApprove(p) => Becomes(cards, Pending, DOMAIN prompts, frames[p], n)

\* So does an answer that is not of the past, with the frames it is not ahead of ...
Fits(p, a) ==
    /\ a.behind <= Len(frames[p])
    /\ ~a.old => /\ Recent(p, a.can, a.cards, a.behind)
                 /\ a.busy = busy \/ NewsLater(frames[p], a.behind)

Ahead(p) == \A i \in DOMAIN answers[p] : Fits(p, answers[p][i])

\* ... and what a page shows with the frames, and the answers, to come.
Fresh(p) ==
    phase[p] \in {"connecting", "live"} /\ ~stale[p] =>
        /\ Recent(p, shown[p].can, Cards(p), 0)
        /\ \/ shown[p].busy = busy \/ NewsLater(frames[p], 0)
           \/ asked[p] > 0 \/ answers[p] # <<>>

\* Of a page whose member was not removed: without a stream there are no frames.
Present(p) ==
    role[p] # "gone" =>
        /\ phase[p] # "live" => frames[p] = <<>>
        /\ Narrated(Pending, frames[p]) /\ Ahead(p) /\ Fresh(p)

\* A verdict is of a prompt there is, and one that was not refused left it settled.
Settled ==
    /\ \A c \in posts : c.id \in DOMAIN prompts
    /\ \A r \in replies : r.id \in DOMAIN prompts /\ (~r.barred => r.id \notin Pending)

\* A member who was removed has no stream.
Expelled(p) == phase[p] = "live" => role[p] # "gone"

Agreeing(p) == Numbered(p) /\ Present(p) /\ Expelled(p)

-----------------------------------------------------------------------------
(* Lists of frames.                                                        *)

LEMMA FramesAre ==
    ASSUME NEW list \in Seq(Told)
    PROVE  /\ DOMAIN list = 1..Len(list) /\ Len(list) \in Nat
           /\ \A i \in DOMAIN list : list[i] \in Told /\ list[i].kind \in {"request", "approval", "news", "message"}
<1>1. \A t \in Told : t.kind \in {"request", "approval", "news", "message"}
  BY DEF Told
<1>2. DOMAIN list = 1..Len(list) /\ Len(list) \in Nat /\ \A i \in DOMAIN list : list[i] \in Told
  OBVIOUS
<1> QED BY <1>1, <1>2

LEMMA Appended ==
    ASSUME NEW list \in Seq(Told), NEW f \in Told
    PROVE  /\ DOMAIN Append(list, f) = DOMAIN list \cup {Len(list) + 1}
           /\ Len(Append(list, f)) = Len(list) + 1
           /\ Append(list, f)[Len(list) + 1] = f
           /\ \A i \in DOMAIN list : Append(list, f)[i] = list[i] /\ i <= Len(list) /\ i \in Nat
<1>1. DOMAIN list = 1..Len(list) /\ Len(list) \in Nat
  OBVIOUS
<1>2. /\ DOMAIN Append(list, f) = 1..(Len(list) + 1)
      /\ Len(Append(list, f)) = Len(list) + 1
      /\ Append(list, f)[Len(list) + 1] = f
      /\ \A i \in 1..Len(list) : Append(list, f)[i] = list[i]
  BY AppendProperties
<1> QED BY <1>1, <1>2

LEMMA LaterAppend ==
    ASSUME NEW list \in Seq(Told), NEW f \in Told, NEW n \in Nat, n <= Len(list)
    PROVE  /\ \A kind, id : Later(Append(list, f), n, kind, id)
                            <=> Later(list, n, kind, id) \/ (f.kind = kind /\ f.id = id)
           /\ NewsLater(Append(list, f), n) <=> NewsLater(list, n) \/ f.kind = "news"
<1>1. n < Len(list) + 1
  OBVIOUS
<1>2. ASSUME NEW kind, NEW id
      PROVE  Later(Append(list, f), n, kind, id) <=> Later(list, n, kind, id) \/ (f.kind = kind /\ f.id = id)
  BY <1>1, Appended DEF Later
<1>3. NewsLater(Append(list, f), n) <=> NewsLater(list, n) \/ f.kind = "news"
  BY <1>1, Appended DEF NewsLater
<1> QED BY <1>2, <1>3

LEMMA TailIs ==
    ASSUME NEW list \in Seq(Told), list # <<>>
    PROVE  /\ Tail(list) \in Seq(Told) /\ Len(Tail(list)) = Len(list) - 1 /\ Len(list) \in Nat
           /\ Len(list) > 0 /\ DOMAIN list = 1..Len(list) /\ DOMAIN Tail(list) = 1..(Len(list) - 1)
           /\ \A i \in DOMAIN Tail(list) : Tail(list)[i] = list[i + 1] /\ i + 1 \in DOMAIN list
           /\ Head(list) = list[1] /\ Head(list) \in Told
OBVIOUS

LEMMA LaterTail ==
    ASSUME NEW list \in Seq(Told), list # <<>>, NEW n \in Nat
    PROVE  /\ \A kind, id : Later(Tail(list), n, kind, id) <=> Later(list, n + 1, kind, id)
           /\ NewsLater(Tail(list), n) <=> NewsLater(list, n + 1)
<1>1. \A i \in DOMAIN list : n + 1 < i => i - 1 \in DOMAIN Tail(list) /\ n < i - 1 /\ Tail(list)[i - 1] = list[i]
  BY TailIs
<1>2. \A i \in DOMAIN Tail(list) : n < i => /\ i + 1 \in DOMAIN list /\ n + 1 < i + 1
                                            /\ Tail(list)[i] = list[i + 1]
  BY TailIs
<1>3. ASSUME NEW kind, NEW id
      PROVE  Later(Tail(list), n, kind, id) <=> Later(list, n + 1, kind, id)
  BY <1>1, <1>2 DEF Later
<1>4. NewsLater(Tail(list), n) <=> NewsLater(list, n + 1)
  BY <1>1, <1>2 DEF NewsLater
<1> QED BY <1>3, <1>4

LEMMA LaterHead ==
    ASSUME NEW list \in Seq(Told), list # <<>>
    PROVE  /\ \A kind, id : Later(list, 0, kind, id)
                            <=> Later(list, 1, kind, id) \/ (Head(list).kind = kind /\ Head(list).id = id)
           /\ NewsLater(list, 0) <=> NewsLater(list, 1) \/ Head(list).kind = "news"
<1>1. 1 \in DOMAIN list /\ Head(list) = list[1] /\ \A i \in DOMAIN list : 0 < i /\ (1 < i \/ i = 1)
  BY TailIs
<1>2. ASSUME NEW kind, NEW id
      PROVE  Later(list, 0, kind, id)
             <=> Later(list, 1, kind, id) \/ (Head(list).kind = kind /\ Head(list).id = id)
  BY <1>1 DEF Later
<1>3. NewsLater(list, 0) <=> NewsLater(list, 1) \/ Head(list).kind = "news"
  BY <1>1 DEF NewsLater
<1> QED BY <1>2, <1>3

\* What is after the first n is in the list.
LEMMA LaterAll ==
    ASSUME NEW list \in Seq(Told), NEW n \in Nat
    PROVE  /\ \A kind, id : Later(list, n, kind, id) => Later(list, 0, kind, id)
           /\ NewsLater(list, n) => NewsLater(list, 0)
<1>1. \A i \in DOMAIN list : 0 < i
  BY FramesAre
<1> QED BY <1>1 DEF Later, NewsLater

LEMMA LaterEmpty ==
    ASSUME NEW n
    PROVE  /\ \A kind, id : ~Later(<<>>, n, kind, id)
           /\ ~NewsLater(<<>>, n)
BY DEF Later, NewsLater

\* A view that becomes the room's state with the last frames becomes it with all of them:
\* frames may be applied to an answer that is ahead of them.
LEMMA FramesAgain ==
    ASSUME NEW list \in Seq(Told), NEW n \in Nat, NEW open, NEW ids, NEW cards,
           Narrated(open, list), Becomes(cards, open, ids, list, n)
    PROVE  Becomes(cards, open, ids, list, 0)
<1> SUFFICES ASSUME NEW id \in ids
             PROVE  id \in open <=> /\ ~Later(list, 0, "approval", id)
                                    /\ id \in cards \/ Later(list, 0, "request", id)
  BY DEF Becomes
<1>1. id \in open <=> /\ ~Later(list, n, "approval", id)
                      /\ id \in cards \/ Later(list, n, "request", id)
  BY DEF Becomes
<1>2. id \in open => ~Later(list, 0, "approval", id)
  BY DEF Narrated, Later
<1>3. Later(list, 0, "request", id) /\ id \notin open => Later(list, 0, "approval", id)
  <2> SUFFICES ASSUME Later(list, 0, "request", id), id \notin open PROVE Later(list, 0, "approval", id)
    OBVIOUS
  <2>1. PICK i \in DOMAIN list : list[i].kind = "request" /\ list[i].id = id
    BY DEF Later
  <2>2. Later(list, i, "approval", id)
    BY <2>1 DEF Narrated
  <2>3. i \in Nat
    BY FramesAre
  <2> QED BY <2>2, <2>3, LaterAll
<1> QED BY <1>1, <1>2, <1>3, LaterAll

\* A prompt ends, and a frame tells it.
LEMMA NarratedEnd ==
    ASSUME NEW list \in Seq(Told), NEW f \in Told, f.kind = "approval", NEW open, Narrated(open, list)
    PROVE  Narrated(open \ {f.id}, Append(list, f))
<1> DEFINE longer == Append(list, f)
           last   == Len(list) + 1
<1>1. /\ DOMAIN longer = DOMAIN list \cup {last} /\ longer[last] = f /\ last \in Nat
      /\ \A i \in DOMAIN list : longer[i] = list[i] /\ i < last /\ i \in Nat /\ i <= Len(list)
  BY Appended, FramesAre
<1>2. \A i \in DOMAIN list : \A kind, id : Later(longer, i, kind, id)
                                           <=> Later(list, i, kind, id) \/ (f.kind = kind /\ f.id = id)
  BY <1>1, LaterAppend
<1> HIDE DEF longer, last
<1>3. \A i \in DOMAIN longer : longer[i].kind = "approval" => longer[i].id \notin open \ {f.id}
  BY <1>1 DEF Narrated
<1>4. ASSUME NEW i \in DOMAIN longer, longer[i].kind = "request", longer[i].id \notin open \ {f.id}
      PROVE  Later(longer, i, "approval", longer[i].id)
  <2>1. i \in DOMAIN list /\ longer[i] = list[i]
    BY <1>1, <1>4
  <2>2. CASE list[i].id = f.id
    BY <1>2, <2>1, <2>2
  <2>3. CASE list[i].id # f.id
    BY <1>2, <1>4, <2>1, <2>3 DEF Narrated
  <2> QED BY <2>2, <2>3
<1>5. ASSUME NEW i \in DOMAIN longer, NEW j \in DOMAIN longer, longer[i].kind = "approval",
             longer[j].kind = "request", longer[i].id = longer[j].id
      PROVE  j < i
  <2>1. j \in DOMAIN list /\ longer[j] = list[j]
    BY <1>1, <1>5
  <2> QED BY <1>1, <1>5, <2>1 DEF Narrated
<1>6. Narrated(open \ {f.id}, longer)
  BY <1>3, <1>4, <1>5 DEF Narrated
<1> QED BY <1>6 DEF longer

\* A prompt begins, and a frame tells it.
LEMMA NarratedBegin ==
    ASSUME NEW list \in Seq(Told), NEW f \in Told, f.kind = "request", NEW open, Narrated(open, list),
           \A i \in DOMAIN list : list[i].kind = "approval" => list[i].id # f.id
    PROVE  Narrated(open \cup {f.id}, Append(list, f))
<1> DEFINE longer == Append(list, f)
           last   == Len(list) + 1
<1>1. /\ DOMAIN longer = DOMAIN list \cup {last} /\ longer[last] = f /\ last \in Nat
      /\ \A i \in DOMAIN list : longer[i] = list[i] /\ i < last /\ i \in Nat /\ i <= Len(list)
  BY Appended, FramesAre
<1>2. \A i \in DOMAIN list : \A kind, id : Later(longer, i, kind, id)
                                           <=> Later(list, i, kind, id) \/ (f.kind = kind /\ f.id = id)
  BY <1>1, LaterAppend
<1> HIDE DEF longer, last
<1>3. \A i \in DOMAIN longer : longer[i].kind = "approval" => longer[i].id \notin open \cup {f.id}
  BY <1>1 DEF Narrated
<1>4. ASSUME NEW i \in DOMAIN longer, longer[i].kind = "request", longer[i].id \notin open \cup {f.id}
      PROVE  Later(longer, i, "approval", longer[i].id)
  <2>1. i \in DOMAIN list /\ longer[i] = list[i]
    BY <1>1, <1>4
  <2> QED BY <1>2, <1>4, <2>1 DEF Narrated
<1>5. ASSUME NEW i \in DOMAIN longer, NEW j \in DOMAIN longer, longer[i].kind = "approval",
             longer[j].kind = "request", longer[i].id = longer[j].id
      PROVE  j < i
  <2>1. i \in DOMAIN list /\ longer[i] = list[i]
    BY <1>1, <1>5
  <2>2. j \in DOMAIN list /\ longer[j] = list[j]
    BY <1>1, <1>5, <2>1
  <2> QED BY <1>5, <2>1, <2>2 DEF Narrated
<1>6. Narrated(open \cup {f.id}, longer)
  BY <1>3, <1>4, <1>5 DEF Narrated
<1> QED BY <1>6 DEF longer

\* Other frames tell nothing of prompts.
LEMMA NarratedBesides ==
    ASSUME NEW list \in Seq(Told), NEW f \in Told, f.kind \notin {"request", "approval"}, NEW open,
           Narrated(open, list)
    PROVE  Narrated(open, Append(list, f))
<1> DEFINE longer == Append(list, f)
           last   == Len(list) + 1
<1>1. /\ DOMAIN longer = DOMAIN list \cup {last} /\ longer[last] = f
      /\ \A i \in DOMAIN list : longer[i] = list[i] /\ i \in Nat /\ i <= Len(list)
  BY Appended, FramesAre
<1>2. \A i \in DOMAIN list : \A kind, id : Later(list, i, kind, id) => Later(longer, i, kind, id)
  BY <1>1, LaterAppend
<1> HIDE DEF longer, last
<1>3. Narrated(open, longer)
  BY <1>1, <1>2 DEF Narrated
<1> QED BY <1>3 DEF longer

\* The page hears the first frame.
LEMMA NarratedTail ==
    ASSUME NEW list \in Seq(Told), list # <<>>, NEW open, Narrated(open, list)
    PROVE  Narrated(open, Tail(list))
<1> DEFINE rest == Tail(list)
<1>1. \A i \in DOMAIN rest : rest[i] = list[i + 1] /\ i + 1 \in DOMAIN list /\ i \in Nat
  BY TailIs
<1>2. \A i \in DOMAIN rest : \A kind, id : Later(rest, i, kind, id) <=> Later(list, i + 1, kind, id)
  BY <1>1, LaterTail
<1> HIDE DEF rest
<1>3. \A i, j \in DOMAIN rest : j + 1 < i + 1 => j < i
  BY <1>1
<1>4. \A i \in DOMAIN rest : rest[i].kind = "approval" => rest[i].id \notin open
  BY <1>1 DEF Narrated
<1>5. \A i \in DOMAIN rest :
         rest[i].kind = "request" /\ rest[i].id \notin open => Later(rest, i, "approval", rest[i].id)
  BY <1>1, <1>2 DEF Narrated
<1>6. \A i, j \in DOMAIN rest :
         rest[i].kind = "approval" /\ rest[j].kind = "request" /\ rest[i].id = rest[j].id => j < i
  BY <1>1, <1>3 DEF Narrated
<1>7. Narrated(open, rest)
  BY <1>4, <1>5, <1>6 DEF Narrated
<1> QED BY <1>7 DEF rest

-----------------------------------------------------------------------------
(* A page and what is coming to it.                                        *)

\* What is published reaches a page that has a stream; what another has is of the past.
LEMMA AnnounceAt ==
    ASSUME TypeOK, NEW p \in Pages, NEW f \in Told, Announce(f)
    PROVE  /\ phase' = phase /\ asked' = asked
           /\ phase[p] = "live" => /\ frames'[p] = Append(frames[p], f) /\ answers'[p] = answers[p]
                                   /\ stale'[p] = stale[p]
           /\ phase[p] # "live" => /\ frames'[p] = frames[p] /\ answers'[p] = Outdated(answers[p])
                                   /\ stale'[p] = TRUE
<1>1. p \in Deaf <=> phase[p] # "live"
  BY DEF Deaf
<1>2. phase' = phase /\ asked' = asked
  BY DEF Announce
<1>3. frames'[p] = IF phase[p] = "live" THEN Append(frames[p], f) ELSE frames[p]
  BY DEF Announce, Publish
<1>4. /\ stale'[p] = (stale[p] \/ p \in Deaf)
      /\ answers'[p] = IF p \in Deaf THEN Outdated(answers[p]) ELSE answers[p]
  BY DEF Announce, Missed
<1>5. stale[p] \in BOOLEAN
  BY DEF TypeOK
<1> QED BY <1>1, <1>2, <1>3, <1>4, <1>5

\* A page that knows its answers, and what it shows, to be of the past claims nothing.
LEMMA PastKeeps ==
    ASSUME TypeOK, NEW p \in Pages, Present(p), role[p] # "gone", answers'[p] = Outdated(answers[p]),
           frames'[p] = frames[p], stale'[p], phase'[p] = phase[p], Narrated(Pending', frames[p])
    PROVE  Present(p)'
<1>1. /\ DOMAIN answers'[p] = DOMAIN answers[p]
      /\ \A i \in DOMAIN answers[p] : answers'[p][i].old /\ answers'[p][i].behind = answers[p][i].behind
  BY OutdatedIs, ViewsAre
<1>2. \A i \in DOMAIN answers[p] : answers[p][i].behind <= Len(frames[p])
  BY DEF Present, Ahead, Fits
<1>3. Ahead(p)'
  BY <1>1, <1>2 DEF Ahead, Fits
<1>4. Fresh(p)'
  BY DEF Fresh
<1> QED BY <1>3, <1>4 DEF Present

\* A page without a stream misses what is announced.
LEMMA DeafKeeps ==
    ASSUME TypeOK, NEW p \in Pages, Present(p), NEW f \in Told, Announce(f), phase[p] # "live", role' = role
    PROVE  Present(p)'
<1>1. CASE role[p] = "gone"
  BY <1>1 DEF Present
<1>2. CASE role[p] # "gone"
  <2>1. /\ frames'[p] = frames[p] /\ answers'[p] = Outdated(answers[p]) /\ stale'[p] /\ phase' = phase
        /\ frames[p] = <<>>
    BY <1>2, AnnounceAt DEF Present
  <2>2. Narrated(Pending', <<>>)
    BY DEF Narrated
  <2> QED BY <1>2, <2>1, <2>2, PastKeeps
<1> QED BY <1>1, <1>2

\* What is announced to a page that has a stream is one more frame for all it has: enough
\* that views become what the room would tell.
LEMMA LiveKeeps ==
    ASSUME TypeOK, NEW p \in Pages, Present(p), NEW f \in Told, Announce(f), phase[p] = "live",
           UNCHANGED <<role, shown>>, Narrated(Pending', Append(frames[p], f)),
           busy' = busy \/ f.kind = "news",
           \A n \in Nat : \A cards :
              /\ n <= Len(frames[p]) /\ cards \subseteq DOMAIN prompts
              /\ Becomes(cards, Pending, DOMAIN prompts, frames[p], n)
              => Becomes(cards, Pending', DOMAIN prompts', Append(frames[p], f), n),
           Numbered(p), role[p] # "gone"
    PROVE  Present(p)'
<1>1. /\ phase' = phase /\ asked' = asked /\ frames'[p] = Append(frames[p], f) /\ answers'[p] = answers[p]
      /\ stale'[p] = stale[p]
  BY AnnounceAt
<1>2. /\ Len(frames[p]) \in Nat /\ Len(frames'[p]) = Len(frames[p]) + 1
  BY <1>1, ViewsAre, Appended
<1>3. \A n \in Nat : n <= Len(frames[p]) => (NewsLater(frames'[p], n) <=> NewsLater(frames[p], n) \/ f.kind = "news")
  BY <1>1, ViewsAre, LaterAppend
<1>4. Ahead(p)'
  <2> SUFFICES ASSUME NEW i \in DOMAIN answers[p]
               PROVE  Fits(p, answers[p][i])'
    BY <1>1 DEF Ahead
  <2> DEFINE a == answers[p][i]
             n == a.behind
  <2>1. a = answers'[p][i] /\ n \in Nat /\ n <= Len(frames[p]) /\ n <= Len(frames'[p]) /\ a.cards \subseteq DOMAIN prompts
    BY <1>1, <1>2, ViewsAre DEF Present, Ahead, Fits, Numbered
  <2>2. ~a.old => /\ a.can = MayApprove(p)
                  /\ MayApprove(p) => Becomes(a.cards, Pending, DOMAIN prompts, frames[p], n)
                  /\ a.busy = busy \/ NewsLater(frames[p], n)
    BY DEF Present, Ahead, Fits, Recent
  <2> HIDE DEF a
  <2>3. ~a.old => /\ a.can = MayApprove(p)'
                  /\ MayApprove(p)' => Becomes(a.cards, Pending', DOMAIN prompts', frames'[p], n)
    BY <1>1, <2>1, <2>2 DEF MayApprove
  <2>4. ~a.old => a.busy = busy' \/ NewsLater(frames'[p], n)
    BY <1>3, <2>1, <2>2
  <2> QED BY <2>1, <2>3, <2>4 DEF Fits, Recent, a
<1>5. Fresh(p)'
  <2> SUFFICES ASSUME ~stale[p]
               PROVE  /\ shown[p].can = MayApprove(p)'
                      /\ MayApprove(p)' => Becomes(Cards(p), Pending', DOMAIN prompts', frames'[p], 0)
                      /\ \/ shown[p].busy = busy' \/ NewsLater(frames'[p], 0)
                         \/ asked[p] > 0 \/ answers[p] # <<>>
    BY <1>1 DEF Fresh, Recent, Cards
  <2>1. /\ shown[p].can = MayApprove(p)
        /\ MayApprove(p) => Becomes(Cards(p), Pending, DOMAIN prompts, frames[p], 0)
        /\ \/ shown[p].busy = busy \/ NewsLater(frames[p], 0)
           \/ asked[p] > 0 \/ answers[p] # <<>>
    BY DEF Present, Fresh, Recent
  <2>2. Cards(p) \subseteq DOMAIN prompts /\ 0 \in Nat /\ 0 <= Len(frames[p])
    BY <1>2 DEF Numbered
  <2>3. MayApprove(p)' = MayApprove(p)
    BY DEF MayApprove
  <2>4. MayApprove(p) => Becomes(Cards(p), Pending', DOMAIN prompts', frames'[p], 0)
    BY <1>1, <2>1, <2>2
  <2>5. \/ shown[p].busy = busy' \/ NewsLater(frames'[p], 0)
        \/ asked[p] > 0 \/ answers[p] # <<>>
    BY <1>3, <2>1, <2>2
  <2> QED BY <2>1, <2>3, <2>4, <2>5
<1>6. phase'[p] = "live"
  BY <1>1
<1>7. Narrated(Pending', frames'[p])
  BY <1>1
<1> QED BY <1>4, <1>5, <1>6, <1>7 DEF Present

\* A card more, or none.
LEMMA CardsAre ==
    ASSUME NEW p \in Pages, shown[p] \in View, NEW id \in Ids
    PROVE  /\ shown'[p] = [shown[p] EXCEPT !.cards[id] = @ + 1] =>
                  /\ Cards(p)' = Cards(p) \cup {id}
                  /\ shown'[p].can = shown[p].can /\ shown'[p].busy = shown[p].busy
           /\ shown'[p] = [shown[p] EXCEPT !.cards[id] = 0] =>
                  /\ Cards(p)' = Cards(p) \ {id}
                  /\ shown'[p].can = shown[p].can /\ shown'[p].busy = shown[p].busy
<1>1. \A k \in Ids : shown[p].cards[k] \in Nat
  BY DEF View
<1> QED BY <1>1 DEF View, Cards

\* A prompt begins.
LEMMA BeginKeeps ==
    ASSUME TypeOK, NEW p \in Pages, Present(p), Numbered(p), Ask
    PROVE  Present(p)'
<1> DEFINE q == Len(prompts) + 1
           f == Frame("request", q)
<1>1. /\ DOMAIN prompts = 1..Len(prompts) /\ Len(prompts) \in Nat /\ q \in Nat /\ q \notin DOMAIN prompts
      /\ frames[p] \in Seq(Told)
  BY ViewsAre
<1>2. DOMAIN prompts' = DOMAIN prompts \cup {q} /\ Pending' = Pending \cup {q}
  <2>1. prompts' = Append(prompts, "open") /\ prompts \in Seq(Fates) /\ "open" \in Fates
    BY DEF Ask, TypeOK, Fates
  <2>2. /\ DOMAIN prompts' = 1..q /\ prompts'[q] = "open"
        /\ \A i \in DOMAIN prompts : prompts'[i] = prompts[i]
    BY <1>1, <2>1, AppendProperties
  <2>3. DOMAIN prompts' = DOMAIN prompts \cup {q}
    BY <1>1, <2>2
  <2> QED BY <2>2, <2>3 DEF Pending
<1>3. f \in Told /\ f.kind = "request" /\ f.id = q
  BY <1>1, FrameType DEF Frame
<1>4. Announce(f) /\ UNCHANGED <<role, shown, busy>>
  BY DEF Ask
<1> HIDE DEF q, f
<1>5. CASE role[p] = "gone"
  BY <1>4, <1>5 DEF Present
<1>6. CASE phase[p] # "live"
  BY <1>3, <1>4, <1>6, DeafKeeps
<1>7. CASE role[p] # "gone" /\ phase[p] = "live"
  <2>1. \A i \in DOMAIN frames[p] : frames[p][i].kind = "approval" => frames[p][i].id # q
    BY <1>1 DEF Numbered
  <2>2. Narrated(Pending', Append(frames[p], f))
    BY <1>1, <1>2, <1>3, <1>7, <2>1, NarratedBegin DEF Present
  <2>3. ASSUME NEW n \in Nat, NEW cards, n <= Len(frames[p]), cards \subseteq DOMAIN prompts,
               Becomes(cards, Pending, DOMAIN prompts, frames[p], n)
        PROVE  Becomes(cards, Pending', DOMAIN prompts', Append(frames[p], f), n)
    <3>1. \A kind, id : Later(Append(frames[p], f), n, kind, id)
                        <=> Later(frames[p], n, kind, id) \/ (f.kind = kind /\ f.id = id)
      BY <1>1, <1>3, <2>3, LaterAppend
    <3>2. ~Later(frames[p], n, "approval", q)
      BY <2>1 DEF Later
    <3> SUFFICES ASSUME NEW id \in DOMAIN prompts'
                 PROVE  id \in Pending' <=> /\ ~Later(Append(frames[p], f), n, "approval", id)
                                            /\ id \in cards \/ Later(Append(frames[p], f), n, "request", id)
      BY DEF Becomes
    <3>3. CASE id = q
      BY <1>2, <1>3, <3>1, <3>2, <3>3
    <3>4. CASE id # q
      <4>1. id \in DOMAIN prompts
        BY <1>2, <3>4
      <4>2. id \in Pending <=> /\ ~Later(frames[p], n, "approval", id)
                               /\ id \in cards \/ Later(frames[p], n, "request", id)
        BY <2>3, <4>1 DEF Becomes
      <4> QED BY <1>2, <1>3, <3>1, <3>4, <4>2
    <3> QED BY <3>3, <3>4
  <2> QED BY <1>3, <1>4, <1>7, <2>2, <2>3, LiveKeeps
<1> QED BY <1>5, <1>6, <1>7

\* A prompt ends.
LEMMA EndKeeps ==
    ASSUME TypeOK, NEW p \in Pages, Present(p), Numbered(p), NEW q \in DOMAIN prompts,
           DOMAIN prompts' = DOMAIN prompts, Pending' = Pending \ {q}, Announce(Frame("approval", q)),
           UNCHANGED <<role, shown, busy>>
    PROVE  Present(p)'
<1> DEFINE f == Frame("approval", q)
<1>1. frames[p] \in Seq(Told) /\ q \in Nat
  BY ViewsAre
<1>2. f \in Told /\ f.kind = "approval" /\ f.id = q /\ Announce(f)
  BY <1>1, FrameType DEF Frame
<1> HIDE DEF f
<1>3. CASE role[p] = "gone"
  BY <1>3 DEF Present
<1>4. CASE phase[p] # "live"
  BY <1>2, <1>4, DeafKeeps
<1>5. CASE role[p] # "gone" /\ phase[p] = "live"
  <2>1. Narrated(Pending', Append(frames[p], f))
    BY <1>1, <1>2, <1>5, NarratedEnd DEF Present
  <2>2. ASSUME NEW n \in Nat, NEW cards, n <= Len(frames[p]), cards \subseteq DOMAIN prompts,
               Becomes(cards, Pending, DOMAIN prompts, frames[p], n)
        PROVE  Becomes(cards, Pending', DOMAIN prompts', Append(frames[p], f), n)
    <3>1. \A kind, id : Later(Append(frames[p], f), n, kind, id)
                        <=> Later(frames[p], n, kind, id) \/ (f.kind = kind /\ f.id = id)
      BY <1>1, <1>2, <2>2, LaterAppend
    <3> SUFFICES ASSUME NEW id \in DOMAIN prompts
                 PROVE  id \in Pending' <=> /\ ~Later(Append(frames[p], f), n, "approval", id)
                                            /\ id \in cards \/ Later(Append(frames[p], f), n, "request", id)
      BY DEF Becomes
    <3>2. id \in Pending <=> /\ ~Later(frames[p], n, "approval", id)
                             /\ id \in cards \/ Later(frames[p], n, "request", id)
      BY <2>2 DEF Becomes
    <3>3. CASE id = q
      BY <1>2, <3>1, <3>3
    <3>4. CASE id # q
      BY <1>2, <3>1, <3>2, <3>4
    <3> QED BY <3>3, <3>4
  <2> QED BY <1>2, <1>5, <2>1, <2>2, LiveKeeps
<1> QED BY <1>3, <1>4, <1>5

\* A turn begins or ends, or something else is told.
LEMMA NewsKeeps ==
    ASSUME TypeOK, NEW p \in Pages, Present(p), Numbered(p), Announce(Frame("news", 0)),
           UNCHANGED <<role, shown, prompts>>
    PROVE  Present(p)'
<1> DEFINE f == Frame("news", 0)
<1>1. frames[p] \in Seq(Told) /\ f \in Told /\ f.kind = "news" /\ Announce(f)
  BY ViewsAre, FrameType DEF Frame
<1> HIDE DEF f
<1>2. Pending' = Pending /\ DOMAIN prompts' = DOMAIN prompts
  BY DEF Pending
<1>3. CASE role[p] = "gone"
  BY <1>3 DEF Present
<1>4. CASE phase[p] # "live"
  BY <1>1, <1>4, DeafKeeps
<1>5. CASE role[p] # "gone" /\ phase[p] = "live"
  <2>1. Narrated(Pending', Append(frames[p], f))
    BY <1>1, <1>2, <1>5, NarratedBesides DEF Present
  <2>2. ASSUME NEW n \in Nat, NEW cards, n <= Len(frames[p]), cards \subseteq DOMAIN prompts,
               Becomes(cards, Pending, DOMAIN prompts, frames[p], n)
        PROVE  Becomes(cards, Pending', DOMAIN prompts', Append(frames[p], f), n)
    <3>1. \A id : /\ Later(Append(frames[p], f), n, "approval", id) <=> Later(frames[p], n, "approval", id)
                  /\ Later(Append(frames[p], f), n, "request", id) <=> Later(frames[p], n, "request", id)
      BY <1>1, <2>2, LaterAppend
    <3> QED BY <1>2, <2>2, <3>1 DEF Becomes
  <2> QED BY <1>1, <1>5, <2>1, <2>2, LiveKeeps
<1> QED BY <1>3, <1>4, <1>5

\* A message is said.
LEMMA SaidKeeps ==
    ASSUME TypeOK, NEW p \in Pages, Present(p), Numbered(p), Say
    PROVE  Present(p)'
<1> DEFINE f == Frame("message", messages + 1)
<1>1. /\ UNCHANGED <<role, prompts, busy, phase, asked, answers, shown, stale>>
      /\ frames'[p] = IF phase[p] = "live" THEN Append(frames[p], f) ELSE frames[p]
      /\ f \in Told /\ f.kind = "message" /\ frames[p] \in Seq(Told)
  <2>1. messages \in Nat
    BY DEF TypeOK
  <2>2. f \in Told /\ f.kind = "message"
    BY <2>1, FrameType DEF Frame
  <2>3. frames'[p] = IF phase[p] = "live" THEN Append(frames[p], f) ELSE frames[p]
    BY DEF Say, Publish
  <2> QED BY <2>2, <2>3, ViewsAre DEF Say
<1> HIDE DEF f
<1>2. Pending' = Pending /\ DOMAIN prompts' = DOMAIN prompts
  BY <1>1 DEF Pending
<1>3. CASE phase[p] # "live"
  <2>1. frames'[p] = frames[p]
    BY <1>1, <1>3
  <2> QED BY <1>1, <1>2, <2>1 DEF Present, Ahead, Fits, Fresh, Recent, Cards, MayApprove
<1>4. CASE role[p] # "gone" /\ phase[p] = "live"
  <2>1. Narrated(Pending', frames'[p])
    BY <1>1, <1>2, <1>4, NarratedBesides DEF Present
  <2>2. \A n \in Nat : n <= Len(frames[p]) =>
           /\ \A kind, id : kind # "message" =>
                               (Later(frames'[p], n, kind, id) <=> Later(frames[p], n, kind, id))
           /\ NewsLater(frames'[p], n) <=> NewsLater(frames[p], n)
    BY <1>1, <1>4, LaterAppend
  <2>3. ASSUME NEW n \in Nat, NEW cards, n <= Len(frames[p])
        PROVE  Becomes(cards, Pending', DOMAIN prompts', frames'[p], n)
               <=> Becomes(cards, Pending, DOMAIN prompts, frames[p], n)
    BY <1>2, <2>2, <2>3 DEF Becomes
  <2>4. Len(frames[p]) \in Nat /\ Len(frames'[p]) = Len(frames[p]) + 1
    BY <1>1, <1>4, Appended
  <2>5. Ahead(p)'
    <3> SUFFICES ASSUME NEW i \in DOMAIN answers[p]
                 PROVE  Fits(p, answers[p][i])'
      BY <1>1 DEF Ahead
    <3> DEFINE n == answers[p][i].behind
    <3>1. n \in Nat /\ n <= Len(frames[p]) /\ n <= Len(frames'[p])
      BY <1>4, <2>4, ViewsAre DEF Present, Ahead, Fits
    <3>2. ~answers[p][i].old => /\ answers[p][i].can = MayApprove(p)
                                /\ MayApprove(p) => Becomes(answers[p][i].cards, Pending, DOMAIN prompts, frames[p], n)
                                /\ answers[p][i].busy = busy \/ NewsLater(frames[p], n)
      BY <1>4 DEF Present, Ahead, Fits, Recent
    <3> QED BY <1>1, <2>2, <2>3, <3>1, <3>2 DEF Fits, Recent, MayApprove
  <2>6. Fresh(p)'
    <3>1. 0 \in Nat /\ 0 <= Len(frames[p])
      BY <2>4
    <3> QED BY <1>1, <1>4, <2>2, <2>3, <3>1 DEF Present, Fresh, Recent, Cards, MayApprove
  <2> QED BY <1>1, <1>4, <2>1, <2>5, <2>6 DEF Present
<1>5. CASE role[p] = "gone"
  BY <1>1, <1>5 DEF Present
<1> QED BY <1>3, <1>4, <1>5

\* A page hears its first frame: every answer that has it already is ahead of one frame
\* less, the others are of the past unless the frame is a message.
LEMMA HeardKeeps ==
    ASSUME TypeOK, NEW p \in Pages, Present(p), Numbered(p), Hears(p)
    PROVE  Present(p)'
<1> DEFINE f == Head(frames[p])
<1>1. /\ UNCHANGED <<role, prompts, busy, phase, stale>> /\ frames[p] # <<>> /\ frames'[p] = Tail(frames[p])
      /\ answers'[p] = [i \in DOMAIN answers[p] |-> Passed(f, answers[p][i])]
  BY DEF Hears, room, history, TypeOK
<1>2. /\ frames[p] \in Seq(Told) /\ Len(frames[p]) \in Nat /\ Len(frames[p]) > 0
      /\ Len(frames'[p]) = Len(frames[p]) - 1 /\ f \in Told
      /\ f.kind \in {"request", "approval", "news", "message"}
  <2>1. frames[p] \in Seq(Told)
    BY ViewsAre
  <2>2. f = frames[p][1] /\ 1 \in DOMAIN frames[p]
    BY <1>1, <2>1, TailIs
  <2> HIDE DEF f
  <2> QED BY <1>1, <2>1, <2>2, TailIs, FramesAre
<1>3. /\ f.kind = "message" => shown'[p] = shown[p] /\ asked'[p] = asked[p]
      /\ f.kind = "request" => shown'[p] = [shown[p] EXCEPT !.cards[f.id] = @ + 1] /\ asked'[p] = asked[p]
      /\ f.kind = "approval" => shown'[p] = [shown[p] EXCEPT !.cards[f.id] = 0] /\ asked'[p] = asked[p]
      /\ f.kind = "news" => shown'[p] = shown[p] /\ asked'[p] > 0
  <2>1. asked[p] \in Nat /\ asked \in [Pages -> Nat] /\ shown \in [Pages -> View]
    BY DEF TypeOK
  <2>2. CASE f.kind = "message"
    <3>1. UNCHANGED <<shown, asked>>
      BY <2>2 DEF Hears
    <3> QED BY <2>2, <3>1
  <2>3. CASE f.kind = "request"
    <3>1. shown' = [shown EXCEPT ![p].cards[f.id] = @ + 1] /\ asked' = asked
      BY <2>3 DEF Hears
    <3> QED BY <2>1, <2>3, <3>1
  <2>4. CASE f.kind = "approval"
    <3>1. shown' = [shown EXCEPT ![p].cards[f.id] = 0] /\ asked' = asked
      BY <2>4 DEF Hears
    <3> QED BY <2>1, <2>4, <3>1
  <2>5. CASE f.kind = "news"
    <3>1. asked' = [asked EXCEPT ![p] = @ + 1] /\ shown' = shown
      BY <2>5 DEF Hears
    <3> QED BY <2>1, <2>5, <3>1
  <2> QED BY <2>2, <2>3, <2>4, <2>5
<1> HIDE DEF f
<1>4. Pending' = Pending /\ DOMAIN prompts' = DOMAIN prompts
  BY <1>1 DEF Pending
<1>5. CASE role[p] = "gone"
  BY <1>1, <1>5 DEF Present
<1>6. CASE role[p] # "gone"
  <2>1. phase[p] = "live" /\ Narrated(Pending, frames[p]) /\ Ahead(p) /\ Fresh(p)
    BY <1>1, <1>6 DEF Present
  <2>2. Narrated(Pending', frames'[p])
    BY <1>1, <1>2, <1>4, <2>1, NarratedTail
  <2>3. \A n \in Nat : /\ \A kind, id : Later(frames'[p], n, kind, id) <=> Later(frames[p], n + 1, kind, id)
                       /\ NewsLater(frames'[p], n) <=> NewsLater(frames[p], n + 1)
    BY <1>1, <1>2, LaterTail
  <2>4. /\ \A kind, id : Later(frames[p], 0, kind, id) <=> Later(frames[p], 1, kind, id) \/ (f.kind = kind /\ f.id = id)
        /\ NewsLater(frames[p], 0) <=> NewsLater(frames[p], 1) \/ f.kind = "news"
    BY <1>1, <1>2, LaterHead DEF f
  <2>5. \A kind, id : Later(frames'[p], 0, kind, id) <=> Later(frames[p], 1, kind, id)
    <3>1. 0 \in Nat /\ 0 + 1 = 1
      OBVIOUS
    <3> QED BY <2>3, <3>1
  <2>6. NewsLater(frames'[p], 0) <=> NewsLater(frames[p], 1)
    <3>1. 0 \in Nat /\ 0 + 1 = 1
      OBVIOUS
    <3> QED BY <2>3, <3>1
  <2>7. ASSUME NEW i \in DOMAIN answers[p], answers[p][i].behind > 0
        PROVE  Fits(p, answers[p][i])'
    <3> DEFINE a == answers[p][i]
               n == a.behind - 1
    <3>1. /\ a \in Answer /\ a.behind \in Nat /\ n \in Nat /\ n + 1 = a.behind
          /\ answers'[p][i] = [a EXCEPT !.behind = n]
      BY <1>1, <2>7, ViewsAre DEF Passed
    <3>2. /\ answers'[p][i].can = a.can /\ answers'[p][i].cards = a.cards /\ answers'[p][i].busy = a.busy
          /\ answers'[p][i].old = a.old /\ answers'[p][i].behind = n
      BY <3>1 DEF Answer
    <3>3. /\ a.behind <= Len(frames[p])
          /\ ~a.old => /\ a.can = MayApprove(p)
                       /\ MayApprove(p) => Becomes(a.cards, Pending, DOMAIN prompts, frames[p], n + 1)
                       /\ a.busy = busy \/ NewsLater(frames[p], n + 1)
      BY <2>1, <3>1 DEF Ahead, Fits, Recent
    <3> HIDE DEF a, n
    <3>4. Becomes(a.cards, Pending, DOMAIN prompts, frames[p], n + 1)
          => Becomes(a.cards, Pending', DOMAIN prompts', frames'[p], n)
      BY <1>4, <2>3, <3>1 DEF Becomes
    <3>5. n <= Len(frames'[p])
      BY <1>2, <3>1, <3>3
    <3>6. MayApprove(p)' = MayApprove(p) /\ busy' = busy
      BY <1>1 DEF MayApprove
    <3> QED BY <2>3, <3>1, <3>2, <3>3, <3>4, <3>5, <3>6 DEF Fits, Recent
  <2>8. ASSUME NEW i \in DOMAIN answers[p], ~(answers[p][i].behind > 0)
        PROVE  Fits(p, answers[p][i])'
    <3> DEFINE a == answers[p][i]
    <3>1. /\ a \in Answer /\ a.behind = 0 /\ a.old \in BOOLEAN
          /\ answers'[p][i] = [a EXCEPT !.old = @ \/ f.kind # "message"]
      BY <1>1, <2>8, ViewsAre DEF Passed
    <3>2. /\ answers'[p][i].can = a.can /\ answers'[p][i].cards = a.cards /\ answers'[p][i].busy = a.busy
          /\ answers'[p][i].behind = 0 /\ (answers'[p][i].old <=> a.old \/ f.kind # "message")
      BY <3>1 DEF Answer
    <3>3. ~a.old => /\ a.can = MayApprove(p)
                    /\ MayApprove(p) => Becomes(a.cards, Pending, DOMAIN prompts, frames[p], 0)
                    /\ a.busy = busy \/ NewsLater(frames[p], 0)
      BY <2>1, <3>1 DEF Ahead, Fits, Recent
    <3> HIDE DEF a
    <3>4. f.kind = "message" /\ Becomes(a.cards, Pending, DOMAIN prompts, frames[p], 0)
          => Becomes(a.cards, Pending', DOMAIN prompts', frames'[p], 0)
      BY <1>4, <2>4, <2>5 DEF Becomes
    <3>5. 0 <= Len(frames'[p])
      BY <1>2
    <3>6. MayApprove(p)' = MayApprove(p) /\ busy' = busy
      BY <1>1 DEF MayApprove
    <3> QED BY <2>4, <2>6, <3>2, <3>3, <3>4, <3>5, <3>6 DEF Fits, Recent
  <2>9. Ahead(p)'
    BY <1>1, <2>7, <2>8 DEF Ahead
  <2>10. Fresh(p)'
    <3> SUFFICES ASSUME ~stale[p]
                 PROVE  /\ shown'[p].can = MayApprove(p)
                        /\ MayApprove(p) => Becomes(Cards(p)', Pending', DOMAIN prompts', frames'[p], 0)
                        /\ \/ shown'[p].busy = busy \/ NewsLater(frames'[p], 0)
                           \/ asked'[p] > 0 \/ answers'[p] # <<>>
      BY <1>1, <2>1 DEF Fresh, Recent, MayApprove
    <3>1. /\ shown[p].can = MayApprove(p)
          /\ MayApprove(p) => Becomes(Cards(p), Pending, DOMAIN prompts, frames[p], 0)
          /\ \/ shown[p].busy = busy \/ NewsLater(frames[p], 0)
             \/ asked[p] > 0 \/ answers[p] # <<>>
      BY <2>1 DEF Fresh, Recent
    <3>2. /\ shown'[p].can = shown[p].can /\ shown'[p].busy = shown[p].busy
          /\ \A id : id \in Cards(p)' <=> \/ id \in Cards(p) /\ ~(f.kind = "approval" /\ f.id = id)
                                          \/ f.kind = "request" /\ f.id = id
      <4>1. shown[p] \in View
        BY ViewsAre
      <4>2. CASE f.kind \in {"message", "news"}
        BY <1>3, <4>2 DEF Cards
      <4>3. f.kind \in {"request", "approval"} => f.id \in Ids
        <5>1. f = frames[p][1] /\ 1 \in DOMAIN frames[p]
          BY <1>1, <1>2, TailIs DEF f
        <5> QED BY <5>1 DEF Numbered, TypeOK
      <4>4. CASE f.kind = "request"
        <5>1. shown'[p] = [shown[p] EXCEPT !.cards[f.id] = @ + 1] /\ f.id \in Ids
          BY <1>3, <4>3, <4>4
        <5>2. Cards(p)' = Cards(p) \cup {f.id} /\ shown'[p].can = shown[p].can /\ shown'[p].busy = shown[p].busy
          BY <4>1, <5>1, CardsAre
        <5> QED BY <4>4, <5>2
      <4>5. CASE f.kind = "approval"
        <5>1. shown'[p] = [shown[p] EXCEPT !.cards[f.id] = 0] /\ f.id \in Ids
          BY <1>3, <4>3, <4>5
        <5>2. Cards(p)' = Cards(p) \ {f.id} /\ shown'[p].can = shown[p].can /\ shown'[p].busy = shown[p].busy
          BY <4>1, <5>1, CardsAre
        <5> QED BY <4>5, <5>2
      <4> QED BY <1>2, <4>2, <4>4, <4>5
    <3>3. answers[p] # <<>> => answers'[p] # <<>>
      <4>1. answers[p] \in Seq(Answer)
        BY ViewsAre
      <4>2. DOMAIN answers'[p] = DOMAIN answers[p]
        BY <1>1
      <4> QED BY <4>1, <4>2
    <3>4. ASSUME MayApprove(p), NEW id \in DOMAIN prompts
          PROVE  id \in Pending <=> /\ ~Later(frames'[p], 0, "approval", id)
                                    /\ id \in Cards(p)' \/ Later(frames'[p], 0, "request", id)
      <4>1. id \in Pending <=> /\ ~Later(frames[p], 0, "approval", id)
                               /\ id \in Cards(p) \/ Later(frames[p], 0, "request", id)
        BY <3>1, <3>4 DEF Becomes
      <4>2. ~(f.kind = "approval" /\ f.id = id /\ Later(frames'[p], 0, "request", id))
        <5> SUFFICES ASSUME f.kind = "approval", f.id = id, Later(frames'[p], 0, "request", id) PROVE FALSE
          OBVIOUS
        <5>1. PICK j \in DOMAIN frames[p] : 1 < j /\ frames[p][j].kind = "request" /\ frames[p][j].id = id
          BY <2>5 DEF Later
        <5>2. 1 \in DOMAIN frames[p] /\ f = frames[p][1]
          BY <1>1, <1>2, TailIs DEF f
        <5>3. j < 1 /\ j \in Nat
          BY <1>2, <2>1, <5>1, <5>2, FramesAre DEF Narrated
        <5> QED BY <5>1, <5>3
      <4> QED BY <2>4, <2>5, <3>2, <4>1, <4>2
    <3>5. \/ shown'[p].busy = busy \/ NewsLater(frames'[p], 0)
          \/ asked'[p] > 0 \/ answers'[p] # <<>>
      BY <1>2, <1>3, <2>4, <2>6, <3>1, <3>2, <3>3
    <3> QED BY <1>4, <3>1, <3>2, <3>4, <3>5 DEF Becomes
  <2> QED BY <1>1, <2>1, <2>2, <2>9, <2>10 DEF Present
<1> QED BY <1>5, <1>6

\* The cards of an answer that is shown.
LEMMA LoadedCards ==
    ASSUME TypeOK, NEW p \in Pages, Numbered(p), NEW n \in DOMAIN answers[p], Load(p, n)
    PROVE  Cards(p)' = answers[p][n].cards
<1>1. shown'[p].cards = [id \in Ids |-> IF id \in answers[p][n].cards THEN 1 ELSE 0]
  BY DEF Load, TypeOK
<1>2. answers[p][n].cards \subseteq Ids
  BY DEF Numbered, TypeOK
<1> QED BY <1>1, <1>2 DEF Cards

LEMMA LoadedKeeps ==
    ASSUME TypeOK, NEW p \in Pages, Present(p), Numbered(p), NEW n \in DOMAIN answers[p], Load(p, n)
    PROVE  Present(p)'
<1> DEFINE a == answers[p][n]
<1>1. /\ UNCHANGED <<role, prompts, busy, frames>> /\ stale'[p] = a.old
      /\ shown'[p].can = a.can /\ shown'[p].busy = a.busy /\ Cards(p)' = a.cards
      /\ phase'[p] = IF phase[p] = "loading" THEN "connecting" ELSE phase[p]
  BY LoadedCards DEF Load, room, TypeOK
<1>2. a.behind \in Nat /\ frames[p] \in Seq(Told)
  BY ViewsAre
<1>3. Pending' = Pending /\ DOMAIN prompts' = DOMAIN prompts /\ MayApprove(p)' = MayApprove(p)
  BY <1>1 DEF Pending, MayApprove
<1>4. CASE role[p] = "gone"
  BY <1>1, <1>4 DEF Present
<1>5. CASE role[p] # "gone"
  <2>1. Ahead(p) /\ Narrated(Pending, frames[p]) /\ (phase[p] # "live" => frames[p] = <<>>)
    BY <1>5 DEF Present
  <2>2. Narrated(Pending', frames'[p]) /\ (phase'[p] # "live" => frames'[p] = <<>>)
    BY <1>1, <1>3, <2>1
  <2>3. Ahead(p)'
    <3> SUFFICES ASSUME NEW i \in DOMAIN answers'[p]
                 PROVE  Fits(p, answers[p][i])'
      BY DEF Ahead
    <3>1. PICK k \in DOMAIN answers[p] :
              \/ answers'[p][i] = answers[p][k]
              \/ /\ answers'[p][i].old /\ answers'[p][i].behind = answers[p][k].behind
      BY LoadLeaves
    <3>2. Fits(p, answers[p][k])
      BY <2>1 DEF Ahead
    <3> QED BY <1>1, <1>3, <3>1, <3>2 DEF Fits, Recent
  <2>4. Fresh(p)'
    <3> SUFFICES ASSUME ~a.old
                 PROVE  /\ a.can = MayApprove(p)
                        /\ MayApprove(p) => Becomes(a.cards, Pending, DOMAIN prompts, frames[p], 0)
                        /\ a.busy = busy \/ NewsLater(frames[p], 0)
      BY <1>1, <1>3 DEF Fresh, Recent
    <3>1. /\ a.can = MayApprove(p)
          /\ MayApprove(p) => Becomes(a.cards, Pending, DOMAIN prompts, frames[p], a.behind)
          /\ a.busy = busy \/ NewsLater(frames[p], a.behind)
      BY <2>1 DEF Ahead, Fits, Recent
    <3> HIDE DEF a
    <3> QED BY <1>2, <2>1, <3>1, FramesAgain, LaterAll
  <2> QED BY <1>1, <2>2, <2>3, <2>4 DEF Present
<1> QED BY <1>4, <1>5

\* The room serves what it is, ahead of every frame on its way.
LEMMA ServedKeeps ==
    ASSUME TypeOK, NEW p \in Pages, Present(p), Numbered(p), ServeState(p)
    PROVE  Present(p)'
<1>1. UNCHANGED <<role, prompts, busy, frames, shown, stale>>
  BY DEF ServeState, room, history
<1>2. Pending' = Pending /\ DOMAIN prompts' = DOMAIN prompts /\ MayApprove(p)' = MayApprove(p)
  BY <1>1 DEF Pending, MayApprove
<1>3. CASE role[p] = "gone"
  BY <1>1, <1>3 DEF Present
<1>4. CASE role[p] # "gone"
  <2> DEFINE new == Snapshot(p)
  <2>1. answers'[p] = Append(answers[p], new) /\ phase' = phase /\ answers[p] \in Seq(Answer) /\ frames[p] \in Seq(Told)
    BY <1>4, ViewsAre DEF ServeState, TypeOK
  <2>2. new \in Answer
    <3>1. Newest(messages) \in Seq(Nat)
      BY NewestIs DEF TypeOK
    <3>2. Pending \in SUBSET Nat
      BY DEF Pending, TypeOK
    <3> QED BY <2>1, <3>1, <3>2 DEF Snapshot, Answer, MayApprove, TypeOK
  <2>3. /\ new.can = MayApprove(p) /\ (MayApprove(p) => new.cards = Pending) /\ new.busy = busy
        /\ new.behind = Len(frames[p])
    BY DEF Snapshot
  <2> HIDE DEF new
  <2>4. /\ \A i \in DOMAIN answers'[p] : i \in DOMAIN answers[p] \/ i = Len(answers[p]) + 1
        /\ \A i \in DOMAIN answers[p] : answers'[p][i] = answers[p][i]
        /\ answers'[p][Len(answers[p]) + 1] = new /\ answers'[p] # <<>>
    <3>1. /\ DOMAIN answers'[p] = 1..(Len(answers[p]) + 1) /\ DOMAIN answers[p] = 1..Len(answers[p])
          /\ \A i \in 1..Len(answers[p]) : answers'[p][i] = answers[p][i]
          /\ answers'[p][Len(answers[p]) + 1] = new /\ Len(answers[p]) \in Nat
      BY <2>1, <2>2, AppendProperties
    <3> QED BY <3>1
  <2>5. Fits(p, new)
    <3>1. /\ \A kind, id : ~Later(frames[p], Len(frames[p]), kind, id)
          /\ Len(frames[p]) <= Len(frames[p])
      BY <2>1, FramesAre DEF Later
    <3> QED BY <2>3, <3>1 DEF Fits, Recent, Becomes
  <2>6. Ahead(p)'
    <3> SUFFICES ASSUME NEW i \in DOMAIN answers'[p]
                 PROVE  Fits(p, answers[p][i])'
      BY DEF Ahead
    <3>1. CASE i \in DOMAIN answers[p]
      <4>1. answers'[p][i] = answers[p][i] /\ Fits(p, answers[p][i])
        BY <1>4, <2>4, <3>1 DEF Present, Ahead
      <4> QED BY <1>1, <1>2, <4>1 DEF Fits, Recent
    <3>2. CASE i = Len(answers[p]) + 1
      <4>1. answers'[p][i] = new
        BY <2>4, <3>2
      <4> QED BY <1>1, <1>2, <2>5, <4>1 DEF Fits, Recent
    <3> QED BY <2>4, <3>1, <3>2
  <2>7. Fresh(p)'
    BY <1>1, <1>2, <1>4, <2>1, <2>4 DEF Present, Fresh, Recent, Cards
  <2> QED BY <1>1, <1>2, <1>4, <2>1, <2>6, <2>7 DEF Present
<1> QED BY <1>3, <1>4

\* A stream that breaks takes frames with it: answers that waited for them are of the past.
LEMMA CutKeeps ==
    ASSUME TypeOK, NEW p \in Pages, Present(p), Numbered(p), Cut(p)
    PROVE  Present(p)'
<1>1. /\ UNCHANGED <<role, prompts, busy, shown, asked>> /\ frames'[p] = <<>> /\ phase[p] = "live"
      /\ phase'[p] = "connecting" /\ (stale'[p] <=> stale[p] \/ Unread(p, 0)) /\ answers'[p] = Passing(p)
  BY DEF Cut, room, TypeOK
<1>2. Pending' = Pending /\ DOMAIN prompts' = DOMAIN prompts /\ MayApprove(p)' = MayApprove(p)
  BY <1>1 DEF Pending, MayApprove
<1>3. CASE role[p] = "gone"
  BY <1>1, <1>3 DEF Present
<1>4. CASE role[p] # "gone"
  <2>1. Narrated(Pending', frames'[p])
    BY <1>1 DEF Narrated
  <2>2. \A n \in Nat : ~Unread(p, n) => /\ \A id : ~Later(frames[p], n, "approval", id)
                                        /\ \A id : ~Later(frames[p], n, "request", id)
                                        /\ ~NewsLater(frames[p], n)
    <3>1. DOMAIN frames[p] = 1..Len(frames[p]) /\ Len(frames[p]) \in Nat
      BY ViewsAre, FramesAre
    <3>2. \A n \in Nat : \A i \in DOMAIN frames[p] : n < i => i \in (n + 1)..Len(frames[p])
      BY <3>1
    <3> QED BY <3>2 DEF Unread, Later, NewsLater
  <2>3. \A n \in Nat : \A cards :
           ~Unread(p, n) /\ Becomes(cards, Pending, DOMAIN prompts, frames[p], n)
           => Becomes(cards, Pending, DOMAIN prompts, <<>>, 0)
    BY <2>2, LaterEmpty DEF Becomes
  <2>4. Ahead(p)'
    <3> SUFFICES ASSUME NEW i \in DOMAIN answers[p]
                 PROVE  Fits(p, answers[p][i])'
      BY <1>1 DEF Ahead, Passing
    <3> DEFINE a == answers[p][i]
    <3>1. a \in Answer /\ a.behind \in Nat /\ answers'[p][i] = [a EXCEPT !.behind = 0, !.old = @ \/ Unread(p, a.behind)]
      BY <1>1, ViewsAre DEF Passing
    <3>2. /\ answers'[p][i].can = a.can /\ answers'[p][i].cards = a.cards /\ answers'[p][i].busy = a.busy
          /\ answers'[p][i].behind = 0 /\ (answers'[p][i].old <=> a.old \/ Unread(p, a.behind))
      BY <3>1 DEF Answer
    <3>3. ~a.old => /\ a.can = MayApprove(p)
                    /\ MayApprove(p) => Becomes(a.cards, Pending, DOMAIN prompts, frames[p], a.behind)
                    /\ a.busy = busy \/ NewsLater(frames[p], a.behind)
      BY <1>4 DEF Present, Ahead, Fits, Recent
    <3> HIDE DEF a
    <3> QED BY <1>1, <1>2, <2>2, <2>3, <3>1, <3>2, <3>3 DEF Fits, Recent
  <2>5. Fresh(p)'
    <3> SUFFICES ASSUME ~stale[p], ~Unread(p, 0)
                 PROVE  /\ shown[p].can = MayApprove(p)
                        /\ MayApprove(p) => Becomes(Cards(p), Pending, DOMAIN prompts, <<>>, 0)
                        /\ shown[p].busy = busy \/ asked[p] > 0 \/ answers'[p] # <<>>
      BY <1>1, <1>2 DEF Fresh, Recent, Cards
    <3>1. /\ shown[p].can = MayApprove(p)
          /\ MayApprove(p) => Becomes(Cards(p), Pending, DOMAIN prompts, frames[p], 0)
          /\ \/ shown[p].busy = busy \/ NewsLater(frames[p], 0)
             \/ asked[p] > 0 \/ answers[p] # <<>>
      BY <1>1, <1>4 DEF Present, Fresh, Recent
    <3>2. answers[p] # <<>> => answers'[p] # <<>>
      <4>1. answers[p] \in Seq(Answer) /\ DOMAIN answers'[p] = DOMAIN answers[p]
        BY <1>1, ViewsAre DEF Passing
      <4> QED BY <4>1
    <3>3. 0 \in Nat
      OBVIOUS
    <3> QED BY <2>2, <2>3, <3>1, <3>2, <3>3
  <2> QED BY <1>1, <2>1, <2>4, <2>5 DEF Present
<1> QED BY <1>3, <1>4

-----------------------------------------------------------------------------
(* Prompts there are, verdicts, and members who left.                      *)

\* A prompt that ended does not begin again.
LEMMA PromptsStep ==
    ASSUME TypeOK, [Next]_vars
    PROVE  DOMAIN prompts \subseteq DOMAIN prompts' /\ \A id \in DOMAIN prompts : id \in Pending' => id \in Pending
<1>1. prompts \in Seq(Fates) /\ "open" \in Fates
  BY DEF TypeOK, Fates
<1>2. CASE Ask
  <2>1. prompts' = Append(prompts, "open")
    BY <1>2 DEF Ask
  <2>2. DOMAIN prompts \subseteq DOMAIN prompts' /\ \A i \in DOMAIN prompts : prompts'[i] = prompts[i]
    <3>1. /\ DOMAIN prompts = 1..Len(prompts) /\ DOMAIN prompts' = 1..(Len(prompts) + 1) /\ Len(prompts) \in Nat
          /\ \A i \in 1..Len(prompts) : prompts'[i] = prompts[i]
      BY <1>1, <2>1, AppendProperties
    <3> QED BY <3>1
  <2> QED BY <2>2 DEF Pending
<1>3. ASSUME NEW id \in Pending, Expire(id)
      PROVE  DOMAIN prompts \subseteq DOMAIN prompts' /\ \A k \in DOMAIN prompts : k \in Pending' => k \in Pending
  BY <1>3 DEF Expire, Pending
<1>4. ASSUME NEW c \in posts \cup Elsewhere, ServeVerdict(c)
      PROVE  DOMAIN prompts \subseteq DOMAIN prompts' /\ \A k \in DOMAIN prompts : k \in Pending' => k \in Pending
  <2>1. prompts' = prompts \/ prompts' = [prompts EXCEPT ![c.id] = "answered"]
    BY <1>4 DEF ServeVerdict, Resolved
  <2> QED BY <2>1 DEF Pending
<1>5. CASE Restart
  <2>1. prompts' = [id \in DOMAIN prompts |-> IF id \in Pending THEN "forgotten" ELSE prompts[id]]
    BY <1>5 DEF Restart
  <2> QED BY <2>1 DEF Pending
<1>6. CASE UNCHANGED prompts
  BY <1>6 DEF Pending
<1>7. TurnStarts \/ TurnEnds \/ Tells \/ Say \/ UNCHANGED vars => UNCHANGED prompts
  BY DEF TurnStarts, TurnEnds, Tells, Say, vars, room
<1>8. (\E m \in Members : Role(m) \/ Leave(m)) \/ (\E r \in replies : Answered(r)) => UNCHANGED prompts
  BY DEF Role, Leave, Answered, room
<1>9. ASSUME NEW p \in Pages, \/ Start(p) \/ ServeState(p) \/ Connect(p) \/ Hears(p) \/ Cut(p)
                              \/ \E i \in DOMAIN answers[p] : Load(p, i)
                              \/ \E id \in Ids : Click(p, id)
      PROVE  UNCHANGED prompts
  BY <1>9 DEF Start, ServeState, Connect, Hears, Cut, Load, Click, room
<1> QED BY <1>2, <1>3, <1>4, <1>5, <1>6, <1>7, <1>8, <1>9 DEF Next

LEMMA NumberedAnnounce ==
    ASSUME TypeOK, NEW p \in Pages, Numbered(p), NEW f \in Told, Announce(f),
           f.kind \in {"request", "approval"} => f.id \in DOMAIN prompts',
           DOMAIN prompts \subseteq DOMAIN prompts', shown' = shown
    PROVE  Numbered(p)'
<1>1. \A i \in DOMAIN frames'[p] :
         frames'[p][i].kind \in {"request", "approval"} => frames'[p][i].id \in DOMAIN prompts'
  <2>1. CASE frames'[p] = frames[p]
    BY <2>1 DEF Numbered
  <2>2. CASE frames'[p] = Append(frames[p], f)
    <3>1. \A i \in DOMAIN frames'[p] : frames'[p][i] = f \/ (i \in DOMAIN frames[p] /\ frames'[p][i] = frames[p][i])
      BY <2>2, ViewsAre, Appended
    <3> QED BY <3>1 DEF Numbered
  <2> QED BY <2>1, <2>2, AnnounceAt
<1>2. \A i \in DOMAIN answers'[p] : i \in DOMAIN answers[p] /\ answers'[p][i].cards = answers[p][i].cards
  <2>1. CASE answers'[p] = answers[p]
    BY <2>1
  <2>2. CASE answers'[p] = Outdated(answers[p])
    BY <2>2, ViewsAre, OutdatedIs
  <2> QED BY <2>1, <2>2, AnnounceAt
<1> QED BY <1>1, <1>2 DEF Numbered, Cards

LEMMA NumberedStep ==
    ASSUME TypeOK, NEW p \in Pages, Numbered(p), [Next]_vars
    PROVE  Numbered(p)'
<1> USE DEF room, link, clicks, history
<1>0. DOMAIN prompts \subseteq DOMAIN prompts'
  BY PromptsStep
<1>1. ASSUME shown'[p] = shown[p], answers'[p] = answers[p], frames'[p] = frames[p] PROVE Numbered(p)'
  BY <1>0, <1>1 DEF Numbered, Cards
<1>2. CASE Ask
  <2>1. /\ Frame("request", Len(prompts) + 1) \in Told /\ Frame("request", Len(prompts) + 1).id = Len(prompts) + 1
        /\ Announce(Frame("request", Len(prompts) + 1)) /\ shown' = shown
    BY <1>2, FrameType DEF TypeOK, Frame, Ask
  <2>2. Len(prompts) + 1 \in DOMAIN prompts'
    BY <1>2 DEF Ask, TypeOK
  <2> QED BY <1>0, <2>1, <2>2, NumberedAnnounce
<1>3. ASSUME NEW id \in Pending, Expire(id) PROVE Numbered(p)'
  <2>1. id \in DOMAIN prompts /\ id \in Nat
    BY ViewsAre
  <2>2. /\ Frame("approval", id) \in Told /\ Frame("approval", id).id = id
        /\ Announce(Frame("approval", id)) /\ shown' = shown
    BY <1>3, <2>1, FrameType DEF Frame, Expire, Expired
  <2> QED BY <1>0, <2>1, <2>2, NumberedAnnounce
<1>4. CASE TurnStarts \/ TurnEnds \/ Tells
  <2>1. /\ Frame("news", 0) \in Told /\ Frame("news", 0).kind = "news"
        /\ Announce(Frame("news", 0)) /\ shown' = shown
    BY <1>4, FrameType DEF Frame, TurnStarts, TurnEnds, Tells
  <2> QED BY <1>0, <2>1, NumberedAnnounce
<1>5. CASE Say
  <2>1. answers' = answers /\ shown' = shown
    BY <1>5 DEF Say
  <2>2. frames'[p] = frames[p] \/ frames'[p] = Append(frames[p], Frame("message", messages + 1))
    BY <1>5 DEF Say, Publish
  <2>3. Frame("message", messages + 1) \in Told /\ Frame("message", messages + 1).kind = "message"
    BY FrameType DEF TypeOK, Frame
  <2>4. \A i \in DOMAIN frames'[p] : \/ frames'[p][i].kind = "message"
                                     \/ i \in DOMAIN frames[p] /\ frames'[p][i] = frames[p][i]
    BY <2>2, <2>3, ViewsAre, Appended
  <2> QED BY <1>0, <2>1, <2>4 DEF Numbered, Cards
<1>6. ASSUME NEW c \in posts \cup Elsewhere, ServeVerdict(c) PROVE Numbered(p)'
  <2>1. shown' = shown
    BY <1>6 DEF ServeVerdict
  <2>2. CASE c.id \in Pending /\ MayApprove(c.by)
    <3>1. c.id \in DOMAIN prompts /\ c.id \in Nat
      BY <2>2, ViewsAre
    <3>2. /\ Frame("approval", c.id) \in Told /\ Frame("approval", c.id).id = c.id
          /\ Announce(Frame("approval", c.id))
      BY <1>6, <2>2, <3>1, FrameType DEF Frame, ServeVerdict
    <3> QED BY <1>0, <2>1, <3>1, <3>2, NumberedAnnounce
  <2>3. CASE ~(c.id \in Pending /\ MayApprove(c.by))
    BY <1>1, <1>6, <2>1, <2>3 DEF ServeVerdict
  <2> QED BY <2>2, <2>3
<1>7. CASE Restart
  BY <1>0, <1>7 DEF Restart, Numbered, Cards
<1>8. ASSUME NEW m \in Members, Role(m) PROVE Numbered(p)'
  <2>1. shown' = shown /\ frames' = frames /\ (answers'[p] = answers[p] \/ answers'[p] = Outdated(answers[p]))
    BY <1>8 DEF Role, Missed
  <2>2. \A i \in DOMAIN answers'[p] : i \in DOMAIN answers[p] /\ answers'[p][i].cards = answers[p][i].cards
    BY <2>1, ViewsAre, OutdatedIs
  <2> QED BY <1>0, <2>1, <2>2 DEF Numbered, Cards
<1>9. ASSUME NEW m \in Members, Leave(m) PROVE Numbered(p)'
  BY <1>1, <1>9 DEF Leave
<1>10. ASSUME NEW r \in replies, Answered(r) PROVE Numbered(p)'
  <2>1. answers' = answers /\ frames' = frames /\ shown' = [shown EXCEPT ![r.by].cards[r.id] = 0]
    BY <1>10 DEF Answered
  <2>2. Cards(p)' \subseteq Cards(p)
    <3>1. shown[p] \in View /\ shown[r.by] \in View /\ r.by \in Pages /\ shown \in [Pages -> View]
      BY DEF TypeOK
    <3>2. \A id \in Ids : shown'[p].cards[id] \in {shown[p].cards[id], 0}
      BY <2>1, <3>1 DEF View
    <3> QED BY <3>2 DEF Cards
  <2> QED BY <1>0, <2>1, <2>2 DEF Numbered
<1>11. ASSUME NEW q \in Pages, Start(q) \/ Connect(q) PROVE Numbered(p)'
  BY <1>1, <1>11 DEF Start, Connect
<1>12. ASSUME NEW q \in Pages, ServeState(q) PROVE Numbered(p)'
  <2>1. shown' = shown /\ frames' = frames /\ prompts' = prompts
    BY <1>12 DEF ServeState
  <2>2. CASE answers'[p] = answers[p]
    BY <1>1, <2>1, <2>2
  <2>3. CASE answers'[p] # answers[p]
    <3>1. answers'[p] = Append(answers[p], Snapshot(p))
      BY <1>12, <2>3 DEF ServeState, TypeOK
    <3>2. Snapshot(p).cards \subseteq DOMAIN prompts
      BY DEF Snapshot, Pending
    <3> DEFINE new == Snapshot(p)
    <3> HIDE DEF new
    <3>3. \A i \in DOMAIN answers'[p] : answers'[p][i] = new \/ (i \in DOMAIN answers[p] /\ answers'[p][i] = answers[p][i])
      <4>1. answers[p] \in Seq(Answer) /\ answers'[p] = Append(answers[p], new)
        BY <3>1, ViewsAre DEF new
      <4> QED BY <4>1
    <3> QED BY <2>1, <3>2, <3>3 DEF Numbered, Cards, new
  <2> QED BY <2>2, <2>3
<1>13. ASSUME NEW q \in Pages, Hears(q) PROVE Numbered(p)'
  <2> DEFINE f == Head(frames[q])
  <2>0. frames[q] \in Seq(Told) /\ frames[q] # <<>> /\ f = frames[q][1] /\ 1 \in DOMAIN frames[q]
    BY <1>13, ViewsAre, TailIs DEF Hears
  <2>1. f.kind \in {"request", "approval", "news", "message"} /\ prompts' = prompts
    BY <1>13, <2>0, FramesAre DEF Hears
  <2>2. frames' = [frames EXCEPT ![q] = Tail(frames[q])]
        /\ answers' = [answers EXCEPT ![q] = [i \in DOMAIN answers[q] |-> Passed(f, answers[q][i])]]
    BY <1>13 DEF Hears
  <2>3. \/ shown' = shown
        \/ f.kind = "request" /\ shown' = [shown EXCEPT ![q].cards[f.id] = @ + 1]
        \/ f.kind = "approval" /\ shown' = [shown EXCEPT ![q].cards[f.id] = 0]
    <3>1. f.kind = "message" \/ f.kind = "news" => shown' = shown
      BY <1>13 DEF Hears
    <3>2. f.kind = "request" => shown' = [shown EXCEPT ![q].cards[f.id] = @ + 1]
      BY <1>13 DEF Hears
    <3>3. f.kind = "approval" => shown' = [shown EXCEPT ![q].cards[f.id] = 0]
      BY <1>13 DEF Hears
    <3> QED BY <2>1, <3>1, <3>2, <3>3
  <2> HIDE DEF f
  <2>4. Cards(p)' \subseteq DOMAIN prompts
    <3>1. shown[p] \in View /\ shown[q] \in View
      BY ViewsAre
    <3>2. CASE p # q
      <4>1. shown'[p] = shown[p]
        BY <2>3, <3>2 DEF TypeOK
      <4> QED BY <4>1 DEF Numbered, Cards
    <3>3. CASE p = q /\ f.kind = "request"
      <4>1. f.id \in DOMAIN prompts
        BY <2>0, <3>3 DEF Numbered
      <4>2. f.id \in Ids
        BY <4>1 DEF TypeOK
      <4>3. shown'[p] = [shown[p] EXCEPT !.cards[f.id] = @ + 1]
        BY <1>13, <3>3 DEF Hears, TypeOK, f
      <4>4. Cards(p)' \subseteq Cards(p) \cup {f.id}
        BY <3>1, <4>2, <4>3, CardsAre
      <4> QED BY <4>1, <4>4 DEF Numbered
    <3>4. CASE p = q /\ f.kind # "request"
      <4>1. Cards(p)' \subseteq Cards(p)
        <5>1. CASE shown' = shown
          BY <5>1 DEF Cards
        <5>2. CASE shown' # shown
          <6>1. f.kind = "approval" /\ shown'[p] = [shown[p] EXCEPT !.cards[f.id] = 0]
            BY <2>3, <3>4, <5>2 DEF TypeOK
          <6>2. f.id \in Ids
            BY <2>0, <3>4, <6>1 DEF Numbered, TypeOK
          <6> QED BY <3>1, <6>1, <6>2, CardsAre
        <5> QED BY <5>1, <5>2
      <4> QED BY <4>1 DEF Numbered
    <3> QED BY <3>2, <3>3, <3>4
  <2>5. \A i \in DOMAIN answers'[p] : i \in DOMAIN answers[p] /\ answers'[p][i].cards = answers[p][i].cards
    <3>1. \A a \in Answer : Passed(f, a).cards = a.cards
      BY DEF Passed, Answer
    <3>2. CASE p # q
      BY <2>2, <3>2 DEF TypeOK
    <3>3. CASE p = q
      <4>1. answers'[p] = [i \in DOMAIN answers[p] |-> Passed(f, answers[p][i])]
        BY <2>2, <3>3 DEF TypeOK
      <4> QED BY <3>1, <4>1, ViewsAre
    <3> QED BY <3>2, <3>3
  <2>6. \A i \in DOMAIN frames'[p] : \E k \in DOMAIN frames[p] : frames'[p][i] = frames[p][k]
    <3>1. CASE p # q
      BY <2>2, <3>1 DEF TypeOK
    <3>2. CASE p = q
      BY <2>0, <2>2, <3>2, TailIs DEF TypeOK
    <3> QED BY <3>1, <3>2
  <2> QED BY <2>1, <2>4, <2>5, <2>6 DEF Numbered
<1>14. ASSUME NEW q \in Pages, Cut(q) PROVE Numbered(p)'
  <2>1. shown' = shown /\ prompts' = prompts /\ (frames'[p] = frames[p] \/ frames'[p] = <<>>)
    BY <1>14 DEF Cut, TypeOK
  <2>2. \A i \in DOMAIN answers'[p] : i \in DOMAIN answers[p] /\ answers'[p][i].cards = answers[p][i].cards
    <3>1. answers'[p] = answers[p] \/ answers'[p] = Passing(p)
      BY <1>14 DEF Cut, TypeOK
    <3>2. \A a \in Answer : \A b : [a EXCEPT !.behind = 0, !.old = b].cards = a.cards
      BY DEF Answer
    <3>3. /\ DOMAIN Passing(p) = DOMAIN answers[p]
          /\ \A i \in DOMAIN answers[p] : Passing(p)[i].cards = answers[p][i].cards
      BY <3>2, ViewsAre DEF Passing
    <3> QED BY <3>1, <3>3
  <2> QED BY <2>1, <2>2 DEF Numbered, Cards
<1>15. ASSUME NEW q \in Pages, NEW i \in DOMAIN answers[q], Load(q, i) PROVE Numbered(p)'
  <2>1. CASE p # q
    BY <1>1, <1>15, <2>1 DEF Load, TypeOK
  <2>2. CASE p = q
    <3>1. /\ frames' = frames /\ prompts' = prompts
      BY <1>15, <2>2 DEF Load, TypeOK
    <3>2. Cards(p)' = answers[p][i].cards
      BY <1>15, <2>2, LoadedCards
    <3>3. \A j \in DOMAIN answers'[p] : \E k \in DOMAIN answers[p] : answers'[p][j].cards = answers[p][k].cards
      BY <1>15, <2>2, LoadLeaves
    <3> QED BY <2>2, <3>1, <3>2, <3>3 DEF Numbered
  <2> QED BY <2>1, <2>2
<1>16. ASSUME NEW q \in Pages, NEW id \in Ids, Click(q, id) PROVE Numbered(p)'
  BY <1>1, <1>16 DEF Click
<1>17. CASE UNCHANGED vars
  BY <1>1, <1>17 DEF vars
<1> QED BY <1>2, <1>3, <1>4, <1>5, <1>6, <1>7, <1>8, <1>9, <1>10, <1>11, <1>12, <1>13, <1>14,
           <1>15, <1>16, <1>17 DEF Next

\* A verdict that got an answer other than a refusal left its prompt settled for good.
LEMMA SettledStep ==
    ASSUME TypeOK, Settled, \A p \in Pages : Numbered(p), [Next]_vars
    PROVE  Settled'
<1> USE DEF room, link, clicks, history
<1>0. DOMAIN prompts \subseteq DOMAIN prompts' /\ \A id \in DOMAIN prompts : id \in Pending' => id \in Pending
  BY PromptsStep
<1>1. ASSUME posts' \subseteq posts, replies' \subseteq replies PROVE Settled'
  BY <1>0, <1>1 DEF Settled
<1>2. ASSUME NEW c \in posts \cup Elsewhere, ServeVerdict(c) PROVE Settled'
  <2>1. c.id \in DOMAIN prompts
    BY <1>2 DEF Settled, Elsewhere
  <2>2. posts' \subseteq posts
    BY <1>2 DEF ServeVerdict
  <2>3. \A r \in replies' : r \in replies \/ (r.id = c.id /\ r.barred = (c.id \in Pending /\ ~MayApprove(c.by)))
    BY <1>2 DEF ServeVerdict
  <2>4. c.id \in Pending /\ MayApprove(c.by) => c.id \notin Pending'
    <3> SUFFICES ASSUME c.id \in Pending, MayApprove(c.by) PROVE c.id \notin Pending'
      OBVIOUS
    <3>1. prompts' = [prompts EXCEPT ![c.id] = "answered"]
      BY <1>2 DEF ServeVerdict, Resolved
    <3> QED BY <2>1, <3>1 DEF Pending
  <2> QED BY <1>0, <2>1, <2>2, <2>3, <2>4 DEF Settled
<1>3. ASSUME NEW q \in Pages, NEW id \in Ids, Click(q, id) PROVE Settled'
  <2>1. posts' = posts \cup {[by |-> q, id |-> id]} /\ replies' = replies /\ id \in DOMAIN prompts
    BY <1>3 DEF Click, Numbered, Cards
  <2> QED BY <1>0, <2>1 DEF Settled
<1>4. CASE Ask \/ TurnStarts \/ TurnEnds \/ Tells \/ Say \/ Restart \/ UNCHANGED vars
  BY <1>1, <1>4 DEF Ask, TurnStarts, TurnEnds, Tells, Say, Restart, vars
<1>5. ASSUME NEW id \in Pending, Expire(id) PROVE Settled'
  BY <1>1, <1>5 DEF Expire
<1>6. ASSUME NEW m \in Members, Role(m) \/ Leave(m) PROVE Settled'
  BY <1>1, <1>6 DEF Role, Leave
<1>7. ASSUME NEW r \in replies, Answered(r) PROVE Settled'
  BY <1>1, <1>7 DEF Answered
<1>8. ASSUME NEW p \in Pages, \/ Start(p) \/ ServeState(p) \/ Connect(p) \/ Hears(p) \/ Cut(p)
                              \/ \E i \in DOMAIN answers[p] : Load(p, i)
      PROVE  Settled'
  BY <1>1, <1>8 DEF Start, ServeState, Connect, Hears, Cut, Load
<1> QED BY <1>2, <1>3, <1>4, <1>5, <1>6, <1>7, <1>8 DEF Next

\* A member who left gets no stream.
LEMMA ExpelledStep ==
    ASSUME TypeOK, NEW p \in Pages, Expelled(p), [Next]_vars
    PROVE  Expelled(p)'
<1> USE DEF room, link, clicks, history
<1>1. ASSUME phase'[p] = phase[p], role' = role PROVE Expelled(p)'
  BY <1>1 DEF Expelled
<1>2. CASE Ask \/ TurnStarts \/ TurnEnds \/ Tells \/ Say \/ UNCHANGED vars
  BY <1>1, <1>2 DEF Ask, TurnStarts, TurnEnds, Tells, Say, Announce, vars
<1>3. ASSUME NEW id \in Pending, Expire(id) PROVE Expelled(p)'
  BY <1>1, <1>3 DEF Expire, Expired, Announce
<1>4. ASSUME NEW c \in posts \cup Elsewhere, ServeVerdict(c) PROVE Expelled(p)'
  BY <1>1, <1>4 DEF ServeVerdict, Announce
<1>5. CASE Restart
  <2>1. phase'[p] # "live"
    BY <1>5 DEF Restart
  <2> QED BY <2>1 DEF Expelled
<1>6. ASSUME NEW m \in Members, Role(m) PROVE Expelled(p)'
  <2>1. phase' = phase /\ role' = [role EXCEPT ![m] = IF MayApprove(m) THEN "member" ELSE "approver"]
        /\ p \in Members
    BY <1>6, ViewsAre DEF Role
  <2> QED BY <2>1 DEF Expelled, TypeOK
<1>7. ASSUME NEW m \in Members, Leave(m) PROVE Expelled(p)'
  <2>1. /\ role' = [role EXCEPT ![m] = "gone"] /\ p \in Members
        /\ phase'[p] = IF p = m /\ phase[p] = "live" THEN "connecting" ELSE phase[p]
    BY <1>7, ViewsAre DEF Leave
  <2> QED BY <2>1 DEF Expelled, TypeOK
<1>8. ASSUME NEW r \in replies, Answered(r) PROVE Expelled(p)'
  BY <1>1, <1>8 DEF Answered
<1>9. ASSUME NEW q \in Pages, Start(q) \/ ServeState(q) \/ Connect(q) PROVE Expelled(p)'
  <2>1. phase'[p] = "live" => phase[p] = "live" \/ role[p] # "gone"
    BY <1>9 DEF Start, ServeState, Connect, TypeOK
  <2>2. role' = role
    BY <1>9 DEF Start, ServeState, Connect
  <2> QED BY <2>1, <2>2 DEF Expelled
<1>10. ASSUME NEW q \in Pages, Cut(q) PROVE Expelled(p)'
  <2>1. role' = role /\ (phase'[p] = "live" => phase[p] = "live")
    BY <1>10 DEF Cut, TypeOK
  <2> QED BY <2>1 DEF Expelled
<1>11. ASSUME NEW q \in Pages, NEW i \in DOMAIN answers[q], Load(q, i) PROVE Expelled(p)'
  <2>1. role' = role /\ (phase'[p] = "live" => phase[p] = "live")
    BY <1>11 DEF Load, TypeOK
  <2> QED BY <2>1 DEF Expelled
<1>12. ASSUME NEW q \in Pages, Hears(q) \/ \E id \in Ids : Click(q, id) PROVE Expelled(p)'
  BY <1>1, <1>12 DEF Hears, Click
<1> QED BY <1>2, <1>3, <1>4, <1>5, <1>6, <1>7, <1>8, <1>9, <1>10, <1>11, <1>12 DEF Next

-----------------------------------------------------------------------------
(* Every step.                                                             *)

\* One step per action: the room's announcements, what the page does, what goes wrong.
LEMMA PresentStep ==
    ASSUME TypeOK, Settled, NEW p \in Pages, Agreeing(p), [Next]_vars
    PROVE  Present(p)'
<1> USE DEF room, link, clicks, history
<1>0. Present(p) /\ Numbered(p)
  BY DEF Agreeing
<1>1. ASSUME UNCHANGED <<role, prompts, busy>>, shown'[p] = shown[p], phase'[p] = phase[p],
             frames'[p] = frames[p], asked'[p] = asked[p], answers'[p] = answers[p], stale'[p] = stale[p]
      PROVE  Present(p)'
  <2>1. Pending' = Pending /\ DOMAIN prompts' = DOMAIN prompts /\ MayApprove(p)' = MayApprove(p)
    BY <1>1 DEF Pending, MayApprove
  <2> QED BY <1>0, <1>1, <2>1 DEF Present, Ahead, Fits, Fresh, Recent, Cards
<1>2. CASE Ask
  BY <1>0, <1>2, BeginKeeps
<1>3. ASSUME NEW id \in Pending, Expire(id) PROVE Present(p)'
  <2>1. id \in DOMAIN prompts
    BY ViewsAre
  <2>2. DOMAIN prompts' = DOMAIN prompts /\ Pending' = Pending \ {id}
    BY <1>3, <2>1 DEF Expire, Pending
  <2>3. Announce(Frame("approval", id)) /\ UNCHANGED <<role, shown, busy>>
    BY <1>3 DEF Expire, Expired
  <2> QED BY <1>0, <2>1, <2>2, <2>3, EndKeeps
<1>4. CASE TurnStarts \/ TurnEnds \/ Tells
  BY <1>0, <1>4, NewsKeeps DEF TurnStarts, TurnEnds, Tells
<1>5. CASE Say
  BY <1>0, <1>5, SaidKeeps
<1>6. ASSUME NEW c \in posts \cup Elsewhere, ServeVerdict(c) PROVE Present(p)'
  <2>1. CASE c.id \in Pending /\ MayApprove(c.by)
    <3>1. c.id \in DOMAIN prompts
      BY <2>1, ViewsAre
    <3>2. prompts' = [prompts EXCEPT ![c.id] = "answered"]
      BY <1>6, <2>1 DEF ServeVerdict, Resolved
    <3>3. DOMAIN prompts' = DOMAIN prompts /\ Pending' = Pending \ {c.id}
      BY <3>1, <3>2 DEF Pending
    <3>4. Announce(Frame("approval", c.id)) /\ UNCHANGED <<role, shown, busy>>
      BY <1>6, <2>1 DEF ServeVerdict
    <3> QED BY <1>0, <3>1, <3>3, <3>4, EndKeeps
  <2>2. CASE ~(c.id \in Pending /\ MayApprove(c.by))
    BY <1>1, <1>6, <2>2 DEF ServeVerdict
  <2> QED BY <2>1, <2>2
<1>7. CASE Restart
  <2>1. frames'[p] = <<>> /\ answers'[p] = <<>> /\ stale'[p]
    BY <1>7 DEF Restart
  <2> QED BY <2>1 DEF Present, Narrated, Ahead, Fresh
<1>8. ASSUME NEW m \in Members, Role(m) PROVE Present(p)'
  <2>1. UNCHANGED <<prompts, busy, phase, frames, asked, shown>>
    BY <1>8 DEF Role
  <2>2. Pending' = Pending
    BY <2>1 DEF Pending
  <2>3. CASE p = m
    <3>1. /\ role[p] # "gone" /\ answers'[p] = Outdated(answers[p]) /\ stale'[p]
      BY <1>8, <2>3 DEF Role, Missed
    <3>2. Narrated(Pending', frames[p])
      BY <1>0, <2>2, <3>1 DEF Present
    <3> QED BY <1>0, <2>1, <3>1, <3>2, PastKeeps
  <2>4. CASE p # m
    <3>1. role'[p] = role[p] /\ answers'[p] = answers[p] /\ stale'[p] = stale[p]
      BY <1>8, <2>4, ViewsAre DEF Role, Missed, TypeOK
    <3>2. DOMAIN prompts' = DOMAIN prompts /\ MayApprove(p)' = MayApprove(p)
      BY <2>1, <3>1 DEF MayApprove
    <3> QED BY <1>0, <2>1, <2>2, <3>1, <3>2 DEF Present, Ahead, Fits, Fresh, Recent, Cards
  <2> QED BY <2>3, <2>4
<1>9. ASSUME NEW m \in Members, Leave(m) PROVE Present(p)'
  <2>1. /\ UNCHANGED <<prompts, busy, frames, asked, answers, shown, stale>>
        /\ role' = [role EXCEPT ![m] = "gone"]
        /\ phase'[p] = IF p = m /\ phase[p] = "live" THEN "connecting" ELSE phase[p]
    BY <1>9 DEF Leave
  <2>2. CASE p = m
    <3>1. role'[p] = "gone"
      BY <2>1, <2>2, ViewsAre DEF TypeOK
    <3> QED BY <3>1 DEF Present
  <2>3. CASE p # m
    <3>1. role'[p] = role[p] /\ phase'[p] = phase[p]
      BY <2>1, <2>3, ViewsAre DEF TypeOK
    <3>2. Pending' = Pending /\ DOMAIN prompts' = DOMAIN prompts /\ MayApprove(p)' = MayApprove(p)
      BY <2>1, <3>1 DEF Pending, MayApprove
    <3> QED BY <1>0, <2>1, <3>1, <3>2 DEF Present, Ahead, Fits, Fresh, Recent, Cards
  <2> QED BY <2>2, <2>3
<1>10. ASSUME NEW r \in replies, Answered(r) PROVE Present(p)'
  <2>1. /\ UNCHANGED <<role, prompts, busy, phase, frames, asked, answers>> /\ r.by \in Pages
        /\ shown' = [shown EXCEPT ![r.by].cards[r.id] = 0]
        /\ stale' = [stale EXCEPT ![r.by] = @ \/ r.barred]
    BY <1>10 DEF Answered, TypeOK
  <2>2. CASE p # r.by
    BY <1>1, <2>1, <2>2 DEF TypeOK
  <2>3. CASE p = r.by
    <3>1. /\ shown'[p] = [shown[p] EXCEPT !.cards[r.id] = 0] /\ (stale'[p] <=> stale[p] \/ r.barred)
          /\ shown[p] \in View /\ stale[p] \in BOOLEAN
      BY <2>1, <2>3 DEF TypeOK
    <3>2. /\ shown'[p].can = shown[p].can /\ shown'[p].busy = shown[p].busy
          /\ Cards(p)' = Cards(p) \ {r.id}
      <4>1. r.id \in Ids
        BY <1>10 DEF Settled, TypeOK
      <4> QED BY <3>1, <4>1, CardsAre
    <3>3. ~r.barred => r.id \notin Pending
      BY <1>10 DEF Settled
    <3>4. Pending' = Pending /\ DOMAIN prompts' = DOMAIN prompts /\ MayApprove(p)' = MayApprove(p)
      BY <2>1 DEF Pending, MayApprove
    <3>5. ~stale'[p] /\ Becomes(Cards(p), Pending, DOMAIN prompts, frames[p], 0)
          => Becomes(Cards(p)', Pending, DOMAIN prompts, frames[p], 0)
      BY <3>1, <3>2, <3>3 DEF Becomes
    <3>6. role[p] # "gone" => Fresh(p)'
      BY <1>0, <2>1, <3>1, <3>2, <3>4, <3>5 DEF Present, Fresh, Recent
    <3> QED BY <1>0, <2>1, <3>4, <3>6 DEF Present, Ahead, Fits, Recent
  <2> QED BY <2>2, <2>3
<1>11. ASSUME NEW q \in Pages, Start(q) PROVE Present(p)'
  <2>1. CASE p # q
    BY <1>1, <1>11, <2>1 DEF Start, TypeOK
  <2>2. CASE p = q
    <3>1. /\ UNCHANGED <<role, prompts, busy, frames, answers, shown, stale>>
          /\ phase[p] = "gate" /\ phase'[p] = "loading"
      BY <1>11, <2>2 DEF Start, TypeOK
    <3>2. Pending' = Pending /\ DOMAIN prompts' = DOMAIN prompts /\ MayApprove(p)' = MayApprove(p)
      BY <3>1 DEF Pending, MayApprove
    <3> QED BY <1>0, <3>1, <3>2 DEF Present, Ahead, Fits, Fresh, Recent, Cards
  <2> QED BY <2>1, <2>2
<1>12. ASSUME NEW q \in Pages, ServeState(q) PROVE Present(p)'
  <2>1. CASE p # q
    BY <1>1, <1>12, <2>1 DEF ServeState, TypeOK
  <2> QED BY <1>0, <1>12, <2>1, ServedKeeps
<1>13. ASSUME NEW q \in Pages, Connect(q) PROVE Present(p)'
  <2>1. CASE p # q
    BY <1>1, <1>13, <2>1 DEF Connect, TypeOK
  <2>2. CASE p = q
    <3>1. /\ UNCHANGED <<role, prompts, busy, frames, asked, answers, shown, stale>>
          /\ phase[p] = "connecting" /\ phase'[p] = "live"
      BY <1>13, <2>2 DEF Connect, TypeOK
    <3>2. Pending' = Pending /\ DOMAIN prompts' = DOMAIN prompts /\ MayApprove(p)' = MayApprove(p)
      BY <3>1 DEF Pending, MayApprove
    <3> QED BY <1>0, <3>1, <3>2 DEF Present, Ahead, Fits, Fresh, Recent, Cards
  <2> QED BY <2>1, <2>2
<1>14. ASSUME NEW q \in Pages, Hears(q) PROVE Present(p)'
  <2>1. CASE p # q
    <3>1. UNCHANGED <<role, prompts, busy, phase, stale>> /\ frames'[p] = frames[p] /\ answers'[p] = answers[p]
      BY <1>14, <2>1 DEF Hears, TypeOK
    <3>2. Head(frames[q]).kind \in {"request", "approval", "news", "message"}
      <4>1. frames[q] \in Seq(Told) /\ frames[q] # <<>>
        BY <1>14 DEF Hears, TypeOK
      <4>2. Head(frames[q]) \in Told
        BY <4>1
      <4>3. \A t \in Told : t.kind \in {"request", "approval", "news", "message"}
        BY DEF Told
      <4> QED BY <4>2, <4>3
    <3>3. shown'[p] = shown[p] /\ asked'[p] = asked[p]
      BY <1>14, <2>1, <3>2 DEF Hears, TypeOK
    <3> QED BY <1>1, <3>1, <3>3
  <2> QED BY <1>0, <1>14, <2>1, HeardKeeps
<1>15. ASSUME NEW q \in Pages, Cut(q) PROVE Present(p)'
  <2>1. CASE p # q
    BY <1>1, <1>15, <2>1 DEF Cut, TypeOK
  <2> QED BY <1>0, <1>15, <2>1, CutKeeps
<1>16. ASSUME NEW q \in Pages, NEW i \in DOMAIN answers[q], Load(q, i) PROVE Present(p)'
  <2>1. CASE p # q
    BY <1>1, <1>16, <2>1 DEF Load, TypeOK
  <2> QED BY <1>0, <1>16, <2>1, LoadedKeeps
<1>17. ASSUME NEW q \in Pages, NEW id \in Ids, Click(q, id) PROVE Present(p)'
  BY <1>1, <1>17 DEF Click
<1>18. CASE UNCHANGED vars
  BY <1>1, <1>18 DEF vars
<1> QED BY <1>2, <1>3, <1>4, <1>5, <1>6, <1>7, <1>8, <1>9, <1>10, <1>11, <1>12, <1>13, <1>14,
           <1>15, <1>16, <1>17, <1>18 DEF Next

-----------------------------------------------------------------------------
(* One card of a prompt.                                                   *)

\* A page gets one frame of a prompt's beginning; an answer that has its card has the frame
\* behind it, and a page that has it has no such frame coming, unless it took an answer
\* before the frames that were behind it.
Once(p) ==
    /\ \A i, j \in DOMAIN frames[p] :
          frames[p][i].kind = "request" /\ frames[p][j].kind = "request"
          /\ frames[p][i].id = frames[p][j].id => i = j
    /\ \A i \in DOMAIN answers[p] :
          /\ answers[p][i].behind <= Len(frames[p])
          /\ \A id \in answers[p][i].cards : ~Later(frames[p], answers[p][i].behind, "request", id)
    /\ ~early[p] => \A id \in Ids : /\ shown[p].cards[id] <= 1
                                    /\ shown[p].cards[id] > 0 => ~Later(frames[p], 0, "request", id)

\* No frame, and no card but those that go.
LEMMA OnceSame ==
    ASSUME TypeOK, NEW p \in Pages, Once(p), frames'[p] = frames[p], early'[p] = early[p],
           DOMAIN answers'[p] = DOMAIN answers[p],
           \A i \in DOMAIN answers[p] : /\ answers'[p][i].behind = answers[p][i].behind
                                        /\ answers'[p][i].cards = answers[p][i].cards,
           \A id \in Ids : shown'[p].cards[id] = shown[p].cards[id] \/ shown'[p].cards[id] = 0
    PROVE  Once(p)'
BY DEF Once

\* One more frame, if of a prompt's beginning then of one that nobody knows.
LEMMA OnceMore ==
    ASSUME TypeOK, NEW p \in Pages, Once(p), NEW f \in Told, frames'[p] = Append(frames[p], f),
           answers'[p] = answers[p], shown'[p] = shown[p], early'[p] = early[p],
           f.kind = "request" => /\ f.id \notin Cards(p)
                                 /\ \A i \in DOMAIN answers[p] : f.id \notin answers[p][i].cards
                                 /\ ~Later(frames[p], 0, "request", f.id)
    PROVE  Once(p)'
<1>1. /\ frames[p] \in Seq(Told) /\ Len(frames[p]) \in Nat /\ Len(frames'[p]) = Len(frames[p]) + 1
      /\ \A i \in DOMAIN frames[p] : 0 < i
  BY ViewsAre, Appended, FramesAre
<1>2. /\ DOMAIN frames'[p] = DOMAIN frames[p] \cup {Len(frames[p]) + 1}
      /\ frames'[p][Len(frames[p]) + 1] = f
      /\ \A i \in DOMAIN frames[p] : frames'[p][i] = frames[p][i]
  BY <1>1, Appended
<1>3. \A i, j \in DOMAIN frames'[p] :
          frames'[p][i].kind = "request" /\ frames'[p][j].kind = "request"
          /\ frames'[p][i].id = frames'[p][j].id => i = j
  <2>1. f.kind = "request" => \A i \in DOMAIN frames[p] : ~(frames[p][i].kind = "request" /\ frames[p][i].id = f.id)
    BY <1>1 DEF Later
  <2> QED BY <1>2, <2>1 DEF Once
<1>4. \A n \in Nat : n <= Len(frames[p]) =>
         \A id : Later(frames'[p], n, "request", id)
                 <=> Later(frames[p], n, "request", id) \/ (f.kind = "request" /\ f.id = id)
  BY <1>1, LaterAppend
<1>5. \A i \in DOMAIN answers[p] :
          /\ answers[p][i].behind <= Len(frames'[p])
          /\ \A id \in answers[p][i].cards : ~Later(frames'[p], answers[p][i].behind, "request", id)
  <2> SUFFICES ASSUME NEW i \in DOMAIN answers[p]
               PROVE  /\ answers[p][i].behind <= Len(frames'[p])
                      /\ \A id \in answers[p][i].cards : ~Later(frames'[p], answers[p][i].behind, "request", id)
    OBVIOUS
  <2>1. answers[p][i].behind \in Nat /\ answers[p][i].behind <= Len(frames[p])
    BY ViewsAre DEF Once
  <2> QED BY <1>1, <1>4, <2>1 DEF Once
<1>6. ~early[p] => \A id \in Ids : /\ shown[p].cards[id] <= 1
                                   /\ shown[p].cards[id] > 0 => ~Later(frames'[p], 0, "request", id)
  <2>1. 0 \in Nat /\ 0 <= Len(frames[p])
    BY <1>1
  <2> QED BY <1>4, <2>1 DEF Once, Cards
<1> QED BY <1>3, <1>5, <1>6 DEF Once

LEMMA OnceAnnounce ==
    ASSUME TypeOK, NEW p \in Pages, Once(p), Numbered(p), NEW f \in Told, Announce(f), shown' = shown,
           f.kind = "request" => f.id \notin DOMAIN prompts
    PROVE  Once(p)'
<1>1. early' = early
  BY DEF Announce
<1>2. CASE phase[p] = "live"
  <2>1. frames'[p] = Append(frames[p], f) /\ answers'[p] = answers[p]
    BY <1>2, AnnounceAt
  <2>2. f.kind = "request" => /\ f.id \notin Cards(p)
                              /\ \A i \in DOMAIN answers[p] : f.id \notin answers[p][i].cards
                              /\ ~Later(frames[p], 0, "request", f.id)
    BY DEF Numbered, Later
  <2> QED BY <1>1, <2>1, <2>2, OnceMore
<1>3. CASE phase[p] # "live"
  <2>1. frames'[p] = frames[p] /\ answers'[p] = Outdated(answers[p])
    BY <1>3, AnnounceAt
  <2> QED BY <1>1, <2>1, ViewsAre, OutdatedIs, OnceSame
<1> QED BY <1>2, <1>3

\* The card a page adds when it hears of a prompt is the first.
LEMMA OnceHears ==
    ASSUME TypeOK, NEW p \in Pages, Once(p), Numbered(p), Hears(p)
    PROVE  Once(p)'
<1> DEFINE f == Head(frames[p])
<1>1. /\ frames[p] # <<>> /\ frames'[p] = Tail(frames[p]) /\ early' = early
      /\ answers'[p] = [i \in DOMAIN answers[p] |-> Passed(f, answers[p][i])]
  BY DEF Hears, history, TypeOK
<1>2. /\ frames[p] \in Seq(Told) /\ Len(frames[p]) \in Nat /\ Len(frames'[p]) = Len(frames[p]) - 1
      /\ Len(frames[p]) > 0 /\ 1 \in DOMAIN frames[p] /\ f = frames[p][1] /\ f \in Told
      /\ DOMAIN frames[p] = 1..Len(frames[p])
      /\ DOMAIN frames'[p] = 1..(Len(frames[p]) - 1)
      /\ \A i \in DOMAIN frames'[p] : frames'[p][i] = frames[p][i + 1] /\ i + 1 \in DOMAIN frames[p]
  <2>1. frames[p] \in Seq(Told)
    BY ViewsAre
  <2> QED BY <1>1, <2>1, TailIs
<1>3. f.kind \in {"request", "approval", "news", "message"} /\ (f.kind = "request" => f.id \in Ids)
  <2>1. f.kind \in {"request", "approval", "news", "message"}
    BY <1>2, FramesAre
  <2>2. f.kind = "request" => f.id \in DOMAIN prompts
    BY <1>2 DEF Numbered
  <2> QED BY <2>1, <2>2 DEF TypeOK
<1>4. \A n \in Nat : \A id : Later(frames'[p], n, "request", id) <=> Later(frames[p], n + 1, "request", id)
  BY <1>1, <1>2, LaterTail
<1>5. \A id : /\ Later(frames[p], 0, "request", id)
                 <=> Later(frames[p], 1, "request", id) \/ (f.kind = "request" /\ f.id = id)
              /\ Later(frames'[p], 0, "request", id) <=> Later(frames[p], 1, "request", id)
  <2>1. 0 \in Nat /\ 0 + 1 = 1
    OBVIOUS
  <2>2. \A id : Later(frames'[p], 0, "request", id) <=> Later(frames[p], 1, "request", id)
    BY <1>4, <2>1
  <2>3. \A id : Later(frames[p], 0, "request", id)
                <=> Later(frames[p], 1, "request", id) \/ (f.kind = "request" /\ f.id = id)
    BY <1>1, <1>2, LaterHead
  <2> QED BY <2>2, <2>3
<1>6. f.kind = "request" => ~Later(frames[p], 1, "request", f.id)
  <2>1. \A j \in DOMAIN frames[p] : 1 < j => j # 1
    BY <1>2
  <2> QED BY <1>2, <2>1 DEF Once, Later
<1>7. \A i, j \in DOMAIN frames'[p] :
          frames'[p][i].kind = "request" /\ frames'[p][j].kind = "request"
          /\ frames'[p][i].id = frames'[p][j].id => i = j
  <2> SUFFICES ASSUME NEW i \in DOMAIN frames'[p], NEW j \in DOMAIN frames'[p],
                      frames'[p][i].kind = "request", frames'[p][j].kind = "request",
                      frames'[p][i].id = frames'[p][j].id
               PROVE  i = j
    OBVIOUS
  <2>1. i + 1 = j + 1
    BY <1>2 DEF Once
  <2> QED BY <1>2, <2>1
<1>8. ASSUME NEW i \in DOMAIN answers[p]
      PROVE  /\ answers'[p][i].behind <= Len(frames'[p])
             /\ \A id \in answers'[p][i].cards : ~Later(frames'[p], answers'[p][i].behind, "request", id)
  <2> DEFINE a == answers[p][i]
  <2>1. /\ a \in Answer /\ a.behind \in Nat /\ a.behind <= Len(frames[p])
        /\ \A id \in a.cards : ~Later(frames[p], a.behind, "request", id)
    BY ViewsAre DEF Once
  <2>2. answers'[p][i] = Passed(f, a)
    BY <1>1
  <2> HIDE DEF a, f
  <2>3. CASE a.behind > 0
    <3>1. answers'[p][i].behind = a.behind - 1 /\ answers'[p][i].cards = a.cards
      BY <2>1, <2>2, <2>3 DEF Passed, Answer
    <3>2. a.behind - 1 \in Nat /\ (a.behind - 1) + 1 = a.behind
      BY <2>1, <2>3
    <3> QED BY <1>2, <1>4, <2>1, <3>1, <3>2
  <2>4. CASE ~(a.behind > 0)
    <3>1. answers'[p][i].behind = 0 /\ a.behind = 0 /\ answers'[p][i].cards = a.cards
      BY <2>1, <2>2, <2>4 DEF Passed, Answer
    <3> QED BY <1>2, <1>5, <2>1, <3>1
  <2> QED BY <2>3, <2>4
<1>9. ~early[p] => \A id \in Ids : /\ shown'[p].cards[id] <= 1
                                   /\ shown'[p].cards[id] > 0 => ~Later(frames'[p], 0, "request", id)
  <2>1. shown \in [Pages -> View] /\ \A id \in Ids : shown[p].cards[id] \in Nat
    BY DEF TypeOK, View
  <2>2. CASE f.kind \in {"message", "news"}
    <3>1. shown' = shown
      BY <2>2 DEF Hears
    <3> QED BY <1>5, <3>1 DEF Once
  <2>3. CASE f.kind = "request"
    <3>1. shown' = [shown EXCEPT ![p].cards[f.id] = @ + 1]
      BY <2>3 DEF Hears
    <3> HIDE DEF f
    <3>2. /\ shown'[p].cards[f.id] = shown[p].cards[f.id] + 1
          /\ \A id \in Ids : id # f.id => shown'[p].cards[id] = shown[p].cards[id]
      BY <1>3, <2>1, <2>3, <3>1 DEF View
    <3>3. ~early[p] => shown[p].cards[f.id] = 0
      BY <1>3, <1>5, <2>1, <2>3 DEF Once
    <3> QED BY <1>5, <1>6, <2>1, <2>3, <3>2, <3>3 DEF Once
  <2>4. CASE f.kind = "approval"
    <3>1. shown' = [shown EXCEPT ![p].cards[f.id] = 0]
      BY <2>4 DEF Hears
    <3> HIDE DEF f
    <3>2. \A id \in Ids : shown'[p].cards[id] = shown[p].cards[id] \/ shown'[p].cards[id] = 0
      BY <2>1, <3>1 DEF View
    <3> QED BY <1>5, <2>1, <3>2 DEF Once
  <2> QED BY <1>3, <2>2, <2>3, <2>4
<1>10. DOMAIN answers'[p] = DOMAIN answers[p]
  BY <1>1
<1> QED BY <1>1, <1>7, <1>8, <1>9, <1>10 DEF Once

\* An answer that is shown has a card each of its prompts.
LEMMA OnceLoad ==
    ASSUME TypeOK, NEW p \in Pages, Once(p), Numbered(p), NEW n \in DOMAIN answers[p], Load(p, n)
    PROVE  Once(p)'
<1> DEFINE a == answers[p][n]
<1>1. /\ frames' = frames /\ (early'[p] <=> Overtook(p, a))
      /\ shown'[p].cards = [id \in Ids |-> IF id \in a.cards THEN 1 ELSE 0]
  BY DEF Load, TypeOK
<1>2. \A i \in DOMAIN answers'[p] :
          /\ answers'[p][i].behind <= Len(frames[p])
          /\ \A id \in answers'[p][i].cards : ~Later(frames[p], answers'[p][i].behind, "request", id)
  <2> SUFFICES ASSUME NEW i \in DOMAIN answers'[p]
               PROVE  /\ answers'[p][i].behind <= Len(frames[p])
                      /\ \A id \in answers'[p][i].cards : ~Later(frames[p], answers'[p][i].behind, "request", id)
    OBVIOUS
  <2>1. PICK k \in DOMAIN answers[p] : /\ answers'[p][i].behind = answers[p][k].behind
                                       /\ answers'[p][i].cards = answers[p][k].cards
    BY LoadLeaves
  <2> QED BY <2>1 DEF Once
<1>3. ASSUME ~Overtook(p, a), NEW id \in a.cards PROVE ~Later(frames[p], 0, "request", id)
  <2>1. a.behind \in Nat /\ a.behind <= Len(frames[p]) /\ ~Later(frames[p], a.behind, "request", id)
    BY <1>3, ViewsAre DEF Once
  <2>2. \A i \in DOMAIN frames[p] : i \in 1..a.behind \/ a.behind < i
    BY <2>1, ViewsAre, FramesAre
  <2> QED BY <1>3, <2>1, <2>2 DEF Later, Overtook
<1>4. ~early'[p] => \A id \in Ids : /\ shown'[p].cards[id] <= 1
                                    /\ shown'[p].cards[id] > 0 => ~Later(frames[p], 0, "request", id)
  BY <1>1, <1>3
<1> QED BY <1>1, <1>2, <1>4 DEF Once

\* The room serves an answer when it has sent every frame of a prompt that the answer has.
LEMMA OnceServed ==
    ASSUME TypeOK, NEW p \in Pages, Once(p), ServeState(p)
    PROVE  Once(p)'
<1>1. UNCHANGED <<frames, shown, early>> /\ frames[p] \in Seq(Told) /\ answers[p] \in Seq(Answer)
  BY ViewsAre DEF ServeState, history
<1>2. CASE answers'[p] = answers[p]
  BY <1>1, <1>2, OnceSame
<1>3. CASE answers'[p] = Append(answers[p], Snapshot(p))
  <2> DEFINE new == Snapshot(p)
  <2>1. new.behind = Len(frames[p]) /\ \A id : ~Later(frames[p], new.behind, "request", id)
    BY <1>1, FramesAre DEF Snapshot, Later
  <2> HIDE DEF new
  <2>2. \A i \in DOMAIN answers'[p] : answers'[p][i] = new \/ (i \in DOMAIN answers[p] /\ answers'[p][i] = answers[p][i])
    BY <1>1, <1>3 DEF new
  <2>3. Len(frames[p]) <= Len(frames[p])
    BY <1>1, FramesAre
  <2> QED BY <1>1, <2>1, <2>2, <2>3 DEF Once
<1> QED BY <1>2, <1>3 DEF ServeState, TypeOK

\* A page that loses its frames has none coming.
LEMMA OnceEmpty ==
    ASSUME TypeOK, NEW p \in Pages, Once(p), frames'[p] = <<>>, early'[p] = early[p], shown'[p] = shown[p],
           \A i \in DOMAIN answers'[p] : answers'[p][i].behind = 0
    PROVE  Once(p)'
<1>1. DOMAIN frames'[p] = {} /\ Len(frames'[p]) = 0
  OBVIOUS
<1>2. \A n, id : ~Later(frames'[p], n, "request", id)
  BY <1>1 DEF Later
<1> QED BY <1>1, <1>2 DEF Once

LEMMA OnceStep ==
    ASSUME TypeOK, NEW p \in Pages, Numbered(p), Once(p), [Next]_vars
    PROVE  Once(p)'
<1> USE DEF room, link, clicks, history
<1>1. ASSUME frames'[p] = frames[p], answers'[p] = answers[p], shown'[p] = shown[p], early'[p] = early[p]
      PROVE  Once(p)'
  BY <1>1, OnceSame
<1>2. CASE Ask
  <2>1. /\ Frame("request", Len(prompts) + 1) \in Told /\ Frame("request", Len(prompts) + 1).id = Len(prompts) + 1
        /\ Announce(Frame("request", Len(prompts) + 1)) /\ shown' = shown
    BY <1>2, FrameType DEF TypeOK, Frame, Ask
  <2>2. Len(prompts) + 1 \notin DOMAIN prompts
    BY ViewsAre
  <2> QED BY <2>1, <2>2, OnceAnnounce
<1>3. ASSUME NEW id \in Pending, Expire(id) PROVE Once(p)'
  <2>1. id \in Nat
    BY ViewsAre
  <2>2. /\ Frame("approval", id) \in Told /\ Frame("approval", id).kind = "approval"
        /\ Announce(Frame("approval", id)) /\ shown' = shown
    BY <1>3, <2>1, FrameType DEF Frame, Expire, Expired
  <2> QED BY <2>2, OnceAnnounce
<1>4. CASE TurnStarts \/ TurnEnds \/ Tells
  <2>1. /\ Frame("news", 0) \in Told /\ Frame("news", 0).kind = "news"
        /\ Announce(Frame("news", 0)) /\ shown' = shown
    BY <1>4, FrameType DEF Frame, TurnStarts, TurnEnds, Tells
  <2> QED BY <2>1, OnceAnnounce
<1>5. CASE Say
  <2> DEFINE f == Frame("message", messages + 1)
  <2>1. answers' = answers /\ shown' = shown /\ early' = early
    BY <1>5 DEF Say
  <2>2. frames'[p] = frames[p] \/ frames'[p] = Append(frames[p], f)
    BY <1>5 DEF Say, Publish
  <2>3. f \in Told /\ f.kind = "message"
    BY FrameType DEF TypeOK, Frame
  <2> HIDE DEF f
  <2> QED BY <1>1, <2>1, <2>2, <2>3, OnceMore
<1>6. ASSUME NEW c \in posts \cup Elsewhere, ServeVerdict(c) PROVE Once(p)'
  <2>1. shown' = shown
    BY <1>6 DEF ServeVerdict
  <2>2. CASE c.id \in Pending /\ MayApprove(c.by)
    <3>1. c.id \in Nat
      BY <2>2, ViewsAre
    <3>2. /\ Frame("approval", c.id) \in Told /\ Frame("approval", c.id).kind = "approval"
          /\ Announce(Frame("approval", c.id))
      BY <1>6, <2>2, <3>1, FrameType DEF Frame, ServeVerdict
    <3> QED BY <2>1, <3>2, OnceAnnounce
  <2>3. CASE ~(c.id \in Pending /\ MayApprove(c.by))
    BY <1>1, <1>6, <2>1, <2>3 DEF ServeVerdict
  <2> QED BY <2>2, <2>3
<1>7. CASE Restart
  BY <1>7, OnceEmpty DEF Restart
<1>8. ASSUME NEW m \in Members, Role(m) PROVE Once(p)'
  <2>1. shown' = shown /\ frames' = frames /\ early' = early
    BY <1>8 DEF Role
  <2>2. answers'[p] = answers[p] \/ answers'[p] = Outdated(answers[p])
    BY <1>8 DEF Role, Missed
  <2> QED BY <1>1, <2>1, <2>2, ViewsAre, OutdatedIs, OnceSame
<1>9. ASSUME NEW m \in Members, Leave(m) PROVE Once(p)'
  BY <1>1, <1>9 DEF Leave
<1>10. ASSUME NEW r \in replies, Answered(r) PROVE Once(p)'
  <2>1. /\ UNCHANGED <<frames, answers, early>> /\ r.by \in Pages
        /\ shown' = [shown EXCEPT ![r.by].cards[r.id] = 0] /\ shown \in [Pages -> View]
    BY <1>10 DEF Answered, TypeOK
  <2>2. CASE p # r.by
    BY <1>1, <2>1, <2>2
  <2>3. CASE p = r.by
    <3>1. shown'[p] = [shown[p] EXCEPT !.cards[r.id] = 0] /\ shown[p] \in View
      BY <2>1, <2>3
    <3>2. \A id \in Ids : shown'[p].cards[id] = shown[p].cards[id] \/ shown'[p].cards[id] = 0
      BY <3>1 DEF View
    <3> QED BY <2>1, <3>2, OnceSame
  <2> QED BY <2>2, <2>3
<1>11. ASSUME NEW q \in Pages, Start(q) PROVE Once(p)'
  BY <1>1, <1>11 DEF Start
<1>12. ASSUME NEW q \in Pages, ServeState(q) PROVE Once(p)'
  <2>1. CASE p # q
    BY <1>1, <1>12, <2>1 DEF ServeState, TypeOK
  <2> QED BY <1>12, <2>1, OnceServed
<1>13. ASSUME NEW q \in Pages, Connect(q) PROVE Once(p)'
  BY <1>1, <1>13 DEF Connect
<1>14. ASSUME NEW q \in Pages, Hears(q) PROVE Once(p)'
  <2>1. CASE p # q
    <3>1. early' = early /\ frames'[p] = frames[p] /\ answers'[p] = answers[p]
      BY <1>14, <2>1 DEF Hears, TypeOK
    <3>2. Head(frames[q]).kind \in {"request", "approval", "news", "message"}
      <4>1. frames[q] \in Seq(Told) /\ frames[q] # <<>>
        BY <1>14 DEF Hears, TypeOK
      <4>2. Head(frames[q]) \in Told
        BY <4>1
      <4>3. \A t \in Told : t.kind \in {"request", "approval", "news", "message"}
        BY DEF Told
      <4> QED BY <4>2, <4>3
    <3>3. shown'[p] = shown[p]
      BY <1>14, <2>1, <3>2 DEF Hears, TypeOK
    <3> QED BY <1>1, <3>1, <3>3
  <2> QED BY <1>14, <2>1, OnceHears
<1>15. ASSUME NEW q \in Pages, Cut(q) PROVE Once(p)'
  <2>1. CASE p # q
    BY <1>1, <1>15, <2>1 DEF Cut, TypeOK
  <2>2. CASE p = q
    <3>1. frames'[p] = <<>> /\ UNCHANGED <<shown, early>> /\ answers'[p] = Passing(p)
      BY <1>15, <2>2 DEF Cut, TypeOK
    <3>2. \A i \in DOMAIN Passing(p) : Passing(p)[i].behind = 0
      <4>1. \A i \in DOMAIN answers[p] : answers[p][i] \in Answer
        BY ViewsAre
      <4> QED BY <4>1 DEF Passing, Answer
    <3> QED BY <3>1, <3>2, OnceEmpty
  <2> QED BY <2>1, <2>2
<1>16. ASSUME NEW q \in Pages, NEW i \in DOMAIN answers[q], Load(q, i) PROVE Once(p)'
  <2>1. CASE p # q
    BY <1>1, <1>16, <2>1 DEF Load, TypeOK
  <2> QED BY <1>16, <2>1, OnceLoad
<1>17. ASSUME NEW q \in Pages, NEW id \in Ids, Click(q, id) PROVE Once(p)'
  BY <1>1, <1>17 DEF Click
<1>18. CASE UNCHANGED vars
  BY <1>1, <1>18 DEF vars
<1> QED BY <1>2, <1>3, <1>4, <1>5, <1>6, <1>7, <1>8, <1>9, <1>10, <1>11, <1>12, <1>13, <1>14,
           <1>15, <1>16, <1>17, <1>18 DEF Next

LEMMA InitAgreeing == Init => Settled /\ \A p \in Pages : Agreeing(p) /\ Once(p)
BY DEF Init, Nothing, Settled, Agreeing, Numbered, Present, Narrated, Ahead, Fresh, Expelled, Cards, Once

\* The invariant of what pages show: with the frames and the answers that are on their way,
\* every view that is not known to be of the past becomes what the room would tell; and a
\* page that took no answer before the frames behind it gets one card of a prompt.
THEOREM PageConverges == Spec => [](Settled /\ \A p \in Pages : Agreeing(p) /\ Once(p))
<1> DEFINE AInv == Settled /\ \A p \in Pages : Agreeing(p) /\ Once(p)
<1>1. Init => AInv
  BY InitAgreeing
<1>2. TypeOK /\ AInv /\ [Next]_vars => AInv'
  BY PresentStep, NumberedStep, SettledStep, ExpelledStep, OnceStep DEF Agreeing
<1> HIDE DEF AInv
<1>3. Spec => []AInv
  BY <1>1, <1>2, PageTypes, PTL DEF Spec
<1> QED BY <1>3 DEF AInv

\* A page at rest shows an approver the prompts that are open and everybody whether the
\* agent works, unless a history variable says why not; and it has no prompt's card twice,
\* unless it took an answer that has the card before the frame that adds one.
THEOREM PageAlwaysAgrees == Spec => []PageAgrees
<1>1. TypeOK /\ Settled /\ (\A p \in Pages : Agreeing(p) /\ Once(p)) => PageAgrees
  <2> SUFFICES ASSUME TypeOK, NEW p \in Pages, Agreeing(p), Once(p), Quiet(p)
               PROVE  /\ ~stale[p] => /\ shown[p].can = MayApprove(p) /\ shown[p].busy = busy
                                      /\ MayApprove(p) =>
                                             \A id \in Ids : (shown[p].cards[id] > 0 <=> id \in Pending)
                      /\ ~early[p] => \A id \in Ids : shown[p].cards[id] <= 1
    BY DEF PageAgrees
  <2>1. phase[p] = "live" /\ frames[p] = <<>> /\ asked[p] = 0 /\ answers[p] = <<>>
    BY DEF Quiet
  <2>2. Fresh(p) /\ Cards(p) \subseteq DOMAIN prompts /\ Pending \subseteq DOMAIN prompts
    BY <2>1, ViewsAre DEF Agreeing, Expelled, Present, Numbered
  <2>3. ~stale[p] => /\ shown[p].can = MayApprove(p) /\ shown[p].busy = busy
                     /\ MayApprove(p) => Becomes(Cards(p), Pending, DOMAIN prompts, <<>>, 0)
    BY <2>1, <2>2, LaterEmpty DEF Fresh, Recent
  <2>4. ~stale[p] /\ MayApprove(p) => Cards(p) = Pending
    BY <2>2, <2>3, LaterEmpty DEF Becomes
  <2>5. ~stale[p] /\ MayApprove(p) => \A id \in Ids : (shown[p].cards[id] > 0 <=> id \in Pending)
    BY <2>4 DEF Cards
  <2> QED BY <2>3, <2>5 DEF Once
<1> QED BY <1>1, PageTypes, PageConverges, PTL
=============================================================================
