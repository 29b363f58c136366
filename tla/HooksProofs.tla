----------------------------- MODULE HooksProofs -----------------------------
(***************************************************************************)
(* Proofs about Hooks, for any seats and members, any bounds on what the    *)
(* logs keep and any disturbances: who is charged, which turn work is put   *)
(* down to, and what the indexes of the turn log hold.                      *)
(***************************************************************************)
EXTENDS Hooks, FiniteSetTheorems, SequenceTheorems, WellFoundedInduction, TLAPS

-----------------------------------------------------------------------------
(* Numbers and the oldest of a set of them. *)

LEMMA LargerIs ==
    ASSUME NEW a \in Int, NEW b \in Int
    PROVE  /\ Larger(a, b) \in {a, b}
           /\ Larger(a, b) >= a /\ Larger(a, b) >= b
  BY DEF Larger

LEMMA Least ==
    ASSUME NEW T, T \subseteq Nat, T # {}
    PROVE  \E x \in T : \A y \in T : x <= y
  <1>1. PICK R : R = OpToRel(<, Nat) OBVIOUS
  <1>2. IsWellFoundedOn(R, Nat) BY <1>1, NatLessThanWellFounded
  <1>3. \A x, y \in Nat : x < y => <<x, y>> \in R BY <1>1 DEF OpToRel
  <1>4. PICK x \in T : \A y \in T : ~ (<<y, x>> \in R) BY <1>2, WFMin
  <1>5. ASSUME NEW y \in T PROVE x <= y
    <2>1. x \in Nat /\ y \in Nat OBVIOUS
    <2>2. ~ (y < x) BY <1>3, <1>4, <2>1
    <2> QED BY <2>1, <2>2
  <1> QED BY <1>5

LEMMA Greatest ==
    ASSUME NEW S, S \subseteq Nat, NEW b \in Nat, \A x \in S : x <= b, S # {}
    PROVE  \E x \in S : \A y \in S : y <= x
  <1>1. PICK T : T = {b - x : x \in S} OBVIOUS
  <1>2. T \subseteq Nat
    <2>1. ASSUME NEW x \in S PROVE b - x \in Nat OBVIOUS
    <2> QED BY <1>1, <2>1
  <1>3. T # {} BY <1>1
  <1>4. PICK z \in T : \A y \in T : z <= y BY <1>2, <1>3, Least
  <1>5. PICK x \in S : z = b - x BY <1>1
  <1>6. \A y \in S : b - x <= b - y BY <1>1, <1>4, <1>5
  <1>7. \A y \in S : y \in Nat OBVIOUS
  <1> QED BY <1>6, <1>7

\* How many of S are smaller than t.
Rank(S, t) == Cardinality({u \in S : u < t})

LEMMA RankGrows ==
    ASSUME NEW S, S \subseteq Nat, IsFiniteSet(S), NEW t \in S, NEW u \in S
    PROVE  /\ Rank(S, t) \in Nat /\ Rank(S, t) < Cardinality(S)
           /\ t < u => Rank(S, t) < Rank(S, u)
  <1> DEFINE B(x) == {v \in S : v < x}
  <1>1. IsFiniteSet(B(t)) /\ IsFiniteSet(B(u)) /\ IsFiniteSet(B(t) \cup {t})
    BY FS_Subset, FS_AddElement
  <1>2. t \notin B(t) /\ t \in Nat /\ u \in Nat OBVIOUS
  <1>3. Cardinality(B(t) \cup {t}) = Cardinality(B(t)) + 1 BY <1>1, <1>2, FS_AddElement
  <1>4. Cardinality(B(t)) \in Nat /\ Cardinality(B(u)) \in Nat /\ Cardinality(S) \in Nat
    BY <1>1, FS_CardinalityType
  <1>5. B(t) \cup {t} \subseteq S OBVIOUS
  <1>6. Cardinality(B(t) \cup {t}) <= Cardinality(S) BY <1>5, FS_Subset
  <1>7. t < u => B(t) \cup {t} \subseteq B(u)
    <2> SUFFICES ASSUME t < u, NEW v \in B(t) \cup {t} PROVE v \in B(u) OBVIOUS
    <2> v \in Nat /\ v \in S /\ v <= t OBVIOUS
    <2> QED BY <1>2
  <1>8. t < u => Cardinality(B(t) \cup {t}) <= Cardinality(B(u)) BY <1>1, <1>7, FS_Subset
  <1> QED BY <1>3, <1>4, <1>6, <1>8 DEF Rank

LEMMA OldestAll ==
    ASSUME NEW S, S \subseteq Nat, IsFiniteSet(S), NEW n \in Nat, n >= Cardinality(S)
    PROVE  Oldest(S, n) = S
  <1>1. ASSUME NEW t \in S PROVE Rank(S, t) < n
    <2>1. Rank(S, t) \in Nat /\ Rank(S, t) < Cardinality(S) BY RankGrows
    <2>2. Cardinality(S) \in Nat BY FS_CardinalityType
    <2> QED BY <2>1, <2>2
  <1>2. \A t \in S : Cardinality({u \in S : u < t}) < n BY <1>1 DEF Rank
  <1> QED BY <1>2, Zenon DEF Oldest

\* The oldest n of S are n. By induction, as a least counterexample.
LEMMA OldestCounts ==
    ASSUME NEW S, S \subseteq Nat, IsFiniteSet(S), NEW n \in Nat, n <= Cardinality(S)
    PROVE  Cardinality(Oldest(S, n)) = n
  <1>0. Cardinality(S) \in Nat BY FS_CardinalityType
  <1>f. \A k \in Nat : IsFiniteSet(Oldest(S, k)) /\ Cardinality(Oldest(S, k)) \in Nat
    BY FS_Subset, FS_CardinalityType DEF Oldest
  <1>1. SUFFICES ASSUME NEW bad, bad = {k \in Nat : k <= Cardinality(S) /\ Cardinality(Oldest(S, k)) # k},
                        bad # {}
                 PROVE  FALSE
    OBVIOUS
  <1>2. PICK k \in bad : \A j \in bad : k <= j BY <1>1, Least
  <1>3. k # 0
    <2>1. ASSUME NEW t \in S PROVE ~ (Rank(S, t) < 0)
      <3>1. Rank(S, t) \in Nat BY RankGrows
      <3> QED BY <3>1
    <2>2. Oldest(S, 0) = {} BY <2>1 DEF Oldest, Rank
    <2> QED BY <1>1, <2>2, FS_EmptySet
  <1>4. PICK j \in Nat : k = j + 1 /\ j < Cardinality(S)
    <2> k \in Nat /\ k <= Cardinality(S) BY <1>1
    <2> k - 1 \in Nat /\ k = (k - 1) + 1 /\ k - 1 < Cardinality(S) BY <1>0, <1>3
    <2> QED OBVIOUS
  <1>5. Cardinality(Oldest(S, j)) = j BY <1>0, <1>1, <1>2, <1>4
  <1>6. S \ Oldest(S, j) # {}
    <2>1. Oldest(S, j) # S BY <1>0, <1>4, <1>5
    <2> QED BY <2>1 DEF Oldest
  <1>7. PICK t \in S \ Oldest(S, j) : \A u \in S \ Oldest(S, j) : t <= u
    BY <1>6, Least
  <1>8. {u \in S : u < t} = Oldest(S, j)
    <2>1. ASSUME NEW u \in S, u < t PROVE u \in Oldest(S, j)
      <3> u \in Nat /\ t \in Nat OBVIOUS
      <3> QED BY <1>7, <2>1
    <2>2. ASSUME NEW u \in Oldest(S, j) PROVE u \in S /\ u < t
      <3>1. u \in S /\ Rank(S, u) < j BY <2>2 DEF Oldest, Rank
      <3>0. t \in S /\ t \notin Oldest(S, j) OBVIOUS
      <3>2. ~ (Rank(S, t) < j) BY <3>0 DEF Oldest, Rank
      <3>3. Rank(S, t) \in Nat /\ Rank(S, u) \in Nat BY <3>1, RankGrows
      <3>4. t # u
        <4> SUFFICES ASSUME t = u PROVE FALSE OBVIOUS
        <4> QED BY ONLY t = u, <3>1, <3>2, Zenon
      <3>5. ~ (t < u)
        <4>1. t < u => Rank(S, t) < Rank(S, u) BY <3>0, <3>1, RankGrows
        <4> QED BY ONLY <4>1, <3>1, <3>2, <3>3, j \in Nat
      <3> t \in Nat /\ u \in Nat BY <3>0, <3>1
      <3> QED BY <3>1, <3>4, <3>5
    <2>3. Oldest(S, j) \subseteq S BY DEF Oldest
    <2> QED BY <2>1, <2>2, <2>3
  <1>9. Rank(S, t) = j BY <1>5, <1>8 DEF Rank
  <1>10. Oldest(S, k) = Oldest(S, j) \cup {t}
    <2>1. ASSUME NEW u \in S, u # t
          PROVE  Rank(S, u) < k <=> Rank(S, u) < j
      <3>1. Rank(S, u) \in Nat BY RankGrows
      <3>2. t \in Nat /\ u \in Nat OBVIOUS
      <3>3. t < u => j < Rank(S, u) BY <1>9, RankGrows
      <3>4. u < t => Rank(S, u) < j BY <1>9, RankGrows
      <3> QED BY <1>4, <2>1, <3>1, <3>2, <3>3, <3>4
    <2>2. Rank(S, t) < k BY <1>4, <1>9
    <2> QED BY <2>1, <2>2 DEF Oldest, Rank
  <1>11. Cardinality(Oldest(S, k)) = j + 1
    <2>1. t \notin Oldest(S, j) OBVIOUS
    <2> QED BY <1>f, <1>5, <1>10, <2>1, FS_AddElement
  <1> QED BY <1>1, <1>4, <1>11

-----------------------------------------------------------------------------
(* The turn log keeps its type, and its indexes hold what it keeps. *)

\* A log whose turns are among the first n. That a prompt is looked up to a turn of
\* that prompt is what eviction needs to clear the index.
LogOK(l, n) ==
    /\ l \in Log
    /\ l.kept \subseteq 1..n
    /\ Linked(l)
    /\ \A p \in Prompts : l.byId[p] # 0 => l.turn[l.byId[p]].prompt = p

Small(l) == Cardinality(l.kept) <= Larger(Keep, Cardinality(Dests))

LEMMA KeptFinite ==
    ASSUME NEW l \in Log
    PROVE  /\ l.kept \subseteq Nat /\ IsFiniteSet(l.kept) /\ Cardinality(l.kept) \in Nat
           /\ IsFiniteSet(Dests) /\ Cardinality(Dests) \in Nat
           /\ IsFiniteSet(OpenTurns(l)) /\ Cardinality(OpenTurns(l)) <= Cardinality(Dests)
           /\ OpenTurns(l) \subseteq Turns /\ Cardinality(OpenTurns(l)) \in Nat
  <1>1. l.kept \subseteq 1..MaxTurns BY DEF Log, Turns
  <1>2. IsFiniteSet(1..MaxTurns) BY HooksAssumption, FS_Interval
  <1>3. IsFiniteSet(l.kept) /\ Cardinality(l.kept) \in Nat
    BY <1>1, <1>2, FS_Subset, FS_CardinalityType
  <1>4. IsFiniteSet(Dests) /\ Cardinality(Dests) \in Nat
    BY HooksAssumption, FS_AddElement, FS_CardinalityType DEF Dests
  <1>5. PICK I : I = {l.open[d] : d \in Dests} OBVIOUS
  <1>6. IsFiniteSet(I) /\ Cardinality(I) <= Cardinality(Dests)
    <2>1. l.open \in Surjection(Dests, I) BY <1>5 DEF Surjection, Log
    <2> QED BY <1>4, <2>1, FS_Surjection
  <1>7. OpenTurns(l) \subseteq I BY <1>5 DEF OpenTurns
  <1>8. IsFiniteSet(OpenTurns(l)) /\ Cardinality(OpenTurns(l)) <= Cardinality(I)
    BY <1>6, <1>7, FS_Subset
  <1>9. OpenTurns(l) \subseteq Turns BY HooksAssumption DEF OpenTurns, Log, Turns
  <1>10. Cardinality(OpenTurns(l)) \in Nat /\ Cardinality(I) \in Nat
    BY <1>6, <1>8, FS_CardinalityType
  <1> QED BY <1>1, <1>3, <1>4, <1>6, <1>8, <1>9, <1>10

LEMMA EvictIs ==
    ASSUME NEW l \in Log
    PROVE  /\ Evict(l) \in Log
           /\ Evict(l).turn = l.turn /\ Evict(l).open = l.open
           /\ Evict(l).kept = l.kept \ Gone(l) /\ Evict(l).known = l.known \ Gone(l)
           /\ \A p \in Prompts :
                Evict(l).byId[p] = IF \E t \in Gone(l) : l.turn[t].prompt = p THEN 0
                                   ELSE l.byId[p]
           /\ Gone(l) \subseteq l.kept \ OpenTurns(l)
  <1>1. Gone(l) \subseteq l.kept \ OpenTurns(l) BY DEF Gone, Oldest
  <1>2. Evict(l) = [turn |-> l.turn, kept |-> l.kept \ Gone(l), open |-> l.open,
                    known |-> l.known \ Gone(l),
                    byId |-> [p \in Prompts |->
                                IF \E t \in Gone(l) : l.turn[t].prompt = p THEN 0
                                ELSE l.byId[p]]]
    <2> DEFINE b == [p \in Prompts |-> IF \E t \in Gone(l) : l.turn[t].prompt = p THEN 0
                                       ELSE l.byId[p]]
    <2>1. Evict(l) = [l EXCEPT !.kept = l.kept \ Gone(l), !.known = l.known \ Gone(l),
                               !.byId = b]
      BY DEF Evict, Log
    <2> HIDE DEF b
    <2>2. Evict(l) = [turn |-> l.turn, kept |-> l.kept \ Gone(l), open |-> l.open,
                      known |-> l.known \ Gone(l), byId |-> b]
      BY <2>1 DEF Log
    <2> QED BY <2>2 DEF b
  <1>3. [p \in Prompts |-> IF \E t \in Gone(l) : l.turn[t].prompt = p THEN 0
                           ELSE l.byId[p]] \in [Prompts -> 0..MaxTurns]
    BY HooksAssumption DEF Log
  <1>4. Evict(l) \in Log BY <1>1, <1>2, <1>3 DEF Log
  <1> QED BY <1>1, <1>2, <1>4

\* What is left is no more than Keep, unless it is open.
LEMMA EvictSmall ==
    ASSUME NEW l \in Log, OpenTurns(l) \subseteq l.kept
    PROVE  Small(Evict(l))
  <1> DEFINE rest == l.kept \ OpenTurns(l)
             n    == Larger(Cardinality(l.kept), Keep) - Keep
  <1>1. /\ Cardinality(l.kept) \in Nat /\ Cardinality(Dests) \in Nat /\ Keep \in Nat
        /\ IsFiniteSet(l.kept) /\ IsFiniteSet(rest) /\ Cardinality(rest) \in Nat
        /\ l.kept \subseteq Nat
    BY KeptFinite, HooksAssumption, FS_Subset, FS_CardinalityType
  <1>2. n \in Nat /\ (n = 0 \/ n = Cardinality(l.kept) - Keep) /\ Cardinality(l.kept) - n <= Keep
    BY <1>1, LargerIs
  <1>3. Larger(Keep, Cardinality(Dests)) \in Nat /\ Larger(Keep, Cardinality(Dests)) >= Keep
        /\ Larger(Keep, Cardinality(Dests)) >= Cardinality(Dests)
    BY <1>1, LargerIs
  <1>4. Evict(l).kept = l.kept \ Gone(l) /\ Gone(l) = Oldest(rest, n)
    BY EvictIs DEF Gone
  <1>5. CASE n <= Cardinality(rest)
    <2>1. Cardinality(Gone(l)) = n BY <1>1, <1>2, <1>4, <1>5, OldestCounts
    <2>2. Gone(l) \subseteq l.kept BY EvictIs
    <2>3. Cardinality(l.kept \ Gone(l)) = Cardinality(l.kept) - n
      <3>1. IsFiniteSet(Gone(l)) BY <1>1, <2>2, FS_Subset
      <3>2. l.kept \cap Gone(l) = Gone(l) BY <2>2
      <3>3. Cardinality(l.kept \ Gone(l)) = Cardinality(l.kept) - Cardinality(l.kept \cap Gone(l))
        BY <1>1, FS_Difference
      <3> QED BY <2>1, <3>2, <3>3
    <2> QED BY <1>1, <1>2, <1>3, <1>4, <2>3 DEF Small
  <1>6. CASE ~ (n <= Cardinality(rest))
    <2>1. n >= Cardinality(rest) BY <1>1, <1>2, <1>6
    <2>2. Gone(l) = rest BY <1>1, <1>2, <1>4, <2>1, OldestAll
    <2>3. Evict(l).kept = OpenTurns(l) BY <1>4, <2>2
    <2>4. Cardinality(Evict(l).kept) <= Cardinality(Dests) BY <2>3, KeptFinite
    <2>5. Cardinality(Evict(l).kept) \in Nat BY <2>3, KeptFinite
    <2> QED BY <1>1, <1>3, <2>4, <2>5 DEF Small
  <1> QED BY <1>5, <1>6

LEMMA EvictOK ==
    ASSUME NEW l, NEW n \in Nat, LogOK(l, n)
    PROVE  LogOK(Evict(l), n) /\ Small(Evict(l))
  <1> USE DEF LogOK
  <1>1. Evict(l) \in Log /\ Small(Evict(l)) BY EvictIs, EvictSmall DEF Linked
  <1>2. Evict(l).kept \subseteq 1..n BY EvictIs
  <1>3. OpenTurns(Evict(l)) \subseteq Evict(l).kept /\ Evict(l).known = Evict(l).kept
    <2>1. OpenTurns(Evict(l)) = OpenTurns(l) BY EvictIs DEF OpenTurns
    <2> QED BY <2>1, EvictIs DEF Linked
  <1>4. ASSUME NEW p \in Prompts, Evict(l).byId[p] # 0
        PROVE  Evict(l).byId[p] \in Evict(l).kept /\ l.turn[Evict(l).byId[p]].prompt = p
    <2>1. Evict(l).byId[p] = l.byId[p] /\ ~ \E t \in Gone(l) : l.turn[t].prompt = p
      BY <1>4, EvictIs
    <2>2. l.turn[l.byId[p]].prompt = p /\ l.byId[p] \in l.kept BY <1>4, <2>1 DEF Linked
    <2>3. l.byId[p] \notin Gone(l) BY <2>1, <2>2
    <2> QED BY <2>1, <2>2, <2>3, EvictIs
  <1> QED BY <1>1, <1>2, <1>3, <1>4, EvictIs DEF Linked

\* A kept turn that has a prompt is found by it.
Found(l) == \A t \in l.kept : l.turn[t].prompt # 0 => l.byId[l.turn[t].prompt] = t

LEMMA EvictFound ==
    ASSUME NEW l \in Log, Found(l)
    PROVE  Found(Evict(l))
  <1> SUFFICES ASSUME NEW t \in Evict(l).kept, l.turn[t].prompt # 0
               PROVE  Evict(l).byId[l.turn[t].prompt] = t
    BY EvictIs DEF Found
  <1>1. t \in l.kept /\ t \notin Gone(l) BY EvictIs
  <1>2. l.turn[t].prompt \in Prompts BY <1>1, HooksAssumption DEF Log, Turn, Prompts
  <1>3. l.byId[l.turn[t].prompt] = t BY <1>1 DEF Found
  <1>4. ~ \E u \in Gone(l) : l.turn[u].prompt = l.turn[t].prompt
    <2> SUFFICES ASSUME NEW u \in Gone(l), l.turn[u].prompt = l.turn[t].prompt PROVE FALSE
      OBVIOUS
    <2>1. u \in l.kept BY EvictIs
    <2>2. l.byId[l.turn[u].prompt] = u BY <2>1 DEF Found
    <2> QED BY <1>1, <1>3, <2>2
  <1> QED BY <1>2, <1>3, <1>4, EvictIs

LEMMA FreshIs ==
    ASSUME NEW d \in Dests, NEW who \in Weights
    PROVE  /\ Fresh(d, who) \in Turn
           /\ Fresh(d, who).dest = d /\ Fresh(d, who).who = who
           /\ Fresh(d, who).prompt = 0 /\ Fresh(d, who).did = {} /\ ~ Fresh(d, who).done
  BY HooksAssumption DEF Fresh, Turn

\* f is g, but for v at d.
Sets(f, g, d, v) == \A e \in Dests : f[e] = IF e = d THEN v ELSE g[e]

LEMMA OpenIs ==
    ASSUME NEW n \in Nat, NEW l, LogOK(l, n), n + 1 \in Turns,
           NEW d \in Dests, NEW who \in Weights
    PROVE  /\ LogOK(Open(l, n + 1, d, who), n + 1) /\ Small(Open(l, n + 1, d, who))
           /\ \A t \in Turns : Open(l, n + 1, d, who).turn[t] =
                                 IF t = n + 1 THEN Fresh(d, who) ELSE l.turn[t]
           /\ Sets(Open(l, n + 1, d, who).open, l.open, d, n + 1)
           /\ Found(l) => Found(Open(l, n + 1, d, who))
  <1> USE DEF LogOK
  <1> DEFINE o == [turn |-> [l.turn EXCEPT ![n + 1] = Fresh(d, who)],
                   kept |-> l.kept \cup {n + 1}, known |-> l.known \cup {n + 1},
                   open |-> [l.open EXCEPT ![d] = n + 1], byId |-> l.byId]
  <1>1. Open(l, n + 1, d, who) = Evict(o) BY DEF Open
  <1>2. o \in Log
    <2>1. o.turn \in [Turns -> Turn] BY FreshIs DEF Log
    <2>2. o.open \in [Dests -> 0..MaxTurns] BY HooksAssumption DEF Log, Turns
    <2> QED BY <2>1, <2>2 DEF Log
  <1>3. o.kept \subseteq 1..(n + 1) OBVIOUS
  <1>4. n + 1 \notin l.kept OBVIOUS
  <1>5. OpenTurns(o) \subseteq o.kept /\ o.known = o.kept
    <2>1. OpenTurns(o) \subseteq OpenTurns(l) \cup {n + 1} BY DEF OpenTurns, Log
    <2> QED BY <2>1 DEF Linked
  <1>6. \A p \in Prompts : o.byId[p] \in o.kept \cup {0} BY DEF Linked
  <1>7. \A p \in Prompts : o.byId[p] # 0 => o.turn[o.byId[p]].prompt = p
    BY <1>4 DEF Linked, Log
  <1>8. LogOK(o, n + 1) BY <1>2, <1>3, <1>5, <1>6, <1>7 DEF Linked
  <1>9. Found(l) => Found(o)
    <2> SUFFICES ASSUME Found(l), NEW t \in o.kept, o.turn[t].prompt # 0
                 PROVE  o.byId[o.turn[t].prompt] = t
      BY DEF Found
    <2>1. t # n + 1
      <3>1. o.turn[n + 1] = Fresh(d, who) BY DEF Log
      <3> QED BY <3>1, FreshIs
    <2>2. t \in l.kept /\ o.turn[t] = l.turn[t] BY <2>1 DEF Log
    <2> QED BY <2>2 DEF Found
  <1>10. /\ \A t \in Turns : o.turn[t] = IF t = n + 1 THEN Fresh(d, who) ELSE l.turn[t]
         /\ Sets(o.open, l.open, d, n + 1)
    BY DEF Sets, Log
  <1> HIDE DEF LogOK, o
  <1>11. Evict(o).turn = o.turn /\ Evict(o).open = o.open BY <1>2, EvictIs
  <1>12. LogOK(Evict(o), n + 1) /\ Small(Evict(o)) BY <1>8, EvictOK
  <1>13. Found(l) => Found(Evict(o)) BY <1>2, <1>9, EvictFound
  <1> QED BY <1>1, <1>10, <1>11, <1>12, <1>13

\* Whether p names the open turn of d.
Names(l, p, d) == l.open[d] # 0 /\ p # 0 /\ l.turn[l.open[d]].prompt = 0

\* Only the open turn of d may have the prompt p.
Alone(l, p, d) == \A t \in l.kept : l.turn[t].prompt = p => t = l.open[d]

LEMMA BindIs ==
    ASSUME NEW n \in Nat, NEW l, LogOK(l, n), NEW p \in 0..MaxPrompts, NEW d \in Dests
    PROVE  LET b == BindPrompt(l, p, d) IN
           /\ LogOK(b, n)
           /\ b.open = l.open /\ b.kept = l.kept
           /\ b.turn = IF Names(l, p, d) THEN [l.turn EXCEPT ![l.open[d]].prompt = p] ELSE l.turn
           /\ Found(l) /\ Alone(l, p, d) => Found(b)
  <1> DEFINE b == BindPrompt(l, p, d)
             t == l.open[d]
  <1>1. CASE ~ Names(l, p, d)
    <2>1. b = l BY <1>1 DEF BindPrompt, Names
    <2> QED BY <1>1, <2>1
  <1>2. CASE Names(l, p, d)
    <2>1. /\ l \in Log /\ t \in Turns /\ t \in l.kept /\ p \in Prompts
          /\ l.turn[t] \in Turn /\ l.turn[t].prompt = 0
      BY <1>2, HooksAssumption DEF Names, LogOK, Linked, OpenTurns, Log, Turns, Prompts
    <2>2. b = [l EXCEPT !.turn[t].prompt = p, !.byId[p] = t]
      BY <1>2 DEF BindPrompt, Names
    <2> HIDE DEF b, t
    <2>3. [l.turn[t] EXCEPT !.prompt = p] \in Turn /\ [l.turn[t] EXCEPT !.prompt = p].prompt = p
      BY <2>1 DEF Turn
    <2>4. /\ b.turn = [l.turn EXCEPT ![t].prompt = p]
          /\ b.byId = [l.byId EXCEPT ![p] = t]
          /\ b.kept = l.kept /\ b.known = l.known /\ b.open = l.open
          /\ b.turn \in [Turns -> Turn] /\ b.byId \in [Prompts -> 0..MaxTurns]
      BY <2>1, <2>2, <2>3, HooksAssumption DEF Log, Turns
    <2>5. b \in Log
      BY <2>1, <2>2, <2>4 DEF Log
    <2>6. OpenTurns(b) = OpenTurns(l) BY <2>4 DEF OpenTurns
    <2>7. ASSUME NEW q \in Prompts, b.byId[q] # 0
          PROVE  b.byId[q] \in b.kept /\ b.turn[b.byId[q]].prompt = q
      <3>1. CASE q = p BY <2>1, <2>3, <2>4, <3>1 DEF Log
      <3>2. CASE q # p
        <4>1. b.byId[q] = l.byId[q] BY <2>1, <2>4, <3>2 DEF Log
        <4>2. l.byId[q] \in l.kept /\ l.turn[l.byId[q]].prompt = q /\ q # 0
          BY <2>7, <4>1 DEF LogOK, Linked, Prompts
        <4>3. l.byId[q] # t BY <2>1, <4>2
        <4> QED BY <2>1, <2>4, <4>1, <4>2, <4>3 DEF Log
      <3> QED BY <3>1, <3>2
    <2>8. LogOK(b, n) BY <2>4, <2>5, <2>6, <2>7 DEF LogOK, Linked
    <2>9. Found(l) /\ Alone(l, p, d) => Found(b)
      <3> SUFFICES ASSUME Found(l), Alone(l, p, d),
                          NEW u \in b.kept, b.turn[u].prompt # 0
                   PROVE  b.byId[b.turn[u].prompt] = u
        BY DEF Found
      <3>1. CASE u = t BY <2>1, <2>3, <2>4, <3>1 DEF Log
      <3>2. CASE u # t
        <4>1. u \in l.kept /\ b.turn[u] = l.turn[u] BY <2>1, <2>4, <3>2 DEF Log
        <4>2. l.turn[u].prompt # p /\ l.turn[u].prompt \in Prompts
          BY <2>1, <3>2, <4>1, HooksAssumption DEF Alone, Log, Turn, Prompts, t
        <4>3. l.byId[l.turn[u].prompt] = u BY <4>1 DEF Found
        <4> QED BY <2>1, <2>4, <4>1, <4>2, <4>3 DEF Log
      <3> QED BY <3>1, <3>2
    <2> QED BY <1>2, <2>4, <2>8, <2>9 DEF t, b
  <1> QED BY <1>1, <1>2

\* From l to b, work of p was put down to the open turn of d.
Noted(l, b, p, d) ==
    \A u \in Turns :
        /\ b.turn[u].dest = l.turn[u].dest /\ b.turn[u].who = l.turn[u].who
        /\ b.turn[u].prompt = l.turn[u].prompt
        /\ b.turn[u].did = IF u = l.open[d] THEN l.turn[u].did \cup {p} ELSE l.turn[u].did

LEMMA DidIs ==
    ASSUME NEW n \in Nat, NEW l, LogOK(l, n), NEW p \in Prompts, NEW d \in Dests,
           NEW b, b = Did(l, p, d)
    PROVE  /\ LogOK(b, n)
           /\ b.open = l.open /\ b.kept = l.kept
           /\ Noted(l, b, p, d)
           /\ Found(l) => Found(b)
  <1> DEFINE t == l.open[d]
  <1>1. CASE t = 0
    <2>1. b = l BY <1>1 DEF Did
    <2>2. t \notin Turns BY <1>1 DEF Turns
    <2> QED BY <2>1, <2>2 DEF Noted
  <1>2. CASE t # 0
    <2>1. l \in Log /\ t \in Turns /\ l.turn[t] \in Turn
      BY <1>2, HooksAssumption DEF LogOK, Log, Turns
    <2>2. b = [l EXCEPT !.turn[t].did = @ \cup {p}]
      BY <1>2 DEF Did
    <2> HIDE DEF t
    <2>3. /\ [l.turn[t] EXCEPT !.did = @ \cup {p}] \in Turn
          /\ [l.turn[t] EXCEPT !.did = @ \cup {p}].prompt = l.turn[t].prompt
          /\ [l.turn[t] EXCEPT !.did = @ \cup {p}].dest = l.turn[t].dest
          /\ [l.turn[t] EXCEPT !.did = @ \cup {p}].who = l.turn[t].who
          /\ [l.turn[t] EXCEPT !.did = @ \cup {p}].did = l.turn[t].did \cup {p}
      BY <2>1 DEF Turn
    <2>4. /\ b.turn = [l.turn EXCEPT ![t].did = @ \cup {p}]
          /\ b.byId = l.byId /\ b.kept = l.kept /\ b.known = l.known /\ b.open = l.open
          /\ b.turn \in [Turns -> Turn]
      BY <2>1, <2>2, <2>3 DEF Log
    <2>5. b \in Log BY <2>1, <2>2, <2>4 DEF Log
    <2>6. ASSUME NEW u \in Turns
          PROVE  /\ b.turn[u].dest = l.turn[u].dest /\ b.turn[u].who = l.turn[u].who
                 /\ b.turn[u].prompt = l.turn[u].prompt
                 /\ b.turn[u].did = IF u = t THEN l.turn[u].did \cup {p} ELSE l.turn[u].did
      <3>1. CASE u = t
        <4>1. b.turn[u] = [l.turn[t] EXCEPT !.did = @ \cup {p}] BY <2>1, <2>4, <3>1 DEF Log
        <4> QED BY <2>3, <3>1, <4>1
      <3>2. CASE u # t
        <4>1. b.turn[u] = l.turn[u] BY <2>1, <2>4, <3>2 DEF Log
        <4> QED BY <3>2, <4>1
      <3> QED BY <3>1, <3>2
    <2>7. OpenTurns(b) = OpenTurns(l) BY <2>4 DEF OpenTurns
    <2>8. LogOK(b, n)
      BY <2>1, <2>4, <2>5, <2>6, <2>7 DEF LogOK, Linked, Log
    <2>9. Found(l) => Found(b) BY <2>1, <2>4, <2>6 DEF Found, Log
    <2> QED BY <2>4, <2>6, <2>8, <2>9 DEF Noted, t
  <1> QED BY <1>1, <1>2

\* From l to b, the open turn of d was worked on for p, and no other.
Touched(l, b, p, d) ==
    /\ b.kept = l.kept
    /\ \A u \in Turns :
          /\ b.turn[u].dest = l.turn[u].dest /\ b.turn[u].who = l.turn[u].who
          /\ b.turn[u].did \subseteq l.turn[u].did \cup {p}
          /\ b.turn[u].prompt \in {l.turn[u].prompt, p}
          /\ u # l.open[d] => b.turn[u].did = l.turn[u].did /\ b.turn[u].prompt = l.turn[u].prompt

LEMMA ActivityIs ==
    ASSUME NEW n \in Nat, NEW l, LogOK(l, n), NEW p \in Prompts, NEW d \in Dests
    PROVE  LET b == Activity(l, p, d) IN
           /\ LogOK(b, n) /\ b.open = l.open /\ Touched(l, b, p, d)
           /\ Found(l) /\ Alone(l, p, d) => Found(b)
  <1>a. PICK a : a = BindPrompt(l, p, d) OBVIOUS
  <1>b. PICK b : b = Did(a, p, d) OBVIOUS
  <1>1. Activity(l, p, d) = b BY <1>a, <1>b DEF Activity
  <1>0. p \in 0..MaxPrompts /\ p # 0 /\ 0 \notin Turns BY HooksAssumption DEF Prompts, Turns
  <1>2. /\ LogOK(a, n) /\ a.open = l.open /\ a.kept = l.kept
        /\ a.turn = IF Names(l, p, d) THEN [l.turn EXCEPT ![l.open[d]].prompt = p] ELSE l.turn
        /\ Found(l) /\ Alone(l, p, d) => Found(a)
    BY <1>0, <1>a, BindIs
  <1>3. /\ LogOK(b, n) /\ b.open = a.open /\ b.kept = a.kept
        /\ Noted(a, b, p, d)
        /\ Found(a) => Found(b)
    BY <1>2, <1>b, DidIs
  <1>4. Touched(l, b, p, d)
    <2> SUFFICES ASSUME NEW u \in Turns
                 PROVE  /\ b.turn[u].dest = l.turn[u].dest /\ b.turn[u].who = l.turn[u].who
                        /\ b.turn[u].did \subseteq l.turn[u].did \cup {p}
                        /\ b.turn[u].prompt \in {l.turn[u].prompt, p}
                        /\ u # l.open[d] => /\ b.turn[u].did = l.turn[u].did
                                            /\ b.turn[u].prompt = l.turn[u].prompt
      BY <1>2, <1>3 DEF Touched
    <2>1. l.turn[u] \in Turn /\ a.turn[u] \in Turn /\ l.turn \in [Turns -> Turn] /\ a.turn \in [Turns -> Turn]
      BY <1>2 DEF LogOK, Log
    <2>2. /\ a.turn[u].dest = l.turn[u].dest /\ a.turn[u].who = l.turn[u].who
          /\ a.turn[u].did = l.turn[u].did
          /\ a.turn[u].prompt \in {l.turn[u].prompt, p}
          /\ u # l.open[d] => a.turn[u].prompt = l.turn[u].prompt
      BY <1>2, <2>1 DEF Turn
    <2>3. /\ b.turn[u].dest = a.turn[u].dest /\ b.turn[u].who = a.turn[u].who
          /\ b.turn[u].did \subseteq a.turn[u].did \cup {p}
          /\ b.turn[u].prompt = a.turn[u].prompt
          /\ u # l.open[d] => b.turn[u].did = a.turn[u].did
      BY <1>2, <1>3 DEF Noted
    <2> QED BY <2>2, <2>3
  <1> QED BY <1>1, <1>2, <1>3, <1>4

LEMMA CloseIs ==
    ASSUME NEW n \in Nat, NEW l, LogOK(l, n), NEW p \in 0..MaxPrompts, NEW d \in Dests
    PROVE  LET b == Close(l, p, d) IN
           /\ LogOK(b, n)
           /\ b.kept = l.kept /\ Sets(b.open, l.open, d, 0)
           /\ p # 0 => Touched(l, b, p, d)
           /\ p # 0 /\ Found(l) /\ Alone(l, p, d) => Found(b)
  <1> DEFINE a == IF p = 0 THEN l ELSE Activity(l, p, d)
             b == IF a.open[d] = 0 THEN a
                  ELSE [a EXCEPT !.turn[a.open[d]].done = TRUE, !.open[d] = 0]
             t == l.open[d]
  <1>1. Close(l, p, d) = b BY DEF Close
  <1>2. /\ LogOK(a, n) /\ a.open = l.open /\ a.kept = l.kept
        /\ p # 0 => Touched(l, a, p, d)
        /\ p # 0 /\ Found(l) /\ Alone(l, p, d) => Found(a)
    <2>1. CASE p = 0 BY <2>1
    <2>2. CASE p # 0
      <3>1. p \in Prompts BY <2>2, HooksAssumption DEF Prompts
      <3>2. /\ LogOK(Activity(l, p, d), n) /\ Activity(l, p, d).open = l.open
            /\ Touched(l, Activity(l, p, d), p, d)
            /\ Found(l) /\ Alone(l, p, d) => Found(Activity(l, p, d))
        BY <3>1, ActivityIs
      <3>3. Activity(l, p, d).kept = l.kept BY <3>2 DEF Touched
      <3> QED BY <2>2, <3>2, <3>3
    <2> QED BY <2>1, <2>2
  <1>3. a \in Log /\ l \in Log BY <1>2 DEF LogOK
  <1> HIDE DEF a
  <1>4. CASE t = 0
    <2>1. b = a BY <1>2, <1>4
    <2>2. Sets(b.open, l.open, d, 0) BY <1>2, <1>3, <1>4, <2>1 DEF Log, Sets
    <2> QED BY <1>1, <1>2, <2>1, <2>2
  <1>5. CASE t # 0
    <2>1. t \in Turns /\ a.turn[t] \in Turn
      BY <1>3, <1>5, HooksAssumption DEF Log, Turns
    <2>2. b = [a EXCEPT !.turn[t].done = TRUE, !.open[d] = 0] BY <1>2, <1>5
    <2> HIDE DEF b, t
    <2>3. [a.turn[t] EXCEPT !.done = TRUE] \in Turn BY <2>1 DEF Turn
    <2>4. /\ b.turn = [a.turn EXCEPT ![t].done = TRUE]
          /\ b.open = [l.open EXCEPT ![d] = 0]
          /\ b.byId = a.byId /\ b.kept = a.kept /\ b.known = a.known
          /\ b.turn \in [Turns -> Turn] /\ b.open \in [Dests -> 0..MaxTurns]
      BY <1>2, <1>3, <2>1, <2>2, <2>3, HooksAssumption DEF Log
    <2>5. b \in Log BY <1>3, <2>2, <2>4 DEF Log
    <2>6. \A u \in Turns : /\ b.turn[u].prompt = a.turn[u].prompt
                           /\ b.turn[u].did = a.turn[u].did
                           /\ b.turn[u].dest = a.turn[u].dest
                           /\ b.turn[u].who = a.turn[u].who
      BY <1>3, <2>1, <2>4 DEF Log, Turn
    <2>7. OpenTurns(b) \subseteq OpenTurns(a) BY <1>2, <1>3, <2>4 DEF OpenTurns, Log
    <2>8. LogOK(b, n) BY <1>2, <1>3, <2>4, <2>5, <2>6, <2>7 DEF LogOK, Linked, Log
    <2>9. Found(a) => Found(b) BY <1>3, <2>4, <2>6 DEF Found, Log
    <2>10. p # 0 => Touched(l, b, p, d)
      <3> SUFFICES ASSUME p # 0 PROVE Touched(l, b, p, d) OBVIOUS
      <3>1. Touched(l, a, p, d) BY <1>2
      <3> QED BY <2>4, <2>6, <3>1, Zenon DEF Touched
    <2>11. Sets(b.open, l.open, d, 0) BY <1>3, <2>4 DEF Log, Sets
    <2> QED BY <1>1, <1>2, <2>4, <2>8, <2>9, <2>10, <2>11 DEF b
  <1> QED BY <1>4, <1>5

\* A restart finds no open turn, and finds the turns it keeps.
LEMMA RecentIs ==
    ASSUME NEW n \in Nat, NEW l, LogOK(l, n)
    PROVE  LogOK(Recent(l), n) /\ Small(Recent(l))
  <1> DEFINE k == Larger(Cardinality(l.kept), Saved) - Saved
             ts == l.kept \ Oldest(l.kept, k)
             of(p) == {t \in ts : l.turn[t].prompt = p}
             b == [p \in Prompts |-> IF of(p) = {} THEN 0
                                     ELSE CHOOSE t \in of(p) : \A u \in of(p) : u <= t]
             T == [t \in Turns |-> IF t \in ts THEN l.turn[t] ELSE NoTurn]
             O == [d \in Dests |-> 0]
             r == Recent(l)
  <1>1. /\ l \in Log /\ l.kept \subseteq Turns /\ l.turn \in [Turns -> Turn]
        /\ MaxTurns \in Nat /\ 0 \in 0..MaxTurns
    BY HooksAssumption DEF LogOK, Log
  <1>2. r = [l EXCEPT !.turn = T, !.kept = ts, !.known = ts, !.open = O, !.byId = b]
    BY DEF Recent
  <1>3. \A p \in Prompts : b[p] # 0 => b[p] \in ts /\ l.turn[b[p]].prompt = p
    <2> SUFFICES ASSUME NEW p \in Prompts, b[p] # 0
                 PROVE  b[p] \in ts /\ l.turn[b[p]].prompt = p
      OBVIOUS
    <2>1. of(p) # {} /\ b[p] = CHOOSE t \in of(p) : \A u \in of(p) : u <= t OBVIOUS
    <2>2. of(p) \subseteq Nat /\ \A t \in of(p) : t <= MaxTurns BY <1>1 DEF Turns
    <2>3. \E t \in of(p) : \A u \in of(p) : u <= t BY <1>1, <2>1, <2>2, Greatest
    <2> HIDE DEF b, ts
    <2>4. b[p] \in of(p) BY <2>1, <2>3
    <2> QED BY <2>4
  <1>4. b \in [Prompts -> 0..MaxTurns]
    <2> SUFFICES ASSUME NEW p \in Prompts PROVE b[p] \in 0..MaxTurns
      <3>1. b = [p \in Prompts |-> b[p]] OBVIOUS
      <3> HIDE DEF b
      <3> QED BY <3>1
    <2>1. CASE b[p] = 0 BY <1>1, <2>1
    <2>2. CASE b[p] # 0
      <3>1. b[p] \in Turns BY <1>1, <1>3, <2>2
      <3> HIDE DEF b
      <3> QED BY <1>1, <3>1 DEF Turns
    <2> QED BY <2>1, <2>2
  <1>5. T \in [Turns -> Turn]
    <2>1. NoTurn \in Turn
      <3>1. Nobody \in Weights /\ Local \in Dests BY DEF Nobody, Weights, Dests
      <3> QED BY <3>1, FreshIs DEF NoTurn
    <2> QED BY <1>1, <2>1
  <1>6. O \in [Dests -> 0..MaxTurns] BY <1>1
  <1>7. ts \subseteq Turns /\ ts \subseteq 1..n /\ \A t \in ts : T[t] = l.turn[t]
    BY <1>1 DEF LogOK
  <1>8. IsFiniteSet(ts) /\ Cardinality(ts) <= Keep /\ Cardinality(ts) \in Nat
    <2>1. /\ Cardinality(l.kept) \in Nat /\ IsFiniteSet(l.kept) /\ l.kept \subseteq Nat
          /\ Saved \in Nat /\ Keep \in Nat /\ Saved <= Keep
      BY <1>1, KeptFinite, HooksAssumption
    <2>2. k \in Nat /\ k <= Cardinality(l.kept) /\ Cardinality(l.kept) - k <= Saved
      BY <2>1, LargerIs
    <2>3. Cardinality(Oldest(l.kept, k)) = k BY <2>1, <2>2, OldestCounts
    <2>4. l.kept \cap Oldest(l.kept, k) = Oldest(l.kept, k) BY DEF Oldest
    <2> HIDE DEF k
    <2>5. /\ IsFiniteSet(ts) /\ Cardinality(ts) \in Nat
          /\ Cardinality(ts) = Cardinality(l.kept) - Cardinality(l.kept \cap Oldest(l.kept, k))
      BY <2>1, FS_Difference, FS_CardinalityType
    <2> QED BY <2>1, <2>2, <2>3, <2>4, <2>5
  <1> HIDE DEF T, O, b, ts, r
  <1>9. /\ r.turn = T /\ r.kept = ts /\ r.known = ts /\ r.open = O /\ r.byId = b /\ r \in Log
    BY <1>1, <1>2, <1>4, <1>5, <1>6, <1>7 DEF Log
  <1>10. OpenTurns(r) = {} BY <1>9 DEF OpenTurns, O
  <1>11. LogOK(r, n) BY <1>3, <1>4, <1>7, <1>9, <1>10 DEF LogOK, Linked
  <1>12. Small(r)
    <2>1. Cardinality(Dests) \in Nat /\ Keep \in Nat BY <1>1, KeptFinite, HooksAssumption
    <2>2. Larger(Keep, Cardinality(Dests)) >= Keep /\ Larger(Keep, Cardinality(Dests)) \in Nat
      BY <2>1, LargerIs
    <2> QED BY <1>8, <1>9, <2>1, <2>2 DEF Small
  <1> QED BY <1>11, <1>12 DEF r

-----------------------------------------------------------------------------
(* The inductive invariant. *)

Entries(memory) == {memory[i] : i \in DOMAIN memory}

\* Everyone who waits will find a number for their turn.
Room(q, n) == n + Cardinality(Waited(q)) <= MaxTurns

\* The ledger's items are the last of its bills, and what it can still see of
\* them it will not take up again.
Books(led, bs) ==
    /\ Len(led.items) = IF Len(bs) <= Items THEN Len(bs) ELSE Items
    /\ \A i \in 1..Len(led.items) : led.items[i] = bs[Len(bs) - Len(led.items) + i].prompt
    /\ \A i \in 1..Len(led.items) : led.items[i] # 0 => led.items[i] \in led.seen
    /\ \A i, j \in 1..Len(bs) : bs[i].prompt = bs[j].prompt => i = j \/ bs[i].prompt = 0

\* Sessions work on prompts of their own, which no bill is for yet.
Working(r, k, bs) ==
    /\ \A d \in Dests : r[d] <= k
    /\ \A d, e \in Dests : r[d] = r[e] => d = e \/ r[d] = 0
    /\ \A i \in 1..Len(bs) : /\ bs[i].prompt <= k
                             /\ \A d \in Dests : r[d] = bs[i].prompt => r[d] = 0

Inv ==
    /\ TypeOK
    /\ LogOK(log, opened) /\ Small(log)
    /\ LogOK(saved, opened) /\ Small(saved)
    /\ Room(queue, opened)
    /\ Books(ledger, bills)
    /\ Working(running, asked, bills)

\* The first n turns of l have the work of prompts that answer them.
Right(l, n, an) ==
    \A t \in 1..n :
        /\ \A p \in l.turn[t].did : an[p] = t
        /\ l.turn[t].prompt # 0 => an[l.turn[t].prompt] = t

\* b's turns are of the destinations and the members that l's are.
SameTurns(l, b) ==
    \A t \in Turns : b.turn[t].dest = l.turn[t].dest /\ b.turn[t].who = l.turn[t].who

\* What holds of a queue, a log of n turns, what was sent, what sessions work on
\* and what prompts answer, of which k were asked, while nothing goes wrong.
Answered(q, l, n, s, r, an, k) ==
    /\ \A d \in Dests :
          /\ l.open[d] = q.inflight[d]
          /\ l.open[d] # 0 => l.turn[l.open[d]].dest = d
          /\ s[d] # 0 => s[d] = l.open[d] /\ r[d] = 0
          /\ r[d] # 0 => l.open[d] # 0 /\ an[r[d]] = l.open[d]
    /\ \A p \in Prompts : p > k => an[p] = 0
    /\ Right(l, n, an)
    /\ Found(l)

\* The prompt memory knows who composed the local turn in flight, and holds no
\* prompt that is being worked on.
Remembered(q, l, r, k) ==
    /\ \A e \in Entries(q.memory) :
          /\ e.key = Inflight /\ q.inflight[Local] # 0 =>
                e.who = l.turn[q.inflight[Local]].who
          /\ e.key # Inflight => e.key <= k /\ \A d \in Dests : r[d] # e.key
    /\ q.inflight[Local] # 0 => \E e \in Entries(q.memory) : e.key = Inflight

Paid(l, n, an, bs) ==
    \A i \in 1..Len(bs) : bs[i].prompt # 0 =>
        LET t == an[bs[i].prompt] IN
        /\ t \in 1..n
        /\ bs[i].who = IF l.turn[t].dest = Local THEN l.turn[t].who
                       ELSE [Nobody EXCEPT ![Owner[l.turn[t].dest]] = 1]

Nominal ==
    happened = {} =>
        /\ Answered(queue, log, opened, sent, running, answers, asked)
        /\ Remembered(queue, log, running, asked)
        /\ Paid(log, opened, answers, bills)

-----------------------------------------------------------------------------
(* The queue. *)

LEMMA NobodyWeights == Nobody \in Weights /\ 0 \in 0..MaxPrompts /\ 0 \in 0..MaxTurns
  BY HooksAssumption DEF Nobody, Weights

LEMMA PutIs ==
    ASSUME NEW m \in Seq(Entry), NEW key \in 0..MaxPrompts, NEW who \in Weights,
           NEW r, r = Put(m, key, who)
    PROVE  /\ r \in Seq(Entry)
           /\ \A e \in Entries(r) : \/ e = [key |-> key, who |-> who]
                                    \/ e \in Entries(m) /\ e.key # key
           /\ \E e \in Entries(r) : e.key = key
           /\ \A e \in Entries(m) : e.key # key => e \in Entries(r)
  <1> DEFINE new == [key |-> key, who |-> who]
  <1>0. DOMAIN m = 1..Len(m) /\ Len(m) \in Nat /\ \A i \in 1..Len(m) : m[i] \in Entry OBVIOUS
  <1>1. new \in Entry /\ new.key = key BY DEF Entry
  <1>2. CASE \E i \in DOMAIN m : m[i].key = key
    <2>1. r = [i \in DOMAIN m |-> IF m[i].key = key THEN new ELSE m[i]]
      BY <1>2 DEF Put
    <2> HIDE DEF new
    <2>2. r \in [1..Len(m) -> Entry] /\ DOMAIN r = DOMAIN m BY <1>0, <1>1, <2>1
    <2>3. r \in Seq(Entry) BY <1>0, <2>2
    <2>4. \A i \in DOMAIN m : r[i] = IF m[i].key = key THEN new ELSE m[i] BY <2>1
    <2>5. ASSUME NEW e \in Entries(r) PROVE e = new \/ (e \in Entries(m) /\ e.key # key)
      BY <2>2, <2>4 DEF Entries
    <2>6. \E e \in Entries(r) : e.key = key
      <3>1. PICK i \in DOMAIN m : m[i].key = key BY <1>2
      <3>2. r[i] = new /\ r[i] \in Entries(r) BY <2>2, <2>4, <3>1 DEF Entries
      <3> QED BY <1>1, <3>2
    <2>7. ASSUME NEW e \in Entries(m), e.key # key PROVE e \in Entries(r)
      BY <2>2, <2>4, <2>7 DEF Entries
    <2> QED BY <2>3, <2>5, <2>6, <2>7 DEF new
  <1>3. CASE ~ \E i \in DOMAIN m : m[i].key = key
    <2>1. r = Append(m, new) BY <1>3 DEF Put
    <2> HIDE DEF new
    <2>2. /\ r \in Seq(Entry) /\ DOMAIN r = 1..(Len(m) + 1) /\ r[Len(m) + 1] = new
          /\ \A i \in 1..Len(m) : r[i] = m[i]
      BY <1>0, <1>1, <2>1
    <2>3. ASSUME NEW e \in Entries(r) PROVE e = new \/ (e \in Entries(m) /\ e.key # key)
      <3>1. PICK i \in 1..(Len(m) + 1) : e = r[i] BY <2>2 DEF Entries
      <3>2. CASE i = Len(m) + 1 BY <2>2, <3>1, <3>2
      <3>3. CASE i # Len(m) + 1
        <4>1. i \in 1..Len(m) BY <1>0, <3>3
        <4> QED BY <1>0, <1>3, <2>2, <3>1, <4>1 DEF Entries
      <3> QED BY <3>2, <3>3
    <2>4. Len(m) + 1 \in DOMAIN r BY <1>0, <2>2
    <2>5. \E e \in Entries(r) : e.key = key BY <1>1, <2>2, <2>4 DEF Entries
    <2>6. ASSUME NEW e \in Entries(m) PROVE e \in Entries(r)
      <3>1. PICK i \in 1..Len(m) : e = m[i] BY <1>0 DEF Entries
      <3>2. i \in DOMAIN r /\ r[i] = e BY <1>0, <2>2, <3>1
      <3> QED BY <3>2 DEF Entries
    <2> QED BY <2>2, <2>3, <2>5, <2>6 DEF new
  <1> QED BY <1>2, <1>3

\* The entry of the local turn is never trimmed.
LEMMA TrimIs ==
    ASSUME NEW m \in Seq(Entry), NEW r, r = Trim(m)
    PROVE  /\ r \in Seq(Entry)
           /\ Entries(r) \subseteq Entries(m)
           /\ \A e \in Entries(m) : e.key = Inflight => e \in Entries(r)
  <1> DEFINE over == Larger(Len(m), Memory) - Memory
             cut  == {i \in DOMAIN m : /\ i <= over
                                       /\ \A j \in 1..i : m[j].key # Inflight}
             c == Cardinality(cut)
  <1>0. DOMAIN m = 1..Len(m) /\ Len(m) \in Nat /\ \A i \in 1..Len(m) : m[i] \in Entry OBVIOUS
  <1>1. r = SubSeq(m, c + 1, Len(m)) BY DEF Trim
  <1>2. IsFiniteSet(1..Len(m)) /\ cut \subseteq 1..Len(m) BY <1>0, FS_Interval
  <1> HIDE DEF cut
  <1>3. c \in Nat BY <1>2, FS_Subset, FS_CardinalityType
  <1>4. ASSUME NEW i \in 1..Len(m), m[i].key = Inflight PROVE c + 1 <= i
    <2>1. cut \subseteq 1..(i - 1)
      <3> SUFFICES ASSUME NEW j \in cut, ~ (j <= i - 1) PROVE FALSE BY <1>2
      <3>1. j \in 1..Len(m) /\ i \in 1..j BY <1>0, <1>2
      <3> QED BY <1>4, <3>1 DEF cut
    <2>2. i - 1 \in Nat BY <1>0
    <2>3. IsFiniteSet(1..(i - 1)) /\ Cardinality(1..(i - 1)) = i - 1 BY <2>2, FS_Interval
    <2>4. c <= i - 1 BY <2>1, <2>3, FS_Subset
    <2> QED BY <1>3, <2>2, <2>4
  <1> HIDE DEF c
  <1>5. /\ r \in Seq(Entry)
        /\ Len(r) = IF c + 1 <= Len(m) THEN Len(m) - c ELSE 0
        /\ \A i \in 1..(Len(m) - c) : r[i] = m[c + i]
    <2>1. \A i \in (c + 1)..Len(m) : m[i] \in Entry BY <1>0, <1>3
    <2>2. c + 1 \in Int /\ Len(m) \in Int BY <1>0, <1>3
    <2>3. /\ SubSeq(m, c + 1, Len(m)) \in Seq(Entry)
          /\ Len(SubSeq(m, c + 1, Len(m))) =
               IF c + 1 <= Len(m) THEN Len(m) - (c + 1) + 1 ELSE 0
          /\ \A i \in 1..(Len(m) - (c + 1) + 1) : SubSeq(m, c + 1, Len(m))[i] = m[c + 1 + i - 1]
      BY <2>1, <2>2, SubSeqProperties
    <2>4. Len(m) - (c + 1) + 1 = Len(m) - c BY <1>0, <1>3
    <2>5. \A i \in 1..(Len(m) - c) : c + 1 + i - 1 = c + i BY <1>0, <1>3
    <2> QED BY <1>1, <2>3, <2>4, <2>5
  <1>6. DOMAIN r = 1..Len(r) BY <1>5
  <1>7. ASSUME NEW e \in Entries(r) PROVE e \in Entries(m)
    <2>1. PICK i \in 1..Len(r) : e = r[i] BY <1>6 DEF Entries
    <2>3. Len(r) # 0 BY <2>1
    <2>4. Len(r) = Len(m) - c BY <1>5, <2>3
    <2>2. i \in 1..(Len(m) - c) /\ c + i \in 1..Len(m) BY <1>0, <1>3, <2>4
    <2> QED BY <1>0, <1>5, <2>1, <2>2 DEF Entries
  <1>8. ASSUME NEW e \in Entries(m), e.key = Inflight PROVE e \in Entries(r)
    <2>1. PICK i \in 1..Len(m) : e = m[i] BY <1>0 DEF Entries
    <2>2. c + 1 <= i BY <1>4, <1>8, <2>1
    <2>3. i - c \in 1..(Len(m) - c) /\ i - c \in 1..Len(r) /\ c + (i - c) = i
      BY <1>0, <1>3, <1>5, <2>2
    <2>4. r[i - c] = m[i] BY <1>5, <2>3
    <2> QED BY <1>6, <2>1, <2>3, <2>4 DEF Entries
  <1> QED BY <1>5, <1>7, <1>8

LEMMA EndTurnIs ==
    ASSUME NEW q \in Queue, log \in Log, NEW p \in 0..MaxPrompts, NEW d \in Dests,
           NEW r, r = EndTurn(q, p, d)
    PROVE  /\ r \in Queue
           /\ r.waiting = q.waiting /\ Sets(r.inflight, q.inflight, d, 0)
           /\ r.memory = IF p = 0 \/ q.inflight[d] = 0 THEN q.memory
                         ELSE Trim(Put(q.memory, p, log.turn[q.inflight[d]].who))
           /\ p # 0 /\ q.inflight[d] # 0 => log.turn[q.inflight[d]].who \in Weights
  <1> DEFINE w == log.turn[q.inflight[d]].who
             m == IF p = 0 \/ q.inflight[d] = 0 THEN q.memory ELSE Trim(Put(q.memory, p, w))
             f == [q.inflight EXCEPT ![d] = 0]
  <1>1. f \in [Dests -> 0..MaxTurns] BY NobodyWeights DEF Queue
  <1>2. q.inflight[d] # 0 => w \in Weights
    <2>1. q.inflight[d] # 0 => q.inflight[d] \in Turns BY HooksAssumption DEF Queue, Turns
    <2> QED BY <2>1 DEF Log, Turn
  <1>3. m \in Seq(Entry)
    <2>1. CASE p = 0 \/ q.inflight[d] = 0 BY <2>1 DEF Queue
    <2>2. CASE ~ (p = 0 \/ q.inflight[d] = 0)
      <3>1. q.memory \in Seq(Entry) BY DEF Queue
      <3>2. Put(q.memory, p, w) \in Seq(Entry) BY <1>2, <2>2, <3>1, PutIs
      <3>3. Trim(Put(q.memory, p, w)) \in Seq(Entry) BY <3>2, TrimIs
      <3> QED BY <2>2, <3>3
    <2> QED BY <2>1, <2>2
  <1>4. r = [q EXCEPT !.inflight = f, !.memory = m] BY DEF EndTurn, Queue
  <1> HIDE DEF m, f
  <1>5. r = [waiting |-> q.waiting, inflight |-> f, memory |-> m] BY <1>4 DEF Queue
  <1>6. r \in Queue BY <1>1, <1>3, <1>5 DEF Queue
  <1>7. Sets(f, q.inflight, d, 0) BY DEF f, Sets, Queue
  <1> QED BY <1>2, <1>5, <1>6, <1>7 DEF m

LEMMA BeginTurnIs ==
    ASSUME NEW q \in Queue, NEW t \in 0..MaxTurns, NEW d \in Dests,
           NEW r, r = BeginTurn(q, t, d)
    PROVE  /\ r \in Queue
           /\ Sets(r.waiting, q.waiting, d, Nobody)
           /\ Sets(r.inflight, q.inflight, d, t)
           /\ r.memory = IF d = Local THEN Put(q.memory, Inflight, q.waiting[d]) ELSE q.memory
  <1> DEFINE m == IF d = Local THEN Put(q.memory, Inflight, q.waiting[d]) ELSE q.memory
             f == [q.inflight EXCEPT ![d] = t]
             w == [q.waiting EXCEPT ![d] = Nobody]
  <1>1. f \in [Dests -> 0..MaxTurns] /\ w \in [Dests -> Weights] BY NobodyWeights DEF Queue
  <1>2. m \in Seq(Entry)
    <2>1. q.memory \in Seq(Entry) /\ q.waiting[d] \in Weights BY DEF Queue
    <2>2. Inflight \in 0..MaxPrompts BY NobodyWeights DEF Inflight
    <2>3. Put(q.memory, Inflight, q.waiting[d]) \in Seq(Entry) BY <2>1, <2>2, PutIs
    <2> QED BY <2>1, <2>3
  <1>3. r = [q EXCEPT !.waiting = w, !.inflight = f, !.memory = m] BY DEF BeginTurn, Queue
  <1> HIDE DEF m, f, w
  <1>4. r = [waiting |-> w, inflight |-> f, memory |-> m] BY <1>3 DEF Queue
  <1>5. r \in Queue BY <1>1, <1>2, <1>4 DEF Queue
  <1>6. Sets(w, q.waiting, d, Nobody) /\ Sets(f, q.inflight, d, t)
    BY DEF f, w, Sets, Queue
  <1> QED BY <1>4, <1>5, <1>6 DEF m

LEMMA WaitedIs ==
    ASSUME NEW q \in Queue
    PROVE  /\ IsFiniteSet(Waited(q)) /\ Cardinality(Waited(q)) \in Nat
           /\ \A r \in Queue : Waited(r) \subseteq Waited(q) => Cardinality(Waited(r)) <= Cardinality(Waited(q))
           /\ \A r \in Queue, d \in Waited(q) :
                Waited(r) = Waited(q) \ {d} => Cardinality(Waited(r)) = Cardinality(Waited(q)) - 1
  <1>1. IsFiniteSet(Dests) BY HooksAssumption, FS_AddElement DEF Dests
  <1>2. IsFiniteSet(Waited(q)) BY <1>1, FS_Subset DEF Waited
  <1> QED BY <1>2, FS_CardinalityType, FS_Subset, FS_RemoveElement

LEMMA ReadyRoom ==
    ASSUME opened \in 0..MaxTurns, NEW q \in Queue, Room(q, opened), NEW d \in Ready(q)
    PROVE  opened + 1 \in Turns /\ opened \in Nat /\ opened + 1 \in 0..MaxTurns
  <1>1. d \in Waited(q) BY DEF Ready
  <1>2. Cardinality(Waited(q)) # 0 BY <1>1, WaitedIs, FS_EmptySet
  <1>3. Cardinality(Waited(q)) \in Nat BY WaitedIs
  <1> QED BY <1>2, <1>3, HooksAssumption DEF Room, Turns

\* What drain() leaves.
LEMMA DrainIs ==
    ASSUME opened \in 0..MaxTurns, sent \in [Dests -> 0..MaxTurns],
           NEW q \in Queue, NEW l, LogOK(l, opened), Room(q, opened), Drain(q, l)
    PROVE  /\ opened' \in 0..MaxTurns /\ opened <= opened'
           /\ sent' \in [Dests -> 0..MaxTurns]
           /\ queue' \in Queue /\ Room(queue, opened)'
           /\ LogOK(log, opened)' /\ (Small(l) => Small(log'))
  <1>1. CASE queue' = q /\ log' = l /\ UNCHANGED <<opened, sent>>
    BY <1>1 DEF Room
  <1>2. ASSUME NEW d \in Ready(q),
               opened' = opened + 1, queue' = BeginTurn(q, opened', d),
               log' = Open(l, opened', d, q.waiting[d]),
               sent' = [sent EXCEPT ![d] = opened']
        PROVE  /\ opened' \in 0..MaxTurns /\ opened <= opened'
               /\ sent' \in [Dests -> 0..MaxTurns]
               /\ queue' \in Queue /\ Room(queue, opened)'
               /\ LogOK(log, opened)' /\ Small(log')
    <2>1. d \in Waited(q) /\ d \in Dests /\ q.waiting[d] \in Weights
      BY DEF Ready, Waited, Queue
    <2>2. Cardinality(Waited(q)) \in Nat BY WaitedIs
    <2>3. opened + 1 \in Turns /\ opened \in Nat /\ opened + 1 \in 0..MaxTurns
      BY ReadyRoom
    <2>4. queue' \in Queue /\ Sets(queue'.waiting, q.waiting, d, Nobody)
      <3>1. queue' = BeginTurn(q, opened + 1, d) BY <1>2
      <3> QED BY <2>1, <2>3, <3>1, BeginTurnIs
    <2>5. Waited(queue') = Waited(q) \ {d}
      BY <2>1, <2>4 DEF Waited, Queue, Sets
    <2>6. Cardinality(Waited(queue')) = Cardinality(Waited(q)) - 1
      BY <2>1, <2>4, <2>5, WaitedIs
    <2>7. Room(queue, opened)'
      <3>1. Waited(queue)' = Waited(queue') BY DEF Waited
      <3> QED BY <1>2, <2>2, <2>3, <2>6, <3>1, HooksAssumption DEF Room
    <2>8. LogOK(log, opened)' /\ Small(log')
      <3>1. LogOK(Open(l, opened + 1, d, q.waiting[d]), opened + 1)
            /\ Small(Open(l, opened + 1, d, q.waiting[d]))
        BY <2>1, <2>3, OpenIs
      <3>2. LogOK(log', opened') /\ Small(log') BY <1>2, <3>1
      <3> QED BY <3>2 DEF LogOK, Linked, OpenTurns
    <2>9. sent' \in [Dests -> 0..MaxTurns] BY <1>2, <2>1, <2>3
    <2>10. opened' \in 0..MaxTurns /\ opened <= opened' BY <1>2, <2>3
    <2> QED BY <2>4, <2>7, <2>8, <2>9, <2>10
  <1> QED BY <1>1, <1>2 DEF Drain

-----------------------------------------------------------------------------
(* The ledger. *)

\* A prompt that no bill is for is taken up, and the books stay right.
LEMMA RecordIs ==
    ASSUME NEW led, led.items \in Seq(0..MaxPrompts), led.seen \subseteq Prompts,
           NEW bs \in Seq(Bill), Books(led, bs),
           NEW bill \in Bill, NEW p \in 0..MaxPrompts, p = bill.prompt, p \notin led.seen,
           p # 0 => \A i \in 1..Len(bs) : bs[i].prompt # p,
           NEW use, NEW who, NEW r, r = Record(led, p, use, who)
    PROVE  /\ r.items \in Seq(0..MaxPrompts) /\ r.seen \subseteq Prompts
           /\ Books(r, Append(bs, bill))
  <1>a. PICK all : all = Append(led.items, p) OBVIOUS
  <1>b. PICK new : new = Append(bs, bill) OBVIOUS
  <1>c. PICK n \in Nat : n = Len(led.items) OBVIOUS
  <1>d. PICK b \in Nat : b = Len(bs) OBVIOUS
  <1>e. Items \in Nat /\ Items >= 1 BY HooksAssumption
  <1>f. PICK over \in Nat : over = Larger(Len(all), Items) - Items
    <2>1. Len(all) \in Nat BY <1>a
    <2>2. Larger(Len(all), Items) \in Int /\ Larger(Len(all), Items) >= Items
      BY <1>e, <2>1, LargerIs
    <2> QED BY <1>e, <2>2
  <1>1. /\ r.items = SubSeq(all, over + 1, Len(all))
        /\ r.seen = ((led.seen \cup {p}) \ {all[i] : i \in 1..over}) \ {0}
    BY <1>a, <1>f DEF Record
  <1>2. n = IF b <= Items THEN b ELSE Items
    BY <1>c, <1>d DEF Books
  <1>3. /\ all \in Seq(0..MaxPrompts) /\ Len(all) = n + 1 /\ all[n + 1] = p
        /\ \A i \in 1..n : all[i] = led.items[i]
    BY <1>a, <1>c
  <1>4. /\ new \in Seq(Bill) /\ Len(new) = b + 1 /\ new[b + 1] = bill
        /\ \A i \in 1..b : new[i] = bs[i]
    BY <1>b, <1>d
  <1>5. over = IF b < Items THEN 0 ELSE 1
    BY <1>e, <1>f, <1>2, <1>3 DEF Larger
  <1>6. \A i \in 1..(n + 1) : all[i] = new[b - n + i].prompt
    <2> SUFFICES ASSUME NEW i \in 1..(n + 1) PROVE all[i] = new[b - n + i].prompt OBVIOUS
    <2>1. CASE i = n + 1
      <3>1. b - n + i = b + 1 BY <2>1
      <3> QED BY <1>3, <1>4, <2>1, <3>1
    <2>2. CASE i # n + 1
      <3>1. i \in 1..n /\ b - n + i \in 1..b BY <1>e, <1>2, <2>2
      <3>2. led.items[i] = bs[b - n + i].prompt BY <1>c, <1>d, <3>1 DEF Books
      <3> QED BY <1>3, <1>4, <3>1, <3>2
    <2> QED BY <2>1, <2>2
  <1>7. \A i, j \in 1..(b + 1) : new[i].prompt = new[j].prompt => i = j \/ new[i].prompt = 0
    <2> SUFFICES ASSUME NEW i \in 1..(b + 1), NEW j \in 1..(b + 1),
                        new[i].prompt = new[j].prompt
                 PROVE  i = j \/ new[i].prompt = 0
      OBVIOUS
    <2>1. CASE i = b + 1 /\ j = b + 1 BY <2>1
    <2>2. CASE i = b + 1 /\ j # b + 1
      <3>1. j \in 1..b BY <1>2, <2>2
      <3> QED BY <1>d, <1>4, <2>2, <3>1
    <2>3. CASE i # b + 1 /\ j = b + 1
      <3>1. i \in 1..b BY <1>2, <2>3
      <3> QED BY <1>d, <1>4, <2>3, <3>1
    <2>4. CASE i # b + 1 /\ j # b + 1
      <3>1. i \in 1..b /\ j \in 1..b BY <1>2, <2>4
      <3> QED BY <1>d, <1>4, <3>1 DEF Books
    <2> QED BY <2>1, <2>2, <2>3, <2>4
  <1>8. /\ r.items \in Seq(0..MaxPrompts) /\ Len(r.items) = n + 1 - over
        /\ \A i \in 1..(n + 1 - over) : r.items[i] = all[over + i]
    <2>1. ASSUME NEW i \in (over + 1)..(n + 1) PROVE all[i] \in 0..MaxPrompts
      <3>1. i \in 1..(n + 1) OBVIOUS
      <3> QED BY ONLY <1>3, <3>1, ElementOfSeq
    <2>2. over + 1 \in Int /\ n + 1 \in Int /\ over + 1 <= n + 1 BY <1>e, <1>2, <1>5
    <2>3. PICK x : x = SubSeq(all, over + 1, n + 1) OBVIOUS
    <2>4. x \in Seq(0..MaxPrompts) BY <2>1, <2>2, <2>3, SubSeqProperties
    <2>5. Len(x) = n + 1 - (over + 1) + 1 BY <2>1, <2>2, <2>3, SubSeqProperties
    <2>6. \A i \in 1..(n + 1 - (over + 1) + 1) : x[i] = all[over + 1 + i - 1]
      BY <2>1, <2>2, <2>3, SubSeqProperties
    <2>7. \A i \in 1..(n + 1 - over) : i \in 1..(n + 1 - (over + 1) + 1) /\ over + 1 + i - 1 = over + i
      OBVIOUS
    <2>8. r.items = x BY <1>1, <1>3, <2>3
    <2>9. Len(x) = n + 1 - over BY <2>5
    <2> QED BY <2>4, <2>6, <2>7, <2>8, <2>9
  <1>9. Len(r.items) = IF Len(new) <= Items THEN Len(new) ELSE Items
    BY <1>e, <1>2, <1>4, <1>5, <1>8
  <1>10. ASSUME NEW i \in 1..Len(r.items)
         PROVE  /\ r.items[i] = new[Len(new) - Len(r.items) + i].prompt
                /\ r.items[i] # 0 => r.items[i] \in r.seen
    <2>1. /\ i \in Nat /\ over + i \in 1..(n + 1) /\ r.items[i] = all[over + i]
          /\ Len(new) - Len(r.items) + i = b - n + (over + i)
      <3>1. i \in 1..(n + 1 - over) BY <1>8
      <3>2. r.items[i] = all[over + i] BY <1>8, <3>1
      <3>3. over + i \in 1..(n + 1) /\ i \in Nat BY <1>c, <1>f, <3>1
      <3>4. Len(new) - Len(r.items) + i = b - n + (over + i)
        <4>1. Len(new) = b + 1 BY <1>4
        <4>2. Len(r.items) = n + 1 - over BY <1>8
        <4>3. (b + 1) - (n + 1 - over) + i = b - n + (over + i)
          <5>1. \A v, x, y, z \in Int : (v + 1) - (x + 1 - y) + z = v - x + (y + z) OBVIOUS
          <5>2. b \in Int /\ n \in Int /\ over \in Int /\ i \in Int
            BY <1>c, <1>d, <1>f, <3>3
          <5> QED BY ONLY <5>1, <5>2
        <4> QED BY <4>1, <4>2, <4>3
      <3> QED BY <3>2, <3>3, <3>4
    <2>2. r.items[i] = new[b - n + (over + i)].prompt BY <1>6, <2>1
    <2>3. r.items[i] \in led.seen \cup {p} \cup {0}
      <3>1. CASE over + i = n + 1 BY <1>3, <2>1, <3>1
      <3>2. CASE over + i # n + 1
        <4>1. over + i \in 1..n
          <5>1. \A x \in Nat : \A y \in 1..(x + 1) : y # x + 1 => y \in 1..x OBVIOUS
          <5>2. n \in Nat /\ over + i \in 1..(n + 1) BY ONLY <1>c, <2>1
          <5> QED BY ONLY <3>2, <5>1, <5>2
        <4> QED BY <1>c, <1>3, <2>1, <4>1 DEF Books
      <3> QED BY <3>1, <3>2
    <2>4. ASSUME NEW j \in 1..over, all[j] = r.items[i] PROVE r.items[i] = 0
      <3>1. j \in 1..(n + 1) /\ j # over + i BY <1>e, <1>2, <1>5
      <3>2. b - n + j \in 1..(b + 1) /\ b - n + (over + i) \in 1..(b + 1)
            /\ b - n + j # b - n + (over + i)
        BY <1>e, <1>2, <2>1, <3>1
      <3>3. all[j] = new[b - n + j].prompt BY <1>6, <3>1
      <3> QED BY <1>7, <2>2, <2>4, <3>2, <3>3
    <2> QED BY <1>1, <2>1, <2>2, <2>3, <2>4
  <1>11. r.seen \subseteq Prompts BY <1>1, HooksAssumption DEF Prompts
  <1>12. Books(r, new) BY <1>4, <1>7, <1>9, <1>10 DEF Books
  <1> QED BY <1>b, <1>8, <1>11, <1>12

LEMMA PayersType ==
    ASSUME queue \in Queue, NEW p, NEW d \in Dests
    PROVE  Payers(p, d) \in Weights
  <1>1. CASE d \in Seats BY <1>1, NobodyWeights, HooksAssumption DEF Payers, Weights
  <1>2. CASE d \notin Seats
    <2> DEFINE known(key) == {i \in DOMAIN queue.memory : queue.memory[i].key = key}
    <2>1. Payers(p, d) = IF known(p) # {} THEN queue.memory[CHOOSE i \in known(p) : TRUE].who
                         ELSE IF known(Inflight) # {}
                              THEN queue.memory[CHOOSE i \in known(Inflight) : TRUE].who
                              ELSE Nobody
      BY <1>2 DEF Payers
    <2>2. \A k : known(k) # {} => queue.memory[CHOOSE i \in known(k) : TRUE].who \in Weights
      <3> SUFFICES ASSUME NEW k, known(k) # {}
                   PROVE  queue.memory[CHOOSE i \in known(k) : TRUE].who \in Weights
        OBVIOUS
      <3>1. PICK c : c = CHOOSE i \in known(k) : TRUE OBVIOUS
      <3>2. c \in known(k) BY <3>1
      <3>3. queue.memory \in Seq(Entry) /\ c \in DOMAIN queue.memory BY <3>2 DEF Queue
      <3>4. queue.memory[c] \in Entry BY <3>3
      <3> QED BY <3>1, <3>4 DEF Entry
    <2> QED BY <2>1, <2>2, NobodyWeights
  <1> QED BY <1>1, <1>2

Bills(p, d, use) == [prompt |-> p, dest |-> d, use |-> use, who |-> Payers(p, d)]

\* The books after a Stop: a prompt that is in them stays as it is, and one that no
\* bill is for is entered.
LEMMA ChargeIs ==
    ASSUME TypeOK, Books(ledger, bills), NEW p \in Prompts, NEW d \in Dests, NEW use \in Uses,
           Charge(p, d, use),
           p \in ledger.seen \/ \A i \in 1..Len(bills) : bills[i].prompt # p
    PROVE  /\ ledger'.items \in Seq(0..MaxPrompts) /\ ledger'.seen \subseteq Prompts
           /\ bills' \in Seq(Bill) /\ Books(ledger', bills')
           /\ \/ bills' = bills
              \/ bills' = Append(bills, Bills(p, d, use)) /\ p \notin ledger.seen
  <1>1. /\ ledger.items \in Seq(0..MaxPrompts) /\ ledger.seen \subseteq Prompts
        /\ bills \in Seq(Bill) /\ queue \in Queue
    BY DEF TypeOK
  <1>2. CASE use = 0 BY <1>1, <1>2 DEF Charge
  <1>3. CASE use # 0 /\ p \in ledger.seen BY <1>1, <1>3 DEF Charge, Record
  <1>4. CASE use # 0 /\ p \notin ledger.seen
    <2> DEFINE b == Bills(p, d, use)
    <2>1. p \in 0..MaxPrompts BY DEF Prompts
    <2>2. b \in Bill /\ p = b.prompt
      BY <1>1, <2>1, PayersType, HooksAssumption DEF Bills, Bill
    <2>3. bills' = Append(bills, b) /\ ledger' = Record(ledger, p, use, Payers(p, d))
      BY <1>4 DEF Charge, Bills
    <2> HIDE DEF b
    <2>4. /\ ledger'.items \in Seq(0..MaxPrompts) /\ ledger'.seen \subseteq Prompts
          /\ Books(ledger', Append(bills, b))
      BY <1>1, <1>4, <2>1, <2>2, <2>3, RecordIs
    <2>5. Append(bills, b) \in Seq(Bill) BY <1>1, <2>2, AppendProperties
    <2> QED BY <1>4, <2>3, <2>4, <2>5 DEF b
  <1> QED BY <1>2, <1>3, <1>4

LEMMA LogLater ==
    ASSUME NEW n \in Nat, NEW m \in Nat, n <= m, NEW l, LogOK(l, n)
    PROVE  LogOK(l, m)
  BY DEF LogOK

\* What a Stop hook leaves, but for the session it came from.
LEMMA HandleStopIs ==
    ASSUME Inv, NEW p \in Prompts, NEW d \in Dests, HandleStop(p, d),
           p \in ledger.seen \/ \A i \in 1..Len(bills) : bills[i].prompt # p
    PROVE  /\ opened' \in 0..MaxTurns /\ sent' \in [Dests -> 0..MaxTurns] /\ queue' \in Queue
           /\ Room(queue, opened)'
           /\ LogOK(log, opened)' /\ Small(log') /\ LogOK(saved, opened)' /\ Small(saved')
           /\ ledger'.items \in Seq(0..MaxPrompts) /\ ledger'.seen \subseteq Prompts
           /\ bills' \in Seq(Bill) /\ Books(ledger', bills')
           /\ \E use \in Uses : \/ bills' = bills
                                \/ bills' = Append(bills, Bills(p, d, use)) /\ p \notin ledger.seen
  <1>1. /\ TypeOK /\ Books(ledger, bills) /\ LogOK(log, opened) /\ Small(log) /\ Room(queue, opened)
        /\ opened \in Nat /\ queue \in Queue /\ log \in Log
        /\ opened \in 0..MaxTurns /\ sent \in [Dests -> 0..MaxTurns]
    BY DEF Inv, TypeOK
  <1>2. PICK use \in Uses : Charge(p, d, use) BY DEF HandleStop
  <1>3. /\ ledger'.items \in Seq(0..MaxPrompts) /\ ledger'.seen \subseteq Prompts
        /\ bills' \in Seq(Bill) /\ Books(ledger', bills')
        /\ \/ bills' = bills
           \/ bills' = Append(bills, Bills(p, d, use)) /\ p \notin ledger.seen
    BY <1>1, <1>2, ChargeIs
  <1>4. PICK l : l = Close(log, p, d) OBVIOUS
  <1>5. PICK q : q = EndTurn(queue, p, d) OBVIOUS
  <1>6. p \in 0..MaxPrompts BY DEF Prompts
  <1>7. LogOK(l, opened) /\ l.kept = log.kept BY <1>1, <1>4, <1>6, CloseIs
  <1>8. Small(l) BY <1>1, <1>7 DEF Small
  <1>9. q \in Queue /\ q.waiting = queue.waiting BY <1>1, <1>5, <1>6, EndTurnIs
  <1>10. Room(q, opened) BY <1>1, <1>9 DEF Room, Waited
  <1>11. Drain(q, l) /\ saved' = Recent(l) BY <1>4, <1>5 DEF HandleStop
  <1>12. /\ opened' \in 0..MaxTurns /\ opened <= opened' /\ sent' \in [Dests -> 0..MaxTurns]
         /\ queue' \in Queue /\ Room(queue, opened)'
         /\ LogOK(log, opened)' /\ (Small(l) => Small(log'))
    BY <1>1, <1>7, <1>9, <1>10, <1>11, DrainIs
  <1>13. LogOK(saved', opened) /\ Small(saved') BY <1>1, <1>7, <1>11, RecentIs
  <1>14. LogOK(saved', opened') BY <1>1, <1>12, <1>13, LogLater
  <1> QED BY <1>3, <1>8, <1>12, <1>13, <1>14

-----------------------------------------------------------------------------
(* The invariant holds initially and is kept. *)

LEMMA NoLogIs == LogOK(NoLog, 0) /\ Small(NoLog)
  <1>1. NoTurn \in Turn
    <2>1. Nobody \in Weights /\ Local \in Dests BY NobodyWeights DEF Dests
    <2> QED BY <2>1, FreshIs DEF NoTurn
  <1>2. NoLog \in Log BY <1>1, NobodyWeights DEF NoLog, Log
  <1>3. OpenTurns(NoLog) = {} BY DEF OpenTurns, NoLog
  <1>4. LogOK(NoLog, 0) BY <1>2, <1>3 DEF LogOK, Linked, NoLog
  <1>5. Cardinality(NoLog.kept) = 0 BY FS_EmptySet DEF NoLog
  <1>6. Larger(Keep, Cardinality(Dests)) \in Int /\ Larger(Keep, Cardinality(Dests)) >= Keep
    BY <1>2, KeptFinite, HooksAssumption, LargerIs
  <1> QED BY <1>4, <1>5, <1>6, HooksAssumption DEF Small

LEMMA NoQueueIs == NoQueue \in Queue /\ Waited(NoQueue) = {}
  BY NobodyWeights DEF NoQueue, Queue, Waited

LEMMA InvInit == Init => Inv
  <1> SUFFICES ASSUME Init PROVE Inv OBVIOUS
  <1>1. TypeOK
    <2>1. log \in Log /\ saved \in Log BY NoLogIs DEF Init, LogOK
    <2>2. queue \in Queue BY NoQueueIs DEF Init
    <2> QED BY <2>1, <2>2, NobodyWeights DEF Init, TypeOK
  <1>2. LogOK(log, opened) /\ Small(log) /\ LogOK(saved, opened) /\ Small(saved)
    BY NoLogIs DEF Init
  <1>3. Room(queue, opened) BY NoQueueIs, FS_EmptySet, HooksAssumption DEF Init, Room
  <1>4. Books(ledger, bills) BY HooksAssumption DEF Init, Books
  <1>5. Working(running, asked, bills) BY DEF Init, Working
  <1> QED BY <1>1, <1>2, <1>3, <1>4, <1>5 DEF Inv

\* Whose session a Stop hook came from is at rest.
LEMMA RestWorking ==
    ASSUME Inv, NEW d \in Dests, running[d] # 0, NEW use,
           bills' \in Seq(Bill),
           bills' = bills \/ bills' = Append(bills, Bills(running[d], d, use)),
           running' = [running EXCEPT ![d] = 0], asked' = asked
    PROVE  Working(running', asked', bills')
  <1>1. /\ running \in [Dests -> 0..MaxPrompts] /\ bills \in Seq(Bill) /\ asked \in Nat
        /\ Working(running, asked, bills)
    BY DEF Inv, TypeOK
  <1>2. \A e \in Dests : running'[e] = IF e = d THEN 0 ELSE running[e] BY <1>1
  <1>3. \A e \in Dests : running'[e] <= asked BY <1>1, <1>2 DEF Working
  <1>4. \A e, f \in Dests : running'[e] = running'[f] => e = f \/ running'[e] = 0
    BY <1>1, <1>2 DEF Working
  <1>5. ASSUME NEW i \in 1..Len(bills')
        PROVE  /\ bills'[i].prompt <= asked
               /\ \A e \in Dests : running'[e] = bills'[i].prompt => running'[e] = 0
    <2>1. CASE i \in 1..Len(bills) /\ bills'[i] = bills[i]
      BY <1>1, <1>2, <2>1 DEF Working
    <2>2. CASE bills'[i].prompt = running[d]
      BY <1>1, <1>2, <2>2 DEF Working
    <2>3. (i \in 1..Len(bills) /\ bills'[i] = bills[i]) \/ bills'[i].prompt = running[d]
      <3>1. CASE bills' = bills BY <3>1
      <3>2. CASE bills' = Append(bills, Bills(running[d], d, use))
        <4>1. Bills(running[d], d, use).prompt = running[d] BY DEF Bills
        <4>2. CASE i = Len(bills) + 1 BY <1>1, <3>2, <4>1, <4>2
        <4>3. CASE i # Len(bills) + 1
          <5>1. i \in 1..Len(bills) BY <1>1, <3>2, <4>3
          <5> QED BY <1>1, <3>2, <5>1
        <4> QED BY <4>2, <4>3
      <3> QED BY <3>1, <3>2
    <2> QED BY <2>1, <2>2, <2>3
  <1> QED BY <1>3, <1>4, <1>5 DEF Working

LEMMA InvStop ==
    ASSUME Inv, NEW d \in Dests, Stop(d)
    PROVE  Inv'
  <1>1. /\ HandleStop(running[d], d) /\ running[d] \in Prompts
        /\ running' = [running EXCEPT ![d] = 0]
        /\ asked' = asked /\ answers' = answers /\ happened' = happened
    BY HooksAssumption DEF Stop, Inv, TypeOK, Prompts
  <1>2. \A i \in 1..Len(bills) : bills[i].prompt # running[d]
    BY <1>1 DEF Inv, Working, Stop
  <1>3. /\ opened' \in 0..MaxTurns /\ sent' \in [Dests -> 0..MaxTurns] /\ queue' \in Queue
        /\ Room(queue, opened)'
        /\ LogOK(log, opened)' /\ Small(log') /\ LogOK(saved, opened)' /\ Small(saved')
        /\ ledger'.items \in Seq(0..MaxPrompts) /\ ledger'.seen \subseteq Prompts
        /\ bills' \in Seq(Bill) /\ Books(ledger', bills')
    BY <1>1, <1>2, HandleStopIs
  <1>4. PICK use \in Uses : bills' = bills \/ bills' = Append(bills, Bills(running[d], d, use))
    BY <1>1, <1>2, HandleStopIs
  <1>5. Working(running', asked', bills')
    <2>1. running[d] # 0 BY DEF Stop
    <2> QED BY <1>1, <1>3, <1>4, <2>1, RestWorking
  <1>6. log' \in Log /\ saved' \in Log BY <1>3 DEF LogOK
  <1>7. TypeOK' BY <1>1, <1>3, <1>6, NobodyWeights DEF TypeOK, Inv
  <1> QED BY <1>3, <1>5, <1>7 DEF Inv

LEMMA HappensType ==
    ASSUME happened \subseteq Upsets, NEW what, Happens(what)
    PROVE  happened' \subseteq Upsets /\ happened' # {}
  BY DEF Happens

\* A Stop hook that is sent again finds its prompt in the books.
LEMMA RefireSeen ==
    ASSUME Inv, NEW p \in Prompts, NEW d \in Dests, Refire(p, d)
    PROVE  p \in ledger.seen
  <1>1. PICK i \in DOMAIN bills : bills[i].prompt = p /\ i > Larger(Len(bills), Items) - Items
    BY DEF Refire
  <1>2. /\ bills \in Seq(Bill) /\ ledger.items \in Seq(0..MaxPrompts) /\ Books(ledger, bills)
        /\ Items \in Nat
    BY HooksAssumption DEF Inv, TypeOK
  <1>3. PICK b \in Nat : b = Len(bills) BY <1>2
  <1>4. PICK n \in Nat : n = Len(ledger.items) BY <1>2
  <1>5. i \in 1..b BY <1>1, <1>2, <1>3
  <1>6. n = IF b <= Items THEN b ELSE Items BY <1>2, <1>3, <1>4 DEF Books
  <1>7. i > b - n
    <2>1. i > (IF b > Items THEN b ELSE Items) - Items BY <1>1, <1>3 DEF Larger
    <2> QED BY <1>2, <1>3, <1>5, <1>6, <2>1
  <1>8. PICK j \in 1..n : b - n + j = i
    <2>1. i - (b - n) \in 1..n /\ b - n + (i - (b - n)) = i
      BY <1>3, <1>4, <1>5, <1>7
    <2> QED BY <2>1
  <1>9. ledger.items[j] = bills[i].prompt BY <1>2, <1>3, <1>4, <1>8 DEF Books
  <1>10. ledger.items[j] # 0 BY <1>1, <1>9, HooksAssumption DEF Prompts
  <1> QED BY <1>1, <1>2, <1>4, <1>8, <1>9, <1>10 DEF Books

LEMMA InvRefire ==
    ASSUME Inv, NEW p \in Prompts, NEW d \in Dests, Refire(p, d)
    PROVE  Inv'
  <1>1. /\ HandleStop(p, d) /\ p \in ledger.seen
        /\ running' = running /\ asked' = asked /\ answers' = answers
        /\ happened' \subseteq Upsets
    BY RefireSeen, HappensType DEF Refire, Inv, TypeOK
  <1>2. /\ opened' \in 0..MaxTurns /\ sent' \in [Dests -> 0..MaxTurns] /\ queue' \in Queue
        /\ Room(queue, opened)'
        /\ LogOK(log, opened)' /\ Small(log') /\ LogOK(saved, opened)' /\ Small(saved')
        /\ ledger'.items \in Seq(0..MaxPrompts) /\ ledger'.seen \subseteq Prompts
        /\ bills' \in Seq(Bill) /\ Books(ledger', bills') /\ bills' = bills
    BY <1>1, HandleStopIs
  <1>3. Working(running', asked', bills') BY <1>1, <1>2 DEF Inv
  <1>4. log' \in Log /\ saved' \in Log BY <1>2 DEF LogOK
  <1>5. TypeOK' BY <1>1, <1>2, <1>4 DEF TypeOK, Inv
  <1> QED BY <1>2, <1>3, <1>5 DEF Inv

LEMMA InvAbandon ==
    ASSUME Inv, NEW d \in Dests, Abandon(d)
    PROVE  Inv'
  <1>1. /\ TypeOK /\ LogOK(log, opened) /\ Small(log) /\ Room(queue, opened)
        /\ queue \in Queue /\ opened \in Nat /\ log \in Log
    BY DEF Inv, TypeOK
  <1>2. /\ queue' = EndTurn(queue, 0, d) /\ log' = Close(log, 0, d) /\ saved' = Recent(log')
        /\ happened' \subseteq Upsets
        /\ opened' = opened /\ ledger' = ledger /\ running' = running /\ asked' = asked
        /\ answers' = answers /\ bills' = bills
    BY <1>1, HappensType DEF Abandon, TypeOK
  <1>3. LogOK(log', opened) /\ log'.kept = log.kept BY <1>1, <1>2, NobodyWeights, CloseIs
  <1>4. Small(log') BY <1>1, <1>3 DEF Small
  <1>5. LogOK(saved', opened) /\ Small(saved') BY <1>1, <1>2, <1>3, RecentIs
  <1>6. queue' \in Queue /\ queue'.waiting = queue.waiting
    BY <1>1, <1>2, NobodyWeights, EndTurnIs
  <1>7. Room(queue', opened) BY <1>1, <1>6 DEF Room, Waited
  <1>8. sent' \in [Dests -> 0..MaxTurns]
    BY NobodyWeights DEF Abandon, Inv, TypeOK
  <1>9. TypeOK' BY <1>1, <1>2, <1>3, <1>5, <1>6, <1>8 DEF TypeOK, LogOK
  <1>10. Working(running', asked', bills') /\ Books(ledger', bills') BY <1>2 DEF Inv
  <1> QED BY <1>2, <1>3, <1>4, <1>5, <1>7, <1>9, <1>10 DEF Inv

\* A room that starts over.
LEMMA RestartIs ==
    ASSUME Inv, Restart(saved)
    PROVE  /\ queue' \in Queue /\ Room(queue', opened') /\ opened' = opened /\ sent' = sent
           /\ asked' = asked /\ answers' = answers
           /\ log' = saved /\ saved' = saved
           /\ happened' \subseteq Upsets
  <1>1. happened' \subseteq Upsets BY HappensType DEF Restart, Inv, TypeOK
  <1>2. Room(NoQueue, opened)
    <2>1. opened \in 0..MaxTurns BY DEF Inv, TypeOK
    <2> QED BY <2>1, NoQueueIs, FS_EmptySet, HooksAssumption DEF Room
  <1> QED BY <1>1, <1>2, NoQueueIs DEF Restart

LEMMA InvCrash ==
    ASSUME Inv, Crash
    PROVE  Inv'
  <1>1. /\ queue' \in Queue /\ Room(queue', opened') /\ opened' = opened /\ sent' = sent
        /\ asked' = asked /\ answers' = answers
        /\ log' = saved /\ saved' = saved
        /\ happened' \subseteq Upsets
    BY RestartIs DEF Crash
  <1>2. ledger' = ledger /\ running' = running /\ bills' = bills BY DEF Crash
  <1> QED BY <1>1, <1>2 DEF Inv, TypeOK

LEMMA InvStopDies ==
    ASSUME Inv, NEW d \in Dests, StopDies(d)
    PROVE  Inv'
  <1>1. /\ queue' \in Queue /\ Room(queue', opened') /\ opened' = opened /\ sent' = sent
        /\ asked' = asked /\ answers' = answers
        /\ log' = saved /\ saved' = saved
        /\ happened' \subseteq Upsets
    BY RestartIs DEF StopDies
  <1>2. PICK use \in Uses \ {0} : Charge(running[d], d, use) BY DEF StopDies
  <1>3. /\ running[d] # 0 /\ running[d] \in Prompts /\ running' = [running EXCEPT ![d] = 0]
        /\ running' \in [Dests -> 0..MaxPrompts]
    BY NobodyWeights, HooksAssumption DEF StopDies, Inv, TypeOK, Prompts
  <1>4. \A i \in 1..Len(bills) : bills[i].prompt # running[d]
    BY <1>3 DEF Inv, Working
  <1>5. /\ ledger'.items \in Seq(0..MaxPrompts) /\ ledger'.seen \subseteq Prompts
        /\ bills' \in Seq(Bill) /\ Books(ledger', bills')
        /\ bills' = bills \/ bills' = Append(bills, Bills(running[d], d, use))
    BY <1>2, <1>3, <1>4, ChargeIs DEF Inv
  <1>6. Working(running', asked', bills') BY <1>1, <1>3, <1>5, RestWorking
  <1>7. TypeOK' BY <1>1, <1>3, <1>5 DEF Inv, TypeOK
  <1> QED BY <1>1, <1>5, <1>6, <1>7 DEF Inv

\* A queue with one more message.
LEMMA SubmitQueue ==
    ASSUME queue \in Queue, NEW d \in Dests, NEW m \in Members,
           NEW q, q = [queue EXCEPT !.waiting[d][m] = Length[m]]
    PROVE  /\ q \in Queue /\ q.inflight = queue.inflight /\ q.memory = queue.memory
           /\ Waited(q) \subseteq Waited(queue) \cup {d}
  <1> DEFINE w == [queue.waiting[d] EXCEPT ![m] = Length[m]]
             f == [queue.waiting EXCEPT ![d] = w]
  <1>1. w \in Weights BY HooksAssumption DEF Weights, Queue
  <1> HIDE DEF w
  <1>2. f \in [Dests -> Weights] BY <1>1 DEF Queue
  <1>3. q = [queue EXCEPT !.waiting = f] BY DEF Queue, w
  <1>4. \A e \in Dests : e # d => f[e] = queue.waiting[e] BY DEF Queue
  <1> HIDE DEF f
  <1>5. q = [waiting |-> f, inflight |-> queue.inflight, memory |-> queue.memory]
    BY <1>3 DEF Queue
  <1>6. q \in Queue
    <2>1. queue.inflight \in [Dests -> 0..MaxTurns] /\ queue.memory \in Seq(Entry) BY DEF Queue
    <2>2. [waiting |-> f, inflight |-> queue.inflight, memory |-> queue.memory] \in Queue
      BY <1>2, <2>1, Zenon DEF Queue
    <2> QED BY <1>5, <2>2, Zenon
  <1>7. Waited(q) \subseteq Waited(queue) \cup {d} BY <1>4, <1>5 DEF Waited
  <1> QED BY <1>5, <1>6, <1>7

LEMMA InvSubmit ==
    ASSUME Inv, NEW d \in Dests, NEW m \in Members, Submit(d, m)
    PROVE  Inv'
  <1>1. /\ TypeOK /\ LogOK(log, opened) /\ Small(log) /\ queue \in Queue /\ opened \in Nat
        /\ opened \in 0..MaxTurns /\ sent \in [Dests -> 0..MaxTurns]
    BY DEF Inv, TypeOK
  <1>2. PICK q : q = [queue EXCEPT !.waiting[d][m] = Length[m]] OBVIOUS
  <1>3. q \in Queue /\ Waited(q) \subseteq Waited(queue) \cup {d}
    BY <1>1, <1>2, SubmitQueue
  <1>4. Room(q, opened)
    <2>1. opened + Cardinality(Waited(queue) \cup {d}) <= MaxTurns BY DEF Submit
    <2>2. IsFiniteSet(Waited(queue) \cup {d}) BY <1>1, WaitedIs, FS_AddElement
    <2>3. Cardinality(Waited(q)) <= Cardinality(Waited(queue) \cup {d})
          /\ Cardinality(Waited(queue) \cup {d}) \in Nat /\ Cardinality(Waited(q)) \in Nat
      BY <1>3, <2>2, FS_Subset, FS_CardinalityType
    <2> QED BY <1>1, <2>1, <2>3, HooksAssumption DEF Room
  <1>5. Drain(q, log) BY <1>2 DEF Submit
  <1>6. /\ opened' \in 0..MaxTurns /\ opened <= opened' /\ sent' \in [Dests -> 0..MaxTurns]
        /\ queue' \in Queue /\ Room(queue, opened)'
        /\ LogOK(log, opened)' /\ (Small(log) => Small(log'))
    BY <1>1, <1>3, <1>4, <1>5, DrainIs
  <1>7. /\ saved' = saved /\ ledger' = ledger /\ running' = running /\ asked' = asked
        /\ answers' = answers /\ bills' = bills /\ happened' = happened
    BY DEF Submit, hist
  <1>8. LogOK(saved', opened')
    <2>1. LogOK(saved, opened) BY DEF Inv
    <2> QED BY <1>1, <1>6, <1>7, <2>1, LogLater
  <1>9. TypeOK' BY <1>1, <1>6, <1>7 DEF TypeOK, LogOK
  <1>10. Books(ledger', bills') /\ Working(running', asked', bills') /\ Small(saved')
    BY <1>7 DEF Inv
  <1> QED BY <1>1, <1>6, <1>8, <1>9, <1>10 DEF Inv

\* A session that begins on a prompt nobody has had.
LEMMA NextWorking ==
    ASSUME Inv, NEW d \in Dests, asked < MaxPrompts, asked' = asked + 1,
           running' = [running EXCEPT ![d] = asked'], bills' = bills
    PROVE  /\ Working(running', asked', bills')
           /\ asked' \in Prompts /\ asked' \in 0..MaxPrompts
           /\ running' \in [Dests -> 0..MaxPrompts]
  <1>1. /\ running \in [Dests -> 0..MaxPrompts] /\ bills \in Seq(Bill) /\ asked \in 0..MaxPrompts
        /\ Working(running, asked, bills) /\ MaxPrompts \in Nat
    BY HooksAssumption DEF Inv, TypeOK
  <1>2. asked' \in Prompts /\ asked' \in 0..MaxPrompts BY <1>1 DEF Prompts
  <1>3. \A e \in Dests : running'[e] = IF e = d THEN asked + 1 ELSE running[e] BY <1>1
  <1>4. \A e \in Dests : running[e] \in 0..MaxPrompts /\ running[e] <= asked
    BY <1>1 DEF Working
  <1>5. \A i \in 1..Len(bills) : bills[i].prompt \in 0..MaxPrompts /\ bills[i].prompt <= asked
    <2> SUFFICES ASSUME NEW i \in 1..Len(bills)
                 PROVE  bills[i].prompt \in 0..MaxPrompts /\ bills[i].prompt <= asked
      OBVIOUS
    <2>1. bills[i] \in Bill BY <1>1, ElementOfSeq
    <2>2. bills[i].prompt <= asked BY <1>1 DEF Working
    <2> QED BY <2>1, <2>2 DEF Bill
  <1>6. \A e \in Dests : running'[e] <= asked + 1 BY <1>1, <1>3, <1>4
  <1>7. \A e, f \in Dests : running'[e] = running'[f] => e = f \/ running'[e] = 0
    BY <1>1, <1>3, <1>4 DEF Working
  <1>8. \A i \in 1..Len(bills) :
           /\ bills[i].prompt <= asked + 1
           /\ \A e \in Dests : running'[e] = bills[i].prompt => running'[e] = 0
    BY <1>1, <1>3, <1>4, <1>5 DEF Working
  <1>9. running' \in [Dests -> 0..MaxPrompts] BY <1>1, <1>2
  <1> QED BY <1>2, <1>6, <1>7, <1>8, <1>9 DEF Working

LEMMA InvBegin ==
    ASSUME Inv, NEW d \in Dests, Begin(d)
    PROVE  Inv'
  <1>1. /\ Working(running', asked', bills')
        /\ asked' \in Prompts /\ asked' \in 0..MaxPrompts
        /\ running' \in [Dests -> 0..MaxPrompts]
    BY NextWorking DEF Begin, hist
  <1>2. /\ answers' = [answers EXCEPT ![asked'] = sent[d]] /\ sent' = [sent EXCEPT ![d] = 0]
        /\ opened' = opened /\ queue' = queue /\ log' = log /\ saved' = saved
        /\ ledger' = ledger /\ bills' = bills /\ happened' = happened
    BY DEF Begin, hist
  <1>3. sent' \in [Dests -> 0..MaxTurns] /\ answers' \in [Prompts -> 0..MaxTurns]
    BY <1>1, <1>2, NobodyWeights DEF Inv, TypeOK
  <1> QED BY <1>1, <1>2, <1>3 DEF Inv, TypeOK

LEMMA InvOwnPrompt ==
    ASSUME Inv, OwnPrompt
    PROVE  Inv'
  <1>1. Local \in Dests BY DEF Dests
  <1>2. /\ Working(running', asked', bills')
        /\ asked' \in Prompts /\ asked' \in 0..MaxPrompts
        /\ running' \in [Dests -> 0..MaxPrompts]
    BY <1>1, NextWorking DEF OwnPrompt
  <1>3. /\ opened' = opened /\ queue' = queue /\ log' = log /\ saved' = saved /\ sent' = sent
        /\ ledger' = ledger /\ bills' = bills /\ answers' = answers
        /\ happened' \subseteq Upsets
    BY HappensType DEF OwnPrompt, Inv, TypeOK
  <1> QED BY <1>2, <1>3 DEF Inv, TypeOK

LEMMA InvWork ==
    ASSUME Inv, NEW d \in Dests, Tool(d) \/ Reply(d)
    PROVE  Inv'
  <1>1. /\ LogOK(log, opened) /\ opened \in Nat /\ running[d] \in Prompts /\ Small(log)
    BY HooksAssumption DEF Inv, TypeOK, Tool, Reply, Prompts
  <1>2. /\ opened' = opened /\ queue' = queue /\ saved' = saved /\ sent' = sent
        /\ ledger' = ledger /\ bills' = bills /\ answers' = answers
        /\ running' = running /\ asked' = asked /\ happened' = happened
    BY DEF Tool, Reply, sessions, hist
  <1>3. LogOK(log', opened) /\ log'.kept = log.kept
    <2>1. CASE Tool(d)
      <3>1. log' = Activity(log, running[d], d) BY <2>1 DEF Tool
      <3>2. LogOK(log', opened) /\ Touched(log, log', running[d], d)
        BY <1>1, <3>1, ActivityIs
      <3> QED BY <3>2 DEF Touched
    <2>2. CASE Reply(d)
      <3>1. log' = Did(log, running[d], d) BY <2>2 DEF Reply
      <3> QED BY <1>1, <3>1, DidIs
    <2> QED BY <2>1, <2>2
  <1>4. Small(log') BY <1>1, <1>3 DEF Small
  <1> QED BY <1>2, <1>3, <1>4 DEF Inv, TypeOK, LogOK

LEMMA InvSpend ==
    ASSUME Inv, Spend
    PROVE  Inv'
  <1>1. PICK b : b = [prompt |-> 0, dest |-> Local, use |-> 1, who |-> Nobody] OBVIOUS
  <1>2. b \in Bill /\ b.prompt = 0 BY <1>1, NobodyWeights DEF Bill, Dests
  <1>3. /\ ledger' = Record(ledger, 0, 1, Nobody) /\ bills' = Append(bills, b)
        /\ opened' = opened /\ queue' = queue /\ log' = log /\ saved' = saved /\ sent' = sent
        /\ running' = running /\ asked' = asked /\ answers' = answers /\ happened' = happened
    BY <1>1 DEF Spend, sessions
  <1>4. /\ ledger.items \in Seq(0..MaxPrompts) /\ ledger.seen \subseteq Prompts
        /\ bills \in Seq(Bill) /\ Books(ledger, bills) /\ 0 \notin ledger.seen
        /\ Working(running, asked, bills) /\ asked \in Nat
    BY HooksAssumption DEF Inv, TypeOK, Prompts
  <1>5. /\ ledger'.items \in Seq(0..MaxPrompts) /\ ledger'.seen \subseteq Prompts
        /\ Books(ledger', Append(bills, b))
    BY <1>2, <1>3, <1>4, NobodyWeights, RecordIs
  <1>6. bills' \in Seq(Bill) BY <1>2, <1>3, <1>4, AppendProperties
  <1>7. Working(running', asked', bills')
    <2>1. ASSUME NEW i \in 1..Len(bills')
          PROVE  /\ bills'[i].prompt <= asked
                 /\ \A d \in Dests : running[d] = bills'[i].prompt => running[d] = 0
      <3>1. CASE i = Len(bills) + 1 BY <1>2, <1>3, <1>4, <3>1
      <3>2. CASE i # Len(bills) + 1
        <4>1. i \in 1..Len(bills) BY <1>3, <1>4, <3>2
        <4>2. bills'[i] = bills[i] BY <1>3, <1>4, <4>1
        <4> QED BY <1>4, <4>1, <4>2 DEF Working
      <3> QED BY <3>1, <3>2
    <2> QED BY <1>3, <1>4, <2>1 DEF Working
  <1> QED BY <1>3, <1>5, <1>6, <1>7 DEF Inv, TypeOK

LEMMA InvNext == Inv /\ [Next]_vars => Inv'
  <1> SUFFICES ASSUME Inv, [Next]_vars PROVE Inv' OBVIOUS
  <1>1. CASE UNCHANGED vars BY <1>1 DEF vars, sessions, hist, Inv, TypeOK
  <1>2. CASE Spend BY <1>2, InvSpend
  <1>3. CASE OwnPrompt BY <1>3, InvOwnPrompt
  <1>4. CASE Crash BY <1>4, InvCrash
  <1>5. ASSUME NEW d \in Dests, NEW m \in Members, Submit(d, m) PROVE Inv' BY <1>5, InvSubmit
  <1>6. ASSUME NEW d \in Dests, Begin(d) PROVE Inv' BY <1>6, InvBegin
  <1>7. ASSUME NEW d \in Dests, Tool(d) \/ Reply(d) PROVE Inv' BY <1>7, InvWork
  <1>8. ASSUME NEW d \in Dests, Stop(d) PROVE Inv' BY <1>8, InvStop
  <1>9. ASSUME NEW d \in Dests, NEW p \in Prompts, Refire(p, d) PROVE Inv' BY <1>9, InvRefire
  <1>10. ASSUME NEW d \in Dests, Abandon(d) PROVE Inv' BY <1>10, InvAbandon
  <1>11. ASSUME NEW d \in Dests, StopDies(d) PROVE Inv' BY <1>11, InvStopDies
  <1> QED BY <1>1, <1>2, <1>3, <1>4, <1>5, <1>6, <1>7, <1>8, <1>9, <1>10, <1>11 DEF Next

\* The invariant that everything else rests on.
THEOREM Invariant == Spec => []Inv
  BY InvInit, InvNext, PTL DEF Spec

\* Every variable keeps its type.
THEOREM TypeCorrect == Spec => []TypeOK
  <1>1. Inv => TypeOK BY DEF Inv
  <1> QED BY <1>1, Invariant, PTL

\* No prompt is charged twice, whatever hooks are repeated and wherever the room
\* dies (src/src/ledger.mjs:90).
THEOREM ChargedOnceAlways == Spec => []ChargedOnce
  <1>1. Inv => ChargedOnce
    <2> SUFFICES ASSUME Inv PROVE ChargedOnce OBVIOUS
    <2>1. DOMAIN bills = 1..Len(bills) BY DEF Inv, TypeOK
    <2> QED BY <2>1 DEF Inv, Books, ChargedOnce
  <1> QED BY <1>1, Invariant, PTL

\* A log that is restarted on has its indexes in order, as the running one does.
THEOREM SavedSound == Spec => [](Linked(saved) /\ Small(saved))
  <1>1. Inv => Linked(saved) /\ Small(saved) BY DEF Inv, LogOK
  <1> QED BY <1>1, Invariant, PTL

-----------------------------------------------------------------------------
(* While nothing goes wrong: turns, prompts and who pays for them. *)

\* Work on a prompt is put down to the turn it answers.
LEMMA AnsweredTouched ==
    ASSUME NEW n \in Nat, n <= MaxTurns, NEW q, NEW l, LogOK(l, n), NEW s, NEW k,
           NEW r \in [Dests -> 0..MaxPrompts], NEW an,
           NEW d \in Dests, r[d] # 0, Answered(q, l, n, s, r, an, k),
           NEW b, Touched(l, b, r[d], d)
    PROVE  /\ Alone(l, r[d], d)
           /\ Right(b, n, an) /\ SameTurns(l, b)
  <1>1. an[r[d]] = l.open[d] BY DEF Answered
  <1>2. Alone(l, r[d], d)
    <2> SUFFICES ASSUME NEW t \in l.kept, l.turn[t].prompt = r[d] PROVE t = l.open[d]
      BY DEF Alone
    <2>1. t \in 1..n BY DEF LogOK
    <2> QED BY <1>1, <2>1 DEF Answered, Right
  <1>3. ASSUME NEW t \in 1..n
        PROVE  /\ \A p \in b.turn[t].did : an[p] = t
               /\ b.turn[t].prompt # 0 => an[b.turn[t].prompt] = t
    <2>1. t \in Turns BY HooksAssumption DEF Turns
    <2>2. /\ \A p \in l.turn[t].did : an[p] = t
          /\ l.turn[t].prompt # 0 => an[l.turn[t].prompt] = t
      BY DEF Answered, Right
    <2>3. CASE t = l.open[d] BY <1>1, <2>1, <2>2, <2>3 DEF Touched
    <2>4. CASE t # l.open[d] BY <2>1, <2>2, <2>4 DEF Touched
    <2> QED BY <2>3, <2>4
  <1> QED BY <1>2, <1>3 DEF Touched, Right, SameTurns

LEMMA AnsweredWork ==
    ASSUME Inv, Answered(queue, log, opened, sent, running, answers, asked),
           NEW d \in Dests, Tool(d) \/ Reply(d)
    PROVE  /\ Answered(queue, log', opened, sent, running, answers, asked)
           /\ SameTurns(log, log')
  <1>1. /\ LogOK(log, opened) /\ opened \in Nat /\ opened <= MaxTurns
        /\ running \in [Dests -> 0..MaxPrompts]
        /\ running[d] # 0 /\ running[d] \in Prompts
    BY HooksAssumption DEF Inv, TypeOK, Tool, Reply, Prompts
  <1>2. /\ log'.open = log.open /\ Touched(log, log', running[d], d)
        /\ Found(log) /\ Alone(log, running[d], d) => Found(log')
    <2>1. CASE Tool(d)
      <3>1. log' = Activity(log, running[d], d) BY <2>1 DEF Tool
      <3> QED BY <1>1, <3>1, ActivityIs
    <2>2. CASE Reply(d)
      <3>1. log' = Did(log, running[d], d) BY <2>2 DEF Reply
      <3>2. /\ log'.open = log.open /\ log'.kept = log.kept
            /\ Noted(log, log', running[d], d) /\ (Found(log) => Found(log'))
        BY <1>1, <3>1, DidIs
      <3>3. Touched(log, log', running[d], d) BY <3>2 DEF Touched, Noted
      <3> QED BY <3>2, <3>3
    <2> QED BY <2>1, <2>2
  <1>3. /\ Alone(log, running[d], d)
        /\ Right(log', opened, answers) /\ SameTurns(log, log')
    BY <1>1, <1>2, AnsweredTouched
  <1>4. Found(log') BY <1>2, <1>3 DEF Answered
  <1>5. \A e \in Dests : log'.open[e] # 0 => log'.turn[log'.open[e]].dest = e
    <2> SUFFICES ASSUME NEW e \in Dests, log.open[e] # 0
                 PROVE  log'.turn[log.open[e]].dest = e
      BY <1>2
    <2>1. log.open[e] \in Turns BY <1>1, HooksAssumption DEF LogOK, Log, Turns
    <2> QED BY <1>3, <2>1 DEF Answered, SameTurns
  <1> QED BY <1>2, <1>3, <1>4, <1>5 DEF Answered

\* A prompt ends its turn.
LEMMA AnsweredClose ==
    ASSUME Inv, Answered(queue, log, opened, sent, running, answers, asked),
           NEW d \in Dests, running[d] # 0,
           NEW q, q = EndTurn(queue, running[d], d), NEW l, l = Close(log, running[d], d),
           NEW r, r = [running EXCEPT ![d] = 0]
    PROVE  /\ Answered(q, l, opened, sent, r, answers, asked)
           /\ SameTurns(log, l)
  <1>1. /\ LogOK(log, opened) /\ opened \in Nat /\ opened <= MaxTurns
        /\ running \in [Dests -> 0..MaxPrompts] /\ queue \in Queue /\ log \in Log
        /\ running[d] \in Prompts /\ running[d] \in 0..MaxPrompts
    BY HooksAssumption DEF Inv, TypeOK, Prompts
  <1>2. /\ Sets(l.open, log.open, d, 0) /\ Touched(log, l, running[d], d)
        /\ Found(log) /\ Alone(log, running[d], d) => Found(l)
    BY <1>1, CloseIs
  <1>3. /\ Alone(log, running[d], d)
        /\ Right(l, opened, answers) /\ SameTurns(log, l)
    BY <1>1, <1>2, AnsweredTouched
  <1>4. Found(l) BY <1>2, <1>3 DEF Answered
  <1>5. Sets(q.inflight, queue.inflight, d, 0) BY <1>1, EndTurnIs
  <1>6. ASSUME NEW e \in Dests
        PROVE  /\ l.open[e] = q.inflight[e]
               /\ l.open[e] # 0 => l.turn[l.open[e]].dest = e
               /\ sent[e] # 0 => sent[e] = l.open[e] /\ r[e] = 0
               /\ r[e] # 0 => l.open[e] # 0 /\ answers[r[e]] = l.open[e]
    <2>1. CASE e = d
      <3>1. l.open[e] = 0 /\ q.inflight[e] = 0 BY <1>2, <1>5, <2>1 DEF Sets
      <3>2. r[e] = 0 BY <1>1, <2>1
      <3>3. sent[e] = 0 BY <2>1 DEF Answered
      <3> QED BY <3>1, <3>2, <3>3
    <2>2. CASE e # d
      <3>1. l.open[e] = log.open[e] /\ q.inflight[e] = queue.inflight[e]
        BY <1>2, <1>5, <2>2 DEF Sets
      <3>2. r[e] = running[e] BY <1>1, <2>2
      <3>3. log.open[e] # 0 => log.open[e] \in Turns
        BY <1>1, HooksAssumption DEF Log, Turns
      <3> QED BY <1>3, <3>1, <3>2, <3>3 DEF Answered, SameTurns
    <2> QED BY <2>1, <2>2
  <1> QED BY <1>3, <1>4, <1>6 DEF Answered

\* The turns of l up to n are b's.
Extends(l, b, n) == \A t \in 1..n : b.turn[t] = l.turn[t]

LEMMA AnsweredDrain ==
    ASSUME opened \in 0..MaxTurns, sent \in [Dests -> 0..MaxTurns],
           NEW q \in Queue, NEW l, LogOK(l, opened), Room(q, opened),
           NEW r \in [Dests -> 0..MaxPrompts],
           Answered(q, l, opened, sent, r, answers, asked), Drain(q, l)
    PROVE  /\ Answered(queue', log', opened', sent', r, answers, asked)
           /\ Extends(l, log', opened)
  <1>1. CASE queue' = q /\ log' = l /\ UNCHANGED <<opened, sent>>
    BY <1>1 DEF Extends
  <1>2. ASSUME NEW d \in Ready(q),
               opened' = opened + 1, queue' = BeginTurn(q, opened', d),
               log' = Open(l, opened', d, q.waiting[d]),
               sent' = [sent EXCEPT ![d] = opened']
        PROVE  /\ Answered(queue', log', opened', sent', r, answers, asked)
               /\ Extends(l, log', opened)
    <2>1. d \in Dests /\ q.waiting[d] \in Weights /\ q.inflight[d] = 0
      BY DEF Ready, Waited, Queue
    <2>2. opened + 1 \in Turns /\ opened \in Nat /\ opened + 1 \in 0..MaxTurns /\ opened + 1 # 0
      BY ReadyRoom
    <2>3. queue' = BeginTurn(q, opened + 1, d) /\ log' = Open(l, opened + 1, d, q.waiting[d])
          /\ sent' = [sent EXCEPT ![d] = opened + 1]
      BY <1>2
    <2>4. Sets(queue'.inflight, q.inflight, d, opened + 1) BY <2>1, <2>2, <2>3, BeginTurnIs
    <2>5. /\ \A t \in Turns : log'.turn[t] = IF t = opened + 1 THEN Fresh(d, q.waiting[d])
                                             ELSE l.turn[t]
          /\ Sets(log'.open, l.open, d, opened + 1)
          /\ Found(l) => Found(log')
      BY <2>1, <2>2, <2>3, OpenIs
    <2>6. l.open[d] = 0 /\ r[d] = 0 /\ sent[d] = 0 /\ Found(l) /\ Right(l, opened, answers)
      BY <2>1 DEF Answered
    <2>7. Extends(l, log', opened)
      <3> SUFFICES ASSUME NEW t \in 1..opened PROVE log'.turn[t] = l.turn[t] BY DEF Extends
      <3>2. t \in Nat /\ t >= 1 /\ t <= opened BY <2>2
      <3>3. opened + 1 <= MaxTurns /\ MaxTurns \in Nat BY <2>2, HooksAssumption DEF Turns
      <3>1. t \in Turns /\ t # opened + 1 BY <2>2, <3>2, <3>3 DEF Turns
      <3> QED BY <2>5, <3>1
    <2>8. Right(log', opened + 1, answers)
      <3> SUFFICES ASSUME NEW t \in 1..(opened + 1)
                   PROVE  /\ \A p \in log'.turn[t].did : answers[p] = t
                          /\ log'.turn[t].prompt # 0 => answers[log'.turn[t].prompt] = t
        BY DEF Right
      <3>1. CASE t = opened + 1
        <4>1. log'.turn[t] = Fresh(d, q.waiting[d]) BY <2>2, <2>5, <3>1
        <4> QED BY <2>1, <4>1, FreshIs
      <3>2. CASE t # opened + 1
        <4>1. t \in 1..opened BY <2>2, <3>2
        <4> QED BY <2>6, <2>7, <4>1 DEF Extends, Right
      <3> QED BY <3>1, <3>2
    <2>9. ASSUME NEW e \in Dests
          PROVE  /\ log'.open[e] = queue'.inflight[e]
                 /\ log'.open[e] # 0 => log'.turn[log'.open[e]].dest = e
                 /\ sent'[e] # 0 => sent'[e] = log'.open[e] /\ r[e] = 0
                 /\ r[e] # 0 => log'.open[e] # 0 /\ answers[r[e]] = log'.open[e]
      <3>1. CASE e = d
        <4>1. log'.open[e] = opened + 1 /\ queue'.inflight[e] = opened + 1
              /\ sent'[e] = opened + 1
          BY <2>3, <2>4, <2>5, <3>1 DEF Sets
        <4>2. log'.turn[opened + 1].dest = d BY <2>1, <2>2, <2>5, FreshIs
        <4> QED BY <2>6, <3>1, <4>1, <4>2
      <3>2. CASE e # d
        <4>1. log'.open[e] = l.open[e] /\ queue'.inflight[e] = q.inflight[e] /\ sent'[e] = sent[e]
          BY <2>3, <2>4, <2>5, <3>2 DEF Sets
        <4>2. l.open[e] # 0 => l.open[e] \in 1..opened
          BY DEF LogOK, Linked, OpenTurns
        <4>3. l.open[e] # 0 => log'.turn[l.open[e]].dest = e
          BY <2>7, <4>2 DEF Extends, Answered
        <4> QED BY <4>1, <4>3 DEF Answered
      <3> QED BY <3>1, <3>2
    <2> QED BY <1>2, <2>5, <2>6, <2>7, <2>8, <2>9 DEF Answered
  <1> QED BY <1>1, <1>2 DEF Drain

LEMMA AnsweredBegin ==
    ASSUME Inv, Answered(queue, log, opened, sent, running, answers, asked),
           NEW d \in Dests, Begin(d)
    PROVE  /\ Answered(queue, log, opened, sent', running', answers', asked')
           /\ \A p \in Prompts : answers[p] # 0 => answers'[p] = answers[p]
  <1>1. /\ asked' = asked + 1 /\ running' = [running EXCEPT ![d] = asked + 1]
        /\ answers' = [answers EXCEPT ![asked + 1] = sent[d]] /\ sent' = [sent EXCEPT ![d] = 0]
        /\ sent[d] # 0 /\ running[d] = 0 /\ asked < MaxPrompts
    BY DEF Begin
  <1>2. /\ running \in [Dests -> 0..MaxPrompts] /\ sent \in [Dests -> 0..MaxTurns]
        /\ answers \in [Prompts -> 0..MaxTurns] /\ asked \in Nat /\ asked + 1 \in Prompts
        /\ log \in Log /\ LogOK(log, opened) /\ opened \in Nat /\ opened <= MaxTurns
        /\ Working(running, asked, bills)
    BY <1>1, HooksAssumption DEF Inv, TypeOK, Prompts
  <1>3. answers[asked + 1] = 0 BY <1>2 DEF Answered
  <1>4. \A p \in Prompts : answers[p] # 0 => answers'[p] = answers[p] BY <1>1, <1>2, <1>3
  <1>5. Right(log, opened, answers')
    <2> SUFFICES ASSUME NEW t \in 1..opened
                 PROVE  /\ \A p \in log.turn[t].did : answers'[p] = t
                        /\ log.turn[t].prompt # 0 => answers'[log.turn[t].prompt] = t
      BY DEF Right
    <2>1. t \in Turns /\ log.turn[t] \in Turn BY <1>2, HooksAssumption DEF Turns, Log
    <2>2. log.turn[t].did \subseteq Prompts
          /\ (log.turn[t].prompt # 0 => log.turn[t].prompt \in Prompts)
      BY <2>1, HooksAssumption DEF Turn, Prompts
    <2>3. /\ \A p \in log.turn[t].did : answers[p] = t
          /\ log.turn[t].prompt # 0 => answers[log.turn[t].prompt] = t
      BY DEF Answered, Right
    <2> QED BY <1>4, <2>2, <2>3
  <1>6. ASSUME NEW e \in Dests
        PROVE  /\ sent'[e] # 0 => sent'[e] = log.open[e] /\ running'[e] = 0
               /\ running'[e] # 0 => log.open[e] # 0 /\ answers'[running'[e]] = log.open[e]
    <2>1. CASE e = d
      <3>1. sent'[e] = 0 /\ running'[e] = asked + 1 BY <1>1, <1>2, <2>1
      <3>2. answers'[asked + 1] = sent[d] BY <1>1, <1>2
      <3>3. sent[d] = log.open[d] BY <1>1 DEF Answered
      <3> QED BY <1>1, <2>1, <3>1, <3>2, <3>3
    <2>2. CASE e # d
      <3>1. sent'[e] = sent[e] /\ running'[e] = running[e] BY <1>1, <1>2, <2>2
      <3>2. running[e] # 0 => running[e] \in Prompts BY <1>2, HooksAssumption DEF Prompts
      <3>3. /\ sent[e] # 0 => sent[e] = log.open[e] /\ running[e] = 0
            /\ running[e] # 0 => log.open[e] # 0 /\ answers[running[e]] = log.open[e]
        BY DEF Answered
      <3> QED BY <1>4, <3>1, <3>2, <3>3
    <2> QED BY <2>1, <2>2
  <1>7. \A p \in Prompts : p > asked + 1 => answers'[p] = 0
    <2> SUFFICES ASSUME NEW p \in Prompts, p > asked + 1 PROVE answers'[p] = 0 OBVIOUS
    <2>1. p \in Nat /\ p > asked /\ p # asked + 1 BY <1>2 DEF Prompts
    <2>2. answers'[p] = answers[p] BY <1>1, <1>2, <2>1
    <2> QED BY <2>1, <2>2 DEF Answered
  <1> QED BY <1>1, <1>4, <1>5, <1>6, <1>7 DEF Answered

\* The prompt memory after a prompt ended its turn.
LEMMA RememberedClose ==
    ASSUME Inv, Remembered(queue, log, running, asked),
           NEW d \in Dests, running[d] # 0,
           NEW q, q = EndTurn(queue, running[d], d), NEW l, SameTurns(log, l),
           NEW r, r = [running EXCEPT ![d] = 0]
    PROVE  Remembered(q, l, r, asked)
  <1> DEFINE p == running[d]
             mem == queue.memory
  <1>1. /\ running \in [Dests -> 0..MaxPrompts] /\ queue \in Queue /\ log \in Log
        /\ p \in Prompts /\ p \in 0..MaxPrompts /\ p # Inflight
        /\ Working(running, asked, bills) /\ mem \in Seq(Entry)
        /\ Local \in Dests
    BY HooksAssumption DEF Inv, TypeOK, Prompts, Inflight, Queue, Dests
  <1>2. \A e \in Dests : r[e] = IF e = d THEN 0 ELSE running[e] BY <1>1
  <1>3. /\ Sets(q.inflight, queue.inflight, d, 0)
        /\ q.memory = IF p = 0 \/ queue.inflight[d] = 0 THEN mem
                      ELSE Trim(Put(mem, p, log.turn[queue.inflight[d]].who))
        /\ p # 0 /\ queue.inflight[d] # 0 => log.turn[queue.inflight[d]].who \in Weights
    BY <1>1, EndTurnIs
  <1>4. /\ \A e \in Entries(q.memory) : e.key = p \/ e \in Entries(mem)
        /\ \A e \in Entries(mem) : e.key = Inflight => e \in Entries(q.memory)
    <2>1. CASE queue.inflight[d] = 0 BY <1>3, <2>1
    <2>2. CASE queue.inflight[d] # 0
      <3>1. PICK w \in Weights : w = log.turn[queue.inflight[d]].who BY <1>3, <2>2
      <3>2. PICK m : m = Put(mem, p, w) OBVIOUS
      <3>3. /\ m \in Seq(Entry)
            /\ \A e \in Entries(m) : \/ e = [key |-> p, who |-> w]
                                     \/ e \in Entries(mem) /\ e.key # p
            /\ \A e \in Entries(mem) : e.key # p => e \in Entries(m)
        BY <1>1, <3>2, PutIs
      <3>4. q.memory = Trim(m) BY <1>3, <2>2, <3>1, <3>2
      <3>5. /\ Entries(q.memory) \subseteq Entries(m)
            /\ \A e \in Entries(m) : e.key = Inflight => e \in Entries(q.memory)
        BY <3>3, <3>4, TrimIs
      <3> QED BY <1>1, <3>3, <3>5
    <2> QED BY <2>1, <2>2
  <1>5. ASSUME NEW e \in Entries(q.memory), e.key = Inflight, q.inflight[Local] # 0
        PROVE  e.who = l.turn[q.inflight[Local]].who
    <2>1. e \in Entries(mem) BY <1>1, <1>4, <1>5
    <2>2. q.inflight[Local] = queue.inflight[Local] BY <1>1, <1>3, <1>5 DEF Sets
    <2>3. q.inflight[Local] \in Turns
      BY <1>1, <1>5, <2>2, HooksAssumption DEF Queue, Turns
    <2> QED BY <1>5, <2>1, <2>2, <2>3 DEF Remembered, SameTurns
  <1>6. ASSUME NEW e \in Entries(q.memory), e.key # Inflight
        PROVE  e.key <= asked /\ \A f \in Dests : r[f] # e.key
    <2>1. CASE e.key = p BY <1>1, <1>2, <2>1 DEF Working
    <2>2. CASE e \in Entries(mem) BY <1>2, <1>6, <2>2 DEF Remembered, Inflight
    <2> QED BY <1>4, <2>1, <2>2
  <1>7. ASSUME q.inflight[Local] # 0
        PROVE  \E e \in Entries(q.memory) : e.key = Inflight
    <2>1. queue.inflight[Local] # 0 BY <1>1, <1>3, <1>7 DEF Sets
    <2> QED BY <1>4, <2>1 DEF Remembered
  <1> QED BY <1>5, <1>6, <1>7 DEF Remembered

LEMMA RememberedDrain ==
    ASSUME opened \in 0..MaxTurns, NEW q \in Queue, NEW l, LogOK(l, opened), Room(q, opened),
           NEW r, \A e \in Dests : r[e] \in 0..MaxPrompts,
           NEW s, NEW an, Answered(q, l, opened, s, r, an, asked),
           Remembered(q, l, r, asked), Drain(q, l)
    PROVE  Remembered(queue', log', r, asked)
  <1>1. CASE queue' = q /\ log' = l /\ UNCHANGED <<opened, sent>> BY <1>1
  <1>2. ASSUME NEW d \in Ready(q),
               opened' = opened + 1, queue' = BeginTurn(q, opened', d),
               log' = Open(l, opened', d, q.waiting[d])
        PROVE  Remembered(queue', log', r, asked)
    <2>1. d \in Dests /\ q.waiting[d] \in Weights /\ Local \in Dests
      BY DEF Ready, Waited, Queue, Dests
    <2>2. opened + 1 \in Turns /\ opened \in Nat /\ opened + 1 \in 0..MaxTurns
      BY ReadyRoom
    <2>3. queue' = BeginTurn(q, opened + 1, d) /\ log' = Open(l, opened + 1, d, q.waiting[d])
      BY <1>2
    <2>4. /\ Sets(queue'.inflight, q.inflight, d, opened + 1)
          /\ queue'.memory = IF d = Local THEN Put(q.memory, Inflight, q.waiting[d]) ELSE q.memory
      BY <2>1, <2>2, <2>3, BeginTurnIs
    <2>5. \A t \in Turns : log'.turn[t] = IF t = opened + 1 THEN Fresh(d, q.waiting[d])
                                          ELSE l.turn[t]
      BY <2>1, <2>2, <2>3, OpenIs
    <2>6. CASE d = Local
      <3>1. PICK w \in Weights : w = q.waiting[d] BY <2>1
      <3>2. queue'.memory = Put(q.memory, Inflight, w) BY <2>4, <2>6, <3>1
      <3>3. q.memory \in Seq(Entry) /\ Inflight \in 0..MaxPrompts
        BY NobodyWeights DEF Queue, Inflight
      <3>4. /\ \A e \in Entries(queue'.memory) : \/ e = [key |-> Inflight, who |-> w]
                                                 \/ e \in Entries(q.memory) /\ e.key # Inflight
            /\ \E e \in Entries(queue'.memory) : e.key = Inflight
        BY <3>2, <3>3, PutIs
      <3>5. queue'.inflight[Local] = opened + 1 BY <2>1, <2>4, <2>6 DEF Sets
      <3>6. log'.turn[opened + 1].who = w BY <2>1, <2>2, <2>5, <3>1, FreshIs
      <3> QED BY <3>4, <3>5, <3>6 DEF Remembered
    <2>7. CASE d # Local
      <3>1. queue'.memory = q.memory /\ queue'.inflight[Local] = q.inflight[Local]
        BY <2>1, <2>4, <2>7 DEF Sets
      <3>2. q.inflight[Local] # 0 => log'.turn[q.inflight[Local]] = l.turn[q.inflight[Local]]
        <4> SUFFICES ASSUME q.inflight[Local] # 0
                     PROVE  log'.turn[q.inflight[Local]] = l.turn[q.inflight[Local]]
          OBVIOUS
        <4>1. q.inflight[Local] = l.open[Local] BY <2>1 DEF Answered
        <4>2. q.inflight[Local] \in 1..opened
          BY <2>1, <4>1 DEF LogOK, Linked, OpenTurns
        <4>3. q.inflight[Local] \in Turns /\ q.inflight[Local] # opened + 1
          BY <2>2, <4>2, HooksAssumption DEF Turns
        <4> QED BY <2>5, <4>3
      <3> QED BY <3>1, <3>2 DEF Remembered
    <2> QED BY <2>6, <2>7
  <1> QED BY <1>1, <1>2 DEF Drain

\* A session that begins on a prompt is not one the memory has an entry for.
LEMMA RememberedBegin ==
    ASSUME Inv, Remembered(queue, log, running, asked), NEW d \in Dests,
           asked' = asked + 1, running' = [running EXCEPT ![d] = asked + 1]
    PROVE  Remembered(queue, log, running', asked')
  <1>1. /\ running \in [Dests -> 0..MaxPrompts] /\ asked \in Nat
        /\ queue.memory \in Seq(Entry)
    BY HooksAssumption DEF Inv, TypeOK, Queue
  <1>2. \A f \in Dests : running'[f] = IF f = d THEN asked + 1 ELSE running[f] BY <1>1
  <1>3. ASSUME NEW e \in Entries(queue.memory), e.key # Inflight
        PROVE  e.key <= asked' /\ \A f \in Dests : running'[f] # e.key
    <2>1. e.key <= asked /\ \A f \in Dests : running[f] # e.key BY <1>3 DEF Remembered
    <2>2. e.key \in Nat
      <3>1. e \in Entry BY <1>1 DEF Entries
      <3> QED BY <3>1 DEF Entry
    <2>3. e.key <= asked + 1 /\ e.key # asked + 1 BY <1>1, <2>1, <2>2
    <2> QED BY <1>2, <2>1, <2>3
  <1> QED BY <1>3 DEF Remembered

\* Who is charged for a prompt are those who composed the turn it answers.
LEMMA PayersAre ==
    ASSUME Inv, Answered(queue, log, opened, sent, running, answers, asked),
           Remembered(queue, log, running, asked), NEW d \in Dests, running[d] # 0
    PROVE  /\ answers[running[d]] \in 1..opened
           /\ Payers(running[d], d) = Composers(running[d])
  <1> DEFINE p == running[d]
             t == answers[p]
  <1>1. t = log.open[d] /\ t # 0 /\ t = queue.inflight[d] /\ log.turn[t].dest = d
    BY DEF Answered
  <1>2. t \in 1..opened BY <1>1 DEF Inv, LogOK, Linked, OpenTurns
  <1>3. CASE d \in Seats
    <2>1. d # Local BY <1>3, HooksAssumption
    <2> QED BY <1>1, <1>2, <1>3, <2>1 DEF Payers, Composers
  <1>4. CASE d \notin Seats
    <2>1. d = Local BY <1>4 DEF Dests
    <2>2. p # Inflight BY DEF Inflight
    <2> DEFINE known(key) == {i \in DOMAIN queue.memory : queue.memory[i].key = key}
    <2>3. known(p) = {}
      <3> SUFFICES ASSUME NEW i \in DOMAIN queue.memory, queue.memory[i].key = p PROVE FALSE
        OBVIOUS
      <3>1. queue.memory[i] \in Entries(queue.memory) BY DEF Entries
      <3> QED BY <2>2, <3>1 DEF Remembered
    <2>4. known(Inflight) # {}
      <3>1. PICK e \in Entries(queue.memory) : e.key = Inflight BY <1>1, <2>1 DEF Remembered
      <3> QED BY <3>1 DEF Entries
    <2>5. PICK c : c = CHOOSE i \in known(Inflight) : TRUE OBVIOUS
    <2>6. c \in known(Inflight) BY <2>4, <2>5
    <2>7. queue.memory[c].who = log.turn[t].who
      <3>1. queue.memory[c] \in Entries(queue.memory) /\ queue.memory[c].key = Inflight
        BY <2>6 DEF Entries
      <3> QED BY <1>1, <2>1, <3>1 DEF Remembered
    <2>8. Payers(p, d) = queue.memory[c].who BY <1>4, <2>3, <2>4, <2>5 DEF Payers
    <2> QED BY <1>1, <1>2, <2>1, <2>7, <2>8 DEF Composers
  <1> QED BY <1>3, <1>4

\* What was paid stays right for a log whose first turns are the same turns.
LEMMA PaidKept ==
    ASSUME NEW n \in Nat, n <= MaxTurns, NEW m \in Nat, n <= m, NEW an, NEW bs,
           NEW l, NEW k, NEW b, SameTurns(l, k), Extends(k, b, n), Paid(l, n, an, bs)
    PROVE  Paid(b, m, an, bs)
  <1> SUFFICES ASSUME NEW i \in 1..Len(bs), bs[i].prompt # 0
               PROVE  /\ an[bs[i].prompt] \in 1..m
                      /\ bs[i].who = IF b.turn[an[bs[i].prompt]].dest = Local
                                     THEN b.turn[an[bs[i].prompt]].who
                                     ELSE [Nobody EXCEPT ![Owner[b.turn[an[bs[i].prompt]].dest]] = 1]
    BY DEF Paid
  <1>1. PICK t : t = an[bs[i].prompt] OBVIOUS
  <1>2. /\ t \in 1..n
        /\ bs[i].who = IF l.turn[t].dest = Local THEN l.turn[t].who
                       ELSE [Nobody EXCEPT ![Owner[l.turn[t].dest]] = 1]
    BY <1>1 DEF Paid
  <1>3. t \in 1..m /\ t \in Turns BY <1>2, HooksAssumption DEF Turns
  <1>4. b.turn[t].dest = l.turn[t].dest /\ b.turn[t].who = l.turn[t].who
    <2>1. b.turn[t] = k.turn[t] BY <1>2 DEF Extends
    <2> QED BY <1>3, <2>1 DEF SameTurns
  <1> QED BY <1>1, <1>2, <1>3, <1>4

\* One more bill, for nobody's prompt or for those who composed the turn it answers.
LEMMA PaidMore ==
    ASSUME bills \in Seq(Bill), Paid(log, opened, answers, bills), NEW bill,
           bill.prompt # 0 => /\ answers[bill.prompt] \in 1..opened
                              /\ bill.who = Composers(bill.prompt)
    PROVE  Paid(log, opened, answers, Append(bills, bill))
  <1>1. PICK bs : bs = Append(bills, bill) OBVIOUS
  <1>2. /\ Len(bs) = Len(bills) + 1 /\ bs[Len(bills) + 1] = bill /\ Len(bills) \in Nat
        /\ \A i \in 1..Len(bills) : bs[i] = bills[i]
    BY <1>1
  <1>3. ASSUME NEW i \in 1..Len(bs), bs[i].prompt # 0
        PROVE  /\ answers[bs[i].prompt] \in 1..opened
               /\ bs[i].who = Composers(bs[i].prompt)
    <2>1. CASE i = Len(bills) + 1 BY <1>2, <1>3, <2>1
    <2>2. CASE i # Len(bills) + 1
      <3>1. i \in 1..Len(bills) BY <1>2, <2>2
      <3> QED BY <1>2, <1>3, <3>1 DEF Paid, Composers
    <2> QED BY <2>1, <2>2
  <1>4. Paid(log, opened, answers, bs) BY <1>3 DEF Paid, Composers
  <1> QED BY <1>1, <1>4

\* What was paid stays right when later prompts get their turns.
LEMMA PaidLater ==
    ASSUME Inv, Paid(log, opened, answers, bills),
           \A p \in Prompts : answers[p] # 0 => answers'[p] = answers[p]
    PROVE  Paid(log, opened, answers', bills)
  <1>1. ASSUME NEW i \in 1..Len(bills), bills[i].prompt # 0
        PROVE  answers'[bills[i].prompt] = answers[bills[i].prompt]
    <2>1. bills \in Seq(Bill) BY DEF Inv, TypeOK
    <2>2. bills[i] \in Bill BY <2>1, ElementOfSeq
    <2>3. bills[i].prompt \in Prompts BY <1>1, <2>2, HooksAssumption DEF Bill, Prompts
    <2>4. answers[bills[i].prompt] # 0
      <3>1. answers[bills[i].prompt] \in 1..opened BY <1>1 DEF Paid
      <3>2. opened \in Nat BY DEF Inv, TypeOK
      <3> QED BY <3>1, <3>2
    <2> QED BY <2>3, <2>4
  <1> QED BY <1>1 DEF Paid

LEMMA NominalInit == Init => Nominal
  <1> SUFFICES ASSUME Init PROVE Nominal OBVIOUS
  <1>1. \A d \in Dests : log.open[d] = 0 /\ queue.inflight[d] = 0 /\ sent[d] = 0 /\ running[d] = 0
    BY DEF Init, NoLog, NoQueue
  <1>2. opened = 0 /\ log.kept = {} /\ \A p \in Prompts : answers[p] = 0
    BY DEF Init, NoLog
  <1>3. Right(log, opened, answers) /\ Found(log) BY <1>2 DEF Right, Found
  <1>4. Answered(queue, log, opened, sent, running, answers, asked)
    BY <1>1, <1>2, <1>3 DEF Answered
  <1>5. Entries(queue.memory) = {} BY DEF Init, NoQueue, Entries
  <1>6. Remembered(queue, log, running, asked)
    <2>1. Local \in Dests BY DEF Dests
    <2> QED BY <1>1, <1>5, <2>1 DEF Remembered
  <1>7. Len(bills) = 0 BY DEF Init
  <1>8. Paid(log, opened, answers, bills) BY <1>7 DEF Paid
  <1> QED BY <1>4, <1>6, <1>8 DEF Nominal

\* Whoever composes a turn, and whenever it is delivered.
LEMMA NominalSubmit ==
    ASSUME Inv, Nominal, NEW d \in Dests, NEW m \in Members, Submit(d, m)
    PROVE  Nominal'
  <1> SUFFICES ASSUME happened' = {} PROVE Nominal' BY DEF Nominal
  <1>1. /\ running' = running /\ asked' = asked /\ answers' = answers
        /\ bills' = bills /\ happened = {}
    BY DEF Submit, hist
  <1>2. /\ Answered(queue, log, opened, sent, running, answers, asked)
        /\ Remembered(queue, log, running, asked)
        /\ Paid(log, opened, answers, bills)
    BY <1>1 DEF Nominal
  <1>3. PICK q : q = [queue EXCEPT !.waiting[d][m] = Length[m]] OBVIOUS
  <1>4. /\ TypeOK /\ LogOK(log, opened) /\ queue \in Queue
        /\ opened \in 0..MaxTurns /\ sent \in [Dests -> 0..MaxTurns]
        /\ running \in [Dests -> 0..MaxPrompts]
    BY DEF Inv, TypeOK
  <1>5. /\ q \in Queue /\ q.inflight = queue.inflight /\ q.memory = queue.memory
        /\ Waited(q) \subseteq Waited(queue) \cup {d}
    BY <1>3, <1>4, SubmitQueue
  <1>6. Room(q, opened)
    <2>1. opened + Cardinality(Waited(queue) \cup {d}) <= MaxTurns BY DEF Submit
    <2>2. IsFiniteSet(Waited(queue) \cup {d}) BY <1>4, WaitedIs, FS_AddElement
    <2>3. Cardinality(Waited(q)) <= Cardinality(Waited(queue) \cup {d})
          /\ Cardinality(Waited(queue) \cup {d}) \in Nat /\ Cardinality(Waited(q)) \in Nat
      BY <1>5, <2>2, FS_Subset, FS_CardinalityType
    <2> QED BY <1>4, <2>1, <2>3, HooksAssumption DEF Room
  <1>7. Drain(q, log) BY <1>3 DEF Submit
  <1>8. Answered(q, log, opened, sent, running, answers, asked) BY <1>2, <1>5 DEF Answered
  <1>9. Remembered(q, log, running, asked) BY <1>2, <1>5 DEF Remembered
  <1>10. /\ Answered(queue', log', opened', sent', running, answers, asked)
         /\ Extends(log, log', opened)
    BY <1>4, <1>5, <1>6, <1>7, <1>8, AnsweredDrain
  <1>11. Remembered(queue', log', running, asked)
    BY <1>4, <1>5, <1>6, <1>7, <1>8, <1>9, RememberedDrain
  <1>12. opened' \in 0..MaxTurns /\ opened <= opened' BY <1>4, <1>5, <1>6, <1>7, DrainIs
  <1>13. Paid(log', opened', answers, bills)
    <2>1. SameTurns(log, log) BY DEF SameTurns
    <2>2. opened \in Nat /\ opened' \in Nat /\ opened <= MaxTurns
      BY <1>4, <1>12, HooksAssumption
    <2> QED BY <1>2, <1>10, <1>12, <2>1, <2>2, PaidKept
  <1>14. Answered(queue', log', opened', sent', running', answers', asked')
    BY <1>1, <1>10
  <1>15. Remembered(queue', log', running', asked') BY <1>1, <1>11
  <1>16. Paid(log', opened', answers', bills') BY <1>1, <1>13
  <1> QED BY <1>14, <1>15, <1>16 DEF Nominal, Answered, Remembered, Paid, Right, Found, Entries

LEMMA NominalBegin ==
    ASSUME Inv, Nominal, NEW d \in Dests, Begin(d)
    PROVE  Nominal'
  <1> SUFFICES ASSUME happened' = {} PROVE Nominal' BY DEF Nominal
  <1>1. /\ queue' = queue /\ log' = log /\ opened' = opened
        /\ bills' = bills /\ happened = {}
        /\ asked' = asked + 1 /\ running' = [running EXCEPT ![d] = asked + 1]
    BY DEF Begin, hist
  <1>2. /\ Answered(queue, log, opened, sent, running, answers, asked)
        /\ Remembered(queue, log, running, asked)
        /\ Paid(log, opened, answers, bills)
    BY <1>1 DEF Nominal
  <1>3. /\ Answered(queue, log, opened, sent', running', answers', asked')
        /\ \A p \in Prompts : answers[p] # 0 => answers'[p] = answers[p]
    BY <1>2, AnsweredBegin
  <1>4. Remembered(queue, log, running', asked') BY <1>1, <1>2, RememberedBegin
  <1>5. Paid(log, opened, answers', bills) BY <1>2, <1>3, PaidLater
  <1>6. /\ Answered(queue', log', opened', sent', running', answers', asked')
        /\ Remembered(queue', log', running', asked')
        /\ Paid(log', opened', answers', bills')
    BY <1>1, <1>3, <1>4, <1>5
  <1> QED BY <1>6 DEF Nominal, Answered, Remembered, Paid, Right, Found, Entries

LEMMA NominalWork ==
    ASSUME Inv, Nominal, NEW d \in Dests, Tool(d) \/ Reply(d)
    PROVE  Nominal'
  <1> SUFFICES ASSUME happened' = {} PROVE Nominal' BY DEF Nominal
  <1>1. /\ queue' = queue /\ opened' = opened /\ sent' = sent
        /\ bills' = bills /\ happened = {} /\ asked' = asked
        /\ running' = running /\ answers' = answers
    BY DEF Tool, Reply, sessions, hist
  <1>2. /\ Answered(queue, log, opened, sent, running, answers, asked)
        /\ Remembered(queue, log, running, asked)
        /\ Paid(log, opened, answers, bills)
    BY <1>1 DEF Nominal
  <1>3. /\ Answered(queue, log', opened, sent, running, answers, asked)
        /\ SameTurns(log, log')
    BY <1>2, AnsweredWork
  <1>4. Local \in Dests /\ queue \in Queue /\ opened \in Nat /\ opened <= MaxTurns
    BY HooksAssumption DEF Inv, TypeOK, Dests
  <1>5. Remembered(queue, log', running, asked)
    <2>1. queue.inflight[Local] # 0 => queue.inflight[Local] \in Turns
      BY <1>4, HooksAssumption DEF Queue, Turns
    <2> QED BY <1>2, <1>3, <2>1 DEF Remembered, SameTurns
  <1>6. Paid(log', opened, answers, bills)
    <2>1. Extends(log', log', opened) /\ opened <= opened BY <1>4 DEF Extends
    <2> QED BY <1>2, <1>3, <1>4, <2>1, PaidKept
  <1>7. /\ Answered(queue', log', opened', sent', running', answers', asked')
        /\ Remembered(queue', log', running', asked')
        /\ Paid(log', opened', answers', bills')
    BY <1>1, <1>3, <1>5, <1>6
  <1> QED BY <1>7 DEF Nominal, Answered, Remembered, Paid, Right, Found, Entries

LEMMA NominalStop ==
    ASSUME Inv, Nominal, NEW d \in Dests, Stop(d)
    PROVE  Nominal'
  <1> SUFFICES ASSUME happened' = {} PROVE Nominal' BY DEF Nominal
  <1>1. /\ HandleStop(running[d], d) /\ running[d] # 0 /\ running[d] \in Prompts
        /\ running[d] \in 0..MaxPrompts
        /\ running' = [running EXCEPT ![d] = 0]
        /\ asked' = asked /\ answers' = answers /\ happened = {}
    BY HooksAssumption DEF Stop, Inv, TypeOK, Prompts
  <1>2. /\ Answered(queue, log, opened, sent, running, answers, asked)
        /\ Remembered(queue, log, running, asked)
        /\ Paid(log, opened, answers, bills)
    BY <1>1 DEF Nominal
  <1>3. /\ TypeOK /\ LogOK(log, opened) /\ queue \in Queue /\ log \in Log /\ opened \in Nat
        /\ opened \in 0..MaxTurns /\ sent \in [Dests -> 0..MaxTurns] /\ bills \in Seq(Bill)
        /\ running \in [Dests -> 0..MaxPrompts] /\ Room(queue, opened)
    BY DEF Inv, TypeOK
  <1>4. PICK l : l = Close(log, running[d], d) OBVIOUS
  <1>5. PICK q : q = EndTurn(queue, running[d], d) OBVIOUS
  <1>6. PICK r : r = [running EXCEPT ![d] = 0] OBVIOUS
  <1>7. LogOK(l, opened) BY <1>1, <1>3, <1>4, CloseIs
  <1>8. q \in Queue /\ q.waiting = queue.waiting BY <1>1, <1>3, <1>5, EndTurnIs
  <1>9. Room(q, opened) BY <1>3, <1>8 DEF Room, Waited
  <1>10. r \in [Dests -> 0..MaxPrompts] /\ \A e \in Dests : r[e] \in 0..MaxPrompts
    BY <1>3, <1>6, NobodyWeights
  <1>11. Drain(q, l) BY <1>1, <1>4, <1>5 DEF HandleStop
  <1>12. Answered(q, l, opened, sent, r, answers, asked) /\ SameTurns(log, l)
    BY <1>1, <1>2, <1>4, <1>5, <1>6, AnsweredClose
  <1>13. Remembered(q, l, r, asked)
    BY <1>1, <1>2, <1>5, <1>6, <1>12, RememberedClose
  <1>14. /\ Answered(queue', log', opened', sent', r, answers, asked)
         /\ Extends(l, log', opened)
    BY <1>3, <1>7, <1>8, <1>9, <1>10, <1>11, <1>12, AnsweredDrain
  <1>15. Remembered(queue', log', r, asked)
    BY <1>3, <1>7, <1>8, <1>9, <1>10, <1>11, <1>12, <1>13, RememberedDrain
  <1>16. opened' \in 0..MaxTurns /\ opened <= opened'
    BY <1>3, <1>7, <1>8, <1>9, <1>11, DrainIs
  <1>17. Paid(log, opened, answers, bills')
    <2>1. PICK use \in Uses : \/ bills' = bills
                              \/ bills' = Append(bills, Bills(running[d], d, use))
      <3>1. \A i \in 1..Len(bills) : bills[i].prompt # running[d]
        BY <1>1 DEF Inv, Working
      <3> QED BY <1>1, <3>1, HandleStopIs
    <2>2. CASE bills' = bills BY <1>2, <2>2
    <2>3. CASE bills' = Append(bills, Bills(running[d], d, use))
      <3>1. PICK b : b = Bills(running[d], d, use) OBVIOUS
      <3>2. b.prompt = running[d] /\ b.who = Payers(running[d], d) BY <3>1 DEF Bills
      <3>3. answers[b.prompt] \in 1..opened /\ b.who = Composers(b.prompt)
        BY <1>1, <1>2, <3>2, PayersAre
      <3> QED BY <1>2, <1>3, <2>3, <3>1, <3>3, PaidMore
    <2> QED BY <2>1, <2>2, <2>3
  <1>18. Paid(log', opened', answers, bills')
    <2>1. opened' \in Nat /\ opened <= MaxTurns BY <1>3, <1>16, HooksAssumption
    <2> QED BY <1>3, <1>12, <1>14, <1>16, <1>17, <2>1, PaidKept
  <1>19. /\ Answered(queue', log', opened', sent', running', answers', asked')
         /\ Remembered(queue', log', running', asked')
         /\ Paid(log', opened', answers', bills')
    BY <1>1, <1>6, <1>14, <1>15, <1>18
  <1> QED BY <1>19 DEF Nominal, Answered, Remembered, Paid, Right, Found, Entries

LEMMA NominalSpend ==
    ASSUME Inv, Nominal, Spend
    PROVE  Nominal'
  <1> SUFFICES ASSUME happened' = {} PROVE Nominal' BY DEF Nominal
  <1>1. PICK b : b = [prompt |-> 0, dest |-> Local, use |-> 1, who |-> Nobody] OBVIOUS
  <1>2. /\ queue' = queue /\ log' = log /\ opened' = opened /\ sent' = sent
        /\ running' = running /\ asked' = asked /\ answers' = answers /\ happened = {}
        /\ bills' = Append(bills, b) /\ b.prompt = 0
    BY <1>1 DEF Spend, sessions
  <1>3. /\ Answered(queue, log, opened, sent, running, answers, asked)
        /\ Remembered(queue, log, running, asked)
        /\ Paid(log, opened, answers, bills)
    BY <1>2 DEF Nominal
  <1>4. Paid(log, opened, answers, bills')
    <2>1. bills \in Seq(Bill) BY DEF Inv, TypeOK
    <2> QED BY <1>2, <1>3, <2>1, PaidMore
  <1>5. /\ Answered(queue', log', opened', sent', running', answers', asked')
        /\ Remembered(queue', log', running', asked')
        /\ Paid(log', opened', answers', bills')
    BY <1>2, <1>3, <1>4
  <1> QED BY <1>5 DEF Nominal, Answered, Remembered, Paid, Right, Found, Entries

\* Once something went wrong, nothing more is claimed.
LEMMA NominalUpset ==
    ASSUME NEW what, Happens(what)
    PROVE  Nominal'
  BY DEF Happens, Nominal

LEMMA NominalNext == Inv /\ Nominal /\ [Next]_vars => Nominal'
  <1> SUFFICES ASSUME Inv, Nominal, [Next]_vars PROVE Nominal' OBVIOUS
  <1>1. CASE UNCHANGED vars
    <2>1. /\ queue' = queue /\ log' = log /\ opened' = opened /\ sent' = sent
          /\ running' = running /\ asked' = asked /\ answers' = answers
          /\ bills' = bills /\ happened' = happened
      BY <1>1 DEF vars, sessions, hist
    <2>2. happened = {} =>
            /\ Answered(queue', log', opened', sent', running', answers', asked')
            /\ Remembered(queue', log', running', asked')
            /\ Paid(log', opened', answers', bills')
      BY <2>1 DEF Nominal
    <2> QED BY <2>1, <2>2 DEF Nominal, Answered, Remembered, Paid, Right, Found, Entries
  <1>2. CASE Spend BY <1>2, NominalSpend
  <1>3. CASE OwnPrompt BY <1>3, NominalUpset DEF OwnPrompt
  <1>4. CASE Crash BY <1>4, NominalUpset DEF Crash, Restart
  <1>5. ASSUME NEW d \in Dests, NEW m \in Members, Submit(d, m) PROVE Nominal'
    BY <1>5, NominalSubmit
  <1>6. ASSUME NEW d \in Dests, Begin(d) PROVE Nominal' BY <1>6, NominalBegin
  <1>7. ASSUME NEW d \in Dests, Tool(d) \/ Reply(d) PROVE Nominal' BY <1>7, NominalWork
  <1>8. ASSUME NEW d \in Dests, Stop(d) PROVE Nominal' BY <1>8, NominalStop
  <1>9. ASSUME NEW d \in Dests, NEW p \in Prompts, Refire(p, d) PROVE Nominal'
    BY <1>9, NominalUpset DEF Refire
  <1>10. ASSUME NEW d \in Dests, Abandon(d) PROVE Nominal' BY <1>10, NominalUpset DEF Abandon
  <1>11. ASSUME NEW d \in Dests, StopDies(d) PROVE Nominal'
    BY <1>11, NominalUpset DEF StopDies, Restart
  <1> QED BY <1>1, <1>2, <1>3, <1>4, <1>5, <1>6, <1>7, <1>8, <1>9, <1>10, <1>11 DEF Next

\* While nothing goes wrong, the turn that is open at a destination is the one its
\* session works on, and the prompt memory knows who composed it.
THEOREM NominalAlways == Spec => []Nominal
  BY Invariant, NominalInit, NominalNext, PTL DEF Spec

\* While nothing goes wrong, work is put down to the turn it answers, with sessions of
\* several destinations at work at once.
THEOREM RightTurnAlways == Spec => []RightTurn
  <1>1. Nominal => RightTurn BY DEF Nominal, Answered, Right, RightTurn
  <1> QED BY <1>1, NominalAlways, PTL

\* While nothing goes wrong, those who composed a turn are charged for it, though
\* the room may have started the next one by the time it is asked about a prompt.
THEOREM ComposersPayAlways == Spec => []ComposersPay
  <1>1. Inv /\ Nominal => ComposersPay
    <2> SUFFICES ASSUME Inv, Nominal, happened = {}, NEW i \in DOMAIN bills, bills[i].prompt # 0
                 PROVE  bills[i].who = Composers(bills[i].prompt)
      BY DEF ComposersPay
    <2>1. i \in 1..Len(bills) BY DEF Inv, TypeOK
    <2> QED BY <2>1 DEF Nominal, Paid, Composers
  <1> QED BY <1>1, Invariant, NominalAlways, PTL

\* The log stays bounded, loses no open turn, and its indexes hold the turns it
\* keeps and no other; while nothing goes wrong, each is found by its prompt.
THEOREM IndexSoundAlways == Spec => []IndexSound
  <1>1. Inv /\ Nominal => IndexSound
    BY DEF Inv, LogOK, Small, Nominal, Answered, Found, IndexSound
  <1> QED BY <1>1, Invariant, NominalAlways, PTL
=============================================================================
