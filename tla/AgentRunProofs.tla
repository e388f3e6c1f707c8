--------------------------- MODULE AgentRunProofs ---------------------------
(***************************************************************************)
(* Proofs about a run of the agents (AgentRun): its types, that its trace  *)
(* tells what it did, that it overspends by one step or one round of       *)
(* branches at most, that answers have seen their tools, and that nothing  *)
(* takes effect unasked that is not green or allowed; for every set of     *)
(* messages, every model, and all caps.                                    *)
(*                                                                         *)
(* The inductive invariant says where a chain and where branches stand at  *)
(* every stage (Progress), that each step has its hops (Traced), what has  *)
(* been spent (Spent), and how far the tool loop has come (Looped).        *)
(***************************************************************************)
EXTENDS AgentRun, FiniteSetTheorems, TLAPS

-----------------------------------------------------------------------------
(* The router.                                                             *)

(* A set of positions that is not empty has a first one.                   *)
LEMMA FirstOfAll ==
  ASSUME NEW n \in Nat, NEW S \in SUBSET (1..n), S # {}
  PROVE  \E i \in S : \A j \in 1..(i - 1) : j \notin S
<1>. DEFINE T == {1..i : i \in S}
<1>1. IsWellFoundedOn(StrictSubsetOrdering(1..n), SUBSET (1..n))
  <2>1. IsFiniteSet(1..n)
    BY FS_Interval
  <2>2. ASSUME NEW U \in SUBSET (1..n) PROVE IsFiniteSet(U)
    BY <2>1, FS_Subset
  <2>3. FiniteSubsetsOf(1..n) = SUBSET (1..n)
    BY <2>2 DEF FiniteSubsetsOf
  <2>. QED
    BY <2>3, FS_StrictSubsetOrderingWellFounded
<1>2. T \subseteq SUBSET (1..n) /\ T # {}
  <2>1. \A i \in S : 1..i \subseteq 1..n
    OBVIOUS
  <2>2. PICK i \in S : TRUE
    OBVIOUS
  <2>3. 1..i \in T
    OBVIOUS
  <2>. QED
    BY <2>1, <2>3
<1>3. PICK x \in T : \A y \in T : <<y, x>> \notin StrictSubsetOrdering(1..n)
  <2>. HIDE DEF T
  <2>. QED
    BY <1>1, <1>2, WFMin
<1>4. PICK i \in S : x = 1..i
  BY <1>3
<1>5. ASSUME NEW j \in 1..(i - 1), j \in S PROVE FALSE
  <2>1. 1..j \in T /\ 1..j \subseteq 1..i /\ 1..j # 1..i
    BY <1>5
  <2>. QED
    BY <1>2, <1>3, <1>4, <2>1 DEF StrictSubsetOrdering
<1>. QED
  BY <1>5

(* What holds of 0 and goes from each number to the next holds up to n.    *)
LEMMA UpTo ==
  ASSUME NEW n \in Nat, NEW S, 0 \in S, \A k \in 1..n : k - 1 \in S => k \in S
  PROVE  0..n \subseteq S
<1>. SUFFICES ASSUME NEW k \in 0..n, k \notin S PROVE FALSE
  OBVIOUS
<1>. DEFINE R == {i \in 1..n : i \notin S}
<1>1. k \in R
  OBVIOUS
<1>2. PICK i \in R : \A j \in 1..(i - 1) : j \notin R
  <2>. HIDE DEF R
  <2>1. R \in SUBSET (1..n)
    BY DEF R
  <2>. QED
    BY <1>1, <2>1, FirstOfAll
<1>3. i - 1 \in S
  BY <1>2
<1>. QED
  BY <1>2, <1>3

-----------------------------------------------------------------------------
(* The steps of a prefix of the clauses are those of the whole one.        *)
LEMMA StepsRecur ==
  ASSUME NEW clauses, Len(clauses) \in Nat
  PROVE  /\ StepsUpTo(clauses)[0] = << >>
         /\ \A k \in 1..Len(clauses) :
              StepsUpTo(clauses)[k] = Extended(clauses, StepsUpTo(clauses)[k - 1], k)
<1>. DEFINE n == Len(clauses)
            Body(g, k) == IF k = 0 THEN << >> ELSE Extended(clauses, g[k - 1], k)
            Is(g, m) == g = [k \in 0..m |-> Body(g, k)]
            S == {m \in 0..n : \E g : Is(g, m)}
<1>1. 0 \in S
  <2>1. Is([k \in 0..0 |-> << >>], 0)
    OBVIOUS
  <2>2. \E g : Is(g, 0)
    <3>. HIDE DEF Is
    <3>. QED
      BY <2>1
  <2>. QED
    BY <2>2
<1>2. ASSUME NEW m \in 1..n, m - 1 \in S PROVE m \in S
  <2>1. PICK g : Is(g, m - 1)
    BY <1>2
  <2>. DEFINE h == [k \in 0..m |-> IF k < m THEN g[k] ELSE Extended(clauses, g[m - 1], m)]
  <2>2. ASSUME NEW k \in 0..m PROVE h[k] = Body(h, k)
    <3>1. CASE k < m
      <4>1. h[k] = Body(g, k)
        BY <2>1, <3>1
      <4>2. k # 0 => h[k - 1] = g[k - 1]
        BY <3>1
      <4>3. Body(h, k) = Body(g, k)
        <5>. HIDE DEF h
        <5>. QED
          BY <4>2
      <4>. QED
        BY <4>1, <4>3
    <3>2. CASE k = m
      BY <3>2
    <3>. QED
      BY <3>1, <3>2
  <2>3. Is(h, m)
    BY <2>2
  <2>4. \E i : Is(i, m)
    <3>. HIDE DEF Is, h
    <3>. QED
      BY <2>3
  <2>. QED
    BY <2>4
<1>3. n \in S
  <2>. HIDE DEF S
  <2>1. 0..n \subseteq S
    BY <1>1, <1>2, UpTo
  <2>. QED
    BY <2>1
<1>4. \E g : Is(g, n)
  BY <1>3
<1>5. StepsUpTo(clauses) = CHOOSE g : Is(g, n)
  BY DEF StepsUpTo
<1>6. Is(StepsUpTo(clauses), n)
  <2>. HIDE DEF Is
  <2>. QED
    BY <1>4, <1>5
<1>. QED
  BY <1>6

-----------------------------------------------------------------------------
(* The steps that are open after k clauses: one for each opener so far, in *)
(* its place, the last of them that of the nearest clause with a           *)
(* specialist.                                                             *)
Seen(clauses, k) == {o \in Openers(clauses) : o <= k}
StepOf(clauses, o) == [agent |-> Wanted(clauses, o), dependent |-> clauses[o].dependent]
LastFit(clauses, k, l) ==
  /\ l \in 1..k /\ Wanted(clauses, l) # "none"
  /\ \A j \in (l + 1)..k : Wanted(clauses, j) = "none"
Grouped(clauses, k, open) ==
  /\ open \in Seq({StepOf(clauses, o) : o \in Openers(clauses)})
  /\ Len(open) = Cardinality(Seen(clauses, k))
  /\ \A o \in Seen(clauses, k) :
       open[Cardinality(Seen(clauses, o))] = StepOf(clauses, o)
  /\ \A i \in 1..Len(open) : \E o \in Seen(clauses, k) : Cardinality(Seen(clauses, o)) = i
  /\ open = << >> => \A j \in 1..k : Wanted(clauses, j) = "none"
  /\ open # << >> =>
       \E l \in 1..k : LastFit(clauses, k, l) /\ open[Len(open)].agent = Wanted(clauses, l)

LEMMA SeenFinite ==
  ASSUME NEW clauses, Len(clauses) \in Nat, DOMAIN clauses = 1..Len(clauses), NEW k
  PROVE  /\ IsFiniteSet(Seen(clauses, k)) /\ Cardinality(Seen(clauses, k)) \in Nat
         /\ Openers(clauses) \subseteq 1..Len(clauses)
         /\ IsFiniteSet(Openers(clauses))
<1>1. Openers(clauses) \subseteq 1..Len(clauses)
  BY DEF Openers
<1>2. IsFiniteSet(1..Len(clauses))
  BY FS_Interval
<1>3. Seen(clauses, k) \subseteq Openers(clauses)
  BY DEF Seen
<1>4. IsFiniteSet(Openers(clauses))
  BY <1>1, <1>2, FS_Subset
<1>5. IsFiniteSet(Seen(clauses, k))
  BY <1>3, <1>4, FS_Subset
<1>. QED
  BY <1>1, <1>4, <1>5, FS_CardinalityType

(* A clause is an opener when the nearest one with a specialist before it  *)
(* is for another one, or there is none.                                   *)
LEMMA IsOpener ==
  ASSUME NEW clauses, Len(clauses) \in Nat, DOMAIN clauses = 1..Len(clauses),
         NEW k \in 1..Len(clauses)
  PROVE  k \in Openers(clauses) <=>
           /\ Wanted(clauses, k) # "none"
           /\ \A l \in 1..(k - 1) :
                LastFit(clauses, k - 1, l) => Wanted(clauses, l) # Wanted(clauses, k)
<1>. DEFINE fit == {j \in DOMAIN clauses : Wanted(clauses, j) # "none"}
            Nearest == {j \in fit : j < k /\ \A i \in fit : i <= j \/ i >= k}
<1>1. \A l \in Nat : l \in Nearest <=> l \in 1..(k - 1) /\ LastFit(clauses, k - 1, l)
  <2>. TAKE l \in Nat
  <2>1. ASSUME l \in Nearest PROVE l \in 1..(k - 1) /\ LastFit(clauses, k - 1, l)
    <3>1. l \in 1..(k - 1) /\ Wanted(clauses, l) # "none"
      BY <2>1
    <3>2. ASSUME NEW j \in (l + 1)..(k - 1), Wanted(clauses, j) # "none" PROVE FALSE
      <4>1. j \in fit
        BY <3>2, <3>1
      <4>. QED
        BY <2>1, <4>1, <3>1
    <3>. QED
      BY <3>1, <3>2 DEF LastFit
  <2>2. ASSUME l \in 1..(k - 1), LastFit(clauses, k - 1, l) PROVE l \in Nearest
    BY <2>2 DEF LastFit
  <2>. QED
    BY <2>1, <2>2
<1>2. k \in Openers(clauses) <=>
        k \in fit /\ \A j \in Nearest : Wanted(clauses, j) # Wanted(clauses, k)
  BY DEF Openers
<1>3. Nearest \subseteq Nat
  OBVIOUS
<1>. HIDE DEF Nearest
<1>. QED
  BY <1>1, <1>2, <1>3

LEMMA GroupedNext ==
  ASSUME NEW clauses, Len(clauses) \in Nat, DOMAIN clauses = 1..Len(clauses),
         NEW k \in 1..Len(clauses), NEW before, Grouped(clauses, k - 1, before)
  PROVE  Grouped(clauses, k, Extended(clauses, before, k))
<1>. DEFINE agent == Wanted(clauses, k)
            Steps == {StepOf(clauses, o) : o \in Openers(clauses)}
            open == Extended(clauses, before, k)
<1>g. /\ before \in Seq(Steps)
      /\ Len(before) = Cardinality(Seen(clauses, k - 1))
      /\ \A o \in Seen(clauses, k - 1) :
           before[Cardinality(Seen(clauses, o))] = StepOf(clauses, o)
      /\ \A i \in 1..Len(before) :
           \E o \in Seen(clauses, k - 1) : Cardinality(Seen(clauses, o)) = i
      /\ before = << >> => \A j \in 1..(k - 1) : Wanted(clauses, j) = "none"
      /\ before # << >> =>
           \E l \in 1..(k - 1) : LastFit(clauses, k - 1, l)
                                 /\ before[Len(before)].agent = Wanted(clauses, l)
  BY DEF Grouped
<1>f. /\ Openers(clauses) \subseteq 1..Len(clauses)
      /\ \A j : IsFiniteSet(Seen(clauses, j)) /\ Cardinality(Seen(clauses, j)) \in Nat
  BY SeenFinite
<1>u. \A l, m \in 1..(k - 1) : LastFit(clauses, k - 1, l) /\ LastFit(clauses, k - 1, m) => l = m
  BY DEF LastFit
<1>1. CASE agent = "none"
  <2>1. open = before
    BY <1>1 DEF Extended
  <2>2. Seen(clauses, k) = Seen(clauses, k - 1)
    BY <1>1, <1>f, IsOpener DEF Seen
  <2>3. \A l \in 1..(k - 1) : LastFit(clauses, k - 1, l) => LastFit(clauses, k, l)
    BY <1>1 DEF LastFit
  <2>4. \A j \in 1..k : j \in 1..(k - 1) \/ j = k
    OBVIOUS
  <2>. QED
    BY <1>g, <1>1, <2>1, <2>2, <2>3, <2>4 DEF Grouped
<1>2. CASE agent # "none" /\ before # << >> /\ before[Len(before)].agent = agent
  <2>1. open = before
    BY <1>2 DEF Extended
  <2>2. PICK l \in 1..(k - 1) : LastFit(clauses, k - 1, l) /\ agent = Wanted(clauses, l)
    BY <1>g, <1>2
  <2>3. k \notin Openers(clauses)
    BY <2>2, IsOpener
  <2>4. Seen(clauses, k) = Seen(clauses, k - 1)
    BY <2>3, <1>f DEF Seen
  <2>5. LastFit(clauses, k, k) /\ k \in 1..k
    BY <1>2 DEF LastFit
  <2>. QED
    BY <1>g, <1>2, <2>1, <2>4, <2>5 DEF Grouped
<1>3. CASE agent # "none" /\ ~(before # << >> /\ before[Len(before)].agent = agent)
  <2>1. open = Append(before, StepOf(clauses, k))
    BY <1>3 DEF Extended, StepOf
  <2>2. k \in Openers(clauses)
    <3>1. ASSUME NEW l \in 1..(k - 1), LastFit(clauses, k - 1, l)
          PROVE  Wanted(clauses, l) # agent
      <4>1. before # << >>
        BY <1>g, <3>1 DEF LastFit
      <4>2. PICK m \in 1..(k - 1) : LastFit(clauses, k - 1, m)
                                    /\ before[Len(before)].agent = Wanted(clauses, m)
        BY <1>g, <4>1
      <4>. QED
        BY <1>3, <1>u, <3>1, <4>1, <4>2
    <3>. QED
      BY <1>3, <3>1, IsOpener
  <2>3. Seen(clauses, k) = Seen(clauses, k - 1) \cup {k} /\ k \notin Seen(clauses, k - 1)
    BY <2>2, <1>f DEF Seen
  <2>4. Cardinality(Seen(clauses, k)) = Len(before) + 1
    <3>1. IsFiniteSet(Seen(clauses, k - 1))
      BY <1>f
    <3>2. Cardinality(Seen(clauses, k - 1) \cup {k}) = Cardinality(Seen(clauses, k - 1)) + 1
      BY <2>3, <3>1, FS_AddElement
    <3>. QED
      BY <1>g, <2>3, <3>2
  <2>5. /\ StepOf(clauses, k) \in Steps
        /\ open \in Seq(Steps) /\ Len(open) = Len(before) + 1
        /\ \A i \in 1..Len(before) : open[i] = before[i]
        /\ open[Len(open)] = StepOf(clauses, k) /\ open # << >>
    <3>1. StepOf(clauses, k) \in Steps
      BY <2>2
    <3>. HIDE DEF Steps, open
    <3>2. before \in Seq(Steps)
      BY <1>g
    <3>. QED
      BY <2>1, <3>1, <3>2
  <2>6. ASSUME NEW o \in Seen(clauses, k)
        PROVE  open[Cardinality(Seen(clauses, o))] = StepOf(clauses, o)
    <3>1. CASE o = k
      BY <3>1, <2>4, <2>5
    <3>2. CASE o \in Seen(clauses, k - 1)
      <4>1. Seen(clauses, o) \subseteq Seen(clauses, k - 1) /\ o \in Seen(clauses, o)
        BY <3>2, <1>f DEF Seen
      <4>2. Cardinality(Seen(clauses, o)) <= Cardinality(Seen(clauses, k - 1))
        BY <4>1, <1>f, FS_Subset
      <4>3. Cardinality(Seen(clauses, o)) # 0
        BY <4>1, <1>f, FS_EmptySet
      <4>4. Cardinality(Seen(clauses, o)) \in 1..Len(before)
        BY <4>2, <4>3, <1>f, <1>g
      <4>. QED
        BY <3>2, <4>4, <1>g, <2>5
    <3>. QED
      BY <2>3, <3>1, <3>2
  <2>7. ASSUME NEW i \in 1..Len(open)
        PROVE  \E o \in Seen(clauses, k) : Cardinality(Seen(clauses, o)) = i
    <3>1. CASE i \in 1..Len(before)
      BY <1>g, <2>3, <3>1
    <3>2. CASE i = Len(before) + 1
      BY <2>3, <2>4, <3>2
    <3>. QED
      BY <1>g, <2>5, <3>1, <3>2
  <2>8. LastFit(clauses, k, k) /\ k \in 1..k /\ StepOf(clauses, k).agent = agent
    BY <1>3 DEF LastFit, StepOf
  <2>. QED
    <3>1. open[Len(open)].agent = Wanted(clauses, k)
      BY <2>5, <2>8
    <3>2. Len(open) = Cardinality(Seen(clauses, k))
      BY <2>4, <2>5
    <3>3. open \in Seq(Steps) /\ open # << >>
      BY <2>5
    <3>4. \E l \in 1..k : LastFit(clauses, k, l) /\ open[Len(open)].agent = Wanted(clauses, l)
      BY <2>8, <3>1
    <3>5. Grouped(clauses, k, open)
      <4>. HIDE DEF open
      <4>. QED
        BY <2>6, <2>7, <3>2, <3>3, <3>4 DEF Grouped
    <3>. QED
      BY <3>5
<1>. QED
  BY <1>1, <1>2, <1>3

(* The open steps of all clauses are grouped.                              *)
LEMMA StepsGrouped ==
  ASSUME NEW clauses, Len(clauses) \in Nat, DOMAIN clauses = 1..Len(clauses)
  PROVE  Grouped(clauses, Len(clauses), OpenSteps(clauses))
<1>. DEFINE n == Len(clauses)
            S == {k \in 0..n : Grouped(clauses, k, StepsUpTo(clauses)[k])}
<1>1. 0 \in S
  <2>1. Seen(clauses, 0) = {}
    <3>1. Openers(clauses) \subseteq 1..Len(clauses)
      BY SeenFinite
    <3>. QED
      BY <3>1 DEF Seen
  <2>2. Grouped(clauses, 0, << >>)
    BY <2>1, FS_EmptySet DEF Grouped
  <2>. QED
    BY <2>2, StepsRecur
<1>2. ASSUME NEW k \in 1..n, k - 1 \in S PROVE k \in S
  BY <1>2, GroupedNext, StepsRecur
<1>3. n \in S
  <2>. HIDE DEF S
  <2>1. 0..n \subseteq S
    BY <1>1, <1>2, UpTo
  <2>. QED
    BY <2>1
<1>. QED
  BY <1>3 DEF OpenSteps

-----------------------------------------------------------------------------
(* Of two specialists exactly one outdoes the other.                       *)
LEMMA OutdoesOrders ==
  ASSUME NEW scores \in Score
  PROVE  /\ \A a, b \in SpecialistKeys : a # b => Outdoes(scores, a, b) \/ Outdoes(scores, b, a)
         /\ \A a, b, c \in SpecialistKeys :
              Outdoes(scores, a, b) /\ Outdoes(scores, b, c) => Outdoes(scores, a, c)
<1>1. /\ \A a \in SpecialistKeys : scores[a] \in Nat /\ Priority[a] \in Nat
      /\ \A a, b \in SpecialistKeys : a # b => Priority[a] # Priority[b]
  <2>1. SpecialistKeys = {"career", "learning", "planner", "memory", "research",
                          "automation", "engineer"}
    BY DEF SpecialistKeys, Specialists
  <2>. QED
    BY <2>1 DEF Score, Priority
<1>. QED
  BY <1>1 DEF Outdoes

(* Among the specialists that fit there is one that outdoes the others.    *)
LEMMA BestExists ==
  ASSUME NEW scores \in Score, NEW fit \in SUBSET SpecialistKeys, fit # {}
  PROVE  \E a \in fit : \A b \in fit \ {a} : Outdoes(scores, a, b)
<1>. DEFINE First(k) == {a \in fit : \E i \in 1..k : a = Specialists[i]}
            S == {k \in 0..7 : First(k) # {} =>
                    \E a \in First(k) : \A b \in First(k) \ {a} : Outdoes(scores, a, b)}
<1>1. 0 \in S
  OBVIOUS
<1>2. ASSUME NEW k \in 1..7, k - 1 \in S PROVE k \in S
  <2>. DEFINE s == Specialists[k]
  <2>1. \A i \in 1..k : i = k \/ i \in 1..(k - 1)
    OBVIOUS
  <2>2. \A i \in 1..(k - 1) : i \in 1..k
    OBVIOUS
  <2>3. First(k) = First(k - 1) \cup {a \in fit : a = s}
    BY <2>1, <2>2
  <2>4. CASE s \notin fit
    <3>1. First(k) = First(k - 1)
      BY <2>3, <2>4
    <3>. QED
      BY <1>2, <3>1
  <2>5. CASE s \in fit /\ First(k - 1) = {}
    <3>1. First(k) = {s}
      BY <2>3, <2>5
    <3>. QED
      BY <3>1
  <2>6. CASE s \in fit /\ First(k - 1) # {}
    <3>1. PICK a \in First(k - 1) : \A b \in First(k - 1) \ {a} : Outdoes(scores, a, b)
      BY <1>2, <2>6
    <3>2. First(k) = First(k - 1) \cup {s} /\ First(k) \subseteq SpecialistKeys /\ s \in First(k)
      BY <2>3, <2>6
    <3>. HIDE DEF First
    <3>3. CASE a = s \/ Outdoes(scores, a, s)
      <4>1. \A b \in First(k) \ {a} : Outdoes(scores, a, b)
        BY <3>1, <3>2, <3>3
      <4>. QED
        BY <3>1, <3>2, <4>1
    <3>4. CASE a # s /\ Outdoes(scores, s, a)
      <4>1. ASSUME NEW b \in First(k) \ {s} PROVE Outdoes(scores, s, b)
        <5>1. CASE b = a
          BY <3>4, <5>1
        <5>2. CASE b # a
          BY <3>1, <3>2, <3>4, <5>2, OutdoesOrders
        <5>. QED
          BY <5>1, <5>2
      <4>. QED
        BY <3>2, <4>1
    <3>. QED
      BY <3>1, <3>2, <3>3, <3>4, OutdoesOrders
  <2>. QED
    BY <2>4, <2>5, <2>6
<1>3. 7 \in S
  <2>. HIDE DEF S
  <2>1. 0..7 \subseteq S
    BY <1>1, <1>2, UpTo
  <2>. QED
    BY <2>1
<1>4. First(7) = fit
  <2>1. \A a \in SpecialistKeys : \E i \in 1..7 : a = Specialists[i]
    BY DEF SpecialistKeys, Specialists
  <2>. QED
    BY <2>1
<1>. QED
  BY <1>3, <1>4

(* A clause is for a specialist or for nobody.                             *)
LEMMA BestIsKnown ==
  ASSUME NEW scores \in Score
  PROVE  BestSpecialist(scores) \in SpecialistKeys \cup {"none"}
<1>. DEFINE fit == {a \in DOMAIN scores : scores[a] >= MinScore}
<1>1. fit \subseteq SpecialistKeys
  BY DEF Score
<1>2. CASE fit = {}
  BY <1>2 DEF BestSpecialist
<1>3. CASE fit # {}
  <2>1. BestSpecialist(scores) = CHOOSE a \in fit : \A b \in fit \ {a} : Outdoes(scores, a, b)
    BY <1>3 DEF BestSpecialist
  <2>. HIDE DEF fit
  <2>2. \E a \in fit : \A b \in fit \ {a} : Outdoes(scores, a, b)
    BY <1>1, <1>3, BestExists
  <2>. QED
    BY <1>1, <2>1, <2>2
<1>. QED
  BY <1>2, <1>3

(* A step is one of a specialist.                                          *)
LEMMA OpenersWanted ==
  ASSUME NEW clauses \in Seq(Clause), NEW o \in Openers(clauses)
  PROVE  Wanted(clauses, o) \in SpecialistKeys
<1>1. o \in DOMAIN clauses /\ Wanted(clauses, o) # "none"
  BY DEF Openers
<1>2. clauses[o] \in Clause
  BY <1>1
<1>3. clauses[o].scores \in Score
  BY <1>2 DEF Clause
<1>. QED
  BY <1>1, <1>3, BestIsKnown DEF Wanted

(* The steps of a compound message, before and after the cap.              *)
LEMMA OpenStepsAre ==
  ASSUME NEW clauses \in Seq(Clause)
  PROVE  LET open == OpenSteps(clauses)
             openers == Openers(clauses)
         IN  /\ open \in Seq({StepOf(clauses, o) : o \in openers})
             /\ Len(open) \in Nat
             /\ \A o \in openers :
                  /\ Cardinality(Seen(clauses, o)) \in 1..Len(open)
                  /\ open[Cardinality(Seen(clauses, o))] = StepOf(clauses, o)
             /\ \A i \in 1..Len(open) : \E o \in openers : Cardinality(Seen(clauses, o)) = i
             /\ \A o, p \in openers :
                  Cardinality(Seen(clauses, o)) = Cardinality(Seen(clauses, p)) => o = p
<1>. DEFINE n == Len(clauses)
            open == OpenSteps(clauses)
            openers == Openers(clauses)
            place(o) == Cardinality(Seen(clauses, o))
<1>1. n \in Nat /\ DOMAIN clauses = 1..n
  OBVIOUS
<1>2. /\ openers \subseteq 1..n /\ IsFiniteSet(openers)
      /\ \A o : IsFiniteSet(Seen(clauses, o)) /\ place(o) \in Nat
  BY <1>1, SeenFinite
<1>3. Seen(clauses, n) = openers
  BY <1>1, <1>2 DEF Seen
<1>4. /\ open \in Seq({StepOf(clauses, o) : o \in openers})
      /\ Len(open) = Cardinality(openers)
      /\ \A o \in openers : open[place(o)] = StepOf(clauses, o)
      /\ \A i \in 1..Len(open) : \E o \in openers : place(o) = i
  BY <1>1, <1>3, StepsGrouped DEF Grouped
<1>5. Cardinality(openers) \in Nat
  BY <1>2, FS_CardinalityType
<1>6. ASSUME NEW o \in openers PROVE place(o) \in 1..Len(open)
  <2>1. o \in Seen(clauses, o) /\ Seen(clauses, o) \subseteq openers
    BY <1>2 DEF Seen
  <2>2. place(o) <= Cardinality(openers)
    BY <1>2, <2>1, FS_Subset
  <2>3. place(o) # 0
    BY <1>2, <2>1, FS_EmptySet
  <2>. QED
    BY <1>2, <1>4, <1>5, <2>2, <2>3
<1>7. ASSUME NEW o \in openers, NEW p \in openers, o < p PROVE place(o) < place(p)
  <2>1. /\ Seen(clauses, o) \subseteq Seen(clauses, p)
        /\ p \in Seen(clauses, p) /\ p \notin Seen(clauses, o)
    BY <1>2, <1>7 DEF Seen
  <2>2. /\ place(o) <= place(p)
        /\ place(o) = place(p) => Seen(clauses, o) = Seen(clauses, p)
    BY <1>2, <2>1, FS_Subset
  <2>. QED
    BY <1>2, <2>1, <2>2
<1>8. \A o, p \in openers : place(o) = place(p) => o = p
  BY <1>2, <1>7
<1>. QED
  BY <1>4, <1>5, <1>6, <1>8

(* A compound message has a step, and its plan one agent at least, all     *)
(* known.                                                                  *)
LEMMA CompoundPlanned ==
  ASSUME NEW clauses \in Seq(Clause), Compound(clauses)
  PROVE  CompoundPlan(clauses) \in [shape : Shapes, agents : Seq(Agents) \ {<< >>}]
<1>. DEFINE open == OpenSteps(clauses)
            cut == Truncated(open)
            Kinds == {StepOf(clauses, o) : o \in Openers(clauses)}
<1>1. open \in Seq(Kinds) /\ Len(open) \in Nat
  BY OpenStepsAre
<1>2. Len(open) # 0
  <2>1. ASSUME Len(open) = 0 PROVE FALSE
    <3>1. {open[i].agent : i \in DOMAIN open} = {}
      BY <1>1, <2>1
    <3>. QED
      BY <3>1, FS_EmptySet DEF Compound, Distinct
  <2>. QED
    BY <2>1
<1>3. /\ Len(cut) \in Nat \ {0} /\ DOMAIN cut = 1..Len(cut)
      /\ \A i \in 1..Len(cut) : cut[i] \in Kinds
  <2>. HIDE DEF Kinds, open
  <2>. QED
    BY <1>1, <1>2 DEF Truncated, MaxCompoundSteps
<1>4. \A i \in 1..Len(cut) : cut[i].agent \in Agents
  <2>1. ASSUME NEW x \in Kinds PROVE x.agent \in Agents
    BY OpenersWanted DEF StepOf, SpecialistKeys, Agents
  <2>. HIDE DEF cut, Kinds
  <2>. QED
    BY <1>3, <2>1
<1>5. [i \in DOMAIN cut |-> cut[i].agent] \in Seq(Agents) \ {<< >>}
  <2>. HIDE DEF cut
  <2>. QED
    BY <1>3, <1>4
<1>6. ShapeOf(cut) \in Shapes
  BY DEF ShapeOf, Shapes
<1>. QED
  BY <1>5, <1>6 DEF CompoundPlan, Plan

(* Whatever the message says and whatever the classifier would say of it,  *)
(* the router makes a plan of it: one agent at least, all of them known.   *)
THEOREM RoutesToKnownAgents ==
  ASSUME NEW message, IsMessage(message)
  PROVE  Route(message) \in [shape : Shapes, agents : Seq(Agents) \ {<< >>}]
<1>. DEFINE Made(shape, agents) ==
       Plan(shape, agents) \in [shape : Shapes, agents : Seq(Agents) \ {<< >>}]
<1>1. \A agent \in Agents : Made("single", <<agent>>)
  BY DEF Plan, Shapes
<1>2. Made("single", <<"general">>)
  BY <1>1 DEF Agents
<1>3. RecallPipeline \in [shape : Shapes, agents : Seq(Agents) \ {<< >>}]
  BY DEF RecallPipeline, Plan, Shapes, Agents
<1>4. BestSpecialist(message.scores) # "none"
        => Made("single", <<BestSpecialist(message.scores)>>)
  <2>1. BestSpecialist(message.scores) # "none" => BestSpecialist(message.scores) \in Agents
    BY BestIsKnown DEF IsMessage, SpecialistKeys, Agents
  <2>. QED
    BY <1>1, <2>1
<1>5. Compound(message.clauses)
        => CompoundPlan(message.clauses) \in [shape : Shapes, agents : Seq(Agents) \ {<< >>}]
  BY CompoundPlanned DEF IsMessage
<1>6. message.research \in BOOLEAN
  BY DEF IsMessage
<1>. QED
  BY <1>1, <1>2, <1>3, <1>4, <1>5, <1>6 DEF Route

(* The plan of a compound message of any length follows its clauses: a     *)
(* step for every clause whose specialist differs from the nearest one     *)
(* before it, in their order and up to the cap, the steps at the same time *)
(* when none of those kept after the first depends on an earlier one.      *)
THEOREM PlansFollowClauses ==
  ASSUME NEW clauses \in Seq(Clause)
  PROVE  FollowsItsClauses(clauses)
<1>. DEFINE openers == Openers(clauses)
            Place(k) == Cardinality({j \in openers : j <= k})
            kept == {k \in openers : Place(k) <= MaxCompoundSteps}
            open == OpenSteps(clauses)
            cut == Truncated(open)
            kinds == {Wanted(clauses, k) : k \in openers}
            message == [clauses |-> clauses, scores |-> clauses[1].scores,
                        pinned |-> "none", research |-> FALSE, classified |-> "none"]
<1>. SUFFICES ASSUME Cardinality(kinds) >= 2
              PROVE  /\ Len(Route(message).agents) = Cardinality(kept)
                     /\ \A k \in kept : Route(message).agents[Place(k)] = Wanted(clauses, k)
                     /\ Route(message).shape = "parallel" <=>
                          \A k \in kept : Place(k) = 1 \/ ~clauses[k].dependent
  BY DEF FollowsItsClauses
<1>1. /\ open \in Seq({StepOf(clauses, o) : o \in openers}) /\ Len(open) \in Nat
      /\ \A o \in openers : Place(o) \in 1..Len(open) /\ open[Place(o)] = StepOf(clauses, o)
      /\ \A i \in 1..Len(open) : \E o \in openers : Place(o) = i
      /\ \A o, p \in openers : Place(o) = Place(p) => o = p
  <2>1. \A k : Place(k) = Cardinality(Seen(clauses, k))
    BY DEF Seen
  <2>. HIDE DEF Place
  <2>. QED
    BY <2>1, OpenStepsAre
<1>2. openers \subseteq 1..Len(clauses) /\ IsFiniteSet(openers) /\ Len(clauses) \in Nat
  BY SeenFinite
<1>3. Compound(clauses)
  <2>1. {open[i].agent : i \in DOMAIN open} = kinds
    <3>1. DOMAIN open = 1..Len(open)
      BY <1>1
    <3>. HIDE DEF open, openers, Place
    <3>2. \A k \in openers : StepOf(clauses, k).agent = Wanted(clauses, k)
      BY DEF StepOf
    <3>3. ASSUME NEW i \in 1..Len(open) PROVE \E k \in openers : open[i].agent = Wanted(clauses, k)
      BY <1>1, <3>2
    <3>4. ASSUME NEW k \in openers PROVE \E i \in 1..Len(open) : open[i].agent = Wanted(clauses, k)
      BY <1>1, <3>2
    <3>. QED
      BY <3>1, <3>3, <3>4
  <2>2. ASSUME Len(clauses) < 2 PROVE FALSE
    <3>1. kinds \subseteq {Wanted(clauses, 1)}
      BY <1>2, <2>2
    <3>2. IsFiniteSet({Wanted(clauses, 1)}) /\ Cardinality({Wanted(clauses, 1)}) = 1
      BY FS_Singleton
    <3>3. Cardinality(kinds) \in Nat /\ Cardinality(kinds) <= 1
      <4>. HIDE DEF kinds
      <4>1. IsFiniteSet(kinds) /\ Cardinality(kinds) <= Cardinality({Wanted(clauses, 1)})
        BY <3>1, <3>2, FS_Subset
      <4>. QED
        BY <3>2, <4>1, FS_CardinalityType
    <3>. QED
      BY <3>3
  <2>3. Distinct(open) = Cardinality(kinds)
    BY <2>1 DEF Distinct
  <2>. HIDE DEF kinds
  <2>. QED
    BY <1>2, <2>2, <2>3 DEF Compound
<1>4. Route(message) = CompoundPlan(clauses)
  <2>1. "none" \notin Agents
    BY DEF Agents, Specialists
  <2>. QED
    BY <1>3, <2>1 DEF Route
<1>5. /\ Len(cut) \in Nat /\ DOMAIN cut = 1..Len(cut)
      /\ \A i \in 1..Len(cut) : i \in 1..Len(open) /\ cut[i] = open[i]
      /\ \A i \in 1..Len(open) : i <= MaxCompoundSteps <=> i \in 1..Len(cut)
  <2>. HIDE DEF open
  <2>. QED
    BY <1>1 DEF Truncated, MaxCompoundSteps
<1>6. /\ \A k \in kept : Place(k) \in 1..Len(cut)
                         /\ cut[Place(k)] = StepOf(clauses, k)
      /\ \A i \in 1..Len(cut) : \E k \in kept : Place(k) = i
      /\ \A k, l \in kept : Place(k) = Place(l) => k = l
  <2>. HIDE DEF open, openers, Place, cut
  <2>1. \A i \in 1..Len(cut) : i <= MaxCompoundSteps
    BY <1>5
  <2>. QED
    BY <1>1, <1>5, <2>1
<1>7. Len(cut) = Cardinality(kept)
  <2>1. IsFiniteSet(kept)
    BY <1>2, FS_Subset
  <2>2. ExistsBijection(kept, 1..Len(cut))
    <3>. DEFINE f == [k \in kept |-> Place(k)]
    <3>1. f \in Bijection(kept, 1..Len(cut))
      <4>1. /\ f \in [kept -> 1..Len(cut)] /\ \A k \in kept : f[k] = Place(k)
            /\ \A i \in 1..Len(cut) : \E k \in kept : f[k] = i
        <5>. HIDE DEF Place, cut, kept
        <5>. QED
          BY <1>6
      <4>2. \A k, l \in kept : f[k] = f[l] => k = l
        <5>. HIDE DEF Place, cut, kept, f
        <5>. QED
          BY <1>6, <4>1
      <4>. HIDE DEF Place, cut, kept, f
      <4>. QED
        BY <4>1, <4>2 DEF Bijection, Injection, Surjection, IsInjective
    <3>. QED
      BY <3>1 DEF ExistsBijection
  <2>3. Cardinality(1..Len(cut)) = Len(cut)
    <3>1. \A n \in Nat : Cardinality(1..n) = n
      BY FS_Interval
    <3>. HIDE DEF cut
    <3>. QED
      BY <1>5, <3>1
  <2>. QED
    <3>. HIDE DEF kept, cut
    <3>. QED
      BY <2>1, <2>2, <2>3, FS_Bijection
<1>8. /\ CompoundPlan(clauses).agents = [i \in 1..Len(cut) |-> cut[i].agent]
      /\ CompoundPlan(clauses).shape = ShapeOf(cut)
  BY <1>5 DEF CompoundPlan, Plan
<1>9. Len(Route(message).agents) = Len(cut)
  <2>. HIDE DEF cut, message
  <2>. QED
    BY <1>4, <1>5, <1>8
<1>10. \A k \in kept : Route(message).agents[Place(k)] = Wanted(clauses, k)
  <2>. HIDE DEF cut, message, Place, kept
  <2>1. \A k \in kept : StepOf(clauses, k).agent = Wanted(clauses, k)
    BY DEF StepOf
  <2>. QED
    BY <1>4, <1>6, <1>8, <2>1
<1>11. Route(message).shape = "parallel" <=>
         \A k \in kept : Place(k) = 1 \/ ~clauses[k].dependent
  <2>1. Route(message).shape = "parallel" <=> \A i \in 1..Len(cut) \ {1} : ~cut[i].dependent
    BY <1>4, <1>5, <1>8 DEF ShapeOf
  <2>2. \A k \in kept : cut[Place(k)].dependent = clauses[k].dependent
    <3>. HIDE DEF cut, Place, kept
    <3>1. \A k \in kept : StepOf(clauses, k).dependent = clauses[k].dependent
      BY DEF StepOf
    <3>. QED
      BY <1>6, <3>1
  <2>. HIDE DEF cut, message, Place, kept
  <2>. QED
    BY <1>6, <2>1, <2>2
<1>. QED
  BY <1>7, <1>9, <1>10, <1>11

-----------------------------------------------------------------------------
(* The run.                                                                *)

Running(i) == steps[i].status = "running"

(* A step has its task on the trace; while it runs no hop back, afterwards *)
(* one, which agrees with its status.                                      *)
HopOf(hs, k, i) == hs[k].step = i /\ hs[k].role # "task"
HasTask(hs, i) == \E k \in DOMAIN hs : hs[k] = [step |-> i, role |-> "task"]
IsTold(status, hs, i) ==
  IF status = "running" THEN \A k \in DOMAIN hs : ~HopOf(hs, k, i)
  ELSE \E k \in DOMAIN hs :
         /\ HopOf(hs, k, i)
         /\ hs[k].role = "result" <=> status = "succeeded"
         /\ \A l \in DOMAIN hs : HopOf(hs, l, i) => l = k
Traced(ss, hs) ==
  /\ \A i \in DOMAIN ss : HasTask(hs, i) /\ IsTold(ss[i].status, hs, i)
  /\ \A k \in DOMAIN hs : hs[k].step \in DOMAIN ss

(* Where a chain stands.                                                   *)
ChainProgress ==
  /\ Current <= Planned /\ stage # "gathering"
  /\ stage \in {"idle", "context"} => Current = 0
  /\ stage = "steps" => Current < Planned
  /\ stage \in {"looping", "closing", "replying", "done"} => Current = Planned
  /\ stage \in {"working", "looping"} => Current > 0 /\ Running(Current)
  /\ \A i \in 1..Current : i < Current => Succeeded(i)
  /\ stage \in {"steps", "closing", "replying", "done"} =>
       \A i \in 1..Current : Succeeded(i)
  /\ stage \in {"failing", "failed"} =>
       \/ Current < Planned /\ \A i \in 1..Current : Succeeded(i)
       \/ Current > 0 /\ steps[Current].status = "failed"

(* Where branches stand: those that are still to be taken up are the last  *)
(* ones of the plan.                                                       *)
BranchProgress ==
  /\ stage \notin {"working", "looping"}
  /\ stage \in {"idle", "context", "steps"} => Current = 0
  /\ stage \in {"gathering", "closing", "replying", "done"} => Current = Planned
  /\ stage = "gathering" =>
       \E i \in 1..Planned : \A j \in 1..Planned : Running(j) <=> j >= i
  /\ stage # "gathering" => \A i \in 1..Current : ~Running(i)
  /\ stage \in {"closing", "replying", "done"} => \E i \in 1..Planned : Succeeded(i)
  /\ stage \in {"failing", "failed"} => \A i \in 1..Current : ~Succeeded(i)

Progress ==
  /\ Chain => ChainProgress
  /\ ~Chain => BranchProgress
  /\ stage = "failed" => run.status = "failed"
  /\ stage \in {"replying", "done"} => run.status = "succeeded"
  /\ stage # "done" => reply = "none"
  /\ stage = "done" => reply = Composed

Spent ==
  /\ guard.cost = run.cost
  /\ \A i \in 1..Current : Running(i) => steps[i].cost = 0
  /\ run.cost = CostUpTo(steps)[Current]
  /\ Chain /\ Current > 0 => CostUpTo(steps)[Current - 1] < MaxRunCost
  /\ ~Chain /\ Current > 0 => 0 < MaxRunCost /\ Current = Planned

(* How far the loop has come: what it has still to run and what its model  *)
(* has not seen are the calls of one generation.                           *)
Asked == {k \in DOMAIN told : told[k].outcome = "approval_required"}
Looped ==
  /\ Len(audit) = Len(told)
  /\ \A k \in 1..Len(told) : Agree(audit[k], told[k])
  /\ read <= Len(told)
  /\ Len(told) - read + Len(loop.calls) <= MaxCalls
  /\ stage \notin {"looping", "closing", "replying", "done", "failing", "failed"} =>
       told = << >> /\ read = 0 /\ loop.calls = << >>
       /\ loop.iterations = 0 /\ ~loop.capped
  /\ stage = "looping" /\ loop.iterations = MaxIterations =>
       loop.calls # << >> \/ loop.capped
  /\ stage \in {"closing", "replying", "done"} => loop.capped \/ read = Len(told)
  /\ \A tool \in effects :
       TierOf(tool) = "green" \/ (TierOf(tool) = "yellow" /\ tool \in Allowances)
  /\ IsFiniteSet(Asked) /\ pending = Cardinality(Asked)

Inv == TypeOK /\ Traced(steps, hops) /\ Progress /\ Spent /\ Looped

-----------------------------------------------------------------------------
(* Costs add up one after the other.                                       *)
LEMMA CostRecur ==
  ASSUME NEW rows, Len(rows) \in Nat
  PROVE  /\ CostUpTo(rows)[0] = 0
         /\ \A k \in 1..Len(rows) :
              CostUpTo(rows)[k] = CostUpTo(rows)[k - 1] + rows[k].cost
<1>. DEFINE n == Len(rows)
            Body(g, k) == IF k = 0 THEN 0 ELSE g[k - 1] + rows[k].cost
            Is(g, m) == g = [k \in 0..m |-> Body(g, k)]
            S == {m \in 0..n : \E g : Is(g, m)}
<1>1. 0 \in S
  <2>1. Is([k \in 0..0 |-> 0], 0)
    OBVIOUS
  <2>2. \E g : Is(g, 0)
    <3>. HIDE DEF Is
    <3>. QED
      BY <2>1
  <2>. QED
    BY <2>2
<1>2. ASSUME NEW m \in 1..n, m - 1 \in S PROVE m \in S
  <2>1. PICK g : Is(g, m - 1)
    BY <1>2
  <2>. DEFINE h == [k \in 0..m |-> IF k < m THEN g[k] ELSE Body(g, m)]
  <2>2. ASSUME NEW k \in 0..m PROVE h[k] = Body(h, k)
    <3>1. CASE k < m
      <4>1. h[k] = Body(g, k)
        BY <2>1, <3>1
      <4>2. k # 0 => h[k - 1] = g[k - 1]
        BY <3>1
      <4>3. Body(h, k) = Body(g, k)
        <5>. HIDE DEF h
        <5>. QED
          BY <4>2
      <4>. QED
        BY <4>1, <4>3
    <3>2. CASE k = m
      BY <3>2
    <3>. QED
      BY <3>1, <3>2
  <2>3. Is(h, m)
    BY <2>2
  <2>4. \E i : Is(i, m)
    <3>. HIDE DEF Is, h
    <3>. QED
      BY <2>3
  <2>. QED
    BY <2>4
<1>3. n \in S
  <2>. HIDE DEF S
  <2>1. 0..n \subseteq S
    BY <1>1, <1>2, UpTo
  <2>. QED
    BY <2>1
<1>4. \E g : Is(g, n)
  BY <1>3
<1>5. CostUpTo(rows) = CHOOSE g : Is(g, n)
  BY DEF CostUpTo
<1>6. Is(CostUpTo(rows), n)
  <2>. HIDE DEF Is
  <2>. QED
    BY <1>4, <1>5
<1>7. \A k \in 0..n : CostUpTo(rows)[k] = Body(CostUpTo(rows), k)
  BY <1>6
<1>. QED
  BY <1>7

(* A step that is opened or closed adds its cost from there on.            *)
LEMMA CostOfStep ==
  ASSUME NEW rows \in Seq(Step), NEW more \in Seq(Step), Len(rows) <= Len(more),
         NEW i \in 1..Len(more), i \in 1..Len(rows) => rows[i].cost = 0,
         \A j \in 1..Len(rows) : j # i => more[j] = rows[j]
  PROVE  /\ \A k \in 0..Len(rows) :
              k < i => CostUpTo(more)[k] = CostUpTo(rows)[k]
         /\ \A k \in i..Len(rows) :
              CostUpTo(more)[k] = CostUpTo(rows)[k] + more[i].cost
         /\ \A k \in 0..Len(rows) : CostUpTo(rows)[k] \in Nat
<1>1. PICK n \in Nat, c \in Nat : n = Len(rows) /\ c = more[i].cost
  <2>1. more[i] \in Step /\ Len(rows) \in Nat
    OBVIOUS
  <2>. QED
    BY <2>1 DEF Step
<1>2. /\ Len(more) \in Nat /\ \A j \in 1..n : rows[j].cost \in Nat
  <2>1. \A j \in 1..n : rows[j] \in Step
    BY <1>1
  <2>. QED
    BY <2>1 DEF Step
<1>3. /\ CostUpTo(rows)[0] = 0 /\ CostUpTo(more)[0] = 0
      /\ \A k \in 1..n :
           /\ CostUpTo(rows)[k] = CostUpTo(rows)[k - 1] + rows[k].cost
           /\ CostUpTo(more)[k] = CostUpTo(more)[k - 1] + more[k].cost
  <2>1. \A k \in 1..n : k \in 1..Len(rows) /\ k \in 1..Len(more)
    BY <1>1, <1>2
  <2>. QED
    BY <1>1, <1>2, <2>1, CostRecur
<1>. DEFINE Holds(k) ==
              /\ CostUpTo(rows)[k] \in Nat
              /\ k < i => CostUpTo(more)[k] = CostUpTo(rows)[k]
              /\ k >= i => CostUpTo(more)[k] = CostUpTo(rows)[k] + c
            S == {k \in 0..n : Holds(k)}
<1>4. 0 \in S
  BY <1>3
<1>5. ASSUME NEW k \in 1..n, k - 1 \in S PROVE k \in S
  <2>1. Holds(k - 1)
    BY <1>5
  <2>2. PICK d \in Nat : d = rows[k].cost
    BY <1>2
  <2>3. /\ CostUpTo(rows)[k] = CostUpTo(rows)[k - 1] + d
        /\ CostUpTo(more)[k] = CostUpTo(more)[k - 1] + more[k].cost
        /\ k # i => more[k].cost = d
        /\ k = i => d = 0 /\ more[k].cost = c
    BY <1>1, <1>3, <2>2
  <2>4. CASE k = i
    BY <2>1, <2>3, <2>4
  <2>5. CASE k < i
    BY <2>1, <2>3, <2>5
  <2>6. CASE k > i
    <3>1. PICK before \in Nat : /\ CostUpTo(rows)[k - 1] = before
                                /\ CostUpTo(more)[k - 1] = before + c
      BY <2>1, <2>6
    <3>2. CostUpTo(rows)[k] = before + d /\ CostUpTo(more)[k] = (before + c) + d
      BY <2>3, <2>6, <3>1
    <3>3. (before + c) + d = (before + d) + c /\ before + d \in Nat /\ ~(k < i)
      BY <2>6
    <3>. QED
      BY <3>2, <3>3
  <2>. QED
    BY <2>4, <2>5, <2>6
<1>6. 0..n \subseteq S
  <2>. HIDE DEF S
  <2>. QED
    BY <1>4, <1>5, UpTo
<1>7. /\ \A k \in 0..n : Holds(k)
      /\ \A k \in i..n : k \in 0..n /\ k >= i
  BY <1>6
<1>. QED
  BY <1>1, <1>7

(* Steps that have cost nothing yet.                                       *)
LEMMA NoCost ==
  ASSUME NEW rows, Len(rows) \in Nat, \A j \in 1..Len(rows) : rows[j].cost = 0
  PROVE  \A k \in 0..Len(rows) : CostUpTo(rows)[k] = 0
<1>. DEFINE S == {k \in 0..Len(rows) : CostUpTo(rows)[k] = 0}
<1>1. 0 \in S
  BY CostRecur
<1>2. ASSUME NEW k \in 1..Len(rows), k - 1 \in S PROVE k \in S
  BY <1>2, CostRecur
<1>3. 0..Len(rows) \subseteq S
  <2>. HIDE DEF S
  <2>. QED
    BY <1>1, <1>2, UpTo
<1>. QED
  BY <1>3

-----------------------------------------------------------------------------
(* Types that the steps of the proof need again and again.                 *)
LEMMA Facts ==
  ASSUME TypeOK
  PROVE  /\ plan.agents \in Seq(Agents) /\ Planned \in Nat /\ Planned > 0
         /\ DOMAIN plan.agents = 1..Planned
         /\ \A i \in 1..Planned : plan.agents[i] \in Agents
         /\ steps \in Seq(Step) /\ Current \in Nat /\ DOMAIN steps = 1..Current
         /\ \A i \in 1..Current : steps[i] \in Step
         /\ hops \in Seq(Hop) /\ Len(hops) \in Nat /\ DOMAIN hops = 1..Len(hops)
         /\ run.cost \in Nat /\ guard.steps \in Nat /\ guard.cost \in Nat
<1>1. plan.agents \in Seq(Agents) /\ Planned > 0
  BY DEF TypeOK
<1>2. steps \in Seq(Step) /\ hops \in Seq(Hop)
  BY DEF TypeOK
<1>3. run.cost \in Nat /\ guard.steps \in Nat /\ guard.cost \in Nat
  BY DEF TypeOK
<1>4. /\ Len(plan.agents) \in Nat /\ DOMAIN plan.agents = 1..Len(plan.agents)
      /\ \A i \in 1..Len(plan.agents) : plan.agents[i] \in Agents
  <2>. PICK agents \in Seq(Agents) : agents = plan.agents
    BY <1>1
  <2>. HIDE DEF Agents
  <2>. QED
    OBVIOUS
<1>5. /\ Len(steps) \in Nat /\ DOMAIN steps = 1..Len(steps)
      /\ \A i \in 1..Len(steps) : steps[i] \in Step
  <2>. HIDE DEF Step
  <2>. QED
    BY <1>2
<1>6. Len(hops) \in Nat /\ DOMAIN hops = 1..Len(hops)
  BY <1>2
<1>. QED
  BY <1>1, <1>2, <1>3, <1>4, <1>5, <1>6 DEF Planned, Current

-----------------------------------------------------------------------------
(* The hops of steps that are opened and closed.                           *)
LEMMA TraceOpens ==
  ASSUME NEW ss \in Seq(Step), NEW hs \in Seq(Hop), Traced(ss, hs), NEW step,
         step.status = "running",
         NEW ss2, ss2 = Append(ss, step),
         NEW hs2, hs2 = Append(hs, [step |-> Len(ss) + 1, role |-> "task"])
  PROVE  Traced(ss2, hs2)
<1>. DEFINE n == Len(ss)
            h == Len(hs)
<1>1. /\ n \in Nat /\ h \in Nat /\ DOMAIN ss = 1..n /\ DOMAIN hs = 1..h
      /\ DOMAIN ss2 = 1..(n + 1) /\ DOMAIN hs2 = 1..(h + 1)
      /\ \A i \in 1..n : ss2[i] = ss[i]
      /\ ss2[n + 1] = step
      /\ \A k \in 1..h : hs2[k] = hs[k]
      /\ hs2[h + 1] = [step |-> n + 1, role |-> "task"]
  OBVIOUS
<1>. HIDE DEF n, h
<1>2. \A i \in 1..n : HasTask(hs2, i)
  BY <1>1 DEF Traced, HasTask
<1>3. HasTask(hs2, n + 1)
  BY <1>1 DEF HasTask
<1>4. ~HopOf(hs2, h + 1, n + 1) /\ \A i \in 1..n : ~HopOf(hs2, h + 1, i)
  BY <1>1 DEF HopOf
<1>5. \A k \in 1..h : \A i \in 1..(n + 1) : HopOf(hs2, k, i) <=> HopOf(hs, k, i)
  BY <1>1 DEF HopOf
<1>6. \A k \in 1..h : ~HopOf(hs, k, n + 1)
  BY <1>1 DEF HopOf, Traced
<1>7. ASSUME NEW i \in 1..n PROVE IsTold(ss2[i].status, hs2, i)
  <2>1. IsTold(ss[i].status, hs, i) /\ ss2[i] = ss[i] /\ i \in 1..(n + 1)
    BY <1>1 DEF Traced
  <2>2. CASE ss[i].status = "running"
    BY <1>1, <1>4, <1>5, <2>1, <2>2 DEF IsTold
  <2>3. CASE ss[i].status # "running"
    <3>1. PICK k \in 1..h :
                           /\ HopOf(hs, k, i)
                           /\ hs[k].role = "result" <=> ss[i].status = "succeeded"
                           /\ \A l \in 1..h : HopOf(hs, l, i) => l = k
      BY <1>1, <2>1, <2>3 DEF IsTold
    <3>2. k \in 1..(h + 1) /\ hs2[k] = hs[k]
      BY <1>1
    <3>3. HopOf(hs2, k, i)
      BY <1>5, <2>1, <3>1
    <3>4. \A l \in 1..h : HopOf(hs2, l, i) => l = k
      BY <1>5, <2>1, <3>1
    <3>5. ~HopOf(hs2, h + 1, i)
      BY <1>4, <2>1
    <3>6. \A l \in 1..(h + 1) : l \in 1..h \/ l = h + 1
      BY <1>1
    <3>7. \A l \in 1..(h + 1) : HopOf(hs2, l, i) => l = k
      BY <3>4, <3>5, <3>6
    <3>8. DOMAIN hs2 = 1..(h + 1)
      BY <1>1
    <3>. QED
      BY <2>1, <2>3, <3>1, <3>2, <3>3, <3>7, <3>8 DEF IsTold
  <2>. QED
    BY <2>2, <2>3
<1>8. IsTold(ss2[n + 1].status, hs2, n + 1)
  BY <1>1, <1>4, <1>5, <1>6 DEF IsTold
<1>9. \A k \in 1..(h + 1) : hs2[k].step \in 1..(n + 1)
  <2>1. \A k \in 1..h : hs2[k].step \in 1..(n + 1)
    <3>1. \A k \in 1..h : hs[k].step \in 1..n
      BY <1>1 DEF Traced
    <3>2. 1..n \subseteq 1..(n + 1)
      BY <1>1
    <3>3. \A k \in 1..h : hs2[k] = hs[k]
      BY <1>1
    <3>. QED
      BY <3>1, <3>2, <3>3
  <2>2. hs2[h + 1].step = n + 1 /\ n + 1 \in 1..(n + 1)
    BY <1>1
  <2>3. \A k \in 1..(h + 1) : k \in 1..h \/ k = h + 1
    BY <1>1
  <2>. QED
    BY <2>1, <2>2, <2>3
<1>. QED
  BY <1>1, <1>2, <1>3, <1>7, <1>8, <1>9 DEF Traced

LEMMA TraceCloses ==
  ASSUME NEW ss \in Seq(Step), NEW hs \in Seq(Hop), Traced(ss, hs),
         NEW i \in DOMAIN ss, ss[i].status = "running",
         NEW ss2, DOMAIN ss2 = DOMAIN ss,
         \A j \in DOMAIN ss : j # i => ss2[j] = ss[j],
         NEW role, role # "task", ss2[i].status # "running",
         role = "result" <=> ss2[i].status = "succeeded",
         NEW hs2, hs2 = Append(hs, [step |-> i, role |-> role])
  PROVE  Traced(ss2, hs2)
<1>. DEFINE n == Len(ss)
            h == Len(hs)
<1>1. /\ n \in Nat /\ h \in Nat /\ DOMAIN ss = 1..n /\ DOMAIN hs = 1..h
      /\ DOMAIN hs2 = 1..(h + 1)
      /\ \A k \in 1..h : hs2[k] = hs[k]
      /\ hs2[h + 1] = [step |-> i, role |-> role]
  OBVIOUS
<1>. HIDE DEF n, h
<1>2. \A j \in 1..n : HasTask(hs2, j)
  BY <1>1 DEF Traced, HasTask
<1>3. HopOf(hs2, h + 1, i) /\ \A j \in 1..n : j # i => ~HopOf(hs2, h + 1, j)
  BY <1>1 DEF HopOf
<1>4. \A k \in 1..h : \A j \in 1..n : HopOf(hs2, k, j) <=> HopOf(hs, k, j)
  BY <1>1 DEF HopOf
<1>5. ASSUME NEW j \in 1..n, j # i PROVE IsTold(ss2[j].status, hs2, j)
  <2>1. IsTold(ss[j].status, hs, j) /\ ss2[j] = ss[j]
    BY <1>1, <1>5 DEF Traced
  <2>2. CASE ss[j].status = "running"
    BY <1>1, <1>3, <1>4, <1>5, <2>1, <2>2 DEF IsTold
  <2>3. CASE ss[j].status # "running"
    <3>1. PICK k \in 1..h :
                           /\ HopOf(hs, k, j)
                           /\ hs[k].role = "result" <=> ss[j].status = "succeeded"
                           /\ \A l \in 1..h : HopOf(hs, l, j) => l = k
      BY <1>1, <2>1, <2>3 DEF IsTold
    <3>2. k \in 1..(h + 1) /\ hs2[k] = hs[k]
      BY <1>1
    <3>3. HopOf(hs2, k, j)
      BY <1>4, <2>1, <3>1
    <3>4. \A l \in 1..h : HopOf(hs2, l, j) => l = k
      BY <1>4, <2>1, <3>1
    <3>5. ~HopOf(hs2, h + 1, j)
      BY <1>3, <1>5
    <3>6. \A l \in 1..(h + 1) : l \in 1..h \/ l = h + 1
      BY <1>1
    <3>7. \A l \in 1..(h + 1) : HopOf(hs2, l, j) => l = k
      BY <3>4, <3>5, <3>6
    <3>8. DOMAIN hs2 = 1..(h + 1)
      BY <1>1
    <3>. QED
      BY <2>1, <2>3, <3>1, <3>2, <3>3, <3>7, <3>8 DEF IsTold
  <2>. QED
    BY <2>2, <2>3
<1>6. \A k \in 1..h : ~HopOf(hs2, k, i)
  BY <1>1, <1>4 DEF Traced, IsTold
<1>7. IsTold(ss2[i].status, hs2, i)
  <2>1. /\ h + 1 \in DOMAIN hs2 /\ HopOf(hs2, h + 1, i)
        /\ hs2[h + 1].role = "result" <=> ss2[i].status = "succeeded"
        /\ \A l \in DOMAIN hs2 : HopOf(hs2, l, i) => l = h + 1
    BY <1>1, <1>3, <1>6
  <2>. QED
    BY <2>1 DEF IsTold
<1>8. \A k \in 1..(h + 1) : hs2[k].step \in 1..n
  BY <1>1 DEF Traced
<1>. QED
  BY <1>1, <1>2, <1>5, <1>7, <1>8 DEF Traced

LEMMA TraceFansOut ==
  ASSUME NEW n \in Nat, NEW ss, NEW hs, DOMAIN ss = 1..n,
         \A i \in 1..n : ss[i].status = "running",
         hs = [i \in 1..n |-> [step |-> i, role |-> "task"]]
  PROVE  Traced(ss, hs)
BY DEF Traced, HasTask, IsTold, HopOf

-----------------------------------------------------------------------------
(* What closing a step does.                                               *)
LEMMA StepSucceeds ==
  ASSUME Inv, NEW i \in 1..Current, Running(i), NEW cost \in Nat, NEW said \in BOOLEAN,
         CloseSuccess(i, cost, said)
  PROVE  /\ steps' \in Seq(Step) /\ hops' \in Seq(Hop) /\ Traced(steps', hops')
         /\ Len(steps') = Current /\ DOMAIN steps' = 1..Current
         /\ \A j \in 1..Current : j # i => steps'[j] = steps[j]
         /\ steps'[i].status = "succeeded" /\ steps'[i].cost = cost
         /\ run' \in [status : {"none", "running", "succeeded", "failed"}, cost : Nat]
         /\ run'.cost = run.cost + cost /\ run'.status = run.status
         /\ guard' \in [steps : Nat, cost : Nat] /\ guard'.cost = guard.cost + cost
<1>1. /\ steps \in Seq(Step) /\ Current \in Nat /\ DOMAIN steps = 1..Current
      /\ steps[i] \in Step /\ hops \in Seq(Hop) /\ Len(steps) = Current
  BY Facts DEF Inv, Current
<1>2. PICK new : new = [steps[i] EXCEPT !.status = "succeeded", !.cost = cost, !.said = said]
  OBVIOUS
<1>3. new \in Step /\ new.status = "succeeded" /\ new.cost = cost
  <2>. HIDE DEF Agents
  <2>. QED
    BY <1>1, <1>2 DEF Step, StepStatuses
<1>4. steps' = [steps EXCEPT ![i] = new]
  BY <1>1, <1>2 DEF CloseSuccess
<1>5. /\ steps' \in Seq(Step) /\ DOMAIN steps' = 1..Current /\ Len(steps') = Current
      /\ \A j \in 1..Current : j # i => steps'[j] = steps[j]
      /\ steps'[i] = new
  <2>. HIDE DEF Step
  <2>. QED
    BY <1>1, <1>3, <1>4
<1>6. hops' = Append(hops, [step |-> i, role |-> "result"])
  BY DEF CloseSuccess
<1>7. hops' \in Seq(Hop)
  <2>1. [step |-> i, role |-> "result"] \in Hop
    BY <1>1 DEF Hop
  <2>. QED
    BY <1>1, <1>6, <2>1
<1>8. Traced(steps', hops')
  <2>1. Traced(steps, hops) /\ i \in DOMAIN steps /\ steps[i].status = "running"
    BY <1>1 DEF Inv, Running
  <2>2. steps'[i].status # "running" /\ ("result" = "result" <=> steps'[i].status = "succeeded")
    BY <1>3, <1>5
  <2>. QED
    BY <1>1, <1>5, <1>6, <2>1, <2>2, TraceCloses
<1>9. /\ run' = [run EXCEPT !.cost = @ + cost]
      /\ guard' = [steps |-> guard.steps + 1, cost |-> guard.cost + cost]
      /\ run \in [status : {"none", "running", "succeeded", "failed"}, cost : Nat]
      /\ guard \in [steps : Nat, cost : Nat]
  BY DEF CloseSuccess, Inv, TypeOK
<1>. QED
  BY <1>3, <1>5, <1>7, <1>8, <1>9

LEMMA StepFailed ==
  ASSUME Inv, NEW i \in 1..Current, Running(i), CloseFailure(i)
  PROVE  /\ steps' \in Seq(Step) /\ hops' \in Seq(Hop) /\ Traced(steps', hops')
         /\ Len(steps') = Current /\ DOMAIN steps' = 1..Current
         /\ \A j \in 1..Current : j # i => steps'[j] = steps[j]
         /\ steps'[i].status = "failed" /\ steps'[i].cost = steps[i].cost
<1>1. /\ steps \in Seq(Step) /\ Current \in Nat /\ DOMAIN steps = 1..Current
      /\ steps[i] \in Step /\ hops \in Seq(Hop) /\ Len(steps) = Current
  BY Facts DEF Inv, Current
<1>2. PICK new : new = [steps[i] EXCEPT !.status = "failed"]
  OBVIOUS
<1>3. new \in Step /\ new.status = "failed" /\ new.cost = steps[i].cost
  <2>. HIDE DEF Agents
  <2>. QED
    BY <1>1, <1>2 DEF Step, StepStatuses
<1>4. steps' = [steps EXCEPT ![i] = new]
  BY <1>1, <1>2 DEF CloseFailure
<1>5. /\ steps' \in Seq(Step) /\ DOMAIN steps' = 1..Current /\ Len(steps') = Current
      /\ \A j \in 1..Current : j # i => steps'[j] = steps[j]
      /\ steps'[i] = new
  <2>. HIDE DEF Step
  <2>. QED
    BY <1>1, <1>3, <1>4
<1>6. hops' = Append(hops, [step |-> i, role |-> "error"])
  BY DEF CloseFailure
<1>7. hops' \in Seq(Hop)
  <2>1. [step |-> i, role |-> "error"] \in Hop
    BY <1>1 DEF Hop
  <2>. QED
    BY <1>1, <1>6, <2>1
<1>8. Traced(steps', hops')
  <2>1. Traced(steps, hops) /\ i \in DOMAIN steps /\ steps[i].status = "running"
    BY <1>1 DEF Inv, Running
  <2>2. steps'[i].status # "running" /\ ("error" = "result" <=> steps'[i].status = "succeeded")
    BY <1>3, <1>5
  <2>. QED
    BY <1>1, <1>5, <1>6, <2>1, <2>2, TraceCloses
<1>. QED
  BY <1>3, <1>5, <1>7, <1>8

(* A step that leaves the loop alone.                                      *)
Early == {"idle", "context", "steps", "working", "gathering"}
Answered == {"closing", "replying", "done"}

LEMMA LoopRests ==
  ASSUME Inv, UNCHANGED tools, Assumption, stage' \in Stages,
         stage' \in Early => stage \in Early,
         stage' = "looping" => stage \in Early,
         stage' \in Answered => stage \in Early \cup Answered \/ loop.capped
  PROVE  Looped'
<1>1. /\ Looped /\ stage \in Stages /\ UNCHANGED <<loop, told, read, audit, pending, effects>>
      /\ MaxIterations > 0
  BY DEF Inv, TypeOK, tools, Assumption
<1>2. Asked' = Asked /\ \A k \in 1..Len(told) : Agree(audit[k], told[k])' = Agree(audit[k], told[k])
  BY <1>1 DEF Asked, Agree
<1>3. stage \in Early => told = << >> /\ read = 0 /\ loop.calls = << >>
                           /\ loop.iterations = 0 /\ ~loop.capped
  BY <1>1 DEF Looped, Early
<1>4. stage' \notin {"looping", "closing", "replying", "done", "failing", "failed"} =>
        stage \in Early
  BY DEF Stages, Early
<1>5. stage' \in Answered => loop.capped \/ read = Len(told)
  BY <1>1, <1>3 DEF Looped, Answered
<1>. QED
  BY <1>1, <1>2, <1>3, <1>4, <1>5 DEF Looped, Answered

-----------------------------------------------------------------------------
(* The initial state, and the steps that open the run.                     *)
LEMMA InvInit ==
  ASSUME Assumption, Init
  PROVE  Inv
<1>1. /\ plan = [shape |-> "single", agents |-> << "general" >>]
      /\ stage = "idle" /\ run = [status |-> "none", cost |-> 0]
      /\ steps = << >> /\ hops = << >> /\ guard = [steps |-> 0, cost |-> 0]
      /\ informed = << >> /\ loop = [iterations |-> 0, calls |-> << >>, capped |-> FALSE]
      /\ told = << >> /\ read = 0 /\ audit = << >> /\ pending = 0 /\ effects = {}
      /\ reply = "none"
  BY DEF Init, Plan
<1>2. /\ "general" \in Agents /\ "single" \in Shapes
  BY DEF Agents, Shapes
<1>3. /\ plan \in [shape : Shapes, agents : Seq(Agents)] /\ Planned > 0
  <2>. HIDE DEF Agents, Shapes
  <2>1. << "general" >> \in Seq(Agents) /\ Len(<< "general" >>) = 1
    BY <1>2
  <2>. QED
    BY <1>1, <1>2, <2>1 DEF Planned
<1>4. /\ 0 \in 0..MaxIterations /\ FALSE \in BOOLEAN /\ MaxCalls \in Nat
  BY DEF Assumption
<1>5. loop \in [iterations : 0..MaxIterations, calls : Seq(Requested), capped : BOOLEAN]
  BY <1>1, <1>4
<1>6. TypeOK
  BY <1>1, <1>3, <1>5 DEF TypeOK, Stages
<1>7. Traced(steps, hops)
  BY <1>1 DEF Traced
<1>8. Current = 0
  BY <1>1 DEF Current
<1>9. Planned \in Nat
  BY <1>6, Facts
<1>10. Progress
  BY <1>1, <1>3, <1>8, <1>9 DEF Progress, ChainProgress, BranchProgress
<1>11. Spent
  BY <1>1, <1>8, NoCost DEF Spent
<1>12. Asked = {}
  BY <1>1 DEF Asked
<1>13. Looped
  BY <1>1, <1>4, <1>12, FS_EmptySet DEF Looped, Assumption
<1>. QED
  BY <1>6, <1>7, <1>10, <1>11, <1>13 DEF Inv

LEMMA OpenRunSteps ==
  ASSUME Assumption, Inv, NEW message \in Messages, OpenRun(message)
  PROVE  Inv'
<1>1. /\ stage = "idle" /\ stage' = "context" /\ plan' = Route(message)
      /\ run' = [run EXCEPT !.status = "running"]
      /\ UNCHANGED <<steps, hops, guard, informed, loop, told, read, audit, pending,
                     effects, reply>>
  BY DEF OpenRun, tools
<1>2. plan' \in [shape : Shapes, agents : Seq(Agents) \ {<< >>}]
  <2>1. Route(message) \in [shape : Shapes, agents : Seq(Agents) \ {<< >>}]
    BY RoutesToKnownAgents DEF Assumption
  <2>. QED
    BY <1>1, <2>1
<1>3. plan' \in [shape : Shapes, agents : Seq(Agents)] /\ Planned' > 0 /\ Planned' \in Nat
  <2>. HIDE DEF Shapes, Agents
  <2>1. plan'.agents \in Seq(Agents) /\ plan'.agents # << >>
    BY <1>2
  <2>2. PICK agents \in Seq(Agents) : agents = plan'.agents /\ agents # << >>
    BY <2>1
  <2>3. Len(agents) > 0 /\ Len(agents) \in Nat
    BY <2>2
  <2>. QED
    BY <1>2, <2>2, <2>3 DEF Planned
<1>4. TypeOK'
  BY <1>1, <1>3 DEF Inv, TypeOK, Stages
<1>5. Current = 0 /\ Current' = 0
  BY <1>1, Facts DEF Inv, Progress, ChainProgress, BranchProgress, Current
<1>6. Progress'
  BY <1>1, <1>3, <1>5 DEF Inv, Progress, ChainProgress, BranchProgress
<1>7. Spent'
  BY <1>1, <1>5 DEF Inv, TypeOK, Spent
<1>8. Looped'
  BY <1>1, LoopRests DEF tools, Early, Answered, Stages
<1>. QED
  BY <1>1, <1>4, <1>6, <1>7, <1>8 DEF Inv

(* Steps that only move the orchestrator on.                               *)
LEMMA MovesOn ==
  ASSUME Assumption, Inv, stage' \in Stages,
         UNCHANGED <<plan, steps, hops, guard, informed, loop, told, read, audit,
                     pending, effects>>,
         run' \in [status : {"none", "running", "succeeded", "failed"}, cost : Nat],
         run'.cost = run.cost, reply' \in {"none", "empty", "text"}, Progress',
         stage' \in Early => stage \in Early,
         stage' = "looping" => stage \in Early,
         stage' \in Answered => stage \in Early \cup Answered
  PROVE  Inv'
<1>1. TypeOK'
  BY DEF Inv, TypeOK, Planned
<1>2. Spent'
  BY DEF Inv, Spent, Current, Planned, Running, Chain
<1>3. Looped'
  BY LoopRests DEF tools
<1>. QED
  BY <1>1, <1>2, <1>3 DEF Inv

LEMMA BuildContextSteps ==
  ASSUME Assumption, Inv, NEW ok \in BOOLEAN, BuildContext(ok)
  PROVE  Inv'
<1>1. /\ stage = "context" /\ stage' \in {"steps", "failing"}
      /\ UNCHANGED <<plan, run, steps, hops, guard, informed, loop, told, read, audit,
                     pending, effects, reply>>
  BY DEF BuildContext, trace, tools
<1>2. Current = 0 /\ Planned > 0 /\ Planned \in Nat
  BY <1>1, Facts DEF Inv, Progress, ChainProgress, BranchProgress
<1>3. Current' = 0 /\ Planned' = Planned /\ (Chain' <=> Chain)
  BY <1>1, <1>2 DEF Current, Planned, Chain
<1>4. Progress'
  BY <1>1, <1>2, <1>3 DEF Inv, Progress, ChainProgress, BranchProgress
<1>. QED
  BY <1>1, <1>4, MovesOn DEF Inv, TypeOK, Stages, Early, Answered

LEMMA BudgetSteps ==
  ASSUME Assumption, Inv, BudgetStops
  PROVE  Inv'
<1>1. /\ stage = "steps" /\ stage' = "failing"
      /\ UNCHANGED <<plan, run, steps, hops, guard, informed, loop, told, read, audit,
                     pending, effects, reply>>
  BY DEF BudgetStops, trace, tools
<1>2. /\ Current' = Current /\ Planned' = Planned /\ (Chain' <=> Chain)
      /\ \A i : (Succeeded(i)' <=> Succeeded(i)) /\ (Running(i)' <=> Running(i))
  BY <1>1 DEF Current, Planned, Chain, Succeeded, Running
<1>3. Current \in Nat /\ Planned \in Nat
  BY Facts DEF Inv
<1>4. Progress'
  BY <1>1, <1>2, <1>3 DEF Inv, Progress, ChainProgress, BranchProgress
<1>. QED
  BY <1>1, <1>4, MovesOn DEF Inv, TypeOK, Stages, Early, Answered

LEMMA EndSteps ==
  ASSUME Assumption, Inv, FailRun \/ CloseRun \/ Reply
  PROVE  Inv'
<1>1. /\ UNCHANGED <<plan, steps, hops, guard, informed, loop, told, read, audit,
                     pending, effects>>
      /\ run \in [status : {"none", "running", "succeeded", "failed"}, cost : Nat]
  BY DEF FailRun, CloseRun, Reply, trace, tools, Inv, TypeOK
<1>2. /\ Current' = Current /\ Planned' = Planned /\ (Chain' <=> Chain)
      /\ \A i : (Succeeded(i)' <=> Succeeded(i)) /\ (Running(i)' <=> Running(i))
      /\ steps' = steps /\ Composed' = Composed
  BY <1>1 DEF Current, Planned, Chain, Succeeded, Running, Composed
<1>3. Current \in Nat /\ Planned \in Nat
  BY Facts DEF Inv
<1>4. CASE FailRun
  <2>1. /\ stage = "failing" /\ stage' = "failed" /\ reply' = reply
        /\ run' \in [status : {"none", "running", "succeeded", "failed"}, cost : Nat]
        /\ run'.cost = run.cost /\ run'.status = "failed"
    BY <1>1, <1>4 DEF FailRun
  <2>2. Progress'
    BY <1>2, <1>3, <2>1 DEF Inv, Progress, ChainProgress, BranchProgress
  <2>. QED
    BY <1>1, <2>1, <2>2, MovesOn DEF Inv, TypeOK, Stages, Early, Answered
<1>5. CASE CloseRun
  <2>1. /\ stage = "closing" /\ stage' = "replying" /\ reply' = reply
        /\ run' \in [status : {"none", "running", "succeeded", "failed"}, cost : Nat]
        /\ run'.cost = run.cost /\ run'.status = "succeeded"
    BY <1>1, <1>5 DEF CloseRun
  <2>2. Progress'
    BY <1>2, <1>3, <2>1 DEF Inv, Progress, ChainProgress, BranchProgress
  <2>. QED
    BY <1>1, <2>1, <2>2, MovesOn DEF Inv, TypeOK, Stages, Early, Answered
<1>6. CASE Reply
  <2>1. stage = "replying" /\ stage' = "done" /\ run' = run /\ reply' = Composed
    BY <1>6 DEF Reply, trace
  <2>2. Composed \in {"empty", "text"}
    BY DEF Composed
  <2>3. Progress'
    BY <1>2, <1>3, <2>1 DEF Inv, Progress, ChainProgress, BranchProgress
  <2>. QED
    BY <1>1, <2>1, <2>2, <2>3, MovesOn DEF Stages, Early, Answered
<1>. QED
  BY <1>4, <1>5, <1>6

-----------------------------------------------------------------------------
(* Opening steps.                                                          *)
LEMMA OpenStepSteps ==
  ASSUME Assumption, Inv, OpenStep
  PROVE  Inv'
<1>0. PICK i \in Nat : i = Current + 1
  BY Facts DEF Inv
<1>1. /\ stage = "steps" /\ Chain /\ WithinCaps(1)
      /\ steps' = Append(steps, Opened(plan.agents[i]))
      /\ hops' = Append(hops, [step |-> i, role |-> "task"])
      /\ informed' = Append(informed, Findings(i))
      /\ stage' \in {"looping", "working"} /\ (stage' = "looping" => i = Planned)
      /\ UNCHANGED <<plan, run, guard, loop, told, read, audit, pending, effects, reply>>
  BY <1>0 DEF OpenStep, tools
<1>2. /\ steps \in Seq(Step) /\ Current \in Nat /\ Len(steps) = Current
      /\ hops \in Seq(Hop) /\ Planned \in Nat /\ DOMAIN steps = 1..Current
      /\ \A a \in 1..Planned : plan.agents[a] \in Agents
  BY Facts DEF Inv, Current
<1>3. Current < Planned /\ i \in 1..Planned /\ i \in Nat
  BY <1>0, <1>1, <1>2 DEF Inv, Progress, ChainProgress
<1>4. PICK new : new = Opened(plan.agents[i])
  OBVIOUS
<1>5. new \in Step /\ new.status = "running" /\ new.cost = 0
  <2>1. plan.agents[i] \in Agents
    BY <1>2, <1>3
  <2>. HIDE DEF Agents
  <2>. QED
    BY <1>4, <2>1 DEF Opened, Step, StepStatuses
<1>6. /\ steps' \in Seq(Step) /\ Len(steps') = i /\ DOMAIN steps' = 1..i
      /\ \A j \in 1..Current : steps'[j] = steps[j]
      /\ steps'[i] = new
  <2>. HIDE DEF Step
  <2>. QED
    BY <1>0, <1>1, <1>2, <1>4, <1>5
<1>7. hops' \in Seq(Hop)
  <2>1. [step |-> i, role |-> "task"] \in Hop
    BY <1>3 DEF Hop
  <2>. QED
    BY <1>1, <1>2, <2>1
<1>8. Traced(steps', hops')
  <2>1. Traced(steps, hops) /\ steps' = Append(steps, new)
        /\ hops' = Append(hops, [step |-> Len(steps) + 1, role |-> "task"])
    BY <1>0, <1>1, <1>2, <1>4 DEF Inv
  <2>. QED
    BY <1>2, <1>5, <2>1, TraceOpens
<1>9. informed' \in Seq(SUBSET Nat)
  <2>1. Findings(i) \in SUBSET Nat
    BY <1>3 DEF Findings
  <2>. QED
    BY <1>1, <2>1 DEF Inv, TypeOK
<1>10. TypeOK'
  <2>1. Planned' = Planned /\ Planned > 0
    BY <1>1 DEF Inv, TypeOK, Planned
  <2>2. stage' \in Stages
    BY <1>1 DEF Stages
  <2>3. /\ plan' \in [shape : Shapes, agents : Seq(Agents)]
        /\ run' \in [status : {"none", "running", "succeeded", "failed"}, cost : Nat]
        /\ guard' \in [steps : Nat, cost : Nat] /\ reply' \in {"none", "empty", "text"}
    BY <1>1 DEF Inv, TypeOK
  <2>. QED
    BY <1>1, <1>6, <1>7, <1>9, <2>1, <2>2, <2>3 DEF Inv, TypeOK
<1>11. /\ Current' = i /\ Planned' = Planned /\ (Chain' <=> Chain) /\ i - 1 = Current
       /\ i > 0 /\ i <= Planned
  BY <1>0, <1>1, <1>2, <1>3, <1>6 DEF Current, Planned, Chain
<1>12. \A j \in 1..Current : Succeeded(j)'
  BY <1>1, <1>6 DEF Inv, Progress, ChainProgress, Succeeded
<1>13. Running(i)'
  BY <1>5, <1>6 DEF Running
<1>14. Progress'
  <2>1. ChainProgress'
    BY <1>1, <1>2, <1>11, <1>12, <1>13 DEF ChainProgress
  <2>. QED
    BY <1>1, <1>11, <2>1 DEF Inv, Progress
<1>15. Spent'
  <2>1. /\ guard.cost = run.cost /\ guard' = guard /\ run' = run /\ run.cost \in Nat
        /\ \A j \in 1..Current : Running(j) => steps[j].cost = 0
    BY <1>1, Facts DEF Inv, Spent
  <2>2. \A j \in 1..i : Running(j)' => steps'[j].cost = 0
    <3>1. \A j \in 1..i : j \in 1..Current \/ j = i
      BY <1>0, <1>2
    <3>. QED
      BY <1>5, <1>6, <2>1, <3>1 DEF Running
  <2>3. /\ CostUpTo(steps')[i - 1] = CostUpTo(steps)[Current]
        /\ CostUpTo(steps')[i] = CostUpTo(steps)[Current]
    <3>1. /\ steps \in Seq(Step) /\ steps' \in Seq(Step) /\ Current \in Nat
          /\ Len(steps) = Current /\ Len(steps') = i /\ 0 \in Nat
      BY <1>0, <1>2, <1>6, Facts DEF Inv, TypeOK, Current
    <3>2. PICK rows \in Seq(Step), more \in Seq(Step), n \in Nat :
            rows = steps /\ more = steps' /\ n = Current
      BY <3>1
    <3>3. /\ Len(rows) = n /\ Len(more) = n + 1 /\ i = n + 1 /\ i \in Nat
          /\ more[i].cost = 0
          /\ \A j \in 1..n : more[j] = rows[j]
      BY <1>2, <1>5, <1>6, <1>11, <3>1, <3>2
    <3>4. /\ CostUpTo(rows)[n] \in Nat
          /\ CostUpTo(more)[n] = CostUpTo(rows)[n]
      <4>1. /\ n \in 0..Len(rows) /\ n < i /\ i \in 1..Len(more)
            /\ i \notin 1..Len(rows) /\ Len(rows) <= Len(more)
            /\ \A j \in 1..Len(rows) : j # i => more[j] = rows[j]
        BY <3>3
      <4>. QED
        BY <4>1, CostOfStep
    <3>5. CostUpTo(more)[n + 1] = CostUpTo(more)[n] + more[n + 1].cost
      <4>1. Len(more) \in Nat /\ n + 1 \in 1..Len(more) /\ (n + 1) - 1 = n
        BY <3>3
      <4>. QED
        BY <4>1, CostRecur
    <3>. QED
      BY <1>11, <3>2, <3>3, <3>4, <3>5
  <2>4. run.cost = CostUpTo(steps)[Current] /\ run.cost < MaxRunCost
    BY <1>1, <2>1 DEF Inv, Spent, WithinCaps
  <2>. QED
    BY <1>1, <1>11, <2>1, <2>2, <2>3, <2>4 DEF Spent
<1>16. Looped'
  BY <1>1, LoopRests DEF tools, Early, Answered, Stages
<1>. QED
  BY <1>8, <1>10, <1>14, <1>15, <1>16 DEF Inv

LEMMA FanOutSteps ==
  ASSUME Assumption, Inv, FanOut
  PROVE  Inv'
<1>1. /\ stage = "steps" /\ ~Chain /\ stage' = "gathering"
      /\ steps' = [i \in 1..Planned |-> Opened(plan.agents[i])]
      /\ hops' = [i \in 1..Planned |-> [step |-> i, role |-> "task"]]
      /\ informed' = [i \in 1..Planned |-> {}]
      /\ UNCHANGED <<plan, run, guard, loop, told, read, audit, pending, effects, reply>>
  BY DEF FanOut, tools
<1>2. /\ Planned \in Nat /\ Planned > 0 /\ \A a \in 1..Planned : plan.agents[a] \in Agents
  BY Facts DEF Inv
<1>3. \A i \in 1..Planned : Opened(plan.agents[i]) \in Step
  <2>. HIDE DEF Agents
  <2>. QED
    BY <1>2 DEF Opened, Step, StepStatuses
<1>4. /\ DOMAIN steps' = 1..Planned
      /\ \A i \in 1..Planned : steps'[i].status = "running" /\ steps'[i].cost = 0
  BY <1>1 DEF Opened
<1>5. steps' \in Seq(Step) /\ Len(steps') = Planned
  <2>. HIDE DEF Step
  <2>. QED
    BY <1>1, <1>2, <1>3
<1>6. hops' \in Seq(Hop)
  <2>1. \A i \in 1..Planned : [step |-> i, role |-> "task"] \in Hop
    BY <1>2 DEF Hop
  <2>. QED
    BY <1>1, <1>2, <2>1
<1>7. Traced(steps', hops')
  BY <1>1, <1>2, <1>4, TraceFansOut
<1>8. informed' \in Seq(SUBSET Nat)
  BY <1>1, <1>2
<1>9. TypeOK'
  <2>1. Planned' = Planned
    BY <1>1 DEF Planned
  <2>2. stage' \in Stages
    BY <1>1 DEF Stages
  <2>3. /\ plan' \in [shape : Shapes, agents : Seq(Agents)]
        /\ run' \in [status : {"none", "running", "succeeded", "failed"}, cost : Nat]
        /\ guard' \in [steps : Nat, cost : Nat] /\ reply' \in {"none", "empty", "text"}
    BY <1>1 DEF Inv, TypeOK
  <2>. QED
    BY <1>1, <1>2, <1>5, <1>6, <1>8, <2>1, <2>2, <2>3 DEF Inv, TypeOK
<1>10. Current' = Planned /\ Planned' = Planned /\ (Chain' <=> Chain)
  BY <1>1, <1>5 DEF Current, Planned, Chain
<1>11. Progress'
  <2>1. \A j \in 1..Planned : Running(j)' /\ j >= 1
    BY <1>2, <1>4 DEF Running
  <2>2. 1 \in 1..Planned
    BY <1>2
  <2>3. BranchProgress'
    BY <1>1, <1>10, <2>1, <2>2 DEF BranchProgress
  <2>. QED
    BY <1>1, <1>10, <2>3 DEF Inv, Progress
<1>12. Spent'
  <2>1. CostUpTo(steps')[Planned] = 0
    BY <1>2, <1>4, <1>5, NoCost
  <2>2. run.cost = 0
    <3>1. Current = 0 /\ Len(steps) = 0
      BY <1>1, Facts DEF Inv, Progress, BranchProgress, Current
    <3>. QED
      BY <3>1, NoCost DEF Inv, Spent
  <2>3. 0 < MaxRunCost
    BY <1>1, <2>2 DEF FanOut, WithinCaps, Inv, Spent
  <2>. QED
    BY <1>1, <1>4, <1>10, <2>1, <2>2, <2>3 DEF Inv, Spent
<1>13. Looped'
  BY <1>1, LoopRests DEF tools, Early, Answered, Stages
<1>. QED
  BY <1>7, <1>9, <1>11, <1>12, <1>13 DEF Inv

-----------------------------------------------------------------------------
(* A step of a chain ends.                                                 *)
LEMMA InChain ==
  ASSUME Inv, stage \in {"working", "looping"}
  PROVE  /\ Chain /\ Current > 0 /\ Current \in 1..Current /\ Running(Current)
         /\ Current \in Nat /\ Planned \in Nat /\ Current <= Planned
         /\ stage = "looping" => Current = Planned
         /\ \A i \in 1..Current : i < Current => Succeeded(i)
BY Facts DEF Inv, Progress, ChainProgress, BranchProgress

LEMMA FinishSteps ==
  ASSUME Assumption, Inv, stage \in {"working", "looping"}, NEW cost \in Nat,
         NEW said \in BOOLEAN, Finish(cost, said), UNCHANGED <<plan, informed, reply>>
  PROVE  /\ stage' \in {"closing", "steps"} /\ (stage = "looping" => stage' = "closing")
         /\ Traced(steps', hops') /\ Progress' /\ Spent'
         /\ plan' \in [shape : Shapes, agents : Seq(Agents)] /\ Planned' > 0
         /\ run' \in [status : {"none", "running", "succeeded", "failed"}, cost : Nat]
         /\ steps' \in Seq(Step) /\ hops' \in Seq(Hop)
         /\ guard' \in [steps : Nat, cost : Nat]
         /\ informed' \in Seq(SUBSET Nat) /\ reply' \in {"none", "empty", "text"}
<1>1. /\ Chain /\ Current > 0 /\ Current \in Nat /\ Planned \in Nat /\ Running(Current)
      /\ Current <= Planned /\ (stage = "looping" => Current = Planned)
      /\ \A i \in 1..Current : i < Current => Succeeded(i)
  BY InChain
<1>2. PICK i \in 1..Current : i = Current
  BY <1>1
<1>3. CloseSuccess(i, cost, said) /\ Running(i)
  BY <1>1, <1>2 DEF Finish
<1>4. /\ steps' \in Seq(Step) /\ hops' \in Seq(Hop) /\ Traced(steps', hops')
      /\ Len(steps') = i
      /\ \A j \in 1..i : j # i => steps'[j] = steps[j]
      /\ steps'[i].status = "succeeded" /\ steps'[i].cost = cost
      /\ run' \in [status : {"none", "running", "succeeded", "failed"}, cost : Nat]
      /\ run'.cost = run.cost + cost
      /\ guard' \in [steps : Nat, cost : Nat] /\ guard'.cost = guard.cost + cost
  BY <1>2, <1>3, StepSucceeds
<1>5. stage' = IF i = Planned THEN "closing" ELSE "steps"
  BY <1>2 DEF Finish, Terminal
<1>6. Current' = i /\ Planned' = Planned /\ Chain'
  BY <1>1, <1>4 DEF Current, Planned, Chain
<1>7. \A j \in 1..i : Succeeded(j)'
  BY <1>1, <1>2, <1>4 DEF Succeeded
<1>8. Progress'
  <2>1. ChainProgress'
    BY <1>1, <1>2, <1>5, <1>6, <1>7 DEF ChainProgress
  <2>2. stage # "done" /\ stage' \notin {"failed", "replying", "done"} /\ reply' = reply
    BY <1>5
  <2>. QED
    BY <1>6, <2>1, <2>2 DEF Inv, Progress
<1>9. Spent'
  <2>1. guard.cost = run.cost /\ run.cost \in Nat /\ steps[i].cost = 0
        /\ run.cost = CostUpTo(steps)[i] /\ CostUpTo(steps)[i - 1] < MaxRunCost
    BY <1>1, <1>2, <1>3, Facts DEF Inv, Spent
  <2>2. \A j \in 1..i : ~Running(j)'
    BY <1>7 DEF Running, Succeeded
  <2>3. /\ CostUpTo(steps')[i] = CostUpTo(steps)[i] + cost
        /\ CostUpTo(steps')[i - 1] = CostUpTo(steps)[i - 1]
    <3>1. PICK rows \in Seq(Step), more \in Seq(Step) : rows = steps /\ more = steps'
      BY <1>4 DEF Inv, TypeOK
    <3>2. /\ Len(rows) = i /\ Len(more) = i /\ i \in 1..Len(rows) /\ rows[i].cost = 0
          /\ \A j \in 1..Len(rows) : j # i => more[j] = rows[j]
          /\ more[i].cost = cost
      BY <1>1, <1>2, <1>4, <2>1, <3>1 DEF Current
    <3>3. /\ \A k \in 0..Len(rows) :
               k < i => CostUpTo(more)[k] = CostUpTo(rows)[k]
          /\ \A k \in i..Len(rows) :
               CostUpTo(more)[k] = CostUpTo(rows)[k] + more[i].cost
      BY <3>2, CostOfStep
    <3>4. i - 1 \in 0..Len(rows) /\ i - 1 < i /\ i \in i..Len(rows)
      BY <3>2
    <3>. QED
      BY <3>1, <3>2, <3>3, <3>4
  <2>. QED
    BY <1>1, <1>4, <1>6, <2>1, <2>2, <2>3 DEF Spent
<1>10. /\ plan' \in [shape : Shapes, agents : Seq(Agents)] /\ Planned' > 0
       /\ informed' \in Seq(SUBSET Nat) /\ reply' \in {"none", "empty", "text"}
  BY <1>6 DEF Inv, TypeOK
<1>. QED
  BY <1>1, <1>2, <1>4, <1>5, <1>8, <1>9, <1>10

LEMMA AnswerSteps ==
  ASSUME Assumption, Inv, NEW cost \in Nat, NEW said \in BOOLEAN,
         \/ Answer(cost, said)
         \/ AnswerAtTheCap(cost) /\ said = TRUE
  PROVE  Inv'
<1>1. /\ stage = "working" \/ (stage = "looping" /\ loop.capped)
      /\ Finish(cost, said)
      /\ UNCHANGED <<plan, informed, loop, told, read, audit, pending, effects, reply>>
  BY DEF Answer, AnswerAtTheCap, tools
<1>2. /\ stage' \in {"closing", "steps"} /\ (stage = "looping" => stage' = "closing")
      /\ Traced(steps', hops') /\ Progress' /\ Spent'
      /\ plan' \in [shape : Shapes, agents : Seq(Agents)] /\ Planned' > 0
      /\ run' \in [status : {"none", "running", "succeeded", "failed"}, cost : Nat]
      /\ steps' \in Seq(Step) /\ hops' \in Seq(Hop)
      /\ guard' \in [steps : Nat, cost : Nat]
      /\ informed' \in Seq(SUBSET Nat) /\ reply' \in {"none", "empty", "text"}
  BY <1>1, FinishSteps
<1>3. TypeOK'
  BY <1>1, <1>2 DEF Inv, TypeOK, Stages
<1>4. Looped'
  BY <1>1, <1>2, LoopRests DEF tools, Early, Answered, Stages
<1>. QED
  BY <1>2, <1>3, <1>4 DEF Inv

LEMMA StepFailsSteps ==
  ASSUME Assumption, Inv, StepFails
  PROVE  Inv'
<1>1. /\ stage \in {"working", "looping"} /\ stage' = "failing" /\ CloseFailure(Current)
      /\ UNCHANGED <<plan, run, guard, informed, loop, told, read, audit, pending, effects,
                     reply>>
  BY DEF StepFails, tools
<1>2. /\ Chain /\ Current > 0 /\ Current \in Nat /\ Planned \in Nat /\ Running(Current)
      /\ Current <= Planned
      /\ \A i \in 1..Current : i < Current => Succeeded(i)
  BY <1>1, InChain
<1>3. PICK i \in 1..Current : i = Current
  BY <1>2
<1>4. /\ steps' \in Seq(Step) /\ hops' \in Seq(Hop) /\ Traced(steps', hops')
      /\ Len(steps') = i
      /\ \A j \in 1..i : j # i => steps'[j] = steps[j]
      /\ steps'[i].status = "failed" /\ steps'[i].cost = steps[i].cost
  BY <1>1, <1>2, <1>3, StepFailed
<1>5. Current' = i /\ Planned' = Planned /\ Chain'
  BY <1>1, <1>2, <1>4 DEF Current, Planned, Chain
<1>6. TypeOK'
  BY <1>1, <1>4, <1>5 DEF Inv, TypeOK, Stages
<1>7. Progress'
  <2>1. \A j \in 1..i : j < i => Succeeded(j)'
    BY <1>2, <1>3, <1>4 DEF Succeeded
  <2>2. ChainProgress'
    BY <1>1, <1>2, <1>3, <1>4, <1>5, <2>1 DEF ChainProgress
  <2>. QED
    BY <1>1, <1>5, <2>2 DEF Inv, Progress
<1>8. Spent'
  <2>1. \A j \in 1..i : ~Running(j)'
    BY <1>2, <1>3, <1>4 DEF Running, Succeeded
  <2>2. steps[i].cost = 0 /\ guard.cost = run.cost
        /\ run.cost = CostUpTo(steps)[i] /\ CostUpTo(steps)[i - 1] < MaxRunCost
    BY <1>2, <1>3 DEF Inv, Spent
  <2>3. CostUpTo(steps')[i] = CostUpTo(steps)[i]
        /\ CostUpTo(steps')[i - 1] = CostUpTo(steps)[i - 1]
    <3>1. PICK rows \in Seq(Step), more \in Seq(Step) : rows = steps /\ more = steps'
      BY <1>4 DEF Inv, TypeOK
    <3>2. /\ Len(rows) = i /\ Len(more) = i /\ i \in 1..Len(rows) /\ rows[i].cost = 0
          /\ \A j \in 1..Len(rows) : j # i => more[j] = rows[j]
          /\ more[i].cost = 0 /\ i \in Nat
      BY <1>2, <1>3, <1>4, <2>2, <3>1 DEF Current
    <3>3. /\ \A k \in 0..Len(rows) :
               k < i => CostUpTo(more)[k] = CostUpTo(rows)[k]
          /\ \A k \in i..Len(rows) :
               CostUpTo(more)[k] = CostUpTo(rows)[k] + more[i].cost
          /\ \A k \in 0..Len(rows) : CostUpTo(rows)[k] \in Nat
      BY <3>2, CostOfStep
    <3>4. i - 1 \in 0..Len(rows) /\ i - 1 < i /\ i \in i..Len(rows) /\ i \in 0..Len(rows)
      BY <3>2
    <3>. QED
      BY <3>1, <3>2, <3>3, <3>4
  <2>. QED
    BY <1>1, <1>2, <1>3, <1>4, <1>5, <2>1, <2>2, <2>3 DEF Spent
<1>9. Looped'
  BY <1>1, LoopRests DEF tools, Early, Answered, Stages
<1>. QED
  BY <1>4, <1>6, <1>7, <1>8, <1>9 DEF Inv

-----------------------------------------------------------------------------
(* Branches are taken up.                                                  *)
LEMMA BranchFacts ==
  ASSUME Inv, stage = "gathering"
  PROVE  /\ ~Chain /\ Current = Planned /\ Planned \in Nat
         /\ Branch \in 1..Planned
         /\ \A j \in 1..Planned : Running(j) <=> j >= Branch
<1>1. ~Chain /\ Current = Planned /\ Planned \in Nat
  BY Facts DEF Inv, Progress, ChainProgress, BranchProgress
<1>2. PICK i \in 1..Planned : \A j \in 1..Planned : Running(j) <=> j >= i
  BY <1>1 DEF Inv, Progress, BranchProgress
<1>3. i \in Nat /\ Running(i) /\ \A j \in 1..(i - 1) : j \in 1..Planned /\ ~Running(j)
  BY <1>1, <1>2
<1>4. /\ Branch \in 1..Planned /\ Running(Branch)
      /\ \A j \in 1..(Branch - 1) : ~Running(j)
  BY <1>2, <1>3 DEF Branch, Running
<1>5. Branch = i
  BY <1>1, <1>2, <1>3, <1>4
<1>. QED
  BY <1>1, <1>2, <1>5

LEMMA GatherSteps ==
  ASSUME Assumption, Inv, NEW cost \in Nat, NEW said \in BOOLEAN,
         GatherResult(cost, said) \/ GatherFailure
  PROVE  Inv'
<1>1. /\ stage = "gathering"
      /\ UNCHANGED <<plan, informed, loop, told, read, audit, pending, effects, reply>>
  BY DEF GatherResult, GatherFailure, tools
<1>2. ~Chain /\ Current = Planned /\ Planned \in Nat
  BY <1>1, BranchFacts
<1>3. PICK i \in 1..Planned : i = Branch /\ \A j \in 1..Planned : Running(j) <=> j >= i
  BY <1>1, BranchFacts
<1>4. /\ steps' \in Seq(Step) /\ hops' \in Seq(Hop) /\ Traced(steps', hops')
      /\ Len(steps') = Planned
      /\ \A j \in 1..Planned : j # i => steps'[j] = steps[j]
      /\ steps'[i].status \in {"succeeded", "failed"}
      /\ run' \in [status : {"none", "running", "succeeded", "failed"}, cost : Nat]
      /\ guard' \in [steps : Nat, cost : Nat]
      /\ guard'.cost = run'.cost /\ run'.cost = run.cost + steps'[i].cost
  <2>1. i \in 1..Current /\ Running(i) /\ guard.cost = run.cost /\ run.cost \in Nat
        /\ steps[i].cost = 0
    BY <1>2, <1>3, Facts DEF Inv, Spent
  <2>2. CASE GatherResult(cost, said)
    BY <1>2, <1>3, <2>1, <2>2, StepSucceeds DEF GatherResult
  <2>3. CASE GatherFailure
    BY <1>2, <1>3, <2>1, <2>3, StepFailed DEF GatherFailure, Inv, TypeOK
  <2>. QED
    BY <2>2, <2>3
<1>5. PICK ok \in BOOLEAN : /\ stage' = AfterBranches(ok)
                            /\ ok <=> steps'[i].status = "succeeded"
  <2>1. i \in 1..Current /\ Running(i)
    BY <1>2, <1>3
  <2>2. CASE GatherResult(cost, said)
    BY <1>3, <2>1, <2>2, StepSucceeds DEF GatherResult
  <2>3. CASE GatherFailure
    BY <1>3, <2>1, <2>3, StepFailed DEF GatherFailure
  <2>. QED
    BY <2>2, <2>3
<1>6. stage' = IF i < Planned THEN "gathering"
               ELSE IF ok \/ \E j \in 1..Planned : Succeeded(j)
               THEN "closing" ELSE "failing"
  BY <1>3, <1>5 DEF AfterBranches, Succeeded
<1>7. Current' = Planned /\ Planned' = Planned /\ ~Chain'
  BY <1>1, <1>2, <1>4 DEF Current, Planned, Chain
<1>8. TypeOK'
  <2>1. stage' \in Stages
    BY <1>6 DEF Stages
  <2>. QED
    BY <1>1, <1>4, <1>7, <2>1 DEF Inv, TypeOK
<1>9. /\ \A j \in 1..Planned : Running(j)' <=> j > i
      /\ \A j \in 1..Planned : j # i => (Succeeded(j)' <=> Succeeded(j))
      /\ Succeeded(i)' <=> ok
  <2>1. \A j \in 1..Planned : j # i => steps'[j] = steps[j]
    BY <1>4
  <2>2. ASSUME NEW j \in 1..Planned, j # i
        PROVE  (Running(j)' <=> Running(j)) /\ (Succeeded(j)' <=> Succeeded(j))
    BY <2>1, <2>2 DEF Running, Succeeded
  <2>3. ~Running(i)' /\ (Succeeded(i)' <=> ok)
    BY <1>4, <1>5 DEF Running, Succeeded
  <2>4. ASSUME NEW j \in 1..Planned PROVE Running(j)' <=> j > i
    <3>1. CASE j = i
      BY <2>3, <3>1
    <3>2. CASE j # i
      BY <1>2, <1>3, <2>2, <3>2
    <3>. QED
      BY <3>1, <3>2
  <2>. QED
    BY <2>2, <2>3, <2>4
<1>10. ~Succeeded(i)
  BY <1>2, <1>3 DEF Running, Succeeded
<1>11. Progress'
  <2>1. CASE i < Planned
    <3>1. stage' = "gathering"
      BY <1>6, <2>1
    <3>2. i + 1 \in 1..Planned /\ \A j \in 1..Planned : Running(j)' <=> j >= i + 1
      BY <1>2, <1>9, <2>1
    <3>3. BranchProgress'
      BY <1>7, <3>1, <3>2 DEF BranchProgress
    <3>. QED
      BY <1>1, <1>7, <3>1, <3>3 DEF Inv, Progress
  <2>2. CASE i = Planned
    <3>1. \A j \in 1..Planned : ~Running(j)'
      BY <1>2, <1>9, <2>2
    <3>2. stage' = IF \E j \in 1..Planned : Succeeded(j)' THEN "closing" ELSE "failing"
      BY <1>2, <1>3, <1>6, <1>9, <1>10, <2>2
    <3>3. BranchProgress'
      BY <1>7, <3>1, <3>2 DEF BranchProgress
    <3>. QED
      BY <1>1, <1>7, <3>2, <3>3 DEF Inv, Progress
  <2>. QED
    BY <1>2, <1>3, <2>1, <2>2
<1>12. Spent'
  <2>1. \A j \in 1..Planned : Running(j)' => Running(j) /\ steps'[j] = steps[j]
    BY <1>2, <1>3, <1>4, <1>9
  <2>2. /\ steps[i].cost = 0 /\ run.cost = CostUpTo(steps)[Planned]
        /\ 0 < MaxRunCost
    BY <1>2, <1>3 DEF Inv, Spent
  <2>3. CostUpTo(steps')[Planned] = CostUpTo(steps)[Planned] + steps'[i].cost
    <3>1. PICK rows \in Seq(Step), more \in Seq(Step) : rows = steps /\ more = steps'
      BY <1>4 DEF Inv, TypeOK
    <3>2. /\ Len(rows) = Planned /\ Len(more) = Planned /\ i \in 1..Len(rows)
          /\ i \in 1..Len(more) /\ Len(rows) <= Len(more)
          /\ rows[i].cost = 0 /\ \A j \in 1..Len(rows) : j # i => more[j] = rows[j]
      BY <1>2, <1>3, <1>4, <2>2, <3>1 DEF Current
    <3>3. \A k \in i..Len(rows) :
            CostUpTo(more)[k] = CostUpTo(rows)[k] + more[i].cost
      BY <3>2, CostOfStep
    <3>4. Planned \in i..Len(rows)
      BY <1>2, <3>2
    <3>. QED
      BY <3>1, <3>2, <3>3, <3>4
  <2>. QED
    BY <1>2, <1>4, <1>7, <2>1, <2>2, <2>3 DEF Inv, Spent
<1>13. Looped'
  <2>1. stage' \in {"gathering", "closing", "failing"}
    BY <1>6
  <2>. QED
    BY <1>1, <2>1, LoopRests DEF tools, Early, Answered, Stages
<1>. QED
  BY <1>4, <1>8, <1>11, <1>12, <1>13 DEF Inv

-----------------------------------------------------------------------------
(* The tool loop.                                                          *)
LEMMA LoopTypes ==
  ASSUME Assumption, Inv
  PROVE  /\ loop.iterations \in 0..MaxIterations /\ loop.calls \in Seq(Requested)
         /\ loop.capped \in BOOLEAN
         /\ Len(told) \in Nat /\ read \in Nat /\ Len(loop.calls) \in Nat
         /\ MaxIterations \in Nat /\ MaxCalls \in Nat /\ MaxCalls > 0 /\ MaxIterations > 0
BY DEF Inv, TypeOK, Assumption

(* The first few of the calls a generation asks for.                       *)
LEMMA FirstFewFacts ==
  ASSUME Assumption, NEW calls \in Calls, calls # << >>
  PROVE  /\ FirstFew(calls) \in Seq(Requested)
         /\ Len(FirstFew(calls)) \in 1..MaxCalls
<1>1. MaxCalls \in Nat /\ MaxCalls > 0
  BY DEF Assumption
<1>2. PICK n \in 1..(MaxCalls + 1) : calls \in [1..n -> Requested]
  BY DEF Calls
<1>3. calls \in Seq(Requested) /\ Len(calls) = n /\ n \in Nat /\ n > 0
  BY <1>1, <1>2
<1>4. CASE n > MaxCalls
  <2>1. FirstFew(calls) = SubSeq(calls, 1, MaxCalls)
    BY <1>3, <1>4 DEF FirstFew
  <2>2. \A i \in 1..MaxCalls : calls[i] \in Requested
    BY <1>1, <1>2, <1>4
  <2>3. SubSeq(calls, 1, MaxCalls) = [i \in 1..MaxCalls |-> calls[i]]
    BY <1>1, <1>3, <1>4
  <2>. QED
    BY <1>1, <2>1, <2>2, <2>3
<1>5. CASE n <= MaxCalls
  <2>1. FirstFew(calls) = SubSeq(calls, 1, n)
    BY <1>1, <1>3, <1>5 DEF FirstFew
  <2>2. \A i \in 1..n : calls[i] \in Requested
    BY <1>2
  <2>3. SubSeq(calls, 1, n) = [i \in 1..n |-> calls[i]]
    BY <1>3, <1>5
  <2>. QED
    BY <1>1, <1>3, <1>5, <2>1, <2>2, <2>3
<1>. QED
  BY <1>1, <1>3, <1>4, <1>5

LEMMA AskForToolsSteps ==
  ASSUME Assumption, Inv, NEW calls \in Calls, AskForTools(calls)
  PROVE  Inv'
<1>1. /\ stage = "looping" /\ loop.calls = << >> /\ ~loop.capped /\ calls # << >>
      /\ loop' = [iterations |-> loop.iterations + 1, calls |-> FirstFew(calls),
                  capped |-> FALSE]
      /\ read' = Len(told)
      /\ UNCHANGED <<plan, stage, run, steps, hops, guard, informed, told, audit, pending,
                     effects, reply>>
  BY DEF AskForTools, AwaitsModel, Generations, trace
<1>2. /\ FirstFew(calls) \in Seq(Requested) /\ Len(FirstFew(calls)) \in 1..MaxCalls
  BY <1>1, FirstFewFacts
<1>3. loop.iterations \in 0..MaxIterations /\ loop.iterations # MaxIterations
  BY <1>1, LoopTypes DEF Inv, Looped
<1>4. loop.iterations + 1 \in 0..MaxIterations
  BY <1>3, LoopTypes
<1>5. loop' \in [iterations : 0..MaxIterations, calls : Seq(Requested), capped : BOOLEAN]
  <2>1. FALSE \in BOOLEAN
    OBVIOUS
  <2>. QED
    BY <1>1, <1>2, <1>4, <2>1
<1>6. TypeOK'
  BY <1>1, <1>5, LoopTypes DEF Inv, TypeOK, Planned
<1>7. Traced(steps, hops)' /\ Progress' /\ Spent'
  BY <1>1 DEF Inv, Progress, ChainProgress, BranchProgress, Spent, Current, Planned, Chain,
     Running, Succeeded, Composed
<1>8. Looped'
  <2>1. Asked' = Asked /\ \A k \in 1..Len(told) : Agree(audit[k], told[k])' = Agree(audit[k], told[k])
    BY <1>1 DEF Asked, Agree
  <2>2. FirstFew(calls) # << >>
    BY <1>2
  <2>3. read' <= Len(told)' /\ Len(told)' - read' + Len(loop.calls)' <= MaxCalls
    BY <1>1, <1>2, LoopTypes
  <2>. QED
    BY <1>1, <2>1, <2>2, <2>3 DEF Inv, Looped
<1>. QED
  BY <1>6, <1>7, <1>8 DEF Inv

LEMMA AnswerFromToolsSteps ==
  ASSUME Assumption, Inv, NEW cost \in Nat, NEW said \in BOOLEAN,
         AnswerFromTools(cost, said)
  PROVE  Inv'
<1>1. /\ stage = "looping" /\ loop.calls = << >> /\ ~loop.capped
      /\ loop' = [loop EXCEPT !.iterations = @ + 1] /\ read' = Len(told)
      /\ Finish(cost, said)
      /\ UNCHANGED <<plan, informed, told, audit, pending, effects, reply>>
  BY DEF AnswerFromTools, AwaitsModel
<1>2. /\ stage' = "closing"
      /\ Traced(steps', hops') /\ Progress' /\ Spent'
      /\ plan' \in [shape : Shapes, agents : Seq(Agents)] /\ Planned' > 0
      /\ run' \in [status : {"none", "running", "succeeded", "failed"}, cost : Nat]
      /\ steps' \in Seq(Step) /\ hops' \in Seq(Hop)
      /\ guard' \in [steps : Nat, cost : Nat]
      /\ informed' \in Seq(SUBSET Nat) /\ reply' \in {"none", "empty", "text"}
  BY <1>1, FinishSteps
<1>3. loop.iterations \in 0..MaxIterations /\ loop.iterations # MaxIterations
  BY <1>1, LoopTypes DEF Inv, Looped
<1>4. loop.iterations + 1 \in 0..MaxIterations
  BY <1>3, LoopTypes
<1>5. /\ loop' \in [iterations : 0..MaxIterations, calls : Seq(Requested), capped : BOOLEAN]
      /\ loop'.calls = << >>
  BY <1>1, <1>4 DEF Inv, TypeOK
<1>6. TypeOK'
  BY <1>1, <1>2, <1>5, LoopTypes DEF Inv, TypeOK, Stages
<1>7. Looped'
  <2>1. Asked' = Asked /\ \A k \in 1..Len(told) : Agree(audit[k], told[k])' = Agree(audit[k], told[k])
    BY <1>1 DEF Asked, Agree
  <2>2. /\ read' <= Len(told)' /\ read' = Len(told)'
        /\ Len(told)' - read' + Len(loop.calls)' <= MaxCalls
    BY <1>1, <1>5, LoopTypes
  <2>. QED
    BY <1>1, <1>2, <2>1, <2>2 DEF Inv, Looped
<1>. QED
  BY <1>2, <1>6, <1>7 DEF Inv

(* What the gate makes of a call.                                          *)
LEMMA VerdictFacts ==
  ASSUME NEW tool
  PROVE  /\ Verdict(tool) \in {"block", "prompt", "unavailable", "allow"}
         /\ Verdict(tool) = "allow" =>
              TierOf(tool) = "green" \/ (TierOf(tool) = "yellow" /\ tool \in Allowances)
<1>1. ASSUME NEW agent
      PROVE  /\ Judged(agent, tool, Allowances) \in {"block", "prompt", "allow"}
             /\ Judged(agent, tool, Allowances) = "allow" =>
                  TierOf(tool) = "green" \/ (TierOf(tool) = "yellow" /\ tool \in Allowances)
  BY DEF Judged
<1>. QED
  BY <1>1 DEF Verdict

LEMMA OutcomeFacts ==
  ASSUME NEW tool \in Requested, NEW ending \in {"success", "failed", "timeout"}
  PROVE  /\ Row(tool, ending) \in
              [tool : Requested, decision : {"allowed", "pending", "blocked"},
               status : {"succeeded", "failed", "not_executed"}]
         /\ Outcome(tool, ending) \in
              {"denied", "approval_required", "unavailable", "success", "failed", "timeout"}
         /\ Agree(Row(tool, ending), [tool |-> tool, outcome |-> Outcome(tool, ending)])
         /\ Outcome(tool, ending) = "approval_required" <=> Verdict(tool) = "prompt"
<1>1. CASE Verdict(tool) = "block"
  BY <1>1 DEF Row, Outcome, Agree
<1>2. CASE Verdict(tool) = "prompt"
  BY <1>2 DEF Row, Outcome, Agree
<1>3. CASE Verdict(tool) = "unavailable"
  BY <1>3 DEF Row, Outcome, Agree
<1>4. CASE Verdict(tool) = "allow"
  BY <1>4 DEF Row, Outcome, Agree
<1>. QED
  BY <1>1, <1>2, <1>3, <1>4, VerdictFacts

LEMMA InvokeSteps ==
  ASSUME Assumption, Inv, NEW ending \in {"success", "failed", "timeout"}, Invoke(ending)
  PROVE  Inv'
<1>1. /\ stage = "looping" /\ loop.calls # << >> /\ loop.calls \in Seq(Requested)
      /\ loop \in [iterations : 0..MaxIterations, calls : Seq(Requested), capped : BOOLEAN]
      /\ UNCHANGED <<plan, stage, run, steps, hops, guard, informed, read, reply>>
  BY DEF Invoke, Inv, TypeOK, trace
<1>2. PICK tool \in Requested : tool = Head(loop.calls)
  BY <1>1
<1>3. PICK rest \in Seq(Requested) :
        rest = Tail(loop.calls) /\ Len(rest) = Len(loop.calls) - 1
  <2>1. PICK calls \in Seq(Requested) : calls = loop.calls /\ calls # << >>
    BY <1>1
  <2>2. Tail(calls) \in Seq(Requested) /\ Len(Tail(calls)) = Len(calls) - 1
    BY <2>1
  <2>. QED
    BY <2>1, <2>2
<1>4. PICK heard : heard = [tool |-> tool, outcome |-> Outcome(tool, ending)]
  OBVIOUS
<1>5. PICK row : row = Row(tool, ending)
  OBVIOUS
<1>6. /\ told' = Append(told, heard) /\ audit' = Append(audit, row)
      /\ pending' = pending + (IF Verdict(tool) = "prompt" THEN 1 ELSE 0)
      /\ effects' = IF Verdict(tool) = "allow" THEN effects \cup {tool} ELSE effects
      /\ loop' = [loop EXCEPT !.calls = rest, !.capped = AtCap(rest)]
  BY <1>2, <1>3, <1>4, <1>5 DEF Invoke
<1>7. /\ row \in [tool : Requested, decision : {"allowed", "pending", "blocked"},
                  status : {"succeeded", "failed", "not_executed"}]
      /\ heard \in [tool : Requested,
                    outcome : {"denied", "approval_required", "unavailable", "success",
                               "failed", "timeout"}]
      /\ Agree(row, heard)
      /\ heard.outcome = "approval_required" <=> Verdict(tool) = "prompt"
  BY <1>4, <1>5, OutcomeFacts
<1>. DEFINE n == Len(told)
<1>8. /\ n \in Nat /\ Len(audit) = n /\ DOMAIN told = 1..n /\ DOMAIN audit = 1..n
      /\ told' \in Seq([tool : Requested,
                        outcome : {"denied", "approval_required", "unavailable", "success",
                                   "failed", "timeout"}])
      /\ audit' \in Seq([tool : Requested, decision : {"allowed", "pending", "blocked"},
                         status : {"succeeded", "failed", "not_executed"}])
      /\ Len(told') = n + 1 /\ Len(audit') = n + 1 /\ DOMAIN told' = 1..(n + 1)
      /\ \A k \in 1..n : told'[k] = told[k] /\ audit'[k] = audit[k]
      /\ told'[n + 1] = heard /\ audit'[n + 1] = row
  <2>. DEFINE Heard == [tool : Requested,
                        outcome : {"denied", "approval_required", "unavailable", "success",
                                   "failed", "timeout"}]
              Rows == [tool : Requested, decision : {"allowed", "pending", "blocked"},
                       status : {"succeeded", "failed", "not_executed"}]
  <2>1. told \in Seq(Heard) /\ audit \in Seq(Rows) /\ heard \in Heard /\ row \in Rows
    BY <1>7 DEF Inv, TypeOK
  <2>2. Len(audit) = n
    BY DEF Inv, Looped
  <2>. HIDE DEF Heard, Rows
  <2>3. /\ n \in Nat /\ DOMAIN told = 1..n /\ told' \in Seq(Heard) /\ Len(told') = n + 1
        /\ DOMAIN told' = 1..(n + 1) /\ told'[n + 1] = heard
        /\ \A k \in 1..n : told'[k] = told[k]
    BY <1>6, <2>1
  <2>4. /\ DOMAIN audit = 1..n /\ audit' \in Seq(Rows) /\ Len(audit') = n + 1
        /\ audit'[n + 1] = row /\ \A k \in 1..n : audit'[k] = audit[k]
    BY <1>6, <2>1, <2>2
  <2>. QED
    BY <2>2, <2>3, <2>4 DEF Heard, Rows
<1>. HIDE DEF n
<1>9. /\ loop' \in [iterations : 0..MaxIterations, calls : Seq(Requested), capped : BOOLEAN]
      /\ loop'.calls = rest /\ loop'.iterations = loop.iterations
      /\ loop'.capped = AtCap(rest)
  <2>1. AtCap(rest) \in BOOLEAN
    BY DEF AtCap
  <2>. QED
    BY <1>1, <1>6, <2>1
<1>10. TypeOK'
  <2>1. pending' \in Nat
    BY <1>6 DEF Inv, TypeOK
  <2>2. effects' \subseteq Requested
    BY <1>2, <1>6 DEF Inv, TypeOK
  <2>3. /\ plan' \in [shape : Shapes, agents : Seq(Agents)] /\ Planned' > 0
        /\ stage' \in Stages
        /\ run' \in [status : {"none", "running", "succeeded", "failed"}, cost : Nat]
        /\ steps' \in Seq(Step) /\ hops' \in Seq(Hop) /\ guard' \in [steps : Nat, cost : Nat]
        /\ informed' \in Seq(SUBSET Nat) /\ read' \in Nat /\ reply' \in {"none", "empty", "text"}
    BY <1>1 DEF Inv, TypeOK, Planned
  <2>. QED
    BY <1>8, <1>9, <2>1, <2>2, <2>3 DEF TypeOK
<1>11. Traced(steps, hops)' /\ Progress' /\ Spent'
  BY <1>1 DEF Inv, Progress, ChainProgress, BranchProgress, Spent, Current, Planned, Chain,
     Running, Succeeded, Composed
<1>12. \A k \in 1..(n + 1) : Agree(audit'[k], told'[k])
  <2>1. \A k \in 1..n : Agree(audit'[k], told'[k])
    BY <1>8 DEF Inv, Looped, n
  <2>2. Agree(audit'[n + 1], told'[n + 1])
    BY <1>7, <1>8
  <2>3. \A k \in 1..(n + 1) : k \in 1..n \/ k = n + 1
    BY <1>8
  <2>. QED
    BY <2>1, <2>2, <2>3
<1>13. IsFiniteSet(Asked') /\ pending' = Cardinality(Asked')
  <2>1. IsFiniteSet(Asked) /\ pending = Cardinality(Asked) /\ pending \in Nat
    BY DEF Inv, Looped, TypeOK
  <2>2. n + 1 \notin Asked
    BY <1>8 DEF Asked
  <2>3. CASE Verdict(tool) = "prompt"
    <3>1. Asked' = Asked \cup {n + 1}
      BY <1>7, <1>8, <2>3 DEF Asked
    <3>. QED
      BY <1>6, <2>1, <2>2, <2>3, <3>1, FS_AddElement
  <2>4. CASE Verdict(tool) # "prompt"
    <3>1. Asked' = Asked
      BY <1>7, <1>8, <2>4 DEF Asked
    <3>. QED
      BY <1>6, <2>1, <2>4, <3>1
  <2>. QED
    BY <2>3, <2>4
<1>14. \A t \in effects' :
         TierOf(t) = "green" \/ (TierOf(t) = "yellow" /\ t \in Allowances)
  BY <1>6, VerdictFacts DEF Inv, Looped
<1>15. Looped'
  <2>1. read' <= Len(told)' /\ Len(told)' - read' + Len(loop'.calls) <= MaxCalls
    <3>1. /\ read <= n /\ n - read + Len(loop.calls) <= MaxCalls
          /\ read \in Nat /\ MaxCalls \in Nat /\ Len(loop.calls) \in Nat
      BY LoopTypes DEF Inv, Looped, n
    <3>. QED
      BY <1>1, <1>3, <1>8, <1>9, <3>1
  <2>2. loop'.iterations = MaxIterations => loop'.calls # << >> \/ loop'.capped
    BY <1>9 DEF AtCap, Generations
  <2>. QED
    BY <1>1, <1>8, <1>12, <1>13, <1>14, <2>1, <2>2 DEF Looped
<1>. QED
  BY <1>10, <1>11, <1>15 DEF Inv

-----------------------------------------------------------------------------
(* Every step keeps the invariant.                                         *)
LEMMA InvNext ==
  ASSUME Assumption, Inv, [Next]_vars
  PROVE  Inv'
<1>1. CASE UNCHANGED vars
  <2>1. UNCHANGED <<plan, stage, run, steps, hops, guard, informed, loop, told, read, audit,
                    pending, effects, reply>>
    BY <1>1 DEF vars
  <2>2. TypeOK' /\ Traced(steps, hops)'
    BY <2>1 DEF Inv, TypeOK, Planned
  <2>3. Progress' /\ Spent'
    BY <2>1 DEF Inv, Progress, ChainProgress, BranchProgress, Spent, Current, Planned, Chain,
       Running, Succeeded, Composed
  <2>4. Looped'
    BY <2>1 DEF Inv, Looped, Asked, Agree
  <2>. QED
    BY <2>2, <2>3, <2>4 DEF Inv
<1>2. ASSUME NEW cost \in StepCosts, NEW said \in BOOLEAN,
             Answer(cost, said) \/ GatherResult(cost, said) \/ AnswerFromTools(cost, said)
      PROVE  Inv'
  <2>1. cost \in Nat
    BY DEF Assumption
  <2>. QED
    BY <1>2, <2>1, AnswerSteps, GatherSteps, AnswerFromToolsSteps
<1>3. ASSUME NEW cost \in StepCosts, AnswerAtTheCap(cost) PROVE Inv'
  <2>1. cost \in Nat /\ TRUE \in BOOLEAN
    BY DEF Assumption
  <2>. QED
    BY <1>3, <2>1, AnswerSteps
<1>4. CASE GatherFailure
  <2>1. 0 \in Nat /\ TRUE \in BOOLEAN
    OBVIOUS
  <2>. QED
    BY <1>4, <2>1, GatherSteps
<1>5. CASE FailRun \/ CloseRun \/ Reply
  BY <1>5, EndSteps
<1>6. CASE (\E message \in Messages : OpenRun(message)) \/ (\E ok \in BOOLEAN : BuildContext(ok))
  BY <1>6, OpenRunSteps, BuildContextSteps
<1>7. CASE BudgetStops \/ OpenStep \/ FanOut \/ StepFails
  BY <1>7, BudgetSteps, OpenStepSteps, FanOutSteps, StepFailsSteps
<1>8. CASE (\E calls \in Calls : AskForTools(calls))
             \/ (\E ending \in {"success", "failed", "timeout"} : Invoke(ending))
  BY <1>8, AskForToolsSteps, InvokeSteps
<1>. QED
  BY <1>1, <1>2, <1>3, <1>4, <1>5, <1>6, <1>7, <1>8 DEF Next

LEMMA InvHolds == ASSUME Assumption PROVE Spec => []Inv
<1>1. Init => Inv
  BY InvInit
<1>2. Inv /\ [Next]_vars => Inv'
  BY InvNext
<1>. QED
  BY <1>1, <1>2, PTL DEF Spec

-----------------------------------------------------------------------------
(* The rows of a run, its loop and its reply keep their types, and the     *)
(* loop never begins more generations than it may (orchestrator_service,   *)
(* run_recorder, tool_loop).                                               *)
THEOREM TypeCorrect == ASSUME Assumption PROVE Spec => []TypeOK
<1>1. Inv => TypeOK
  BY DEF Inv
<1>. QED
  BY <1>1, InvHolds, PTL

(* A run that has ended left a trace that tells it: no step open, each     *)
(* with its task and the one hop back that agrees with its status, and the *)
(* run's own status that of its chain or its branches; whatever the plan   *)
(* and wherever it failed (orchestrator_service, run_recorder).            *)
THEOREM TraceTold == ASSUME Assumption PROVE Spec => []TraceTellsTheRun
<1>1. ASSUME Inv PROVE TraceTellsTheRun
  <2>. SUFFICES ASSUME stage \in {"failed", "done"} PROVE TraceTellsTheRun
    BY DEF TraceTellsTheRun
  <2>1. /\ Current \in Nat /\ Planned \in Nat /\ DOMAIN steps = 1..Current
        /\ Planned > 0 /\ DOMAIN hops = 1..Len(hops)
    BY <1>1, Facts DEF Inv
  <2>2. \A i \in 1..Current : ~Running(i)
    BY <1>1, <2>1 DEF Inv, Progress, ChainProgress, BranchProgress, Running, Succeeded
  <2>3. ASSUME NEW i \in 1..Current
        PROVE  /\ steps[i].status # "running"
               /\ \E k \in DOMAIN hops : hops[k] = [step |-> i, role |-> "task"]
               /\ Cardinality(Back(i)) = 1
               /\ \A k \in Back(i) : hops[k].role = "result" <=> Succeeded(i)
    <3>1. /\ HasTask(hops, i) /\ IsTold(steps[i].status, hops, i)
          /\ steps[i].status # "running"
      BY <1>1, <2>1, <2>2 DEF Inv, Traced, Running
    <3>2. PICK k \in DOMAIN hops :
            /\ HopOf(hops, k, i)
            /\ hops[k].role = "result" <=> steps[i].status = "succeeded"
            /\ \A l \in DOMAIN hops : HopOf(hops, l, i) => l = k
      BY <3>1 DEF IsTold
    <3>3. Back(i) = {k}
      BY <3>2 DEF Back, HopOf
    <3>4. Cardinality({k}) = 1
      BY FS_Singleton
    <3>. QED
      BY <3>1, <3>2, <3>3, <3>4 DEF HasTask, Succeeded
  <2>4. run.status = "succeeded" <=>
          /\ Current = Planned
          /\ IF Chain THEN \A i \in DOMAIN steps : Succeeded(i)
                      ELSE \E i \in DOMAIN steps : Succeeded(i)
    <3>1. CASE stage = "done"
      BY <1>1, <2>1, <3>1 DEF Inv, Progress, ChainProgress, BranchProgress
    <3>2. CASE stage = "failed"
      <4>1. run.status = "failed"
        BY <1>1, <3>2 DEF Inv, Progress
      <4>2. Chain => \/ Current < Planned
                     \/ Current \in 1..Current /\ ~Succeeded(Current)
        BY <1>1, <2>1, <3>2 DEF Inv, Progress, ChainProgress, Succeeded
      <4>3. ~Chain => \A i \in 1..Current : ~Succeeded(i)
        BY <1>1, <3>2 DEF Inv, Progress, BranchProgress
      <4>. QED
        BY <2>1, <4>1, <4>2, <4>3
    <3>. QED
      BY <3>1, <3>2
  <2>5. run.status = "succeeded" => reply = Composed /\ Current = Planned
    BY <1>1, <2>4 DEF Inv, Progress
  <2>6. Composed \in {"text", "empty"}
    BY DEF Composed
  <2>7. reply = "empty" => ~Chain /\ \A i \in DOMAIN steps : Succeeded(i) /\ ~steps[i].said
    <3>. SUFFICES ASSUME reply = "empty"
                  PROVE  ~Chain /\ \A i \in DOMAIN steps : Succeeded(i) /\ ~steps[i].said
      OBVIOUS
    <3>1. reply = Composed /\ Current = Planned
      BY <1>1 DEF Inv, Progress, ChainProgress, BranchProgress
    <3>2. ~Chain /\ \A i \in 1..Planned : ~steps[i].said /\ steps[i].status # "failed"
      BY <3>1 DEF Composed
    <3>3. \A i \in 1..Current : steps[i].status \in {"running", "succeeded", "failed"}
      <4>1. \A i \in 1..Current : steps[i] \in Step
        BY <1>1, Facts DEF Inv
      <4>. QED
        BY <4>1 DEF Step, StepStatuses
    <3>. QED
      BY <2>1, <2>2, <3>1, <3>2, <3>3 DEF Running, Succeeded
  <2>. QED
    BY <2>1, <2>3, <2>4, <2>5, <2>6, <2>7 DEF TraceTellsTheRun
<1>. QED
  BY <1>1, InvHolds, PTL

(* A run costs what its steps do.  Without the last step of a chain it was *)
(* below its cap of tokens, and the branches of a parallel plan are opened *)
(* together before anything is spent: it overspends by one step, or by one *)
(* round of branches, for every cap and every cost of a step               *)
(* (orchestrator_service, _RunGuard).                                      *)
THEOREM OverspendsOnce == ASSUME Assumption PROVE Spec => []OverspendsByOneRound
<1>1. ASSUME Inv PROVE OverspendsByOneRound
  <2>. SUFFICES ASSUME steps # << >>
                PROVE  /\ run.cost = CostUpTo(steps)[Current]
                       /\ CostUpTo(steps)[Checked] < MaxRunCost
                       /\ ~Chain => Current = Planned
    BY DEF OverspendsByOneRound
  <2>1. Current > 0 /\ Len(steps) \in Nat
    BY <1>1 DEF Inv, TypeOK, Current
  <2>2. CostUpTo(steps)[0] = 0
    BY <2>1, CostRecur
  <2>. QED
    BY <1>1, <2>1, <2>2 DEF Inv, Spent, Checked
<1>. QED
  BY <1>1, InvHolds, PTL

(* An answer is never given over the head of a tool: all outcomes are told *)
(* and seen, except those of a loop cut at its cap (tool_loop).            *)
THEOREM ToolsAreSeen == ASSUME Assumption PROVE Spec => []AnswersHaveSeenTheirTools
<1>1. ASSUME Inv PROVE AnswersHaveSeenTheirTools
  <2>1. /\ Len(audit) = Len(told) /\ \A k \in 1..Len(told) : Agree(audit[k], told[k])
        /\ stage \in {"closing", "replying", "done"} => loop.capped \/ read = Len(told)
    BY <1>1 DEF Inv, Looped
  <2>2. DOMAIN told = 1..Len(told) /\ Len(told) \in Nat /\ read \in Nat
        /\ Len(loop.calls) \in Nat
    BY <1>1 DEF Inv, TypeOK
  <2>3. Len(told) - read + Len(loop.calls) <= MaxCalls
    BY <1>1 DEF Inv, Looped
  <2>4. Len(told) - read <= MaxCalls
    <3>1. MaxCalls \in Nat
      BY DEF Assumption
    <3>2. PICK seen \in Nat, heard \in Nat, left \in Nat :
            seen = read /\ heard = Len(told) /\ left = Len(loop.calls)
      BY <2>2
    <3>3. heard - seen + left <= MaxCalls
      BY <2>3, <3>2
    <3>4. heard - seen <= MaxCalls
      BY <3>1, <3>3
    <3>. QED
      BY <3>2, <3>4
  <2>. QED
    BY <2>1, <2>2, <2>4 DEF AnswersHaveSeenTheirTools
<1>. QED
  BY <1>1, InvHolds, PTL

(* Nothing is executed within a run that is not green or allowed once and  *)
(* for all, and as many approvals are pending as the model was told of     *)
(* (gate, executor).                                                       *)
THEOREM NothingUnasked == ASSUME Assumption PROVE Spec => []UnaskedIsGreen
<1>1. Inv => UnaskedIsGreen
  BY DEF Inv, Looped, Asked, UnaskedIsGreen
<1>. QED
  BY <1>1, InvHolds, PTL
=============================================================================
