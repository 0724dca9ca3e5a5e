--------------------------- MODULE PhaseOrderProofs ---------------------------
(***************************************************************************)
(* Proofs about topoSortPhases, for any number of phases and any           *)
(* dependencies: about its loop, taken step by step (PhaseSort), and about *)
(* the order that it returns (TopoSort), which workflows run by.           *)
(***************************************************************************)
EXTENDS PhaseSort, FiniteSetTheorems, WellFoundedInduction, TLAPS

USE PhaseCountAssumption DEF PhaseIds

-----------------------------------------------------------------------------
(***************************************************************************)
(* Numbers and sequences.                                                  *)
(***************************************************************************)

(***************************************************************************)
(* A set of numbers that is not empty has a least one.                     *)
(***************************************************************************)
LEMMA LeastNumber ==
  ASSUME NEW T \in SUBSET Nat, T # {}
  PROVE  \E x \in T : \A y \in T : x <= y
<1>1. PICK x \in T : \A y \in T : <<y, x>> \notin OpToRel(<, Nat)
  BY NatLessThanWellFounded, WFMin, Zenon
<1>2. ASSUME NEW y \in T, y < x PROVE FALSE
  <2>1. <<y, x>> \in Nat \X Nat
    OBVIOUS
  <2>2. <<y, x>> \in OpToRel(<, Nat)
    BY <1>2, <2>1, Zenon DEF OpToRel
  <2> QED
    BY <1>1, <2>2, Zenon
<1> QED
  BY <1>2

(***************************************************************************)
(* Induction, about a set of numbers.                                      *)
(***************************************************************************)
LEMMA SetInduction ==
  ASSUME NEW T \in SUBSET Nat, 0 \in T, \A n \in T : n + 1 \in T
  PROVE  T = Nat
<1> SUFFICES ASSUME Nat \ T # {} PROVE FALSE
  OBVIOUS
<1>1. PICK x \in Nat \ T : \A y \in Nat \ T : x <= y
  BY LeastNumber
<1>2. x - 1 \in Nat /\ x - 1 \notin Nat \ T
  BY <1>1
<1> QED
  BY <1>1, <1>2

(***************************************************************************)
(* f lists what G makes of the start in 0 to N steps.                      *)
(***************************************************************************)
Iterated(f, start, G, N) == f[0] = start /\ \A n \in 1..N : f[n] = G[f[n - 1]]

(***************************************************************************)
(* A function can be iterated, so the recursive function of TopoSort is    *)
(* there, and it stays in every set that G does not leave.                 *)
(***************************************************************************)
LEMMA IterationExists ==
  ASSUME NEW X, NEW start \in X, NEW G \in [X -> X], NEW N \in Nat
  PROVE  \E f \in [0..N -> X] : Iterated(f, start, G, N)
<1> USE DEF Iterated
<1> DEFINE Iterates(m, f) == Iterated(f, start, G, m)
           T == {m \in Nat : \E f \in [0..m -> X] : Iterates(m, f)}
<1>1. 0 \in T
  <2>1. [n \in 0..0 |-> start] \in [0..0 -> X] /\ Iterates(0, [n \in 0..0 |-> start])
    OBVIOUS
  <2> QED BY <2>1
<1>2. ASSUME NEW m \in T PROVE m + 1 \in T
  <2>1. PICK f \in [0..m -> X] : Iterates(m, f)
    OBVIOUS
  <2> DEFINE g == [n \in 0..(m + 1) |-> IF n = m + 1 THEN G[f[m]] ELSE f[n]]
  <2>2. m \in Nat /\ f[m] \in X /\ G[f[m]] \in X
    BY <2>1
  <2>3. g \in [0..(m + 1) -> X]
    BY <2>1, <2>2
  <2>4. /\ \A n \in 0..m : g[n] = f[n]
        /\ g[m + 1] = G[f[m]]
    BY <2>2
  <2> HIDE DEF g
  <2>5. Iterates(m + 1, g)
    <3>1. g[0] = start
      BY <2>1, <2>2, <2>4
    <3>2. ASSUME NEW n \in 1..(m + 1) PROVE g[n] = G[g[n - 1]]
      <4>1. CASE n = m + 1
        BY <2>2, <2>4, <4>1
      <4>2. CASE n # m + 1
        <5>1. n \in 1..m /\ n \in 0..m /\ n - 1 \in 0..m
          BY <2>2, <4>2
        <5>2. f[n] = G[f[n - 1]]
          BY <2>1, <5>1
        <5> QED BY <2>4, <5>1, <5>2
      <4> QED BY <4>1, <4>2
    <3> QED BY <3>1, <3>2
  <2> QED BY <2>2, <2>3, <2>5
<1>3. T = Nat
  <2> HIDE DEF T
  <2>1. T \in SUBSET Nat
    BY DEF T
  <2> QED BY <1>1, <1>2, <2>1, SetInduction
<1> QED
  BY <1>3

(***************************************************************************)
(* The phases of a set in declaration order: a sequence that names each of *)
(* them once, and nothing else.                                            *)
(***************************************************************************)
LEMMA DeclaredOrderMeaning ==
  ASSUME NEW S \in SUBSET PhaseIds
  PROVE  /\ InDeclaredOrder(S) \in Seq(PhaseIds)
         /\ Len(InDeclaredOrder(S)) = Cardinality(S)
         /\ IsInjective(InDeclaredOrder(S))
         /\ Range(InDeclaredOrder(S)) = S
<1> DEFINE Upto(p) == {q \in S : q <= p}
           N       == Cardinality(S)
           rank    == [p \in S |-> Cardinality(Upto(p))]
<1>1. IsFiniteSet(S) /\ N \in Nat
  <2>1. IsFiniteSet(PhaseIds)
    BY FS_Interval
  <2>2. IsFiniteSet(S)
    BY <2>1, FS_Subset
  <2> QED BY <2>2, FS_CardinalityType
<1>2. \A T \in SUBSET S : IsFiniteSet(T) /\ Cardinality(T) \in Nat /\ Cardinality(T) <= N
  BY <1>1, FS_Subset, FS_CardinalityType
<1>3. ASSUME NEW p \in S, NEW q \in S, p < q
      PROVE  Cardinality(Upto(p)) < Cardinality(Upto(q))
  <2>1. Upto(p) \in SUBSET Upto(q) /\ q \in Upto(q) /\ q \notin Upto(p)
    <3>1. \A x \in S : x \in Int
      OBVIOUS
    <3>2. q \in Upto(q) /\ ~(q <= p)
      BY <1>3, <3>1
    <3>3. \A x \in S : x <= p => x <= q
      BY <1>3, <3>1
    <3> QED BY <3>2, <3>3
  <2>2. /\ Cardinality(Upto(p)) <= Cardinality(Upto(q))
        /\ Cardinality(Upto(p)) # Cardinality(Upto(q))
    <3> HIDE DEF Upto
    <3>1. IsFiniteSet(Upto(q))
      BY <1>2 DEF Upto
    <3> QED BY <2>1, <3>1, FS_Subset
  <2>3. Cardinality(Upto(p)) \in Nat /\ Cardinality(Upto(q)) \in Nat
    BY <1>2
  <2> HIDE DEF Upto
  <2> QED BY <2>2, <2>3
<1>4. ASSUME NEW p \in S PROVE Cardinality(Upto(p)) \in 1..N
  <2>1. Cardinality(Upto(p)) \in Nat /\ Cardinality(Upto(p)) <= N
    BY <1>2
  <2>2. Upto(p) # {} /\ IsFiniteSet(Upto(p))
    BY <1>2
  <2>3. Cardinality(Upto(p)) # 0
    <3> HIDE DEF Upto
    <3> QED BY <2>2, FS_EmptySet
  <2> HIDE DEF Upto, N
  <2> QED BY <1>1, <2>1, <2>3
<1>5. \A p, q \in S : Cardinality(Upto(p)) = Cardinality(Upto(q)) => p = q
  <2> SUFFICES ASSUME NEW p \in S, NEW q \in S, Cardinality(Upto(p)) = Cardinality(Upto(q)),
                      p # q
               PROVE  FALSE
    BY Zenon
  <2>1. Cardinality(Upto(p)) \in Nat /\ Cardinality(Upto(q)) \in Nat
    BY <1>2
  <2>2. p < q \/ q < p
    OBVIOUS
  <2> HIDE DEF Upto
  <2> QED BY <1>3, <2>1, <2>2
<1>6. \A i \in 1..N : \E p \in S : Cardinality(Upto(p)) = i
  <2>1. rank \in [S -> 1..N] /\ IsInjective(rank)
    <3> HIDE DEF Upto, N
    <3> QED BY <1>4, <1>5, Zenon DEF IsInjective
  <2>2. rank \in Injection(S, 1..N)
    <3> HIDE DEF rank, N
    <3> QED BY <2>1 DEF Injection
  <2>3. IsFiniteSet(1..N) /\ Cardinality(1..N) = N
    <3> HIDE DEF N
    <3> QED BY <1>1, FS_Interval
  <2>4. rank \in Surjection(S, 1..N)
    <3> HIDE DEF rank
    <3> QED BY <2>2, <2>3, FS_Injection
  <2>5. \A i \in 1..N : \E p \in S : rank[p] = i
    <3> HIDE DEF rank, N
    <3> QED BY <2>4 DEF Surjection
  <2> HIDE DEF Upto, N
  <2> QED BY <2>5
<1> DEFINE s == InDeclaredOrder(S)
<1>7. s = [i \in 1..N |-> CHOOSE p \in S : Cardinality(Upto(p)) = i]
  BY DEF InDeclaredOrder
<1>8. \A i \in 1..N : s[i] \in S /\ Cardinality(Upto(s[i])) = i
  <2> SUFFICES ASSUME NEW i \in 1..N PROVE s[i] \in S /\ Cardinality(Upto(s[i])) = i
    BY Zenon
  <2> HIDE DEF Upto, N, s
  <2>1. s[i] = CHOOSE p \in S : Cardinality(Upto(p)) = i
    BY <1>7
  <2> QED BY <1>6, <2>1
<1> HIDE DEF Upto, N, s
<1>9. DOMAIN s = 1..N
  BY <1>7
<1>10. s \in Seq(PhaseIds) /\ Len(s) = N
  <2>1. s \in [1..N -> PhaseIds]
    BY <1>7, <1>8, <1>9
  <2> QED BY <1>1, <2>1
<1>11. IsInjective(s)
  <2>1. \A i, j \in 1..N : s[i] = s[j] => i = j
    BY <1>8, Zenon
  <2> QED BY <1>9, <2>1 DEF IsInjective
<1>12. Range(s) = S
  <2>1. ASSUME NEW p \in S PROVE p \in Range(s)
    <3>1. Cardinality(Upto(p)) \in 1..N
      BY <1>4
    <3>2. s[Cardinality(Upto(p))] = p
      BY <1>5, <1>8, <3>1
    <3> QED BY <1>9, <3>1, <3>2 DEF Range
  <2>2. Range(s) \subseteq S
    BY <1>8, <1>9 DEF Range
  <2> QED BY <2>1, <2>2
<1> QED
  BY <1>10, <1>11, <1>12 DEF s, N

(***************************************************************************)
(* The length and the elements of a sequence without repetitions.          *)
(***************************************************************************)
LEMMA InjectiveLength ==
  ASSUME NEW s \in Seq(PhaseIds), IsInjective(s)
  PROVE  /\ Range(s) \subseteq PhaseIds /\ IsFiniteSet(Range(s))
         /\ Cardinality(Range(s)) = Len(s)
<1>1. Len(s) \in Nat /\ DOMAIN s = 1..Len(s) /\ s \in [1..Len(s) -> PhaseIds]
  OBVIOUS
<1>2. Range(s) = {s[i] : i \in 1..Len(s)}
  BY <1>1 DEF Range
<1>3. s \in Bijection(1..Len(s), Range(s))
  BY <1>1, <1>2 DEF Bijection, Injection, Surjection, IsInjective
<1>4. IsFiniteSet(Range(s)) /\ Cardinality(Range(s)) = Len(s)
  <2>1. IsFiniteSet(1..Len(s)) /\ Cardinality(1..Len(s)) = Len(s)
    <3>1. \A n \in Nat : IsFiniteSet(1..n) /\ Cardinality(1..n) = n
      BY FS_Interval
    <3> QED BY <1>1, <3>1
  <2>2. ExistsBijection(1..Len(s), Range(s))
    BY <1>3 DEF ExistsBijection
  <2> QED BY <2>1, <2>2, FS_Bijection
<1> QED
  BY <1>1, <1>2, <1>4

(***************************************************************************)
(* Putting a new element at the end.                                       *)
(***************************************************************************)
LEMMA AppendMeaning ==
  ASSUME NEW s \in Seq(PhaseIds), NEW x \in PhaseIds \ Range(s), IsInjective(s)
  PROVE  /\ Append(s, x) \in Seq(PhaseIds)
         /\ IsInjective(Append(s, x))
         /\ Range(Append(s, x)) = Range(s) \cup {x}
         /\ Len(Append(s, x)) = Len(s) + 1
         /\ \A i \in 1..Len(s) : Append(s, x)[i] = s[i]
         /\ Append(s, x)[Len(s) + 1] = x
<1> DEFINE t == Append(s, x)
<1>1. /\ t \in Seq(PhaseIds) /\ Len(t) = Len(s) + 1 /\ Len(s) \in Nat
      /\ \A i \in 1..Len(s) : t[i] = s[i]
      /\ t[Len(s) + 1] = x
      /\ DOMAIN s = 1..Len(s) /\ DOMAIN t = 1..(Len(s) + 1)
  OBVIOUS
<1> HIDE DEF t
<1>2. \A i \in 1..Len(s) : s[i] \in Range(s)
  BY <1>1 DEF Range
<1>3. IsInjective(t)
  <2> SUFFICES ASSUME NEW i \in 1..(Len(s) + 1), NEW j \in 1..(Len(s) + 1), t[i] = t[j]
               PROVE  i = j
    BY <1>1 DEF IsInjective
  <2>1. \A k \in 1..(Len(s) + 1) : k \in 1..Len(s) \/ k = Len(s) + 1
    BY <1>1
  <2>2. CASE i \in 1..Len(s) /\ j \in 1..Len(s)
    BY <1>1, <2>2 DEF IsInjective
  <2> QED BY <1>1, <1>2, <2>1, <2>2
<1>4. Range(t) = Range(s) \cup {x}
  <2>1. ASSUME NEW y \in Range(t) PROVE y \in Range(s) \cup {x}
    <3>1. PICK i \in 1..(Len(s) + 1) : y = t[i]
      BY <1>1 DEF Range
    <3>2. i \in 1..Len(s) \/ i = Len(s) + 1
      BY <1>1
    <3> QED BY <1>1, <1>2, <3>1, <3>2
  <2>2. ASSUME NEW y \in Range(s) PROVE y \in Range(t)
    <3>1. PICK i \in 1..Len(s) : y = s[i]
      BY <1>1 DEF Range
    <3>2. i \in DOMAIN t /\ t[i] = y
      BY <1>1, <3>1
    <3> QED BY <3>2 DEF Range
  <2>3. x \in Range(t)
    <3>1. Len(s) + 1 \in DOMAIN t
      BY <1>1
    <3> QED BY <1>1, <3>1 DEF Range
  <2> QED BY <2>1, <2>2, <2>3
<1> QED
  BY <1>1, <1>3, <1>4 DEF t

(***************************************************************************)
(* Taking the first element off.                                           *)
(***************************************************************************)
LEMMA TailMeaning ==
  ASSUME NEW s \in Seq(PhaseIds), s # <<>>, IsInjective(s)
  PROVE  /\ Head(s) \in Range(s) /\ Head(s) \in PhaseIds
         /\ Tail(s) \in Seq(PhaseIds)
         /\ IsInjective(Tail(s))
         /\ Range(Tail(s)) = Range(s) \ {Head(s)}
<1> DEFINE t == Tail(s)
<1>1. /\ t \in Seq(PhaseIds) /\ Len(s) \in Nat \ {0} /\ Len(t) = Len(s) - 1
      /\ \A i \in 1..(Len(s) - 1) : t[i] = s[i + 1]
      /\ DOMAIN s = 1..Len(s) /\ DOMAIN t = 1..(Len(s) - 1)
      /\ Head(s) = s[1] /\ s[1] \in PhaseIds
  OBVIOUS
<1> HIDE DEF t
<1>2. \A i, j \in 1..Len(s) : s[i] = s[j] => i = j
  BY <1>1 DEF IsInjective
<1>3. IsInjective(t)
  <2> SUFFICES ASSUME NEW i \in 1..(Len(s) - 1), NEW j \in 1..(Len(s) - 1), t[i] = t[j]
               PROVE  i = j
    BY <1>1 DEF IsInjective
  <2>1. s[i + 1] = s[j + 1]
    BY <1>1
  <2>2. i + 1 \in 1..Len(s) /\ j + 1 \in 1..Len(s) /\ i \in Int /\ j \in Int
    BY <1>1
  <2>3. i + 1 = j + 1
    BY <1>2, <2>1, <2>2
  <2> QED BY <2>2, <2>3
<1>4. Head(s) \in Range(s)
  <2>1. 1 \in DOMAIN s
    BY <1>1
  <2> QED BY <1>1, <2>1 DEF Range
<1>5. ASSUME NEW y \in Range(t) PROVE y \in Range(s) /\ y # Head(s)
  <2>1. PICK i \in 1..(Len(s) - 1) : y = t[i]
    BY <1>1 DEF Range
  <2>0. i + 1 \in 1..Len(s) /\ 1 \in 1..Len(s) /\ i + 1 # 1
    BY <1>1
  <2>2. i + 1 \in 1..Len(s) /\ 1 \in 1..Len(s) /\ y = s[i + 1] /\ i + 1 # 1
    BY <1>1, <2>0, <2>1
  <2>3. y \in Range(s)
    BY <1>1, <2>2 DEF Range
  <2>4. y # Head(s)
    BY <1>1, <1>2, <2>2
  <2> QED BY <2>3, <2>4
<1>6. ASSUME NEW y \in Range(s), y # Head(s) PROVE y \in Range(t)
  <2>1. PICK i \in 1..Len(s) : y = s[i]
    BY <1>1 DEF Range
  <2>2. i - 1 \in 1..(Len(s) - 1) /\ i = (i - 1) + 1
    BY <1>1, <1>6, <2>1
  <2>3. t[i - 1] = y
    BY <1>1, <2>1, <2>2
  <2> QED BY <1>1, <2>2, <2>3 DEF Range
<1> QED
  BY <1>1, <1>3, <1>4, <1>5, <1>6 DEF t

(***************************************************************************)
(* Two sequences one after the other.                                      *)
(***************************************************************************)
LEMMA ConcatMeaning ==
  ASSUME NEW s \in Seq(PhaseIds), NEW t \in Seq(PhaseIds), IsInjective(s), IsInjective(t),
         Range(s) \cap Range(t) = {}
  PROVE  /\ s \o t \in Seq(PhaseIds)
         /\ IsInjective(s \o t)
         /\ Range(s \o t) = Range(s) \cup Range(t)
<1> DEFINE u == s \o t
           m == Len(s)
           n == Len(t)
<1>1. /\ m \in Nat /\ n \in Nat /\ u \in Seq(PhaseIds) /\ Len(u) = m + n
      /\ DOMAIN s = 1..m /\ DOMAIN t = 1..n /\ DOMAIN u = 1..(m + n)
      /\ \A i \in 1..m : u[i] = s[i]
      /\ \A i \in 1..(m + n) : i > m => u[i] = t[i - m]
  OBVIOUS
<1> HIDE DEF u, m, n
<1>2. /\ \A i \in 1..m : s[i] \in Range(s)
      /\ \A i \in 1..n : t[i] \in Range(t)
  BY <1>1 DEF Range
<1>3. /\ \A i, j \in 1..m : s[i] = s[j] => i = j
      /\ \A i, j \in 1..n : t[i] = t[j] => i = j
  BY <1>1 DEF IsInjective
<1>4. \A i \in 1..(m + n) : i \in 1..m \/ (i > m /\ i - m \in 1..n)
  BY <1>1
<1>5. ASSUME NEW i \in 1..(m + n), NEW j \in 1..(m + n), u[i] = u[j] PROVE i = j
  <2>1. CASE i \in 1..m /\ j \in 1..m
    BY <1>1, <1>3, <1>5, <2>1
  <2>2. CASE i > m /\ j > m /\ i - m \in 1..n /\ j - m \in 1..n
    <3>1. i - m = j - m
      BY <1>1, <1>3, <1>5, <2>2
    <3> QED BY <1>1, <3>1
  <2>3. CASE i \in 1..m /\ j > m /\ j - m \in 1..n
    BY <1>1, <1>2, <1>5, <2>3
  <2>4. CASE j \in 1..m /\ i > m /\ i - m \in 1..n
    BY <1>1, <1>2, <1>5, <2>4
  <2> QED BY <1>4, <2>1, <2>2, <2>3, <2>4
<1>6. IsInjective(u)
  BY <1>1, <1>5 DEF IsInjective
<1>7. ASSUME NEW y \in Range(u) PROVE y \in Range(s) \cup Range(t)
  <2>1. PICK i \in 1..(m + n) : y = u[i]
    BY <1>1 DEF Range
  <2> QED BY <1>1, <1>2, <1>4, <2>1
<1>8. ASSUME NEW y \in Range(s) PROVE y \in Range(u)
  <2>1. PICK i \in 1..m : y = s[i]
    BY <1>1 DEF Range
  <2>2. i \in DOMAIN u /\ u[i] = y
    BY <1>1, <2>1
  <2> QED BY <2>2 DEF Range
<1>9. ASSUME NEW y \in Range(t) PROVE y \in Range(u)
  <2>1. PICK i \in 1..n : y = t[i]
    BY <1>1 DEF Range
  <2>2. i + m \in DOMAIN u /\ i + m > m /\ (i + m) - m = i
    BY <1>1
  <2>3. u[i + m] = y
    BY <1>1, <2>1, <2>2
  <2> QED BY <2>2, <2>3 DEF Range
<1> QED
  BY <1>1, <1>6, <1>7, <1>8, <1>9 DEF u

-----------------------------------------------------------------------------
(***************************************************************************)
(* The loop.                                                               *)
(***************************************************************************)
KahnStates == [ready : Seq(PhaseIds), order : Seq(PhaseIds), indeg : [PhaseIds -> Nat]]

(***************************************************************************)
(* Each phase comes after all it depends on.                               *)
(***************************************************************************)
Sorted(d, order) ==
  \A j \in 1..Len(order) : d[order[j]] \subseteq {order[i] : i \in 1..(j - 1)}

(***************************************************************************)
(* The loop's invariant: the in-degrees count the dependencies not placed, *)
(* the queue holds the unplaced phases that have none left, each once, and *)
(* the order is sorted.                                                    *)
(***************************************************************************)
KahnInv(d, s) ==
  /\ s \in KahnStates
  /\ IsInjective(s.order) /\ IsInjective(s.ready)
  /\ \A p \in PhaseIds : s.indeg[p] = Cardinality(d[p] \ Range(s.order))
  /\ Range(s.ready) = {p \in PhaseIds \ Range(s.order) : d[p] \subseteq Range(s.order)}
  /\ Sorted(d, s.order)

(***************************************************************************)
(* Sets of phases are finite.                                              *)
(***************************************************************************)
LEMMA PhasesFinite ==
  ASSUME NEW S \in SUBSET PhaseIds
  PROVE  /\ IsFiniteSet(S) /\ Cardinality(S) \in 0..PhaseCount
         /\ Cardinality(S) = 0 <=> S = {}
<1>1. IsFiniteSet(PhaseIds) /\ Cardinality(PhaseIds) = PhaseCount
  BY FS_Interval
<1>2. IsFiniteSet(S) /\ Cardinality(S) <= PhaseCount
  BY <1>1, FS_Subset
<1>3. Cardinality(S) \in Nat
  BY <1>2, FS_CardinalityType
<1>4. Cardinality(S) = 0 <=> S = {}
  BY <1>2, FS_EmptySet
<1> QED
  BY <1>2, <1>3, <1>4

(***************************************************************************)
(* The loop starts in its invariant.                                       *)
(***************************************************************************)
LEMMA KahnStarts ==
  ASSUME NEW d \in DependsOn
  PROVE  KahnInv(d, KahnStart(d))
<1> DEFINE s    == KahnStart(d)
           free == {p \in PhaseIds : d[p] = {}}
<1>1. d \in [PhaseIds -> SUBSET PhaseIds]
  BY DEF DependsOn
<1>2. /\ s.ready = InDeclaredOrder(free) /\ s.order = <<>>
      /\ s.indeg = [p \in PhaseIds |-> Cardinality(d[p])]
      /\ s = [ready |-> s.ready, order |-> s.order, indeg |-> s.indeg]
  BY DEF KahnStart
<1>3. /\ s.ready \in Seq(PhaseIds) /\ IsInjective(s.ready) /\ Range(s.ready) = free
  BY <1>2, DeclaredOrderMeaning
<1>4. Range(<<>>) = {} /\ IsInjective(<<>>) /\ Len(<<>>) = 0 /\ <<>> \in Seq(PhaseIds)
  BY DEF Range, IsInjective
<1>5. s.indeg \in [PhaseIds -> Nat]
  <2>1. \A p \in PhaseIds : Cardinality(d[p]) \in Nat
    BY <1>1, PhasesFinite
  <2> QED BY <1>2, <2>1
<1> HIDE DEF s
<1>6. s \in KahnStates
  BY <1>2, <1>3, <1>4, <1>5 DEF KahnStates
<1>7. \A p \in PhaseIds : s.indeg[p] = Cardinality(d[p] \ Range(s.order))
  <2>1. \A p \in PhaseIds : d[p] \ Range(s.order) = d[p]
    BY <1>2, <1>4
  <2> QED BY <1>2, <2>1
<1>8. Range(s.ready) = {p \in PhaseIds \ Range(s.order) : d[p] \subseteq Range(s.order)}
  BY <1>2, <1>3, <1>4
<1>9. Sorted(d, s.order)
  BY <1>2, <1>4 DEF Sorted
<1> QED
  BY <1>2, <1>3, <1>4, <1>6, <1>7, <1>8, <1>9 DEF KahnInv, s

(***************************************************************************)
(* Every turn of the loop keeps the invariant.                             *)
(***************************************************************************)
LEMMA KahnKeeps ==
  ASSUME NEW d \in DependsOn, NEW s, KahnInv(d, s), s.ready # <<>>
  PROVE  KahnInv(d, KahnStep(d, s))
<1> DEFINE id     == Head(s.ready)
           placed == Range(s.order)
           indeg  == [p \in PhaseIds |-> IF id \in d[p] THEN s.indeg[p] - 1 ELSE s.indeg[p]]
           F      == {p \in PhaseIds : id \in d[p] /\ indeg[p] = 0}
           freed  == InDeclaredOrder(F)
           t      == KahnStep(d, s)
<1>1. d \in [PhaseIds -> SUBSET PhaseIds] /\ \A p \in PhaseIds : p \notin d[p]
  BY DEF DependsOn
<1>2. /\ s.ready \in Seq(PhaseIds) /\ s.order \in Seq(PhaseIds)
      /\ s.indeg \in [PhaseIds -> Nat]
      /\ IsInjective(s.order) /\ IsInjective(s.ready)
      /\ \A p \in PhaseIds : s.indeg[p] = Cardinality(d[p] \ placed)
      /\ Range(s.ready) = {p \in PhaseIds \ placed : d[p] \subseteq placed}
      /\ Sorted(d, s.order)
  BY DEF KahnInv, KahnStates
<1>3. /\ t.ready = Tail(s.ready) \o freed /\ t.order = Append(s.order, id)
      /\ t.indeg = indeg
      /\ t = [ready |-> t.ready, order |-> t.order, indeg |-> t.indeg]
  BY DEF KahnStep
<1> HIDE DEF t
<1>4. /\ id \in Range(s.ready) /\ id \in PhaseIds /\ Tail(s.ready) \in Seq(PhaseIds)
      /\ IsInjective(Tail(s.ready)) /\ Range(Tail(s.ready)) = Range(s.ready) \ {id}
  BY <1>2, TailMeaning
<1> HIDE DEF id
<1>5. id \notin placed /\ d[id] \subseteq placed
  BY <1>2, <1>4
<1>6. /\ t.order \in Seq(PhaseIds) /\ IsInjective(t.order)
      /\ Range(t.order) = placed \cup {id}
      /\ Len(t.order) = Len(s.order) + 1
      /\ \A i \in 1..Len(s.order) : t.order[i] = s.order[i]
      /\ t.order[Len(s.order) + 1] = id
  <2> DEFINE o == s.order
  <2>1. o \in Seq(PhaseIds) /\ IsInjective(o) /\ id \in PhaseIds \ Range(o)
    BY <1>2, <1>4, <1>5
  <2>2. t.order = Append(o, id)
    BY <1>3, Zenon
  <2> HIDE DEF o, placed
  <2>3. /\ Append(o, id) \in Seq(PhaseIds) /\ IsInjective(Append(o, id))
        /\ Range(Append(o, id)) = Range(o) \cup {id}
        /\ Len(Append(o, id)) = Len(o) + 1
        /\ \A i \in 1..Len(o) : Append(o, id)[i] = o[i]
        /\ Append(o, id)[Len(o) + 1] = id
    BY <2>1, AppendMeaning, Zenon
  <2> QED BY <2>2, <2>3, Zenon DEF o, placed
<1>7. \A p \in PhaseIds : indeg[p] \in Nat /\ indeg[p] = Cardinality(d[p] \ Range(t.order))
  <2> SUFFICES ASSUME NEW p \in PhaseIds
               PROVE  indeg[p] \in Nat /\ indeg[p] = Cardinality(d[p] \ Range(t.order))
    BY Zenon
  <2> DEFINE R == d[p] \ placed
  <2>1. /\ R \in SUBSET PhaseIds /\ R \ {id} \in SUBSET PhaseIds
        /\ d[p] \ Range(t.order) = R \ {id}
    BY <1>1, <1>6
  <2>2. (id \in R) <=> id \in d[p]
    BY <1>5
  <2>3. s.indeg[p] = Cardinality(R)
    BY <1>2
  <2> HIDE DEF R
  <2>4. Cardinality(R \ {id}) = IF id \in R THEN Cardinality(R) - 1 ELSE Cardinality(R)
    BY <2>1, PhasesFinite, FS_RemoveElement
  <2>5. Cardinality(R \ {id}) \in Nat
    BY <2>1, PhasesFinite
  <2> QED BY <2>1, <2>2, <2>3, <2>4, <2>5
<1>8. F = {p \in PhaseIds : id \in d[p] /\ d[p] \subseteq Range(t.order)}
  <2>1. \A p \in PhaseIds : indeg[p] = 0 <=> d[p] \subseteq Range(t.order)
    <3> SUFFICES ASSUME NEW p \in PhaseIds
                 PROVE  indeg[p] = 0 <=> d[p] \subseteq Range(t.order)
      BY Zenon
    <3>1. d[p] \ Range(t.order) \in SUBSET PhaseIds
      BY <1>1
    <3>2. Cardinality(d[p] \ Range(t.order)) = 0 <=> d[p] \ Range(t.order) = {}
      BY <3>1, PhasesFinite
    <3> HIDE DEF indeg
    <3> QED BY <1>7, <3>2
  <2> HIDE DEF indeg
  <2> QED BY <2>1
<1>9. freed \in Seq(PhaseIds) /\ IsInjective(freed) /\ Range(freed) = F
  <2>1. F \in SUBSET PhaseIds
    OBVIOUS
  <2> HIDE DEF F
  <2> QED BY <2>1, DeclaredOrderMeaning
<1> HIDE DEF F, freed, indeg
<1>10. /\ t.ready \in Seq(PhaseIds) /\ IsInjective(t.ready)
       /\ Range(t.ready) = (Range(s.ready) \ {id}) \cup F
  <2>1. Range(Tail(s.ready)) \cap Range(freed) = {}
    BY <1>2, <1>4, <1>5, <1>8, <1>9
  <2> QED BY <1>3, <1>4, <1>9, <2>1, ConcatMeaning
<1>11. Range(t.ready) = {p \in PhaseIds \ Range(t.order) : d[p] \subseteq Range(t.order)}
  <2>1. ASSUME NEW p \in PhaseIds, p \in placed PROVE id \notin d[p]
    <3>0. DOMAIN s.order = 1..Len(s.order)
      BY <1>2
    <3>1. PICK j \in 1..Len(s.order) : p = s.order[j]
      BY <2>1, <3>0, Zenon DEF Range
    <3>2. d[p] \subseteq {s.order[i] : i \in 1..(j - 1)}
      BY <1>2, <3>1 DEF Sorted
    <3>3. \A i \in 1..(j - 1) : s.order[i] \in placed
      <4>1. \A i \in 1..(j - 1) : i \in DOMAIN s.order
        BY <1>2, <3>1
      <4> QED BY <4>1 DEF Range
    <3> QED BY <1>5, <3>2, <3>3
  <2>2. \A p \in F : p \notin Range(t.order)
    BY <1>1, <1>6, <1>8, <2>1
  <2>3. ASSUME NEW p \in Range(t.ready)
        PROVE  p \in PhaseIds \ Range(t.order) /\ d[p] \subseteq Range(t.order)
    <3>1. CASE p \in F
      BY <1>8, <2>2, <3>1
    <3>2. CASE p \in Range(s.ready) \ {id}
      BY <1>2, <1>6, <3>2
    <3> QED BY <1>10, <2>3, <3>1, <3>2
  <2>4. ASSUME NEW p \in PhaseIds \ Range(t.order), d[p] \subseteq Range(t.order)
        PROVE  p \in Range(t.ready)
    <3>1. CASE id \in d[p]
      BY <1>8, <1>10, <2>4, <3>1
    <3>2. CASE id \notin d[p]
      <4>1. d[p] \subseteq placed /\ p \notin placed /\ p # id
        BY <1>6, <2>4, <3>2
      <4> QED BY <1>2, <1>10, <4>1
    <3> QED BY <3>1, <3>2
  <2> QED BY <2>3, <2>4
<1>12. Sorted(d, t.order)
  <2> SUFFICES ASSUME NEW j \in 1..(Len(s.order) + 1)
               PROVE  d[t.order[j]] \subseteq {t.order[i] : i \in 1..(j - 1)}
    BY <1>6 DEF Sorted
  <2>1. Len(s.order) \in Nat /\ DOMAIN s.order = 1..Len(s.order)
    BY <1>2
  <2>2. \A i \in 1..(j - 1) : t.order[i] = s.order[i]
    BY <1>6, <2>1
  <2>3. CASE j = Len(s.order) + 1
    <3>1. placed = {s.order[i] : i \in 1..(j - 1)}
      <4>1. j - 1 = Len(s.order)
        BY <2>1, <2>3
      <4>2. 1..(j - 1) = DOMAIN s.order
        BY <2>1, <4>1
      <4> QED BY <4>2, Zenon DEF Range
    <3>2. {t.order[i] : i \in 1..(j - 1)} = placed
      BY <2>2, <3>1
    <3>3. t.order[j] = id
      BY <1>6, <2>3
    <3> QED BY <1>5, <3>2, <3>3
  <2>4. CASE j \in 1..Len(s.order)
    <3>1. d[s.order[j]] \subseteq {s.order[i] : i \in 1..(j - 1)}
      BY <1>2, <2>4 DEF Sorted
    <3>2. t.order[j] = s.order[j]
      BY <1>6, <2>4
    <3> QED BY <2>2, <3>1, <3>2
  <2> QED BY <2>1, <2>3, <2>4
<1>13. t \in KahnStates
  BY <1>3, <1>6, <1>7, <1>10 DEF KahnStates, indeg
<1>14. \A p \in PhaseIds : t.indeg[p] = Cardinality(d[p] \ Range(t.order))
  BY <1>3, <1>7
<1> QED
  BY <1>6, <1>10, <1>11, <1>12, <1>13, <1>14 DEF KahnInv, t

(***************************************************************************)
(* What the loop has placed and queued.                                    *)
(***************************************************************************)
LEMMA KahnTypes ==
  ASSUME NEW d \in DependsOn, NEW s, KahnInv(d, s)
  PROVE  /\ s.indeg \in [PhaseIds -> 0..PhaseCount]
         /\ IsInjective(s.order \o s.ready)
         /\ Range(s.order \o s.ready) \subseteq PhaseIds
<1>1. /\ s.ready \in Seq(PhaseIds) /\ s.order \in Seq(PhaseIds)
      /\ s.indeg \in [PhaseIds -> Nat]
      /\ IsInjective(s.order) /\ IsInjective(s.ready)
      /\ \A p \in PhaseIds : s.indeg[p] = Cardinality(d[p] \ Range(s.order))
      /\ Range(s.ready) \cap Range(s.order) = {}
  BY DEF KahnInv, KahnStates
<1>2. \A p \in PhaseIds : s.indeg[p] \in 0..PhaseCount
  <2>1. \A p \in PhaseIds : d[p] \ Range(s.order) \in SUBSET PhaseIds
    BY DEF DependsOn
  <2> QED BY <1>1, <2>1, PhasesFinite
<1>3. Range(s.order) \subseteq PhaseIds /\ Range(s.ready) \subseteq PhaseIds
  BY <1>1, InjectiveLength
<1> QED
  BY <1>1, <1>2, <1>3, ConcatMeaning

(***************************************************************************)
(* The order is complete when it has as many phases as the spec.           *)
(***************************************************************************)
LEMMA KahnComplete ==
  ASSUME NEW order \in Seq(PhaseIds), IsInjective(order)
  PROVE  Len(order) = PhaseCount <=> Range(order) = PhaseIds
<1>1. IsFiniteSet(PhaseIds) /\ Cardinality(PhaseIds) = PhaseCount
  BY FS_Interval
<1>2. Range(order) \in SUBSET PhaseIds /\ Cardinality(Range(order)) = Len(order)
  BY InjectiveLength
<1> QED
  BY <1>1, <1>2, FS_Subset

(***************************************************************************)
(* A sorted order respects the dependencies.                               *)
(***************************************************************************)
LEMMA SortedRespects ==
  ASSUME NEW d, NEW order \in Seq(PhaseIds), IsInjective(order), Sorted(d, order)
  PROVE  RespectsDependencies(order, d)
<1>1. DOMAIN order = 1..Len(order) /\ Len(order) \in Nat
  OBVIOUS
<1> SUFFICES ASSUME NEW i \in 1..Len(order), NEW j \in 1..Len(order),
                    order[i] \in d[order[j]]
             PROVE  i < j
  BY <1>1 DEF RespectsDependencies
<1>2. PICK k \in 1..(j - 1) : order[i] = order[k]
  BY DEF Sorted
<1>3. k \in 1..Len(order)
  BY <1>1
<1>4. i = k
  BY <1>1, <1>2, <1>3 DEF IsInjective
<1> QED
  BY <1>4

(***************************************************************************)
(* When the queue is empty, what is missing from the order is on a cycle,  *)
(* and a complete order leaves no cycle.                                   *)
(***************************************************************************)
LEMMA KahnFindsCycles ==
  ASSUME NEW d \in DependsOn, NEW s, KahnInv(d, s), s.ready = <<>>
  PROVE  Len(s.order) = PhaseCount <=> ~Cyclic(d)
<1> DEFINE placed == Range(s.order)
<1>1. /\ s.order \in Seq(PhaseIds) /\ IsInjective(s.order) /\ Sorted(d, s.order)
      /\ Range(s.ready) = {p \in PhaseIds \ placed : d[p] \subseteq placed}
      /\ d \in [PhaseIds -> SUBSET PhaseIds]
  BY DEF KahnInv, KahnStates, DependsOn
<1>2. Len(s.order) = PhaseCount <=> placed = PhaseIds
  BY <1>1, KahnComplete
<1>3. ASSUME placed # PhaseIds PROVE Cyclic(d)
  <2> DEFINE S == PhaseIds \ placed
  <2>1. Range(s.ready) = {}
    BY DEF Range
  <2>2. S # {}
    BY <1>1, <1>3, InjectiveLength
  <2>3. \A p \in S : d[p] \cap S # {}
    BY <1>1, <2>1
  <2> QED BY <2>2, <2>3 DEF Cyclic
<1>4. ASSUME placed = PhaseIds, NEW S \in SUBSET PhaseIds, S # {},
             \A p \in S : d[p] \cap S # {}
      PROVE  FALSE
  <2> DEFINE T == {j \in 1..Len(s.order) : s.order[j] \in S}
  <2>1. T \in SUBSET Nat /\ T # {}
    <3>1. PICK p \in S : p \in placed
      BY <1>4
    <3>2. PICK j \in 1..Len(s.order) : p = s.order[j]
      BY <1>1, <3>1 DEF Range
    <3> QED BY <3>2
  <2>2. PICK j \in T : \A k \in T : j <= k
    <3> HIDE DEF T
    <3> QED BY <2>1, LeastNumber
  <2>3. j \in 1..Len(s.order) /\ Len(s.order) \in Nat /\ s.order[j] \in S
    BY <1>1
  <2>4. PICK q \in S : q \in d[s.order[j]]
    BY <1>4, <2>3
  <2>5. PICK i \in 1..(j - 1) : q = s.order[i]
    BY <1>1, <2>3, <2>4 DEF Sorted
  <2>6. i \in T /\ ~(j <= i)
    BY <2>3, <2>5
  <2> QED BY <2>2, <2>6
<1> QED
  BY <1>2, <1>3, <1>4 DEF Cyclic

(***************************************************************************)
(* What SortSpec keeps: the loop's invariant, of the relation it sorts.     *)
(***************************************************************************)
SortInv == dependsOn \in DependsOn /\ KahnInv(dependsOn, kahn)

(***************************************************************************)
(* The loop of topoSortPhases keeps its invariant from every dependency    *)
(* relation a parsed spec can have.                                        *)
(***************************************************************************)
LEMMA SortHolds == SortSpec => []SortInv
<1>1. SortInit => SortInv
  BY KahnStarts DEF SortInit, SortInv
<1>2. SortInv /\ [Turn]_sortVars => SortInv'
  <2>1. SortInv /\ Turn => SortInv'
    BY KahnKeeps DEF SortInv, Turn
  <2>2. SortInv /\ UNCHANGED sortVars => SortInv'
    BY DEF SortInv, sortVars
  <2> QED BY <2>1, <2>2
<1> QED
  BY <1>1, <1>2, PTL DEF SortSpec

(***************************************************************************)
(* In every turn the in-degrees count exactly the dependencies not placed, *)
(* and the queue holds exactly the phases that are ready, each once.       *)
(***************************************************************************)
THEOREM IndegreeCorrect == SortSpec => []IndegreeIsExact
<1>1. SortInv => IndegreeIsExact
  BY KahnTypes DEF SortInv, IndegreeIsExact, SortTypeOK, KahnInv, Placed
<1> QED
  BY <1>1, SortHolds, PTL

(***************************************************************************)
(* The order respects every dependency, and "dependency cycle" is reported *)
(* for cycles and for nothing else.                                        *)
(***************************************************************************)
THEOREM SortCorrect == SortSpec => []OrderIsTopological
<1>1. SortInv => OrderIsTopological
  <2> SUFFICES ASSUME SortInv PROVE OrderIsTopological
    OBVIOUS
  <2>1. dependsOn \in DependsOn /\ KahnInv(dependsOn, kahn)
    BY DEF SortInv
  <2>2. /\ kahn.order \in Seq(PhaseIds) /\ IsInjective(kahn.order)
        /\ Sorted(dependsOn, kahn.order)
    BY <2>1 DEF KahnInv, KahnStates
  <2> QED BY <2>1, <2>2, SortedRespects, KahnFindsCycles DEF OrderIsTopological
<1> QED
  BY <1>1, SortHolds, PTL

-----------------------------------------------------------------------------
(***************************************************************************)
(* The function.                                                           *)
(***************************************************************************)

(***************************************************************************)
(* A turn of the loop appends the phase it takes.                          *)
(***************************************************************************)
LEMMA KahnAppends ==
  ASSUME NEW d, NEW s
  PROVE  KahnStep(d, s).order = Append(s.order, Head(s.ready))
  BY DEF KahnStep

(***************************************************************************)
(* topoSortPhases returns the order of a state of the loop that is done.   *)
(***************************************************************************)
LEMMA TopoSortRuns ==
  ASSUME NEW d \in DependsOn
  PROVE  \E s : KahnInv(d, s) /\ s.ready = <<>> /\ TopoSort(d) = s.order
<1> DEFINE X       == {s \in KahnStates : KahnInv(d, s)}
           Step(s) == IF s.ready = <<>> THEN s ELSE KahnStep(d, s)
           G       == [s \in X |-> Step(s)]
           Body(f) == [n \in 0..PhaseCount |->
                         IF n = 0 THEN KahnStart(d)
                         ELSE LET s == f[n - 1]
                              IN  IF s.ready = <<>> THEN s ELSE KahnStep(d, s)]
           after   == CHOOSE f : f = Body(f)
<1>1. TopoSort(d) = after[PhaseCount].order
  BY Zenon DEF TopoSort
<1>2. \A s : KahnInv(d, s) => s \in X
  BY DEF KahnInv
<1>3. KahnStart(d) \in X
  <2> HIDE DEF X
  <2> QED BY <1>2, KahnStarts
<1>4. \A s \in X : Step(s) \in X
  <2> SUFFICES ASSUME NEW s \in X PROVE Step(s) \in X
    BY Zenon
  <2>1. KahnInv(d, s)
    OBVIOUS
  <2> HIDE DEF X
  <2> QED BY <1>2, <2>1, KahnKeeps
<1>5. G \in [X -> X] /\ \A s \in X : G[s] = Step(s)
  <2> HIDE DEF X, Step
  <2> QED BY <1>4
<1> HIDE DEF X, G
<1>6. PICK f \in [0..PhaseCount -> X] : Iterated(f, KahnStart(d), G, PhaseCount)
  <2>1. PhaseCount \in Nat
    OBVIOUS
  <2> QED BY <1>3, <1>5, <2>1, IterationExists, Zenon
<1>7. f = Body(f)
  <2>1. ASSUME NEW n \in 0..PhaseCount PROVE f[n] = Body(f)[n]
    <3>1. CASE n = 0
      BY <1>6, <3>1 DEF Iterated
    <3>2. CASE n # 0
      <4>1. n \in 1..PhaseCount /\ n - 1 \in 0..PhaseCount /\ f[n - 1] \in X
        BY <3>2
      <4>2. f[n] = Step(f[n - 1])
        BY <1>5, <1>6, <4>1 DEF Iterated
      <4> QED BY <3>2, <4>2
    <3> QED BY <3>1, <3>2
  <2>2. DOMAIN f = 0..PhaseCount /\ DOMAIN Body(f) = 0..PhaseCount
    OBVIOUS
  <2> QED BY <2>1, <2>2
<1> DEFINE a == after
<1>8. a = Body(a)
  <2> HIDE DEF Body
  <2> QED BY <1>7
<1> HIDE DEF after
<1>9. a[0] = KahnStart(d) /\ \A n \in 1..PhaseCount : a[n] = Step(a[n - 1])
  BY <1>8
<1> DEFINE Done(n) == a[n] \in X /\ (a[n].ready = <<>> \/ Len(a[n].order) = n)
           T       == {n \in Nat : n <= PhaseCount => Done(n)}
<1> HIDE DEF a
<1>10. T = Nat
  <2>1. 0 \in T
    <3>1. Len(KahnStart(d).order) = 0
      BY DEF KahnStart
    <3> QED BY <1>3, <1>9, <3>1
  <2>2. ASSUME NEW n \in T PROVE n + 1 \in T
    <3> SUFFICES ASSUME n + 1 <= PhaseCount PROVE Done(n + 1)
      OBVIOUS
    <3>1. n \in Nat /\ Done(n) /\ n + 1 \in 1..PhaseCount
      BY <2>2
    <3>2. a[n + 1] = Step(a[n]) /\ a[n + 1] \in X
      BY <1>4, <1>9, <3>1
    <3>3. CASE a[n].ready = <<>>
      BY <3>2, <3>3
    <3>4. CASE a[n].ready # <<>> /\ Len(a[n].order) = n
      <4>1. a[n + 1].order = Append(a[n].order, Head(a[n].ready))
        <5>1. a[n + 1] = KahnStep(d, a[n])
          BY <3>2, <3>4
        <5> QED BY <5>1, KahnAppends
      <4>2. a[n].order \in Seq(PhaseIds)
        BY <3>1 DEF X, KahnStates
      <4> QED BY <3>2, <3>4, <4>1, <4>2
    <3> QED BY <3>1, <3>3, <3>4
  <2>3. T \in SUBSET Nat
    OBVIOUS
  <2> HIDE DEF T
  <2> QED BY <2>1, <2>2, <2>3, SetInduction
<1>11. Done(PhaseCount)
  BY <1>10
<1> DEFINE s == a[PhaseCount]
<1>12. KahnInv(d, s)
  BY <1>11 DEF X
<1>13. s.ready = <<>>
  <2> SUFFICES ASSUME Len(s.order) = PhaseCount PROVE s.ready = <<>>
    BY <1>11
  <2>1. /\ s.order \in Seq(PhaseIds) /\ IsInjective(s.order) /\ s.ready \in Seq(PhaseIds)
        /\ Range(s.ready) \subseteq PhaseIds \ Range(s.order)
    BY <1>12 DEF KahnInv, KahnStates
  <2>2. Range(s.ready) = {}
    BY <2>1, KahnComplete
  <2>3. s.ready # <<>> => 1 \in DOMAIN s.ready
    BY <2>1
  <2> QED BY <2>2, <2>3 DEF Range
<1> QED
  BY <1>1, <1>12, <1>13 DEF a

(***************************************************************************)
(* The order of topoSortPhases: each phase at most once, and after all it  *)
(* depends on.                                                             *)
(***************************************************************************)
LEMMA TopoSortMeaning ==
  ASSUME NEW d \in DependsOn
  PROVE  TopoSort(d) \in Seq(PhaseIds) /\ IsInjective(TopoSort(d)) /\ Sorted(d, TopoSort(d))
  BY TopoSortRuns DEF KahnInv, KahnStates

(***************************************************************************)
(* topoSortPhases respects all dependencies, and its order is complete     *)
(* exactly when they have no cycle.                                        *)
(***************************************************************************)
THEOREM TopoSortCorrect ==
  \A d \in DependsOn :
    /\ RespectsDependencies(TopoSort(d), d)
    /\ Len(TopoSort(d)) = PhaseCount <=> ~Cyclic(d)
  BY TopoSortMeaning, TopoSortRuns, SortedRespects, KahnFindsCycles
=============================================================================
