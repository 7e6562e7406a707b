---------------------------- MODULE Positions_proofs ----------------------------
(***************************************************************************)
(* Facts about sets of positions of a sequence: the least of them, and the  *)
(* members of the sequence at them.                                         *)
(***************************************************************************)
EXTENDS Naturals, SequencesExt, FiniteSetTheorems, WellFoundedInduction, TLAPS

\* A non-empty set of numbers has a least member, so Min picks one of them.
LEMMA LeastExists ==
  ASSUME NEW I \in SUBSET Nat, I # {}
  PROVE  Min(I) \in I /\ \A y \in I : Min(I) <= y
<1> DEFINE R == {p \in Nat \X Nat : p[1] < p[2]}
<1>1. IsWellFoundedOn(R, Nat)
  BY NatLessThanWellFounded DEF OpToRel
<1>2. \A x, y \in Nat : <<y, x>> \in R <=> y < x
  OBVIOUS
<1> HIDE DEF R
<1>3. PICK x \in I : \A y \in I : ~ (<<y, x>> \in R)
  BY <1>1, WFMin
<1>4. ASSUME NEW y \in I PROVE x <= y
  <2>1. x \in Nat /\ y \in Nat
    OBVIOUS
  <2>2. ~ (y < x)
    BY <1>2, <1>3, <2>1, Zenon
  <2> QED
    BY <2>1, <2>2
<1> QED
  BY <1>4 DEF Min

\* The members of a sequence at some of its positions come in the order of
\* those positions, and each of them once.
LEMMA PositionsInOrder ==
  ASSUME NEW N \in Nat, NEW P \in SUBSET (1 .. N)
  PROVE  /\ Cardinality(P) \in Nat
         /\ \E pos \in [1 .. Cardinality(P) -> P] :
              /\ \A m, n \in 1 .. Cardinality(P) : m < n => pos[m] < pos[n]
              /\ \A p \in P : \E n \in 1 .. Cardinality(P) : pos[n] = p
              /\ \A s : [n \in 1 .. Cardinality(P) |->
                      s[CHOOSE p \in P : Cardinality({q \in P : q <= p}) = n]]
                    = [n \in 1 .. Cardinality(P) |-> s[pos[n]]]
<1> DEFINE UpTo(p) == {q \in P : q <= p}
           rank == [p \in P |-> Cardinality(UpTo(p))]
           size == Cardinality(P)
<1>1. IsFiniteSet(P) /\ size \in Nat
  <2>1. IsFiniteSet(1 .. N)
    BY FS_Interval
  <2>2. IsFiniteSet(P)
    BY <2>1, FS_Subset
  <2> QED
    BY <2>2, FS_CardinalityType
<1>2. \A p \in P : IsFiniteSet(UpTo(p)) /\ Cardinality(UpTo(p)) \in Nat
                   /\ Cardinality(UpTo(p)) <= size
  <2> TAKE p \in P
  <2>1. UpTo(p) \in SUBSET P
    OBVIOUS
  <2>2. IsFiniteSet(UpTo(p)) /\ Cardinality(UpTo(p)) <= size
    BY <1>1, <2>1, FS_Subset
  <2> QED
    BY <2>2, FS_CardinalityType
<1>3. \A p \in P : Cardinality(UpTo(p)) >= 1
  <2> TAKE p \in P
  <2>1. p \in UpTo(p)
    OBVIOUS
  <2>2. Cardinality(UpTo(p)) # 0
    BY <1>2, <2>1, FS_EmptySet
  <2> QED
    BY <1>2, <2>2
<1>4. \A p, q \in P : p < q => Cardinality(UpTo(p)) < Cardinality(UpTo(q))
  <2> TAKE p, q \in P
  <2> HAVE p < q
  <2>0. p \in Nat /\ q \in Nat /\ \A x \in P : x \in Nat
    OBVIOUS
  <2>1. UpTo(p) \in SUBSET UpTo(q) /\ q \in UpTo(q) /\ q \notin UpTo(p)
    <3>1. \A x \in P : x <= p => x <= q
      BY <2>0
    <3>2. q <= q /\ ~ q <= p
      BY <2>0
    <3> QED
      BY <3>1, <3>2
  <2>2. /\ Cardinality(UpTo(p)) <= Cardinality(UpTo(q))
        /\ Cardinality(UpTo(q)) = Cardinality(UpTo(p)) => UpTo(q) = UpTo(p)
    BY <1>2, <2>1, FS_Subset
  <2> QED
    BY <1>2, <2>1, <2>2
<1>5. rank \in [P -> 1 .. size] /\ \A p, q \in P : p < q => rank[p] < rank[q]
  <2> HIDE DEF UpTo, size
  <2> QED
    BY <1>1, <1>2, <1>3, <1>4
<1>6. rank \in Injection(P, 1 .. size)
  <2> HIDE DEF rank, size
  <2>1. \A p, q \in P : rank[p] = rank[q] => p = q
    BY <1>5
  <2> QED
    BY <1>5, <2>1 DEF Injection, IsInjective
<1>7. rank \in Surjection(P, 1 .. size)
  <2> HIDE DEF rank
  <2>1. IsFiniteSet(1 .. size) /\ Cardinality(1 .. size) = size
    BY <1>1, FS_Interval
  <2> QED
    BY <1>6, <2>1, FS_Injection
<1>8. \A n \in 1 .. size : \E p \in P : rank[p] = n
  BY <1>7, Zenon DEF Surjection
<1> DEFINE pos == [n \in 1 .. size |-> CHOOSE p \in P : Cardinality(UpTo(p)) = n]
<1>9. \A n \in 1 .. size : pos[n] \in P /\ rank[pos[n]] = n
  <2> TAKE n \in 1 .. size
  <2>1. \E p \in P : Cardinality(UpTo(p)) = n
    BY <1>8
  <2>2. pos[n] = CHOOSE p \in P : Cardinality(UpTo(p)) = n
    OBVIOUS
  <2> HIDE DEF pos, UpTo
  <2>3. pos[n] \in P /\ Cardinality(UpTo(pos[n])) = n
    BY <2>1, <2>2
  <2> QED
    BY <2>3
<1>10. pos \in [1 .. size -> P]
  BY <1>9
<1>11. \A s : [n \in 1 .. Cardinality(P) |->
                 s[CHOOSE p \in P : Cardinality({q \in P : q <= p}) = n]]
              = [n \in 1 .. size |-> s[pos[n]]]
  OBVIOUS
<1>b. \A p \in P : p \in Nat /\ rank[p] \in Nat
  BY <1>2
<1> HIDE DEF pos, rank, size
<1>12. ASSUME NEW m \in 1 .. size, NEW n \in 1 .. size, m < n
       PROVE  pos[m] < pos[n]
  <2>1. pos[m] \in Nat /\ pos[n] \in Nat /\ rank[pos[m]] < rank[pos[n]]
    BY <1>b, <1>9, <1>12
  <2>2. rank[pos[n]] = n /\ rank[pos[m]] = m /\ pos[n] \in P /\ pos[m] \in P
    BY <1>9
  <2>3. ~ pos[n] < pos[m]
    <3>1. pos[n] < pos[m] => rank[pos[n]] < rank[pos[m]]
      BY <1>5, <2>2, Zenon
    <3> QED
      BY <1>1, <1>12, <2>2, <3>1
  <2>4. pos[n] # pos[m]
    BY <1>1, <1>12, <2>2
  <2> QED
    BY <2>1, <2>3, <2>4
<1>13. ASSUME NEW p \in P PROVE \E n \in 1 .. size : pos[n] = p
  <2>1. rank[p] \in 1 .. size
    BY <1>5
  <2>2. rank[pos[rank[p]]] = rank[p] /\ pos[rank[p]] \in P
    BY <1>9, <2>1
  <2>3. ~ p < pos[rank[p]] /\ ~ pos[rank[p]] < p
    <3>1. /\ p < pos[rank[p]] => rank[p] < rank[pos[rank[p]]]
          /\ pos[rank[p]] < p => rank[pos[rank[p]]] < rank[p]
      BY <1>5, <2>2, Zenon
    <3> QED
      BY <1>1, <2>1, <2>2, <3>1
  <2>4. p \in Nat /\ pos[rank[p]] \in Nat
    BY <1>b, <2>2
  <2>5. pos[rank[p]] = p
    BY <2>3, <2>4
  <2> QED
    BY <2>1, <2>5
<1> QED
  BY <1>1, <1>10, <1>11, <1>12, <1>13 DEF size
================================================================================
