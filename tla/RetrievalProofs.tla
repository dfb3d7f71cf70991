--------------------------- MODULE RetrievalProofs ---------------------------
(***************************************************************************)
(* Proofs about the tools that take a question to the stores: what the     *)
(* temporal filter surfaces is the newest that nothing has replaced; an    *)
(* answer of selective routing has its decision on the ledger and keeps    *)
(* every hit; a vector is routed without regard to the order of the        *)
(* exemplars; the filter and the statement made of one question range over *)
(* the same memories.  The loops of this code are proved about by their    *)
(* places in order, and what holds of lists of every length by taking the  *)
(* shortest list for which it would not hold.                              *)
(***************************************************************************)
EXTENDS MCRetrieval,
        TLAPS, FiniteSetTheorems, SequenceTheorems, WellFoundedInduction

-----------------------------------------------------------------------------
(* Places in order *)

\* What holds of zero and of every successor holds of all numbers, said of a
\* set: the smallest number outside of it would be a successor.
Less == {p \in Nat \X Nat : p[1] < p[2]}

LEMMA AllNumbers ==
    ASSUME NEW S, 0 \in S, \A n \in Nat : n \in S => n + 1 \in S
    PROVE  \A n \in Nat : n \in S
  <1> DEFINE T == {n \in Nat : n \notin S}
  <1>1. ASSUME T # {}
        PROVE  FALSE
    <2>1. IsWellFoundedOn(Less, Nat)
      BY NatLessThanWellFounded, Zenon DEF OpToRel, Less
    <2>2. T \subseteq Nat
      OBVIOUS
    <2>3. PICK m \in T : \A n \in T : ~ (<<n, m>> \in Less)
      BY <1>1, <2>1, <2>2, WFMin, Zenon
    <2>4. m \in Nat /\ m # 0 /\ m - 1 \in Nat
      OBVIOUS
    <2>5. <<m - 1, m>> \in Less
      BY <2>4 DEF Less
    <2>6. m - 1 \in S
      BY <2>3, <2>4, <2>5
    <2>7. (m - 1) + 1 \in S
      BY <2>4, <2>6
    <2> QED  BY <2>4, <2>7
  <1> QED  BY <1>1

\* Some places are finitely many.
LEMMA PlacesFinite ==
    ASSUME NEW k \in Nat, NEW P \in SUBSET (1..k)
    PROVE  IsFiniteSet(P) /\ Cardinality(P) \in Nat
  <1>1. IsFiniteSet(1..k)
    BY FS_Interval
  <1> QED  BY <1>1, FS_Subset, FS_CardinalityType

\* With n places there is one with 0, 1, ..., n - 1 places before it.
LEMMA PlacesCounted ==
    ASSUME NEW k \in Nat, NEW P \in SUBSET (1..k)
    PROVE  \A n \in 1..Cardinality(P) : \E i \in P : Before(P, i) = n - 1
  <1> DEFINE Counted(Q) == \A n \in 1..Cardinality(Q) : \E i \in Q : Before(Q, i) = n - 1
             S == {m \in Nat : \A Q \in SUBSET (1..m) : Counted(Q)}
  <1>1. 0 \in S
    <2>1. \A Q \in SUBSET (1..0) : Q = {}
      OBVIOUS
    <2>2. Cardinality({}) = 0
      BY FS_EmptySet
    <2>3. 1..0 = {}
      OBVIOUS
    <2> QED  BY <2>1, <2>2, <2>3
  <1>2. ASSUME NEW m \in Nat, m \in S
        PROVE  m + 1 \in S
    <2> SUFFICES ASSUME NEW Q \in SUBSET (1..(m + 1))
                 PROVE  Counted(Q)
      OBVIOUS
    <2>1. CASE m + 1 \notin Q
      <3>1. Q \in SUBSET (1..m)
        BY <2>1
      <3> QED  BY <1>2, <3>1
    <2>2. CASE m + 1 \in Q
      <3> DEFINE R == Q \ {m + 1}
      <3>1. R \in SUBSET (1..m) /\ Q = R \cup {m + 1} /\ m + 1 \notin R
        BY <2>2
      <3> HIDE DEF R
      <3>2. IsFiniteSet(R) /\ Cardinality(R) \in Nat /\ Counted(R)
        BY <1>2, <3>1, PlacesFinite
      <3>3. Cardinality(Q) = Cardinality(R) + 1
        BY <3>1, <3>2, FS_AddElement
      <3>4. ASSUME NEW n \in 1..Cardinality(Q)
            PROVE  \E i \in Q : Before(Q, i) = n - 1
        <4>1. CASE n \in 1..Cardinality(R)
          <5>1. PICK i \in R : Before(R, i) = n - 1
            BY <3>2, <4>1
          <5>2. {j \in Q : j < i} = {j \in R : j < i}
            BY <3>1
          <5>3. Before(Q, i) = Before(R, i)
            BY <5>2 DEF Before
          <5> QED  BY <3>1, <5>1, <5>3
        <4>2. CASE n \notin 1..Cardinality(R)
          <5>1. n - 1 = Cardinality(R)
            BY <3>2, <3>3, <4>2
          <5>2. \A j \in Q : j < m + 1 <=> j \in R
            <6>1. \A j \in R : j < m + 1
              BY <3>1
            <6>2. ~ (m + 1 < m + 1)
              OBVIOUS
            <6> QED  BY <3>1, <6>1, <6>2
          <5>3. {j \in Q : j < m + 1} = R
            BY <3>1, <5>2
          <5>4. Before(Q, m + 1) = n - 1
            BY <5>1, <5>3 DEF Before
          <5> QED  BY <2>2, <5>4
        <4> QED  BY <4>1, <4>2
      <3> QED  BY <3>4
    <2> QED  BY <2>1, <2>2
  <1> HIDE DEF S
  <1>3. k \in S
    BY <1>1, <1>2, AllNumbers
  <1> QED  BY <1>3 DEF S

\* Of two places the later one has more before it.
LEMMA LaterHasMore ==
    ASSUME NEW k \in Nat, NEW P \in SUBSET (1..k), NEW i \in P, NEW j \in P, i < j
    PROVE  Before(P, i) < Before(P, j)
  <1> DEFINE I == {x \in P : x < i}
             J == {x \in P : x < j}
  <1>1. \A x \in P : x \in Nat
    OBVIOUS
  <1>2. I \in SUBSET J /\ i \in J /\ i \notin I /\ J \in SUBSET (1..k) /\ I \in SUBSET (1..k)
    <2>1. \A x \in P : x < i => x < j
      BY <1>1
    <2>2. ~ (i < i)
      BY <1>1
    <2> QED  BY <2>1, <2>2
  <1> HIDE DEF I, J
  <1>3. IsFiniteSet(J) /\ Cardinality(J) \in Nat /\ Cardinality(I) \in Nat
    BY <1>2, PlacesFinite
  <1>4. Cardinality(I) <= Cardinality(J) /\ (Cardinality(J) = Cardinality(I) => J = I)
    BY <1>2, <1>3, FS_Subset
  <1>5. Cardinality(I) < Cardinality(J)
    BY <1>2, <1>3, <1>4
  <1> QED  BY <1>5 DEF Before, I, J

\* InOrder has every place of P once, the earlier one first.
LEMMA PlacesInOrder ==
    ASSUME NEW k \in Nat, NEW P \in SUBSET (1..k)
    PROVE  /\ Cardinality(P) \in Nat
           /\ InOrder(P) \in Seq(P)
           /\ DOMAIN InOrder(P) = 1..Cardinality(P)
           /\ \A m, n \in 1..Cardinality(P) : m < n => InOrder(P)[m] < InOrder(P)[n]
           /\ \A i \in P : \E n \in 1..Cardinality(P) : InOrder(P)[n] = i
  <1> DEFINE f == InOrder(P)
  <1>1. IsFiniteSet(P) /\ Cardinality(P) \in Nat
    BY PlacesFinite
  <1>2. DOMAIN f = 1..Cardinality(P)
    BY DEF InOrder
  <1>3. \A n \in 1..Cardinality(P) : f[n] \in P /\ Before(P, f[n]) = n - 1
    BY PlacesCounted DEF InOrder
  <1>4. f \in Seq(P)
    <2>1. f = [n \in 1..Cardinality(P) |-> f[n]]
      BY DEF InOrder
    <2> HIDE DEF f
    <2> QED  BY <1>1, <1>3, <2>1
  <1> HIDE DEF f
  <1>5. \A x \in P : x \in Nat
    OBVIOUS
  <1>6. ASSUME NEW m \in 1..Cardinality(P), NEW n \in 1..Cardinality(P), m < n
        PROVE  f[m] < f[n]
    <2>1. f[m] \in P /\ f[n] \in P /\ f[m] \in Nat /\ f[n] \in Nat
      <3>1. f[m] \in P /\ f[n] \in P
        BY <1>3
      <3> QED  BY <3>1, <1>5
    <2>2. CASE f[n] < f[m]
      <3>1. n - 1 < m - 1
        BY <1>3, <2>1, <2>2, LaterHasMore
      <3> QED  BY <1>1, <1>6, <3>1
    <2>3. CASE f[n] = f[m]
      <3>1. n - 1 = m - 1
        BY <1>3, <2>3
      <3> QED  BY <1>1, <1>6, <3>1
    <2> QED  BY <2>1, <2>2, <2>3
  <1>7. ASSUME NEW i \in P
        PROVE  \E n \in 1..Cardinality(P) : f[n] = i
    <2> DEFINE I == {x \in P : x < i}
    <2>1. I \in SUBSET P /\ I # P /\ I \in SUBSET (1..k)
      <3>1. ~ (i < i)
        BY <1>5
      <3>2. i \notin I
        BY <3>1
      <3> QED  BY <3>2
    <2> HIDE DEF I
    <2>2. Cardinality(I) \in Nat /\ Cardinality(I) <= Cardinality(P)
          /\ (Cardinality(P) = Cardinality(I) => P = I)
      BY <1>1, <2>1, PlacesFinite, FS_Subset
    <2>3. Before(P, i) = Cardinality(I)
      BY DEF Before, I
    <2> DEFINE n == Before(P, i) + 1
    <2>4. n \in 1..Cardinality(P) /\ n - 1 = Before(P, i)
      BY <1>1, <2>1, <2>2, <2>3
    <2> HIDE DEF n
    <2>5. f[n] \in P /\ Before(P, f[n]) = Before(P, i)
      BY <1>3, <2>4
    <2>6. Before(P, i) \in Nat /\ ~ (Before(P, i) < Before(P, i))
      BY <2>2, <2>3
    <2>7. ~ (f[n] < i) /\ ~ (i < f[n])
      BY <2>5, <2>6, LaterHasMore
    <2>8. f[n] = i
      <3>1. f[n] \in Nat /\ i \in Nat
        BY <1>5, <2>5
      <3> QED  BY <2>7, <3>1
    <2> QED  BY <2>4, <2>8
  <1> QED  BY <1>1, <1>2, <1>4, <1>6, <1>7 DEF f

-----------------------------------------------------------------------------
(* Temporal retrieval filter *)

\* Of some places one scores best, and of several the first.
Leads(f, S, i) == \A j \in S : f[j] < f[i] \/ (f[j] = f[i] /\ i <= j)

LEMMA SomeLeads ==
    ASSUME NEW k \in Nat, NEW P \in SUBSET (1..k), P # {}, NEW f, \A i \in P : f[i] \in Int
    PROVE  \E i \in P : Leads(f, P, i)
  <1> DEFINE Led(Q) == \E i \in Q : Leads(f, Q, i)
             Fit(Q) == Q # {} /\ \A i \in Q : f[i] \in Int
             S == {m \in Nat : \A Q \in SUBSET (1..m) : Fit(Q) => Led(Q)}
  <1>1. 0 \in S
    <2>1. 1..0 = {}
      OBVIOUS
    <2> QED  BY <2>1
  <1>2. ASSUME NEW m \in Nat, m \in S
        PROVE  m + 1 \in S
    <2> SUFFICES ASSUME NEW Q \in SUBSET (1..(m + 1)), Fit(Q)
                 PROVE  Led(Q)
      OBVIOUS
    <2>1. CASE m + 1 \notin Q
      <3>1. Q \in SUBSET (1..m)
        BY <2>1
      <3> QED  BY <1>2, <3>1
    <2>2. CASE m + 1 \in Q
      <3> DEFINE R == Q \ {m + 1}
      <3>1. R \in SUBSET (1..m) /\ Q = R \cup {m + 1} /\ \A i \in Q : f[i] \in Int
        BY <2>2
      <3> HIDE DEF R
      <3>2. CASE R = {}
        <4>1. Q = {m + 1} /\ m + 1 <= m + 1
          BY <3>1, <3>2
        <4> QED  BY <4>1 DEF Leads
      <3>3. CASE R # {}
        <4>1. PICK i \in R : Leads(f, R, i)
          BY <1>2, <3>1, <3>3
        <4>2. i \in Q /\ i \in Nat /\ i <= m + 1 /\ f[i] \in Int /\ f[m + 1] \in Int
          BY <3>1
        <4>3. CASE f[i] < f[m + 1]
          <5>1. ASSUME NEW j \in R
                PROVE  f[j] < f[m + 1]
            <6>1. f[j] \in Int /\ f[j] <= f[i]
              BY <3>1, <4>1, <4>2 DEF Leads
            <6> QED  BY <4>2, <4>3, <6>1
          <5>2. Leads(f, Q, m + 1)
            BY <3>1, <5>1 DEF Leads
          <5> QED  BY <2>2, <5>2
        <4>4. CASE ~ (f[i] < f[m + 1])
          <5>1. f[m + 1] < f[i] \/ (f[m + 1] = f[i] /\ i <= m + 1)
            BY <4>2, <4>4
          <5>2. Leads(f, Q, i)
            BY <3>1, <4>1, <5>1 DEF Leads
          <5> QED  BY <4>2, <5>2
        <4> QED  BY <4>3, <4>4
      <3> QED  BY <3>2, <3>3
    <2> QED  BY <2>1, <2>2
  <1> HIDE DEF S
  <1>3. k \in S
    BY <1>1, <1>2, AllNumbers
  <1> QED  BY <1>3 DEF S

\* The winner of a key that has survivors is one of them, and valid from a time
\* as late as any.
LEMMA WinnerLeads ==
    ASSUME NEW cs \in Seq(Candidate), \A r \in ToSet(cs) : WellFormed(r),
           NEW k, Survivors(cs, k) # {}
    PROVE  /\ Winner(cs, k) \in Survivors(cs, k)
           /\ \A j \in Survivors(cs, k) : cs[j].from <= cs[Winner(cs, k)].from
  <1>1. DOMAIN cs = 1..Len(cs) /\ Len(cs) \in Nat
    OBVIOUS
  <1> DEFINE P == Survivors(cs, k)
             f == [i \in P |-> cs[i].from]
  <1>2. P \in SUBSET (1..Len(cs))
    BY <1>1 DEF Survivors, Members
  <1>3. ASSUME NEW i \in P
        PROVE  f[i] \in Nat /\ f[i] = cs[i].from
    <2>1. i \in DOMAIN cs /\ Temporal(cs[i])
      BY DEF Survivors, Members
    <2>2. cs[i] \in Candidate /\ cs[i].from # None
      BY <2>1 DEF ToSet, WellFormed
    <2> QED  BY <2>2, TimesAssumption DEF Candidate
  <1> HIDE DEF f, P
  <1>4. PICK i \in P : Leads(f, P, i)
    <2>1. P # {} /\ \A i \in P : f[i] \in Int
      BY <1>3 DEF P
    <2> QED  BY <1>1, <1>2, <2>1, SomeLeads
  <1>5. \A j \in P : cs[j].from < cs[i].from \/ (cs[j].from = cs[i].from /\ i <= j)
    BY <1>3, <1>4 DEF Leads
  <1>6. /\ Winner(cs, k) \in P
        /\ \A j \in P : cs[j].from < cs[Winner(cs, k)].from
                        \/ (cs[j].from = cs[Winner(cs, k)].from /\ Winner(cs, k) <= j)
    BY <1>4, <1>5 DEF Winner, P
  <1>7. \A j \in P : cs[j].from <= cs[Winner(cs, k)].from
    BY <1>3, <1>6
  <1> QED  BY <1>6, <1>7 DEF P

\* A list that was filtered, what was kept of it and what leads.
Filtered(cs, ks, ld) ==
    /\ cs \in Seq(Candidate) /\ \A r \in ToSet(cs) : WellFormed(r)
    /\ ks = InOrder(KeptPlaces(cs))
    /\ ld = [k \in FactKeys |-> IF Survivors(cs, k) = {} THEN None ELSE cs[Winner(cs, k)]]

LEMMA KeptAre ==
    ASSUME NEW cs, NEW ks, NEW ld, Filtered(cs, ks, ld)
    PROVE  /\ ks \in Seq(DOMAIN cs) /\ ToSet(ks) = KeptPlaces(cs)
           /\ \A i, j \in DOMAIN ks : i < j => ks[i] < ks[j]
           /\ ld \in [FactKeys -> Candidate \cup {None}]
  <1>1. cs \in Seq(Candidate) /\ DOMAIN cs = 1..Len(cs) /\ Len(cs) \in Nat
    BY DEF Filtered
  <1>2. KeptPlaces(cs) \in SUBSET (1..Len(cs))
    BY <1>1 DEF KeptPlaces
  <1> DEFINE P == KeptPlaces(cs)
  <1>3. ks = InOrder(P)
    BY DEF Filtered
  <1> HIDE DEF P
  <1>4. /\ Cardinality(P) \in Nat
        /\ ks \in Seq(P)
        /\ DOMAIN ks = 1..Cardinality(P)
        /\ \A m, n \in 1..Cardinality(P) : m < n => ks[m] < ks[n]
        /\ \A i \in P : \E n \in 1..Cardinality(P) : ks[n] = i
    BY <1>1, <1>2, <1>3, PlacesInOrder DEF P
  <1>5. \A n \in DOMAIN ks : ks[n] \in P
    BY <1>4
  <1>6. ToSet(ks) = P
    BY <1>4, <1>5 DEF ToSet
  <1>7. ks \in Seq(DOMAIN cs)
    <2>1. ks = [n \in 1..Cardinality(P) |-> ks[n]]
      BY <1>4
    <2>2. \A n \in 1..Cardinality(P) : ks[n] \in DOMAIN cs
      BY <1>1, <1>2, <1>4, <1>5 DEF P
    <2> QED  BY <1>4, <2>1, <2>2
  <1>8. ld \in [FactKeys -> Candidate \cup {None}]
    <2>1. ASSUME NEW k \in FactKeys, Survivors(cs, k) # {}
          PROVE  cs[Winner(cs, k)] \in Candidate
      <3>1. Winner(cs, k) \in DOMAIN cs
        BY <1>1, <2>1, WinnerLeads DEF Filtered, Survivors, Members
      <3> QED  BY <1>1, <3>1
    <2> QED  BY <2>1 DEF Filtered
  <1> QED  BY <1>4, <1>6, <1>7, <1>8 DEF P

FilterInvariant ==
    /\ FilterTypeOK
    /\ verdict = "filtered" => Filtered(candidates, kept, lead)

LEMMA FilterHolds == FilterSpec => []FilterInvariant
  <1>1. FilterInit => FilterInvariant
    <2> SUFFICES ASSUME FilterInit
                 PROVE  FilterInvariant
      OBVIOUS
    <2>1. candidates \in Seq(Candidate) /\ kept \in Seq(DOMAIN candidates) /\ DOMAIN kept = {}
      <3>1. \A S : << >> \in Seq(S)
        OBVIOUS
      <3>2. candidates = << >> /\ kept = << >>
        BY DEF FilterInit
      <3> QED  BY <3>1, <3>2
    <2> QED  BY <2>1 DEF FilterInit, FilterInvariant, FilterTypeOK
  <1>2. FilterInvariant /\ [FilterNext]_filterVars => FilterInvariant'
    <2> SUFFICES ASSUME FilterInvariant, [FilterNext]_filterVars
                 PROVE  FilterInvariant'
      OBVIOUS
    <2>1. CASE UNCHANGED filterVars
      BY <2>1 DEF filterVars, FilterInvariant, FilterTypeOK, Filtered
    <2>2. ASSUME NEW m \in 0..MaxCandidates, NEW cs \in [1..m -> Pool], Apply(cs)
          PROVE  FilterInvariant'
      <3>1. cs \in Seq(Candidate)
        <4>1. m \in Nat
          BY CandidatesAssumption
        <4>2. \A i \in 1..m : cs[i] \in Candidate
          BY PoolAssumption
        <4> QED  BY <4>1, <4>2
      <3>2. candidates' = cs
        BY <2>2 DEF Apply
      <3>3. CASE \A r \in ToSet(cs) : WellFormed(r)
        <4>1. verdict' = "filtered" /\ Filtered(cs, kept', lead')
          BY <2>2, <3>1, <3>3 DEF Apply, Filtered
        <4>2. /\ kept' \in Seq(DOMAIN cs)
              /\ \A i, j \in DOMAIN kept' : i < j => kept'[i] < kept'[j]
              /\ lead' \in [FactKeys -> Candidate \cup {None}]
          BY <4>1, KeptAre
        <4> QED  BY <3>1, <3>2, <4>1, <4>2 DEF FilterInvariant, FilterTypeOK, Filtered
      <3>4. CASE ~ \A r \in ToSet(cs) : WellFormed(r)
        <4>1. verdict' = "rejected" /\ kept' = << >> /\ lead' = [k \in FactKeys |-> None]
          BY <2>2, <3>4 DEF Apply
        <4>2. kept' \in Seq(DOMAIN cs) /\ DOMAIN kept' = {}
          BY <4>1
        <4>3. lead' \in [FactKeys -> Candidate \cup {None}]
          BY <4>1
        <4> QED  BY <3>1, <3>2, <4>1, <4>2, <4>3 DEF FilterInvariant, FilterTypeOK
      <3> QED  BY <3>3, <3>4
    <2> QED  BY <2>1, <2>2 DEF FilterNext
  <1> QED  BY <1>1, <1>2, PTL DEF FilterSpec

\* The list and what is kept of it have their types; what is kept is in rank
\* order.
THEOREM FilterTypeCorrect == FilterSpec => []FilterTypeOK
  BY FilterHolds, PTL DEF FilterInvariant

\* What is surfaced is the newest of what nothing has taken the place of, for
\* any candidates and however many; resolve says the same or raises.
THEOREM SurfacedIsNewest == FilterSpec => []NewestSurfaces
  <1>1. FilterInvariant => NewestSurfaces
    <2> SUFFICES ASSUME FilterInvariant, verdict = "filtered"
                 PROVE  NewestSurfaces
      BY DEF NewestSurfaces
    <2> DEFINE cs == candidates
    <2>1. Filtered(cs, kept, lead) /\ cs \in Seq(Candidate) /\ \A r \in ToSet(cs) : WellFormed(r)
      BY DEF FilterInvariant, Filtered
    <2>2. ToSet(kept) = KeptPlaces(cs)
      BY <2>1, KeptAre
    <2>3. \A i \in DOMAIN cs : cs[i] \in Candidate /\ cs[i].key \in FactKeys
      <3>1. \A i \in DOMAIN cs : cs[i] \in Candidate
        BY <2>1
      <3> QED  BY <3>1 DEF Candidate
    <2>4. \A k : Survivors(cs, k) # {} =>
                   /\ Winner(cs, k) \in Survivors(cs, k)
                   /\ \A j \in Survivors(cs, k) : cs[j].from <= cs[Winner(cs, k)].from
      BY <2>1, WinnerLeads
    <2> HIDE DEF cs
    <2>5. ASSUME NEW i \in KeptPlaces(cs), Temporal(cs[i])
          PROVE  i \in Survivors(cs, cs[i].key) /\ i = Winner(cs, cs[i].key)
      <3>1. PICK k \in FactKeys : Survivors(cs, k) # {} /\ i = Winner(cs, k)
        BY <2>5 DEF KeptPlaces, Winners
      <3>2. i \in Survivors(cs, k) /\ cs[i].key = k
        BY <2>4, <3>1 DEF Survivors, Members
      <3> QED  BY <3>1, <3>2
    <2>6. \A i \in KeptPlaces(cs) : ~ Superseded(cs[i])
      <3> SUFFICES ASSUME NEW i \in KeptPlaces(cs)
                   PROVE  ~ Superseded(cs[i])
        OBVIOUS
      <3>1. CASE Temporal(cs[i])
        BY <2>5, <3>1 DEF Survivors
      <3>2. CASE ~ Temporal(cs[i])
        BY <3>2 DEF Temporal, Superseded
      <3> QED  BY <3>1, <3>2
    <2>7. \A i, j \in KeptPlaces(cs) :
              Temporal(cs[i]) /\ Temporal(cs[j]) /\ cs[i].key = cs[j].key => i = j
      BY <2>5
    <2>8. ASSUME NEW i \in DOMAIN cs \ KeptPlaces(cs), ~ Superseded(cs[i])
          PROVE  \E j \in KeptPlaces(cs) :
                     cs[j].key = cs[i].key /\ cs[j].from # None /\ cs[j].from >= cs[i].from
      <3>1. i \in Survivors(cs, cs[i].key) /\ cs[i].key \in FactKeys
        BY <2>3, <2>8 DEF KeptPlaces, Survivors, Members
      <3> DEFINE w == Winner(cs, cs[i].key)
      <3>2. w \in Survivors(cs, cs[i].key) /\ cs[i].from <= cs[w].from
        BY <2>4, <3>1
      <3>3. w \in Winners(cs)
        BY <3>1 DEF Winners
      <3> HIDE DEF w
      <3>4. w \in KeptPlaces(cs) /\ cs[w].key = cs[i].key /\ Temporal(cs[w])
        BY <3>2, <3>3 DEF KeptPlaces, Survivors, Members
      <3>5. w \in DOMAIN cs /\ Temporal(cs[i])
        BY <2>8, <3>4 DEF KeptPlaces
      <3>6. cs[w].from # None /\ cs[w].from \in Nat /\ cs[i].from \in Nat
        <4>1. ASSUME NEW x \in DOMAIN cs, Temporal(cs[x])
              PROVE  cs[x].from # None /\ cs[x].from \in Nat
          <5>1. cs[x] \in ToSet(cs)
            BY DEF ToSet
          <5>2. cs[x].from # None
            BY <2>1, <4>1, <5>1 DEF WellFormed, cs
          <5> QED  BY <2>3, <5>2, TimesAssumption DEF Candidate
        <4> QED  BY <3>4, <3>5, <4>1
      <3>7. cs[w].from >= cs[i].from
        BY <3>2, <3>6
      <3> QED  BY <3>4, <3>6, <3>7
    <2>9. ASSUME NEW k \in FactKeys, ~ ResolveRaises(cs, k)
          PROVE  Resolved(cs, k) = lead[k]
      <3>1. Surviving(cs, k) = Survivors(cs, k)
        <4>1. ASSUME NEW i \in Surviving(cs, k)
              PROVE  i \in Survivors(cs, k)
          <5>1. cs[i].from # None
            BY <2>9 DEF ResolveRaises
          <5> QED  BY <5>1 DEF Surviving, Survivors, Members, Temporal
        <4>2. ASSUME NEW i \in Survivors(cs, k)
              PROVE  i \in Surviving(cs, k)
          BY DEF Surviving, Survivors, Members
        <4> QED  BY <4>1, <4>2
      <3>2. lead[k] = IF Survivors(cs, k) = {} THEN None ELSE cs[Winner(cs, k)]
        BY <2>1 DEF Filtered
      <3>3. Resolved(cs, k) = IF Survivors(cs, k) = {} THEN None ELSE cs[Winner(cs, k)]
        BY <3>1 DEF Resolved, Winner
      <3> QED  BY <3>2, <3>3
    <2> QED  BY <2>2, <2>6, <2>7, <2>8, <2>9 DEF NewestSurfaces, cs
  <1> QED  BY <1>1, FilterHolds, PTL

-----------------------------------------------------------------------------
(* Selective routing *)

\* What Fuse keeps: every hit of both lists, each once, the first list's first.
LEMMA FuseKeeps ==
    ASSUME NEW gs \in Seq(Keys), NEW vs \in Seq(Keys), NEW f, f = Fuse(gs, vs)
    PROVE  /\ f \in Seq(Keys)
           /\ ToSet(f) = ToSet(gs) \cup ToSet(vs)
           /\ IsInjective(f)
           /\ \A i, j \in DOMAIN f : i < j => ComesFirst(gs \o vs, f[i], f[j])
  <1> DEFINE all == gs \o vs
             k == Len(all)
             first == {i \in DOMAIN all : \A j \in 1..(i - 1) : all[j] # all[i]}
             g == InOrder(first)
             N == Cardinality(first)
  <1>1. Len(gs) \in Nat /\ Len(vs) \in Nat /\ DOMAIN gs = 1..Len(gs) /\ DOMAIN vs = 1..Len(vs)
    OBVIOUS
  <1>2. /\ all \in Seq(Keys) /\ k = Len(gs) + Len(vs) /\ k \in Nat /\ DOMAIN all = 1..k
        /\ \A i \in 1..Len(gs) : all[i] = gs[i]
        /\ \A i \in 1..Len(vs) : all[Len(gs) + i] = vs[i]
        /\ \A i \in 1..k : i > Len(gs) => i - Len(gs) \in 1..Len(vs) /\ all[i] = vs[i - Len(gs)]
    BY <1>1
  <1> HIDE DEF all
  <1>3. /\ first \in SUBSET (1..k)
        /\ \A i \in first : \A j \in 1..(i - 1) : all[j] # all[i]
    BY <1>2
  <1>4. ASSUME NEW i \in 1..k
        PROVE  \E h \in first : all[h] = all[i]
    <2> DEFINE P == {j \in 1..k : all[j] = all[i]}
               zero == [j \in 1..k |-> 0]
    <2>1. P \in SUBSET (1..k) /\ P # {} /\ \A j \in P : zero[j] \in Int
      OBVIOUS
    <2>2. \A j \in 1..k : zero[j] = 0
      OBVIOUS
    <2> HIDE DEF zero
    <2>3. PICK h \in P : Leads(zero, P, h)
      <3> HIDE DEF P
      <3> QED  BY <1>2, <2>1, SomeLeads
    <2>4. \A j \in P : h <= j
      BY <2>2, <2>3, ~ (0 < 0) DEF Leads
    <2>5. ASSUME NEW j \in 1..(h - 1)
          PROVE  all[j] # all[h]
      <3>1. j \in 1..k /\ j < h /\ ~ (h <= j)
        BY <1>2
      <3> QED  BY <2>4, <3>1
    <2> QED  BY <1>2, <2>5
  <1>5. f = [n \in 1..N |-> all[g[n]]]
    BY DEF Fuse, all
  <1> HIDE DEF first
  <1>6. /\ N \in Nat /\ g \in Seq(first) /\ DOMAIN g = 1..N
        /\ \A m, n \in 1..N : m < n => g[m] < g[n]
        /\ \A i \in first : \E n \in 1..N : g[n] = i
    BY <1>2, <1>3, PlacesInOrder
  <1>7. \A n \in 1..N : g[n] \in first /\ g[n] \in 1..k /\ f[n] = all[g[n]] /\ f[n] \in Keys
    <2>1. \A n \in 1..N : g[n] \in first
      BY <1>6
    <2>2. \A i \in 1..k : all[i] \in Keys
      BY <1>2
    <2> QED  BY <1>3, <1>5, <2>1, <2>2
  <1> HIDE DEF g, N
  <1>8. f \in Seq(Keys) /\ DOMAIN f = 1..N
    <2>1. f = [n \in 1..N |-> f[n]] /\ DOMAIN f = 1..N
      BY <1>5
    <2>2. N \in Nat /\ \A n \in 1..N : f[n] \in Keys
      BY <1>6, <1>7
    <2> QED  BY <2>1, <2>2
  <1>9. \A i \in 1..k : all[i] \in ToSet(gs) \cup ToSet(vs)
    <2> SUFFICES ASSUME NEW i \in 1..k
                 PROVE  all[i] \in ToSet(gs) \cup ToSet(vs)
      OBVIOUS
    <2>1. CASE i <= Len(gs)
      <3>1. i \in 1..Len(gs)
        BY <1>1, <2>1
      <3> QED  BY <1>1, <1>2, <3>1 DEF ToSet
    <2>2. CASE i > Len(gs)
      BY <1>1, <1>2, <2>2 DEF ToSet
    <2> QED  BY <1>1, <1>2, <2>1, <2>2
  <1>10. \A x \in ToSet(gs) \cup ToSet(vs) : \E i \in 1..k : all[i] = x
    <2>1. ASSUME NEW x \in ToSet(gs)
          PROVE  \E i \in 1..k : all[i] = x
      <3>1. PICK i \in 1..Len(gs) : gs[i] = x
        BY <1>1 DEF ToSet
      <3>2. i \in 1..k
        BY <1>1, <1>2
      <3> QED  BY <1>2, <3>1, <3>2
    <2>2. ASSUME NEW x \in ToSet(vs)
          PROVE  \E i \in 1..k : all[i] = x
      <3>1. PICK i \in 1..Len(vs) : vs[i] = x
        BY <1>1 DEF ToSet
      <3>2. Len(gs) + i \in 1..k
        BY <1>1, <1>2
      <3> QED  BY <1>2, <3>1, <3>2
    <2> QED  BY <2>1, <2>2
  <1>11. ToSet(f) = ToSet(gs) \cup ToSet(vs)
    <2>1. ASSUME NEW x \in ToSet(f)
          PROVE  x \in ToSet(gs) \cup ToSet(vs)
      <3>1. PICK n \in 1..N : f[n] = x
        BY <1>8 DEF ToSet
      <3> QED  BY <1>7, <1>9, <3>1
    <2>2. ASSUME NEW x \in ToSet(gs) \cup ToSet(vs)
          PROVE  x \in ToSet(f)
      <3>1. PICK i \in 1..k : all[i] = x
        BY <1>10
      <3>2. PICK h \in first : all[h] = x
        BY <1>4, <3>1
      <3>3. PICK n \in 1..N : g[n] = h
        BY <1>6
      <3>4. n \in DOMAIN f /\ f[n] = x
        BY <1>7, <1>8, <3>2, <3>3
      <3> QED  BY <3>4 DEF ToSet
    <2> QED  BY <2>1, <2>2
  <1>12. ASSUME NEW m \in 1..N, NEW n \in 1..N, m < n
         PROVE  f[m] # f[n]
    <2>1. g[m] < g[n] /\ g[m] \in 1..k /\ g[n] \in 1..k /\ g[n] \in first
      BY <1>6, <1>7, <1>12
    <2>2. g[m] \in 1..(g[n] - 1)
      BY <1>2, <2>1
    <2> QED  BY <1>3, <1>7, <2>1, <2>2
  <1>13. IsInjective(f)
    <2> SUFFICES ASSUME NEW m \in 1..N, NEW n \in 1..N, f[m] = f[n]
                 PROVE  m = n
      BY <1>8 DEF IsInjective
    <2>1. ~ (m < n) /\ ~ (n < m)
      BY <1>12
    <2> QED  BY <1>6, <2>1
  <1>14. ASSUME NEW i \in 1..N, NEW j \in 1..N, i < j
         PROVE  ComesFirst(all, f[i], f[j])
    <2>1. g[i] < g[j] /\ g[i] \in 1..k /\ g[j] \in 1..k /\ g[j] \in first
      BY <1>6, <1>7, <1>14
    <2>2. ASSUME NEW x \in 1..g[i]
          PROVE  all[x] # f[j]
      <3>1. x \in 1..(g[j] - 1)
        BY <1>2, <2>1
      <3> QED  BY <1>3, <1>7, <2>1, <3>1
    <2>3. g[i] \in DOMAIN all /\ all[g[i]] = f[i]
      BY <1>2, <1>7, <2>1
    <2> QED  BY <2>2, <2>3 DEF ComesFirst
  <1> QED  BY <1>8, <1>11, <1>13, <1>14 DEF all

\* What a call has when it is at some place.
Has(a, gs, accepted, vs, served) ==
    /\ a \in {"idle", "empty query", "graph"} => vs = NoAnswer /\ ~ accepted
    /\ a = "vector" => gs \in Seq(Keys) /\ ~ accepted /\ vs = NoAnswer
    /\ a \in {"recording", "returned", "abstained"} =>
          /\ gs \in Seq(Keys)
          /\ accepted => gs # << >> /\ vs = NoAnswer
          /\ ~ accepted => vs \in Seq(Keys)
    /\ a = "returned" =>
          /\ accepted \/ vs # << >>
          /\ served = IF accepted THEN gs ELSE IF gs # << >> THEN Fuse(gs, vs) ELSE vs
    /\ a = "abstained" => ~ accepted /\ vs = << >>

AllHave == \A c \in Calls : Has(at[c], graph[c], sure[c], vector[c], answer[c])

\* A decision is of a call that ended, and names the store that served it.
DecisionsTell ==
    \A n \in DOMAIN trail :
        /\ at[trail[n].by] \in {"returned", "abstained", "broken"}
        /\ trail[n] = DecisionOf(trail[n].by)

OneDecision == \A m, n \in DOMAIN trail : trail[m].by = trail[n].by => m = n

EndedIsDecided ==
    Whole =>
        \A c \in Calls :
            at[c] \in {"returned", "abstained"} => \E n \in DOMAIN trail : trail[n].by = c

RouteInvariant ==
    RouteTypeOK /\ AllHave /\ DecisionsTell /\ OneDecision /\ EndedIsDecided

\* A step of a call that has not ended, and leaves the ledger alone.
Unrecorded(c) ==
    /\ at[c] \in {"idle", "graph", "vector", "recording"}
    /\ at'[c] \notin {"returned", "abstained"}
    /\ trail' = trail /\ tail' = tail
    /\ \A d \in Calls \ {c} :
          /\ at'[d] = at[d] /\ graph'[d] = graph[d] /\ sure'[d] = sure[d]
          /\ vector'[d] = vector[d] /\ answer'[d] = answer[d]

\* It disturbs no other call and no decision.
LEMMA UnrecordedStep ==
    ASSUME RouteInvariant, NEW c \in Calls, Unrecorded(c), RouteTypeOK',
           Has(at'[c], graph'[c], sure'[c], vector'[c], answer'[c])
    PROVE  RouteInvariant'
  <1> USE DEF RouteInvariant
  <1>1. AllHave'
    BY DEF AllHave, Unrecorded
  <1>2. \A n \in DOMAIN trail : trail[n].by \in Calls \ {c}
    <2>1. \A n \in DOMAIN trail : trail[n] \in Decision
      <3>1. trail \in Seq(Decision)
        BY DEF RouteTypeOK, LedgerOK
      <3> QED  BY <3>1
    <2> QED  BY <2>1 DEF Decision, DecisionsTell, Unrecorded
  <1>3. \A d \in Calls \ {c} : DecisionOf(d)' = DecisionOf(d)
    BY DEF Backend, DecisionOf, Unrecorded
  <1>4. DecisionsTell'
    <2> SUFFICES ASSUME NEW n \in DOMAIN trail
                 PROVE  /\ at'[trail[n].by] \in {"returned", "abstained", "broken"}
                        /\ trail[n] = DecisionOf(trail[n].by)'
      BY DEF DecisionsTell, Unrecorded
    <2> QED  BY <1>2, <1>3 DEF DecisionsTell, Unrecorded
  <1>5. OneDecision' /\ EndedIsDecided'
    BY DEF OneDecision, EndedIsDecided, Whole, Unrecorded
  <1> QED  BY <1>1, <1>4, <1>5

LEMMA AskStep ==
    ASSUME RouteInvariant, NEW c \in Calls,
           \/ \E empty \in BOOLEAN : Ask(c, empty)
           \/ \E hits \in HitLists, accepted \in BOOLEAN : AskGraph(c, hits, accepted)
           \/ \E hits \in HitLists : AskVector(c, hits)
           \/ Broken(c)
    PROVE  RouteInvariant'
  <1>1. RouteTypeOK /\ Has(at[c], graph[c], sure[c], vector[c], answer[c])
    BY DEF RouteInvariant, AllHave
  <1>2. ASSUME NEW empty \in BOOLEAN, Ask(c, empty)
        PROVE  RouteInvariant'
    <2>1. RouteTypeOK'
      BY <1>1, <1>2 DEF Ask, RouteTypeOK, LedgerOK
    <2>2. Unrecorded(c) /\ Has(at'[c], graph'[c], sure'[c], vector'[c], answer'[c])
      BY <1>1, <1>2 DEF Ask, RouteTypeOK, Unrecorded, Has
    <2> QED  BY <2>1, <2>2, UnrecordedStep
  <1>3. ASSUME NEW hits \in HitLists, NEW accepted \in BOOLEAN, AskGraph(c, hits, accepted)
        PROVE  RouteInvariant'
    <2>1. hits \in Seq(Keys)
      BY HitsAssumption
    <2>2. /\ at[c] = "graph"
          /\ graph' = [graph EXCEPT ![c] = hits]
          /\ sure' = [sure EXCEPT ![c] = hits # << >> /\ accepted]
          /\ at' = [at EXCEPT ![c] = IF sure'[c] THEN "recording" ELSE "vector"]
          /\ vector' = vector /\ answer' = answer /\ trail' = trail /\ tail' = tail
      BY <1>3 DEF AskGraph
    <2>3. /\ sure'[c] \in BOOLEAN /\ (sure'[c] => hits # << >>) /\ graph'[c] = hits
          /\ at'[c] = IF sure'[c] THEN "recording" ELSE "vector"
      BY <1>1, <2>2 DEF RouteTypeOK
    <2>4. RouteTypeOK'
      BY <1>1, <2>1, <2>2, <2>3 DEF RouteTypeOK, LedgerOK
    <2>5. Has(at'[c], graph'[c], sure'[c], vector'[c], answer'[c])
      <3>1. vector[c] = NoAnswer /\ vector'[c] = NoAnswer
        BY <1>1, <2>2 DEF Has
      <3>2. CASE sure'[c]
        BY <2>1, <2>3, <3>1, <3>2 DEF Has
      <3>3. CASE ~ sure'[c]
        BY <2>1, <2>3, <3>1, <3>3 DEF Has
      <3> QED  BY <3>2, <3>3
    <2>6. Unrecorded(c)
      BY <1>1, <2>2, <2>3 DEF RouteTypeOK, Unrecorded
    <2> QED  BY <2>4, <2>5, <2>6, UnrecordedStep
  <1>4. ASSUME NEW hits \in HitLists, AskVector(c, hits)
        PROVE  RouteInvariant'
    <2>1. hits \in Seq(Keys)
      BY HitsAssumption
    <2>2. RouteTypeOK'
      BY <1>1, <1>4, <2>1 DEF AskVector, RouteTypeOK, LedgerOK
    <2>3. /\ at[c] = "vector" /\ at'[c] = "recording" /\ vector'[c] = hits
          /\ graph' = graph /\ sure' = sure
      BY <1>1, <1>4 DEF AskVector, RouteTypeOK
    <2>4. Has(at'[c], graph'[c], sure'[c], vector'[c], answer'[c])
      <3>1. graph[c] \in Seq(Keys) /\ ~ sure[c]
        BY <1>1, <2>3 DEF Has
      <3>2. Has("recording", graph[c], sure[c], hits, answer'[c])
        BY <2>1, <3>1 DEF Has
      <3> QED  BY <2>3, <3>2
    <2>5. Unrecorded(c)
      BY <1>1, <1>4, <2>3 DEF AskVector, RouteTypeOK, Unrecorded
    <2> QED  BY <2>2, <2>4, <2>5, UnrecordedStep
  <1>5. CASE Broken(c)
    <2>1. RouteTypeOK'
      BY <1>1, <1>5 DEF Broken, RouteTypeOK, LedgerOK
    <2>2. Unrecorded(c) /\ Has(at'[c], graph'[c], sure'[c], vector'[c], answer'[c])
      BY <1>1, <1>5 DEF Broken, RouteTypeOK, Unrecorded, Has
    <2> QED  BY <2>1, <2>2, UnrecordedStep
  <1> QED  BY <1>2, <1>3, <1>4, <1>5

\* What the decision says, and what the call then ends with.
LEMMA DecisionFacts ==
    ASSUME RouteInvariant, NEW c \in Calls, at[c] = "recording"
    PROVE  /\ DecisionOf(c) \in Decision
           /\ DecisionOf(c).by = c /\ DecisionOf(c).backend = Backend(c)
           /\ Answered(c) =>
                 /\ at' = [at EXCEPT ![c] = IF Backend(c) = "abstain" THEN "abstained"
                                            ELSE "returned"]
                 /\ answer' \in [Calls -> (Seq(Keys) \ {<< >>}) \cup {NoAnswer}]
                 /\ \A d \in Calls \ {c} : answer'[d] = answer[d]
                 /\ Has(at'[c], graph[c], sure[c], vector[c], answer'[c])
  <1> DEFINE gs == graph[c]
             vs == vector[c]
  <1>1. /\ sure[c] \in BOOLEAN /\ gs \in Seq(Keys)
        /\ sure[c] => gs # << >> /\ vs = NoAnswer
        /\ ~ sure[c] => vs \in Seq(Keys)
    BY DEF RouteInvariant, AllHave, Has, RouteTypeOK
  <1>2. /\ sure[c] => Backend(c) = "graph"
        /\ ~ sure[c] /\ vs = << >> => Backend(c) = "abstain"
        /\ ~ sure[c] /\ vs # << >> /\ gs # << >> => Backend(c) = "graph+vector"
        /\ ~ sure[c] /\ vs # << >> /\ gs = << >> => Backend(c) = "vector"
    BY <1>1 DEF Backend
  <1>3. Backend(c) \in Backends /\ (Backend(c) = "abstain" <=> ~ sure[c] /\ vs = << >>)
    BY <1>1, <1>2 DEF Backends
  <1>4. Len(gs) \in Nat /\ (~ sure[c] => Len(vs) \in Nat)
    BY <1>1
  <1>5. /\ DecisionOf(c) \in Decision
        /\ DecisionOf(c).by = c /\ DecisionOf(c).backend = Backend(c)
    BY <1>1, <1>3, <1>4 DEF DecisionOf, Decision
  <1>6. ~ sure[c] /\ vs # << >> /\ gs # << >> =>
            Fuse(gs, vs) \in Seq(Keys) /\ Fuse(gs, vs) # << >>
    <2> SUFFICES ASSUME ~ sure[c], vs # << >>, gs # << >>
                 PROVE  Fuse(gs, vs) \in Seq(Keys) /\ Fuse(gs, vs) # << >>
      OBVIOUS
    <2>1. vs \in Seq(Keys) /\ gs \in Seq(Keys)
      BY <1>1
    <2>2. Fuse(gs, vs) \in Seq(Keys) /\ ToSet(Fuse(gs, vs)) = ToSet(gs) \cup ToSet(vs)
      BY <2>1, FuseKeeps
    <2>3. 1 \in DOMAIN gs
      BY <2>1
    <2>4. ToSet(gs) # {}
      BY <2>3 DEF ToSet
    <2>5. ToSet(<< >>) = {}
      BY DEF ToSet
    <2> QED  BY <2>2, <2>4, <2>5
  <1>7. ASSUME Answered(c)
        PROVE  /\ at' = [at EXCEPT ![c] = IF Backend(c) = "abstain" THEN "abstained"
                                          ELSE "returned"]
               /\ answer' \in [Calls -> (Seq(Keys) \ {<< >>}) \cup {NoAnswer}]
               /\ \A d \in Calls \ {c} : answer'[d] = answer[d]
               /\ Has(at'[c], gs, sure[c], vs, answer'[c])
    <2>1. /\ at \in [Calls -> {"idle", "empty query", "graph", "vector", "recording",
                               "returned", "abstained", "broken"}]
          /\ answer \in [Calls -> (Seq(Keys) \ {<< >>}) \cup {NoAnswer}]
      BY DEF RouteInvariant, RouteTypeOK
    <2>2. CASE Backend(c) = "abstain"
      <3>1. at' = [at EXCEPT ![c] = "abstained"] /\ answer' = answer /\ at'[c] = "abstained"
        BY <1>7, <2>1, <2>2 DEF Answered
      <3> QED  BY <1>1, <1>3, <2>1, <2>2, <3>1 DEF Has
    <2>3. CASE Backend(c) # "abstain"
      <3> DEFINE served == IF sure[c] THEN gs ELSE IF gs # << >> THEN Fuse(gs, vs) ELSE vs
      <3>1. served \in Seq(Keys) \ {<< >>}
        BY <1>1, <1>3, <1>6, <2>3
      <3>2. at' = [at EXCEPT ![c] = "returned"] /\ answer' = [answer EXCEPT ![c] = served]
        <4>1. CASE sure[c]
          BY <1>2, <1>7, <2>3, <4>1 DEF Answered
        <4>2. CASE ~ sure[c] /\ gs # << >>
          BY <1>1, <1>2, <1>3, <1>7, <2>3, <4>2 DEF Answered
        <4>3. CASE ~ sure[c] /\ gs = << >>
          BY <1>1, <1>2, <1>3, <1>7, <2>3, <4>3 DEF Answered
        <4> QED  BY <1>1, <4>1, <4>2, <4>3
      <3> HIDE DEF served
      <3>3. at'[c] = "returned" /\ answer'[c] = served
        BY <2>1, <3>2
      <3>4. Has("returned", gs, sure[c], vs, served)
        BY <1>1, <1>3, <2>3 DEF Has, served
      <3>5. answer' \in [Calls -> (Seq(Keys) \ {<< >>}) \cup {NoAnswer}]
        BY <2>1, <3>1, <3>2
      <3> QED  BY <2>1, <2>3, <3>2, <3>3, <3>4, <3>5
    <2> QED  BY <2>2, <2>3
  <1> QED  BY <1>5, <1>7

\* A decision is written and the call ends, or its write fails.
LEMMA RecordStep ==
    ASSUME RouteInvariant, NEW c \in Calls, Record(c)
    PROVE  RouteInvariant'
  <1> DEFINE e == DecisionOf(c)
             ended == IF Backend(c) = "abstain" THEN "abstained" ELSE "returned"
  <1>1. RouteTypeOK /\ AllHave /\ DecisionsTell /\ OneDecision /\ EndedIsDecided
    BY DEF RouteInvariant
  <1>2. /\ graph' = graph /\ sure' = sure /\ vector' = vector /\ at[c] = "recording"
        /\ \/ Emit(e) /\ Answered(c)
           \/ EmitFails(e) /\ at' = [at EXCEPT ![c] = "broken"] /\ answer' = answer
    BY DEF Record
  <1>3. /\ e \in Decision /\ e.by = c /\ e.backend = Backend(c)
        /\ Answered(c) =>
              /\ at' = [at EXCEPT ![c] = ended]
              /\ answer' \in [Calls -> (Seq(Keys) \ {<< >>}) \cup {NoAnswer}]
              /\ \A d \in Calls \ {c} : answer'[d] = answer[d]
              /\ Has(at'[c], graph[c], sure[c], vector[c], answer'[c])
    BY <1>2, DecisionFacts
  <1> HIDE DEF e
  <1>4. /\ at'[c] \in {"returned", "abstained", "broken"}
        /\ \A d \in Calls \ {c} : at'[d] = at[d] /\ answer'[d] = answer[d]
        /\ at' \in [Calls -> {"idle", "empty query", "graph", "vector", "recording",
                              "returned", "abstained", "broken"}]
        /\ answer' \in [Calls -> (Seq(Keys) \ {<< >>}) \cup {NoAnswer}]
        /\ at'[c] # "broken" => Emit(e) /\ Answered(c)
    BY <1>1, <1>2, <1>3 DEF RouteTypeOK
  <1>5. /\ trail \in Seq(Decision) /\ \A n \in DOMAIN trail : trail[n] \in Decision
        /\ tail \in {"clean", "torn"} \cup WriteFaults
    <2>1. trail \in Seq(Decision) /\ tail \in {"clean", "torn"} \cup WriteFaults
      BY <1>1 DEF RouteTypeOK, LedgerOK
    <2> QED  BY <2>1
  <1>6. /\ trail' \in {trail, Append(trail, e), SubSeq(trail, 1, Len(trail) - 1)}
        /\ tail' \in {"clean", "torn"} \cup WriteFaults
    BY <1>2, <1>5 DEF Emit, EmitFails, Glued
  \* An entry is an old one or the decision.
  <1>7. ASSUME NEW n \in DOMAIN trail'
        PROVE  \/ n \in DOMAIN trail /\ trail'[n] = trail[n]
               \/ n = Len(trail) + 1 /\ trail'[n] = e
    BY <1>5, <1>6, <1>7
  <1>8. RouteTypeOK'
    <2>1. SubSeq(trail, 1, Len(trail) - 1) \in Seq(Decision)
      <3>1. \A k \in 1..(Len(trail) - 1) : trail[k] \in Decision
        BY <1>5
      <3> QED  BY <1>5, <3>1
    <2>2. trail' \in Seq(Decision)
      BY <1>3, <1>5, <1>6, <2>1
    <2> QED  BY <1>1, <1>2, <1>4, <1>6, <2>2 DEF RouteTypeOK, LedgerOK
  <1>9. AllHave'
    <2> SUFFICES ASSUME NEW d \in Calls
                 PROVE  Has(at'[d], graph'[d], sure'[d], vector'[d], answer'[d])
      BY DEF AllHave
    <2>1. CASE d # c
      BY <1>1, <1>2, <1>4, <2>1 DEF AllHave
    <2>2. CASE d = c /\ at'[c] # "broken"
      BY <1>2, <1>3, <1>4, <2>2
    <2>3. CASE d = c /\ at'[c] = "broken"
      BY <2>3 DEF Has
    <2> QED  BY <2>1, <2>2, <2>3
  <1>10. \A d \in Calls : DecisionOf(d)' = DecisionOf(d)
    BY <1>2 DEF Backend, DecisionOf
  <1>11. \A n \in DOMAIN trail : trail[n].by \in Calls \ {c}
    BY <1>1, <1>2, <1>5 DEF Decision, DecisionsTell
  <1>12. DecisionsTell'
    <2> SUFFICES ASSUME NEW n \in DOMAIN trail'
                 PROVE  (/\ at[trail[n].by] \in {"returned", "abstained", "broken"}
                         /\ trail[n] = DecisionOf(trail[n].by))'
      BY DEF DecisionsTell
    <2>1. PICK d \in Calls : /\ trail'[n].by = d /\ trail'[n] = DecisionOf(d)
                             /\ at'[d] \in {"returned", "abstained", "broken"}
      <3>1. CASE n \in DOMAIN trail /\ trail'[n] = trail[n]
        BY <1>1, <1>4, <1>11, <3>1 DEF DecisionsTell
      <3>2. CASE trail'[n] = e
        BY <1>3, <1>4, <3>2 DEF e
      <3> QED  BY <1>7, <3>1, <3>2
    <2> QED  BY <1>10, <2>1
  <1>13. OneDecision'
    BY <1>1, <1>3, <1>7, <1>11 DEF OneDecision
  <1>14. EndedIsDecided'
    <2> SUFFICES ASSUME Whole', NEW d \in Calls,
                        at'[d] \in {"returned", "abstained"}
                 PROVE  \E n \in DOMAIN trail' : trail'[n].by = d
      BY DEF EndedIsDecided
    <2>1. Whole /\ (trail' = trail \/ trail' = Append(trail, e))
      BY <1>2, <1>5 DEF Emit, EmitFails, Glued, Whole
    <2>2. CASE d = c
      <3>1. trail' = Append(trail, e)
        BY <1>4, <1>5, <2>1, <2>2 DEF Emit, Whole
      <3>2. Len(trail) + 1 \in DOMAIN trail' /\ trail'[Len(trail) + 1] = e
        BY <1>3, <1>5, <3>1
      <3> QED  BY <1>3, <2>2, <3>2
    <2>3. CASE d # c
      <3>1. PICK n \in DOMAIN trail : trail[n].by = d
        BY <1>1, <1>4, <2>1, <2>3 DEF EndedIsDecided
      <3>2. n \in DOMAIN trail' /\ trail'[n] = trail[n]
        BY <1>3, <1>5, <2>1
      <3> QED  BY <3>1, <3>2
    <2> QED  BY <2>2, <2>3
  <1> QED  BY <1>8, <1>9, <1>12, <1>13, <1>14 DEF RouteInvariant

LEMMA RouteHolds == RouteSpec => []RouteInvariant
  <1>1. RouteInit => RouteInvariant
    <2> SUFFICES ASSUME RouteInit
                 PROVE  RouteInvariant
      OBVIOUS
    <2>1. trail \in Seq(Decision) /\ DOMAIN trail = {}
      BY DEF RouteInit, Empty
    <2> QED  BY <2>1 DEF RouteInit, Empty, RouteInvariant, RouteTypeOK, LedgerOK, AllHave, Has,
                         DecisionsTell, OneDecision, EndedIsDecided, Whole
  <1>2. RouteInvariant /\ [RouteNext]_routeVars => RouteInvariant'
    <2> SUFFICES ASSUME RouteInvariant, [RouteNext]_routeVars
                 PROVE  RouteInvariant'
      OBVIOUS
    <2>1. CASE UNCHANGED routeVars
      BY <2>1 DEF routeVars, RouteInvariant, RouteTypeOK, LedgerOK, AllHave,
                  DecisionsTell, OneDecision, EndedIsDecided, Whole, Backend, DecisionOf
    <2>2. CASE RouteNext
      BY <2>2, AskStep, RecordStep DEF RouteNext
    <2> QED  BY <2>1, <2>2
  <1> QED  BY <1>1, <1>2, PTL DEF RouteSpec

\* Calls, their hits, their answers and the ledger have their types.
THEOREM RouteTypeCorrect == RouteSpec => []RouteTypeOK
  BY RouteHolds, PTL DEF RouteInvariant

\* What the invariant says of the decisions on a whole ledger.
LEMMA DecidedOfInvariant == RouteInvariant /\ Whole => DecidedOnLedger
  <1> SUFFICES ASSUME RouteInvariant, Whole, NEW c \in Calls,
                      at[c] \in {"returned", "abstained"}
               PROVE  /\ Cardinality({n \in DOMAIN trail : trail[n].by = c}) = 1
                      /\ \E n \in DOMAIN trail :
                            trail[n].by = c /\ Tells(trail[n], c)
    BY DEF DecidedOnLedger
  <1>1. PICK n \in DOMAIN trail : trail[n].by = c
    BY DEF RouteInvariant, EndedIsDecided
  <1>2. {m \in DOMAIN trail : trail[m].by = c} = {n}
    BY <1>1 DEF RouteInvariant, OneDecision
  <1>3. Cardinality({n}) = 1
    BY FS_Singleton
  <1>4. trail[n] = DecisionOf(c)
    BY <1>1 DEF RouteInvariant, DecisionsTell
  <1>5. Has(at[c], graph[c], sure[c], vector[c], answer[c]) /\ sure[c] \in BOOLEAN
    BY DEF RouteInvariant, AllHave, RouteTypeOK
  <1>6. /\ graph[c] \in Seq(Keys)
        /\ sure[c] => graph[c] # << >> /\ vector[c] = NoAnswer
        /\ ~ sure[c] => vector[c] \in Seq(Keys) /\ vector[c] # NoAnswer
        /\ at[c] = "returned" => sure[c] \/ vector[c] # << >>
        /\ at[c] = "abstained" => ~ sure[c] /\ vector[c] = << >>
    BY <1>5, NoAnswerAssumption DEF Has
  <1>7. CASE at[c] = "abstained"
    <2>1. trail[n].backend = "abstain"
      BY <1>4, <1>6, <1>7 DEF DecisionOf, Backend
    <2> QED  BY <1>1, <1>2, <1>3, <1>7, <2>1 DEF Tells
  <1>8. CASE at[c] = "returned"
    <2>1. /\ sure[c] => Backend(c) = "graph"
          /\ ~ sure[c] /\ graph[c] # << >> => Backend(c) = "graph+vector"
          /\ ~ sure[c] /\ graph[c] = << >> => Backend(c) = "vector"
      BY <1>6, <1>8 DEF Backend
    <2>2. /\ trail[n].backend = Backend(c) /\ trail[n].graphHits = Len(graph[c])
          /\ trail[n].vectorHits = IF sure[c] THEN 0 ELSE Len(vector[c])
      BY <1>4, <1>5, <2>1 DEF DecisionOf
    <2>3. Tells(trail[n], c)
      BY <1>5, <1>6, <1>8, <2>1, <2>2 DEF Tells
    <2> QED  BY <1>1, <1>2, <1>3, <2>3
  <1> QED  BY <1>7, <1>8

\* Whatever a gate accepts and however writes fail, as long as the ledger ends
\* in a newline a call that answers or abstains has one decision on it, which
\* names the stores that served and how many hits each gave.
THEOREM WholeDecisions == RouteSpec => [](tail = "clean" => DecidedOnLedger)
  <1>1. tail = "clean" => Whole
    BY DEF Whole
  <1> QED  BY <1>1, DecidedOfInvariant, RouteHolds, PTL

\* And ever after, where a write that fails leaves nothing a reader takes for
\* an entry.
THEOREM EveryAnswerDecided ==
    ASSUME WriteFaults \subseteq {"torn"}
    PROVE  RouteSpec => []DecidedOnLedger
  <1>1. Whole
    BY DEF Whole
  <1> QED  BY <1>1, DecidedOfInvariant, RouteHolds, PTL

\* Fusing the stores loses no hit, doubles none and keeps the order of each, the
\* graph's before the vector store's, whatever they answer.
THEOREM FusionIsWhole == RouteSpec => []NothingLost
  <1>1. RouteInvariant => NothingLost
    <2> DEFINE Kept(gs, vs, served) ==
                   \/ vs = NoAnswer /\ served = gs
                   \/ gs = << >> /\ served = vs
                   \/ /\ vs # NoAnswer /\ gs # << >>
                      /\ ToSet(served) = ToSet(gs) \cup ToSet(vs)
                      /\ IsInjective(served)
                      /\ \A i, j \in DOMAIN served :
                            i < j => ComesFirst(gs \o vs, served[i], served[j])
    <2> SUFFICES ASSUME RouteInvariant, NEW c \in Calls, at[c] = "returned"
                 PROVE  Kept(graph[c], vector[c], answer[c])
      BY Zenon DEF NothingLost
    <2> DEFINE gs == graph[c]
               vs == vector[c]
               served == answer[c]
    <2>1. /\ sure[c] \in BOOLEAN /\ gs \in Seq(Keys)
          /\ sure[c] => gs # << >> /\ vs = NoAnswer
          /\ ~ sure[c] => vs \in Seq(Keys) /\ vs # << >>
          /\ served = IF sure[c] THEN gs ELSE IF gs # << >> THEN Fuse(gs, vs) ELSE vs
      BY DEF RouteInvariant, AllHave, Has, RouteTypeOK
    <2> HIDE DEF gs, vs, served
    <2> SUFFICES Kept(gs, vs, served)
      BY DEF gs, vs, served
    <2>2. CASE sure[c]
      <3>1. served = gs /\ vs = NoAnswer
        BY <2>1, <2>2
      <3> QED  BY <3>1
    <2>3. CASE ~ sure[c] /\ gs = << >>
      <3>1. served = vs
        BY <2>1, <2>3
      <3> QED  BY <2>3, <3>1
    <2>4. CASE ~ sure[c] /\ gs # << >>
      <3>1. served = Fuse(gs, vs) /\ vs # NoAnswer /\ vs \in Seq(Keys)
        BY <2>1, <2>4, NoAnswerAssumption
      <3>2. /\ ToSet(served) = ToSet(gs) \cup ToSet(vs)
            /\ IsInjective(served)
            /\ \A i, j \in DOMAIN served : i < j => ComesFirst(gs \o vs, served[i], served[j])
        BY <2>1, <3>1, FuseKeeps
      <3> QED  BY <2>4, <3>1, <3>2, Zenon
    <2> QED  BY <2>1, <2>2, <2>3, <2>4
  <1> QED  BY <1>1, RouteHolds, PTL

-----------------------------------------------------------------------------
(* Router *)

\* Some scores have a greatest.
ScoresOf(f, P, floor) == {f[i] : i \in P} \cup {floor}

LEMMA GreatestScore ==
    ASSUME NEW k \in Nat, NEW P \in SUBSET (1..k), NEW f, \A i \in P : f[i] \in Int,
           NEW floor \in Int, NEW S, S = ScoresOf(f, P, floor)
    PROVE  Max(S) \in S /\ Max(S) \in Int /\ \A x \in S : Max(S) >= x
  <1>1. \A x \in S : x \in Int
    BY DEF ScoresOf
  <1>2. \E m \in S : \A x \in S : m >= x
    <2>1. S = {f[i] : i \in P} \cup {floor}
      BY DEF ScoresOf
    <2>2. CASE P = {}
      <3>1. S = {floor} /\ floor >= floor
        BY <2>2, <2>1
      <3> QED  BY <3>1
    <2>3. CASE P # {}
      <3>1. PICK i \in P : Leads(f, P, i)
        BY <2>3, SomeLeads
      <3>2. \A j \in P : f[i] >= f[j]
        <4>1. \A j \in P : f[j] \in Int /\ f[i] \in Int
          OBVIOUS
        <4> QED  BY <3>1, <4>1 DEF Leads
      <3>3. CASE f[i] >= floor
        <4>1. f[i] \in S
          BY <2>1
        <4>2. \A x \in S : f[i] >= x
          BY <2>1, <3>2, <3>3
        <4> QED  BY <4>1, <4>2
      <3>4. CASE ~ (f[i] >= floor)
        <4>1. f[i] \in Int /\ floor > f[i] /\ floor >= floor
          BY <3>4
        <4>2. ASSUME NEW j \in P
              PROVE  floor >= f[j]
          <5>1. f[j] \in Int /\ f[i] >= f[j]
            BY <3>2
          <5> QED  BY <4>1, <5>1
        <4>3. floor \in S /\ \A x \in S : floor >= x
          BY <2>1, <4>1, <4>2
        <4> QED  BY <4>3
      <3> QED  BY <3>3, <3>4
    <2> QED  BY <2>2, <2>3
  <1>3. Max(S) \in S /\ \A x \in S : Max(S) >= x
    BY <1>2 DEF Max
  <1> QED  BY <1>1, <1>3

Ranked(r) == \E k \in Nat : k > 0 /\ r \in [1..k -> Exemplar]

\* Exemplar i is nearer than every other, and than -1, by the margin.
Clear(r, margin, i) ==
    /\ i \in DOMAIN r
    /\ r[i].score + 1 >= margin
    /\ \A j \in DOMAIN r \ {i} : r[j].score + margin <= r[i].score

\* With a margin above zero Semantic goes to the clear exemplar, of which there
\* is at most one, and abstains where there is none.
LEMMA SemanticIsClear ==
    ASSUME NEW q, q.pinned, q.margin \in Nat, q.margin > 0, Ranked(q.ranked)
    PROVE  /\ \A i : Clear(q.ranked, q.margin, i) => Semantic(q) = q.ranked[i].store
           /\ (\A i : ~ Clear(q.ranked, q.margin, i)) => Semantic(q) = "abstain"
  <1> DEFINE r == q.ranked
             D == DOMAIN r
             f == [i \in D |-> r[i].score]
             top == Max({e.score : e \in ToSet(r)})
             First(i) == r[i].score = top /\ \A j \in 1..(i - 1) : r[j].score # top
             best == CHOOSE i \in D : First(i)
             runner == Max({r[j].score : j \in D \ {best}} \cup {-1})
  <1>1. PICK k \in Nat : k > 0 /\ r \in [1..k -> Exemplar]
    BY DEF Ranked
  <1>2. D = 1..k /\ D # {} /\ \A i \in D : r[i] \in Exemplar
    <2>1. D = 1..k
      BY <1>1
    <2>2. 1 \in D
      BY <1>1, <2>1
    <2> QED  BY <1>1, <2>1, <2>2
  <1>3. \A i \in D : r[i].score \in Nat /\ f[i] = r[i].score
    BY <1>2, BoundsAssumption DEF Exemplar
  <1> HIDE DEF f
  <1>4. /\ top \in Nat /\ \A i \in D : r[i].score <= top
        /\ \E i \in D : r[i].score = top
    <2>1. {e.score : e \in ToSet(r)} = {f[i] : i \in D}
      BY <1>3 DEF ToSet
    <2>2. PICK i \in D : Leads(f, D, i)
      <3>1. D \in SUBSET (1..k) /\ D # {} /\ \A i \in D : f[i] \in Int
        BY <1>2, <1>3
      <3> QED  BY <1>1, <3>1, SomeLeads
    <2>3. \A j \in D : f[i] >= f[j]
      <3>1. \A j \in D : f[j] \in Int
        BY <1>3
      <3> QED  BY <2>2, <3>1 DEF Leads
    <2> DEFINE T == {f[j] : j \in D}
    <2>4. f[i] \in T /\ \A x \in T : f[i] >= x
      BY <2>3
    <2>5. \A x \in T : x \in Nat
      BY <1>3
    <2>6. top = Max(T)
      BY <2>1
    <2> HIDE DEF T
    <2>7. top \in T /\ \A x \in T : top >= x
      BY <2>4, <2>6 DEF Max
    <2>8. top \in Nat
      BY <2>5, <2>7
    <2>9. \E j \in D : r[j].score = top
      BY <1>3, <2>7 DEF T
    <2>10. \A j \in D : f[j] \in T /\ f[j] = r[j].score
      BY <1>3 DEF T
    <2>11. \A j \in D : r[j].score <= top
      BY <1>3, <2>7, <2>8, <2>10
    <2> QED  BY <2>8, <2>9, <2>11
  <1> HIDE DEF top
  <1>5. \E i \in D : First(i)
    <2> DEFINE g == [i \in D |-> IF r[i].score = top THEN 1 ELSE 0]
    <2>1. \A i \in D : g[i] \in Int
      OBVIOUS
    <2>2. PICK i \in D : Leads(g, D, i)
      BY <1>2, <2>1, SomeLeads
    <2>3. PICK h \in D : r[h].score = top
      BY <1>4
    <2>4. g[h] = 1 /\ h \in D
      BY <2>3
    <2>5. g[i] = 1 /\ r[i].score = top
      BY <2>2, <2>4 DEF Leads
    <2>6. ASSUME NEW j \in 1..(i - 1), r[j].score = top
          PROVE  FALSE
      <3>1. j \in D /\ j < i /\ i \in Nat /\ j \in Nat
        BY <1>2
      <3>2. g[j] = 1
        BY <2>6, <3>1
      <3> QED  BY <2>2, <2>5, <3>1, <3>2 DEF Leads
    <2> QED  BY <2>5, <2>6
  <1>6. best \in D /\ r[best].score = top
    <2>1. best \in D /\ First(best)
      BY <1>5
    <2> QED  BY <2>1
  <1>7. /\ runner \in Int /\ runner >= -1
        /\ \A j \in D \ {best} : r[j].score <= runner
        /\ runner = -1 \/ \E j \in D \ {best} : runner = r[j].score
    <2> HIDE DEF best
    <2> DEFINE P == D \ {best}
               T == ScoresOf(f, P, -1)
    <2>1. P \in SUBSET (1..k) /\ \A i \in P : f[i] \in Int /\ f[i] = r[i].score
      BY <1>2, <1>3
    <2>2. {r[j].score : j \in P} \cup {-1} = T
      BY <2>1 DEF ScoresOf
    <2>3. runner = Max(T)
      BY <2>2
    <2> HIDE DEF P, runner
    <2>4. Max(T) \in T /\ Max(T) \in Int /\ \A x \in T : Max(T) >= x
      BY <1>1, <2>1, GreatestScore, -1 \in Int
    <2>5. /\ \A j \in P : r[j].score \in T
          /\ -1 \in T
          /\ \A x \in T : x = -1 \/ \E j \in P : x = r[j].score
      BY <2>1 DEF ScoresOf
    <2> HIDE DEF T
    <2>6. runner = -1 \/ \E j \in P : runner = r[j].score
      BY <2>3, <2>4, <2>5
    <2>7. runner >= -1
      BY <2>3, <2>4, <2>5
    <2>8. \A j \in P : r[j].score <= runner
      <3>1. \A j \in P : r[j].score \in Int
        BY <2>1
      <3> QED  BY <2>3, <2>4, <2>5, <3>1
    <2> QED  BY <2>3, <2>4, <2>6, <2>7, <2>8 DEF P
  <1>8. Semantic(q) = IF top - runner < q.margin THEN "abstain" ELSE r[best].store
    BY <1>6 DEF Semantic, top
  <1> HIDE DEF best, runner
  <1>9. top - runner >= q.margin => Clear(r, q.margin, best)
    BY <1>3, <1>4, <1>6, <1>7 DEF Clear
  <1>10. ASSUME NEW i, Clear(r, q.margin, i)
         PROVE  i = best /\ top - runner >= q.margin
    <2>1. i \in D /\ r[i].score \in Nat /\ r[i].score + 1 >= q.margin
          /\ \A j \in D \ {i} : r[j].score + q.margin <= r[i].score
      BY <1>3, <1>10 DEF Clear
    <2>2. i = best
      <3> SUFFICES ASSUME i # best PROVE FALSE
        OBVIOUS
      <3>1. top + q.margin <= r[i].score /\ r[i].score <= top
        BY <1>4, <1>6, <2>1
      <3> QED  BY <1>4, <2>1, <3>1
    <2>3. CASE runner = -1
      BY <1>4, <1>6, <2>1, <2>2, <2>3
    <2>4. CASE \E j \in D \ {best} : runner = r[j].score
      BY <1>3, <1>4, <1>6, <2>1, <2>2, <2>4
    <2> QED  BY <1>7, <2>2, <2>3, <2>4
  <1>11. ASSUME NEW i, Clear(r, q.margin, i)
         PROVE  Semantic(q) = r[i].store
    <2>1. i = best /\ ~ (top - runner < q.margin)
      BY <1>4, <1>7, <1>10, <1>11
    <2> QED  BY <1>8, <2>1
  <1>12. ASSUME \A i : ~ Clear(r, q.margin, i)
         PROVE  Semantic(q) = "abstain"
    <2>1. top - runner < q.margin
      BY <1>4, <1>7, <1>9, <1>12
    <2> QED  BY <1>8, <2>1
  <1> QED  BY <1>11, <1>12

\* A sequence of exemplars with the i-th put first has them all.
Fronted(r, i) == <<r[i]>> \o RemoveAt(r, i)

LEMMA PutFirst ==
    ASSUME NEW k \in Nat, NEW r \in [1..k -> Exemplar], NEW i \in 1..k,
           NEW s, s = Fronted(r, i)
    PROVE  /\ s \in [1..k -> Exemplar]
           /\ s[1] = r[i]
           /\ \A j \in 1..k : j < i => s[j + 1] = r[j]
           /\ \A j \in 1..k : j > i => s[j] = r[j]
  <1>1. r \in Seq(Exemplar) /\ Len(r) = k /\ i \in Nat /\ i >= 1 /\ i <= k
    OBVIOUS
  <1> DEFINE a == SubSeq(r, 1, i - 1)
             b == SubSeq(r, i + 1, k)
  <1>2. /\ a \in Seq(Exemplar) /\ Len(a) = i - 1
        /\ \A j \in 1..(i - 1) : a[j] = r[j]
    BY <1>1
  <1>3. /\ b \in Seq(Exemplar) /\ Len(b) = k - i
        /\ \A j \in 1..(k - i) : b[j] = r[i + j]
    BY <1>1
  <1>4. s = <<r[i]>> \o (a \o b)
    BY <1>1 DEF RemoveAt, Fronted
  <1> HIDE DEF a, b
  <1> DEFINE c == a \o b
             one == <<r[i]>>
  <1>5. /\ c \in Seq(Exemplar) /\ Len(c) = Len(a) + Len(b)
        /\ \A j \in 1..(Len(a) + Len(b)) : c[j] = IF j <= Len(a) THEN a[j] ELSE b[j - Len(a)]
    BY <1>2, <1>3, ConcatProperties
  <1>6. one \in Seq(Exemplar) /\ Len(one) = 1 /\ one[1] = r[i]
    BY <1>1
  <1>7. s = one \o c
    BY <1>4
  <1> HIDE DEF c, one
  <1>8. /\ s \in Seq(Exemplar) /\ Len(s) = Len(one) + Len(c)
        /\ \A j \in 1..(Len(one) + Len(c)) :
              s[j] = IF j <= Len(one) THEN one[j] ELSE c[j - Len(one)]
    <2>1. one \in Seq(Exemplar) /\ c \in Seq(Exemplar)
      BY <1>5, <1>6
    <2>2. /\ one \o c \in Seq(Exemplar) /\ Len(one \o c) = Len(one) + Len(c)
          /\ \A j \in 1..(Len(one) + Len(c)) :
                (one \o c)[j] = IF j <= Len(one) THEN one[j] ELSE c[j - Len(one)]
      BY <2>1, ConcatProperties
    <2> QED  BY <1>7, <2>2
  <1>9. Len(c) = k - 1 /\ Len(s) = k
    BY <1>1, <1>2, <1>3, <1>5, <1>6, <1>8
  <1>10. ASSUME NEW j \in 1..(k - 1)
         PROVE  s[j + 1] = c[j] /\ c[j] = IF j < i THEN r[j] ELSE r[j + 1]
    <2>1. s[j + 1] = c[j]
      <3>1. j + 1 \in 1..(Len(one) + Len(c)) /\ ~ (j + 1 <= Len(one)) /\ j + 1 - Len(one) = j
        BY <1>1, <1>6, <1>9
      <3> QED  BY <1>8, <3>1
    <2>2. j \in 1..(Len(a) + Len(b))
      BY <1>5, <1>9
    <2>3. CASE j < i
      <3>1. j <= Len(a) /\ j \in 1..(i - 1)
        BY <1>1, <1>2, <2>3
      <3> QED  BY <1>2, <1>5, <2>1, <2>2, <2>3, <3>1
    <2>4. CASE ~ (j < i)
      <3>1. ~ (j <= Len(a)) /\ j - Len(a) = j - (i - 1) /\ j - (i - 1) \in 1..(k - i)
            /\ i + (j - (i - 1)) = j + 1
        BY <1>1, <1>2, <2>4
      <3>2. c[j] = b[j - (i - 1)]
        BY <1>5, <2>2, <3>1
      <3> QED  BY <1>3, <2>1, <2>4, <3>1, <3>2
    <2> QED  BY <2>3, <2>4
  <1>11. ASSUME NEW j \in 1..k, j < i
         PROVE  s[j + 1] = r[j]
    <2>1. j \in 1..(k - 1)
      BY <1>1, <1>11
    <2> QED  BY <1>10, <1>11, <2>1
  <1>12. ASSUME NEW j \in 1..k, j > i
         PROVE  s[j] = r[j]
    <2>1. j - 1 \in 1..(k - 1) /\ ~ (j - 1 < i) /\ (j - 1) + 1 = j
      BY <1>1, <1>12
    <2> QED  BY <1>10, <2>1
  <1>13. s[1] = r[i]
    <2>1. 1 \in 1..(Len(one) + Len(c)) /\ 1 <= Len(one)
      BY <1>1, <1>6, <1>9
    <2> QED  BY <1>6, <1>8, <2>1
  <1>14. s \in [1..k -> Exemplar]
    <2>1. DOMAIN s = 1..k /\ \A j \in 1..k : s[j] \in Exemplar
      BY <1>8, <1>9
    <2>2. s = [j \in 1..k |-> s[j]]
      BY <1>8, <1>9
    <2> QED  BY <2>1, <2>2
  <1> QED  BY <1>11, <1>12, <1>13, <1>14

\* Which exemplar is clear does not depend on its place.
LEMMA ClearMoves ==
    ASSUME NEW k \in Nat, NEW r \in [1..k -> Exemplar], NEW i \in 1..k,
           NEW s, s = Fronted(r, i), NEW margin \in Nat
    PROVE  /\ \A n : Clear(r, margin, n) => \E m : Clear(s, margin, m) /\ s[m] = r[n]
           /\ \A m : Clear(s, margin, m) => \E n : Clear(r, margin, n)
  <1> DEFINE from(m) == IF m = 1 THEN i ELSE IF m <= i THEN m - 1 ELSE m
             to(n) == IF n = i THEN 1 ELSE IF n < i THEN n + 1 ELSE n
  <1>1. /\ s \in [1..k -> Exemplar] /\ s[1] = r[i]
        /\ \A j \in 1..k : j < i => s[j + 1] = r[j]
        /\ \A j \in 1..k : j > i => s[j] = r[j]
    BY PutFirst
  <1>2. DOMAIN r = 1..k /\ DOMAIN s = 1..k
    BY <1>1
  <1>3. ASSUME NEW n \in 1..k
        PROVE  to(n) \in 1..k /\ s[to(n)] = r[n] /\ from(to(n)) = n
    <2>1. CASE n = i
      <3>1. to(n) = 1 /\ 1 \in 1..k /\ from(1) = i
        BY <2>1
      <3> QED  BY <1>1, <2>1, <3>1
    <2>2. CASE n < i
      BY <1>1, <2>2
    <2>3. CASE n > i
      BY <1>1, <2>3
    <2> QED  BY <2>1, <2>2, <2>3
  <1>4. ASSUME NEW m \in 1..k
        PROVE  from(m) \in 1..k /\ r[from(m)] = s[m] /\ to(from(m)) = m
    <2>1. CASE m = 1
      <3>1. from(m) = i /\ to(i) = 1
        BY <2>1
      <3> QED  BY <1>1, <2>1, <3>1
    <2>2. CASE m # 1 /\ m <= i
      <3>1. m - 1 \in 1..k /\ m - 1 < i /\ (m - 1) + 1 = m /\ from(m) = m - 1
        BY <2>2
      <3>2. s[(m - 1) + 1] = r[m - 1]
        BY <1>1, <3>1
      <3>3. to(m - 1) = m
        BY <3>1
      <3> QED  BY <3>1, <3>2, <3>3
    <2>3. CASE m > i
      BY <1>1, <2>3
    <2> QED  BY <2>1, <2>2, <2>3
  <1> HIDE DEF from, to
  <1>5. ASSUME NEW n, Clear(r, margin, n)
        PROVE  Clear(s, margin, to(n)) /\ s[to(n)] = r[n]
    <2>1. n \in 1..k /\ to(n) \in 1..k /\ s[to(n)] = r[n]
      BY <1>2, <1>3, <1>5 DEF Clear
    <2>2. ASSUME NEW j \in DOMAIN s \ {to(n)}
          PROVE  s[j].score + margin <= s[to(n)].score
      <3>1. from(j) \in DOMAIN r \ {n} /\ r[from(j)] = s[j]
        BY <1>2, <1>3, <1>4, <2>1
      <3> QED  BY <1>5, <2>1, <3>1 DEF Clear
    <2> QED  BY <1>2, <1>5, <2>1, <2>2 DEF Clear
  <1>6. ASSUME NEW m, Clear(s, margin, m)
        PROVE  Clear(r, margin, from(m))
    <2>1. m \in 1..k /\ from(m) \in 1..k /\ r[from(m)] = s[m]
      BY <1>2, <1>4, <1>6 DEF Clear
    <2>2. ASSUME NEW j \in DOMAIN r \ {from(m)}
          PROVE  r[j].score + margin <= r[from(m)].score
      <3>1. to(j) \in DOMAIN s \ {m} /\ s[to(j)] = r[j]
        BY <1>2, <1>3, <1>4, <2>1
      <3> QED  BY <1>6, <2>1, <3>1 DEF Clear
    <2> QED  BY <1>2, <1>6, <2>1, <2>2 DEF Clear
  <1> QED  BY <1>5, <1>6

RouterInvariant ==
    /\ RouterTypeOK
    /\ question \in ByVector => choice = RouteOf(question, available)

LEMMA RouterHolds == RouterSpec => []RouterInvariant
  <1>1. RouterInit => RouterInvariant
    BY NotRoutedAssumption DEF RouterInit, RouterInvariant, RouterTypeOK
  <1>2. RouterInvariant /\ [RouterNext]_routerVars => RouterInvariant'
    <2> SUFFICES ASSUME RouterInvariant, [RouterNext]_routerVars
                 PROVE  RouterInvariant'
      OBVIOUS
    <2>1. CASE UNCHANGED routerVars
      BY <2>1 DEF routerVars, RouterInvariant, RouterTypeOK, RouteOf
    <2>2. ASSUME NEW there \in SUBSET ToSet(Stores), NEW q \in ByWords \cup ByVector,
                 Route(q, there)
          PROVE  RouterInvariant'
      <3>1. question' = q /\ available' = there /\ choice' = RouteOf(q, there)
        BY <2>2 DEF Route
      <3>2. RouteOf(q, there) \in there \cup {"abstain", "mismatch"}
        <4> DEFINE store == IF q \in ByWords THEN Logical(q) ELSE Semantic(q)
        <4>1. RouteOf(q, there) = Fallback(store, there)
          BY DEF RouteOf
        <4> HIDE DEF store
        <4> QED  BY <4>1 DEF Fallback
      <3> QED  BY <3>1, <3>2 DEF RouterInvariant, RouterTypeOK
    <2> QED  BY <2>1, <2>2 DEF RouterNext
  <1> QED  BY <1>1, <1>2, PTL DEF RouterSpec

\* A question goes to a store that is there, or nowhere.
THEOREM RouterTypeCorrect == RouterSpec => []RouterTypeOK
  BY RouterHolds, PTL DEF RouterInvariant

\* Semantic routing takes no account of the order of exemplars.
LEMMA SameRoute ==
    ASSUME NEW q \in ByVector, q.margin > 0, NEW i \in DOMAIN q.ranked, NEW p,
           p = [q EXCEPT !.ranked = Fronted(@, i)], NEW there
    PROVE  RouteOf(p, there) = RouteOf(q, there)
  <1>1. /\ q.ranked \in UNION {[1..k -> Exemplar] : k \in 1..MaxExemplars}
        /\ q.margin \in 0..MaxScore /\ q.pinned \in BOOLEAN
        /\ q = [ranked |-> q.ranked, margin |-> q.margin, pinned |-> q.pinned]
    BY DEF ByVector
  <1>2. PICK k \in 1..MaxExemplars : q.ranked \in [1..k -> Exemplar]
    BY <1>1
  <1>3. k \in Nat /\ k > 0 /\ i \in 1..k /\ q.margin \in Nat
    BY <1>1, <1>2, BoundsAssumption
  <1>4. /\ p.ranked = Fronted(q.ranked, i)
        /\ p.margin = q.margin /\ p.pinned = q.pinned
        /\ p = [ranked |-> p.ranked, margin |-> p.margin, pinned |-> p.pinned]
    BY <1>1
  <1>5. p.ranked \in [1..k -> Exemplar]
    BY <1>2, <1>3, <1>4, PutFirst
  <1>6. p \notin ByWords /\ q \notin ByWords
    <2>1. \A x \in ByWords : DOMAIN x = {"words"}
      BY DEF ByWords
    <2>2. "ranked" \in DOMAIN p /\ "ranked" \in DOMAIN q
      BY <1>1, <1>4
    <2> QED  BY <2>1, <2>2
  <1>7. CASE ~ q.pinned
    BY <1>4, <1>6, <1>7 DEF RouteOf, Semantic
  <1>8. CASE q.pinned
    <2>1. Ranked(q.ranked) /\ Ranked(p.ranked)
      BY <1>2, <1>3, <1>5 DEF Ranked
    <2>2. /\ \A n : Clear(q.ranked, q.margin, n) =>
                 \E m : Clear(p.ranked, q.margin, m) /\ p.ranked[m] = q.ranked[n]
          /\ \A m : Clear(p.ranked, q.margin, m) => \E n : Clear(q.ranked, q.margin, n)
      BY <1>2, <1>3, <1>4, ClearMoves
    <2>3. /\ \A n : Clear(q.ranked, q.margin, n) => Semantic(q) = q.ranked[n].store
          /\ (\A n : ~ Clear(q.ranked, q.margin, n)) => Semantic(q) = "abstain"
      BY <1>3, <1>8, <2>1, SemanticIsClear
    <2>4. /\ \A m : Clear(p.ranked, q.margin, m) => Semantic(p) = p.ranked[m].store
          /\ (\A m : ~ Clear(p.ranked, q.margin, m)) => Semantic(p) = "abstain"
      <3>1. p.pinned /\ p.margin \in Nat /\ p.margin > 0 /\ p.margin = q.margin
        BY <1>3, <1>4, <1>8
      <3>2. /\ \A m : Clear(p.ranked, p.margin, m) => Semantic(p) = p.ranked[m].store
            /\ (\A m : ~ Clear(p.ranked, p.margin, m)) => Semantic(p) = "abstain"
        BY <2>1, <3>1, SemanticIsClear
      <3> QED  BY <3>1, <3>2
    <2>5. Semantic(p) = Semantic(q)
      <3>1. CASE \E n : Clear(q.ranked, q.margin, n)
        <4>1. PICK n : Clear(q.ranked, q.margin, n)
          BY <3>1
        <4>2. PICK m : Clear(p.ranked, q.margin, m) /\ p.ranked[m] = q.ranked[n]
          BY <2>2, <4>1
        <4> QED  BY <2>3, <2>4, <4>1, <4>2
      <3>2. CASE \A n : ~ Clear(q.ranked, q.margin, n)
        <4>1. \A m : ~ Clear(p.ranked, q.margin, m)
          BY <2>2, <3>2
        <4> QED  BY <2>3, <2>4, <3>2, <4>1
      <3> QED  BY <3>1, <3>2
    <2> QED  BY <1>6, <2>5 DEF RouteOf
  <1> QED  BY <1>1, <1>7, <1>8

\* Where a vector is routed with any margin above zero depends on the exemplars
\* and not on the order they are declared in, however many there are.
THEOREM RouteIsStable == RouterSpec => []SemanticStable
  <1>1. RouterInvariant => SemanticStable
    <2> SUFFICES ASSUME RouterInvariant, question \in ByVector, question.margin > 0,
                        NEW i \in DOMAIN question.ranked
                 PROVE  RouteOf([question EXCEPT !.ranked = Fronted(@, i)], available) = choice
      BY DEF SemanticStable, Fronted
    <2>1. RouteOf([question EXCEPT !.ranked = Fronted(@, i)], available)
            = RouteOf(question, available)
      BY SameRoute
    <2> QED  BY <2>1 DEF RouterInvariant
  <1> QED  BY <1>1, RouterHolds, PTL

-----------------------------------------------------------------------------
(* Query languages *)

\* How the index reads the three conditions.
LEMMA MatchHolds ==
    ASSUME NEW f, NEW m, NEW w
    PROVE  Holds(Match(f, w), m) <=> \E x \in m[f] : x \in w
  <1>1. "match" \in DOMAIN Match(f, w) /\ Match(f, w).on = f /\ Match(f, w).match = w
    BY DEF Match
  <1> QED  BY <1>1 DEF Holds

LEMMA EmptyHolds ==
    ASSUME NEW f, NEW m
    PROVE  Holds(IsEmpty(f), m) <=> m[f] = {}
  <1>1. /\ "match" \notin DOMAIN IsEmpty(f) /\ "empty" \in DOMAIN IsEmpty(f)
        /\ IsEmpty(f).on = f
    BY DEF IsEmpty
  <1> QED  BY <1>1 DEF Holds

LEMMA RangeHolds ==
    ASSUME NEW f, NEW m, NEW c
    PROVE  Holds(Ranges(f, c), m) <=>
               \E x \in m[f] : \A op \in DOMAIN c \cap RangeOps : Within(x, op, c[op])
  <1> DEFINE bounds == {<<op, c[op]>> : op \in DOMAIN c \cap RangeOps}
  <1>1. /\ "match" \notin DOMAIN Ranges(f, c) /\ "empty" \notin DOMAIN Ranges(f, c)
        /\ Ranges(f, c).on = f /\ Ranges(f, c).range = bounds
    BY DEF Ranges
  <1>2. Holds(Ranges(f, c), m) <=> \E x \in m[f] : \A b \in bounds : Within(x, b[1], b[2])
    <2> HIDE DEF bounds
    <2> QED  BY <1>1 DEF Holds
  <1>3. ASSUME NEW x
        PROVE  (\A b \in bounds : Within(x, b[1], b[2]))
                  <=> \A op \in DOMAIN c \cap RangeOps : Within(x, op, c[op])
    <2>1. ASSUME \A b \in bounds : Within(x, b[1], b[2]), NEW op \in DOMAIN c \cap RangeOps
          PROVE  Within(x, op, c[op])
      <3>1. <<op, c[op]>> \in bounds /\ <<op, c[op]>>[1] = op /\ <<op, c[op]>>[2] = c[op]
        OBVIOUS
      <3> HIDE DEF bounds
      <3>2. Within(x, <<op, c[op]>>[1], <<op, c[op]>>[2])
        BY <2>1, <3>1
      <3> QED  BY <3>1, <3>2
    <2>2. ASSUME \A op \in DOMAIN c \cap RangeOps : Within(x, op, c[op]), NEW b \in bounds
          PROVE  Within(x, b[1], b[2])
      <3>1. PICK op \in DOMAIN c \cap RangeOps : b = <<op, c[op]>>
        OBVIOUS
      <3>2. b[1] = op /\ b[2] = c[op]
        BY <3>1
      <3>3. Within(x, op, c[op])
        BY <2>2
      <3> QED  BY <3>2, <3>3
    <2> QED  BY <2>1, <2>2
  <1> HIDE DEF bounds
  <1> QED  BY <1>2, <1>3

\* What the conditions of one field keep.
FieldKeeps(f, c, m) ==
    /\ \A d \in Must(f, c) : Holds(d, m)
    /\ \A d \in MustNot(f, c) : ~ Holds(d, m)

AtMostOne(S) == \A x, y \in S : x = y

\* They keep what meets every operator, of several values when at most one
\* bound is put on them.
LEMMA FieldMeans ==
    ASSUME NEW f, NEW c, NEW m, NEW vs, vs = m[f],
           DOMAIN c \subseteq SupportedOps,
           "$exists" \in DOMAIN c => c["$exists"] \in BOOLEAN,
           AtMostOne(vs) \/ AtMostOne(RangeOps \cap DOMAIN c)
    PROVE  FieldKeeps(f, c, m) <=> \A op \in DOMAIN c : Meets(vs, op, c[op])
  <1> DEFINE D == DOMAIN c
             R == D \cap RangeOps
             InRange(x) == \A op \in R : Within(x, op, c[op])
  <1>1. (\A d \in Must(f, c) : Holds(d, m)) <=>
            /\ "$eq" \in D => Holds(Match(f, {c["$eq"]}), m)
            /\ "$in" \in D => Holds(Match(f, c["$in"]), m)
            /\ R # {} => Holds(Ranges(f, c), m)
            /\ "$exists" \in D /\ ~ c["$exists"] => Holds(IsEmpty(f), m)
    BY DEF Must
  <1>2. (\A d \in MustNot(f, c) : ~ Holds(d, m)) <=>
            /\ "$ne" \in D => ~ Holds(Match(f, {c["$ne"]}), m)
            /\ "$nin" \in D => ~ Holds(Match(f, c["$nin"]), m)
            /\ "$exists" \in D /\ c["$exists"] => ~ Holds(IsEmpty(f), m)
    BY DEF MustNot
  <1>3. /\ \A w : Holds(Match(f, w), m) <=> \E x \in vs : x \in w
        /\ Holds(IsEmpty(f), m) <=> vs = {}
        /\ Holds(Ranges(f, c), m) <=> \E x \in vs : InRange(x)
    <2>1. Holds(IsEmpty(f), m) <=> vs = {}
      BY EmptyHolds
    <2>2. ASSUME NEW w
          PROVE  Holds(Match(f, w), m) <=> \E x \in vs : x \in w
      BY MatchHolds
    <2>3. Holds(Ranges(f, c), m) <=>
             \E x \in vs : \A op \in DOMAIN c \cap RangeOps : Within(x, op, c[op])
      BY RangeHolds
    <2> QED  BY <2>1, <2>2, <2>3
  <1>4. /\ Meets(vs, "$eq", c["$eq"]) <=> \E x \in vs : x = c["$eq"]
        /\ Meets(vs, "$ne", c["$ne"]) <=> ~ \E x \in vs : x = c["$ne"]
        /\ Meets(vs, "$in", c["$in"]) <=> \E x \in vs : x \in c["$in"]
        /\ Meets(vs, "$nin", c["$nin"]) <=> ~ \E x \in vs : x \in c["$nin"]
        /\ "$exists" \in D => (Meets(vs, "$exists", c["$exists"]) <=> (c["$exists"] <=> vs # {}))
        /\ \A op \in R : Meets(vs, op, c[op]) <=> \E x \in vs : Within(x, op, c[op])
    BY DEF Meets, RangeOps
  <1>5. (R # {} => \E x \in vs : InRange(x)) <=> \A op \in R : \E x \in vs : Within(x, op, c[op])
    <2>1. ASSUME R # {} => \E x \in vs : InRange(x), NEW op \in R
          PROVE  \E x \in vs : Within(x, op, c[op])
      BY <2>1
    <2>2. ASSUME \A op \in R : \E x \in vs : Within(x, op, c[op]), R # {}
          PROVE  \E x \in vs : InRange(x)
      <3>1. PICK first \in R : TRUE
        BY <2>2
      <3>2. PICK x \in vs : Within(x, first, c[first])
        BY <2>2
      <3>3. ASSUME NEW op \in R
            PROVE  Within(x, op, c[op])
        <4>1. PICK y \in vs : Within(y, op, c[op])
          BY <2>2
        <4>2. CASE AtMostOne(vs)
          <5>1. x = y
            BY <4>2 DEF AtMostOne
          <5> QED  BY <4>1, <5>1
        <4>3. CASE AtMostOne(RangeOps \cap DOMAIN c)
          <5>1. op = first
            BY <4>3 DEF AtMostOne
          <5> QED  BY <3>2, <5>1
        <4> QED  BY <4>2, <4>3
      <3> QED  BY <3>3
    <2> QED  BY <2>1, <2>2
  <1> DEFINE Is(op) == op \in D => Meets(vs, op, c[op])
  <1>6. (\A op \in D : Meets(vs, op, c[op])) <=>
            /\ Is("$eq") /\ Is("$ne") /\ Is("$in") /\ Is("$nin") /\ Is("$exists")
            /\ \A op \in R : Meets(vs, op, c[op])
    BY DEF SupportedOps
  <1> HIDE DEF R, D, InRange
  <1>7. "$exists" \in D => c["$exists"] \in BOOLEAN
    BY DEF D
  <1>8. FieldKeeps(f, c, m) <=>
            /\ "$eq" \in D => \E x \in vs : x = c["$eq"]
            /\ "$in" \in D => \E x \in vs : x \in c["$in"]
            /\ \A op \in R : \E x \in vs : Within(x, op, c[op])
            /\ "$ne" \in D => ~ \E x \in vs : x = c["$ne"]
            /\ "$nin" \in D => ~ \E x \in vs : x \in c["$nin"]
            /\ "$exists" \in D => (c["$exists"] <=> vs # {})
    BY <1>1, <1>2, <1>3, <1>5, <1>7 DEF FieldKeeps
  <1> QED  BY <1>4, <1>6, <1>8 DEF D

\* A filter keeps what the conditions of every field keep.
LEMMA CompileKeeps ==
    ASSUME NEW cs, Accepts(cs), NEW m
    PROVE  Keeps(Compile(cs), m) <=> \A f \in DOMAIN cs : FieldKeeps(f, cs[f], m)
  <1>1. /\ Compile(cs).must = UNION {Must(f, cs[f]) : f \in DOMAIN cs}
        /\ Compile(cs).must_not = UNION {MustNot(f, cs[f]) : f \in DOMAIN cs}
    BY DEF Compile
  <1>2. /\ (\A d \in Compile(cs).must : Holds(d, m))
              <=> \A f \in DOMAIN cs : \A d \in Must(f, cs[f]) : Holds(d, m)
        /\ (\A d \in Compile(cs).must_not : ~ Holds(d, m))
              <=> \A f \in DOMAIN cs : \A d \in MustNot(f, cs[f]) : ~ Holds(d, m)
    BY <1>1
  <1> QED  BY <1>2 DEF Keeps, FieldKeeps

\* Every field of a memory but the tags has at most one value.
LEMMA OneValue ==
    ASSUME NEW m \in Memory, NEW f \in Fields, f # "tags"
    PROVE  AtMostOne(m[f])
  <1>1. /\ m["memory_class"] \in {{c} : c \in Classes}
        /\ m["user_id"] \in {{}} \cup {{w} : w \in Words}
        /\ m["created_at"] \in {{t} : t \in Instants}
    BY DEF Memory
  <1>2. AtMostOne(m["memory_class"]) /\ AtMostOne(m["user_id"]) /\ AtMostOne(m["created_at"])
    BY <1>1 DEF AtMostOne
  <1> QED  BY <1>2 DEF Fields

\* What is accepted keeps exactly what meets all that was asked for.
LEMMA FilterMeans ==
    ASSUME NEW cs, Accepts(cs), NEW m \in Memory,
           \A f \in DOMAIN cs :
              /\ "$exists" \in DOMAIN cs[f] => cs[f]["$exists"] \in BOOLEAN
              /\ f = "tags" => AtMostOne(RangeOps \cap DOMAIN cs[f])
    PROVE  Keeps(Compile(cs), m) <=>
               \A f \in DOMAIN cs : \A op \in DOMAIN cs[f] : Meets(m[f], op, cs[f][op])
  <1>1. ASSUME NEW f \in DOMAIN cs
        PROVE  FieldKeeps(f, cs[f], m) <=>
                   \A op \in DOMAIN cs[f] : Meets(m[f], op, cs[f][op])
    <2>1. f \in Fields /\ DOMAIN cs[f] \subseteq SupportedOps
      BY DEF Accepts
    <2>2. AtMostOne(m[f]) \/ AtMostOne(RangeOps \cap DOMAIN cs[f])
      BY <2>1, OneValue
    <2> QED  BY <2>1, <2>2, FieldMeans
  <1> QED  BY <1>1, CompileKeeps

\* What a question is of.
LEMMA QuestionSays ==
    ASSUME NEW q \in Question
    PROVE  /\ q.after # NoWord => q.after \in Nat
           /\ q.before # NoWord => q.before \in Nat
           /\ q.in # NoWord => q.in \in Nat
           /\ q.class # NoWord => q.class \in Classes
  BY YearsAssumption DEF Question

\* The range of created_at.
LEMMA YearsSay ==
    ASSUME NEW q, NEW r, r = YearsOf(q)
    PROVE  /\ DOMAIN r \subseteq {"$gte", "$lt"}
           /\ "$gte" \in DOMAIN r <=> q.after # NoWord \/ q.in # NoWord
           /\ "$lt" \in DOMAIN r <=> q.before # NoWord \/ (q.after = NoWord /\ q.in # NoWord)
           /\ "$gte" \in DOMAIN r =>
                 r["$gte"] = 2 * (IF q.after # NoWord THEN q.after ELSE q.in)
           /\ "$lt" \in DOMAIN r =>
                 r["$lt"] = IF q.before # NoWord THEN 2 * q.before ELSE 2 * (q.in + 1)
  <1> DEFINE ops == (IF q.after # NoWord THEN {"$gte"}
                     ELSE IF q.in # NoWord THEN {"$gte", "$lt"} ELSE {})
                    \cup (IF q.before # NoWord THEN {"$lt"} ELSE {})
  <1>1. r = [op \in ops |-> IF op = "$gte" THEN 2 * (IF q.after # NoWord THEN q.after ELSE q.in)
                            ELSE IF q.before # NoWord THEN 2 * q.before ELSE 2 * (q.in + 1)]
    BY DEF YearsOf
  <1>2. /\ ops \subseteq {"$gte", "$lt"}
        /\ "$gte" \in ops <=> q.after # NoWord \/ q.in # NoWord
        /\ "$lt" \in ops <=> q.before # NoWord \/ (q.after = NoWord /\ q.in # NoWord)
    OBVIOUS
  <1> HIDE DEF ops
  <1>3. DOMAIN r = ops
    BY <1>1
  <1>4. /\ "$gte" \in ops => r["$gte"] = 2 * (IF q.after # NoWord THEN q.after ELSE q.in)
        /\ "$lt" \in ops =>
              r["$lt"] = IF q.before # NoWord THEN 2 * q.before ELSE 2 * (q.in + 1)
    BY <1>1
  <1> QED  BY <1>2, <1>3, <1>4

\* The constraints of a question, field by field.
LEMMA ConstraintsSay ==
    ASSUME NEW q \in Question, NEW cs, cs = ConstraintsOf(q)
    PROVE  /\ DOMAIN cs \subseteq {"created_at", "memory_class", "tags", "user_id"}
           /\ "created_at" \in DOMAIN cs <=> DOMAIN YearsOf(q) # {}
           /\ "memory_class" \in DOMAIN cs <=> q.class # NoWord \/ q.named = "memory_class"
           /\ "tags" \in DOMAIN cs <=> q.tagged # NoWord
           /\ "user_id" \in DOMAIN cs <=> q.named = "user_id"
           /\ "created_at" \in DOMAIN cs => cs["created_at"] = YearsOf(q)
           /\ "memory_class" \in DOMAIN cs =>
                 cs["memory_class"] =
                     [op \in {"$eq"} |-> IF q.class # NoWord THEN q.class ELSE OtherClass]
           /\ "tags" \in DOMAIN cs => cs["tags"] = [op \in {"$in"} |-> {q.tagged}]
           /\ "user_id" \in DOMAIN cs => cs["user_id"] = [op \in {"$eq"} |-> Named]
           /\ \A f \in DOMAIN cs : "$exists" \notin DOMAIN cs[f]
  <1> DEFINE D == FieldsOf(q)
             eq == IF q.class # NoWord THEN q.class ELSE OtherClass
  <1>1. /\ DOMAIN cs = D
        /\ "created_at" \in D => cs["created_at"] = YearsOf(q)
        /\ "memory_class" \in D => cs["memory_class"] = [op \in {"$eq"} |-> eq]
        /\ "tags" \in D => cs["tags"] = [op \in {"$in"} |-> {q.tagged}]
        /\ "user_id" \in D => cs["user_id"] = [op \in {"$eq"} |-> Named]
    BY DEF ConstraintsOf
  <1>2. /\ D \subseteq {"created_at", "memory_class", "tags", "user_id"}
        /\ "created_at" \in D <=> DOMAIN YearsOf(q) # {}
        /\ "memory_class" \in D <=> q.class # NoWord \/ q.named = "memory_class"
        /\ "tags" \in D <=> q.tagged # NoWord
        /\ "user_id" \in D <=> q.named = "user_id"
    BY DEF FieldsOf
  <1>3. DOMAIN YearsOf(q) \subseteq {"$gte", "$lt"}
    BY YearsSay
  <1> HIDE DEF D, eq
  <1>4. ASSUME NEW f \in DOMAIN cs
        PROVE  "$exists" \notin DOMAIN cs[f]
    <2>1. CASE f = "created_at"
      BY <1>1, <1>3, <2>1
    <2>2. CASE f = "tags"
      BY <1>1, <2>2
    <2>3. CASE f \in {"memory_class", "user_id"}
      BY <1>1, <2>3
    <2> QED  BY <1>1, <1>2, <2>1, <2>2, <2>3
  <1> QED  BY <1>1, <1>2, <1>4 DEF eq

\* An instant is within the years of the filter and, when "before" took the
\* place of the end of "in", before that end, exactly when the statement selects
\* it.
LEMMA SameTimes ==
    ASSUME NEW q \in Question, NEW t \in Nat
    PROVE  LET r == YearsOf(q)
               held == \A op \in DOMAIN r : Within(t, op, r[op])
               selected == \A c \in TimesOf(q) : IF c[1] = "<" THEN t < c[2] ELSE t >= c[2]
           IN  selected <=> held /\ (Replaced(q) => t < 2 * (q.in + 1))
  <1> DEFINE r == YearsOf(q)
             held == \A op \in DOMAIN r : Within(t, op, r[op])
             selected == \A c \in TimesOf(q) : IF c[1] = "<" THEN t < c[2] ELSE t >= c[2]
             start == IF q.after # NoWord THEN q.after ELSE q.in
             started == q.after # NoWord \/ q.in # NoWord
             end == IF q.before # NoWord THEN 2 * q.before ELSE 2 * (q.in + 1)
             ended == q.before # NoWord \/ (q.after = NoWord /\ q.in # NoWord)
  <1>1. /\ q.after # NoWord => q.after \in Nat
        /\ q.before # NoWord => q.before \in Nat
        /\ q.in # NoWord => q.in \in Nat
    BY QuestionSays
  <1>2. held <=> (started => t >= 2 * start) /\ (ended => t < end)
    <2>1. /\ DOMAIN r \subseteq {"$gte", "$lt"}
          /\ "$gte" \in DOMAIN r <=> started
          /\ "$lt" \in DOMAIN r <=> ended
          /\ "$gte" \in DOMAIN r => r["$gte"] = 2 * start
          /\ "$lt" \in DOMAIN r => r["$lt"] = end
      BY YearsSay
    <2> HIDE DEF r, start, started, end, ended
    <2>2. \A b : /\ Within(t, "$gte", b) <=> t >= b
                 /\ Within(t, "$lt", b) <=> t < b
      BY DEF Within
    <2>3. held <=> /\ "$gte" \in DOMAIN r => Within(t, "$gte", r["$gte"])
                   /\ "$lt" \in DOMAIN r => Within(t, "$lt", r["$lt"])
      BY <2>1
    <2> QED  BY <2>1, <2>2, <2>3
  <1>3. selected <=>
            /\ started => t >= 2 * start
            /\ q.after = NoWord /\ q.in # NoWord => t < 2 * (q.in + 1)
            /\ q.before # NoWord => t < 2 * q.before
    <2> DEFINE Is(c) == IF c[1] = "<" THEN t < c[2] ELSE t >= c[2]
    <2>1. \A x : (Is(<<">=", x>>) <=> t >= x) /\ (Is(<<"<", x>>) <=> t < x)
      OBVIOUS
    <2>2. selected <=> \A c \in TimesOf(q) : Is(c)
      OBVIOUS
    <2> HIDE DEF Is
    <2>3. CASE q.after # NoWord
      <3>1. (\A c \in TimesOf(q) : Is(c)) <=>
                Is(<<">=", 2 * q.after>>) /\ (q.before # NoWord => Is(<<"<", 2 * q.before>>))
        BY <2>3 DEF TimesOf
      <3> QED  BY <2>1, <2>2, <2>3, <3>1
    <2>4. CASE q.after = NoWord /\ q.in # NoWord
      <3>1. (\A c \in TimesOf(q) : Is(c)) <=>
                /\ Is(<<">=", 2 * q.in>>) /\ Is(<<"<", 2 * (q.in + 1)>>)
                /\ q.before # NoWord => Is(<<"<", 2 * q.before>>)
        BY <2>4 DEF TimesOf
      <3> QED  BY <2>1, <2>2, <2>4, <3>1
    <2>5. CASE q.after = NoWord /\ q.in = NoWord
      <3>1. (\A c \in TimesOf(q) : Is(c)) <=>
                (q.before # NoWord => Is(<<"<", 2 * q.before>>))
        BY <2>5 DEF TimesOf
      <3> QED  BY <2>1, <2>2, <2>5, <3>1
    <2> QED  BY <2>3, <2>4, <2>5
  <1> HIDE DEF held, selected
  <1>4. ASSUME held, Replaced(q) => t < 2 * (q.in + 1)
        PROVE  selected
    <2>1. CASE q.after = NoWord /\ q.in # NoWord /\ q.before # NoWord
      <3>1. CASE q.before > q.in + 1
        BY <1>2, <1>3, <1>4, <2>1, <3>1 DEF Replaced
      <3>2. CASE ~ (q.before > q.in + 1)
        <4>1. q.before \in Nat /\ q.in \in Nat /\ q.before <= q.in + 1
          BY <1>1, <2>1, <3>2
        <4>2. t < 2 * q.before => t < 2 * (q.in + 1)
          BY <4>1
        <4> QED  BY <1>2, <1>3, <1>4, <2>1, <4>2
      <3> QED  BY <3>1, <3>2
    <2>2. CASE ~ (q.after = NoWord /\ q.in # NoWord /\ q.before # NoWord)
      BY <1>2, <1>3, <1>4, <2>2
    <2> QED  BY <2>1, <2>2
  <1>5. ASSUME selected
        PROVE  held /\ (Replaced(q) => t < 2 * (q.in + 1))
    BY <1>2, <1>3, <1>5 DEF Replaced
  <1> QED  BY <1>4, <1>5 DEF held, selected

\* The two stores are asked for the same memories.
LEMMA SameMemories ==
    ASSUME NEW q \in Question, Accepts(ConstraintsOf(q)), NEW m \in Memory
    PROVE  Keeps(Compile(ConstraintsOf(q)), m) /\ InStatement(q, m)
              <=> Selects(Statement(q), m) /\ InFilter(q, m)
  <1> DEFINE cs == ConstraintsOf(q)
             r == YearsOf(q)
             Met(f) == \A op \in DOMAIN cs[f] : Meets(m[f], op, cs[f][op])
  <1>1. /\ DOMAIN cs \subseteq {"created_at", "memory_class", "tags", "user_id"}
        /\ "created_at" \in DOMAIN cs <=> DOMAIN r # {}
        /\ "memory_class" \in DOMAIN cs <=> q.class # NoWord \/ q.named = "memory_class"
        /\ "tags" \in DOMAIN cs <=> q.tagged # NoWord
        /\ "user_id" \in DOMAIN cs <=> q.named = "user_id"
        /\ "created_at" \in DOMAIN cs => cs["created_at"] = r
        /\ "memory_class" \in DOMAIN cs =>
              cs["memory_class"] =
                  [op \in {"$eq"} |-> IF q.class # NoWord THEN q.class ELSE OtherClass]
        /\ "tags" \in DOMAIN cs => cs["tags"] = [op \in {"$in"} |-> {q.tagged}]
        /\ "user_id" \in DOMAIN cs => cs["user_id"] = [op \in {"$eq"} |-> Named]
        /\ \A f \in DOMAIN cs : "$exists" \notin DOMAIN cs[f]
    BY ConstraintsSay
  <1>2. Accepts(cs)
    OBVIOUS
  <1> HIDE DEF cs
  <1>3. Keeps(Compile(cs), m) <=> \A f \in DOMAIN cs : Met(f)
    <2>1. \A f \in DOMAIN cs :
             /\ "$exists" \in DOMAIN cs[f] => cs[f]["$exists"] \in BOOLEAN
             /\ f = "tags" => AtMostOne(RangeOps \cap DOMAIN cs[f])
      BY <1>1 DEF AtMostOne, RangeOps
    <2> QED  BY <1>2, <2>1, FilterMeans
  \* The enum refuses the class that only an explicit mention names.
  <1>4. "memory_class" \in DOMAIN cs => q.class # NoWord
    <2> SUFFICES ASSUME "memory_class" \in DOMAIN cs, q.class = NoWord
                 PROVE  FALSE
      OBVIOUS
    <2>1. "$eq" \in DOMAIN cs["memory_class"] /\ cs["memory_class"]["$eq"] = OtherClass
      BY <1>1
    <2>2. OperandOK("memory_class", "$eq", OtherClass)
      BY <1>2, <2>1 DEF Accepts
    <2> QED  BY <2>2, OtherClassAssumption DEF OperandOK
  <1>5. PICK t \in Nat : m["created_at"] = {t}
    <2>1. \A x \in Instants : x \in Nat
      BY YearsAssumption DEF Instants
    <2>2. m["created_at"] \in {{x} : x \in Instants}
      BY DEF Memory
    <2> QED  BY <2>1, <2>2
  <1> DEFINE held == \A op \in DOMAIN r : Within(t, op, r[op])
             selected == \A c \in TimesOf(q) : IF c[1] = "<" THEN t < c[2] ELSE t >= c[2]
  <1>6. selected <=> held /\ (Replaced(q) => t < 2 * (q.in + 1))
    BY SameTimes
  <1>7. "created_at" \in DOMAIN cs => (Met("created_at") <=> held)
    <2>1. DOMAIN r \subseteq RangeOps
      BY YearsSay DEF RangeOps
    <2>2. \A op \in DOMAIN r : Meets({t}, op, r[op]) <=> Within(t, op, r[op])
      BY <2>1 DEF Meets, RangeOps
    <2> HIDE DEF r
    <2>3. ASSUME "created_at" \in DOMAIN cs
          PROVE  Met("created_at") <=> held
      BY <1>1, <1>5, <2>2, <2>3
    <2> QED  BY <2>3
  <1>8. "created_at" \notin DOMAIN cs => held
    BY <1>1
  <1> HIDE DEF held, selected, r
  <1>9. /\ "memory_class" \in DOMAIN cs => (Met("memory_class") <=> q.class \in m["memory_class"])
        /\ "tags" \in DOMAIN cs => (Met("tags") <=> q.tagged \in m["tags"])
        /\ "user_id" \in DOMAIN cs => (Met("user_id") <=> Named \in m["user_id"])
    <2>1. \A vs, v : Meets(vs, "$eq", v) <=> v \in vs
      BY DEF Meets, RangeOps
    <2>2. \A vs, v : Meets(vs, "$in", {v}) <=> v \in vs
      BY DEF Meets, RangeOps
    <2>3. ASSUME "memory_class" \in DOMAIN cs
          PROVE  Met("memory_class") <=> q.class \in m["memory_class"]
      BY <1>1, <1>4, <2>1, <2>3
    <2>4. ASSUME "tags" \in DOMAIN cs
          PROVE  Met("tags") <=> q.tagged \in m["tags"]
      BY <1>1, <2>2, <2>4
    <2>5. ASSUME "user_id" \in DOMAIN cs
          PROVE  Met("user_id") <=> Named \in m["user_id"]
      BY <1>1, <2>1, <2>5
    <2> QED  BY <2>3, <2>4, <2>5
  <1>10. Keeps(Compile(cs), m) <=>
             /\ held
             /\ q.class # NoWord => q.class \in m["memory_class"]
             /\ InFilter(q, m)
    <2>1. InFilter(q, m) <=> /\ q.tagged # NoWord => q.tagged \in m["tags"]
                             /\ q.named = "user_id" => Named \in m["user_id"]
      BY DEF InFilter
    <2>2. (\A f \in DOMAIN cs : Met(f)) <=>
              /\ "created_at" \in DOMAIN cs => Met("created_at")
              /\ "memory_class" \in DOMAIN cs => Met("memory_class")
              /\ "tags" \in DOMAIN cs => Met("tags")
              /\ "user_id" \in DOMAIN cs => Met("user_id")
      <3> HIDE DEF Met
      <3> QED  BY <1>1
    <2> HIDE DEF Met
    <2> QED  BY <1>1, <1>3, <1>4, <1>7, <1>8, <1>9, <2>1, <2>2
  <1>11. Selects(Statement(q), m) <=>
             /\ q.class # NoWord => q.class \in m["memory_class"]
             /\ selected
             /\ q.about # NoWord => q.about \in m["text_content"]
    <2>1. /\ Statement(q).class = q.class /\ Statement(q).times = TimesOf(q)
          /\ Statement(q).like = q.about
      BY DEF Statement
    <2>2. m.memory_class = m["memory_class"] /\ m.created_at = {t}
      BY <1>5
    <2> QED  BY <2>1, <2>2 DEF Selects, selected
  <1>12. InStatement(q, m) <=>
             /\ q.about # NoWord => q.about \in m["text_content"]
             /\ Replaced(q) => t < 2 * (q.in + 1)
    <2>1. m.created_at = {t}
      BY <1>5
    <2> QED  BY <2>1 DEF InStatement
  <1> QED  BY <1>6, <1>10, <1>11, <1>12 DEF cs

QueryInvariant ==
    /\ QueryTypeOK
    /\ asked # NoWord => select = BuildSql(asked) /\ filter = BuildSelf(asked)
    /\ proposed # NoWord => proposed \in Proposals /\ filter = Compile(proposed)

LEMMA FilterType ==
    ASSUME NEW cs
    PROVE  /\ Compile(cs) \in {Rejected(code) : code \in {"not asked", "filter", "unknown-field"}}
              \/ DOMAIN Compile(cs) = {"must", "must_not"}
           /\ "must" \in DOMAIN Compile(cs) => Accepts(cs)
  <1>1. CASE Accepts(cs)
    BY <1>1 DEF Compile
  <1>2. CASE ~ Accepts(cs)
    <2>1. Compile(cs) = Rejected("filter")
      BY <1>2 DEF Compile
    <2>2. "must" \notin DOMAIN Rejected("filter")
      BY DEF Rejected
    <2> QED  BY <2>1, <2>2
  <1> QED  BY <1>1, <1>2

\* The statement, when there is one, is that of the question.
LEMMA SelectType ==
    ASSUME NEW q \in Question, NEW s, s = BuildSql(q)
    PROVE  \/ s \in {Rejected(code) : code \in
                         {"not asked", "limit-cap", "unknown-column", "no-mappable-intent"}}
           \/ /\ DOMAIN s = DOMAIN [count |-> 0, group |-> 0, class |-> 0, times |-> 0,
                                    like |-> 0, limit |-> 0]
              /\ s.limit \in 1..LimitCap /\ s.group \in Columns \cup {NoWord}
              /\ s = Statement(q)
  <1>1. CASE q.limit \notin 1..LimitCap
    BY <1>1 DEF BuildSql
  <1>2. CASE q.limit \in 1..LimitCap /\ q.group \notin Columns \cup {NoWord}
    BY <1>2 DEF BuildSql
  <1>3. CASE q.limit \in 1..LimitCap /\ q.group \in Columns \cup {NoWord}
    <2>1. Statement(q).limit = q.limit /\ Statement(q).group = q.group
      BY DEF Statement
    <2>2. Validated(Statement(q))
      BY <1>3, <2>1 DEF Validated
    <2>3. s = Rejected("no-mappable-intent") \/ s = Statement(q)
      BY <1>3, <2>2 DEF BuildSql
    <2>4. DOMAIN Statement(q) = DOMAIN [count |-> 0, group |-> 0, class |-> 0, times |-> 0,
                                        like |-> 0, limit |-> 0]
      BY DEF Statement
    <2>5. Statement(q).limit \in 1..LimitCap /\ Statement(q).group \in Columns \cup {NoWord}
      BY <2>2 DEF Validated
    <2> QED  BY <2>3, <2>4, <2>5
  <1> QED  BY <1>1, <1>2, <1>3

LEMMA QueryHolds == QuerySpec => []QueryInvariant
  <1>1. QueryInit => QueryInvariant
    BY DEF QueryInit, QueryInvariant, QueryTypeOK
  <1>2. QueryInvariant /\ [QueryNext]_queryVars => QueryInvariant'
    <2> SUFFICES ASSUME QueryInvariant, [QueryNext]_queryVars
                 PROVE  QueryInvariant'
      OBVIOUS
    <2>1. CASE UNCHANGED queryVars
      BY <2>1 DEF queryVars, QueryInvariant, QueryTypeOK
    <2>2. ASSUME asked = NoWord, proposed = NoWord, NEW q \in Questions, BuildBoth(q)
          PROVE  QueryInvariant'
      <3>1. /\ asked' = q /\ select' = BuildSql(q) /\ filter' = BuildSelf(q)
            /\ proposed' = proposed /\ q \in Question
        BY <2>2, QuestionsAssumption DEF BuildBoth
      <3>2. filter' \in {Rejected(code) : code \in {"not asked", "filter", "unknown-field"}}
            \/ DOMAIN filter' = {"must", "must_not"}
        <4>1. CASE q.named = Undeclared
          BY <3>1, <4>1 DEF BuildSelf
        <4>2. CASE q.named # Undeclared
          BY <3>1, <4>2, FilterType DEF BuildSelf
        <4> QED  BY <4>1, <4>2
      <3>3. \/ select' \in {Rejected(code) : code \in
                         {"not asked", "limit-cap", "unknown-column", "no-mappable-intent"}}
            \/ /\ DOMAIN select' = DOMAIN [count |-> 0, group |-> 0, class |-> 0, times |-> 0,
                                    like |-> 0, limit |-> 0]
               /\ select'.limit \in 1..LimitCap /\ select'.group \in Columns \cup {NoWord}
        BY <3>1, SelectType
      <3> QED  BY <2>2, <3>1, <3>2, <3>3 DEF QueryInvariant, QueryTypeOK
    <2>3. ASSUME asked = NoWord, proposed = NoWord, NEW cs \in Proposals, Propose(cs)
          PROVE  QueryInvariant'
      <3>1. /\ proposed' = cs /\ filter' = Compile(cs) /\ asked' = asked /\ select' = select
        BY <2>3 DEF Propose
      <3>2. filter' \in {Rejected(code) : code \in {"not asked", "filter", "unknown-field"}}
            \/ DOMAIN filter' = {"must", "must_not"}
        BY <3>1, FilterType
      <3> QED  BY <2>3, <3>1, <3>2 DEF QueryInvariant, QueryTypeOK
    <2> QED  BY <2>1, <2>2, <2>3 DEF QueryNext
  <1> QED  BY <1>1, <1>2, PTL DEF QuerySpec

\* Both constructors answer with what they may answer with, and the re-check of
\* a statement lets it through.
THEOREM QueryTypeCorrect == QuerySpec => []QueryTypeOK
  BY QueryHolds, PTL DEF QueryInvariant

\* A question asks both stores for the same memories but for what one of the two
\* languages alone can say, for any years, classes and words.
THEOREM StoresAskedAlike == QuerySpec => []StoresAgree
  <1>1. QueryInvariant => StoresAgree
    <2> SUFFICES ASSUME QueryInvariant, asked # NoWord, "limit" \in DOMAIN select,
                        "must" \in DOMAIN filter, NEW m \in Memory
                 PROVE  Keeps(filter, m) /\ InStatement(asked, m)
                           <=> Selects(select, m) /\ InFilter(asked, m)
      BY DEF StoresAgree
    <2>1. asked \in Question /\ select = BuildSql(asked) /\ filter = BuildSelf(asked)
      BY DEF QueryInvariant, QueryTypeOK
    <2>2. select = Statement(asked)
      <3>1. \A code : "limit" \notin DOMAIN Rejected(code)
        BY DEF Rejected
      <3> QED  BY <2>1, <3>1, SelectType
    <2>3. filter = Compile(ConstraintsOf(asked)) /\ Accepts(ConstraintsOf(asked))
      <3>1. "must" \notin DOMAIN Rejected("unknown-field")
        BY DEF Rejected
      <3>2. filter = Compile(ConstraintsOf(asked))
        BY <2>1, <3>1 DEF BuildSelf
      <3> QED  BY <3>2, FilterType
    <2> QED  BY <2>1, <2>2, <2>3, SameMemories
  <1> QED  BY <1>1, QueryHolds, PTL

\* A filter that is accepted keeps exactly what was asked for, for any
\* proposal.
THEOREM FilterIsMeant == QuerySpec => []FilterMeansProposal
  <1>1. QueryInvariant => FilterMeansProposal
    <2> SUFFICES ASSUME QueryInvariant, proposed # NoWord, "must" \in DOMAIN filter,
                        NEW m \in Memory
                 PROVE  Keeps(filter, m) <=>
                            \A f \in DOMAIN proposed : \A op \in DOMAIN proposed[f] :
                                Meets(m[f], op, proposed[f][op])
      BY DEF FilterMeansProposal
    <2>1. proposed \in Proposals /\ filter = Compile(proposed) /\ Accepts(proposed)
      BY FilterType DEF QueryInvariant
    <2>2. \A f \in DOMAIN proposed :
             /\ "$exists" \in DOMAIN proposed[f] => proposed[f]["$exists"] \in BOOLEAN
             /\ f = "tags" => AtMostOne(RangeOps \cap DOMAIN proposed[f])
      BY <2>1, ProposalsAssumption DEF AtMostOne
    <2> QED  BY <2>1, <2>2, FilterMeans
  <1> QED  BY <1>1, QueryHolds, PTL

(* The retrieval modules side by side *)

\* Side by side with the others, each retriever is what its own part makes of
\* it.
LEMMA Parts == Spec => RouteSpec /\ RouterSpec /\ FilterSpec /\ QuerySpec
  <1>1. Init => RouteInit /\ RouterInit /\ FilterInit /\ QueryInit
    BY DEF Init
  <1>2. [Next]_<<routeVars, routerVars, filterVars, queryVars>>
           => /\ [RouteNext]_routeVars
              /\ [RouterNext]_routerVars
              /\ [FilterNext]_filterVars
              /\ [QueryNext]_queryVars
    BY DEF Next
  <1> QED  BY <1>1, <1>2, PTL DEF Spec, RouteSpec, RouterSpec, FilterSpec, QuerySpec

\* Calls, routes, facts and questions stay what they are written as.
THEOREM TypeCorrect == Spec => []TypeOK
  <1> QED  BY Parts, RouteTypeCorrect, RouterTypeCorrect, FilterTypeCorrect, QueryTypeCorrect,
              PTL
           DEF TypeOK
=============================================================================
