------------------------------ MODULE LaborProofs ------------------------------
(***************************************************************************)
(* Proofs about the labor loop, for any runners, chains and write faults,  *)
(* with pushes that overlap and a ledger that may be cut back at any time: *)
(* what a run returns has its stages on the ledger in order, the receipt   *)
(* of its trust binding goes on to vouch for all of them, and every step   *)
(* of a run leaves it fewer.                                               *)
(* And about witness quorums, for any receipts, witnesses, keys and        *)
(* rosters: what promote lets through was signed by a quorum, whatever     *)
(* signatures a block is made of.                                          *)
(***************************************************************************)
EXTENDS MCLaborLoop, TLAPS, FiniteSetTheorems, SequenceTheorems

-----------------------------------------------------------------------------
(* The labor loop *)

\* A run that goes on has a chain.
Chosen(r) == at[r] \in Active => chain[r] \in Chains

\* The references a runner holds are of the stages of its present run, by the
\* numbers that stand in the entries.
Own(r) ==
    \A i \in DOMAIN refs[r] :
        refs[r][i].hash.stage = StageOf(r, i) /\ refs[r][i].hash.number = refs[r][i].seq

\* No entry is of a run not begun, or of a stage not stamped.
Fresh(r) ==
    \A n \in DOMAIN trail :
        trail[n].stage.by = r =>
            /\ trail[n].stage.attempt <= attempt[r]
            /\ at[r] \in Active /\ trail[n].stage.attempt = attempt[r]
                  => trail[n].stage.stage <= Len(refs[r])

\* Wherever the entries of two references stand, the later one's is further on.
OrderedOn(t, s) ==
    \A i, j \in DOMAIN s : \A m, n \in DOMAIN t :
        i < j /\ t[m] = s[i].hash /\ t[n] = s[j].hash => m < n

\* Unbroken, said of any state of the ledger.
Chained(t, n) ==
    /\ n <= Len(t)
    /\ \A k \in 1..n :
          /\ t[k].number = k
          /\ t[k].after = IF k = 1 THEN Genesis ELSE t[k - 1].stage

\* Where the entry of the last reference stands at all, all stand at their
\* numbers, on one chain.
Vouches(t, s) ==
    LET ref == s[Len(s)]
    IN  \/ \A n \in DOMAIN t : t[n] # ref.hash
        \/ /\ Chained(t, ref.seq)
           /\ \A i \in DOMAIN s :
                 /\ s[i].seq <= ref.seq
                 /\ s[i].seq \in DOMAIN t /\ t[s[i].seq] = s[i].hash

Vouched(r) == at[r] = "returned" => refs[r] # << >> /\ Vouches(trail, refs[r])

RunOK(r) == Chosen(r) /\ Own(r) /\ Fresh(r) /\ OrderedOn(trail, refs[r]) /\ Vouched(r)

LaborInvariant == LaborTypeOK /\ \A r \in Runners : RunOK(r)

LEMMA StagesType ==
    ASSUME NEW ch \in Chains
    PROVE  StageCount(ch) \in Nat /\ StageCount(ch) > 3
  <1>1. Len(ch.evidence) \in Nat
    BY ChainsAssumption DEF Chain
  <1> QED  BY <1>1 DEF StageCount

-----------------------------------------------------------------------------
(* The ledger *)

\* What becomes of the ledger when an entry is, or should be, written: it is
\* extended by the entry, or something is cut off.
LEMMA LedgerStep ==
    ASSUME LedgerOK(Entry), NEW e \in Entry, Lands(e) \/ EmitFails(e)
    PROVE  /\ LedgerOK(Entry)'
           /\ \/ trail' = Append(trail, e)
              \/ Len(trail') <= Len(trail) /\ \A k \in 1..Len(trail') : trail'[k] = trail[k]
  <1>1. trail \in Seq(Entry)
    BY DEF LedgerOK
  <1>2. trail' \in {trail, Append(trail, e), SubSeq(trail, 1, Len(trail) - 1)}
    BY DEF Lands, Emit, EmitFails, Glued
  <1>3. tail' \in {"clean", "torn"} \cup WriteFaults
    BY DEF LedgerOK, Lands, Emit, EmitFails, Glued
  <1>4. CASE trail' = trail
    BY <1>1, <1>3, <1>4 DEF LedgerOK
  <1>5. CASE trail' = Append(trail, e)
    BY <1>1, <1>3, <1>5 DEF LedgerOK
  <1>6. CASE trail' = SubSeq(trail, 1, Len(trail) - 1)
    <2>1. \A i \in 1..(Len(trail) - 1) : trail[i] \in Entry
      BY <1>1
    <2>2. trail' \in Seq(Entry)
      BY <1>1, <1>6, <2>1
    <2>3. CASE Len(trail) = 0
      BY <1>1, <1>3, <1>6, <2>2, <2>3 DEF LedgerOK
    <2>4. CASE Len(trail) # 0
      <3> DEFINE n == Len(trail) - 1
      <3>1. n \in 0..Len(trail) /\ trail' = SubSeq(trail, 1, n)
        BY <1>1, <1>6, <2>4
      <3> HIDE DEF n
      <3>2. Len(trail') = n /\ \A k \in 1..n : trail'[k] = trail[k]
        BY <1>1, <3>1
      <3> QED  BY <1>1, <1>3, <2>2, <3>1, <3>2 DEF LedgerOK
    <2> QED  BY <2>3, <2>4
  <1> QED  BY <1>2, <1>4, <1>5, <1>6

\* A ledger put back to its first entries.
LEMMA RestoreLedger ==
    ASSUME LedgerOK(Entry), NEW n \in 0..Len(trail), Restore(n)
    PROVE  /\ LedgerOK(Entry)'
           /\ Len(trail') <= Len(trail) /\ \A k \in 1..Len(trail') : trail'[k] = trail[k]
  <1>1. trail \in Seq(Entry) /\ trail' = SubSeq(trail, 1, n) /\ tail' = "clean"
    BY DEF LedgerOK, Restore
  <1>2. \A k \in 1..n : trail[k] \in Entry
    BY <1>1
  <1>3. trail' \in Seq(Entry) /\ Len(trail') = n /\ \A k \in 1..n : trail'[k] = trail[k]
    BY <1>1, <1>2
  <1> QED  BY <1>1, <1>3 DEF LedgerOK

\* What is cut off disturbs no order, and leaves a reference that vouches
\* vouching: either its own entry is gone, or everything up to it is there.
LEMMA CutKeeps ==
    ASSUME NEW t \in Seq(Entry), NEW u \in Seq(Entry), NEW s \in Seq(Ref),
           Len(u) <= Len(t), \A k \in 1..Len(u) : u[k] = t[k]
    PROVE  /\ OrderedOn(t, s) => OrderedOn(u, s)
           /\ s # << >> /\ s[Len(s)].hash.number = s[Len(s)].seq /\ Vouches(t, s)
                 => Vouches(u, s)
  <1>1. \A k \in DOMAIN u : k \in DOMAIN t /\ u[k] = t[k]
    OBVIOUS
  <1>2. OrderedOn(t, s) => OrderedOn(u, s)
    BY <1>1 DEF OrderedOn
  <1>3. ASSUME s # << >>, s[Len(s)].hash.number = s[Len(s)].seq, Vouches(t, s)
        PROVE  Vouches(u, s)
    <2> DEFINE ref == s[Len(s)]
    <2>1. Len(s) \in DOMAIN s /\ ref \in Ref
      BY <1>3
    <2>2. ref.seq \in Nat /\ ref.hash.number = ref.seq
      BY <1>3, <2>1 DEF Ref
    <2> HIDE DEF ref
    <2>3. CASE \A n \in DOMAIN t : t[n] # ref.hash
      BY <1>1, <2>3 DEF Vouches, ref
    <2>4. CASE /\ Chained(t, ref.seq)
               /\ \A i \in DOMAIN s :
                     /\ s[i].seq <= ref.seq
                     /\ s[i].seq \in DOMAIN t /\ t[s[i].seq] = s[i].hash
      <3>1. CASE ref.seq <= Len(u)
        <4>1. Chained(u, ref.seq)
          <5>1. \A k \in 1..ref.seq : k \in 1..Len(u) /\ (k # 1 => k - 1 \in 1..Len(u))
            BY <2>2, <3>1
          <5>2. \A k \in 1..ref.seq : u[k] = t[k] /\ (k # 1 => u[k - 1] = t[k - 1])
            BY <5>1
          <5> QED  BY <2>4, <3>1, <5>2 DEF Chained
        <4>2. ASSUME NEW i \in DOMAIN s
              PROVE  /\ s[i].seq <= ref.seq
                     /\ s[i].seq \in DOMAIN u /\ u[s[i].seq] = s[i].hash
          <5>1. s[i].seq \in Nat /\ s[i].seq <= ref.seq /\ s[i].seq \in DOMAIN t
            BY <2>4, <4>2 DEF Ref
          <5>2. s[i].seq \in 1..Len(u)
            BY <2>2, <3>1, <5>1
          <5> QED  BY <1>1, <2>4, <5>1, <5>2
        <4> QED  BY <4>1, <4>2 DEF Vouches, ref
      <3>2. CASE ~ (ref.seq <= Len(u))
        <4>1. ASSUME NEW n \in DOMAIN u, u[n] = ref.hash
              PROVE  FALSE
          <5>1. n \in 1..ref.seq /\ n # ref.seq
            BY <2>2, <3>2
          <5>2. t[n].number = n
            BY <2>4, <5>1 DEF Chained
          <5> QED  BY <1>1, <2>2, <4>1, <5>1, <5>2
        <4> QED  BY <4>1 DEF Vouches, ref
      <3> QED  BY <3>1, <3>2
    <2> QED  BY <1>3, <2>3, <2>4 DEF Vouches, ref
  <1> QED  BY <1>2, <1>3

\* Nor does an entry that none of the references is of.
LEMMA AppendKeeps ==
    ASSUME NEW t \in Seq(Entry), NEW e \in Entry, NEW s \in Seq(Ref),
           \A i \in DOMAIN s : s[i].hash # e
    PROVE  /\ OrderedOn(t, s) => OrderedOn(Append(t, e), s)
           /\ s # << >> /\ Vouches(t, s) => Vouches(Append(t, e), s)
  <1> DEFINE u == Append(t, e)
  <1>1. /\ u \in Seq(Entry) /\ Len(u) = Len(t) + 1 /\ u[Len(u)] = e
        /\ \A k \in DOMAIN t : k \in DOMAIN u /\ u[k] = t[k]
        /\ \A k \in DOMAIN u : k \in DOMAIN t \/ k = Len(u)
    OBVIOUS
  <1> HIDE DEF u
  <1>2. \A i \in DOMAIN s : \A n \in DOMAIN u : u[n] = s[i].hash => n \in DOMAIN t /\ t[n] = s[i].hash
    BY <1>1
  <1>3. OrderedOn(t, s) => OrderedOn(u, s)
    BY <1>2 DEF OrderedOn
  <1>4. ASSUME s # << >>, Vouches(t, s)
        PROVE  Vouches(u, s)
    <2> DEFINE ref == s[Len(s)]
    <2>1. Len(s) \in DOMAIN s /\ ref \in Ref
      BY <1>4
    <2>2. ref.seq \in Nat
      BY <2>1 DEF Ref
    <2> HIDE DEF ref
    <2>3. CASE \A n \in DOMAIN t : t[n] # ref.hash
      BY <1>2, <2>1, <2>3 DEF Vouches, ref
    <2>4. CASE /\ Chained(t, ref.seq)
               /\ \A i \in DOMAIN s :
                     /\ s[i].seq <= ref.seq
                     /\ s[i].seq \in DOMAIN t /\ t[s[i].seq] = s[i].hash
      <3>1. Chained(u, ref.seq)
        <4>1. ref.seq <= Len(u) /\ \A k \in 1..ref.seq : k \in 1..Len(t)
          BY <1>1, <2>2, <2>4 DEF Chained
        <4>2. \A k \in 1..ref.seq : u[k] = t[k] /\ (k # 1 => u[k - 1] = t[k - 1])
          BY <1>1, <2>2, <4>1
        <4> QED  BY <2>4, <4>1, <4>2 DEF Chained
      <3> QED  BY <1>1, <2>4, <3>1 DEF Vouches, ref
    <2> QED  BY <1>4, <2>3, <2>4 DEF Vouches, ref
  <1> QED  BY <1>3, <1>4 DEF u

-----------------------------------------------------------------------------
(* The steps *)

LEMMA EntryTypes ==
    /\ \A t \in Seq(Entry) : \A n \in DOMAIN t : t[n].stage \in Stage
    /\ \A s \in Seq(Ref) : \A i \in DOMAIN s : s[i].seq \in Nat
  <1>1. \A t \in Seq(Entry) : \A n \in DOMAIN t : t[n] \in Entry
    OBVIOUS
  <1>2. \A s \in Seq(Ref) : \A i \in DOMAIN s : s[i] \in Ref
    OBVIOUS
  <1> QED  BY <1>1, <1>2 DEF Entry, Ref

\* The entry of the next stage is of the right type, is none of those that runs
\* have references to, and does not stand on the ledger.
LEMMA NextStage ==
    ASSUME LaborInvariant, NEW r \in Runners, at[r] = "writing"
    PROVE  /\ StageEntry(r) \in Entry
           /\ StageEntry(r).stage = StageOf(r, Len(refs[r]) + 1)
           /\ \A i \in DOMAIN refs[r] : refs[r][i].hash # StageEntry(r)
           /\ \A n \in DOMAIN trail : trail[n] # StageEntry(r)
  <1>1. /\ refs[r] \in Seq(Ref) /\ attempt[r] \in Nat /\ prev[r] \in Prev
        /\ Own(r) /\ Fresh(r) /\ at[r] \in Active
    BY DEF LaborInvariant, LaborTypeOK, RunOK, Active
  <1>2. StageEntry(r).stage = StageOf(r, Len(refs[r]) + 1)
    BY DEF StageEntry
  <1>3. StageEntry(r) \in Entry
    BY <1>1 DEF StageEntry, StageOf, Entry, Stage, Prev
  <1>4. ASSUME NEW i \in DOMAIN refs[r], refs[r][i].hash = StageEntry(r)
        PROVE  FALSE
    <2>1. StageOf(r, i).stage = StageOf(r, Len(refs[r]) + 1).stage
      BY <1>1, <1>2, <1>4 DEF Own
    <2> QED  BY <1>1, <2>1 DEF StageOf
  <1>5. ASSUME NEW n \in DOMAIN trail, trail[n] = StageEntry(r)
        PROVE  FALSE
    <2>1. /\ trail[n].stage.by = r /\ trail[n].stage.attempt = attempt[r]
          /\ trail[n].stage.stage = Len(refs[r]) + 1
      BY <1>2, <1>5 DEF StageOf
    <2> QED  BY <1>1, <2>1 DEF Fresh
  <1>6. \A i \in DOMAIN refs[r] : refs[r][i].hash # StageEntry(r)
    BY <1>4
  <1>7. \A n \in DOMAIN trail : trail[n] # StageEntry(r)
    BY <1>5
  <1> QED  BY <1>2, <1>3, <1>6, <1>7

\* How the ledger changes: something is cut off, or an entry is added.
CutOff == Len(trail') <= Len(trail) /\ \A k \in 1..Len(trail') : trail'[k] = trail[k]

\* A run that a step leaves alone stays as it was, whatever is cut off the
\* ledger or written by another.
LEMMA OtherRun ==
    ASSUME LaborInvariant, LaborTypeOK', NEW q \in Runners,
           chain'[q] = chain[q], attempt'[q] = attempt[q],
           refs'[q] = refs[q], at'[q] = at[q],
           CutOff \/ \E e \in Entry : e.stage.by # q /\ trail' = Append(trail, e)
    PROVE  RunOK(q)'
  <1>1. /\ trail \in Seq(Entry) /\ trail' \in Seq(Entry) /\ refs[q] \in Seq(Ref)
        /\ Chosen(q) /\ Own(q) /\ Fresh(q) /\ OrderedOn(trail, refs[q]) /\ Vouched(q)
    BY DEF LaborInvariant, LaborTypeOK, LedgerOK, RunOK
  <1>2. Chosen(q)' /\ Own(q)'
    BY <1>1 DEF Chosen, Own, StageOf
  <1>3. at[q] = "returned" =>
            /\ refs[q] # << >> /\ Vouches(trail, refs[q])
            /\ refs[q][Len(refs[q])].hash.number = refs[q][Len(refs[q])].seq
    <2>1. refs[q] # << >> => Len(refs[q]) \in DOMAIN refs[q]
      BY <1>1
    <2> QED  BY <1>1, <2>1 DEF Vouched, Own
  <1>4. CASE CutOff
    <2>1. OrderedOn(trail', refs[q]) /\ (at[q] = "returned" => Vouches(trail', refs[q]))
      BY <1>1, <1>3, <1>4, CutKeeps DEF CutOff
    <2>2. Fresh(q)'
      BY <1>1, <1>4 DEF Fresh, CutOff
    <2> QED  BY <1>2, <1>3, <2>1, <2>2 DEF RunOK, Vouched, OrderedOn, Vouches, Chained
  <1>5. CASE \E e \in Entry : e.stage.by # q /\ trail' = Append(trail, e)
    <2>1. PICK e \in Entry : e.stage.by # q /\ trail' = Append(trail, e)
      BY <1>5
    <2>2. \A i \in DOMAIN refs[q] : refs[q][i].hash # e
      <3>1. ASSUME NEW i \in DOMAIN refs[q]
            PROVE  refs[q][i].hash.stage.by = q
        <4>1. refs[q][i].hash.stage = StageOf(q, i)
          BY <1>1, <3>1 DEF Own
        <4>2. StageOf(q, i).by = q
          BY DEF StageOf
        <4> QED  BY <4>1, <4>2
      <3> QED  BY <2>1, <3>1
    <2>3. OrderedOn(trail', refs[q]) /\ (at[q] = "returned" => Vouches(trail', refs[q]))
      BY <1>1, <1>3, <2>1, <2>2, AppendKeeps
    <2>4. Fresh(q)'
      <3>1. \A n \in DOMAIN trail' : trail'[n] = e \/ (n \in DOMAIN trail /\ trail'[n] = trail[n])
        BY <1>1, <2>1
      <3> QED  BY <1>1, <2>1, <3>1 DEF Fresh
    <2> QED  BY <1>2, <1>3, <2>3, <2>4 DEF RunOK, Vouched, OrderedOn, Vouches, Chained
  <1> QED  BY <1>4, <1>5

\* Every step of a run changes that run alone, and adds to the ledger at most
\* an entry of its own.
LEMMA RunStep ==
    ASSUME LaborInvariant, LaborTypeOK', NEW r \in Runners, RunOK(r)',
           \A q \in Runners \ {r} : /\ chain'[q] = chain[q] /\ attempt'[q] = attempt[q]
                                     /\ refs'[q] = refs[q] /\ at'[q] = at[q],
           CutOff \/ \E e \in Entry : e.stage.by = r /\ trail' = Append(trail, e)
    PROVE  LaborInvariant'
  <1>1. \A q \in Runners : RunOK(q)'
    <2> SUFFICES ASSUME NEW q \in Runners \ {r}
                 PROVE  RunOK(q)'
      OBVIOUS
    <2> QED  BY OtherRun
  <1> QED  BY <1>1 DEF LaborInvariant

\* What ends leaves nothing to be kept, only its entries.
LEMMA EndsStep ==
    ASSUME LaborInvariant, NEW r \in Runners, Ends(r), UNCHANGED attempt, LedgerOK(Entry)',
           \/ CutOff
           \/ \E e \in Entry : /\ e.stage.by = r /\ e.stage.attempt = attempt[r]
                               /\ trail' = Append(trail, e)
    PROVE  LaborInvariant'
  <1>1. /\ chain \in [Runners -> Chains \cup {NoChain}] /\ attempt \in [Runners -> Nat]
        /\ refs \in [Runners -> Seq(Ref)] /\ prev \in [Runners -> Prev]
        /\ at \in [Runners -> Active \cup {"idle", "returned", "over"}]
        /\ trail \in Seq(Entry) /\ Fresh(r)
    BY DEF LaborInvariant, LaborTypeOK, LedgerOK, RunOK
  <1>2. /\ at' = [at EXCEPT ![r] = "over"] /\ chain' = [chain EXCEPT ![r] = NoChain]
        /\ refs' = [refs EXCEPT ![r] = << >>] /\ prev' = [prev EXCEPT ![r] = Start]
        /\ attempt' = attempt
    BY DEF Ends
  <1>3. LaborTypeOK'
    <2>1. << >> \in Seq(Ref) /\ Start \in Prev
      BY DEF Start, Prev
    <2> QED  BY <1>1, <1>2, <2>1 DEF LaborTypeOK
  <1>4. at'[r] = "over" /\ refs'[r] = << >>
    BY <1>1, <1>2
  <1>5. Fresh(r)'
    <2>1. at'[r] \notin Active
      BY <1>4 DEF Active
    <2>2. CASE CutOff
      <3>0. trail' \in Seq(Entry)
        BY DEF LedgerOK
      <3>1. \A n \in DOMAIN trail' : n \in DOMAIN trail /\ trail'[n] = trail[n]
        <4>1. Len(trail') \in Nat /\ Len(trail) \in Nat
          BY <1>1, <3>0
        <4>2. DOMAIN trail = 1..Len(trail) /\ DOMAIN trail' = 1..Len(trail')
          BY <1>1, <3>0
        <4>3. Len(trail') <= Len(trail) /\ \A k \in 1..Len(trail') : trail'[k] = trail[k]
          BY <2>2 DEF CutOff
        <4>4. ASSUME NEW n \in 1..Len(trail')
              PROVE  n \in 1..Len(trail) /\ trail'[n] = trail[n]
          BY <4>1, <4>3
        <4> QED  BY <4>2, <4>4
      <3>2. \A n \in DOMAIN trail' : trail'[n].stage.by = r => trail'[n].stage.attempt <= attempt[r]
        BY <1>1, <3>1 DEF Fresh
      <3> QED  BY <1>2, <2>1, <3>2 DEF Fresh
    <2>3. CASE \E e \in Entry : /\ e.stage.by = r /\ e.stage.attempt = attempt[r]
                               /\ trail' = Append(trail, e)
      <3>1. PICK e \in Entry : e.stage.attempt = attempt[r] /\ trail' = Append(trail, e)
        BY <2>3
      <3>2. \A n \in DOMAIN trail' : trail'[n] = e \/ (n \in DOMAIN trail /\ trail'[n] = trail[n])
        BY <1>1, <3>1
      <3>3. attempt[r] <= attempt[r]
        BY <1>1
      <3>4. \A n \in DOMAIN trail' : trail'[n].stage.by = r => trail'[n].stage.attempt <= attempt[r]
        BY <1>1, <3>1, <3>2, <3>3 DEF Fresh
      <3> QED  BY <1>2, <2>1, <3>4 DEF Fresh
    <2> QED  BY <2>2, <2>3
  <1>6. RunOK(r)'
    BY <1>4, <1>5 DEF RunOK, Chosen, Own, OrderedOn, Vouched, Active
  <1> QED  BY <1>1, <1>2, <1>3, <1>6, RunStep

\* An entry that is, or should be, written adds that entry or cuts off.
LEMMA WriteStep ==
    ASSUME LaborInvariant, NEW r \in Runners, at[r] = "writing",
           Lands(StageEntry(r)) \/ EmitFails(StageEntry(r))
    PROVE  /\ LedgerOK(Entry)'
           /\ \/ CutOff
              \/ \E e \in Entry : /\ e.stage.by = r /\ e.stage.attempt = attempt[r]
                                  /\ trail' = Append(trail, e)
  <1>1. LedgerOK(Entry)
    BY DEF LaborInvariant, LaborTypeOK
  <1>2. /\ StageEntry(r) \in Entry
        /\ StageEntry(r).stage.by = r /\ StageEntry(r).stage.attempt = attempt[r]
    <2>1. StageEntry(r) \in Entry /\ StageEntry(r).stage = StageOf(r, Len(refs[r]) + 1)
      BY NextStage
    <2> HIDE DEF StageEntry
    <2> QED  BY <2>1 DEF StageOf
  <1>3. LedgerOK(Entry)' /\ (trail' = Append(trail, StageEntry(r)) \/ CutOff)
    BY <1>1, <1>2, LedgerStep DEF CutOff
  <1> QED  BY <1>2, <1>3

\* The new reference is of an entry that stands last, or nowhere.
LEMMA OrderExtended ==
    ASSUME NEW t \in Seq(Entry), NEW s \in Seq(Ref), NEW ref \in Ref,
           OrderedOn(t, s),
           \A i \in DOMAIN s : s[i].hash # ref.hash,
           \A n \in DOMAIN t : t[n] # ref.hash \/ n = Len(t)
    PROVE  OrderedOn(t, Append(s, ref))
  <1> DEFINE u == Append(s, ref)
  <1>1. /\ \A i \in DOMAIN u : (i \in DOMAIN s /\ u[i] = s[i]) \/ (i = Len(s) + 1 /\ u[i] = ref)
        /\ \A i \in DOMAIN s : i < Len(s) + 1
    OBVIOUS
  <1> HIDE DEF u
  <1>2. ASSUME NEW i \in DOMAIN u, NEW j \in DOMAIN u, NEW m \in DOMAIN t, NEW n \in DOMAIN t,
               i < j, t[m] = u[i].hash, t[n] = u[j].hash
        PROVE  m < n
    <2>1. i \in DOMAIN s /\ u[i] = s[i]
      <3>1. CASE i = Len(s) + 1
        <4>1. j \in Nat /\ j <= Len(s) + 1 /\ i \in Nat
          BY <1>1, <3>1
        <4> QED  BY <1>2, <3>1, <4>1
      <3> QED  BY <1>1, <3>1
    <2>2. CASE j \in DOMAIN s /\ u[j] = s[j]
      BY <1>2, <2>1, <2>2 DEF OrderedOn
    <2>3. CASE u[j] = ref
      <3>1. n = Len(t) /\ m # n
        BY <1>2, <2>1, <2>3
      <3>2. m \in 1..Len(t)
        OBVIOUS
      <3> QED  BY <3>1, <3>2
    <2> QED  BY <1>1, <2>2, <2>3
  <1> QED  BY <1>2 DEF OrderedOn, u

LEMMA StampedStep ==
    ASSUME LaborInvariant, NEW r \in Runners, at[r] = "writing", Stamped(r), UNCHANGED attempt
    PROVE  LaborInvariant'
  <1> DEFINE e == StageEntry(r)
             new == [seq |-> e.number, hash |-> e]
  <1>1. /\ chain \in [Runners -> Chains \cup {NoChain}] /\ attempt \in [Runners -> Nat]
        /\ refs \in [Runners -> Seq(Ref)] /\ prev \in [Runners -> Prev]
        /\ at \in [Runners -> Active \cup {"idle", "returned", "over"}]
        /\ trail \in Seq(Entry)
        /\ Chosen(r) /\ Own(r) /\ Fresh(r) /\ OrderedOn(trail, refs[r])
    BY DEF LaborInvariant, LaborTypeOK, LedgerOK, RunOK
  <1>2. /\ e \in Entry /\ e.stage = StageOf(r, Len(refs[r]) + 1)
        /\ \A i \in DOMAIN refs[r] : refs[r][i].hash # e
        /\ \A n \in DOMAIN trail : trail[n] # e
    BY NextStage
  <1>3. /\ LedgerOK(Entry)' /\ trail' \in Seq(Entry)
        /\ CutOff \/ trail' = Append(trail, e)
    <2>1. Lands(e)
      BY DEF Stamped
    <2> QED  BY <1>2, <2>1, LedgerStep DEF CutOff, LedgerOK, LaborInvariant, LaborTypeOK
  <1>4. /\ refs' = [refs EXCEPT ![r] = Append(@, new)] /\ chain' = chain /\ attempt' = attempt
        /\ prev' = [prev EXCEPT ![r] = Start]
        /\ at' \in [Runners -> Active \cup {"idle", "returned", "over"}]
        /\ at'[r] \in Active /\ at'[r] # "returned" /\ \A q \in Runners \ {r} : at'[q] = at[q]
    BY <1>1 DEF Stamped, Active
  <1>5. new \in Ref
    BY <1>2 DEF Ref, Entry
  <1>6. new.hash = e /\ e.stage.by = r /\ e.stage.attempt = attempt[r]
                    /\ e.stage.stage = Len(refs[r]) + 1 /\ new.hash.number = new.seq
    BY <1>2 DEF StageOf
  <1> HIDE DEF e, new
  <1>7. /\ refs' \in [Runners -> Seq(Ref)] /\ refs'[r] = Append(refs[r], new)
        /\ \A q \in Runners \ {r} : refs'[q] = refs[q]
    <2>1. Append(refs[r], new) \in Seq(Ref)
      BY <1>1, <1>5
    <2> QED  BY <1>1, <1>4, <2>1
  <1>8. LaborTypeOK'
    BY <1>1, <1>3, <1>4, <1>7 DEF LaborTypeOK, Start, Prev
  <1>9. /\ Len(refs'[r]) = Len(refs[r]) + 1 /\ Len(refs[r]) \in Nat
        /\ \A i \in DOMAIN refs'[r] : \/ i \in DOMAIN refs[r] /\ refs'[r][i] = refs[r][i]
                                      \/ i = Len(refs[r]) + 1 /\ refs'[r][i] = new
    BY <1>1, <1>7
  <1>10. Own(r)'
    <2>1. e.stage = StageOf(r, Len(refs[r]) + 1)
      BY <1>2
    <2> QED  BY <1>1, <1>4, <1>6, <1>9, <2>1 DEF Own, StageOf
  <1>11. \A n \in DOMAIN trail' :
            \/ n \in DOMAIN trail /\ trail'[n] = trail[n]
            \/ n = Len(trail') /\ trail'[n] = e
    <2>1. CASE CutOff
      <3> SUFFICES ASSUME NEW n \in DOMAIN trail'
                   PROVE  n \in DOMAIN trail /\ trail'[n] = trail[n]
        OBVIOUS
      <3>1. n \in 1..Len(trail') /\ Len(trail') \in Nat /\ Len(trail) \in Nat
        BY <1>1, <1>3
      <3>2. n \in 1..Len(trail) /\ trail'[n] = trail[n]
        BY <2>1, <3>1 DEF CutOff
      <3> QED  BY <1>1, <3>2
    <2>2. CASE trail' = Append(trail, e)
      <3>1. e \in Entry /\ trail \in Seq(Entry)
        BY <1>1, <1>2
      <3>2. \A n \in DOMAIN Append(trail, e) :
               \/ n \in DOMAIN trail /\ Append(trail, e)[n] = trail[n]
               \/ n = Len(Append(trail, e)) /\ Append(trail, e)[n] = e
        BY <3>1
      <3> QED  BY <2>2, <3>2
    <2> QED  BY <1>3, <2>1, <2>2
  <1>12. Fresh(r)'
    <2> SUFFICES ASSUME NEW n \in DOMAIN trail', trail'[n].stage.by = r
                 PROVE  /\ trail'[n].stage.attempt <= attempt[r]
                        /\ trail'[n].stage.attempt = attempt[r]
                              => trail'[n].stage.stage <= Len(refs'[r])
      BY <1>4 DEF Fresh
    <2>1. CASE n \in DOMAIN trail /\ trail'[n] = trail[n]
      <3>1. trail[n].stage.stage \in Nat /\ at[r] \in Active
        <4>1. trail[n].stage \in Stage
          BY <1>1, <2>1, EntryTypes
        <4> QED  BY <4>1 DEF Stage, Active
      <3> QED  BY <1>1, <1>9, <2>1, <3>1 DEF Fresh
    <2>2. CASE trail'[n] = e
      BY <1>1, <1>6, <1>9, <2>2
    <2> QED  BY <1>11, <2>1, <2>2
  <1>13. OrderedOn(trail', refs[r])
    BY <1>1, <1>2, <1>3, CutKeeps, AppendKeeps DEF CutOff
  <1>14. OrderedOn(trail', refs'[r])
    <2>1. \A n \in DOMAIN trail' : trail'[n] # new.hash \/ n = Len(trail')
      BY <1>2, <1>6, <1>11
    <2>2. \A i \in DOMAIN refs[r] : refs[r][i].hash # new.hash
      BY <1>2, <1>6
    <2>3. OrderedOn(trail', Append(refs[r], new))
      BY <1>1, <1>3, <1>5, <1>13, <2>1, <2>2, OrderExtended
    <2> QED  BY <1>7, <2>3
  <1>15. RunOK(r)'
    <2>1. Chosen(r)'
      BY <1>1, <1>4 DEF Chosen, Active
    <2> QED  BY <1>4, <1>10, <1>12, <1>14, <2>1 DEF RunOK, Vouched, OrderedOn
  <1> QED  BY <1>2, <1>3, <1>4, <1>6, <1>7, <1>8, <1>15, RunStep

LEMMA StampStep ==
    ASSUME LaborInvariant, NEW r \in Runners, Stamp(r)
    PROVE  LaborInvariant'
  <1>1. CASE Stamped(r)
    BY <1>1, StampedStep DEF Stamp
  <1>2. CASE EmitFails(StageEntry(r)) /\ Ends(r)
    BY <1>2, WriteStep, EndsStep DEF Stamp
  <1> QED  BY <1>1, <1>2 DEF Stamp

\* A run begun anew holds no references, and nothing on the ledger is of it.
LEMMA BeginStep ==
    ASSUME LaborInvariant, NEW r \in Runners, NEW ch \in Chains, Begin(r, ch)
    PROVE  LaborInvariant'
  <1>1. /\ chain \in [Runners -> Chains \cup {NoChain}] /\ attempt \in [Runners -> Nat]
        /\ refs \in [Runners -> Seq(Ref)] /\ prev \in [Runners -> Prev]
        /\ at \in [Runners -> Active \cup {"idle", "returned", "over"}]
        /\ LedgerOK(Entry) /\ trail \in Seq(Entry) /\ Fresh(r)
    BY DEF LaborInvariant, LaborTypeOK, LedgerOK, RunOK
  <1>2. /\ chain' = [chain EXCEPT ![r] = ch] /\ attempt' = [attempt EXCEPT ![r] = @ + 1]
        /\ refs' = [refs EXCEPT ![r] = << >>] /\ at' = [at EXCEPT ![r] = "stamping"]
        /\ prev' = prev /\ trail' = trail /\ tail' = tail
    BY DEF Begin
  <1>3. LaborTypeOK'
    BY <1>1, <1>2 DEF LaborTypeOK, LedgerOK, Active
  <1>4. /\ chain'[r] = ch /\ attempt'[r] = attempt[r] + 1 /\ refs'[r] = << >>
        /\ at'[r] = "stamping"
    BY <1>1, <1>2
  <1>5. Fresh(r)'
    <2>1. \A n \in DOMAIN trail : trail[n].stage.attempt \in Nat
      <3>1. \A n \in DOMAIN trail : trail[n].stage \in Stage
        BY <1>1, EntryTypes
      <3> QED  BY <3>1 DEF Stage
    <2> QED  BY <1>1, <1>2, <1>4, <2>1 DEF Fresh
  <1>6. RunOK(r)'
    BY <1>4, <1>5 DEF RunOK, Chosen, Own, OrderedOn, Vouched
  <1>7. CutOff
    BY <1>1, <1>2 DEF CutOff
  <1> QED  BY <1>1, <1>2, <1>3, <1>6, <1>7, RunStep

LEMMA LookStep ==
    ASSUME LaborInvariant, NEW r \in Runners, Look(r)
    PROVE  LaborInvariant'
  <1>1. /\ at \in [Runners -> Active \cup {"idle", "returned", "over"}]
        /\ prev \in [Runners -> Prev] /\ LedgerOK(Entry) /\ trail \in Seq(Entry)
        /\ at[r] = "stamping" /\ attempt' = attempt /\ trail' = trail /\ tail' = tail
    BY DEF LaborInvariant, LaborTypeOK, LedgerOK, Look
  <1>2. CutOff /\ LedgerOK(Entry)'
    BY <1>1 DEF CutOff, LedgerOK
  <1>3. CASE Ends(r)
    BY <1>1, <1>2, <1>3, EndsStep
  <1>4. CASE /\ prev' = [prev EXCEPT ![r] = LastEntry] /\ at' = [at EXCEPT ![r] = "writing"]
             /\ chain' = chain /\ refs' = refs
    <2>1. LastEntry \in Prev
      <3>1. trail # << >> => Last(trail) \in Entry
        BY <1>1 DEF Last
      <3> QED  BY <3>1 DEF LastEntry, Start, Prev, Entry
    <2>2. LaborTypeOK'
      BY <1>1, <1>2, <1>4, <2>1 DEF LaborInvariant, LaborTypeOK, Active
    <2>3. RunOK(r)'
      <3>1. at[r] \in Active /\ at'[r] = "writing" /\ at'[r] \in Active
        BY <1>1, <1>4 DEF Active
      <3> QED  BY <1>1, <1>4, <3>1
               DEF LaborInvariant, RunOK, Chosen, Own, Fresh, OrderedOn, Vouched, StageOf
    <2> QED  BY <1>1, <1>2, <1>4, <2>2, <2>3, RunStep
  <1> QED  BY <1>3, <1>4 DEF Look

\* A chain is returned on a ledger that is one chain, with the entry of every
\* reference at its number.
LEMMA ReturnVouched ==
    ASSUME LaborInvariant, NEW r \in Runners, at[r] = "verifying", Receipted(r)
    PROVE  refs[r] # << >> /\ Vouches(trail, refs[r])
  <1>1. /\ refs[r] \in Seq(Ref) /\ trail \in Seq(Entry) /\ Own(r) /\ OrderedOn(trail, refs[r])
        /\ chain[r] \in Chains
    BY DEF LaborInvariant, LaborTypeOK, LedgerOK, RunOK, Chosen, Active
  <1>2. refs[r] # << >> /\ Len(refs[r]) \in DOMAIN refs[r]
    BY <1>1, StagesType DEF Receipted
  <1>3. ASSUME NEW i \in DOMAIN refs[r]
        PROVE  refs[r][i].seq \in DOMAIN trail /\ trail[refs[r][i].seq] = refs[r][i].hash
    <2>1. PICK n \in DOMAIN trail : trail[n] = refs[r][i].hash
      BY <1>3 DEF Receipted, Resolves
    <2>2. trail[n].number = n
      BY <1>1, <2>1 DEF Receipted, Unbroken
    <2> QED  BY <1>1, <1>3, <2>1, <2>2 DEF Own
  <1>4. ASSUME NEW i \in DOMAIN refs[r]
        PROVE  refs[r][i].seq <= refs[r][Len(refs[r])].seq
    <2>1. CASE i = Len(refs[r])
      BY <1>1, <1>3, <2>1
    <2>2. CASE i < Len(refs[r])
      <3>1. refs[r][i].seq < refs[r][Len(refs[r])].seq
        BY <1>1, <1>2, <1>3, <2>2 DEF OrderedOn
      <3>2. refs[r][i].seq \in Nat /\ refs[r][Len(refs[r])].seq \in Nat
        BY <1>1, <1>2, EntryTypes
      <3> QED  BY <3>1, <3>2
    <2> QED  BY <1>1, <2>1, <2>2
  <1>5. Chained(trail, refs[r][Len(refs[r])].seq)
    <2> DEFINE n == refs[r][Len(refs[r])].seq
    <2>1. n \in 1..Len(trail)
      BY <1>1, <1>2, <1>3
    <2>2. \A k \in 1..n : k \in 1..Len(trail)
      BY <2>1
    <2> QED  BY <2>1, <2>2 DEF Receipted, Unbroken, Chained
  <1> QED  BY <1>2, <1>3, <1>4, <1>5 DEF Vouches

LEMMA VerifyStep ==
    ASSUME LaborInvariant, NEW r \in Runners, Verify(r)
    PROVE  LaborInvariant'
  <1>1. /\ at \in [Runners -> Active \cup {"idle", "returned", "over"}]
        /\ LedgerOK(Entry) /\ trail \in Seq(Entry)
        /\ at[r] = "verifying" /\ attempt' = attempt /\ trail' = trail /\ tail' = tail
    BY DEF LaborInvariant, LaborTypeOK, LedgerOK, Verify
  <1>2. CutOff /\ LedgerOK(Entry)'
    BY <1>1 DEF CutOff, LedgerOK
  <1>3. CASE Ends(r)
    BY <1>1, <1>2, <1>3, EndsStep
  <1>4. CASE /\ Receipted(r) /\ at' = [at EXCEPT ![r] = "returned"]
             /\ chain' = chain /\ refs' = refs /\ prev' = prev
    <2>1. LaborTypeOK'
      BY <1>1, <1>2, <1>4 DEF LaborInvariant, LaborTypeOK
    <2>2. RunOK(r)'
      <3>1. at'[r] = "returned" /\ at'[r] \notin Active
        BY <1>1, <1>4 DEF Active
      <3>2. refs'[r] # << >> /\ Vouches(trail, refs'[r])
        BY <1>1, <1>4, ReturnVouched
      <3> QED  BY <1>1, <1>4, <3>1, <3>2
               DEF LaborInvariant, RunOK, Chosen, Own, Fresh, OrderedOn, Vouched, StageOf,
                   Vouches, Chained
    <2> QED  BY <1>1, <1>2, <1>4, <2>1, <2>2, RunStep
  <1> QED  BY <1>3, <1>4 DEF Verify

LEMMA CrashStep ==
    ASSUME LaborInvariant, NEW r \in Runners, Crash(r)
    PROVE  LaborInvariant'
  <1>1. /\ LedgerOK(Entry) /\ trail \in Seq(Entry) /\ trail' = trail /\ tail' = tail
        /\ Ends(r) /\ attempt' = attempt
    BY DEF LaborInvariant, LaborTypeOK, LedgerOK, Crash
  <1>2. CutOff /\ LedgerOK(Entry)'
    BY <1>1 DEF CutOff, LedgerOK
  <1> QED  BY <1>1, <1>2, EndsStep

LEMMA RestoreStep ==
    ASSUME LaborInvariant, NEW n \in 0..Len(trail), Restore(n)
    PROVE  LaborInvariant'
  <1>1. /\ chain' = chain /\ attempt' = attempt /\ refs' = refs /\ prev' = prev /\ at' = at
        /\ LedgerOK(Entry)
    BY DEF Restore, LaborInvariant, LaborTypeOK
  <1>2. LedgerOK(Entry)' /\ CutOff
    BY <1>1, RestoreLedger DEF CutOff
  <1>3. LaborTypeOK'
    BY <1>1, <1>2 DEF LaborInvariant, LaborTypeOK
  <1> QED  BY <1>1, <1>2, <1>3, OtherRun DEF LaborInvariant

LEMMA LaborInvariantStep == LaborInvariant /\ [LaborNext]_laborVars => LaborInvariant'
  <1> SUFFICES ASSUME LaborInvariant, [LaborNext]_laborVars
               PROVE  LaborInvariant'
    OBVIOUS
  <1>1. CASE UNCHANGED laborVars
    BY <1>1 DEF laborVars, LaborInvariant, LaborTypeOK, LedgerOK, RunOK, Chosen, Own, Fresh,
                OrderedOn, Vouched, Vouches, Chained, StageOf
  <1>2. CASE LaborNext
    BY <1>2, BeginStep, LookStep, StampStep, VerifyStep, CrashStep, RestoreStep DEF LaborNext
  <1> QED  BY <1>1, <1>2

LEMMA LaborHolds == LaborSpec => []LaborInvariant
  <1>1. LaborInit => LaborInvariant
    <2> SUFFICES ASSUME LaborInit
                 PROVE  LaborInvariant
      OBVIOUS
    <2>1. /\ refs = [r \in Runners |-> << >>] /\ at = [r \in Runners |-> "idle"]
          /\ trail = << >> /\ tail = "clean"
      BY DEF LaborInit, Empty
    <2>2. LaborTypeOK
      <3>1. << >> \in Seq(Ref) /\ << >> \in Seq(Entry) /\ Start \in Prev
        BY DEF Start, Prev
      <3>2. LedgerOK(Entry)
        BY <2>1, <3>1 DEF LedgerOK
      <3>3. refs \in [Runners -> Seq(Ref)]
        BY <2>1, <3>1
      <3> QED  BY <2>1, <3>1, <3>2, <3>3 DEF LaborInit, LaborTypeOK
    <2>3. DOMAIN trail = {} /\ \A r \in Runners : DOMAIN refs[r] = {}
      BY <2>1
    <2>4. \A r \in Runners : at[r] = "idle" /\ at[r] \notin Active
      BY <2>1 DEF Active
    <2>5. \A r \in Runners : RunOK(r)
      BY <2>3, <2>4 DEF RunOK, Chosen, Own, Fresh, OrderedOn, Vouched
    <2> QED  BY <2>2, <2>5 DEF LaborInvariant
  <1> QED  BY <1>1, LaborInvariantStep, PTL DEF LaborSpec

\* The runs and their ledger have their types.
THEOREM LaborTypeCorrect == LaborSpec => []LaborTypeOK
  BY LaborHolds, PTL DEF LaborInvariant

\* As long as the receipt of its trust binding resolves, a returned chain stands
\* whole on one chain of entries, whatever pushes overlapped, writes failed or
\* ledgers were put back since it was returned.
THEOREM VouchedByTrust == LaborSpec => []TrustVouches
  <1>1. ASSUME LaborInvariant
        PROVE  TrustVouches
    <2> SUFFICES ASSUME NEW r \in Runners, at[r] = "returned",
                        Resolves(refs[r][Len(refs[r])])
                 PROVE  /\ Unbroken(refs[r][Len(refs[r])].seq)
                        /\ \A i \in DOMAIN refs[r] :
                              /\ refs[r][i].seq <= refs[r][Len(refs[r])].seq
                              /\ Resolves(refs[r][i])
      BY DEF TrustVouches
    <2> DEFINE ref == refs[r][Len(refs[r])]
    <2>1. /\ refs[r] \in Seq(Ref) /\ refs[r] # << >> /\ Vouches(trail, refs[r])
          /\ \A i \in DOMAIN refs[r] : refs[r][i].seq \in Nat
      BY <1>1, EntryTypes DEF LaborInvariant, LaborTypeOK, RunOK, Vouched
    <2>2. /\ Chained(trail, ref.seq)
          /\ \A i \in DOMAIN refs[r] :
                /\ refs[r][i].seq <= ref.seq
                /\ refs[r][i].seq \in DOMAIN trail
                /\ trail[refs[r][i].seq] = refs[r][i].hash
      BY <2>1 DEF Vouches, Resolves
    <2>3. ref.seq \in Nat
      BY <2>1
    <2> HIDE DEF ref
    <2>4. ASSUME NEW i \in DOMAIN refs[r]
          PROVE  Resolves(refs[r][i])
      <3> DEFINE n == refs[r][i].seq
      <3>1. n \in Nat /\ n <= ref.seq /\ n \in DOMAIN trail /\ trail[n] = refs[r][i].hash
        BY <2>1, <2>2, <2>4
      <3> HIDE DEF n
      <3>2. ASSUME NEW m \in 1..(n - 1)
            PROVE  trail[m].number # n
        <4>1. m \in 1..ref.seq /\ m # n
          BY <2>3, <3>1, <3>2
        <4> QED  BY <2>2, <4>1 DEF Chained
      <3> QED  BY <3>1, <3>2 DEF Resolves, n
    <2>5. Unbroken(ref.seq)
      BY <2>2 DEF Chained, Unbroken
    <2> QED  BY <2>2, <2>4, <2>5 DEF ref
  <1> QED  BY <1>1, LaborHolds, PTL

\* A run returns only with all its stages on the ledger, each after the one
\* before, also when pushes overlapped or the ledger was put back in between.
THEOREM ReturnedInOrder == LaborSpec => ReturnsInOrder
  <1> DEFINE InOrder(r) ==
               \A i \in 1..StageCount(chain[r]) :
                  \E n \in DOMAIN trail :
                      /\ trail[n].stage = StageOf(r, i)
                      /\ i > 1 => \E m \in 1..(n - 1) : trail[m].stage = StageOf(r, i - 1)
             Returns == \A r \in Runners :
                           at[r] # "returned" /\ at'[r] = "returned" => InOrder(r)
  <1>1. ASSUME LaborInvariant, [LaborNext]_laborVars, NEW r \in Runners,
               at[r] # "returned", at'[r] = "returned"
        PROVE  InOrder(r)
    <2>1. Receipted(r) /\ at[r] = "verifying"
      <3>1. at \in [Runners -> Active \cup {"idle", "returned", "over"}]
        BY <1>1 DEF LaborInvariant, LaborTypeOK
      <3>2. ASSUME NEW q \in Runners, Ends(q)
            PROVE  FALSE
        BY <1>1, <3>1, <3>2 DEF Ends
      <3>3. ASSUME NEW q \in Runners, NEW ch \in Chains, Begin(q, ch)
            PROVE  FALSE
        BY <1>1, <3>1, <3>3 DEF Begin
      <3>4. ASSUME NEW q \in Runners, Look(q)
            PROVE  FALSE
        BY <1>1, <3>1, <3>2, <3>4 DEF Look
      <3>5. ASSUME NEW q \in Runners, Stamp(q)
            PROVE  FALSE
        BY <1>1, <3>1, <3>2, <3>5 DEF Stamp, Stamped
      <3>6. ASSUME NEW q \in Runners, Crash(q)
            PROVE  FALSE
        BY <3>2, <3>6 DEF Crash
      <3>7. ASSUME NEW q \in Runners, Verify(q)
            PROVE  Receipted(r) /\ at[r] = "verifying"
        BY <1>1, <3>1, <3>2, <3>7 DEF Verify
      <3>8. ASSUME NEW n \in 0..Len(trail), Restore(n)
            PROVE  FALSE
        BY <1>1, <3>8 DEF Restore
      <3>9. CASE UNCHANGED laborVars
        BY <1>1, <3>9 DEF laborVars
      <3> QED  BY <1>1, <3>3, <3>4, <3>5, <3>6, <3>7, <3>8, <3>9 DEF LaborNext
    <2>2. /\ refs[r] \in Seq(Ref) /\ trail \in Seq(Entry) /\ Own(r)
          /\ OrderedOn(trail, refs[r]) /\ Len(refs[r]) = StageCount(chain[r])
      BY <1>1, <2>1 DEF LaborInvariant, LaborTypeOK, LedgerOK, RunOK, Receipted
    <2>3. ASSUME NEW i \in DOMAIN refs[r]
          PROVE  \E n \in DOMAIN trail :
                    trail[n] = refs[r][i].hash /\ trail[n].stage = StageOf(r, i)
      BY <2>1, <2>2, <2>3 DEF Receipted, Resolves, Own
    <2> SUFFICES ASSUME NEW i \in 1..StageCount(chain[r])
                 PROVE  \E n \in DOMAIN trail :
                           /\ trail[n].stage = StageOf(r, i)
                           /\ i > 1 => \E m \in 1..(n - 1) : trail[m].stage = StageOf(r, i - 1)
      OBVIOUS
    <2>4. i \in DOMAIN refs[r] /\ i \in Nat
      BY <2>2
    <2>5. PICK n \in DOMAIN trail : trail[n] = refs[r][i].hash /\ trail[n].stage = StageOf(r, i)
      BY <2>3, <2>4
    <2>6. ASSUME i > 1
          PROVE  \E m \in 1..(n - 1) : trail[m].stage = StageOf(r, i - 1)
      <3>1. i - 1 \in DOMAIN refs[r] /\ i - 1 < i
        BY <2>2, <2>4, <2>6
      <3>2. PICK m \in DOMAIN trail : /\ trail[m] = refs[r][i - 1].hash
                                     /\ trail[m].stage = StageOf(r, i - 1)
        BY <2>3, <3>1
      <3>3. m < n
        BY <2>2, <2>4, <2>5, <3>1, <3>2 DEF OrderedOn
      <3>4. m \in 1..(n - 1)
        BY <2>2, <3>3
      <3> QED  BY <3>2, <3>4
    <2> QED  BY <2>5, <2>6
  <1>2. LaborInvariant /\ [LaborNext]_laborVars => [Returns]_laborVars
    BY <1>1
  <1> QED  BY <1>2, LaborHolds, PTL DEF LaborSpec, ReturnsInOrder

-----------------------------------------------------------------------------
(* Every run comes to an end: what of RunsEnd is not about fairness *)

\* While a run stamps a stage is missing.
Missing(r) == at[r] \in {"stamping", "writing"} => Len(refs[r]) < StageCount(chain[r])

\* How many steps a run still takes, if nothing fails: two for each stage, and
\* the verdict.
StepsLeft(r) ==
    IF at[r] = "stamping" THEN 2 * (StageCount(chain[r]) - Len(refs[r])) + 1
    ELSE IF at[r] = "writing" THEN 2 * (StageCount(chain[r]) - Len(refs[r]))
    ELSE IF at[r] = "verifying" THEN 1
    ELSE 0

\* No step, of any runner or of the operator, gives a run more to do, and each
\* of its own leaves it less.
CountsDown(r) ==
    at[r] \in Active =>
        /\ StepsLeft(r) \in Nat \ {0} /\ StepsLeft(r)' \in Nat
        /\ StepsLeft(r)' <= StepsLeft(r)
        /\ Look(r) \/ Stamp(r) \/ Verify(r) => StepsLeft(r)' < StepsLeft(r)

\* What is left of the run of r.
LEMMA LeftFacts ==
    ASSUME LaborInvariant, NEW r \in Runners, Missing(r), at[r] \in Active
    PROVE  /\ Len(refs[r]) \in Nat /\ StageCount(chain[r]) \in Nat
           /\ StepsLeft(r) \in Nat \ {0}
  <1>1. Len(refs[r]) \in Nat /\ StageCount(chain[r]) \in Nat
    BY StagesType DEF LaborInvariant, LaborTypeOK, RunOK, Chosen
  <1>2. CASE at[r] \in {"stamping", "writing"}
    <2> DEFINE d == StageCount(chain[r]) - Len(refs[r])
    <2>1. d \in Nat \ {0}
      BY <1>1, <1>2 DEF Missing
    <2>2. 2 * d \in Nat \ {0} /\ 2 * d + 1 \in Nat \ {0}
      BY <2>1
    <2>3. StepsLeft(r) = 2 * d \/ StepsLeft(r) = 2 * d + 1
      BY <1>2 DEF StepsLeft
    <2> QED  BY <1>1, <2>2, <2>3
  <1>3. CASE at[r] = "verifying"
    BY <1>1, <1>3 DEF StepsLeft
  <1> QED  BY <1>2, <1>3 DEF Active

\* What counts down, and goes on missing a stage while it stamps.
Counted(r) == CountsDown(r) /\ Missing(r)'

\* Where a run ends, nothing is left.
LEMMA EndsCounts ==
    ASSUME LaborInvariant, NEW r \in Runners, Missing(r), at'[r] \in {"over", "returned"}
    PROVE  Counted(r)
  <1>1. StepsLeft(r)' = 0 /\ Missing(r)'
    BY DEF StepsLeft, Missing
  <1> QED  BY <1>1, LeftFacts DEF Counted, CountsDown

\* Reading leaves the writing.
LEMMA LookCounts ==
    ASSUME LaborInvariant, NEW r \in Runners, Missing(r), Look(r)
    PROVE  Counted(r)
  <1>1. /\ at \in [Runners -> Active \cup {"idle", "returned", "over"}]
        /\ at[r] = "stamping" /\ at[r] \in Active
    BY DEF LaborInvariant, LaborTypeOK, Look, Active
  <1>2. CASE Ends(r)
    BY <1>1, <1>2, EndsCounts DEF Ends
  <1>3. CASE /\ at' = [at EXCEPT ![r] = "writing"] /\ chain' = chain /\ refs' = refs
    <2> DEFINE d == StageCount(chain[r]) - Len(refs[r])
    <2>1. at'[r] = "writing" /\ StageCount(chain'[r]) = StageCount(chain[r]) /\ Len(refs'[r]) = Len(refs[r])
      BY <1>1, <1>3
    <2>2. StepsLeft(r) = 2 * d + 1 /\ StepsLeft(r)' = 2 * d
      BY <1>1, <1>3, <2>1 DEF StepsLeft
    <2>3. d \in Nat
      BY <1>1, LeftFacts DEF Missing
    <2>4. 2 * d \in Nat /\ 2 * d < 2 * d + 1
      BY <2>3
    <2>5. Missing(r)'
      BY <1>1, <2>1 DEF Missing
    <2> QED  BY <1>1, <2>2, <2>4, <2>5, LeftFacts DEF Counted, CountsDown
  <1> QED  BY <1>2, <1>3 DEF Look

\* A stamp is one stage less, or the end of the run.
LEMMA StampCounts ==
    ASSUME LaborInvariant, NEW r \in Runners, Missing(r), Stamp(r)
    PROVE  Counted(r)
  <1> DEFINE n == Len(refs[r])
             k == StageCount(chain[r])
  <1>1. /\ at \in [Runners -> Active \cup {"idle", "returned", "over"}]
        /\ refs \in [Runners -> Seq(Ref)] /\ refs[r] \in Seq(Ref)
        /\ at[r] = "writing" /\ at[r] \in Active
    BY DEF LaborInvariant, LaborTypeOK, Stamp, Active
  <1>2. n \in Nat /\ k \in Nat /\ n < k /\ StepsLeft(r) = 2 * (k - n) /\ StepsLeft(r) \in Nat \ {0}
    BY <1>1, LeftFacts DEF StepsLeft, Missing
  <1>3. CASE Ends(r)
    BY <1>1, <1>3, EndsCounts DEF Ends
  <1>4. CASE Stamped(r)
    <2>1. /\ chain' = chain /\ StageCount(chain'[r]) = k /\ Len(refs'[r]) = n + 1
          /\ at'[r] = IF n + 1 = k THEN "verifying" ELSE "stamping"
      BY <1>1, <1>4 DEF Stamped
    <2> HIDE DEF n, k
    <2>2. CASE n + 1 = k
      <3>1. StepsLeft(r)' = 1 /\ StepsLeft(r) = 2 /\ Missing(r)'
        BY <1>2, <2>1, <2>2 DEF StepsLeft, Missing
      <3> QED  BY <3>1 DEF Counted, CountsDown
    <2>3. CASE n + 1 # k
      <3>1. at'[r] = "stamping"
        BY <2>1, <2>3
      <3>2. StepsLeft(r)' = 2 * (k - (n + 1)) + 1
        BY <2>1, <3>1 DEF StepsLeft
      <3>3. StepsLeft(r)' \in Nat /\ StepsLeft(r)' < StepsLeft(r) /\ n + 1 < k
        BY <1>2, <2>3, <3>2
      <3>4. Missing(r)'
        BY <2>1, <3>3 DEF Missing
      <3> QED  BY <1>2, <3>3, <3>4 DEF Counted, CountsDown
    <2> QED  BY <2>2, <2>3
  <1> QED  BY <1>3, <1>4 DEF Stamp

\* Where nothing is done to a run, it has as much left.
LEMMA UntouchedCounts ==
    ASSUME LaborInvariant, NEW r \in Runners, Missing(r),
           at'[r] = at[r], refs'[r] = refs[r], chain'[r] = chain[r]
    PROVE  Counted(r)
  <1>1. StepsLeft(r)' = StepsLeft(r) /\ Missing(r)'
    BY DEF StepsLeft, StageCount, Missing
  <1>2. at \in [Runners -> Active \cup {"idle", "returned", "over"}]
    BY DEF LaborInvariant, LaborTypeOK
  <1>3. ~ Look(r) /\ ~ Stamp(r) /\ ~ Verify(r)
    <2>1. Ends(r) => at[r] = "over"
      BY <1>2 DEF Ends
    <2> QED  BY <1>2, <2>1 DEF Look, Stamp, Stamped, Verify
  <1> QED  BY <1>1, <1>3, LeftFacts DEF Counted, CountsDown

LEMMA CountStep ==
    ASSUME LaborInvariant, NEW r \in Runners, Missing(r), [LaborNext]_laborVars
    PROVE  Counted(r)
  <1>1. /\ refs \in [Runners -> Seq(Ref)] /\ chain \in [Runners -> Chains \cup {NoChain}]
        /\ at \in [Runners -> Active \cup {"idle", "returned", "over"}]
    BY DEF LaborInvariant, LaborTypeOK
  <1>2. ASSUME NEW q \in Runners, q # r, Ends(q) \/ Stamped(q)
        PROVE  at'[r] = at[r] /\ refs'[r] = refs[r] /\ chain'[r] = chain[r]
    BY <1>1, <1>2 DEF Ends, Stamped
  <1>3. ASSUME NEW q \in Runners, NEW ch \in Chains, Begin(q, ch)
        PROVE  Counted(r)
    <2>1. CASE q = r
      <3>1. /\ at[r] \notin Active /\ chain'[r] = ch /\ refs'[r] = << >>
        BY <1>1, <1>3, <2>1 DEF Begin
      <3>2. Len(refs'[r]) < StageCount(chain'[r])
        BY <3>1, StagesType
      <3> QED  BY <3>1, <3>2 DEF Counted, CountsDown, Missing
    <2>2. CASE q # r
      BY <1>1, <1>3, <2>2, UntouchedCounts DEF Begin
    <2> QED  BY <2>1, <2>2
  <1>4. ASSUME NEW q \in Runners, Look(q)
        PROVE  Counted(r)
    BY <1>1, <1>2, <1>4, LookCounts, UntouchedCounts DEF Look
  <1>5. ASSUME NEW q \in Runners, Stamp(q)
        PROVE  Counted(r)
    BY <1>1, <1>2, <1>5, StampCounts, UntouchedCounts DEF Stamp
  <1>6. ASSUME NEW q \in Runners, Verify(q) \/ Crash(q)
        PROVE  Counted(r)
    <2>1. CASE q = r
      <3>1. at'[r] \in {"over", "returned"}
        BY <1>1, <1>6, <2>1 DEF Verify, Crash, Ends
      <3> QED  BY <3>1, EndsCounts
    <2>2. CASE q # r
      BY <1>1, <1>2, <1>6, <2>2, UntouchedCounts DEF Verify, Crash
    <2> QED  BY <2>1, <2>2
  <1>7. ASSUME NEW n \in 0..Len(trail), Restore(n)
        PROVE  Counted(r)
    BY <1>7, UntouchedCounts DEF Restore
  <1>8. CASE UNCHANGED laborVars
    BY <1>8, UntouchedCounts DEF laborVars
  <1>9. CASE LaborNext
    BY <1>3, <1>4, <1>5, <1>6, <1>7, <1>9 DEF LaborNext
  <1> QED  BY <1>8, <1>9

\* While a run goes on it has a number of steps left that no step of another
\* runner, no failed write and no ledger put back raises, and that each step of
\* its own lowers: a run whose process is scheduled comes to its end.
THEOREM RunsCountDown == LaborSpec => [][\A r \in Runners : CountsDown(r)]_laborVars
  <1> DEFINE Staged == \A r \in Runners : Missing(r)
  <1>1. LaborInit => Staged
    BY DEF LaborInit, Missing
  <1>2. LaborInvariant /\ Staged /\ [LaborNext]_laborVars =>
            Staged' /\ [\A r \in Runners : CountsDown(r)]_laborVars
    BY CountStep DEF Counted
  <1> HIDE DEF Staged
  <1> QED  BY <1>1, <1>2, LaborHolds, PTL DEF LaborSpec

-----------------------------------------------------------------------------
(* Witness quorums *)

\* The ids of a roster, or of any sequence that has ids, are at most as many
\* as its places.
LEMMA IdsOfSequence ==
    ASSUME NEW S, NEW s \in Seq(S)
    PROVE  LET ids == {x.id : x \in ToSet(s)}
           IN  IsFiniteSet(ids) /\ Cardinality(ids) <= Len(s)
  <1> DEFINE ids == {x.id : x \in ToSet(s)}
             f == [i \in 1..Len(s) |-> s[i].id]
  <1>1. ids = {s[i].id : i \in 1..Len(s)}
    BY DEF ToSet
  <1>2. f \in Surjection(1..Len(s), ids)
    BY <1>1 DEF Surjection
  <1>3. IsFiniteSet(1..Len(s)) /\ Cardinality(1..Len(s)) = Len(s)
    <2>1. ASSUME NEW n \in Nat
          PROVE  IsFiniteSet(1..n) /\ Cardinality(1..n) = n
      <3>1. IsFiniteSet(1..n) /\ Cardinality(1..n) = IF 1 > n THEN 0 ELSE n - 1 + 1
        BY FS_Interval
      <3> QED  BY <3>1
    <2>2. Len(s) \in Nat
      OBVIOUS
    <2> QED  BY <2>1, <2>2
  <1> DEFINE places == 1..Len(s)
  <1>4. /\ IsFiniteSet(places) /\ Cardinality(places) = Len(s)
        /\ f \in Surjection(places, ids)
    BY <1>2, <1>3
  <1> HIDE DEF f, ids, places
  <1>5. IsFiniteSet(ids) /\ Cardinality(ids) <= Cardinality(places)
    BY <1>4, FS_Surjection
  <1>6. IsFiniteSet(ids) /\ Cardinality(ids) <= Len(s)
    BY <1>4, <1>5
  <1> QED  BY <1>6 DEF ids

\* Witnesses of a roster that signed are finitely many.
LEMMA SignersFinite ==
    ASSUME NEW b \in Block, NEW r
    PROVE  IsFiniteSet(Signers(b, r)) /\ Cardinality(Signers(b, r)) \in Nat
  <1>1. b.roster \in Seq(Enrolled)
    BY RostersAssumption DEF Block
  <1>2. IsFiniteSet(IdsOf(b.roster))
    BY <1>1, IdsOfSequence DEF IdsOf
  <1>3. Signers(b, r) \in SUBSET IdsOf(b.roster)
    BY DEF Signers
  <1> QED  BY <1>2, <1>3, FS_Subset, FS_CardinalityType

\* A block that verify_quorum lets through has at least its k witnesses among
\* those that signed, all of them on its roster.
LEMMA VerifiedSigners ==
    ASSUME NEW b \in Block, NEW r, VerifyQuorum(r, b), ToSet(b.sigs) \subseteq Shown
    PROVE  /\ Cardinality(Signers(b, r)) >= b.k
           /\ 1 <= b.k /\ b.k <= Len(b.roster)
           /\ b.sigs # << >>
  <1> DEFINE ids == {s.id : s \in ToSet(b.sigs)}
  <1>1. b.roster \in Seq(Enrolled) /\ b.sigs \in Seq(Signature) /\ b.k \in 0..MaxK
    BY RostersAssumption DEF Block
  <1>2. IsFiniteSet(ids) /\ Cardinality(ids) <= Len(b.sigs) /\ Cardinality(ids) \in Nat
    BY <1>1, IdsOfSequence, FS_CardinalityType
  <1>3. ids \subseteq Signers(b, r)
    <2> SUFFICES ASSUME NEW s \in ToSet(b.sigs)
                 PROVE  s.id \in Signers(b, r)
      OBVIOUS
    <2>1. s \in Checks(b, r)
      BY DEF VerifyQuorum
    <2>2. PICK e \in ToSet(b.roster) : e.id = s.id /\ e.key = s.key
      BY <2>1 DEF Checks
    <2>3. s.over = r /\ <<s.key, s.over>> \in signed
      BY <2>1 DEF Checks, Shown
    <2> QED  BY <2>2, <2>3 DEF Signers, IdsOf
  <1>4. Cardinality(ids) >= b.k /\ b.k >= 1
    BY DEF VerifyQuorum
  <1>5. IsFiniteSet(Signers(b, r)) /\ Cardinality(Signers(b, r)) \in Nat
    BY SignersFinite
  <1> HIDE DEF ids
  <1>6. Cardinality(ids) <= Cardinality(Signers(b, r))
    BY <1>3, <1>5, FS_Subset
  <1>7. Cardinality(Signers(b, r)) <= Len(b.roster)
    <2>1. IsFiniteSet(IdsOf(b.roster)) /\ Cardinality(IdsOf(b.roster)) <= Len(b.roster)
      BY <1>1, IdsOfSequence DEF IdsOf
    <2>2. Signers(b, r) \in SUBSET IdsOf(b.roster)
      BY DEF Signers
    <2>3. Cardinality(Signers(b, r)) <= Cardinality(IdsOf(b.roster))
      BY <2>1, <2>2, FS_Subset
    <2>4. Cardinality(IdsOf(b.roster)) \in Nat /\ Len(b.roster) \in Nat
      BY <1>1, <2>1, FS_CardinalityType
    <2> QED  BY <1>5, <2>1, <2>3, <2>4
  <1>8. b.k \in Int /\ Len(b.roster) \in Nat
    BY <1>1
  <1>9. b.sigs # << >>
    BY <1>2, <1>4, <1>8
  <1> QED  BY <1>2, <1>4, <1>5, <1>6, <1>7, <1>8, <1>9

-----------------------------------------------------------------------------

\* A promotion happens on a block of the right type, made of signatures there
\* are.
LEMMA PromoteFacts ==
    ASSUME NEW sound \in BOOLEAN, NEW r \in Receipts, NEW c \in Receipts,
           NEW k \in 0..MaxK, NEW required \in 0..MaxK, NEW more \in 0..1,
           NEW roster \in Rosters, NEW m \in 0..MaxSigs, NEW sigs \in [1..m -> Shown]
    PROVE  LET b == [sound |-> sound, committed |-> c, k |-> k,
                     n |-> Len(roster) + more, roster |-> roster, sigs |-> sigs]
           IN  b \in Block /\ ToSet(b.sigs) \subseteq Shown
  <1>1. roster \in Seq(Enrolled) /\ Len(roster) + more \in Nat
    BY RostersAssumption
  <1>2. sigs \in Seq(Signature)
    <2>1. m \in Nat
      OBVIOUS
    <2>2. Shown \subseteq Signature
      BY DEF Shown
    <2>3. sigs \in [1..m -> Signature]
      BY <2>2
    <2> QED  BY <2>1, <2>3, SeqDef
  <1>3. ToSet(sigs) \subseteq Shown
    BY DEF ToSet
  <1> QED  BY <1>1, <1>2, <1>3 DEF Block

LEMMA PromoteStep ==
    ASSUME NEW r \in Receipts, NEW b \in Block, NEW required \in 0..MaxK,
           QuorumTypeOK, ToSet(b.sigs) \subseteq Shown, Promote(r, b, required)
    PROVE  (QuorumTypeOK /\ PromotedOnQuorum /\ PromotedIsValid)'
  <1>1. promoted' = [receipt |-> r, block |-> b, k |-> required] /\ signed' = signed
    BY DEF Promote
  <1>2. VerifyQuorum(r, b) /\ (required = 0 \/ b.k = required)
    BY DEF Promote
  <1>3. promoted' \in Promotion /\ promoted' # Nothing
    BY <1>1, NothingAssumption DEF Promotion
  <1>4. promoted'.receipt = r /\ promoted'.block = b /\ promoted'.k = required
    BY <1>1
  <1>5. /\ Cardinality(Signers(b, r)) >= b.k /\ Cardinality(Signers(b, r)) \in Nat
        /\ 1 <= b.k /\ b.k <= Len(b.roster) /\ b.k \in Int
        /\ b.sigs # << >>
    BY <1>2, VerifiedSigners, SignersFinite DEF Block
  <1>6. (Signers(b, r))' = Signers(b, r)
    BY <1>1 DEF Signers
  <1>7. QuorumTypeOK'
    BY <1>1, <1>3 DEF QuorumTypeOK
  <1>8. PromotedOnQuorum'
    <2>1. (Signers(promoted.block, promoted.receipt))' = Signers(b, r)
      BY <1>1, <1>4 DEF Signers
    <2>2. Cardinality(Signers(b, r)) >= required /\ Cardinality(Signers(b, r)) >= 1
      BY <1>2, <1>5
    <2> QED  BY <1>4, <1>5, <2>1, <2>2 DEF PromotedOnQuorum
  <1>9. PromotedIsValid'
    <2>1. ValidBlock(b) /\ b.k <= b.n
      <3>1. b.roster \in Seq(Enrolled) /\ b.n = Len(b.roster) /\ b.sound
        BY <1>2, RostersAssumption DEF VerifyQuorum, Block
      <3>2. \A e \in ToSet(b.roster) : e.alg
        BY <1>2 DEF VerifyQuorum
      <3> QED  BY <1>5, <3>1, <3>2 DEF ValidBlock
    <2> QED  BY <1>4, <2>1 DEF PromotedIsValid
  <1> QED  BY <1>7, <1>8, <1>9

\* More signatures take nothing from a promotion.
LEMMA BuildStep ==
    ASSUME NEW r \in Receipts, NEW roster \in Rosters, NEW signers \in SUBSET Keys,
           QuorumTypeOK, PromotedOnQuorum, PromotedIsValid, Build(r, roster, signers)
    PROVE  (QuorumTypeOK /\ PromotedOnQuorum /\ PromotedIsValid)'
  <1>1. promoted' = promoted /\ signed \subseteq signed' /\ signed' \subseteq Keys \X Receipts
    BY DEF Build, QuorumTypeOK
  <1>2. QuorumTypeOK' /\ PromotedIsValid'
    BY <1>1 DEF QuorumTypeOK, PromotedIsValid
  <1>3. ASSUME promoted # Nothing
        PROVE  LET b == promoted.block
                   more == Cardinality((Signers(promoted.block, promoted.receipt))')
               IN  more >= 1 /\ more >= b.k /\ more >= promoted.k
    <2> DEFINE b == promoted.block
               rec == promoted.receipt
               more == {id \in IdsOf(b.roster) :
                           \E e \in ToSet(b.roster) : e.id = id /\ <<e.key, rec>> \in signed'}
    <2>1. b \in Block /\ promoted.k \in Int /\ b.k \in Int
      BY <1>3 DEF QuorumTypeOK, Promotion, Block
    <2>2. more = (Signers(promoted.block, promoted.receipt))'
      BY <1>1 DEF Signers
    <2>3. IsFiniteSet(more) /\ Cardinality(more) \in Nat
      <3>1. b.roster \in Seq(Enrolled)
        BY <2>1, RostersAssumption DEF Block
      <3>2. IsFiniteSet(IdsOf(b.roster))
        BY <3>1, IdsOfSequence DEF IdsOf
      <3> QED  BY <3>2, FS_Subset, FS_CardinalityType
    <2>4. Signers(b, rec) \in SUBSET more
      BY <1>1 DEF Signers
    <2>5. Cardinality(Signers(b, rec)) <= Cardinality(more) /\ Cardinality(Signers(b, rec)) \in Nat
      <3> HIDE DEF more
      <3> QED  BY <2>1, <2>3, <2>4, FS_Subset, SignersFinite
    <2>6. /\ Cardinality(Signers(b, rec)) >= 1
          /\ Cardinality(Signers(b, rec)) >= b.k /\ Cardinality(Signers(b, rec)) >= promoted.k
      BY <1>3 DEF PromotedOnQuorum
    <2> HIDE DEF more
    <2> QED  BY <2>1, <2>2, <2>3, <2>5, <2>6
  <1>4. PromotedOnQuorum'
    BY <1>1, <1>3 DEF PromotedOnQuorum, Signers
  <1> QED  BY <1>2, <1>4

QuorumInvariant == QuorumTypeOK /\ PromotedOnQuorum /\ PromotedIsValid

LEMMA QuorumStep == QuorumInvariant /\ [QuorumNext]_quorumVars => QuorumInvariant'
  <1> SUFFICES ASSUME QuorumInvariant, [QuorumNext]_quorumVars
               PROVE  QuorumInvariant'
    OBVIOUS
  <1> USE DEF QuorumInvariant
  <1>1. ASSUME NEW r \in Receipts, NEW roster \in Rosters, NEW signers \in SUBSET Keys,
               Build(r, roster, signers)
        PROVE  QuorumInvariant'
    BY <1>1, BuildStep
  <1>2. ASSUME NEW sound \in BOOLEAN, NEW r \in Receipts, NEW c \in Receipts,
               NEW k \in 0..MaxK, NEW required \in 0..MaxK, NEW more \in 0..1,
               NEW roster \in Rosters, NEW m \in 0..MaxSigs, NEW sigs \in [1..m -> Shown],
               Promote(r, [sound |-> sound, committed |-> c, k |-> k,
                           n |-> Len(roster) + more, roster |-> roster, sigs |-> sigs], required)
        PROVE  QuorumInvariant'
    <2> DEFINE b == [sound |-> sound, committed |-> c, k |-> k,
                     n |-> Len(roster) + more, roster |-> roster, sigs |-> sigs]
    <2>1. b \in Block /\ ToSet(b.sigs) \subseteq Shown
      BY PromoteFacts
    <2>2. Promote(r, b, required)
      BY <1>2
    <2> HIDE DEF b
    <2> QED  BY <2>1, <2>2, PromoteStep
  <1>3. CASE UNCHANGED quorumVars
    BY <1>3 DEF quorumVars, QuorumTypeOK, PromotedOnQuorum, PromotedIsValid, Signers
  <1>4. CASE QuorumNext
    <2>1. CASE \E r \in Receipts, roster \in Rosters, signers \in SUBSET Keys :
                  Build(r, roster, signers)
      BY <1>1, <2>1
    <2>2. CASE ~ \E r \in Receipts, roster \in Rosters, signers \in SUBSET Keys :
                    Build(r, roster, signers)
      <3>1. PICK sound \in BOOLEAN, r \in Receipts, c \in Receipts, k \in 0..MaxK,
                 required \in 0..MaxK, more \in 0..1, roster \in Rosters, m \in 0..MaxSigs :
                 \E sigs \in [1..m -> Shown] :
                    Promote(r, [sound |-> sound, committed |-> c, k |-> k,
                                n |-> Len(roster) + more, roster |-> roster, sigs |-> sigs],
                            required)
        BY <1>4, <2>2 DEF QuorumNext
      <3> QED  BY <1>2, <3>1
    <2> QED  BY <2>1, <2>2
  <1> QED  BY <1>3, <1>4

LEMMA QuorumHolds == QuorumSpec => []QuorumInvariant
  <1>1. QuorumInit => QuorumInvariant
    BY DEF QuorumInit, QuorumInvariant, QuorumTypeOK, PromotedOnQuorum, PromotedIsValid
  <1> QED  BY <1>1, QuorumStep, PTL DEF QuorumSpec

\* Signatures and the promotion keep their types.
THEOREM QuorumTypeCorrect == QuorumSpec => []QuorumTypeOK
  BY QuorumHolds, PTL DEF QuorumInvariant

\* What promote lets through was signed by as many witnesses of the roster as
\* the block and the caller ask for.
THEOREM PromotionHasQuorum == QuorumSpec => []PromotedOnQuorum
  BY QuorumHolds, PTL DEF QuorumInvariant

\* And the block that carried it is one the validator lets pass.
THEOREM PromotionHasValidBlock == QuorumSpec => []PromotedIsValid
  BY QuorumHolds, PTL DEF QuorumInvariant

(* The runs and the quorums side by side *)

\* Side by side with the quorums, the runs are what LaborNext makes of them,
\* and the quorums what QuorumNext makes of them.
LEMMA Parts == Spec => LaborSpec /\ QuorumSpec
  <1>1. Init => LaborInit /\ QuorumInit
    BY DEF Init
  <1>2. [Next]_<<laborVars, quorumVars>> => [LaborNext]_laborVars /\ [QuorumNext]_quorumVars
    BY DEF Next
  <1> QED  BY <1>1, <1>2, PTL DEF Spec, LaborSpec, QuorumSpec

\* The runs, their ledger and the quorums stay what they are written as.
THEOREM TypeCorrect == Spec => []TypeOK
  <1> QED  BY Parts, LaborTypeCorrect, QuorumTypeCorrect, PTL DEF TypeOK
==============================================================================
