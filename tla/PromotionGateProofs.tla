------------------------ MODULE PromotionGateProofs ------------------------
(***************************************************************************)
(* Proofs about the promotion gate for any calls, images, bundles and      *)
(* policies.  The argument: a call's place and the entries it wrote agree  *)
(* with one verdict, which is fixed when the call is made.                 *)
(***************************************************************************)
EXTENDS PromotionGate, TLAPS, FiniteSetTheorems

\* What can become of the ledger when an entry is, or should be, written.
LEMMA LedgerStep ==
    ASSUME NEW e, Emit(e) \/ EmitFails(e)
    PROVE  trail' \in {trail, Append(trail, e), SubSeq(trail, 1, Len(trail) - 1)}
  BY DEF Emit, EmitFails, Glued

\* Entries are written with the types they should have.
LEMMA WriteType ==
    ASSUME LedgerOK(Entry), NEW e \in Entry, Emit(e) \/ EmitFails(e)
    PROVE  LedgerOK(Entry)'
  <1>1. trail \in Seq(Entry)
    BY DEF LedgerOK
  <1>2. SubSeq(trail, 1, Len(trail) - 1) \in Seq(Entry)
    <2>1. \A i \in 1..(Len(trail) - 1) : trail[i] \in Entry
      BY <1>1
    <2> QED  BY <1>1, <2>1
  <1>3. trail' \in Seq(Entry)
    BY <1>1, <1>2, LedgerStep
  <1>4. tail' \in {"clean", "torn"} \cup WriteFaults
    BY DEF LedgerOK, Emit, EmitFails, Glued
  <1> QED  BY <1>3, <1>4 DEF LedgerOK

\* A call's entry is an entry.
LEMMA EntryType ==
    ASSUME NEW c \in Calls, NEW type \in {"ProofArtifact", "ZonePromotion", "PolicyException"}
    PROVE  EntryOf(c, type) \in Entry
  BY DEF EntryOf, Entry, JudgmentOf, Judgment

\* The calls and the ledger have their types.
THEOREM TypeCorrect == Spec => []TypeOK
  <1>1. Init => TypeOK
    BY DEF Init, TypeOK, Place, Running, Empty, LedgerOK
  <1>2. TypeOK /\ [Next]_vars => TypeOK'
    <2> SUFFICES ASSUME TypeOK, [Next]_vars
                 PROVE  TypeOK'
      OBVIOUS
    <2>1. CASE UNCHANGED vars
      BY <2>1 DEF vars, TypeOK, LedgerOK
    <2>2. ASSUME NEW c \in Calls, NEW i \in Images, NEW b \in Bundles, NEW p \in Policies,
                 Evaluate(c, i, b, p)
          PROVE  TypeOK'
      <3>1. [image |-> i, bundle |-> b, policy |-> p] \in Call
        BY DEF Call
      <3>2. call' \in [Calls -> Call \cup {None}]
        BY <2>2, <3>1 DEF Evaluate, TypeOK
      <3>3. place' \in [Calls -> Place]
        BY <2>2 DEF Evaluate, Goto, TypeOK, Place, Running
      <3> QED  BY <2>2, <3>2, <3>3 DEF Evaluate, TypeOK, LedgerOK
    <2>3. ASSUME NEW c \in Calls, Refuse(c)
          PROVE  TypeOK'
      <3>1. place' \in [Calls -> Place]
        BY <2>3 DEF Refuse, Goto, TypeOK, Place
      <3>2. LedgerOK(Entry)'
        BY <2>3, EntryType, WriteType DEF Refuse, TypeOK
      <3> QED  BY <2>3, <3>1, <3>2 DEF Refuse, TypeOK
    <2>4. ASSUME NEW c \in Calls, Publish(c)
          PROVE  TypeOK'
      <3>1. place' \in [Calls -> Place]
        BY <2>4 DEF Publish, Goto, TypeOK, Place, Running
      <3>2. LedgerOK(Entry)'
        BY <2>4, EntryType, WriteType DEF Publish, TypeOK
      <3> QED  BY <2>4, <3>1, <3>2 DEF Publish, TypeOK
    <2>5. ASSUME NEW c \in Calls, Link(c)
          PROVE  TypeOK'
      <3>1. place' \in [Calls -> Place]
        BY <2>5 DEF Link, Goto, TypeOK, Place
      <3>2. LedgerOK(Entry)'
        BY <2>5, EntryType, WriteType DEF Link, TypeOK
      <3> QED  BY <2>5, <3>1, <3>2 DEF Link, TypeOK
    <2>6. ASSUME NEW c \in Calls, Crash(c)
          PROVE  TypeOK'
      BY <2>6 DEF Crash, Goto, TypeOK, LedgerOK, Place
    <2> QED  BY <2>1, <2>2, <2>3, <2>4, <2>5, <2>6 DEF Next
  <1> QED  BY <1>1, <1>2, PTL DEF Spec

-----------------------------------------------------------------------------
(* One verdict per call *)

\* A call's place agrees with its verdict.
Judged(c) ==
    /\ place[c] = "uncalled" <=> call[c] = None
    /\ place[c] \in {"refusing", "refused"} => JudgmentOf(c) = "FAIL"
    /\ place[c] \in {"publishing", "linking", "promoted", "denied"} => JudgmentOf(c) # "FAIL"

\* An entry carries the verdict of the call it is of, and is of its kind.
Honest(e) ==
    /\ call[e.by] # None
    /\ e.judgment = JudgmentOf(e.by)
    /\ e.type = "PolicyException" <=> JudgmentOf(e.by) = "FAIL"

VerdictInv ==
    /\ \A c \in Calls : Judged(c)
    /\ \A n \in DOMAIN trail : Honest(trail[n])

\* One more honest entry, or one less, keeps the ledger honest.
LEMMA HonestWrite ==
    ASSUME TypeOK, VerdictInv, NEW e \in Entry, Honest(e), UNCHANGED call,
           Emit(e) \/ EmitFails(e)
    PROVE  \A n \in DOMAIN trail' : Honest(trail[n])'
  <1>1. trail \in Seq(Entry) /\ DOMAIN trail = 1..Len(trail) /\ Len(trail) \in Nat
    BY DEF TypeOK, LedgerOK
  <1>2. \A x : Honest(x)' <=> Honest(x)
    BY DEF Honest, JudgmentOf
  <1>3. \A n \in DOMAIN trail' : trail'[n] = e \/ \E m \in DOMAIN trail : trail'[n] = trail[m]
    <2>1. CASE trail' = trail
      BY <2>1
    <2>2. CASE trail' = Append(trail, e)
      BY <1>1, <2>2
    <2>3. CASE trail' = SubSeq(trail, 1, Len(trail) - 1)
      BY <1>1, <2>3
    <2> QED  BY <2>1, <2>2, <2>3, LedgerStep
  <1>4. \A n \in DOMAIN trail' : Honest(trail'[n])
    BY <1>3 DEF VerdictInv
  <1>5. \A n \in DOMAIN trail' : Honest(trail[n])' <=> Honest(trail'[n])
    BY DEF Honest, JudgmentOf
  <1> QED  BY <1>4, <1>5

\* A call that moves on to a place that agrees with its verdict keeps all
\* calls judged.
LEMMA JudgedGoto ==
    ASSUME TypeOK, VerdictInv, NEW c \in Calls, NEW p, Goto(c, p), UNCHANGED call,
           place[c] # "uncalled", p # "uncalled",
           p = "refused" => JudgmentOf(c) = "FAIL",
           p # "refusing",
           p \in {"publishing", "linking", "promoted", "denied"} => JudgmentOf(c) # "FAIL"
    PROVE  \A x \in Calls : Judged(x)'
  <1> SUFFICES ASSUME NEW x \in Calls
               PROVE  Judged(x)'
    OBVIOUS
  <1>1. Judged(x) /\ JudgmentOf(x)' = JudgmentOf(x)
    BY DEF VerdictInv, JudgmentOf
  <1>2. place'[x] = IF x = c THEN p ELSE place[x]
    BY DEF Goto, TypeOK
  <1> QED  BY <1>1, <1>2 DEF Judged

\* Verdicts stay as they are.
LEMMA VerdictStep ==
    ASSUME TypeOK, VerdictInv, [Next]_vars
    PROVE  VerdictInv'
  <1>1. CASE UNCHANGED vars
    BY <1>1 DEF vars, VerdictInv, Judged, Honest, JudgmentOf
  <1>2. ASSUME NEW c \in Calls, NEW i \in Images, NEW b \in Bundles, NEW p \in Policies,
               Evaluate(c, i, b, p)
        PROVE  VerdictInv'
    <2> DEFINE new == [image |-> i, bundle |-> b, policy |-> p]
    <2>1. new # None /\ new.bundle = b /\ new.policy = p
      BY NoneAssumption DEF Call
    <2> HIDE DEF new
    <2>2. call[c] = None
      BY <1>2 DEF Evaluate, VerdictInv, Judged
    <2>3. \A x \in Calls : call'[x] = IF x = c THEN new ELSE call[x]
      BY <1>2 DEF Evaluate, TypeOK, new
    <2>4. \A x \in Calls :
             place'[x] = IF x = c
                         THEN IF Judgment(b, p) = "FAIL" THEN "refusing" ELSE "publishing"
                         ELSE place[x]
      BY <1>2 DEF Evaluate, Goto, TypeOK
    <2>5. ASSUME NEW x \in Calls
          PROVE  Judged(x)'
      <3>1. Judged(x)
        BY DEF VerdictInv
      <3>2. JudgmentOf(x)' = IF x = c THEN Judgment(b, p) ELSE JudgmentOf(x)
        BY <2>1, <2>3 DEF JudgmentOf
      <3> QED  BY <2>1, <2>3, <2>4, <3>1, <3>2 DEF Judged
    <2>6. ASSUME NEW n \in DOMAIN trail
          PROVE  Honest(trail[n])'
      <3>1. Honest(trail[n]) /\ trail[n].by \in Calls
        <4>1. trail[n] \in Entry
          BY DEF TypeOK, LedgerOK
        <4> QED  BY <4>1 DEF VerdictInv, Entry
      <3>2. trail[n].by # c /\ trail' = trail
        BY <1>2, <2>2, <3>1 DEF Honest, Evaluate
      <3> QED  BY <2>3, <3>1, <3>2 DEF Honest, JudgmentOf
    <2>7. trail' = trail
      BY <1>2 DEF Evaluate
    <2> QED  BY <2>5, <2>6, <2>7 DEF VerdictInv
  <1>3. ASSUME NEW c \in Calls, Refuse(c)
        PROVE  VerdictInv'
    <2> DEFINE e == EntryOf(c, "PolicyException")
    <2>1. /\ place[c] = "refusing" /\ UNCHANGED call
          /\ Emit(e) \/ EmitFails(e)
          /\ Goto(c, "refused") \/ Goto(c, "raised")
      BY <1>3 DEF Refuse
    <2>2. JudgmentOf(c) = "FAIL" /\ call[c] # None
      BY <2>1 DEF VerdictInv, Judged
    <2>3. e \in Entry /\ Honest(e)
      BY <2>2, EntryType DEF Honest, EntryOf
    <2>4. \A n \in DOMAIN trail' : Honest(trail[n])'
      <3> HIDE DEF e
      <3> QED  BY <2>1, <2>3, HonestWrite
    <2>5. \A x \in Calls : Judged(x)'
      BY <2>1, <2>2, JudgedGoto
    <2> QED  BY <2>4, <2>5 DEF VerdictInv
  <1>4. ASSUME NEW c \in Calls, Publish(c)
        PROVE  VerdictInv'
    <2> DEFINE e == EntryOf(c, "ProofArtifact")
    <2>1. /\ place[c] = "publishing" /\ UNCHANGED call
          /\ Emit(e) \/ EmitFails(e)
          /\ Goto(c, "linking") \/ Goto(c, "denied") \/ Goto(c, "raised")
      BY <1>4 DEF Publish
    <2>2. JudgmentOf(c) # "FAIL" /\ call[c] # None
      BY <2>1 DEF VerdictInv, Judged
    <2>3. e \in Entry /\ Honest(e)
      BY <2>2, EntryType DEF Honest, EntryOf
    <2>4. \A n \in DOMAIN trail' : Honest(trail[n])'
      <3> HIDE DEF e
      <3> QED  BY <2>1, <2>3, HonestWrite
    <2>5. \A x \in Calls : Judged(x)'
      BY <2>1, <2>2, JudgedGoto
    <2> QED  BY <2>4, <2>5 DEF VerdictInv
  <1>5. ASSUME NEW c \in Calls, Link(c)
        PROVE  VerdictInv'
    <2> DEFINE e == EntryOf(c, "ZonePromotion")
    <2>1. /\ place[c] = "linking" /\ UNCHANGED call
          /\ Emit(e) \/ EmitFails(e)
          /\ Goto(c, "promoted") \/ Goto(c, "raised")
      BY <1>5 DEF Link
    <2>2. JudgmentOf(c) # "FAIL" /\ call[c] # None
      BY <2>1 DEF VerdictInv, Judged
    <2>3. e \in Entry /\ Honest(e)
      BY <2>2, EntryType DEF Honest, EntryOf
    <2>4. \A n \in DOMAIN trail' : Honest(trail[n])'
      <3> HIDE DEF e
      <3> QED  BY <2>1, <2>3, HonestWrite
    <2>5. \A x \in Calls : Judged(x)'
      BY <2>1, <2>2, JudgedGoto
    <2> QED  BY <2>4, <2>5 DEF VerdictInv
  <1>6. ASSUME NEW c \in Calls, Crash(c)
        PROVE  VerdictInv'
    <2>1. place[c] # "uncalled" /\ Goto(c, "dead") /\ UNCHANGED <<call, trail>>
      BY <1>6 DEF Crash, Running
    <2>2. \A x \in Calls : Judged(x)'
      BY <2>1, JudgedGoto
    <2>3. \A n \in DOMAIN trail' : Honest(trail[n])'
      BY <2>1 DEF VerdictInv, Honest, JudgmentOf
    <2> QED  BY <2>2, <2>3 DEF VerdictInv
  <1> QED  BY <1>1, <1>2, <1>3, <1>4, <1>5, <1>6 DEF Next

LEMMA VerdictAlways == Spec => []VerdictInv
  <1>1. Init => VerdictInv
    BY DEF Init, Empty, VerdictInv, Judged
  <1>2. TypeOK /\ VerdictInv /\ [Next]_vars => VerdictInv'
    BY VerdictStep
  <1> QED  BY <1>1, <1>2, TypeCorrect, PTL DEF Spec

-----------------------------------------------------------------------------
(* What the verdicts mean *)

\* What a policy refuses, a stricter one refuses.
LEMMA StricterFails ==
    ASSUME NEW b \in Bundle, NEW p \in Policy, NEW q \in Policy,
           Stricter(q, p), Judgment(b, p) = "FAIL"
    PROVE  Judgment(b, q) = "FAIL"
  <1>1. Cardinality(RequiredScenarios(b)) \in Nat
    <2>1. RequiredScenarios(b) \subseteq Scenarios
      BY DEF RequiredScenarios
    <2> QED  BY <2>1, ScenariosAssumption, FS_Subset, FS_CardinalityType
  <1>2. EnoughScenarios(b, q) => EnoughScenarios(b, p)
    BY <1>1 DEF EnoughScenarios, Stricter, Policy
  <1>3. \A c : Met(c, b, q) => Met(c, b, p)
    BY <1>2 DEF Met, Stricter
  <1>4. PICK c \in p.required : ~ Met(c, b, p)
    BY DEF Judgment
  <1> QED  BY <1>3, <1>4 DEF Judgment, Stricter

\* The parts of a call that was made.
LEMMA CallParts ==
    ASSUME TypeOK, NEW c \in Calls, call[c] # None
    PROVE  call[c].bundle \in Bundle /\ call[c].policy \in Policy
  <1>1. call[c] \in Call
    BY DEF TypeOK
  <1> QED  BY <1>1, BundlesAssumption, PoliciesAssumption DEF Call

\* Under the stricter of two policies a bundle that the other refuses gets no
\* receipt.
THEOREM StricterIsStricter == Spec => []StricterRefuses
  <1>1. TypeOK /\ VerdictInv => StricterRefuses
    <2> SUFFICES ASSUME TypeOK, VerdictInv, NEW c \in Calls, NEW d \in Calls,
                        call[c] # None, call[d] # None,
                        call[c].bundle = call[d].bundle,
                        Stricter(call[d].policy, call[c].policy),
                        place[c] \in {"refusing", "refused"},
                        Has(d, "ProofArtifact")
                 PROVE  FALSE
      BY DEF StricterRefuses
    <2>1. JudgmentOf(c) = "FAIL"
      BY DEF VerdictInv, Judged
    <2>2. JudgmentOf(d) = "FAIL"
      BY <2>1, CallParts, StricterFails DEF JudgmentOf
    <2>3. PICK n \in DOMAIN trail : trail[n].by = d /\ trail[n].type = "ProofArtifact"
      BY DEF Has, HasBefore
    <2>4. Honest(trail[n])
      BY <2>3 DEF VerdictInv
    <2>5. trail[n] \in Entry
      BY <2>3 DEF TypeOK, LedgerOK
    <2> QED  BY <2>2, <2>3, <2>4 DEF Honest
  <1> QED  BY <1>1, TypeCorrect, VerdictAlways, PTL

\* A receipt over violations says so, and rests on waivers its policy allows.
THEOREM WaiversAreShown == Spec => []WaiversShown
  <1>1. TypeOK /\ VerdictInv => WaiversShown
    <2> SUFFICES ASSUME TypeOK, VerdictInv, NEW n \in DOMAIN trail, NEW c,
                        c = trail[n].by, trail[n].type = "ProofArtifact",
                        "violations" \in call[c].policy.required,
                        call[c].bundle.violations # {}
                 PROVE  /\ trail[n].judgment = "WAIVER"
                        /\ call[c].policy.waivers
                        /\ "unapproved" \notin call[c].bundle.violations
      BY DEF WaiversShown
    <2>1. Honest(trail[n]) /\ trail[n] \in Entry
      BY DEF VerdictInv, TypeOK, LedgerOK
    <2>2. JudgmentOf(c) # "FAIL" /\ trail[n].judgment = JudgmentOf(c)
      BY <2>1 DEF Honest
    <2>3. Met("violations", call[c].bundle, call[c].policy)
      BY <2>2 DEF JudgmentOf, Judgment
    <2>4. call[c].bundle.violations = {"approved"} /\ call[c].policy.waivers
      BY <2>3 DEF Met
    <2> QED  BY <2>2, <2>4 DEF JudgmentOf, Judgment
  <1> QED  BY <1>1, TypeCorrect, VerdictAlways, PTL

-----------------------------------------------------------------------------
(* The receipt law *)

\* What a call has on the ledger, by how far it has come.
Recorded(c) ==
    /\ place[c] \in {"uncalled", "publishing", "denied", "refusing", "refused"} =>
          ~ Has(c, "ProofArtifact") /\ ~ Has(c, "ZonePromotion")
    /\ place[c] = "refused" => Has(c, "PolicyException")
    /\ place[c] = "linking" => Has(c, "ProofArtifact")
    /\ place[c] = "promoted" =>
          \E n \in DOMAIN trail :
              trail[n] = EntryOf(c, "ZonePromotion") /\ HasBefore(c, "ProofArtifact", n)

RecordInv == \A c \in Calls : Recorded(c)

\* What one more entry puts on the ledger.
LEMMA AppendHas ==
    ASSUME TypeOK, NEW e \in Entry, trail' = Append(trail, e)
    PROVE  /\ \A c, type : Has(c, type)' <=> Has(c, type) \/ (e.by = c /\ e.type = type)
           /\ \A c, type, n : n \in DOMAIN trail /\ HasBefore(c, type, n)
                                  => HasBefore(c, type, n)'
           /\ \A c, type, n : n = Len(trail) + 1 /\ Has(c, type) => HasBefore(c, type, n)'
           /\ \A n \in DOMAIN trail : n \in DOMAIN trail' /\ trail'[n] = trail[n]
           /\ Len(trail) + 1 \in DOMAIN trail' /\ trail'[Len(trail) + 1] = e
  <1>1. trail \in Seq(Entry) /\ Len(trail) \in Nat
    BY DEF TypeOK, LedgerOK
  <1>2. /\ Len(trail') = Len(trail) + 1
        /\ DOMAIN trail = 1..Len(trail) /\ DOMAIN trail' = 1..(Len(trail) + 1)
        /\ \A n \in DOMAIN trail : trail'[n] = trail[n]
        /\ trail'[Len(trail) + 1] = e
    BY <1>1
  <1>3. \A c, type : Has(c, type)' <=> Has(c, type) \/ (e.by = c /\ e.type = type)
    BY <1>1, <1>2 DEF Has, HasBefore
  <1>4. \A c, type, n : n \in DOMAIN trail /\ HasBefore(c, type, n) => HasBefore(c, type, n)'
    BY <1>1, <1>2 DEF HasBefore
  <1>5. \A c, type, n : n = Len(trail) + 1 /\ Has(c, type) => HasBefore(c, type, n)'
    BY <1>1, <1>2 DEF Has, HasBefore
  <1> QED  BY <1>1, <1>2, <1>3, <1>4, <1>5

\* On a ledger that stays whole, what returns is written and what raises is not.
LEMMA WriteOrNot ==
    ASSUME TypeOK, Whole, Whole', NEW e
    PROVE  /\ Emit(e) => trail' = Append(trail, e)
           /\ EmitFails(e) => trail' = trail
  BY DEF TypeOK, LedgerOK, Emit, EmitFails, Whole

\* A ledger that is whole was so before.
LEMMA WholeBefore ==
    ASSUME [Next]_vars, Whole'
    PROVE  Whole
  <1>1. CASE UNCHANGED tail
    BY <1>1 DEF Whole
  <1>2. ASSUME NEW e, Emit(e) \/ EmitFails(e)
        PROVE  Whole
    BY <1>2 DEF Emit, EmitFails, Glued, Whole
  <1> QED  BY <1>1, <1>2 DEF Next, vars, Evaluate, Refuse, Publish, Link, Crash

\* A call that goes on without touching the ledger or the calls keeps the
\* others' records.
LEMMA SameLedger ==
    ASSUME TypeOK, UNCHANGED trail, NEW x \in Calls, Recorded(x),
           place'[x] = place[x], call'[x] = call[x]
    PROVE  Recorded(x)'
  BY DEF Recorded, Has, HasBefore, EntryOf, JudgmentOf

\* So does one that writes an entry of its own.
LEMMA OthersEntry ==
    ASSUME TypeOK, NEW e \in Entry, trail' = Append(trail, e), UNCHANGED call,
           NEW x \in Calls, Recorded(x), place'[x] = place[x], e.by # x
    PROVE  Recorded(x)'
  <1>1. \A type : Has(x, type)' <=> Has(x, type)
    BY AppendHas
  <1>2. \A type : EntryOf(x, type)' = EntryOf(x, type)
    BY DEF EntryOf, JudgmentOf
  <1>3. ASSUME NEW n \in DOMAIN trail, trail[n] = EntryOf(x, "ZonePromotion"),
               HasBefore(x, "ProofArtifact", n)
        PROVE  \E m \in DOMAIN trail' :
                   /\ trail'[m] = EntryOf(x, "ZonePromotion")'
                   /\ HasBefore(x, "ProofArtifact", m)'
    BY <1>2, <1>3, AppendHas
  <1> QED  BY <1>1, <1>3 DEF Recorded

\* The records of all calls are kept by every step.
LEMMA RecordedStep ==
    ASSUME TypeOK, RecordInv, Whole, Whole', [Next]_vars
    PROVE  RecordInv'
  <1> SUFFICES ASSUME NEW x \in Calls
               PROVE  Recorded(x)'
    BY DEF RecordInv
  <1>1. Recorded(x)
    BY DEF RecordInv
  <1>2. CASE UNCHANGED vars
    BY <1>1, <1>2, SameLedger DEF vars
  <1>3. ASSUME NEW c \in Calls, NEW i \in Images, NEW b \in Bundles, NEW p \in Policies,
               Evaluate(c, i, b, p)
        PROVE  Recorded(x)'
    <2>1. CASE x = c
      <3>1. /\ ~ Has(x, "ProofArtifact") /\ ~ Has(x, "ZonePromotion")
            /\ UNCHANGED trail /\ place'[x] \in {"refusing", "publishing"}
        BY <1>1, <1>3, <2>1 DEF Evaluate, Recorded, Goto, TypeOK
      <3> QED  BY <3>1 DEF Recorded, Has, HasBefore
    <2>2. CASE x # c
      BY <1>1, <1>3, <2>2, SameLedger DEF Evaluate, Goto, TypeOK
    <2> QED  BY <2>1, <2>2
  <1>4. ASSUME NEW c \in Calls, Refuse(c)
        PROVE  Recorded(x)'
    <2> DEFINE e == EntryOf(c, "PolicyException")
    <2>1. e \in Entry /\ e.by = c /\ e.type = "PolicyException"
      BY EntryType DEF EntryOf
    <2>2. /\ place[c] = "refusing" /\ UNCHANGED call
          /\ \/ trail' = Append(trail, e) /\ Goto(c, "refused")
             \/ trail' = trail /\ Goto(c, "raised")
      BY <1>4, WriteOrNot DEF Refuse
    <2> HIDE DEF e
    <2>3. CASE x # c
      <3>1. place'[x] = place[x]
        BY <2>2, <2>3 DEF Goto, TypeOK
      <3> QED  BY <1>1, <2>1, <2>2, <2>3, <3>1, SameLedger, OthersEntry
    <2>4. CASE x = c /\ trail' = trail /\ Goto(c, "raised")
      BY <2>4 DEF Recorded, Goto, TypeOK
    <2>5. CASE x = c /\ trail' = Append(trail, e) /\ Goto(c, "refused")
      <3>1. place'[x] = "refused"
        BY <2>5 DEF Goto, TypeOK
      <3>2. ~ Has(x, "ProofArtifact") /\ ~ Has(x, "ZonePromotion")
        BY <1>1, <2>2, <2>5 DEF Recorded
      <3>3. ~ Has(x, "ProofArtifact")' /\ ~ Has(x, "ZonePromotion")' /\ Has(x, "PolicyException")'
        BY <2>1, <2>5, <3>2, AppendHas
      <3> QED  BY <3>1, <3>3 DEF Recorded
    <2> QED  BY <2>2, <2>3, <2>4, <2>5
  <1>5. ASSUME NEW c \in Calls, Publish(c)
        PROVE  Recorded(x)'
    <2> DEFINE e == EntryOf(c, "ProofArtifact")
    <2>1. e \in Entry /\ e.by = c /\ e.type = "ProofArtifact"
      BY EntryType DEF EntryOf
    <2>2. /\ place[c] = "publishing" /\ UNCHANGED call
          /\ \/ trail' = Append(trail, e) /\ Goto(c, "linking")
             \/ trail' = trail /\ (Goto(c, "denied") \/ Goto(c, "raised"))
      BY <1>5, WriteOrNot DEF Publish
    <2> HIDE DEF e
    <2>3. CASE x # c
      <3>1. place'[x] = place[x]
        BY <2>2, <2>3 DEF Goto, TypeOK
      <3> QED  BY <1>1, <2>1, <2>2, <2>3, <3>1, SameLedger, OthersEntry
    <2>4. CASE x = c /\ trail' = trail /\ Goto(c, "denied")
      <3>1. place'[x] = "denied" /\ ~ Has(x, "ProofArtifact") /\ ~ Has(x, "ZonePromotion")
        BY <1>1, <2>2, <2>4 DEF Recorded, Goto, TypeOK
      <3> QED  BY <2>4, <3>1 DEF Recorded, Has, HasBefore
    <2>5. CASE x = c /\ trail' = Append(trail, e) /\ Goto(c, "linking")
      <3>1. place'[x] = "linking"
        BY <2>5 DEF Goto, TypeOK
      <3>2. Has(x, "ProofArtifact")'
        BY <2>1, <2>5, AppendHas
      <3> QED  BY <3>1, <3>2 DEF Recorded
    <2>6. CASE x = c /\ trail' = trail /\ Goto(c, "raised")
      BY <2>6 DEF Recorded, Goto, TypeOK
    <2> QED  BY <2>2, <2>3, <2>4, <2>5, <2>6
  <1>6. ASSUME NEW c \in Calls, Link(c)
        PROVE  Recorded(x)'
    <2> DEFINE e == EntryOf(c, "ZonePromotion")
    <2>1. e \in Entry /\ e.by = c
      BY EntryType DEF EntryOf
    <2>2. /\ place[c] = "linking" /\ UNCHANGED call
          /\ \/ trail' = Append(trail, e) /\ Goto(c, "promoted")
             \/ trail' = trail /\ Goto(c, "raised")
      BY <1>6, WriteOrNot DEF Link
    <2>3. EntryOf(c, "ZonePromotion")' = e
      BY <2>2 DEF EntryOf, JudgmentOf
    <2> HIDE DEF e
    <2>4. CASE x # c
      <3>1. place'[x] = place[x]
        BY <2>2, <2>4 DEF Goto, TypeOK
      <3> QED  BY <1>1, <2>1, <2>2, <2>4, <3>1, SameLedger, OthersEntry
    <2>5. CASE x = c /\ trail' = trail /\ Goto(c, "raised")
      BY <2>5 DEF Recorded, Goto, TypeOK
    <2>6. CASE x = c /\ trail' = Append(trail, e) /\ Goto(c, "promoted")
      <3>1. place'[x] = "promoted"
        BY <2>6 DEF Goto, TypeOK
      <3>2. Has(x, "ProofArtifact")
        BY <1>1, <2>2, <2>6 DEF Recorded
      <3>3. \E n \in DOMAIN trail' : /\ trail'[n] = EntryOf(x, "ZonePromotion")'
                                     /\ HasBefore(x, "ProofArtifact", n)'
        BY <2>1, <2>3, <2>6, <3>2, AppendHas
      <3> QED  BY <3>1, <3>3 DEF Recorded
    <2> QED  BY <2>2, <2>4, <2>5, <2>6
  <1>7. ASSUME NEW c \in Calls, Crash(c)
        PROVE  Recorded(x)'
    <2>1. CASE x = c
      BY <1>7, <2>1 DEF Crash, Goto, TypeOK, Recorded
    <2>2. CASE x # c
      BY <1>1, <1>7, <2>2, SameLedger DEF Crash, Goto, TypeOK
    <2> QED  BY <2>1, <2>2
  <1> QED  BY <1>2, <1>3, <1>4, <1>5, <1>6, <1>7 DEF Next

LEMMA RecordedAlways == Spec => [](Whole => RecordInv)
  <1>1. Init => RecordInv
    BY DEF Init, Empty, RecordInv, Recorded, Has, HasBefore
  <1>2. TypeOK /\ (Whole => RecordInv) /\ [Next]_vars => (Whole => RecordInv)'
    BY RecordedStep, WholeBefore
  <1> QED  BY <1>1, <1>2, TypeCorrect, PTL DEF Spec

\* What the records say of a promotion that returns, and of one that does not.
LEMMA RecordsSay ==
    /\ VerdictInv /\ RecordInv => PromotedIsReceipted
    /\ RecordInv => RefusedIsRecorded
    /\ tail = "clean" => Whole
    /\ WriteFaults \subseteq {"torn"} => Whole
  BY DEF VerdictInv, Judged, RecordInv, Recorded, PromotedIsReceipted, RefusedIsRecorded,
         Whole

\* As long as the ledger ends in a newline, whatever died and however writes
\* fail, a promotion that returned has its receipt on it and after it the link,
\* both with a verdict that lets it pass, and one refused or denied has not.
THEOREM WholeReceipts ==
    Spec => [](tail = "clean" => PromotedIsReceipted /\ RefusedIsRecorded)
  <1> QED  BY RecordsSay, VerdictAlways, RecordedAlways, PTL

\* A promotion that returns has its receipt on the ledger, and after it the
\* link, both with a verdict that lets it pass.
THEOREM ReceiptLaw ==
    ASSUME WriteFaults \subseteq {"torn"}
    PROVE  Spec => []PromotedIsReceipted
  <1> QED  BY RecordsSay, VerdictAlways, RecordedAlways, PTL

\* A refused promotion leaves its PolicyException and no receipt; one denied
\* for want of a receipt leaves neither receipt nor link.
THEOREM RefusalIsRecorded ==
    ASSUME WriteFaults \subseteq {"torn"}
    PROVE  Spec => []RefusedIsRecorded
  <1> QED  BY RecordsSay, RecordedAlways, PTL
=============================================================================
