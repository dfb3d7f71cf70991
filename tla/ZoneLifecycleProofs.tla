------------------------ MODULE ZoneLifecycleProofs ------------------------
(***************************************************************************)
(* Proofs about the zone lifecycle for any artifacts, facts and length of  *)
(* ledger.  The argument: whatever a controller holds, in its state or in  *)
(* the assignment it is about to make, is what the ledger tells, since the *)
(* event comes first and a write that raises leaves no readable event; and *)
(* where one did leave one, the ledger is never whole again, and all it    *)
(* can still do is lose that event.                                        *)
(***************************************************************************)
EXTENDS ZoneLifecycle, TLAPS, WellFoundedInduction

-----------------------------------------------------------------------------
(* What the ledger tells *)

Less == {ss \in Nat \X Nat : ss[1] < ss[2]}

\* Some positions, all below a bound, have a last one.
LEMMA MaxIn ==
    ASSUME NEW k \in Nat, NEW S \in SUBSET (1..k), S # {}
    PROVE  Max(S) \in S /\ \A i \in S : i <= Max(S)
  <1> DEFINE T == {i \in Nat : k - i \in S}
  <1>1. T # {}
    <2>1. PICK i \in S : TRUE
      OBVIOUS
    <2>2. k - i \in Nat /\ k - (k - i) = i
      BY <2>1
    <2> QED  BY <2>1, <2>2
  <1>2. PICK m \in T : \A i \in T : m <= i
    <2>1. IsWellFoundedOn(Less, Nat)
      BY NatLessThanWellFounded, Zenon DEF OpToRel, Less
    <2>2. T \subseteq Nat
      OBVIOUS
    <2>3. \E m \in T : \A i \in T : ~ (<<i, m>> \in Less)
      BY <1>1, <2>1, <2>2, WFMin, Zenon
    <2>4. \A i \in T, m \in T : ~ (<<i, m>> \in Less) => m <= i
      BY <2>2 DEF Less
    <2> QED  BY <2>3, <2>4
  <1>3. k - m \in S
    BY <1>2
  <1>4. ASSUME NEW i \in S
        PROVE  k - m >= i
    <2>1. k - i \in Nat /\ k - (k - i) = i
      OBVIOUS
    <2>2. m <= k - i
      BY <1>2, <2>1
    <2> QED  BY <1>2, <2>1, <2>2
  <1>5. \E x \in S : \A y \in S : x >= y
    BY <1>3, <1>4
  <1>6. Max(S) \in S /\ \A y \in S : Max(S) >= y
    BY <1>5, Zenon DEF Max
  <1> QED  BY <1>6

\* Two ledgers that agree before n tell the same zone and retirement there.
LEMMA Agreeing ==
    ASSUME NEW t \in Seq(Event), NEW u \in Seq(Event), NEW n \in Nat \ {0},
           n <= Len(t) + 1, n <= Len(u) + 1,
           \A i \in 1..(n - 1) : t[i] = u[i],
           NEW a
    PROVE  ZoneAt(t, a, n) = ZoneAt(u, a, n) /\ RetiredAt(t, a, n) = RetiredAt(u, a, n)
  <1>1. MovesBefore(t, a, n) = MovesBefore(u, a, n)
    BY DEF MovesBefore
  <1>2. MovesBefore(t, a, n) \subseteq 1..(n - 1)
    BY DEF MovesBefore
  <1>3. CASE MovesBefore(t, a, n) = {}
    BY <1>1, <1>3 DEF ZoneAt, RetiredAt
  <1>4. CASE MovesBefore(t, a, n) # {}
    <2>1. Max(MovesBefore(t, a, n)) \in 1..(n - 1)
      BY <1>2, <1>4, MaxIn, n - 1 \in Nat
    <2>2. t[Max(MovesBefore(t, a, n))] = u[Max(MovesBefore(u, a, n))]
      BY <1>1, <2>1
    <2>3. ZoneAt(t, a, n) = ZoneAt(u, a, n)
      BY <1>1, <1>4, <2>2 DEF ZoneAt
    <2>4. RetiredAt(t, a, n) = RetiredAt(u, a, n)
      BY DEF RetiredAt
    <2> QED  BY <2>3, <2>4
  <1> QED  BY <1>3, <1>4

\* A ledger and one made longer by an event agree on what came before.
LEMMA AppendAgrees ==
    ASSUME NEW t \in Seq(Event), NEW e \in Event, NEW n \in 1..(Len(t) + 1), NEW a
    PROVE  /\ ZoneAt(Append(t, e), a, n) = ZoneAt(t, a, n)
           /\ RetiredAt(Append(t, e), a, n) = RetiredAt(t, a, n)
  <1>1. Append(t, e) \in Seq(Event) /\ Len(Append(t, e)) = Len(t) + 1
    OBVIOUS
  <1>2. \A i \in 1..(n - 1) : Append(t, e)[i] = t[i]
    OBVIOUS
  <1>3. n \in Nat \ {0} /\ n <= Len(t) + 1 /\ n <= Len(Append(t, e)) + 1
    BY <1>1
  <1> QED  BY <1>1, <1>2, <1>3, Agreeing, Zenon

\* A move puts its artifact where it says, and any other event leaves every
\* artifact where it was.
LEMMA AppendZone ==
    ASSUME NEW t \in Seq(Event), NEW e \in Event, NEW a \in Artifacts
    PROVE  ZoneAt(Append(t, e), a, Len(t) + 2) =
               IF e.artifact = a /\ e.type \in Moves THEN e.to ELSE ZoneAt(t, a, Len(t) + 1)
  <1> DEFINE u == Append(t, e)
             new == MovesBefore(u, a, Len(t) + 2)
             old == MovesBefore(t, a, Len(t) + 1)
  <1>1. /\ u \in Seq(Event) /\ Len(u) = Len(t) + 1
        /\ u[Len(t) + 1] = e
        /\ \A i \in 1..Len(t) : u[i] = t[i]
    OBVIOUS
  <1> HIDE DEF u
  <1>2. CASE e.artifact = a /\ e.type \in Moves
    <2>1. Len(t) + 1 \in new /\ new \subseteq 1..(Len(t) + 1)
      BY <1>1, <1>2 DEF MovesBefore
    <2>2. Max(new) = Len(t) + 1
      <3>1. Max(new) \in new /\ \A i \in new : i <= Max(new)
        <4>1. Len(t) + 1 \in Nat /\ new # {} /\ new \in SUBSET (1..(Len(t) + 1))
          BY <2>1
        <4> HIDE DEF new
        <4> QED  BY <4>1, MaxIn, Zenon
      <3> QED  BY <2>1, <3>1
    <2>3. ZoneAt(u, a, Len(t) + 2) = e.to
      BY <1>1, <2>1, <2>2 DEF ZoneAt
    <2> QED  BY <1>2, <2>3 DEF u
  <1>3. CASE ~ (e.artifact = a /\ e.type \in Moves)
    <2>1. new = old
      BY <1>1, <1>3 DEF MovesBefore
    <2>2. old \subseteq 1..Len(t)
      BY DEF MovesBefore
    <2>3. old # {} => u[Max(new)] = t[Max(old)]
      <3>1. Len(t) \in Nat /\ old \in SUBSET (1..Len(t))
        BY <2>2
      <3>2. old # {} => Max(old) \in old
        <4> HIDE DEF old
        <4> QED  BY <3>1, MaxIn, Zenon
      <3> QED  BY <1>1, <2>1, <2>2, <3>2
    <2>4. ZoneAt(u, a, Len(t) + 2) = ZoneAt(t, a, Len(t) + 1)
      BY <2>1, <2>3 DEF ZoneAt
    <2> QED  BY <1>3, <2>4 DEF u
  <1> QED  BY <1>2, <1>3

\* A retirement retires its artifact and no other event does.
LEMMA AppendRetired ==
    ASSUME NEW t \in Seq(Event), NEW e \in Event, NEW a \in Artifacts
    PROVE  RetiredAt(Append(t, e), a, Len(t) + 2) =
               (RetiredAt(t, a, Len(t) + 1) \/ (e.artifact = a /\ e.type = "Retirement"))
  <1> DEFINE u == Append(t, e)
  <1>1. /\ Len(u) = Len(t) + 1 /\ DOMAIN u = 1..(Len(t) + 1)
        /\ u[Len(t) + 1] = e
        /\ \A i \in 1..Len(t) : u[i] = t[i]
    OBVIOUS
  <1> HIDE DEF u
  <1>2. ASSUME RetiredAt(u, a, Len(t) + 2), ~ (e.artifact = a /\ e.type = "Retirement")
        PROVE  RetiredAt(t, a, Len(t) + 1)
    BY <1>1, <1>2 DEF RetiredAt
  <1>3. ASSUME RetiredAt(t, a, Len(t) + 1)
        PROVE  RetiredAt(u, a, Len(t) + 2)
    BY <1>1, <1>3 DEF RetiredAt
  <1>4. ASSUME e.artifact = a /\ e.type = "Retirement"
        PROVE  RetiredAt(u, a, Len(t) + 2)
    BY <1>1, <1>4 DEF RetiredAt
  <1> QED  BY <1>2, <1>3, <1>4 DEF u, RetiredAt

\* The ledger tells a zone and whether there was a retirement.
LEMMA ReplayType ==
    ASSUME TypeOK, NEW a \in Artifacts
    PROVE  Replay(trail, a) \in State
  <1> DEFINE moves == MovesBefore(trail, a, Len(trail) + 1)
  <1>1. trail \in Seq(Event) /\ Len(trail) \in Nat /\ born[a] \in Zones
    BY DEF TypeOK, LedgerOK
  <1>2. moves \in SUBSET (1..Len(trail))
    BY <1>1 DEF MovesBefore
  <1>3. moves # {} => Max(moves) \in moves
    <2> HIDE DEF moves
    <2> QED  BY <1>1, <1>2, MaxIn, Zenon
  <1>4. \A i \in moves : trail[i].to \in Zones
    <2>1. \A i \in moves : trail[i] \in Event /\ trail[i].type \in Moves
      BY <1>1, <1>2 DEF MovesBefore
    <2> QED  BY <2>1 DEF Event, Moves, Attempts
  <1>5. ZoneAt(trail, a, Len(trail) + 1) \in Zones
    BY <1>1, <1>3, <1>4 DEF ZoneAt
  <1> QED  BY <1>5 DEF Replay, State, RetiredAt

\* What one more event tells.
LEMMA AppendReplay ==
    ASSUME TypeOK, NEW e \in Event, NEW a \in Artifacts
    PROVE  Replay(Append(trail, e), a) =
               [zone |-> IF e.artifact = a /\ e.type \in Moves
                         THEN e.to ELSE Replay(trail, a).zone,
                retired |-> Replay(trail, a).retired
                                \/ (e.artifact = a /\ e.type = "Retirement")]
  <1>1. trail \in Seq(Event) /\ Len(Append(trail, e)) + 1 = Len(trail) + 2
    BY DEF TypeOK, LedgerOK
  <1> QED  BY <1>1, AppendZone, AppendRetired, ZenonT(40) DEF Replay

-----------------------------------------------------------------------------
(* Type correctness *)

\* A call that may emit keeps the types of the ledger and of what is pending.
LEMMA RecordType ==
    ASSUME TypeOK, NEW a \in Artifacts, NEW e \in Event, NEW next \in State \cup {None},
           Record(a, e, next)
    PROVE  TypeOK'
  <1>1. trail' \in Seq(Event) /\ tail' \in {"clean", "torn"} \cup WriteFaults
    <2>1. trail \in Seq(Event) /\ tail \in {"clean", "torn"} \cup WriteFaults
      BY DEF TypeOK, LedgerOK
    <2>2. CASE Glued
      <3>1. \A i \in 1..(Len(trail) - 1) : trail[i] \in Event
        BY <2>1
      <3> QED  BY <2>1, <2>2, <3>1 DEF Glued
    <2>3. CASE tail' = tail /\ trail' \in {trail, Append(trail, e)}
      BY <2>1, <2>3
    <2>4. CASE "torn" \in WriteFaults /\ tail' = "torn" /\ UNCHANGED trail
      BY <2>1, <2>4
    <2>5. CASE "unterminated" \in WriteFaults /\ trail' = Append(trail, e) /\ tail' = "unterminated"
      BY <2>1, <2>5
    <2> QED  BY <2>2, <2>3, <2>4, <2>5 DEF Record, Emit, EmitFails
  <1>2. pending' \in [Artifacts -> State \cup {None}]
    BY DEF Record, TypeOK
  <1> QED  BY <1>1, <1>2 DEF Record, TypeOK, LedgerOK

\* The events of a's controller and of its intake are events.
LEMMA EventTypes ==
    ASSUME TypeOK, NEW a \in Artifacts
    PROVE  /\ \A type \in Attempts, z \in Zones : Move(type, a, z) \in Event
           /\ \A type \in {"Retirement", "Intake"} : [type |-> type, artifact |-> a] \in Event
           /\ zone[a] \in Zones /\ retired[a] \in BOOLEAN
           /\ zone[a] < Diamond => zone[a] + 1 \in Zones
           /\ \A z \in Zones, r \in BOOLEAN : [zone |-> z, retired |-> r] \in State
  BY DEF TypeOK, Move, Event, State, Zones, Discovery, Diamond

\* The states of the artifacts, the calls in progress and the ledger have
\* their types.
THEOREM TypeCorrect == Spec => []TypeOK
  <1>1. Init => TypeOK
    BY BirthsAssumption, FactsAssumption DEF Init, Empty, TypeOK, LedgerOK
  <1>2. TypeOK /\ [Next]_vars => TypeOK'
    <2> SUFFICES ASSUME TypeOK, [Next]_vars
                 PROVE  TypeOK'
      OBVIOUS
    <2>1. CASE UNCHANGED vars
      BY <2>1 DEF TypeOK, LedgerOK, vars
    <2>2. ASSUME NEW a \in Artifacts, Promote(a)
          PROVE  TypeOK'
      <3>1. zone[a] + 1 \in Zones /\ "ZonePromotion" \in Attempts
        BY <2>2, EventTypes DEF Promote, Attempts, Moves
      <3> QED  BY <2>2, <3>1, EventTypes, RecordType DEF Promote
    <2>3. ASSUME NEW a \in Artifacts, PromoteRefused(a)
          PROVE  TypeOK'
      <3>1. zone[a] + 1 \in Zones /\ "PolicyException" \in Attempts
        BY <2>3, EventTypes DEF PromoteRefused, Attempts
      <3> QED  BY <2>3, <3>1, EventTypes, RecordType DEF PromoteRefused
    <2>4. ASSUME NEW a \in Artifacts, NEW z \in Zones, Demote(a, z)
          PROVE  TypeOK'
      <3>1. "ZoneDemotion" \in Attempts
        BY DEF Attempts, Moves
      <3> QED  BY <2>4, <3>1, EventTypes, RecordType DEF Demote
    <2>5. ASSUME NEW a \in Artifacts, Retire(a)
          PROVE  TypeOK'
      BY <2>5, EventTypes, RecordType DEF Retire
    <2>6. ASSUME NEW a \in Artifacts, Assign(a)
          PROVE  TypeOK'
      <3>1. pending[a] \in State
        BY <2>6 DEF Assign, TypeOK
      <3>2. pending[a].zone \in Zones /\ pending[a].retired \in BOOLEAN
        BY <3>1 DEF State
      <3> QED  BY <2>6, <3>2 DEF Assign, TypeOK, LedgerOK
    <2>7. ASSUME NEW a \in Artifacts, Crash(a)
          PROVE  TypeOK'
      BY <2>7 DEF Crash, TypeOK, LedgerOK
    <2>8. ASSUME NEW a \in Artifacts, Restore(a)
          PROVE  TypeOK'
      <3>1. Replay(trail, a).zone \in Zones /\ Replay(trail, a).retired \in BOOLEAN
        BY ReplayType DEF State
      <3> QED  BY <2>8, <3>1 DEF Restore, TypeOK, LedgerOK
    <2>9. ASSUME NEW a \in Artifacts, NEW f \in Facts, Assess(a, f)
          PROVE  TypeOK'
      BY <2>9 DEF Assess, TypeOK, LedgerOK
    <2>10. ASSUME NEW a \in Artifacts, RecordIntake(a)
           PROVE  TypeOK'
      <3>1. pending[a] \in State \cup {None}
        BY DEF TypeOK
      <3> QED  BY <2>10, <3>1, EventTypes, RecordType DEF RecordIntake
    <2> QED  BY <2>1, <2>2, <2>3, <2>4, <2>5, <2>6, <2>7, <2>8, <2>9, <2>10 DEF Next
  <1> QED  BY <1>1, <1>2, PTL DEF Spec

-----------------------------------------------------------------------------
(* The controllers know what the ledger tells *)

\* What a live controller holds, or is about to assign, is what the ledger
\* tells; a dead one is about to assign nothing.
InStep(a) ==
    IF pending[a] = None
    THEN alive[a] => Replay(trail, a) = [zone |-> zone[a], retired |-> retired[a]]
    ELSE alive[a] /\ Replay(trail, a) = pending[a]

HistoryInv == \A a \in Artifacts : InStep(a)

\* What holds of an event when it is recorded.
Sound(e) ==
    LET told == Replay(trail, e.artifact)
    IN  /\ e.type \in Attempts => e.from = told.zone /\ ~ told.retired
        /\ e.type = "ZonePromotion" =>
               e.to = told.zone + 1 /\ GateMet(told.zone, facts[e.artifact])
        /\ e.type = "ZoneDemotion" => e.to < told.zone

\* On a whole ledger that stays so, a call either puts its event on it and
\* notes its assignment, or does neither.
LEMMA RecordStep ==
    ASSUME TypeOK, Whole, NEW a \in Artifacts, NEW e, NEW next, Record(a, e, next)
    PROVE  /\ trail' \in {trail, Append(trail, e)}
           /\ Whole' => \/ trail' = Append(trail, e) /\ pending' = [pending EXCEPT ![a] = next]
                        \/ trail' = trail /\ pending' = pending
           /\ UNCHANGED <<born, zone, retired, facts, alive>>
  BY DEF TypeOK, LedgerOK, Record, Emit, EmitFails, Whole

\* A ledger that is not whole only loses its unfinished line, and is not whole
\* again.
LEMMA StaysBroken ==
    ASSUME TypeOK, ~ Whole, [Next]_vars
    PROVE  /\ ~ Whole'
           /\ UNCHANGED born
           /\ UNCHANGED trail \/ (tail = "unterminated" /\ Glued)
  <1>1. ASSUME NEW a, NEW e, NEW next, Record(a, e, next)
        PROVE  /\ ~ Whole'
               /\ UNCHANGED born
               /\ UNCHANGED trail \/ (tail = "unterminated" /\ Glued)
    BY <1>1 DEF Record, Emit, EmitFails, Glued, Whole
  <1>2. CASE UNCHANGED <<born, trail, tail>>
    BY <1>2 DEF Whole
  <1>3. CASE UNCHANGED vars
    BY <1>2, <1>3 DEF vars
  <1>4. ASSUME NEW a \in Artifacts,
               \/ Promote(a) \/ PromoteRefused(a) \/ (\E z \in Zones : Demote(a, z))
               \/ Retire(a) \/ RecordIntake(a)
        PROVE  /\ ~ Whole'
               /\ UNCHANGED born
               /\ UNCHANGED trail \/ (tail = "unterminated" /\ Glued)
    BY <1>1, <1>4 DEF Promote, PromoteRefused, Demote, Retire, RecordIntake
  <1>5. ASSUME NEW a \in Artifacts,
               Assign(a) \/ Crash(a) \/ Restore(a) \/ \E f \in Facts : Assess(a, f)
        PROVE  UNCHANGED <<born, trail, tail>>
    BY <1>5 DEF Assign, Crash, Restore, Assess
  <1> QED  BY <1>2, <1>3, <1>4, <1>5 DEF Next

\* Replay after a step reads the ledger after the step.
LEMMA ReplayNext ==
    ASSUME UNCHANGED born, NEW a
    PROVE  /\ \A e : trail' = Append(trail, e) =>
                  Replay(trail, a)' = Replay(Append(trail, e), a)
           /\ trail' = trail => Replay(trail, a)' = Replay(trail, a)
  BY DEF Replay, ZoneAt, RetiredAt, MovesBefore

\* A call keeps everyone in step if what it notes for its artifact is what the
\* ledger tells with the event on it.
LEMMA RecordInStep ==
    ASSUME TypeOK, HistoryInv, Whole, Whole',
           NEW a \in Artifacts, NEW e \in Event, NEW next \in State \cup {None},
           e.artifact = a, Record(a, e, next),
           IF next = None
           THEN pending[a] = None /\ Replay(Append(trail, e), a) = Replay(trail, a)
           ELSE alive[a] /\ Replay(Append(trail, e), a) = next
    PROVE  HistoryInv'
  <1> SUFFICES ASSUME NEW b \in Artifacts
               PROVE  InStep(b)'
    BY DEF HistoryInv
  <1>1. UNCHANGED <<born, zone, retired, facts, alive>>
    BY RecordStep
  <1>2. InStep(b) /\ pending \in [Artifacts -> State \cup {None}]
    BY DEF HistoryInv, TypeOK
  <1>3. CASE trail' = trail /\ pending' = pending
    <2>1. Replay(trail, b)' = Replay(trail, b)
      BY <1>1, <1>3, ReplayNext
    <2> QED  BY <1>1, <1>2, <1>3, <2>1 DEF InStep
  <1>4. CASE trail' = Append(trail, e) /\ pending' = [pending EXCEPT ![a] = next]
    <2>1. Replay(trail, b)' = Replay(Append(trail, e), b)
      BY <1>1, <1>4, ReplayNext
    <2>2. CASE b = a
      <3>1. pending'[b] = next
        BY <1>2, <1>4, <2>2
      <3> QED  BY <1>1, <1>2, <2>1, <2>2, <3>1 DEF InStep
    <2>3. CASE b # a
      <3>1. pending'[b] = pending[b]
        BY <1>2, <1>4, <2>3
      <3>2. Replay(trail, b) \in State
        BY ReplayType
      <3>3. Replay(Append(trail, e), b) = Replay(trail, b)
        <4>1. Replay(Append(trail, e), b) =
                  [zone |-> Replay(trail, b).zone, retired |-> Replay(trail, b).retired]
          BY <2>3, <3>2, AppendReplay DEF State
        <4> QED  BY <3>2, <4>1 DEF State
      <3> QED  BY <1>1, <1>2, <2>1, <3>1, <3>3 DEF InStep
    <2> QED  BY <2>2, <2>3
  <1> QED  BY <1>3, <1>4, RecordStep

\* What a ready controller knows, and what its events would tell.
LEMMA ReadyTells ==
    ASSUME TypeOK, HistoryInv, NEW a \in Artifacts
    PROVE  /\ Ready(a) => Replay(trail, a) = [zone |-> zone[a], retired |-> retired[a]]
           /\ \A e \in Event :
                 /\ e.artifact = a /\ e.type \in Moves =>
                       Replay(Append(trail, e), a) =
                           [zone |-> e.to, retired |-> Replay(trail, a).retired]
                 /\ e.artifact = a /\ e.type = "Retirement" =>
                       Replay(Append(trail, e), a) =
                           [zone |-> Replay(trail, a).zone, retired |-> TRUE]
                 /\ e.type \in {"PolicyException", "Intake"} =>
                       Replay(Append(trail, e), a) = Replay(trail, a)
  <1>1. InStep(a)
    BY DEF HistoryInv
  <1>2. Replay(trail, a) \in State
    BY ReplayType
  <1>3. Ready(a) => Replay(trail, a) = [zone |-> zone[a], retired |-> retired[a]]
    BY <1>1 DEF InStep, Ready
  <1>4. ASSUME NEW e \in Event, e.artifact = a, e.type \in Moves
        PROVE  Replay(Append(trail, e), a) =
                   [zone |-> e.to, retired |-> Replay(trail, a).retired]
    BY <1>2, <1>4, AppendReplay DEF Moves, State
  <1>5. ASSUME NEW e \in Event, e.artifact = a, e.type = "Retirement"
        PROVE  Replay(Append(trail, e), a) =
                   [zone |-> Replay(trail, a).zone, retired |-> TRUE]
    BY <1>2, <1>5, AppendReplay DEF Moves, State
  <1>6. ASSUME NEW e \in Event, e.type \in {"PolicyException", "Intake"}
        PROVE  Replay(Append(trail, e), a) = Replay(trail, a)
    <2>1. Replay(Append(trail, e), a) =
              [zone |-> Replay(trail, a).zone, retired |-> Replay(trail, a).retired]
      BY <1>2, <1>6, AppendReplay DEF Moves, State
    <2> QED  BY <1>2, <2>1 DEF State
  <1> QED  BY <1>3, <1>4, <1>5, <1>6

\* One step: a whole ledger stays as it is or gains a sound event, and everyone
\* stays in step as long as it is whole.
LEMMA OneStep ==
    ASSUME TypeOK, Whole, HistoryInv, [Next]_vars
    PROVE  /\ Whole' => HistoryInv'
           /\ UNCHANGED born
           /\ \/ UNCHANGED trail
              \/ \E e \in Event : trail' = Append(trail, e) /\ Sound(e)
  <1> DEFINE Goal == /\ Whole' => HistoryInv'
                     /\ UNCHANGED born
                     /\ \/ UNCHANGED trail
                        \/ \E e \in Event : trail' = Append(trail, e) /\ Sound(e)
  <1>1. CASE UNCHANGED vars
    <2>1. UNCHANGED <<born, trail, zone, retired, alive, pending>>
      BY <1>1 DEF vars
    <2>2. \A a \in Artifacts : Replay(trail, a)' = Replay(trail, a)
      BY <2>1, ReplayNext
    <2> QED  BY <2>1, <2>2 DEF HistoryInv, InStep
  <1>2. ASSUME NEW a \in Artifacts, Promote(a)
        PROVE  Goal
    <2> DEFINE e == Move("ZonePromotion", a, zone[a] + 1)
               next == [zone |-> zone[a] + 1, retired |-> FALSE]
    <2>1. /\ e \in Event /\ next \in State
          /\ e.artifact = a /\ e.type = "ZonePromotion"
          /\ e.from = zone[a] /\ e.to = zone[a] + 1
      BY <1>2, EventTypes DEF Promote, Attempts, Moves, Move
    <2>2. Ready(a) /\ ~ retired[a] /\ GateMet(zone[a], facts[a]) /\ Record(a, e, next)
      BY <1>2 DEF Promote
    <2> HIDE DEF e
    <2>3. Replay(trail, a) = [zone |-> zone[a], retired |-> retired[a]]
      BY <2>2, ReadyTells
    <2>4. alive[a] /\ next # None /\ Replay(Append(trail, e), a) = next
      <3>1. Replay(Append(trail, e), a) = [zone |-> e.to, retired |-> Replay(trail, a).retired]
        BY <2>1, ReadyTells DEF Moves
      <3>2. retired[a] = FALSE
        BY <2>2 DEF TypeOK
      <3>3. Replay(Append(trail, e), a) = next
        <4>1. Replay(trail, a).retired = FALSE
          BY <2>3, <3>2
        <4> QED  BY <2>1, <3>1, <4>1
      <3>4. alive[a] /\ next # None
        <4> HIDE DEF next
        <4> QED  BY <2>1, <2>2, NoneAssumption DEF Ready
      <3> QED  BY <3>3, <3>4
    <2>5. ASSUME Whole' PROVE HistoryInv'
      <3> HIDE DEF next
      <3> QED  BY <2>1, <2>2, <2>4, <2>5, RecordInStep
    <2>6. Sound(e)
      BY <2>1, <2>2, <2>3 DEF Sound
    <2> QED  BY <2>1, <2>2, <2>5, <2>6, RecordStep
  <1>3. ASSUME NEW a \in Artifacts, PromoteRefused(a)
        PROVE  Goal
    <2> DEFINE e == Move("PolicyException", a, zone[a] + 1)
    <2>1. /\ e \in Event
          /\ e.artifact = a /\ e.type = "PolicyException"
          /\ e.from = zone[a]
      BY <1>3, EventTypes DEF PromoteRefused, Attempts, Moves, Move
    <2>2. Ready(a) /\ ~ retired[a] /\ Record(a, e, None)
      BY <1>3 DEF PromoteRefused
    <2> HIDE DEF e
    <2>3. Replay(trail, a) = [zone |-> zone[a], retired |-> retired[a]]
      BY <2>2, ReadyTells
    <2>4. pending[a] = None /\ Replay(Append(trail, e), a) = Replay(trail, a)
      BY <2>1, <2>2, ReadyTells DEF Ready
    <2>5. ASSUME Whole' PROVE HistoryInv'
      BY <2>1, <2>2, <2>4, <2>5, RecordInStep
    <2>6. Sound(e)
      BY <2>1, <2>2, <2>3 DEF Sound
    <2> QED  BY <2>1, <2>2, <2>5, <2>6, RecordStep
  <1>4. ASSUME NEW a \in Artifacts, NEW z \in Zones, Demote(a, z)
        PROVE  Goal
    <2> DEFINE e == Move("ZoneDemotion", a, z)
               next == [zone |-> z, retired |-> FALSE]
    <2>1. /\ e \in Event /\ next \in State
          /\ e.artifact = a /\ e.type = "ZoneDemotion"
          /\ e.from = zone[a] /\ e.to = z
      BY <1>4, EventTypes DEF Attempts, Moves, Move
    <2>2. Ready(a) /\ ~ retired[a] /\ z < zone[a] /\ Record(a, e, next)
      BY <1>4 DEF Demote
    <2> HIDE DEF e
    <2>3. Replay(trail, a) = [zone |-> zone[a], retired |-> retired[a]]
      BY <2>2, ReadyTells
    <2>4. alive[a] /\ next # None /\ Replay(Append(trail, e), a) = next
      <3>1. Replay(Append(trail, e), a) = [zone |-> e.to, retired |-> Replay(trail, a).retired]
        BY <2>1, ReadyTells DEF Moves
      <3>2. retired[a] = FALSE
        BY <2>2 DEF TypeOK
      <3>3. Replay(Append(trail, e), a) = next
        <4>1. Replay(trail, a).retired = FALSE
          BY <2>3, <3>2
        <4> QED  BY <2>1, <3>1, <4>1
      <3>4. alive[a] /\ next # None
        <4> HIDE DEF next
        <4> QED  BY <2>1, <2>2, NoneAssumption DEF Ready
      <3> QED  BY <3>3, <3>4
    <2>5. ASSUME Whole' PROVE HistoryInv'
      <3> HIDE DEF next
      <3> QED  BY <2>1, <2>2, <2>4, <2>5, RecordInStep
    <2>6. Sound(e)
      BY <2>1, <2>2, <2>3 DEF Sound
    <2> QED  BY <2>1, <2>2, <2>5, <2>6, RecordStep
  <1>5. ASSUME NEW a \in Artifacts, Retire(a)
        PROVE  Goal
    <2> DEFINE e == [type |-> "Retirement", artifact |-> a]
               next == [zone |-> zone[a], retired |-> TRUE]
    <2>1. /\ e \in Event /\ next \in State
          /\ e.artifact = a /\ e.type = "Retirement"
      BY EventTypes
    <2>2. Ready(a) /\ Record(a, e, next)
      BY <1>5 DEF Retire
    <2> HIDE DEF e
    <2>3. Replay(trail, a) = [zone |-> zone[a], retired |-> retired[a]]
      BY <2>2, ReadyTells
    <2>4. alive[a] /\ next # None /\ Replay(Append(trail, e), a) = next
      <3>1. Replay(Append(trail, e), a) = [zone |-> Replay(trail, a).zone, retired |-> TRUE]
        BY <2>1, ReadyTells
      <3>2. Replay(Append(trail, e), a) = next
        BY <2>3, <3>1
      <3>3. alive[a] /\ next # None
        <4> HIDE DEF next
        <4> QED  BY <2>1, <2>2, NoneAssumption DEF Ready
      <3> QED  BY <3>2, <3>3
    <2>5. ASSUME Whole' PROVE HistoryInv'
      <3> HIDE DEF next
      <3> QED  BY <2>1, <2>2, <2>4, <2>5, RecordInStep
    <2>6. Sound(e)
      BY <2>1 DEF Sound, Attempts, Moves
    <2> QED  BY <2>1, <2>2, <2>5, <2>6, RecordStep
  <1>6. ASSUME NEW a \in Artifacts, RecordIntake(a)
        PROVE  Goal
    <2> DEFINE e == [type |-> "Intake", artifact |-> a]
    <2>1. /\ e \in Event
          /\ e.artifact = a /\ e.type = "Intake"
      BY EventTypes
    <2>2. Record(a, e, pending[a])
      BY <1>6 DEF RecordIntake
    <2> HIDE DEF e
    <2>3. Replay(Append(trail, e), a) = Replay(trail, a)
      BY <2>1, ReadyTells
    <2>4. InStep(a) /\ pending[a] \in State \cup {None}
      BY DEF HistoryInv, TypeOK
    <2>5. ASSUME Whole' PROVE HistoryInv'
      BY <2>1, <2>2, <2>3, <2>4, <2>5, RecordInStep DEF InStep
    <2>6. Sound(e)
      BY <2>1 DEF Sound, Attempts, Moves
    <2> QED  BY <2>1, <2>2, <2>5, <2>6, RecordStep
  <1>7. ASSUME NEW a \in Artifacts, Assign(a)
        PROVE  Goal
    <2>1. UNCHANGED <<born, alive, trail>>
      BY <1>7 DEF Assign
    <2>2. pending[a] \in State /\ InStep(a) /\ pending[a] # None
      BY <1>7 DEF Assign, TypeOK, HistoryInv
    <2>3. Replay(trail, a) = [zone |-> pending[a].zone, retired |-> pending[a].retired]
      BY <2>2 DEF InStep, State
    <2>4. ASSUME NEW b \in Artifacts
          PROVE  InStep(b)'
      <3>1. Replay(trail, b)' = Replay(trail, b)
        BY <2>1, ReplayNext
      <3>2. CASE b = a
        <4>1. zone'[b] = pending[a].zone /\ retired'[b] = pending[a].retired /\ pending'[b] = None
          BY <1>7, <3>2 DEF Assign, TypeOK
        <4> QED  BY <2>3, <3>1, <3>2, <4>1 DEF InStep
      <3>3. CASE b # a
        <4>1. zone'[b] = zone[b] /\ retired'[b] = retired[b] /\ pending'[b] = pending[b]
          BY <1>7, <3>3 DEF Assign, TypeOK
        <4> QED  BY <2>1, <3>1, <4>1 DEF InStep, HistoryInv
      <3> QED  BY <3>2, <3>3
    <2> QED  BY <2>1, <2>4 DEF HistoryInv
  <1>8. ASSUME NEW a \in Artifacts, Crash(a)
        PROVE  Goal
    <2>1. UNCHANGED <<born, zone, retired, trail>>
      BY <1>8 DEF Crash
    <2>2. ASSUME NEW b \in Artifacts
          PROVE  InStep(b)'
      <3>1. Replay(trail, b)' = Replay(trail, b)
        BY <2>1, ReplayNext
      <3>2. IF b = a THEN ~ alive'[b] /\ pending'[b] = None
                     ELSE alive'[b] = alive[b] /\ pending'[b] = pending[b]
        BY <1>8 DEF Crash, TypeOK
      <3> QED  BY <2>1, <3>1, <3>2 DEF InStep, HistoryInv
    <2> QED  BY <2>1, <2>2 DEF HistoryInv
  <1>9. ASSUME NEW a \in Artifacts, Restore(a)
        PROVE  Goal
    <2>1. UNCHANGED <<born, pending, trail>>
      BY <1>9 DEF Restore
    <2>2. Replay(trail, a) \in State /\ InStep(a) /\ ~ alive[a]
      BY <1>9, ReplayType DEF Restore, HistoryInv
    <2>3. /\ pending[a] = None
          /\ Replay(trail, a) =
                 [zone |-> Replay(trail, a).zone, retired |-> Replay(trail, a).retired]
      BY <2>2 DEF InStep, State
    <2>4. ASSUME NEW b \in Artifacts
          PROVE  InStep(b)'
      <3>1. Replay(trail, b)' = Replay(trail, b)
        BY <2>1, ReplayNext
      <3>2. CASE b = a
        <4>1. /\ zone'[b] = Replay(trail, a).zone
              /\ retired'[b] = Replay(trail, a).retired
              /\ pending'[b] = None
          BY <1>9, <2>1, <2>3, <3>2 DEF Restore, TypeOK
        <4> QED  BY <2>3, <3>1, <3>2, <4>1 DEF InStep
      <3>3. CASE b # a
        <4>1. zone'[b] = zone[b] /\ retired'[b] = retired[b] /\ alive'[b] = alive[b]
          BY <1>9, <3>3 DEF Restore, TypeOK
        <4> QED  BY <2>1, <3>1, <4>1 DEF InStep, HistoryInv
      <3> QED  BY <3>2, <3>3
    <2> QED  BY <2>1, <2>4 DEF HistoryInv
  <1>10. ASSUME NEW a \in Artifacts, NEW f \in Facts, Assess(a, f)
         PROVE  Goal
    <2>1. UNCHANGED <<born, zone, retired, pending, alive, trail>>
      BY <1>10 DEF Assess
    <2>2. \A b \in Artifacts : Replay(trail, b)' = Replay(trail, b)
      BY <2>1, ReplayNext
    <2> QED  BY <2>1, <2>2 DEF HistoryInv, InStep
  <1> HIDE DEF Goal
  <1>11. Goal
    BY <1>1, <1>2, <1>3, <1>4, <1>5, <1>6, <1>7, <1>8, <1>9, <1>10 DEF Next, Goal
  <1> QED  BY <1>11 DEF Goal

\* As long as the ledger is whole, the controllers stay in step with it.
LEMMA InStepAlways == Spec => [](Whole => HistoryInv)
  <1>1. Init => HistoryInv
    BY DEF Init, Empty, HistoryInv, InStep, Replay, ZoneAt, RetiredAt, MovesBefore
  <1>2. TypeOK /\ (Whole => HistoryInv) /\ [Next]_vars => (Whole => HistoryInv)'
    BY OneStep, StaysBroken
  <1> QED  BY <1>1, <1>2, TypeCorrect, PTL DEF Spec

-----------------------------------------------------------------------------
(* The theorems *)

\* Whatever died and however writes failed, as long as the ledger ends in a
\* newline it tells the owning zone and the retirement of every artifact whose
\* controller is between two calls.
THEOREM WholeReplays == Spec => [](tail = "clean" => ReplayAgrees)
  <1>1. HistoryInv => ReplayAgrees
    BY DEF HistoryInv, InStep, ReplayAgrees, Ready
  <1>2. tail = "clean" => Whole
    BY DEF Whole
  <1> QED  BY <1>1, <1>2, InStepAlways, PTL

\* And it does so ever after if no write loses just its newline.
THEOREM HistoryReplays ==
    ASSUME WriteFaults \subseteq {"torn"}
    PROVE  Spec => []ReplayAgrees
  <1>1. HistoryInv => ReplayAgrees
    BY DEF HistoryInv, InStep, ReplayAgrees, Ready
  <1>2. Whole
    BY DEF Whole
  <1> QED  BY <1>1, <1>2, InStepAlways, PTL

\* The two facts about positions of the ledger, kept by one more sound event.
LEMMA SoundKeeps ==
    ASSUME TypeOK, UNCHANGED born, NEW e \in Event, trail' = Append(trail, e), Sound(e)
    PROVE  /\ TrailConnected => TrailConnected'
           /\ RetirementTerminal => RetirementTerminal'
  <1> DEFINE u == Append(trail, e)
             end == Len(trail) + 1
  <1>1. /\ trail \in Seq(Event) /\ Len(trail) \in Nat /\ end \in 1..end
        /\ DOMAIN trail = 1..Len(trail) /\ DOMAIN u = 1..end
        /\ \A i \in 1..Len(trail) : u[i] = trail[i] /\ i \in 1..end
        /\ u[end] = e
        /\ \A i \in DOMAIN u : i \in DOMAIN trail \/ i = end
    BY DEF TypeOK, LedgerOK
  <1>2. \A a : \A n \in 1..end : /\ ZoneAt(u, a, n) = ZoneAt(trail, a, n)
                                  /\ RetiredAt(u, a, n) = RetiredAt(trail, a, n)
    BY <1>1, AppendAgrees
  <1>3. trail' = u /\ born' = born
    OBVIOUS
  <1>4. e.type \in Attempts => /\ e.from = ZoneAt(trail, e.artifact, end)
                               /\ ~ RetiredAt(trail, e.artifact, end)
    BY DEF Sound, Replay
  <1> HIDE DEF u, end
  <1>5. ASSUME TrailConnected
        PROVE  \A i \in DOMAIN u : u[i].type \in Attempts => u[i].from = ZoneAt(u, u[i].artifact, i)
    BY <1>1, <1>2, <1>4, <1>5 DEF TrailConnected
  <1>6. ASSUME RetirementTerminal
        PROVE  \A i \in DOMAIN u : u[i].type \in Attempts => ~ RetiredAt(u, u[i].artifact, i)
    BY <1>1, <1>2, <1>4, <1>6 DEF RetirementTerminal
  <1>7. TrailConnected => TrailConnected'
    <2>1. \A a, n : ZoneAt(trail, a, n)' = ZoneAt(u, a, n)
      BY <1>3 DEF ZoneAt, MovesBefore
    <2> QED  BY <1>3, <1>5, <2>1 DEF TrailConnected
  <1>8. RetirementTerminal => RetirementTerminal'
    BY <1>3, <1>6 DEF RetirementTerminal, RetiredAt
  <1> QED  BY <1>7, <1>8

\* They hold of a ledger that loses its last line.
LEMMA ShortKeeps ==
    ASSUME TypeOK, UNCHANGED born, Glued
    PROVE  /\ TrailConnected => TrailConnected'
           /\ RetirementTerminal => RetirementTerminal'
  <1> DEFINE u == SubSeq(trail, 1, Len(trail) - 1)
  <1>1. trail \in Seq(Event) /\ Len(trail) \in Nat /\ DOMAIN trail = 1..Len(trail)
    BY DEF TypeOK, LedgerOK
  <1>2. /\ u \in Seq(Event) /\ DOMAIN u = 1..Len(u) /\ Len(u) <= Len(trail)
        /\ \A i \in 1..Len(u) : u[i] = trail[i] /\ i \in 1..Len(trail)
    <2>1. CASE Len(trail) = 0
      BY <1>1, <2>1
    <2>2. CASE Len(trail) # 0
      <3>1. \A i \in 1..(Len(trail) - 1) : trail[i] \in Event
        BY <1>1
      <3> QED  BY <1>1, <2>2, <3>1
    <2> QED  BY <2>1, <2>2
  <1>3. trail' = u /\ born' = born
    BY DEF Glued
  <1> HIDE DEF u
  <1>4. ASSUME NEW a, NEW n \in 1..Len(u)
        PROVE  ZoneAt(u, a, n) = ZoneAt(trail, a, n) /\ RetiredAt(u, a, n) = RetiredAt(trail, a, n)
    <2>1. n \in Nat \ {0} /\ n <= Len(trail) + 1 /\ n <= Len(u) + 1
      BY <1>1, <1>2
    <2>2. \A i \in 1..(n - 1) : u[i] = trail[i]
      BY <1>2
    <2> QED  BY <1>1, <1>2, <2>1, <2>2, Agreeing, Zenon
  <1>5. \A a, n : ZoneAt(trail, a, n)' = ZoneAt(u, a, n) /\ RetiredAt(trail, a, n)' = RetiredAt(u, a, n)
    BY <1>3 DEF ZoneAt, RetiredAt, MovesBefore
  <1>6. TrailConnected => TrailConnected'
    BY <1>1, <1>2, <1>3, <1>4, <1>5 DEF TrailConnected
  <1>7. RetirementTerminal => RetirementTerminal'
    BY <1>1, <1>2, <1>3, <1>4, <1>5 DEF RetirementTerminal
  <1> QED  BY <1>6, <1>7

\* One step keeps both: only a whole ledger gains an event.
LEMMA TrailStep ==
    ASSUME TypeOK, Whole => HistoryInv, [Next]_vars
    PROVE  /\ TrailConnected => TrailConnected'
           /\ RetirementTerminal => RetirementTerminal'
  <1>1. CASE UNCHANGED <<born, trail>>
    BY <1>1 DEF TrailConnected, RetirementTerminal, ZoneAt, RetiredAt, MovesBefore
  <1>2. CASE Whole
    BY <1>1, <1>2, OneStep, SoundKeeps
  <1>3. CASE ~ Whole
    BY <1>1, <1>3, StaysBroken, ShortKeeps
  <1> QED  BY <1>2, <1>3

\* Every move and every refusal on the ledger starts where the events before
\* it lead to, whatever died and however writes failed.
THEOREM MovesConnected == Spec => []TrailConnected
  <1>1. Init => TrailConnected
    BY DEF Init, Empty, TrailConnected
  <1>2. TypeOK /\ (Whole => HistoryInv) /\ TrailConnected /\ [Next]_vars => TrailConnected'
    BY TrailStep
  <1> QED  BY <1>1, <1>2, TypeCorrect, InStepAlways, PTL DEF Spec

\* Nor does it ever show an attempt to move a retired artifact.
THEOREM RetiredStays == Spec => []RetirementTerminal
  <1>1. Init => RetirementTerminal
    BY DEF Init, Empty, RetirementTerminal
  <1>2. TypeOK /\ (Whole => HistoryInv) /\ RetirementTerminal /\ [Next]_vars
            => RetirementTerminal'
    BY TrailStep
  <1> QED  BY <1>1, <1>2, TypeCorrect, InStepAlways, PTL DEF Spec

\* Of artifact a, the zone the ledger tells rises one step at a time and
\* through a met gate.
Climb(a) ==
    LET told == Replay(trail, a).zone
    IN  Replay(trail, a).zone' > told =>
            Replay(trail, a).zone' = told + 1 /\ GateMet(told, facts[a])

LEMMA ClimbStep ==
    ASSUME TypeOK, Whole => HistoryInv, tail # "unterminated" \/ Whole, [Next]_vars,
           NEW a \in Artifacts
    PROVE  Climb(a)
  <1>1. Replay(trail, a) \in State
    BY ReplayType
  <1>2. Replay(trail, a).zone \in Zones
    BY <1>1 DEF State
  <1>3. UNCHANGED born
    BY OneStep, StaysBroken
  <1>4. CASE UNCHANGED trail
    BY <1>2, <1>3, <1>4, ReplayNext DEF Climb, Zones, Discovery, Diamond
  <1>5. ASSUME NEW e \in Event, trail' = Append(trail, e), Sound(e)
        PROVE  Climb(a)
    <2>1. Replay(trail, a).zone' =
              IF e.artifact = a /\ e.type \in Moves THEN e.to ELSE Replay(trail, a).zone
      BY <1>3, <1>5, ReplayNext, AppendReplay
    <2>2. e.artifact = a /\ e.type \in Moves =>
              \/ e.to = Replay(trail, a).zone + 1 /\ GateMet(Replay(trail, a).zone, facts[a])
              \/ e.to < Replay(trail, a).zone
      BY <1>5 DEF Sound, Moves
    <2>3. e.type \in Moves => e.to \in Zones
      BY DEF Event, Moves, Attempts
    <2> QED  BY <1>2, <2>1, <2>2, <2>3 DEF Climb, Zones, Discovery, Diamond
  <1> QED  BY <1>4, <1>5, OneStep, StaysBroken

\* The zone the ledger tells rises one step at a time and through a met gate,
\* unless a write glues the event before it away: a demotion lost so is a rise.
THEOREM NoGateSkippedUnglued ==
    Spec => [][tail # "unterminated" => \A a \in Artifacts : Climb(a)]_vars
  <1>1. TypeOK /\ (Whole => HistoryInv) /\ [Next]_vars
            => [tail # "unterminated" => \A a \in Artifacts : Climb(a)]_vars
    BY ClimbStep
  <1> QED  BY <1>1, TypeCorrect, InStepAlways, PTL DEF Spec

\* So if no write loses just its newline, no gate is ever skipped.
THEOREM NoGateSkipped ==
    ASSUME WriteFaults \subseteq {"torn"}
    PROVE  Spec => ClimbsByGates
  <1>1. TypeOK /\ (Whole => HistoryInv) /\ [Next]_vars => [\A a \in Artifacts : Climb(a)]_vars
    BY ClimbStep DEF Whole
  <1>2. [][\A a \in Artifacts : Climb(a)]_vars => ClimbsByGates
    BY DEF ClimbsByGates, Climb
  <1> QED  BY <1>1, <1>2, TypeCorrect, InStepAlways, PTL DEF Spec
=============================================================================
