--------------------------- MODULE ZoneLifecycle ---------------------------
(***************************************************************************)
(* tools/zone-lifecycle: promote, demote and retire of artifacts.  Each    *)
(* artifact has one controller, which holds its ArtifactZoneState in       *)
(* memory; the custody events of all of them go to one ledger.  An event   *)
(* is on the ledger before the state moves, so a controller can die in     *)
(* between.                                                                *)
(***************************************************************************)
EXTENDS Ledger, FiniteSetsExt

CONSTANTS
    Artifacts,    \* artifact ids
    Births,       \* zones an ArtifactZoneState is first made with
    Established,  \* gate facts that hold of every artifact at first
    Volatile,     \* gate facts that come and go, for model checking
    None          \* no assignment is pending

\* ZONES, by rank.
Discovery == 0
Diamond == 5
Zones == Discovery..Diamond

\* What the gates read of ArtifactZoneState; a grade counts as E3 or not.
Facts == {"intake done", "hashes computed", "identity complete",
          "grade E3", "counter explanations", "classification complete",
          "analyst signoff", "legal review required", "legal review done",
          "bundle signed", "disclosure authorized", "recipient"}

ASSUME BirthsAssumption == Births \subseteq Zones
ASSUME FactsAssumption == Established \subseteq Facts /\ Volatile \subseteq Facts

\* What _gate asks for at zone z.
Demands ==
    << {"intake done"},
       {"intake done", "hashes computed", "identity complete"},
       {"grade E3", "counter explanations", "classification complete"},
       {"analyst signoff"},
       {"bundle signed", "disclosure authorized", "recipient"} >>

VARIABLES
    born,     \* born[a]: the zone the first ArtifactZoneState of a was made with
    zone,     \* zone[a]: owning_zone
    retired,  \* retired[a]
    facts,    \* facts[a]: the gate facts that hold of a
    pending,  \* pending[a]: what the controller assigns next, once it has emitted
    alive     \* alive[a]: whether a has a controller

vars == <<born, zone, retired, facts, pending, alive, trail, tail>>

State == [zone : Zones, retired : BOOLEAN]
ASSUME NoneAssumption == None \notin State

Moves == {"ZonePromotion", "ZoneDemotion"}
Attempts == Moves \cup {"PolicyException"}

Event ==
    [type : Attempts, artifact : Artifacts, from : Zones, to : Zones]
        \cup [type : {"Retirement", "Intake"}, artifact : Artifacts]

\* The legal review counts only where one is required.
GateMet(z, fs) ==
    /\ Demands[z + 1] \subseteq fs
    /\ z = 3 /\ "legal review required" \in fs => "legal review done" \in fs

-----------------------------------------------------------------------------
(* The zone history *)

\* The positions before n at which t moves a.
MovesBefore(t, a, n) ==
    {i \in DOMAIN t : i < n /\ t[i].artifact = a /\ t[i].type \in Moves}

\* The zone of a as the first n - 1 events of t tell it.
ZoneAt(t, a, n) ==
    LET moves == MovesBefore(t, a, n)
    IN  IF moves = {} THEN born[a] ELSE t[Max(moves)].to

RetiredAt(t, a, n) ==
    \E i \in DOMAIN t : i < n /\ t[i].artifact = a /\ t[i].type = "Retirement"

\* What the whole of t tells of a.
Replay(t, a) ==
    [zone |-> ZoneAt(t, a, Len(t) + 1), retired |-> RetiredAt(t, a, Len(t) + 1)]

-----------------------------------------------------------------------------

Init ==
    /\ born \in [Artifacts -> Births]
    /\ zone = born
    /\ retired = [a \in Artifacts |-> FALSE]
    /\ facts = [a \in Artifacts |-> Established]
    /\ pending = [a \in Artifacts |-> None]
    /\ alive = [a \in Artifacts |-> TRUE]
    /\ Empty

\* Between two calls of the controller of a.
Ready(a) == alive[a] /\ pending[a] = None

\* Mutant: the assignment made first, and kept when the emission raises.
RecordAssigned(a, e, next) ==
    /\ Emit(e) \/ EmitFails(e)
    /\ pending' = [pending EXCEPT ![a] = next]
    /\ UNCHANGED <<born, zone, retired, facts, alive>>

\* One call: emit first, and only if that returns note what to assign.
Record(a, e, next) ==
    /\ \/ Emit(e) /\ pending' = [pending EXCEPT ![a] = next]
       \/ EmitFails(e) /\ UNCHANGED pending
    /\ UNCHANGED <<born, zone, retired, facts, alive>>

Move(type, a, z) == [type |-> type, artifact |-> a, from |-> zone[a], to |-> z]

\* promote, where the gate is met.
Promote(a) ==
    /\ Ready(a)
    /\ ~ retired[a]
    /\ zone[a] < Diamond
    /\ GateMet(zone[a], facts[a])
    /\ Record(a, Move("ZonePromotion", a, zone[a] + 1),
                 [zone |-> zone[a] + 1, retired |-> FALSE])

\* promote, where it is not: only the refusal is recorded.
PromoteRefused(a) ==
    /\ Ready(a)
    /\ ~ retired[a]
    /\ zone[a] < Diamond
    /\ ~ GateMet(zone[a], facts[a])
    /\ Record(a, Move("PolicyException", a, zone[a] + 1), None)

\* Mutant: the guard on retired forgotten.
DemoteRetired(a, z) ==
    /\ Ready(a)
    /\ z < zone[a]
    /\ Record(a, Move("ZoneDemotion", a, z), [zone |-> z, retired |-> retired[a]])

\* Mutant: any other zone taken for a lower one.
DemoteUp(a, z) ==
    /\ Ready(a)
    /\ ~ retired[a]
    /\ z # zone[a]
    /\ Record(a, Move("ZoneDemotion", a, z), [zone |-> z, retired |-> FALSE])

\* demote, to any zone below.
Demote(a, z) ==
    /\ Ready(a)
    /\ ~ retired[a]
    /\ z < zone[a]
    /\ Record(a, Move("ZoneDemotion", a, z), [zone |-> z, retired |-> FALSE])

\* retire looks neither at retired nor at the zone.
Retire(a) ==
    /\ Ready(a)
    /\ Record(a, [type |-> "Retirement", artifact |-> a],
                 [zone |-> zone[a], retired |-> TRUE])

\* Mutant: the emission made and owning_zone left as it was.
AssignRetired(a) ==
    /\ alive[a]
    /\ pending[a] # None
    /\ retired' = [retired EXCEPT ![a] = pending[a].retired]
    /\ pending' = [pending EXCEPT ![a] = None]
    /\ UNCHANGED <<born, zone, facts, alive, trail, tail>>

\* owning_zone = target, or retired = True.
Assign(a) ==
    /\ alive[a]
    /\ pending[a] # None
    /\ zone' = [zone EXCEPT ![a] = pending[a].zone]
    /\ retired' = [retired EXCEPT ![a] = pending[a].retired]
    /\ pending' = [pending EXCEPT ![a] = None]
    /\ UNCHANGED <<born, facts, alive, trail, tail>>

\* The controller dies, and with it the ArtifactZoneState.
Crash(a) ==
    /\ alive[a]
    /\ alive' = [alive EXCEPT ![a] = FALSE]
    /\ pending' = [pending EXCEPT ![a] = None]
    /\ UNCHANGED <<born, zone, retired, facts, trail, tail>>

\* A new controller makes the state anew by replaying the zone history.
Restore(a) ==
    /\ ~ alive[a]
    /\ tail # "torn"
    /\ alive' = [alive EXCEPT ![a] = TRUE]
    /\ zone' = [zone EXCEPT ![a] = Replay(trail, a).zone]
    /\ retired' = [retired EXCEPT ![a] = Replay(trail, a).retired]
    /\ UNCHANGED <<born, facts, pending, trail, tail>>

\* Intake processes and analysts set and clear the gate facts of a.
Assess(a, f) ==
    /\ f \in Volatile
    /\ facts' = [facts EXCEPT ![a] = IF f \in @ THEN @ \ {f} ELSE @ \cup {f}]
    /\ UNCHANGED <<born, zone, retired, pending, alive, trail, tail>>

\* An intake process, which need not come before the controller.
RecordIntake(a) ==
    Record(a, [type |-> "Intake", artifact |-> a], pending[a])

Next ==
    \E a \in Artifacts :
        \/ Promote(a)
        \/ PromoteRefused(a)
        \/ \E z \in Zones : Demote(a, z)
        \/ Retire(a)
        \/ Assign(a)
        \/ Crash(a)
        \/ Restore(a)
        \/ \E f \in Facts : Assess(a, f)
        \/ RecordIntake(a)

Spec == Init /\ [][Next]_vars

-----------------------------------------------------------------------------
(* Properties *)

\* Types of the states, the calls in progress and the ledger.
TypeOK ==
    /\ born \in [Artifacts -> Zones]
    /\ zone \in [Artifacts -> Zones]
    /\ retired \in [Artifacts -> BOOLEAN]
    /\ facts \in [Artifacts -> SUBSET Facts]
    /\ pending \in [Artifacts -> State \cup {None}]
    /\ alive \in [Artifacts -> BOOLEAN]
    /\ LedgerOK(Event)

\* The zone history is replayable: between calls it tells every artifact's
\* owning zone and retirement, whatever failed or died before.
ReplayAgrees ==
    \A a \in Artifacts :
        Ready(a) => Replay(trail, a) = [zone |-> zone[a], retired |-> retired[a]]

\* Every recorded move, and every recorded refusal, starts from the zone the
\* events before it lead to: no move is lost, doubled or made from elsewhere.
TrailConnected ==
    \A i \in DOMAIN trail :
        trail[i].type \in Attempts => trail[i].from = ZoneAt(trail, trail[i].artifact, i)

\* Retirement is terminal: the ledger shows no move of a retired artifact and
\* no attempt at one.
RetirementTerminal ==
    \A i \in DOMAIN trail :
        trail[i].type \in Attempts => ~ RetiredAt(trail, trail[i].artifact, i)

\* The zone the ledger tells rises only one step at a time and through a gate
\* that the artifact's facts met then; restarts are no way around.
ClimbsByGates ==
    [][\A a \in Artifacts :
          LET told == Replay(trail, a).zone
          IN  Replay(trail, a).zone' > told =>
                  Replay(trail, a).zone' = told + 1 /\ GateMet(told, facts[a])]_vars
=============================================================================
