--------------------------- MODULE PromotionGate ---------------------------
(***************************************************************************)
(* tools/image-promotion-gate: calls of promote, each judging the evidence *)
(* bundle of an image against a policy and recording the verdict.  A       *)
(* promotion is two appends, the ProofArtifact and the ZonePromotion that  *)
(* links to it; calls of several gates interleave, raise and die between   *)
(* them.  The caller updates Git when a call returns ("promoted").         *)
(***************************************************************************)
EXTENDS Ledger, FiniteSets

CONSTANTS
    Calls,      \* calls of promote
    Images,     \* image references
    Bundles,    \* the evidence bundles there may be
    Policies,   \* the gate policies there may be
    Roles,      \* approver roles
    Scenarios,  \* ids of dynamic scenarios
    None        \* not called yet

\* A bundle, field by field, as the evaluators tell its contents apart.  A
\* smoke playbook is "excused" by {"required": False}; "run" is one that is
\* not required and has a result, "passed" and "failed" are required ones.
Smoke == {"absent", "excused", "run", "failed", "passed"}

Bundle ==
    [build : {"absent", "unfinished", "completed"},
     provenance : BOOLEAN,
     static : {"absent", "failed", "passed"},
     scenarios : [Scenarios -> {"absent", "optional", "failed", "passed"}],
     violations : SUBSET {"approved", "unapproved"},
     red : Smoke, blue : Smoke,
     replay : BOOLEAN,
     approvals : SUBSET Roles]

\* The categories that have an evaluator; a policy may require others.
Categories ==
    {"build", "provenance", "static", "dynamic", "violations",
     "complete", "replay", "red blue", "approvals"}

Policy ==
    [required : SUBSET (Categories \cup {"unknown"}), roles : SUBSET Roles,
     minimum : Nat, waivers : BOOLEAN]

ASSUME ScenariosAssumption == IsFiniteSet(Scenarios)
ASSUME BundlesAssumption == Bundles \subseteq Bundle
ASSUME PoliciesAssumption == Policies \subseteq Policy

VARIABLES
    call,     \* call[c]: the image, bundle and policy of c
    place     \* place[c]: how far c has come, or how it ended

vars == <<call, place, trail, tail>>

Call == [image : Images, bundle : Bundles, policy : Policies]
ASSUME NoneAssumption == None \notin Call

Running == {"refusing", "publishing", "linking"}
Place == Running \cup {"uncalled", "promoted", "refused", "denied", "raised", "dead"}

Entry ==
    [type : {"ProofArtifact", "ZonePromotion", "PolicyException"},
     by : Calls, judgment : {"PASS", "WAIVER", "FAIL"}]

-----------------------------------------------------------------------------
(* The evaluators *)

\* The scenarios the bundle says are required.
RequiredScenarios(b) == {s \in Scenarios : b.scenarios[s] \in {"failed", "passed"}}

\* Mutant: the minimum taken for the number there must be.
EnoughExactly(b, p) == Cardinality(RequiredScenarios(b)) = p.minimum

EnoughScenarios(b, p) == Cardinality(RequiredScenarios(b)) >= p.minimum

\* Whether category c is PASS or WAIVED; one without an evaluator is not.
Met(c, b, p) ==
    \/ c = "build" /\ b.build = "completed"
    \/ c = "provenance" /\ b.provenance
    \/ c = "static" /\ b.static = "passed"
    \/ /\ c = "dynamic"
       /\ EnoughScenarios(b, p)
       /\ \A s \in RequiredScenarios(b) : b.scenarios[s] = "passed"
    \/ c = "violations" /\ b.violations = {}
    \/ c = "violations" /\ b.violations = {"approved"} /\ p.waivers
    \/ /\ c = "complete"
       /\ b.build # "absent" /\ b.static # "absent"
       /\ \E s \in Scenarios : b.scenarios[s] # "absent"
       /\ b.replay /\ b.approvals # {}
    \/ c = "replay" /\ b.replay
    \/ c = "red blue" /\ "failed" \notin {b.red, b.blue} /\ {b.red, b.blue} # {"absent"}
    \/ c = "approvals" /\ p.roles \subseteq b.approvals

\* evaluate_gate; only the violations category can be WAIVED.
Judgment(b, p) ==
    IF \E c \in p.required : ~ Met(c, b, p) THEN "FAIL"
    ELSE IF "violations" \in p.required /\ b.violations # {} THEN "WAIVER"
    ELSE "PASS"

JudgmentOf(c) == Judgment(call[c].bundle, call[c].policy)

-----------------------------------------------------------------------------

Init ==
    /\ call = [c \in Calls |-> None]
    /\ place = [c \in Calls |-> "uncalled"]
    /\ Empty

Goto(c, p) == place' = [place EXCEPT ![c] = p]

\* promote is called and evaluates the gate, which has no side effects.
Evaluate(c, i, b, p) ==
    /\ place[c] = "uncalled"
    /\ call' = [call EXCEPT ![c] = [image |-> i, bundle |-> b, policy |-> p]]
    /\ Goto(c, IF Judgment(b, p) = "FAIL" THEN "refusing" ELSE "publishing")
    /\ UNCHANGED <<trail, tail>>

EntryOf(c, type) == [type |-> type, by |-> c, judgment |-> JudgmentOf(c)]

\* Mutant: PromotionRefused raised whether or not the event was written.
RefuseAnyway(c) ==
    /\ place[c] = "refusing"
    /\ Emit(EntryOf(c, "PolicyException")) \/ EmitFails(EntryOf(c, "PolicyException"))
    /\ Goto(c, "refused")
    /\ UNCHANGED call

\* The refusal is recorded and PromotionRefused raised, or the append raises.
Refuse(c) ==
    /\ place[c] = "refusing"
    /\ \/ Emit(EntryOf(c, "PolicyException")) /\ Goto(c, "refused")
       \/ EmitFails(EntryOf(c, "PolicyException")) /\ Goto(c, "raised")
    /\ UNCHANGED call

\* Mutant: the PublishDenied of a receipt that was not written swallowed.
PublishAnyway(c) ==
    /\ place[c] = "publishing"
    /\ Emit(EntryOf(c, "ProofArtifact")) \/ EmitFails(EntryOf(c, "ProofArtifact"))
    /\ Goto(c, "linking")
    /\ UNCHANGED call

\* publish writes the receipt, or its PublishDenied becomes a PromotionRefused;
\* what reading a ledger raises that does not parse goes past both.
Publish(c) ==
    /\ place[c] = "publishing"
    /\ \/ Emit(EntryOf(c, "ProofArtifact")) /\ Goto(c, "linking")
       \/ tail # "torn" /\ EmitFails(EntryOf(c, "ProofArtifact")) /\ Goto(c, "denied")
       \/ tail = "torn" /\ EmitFails(EntryOf(c, "ProofArtifact")) /\ Goto(c, "raised")
    /\ UNCHANGED call

\* The ZonePromotion is recorded and the receipt returned, or the append raises.
Link(c) ==
    /\ place[c] = "linking"
    /\ \/ Emit(EntryOf(c, "ZonePromotion")) /\ Goto(c, "promoted")
       \/ EmitFails(EntryOf(c, "ZonePromotion")) /\ Goto(c, "raised")
    /\ UNCHANGED call

\* The process of the call dies.
Crash(c) ==
    /\ place[c] \in Running
    /\ Goto(c, "dead")
    /\ UNCHANGED <<call, trail, tail>>

Next ==
    \E c \in Calls :
        \/ \E i \in Images, b \in Bundles, p \in Policies : Evaluate(c, i, b, p)
        \/ Refuse(c)
        \/ Publish(c)
        \/ Link(c)
        \/ Crash(c)

Spec == Init /\ [][Next]_vars

-----------------------------------------------------------------------------
(* Properties *)

\* Types of the calls and of the ledger.
TypeOK ==
    /\ call \in [Calls -> Call \cup {None}]
    /\ place \in [Calls -> Place]
    /\ LedgerOK(Entry)

\* The ledger has an entry of c of this type, before position n.
HasBefore(c, type, n) ==
    \E i \in DOMAIN trail : i < n /\ trail[i].by = c /\ trail[i].type = type

Has(c, type) == HasBefore(c, type, Len(trail) + 1)

\* The receipt law: a call that returns, so that Git may update, has on the
\* ledger its receipt with the verdict and after it the link.
PromotedIsReceipted ==
    \A c \in Calls :
        place[c] = "promoted" =>
            /\ JudgmentOf(c) # "FAIL"
            /\ \E n \in DOMAIN trail :
                  /\ trail[n] = EntryOf(c, "ZonePromotion")
                  /\ HasBefore(c, "ProofArtifact", n)

\* A refused promotion leaves its PolicyException and nothing else, and one
\* denied for want of a receipt leaves nothing at all.
RefusedIsRecorded ==
    \A c \in Calls :
        /\ place[c] = "refused" => Has(c, "PolicyException")
        /\ place[c] \in {"refusing", "refused", "denied"} =>
              ~ Has(c, "ProofArtifact") /\ ~ Has(c, "ZonePromotion")

\* A receipt over policy violations says it rests on a waiver, and the policy
\* it was judged by allows one for each of them.
WaiversShown ==
    \A n \in DOMAIN trail :
        LET c == trail[n].by
        IN  /\ trail[n].type = "ProofArtifact"
            /\ "violations" \in call[c].policy.required
            /\ call[c].bundle.violations # {}
            => /\ trail[n].judgment = "WAIVER"
               /\ call[c].policy.waivers
               /\ "unapproved" \notin call[c].bundle.violations

\* q demands at least what p demands.
Stricter(q, p) ==
    /\ p.required \subseteq q.required
    /\ p.roles \subseteq q.roles
    /\ p.minimum <= q.minimum
    /\ q.waivers => p.waivers

\* Of two calls on one bundle, the one under the stricter policy is not
\* promoted when the other is refused.
StricterRefuses ==
    \A c, d \in Calls :
        /\ call[c] # None /\ call[d] # None
        /\ call[c].bundle = call[d].bundle
        /\ Stricter(call[d].policy, call[c].policy)
        /\ place[c] \in {"refusing", "refused"}
        => ~ Has(d, "ProofArtifact")
=============================================================================
