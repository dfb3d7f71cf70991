-------------------------- MODULE MCPromotionGate --------------------------
(* Small instances of PromotionGate. *)
EXTENDS PromotionGate, TLC

CONSTANTS c1, c2, image, manager, security, boot, network

TwoCalls == {c1, c2}
Symmetry == Permutations(TwoCalls)
OneImage == {image}
TwoRoles == {manager, security}
TwoScenarios == {boot, network}

Torn == {"torn"}

\* A bundle that meets the default policy.
Good ==
    [build |-> "completed", provenance |-> TRUE, static |-> "passed",
     scenarios |-> (boot :> "passed" @@ network :> "passed"),
     violations |-> {}, red |-> "passed", blue |-> "passed",
     replay |-> TRUE, approvals |-> {manager, security}]

\* Ways a bundle falls short of it, or is otherwise remarkable.
Flaws ==
    {[Good EXCEPT !.build = "unfinished"],
     [Good EXCEPT !.build = "absent", !.provenance = FALSE],
     [Good EXCEPT !.static = "failed"],
     [Good EXCEPT !.scenarios = boot :> "failed" @@ network :> "passed"],
     [Good EXCEPT !.scenarios = boot :> "passed" @@ network :> "optional"],
     [Good EXCEPT !.scenarios = boot :> "optional" @@ network :> "absent"],
     [Good EXCEPT !.scenarios = boot :> "absent" @@ network :> "absent"],
     [Good EXCEPT !.violations = {"approved"}],
     [Good EXCEPT !.violations = {"unapproved"}],
     [Good EXCEPT !.violations = {"approved", "unapproved"}],
     [Good EXCEPT !.red = "absent", !.blue = "absent"],
     [Good EXCEPT !.red = "absent", !.blue = "excused"],
     [Good EXCEPT !.red = "failed", !.blue = "run"],
     [Good EXCEPT !.replay = FALSE],
     [Good EXCEPT !.approvals = {manager}],
     [Good EXCEPT !.approvals = {}]}
ManyBundles == {Good} \cup Flaws

Default ==
    [required |-> Categories, roles |-> {manager}, minimum |-> 1, waivers |-> TRUE]
ManyPolicies ==
    {Default,
     [Default EXCEPT !.required = @ \cup {"unknown"}],
     [Default EXCEPT !.required = {"violations", "dynamic", "approvals"}],
     [Default EXCEPT !.required = {"build", "static", "red blue"}, !.minimum = 0],
     [Default EXCEPT !.required = {"complete", "replay", "provenance"}],
     [Default EXCEPT !.required = {}],
     [Default EXCEPT !.roles = {manager, security}],
     [Default EXCEPT !.minimum = 2],
     [Default EXCEPT !.required = {"dynamic"}, !.minimum = 0],
     [Default EXCEPT !.waivers = FALSE],
     [Default EXCEPT !.waivers = FALSE, !.minimum = 2, !.roles = {manager, security}]}
=============================================================================
