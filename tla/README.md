# TLA+ models of prophet-workspace

This directory holds TLA+ models of the parts of `prophet-workspace` that keep
state or decide what may happen: the receipt spine every tool records on, the
drive ingest that moves files to a bucket and deletes them locally, the zone
lifecycle of artifacts, the image promotion gate, the mount tables and the tools
that act under them, the labor loop and its witness quorums, the contracts of
knowledge and composition, and the routing, filtering and querying of memories.
TLC checks them on small instances and TLAPS proves the main properties of the
stateful ones for every value of the constants.

Each model is translated from the Python source. Where a document or comment of
the repository says something else than the code does, the disagreement is listed
under *Disagreements*; two of them are runs that TLC ends with a counterexample.

## 1. Inventory

The repository is a set of contracts, and of small Python tools under `tools/`
that share one ledger. None of them runs threads. Concurrency is between
processes: several tools, or several invocations of one, work on the same files
without locks. Failure is an exception out of a write, or a process that dies.

| component | state it keeps | operations | talks to | hard part |
|---|---|---|---|---|
| receipt spine: `proof-artifact-spine/ledger_push.py`, `proof_artifact.py` | one JSON-lines file | `ledger_push`, `emit_proof_artifact`, `emit_inference_receipt`, `verify_ledger` | called by all the tools below | read-then-append by several processes, torn writes, crash before or after the append |
| custody events: `custody_event.py` | none; entries on the spine | `emit_custody_event` | spine | required fields by type, fail-closed |
| publish: `publish.py` | none | `publish`, `replay` | spine | receipt or denial, nothing in between |
| witness quorum: `witness_quorum.py` | none; a block attached to a receipt | `build`, `verify_quorum`, `promote` | spine | distinct witnesses, binding to one receipt |
| drive ingest: `drive_ingest.py` | manifest, custody log, `verification.json`; the local tree and the bucket | `plan`, `push`, `verify`, `reap` | gcloud, JSON API | stat and hash of a file that is being edited, stale manifests, commands that die, the one irreversible step (`reap`) |
| zone lifecycle: `zone-lifecycle/zone_lifecycle.py` | `ArtifactZoneState` in memory | `promote`, `demote`, `retire` | custody events | the event precedes the assignment; crash in between; facts change between calls |
| image promotion gate: `image-promotion-gate/promotion_gate.py` | none; two entries per promotion | `evaluate_gate`, `promote` | publish, custody events | two appends, refusals that cannot be recorded, waivers |
| workspace controller: `workspace-controller/epistemic_ceiling.py` | mount tables | `workspace_ceiling`, `admit_publish`, `authority_change` | scout, room controller | a ceiling used after the table has changed |
| sherlock shell: `sherlock-shell/room_controller.py`, `connector-synapse` | Matrix rooms | `provision_case_room`, `authorize_power_change` | connector, publish, workspace controller | the room exists before the receipt |
| answering tools: `sherlock-scout`, `grounded-assistant`, `agent-term` | none | `answer`, `run` | ceiling, graph, VM, publish | effect before receipt |
| metadata intake: `metadata-intake/intake.py` | none | `intake` | spine | validation before the receipt |
| labor contract: `labor-request-contract/labor_contract.py` | receipt references on five stages | `run_labor_loop`, `verify_labor_chain` | spine | crash and rerun in the middle of the loop |
| fibration node: `fibration-node/node_model.py` | sections | `descend_section`, `project_worldview`, `survives_loop` | ceiling vocabulary | decay against gluing |
| query router: `query-router/` | none; a `RouteDecision` per query | `route`, `selective_route` | spine (by its own append), query languages | fallback order, one decision per outcome |
| query languages: `cypher-atomspace-gateway`, `text-to-sql`, `self-query` | none | parse, compile, bounded traversal | | string work |
| temporal filter, GraphRAG grounding, artifact registry, grade ladder | none | pure functions | | boundaries |
| validators: composition graph, ER, KE workspace, mount table, SEC, ... | none | check one document | CI | Kahn's algorithm over loops |
| contracts, schemas, docs, connectors (Jitsi stub) | data | | | |

What makes each correct, in one line:

- **spine**: what is receipted can be read back; what is on file is one chain,
  or the verifier says so; nothing written is ever rewritten.
- **drive ingest**: never delete a file that is not in the bucket; "verified"
  means what it says whoever interleaves.
- **zone lifecycle**: the ledger alone tells where every artifact is; no gate is
  skipped; retirement is final.
- **promotion gate**: nothing is promoted without receipt and link, nothing
  refused without a record; waivers show; a stricter policy never admits more.
- **mount tables**: what the bot may read and how far it reaches never grows
  past a table somebody reviewed, however changes are split and interleaved.
- **acting tools** (scout, assistant, agent-term, rooms): no return without a
  receipt, no receipt of what did not happen, no claim above its sources.
- **labor loop and quorums**: what returns is receipted stage by stage on its own
  run, and its last receipt stands for all of them; every run ends; a promotion was
  signed by its quorum.
- **knowledge and composition**: exactly the workflows without a cycle pass; a
  concept never resolves back to an older version; a worldview's ceiling is
  earned; an instance that passes is auditable.
- **retrieval**: one decision per answer, which names the stores that served; no
  hit and no order lost; routing does not depend on the order of exemplars; the
  newest valid fact surfaces; both stores are asked for the same memories, as far as
  both can say what a question says.

`PROJECT.json` lists every component with its status, and under `hazards` the
places where the code can go wrong in ways a test would hardly reach, each with
the properties aimed at it.

## 2. Modules

| module | what it is |
|---|---|
| `ReceiptSpine` | the ledger file and the processes that push to it; `verify_ledger` |
| `ReceiptLog` | what a caller wants of the spine: an append-only log whose receipts name positions |
| `ReceiptSpineProofs` | theorems about `ReceiptSpine` |
| `DriveIngest`, `DriveIngestProofs` | the four drive commands, step by step, and theorems |
| `Ledger` | the ledger as its callers see it: one append is one step with its possible endings |
| `ZoneLifecycle`, `ZoneLifecycleProofs` | zone controllers on that ledger, and theorems |
| `PromotionGate`, `PromotionGateProofs` | calls of the promotion gate on that ledger, and theorems |
| `MountAuthority` | mount tables, their ceilings and their changes |
| `Workroom`, `WorkroomProofs` | the acting tools, on `Ledger` and under the tables of `MountAuthority`, and theorems about both |
| `LaborLoop` | runs of the labor loop on that ledger, with overlapping pushes; it may be put back |
| `WitnessQuorum` | signatures, blocks and promotion |
| `LaborProofs` | theorems about both |
| `CompositionGraph` | Kahn's algorithm node by node |
| `KEWorkspace` | the dictionary, types and rules of a knowledge workspace under edits |
| `FibrationNode` | sections that are written, shared, refreshed and grow old |
| `CognitionER` | ER instances built record by record, and their validation |
| `KnowledgeProofs` | theorems about these four |
| `QueryRoute` | calls of `selective_route` on the ledger |
| `Router`, `TemporalFilter`, `QueryBuild` | pure decisions: routing, filtering, query construction |
| `Places` | the places of a list that a loop comes to, in the list's order |
| `RetrievalProofs` | theorems about the retrieval modules |
| `MC*` | constants of the small instances for TLC |

`ZoneLifecycle`, `PromotionGate`, `Workroom`, `LaborLoop` and `QueryRoute` extend
`Ledger` and share its variables. `MCWorkroom`, `MCLaborLoop`, `MCKnowledge` and
`MCRetrieval` take several modules into one run. What does not share state is
explored apart: a module moves only while the others are at their start, so a run
visits the union of their state spaces and not their product, which would show
nothing more. `Router`, `TemporalFilter` and `QueryBuild` model functions; their
one step is a call with any input of the instance.
Operators commented "Mutant:" are plausible bugs of the definition they stand
before. No specification uses them; they exist to show that each property can
fail (`mutants` in `PROJECT.json`).

### ReceiptSpine

- `lines` and `tail` are the file: complete lines, and what follows the last
  newline (nothing, a torn prefix, or a whole entry without its newline).
- `view[p]` is what process `p` has read inside `ledger_push`, between line 68
  and line 76. `acked` collects the entries returned to callers.
- `ReadPrev` is lines 61-73 up to the append, `AppendEntry` and `AppendFails`
  lines 75-80, `CrashBeforeAppend` and `CrashAfterAppend` a process that dies.
  A ledger that does not parse makes `json.loads` raise out of `_last_entry`,
  which changes nothing and so is no step.
- `VerifyWalk` is `verify_ledger`, `ChainValid` what it is meant to establish.
- SHA-256 is injective here: a hash is the sequence of bodies it covers. A
  prefix of an entry's JSON never parses, and neither do two entries on a line.
- A file the operating system has accepted is durable: the code calls no fsync,
  and power failure is not modelled.

### DriveIngest

- `local`, `remote`, `manifest`, `last` (the last custody event), `report`
  (`verification.json`) and `described` (the object `_manifest.json`) are the
  shared files of one collection; `cmd[o]` is the command operator `o` runs,
  with what it holds in memory. Only the last event is kept because
  `custody_status` reads no other.
- A command is a sequence of steps: one file looked at, hashed, copied, sampled
  or deleted, or one file written. `Stop*` ends it anywhere: killed, `sys.exit`,
  an exception, a nonzero `gcloud`; `StopInWrite` and `StopInEmit` inside a
  write. `Edit` is the owner, who may change or delete a file at any time.
- Hashing a file is one step, and so is copying one. `rsync` visits files in any
  order. The bucket loses nothing by itself. All operators use the same
  `--root`, seat and collection; paths that `plan` skips are not in `Files`.
- An event line that lost just its newline has no value of its own: what can
  follow it (an event that cannot be read) also follows a line cut short.
- The removal of empty directories after `reap` is left out.
- No property says that custody turns Intact only by a verify. With two operators
  the code does not keep that: a Gap may be recorded after the gate of a reap, whose
  Retirement then says Intact again, and the next reap passes the custody half of
  its gate. What must hold is that this reap too deletes only what the bucket has,
  because the manifest has to be verified as well: `ReapOnlyPresent`, which fails
  when the gate looks at custody alone.

### Ledger

`Emit` and `EmitFails` are one call of `ledger_push` seen from outside, as one
step, by processes that do not push at the same time: the entry is appended and
returned; or an exception is raised and the file is unchanged, torn, or holds the
whole entry without its newline. `WriteFaults` says which of the last two may
happen. `ReceiptSpine` models what goes on inside, and implements these steps while
pushes take turns (`CallersSpec`): `trail` are the records of the lines that parse, and
the file is torn once any line does not. `LaborLoop` takes the two halves of a push
apart: its runs read and append in turn with those of others, and entries carry their
number and what they continue.

### ZoneLifecycle

- `zone`, `retired` and `facts` are the `ArtifactZoneState` of each artifact
  (the fields the gates read, as a set of facts); `pending[a]` is what the
  controller will assign once its emission has returned, that is, the point
  between lines 98 and 101 (114 and 117, 124 and 126). `born` is the zone an
  artifact's first state was made with, one of `Births`: Discovery by default,
  but the code accepts any.
- `Promote`, `PromoteRefused`, `Demote` and `Retire` are the calls, each with
  success and failure of its emission, `Assign` the assignment that ends them.
  Calls that raise before any effect (`retired`, `at-top`, `not-a-demotion`,
  `bad-zone`) are no step.
- `Crash` loses the state. `Restore` is a caller that rebuilds it by replaying
  the ledger, which the module's docstring says can be done ("replayable"); the
  code itself holds no such function, so `Replay`, `Restore`, `Assess` (facts
  change) and `RecordIntake` are marked external.
- One controller per artifact: the code hands a state to one caller.

### PromotionGate

- `call[c]` is the image, bundle and policy of a call, `place[c]` where it is
  or how it ended: `promoted` (returned), `refused` (`PromotionRefused` after a
  recorded exception), `denied` (`PromotionRefused` because no receipt could be
  written), `raised` (another exception), `dead`.
- A bundle is reduced to what the evaluators distinguish. `Met` is the nine
  evaluators, `Judgment` is `evaluate_gate`.
- `Evaluate`, `Refuse`, `Publish` and `Link` are the stretches of `promote`
  between its appends. `by` in an entry tells which call wrote it; the code's
  entries carry the image and the hash of the receipt instead. On a ledger that does
  not parse `Publish` raises what `json.loads` raises, on any other failure it is
  denied.
- `publish` cannot be denied for the external ceiling or a missing extent here:
  the gate passes `external=False`, level `Measured` and its own phase.

### MountAuthority and Workroom

- A table is its entries (source, capabilities, grantor) and its extent, a path.
  `ValidTable` is `validate_mount_table`, `CeilingOf` `workspace_ceiling`,
  `AuthorityChange` `authority_change` with `_extent_relation`.
- `Judge` is `authorize_power_change` with the table in force as the previous
  one, `Apply` and `Review` are what its caller does with the answer. The code
  gives the answer and leaves the rest to its callers, so both are external, and
  two callers may hold answers that have grown old.
- `call[c]` holds the arguments of a tool's call, `place[c]` how far it is. `Ask`
  and `Retrieve` are scout's `answer`, `Assist` the assistant's, `Run` and `Act`
  `ComputerUseController.run`, `Provision` and `Act` `provision_case_room`;
  `Publish` is the receipt that all of them end with. `done` are the commands that
  ran and the rooms that exist: the effect comes before the receipt.
- Retrieval, the language model and the guest may come up with anything.

### LaborLoop and WitnessQuorum

- `refs[r]` are the receipt references stamped in the present run of `r`, one per
  stage. One `_emit` is two steps: `Look` reads the last entry (or raises where the
  ledger does not parse) and keeps it in `prev[r]`, `Stamp` appends the entry that
  continues it (`StageEntry`) and stamps the reference, or raises. Others may push in
  between, so entries carry their number and what they continue, and the ledger may
  fork. A stage of a run is written at most once and stands for the hash of its entry.
- `Verify` is `verify_labor_chain`: `Teeth` its checks on the chain, `Receipted` LC-2,
  which is `verify_ledger` (`Unbroken`) and `_resolves_on_spine` of every stage
  (`Resolves`: the first entry with the number has the hash). `Begin` starts a run
  or starts it anew, `Crash` ends one anywhere; a run that does not return leaves only
  its entries (`Ends`).
- `Restore` is an operator who cuts a ledger that does not verify, or does not end in
  a newline, back to a prefix that verifies, any number of times: nothing in the code
  does, but nothing else lets the tools go on. Pushes may be under way meanwhile.
- That a chain once returned verifies ever after is no property: another runner's
  overlapping push may fork the ledger, and the chain then fails as spine-corrupt. What
  a chain has left is its trust receipt. `TrustVouches` says that as long as it resolves,
  whatever was forked, torn or put back since, the ledger up to it is one chain and the
  other stages resolve on it before it.
- `signed` are the signatures ever made. `Shown` is every way to present them,
  and `Promote` takes any block made of them. A public key stands for its private
  key and a signature for the key and the receipt it covers.

### CompositionGraph, KEWorkspace, FibrationNode, CognitionER

- `Submit` is the validation up to the filled queue, `Take` one turn of the loop
  of `_acyclic` (with any node of the queue), `Sorted` the count at its end,
  `CheckGates` the rest.
- `Save` is a workspace that passes `validate_ke_workspace` taking the place of
  the one before; `newest` remembers what readers resolved to.
- `view` is the worldview that `project_worldview` gives after each step. Age is
  counted in half windows, since writing stops after exactly two.
- `AddRecord` and `AddEdge` write an instance, `Validate` is
  `validate_er_instance`. A record keeps what the checks tell apart: its type, its
  id, whether its keys and its scope are there.

### QueryRoute, Router, TemporalFilter, QueryBuild

- `AskGraph`, `AskVector` and `Record` are the stretches of `selective_route`
  between its calls of the stores and of `emit_route_decision`, which may raise.
- `RouteOf` is the router of the question's kind with the fallback; scores are
  small integers. `KeptPlaces`, `Winner` and `Resolved` are `apply` and `resolve`
  of the temporal filter, on places of the ranked list. A loop that keeps some
  places of a list keeps `InOrder` of them (`Places`); the fusion of two lists of
  hits is such a loop too. `Tells` is what a decision must say of its call: which
  stores served and how many hits each gave.
- The two strings of a fact's key are taken as strings. `_key` applies `str` to what a
  candidate has there and `resolve` compares the values themselves, so of candidates
  whose entity or relation is not a string the two readers may differ.
- A question is what the patterns of `sql_subset.py` and `self_query.py` find in
  it. A statement or a filter is its conditions; `Selects`, `Keeps` and `Holds`
  read them as the stores do, on memories whose years are integers. A search term
  ("about X") is one that a memory's text has or has not (`text_content`), which the
  statement asks with LIKE. A statement may group by declared columns only
  (`Columns`), and `OperandOK` is `_check_type`, operands of another type (`Misfit`)
  included. The connective words, the domain and the residual text are left out.

## 3. Runs

`CHECK_DEADLOCK FALSE` stands where the system really stops: a ledger that no
longer parses or has reached the bound, calls that have all ended, a verdict that
was given. The bounds are `MaxEntries` and `MaxEvents` (length of the ledger),
`MaxEdits` (how often the owner edits), `MaxRuns` (runs of the labor loop; there
`MaxEvents` also bounds the receipts that runs hold),
`MaxK` and `MaxSigs` (blocks), `MaxVersion`, `MaxEntries`, `MaxAge`, `MaxRecords`
and `MaxEdges` (knowledge), `MaxExemplars`, `MaxScore`, `MaxCandidates` and
`LimitCap` (retrieval); each is a guard or the size of an input, and the theorems
hold for every value of those in their modules.

**Fairness.** One specification states any: `LaborFairness`, weak fairness of
"look, stamp or verify" for each runner. `run_labor_loop` is a sequential function
without waiting, so a run that has not died is always able to take its next step.
A death is a step of its own and not fair. `RunsEnd` holds then because each
`_emit` returns or raises, and a raise ends the run. Nothing else in the code
retries or waits: every command may be the last, and the other specifications are
`Init /\ [][Next]_vars`.

| run | instance | what it shows |
|---|---|---|
| `spine_faulty` | 2 pushers, 2 records, torn writes, 4 lines | a receipt is missing only from a file with an unreadable line, although the chain may fork (`AckedOrGarbled`); no entry is detached (`ChainedToEarlier`); the verifier accepts exactly the unbroken chains (`VerifyExact`) |
| `spine_serial` | 1 pusher, torn writes, crashes | the lines are one chain (`LinesChainValid`), and the spine implements `ReceiptLog` (`LogSpec`) and the ledger of the other components (`CallersSpec`) |
| `drive_concurrent` | 2 operators, 1 file, 2 edits | what is marked verified is in the bucket (`VerifiedPresent`); reap deletes nothing the bucket lacks (`ReapOnlyPresent`) |
| `drive_sampled` | 1 operator, 2 files of 2 contents with different sizes, sample 2 | reap chooses only content that was uploaded (`ReapChoosesUploaded`) |
| `zone_history` | 2 artifacts, born in the first or the fourth zone, one fact that comes and goes, torn writes, 3 events | the ledger tells the zone (`ReplayAgrees`), which rises by one through a met gate (`ClimbsByGates`); moves connect (`TrailConnected`); retirement is terminal (`RetirementTerminal`) |
| `gate_calls` | 2 calls, 17 bundles, 11 policies, torn writes, 4 events | receipt law (`PromotedIsReceipted`) and refusals (`RefusedIsRecorded`); stricter policies refuse more (`StricterRefuses`) |
| `workroom` | 2 callers and 9 tables; 2 calls of any tools, torn writes, 2 events | what goes through without review stays within one reviewed table (`WithinReviewed`); what returned has one receipt and no receipt is of what was not done (`ReceiptLaw`); answers stay under their ceiling (`AnswersUnderCeiling`) |
| `labor` | 2 runners, 3 chains, 2 runs whose pushes overlap, 6 entries, torn writes, a ledger put back any number of times; 2 witnesses, 2 receipts, 6 rosters | what returns has its own stages on the ledger, in order (`ReturnsInOrder`), and its trust receipt vouches for them all as long as it resolves (`TrustVouches`); runs end (`RunsEnd`); promotions have their quorum (`PromotedOnQuorum`) |
| `knowledge` | every graph of 3 nodes and at most 4 edges, and faulty ones; 3 versions of a concept, 2 types; 3 sections, 7 ages; 3 records, 2 edges | the sort is exact (`SortExact`); readers are not sent back (`NeverResolvesBack`); disagreements stand alone under an open extent (`OpenIsLocal`), the ceiling is earned (`CeilingIsEarned`) and time only lowers it (`AgeOnlyLowers`); valid instances are auditable (`Auditable`) |
| `retrieval` | 2 calls, 2 hits, 2 events; 3 exemplars of 3 scores; 3 candidates of 2 facts; 3 years, a limit of 1 | one decision for each answer, naming the stores that served (`DecidedOnLedger`), no hit and no order lost (`NothingLost`); routing is stable (`SemanticStable`); the newest fact surfaces for both readers (`NewestSurfaces`); statement and filter keep the same memories but for what one of the two alone can say (`StoresAgree`), and a filter what was proposed (`FilterMeansProposal`) |

`workroom`, `labor`, `knowledge` and `retrieval` also check the types of their
modules (`TypeOK`). In `KEWorkspace` that includes that every rule refers to types
there are, in `TemporalFilter` that what is kept is in rank order, in `QueryBuild`
that the second validation of a statement refuses nothing the first one built.
The types of the other modules are proved.

Why the bounds are enough:

- Two pushers and four lines hold a fork, an entry on either branch of it and a
  push after it. Two operators let every command of the drive overtake every
  other between any two steps of it; two edits are a change and a change back.
- Three events of two artifacts hold a refusal or a move before and after a
  retirement, with a crash and a restart between any two of them, and a climb over
  three gates or a climb, a demotion and a second climb; an artifact born in the
  fourth zone reaches the last gates within them.
- Two calls let the two appends of one promotion be separated by a whole other
  one, and four events hold all that two calls can record. The bundles meet each
  category and miss it in each way the evaluators tell apart.
- The nine tables are wider, narrower, incomparable, invalid in each way or equal
  in one of source, capability and extent; two callers suffice for a judgment to
  grow old while the other's change goes through. Two calls of any tools interleave
  and two events hold both their receipts.
- Six entries hold one whole run of five stages and an entry of another, which may
  be read for before, and appended after, any stage of the first (a fork), and two runs
  are two runners or a rerun after a crash, with the ledger torn, forked and put back at
  any length in between. Chains that fall short are run alone (`Alone`): they are
  rejected at the end, and until then do what the good one does. Two witnesses with
  two keys hold a repeated signature, one under another id, one of another receipt, and
  a roster with a repeated id.
- Three nodes and four edges hold parallel edges, two-cycles and three-cycles, nodes
  behind a cycle and several orders of the queue. Three versions hold a tombstoned
  newest and a revived older one; three sections hold overlaps declared by one side
  and by both; six half windows go past the lowest level from the highest. Three
  records and two edges hold an action or provenance record with both of its
  required edges, and one whose id is used again.
- Two hits hold a duplicate within a store and across both; three exemplars with
  three scores hold ties at the top and below; three candidates hold a tie, a
  superseded winner and an opaque candidate in between; three years hold a year
  before, in and after any other.

In `spine_faulty`, `zone_history`, `gate_calls` and `workroom` pushers (and
records), artifacts or calls are interchangeable and declared symmetric; no
liveness is checked there.

## 4. Disagreements between code and its words

Two are runs that end with a counterexample; `findings` in `PROJECT.json` quotes
the lines.

| run | property | what the code does |
|---|---|---|
| `spine_fork` | `AlwaysVerifies` | two concurrent pushes write the same `ledgerSeq`, and `verify_ledger` refuses the file from then on |
| `drive_same_size` | `ReapChoosesUploaded` | a file rewritten with the same size is deleted |

The others are part of the models, which do what the code does. Paths are under
`tools/`.

- `ledger_push.py:77`: after a write that lost just its newline the next push
  writes on the same line and returns a receipt for a line no reader can parse.
  An emission that ended that way raises, but leaves an event that parses, and the
  next one returns, but takes that event away. Which promises outlive such a write,
  and which end with it, is what the theorems about callers of the ledger tell apart
  (section 5). One that ends is that a rise is a promotion: when the event taken away
  is a demotion, the zone that the ledger tells goes up with no gate.
- `drive_ingest.py:290`: `plan` takes a file's size and its hash at two moments, so
  a manifest row can mix two contents. `:353`: `push` does not notice that its
  manifest object was not uploaded. `:357`: nor does it compare the bucket's
  listing with the manifest, as line 12 has it.
- `zone_lifecycle.py:66`: the Discovery gate reads a flag where its text asks for an
  intake event.
- `promotion_gate.py:226`: an excused playbook counts as red/blue evidence. `:359`:
  a receipt can stay without its ZonePromotion, which lines 19-20 exclude. `:365`:
  every promotion is recorded as Examination to Governed, whatever zone the image
  is in.
- `room_controller.py:132`: the room is ensured before its receipt is published, so
  a room can be there without one, where lines 6-7 make every irreversible room
  action a receipted publish.
- `labor_contract.py:266`: a chain that returned is rejected as spine-corrupt once
  two pushes of any tools overlapped on the same ledger (`spine_fork`), before or after
  its own stages.
- `labor_contract.py:312`: the trust binding is receipted before anything verifies
  the evidence, so a rejected chain leaves that receipt behind, where lines 299-300
  have trust reference evidenced fulfillment only. `:219`: of two packets
  with one evidence id only the later is looked at.
- `witness_quorum.py:153`: witnesses are told apart by id alone, so one key under
  two ids of a roster counts twice.
- `validate_composition_graph.py:125`: the docstring takes the declared loop nodes
  out of the graph before it is sorted; the code takes none out and allows no cycle
  at all.
- `node_model.py:127`: a section decayed to read-only Speculative still survives
  the loop, where lines 17-18 say that decayed-out claims do not.
- `agent_cognition_er.py:283`: of records that share an id only the last is asked
  for its required edges.
- `selective_route.py:191`: an empty query abstains without a decision, where lines
  188-189 record one. `:253`: on a miss the decision records no graph hits, even
  when the graph had some that the gate did not accept.
- `self_query.py:244`: "before" replaces the end of an "in" of the same question;
  `year: 2020` becomes a string that nothing checks against the type of the field.
  Neither `build_sql` nor `build_self_query` leaves out memories that were revoked.

## 5. Theorems

All proofs are checked by TLAPS to the last leaf. They assume what the modules'
named `ASSUME`s state (finite file numbers, distinct markers, the kinds of write
fault) and nothing else, apart from the hypotheses given here. Every invariant and
every action property that a passing run checks is a theorem; of its liveness
property, the part that is not fairness is.

Two kinds of hypothesis recur. One is about scheduling, since nothing in the code
keeps processes apart: it is written as a state predicate that holds all along
(`Spec /\ []InTurns => ...`), and "one process" is a corollary. The other is about
writes that fail. On a `Whole` ledger no entry whose append raised stands, or can
still be lost: it ends in a newline, or writes never lose just the newline. The laws
of the ledger's callers are theorems for every write fault in the form `[](tail =
"clean" => ...)`, and for writes that tear at worst without that condition.

**ReceiptSpineProofs.** `TypeCorrect`, `SpineAppendOnly` without hypotheses.
`ReceiptsGarbledAtWorst`: whatever writes fail and however many push, an entry
that was returned is a readable line, or the file holds a line that nobody can
read. `ReceiptsStayReadable`: if a failing write leaves nothing, the
line is readable (the tail is then always closed).
`NoDetachedEntry`: with torn writes too, entries continue earlier ones. The
inductive invariant carries the same fact for the entry each pusher is about to
append: its predecessor was on file when it was read, and files only grow.
`TurnsChain`, `TurnsReceipts`, `TurnsTornStops` and `TurnsImplementLog` hold when
pushers take turns (`InTurns`: at most one push between its read and its append) and
no write loses just its newline, `SerialChain` and the others when there is one
pusher; there what a pusher has read still is the end of the file when it appends,
which is exactly what fails with two at once (`spine_fork`). Turns are a hypothesis
because nothing in the code enforces them.
`TurnsImplementLedger` and `SerialImplementsLedger` (`CallersSpec`) tie the other
components to the file: for any write faults, pushers that take turns implement
`Ledger`, and a push gets its receipt only in a step that is an `Emit`. The
inductive invariant (`TurnInv`) is that what somebody has read parses, and that only the
last line of a file can be one that does not. The run has torn writes only; the
theorem includes the write that loses just its newline.
`TurnsVerify`, for any write faults: where pushers take turns, a file that parses
verifies. Its invariant (`FileInv`) says that the lines are linked each to the
one before, as far as they parse, the unfinished one at the end included; a glued line
breaks the link and stops the file from parsing at once.
`VerifyIsExact` (`VerifyExact`) for any pushers and faults and files of any length:
the walk of `verify_ledger` says "valid" for exactly the chains from genesis. The
walk is a recursive function over the file. That after n lines it is "ok" exactly
when these n lines are a chain is shown by least counterexample (`AllNumbers`):
were it false for some n there would be a smallest (`WellFoundedInduction`), which is
not zero, and the step to it from the one before contradicts it.

**DriveIngestProofs.** `VerifiedIsPresent`, `ReapIsSafe` and `ReapChoosesSafely`
rest on one inductive invariant, `VouchInv`: every file table that says
"verified", wherever it is (the manifest file, the report, the memory of a
running command of any operator), lists only files the bucket holds, and a
sampled file of it is vouched for by its content. The properties alone are not
inductive: a command may write back a manifest it loaded long ago. No
hypothesis on the number of operators; `ReapChoosesSafely` assumes that
different contents have different sizes and that the sample covers the
collection, which are the two conditions the code's comments leave open.
`ReapKeepsContent` says what is left when sizes may collide and the sample is small.
If the owner does not rewrite what is uploaded (`NoRewrite`: an edit of a file the
bucket holds deletes it or puts the same content back), reap deletes only files whose
very content is in the bucket. A file in both places is then the same in both
(`SameInBoth`), and that the bucket has one at all is `ReapDeletes`. So the only way
reap can lose content is a rewrite after the upload, which is `drive_same_size`.

**ZoneLifecycleProofs.** `TypeCorrect`, `MovesConnected` (`TrailConnected`) and
`RetiredStays` (`RetirementTerminal`) for any write faults, `WholeReplays`
(`ReplayAgrees`) while the ledger ends in a newline, `NoGateSkippedUnglued` for every
step but the one that glues; `HistoryReplays` and `NoGateSkipped` (`ClimbsByGates`) are
the same for `WriteFaults \subseteq {"torn"}`.
The inductive invariant `HistoryInv` says that what a live controller holds is
what the ledger tells of its artifact, except between emission and assignment,
where what it is about to assign is. It holds of a `Whole` ledger. One that is not
whole never becomes so again: its readable part can only lose its last entry once
(`StaysBroken`), which keeps what is said of every prefix of it, but not what is said
of the zone it tells last. The lemma `OneStep` reduces every action to
"the ledger is unchanged" or "one event that fits the history was appended", so
the theorems share one case analysis.

**PromotionGateProofs.** `StricterIsStricter` and `WaiversAreShown` for any
bundles, policies and write faults, from `VerdictInv` (where a call is and every
entry it wrote agree with the one verdict fixed when it was made); the
evaluators' monotonicity in the policy is a lemma. `WholeReceipts`
(`PromotedIsReceipted`, `RefusedIsRecorded`) for any write faults while the ledger ends
in a newline, `ReceiptLaw` and `RefusalIsRecorded` for `WriteFaults \subseteq
{"torn"}`, from `RecordInv` (each place of a call determines which entries it has on
the ledger, and in which order), which holds of a `Whole` ledger.

**WorkroomProofs.** `NothingUnreviewed` (`WithinReviewed`) for any tables,
extents and number of callers. A verdict that has grown old is harmless, because a
change that needs no review gives nothing its previous table did not, and that
table was in force. The inductive invariant says so of every change being judged;
the lemma behind it is that `authority_change` without review means "gives no
more", with `IsPrefix` on extents transitive. `CeilingsHold`
(`AnswersUnderCeiling`) for any tables, catalogs, calls and write faults,
`WholeReceiptLaw` (`ReceiptLaw`) while the ledger ends in a newline and
`ReceiptLawHolds` for `WriteFaults \subseteq {"torn"}` rest on one invariant,
`WorkInvariant`: a call that publishes has behind it what its receipt
says (`Earned`), an entry is of a call that ended and has the level that call
published at, and a call has at most one. The steps that leave the ledger alone
share one lemma (`QuietStep`). That a call which returned has its receipt is the only
part that asks for a `Whole` ledger, and it must: a write that leaves a whole
line without its newline is followed by a receipt that glues to it, and a call
returns whose receipt no reader finds (section 4).

**LaborProofs.** `VouchedByTrust` (`TrustVouches`) and `ReturnedInOrder`
(`ReturnsInOrder`) for any runners, chains and write faults, overlapping pushes and a
ledger that is put back any number of times. A reference is a number and the entry
that had it. On a fork two entries have one number, and after a restore a number may be
filled anew, so references do not simply stay good. The invariant (`LaborInvariant`)
says of each run (`RunOK`) that its chain is one of those there are (`Chosen`), that its
references are of its own stages (`Own`), that no entry on the ledger is of a stage it
has yet to write (`Fresh`), that of two of its stages on the ledger the later comes
later (`OrderedOn`), and that of a chain that returned the last entry is gone or all stand
at their numbers on one chain (`Vouched`). An append
keeps what resolves, because it never comes before the first entry with a number; a
restore keeps a prefix, and what still resolves there has everything before it
(`AppendKeeps`, `CutKeeps`).
`RunsCountDown` is the part of `RunsEnd` that is not fairness: a run that goes on has a
number of steps left (`StepsLeft`) that no other runner, failed write or restore
raises, and that each step of its own lowers. What remains for TLC is that such
a step is always possible and, by fairness, taken.

`PromotionHasQuorum` (`PromotedOnQuorum`) and
`PromotionHasValidBlock` for any rosters, keys, thresholds and signatures ever
made. The ids on a verified block are among the roster's signers (`VerifiedSigners`),
their number is at least k, and more signatures take nothing away (`BuildStep`).

**KnowledgeProofs.** `KahnExact` (`SortExact`) for any graphs over finitely
many nodes, parallel edges and cycles included, and any order of the queue. The
inductive invariant (`SortingOK`): the in-degree of a node counts the edges into it
from nodes not taken, which is zero for what is taken; the queue holds exactly the
nodes not taken without such edges; and a set of nodes each of which waits for
another of the set is never touched. When the queue runs dry the nodes left are
such a set. `GraphTypeCorrect` shows on the way that no in-degree goes
below zero.
`NoReaderIsSentBack` (`NeverResolvesBack`) for any concepts and versions:
`KEInvariant` adds that the version a reader resolved to is still among the
entries, live or not, and that a concept has one live entry; since a valid edit
keeps every entry and the live one outdoes all others, the newest never falls.
`OpenExtentIsLocal`, `CeilingEarned` and `TimeOnlyLowers` (`OpenIsLocal`,
`CeilingIsEarned`, `AgeOnlyLowers`) for any sections, overlaps and declared levels:
the invariant is that `view` is the projection of the present values and ages, and
the lemma `Projected` says what a projection shows (`Shows`), so the three proofs
never open the projection itself. `TimeOnlyLowers` compares the projections of two
sets of ages.
`ValidIsAuditable` (`Auditable`) for any pools: a verdict is about the instance
as it stands, because writing takes the verdict back.

**RetrievalProofs.** `WholeDecisions` (`DecidedOnLedger`) for any number of
calls, any gate and any write faults while the ledger ends in a newline, and
`EveryAnswerDecided` ever after for `WriteFaults \subseteq {"torn"}`. The
invariant `RouteInvariant`: each place of a call
determines which hits and which answer it has (`AllHave`); an entry is of a call
that ended and is the decision its hits call for (`DecisionsTell`), from which follows
that it names the stores that served; a call has at most one, and one that
ended well has one. Only the last asks for a `Whole` ledger, as the
laws of `PromotionGate` and `Workroom` do. `FusionIsWhole` (`NothingLost`) needs no
hypothesis: `InOrder` of the first places of all hits covers them, without
repetition and in order, by lemmas about `Before` and `InOrder` of any set of
places; so a hit that comes first in one store's answer, or in the graph's rather than
the other's, comes first in the fused one.
`SurfacedIsNewest` (`NewestSurfaces`) for any ranked list: the invariant
`FilterInvariant` says what a filtered list looks like (`Filtered`); that each key
has a winner is the maximum of a finite set, of times and then of places.
`RouteIsStable` (`SemanticStable`) for any number of exemplars: the best and the
next best score do not depend on the order, and a margin above zero leaves one
best.
`StoresAskedAlike` (`StoresAgree`) and `FilterIsMeant` (`FilterMeansProposal`) for
any questions and proposals: the lemma `FieldMeans` compares, field by field, what
a compiled filter keeps with what the constraint says, and `SameMemories` applies it to the
constraints that `build_self_query` makes of the years and phrases of a question. It
is an equivalence: what the filter keeps, and the statement's own part of the question
(`InStatement`: the search term, and the end of "in" that "before" replaced), against what
the statement selects and the filter's own part (`InFilter`: tag and user).

The retrieval and knowledge modules state the assumptions these proofs need, and
the runs evaluate them: bounds are natural numbers (`MaxAge`, `MaxCandidates`),
`NotRouted` and `NoWord` are no question and no word, `Questions` are questions. In
`QueryBuild` a proposal gives `$exists` a Boolean and a range of tags one bound: with
two, the index looks for one tag within both, where the proposal means each on its
own; the code accepts that and tags are keywords, which have no range.

**Composed instances.** `WorkroomProofs`, `LaborProofs`, `KnowledgeProofs` and
`RetrievalProofs` extend the module that composes their components for TLC
(`MCWorkroom` and so on), so that its `TypeOK` is a theorem too (`TypeCorrect`): the
lemma `Parts` shows that a behaviour of the composition is one of each component, and
the components' own type theorems do the rest. The component theorems carry over to
the composition by the same lemma.

Proved and not run, because the instance adds nothing: the types of the modules
above, `AppendOnly` (lines are never rewritten), `AckedOnLedger` (a receipt is a readable
line, of one pusher or where failing writes leave nothing), `TornStopsReceipts` (after a torn
line there are no new receipts), `WaiversShown` (a waiver never comes out as a plain
pass), `PromotedIsValid` (a block that promotes passes its validator) and the theorems
above with no property in brackets.

Only model-checked:

- `RunsEnd`, beyond `RunsCountDown`: liveness and `ENABLED` are out of the provers'
  reach.
- The two counterexamples of section 4.

## 6. Plan

What is left, most important first:

1. Two controllers of one artifact; zone lifecycle and promotion gate on one ledger.
2. The Cypher parser and its bounded traversal, GraphRAG grounding.

## 7. Not modelled

`PROJECT.json` lists every component with its status and reason. In short:

- *Metadata intake* builds one record, checks it and emits one receipt; the
  artifact registry and the grade ladder are constant tables.
- *The Cypher subset and gateway, the memory binding, analysis views, CSKG edges,
  annotations and GraphRAG grounding* look at one string or record at a time.
- *The contract validators* check one document each against fixed lists in CI;
  the ones whose verdict depends on an order or on several parts (composition
  graph, mount table, ER instance, knowledge workspace, quorum block) are modelled.
- *Contracts, schemas, examples, docs, CI* are data; the Jitsi connector is a stub,
  the Synapse connector HTTP.
- Power failure: the code calls no fsync, and what a file system loses then is not
  determined by it. Two controllers of one artifact: the code gives a state to one
  caller and says nothing of several.

## 8. Running

    tlc -config spine_faulty.cfg MCReceiptSpine
    tlapm ZoneLifecycleProofs.tla

The configurations are named after the runs. `labor` takes two to three minutes,
`drive_sampled`, `gate_calls` and `drive_concurrent` up to a minute each, the others
less.
