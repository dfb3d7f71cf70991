---------------------------- MODULE DriveIngest ----------------------------
(***************************************************************************)
(* tools/drive_ingest.py: plan, push, verify and reap of one collection.   *)
(* A local tree, a bucket, the manifest file and the custody log are       *)
(* shared by operators who each run one command at a time, one file or one *)
(* write per step, while the owner of the files keeps editing them.  A     *)
(* command may stop between any two steps: killed, a nonzero gcloud, a     *)
(* sys.exit.                                                               *)
(*                                                                         *)
(* Only the last custody event is kept: custody_status reads no other.     *)
(***************************************************************************)
EXTENDS Naturals, FiniteSets

CONSTANTS
    Operators,   \* processes that run commands on the collection
    Files,       \* relative paths, numbered in sorted order
    Contents,    \* what a file may hold; its hash is the content itself
    Size(_),     \* the size of a content
    Absent,      \* no such file
    Missing,     \* no manifest has been written
    Truncated,   \* a manifest json.loads rejects: write_text was cut short
    SampleSize,  \* how many objects verify re-hashes (8 in the code)
    MaxEdits     \* bound on the owner's edits, for model checking

ASSUME FilesAssumption == Files \subseteq Nat /\ IsFiniteSet(Files)
ASSUME SampleAssumption == SampleSize \in Nat \ {0}
ASSUME BoundAssumption == MaxEdits \in Nat

\* What a source tree or a bucket holds, and what plan noted of a tree: the size
\* it read, then the hash it read, Absent where it listed no file.
Tree == [Files -> Contents \cup {Absent}]
Sizes == {Size(c) : c \in Contents} \cup {Absent}
Row == [size : Sizes, sha : Contents]
Table == [Files -> Row \cup {Absent}]
Manifest == [files : Table, verified : BOOLEAN]

ASSUME AbsentAssumption == Absent \notin Contents /\ Absent \notin Row
ASSUME MarkersAssumption == {Missing, Truncated} \cap Manifest = {}

EmptyTable == [f \in Files |-> Absent]
Listed(table) == {f \in Files : table[f] # Absent}

\* A custody event: its type and the custody_status it leaves.  A Cut one was
\* not written to its end; the event after it is Glued to it.  Neither parses.
Cut == <<"Cut", "Unreadable">>
Glued == <<"Glued", "Unreadable">>
Event == {Cut, Glued, <<"None", "Gap">>,
          <<"Intake", "PendingVerification">>,
          <<"ZonePromotion", "PendingVerification">>,
          <<"HashVerification", "Intact">>,
          <<"HashVerification", "Gap">>,
          <<"IntegrityViolation", "IntegrityViolation">>,
          <<"Retirement", "Intact">>}

Verdict == {"Intact", "Gap", "IntegrityViolation"}

Place == {"idle",
          "plan sizing", "plan hashing", "plan emitting",
          "push copying", "push emitting",
          "verify listing", "verify sampling", "verify writing",
          "verify emitting", "verify reporting",
          "reap gate", "reap stat", "reap unlink"}

Blank == [files |-> EmptyTable, verified |-> FALSE]

\* A running command: where it is, the manifest it holds in memory, the files
\* its loop has still to visit, the size its plan read last and what its verify
\* is about to record.
Command == [at : Place, man : Manifest, todo : SUBSET Files, size : Sizes,
            verdict : Verdict]
Idle == [at |-> "idle", man |-> Blank, todo |-> {}, size |-> Absent, verdict |-> "Gap"]

VARIABLES
    local,      \* the source tree
    remote,     \* the objects under the prefix, but for _manifest.json
    described,  \* whether the object _manifest.json exists
    manifest,   \* the manifest file
    last,       \* the last event of the custody log
    report,     \* the file table verification.json speaks of, or Missing
    cmd,        \* cmd[o]: the command o runs
    edits,      \* how often the owner edited
    uploaded    \* history: contents that were ever in the bucket, per file

files == <<local, remote, described, manifest, last, report>>
history == <<edits, uploaded>>
vars == <<files, cmd, history>>

Status == last[2]    \* custody_status(collection)

\* emit_custody appends a line.
Record(e) == last' = IF last = Cut THEN Glued ELSE e

-----------------------------------------------------------------------------
(* Helpers *)

At(o) == cmd[o].at
Man(o) == cmd[o].man
Todo(o) == cmd[o].todo

\* The next file of a loop over sorted paths.
First(fs) == CHOOSE f \in fs : \A g \in fs : f <= g

\* load_manifest exits when there is no manifest and raises on a cut one.
Loadable == manifest \notin {Missing, Truncated}

\* The command of o goes on at p, or ends and forgets what it held.
Goto(o, p) == cmd' = [cmd EXCEPT ![o].at = p]
Finish(o) == cmd' = [cmd EXCEPT ![o] = Idle]

\* A command of o starts at p with manifest m and a loop over fs.
Start(o, p, m, fs) ==
    /\ At(o) = "idle"
    /\ cmd' = [cmd EXCEPT ![o] = [Idle EXCEPT !.at = p, !.man = m, !.todo = fs]]
    /\ UNCHANGED <<files, history>>

\* Mutant: the sample with one object too few: position 0 skipped.
SampleShort(table) ==
    LET listed == Listed(table)
        position(f) == Cardinality({g \in listed : g < f})
    IN  {f \in listed : position(f) > 0 /\ position(f) < SampleSize}

\* verify's sample: man["files"][:: max(1, n // SampleSize)][:SampleSize].
Sample(table) ==
    LET listed == Listed(table)
        position(f) == Cardinality({g \in listed : g < f})
        rate == Cardinality(listed) \div SampleSize
        stride == IF rate = 0 THEN 1 ELSE rate
    IN  {f \in listed : /\ position(f) % stride = 0
                        /\ position(f) \div stride < SampleSize}

Init ==
    /\ local \in Tree
    /\ remote = EmptyTable
    /\ described = FALSE
    /\ manifest = Missing
    /\ last = <<"None", "Gap">>
    /\ report = Missing
    /\ cmd = [o \in Operators |-> Idle]
    /\ edits = 0
    /\ uploaded = [f \in Files |-> {}]

-----------------------------------------------------------------------------
(* plan *)

PlanStart(o) == Start(o, "plan sizing", Blank, Listed(local))

\* stat of the next file; one that vanished meanwhile is left out.
PlanSize(o) ==
    /\ At(o) = "plan sizing"
    /\ Todo(o) # {}
    /\ LET f == First(Todo(o)) IN
        cmd' = IF local[f] = Absent
               THEN [cmd EXCEPT ![o].todo = @ \ {f}]
               ELSE [cmd EXCEPT ![o].at = "plan hashing", ![o].size = Size(local[f])]
    /\ UNCHANGED <<files, history>>

\* Its hash, of what it holds by then.
PlanHash(o) ==
    /\ At(o) = "plan hashing"
    /\ LET f == First(Todo(o)) IN
        cmd' = [cmd EXCEPT ![o].at = "plan sizing", ![o].todo = @ \ {f},
                           ![o].man.files[f] =
                               IF local[f] = Absent THEN Absent
                               ELSE [size |-> cmd[o].size, sha |-> local[f]]]
    /\ UNCHANGED <<files, history>>

PlanWrite(o) ==
    /\ At(o) = "plan sizing"
    /\ Todo(o) = {}
    /\ manifest' = Man(o)
    /\ Goto(o, "plan emitting")
    /\ UNCHANGED <<local, remote, described, last, report, history>>

PlanEmit(o) ==
    /\ At(o) = "plan emitting"
    /\ Record(<<"Intake", "PendingVerification">>)
    /\ Finish(o)
    /\ UNCHANGED <<local, remote, described, manifest, report, history>>

-----------------------------------------------------------------------------
(* push *)

PushStart(o) == Loadable /\ Start(o, "push copying", manifest, Listed(local))

\* rsync copies what sourceRoot holds now, listed in the manifest or not, in
\* an order of its own.
PushFile(o, f) ==
    /\ At(o) = "push copying"
    /\ f \in Todo(o)
    /\ cmd' = [cmd EXCEPT ![o].todo = @ \ {f}]
    /\ IF local[f] = Absent
       THEN UNCHANGED <<remote, uploaded>>
       ELSE /\ remote' = [remote EXCEPT ![f] = local[f]]
            /\ uploaded' = [uploaded EXCEPT ![f] = @ \cup {local[f]}]
    /\ UNCHANGED <<local, described, manifest, last, report, edits>>

\* cp uploads the manifest file; whether it did is not looked at.
PushDescribe(o) ==
    /\ At(o) = "push copying"
    /\ Todo(o) = {}
    /\ described' \in {TRUE, described}
    /\ Goto(o, "push emitting")
    /\ UNCHANGED <<local, remote, manifest, last, report, history>>

PushEmit(o) ==
    /\ At(o) = "push emitting"
    /\ Record(<<"ZonePromotion", "PendingVerification">>)
    /\ Finish(o)
    /\ UNCHANGED <<local, remote, described, manifest, report, history>>

-----------------------------------------------------------------------------
(* verify *)

VerifyStart(o) == Loadable /\ Start(o, "verify listing", manifest, {})

\* Every listed file is in the bucket: go on to the contents of a sample.
VerifyAllPresent(o) ==
    /\ At(o) = "verify listing"
    /\ Listed(Man(o).files) \subseteq Listed(remote)
    /\ cmd' = [cmd EXCEPT ![o].at = "verify sampling", ![o].todo = Sample(Man(o).files),
                          ![o].verdict = "Intact"]
    /\ UNCHANGED <<files, history>>

\* Mutant: verified taken from the sampled contents alone.
ConcludeFromSample(o, v) ==
    /\ cmd' = [cmd EXCEPT ![o].at = "verify writing", ![o].verdict = v,
                          ![o].man.verified = (v # "IntegrityViolation")]
    /\ UNCHANGED <<files, history>>

\* What verify decided goes into the manifest it holds, then to the file.
Conclude(o, v) ==
    /\ cmd' = [cmd EXCEPT ![o].at = "verify writing", ![o].verdict = v,
                          ![o].man.verified = (v = "Intact")]
    /\ UNCHANGED <<files, history>>

VerifyMissing(o) ==
    /\ At(o) = "verify listing"
    /\ ~ (Listed(Man(o).files) \subseteq Listed(remote))
    /\ Conclude(o, "Gap")

VerifyMatch(o) ==
    /\ At(o) = "verify sampling"
    /\ Todo(o) # {}
    /\ LET f == First(Todo(o)) IN
        /\ remote[f] = Man(o).files[f].sha
        /\ cmd' = [cmd EXCEPT ![o].todo = @ \ {f}]
    /\ UNCHANGED <<files, history>>

\* The next object differs from the manifest, or could not be fetched.
VerifyMismatch(o) ==
    /\ At(o) = "verify sampling"
    /\ Todo(o) # {}
    /\ cmd' = [cmd EXCEPT ![o].todo = @ \ {First(@)}, ![o].verdict = "IntegrityViolation"]
    /\ UNCHANGED <<files, history>>

VerifySampled(o) ==
    /\ At(o) = "verify sampling"
    /\ Todo(o) = {}
    /\ Conclude(o, cmd[o].verdict)

VerifyWrite(o) ==
    /\ At(o) = "verify writing"
    /\ manifest' = Man(o)
    /\ Goto(o, "verify emitting")
    /\ UNCHANGED <<local, remote, described, last, report, history>>

\* Only an Intact verdict is also reported.
VerifyEmitIntact(o) ==
    /\ At(o) = "verify emitting"
    /\ cmd[o].verdict = "Intact"
    /\ Record(<<"HashVerification", "Intact">>)
    /\ Goto(o, "verify reporting")
    /\ UNCHANGED <<local, remote, described, manifest, report, history>>

VerifyEmitFailure(o) ==
    /\ At(o) = "verify emitting"
    /\ cmd[o].verdict # "Intact"
    /\ Record(IF cmd[o].verdict = "Gap"
              THEN <<"HashVerification", "Gap">>
              ELSE <<"IntegrityViolation", "IntegrityViolation">>)
    /\ Finish(o)
    /\ UNCHANGED <<local, remote, described, manifest, report, history>>

VerifyReport(o) ==
    /\ At(o) = "verify reporting"
    /\ report' = Man(o).files
    /\ Finish(o)
    /\ UNCHANGED <<local, remote, described, manifest, last, history>>

-----------------------------------------------------------------------------
(* reap *)

ReapStart(o) == Loadable /\ Start(o, "reap gate", manifest, Listed(manifest.files))

\* Mutant: the gate asks the custody trail alone, on which the Retirement of
\* another reap may have hidden a Gap.
ReapGateOnTrail(o) ==
    /\ At(o) = "reap gate"
    /\ Status = "Intact"
    /\ Goto(o, "reap stat")
    /\ UNCHANGED <<files, history>>

\* The custody trail and the manifest must both say so.
ReapGate(o) ==
    /\ At(o) = "reap gate"
    /\ Status = "Intact"
    /\ Man(o).verified
    /\ Goto(o, "reap stat")
    /\ UNCHANGED <<files, history>>

SameSize(o, f) ==
    /\ local[f] # Absent
    /\ Size(local[f]) = Man(o).files[f].size

\* The file is gone, or its size is not the manifest's: it is kept.
ReapKeep(o) ==
    /\ At(o) = "reap stat"
    /\ Todo(o) # {}
    /\ ~ SameSize(o, First(Todo(o)))
    /\ cmd' = [cmd EXCEPT ![o].todo = @ \ {First(@)}]
    /\ UNCHANGED <<files, history>>

ReapStat(o) ==
    /\ At(o) = "reap stat"
    /\ Todo(o) # {}
    /\ SameSize(o, First(Todo(o)))
    /\ Goto(o, "reap unlink")
    /\ UNCHANGED <<files, history>>

\* Whatever the file holds by now; unlink raises if it is gone.
ReapUnlink(o) ==
    /\ At(o) = "reap unlink"
    /\ LET f == First(Todo(o)) IN
        /\ local[f] # Absent
        /\ local' = [local EXCEPT ![f] = Absent]
        /\ cmd' = [cmd EXCEPT ![o].at = "reap stat", ![o].todo = @ \ {f}]
    /\ UNCHANGED <<remote, described, manifest, last, report, history>>

ReapEmit(o) ==
    /\ At(o) = "reap stat"
    /\ Todo(o) = {}
    /\ Record(<<"Retirement", "Intact">>)
    /\ Finish(o)
    /\ UNCHANGED <<local, remote, described, manifest, report, history>>

-----------------------------------------------------------------------------
(* What happens around the commands *)

\* A command stops: killed, a refused gate, a failed rsync, an exception.
Stop(o) ==
    /\ At(o) # "idle"
    /\ Finish(o)
    /\ UNCHANGED <<files, history>>

\* It stops inside write_text, which truncates the manifest first.
StopInWrite(o) ==
    /\ \/ At(o) = "plan sizing" /\ Todo(o) = {}
       \/ At(o) = "verify writing"
    /\ manifest' = Truncated
    /\ Finish(o)
    /\ UNCHANGED <<local, remote, described, last, report, history>>

\* It stops inside emit_custody, with only part of the line written.
StopInEmit(o) ==
    /\ \/ At(o) \in {"plan emitting", "push emitting", "verify emitting"}
       \/ At(o) = "reap stat" /\ Todo(o) = {}
    /\ last' = Cut
    /\ Finish(o)
    /\ UNCHANGED <<local, remote, described, manifest, report, history>>

\* The owner writes or deletes a file.
Edit(f, c) ==
    /\ edits < MaxEdits
    /\ c # local[f]
    /\ local' = [local EXCEPT ![f] = c]
    /\ edits' = edits + 1
    /\ UNCHANGED <<remote, described, manifest, last, report, cmd, uploaded>>

Plan(o) == PlanStart(o) \/ PlanSize(o) \/ PlanHash(o) \/ PlanWrite(o) \/ PlanEmit(o)

Push(o) ==
    \/ PushStart(o)
    \/ \E f \in Files : PushFile(o, f)
    \/ PushDescribe(o)
    \/ PushEmit(o)

Verify(o) ==
    \/ VerifyStart(o)
    \/ VerifyAllPresent(o)
    \/ VerifyMissing(o)
    \/ VerifyMatch(o)
    \/ VerifyMismatch(o)
    \/ VerifySampled(o)
    \/ VerifyWrite(o)
    \/ VerifyEmitIntact(o)
    \/ VerifyEmitFailure(o)
    \/ VerifyReport(o)

Reap(o) ==
    \/ ReapStart(o)
    \/ ReapGate(o)
    \/ ReapKeep(o)
    \/ ReapStat(o)
    \/ ReapUnlink(o)
    \/ ReapEmit(o)

Next ==
    \/ \E o \in Operators :
          \/ Plan(o) \/ Push(o) \/ Verify(o) \/ Reap(o)
          \/ Stop(o) \/ StopInWrite(o) \/ StopInEmit(o)
    \/ \E f \in Files, c \in Contents \cup {Absent} : Edit(f, c)

Spec == Init /\ [][Next]_vars

-----------------------------------------------------------------------------
(* Properties *)

\* Types of the files, the commands and the custody trail.
TypeOK ==
    /\ local \in Tree
    /\ remote \in Tree
    /\ described \in BOOLEAN
    /\ manifest \in Manifest \cup {Missing, Truncated}
    /\ last \in Event
    /\ report \in Table \cup {Missing}
    /\ cmd \in [Operators -> Command]
    /\ edits \in 0..MaxEdits
    /\ uploaded \in [Files -> SUBSET Contents]

\* What is marked verified is in the bucket, entry by entry: in the manifest
\* file and in verification.json, whoever overwrote whose copy of them.
VerifiedPresent ==
    /\ Loadable /\ manifest.verified => Listed(manifest.files) \subseteq Listed(remote)
    /\ report # Missing => Listed(report) \subseteq Listed(remote)

\* reap deletes a file; nothing else but the owner does.
Reaps(f) == edits' = edits /\ local'[f] # local[f]

\* reap never deletes a file of which the bucket holds no copy at all, however
\* plan, push, verify and reap of several operators interleave or die.
ReapOnlyPresent == [][\A f \in Files : Reaps(f) => remote[f] # Absent]_vars

\* plan saw one state of every file: the size it noted is the hashed content's.
Steady(table) == \A f \in Listed(table) : table[f].size = Size(table[f].sha)

\* What reap sets out to delete was in the bucket once.
ReapsUploaded(o) ==
    At(o) = "reap stat" /\ At(o)' = "reap unlink" =>
        local[First(Todo(o))] \in uploaded[First(Todo(o))]

\* Where sizes tell contents apart, verify sampled every object and no file
\* changed under plan's hands, reap chooses only content that was uploaded.
ReapChoosesUploaded ==
    [][\A o \in Operators : Steady(Man(o).files) => ReapsUploaded(o)]_vars
=============================================================================
