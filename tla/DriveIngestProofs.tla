------------------------- MODULE DriveIngestProofs -------------------------
(***************************************************************************)
(* Proofs about drive_ingest for any operators, files, contents, sample    *)
(* size and number of edits.  The argument rests on one idea: a manifest   *)
(* marked verified is vouched for by the bucket, in whatever hands or on   *)
(* whatever file its copies are, because the bucket only gains objects.    *)
(***************************************************************************)
EXTENDS DriveIngest, TLAPS, FiniteSetTheorems, WellFoundedInduction

Less == {ss \in Nat \X Nat : ss[1] < ss[2]}

\* The first of some paths is one of them.
LEMMA FirstIn ==
    ASSUME NEW T \in SUBSET Files, T # {}
    PROVE  First(T) \in T
  <1>1. IsWellFoundedOn(Less, Nat)
    BY NatLessThanWellFounded, Zenon DEF OpToRel, Less
  <1>2. T \subseteq Nat
    BY FilesAssumption
  <1>3. \E x \in T : \A y \in T : ~ (<<y, x>> \in Less)
    BY <1>1, <1>2, WFMin, Zenon
  <1>4. PICK x \in T : \A y \in T : ~ (<<y, x>> \in Less)
    BY <1>3
  <1>5. ASSUME NEW y \in T
        PROVE  x <= y
    <2>1. x \in Nat /\ y \in Nat
      BY <1>2
    <2>2. y < x => <<y, x>> \in Less
      BY <2>1 DEF Less
    <2> QED  BY <1>4, <2>1, <2>2
  <1> QED  BY <1>5 DEF First

-----------------------------------------------------------------------------
(* Type correctness *)

\* The commands' own types, and the blank they start from.
LEMMA BlankType ==
    /\ EmptyTable \in Table
    /\ Blank \in Manifest
    /\ Idle \in Command
  BY DEF EmptyTable, Table, Blank, Manifest, Idle, Command, Place, Verdict, Sizes

\* The parts of a command have their types.
LEMMA CommandParts ==
    ASSUME TypeOK, NEW o \in Operators
    PROVE  /\ cmd[o] \in Command
           /\ Man(o) \in Manifest
           /\ Man(o).files \in Table
           /\ Todo(o) \in SUBSET Files
  BY DEF TypeOK, Command, Man, Todo, Manifest

\* Starting and finishing commands keeps their types.
LEMMA CommandTypes ==
    ASSUME TypeOK, NEW o \in Operators
    PROVE  /\ Finish(o) => cmd' \in [Operators -> Command]
           /\ \A p \in Place : Goto(o, p) => cmd' \in [Operators -> Command]
           /\ \A p \in Place, m \in Manifest, fs \in SUBSET Files :
                 Start(o, p, m, fs) => cmd' \in [Operators -> Command]
  <1>1. cmd \in [Operators -> Command] /\ cmd[o] \in Command
    BY DEF TypeOK
  <1>2. Finish(o) => cmd' \in [Operators -> Command]
    BY <1>1, BlankType DEF Finish
  <1>3. ASSUME NEW p \in Place, Goto(o, p)
        PROVE  cmd' \in [Operators -> Command]
    BY <1>1, <1>3 DEF Goto, Command
  <1>4. ASSUME NEW p \in Place, NEW m \in Manifest, NEW fs \in SUBSET Files,
               Start(o, p, m, fs)
        PROVE  cmd' \in [Operators -> Command]
    BY <1>1, <1>4, BlankType DEF Start, Command
  <1> QED  BY <1>2, <1>3, <1>4

\* One step of plan keeps the types.
LEMMA PlanType ==
    ASSUME TypeOK, NEW o \in Operators, Plan(o)
    PROVE  TypeOK'
  <1>1. CASE PlanStart(o)
    <2>1. Listed(local) \in SUBSET Files /\ "plan sizing" \in Place
      BY DEF Listed, Place
    <2>2. cmd' \in [Operators -> Command]
      BY <1>1, <2>1, BlankType, CommandTypes DEF PlanStart
    <2> QED  BY <1>1, <2>2 DEF PlanStart, Start, TypeOK, files, history
  <1>2. CASE PlanSize(o)
    <2> DEFINE f == First(Todo(o))
    <2>1. f \in Files
      BY <1>2, CommandParts, FirstIn DEF PlanSize
    <2>2. local[f] # Absent => Size(local[f]) \in Sizes
      BY <2>1 DEF TypeOK, Tree, Sizes
    <2>3. cmd' \in [Operators -> Command]
      <3> HIDE DEF f
      <3>1. cmd' = IF local[f] = Absent
                   THEN [cmd EXCEPT ![o].todo = @ \ {f}]
                   ELSE [cmd EXCEPT ![o].at = "plan hashing", ![o].size = Size(local[f])]
        BY <1>2 DEF PlanSize, f
      <3>2. cmd \in [Operators -> Command] /\ cmd[o] \in Command
        BY DEF TypeOK
      <3>3. CASE local[f] = Absent
        <4>1. [cmd[o] EXCEPT !.todo = @ \ {f}] \in Command
          BY <3>2 DEF Command
        <4> QED  BY <3>1, <3>2, <3>3, <4>1
      <3>4. CASE local[f] # Absent
        <4>1. [cmd[o] EXCEPT !.at = "plan hashing", !.size = Size(local[f])] \in Command
          BY <2>2, <3>2, <3>4 DEF Command, Place
        <4> QED  BY <3>1, <3>2, <3>4, <4>1
      <3> QED  BY <3>3, <3>4
    <2> QED  BY <1>2, <2>3 DEF PlanSize, TypeOK, files, history
  <1>3. CASE PlanHash(o)
    <2> DEFINE f == First(Todo(o))
               row == IF local[f] = Absent THEN Absent
                      ELSE [size |-> cmd[o].size, sha |-> local[f]]
               table == [cmd[o].man.files EXCEPT ![f] = row]
    <2>1. cmd[o] \in Command /\ cmd \in [Operators -> Command] /\ local \in Tree
      BY DEF TypeOK
    <2>2. cmd[o].man.files \in Table
      BY CommandParts DEF Man
    <2>3. f \in Files => row \in Row \cup {Absent}
      <3> HIDE DEF f
      <3> QED  BY <2>1 DEF Command, Tree, Row
    <2>4. table \in Table
      <3> HIDE DEF f, row
      <3> QED  BY <2>2, <2>3 DEF Table
    <2> DEFINE m == [cmd[o].man EXCEPT !.files = table]
               c == [cmd[o] EXCEPT !.at = "plan sizing", !.todo = @ \ {f}, !.man = m]
    <2>5. cmd' = [cmd EXCEPT ![o] = c]
      BY <1>3 DEF PlanHash
    <2>6. m \in Manifest
      <3> HIDE DEF table
      <3> QED  BY <2>1, <2>4, CommandParts DEF Man, Manifest
    <2>7. c \in Command
      <3> HIDE DEF m, f
      <3> QED  BY <2>1, <2>6 DEF Command, Place
    <2>8. cmd' \in [Operators -> Command]
      <3> HIDE DEF c
      <3> QED  BY <2>1, <2>5, <2>7
    <2> QED  BY <1>3, <2>8 DEF PlanHash, TypeOK, files, history
  <1>4. CASE PlanWrite(o)
    <2>1. cmd' \in [Operators -> Command]
      BY <1>4, CommandTypes DEF PlanWrite, Place
    <2> QED  BY <1>4, <2>1, CommandParts DEF PlanWrite, TypeOK, history
  <1>5. CASE PlanEmit(o)
    <2>1. cmd' \in [Operators -> Command]
      BY <1>5, CommandTypes DEF PlanEmit
    <2> QED  BY <1>5, <2>1 DEF PlanEmit, TypeOK, history, Event, Record
  <1> QED  BY <1>1, <1>2, <1>3, <1>4, <1>5 DEF Plan

\* One step of push keeps the types.
LEMMA PushType ==
    ASSUME TypeOK, NEW o \in Operators, Push(o)
    PROVE  TypeOK'
  <1>1. CASE PushStart(o)
    <2>1. Listed(local) \in SUBSET Files /\ "push copying" \in Place
      BY DEF Listed, Place
    <2>2. manifest \in Manifest
      BY <1>1 DEF PushStart, Loadable, TypeOK
    <2>3. cmd' \in [Operators -> Command]
      BY <1>1, <2>1, <2>2, CommandTypes DEF PushStart
    <2> QED  BY <1>1, <2>3 DEF PushStart, Start, TypeOK, files, history
  <1>2. ASSUME NEW f \in Files, PushFile(o, f)
        PROVE  TypeOK'
    <2>1. cmd' \in [Operators -> Command]
      BY <1>2 DEF PushFile, TypeOK, Command
    <2>2. remote' \in Tree /\ uploaded' \in [Files -> SUBSET Contents]
      <3>1. remote \in Tree /\ local \in Tree /\ uploaded \in [Files -> SUBSET Contents]
        BY DEF TypeOK
      <3>2. CASE local[f] = Absent
        BY <1>2, <3>1, <3>2 DEF PushFile
      <3>3. CASE local[f] # Absent
        <4>1. local[f] \in Contents
          BY <3>1, <3>3 DEF Tree
        <4>2. uploaded[f] \cup {local[f]} \in SUBSET Contents
          BY <3>1, <4>1
        <4>3. /\ remote' = [remote EXCEPT ![f] = local[f]]
              /\ uploaded' = [uploaded EXCEPT ![f] = uploaded[f] \cup {local[f]}]
          BY <1>2, <3>3 DEF PushFile
        <4> QED  BY <3>1, <4>1, <4>2, <4>3 DEF Tree
      <3> QED  BY <3>2, <3>3
    <2> QED  BY <1>2, <2>1, <2>2 DEF PushFile, TypeOK
  <1>3. CASE PushDescribe(o)
    <2>1. cmd' \in [Operators -> Command]
      BY <1>3, CommandTypes DEF PushDescribe, Place
    <2> QED  BY <1>3, <2>1 DEF PushDescribe, TypeOK, history
  <1>4. CASE PushEmit(o)
    <2>1. cmd' \in [Operators -> Command]
      BY <1>4, CommandTypes DEF PushEmit
    <2> QED  BY <1>4, <2>1 DEF PushEmit, TypeOK, history, Event, Record
  <1> QED  BY <1>1, <1>2, <1>3, <1>4 DEF Push

\* One step of verify keeps the types.
LEMMA VerifyType ==
    ASSUME TypeOK, NEW o \in Operators, Verify(o)
    PROVE  TypeOK'
  <1>1. CASE VerifyStart(o)
    <2>1. manifest \in Manifest
      BY <1>1 DEF VerifyStart, Loadable, TypeOK
    <2>2. "verify listing" \in Place /\ {} \in SUBSET Files
      BY DEF Place
    <2>3. cmd' \in [Operators -> Command]
      BY <1>1, <2>1, <2>2, CommandTypes DEF VerifyStart
    <2> QED  BY <1>1, <2>3 DEF VerifyStart, Start, TypeOK, files, history
  <1>2. CASE VerifyAllPresent(o)
    <2>1. Sample(Man(o).files) \in SUBSET Files
      BY DEF Sample, Listed
    <2>2. cmd' \in [Operators -> Command]
      <3> DEFINE fs == Sample(Man(o).files)
             c == [cmd[o] EXCEPT !.at = "verify sampling", !.todo = fs,
                                 !.verdict = "Intact"]
      <3>1. cmd' = [cmd EXCEPT ![o] = c]
        BY <1>2 DEF VerifyAllPresent
      <3>2. c \in Command
        <4> HIDE DEF fs
        <4> QED  BY <2>1, CommandParts DEF fs, Command, Place, Verdict
      <3> HIDE DEF c
      <3> QED  BY <3>1, <3>2 DEF TypeOK
    <2> QED  BY <1>2, <2>2 DEF VerifyAllPresent, TypeOK, files, history
  <1>3. ASSUME NEW v \in Verdict, Conclude(o, v)
        PROVE  TypeOK'
    <2>1. cmd' \in [Operators -> Command]
      <3> DEFINE m == [cmd[o].man EXCEPT !.verified = (v = "Intact")]
                 c == [cmd[o] EXCEPT !.at = "verify writing", !.verdict = v, !.man = m]
      <3>1. cmd' = [cmd EXCEPT ![o] = c]
        BY <1>3 DEF Conclude
      <3>2. m \in Manifest
        <4>1. (v = "Intact") \in BOOLEAN
          OBVIOUS
        <4>2. cmd[o].man \in Manifest
          BY CommandParts DEF Man
        <4> QED  BY <4>1, <4>2 DEF Manifest
      <3>3. c \in Command
        <4>1. "verify writing" \in Place
          BY DEF Place
        <4>2. cmd[o] \in Command
          BY CommandParts
        <4> HIDE DEF m
        <4> QED  BY <3>2, <4>1, <4>2 DEF Command
      <3> QED  BY <3>1, <3>3 DEF TypeOK
    <2> QED  BY <1>3, <2>1 DEF Conclude, TypeOK, files, history
  <1>4. CASE VerifyMissing(o) \/ VerifySampled(o)
    <2>1. cmd[o].verdict \in Verdict
      BY CommandParts DEF Command
    <2> QED  BY <1>3, <1>4, <2>1 DEF VerifyMissing, VerifySampled, Verdict
  <1>5. CASE VerifyWrite(o)
    <2>1. cmd' \in [Operators -> Command]
      BY <1>5, CommandTypes DEF VerifyWrite, Place
    <2> QED  BY <1>5, <2>1, CommandParts DEF VerifyWrite, TypeOK, history
  <1>6. CASE VerifyEmitIntact(o)
    <2>1. cmd' \in [Operators -> Command]
      BY <1>6, CommandTypes DEF VerifyEmitIntact, Place
    <2> QED  BY <1>6, <2>1 DEF VerifyEmitIntact, TypeOK, history, Event, Record
  <1>7. CASE VerifyEmitFailure(o)
    <2>1. cmd' \in [Operators -> Command]
      BY <1>7, CommandTypes DEF VerifyEmitFailure
    <2> QED  BY <1>7, <2>1 DEF VerifyEmitFailure, TypeOK, history, Event, Record
  <1>8. CASE VerifyReport(o)
    <2>1. cmd' \in [Operators -> Command]
      BY <1>8, CommandTypes DEF VerifyReport
    <2> QED  BY <1>8, <2>1, CommandParts DEF VerifyReport, TypeOK, history
  <1>9. CASE VerifyMatch(o) \/ VerifyMismatch(o)
    <2>1. cmd' \in [Operators -> Command]
      <3> DEFINE f == First(Todo(o))
      <3>1. \/ cmd' = [cmd EXCEPT ![o].todo = @ \ {f}]
            \/ cmd' = [cmd EXCEPT ![o].todo = @ \ {f}, ![o].verdict = "IntegrityViolation"]
        BY <1>9 DEF VerifyMatch, VerifyMismatch, Todo
      <3> HIDE DEF f
      <3> QED  BY <3>1 DEF TypeOK, Command, Verdict
    <2> QED  BY <1>9, <2>1 DEF VerifyMatch, VerifyMismatch, TypeOK, files, history
  <1> QED  BY <1>1, <1>2, <1>4, <1>5, <1>6, <1>7, <1>8, <1>9 DEF Verify

\* One step of reap keeps the types.
LEMMA ReapType ==
    ASSUME TypeOK, NEW o \in Operators, Reap(o)
    PROVE  TypeOK'
  <1>1. CASE ReapStart(o)
    <2>1. manifest \in Manifest /\ Listed(manifest.files) \in SUBSET Files
      BY <1>1 DEF ReapStart, Loadable, TypeOK, Listed
    <2>2. cmd' \in [Operators -> Command]
      BY <1>1, <2>1, CommandTypes DEF ReapStart, Place
    <2> QED  BY <1>1, <2>2 DEF ReapStart, Start, TypeOK, files, history
  <1>2. CASE ReapGate(o)
    <2>1. cmd' \in [Operators -> Command]
      BY <1>2, CommandTypes DEF ReapGate, Place
    <2> QED  BY <1>2, <2>1 DEF ReapGate, TypeOK, files, history
  <1>3. CASE ReapKeep(o)
    <2>1. cmd' \in [Operators -> Command]
      BY <1>3 DEF ReapKeep, TypeOK, Command
    <2> QED  BY <1>3, <2>1 DEF ReapKeep, TypeOK, files, history
  <1>4. CASE ReapStat(o)
    <2>1. cmd' \in [Operators -> Command]
      BY <1>4, CommandTypes DEF ReapStat, Place
    <2> QED  BY <1>4, <2>1 DEF ReapStat, TypeOK, files, history
  <1>5. CASE ReapUnlink(o)
    <2>1. cmd' \in [Operators -> Command]
      BY <1>5 DEF ReapUnlink, TypeOK, Command, Place
    <2>2. local' \in Tree
      BY <1>5 DEF ReapUnlink, TypeOK, Tree
    <2> QED  BY <1>5, <2>1, <2>2 DEF ReapUnlink, TypeOK, history
  <1>6. CASE ReapEmit(o)
    <2>1. cmd' \in [Operators -> Command]
      BY <1>6, CommandTypes DEF ReapEmit
    <2> QED  BY <1>6, <2>1 DEF ReapEmit, TypeOK, history, Event, Record
  <1> QED  BY <1>1, <1>2, <1>3, <1>4, <1>5, <1>6 DEF Reap

\* Every step keeps the types.
LEMMA TypeStep == TypeOK /\ [Next]_vars => TypeOK'
  <1> SUFFICES ASSUME TypeOK, [Next]_vars PROVE TypeOK'
    OBVIOUS
  <1>1. ASSUME NEW o \in Operators, Stop(o)
        PROVE  TypeOK'
    <2>1. cmd' \in [Operators -> Command]
      BY <1>1, CommandTypes DEF Stop
    <2> QED  BY <1>1, <2>1 DEF Stop, TypeOK, files, history
  <1>2. ASSUME NEW o \in Operators, StopInWrite(o)
        PROVE  TypeOK'
    <2>1. cmd' \in [Operators -> Command]
      BY <1>2, CommandTypes DEF StopInWrite
    <2> QED  BY <1>2, <2>1 DEF StopInWrite, TypeOK, history
  <1>3. ASSUME NEW f \in Files, NEW c \in Contents \cup {Absent}, Edit(f, c)
        PROVE  TypeOK'
    BY <1>3, BoundAssumption DEF Edit, TypeOK, Tree
  <1>4. CASE UNCHANGED vars
    BY <1>4 DEF vars, files, history, TypeOK
  <1>5. ASSUME NEW o \in Operators, StopInEmit(o)
        PROVE  TypeOK'
    <2>1. cmd' \in [Operators -> Command]
      BY <1>5, CommandTypes DEF StopInEmit
    <2> QED  BY <1>5, <2>1 DEF StopInEmit, TypeOK, history, Event
  <1> QED
    BY <1>1, <1>2, <1>3, <1>4, <1>5, PlanType, PushType, VerifyType, ReapType DEF Next

\* Every reachable state of the files, the bucket and the commands is typed.
THEOREM TypeCorrect == Spec => []TypeOK
  <1>1. ASSUME Init PROVE TypeOK
    <2>1. cmd \in [Operators -> Command] /\ remote \in Tree
      BY <1>1, BlankType DEF Init, EmptyTable, Tree
    <2>2. uploaded \in [Files -> SUBSET Contents]
      BY <1>1 DEF Init
    <2>3. last \in Event /\ edits \in 0..MaxEdits
      BY <1>1, BoundAssumption DEF Init, Event
    <2> QED  BY <1>1, <2>1, <2>2, <2>3 DEF Init, TypeOK
  <1> QED  BY <1>1, TypeStep, PTL DEF Spec

-----------------------------------------------------------------------------
(* What the bucket vouches for *)

InBucket(table) == Listed(table) \subseteq Listed(remote)
WasUploaded(table, fs) == \A f \in fs : table[f].sha \in uploaded[f]
Sampled(table) == WasUploaded(table, Sample(table))
Vouched(table) == InBucket(table) /\ Sampled(table)

\* What the command of o knows of the manifest it holds.
CommandInv(o) ==
    /\ Man(o).verified => Vouched(Man(o).files)
    /\ At(o) = "verify sampling" =>
          /\ InBucket(Man(o).files)
          /\ cmd[o].verdict = "Intact"
                => WasUploaded(Man(o).files, Sample(Man(o).files) \ Todo(o))
    /\ At(o) \in {"idle", "plan sizing", "plan hashing"} => ~ Man(o).verified
    /\ At(o) \in {"verify writing", "verify emitting"} /\ cmd[o].verdict = "Intact"
          => Man(o).verified
    /\ At(o) = "verify reporting" => Man(o).verified
    /\ At(o) \in {"reap gate", "reap stat", "reap unlink"}
          => Todo(o) \subseteq Listed(Man(o).files)
    /\ At(o) \in {"reap stat", "reap unlink"} => Man(o).verified
    /\ At(o) = "reap unlink" => Todo(o) # {}

FilesInv ==
    /\ Loadable /\ manifest.verified => Vouched(manifest.files)
    /\ report # Missing => Vouched(report)
    /\ \A f \in Files : remote[f] # Absent => remote[f] \in uploaded[f]

VouchInv == FilesInv /\ \A o \in Operators : CommandInv(o)

\* The bucket and its history only grow.
Grows ==
    /\ Listed(remote) \subseteq Listed(remote')
    /\ \A f \in Files : uploaded[f] \subseteq uploaded'[f]

\* What is vouched for stays so while the bucket grows.
LEMMA VouchedStays ==
    ASSUME Grows, NEW table
    PROVE  /\ InBucket(table) => InBucket(table)'
           /\ \A fs \in SUBSET Files : WasUploaded(table, fs) => WasUploaded(table, fs)'
           /\ Vouched(table) => Vouched(table)'
  <1>1. InBucket(table) => Listed(table) \subseteq Listed(remote')
    BY DEF Grows, InBucket
  <1>2. Sample(table) \subseteq Files
    BY DEF Sample, Listed
  <1>3. \A fs \in SUBSET Files :
            WasUploaded(table, fs) => \A f \in fs : table[f].sha \in uploaded'[f]
    BY DEF Grows, WasUploaded
  <1> QED  BY <1>1, <1>2, <1>3 DEF InBucket, Sampled, WasUploaded, Vouched

\* A command that is not touched keeps what it knows.
LEMMA OthersKeep ==
    ASSUME Grows, NEW q \in Operators, CommandInv(q), cmd'[q] = cmd[q]
    PROVE  CommandInv(q)'
  <1> DEFINE table == cmd[q].man.files
             read == Sample(table) \ cmd[q].todo
  <1>1. read \in SUBSET Files
    BY DEF Sample, Listed
  <1>2. /\ Vouched(table) => Vouched(table)'
        /\ InBucket(table) => InBucket(table)'
        /\ WasUploaded(table, read) => WasUploaded(table, read)'
    BY <1>1, VouchedStays
  <1> QED
    BY <1>2 DEF CommandInv, Man, At, Todo, Vouched, InBucket, Sampled, WasUploaded

\* A command that is not touched is untouched: only o's changes.
LEMMA OnlyMine ==
    ASSUME TypeOK, NEW o \in Operators, NEW c, cmd' = [cmd EXCEPT ![o] = c]
    PROVE  cmd'[o] = c /\ \A q \in Operators \ {o} : cmd'[q] = cmd[q]
  BY DEF TypeOK

\* A finished command knows nothing.
LEMMA IdleInv ==
    ASSUME NEW o \in Operators, cmd'[o] = Idle
    PROVE  CommandInv(o)'
  BY DEF CommandInv, Man, At, Todo, Idle, Blank

\* The manifest and the report stay vouched for while they stay the same.
LEMMA FilesKeep ==
    ASSUME Grows, FilesInv, manifest' = manifest, report' = report,
           remote' = remote, uploaded' = uploaded
    PROVE  FilesInv'
  BY DEF FilesInv, Loadable, Vouched, InBucket, Sampled, WasUploaded

\* Nothing that counts changed but the command of o.
LEMMA CommandStep ==
    ASSUME TypeOK, VouchInv, NEW o \in Operators, NEW c,
           cmd' = [cmd EXCEPT ![o] = c], Grows, FilesInv',
           cmd' = [cmd EXCEPT ![o] = c] /\ cmd'[o] = c => CommandInv(o)'
    PROVE  VouchInv'
  <1>1. cmd'[o] = c /\ \A q \in Operators \ {o} : cmd'[q] = cmd[q]
    BY OnlyMine
  <1>2. \A q \in Operators \ {o} : CommandInv(q)'
    BY <1>1, OthersKeep DEF VouchInv
  <1>3. CommandInv(o)'
    BY <1>1
  <1> QED  BY <1>2, <1>3 DEF VouchInv

\* plan: a manifest under construction is not verified.
LEMMA PlanVouch ==
    ASSUME TypeOK, VouchInv, NEW o \in Operators, Plan(o)
    PROVE  VouchInv'
  <1> Grows
    BY DEF Plan, PlanStart, Start, PlanSize, PlanHash, PlanWrite, PlanEmit, Grows, files, history
  <1>1. CASE PlanStart(o)
    <2> DEFINE c == [Idle EXCEPT !.at = "plan sizing", !.man = Blank, !.todo = Listed(local)]
    <2>1. cmd' = [cmd EXCEPT ![o] = c] /\ FilesInv'
      BY <1>1, FilesKeep DEF PlanStart, Start, VouchInv, files, history
    <2>2. cmd'[o] = c => CommandInv(o)'
      <3>1. c.at = "plan sizing" /\ ~ c.man.verified
        BY DEF Blank, Idle
      <3> HIDE DEF c
      <3> QED  BY <3>1 DEF CommandInv, At, Man
    <2> QED  BY <2>1, <2>2, CommandStep
  <1>2. ASSUME NEW c, cmd' = [cmd EXCEPT ![o] = c], ~ c.man.verified,
               c.at \in {"plan sizing", "plan hashing"}, UNCHANGED <<files, history>>
        PROVE  VouchInv'
    <2>1. FilesInv'
      BY <1>2, FilesKeep DEF VouchInv, files, history
    <2>2. cmd'[o] = c => CommandInv(o)'
      BY <1>2 DEF CommandInv, At, Man
    <2> QED  BY <1>2, <2>1, <2>2, CommandStep
  <1>3. ASSUME At(o) \in {"plan sizing", "plan hashing"}
        PROVE  /\ cmd[o] \in Command /\ Man(o) \in Manifest /\ ~ Man(o).verified
    BY <1>3, CommandParts DEF VouchInv, CommandInv
  <1>4. CASE PlanSize(o)
    <2> DEFINE f == First(Todo(o))
               c == IF local[f] = Absent
                    THEN [cmd[o] EXCEPT !.todo = @ \ {f}]
                    ELSE [cmd[o] EXCEPT !.at = "plan hashing", !.size = Size(local[f])]
    <2>1. cmd' = [cmd EXCEPT ![o] = c] /\ UNCHANGED <<files, history>>
      BY <1>4 DEF PlanSize
    <2>2. c.at \in {"plan sizing", "plan hashing"} /\ ~ c.man.verified
      BY <1>3, <1>4 DEF PlanSize, At, Man, Command
    <2> HIDE DEF c
    <2> QED  BY <1>2, <2>1, <2>2
  <1>5. CASE PlanHash(o)
    <2> DEFINE f == First(Todo(o))
               row == IF local[f] = Absent THEN Absent
                      ELSE [size |-> cmd[o].size, sha |-> local[f]]
               m == [cmd[o].man EXCEPT !.files[f] = row]
               c == [cmd[o] EXCEPT !.at = "plan sizing", !.todo = @ \ {f}, !.man = m]
    <2>1. cmd' = [cmd EXCEPT ![o] = c] /\ UNCHANGED <<files, history>>
      BY <1>5 DEF PlanHash
    <2>2. m.verified = Man(o).verified
      <3> HIDE DEF row, f
      <3> QED  BY <1>3, <1>5 DEF PlanHash, Man, Manifest
    <2>3. c.at = "plan sizing" /\ c.man = m
      <3> HIDE DEF m, f
      <3> QED  BY <1>3, <1>5 DEF PlanHash, Command
    <2> HIDE DEF c, m
    <2> QED  BY <1>2, <1>3, <1>5, <2>1, <2>2, <2>3 DEF PlanHash
  <1>6. CASE PlanWrite(o)
    <2> DEFINE c == [cmd[o] EXCEPT !.at = "plan emitting"]
    <2>1. cmd' = [cmd EXCEPT ![o] = c]
      BY <1>6 DEF PlanWrite, Goto
    <2>2. ~ Man(o).verified
      BY <1>6 DEF PlanWrite, VouchInv, CommandInv
    <2>3. FilesInv'
      BY <1>6, <2>2 DEF PlanWrite, VouchInv, FilesInv, Loadable, Vouched, InBucket,
                        Sampled, WasUploaded, history
    <2>4. c.at = "plan emitting" /\ ~ c.man.verified
      BY <2>2, CommandParts DEF Man, Command
    <2>5. cmd'[o] = c => CommandInv(o)'
      BY <2>4 DEF CommandInv, At, Man
    <2> QED  BY <2>1, <2>3, <2>5, CommandStep
  <1>7. CASE PlanEmit(o)
    <2>1. cmd' = [cmd EXCEPT ![o] = Idle] /\ FilesInv'
      BY <1>7, FilesKeep DEF PlanEmit, Finish, VouchInv, history
    <2> QED  BY <2>1, IdleInv, CommandStep
  <1> QED  BY <1>1, <1>4, <1>5, <1>6, <1>7 DEF Plan

\* push: what it uploads only adds to the bucket.
LEMMA PushVouch ==
    ASSUME TypeOK, VouchInv, NEW o \in Operators, Push(o)
    PROVE  VouchInv'
  <1>1. CASE PushStart(o)
    <2> DEFINE c == [Idle EXCEPT !.at = "push copying", !.man = manifest, !.todo = Listed(local)]
    <2>1. cmd' = [cmd EXCEPT ![o] = c] /\ FilesInv' /\ Grows
      BY <1>1, FilesKeep DEF PushStart, Start, VouchInv, Grows, files, history
    <2>2. manifest.verified => Vouched(manifest.files)'
      BY <1>1, <2>1 DEF PushStart, VouchInv, FilesInv, Start, files, Loadable, history,
                        Vouched, InBucket, Sampled, WasUploaded
    <2>3. cmd'[o] = c => CommandInv(o)'
      <3>1. c.at = "push copying" /\ c.man = manifest /\ manifest' = manifest
        BY <1>1 DEF PushStart, Start, files, Idle
      <3> HIDE DEF c
      <3> QED  BY <2>2, <3>1 DEF CommandInv, At, Man, Vouched, InBucket, Sampled, WasUploaded
    <2> QED  BY <2>1, <2>3, CommandStep
  <1>2. ASSUME NEW f \in Files, PushFile(o, f)
        PROVE  VouchInv'
    <2> DEFINE c == [cmd[o] EXCEPT !.todo = @ \ {f}]
    <2>1. cmd' = [cmd EXCEPT ![o] = c]
      BY <1>2 DEF PushFile
    <2>2. Grows /\ \A g \in Files : remote'[g] # Absent => remote'[g] \in uploaded'[g]
      BY <1>2 DEF PushFile, Grows, Listed, TypeOK, Tree, VouchInv, FilesInv
    <2>3. FilesInv'
      <3>1. /\ Vouched(manifest.files) => Vouched(manifest.files)'
            /\ Vouched(report) => Vouched(report)'
        <4>1. manifest' = manifest /\ report' = report
          BY <1>2 DEF PushFile
        <4> QED  BY <2>2, <4>1, VouchedStays DEF Vouched, InBucket, Sampled, WasUploaded
      <3> QED  BY <1>2, <2>2, <3>1 DEF PushFile, VouchInv, FilesInv, Loadable
    <2>4. cmd'[o] = c => CommandInv(o)'
      <3>1. /\ c.at = "push copying" /\ c.man = Man(o)
            /\ Man(o).verified => Vouched(Man(o).files)
        BY <1>2, CommandParts DEF PushFile, Command, At, Man, VouchInv, CommandInv
      <3>2. cmd'[o] = c => (Vouched(Man(o).files) => Vouched(Man(o).files)')
        BY <2>2, <3>1, VouchedStays DEF Vouched, InBucket, Sampled, WasUploaded, Man
      <3> HIDE DEF c
      <3> QED  BY <3>1, <3>2 DEF CommandInv, At, Man
    <2> QED  BY <2>1, <2>2, <2>3, <2>4, CommandStep
  <1>3. CASE PushDescribe(o)
    <2> DEFINE c == [cmd[o] EXCEPT !.at = "push emitting"]
    <2>1. cmd' = [cmd EXCEPT ![o] = c] /\ FilesInv' /\ Grows
      BY <1>3, FilesKeep DEF PushDescribe, Goto, VouchInv, Grows, history
    <2>2. c.at = "push emitting" /\ c.man = Man(o)
      BY CommandParts DEF Man, Command
    <2>3. cmd'[o] = c => CommandInv(o)'
      BY <1>3, <2>2 DEF PushDescribe, history, VouchInv, CommandInv, At, Man, Vouched,
                        InBucket, Sampled, WasUploaded
    <2> QED  BY <2>1, <2>3, CommandStep
  <1>4. CASE PushEmit(o)
    <2>1. cmd' = [cmd EXCEPT ![o] = Idle] /\ FilesInv' /\ Grows
      BY <1>4, FilesKeep DEF PushEmit, Finish, VouchInv, Grows, history
    <2> QED  BY <2>1, IdleInv, CommandStep
  <1> QED  BY <1>1, <1>2, <1>3, <1>4 DEF Push

\* What is sampled is listed.
LEMMA SampleListed == \A table : Sample(table) \subseteq Listed(table)
  BY DEF Sample

\* verify: an Intact verdict is vouched for, and no other marks a manifest.
LEMMA VerifyVouch ==
    ASSUME TypeOK, VouchInv, NEW o \in Operators, Verify(o)
    PROVE  VouchInv'
  <1>1. CASE VerifyStart(o)
    <2> DEFINE c == [Idle EXCEPT !.at = "verify listing", !.man = manifest, !.todo = {}]
    <2>1. cmd' = [cmd EXCEPT ![o] = c] /\ FilesInv' /\ Grows
      BY <1>1, FilesKeep DEF VerifyStart, Start, VouchInv, Grows, files, history
    <2>2. manifest.verified => Vouched(manifest.files)'
      BY <1>1, <2>1 DEF VerifyStart, VouchInv, FilesInv, Start, files, Loadable, history,
                        Vouched, InBucket, Sampled, WasUploaded
    <2>3. cmd'[o] = c => CommandInv(o)'
      <3>1. c.at = "verify listing" /\ c.man = manifest /\ manifest' = manifest
        BY <1>1 DEF VerifyStart, Start, files, Idle
      <3> HIDE DEF c
      <3> QED  BY <2>2, <3>1 DEF CommandInv, At, Man, Vouched, InBucket, Sampled, WasUploaded
    <2> QED  BY <2>1, <2>3, CommandStep
  <1>2. CASE VerifyAllPresent(o)
    <2> DEFINE fs == Sample(Man(o).files)
               c == [cmd[o] EXCEPT !.at = "verify sampling", !.todo = fs,
                                   !.verdict = "Intact"]
    <2>1. cmd' = [cmd EXCEPT ![o] = c] /\ FilesInv' /\ Grows
      <3> HIDE DEF fs
      <3>1. cmd' = [cmd EXCEPT ![o] = c]
        BY <1>2 DEF VerifyAllPresent, fs
      <3> QED  BY <1>2, <3>1, FilesKeep DEF VerifyAllPresent, VouchInv, Grows, files, history
    <2>2. c.at = "verify sampling" /\ c.man = Man(o) /\ c.todo = Sample(Man(o).files)
      <3> HIDE DEF fs
      <3> QED  BY CommandParts DEF Man, Command, fs
    <2>3. cmd'[o] = c => CommandInv(o)'
      <3> HIDE DEF c
      <3>1. /\ InBucket(Man(o).files)
            /\ Man(o).verified => Vouched(Man(o).files)
        BY <1>2 DEF VerifyAllPresent, InBucket, VouchInv, CommandInv
      <3>2. remote' = remote /\ uploaded' = uploaded
        BY <1>2 DEF VerifyAllPresent, files, history
      <3> QED
        BY <1>2, <2>2, <3>1, <3>2 DEF VerifyAllPresent, VouchInv, CommandInv, At, Man, Todo,
                          Vouched, InBucket, Sampled, WasUploaded
    <2> QED  BY <2>1, <2>3, CommandStep
  <1>3. ASSUME NEW v \in Verdict, Conclude(o, v), v = "Intact" => Vouched(Man(o).files)
        PROVE  VouchInv'
    <2> DEFINE m == [cmd[o].man EXCEPT !.verified = (v = "Intact")]
               c == [cmd[o] EXCEPT !.at = "verify writing", !.verdict = v, !.man = m]
    <2>1. cmd' = [cmd EXCEPT ![o] = c] /\ FilesInv' /\ Grows
      BY <1>3, FilesKeep DEF Conclude, VouchInv, Grows, files, history
    <2>2. /\ c.at = "verify writing" /\ c.verdict = v
          /\ c.man.files = Man(o).files
          /\ c.man.verified = (v = "Intact")
      BY CommandParts DEF Man, Command, Manifest
    <2>3. cmd'[o] = c => CommandInv(o)'
      <3> HIDE DEF c
      <3> QED
        BY <1>3, <2>2 DEF Conclude, files, history, CommandInv, At, Man, Vouched, InBucket,
                          Sampled, WasUploaded
    <2> QED  BY <2>1, <2>3, CommandStep
  <1>4. CASE VerifyMissing(o)
    BY <1>3, <1>4 DEF VerifyMissing, Verdict
  <1>5. CASE VerifySampled(o)
    <2>1. cmd[o].verdict = "Intact" => Vouched(Man(o).files)
      <3>1. Sample(Man(o).files) \ Todo(o) = Sample(Man(o).files)
        BY <1>5 DEF VerifySampled
      <3> QED  BY <1>5, <3>1 DEF VerifySampled, VouchInv, CommandInv, Vouched, Sampled
    <2>2. cmd[o].verdict \in Verdict
      BY CommandParts DEF Command
    <2> QED  BY <1>3, <1>5, <2>1, <2>2 DEF VerifySampled
  <1>10. ASSUME At(o) = "verify sampling", NEW f \in Files, NEW v,
                cmd' = [cmd EXCEPT ![o] = [@ EXCEPT !.todo = Todo(o) \ {f}, !.verdict = v]],
                v = "Intact" => v = cmd[o].verdict /\ remote[f] = Man(o).files[f].sha,
                UNCHANGED <<files, history>>
         PROVE  VouchInv'
    <2> DEFINE c == [cmd[o] EXCEPT !.todo = Todo(o) \ {f}, !.verdict = v]
               read == Sample(Man(o).files) \ (Todo(o) \ {f})
    <2>1. cmd' = [cmd EXCEPT ![o] = c] /\ FilesInv' /\ Grows
      BY <1>10, FilesKeep DEF VouchInv, Grows, files, history
    <2>2. c.at = "verify sampling" /\ c.man = Man(o) /\ c.todo = Todo(o) \ {f}
          /\ c.verdict = v
      BY <1>10, CommandParts DEF At, Man, Todo, Command
    <2>3. /\ InBucket(Man(o).files)
          /\ Man(o).verified => Vouched(Man(o).files)
      BY <1>10 DEF VouchInv, CommandInv
    <2>4. v = "Intact" => WasUploaded(Man(o).files, read)
      <3> SUFFICES ASSUME v = "Intact", NEW g \in read
                   PROVE  Man(o).files[g].sha \in uploaded[g]
        BY DEF WasUploaded
      <3>1. CASE g = f
        <4>1. remote[g] # Absent /\ g \in Files
          BY <2>3, SampleListed DEF InBucket, Listed
        <4> QED  BY <1>10, <3>1, <4>1 DEF VouchInv, FilesInv
      <3>2. CASE g # f
        <4>1. WasUploaded(Man(o).files, Sample(Man(o).files) \ Todo(o))
          BY <1>10 DEF VouchInv, CommandInv
        <4>2. g \in Sample(Man(o).files) \ Todo(o)
          BY <3>2
        <4> QED  BY <4>1, <4>2 DEF WasUploaded
      <3> QED  BY <3>1, <3>2
    <2>5. cmd'[o] = c => CommandInv(o)'
      <3> HIDE DEF c
      <3>1. remote' = remote /\ uploaded' = uploaded
        BY <1>10 DEF files, history
      <3> SUFFICES ASSUME cmd'[o] = c PROVE CommandInv(o)'
        OBVIOUS
      <3>2. /\ At(o)' = "verify sampling" /\ Man(o)' = Man(o)
            /\ Todo(o)' = Todo(o) \ {f} /\ cmd'[o].verdict = v
        BY <2>2 DEF At, Man, Todo
      <3>3. /\ InBucket(Man(o).files)'
            /\ (Man(o).verified => Vouched(Man(o).files))'
        BY <2>3, <3>1, <3>2 DEF Vouched, InBucket, Sampled, WasUploaded
      <3>4. v = "Intact" =>
                WasUploaded(Man(o).files, Sample(Man(o).files) \ Todo(o))'
        BY <2>4, <3>1, <3>2 DEF WasUploaded
      <3> QED  BY <3>2, <3>3, <3>4 DEF CommandInv
    <2> QED  BY <2>1, <2>5, CommandStep
  <1>11. CASE VerifyMatch(o) \/ VerifyMismatch(o)
    <2>1. First(Todo(o)) \in Files
      BY <1>11, CommandParts, FirstIn DEF VerifyMatch, VerifyMismatch
    <2>2. CASE VerifyMatch(o)
      <3>1. [cmd[o] EXCEPT !.todo = Todo(o) \ {First(Todo(o))}, !.verdict = cmd[o].verdict] =
            [cmd[o] EXCEPT !.todo = @ \ {First(Todo(o))}]
        BY CommandParts DEF Todo, Command
      <3> QED  BY <1>10, <2>1, <2>2, <3>1 DEF VerifyMatch
    <2>3. CASE VerifyMismatch(o)
      BY <1>10, <2>1, <2>3 DEF VerifyMismatch, Todo
    <2> QED  BY <1>11, <2>2, <2>3
  <1>6. CASE VerifyWrite(o)
    <2> DEFINE c == [cmd[o] EXCEPT !.at = "verify emitting"]
    <2>1. cmd' = [cmd EXCEPT ![o] = c] /\ Grows
      BY <1>6 DEF VerifyWrite, Goto, Grows, history
    <2>2. Man(o).verified => Vouched(Man(o).files)
      BY DEF VouchInv, CommandInv
    <2>3. FilesInv'
      BY <1>6, <2>2 DEF VerifyWrite, VouchInv, FilesInv, Loadable, Vouched, InBucket,
                        Sampled, WasUploaded, history
    <2>4. /\ c.at = "verify emitting" /\ c.man = Man(o) /\ c.verdict = cmd[o].verdict
          /\ c.verdict = "Intact" => Man(o).verified
      BY <1>6, CommandParts DEF Man, Command, VerifyWrite, VouchInv, CommandInv
    <2>5. cmd'[o] = c => CommandInv(o)'
      <3> HIDE DEF c
      <3> QED
        BY <1>6, <2>2, <2>4 DEF VerifyWrite, history, CommandInv, At, Man, Vouched, InBucket,
                                Sampled, WasUploaded
    <2> QED  BY <2>1, <2>3, <2>5, CommandStep
  <1>7. CASE VerifyEmitIntact(o)
    <2> DEFINE c == [cmd[o] EXCEPT !.at = "verify reporting"]
    <2>1. cmd' = [cmd EXCEPT ![o] = c] /\ FilesInv' /\ Grows
      BY <1>7, FilesKeep DEF VerifyEmitIntact, Goto, VouchInv, Grows, history
    <2>2. /\ c.at = "verify reporting" /\ c.man = Man(o)
          /\ Man(o).verified /\ Vouched(Man(o).files)
      BY <1>7, CommandParts DEF Man, Command, VerifyEmitIntact, VouchInv, CommandInv
    <2>3. cmd'[o] = c => CommandInv(o)'
      <3> HIDE DEF c
      <3> QED
        BY <1>7, <2>2 DEF VerifyEmitIntact, history, CommandInv, At, Man, Vouched, InBucket,
                          Sampled, WasUploaded
    <2> QED  BY <2>1, <2>3, CommandStep
  <1>8. CASE VerifyEmitFailure(o)
    <2>1. cmd' = [cmd EXCEPT ![o] = Idle] /\ FilesInv' /\ Grows
      BY <1>8, FilesKeep DEF VerifyEmitFailure, Finish, VouchInv, Grows, history
    <2> QED  BY <2>1, IdleInv, CommandStep
  <1>9. CASE VerifyReport(o)
    <2>1. cmd' = [cmd EXCEPT ![o] = Idle] /\ Grows
      BY <1>9 DEF VerifyReport, Finish, Grows, history
    <2>2. Vouched(Man(o).files)
      BY <1>9 DEF VerifyReport, VouchInv, CommandInv
    <2>3. FilesInv'
      BY <1>9, <2>2 DEF VerifyReport, VouchInv, FilesInv, Loadable, Vouched, InBucket,
                        Sampled, WasUploaded, history
    <2> QED  BY <2>1, <2>3, IdleInv, CommandStep
  <1> QED
    BY <1>1, <1>2, <1>4, <1>5, <1>6, <1>7, <1>8, <1>9, <1>11 DEF Verify

\* reap: past its gate it holds a verified manifest.
LEMMA ReapVouch ==
    ASSUME TypeOK, VouchInv, NEW o \in Operators, Reap(o)
    PROVE  VouchInv'
  <1>1. CASE ReapStart(o)
    <2> DEFINE c == [Idle EXCEPT !.at = "reap gate", !.man = manifest, !.todo = Listed(manifest.files)]
    <2>1. cmd' = [cmd EXCEPT ![o] = c] /\ FilesInv' /\ Grows
      BY <1>1, FilesKeep DEF ReapStart, Start, VouchInv, Grows, files, history
    <2>2. manifest.verified => Vouched(manifest.files)'
      BY <1>1, <2>1 DEF ReapStart, VouchInv, FilesInv, Start, files, Loadable, history,
                        Vouched, InBucket, Sampled, WasUploaded
    <2>3. cmd'[o] = c => CommandInv(o)'
      <3>1. /\ c.at = "reap gate" /\ c.man = manifest /\ manifest' = manifest
            /\ c.todo = Listed(c.man.files)
        BY <1>1 DEF ReapStart, Start, files, Idle
      <3> HIDE DEF c
      <3> QED  BY <2>2, <3>1 DEF CommandInv, At, Man, Todo, Vouched, InBucket, Sampled, WasUploaded
    <2> QED  BY <2>1, <2>3, CommandStep
  <1>2. ASSUME NEW p \in {"reap stat", "reap unlink"}, Goto(o, p),
               UNCHANGED <<files, history>>, Man(o).verified,
               At(o) \in {"reap gate", "reap stat"},
               p = "reap unlink" => Todo(o) # {}
        PROVE  VouchInv'
    <2> DEFINE c == [cmd[o] EXCEPT !.at = p]
    <2>1. cmd' = [cmd EXCEPT ![o] = c] /\ FilesInv' /\ Grows
      BY <1>2, FilesKeep DEF Goto, VouchInv, Grows, files, history
    <2>2. c.at = p /\ c.man = Man(o) /\ c.todo = Todo(o)
      BY CommandParts DEF Man, Todo, Command
    <2>3. Vouched(Man(o).files) /\ Todo(o) \subseteq Listed(Man(o).files)
      BY <1>2 DEF VouchInv, CommandInv
    <2>4. cmd'[o] = c => CommandInv(o)'
      <3> HIDE DEF c
      <3> QED
        BY <1>2, <2>2, <2>3 DEF files, history, CommandInv, At, Man, Todo, Vouched, InBucket,
                                Sampled, WasUploaded
    <2> QED  BY <2>1, <2>4, CommandStep
  <1>3. CASE ReapGate(o)
    BY <1>2, <1>3 DEF ReapGate
  <1>4. CASE ReapStat(o)
    <2>1. Man(o).verified
      BY <1>4 DEF ReapStat, VouchInv, CommandInv
    <2> QED  BY <1>2, <1>4, <2>1 DEF ReapStat
  <1>5. ASSUME NEW f \in Files, At(o) \in {"reap stat", "reap unlink"},
               cmd' = [cmd EXCEPT ![o] = [@ EXCEPT !.at = "reap stat", !.todo = Todo(o) \ {f}]],
               manifest' = manifest, report' = report, remote' = remote,
               uploaded' = uploaded
        PROVE  VouchInv'
    <2> DEFINE c == [cmd[o] EXCEPT !.at = "reap stat", !.todo = Todo(o) \ {f}]
    <2>1. cmd' = [cmd EXCEPT ![o] = c] /\ FilesInv' /\ Grows
      BY <1>5, FilesKeep DEF VouchInv, Grows
    <2>2. c.at = "reap stat" /\ c.man = Man(o) /\ c.todo = Todo(o) \ {f}
      BY CommandParts DEF Man, Todo, Command
    <2>3. /\ Man(o).verified
          /\ Vouched(Man(o).files)
          /\ Todo(o) \subseteq Listed(Man(o).files)
      BY <1>5 DEF VouchInv, CommandInv
    <2>4. cmd'[o] = c => CommandInv(o)'
      <3> HIDE DEF c
      <3> QED
        BY <1>5, <2>2, <2>3 DEF CommandInv, At, Man, Todo, Vouched, InBucket, Sampled, WasUploaded
    <2> QED  BY <2>1, <2>4, CommandStep
  <1>6. CASE ReapKeep(o)
    <2>1. First(Todo(o)) \in Files
      BY <1>6, CommandParts, FirstIn DEF ReapKeep
    <2>2. [cmd[o] EXCEPT !.at = "reap stat", !.todo = Todo(o) \ {First(Todo(o))}] =
          [cmd[o] EXCEPT !.todo = @ \ {First(@)}]
      BY <1>6, CommandParts DEF ReapKeep, At, Todo, Command
    <2> QED  BY <1>5, <1>6, <2>1, <2>2 DEF ReapKeep, files, history
  <1>7. CASE ReapUnlink(o)
    <2>1. Todo(o) # {}
      BY <1>7 DEF ReapUnlink, VouchInv, CommandInv
    <2>2. First(Todo(o)) \in Files
      BY <2>1, CommandParts, FirstIn
    <2> QED  BY <1>5, <1>7, <2>2 DEF ReapUnlink, history, Todo
  <1>8. CASE ReapEmit(o)
    <2>1. cmd' = [cmd EXCEPT ![o] = Idle] /\ FilesInv' /\ Grows
      BY <1>8, FilesKeep DEF ReapEmit, Finish, VouchInv, Grows, history
    <2> QED  BY <2>1, IdleInv, CommandStep
  <1> QED  BY <1>1, <1>3, <1>4, <1>6, <1>7, <1>8 DEF Reap

\* Every step keeps what the bucket vouches for.
LEMMA VouchStep == TypeOK /\ VouchInv /\ [Next]_vars => VouchInv'
  <1> SUFFICES ASSUME TypeOK, VouchInv, [Next]_vars PROVE VouchInv'
    OBVIOUS
  <1>1. ASSUME NEW o \in Operators, Stop(o)
        PROVE  VouchInv'
    <2>1. cmd' = [cmd EXCEPT ![o] = Idle] /\ FilesInv' /\ Grows
      BY <1>1, FilesKeep DEF Stop, Finish, VouchInv, Grows, files, history
    <2> QED  BY <2>1, IdleInv, CommandStep
  <1>2. ASSUME NEW o \in Operators, StopInWrite(o)
        PROVE  VouchInv'
    <2>1. cmd' = [cmd EXCEPT ![o] = Idle] /\ Grows
      BY <1>2 DEF StopInWrite, Finish, Grows, history
    <2>2. FilesInv'
      BY <1>2 DEF StopInWrite, VouchInv, FilesInv, Loadable, Vouched, InBucket, Sampled, WasUploaded,
                  history
    <2> QED  BY <2>1, <2>2, IdleInv, CommandStep
  <1>3. ASSUME cmd' = cmd, manifest' = manifest, report' = report, remote' = remote,
               uploaded' = uploaded
        PROVE  VouchInv'
    <2>1. Grows
      BY <1>3 DEF Grows
    <2> QED  BY <1>3, <2>1, FilesKeep, OthersKeep DEF VouchInv
  <1>4. ASSUME NEW f \in Files, NEW c \in Contents \cup {Absent}, Edit(f, c)
        PROVE  VouchInv'
    BY <1>3, <1>4 DEF Edit
  <1>5. CASE UNCHANGED vars
    BY <1>3, <1>5 DEF vars, files, history
  <1>6. ASSUME NEW o \in Operators, StopInEmit(o)
        PROVE  VouchInv'
    <2>1. cmd' = [cmd EXCEPT ![o] = Idle] /\ FilesInv' /\ Grows
      BY <1>6, FilesKeep DEF StopInEmit, Finish, VouchInv, Grows, history
    <2> QED  BY <2>1, IdleInv, CommandStep
  <1> QED
    BY <1>1, <1>2, <1>4, <1>5, <1>6, PlanVouch, PushVouch, VerifyVouch, ReapVouch DEF Next

\* VouchInv holds throughout.
LEMMA VouchInvariant == Spec => []VouchInv
  <1>1. ASSUME Init PROVE VouchInv
    <2>1. \A f \in Files : remote[f] = Absent
      BY <1>1 DEF Init, EmptyTable
    <2>2. FilesInv
      BY <1>1, <2>1 DEF Init, FilesInv, Loadable
    <2>3. \A o \in Operators : cmd[o] = Idle
      BY <1>1 DEF Init
    <2>4. \A o \in Operators : CommandInv(o)
      <3>1. ~ Idle.man.verified /\ Idle.at = "idle"
        BY DEF Idle, Blank
      <3> HIDE DEF Idle
      <3> QED  BY <2>3, <3>1 DEF CommandInv, At, Man
    <2> QED  BY <2>2, <2>4 DEF VouchInv
  <1> QED  BY <1>1, VouchStep, TypeCorrect, PTL DEF Spec

-----------------------------------------------------------------------------
(* The properties *)

\* What is marked or reported verified is in the bucket, for any operators.
THEOREM VerifiedIsPresent == Spec => []VerifiedPresent
  <1>1. VouchInv => VerifiedPresent
    BY DEF VouchInv, FilesInv, VerifiedPresent, Vouched, InBucket
  <1> QED  BY <1>1, VouchInvariant, PTL

\* Only an edit and an unlink change the source tree.
LEMMA LocalStep ==
    ASSUME Next, local' # local
    PROVE  \/ \E f \in Files, c \in Contents \cup {Absent} : Edit(f, c)
           \/ \E o \in Operators : ReapUnlink(o)
  BY DEF Next, Plan, PlanStart, PlanSize, PlanHash, PlanWrite, PlanEmit, Push, PushStart, PushFile,
         PushDescribe, PushEmit, Verify, VerifyStart, VerifyAllPresent, VerifyMissing,
         VerifyMatch, VerifyMismatch, VerifySampled, Conclude, VerifyWrite, VerifyEmitIntact,
         VerifyEmitFailure, VerifyReport, Reap, ReapStart, ReapGate, ReapKeep, ReapStat,
         ReapEmit, Stop, StopInWrite, StopInEmit, Start, files

\* What reap deletes is a file that the bucket holds.
LEMMA ReapDeletes ==
    ASSUME TypeOK, VouchInv, Next, NEW f \in Files, Reaps(f)
    PROVE  /\ \E o \in Operators : ReapUnlink(o) /\ f = First(Todo(o))
           /\ remote[f] # Absent
  <1>1. edits \in Nat
    BY BoundAssumption DEF TypeOK
  <1>2. PICK o \in Operators : ReapUnlink(o)
    BY <1>1, LocalStep DEF Reaps, Edit
  <1>3. /\ Todo(o) # {}
        /\ Todo(o) \subseteq Listed(Man(o).files)
        /\ Vouched(Man(o).files)
    BY <1>2 DEF ReapUnlink, VouchInv, CommandInv
  <1>4. First(Todo(o)) \in Listed(remote)
    BY <1>3, CommandParts, FirstIn DEF Vouched, InBucket
  <1>5. f = First(Todo(o))
    BY <1>2 DEF ReapUnlink, Reaps, TypeOK, Tree
  <1> QED  BY <1>2, <1>4, <1>5 DEF Listed

\* reap never deletes a file of which the bucket holds no copy at all, for any
\* number of operators, files and edits, and wherever commands die.
THEOREM ReapIsSafe == Spec => ReapOnlyPresent
  <1>1. TypeOK /\ VouchInv /\ [Next]_vars =>
            [\A f \in Files : Reaps(f) => remote[f] # Absent]_vars
    BY ReapDeletes
  <1> QED  BY <1>1, TypeCorrect, VouchInvariant, PTL DEF Spec, ReapOnlyPresent

\* The owner does not rewrite a file that the bucket holds a copy of.
NoRewrite ==
    edits' # edits =>
        \A f \in Files :
            local'[f] # local[f] /\ remote[f] # Absent => local'[f] \in {Absent, remote[f]}

\* A file in the tree and in the bucket is the same in both.
SameInBoth == \A f \in Files : local[f] # Absent /\ remote[f] # Absent => remote[f] = local[f]

\* Only push changes the bucket.
LEMMA RemoteStep ==
    ASSUME Next, remote' # remote
    PROVE  \E o \in Operators, f \in Files : PushFile(o, f)
  BY DEF Next, Plan, PlanStart, PlanSize, PlanHash, PlanWrite, PlanEmit, Push, PushStart,
         PushDescribe, PushEmit, Verify, VerifyStart, VerifyAllPresent, VerifyMissing,
         VerifyMatch, VerifyMismatch, VerifySampled, Conclude, VerifyWrite, VerifyEmitIntact,
         VerifyEmitFailure, VerifyReport, Reap, ReapStart, ReapGate, ReapKeep, ReapStat,
         ReapUnlink, ReapEmit, Stop, StopInWrite, StopInEmit, Edit, Start, files

LEMMA SameStep == TypeOK /\ SameInBoth /\ [Next]_vars /\ [NoRewrite]_vars => SameInBoth'
  <1> SUFFICES ASSUME TypeOK, SameInBoth, [Next]_vars, [NoRewrite]_vars,
                      NEW f \in Files, local'[f] # Absent, remote'[f] # Absent
               PROVE  remote'[f] = local'[f]
    BY DEF SameInBoth
  <1>1. local \in Tree /\ remote \in Tree /\ edits \in Nat
    BY BoundAssumption DEF TypeOK
  <1>2. CASE local' = local /\ remote' = remote
    BY <1>2 DEF SameInBoth
  <1>3. ASSUME NEW o \in Operators, NEW g \in Files, PushFile(o, g)
        PROVE  remote'[f] = local'[f]
    <2>1. local' = local
      BY <1>3 DEF PushFile
    <2>2. \/ remote' = remote
          \/ remote' = [remote EXCEPT ![g] = local[g]]
      BY <1>3 DEF PushFile
    <2> QED  BY <1>1, <2>1, <2>2 DEF SameInBoth, Tree
  <1>4. ASSUME NEW o \in Operators, ReapUnlink(o)
        PROVE  remote'[f] = local'[f]
    <2>1. remote' = remote /\ local'[f] = local[f]
      BY <1>1, <1>4 DEF ReapUnlink, Tree
    <2> QED  BY <2>1 DEF SameInBoth
  <1>5. ASSUME NEW g \in Files, NEW c \in Contents \cup {Absent}, Edit(g, c)
        PROVE  remote'[f] = local'[f]
    <2>1. remote' = remote /\ edits' = edits + 1
      BY <1>5 DEF Edit
    <2>2. NoRewrite
      BY <1>1, <2>1 DEF vars, history
    <2> QED  BY <1>1, <2>1, <2>2 DEF NoRewrite, SameInBoth
  <1>6. CASE Next /\ remote' # remote
    BY <1>3, <1>6, RemoteStep
  <1>7. CASE Next /\ local' # local
    BY <1>4, <1>5, <1>7, LocalStep
  <1> QED  BY <1>2, <1>6, <1>7 DEF vars, files

\* If the owner leaves alone what is uploaded, what reap deletes is in the bucket
\* with the very content it has: for any sizes, sample, operators and files,
\* wherever commands die and whoever overwrote whose manifest.
THEOREM ReapKeepsContent ==
    Spec /\ [][NoRewrite]_vars => [][\A f \in Files : Reaps(f) => remote[f] = local[f]]_vars
  <1>1. Init => SameInBoth
    BY DEF Init, EmptyTable, SameInBoth
  <1>2. TypeOK /\ VouchInv /\ SameInBoth /\ [Next]_vars =>
            [\A f \in Files : Reaps(f) => remote[f] = local[f]]_vars
    <2> SUFFICES ASSUME TypeOK, VouchInv, SameInBoth, Next, NEW f \in Files, Reaps(f)
                 PROVE  remote[f] = local[f]
      OBVIOUS
    <2>1. PICK o \in Operators : ReapUnlink(o) /\ f = First(Todo(o))
      BY ReapDeletes
    <2>2. remote[f] # Absent /\ local[f] # Absent
      BY <2>1, ReapDeletes DEF ReapUnlink
    <2> QED  BY <2>2 DEF SameInBoth
  <1> QED  BY <1>1, <1>2, SameStep, TypeCorrect, VouchInvariant, PTL DEF Spec

\* A sample at least as large as the collection is the whole collection.
LEMMA FullSample ==
    ASSUME Cardinality(Files) <= SampleSize, NEW table
    PROVE  Sample(table) = Listed(table)
  <1> DEFINE listed == Listed(table)
             n == Cardinality(listed)
             rate == n \div SampleSize
             stride == IF rate = 0 THEN 1 ELSE rate
             position(f) == Cardinality({g \in listed : g < f})
  <1>1. /\ IsFiniteSet(listed) /\ n \in Nat /\ n <= SampleSize
        /\ SampleSize \in Nat /\ SampleSize # 0
    BY FilesAssumption, SampleAssumption, FS_Subset, FS_CardinalityType DEF Listed
  <1>2. stride = 1
    <2>1. CASE n = SampleSize
      BY <1>1, <2>1
    <2>2. CASE n < SampleSize
      BY <1>1, <2>2
    <2> QED  BY <1>1, <2>1, <2>2
  <1>3. ASSUME NEW f \in listed
        PROVE  /\ position(f) \in Nat
               /\ position(f) < SampleSize
    <2>1. {g \in listed : g < f} \in SUBSET listed /\ f \notin {g \in listed : g < f}
      BY FilesAssumption DEF Listed
    <2>2. /\ IsFiniteSet({g \in listed : g < f})
          /\ position(f) <= n
          /\ position(f) # n
      BY <1>1, <1>3, <2>1, FS_Subset
    <2>3. position(f) \in Nat
      BY <2>2, FS_CardinalityType
    <2> QED  BY <1>1, <2>2, <2>3
  <1>4. \A f \in listed : position(f) % stride = 0 /\ position(f) \div stride < SampleSize
    BY <1>2, <1>3
  <1> QED  BY <1>4 DEF Sample

\* The command of o is not touched, or comes to p.
ComesTo(o, p) == cmd'[o] = cmd[o] \/ cmd'[o].at = p

\* Where the moves of a command of q take the command of o.
LEMMA Moves ==
    ASSUME TypeOK, NEW q \in Operators, NEW o \in Operators
    PROVE  /\ \A p, m, fs : Start(q, p, m, fs) => ComesTo(o, p)
           /\ \A p : Goto(q, p) => ComesTo(o, p)
           /\ Finish(q) => ComesTo(o, "idle")
           /\ \A v : Conclude(q, v) => ComesTo(o, "verify writing")
  <1>1. cmd \in [Operators -> Command]
    BY DEF TypeOK
  <1>2. ASSUME NEW c, cmd' = [cmd EXCEPT ![q] = c]
        PROVE  ComesTo(o, c.at)
    BY <1>1, <1>2 DEF ComesTo
  <1>3. ASSUME NEW p, NEW m, NEW fs, Start(q, p, m, fs)
        PROVE  ComesTo(o, p)
    <2> DEFINE c == [Idle EXCEPT !.at = p, !.man = m, !.todo = fs]
    <2>1. c.at = p
      BY DEF Idle
    <2>2. cmd' = [cmd EXCEPT ![q] = c]
      BY <1>3 DEF Start
    <2> HIDE DEF c
    <2> QED  BY <1>2, <2>1, <2>2
  <1>4. ASSUME NEW p, Goto(q, p)
        PROVE  ComesTo(o, p)
    BY <1>1, <1>4 DEF Goto, ComesTo, Command
  <1>5. Finish(q) => ComesTo(o, "idle")
    BY <1>1 DEF Finish, Idle, ComesTo
  <1>6. ASSUME NEW v, Conclude(q, v)
        PROVE  ComesTo(o, "verify writing")
    <2> DEFINE m == [cmd[q].man EXCEPT !.verified = (v = "Intact")]
               c == [cmd[q] EXCEPT !.at = "verify writing", !.verdict = v, !.man = m]
    <2>1. cmd' = [cmd EXCEPT ![q] = c]
      BY <1>6 DEF Conclude
    <2>2. c.at = "verify writing"
      <3> HIDE DEF m
      <3> QED  BY <1>1 DEF Command
    <2> HIDE DEF c
    <2> QED  BY <1>2, <2>1, <2>2
  <1> QED  BY <1>3, <1>4, <1>5, <1>6

\* The places of a reap that has passed its gate.
Past == {"reap stat", "reap unlink"}

\* The command of o is not touched, or is not a reap past its gate.
StaysAway(o) == cmd'[o] = cmd[o] \/ At(o)' \notin Past

\* No command but a reap is past the gate of one.
LEMMA OtherPlaces ==
    ASSUME TypeOK, NEW q \in Operators, NEW o \in Operators,
           \/ Plan(q) \/ Push(q) \/ Verify(q)
           \/ Stop(q) \/ StopInWrite(q) \/ StopInEmit(q)
    PROVE  StaysAway(o)
  <1>1. ASSUME NEW p \in Place \ Past, ComesTo(o, p)
        PROVE  StaysAway(o)
    BY <1>1 DEF ComesTo, StaysAway, At
  <1>2. \A p \in Place \ Past :
            /\ \A m, fs : Start(q, p, m, fs) => StaysAway(o)
            /\ Goto(q, p) => StaysAway(o)
    BY <1>1, Moves
  <1>3. Finish(q) => StaysAway(o)
    BY <1>1, Moves DEF Place, Past
  <1>4. \A v : Conclude(q, v) => StaysAway(o)
    BY <1>1, Moves DEF Place, Past
  <1>5. {"plan sizing", "plan emitting", "push copying", "push emitting",
         "verify listing", "verify emitting", "verify reporting"}
            \subseteq Place \ Past
    BY DEF Place, Past
  <1>6. \/ PlanSize(q) \/ PlanHash(q) \/ (\E f \in Files : PushFile(q, f))
        \/ VerifyAllPresent(q) \/ VerifyMatch(q) \/ VerifyMismatch(q)
        => StaysAway(o)
    <2>1. cmd \in [Operators -> Command]
      BY DEF TypeOK
    <2>3. CASE PlanSize(q)
      BY <2>1, <2>3 DEF PlanSize, StaysAway, Past, At, Command
    <2>4. CASE PlanHash(q)
      BY <2>1, <2>4 DEF PlanHash, StaysAway, Past, At, Command
    <2>5. CASE VerifyAllPresent(q)
      BY <2>1, <2>5 DEF VerifyAllPresent, StaysAway, Past, At, Command
    <2> QED
      BY <2>1, <2>3, <2>4, <2>5
         DEF PushFile, VerifyMatch, VerifyMismatch, StaysAway, Past, At, Command
  <1>7. CASE Plan(q)
    BY <1>2, <1>3, <1>5, <1>6, <1>7 DEF Plan, PlanStart, PlanWrite, PlanEmit
  <1>8. CASE Push(q)
    BY <1>2, <1>3, <1>5, <1>6, <1>8 DEF Push, PushStart, PushDescribe, PushEmit
  <1>9. CASE Verify(q)
    BY <1>2, <1>3, <1>4, <1>5, <1>6, <1>9
       DEF Verify, VerifyStart, VerifyMissing, VerifySampled, VerifyWrite, VerifyEmitIntact, VerifyEmitFailure, VerifyReport
  <1>10. CASE Stop(q) \/ StopInWrite(q) \/ StopInEmit(q)
    BY <1>3, <1>10 DEF Stop, StopInWrite, StopInEmit
  <1> QED  BY <1>7, <1>8, <1>9, <1>10

\* A reap comes to unlink a file only by finding its size unchanged.
LEMMA UnlinkAfterStat ==
    ASSUME TypeOK, Next, NEW o \in Operators,
           At(o) = "reap stat", At(o)' = "reap unlink"
    PROVE  ReapStat(o)
  <1>1. ASSUME NEW q \in Operators, Reap(q)
        PROVE  ReapStat(o)
    <2>1. cmd \in [Operators -> Command] /\ cmd[q] \in Command
      BY DEF TypeOK
    <2>2. q = o
      BY <1>1, <2>1 DEF Reap, ReapStart, Start, ReapGate, ReapKeep, ReapStat, ReapUnlink,
                        ReapEmit, Goto, Finish, At
    <2>3. ~ ReapStart(o) /\ ~ ReapGate(o) /\ ~ ReapUnlink(o)
      BY DEF ReapStart, Start, ReapGate, ReapUnlink, At
    <2>4. ~ ReapKeep(o)
      BY <2>1, <2>2 DEF ReapKeep, At, Command
    <2>5. ~ ReapEmit(o)
      BY <2>1, <2>2, Moves DEF ReapEmit, ComesTo, At
    <2> QED  BY <1>1, <2>2, <2>3, <2>4, <2>5 DEF Reap
  <1>2. cmd'[o] # cmd[o]
    BY DEF At
  <1> QED  BY <1>1, <1>2, OtherPlaces DEF StaysAway, Past, Next, Edit

\* If contents of one size are equal, the sample covers the collection and plan
\* saw one state of each file, the content reap chooses was in the bucket.
THEOREM ReapChoosesSafely ==
    ASSUME Cardinality(Files) <= SampleSize,
           \A c, d \in Contents : Size(c) = Size(d) => c = d
    PROVE  Spec => ReapChoosesUploaded
  <1>1. TypeOK /\ VouchInv /\ [Next]_vars =>
            [\A o \in Operators : Steady(Man(o).files) => ReapsUploaded(o)]_vars
    <2> SUFFICES ASSUME TypeOK, VouchInv, Next, NEW o \in Operators, Steady(Man(o).files),
                        At(o) = "reap stat", At(o)' = "reap unlink"
                 PROVE  local[First(Todo(o))] \in uploaded[First(Todo(o))]
      BY DEF ReapsUploaded
    <2>1. ReapStat(o)
      BY UnlinkAfterStat
    <2> DEFINE f == First(Todo(o))
    <2>2. /\ Todo(o) # {}
          /\ Todo(o) \subseteq Listed(Man(o).files)
          /\ Vouched(Man(o).files)
      BY <2>1 DEF ReapStat, VouchInv, CommandInv
    <2>3. f \in Listed(Man(o).files) /\ f \in Files
      BY <2>2, CommandParts, FirstIn
    <2>4. Man(o).files[f].sha \in uploaded[f]
      BY <2>2, <2>3, FullSample DEF Vouched, Sampled, WasUploaded
    <2>5. local[f] = Man(o).files[f].sha
      <3>1. local[f] \in Contents /\ Man(o).files[f].sha \in Contents
        <4>1. local \in Tree /\ Man(o).files \in Table
          BY CommandParts DEF TypeOK
        <4>2. local[f] # Absent /\ Man(o).files[f] # Absent
          BY <2>1, <2>3 DEF ReapStat, SameSize, Listed
        <4> HIDE DEF f
        <4> QED  BY <2>3, <4>1, <4>2 DEF Table, Tree, Row
      <3>2. Size(local[f]) = Man(o).files[f].size
        BY <2>1 DEF ReapStat, SameSize
      <3>3. Man(o).files[f].size = Size(Man(o).files[f].sha)
        BY <2>3 DEF Steady
      <3> QED  BY <3>1, <3>2, <3>3
    <2> QED  BY <2>4, <2>5
  <1> QED  BY <1>1, TypeCorrect, VouchInvariant, PTL DEF Spec, ReapChoosesUploaded
=============================================================================
