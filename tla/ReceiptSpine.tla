---------------------------- MODULE ReceiptSpine ----------------------------
(***************************************************************************)
(* The receipt spine of tools/proof-artifact-spine: one JSON-lines file    *)
(* that every publishing tool appends hash-chained entries to, through     *)
(* ledger_push.  A push reads the whole file to find the last entry, and   *)
(* only then opens it for append: nothing locks the file in between, and   *)
(* a failing write may leave part of a line behind.                        *)
(*                                                                         *)
(* SHA-256 is injective for the model's purposes, so the hash of an entry  *)
(* is what was hashed: the chain of bodies from genesis to that entry.     *)
(***************************************************************************)
EXTENDS Naturals, Sequences

CONSTANTS
    Pushers,      \* processes that call ledger_push on the same file
    Records,      \* what an emitter puts in `fields`; only identity matters
    WriteFaults,  \* what a failing write may leave: see FaultKinds
    MaxEntries,   \* bound on the lines of the file, for model checking
    Garbage,      \* a line json.loads cannot parse
    Torn,         \* trailing bytes: a proper prefix of an entry's JSON
    Closed,       \* the file is empty or ends with a newline
    NoView        \* a pusher that has read nothing

\* A failing write leaves none of the line, a prefix json.loads rejects, or
\* the whole JSON without its newline.
FaultKinds == {"none", "torn", "unterminated"}

Body == [seq : Nat, rec : Records]
Hash == Seq(Body)
Genesis == << >>
Entry == [seq : Nat, prev : Hash, rec : Records, hash : Hash]

ASSUME FaultsAssumption == WriteFaults \subseteq FaultKinds
ASSUME BoundAssumption == MaxEntries \in Nat
ASSUME MarkersAssumption ==
    /\ Garbage \notin Entry
    /\ {Torn, Closed} \cap Entry = {}
    /\ Torn # Closed
    /\ NoView \notin [prev : Hash, seq : Nat, rec : Records]

VARIABLES
    lines,   \* the newline-terminated lines of the file
    tail,    \* what follows the last newline
    view,    \* view[p]: what p read, and is about to append, in ledger_push
    acked    \* entries ledger_push has returned to its callers

vars == <<lines, tail, view, acked>>

-----------------------------------------------------------------------------
(* The file *)

\* chain_hash(prev_hash + canonical(body))
ChainHash(prev, seq, rec) == Append(prev, [seq |-> seq, rec |-> rec])

\* Mutant: a reader that ignores an unfinished line.
FileLinesSkippingTear == IF tail \in {Closed, Torn} THEN lines ELSE Append(lines, tail)

\* The lines a reader of the file iterates over: an unterminated tail counts.
FileLines ==
    CASE tail = Closed -> lines
      [] tail = Torn   -> Append(lines, Garbage)
      [] OTHER         -> Append(lines, tail)

\* _last_entry parses every line, so one unreadable line makes it raise.
Readable == \A i \in 1..Len(FileLines) : FileLines[i] # Garbage

LastEntry == FileLines[Len(FileLines)]

\* Mutant: the file opened for writing instead of appending.
WrittenAnew(e) == <<IF tail = Closed THEN e ELSE Garbage>>

\* A written line ends up after whatever the file ends with: glued to an
\* unfinished line it makes one line that no longer parses.
Written(e) == Append(lines, IF tail = Closed THEN e ELSE Garbage)

\* What a fault leaves of entry e after the last newline.
Left(fault, e) ==
    CASE fault = "none"                             -> tail
      [] fault = "unterminated" /\ tail = Closed    -> e
      [] OTHER                                      -> Torn

-----------------------------------------------------------------------------
(* ledger_push *)

Init ==
    /\ lines = << >>
    /\ tail = Closed
    /\ view = [p \in Pushers |-> NoView]
    /\ acked = {}

\* Mutant: the previous entry's own predecessor taken as prevHash.
NextInChainStale(r) ==
    IF FileLines = << >>
    THEN [prev |-> Genesis, seq |-> 0, rec |-> r]
    ELSE [prev |-> LastEntry.prev, seq |-> LastEntry.seq + 1, rec |-> r]

\* Mutant: numbering from one.
NextInChainFromOne(r) ==
    IF FileLines = << >>
    THEN [prev |-> Genesis, seq |-> 1, rec |-> r]
    ELSE [prev |-> LastEntry.hash, seq |-> LastEntry.seq + 1, rec |-> r]

\* What the prior entry fixes of the entry to append for record r.
NextInChain(r) ==
    IF FileLines = << >>
    THEN [prev |-> Genesis, seq |-> 0, rec |-> r]
    ELSE [prev |-> LastEntry.hash, seq |-> LastEntry.seq + 1, rec |-> r]

\* Read the prior entry and fix seq and prevHash of the entry to append.
\* When the file does not parse, json.loads raises out of ledger_push and
\* nothing changes: there is no step.
ReadPrev(p, r) ==
    /\ view[p] = NoView
    /\ Readable
    /\ view' = [view EXCEPT ![p] = NextInChain(r)]
    /\ UNCHANGED <<lines, tail, acked>>

\* The entry p is about to append.
Pending(p) ==
    [seq  |-> view[p].seq,
     prev |-> view[p].prev,
     rec  |-> view[p].rec,
     hash |-> ChainHash(view[p].prev, view[p].seq, view[p].rec)]

\* The append succeeds and the entry is returned as the receipt.
AppendEntry(p) ==
    /\ view[p] # NoView
    /\ Len(lines) < MaxEntries
    /\ lines' = Written(Pending(p))
    /\ tail' = Closed
    /\ acked' = acked \cup {Pending(p)}
    /\ view' = [view EXCEPT ![p] = NoView]

\* Mutant: the OSError swallowed and the entry returned.
AppendFailsSilently(p, fault) ==
    /\ view[p] # NoView
    /\ tail' = Left(fault, Pending(p))
    /\ acked' = acked \cup {Pending(p)}
    /\ view' = [view EXCEPT ![p] = NoView]
    /\ UNCHANGED lines

\* The append raises OSError, which the caller sees as error_cls.
AppendFails(p, fault) ==
    /\ view[p] # NoView
    /\ tail' = Left(fault, Pending(p))
    /\ view' = [view EXCEPT ![p] = NoView]
    /\ UNCHANGED <<lines, acked>>

\* The process dies after reading: nothing was written.
CrashBeforeAppend(p) ==
    /\ view[p] # NoView
    /\ view' = [view EXCEPT ![p] = NoView]
    /\ UNCHANGED <<lines, tail, acked>>

\* The process dies after writing: the entry is there, nobody got a receipt.
CrashAfterAppend(p) ==
    /\ view[p] # NoView
    /\ Len(lines) < MaxEntries
    /\ lines' = Written(Pending(p))
    /\ tail' = Closed
    /\ view' = [view EXCEPT ![p] = NoView]
    /\ UNCHANGED acked

Next ==
    \E p \in Pushers :
        \/ \E r \in Records : ReadPrev(p, r)
        \/ AppendEntry(p)
        \/ \E fault \in WriteFaults : AppendFails(p, fault)
        \/ CrashBeforeAppend(p)
        \/ CrashAfterAppend(p)

Spec == Init /\ [][Next]_vars

-----------------------------------------------------------------------------
(* verify_ledger *)

\* Mutant: a line that does not parse is skipped.
VerifyWalkLenient(ls) ==
    LET w[i \in 0..Len(ls)] ==
          IF i = 0 THEN [verdict |-> "ok", prev |-> Genesis, seq |-> 0]
          ELSE LET s == w[i-1]  e == ls[i] IN
               IF s.verdict # "ok" \/ e = Garbage THEN s
               ELSE IF e.seq # s.seq THEN [s EXCEPT !.verdict = "seq gap"]
               ELSE IF e.prev # s.prev THEN [s EXCEPT !.verdict = "broken chain"]
               ELSE [verdict |-> "ok", prev |-> e.hash, seq |-> s.seq + 1]
    IN  w

\* The walk of verify_ledger over the lines ls: w[i] is its state after i of
\* them.  "raises" is json.loads failing on a line.
VerifyWalk(ls) ==
    LET w[i \in 0..Len(ls)] ==
          IF i = 0 THEN [verdict |-> "ok", prev |-> Genesis, seq |-> 0]
          ELSE LET s == w[i-1]  e == ls[i] IN
               IF s.verdict # "ok" THEN s
               ELSE IF e = Garbage THEN [s EXCEPT !.verdict = "raises"]
               ELSE IF e.seq # s.seq THEN [s EXCEPT !.verdict = "seq gap"]
               ELSE IF e.prev # s.prev THEN [s EXCEPT !.verdict = "broken chain"]
               ELSE IF e.hash # ChainHash(s.prev, e.seq, e.rec)
               THEN [s EXCEPT !.verdict = "tamper"]
               ELSE [verdict |-> "ok", prev |-> e.hash, seq |-> s.seq + 1]
    IN  w

VerifyLedger(ls) == VerifyWalk(ls)[Len(ls)].verdict

\* What the walk is meant to establish, said without the walk.
ChainValid(ls) ==
    \A i \in 1..Len(ls) :
        /\ ls[i] # Garbage
        /\ ls[i].seq = i - 1
        /\ ls[i].prev = IF i = 1 THEN Genesis ELSE ls[i-1].hash
        /\ ls[i].hash = ChainHash(ls[i].prev, ls[i].seq, ls[i].rec)

-----------------------------------------------------------------------------
(* Properties *)

View == [prev : Hash, seq : Nat, rec : Records]

\* Types of the file, the pushers' snapshots and the returned receipts.
TypeOK ==
    /\ lines \in Seq(Entry \cup {Garbage})
    /\ tail \in Entry \cup {Torn, Closed}
    /\ view \in [Pushers -> View \cup {NoView}]
    /\ acked \subseteq Entry

\* The receipt law (AC-1) as a reader of the file sees it: every receipt
\* ledger_push handed out is a line that can be read back.
AckedOnLedger ==
    \A e \in acked : \E i \in 1..Len(lines) : lines[i] = e

\* A receipt is never dropped in silence: whoever pushes and however writes
\* fail, it is missing only from a file that has become unreadable.
AckedOrGarbled ==
    AckedOnLedger \/ \E i \in 1..Len(lines) : lines[i] = Garbage

\* No receipt hangs in the air: whatever order the pushers run in, an entry
\* starts at genesis or continues, by number and by hash, an entry that stands
\* before it in the file.  Concurrent pushes can fork the chain, not detach it.
ChainedToEarlier ==
    \A i \in 1..Len(lines) : lines[i] # Garbage =>
        \/ lines[i].seq = 0 /\ lines[i].prev = Genesis
        \/ \E j \in 1..(i-1) :
              /\ lines[j] # Garbage
              /\ lines[j].hash = lines[i].prev
              /\ lines[i].seq = lines[j].seq + 1

\* The chain a single pusher builds, crashes and failing writes included,
\* verifies: the complete lines are one chain from genesis.
LinesChainValid == ChainValid(lines)

\* And verify_ledger rejects nothing else: a file refused is not one chain.
VerifyExact == (VerifyLedger(FileLines) = "ok") <=> ChainValid(FileLines)

\* verify_ledger accepts the file whatever the pushers did.
AlwaysVerifies == VerifyLedger(FileLines) = "ok"

\* Lines once complete are never rewritten or dropped.
AppendOnly == [][SubSeq(lines', 1, Len(lines)) = lines]_vars

\* After an unfinished line no push gets a receipt any more: ledger_push raises
\* instead of chaining over bytes it cannot read.
TornStopsReceipts == [][tail = Torn => acked' = acked]_vars

\* A single pusher's spine is an append-only log: the map reads a record off
\* every line and a position off every receipt's number.
Log == INSTANCE ReceiptLog WITH
    log      <- [i \in 1..Len(lines) |-> lines[i].rec],
    receipts <- {[pos |-> e.seq + 1, rec |-> e.rec] : e \in acked}

\* Every push of a single pusher is one append to that log, and every receipt
\* names the position its record really has: seq is the line number.
LogSpec == Log!Spec

\* The records a reader can parse: pushes that take turns leave no line behind
\* one that does not parse.
Parsed ==
    [i \in 1..(IF Readable THEN Len(FileLines) ELSE Len(FileLines) - 1) |-> FileLines[i].rec]

\* The ledger of the modules that build on the spine: a file that no longer
\* parses is torn, one without its last newline counts one line more.
Callers == INSTANCE Ledger WITH
    trail       <- Parsed,
    tail        <- IF ~ Readable THEN "torn" ELSE IF tail = Closed THEN "clean" ELSE "unterminated",
    WriteFaults <- WriteFaults \ {"none"},
    MaxEvents   <- MaxEntries + 1

\* At most one push is between its read and its append.
InTurns == \A p, q \in Pushers : view[p] # NoView /\ view[q] # NoView => p = q

\* Pushes that take turns are what the callers of Ledger take them for: each
\* step appends as Emit does, or as EmitFails does and returns no receipt.
CallersSpec ==
    /\ Callers!Empty
    /\ [][\E r \in Records : Callers!Emit(r) \/ (Callers!EmitFails(r) /\ UNCHANGED acked)]_vars
=============================================================================
