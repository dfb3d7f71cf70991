------------------------- MODULE ReceiptSpineProofs -------------------------
(***************************************************************************)
(* Proofs about the receipt spine, for any pushers, records and bound.     *)
(* First what one step keeps, then what each property adds: AckedOnLedger, *)
(* AckedOrGarbled and ChainedToEarlier for any number of pushers; for      *)
(* pushers that take turns, a single one among them, the chain, the        *)
(* append-only log, the ledger of the other components, and a file that    *)
(* verifies whenever it parses.                                            *)
(***************************************************************************)
EXTENDS ReceiptSpine, TLAPS, SequenceTheorems, WellFoundedInduction

USE DEF FaultKinds

Line == Entry \cup {Garbage}

\* Appending to a sequence of lines: its length, its elements and its type.
LEMMA AppendFacts ==
    ASSUME NEW S, NEW s \in Seq(S), NEW e \in S
    PROVE  /\ Append(s, e) \in Seq(S)
           /\ Len(s) \in Nat
           /\ Len(Append(s, e)) = Len(s) + 1
           /\ \A i \in 1..Len(s) : Append(s, e)[i] = s[i]
           /\ Append(s, e)[Len(s) + 1] = e
           /\ \A i \in 1..Len(s) : s[i] \in S
  OBVIOUS

\* What a reader iterates over is a sequence of lines, and the last one is an
\* entry as soon as the file parses.
LEMMA FileLinesType ==
    ASSUME TypeOK
    PROVE  /\ FileLines \in Seq(Line)
           /\ FileLines # << >> /\ Readable => LastEntry \in Entry
  <1>1. FileLines \in Seq(Line)
    BY AppendFacts, MarkersAssumption DEF TypeOK, FileLines, Line
  <1>2. ASSUME FileLines # << >>, Readable
        PROVE  LastEntry \in Entry
    <2>1. Len(FileLines) \in 1..Len(FileLines)
      BY <1>1, <1>2
    <2>2. FileLines[Len(FileLines)] \in Line
      BY <1>1, <2>1
    <2> QED  BY <2>1, <2>2, <1>2 DEF Readable, LastEntry, Line
  <1> QED  BY <1>1, <1>2

\* ledger_push takes well-typed snapshots.
LEMMA NextInChainType ==
    ASSUME TypeOK, Readable, NEW r \in Records
    PROVE  NextInChain(r) \in View
  <1>1. CASE FileLines = << >>
    BY <1>1 DEF NextInChain, View, Genesis, Hash
  <1>2. CASE FileLines # << >>
    <2>1. LastEntry \in Entry
      BY <1>2, FileLinesType
    <2>2. LastEntry.hash \in Hash /\ LastEntry.seq + 1 \in Nat
      BY <2>1 DEF Entry
    <2> QED  BY <1>2, <2>2 DEF NextInChain, View
  <1> QED  BY <1>1, <1>2

\* A snapshot turns into an entry.
LEMMA PendingType ==
    ASSUME TypeOK, NEW p \in Pushers, view[p] # NoView
    PROVE  /\ view[p] \in View
           /\ Pending(p) \in Entry
  <1>1. view[p] \in View
    BY DEF TypeOK
  <1>2. ChainHash(view[p].prev, view[p].seq, view[p].rec) \in Hash
    BY <1>1 DEF View, ChainHash, Hash, Body
  <1> QED  BY <1>1, <1>2 DEF View, Pending, Entry

\* What is written is a file of lines again.
LEMMA WrittenType ==
    ASSUME TypeOK, NEW e \in Entry
    PROVE  /\ Written(e) \in Seq(Line)
           /\ \A fault \in WriteFaults : Left(fault, e) \in Entry \cup {Torn, Closed}
  BY AppendFacts DEF TypeOK, Written, Left, Line

-----------------------------------------------------------------------------
(* Type correctness *)

\* One step of any pusher keeps the types.
LEMMA TypeStep == TypeOK /\ [Next]_vars => TypeOK'
  <1> SUFFICES ASSUME TypeOK, [Next]_vars PROVE TypeOK'
    OBVIOUS
  <1>1. ASSUME NEW p \in Pushers, NEW r \in Records, ReadPrev(p, r)
        PROVE  TypeOK'
    BY <1>1, NextInChainType DEF ReadPrev, TypeOK
  <1>2. ASSUME NEW p \in Pushers, AppendEntry(p)
        PROVE  TypeOK'
    BY <1>2, PendingType, WrittenType DEF AppendEntry, TypeOK, Line
  <1>3. ASSUME NEW p \in Pushers, NEW fault \in WriteFaults, AppendFails(p, fault)
        PROVE  TypeOK'
    BY <1>3, PendingType, WrittenType DEF AppendFails, TypeOK, Line
  <1>4. ASSUME NEW p \in Pushers, CrashBeforeAppend(p)
        PROVE  TypeOK'
    BY <1>4 DEF CrashBeforeAppend, TypeOK
  <1>5. ASSUME NEW p \in Pushers, CrashAfterAppend(p)
        PROVE  TypeOK'
    BY <1>5, PendingType, WrittenType DEF CrashAfterAppend, TypeOK, Line
  <1>6. CASE UNCHANGED vars
    BY <1>6 DEF TypeOK, vars
  <1> QED  BY <1>1, <1>2, <1>3, <1>4, <1>5, <1>6 DEF Next

\* Every reachable file, snapshot and receipt has its type.
THEOREM TypeCorrect == Spec => []TypeOK
  <1>1. Init => TypeOK
    BY DEF Init, TypeOK
  <1> QED  BY <1>1, TypeStep, PTL DEF Spec

-----------------------------------------------------------------------------
(* Append-only, and the receipts stay *)

\* Lines once complete are never rewritten or dropped, whatever happens.
LEMMA GrowStep == TypeOK /\ [Next]_vars => [SubSeq(lines', 1, Len(lines)) = lines]_vars
  <1> SUFFICES ASSUME TypeOK, Next
               PROVE  SubSeq(lines', 1, Len(lines)) = lines
    OBVIOUS
  <1>1. lines' = lines \/ \E e \in Line : lines' = Append(lines, e)
    BY PendingType DEF Next, ReadPrev, AppendEntry, AppendFails, CrashBeforeAppend,
                       CrashAfterAppend, Written, Line
  <1>2. lines \in Seq(Line)
    BY DEF TypeOK, Line
  <1>3. SubSeq(lines, 1, Len(lines)) = lines
    BY <1>2
  <1>4. ASSUME NEW e \in Line
        PROVE  SubSeq(Append(lines, e), 1, Len(lines)) = lines
    BY <1>2
  <1> QED  BY <1>1, <1>3, <1>4

\* The file is append-only for any pushers and any write fault.
THEOREM SpineAppendOnly == Spec => AppendOnly
  <1>1. TypeOK /\ [Next]_vars => [SubSeq(lines', 1, Len(lines)) = lines]_vars
    BY GrowStep
  <1> QED  BY <1>1, TypeCorrect, PTL DEF Spec, AppendOnly

\* Without a fault that leaves bytes behind, the file always ends in a newline.
CleanInv == tail = Closed /\ AckedOnLedger

\* One step keeps every receipt on a line of its own.
LEMMA CleanStep ==
    ASSUME WriteFaults \subseteq {"none"}, TypeOK, CleanInv, [Next]_vars
    PROVE  CleanInv'
  <1>1. ASSUME NEW p \in Pushers, view[p] # NoView, lines' = Written(Pending(p)),
               tail' = Closed, acked' \subseteq acked \cup {Pending(p)}
        PROVE  CleanInv'
    <2>1. Pending(p) \in Line /\ lines \in Seq(Line)
      BY <1>1, PendingType DEF Line, TypeOK
    <2>2. lines' = Append(lines, Pending(p))
      BY <1>1 DEF Written, CleanInv
    <2>3. /\ Len(lines') = Len(lines) + 1
          /\ Len(lines) \in Nat
          /\ \A i \in 1..Len(lines) : lines'[i] = lines[i]
          /\ lines'[Len(lines) + 1] = Pending(p)
      BY <2>1, <2>2, AppendFacts
    <2> QED  BY <1>1, <2>3 DEF CleanInv, AckedOnLedger
  <1>2. ASSUME NEW p \in Pushers, NEW r \in Records, ReadPrev(p, r)
        PROVE  CleanInv'
    BY <1>2 DEF ReadPrev, CleanInv, AckedOnLedger
  <1>3. ASSUME NEW p \in Pushers, AppendEntry(p)
        PROVE  CleanInv'
    BY <1>1, <1>3 DEF AppendEntry
  <1>4. ASSUME NEW p \in Pushers, NEW fault \in WriteFaults, AppendFails(p, fault)
        PROVE  CleanInv'
    <2>1. fault = "none"
      OBVIOUS
    <2> QED  BY <1>4, <2>1 DEF AppendFails, Left, CleanInv, AckedOnLedger
  <1>5. ASSUME NEW p \in Pushers, CrashBeforeAppend(p)
        PROVE  CleanInv'
    BY <1>5 DEF CrashBeforeAppend, CleanInv, AckedOnLedger
  <1>6. ASSUME NEW p \in Pushers, CrashAfterAppend(p)
        PROVE  CleanInv'
    BY <1>1, <1>6 DEF CrashAfterAppend
  <1>7. CASE UNCHANGED vars
    BY <1>7 DEF vars, CleanInv, AckedOnLedger
  <1> QED  BY <1>2, <1>3, <1>4, <1>5, <1>6, <1>7 DEF Next

\* However many processes push at once, a receipt is readable for good as long
\* as a failing write leaves nothing behind.
THEOREM ReceiptsStayReadable ==
    ASSUME WriteFaults \subseteq {"none"}
    PROVE  Spec => []AckedOnLedger
  <1>1. Init => CleanInv
    BY DEF Init, CleanInv, AckedOnLedger
  <1>2. TypeOK /\ CleanInv /\ [Next]_vars => CleanInv'
    BY CleanStep
  <1>3. CleanInv => AckedOnLedger
    BY DEF CleanInv
  <1> QED  BY <1>1, <1>2, <1>3, TypeCorrect, PTL DEF Spec

\* One step keeps every receipt or garbles the file.
LEMMA GarbledStep ==
    ASSUME TypeOK, AckedOrGarbled, [Next]_vars
    PROVE  AckedOrGarbled'
  <1>1. ASSUME NEW e \in Line, lines' = Append(lines, e),
               e = Garbage \/ acked' \subseteq acked \cup {e}
        PROVE  AckedOrGarbled'
    <2>1. lines \in Seq(Line)
      BY DEF TypeOK, Line
    <2>2. /\ Len(lines) \in Nat
          /\ Len(lines') = Len(lines) + 1
          /\ \A i \in 1..Len(lines) : lines'[i] = lines[i]
          /\ lines'[Len(lines) + 1] = e
      BY <1>1, <2>1, AppendFacts
    <2>3. CASE e = Garbage
      BY <2>2, <2>3 DEF AckedOrGarbled
    <2>4. CASE acked' \subseteq acked \cup {e}
      BY <2>2, <2>4 DEF AckedOrGarbled, AckedOnLedger
    <2> QED  BY <1>1, <2>3, <2>4
  <1>2. ASSUME UNCHANGED lines, acked' \subseteq acked
        PROVE  AckedOrGarbled'
    BY <1>2 DEF AckedOrGarbled, AckedOnLedger
  <1>3. ASSUME NEW p \in Pushers, view[p] # NoView, lines' = Written(Pending(p)),
               acked' \subseteq acked \cup {Pending(p)}
        PROVE  AckedOrGarbled'
    <2>1. Pending(p) \in Line /\ Garbage \in Line
      BY <1>3, PendingType DEF Line, TypeOK
    <2>2. CASE tail = Closed
      BY <1>1, <1>3, <2>1, <2>2 DEF Written
    <2>3. CASE tail # Closed
      BY <1>1, <1>3, <2>1, <2>3 DEF Written
    <2> QED  BY <2>2, <2>3
  <1>4. ASSUME NEW p \in Pushers, AppendEntry(p) \/ CrashAfterAppend(p)
        PROVE  AckedOrGarbled'
    BY <1>3, <1>4 DEF AppendEntry, CrashAfterAppend
  <1>5. ASSUME NEW p \in Pushers,
               \/ \E r \in Records : ReadPrev(p, r)
               \/ \E fault \in WriteFaults : AppendFails(p, fault)
               \/ CrashBeforeAppend(p)
        PROVE  AckedOrGarbled'
    BY <1>2, <1>5 DEF ReadPrev, AppendFails, CrashBeforeAppend
  <1>6. CASE UNCHANGED vars
    BY <1>2, <1>6 DEF vars
  <1> QED  BY <1>4, <1>5, <1>6 DEF Next

\* Whatever fails and however many processes push at once, a receipt is missing
\* only from a file that no longer parses.
THEOREM ReceiptsGarbledAtWorst == Spec => []AckedOrGarbled
  <1>1. Init => AckedOrGarbled
    BY DEF Init, AckedOrGarbled, AckedOnLedger
  <1>2. TypeOK /\ AckedOrGarbled /\ [Next]_vars => AckedOrGarbled'
    BY GarbledStep
  <1> QED  BY <1>1, <1>2, TypeCorrect, PTL DEF Spec

-----------------------------------------------------------------------------
(* What concurrent pushes can and cannot do to the chain *)

\* v continues line i of the file ls.
Continues(v, ls, i) ==
    /\ ls[i] # Garbage
    /\ ls[i].hash = v.prev
    /\ v.seq = ls[i].seq + 1

\* v starts the chain or continues one of the first n lines.
Anchored(v, ls, n) ==
    \/ v.seq = 0 /\ v.prev = Genesis
    \/ \E i \in 1..n : Continues(v, ls, i)

\* A snapshot points at a complete line: holds as long as no write loses only
\* its newline, for then a reader may take the unfinished line for an entry.
AnchorInv ==
    /\ tail \in {Closed, Torn}
    /\ ChainedToEarlier
    /\ \A p \in Pushers : view[p] # NoView => Anchored(view[p], lines, Len(lines))

\* Appending keeps what was anchored anchored.
LEMMA AnchorGrow ==
    ASSUME lines \in Seq(Line), NEW e \in Line, NEW v, NEW n \in 0..Len(lines),
           Anchored(v, lines, n)
    PROVE  Anchored(v, Append(lines, e), n)
  BY AppendFacts DEF Anchored, Continues

\* An anchored entry, or a line nobody can parse, extends the file soundly.
LEMMA ChainedGrow ==
    ASSUME TypeOK, AnchorInv, NEW e \in Line, lines' = Append(lines, e),
           e # Garbage => Anchored(e, lines, Len(lines))
    PROVE  /\ ChainedToEarlier'
           /\ \A p \in Pushers : view[p] # NoView => Anchored(view[p], lines', Len(lines'))
  <1>1. lines \in Seq(Line)
    BY DEF TypeOK, Line
  <1>2. /\ Len(lines') = Len(lines) + 1
        /\ Len(lines) \in Nat
        /\ \A i \in 1..Len(lines) : lines'[i] = lines[i]
        /\ lines'[Len(lines) + 1] = e
    BY <1>1, AppendFacts
  <1>3. ASSUME NEW i \in 1..Len(lines'), lines'[i] # Garbage
        PROVE  \/ lines'[i].seq = 0 /\ lines'[i].prev = Genesis
               \/ \E j \in 1..(i-1) : /\ lines'[j] # Garbage
                                      /\ lines'[j].hash = lines'[i].prev
                                      /\ lines'[i].seq = lines'[j].seq + 1
    <2>1. CASE i \in 1..Len(lines)
      <3>1. lines'[i] = lines[i] /\ \A j \in 1..(i-1) : lines'[j] = lines[j]
        BY <1>2, <2>1
      <3> QED  BY <1>3, <2>1, <3>1 DEF AnchorInv, ChainedToEarlier
    <2>2. CASE i = Len(lines) + 1
      BY <1>2, <1>3, <2>2 DEF Anchored, Continues
    <2> QED  BY <1>2, <2>1, <2>2
  <1>4. ASSUME NEW p \in Pushers, view[p] # NoView
        PROVE  Anchored(view[p], lines', Len(lines'))
    <2>1. Anchored(view[p], lines', Len(lines))
      BY <1>1, <1>2, <1>4, AnchorGrow DEF AnchorInv
    <2> QED  BY <1>2, <2>1 DEF Anchored
  <1> QED  BY <1>3, <1>4 DEF ChainedToEarlier

\* One step keeps every entry and every snapshot anchored.
LEMMA AnchorStep ==
    ASSUME WriteFaults \subseteq {"none", "torn"}, TypeOK, AnchorInv, [Next]_vars
    PROVE  AnchorInv'
  <1>1. ASSUME NEW p \in Pushers, view[p] # NoView, lines' = Written(Pending(p)),
               tail' = Closed, view' = [view EXCEPT ![p] = NoView]
        PROVE  AnchorInv'
    <2>1. PICK e \in Line : lines' = Append(lines, e) /\ (e = Pending(p) \/ e = Garbage)
      BY <1>1, PendingType DEF Written, Line
    <2>2. Anchored(Pending(p), lines, Len(lines))
      BY <1>1 DEF AnchorInv, Pending, Anchored, Continues
    <2>3. /\ ChainedToEarlier'
          /\ \A q \in Pushers : view[q] # NoView => Anchored(view[q], lines', Len(lines'))
      BY <2>1, <2>2, ChainedGrow
    <2>4. \A q \in Pushers : view'[q] # NoView => view'[q] = view[q]
      BY <1>1 DEF TypeOK
    <2> QED  BY <1>1, <2>3, <2>4 DEF AnchorInv
  <1>2. ASSUME NEW p \in Pushers, NEW r \in Records, ReadPrev(p, r)
        PROVE  AnchorInv'
    <2>1. tail = Closed /\ FileLines = lines
      <3>1. CASE tail = Torn
        <4>1. FileLines = Append(lines, Garbage)
          BY <3>1, MarkersAssumption DEF FileLines
        <4>2. lines \in Seq(Line) /\ Garbage \in Line
          BY DEF TypeOK, Line
        <4>3. /\ Len(lines) + 1 \in 1..Len(FileLines)
              /\ FileLines[Len(lines) + 1] = Garbage
          BY <4>1, <4>2, AppendFacts
        <4> QED  BY <1>2, <4>3 DEF ReadPrev, Readable
      <3> QED  BY <3>1 DEF AnchorInv, FileLines
    <2>2. Anchored(NextInChain(r), lines, Len(lines))
      <3>1. CASE lines = << >>
        BY <2>1, <3>1 DEF NextInChain, Anchored
      <3>2. CASE lines # << >>
        <4>1. lines \in Seq(Line)
          BY DEF TypeOK, Line
        <4>2. Len(lines) \in 1..Len(lines)
          BY <3>2, <4>1
        <4>3. lines[Len(lines)] # Garbage
          BY <1>2, <2>1, <4>2 DEF ReadPrev, Readable
        <4>4. Continues(NextInChain(r), lines, Len(lines))
          BY <2>1, <3>2, <4>3 DEF NextInChain, LastEntry, Continues
        <4> QED  BY <4>2, <4>4 DEF Anchored
      <3> QED  BY <3>1, <3>2
    <2>3. \A q \in Pushers : view'[q] = view[q] \/ view'[q] = NextInChain(r)
      BY <1>2 DEF ReadPrev, TypeOK
    <2> QED  BY <1>2, <2>2, <2>3 DEF ReadPrev, AnchorInv, ChainedToEarlier
  <1>3. ASSUME NEW p \in Pushers, AppendEntry(p)
        PROVE  AnchorInv'
    BY <1>1, <1>3 DEF AppendEntry
  <1>4. ASSUME NEW p \in Pushers, NEW fault \in WriteFaults, AppendFails(p, fault)
        PROVE  AnchorInv'
    <2>1. tail' \in {Closed, Torn}
      BY <1>4 DEF AppendFails, Left, AnchorInv
    <2>2. \A q \in Pushers : view'[q] # NoView => view'[q] = view[q]
      BY <1>4 DEF AppendFails, TypeOK
    <2> QED  BY <1>4, <2>1, <2>2 DEF AppendFails, AnchorInv, ChainedToEarlier
  <1>5. ASSUME NEW p \in Pushers, CrashBeforeAppend(p)
        PROVE  AnchorInv'
    <2>1. \A q \in Pushers : view'[q] # NoView => view'[q] = view[q]
      BY <1>5 DEF CrashBeforeAppend, TypeOK
    <2> QED  BY <1>5, <2>1 DEF CrashBeforeAppend, AnchorInv, ChainedToEarlier
  <1>6. ASSUME NEW p \in Pushers, CrashAfterAppend(p)
        PROVE  AnchorInv'
    BY <1>1, <1>6 DEF CrashAfterAppend
  <1>7. CASE UNCHANGED vars
    BY <1>7 DEF vars, AnchorInv, ChainedToEarlier
  <1> QED  BY <1>2, <1>3, <1>4, <1>5, <1>6, <1>7 DEF Next

\* Any number of pushers, torn writes and crashes may fork the chain but never
\* leave an entry that continues nothing.
THEOREM NoDetachedEntry ==
    ASSUME WriteFaults \subseteq {"none", "torn"}
    PROVE  Spec => []ChainedToEarlier
  <1>1. Init => AnchorInv
    BY DEF Init, AnchorInv, ChainedToEarlier
  <1>2. TypeOK /\ AnchorInv /\ [Next]_vars => AnchorInv'
    BY AnchorStep
  <1>3. AnchorInv => ChainedToEarlier
    BY DEF AnchorInv
  <1> QED  BY <1>1, <1>2, <1>3, TypeCorrect, PTL DEF Spec

-----------------------------------------------------------------------------
(* Pushes that take turns build one chain *)

HeadHash == IF lines = << >> THEN Genesis ELSE lines[Len(lines)].hash

\* The only snapshot is of the present end of a file that ends in a newline.
SerialInv ==
    /\ tail \in {Closed, Torn}
    /\ LinesChainValid
    /\ \A p \in Pushers : view[p] # NoView =>
          /\ tail = Closed
          /\ view[p].seq = Len(lines)
          /\ view[p].prev = HeadHash

\* In turns, the only snapshot is dropped by the step that ends its push.
LEMMA OneSnapshot ==
    ASSUME InTurns, TypeOK, NEW p \in Pushers, view[p] # NoView,
           view' = [view EXCEPT ![p] = NoView]
    PROVE  \A q \in Pushers : view'[q] = NoView
  BY DEF TypeOK, InTurns

\* The entry that is appended is the next one of the chain.
LEMMA SerialAppend ==
    ASSUME TypeOK, SerialInv, NEW p \in Pushers, view[p] # NoView
    PROVE  /\ Written(Pending(p)) = Append(lines, Pending(p))
           /\ Pending(p).seq = Len(lines)
           /\ ChainValid(Written(Pending(p)))
  <1>1. Written(Pending(p)) = Append(lines, Pending(p))
    BY DEF SerialInv, Written
  <1>2. /\ lines \in Seq(Line)
        /\ Pending(p) \in Line
        /\ Pending(p) # Garbage
    BY PendingType, MarkersAssumption DEF TypeOK, Line
  <1> DEFINE ls == Append(lines, Pending(p))
  <1>3. /\ Len(ls) = Len(lines) + 1
        /\ Len(lines) \in Nat
        /\ \A i \in 1..Len(lines) : ls[i] = lines[i]
        /\ ls[Len(lines) + 1] = Pending(p)
    BY <1>2, AppendFacts
  <1>4. /\ Pending(p).seq = Len(lines)
        /\ Pending(p).prev = HeadHash
        /\ Pending(p).hash =
              ChainHash(Pending(p).prev, Pending(p).seq, Pending(p).rec)
    BY DEF SerialInv, Pending
  <1>5. ASSUME NEW i \in 1..Len(ls)
        PROVE  /\ ls[i] # Garbage
               /\ ls[i].seq = i - 1
               /\ ls[i].prev = IF i = 1 THEN Genesis ELSE ls[i-1].hash
               /\ ls[i].hash = ChainHash(ls[i].prev, ls[i].seq, ls[i].rec)
    <2>1. CASE i \in 1..Len(lines)
      <3>1. ls[i] = lines[i] /\ (i # 1 => ls[i-1] = lines[i-1])
        BY <1>3, <2>1
      <3> QED  BY <2>1, <3>1 DEF SerialInv, LinesChainValid, ChainValid
    <2>2. CASE i = Len(lines) + 1
      <3>1. ls[i].prev = IF i = 1 THEN Genesis ELSE ls[i-1].hash
        <4>1. CASE lines = << >>
          BY <1>2, <1>3, <1>4, <2>2, <4>1 DEF HeadHash
        <4>2. CASE lines # << >>
          <5>1. Len(lines) # 0 /\ ls[i-1] = lines[Len(lines)]
            BY <1>2, <1>3, <2>2, <4>2
          <5> QED  BY <1>3, <1>4, <2>2, <4>2, <5>1 DEF HeadHash
        <4> QED  BY <4>1, <4>2
      <3> QED  BY <1>2, <1>3, <1>4, <2>2, <3>1
    <2> QED  BY <1>3, <2>1, <2>2
  <1> QED  BY <1>1, <1>4, <1>5 DEF ChainValid

\* One step of pushers that take turns keeps the chain.
LEMMA SerialStep ==
    ASSUME InTurns, InTurns', WriteFaults \subseteq {"none", "torn"},
           TypeOK, SerialInv, [Next]_vars
    PROVE  SerialInv'
  <1>1. ASSUME NEW p \in Pushers, view[p] # NoView, lines' = Written(Pending(p)),
               tail' = Closed, view' = [view EXCEPT ![p] = NoView]
        PROVE  SerialInv'
    <2>1. ChainValid(lines)'
      BY <1>1, SerialAppend
    <2> QED  BY <1>1, <2>1, OneSnapshot DEF SerialInv, LinesChainValid
  <1>2. ASSUME NEW p \in Pushers, NEW r \in Records, ReadPrev(p, r)
        PROVE  SerialInv'
    <2>1. lines \in Seq(Line) /\ Garbage \in Line
      BY DEF TypeOK, Line
    <2>2. tail = Closed
      <3>1. CASE tail = Torn
        <4>1. FileLines = Append(lines, Garbage)
          BY <3>1, MarkersAssumption DEF FileLines
        <4>2. /\ Len(lines) + 1 \in 1..Len(FileLines)
              /\ FileLines[Len(lines) + 1] = Garbage
          BY <4>1, <2>1, AppendFacts
        <4> QED  BY <1>2, <4>2 DEF ReadPrev, Readable
      <3> QED  BY <3>1 DEF SerialInv
    <2>3. FileLines = lines
      BY <2>2, MarkersAssumption DEF FileLines
    <2>4. NextInChain(r).seq = Len(lines) /\ NextInChain(r).prev = HeadHash
      <3>1. CASE lines = << >>
        BY <2>3, <3>1 DEF NextInChain, HeadHash
      <3>2. CASE lines # << >>
        <4>1. Len(lines) \in 1..Len(lines)
          BY <2>1, <3>2
        <4>2. lines[Len(lines)].seq = Len(lines) - 1
          BY <4>1 DEF SerialInv, LinesChainValid, ChainValid
        <4> QED  BY <2>3, <3>2, <4>1, <4>2 DEF NextInChain, LastEntry, HeadHash
      <3> QED  BY <3>1, <3>2
    <2>5. \A q \in Pushers : view'[q] # NoView => view'[q] = NextInChain(r)
      <3>1. view'[p] = NextInChain(r) /\ view'[p] # NoView
        BY <1>2, NextInChainType, MarkersAssumption DEF ReadPrev, TypeOK, View
      <3> QED  BY <3>1 DEF InTurns
    <2> QED
      BY <1>2, <2>2, <2>4, <2>5 DEF ReadPrev, SerialInv, LinesChainValid, HeadHash
  <1>3. ASSUME NEW p \in Pushers, AppendEntry(p)
        PROVE  SerialInv'
    BY <1>1, <1>3 DEF AppendEntry
  <1>4. ASSUME NEW p \in Pushers, NEW fault \in WriteFaults, AppendFails(p, fault)
        PROVE  SerialInv'
    <2>1. tail' \in {Closed, Torn}
      BY <1>4 DEF AppendFails, Left, SerialInv
    <2> QED
      BY <1>4, <2>1, OneSnapshot DEF AppendFails, SerialInv, LinesChainValid
  <1>5. ASSUME NEW p \in Pushers, CrashBeforeAppend(p)
        PROVE  SerialInv'
    BY <1>5, OneSnapshot DEF CrashBeforeAppend, SerialInv, LinesChainValid
  <1>6. ASSUME NEW p \in Pushers, CrashAfterAppend(p)
        PROVE  SerialInv'
    BY <1>1, <1>6 DEF CrashAfterAppend
  <1>7. CASE UNCHANGED vars
    BY <1>7 DEF vars, SerialInv, LinesChainValid, HeadHash
  <1> QED  BY <1>2, <1>3, <1>4, <1>5, <1>6, <1>7 DEF Next

\* SerialInv is an invariant of turns whose writes fail cleanly or torn.
LEMMA SerialInvariant ==
    ASSUME WriteFaults \subseteq {"none", "torn"}
    PROVE  Spec /\ []InTurns => []SerialInv
  <1>1. Init => SerialInv
    BY DEF Init, SerialInv, LinesChainValid, ChainValid
  <1>2. InTurns /\ InTurns' /\ TypeOK /\ SerialInv /\ [Next]_vars => SerialInv'
    BY SerialStep
  <1> QED  BY <1>1, <1>2, TypeCorrect, PTL DEF Spec

\* One pusher always takes turns.
LEMMA OneTakesTurns ==
    ASSUME \A p, q \in Pushers : p = q
    PROVE  InTurns
  BY DEF InTurns

\* The complete lines that pushes in turn leave are one chain from genesis,
\* whoever dies between its read and its append.
THEOREM TurnsChain ==
    ASSUME WriteFaults \subseteq {"none", "torn"}
    PROVE  Spec /\ []InTurns => []LinesChainValid
  <1>1. SerialInv => LinesChainValid
    BY DEF SerialInv
  <1> QED  BY <1>1, SerialInvariant, PTL

\* So are those of a single pusher.
THEOREM SerialChain ==
    ASSUME \A p, q \in Pushers : p = q, WriteFaults \subseteq {"none", "torn"}
    PROVE  Spec => []LinesChainValid
  <1> QED  BY OneTakesTurns, TurnsChain, PTL

\* So every receipt of pushes in turn is a readable line, torn writes or not.
THEOREM TurnsReceipts ==
    ASSUME WriteFaults \subseteq {"none", "torn"}
    PROVE  Spec /\ []InTurns => []AckedOnLedger
  <1>1. LinesChainValid /\ AckedOrGarbled => AckedOnLedger
    BY DEF LinesChainValid, ChainValid, AckedOrGarbled
  <1> QED  BY <1>1, TurnsChain, ReceiptsGarbledAtWorst, PTL

\* And every receipt of a single pusher.
THEOREM SerialReceipts ==
    ASSUME \A p, q \in Pushers : p = q, WriteFaults \subseteq {"none", "torn"}
    PROVE  Spec => []AckedOnLedger
  <1> QED  BY OneTakesTurns, TurnsReceipts, PTL

\* After an unfinished line pushes in turn hand out no receipt.
THEOREM TurnsTornStops ==
    ASSUME WriteFaults \subseteq {"none", "torn"}
    PROVE  Spec /\ []InTurns => TornStopsReceipts
  <1>1. SerialInv /\ [Next]_vars => [tail = Torn => acked' = acked]_vars
    BY MarkersAssumption
       DEF SerialInv, Next, ReadPrev, AppendEntry, AppendFails, CrashBeforeAppend,
           CrashAfterAppend
  <1> QED  BY <1>1, SerialInvariant, PTL DEF Spec, TornStopsReceipts

\* Nor does a single pusher.
THEOREM SerialTornStops ==
    ASSUME \A p, q \in Pushers : p = q, WriteFaults \subseteq {"none", "torn"}
    PROVE  Spec => TornStopsReceipts
  <1> QED  BY OneTakesTurns, TurnsTornStops, PTL

-----------------------------------------------------------------------------
(* The spine of pushes in turn is an append-only log *)

LogOf == [i \in 1..Len(lines) |-> lines[i].rec]
ReceiptOf(e) == [pos |-> e.seq + 1, rec |-> e.rec]

\* Appending the pending entry appends its record to the log.
LEMMA LogGrows ==
    ASSUME TypeOK, SerialInv, NEW p \in Pushers, view[p] # NoView,
           lines' = Written(Pending(p))
    PROVE  /\ LogOf' = Append(LogOf, view[p].rec)
           /\ Len(LogOf) = Len(lines)
           /\ ReceiptOf(Pending(p)) = [pos |-> Len(LogOf) + 1, rec |-> view[p].rec]
  <1>1. /\ lines \in Seq(Line)
        /\ Pending(p) \in Line
        /\ Pending(p).seq = Len(lines)
        /\ Pending(p).rec = view[p].rec
        /\ view[p].rec \in Records
    BY PendingType, SerialAppend DEF TypeOK, Line, Pending, View
  <1>2. lines' = Append(lines, Pending(p))
    BY SerialAppend
  <1>3. \A i \in 1..Len(lines) : lines[i].rec \in Records
    <2>1. \A i \in 1..Len(lines) : lines[i] \in Entry
      BY <1>1, AppendFacts DEF SerialInv, LinesChainValid, ChainValid, Line
    <2> QED  BY <2>1 DEF Entry
  <1>4. LogOf \in Seq(Records) /\ Len(LogOf) = Len(lines) /\ Len(lines) \in Nat
    BY <1>1, <1>3 DEF LogOf
  <1>5. /\ Append(LogOf, view[p].rec) \in Seq(Records)
        /\ Len(Append(LogOf, view[p].rec)) = Len(lines) + 1
        /\ \A i \in 1..Len(lines) : Append(LogOf, view[p].rec)[i] = LogOf[i]
        /\ Append(LogOf, view[p].rec)[Len(lines) + 1] = view[p].rec
    BY <1>1, <1>4, AppendFacts
  <1>6. /\ Len(lines') = Len(lines) + 1
        /\ \A i \in 1..Len(lines) : lines'[i] = lines[i]
        /\ lines'[Len(lines) + 1] = Pending(p)
    BY <1>1, <1>2, AppendFacts
  <1>7. LogOf' = Append(LogOf, view[p].rec)
    BY <1>1, <1>4, <1>5, <1>6 DEF LogOf
  <1> QED  BY <1>1, <1>4, <1>7 DEF ReceiptOf

\* Every step of pushes in turn appends one record to the log, with or
\* without a receipt, or leaves the log alone.
LEMMA LogStep ==
    ASSUME TypeOK, SerialInv, [Next]_vars
    PROVE  [Log!Next]_(Log!vars)
  <1>1. ASSUME NEW p \in Pushers, view[p] # NoView, lines' = Written(Pending(p)),
               acked' = acked \cup {Pending(p)} \/ acked' = acked
        PROVE  Log!Next
    <2>1. /\ LogOf' = Append(LogOf, view[p].rec)
          /\ ReceiptOf(Pending(p)) = [pos |-> Len(LogOf) + 1, rec |-> view[p].rec]
      BY <1>1, LogGrows
    <2>2. {ReceiptOf(e) : e \in acked \cup {Pending(p)}} =
          {ReceiptOf(e) : e \in acked} \cup {ReceiptOf(Pending(p))}
      OBVIOUS
    <2>3. view[p].rec \in Records
      BY <1>1, PendingType DEF View
    <2> QED  BY <1>1, <2>1, <2>2, <2>3 DEF Log!Next, Log!Push, LogOf, ReceiptOf
  <1>2. ASSUME lines' = lines, acked' = acked
        PROVE  UNCHANGED Log!vars
    BY <1>2 DEF Log!vars
  <1>3. ASSUME NEW p \in Pushers, AppendEntry(p)
        PROVE  Log!Next
    BY <1>1, <1>3 DEF AppendEntry
  <1>4. ASSUME NEW p \in Pushers, CrashAfterAppend(p)
        PROVE  Log!Next
    BY <1>1, <1>4 DEF CrashAfterAppend
  <1> QED
    BY <1>2, <1>3, <1>4 DEF Next, ReadPrev, AppendFails, CrashBeforeAppend, vars

\* Pushes in turn, with crashes and torn writes, implement ReceiptLog.
THEOREM TurnsImplementLog ==
    ASSUME WriteFaults \subseteq {"none", "torn"}
    PROVE  Spec /\ []InTurns => LogSpec
  <1>1. Init => Log!Init
    BY DEF Init, Log!Init
  <1>2. TypeOK /\ SerialInv /\ [Next]_vars => [Log!Next]_(Log!vars)
    BY LogStep
  <1> QED  BY <1>1, <1>2, TypeCorrect, SerialInvariant, PTL DEF Spec, LogSpec, Log!Spec

\* A single pusher implements ReceiptLog.
THEOREM SerialImplementsLog ==
    ASSUME \A p, q \in Pushers : p = q, WriteFaults \subseteq {"none", "torn"}
    PROVE  Spec => LogSpec
  <1> QED  BY OneTakesTurns, TurnsImplementLog, PTL

-----------------------------------------------------------------------------
(* Pushes that take turns are the appends of Ledger *)

\* Whoever has read may append to what was read, and only the last line can be
\* one that does not parse.
TurnInv ==
    /\ \A p \in Pushers : view[p] # NoView => Readable
    /\ \A i \in 1..(Len(FileLines) - 1) : FileLines[i] # Garbage
    /\ Len(lines) <= MaxEntries

\* The lines and the ledger that callers see, by how the file ends.
LEMMA Seen ==
    ASSUME TypeOK, TurnInv
    PROVE  /\ lines \in Seq(Line) /\ Len(lines) \in Nat
           /\ tail = Closed => FileLines = lines
           /\ tail = Torn => FileLines = Append(lines, Garbage)
           /\ tail \notin {Closed, Torn} => FileLines = Append(lines, tail) /\ tail \in Entry
           /\ tail # Closed => \A i \in 1..Len(lines) : lines[i] # Garbage
           /\ tail = Torn => ~ Readable
           /\ tail \notin {Closed, Torn} => Readable
  <1>1. lines \in Seq(Line) /\ Len(lines) \in Nat /\ Garbage \in Line
    BY DEF TypeOK, Line
  <1>2. /\ tail = Closed => FileLines = lines
        /\ tail = Torn => FileLines = Append(lines, Garbage)
        /\ tail \notin {Closed, Torn} => FileLines = Append(lines, tail) /\ tail \in Entry
    BY MarkersAssumption DEF FileLines, TypeOK
  <1>3. ASSUME NEW x \in Line, FileLines = Append(lines, x)
        PROVE  /\ \A i \in 1..Len(lines) : lines[i] # Garbage
               /\ Readable <=> x # Garbage
    <2>1. /\ Len(FileLines) = Len(lines) + 1
          /\ \A i \in 1..Len(lines) : FileLines[i] = lines[i]
          /\ FileLines[Len(lines) + 1] = x
      BY <1>1, <1>3, AppendFacts
    <2>2. \A i \in 1..Len(lines) : lines[i] # Garbage
      BY <1>1, <2>1 DEF TurnInv
    <2>3. \A i \in 1..Len(FileLines) : i \in 1..Len(lines) \/ i = Len(lines) + 1
      BY <1>1, <2>1
    <2> QED  BY <1>1, <2>1, <2>2, <2>3 DEF Readable
  <1>4. tail # Closed => \E x \in Line : FileLines = Append(lines, x)
    BY <1>1, <1>2 DEF Line
  <1>5. tail = Torn => ~ Readable
    BY <1>1, <1>2, <1>3
  <1>6. tail \notin {Closed, Torn} => Readable
    BY <1>2, <1>3, MarkersAssumption DEF Line
  <1>7. tail # Closed => \A i \in 1..Len(lines) : lines[i] # Garbage
    BY <1>3, <1>4
  <1> QED  BY <1>1, <1>2, <1>5, <1>6, <1>7

CallersTail ==
    IF ~ Readable THEN "torn" ELSE IF tail = Closed THEN "clean" ELSE "unterminated"

\* The records of an entry, of a readable file and of one whose last line does
\* not parse.
Recs(ls, n) == [i \in 1..n |-> ls[i].rec]

LEMMA RecsFacts ==
    ASSUME NEW ls \in Seq(Line), \A i \in 1..Len(ls) : ls[i] # Garbage, NEW e \in Entry
    PROVE  /\ Recs(ls, Len(ls)) \in Seq(Records) /\ Len(Recs(ls, Len(ls))) = Len(ls)
           /\ Recs(Append(ls, e), Len(ls) + 1) = Append(Recs(ls, Len(ls)), e.rec)
           /\ \A x \in Line : Recs(Append(ls, x), Len(ls)) = Recs(ls, Len(ls))
           /\ SubSeq(Recs(Append(ls, e), Len(ls) + 1), 1, Len(ls)) = Recs(ls, Len(ls))
  <1>1. /\ Len(ls) \in Nat
        /\ \A i \in 1..Len(ls) : ls[i].rec \in Records
    BY DEF Line, Entry
  <1>2. e.rec \in Records /\ e \in Line
    BY DEF Entry, Line
  <1> DEFINE R == Recs(ls, Len(ls))
  <1>3. R \in Seq(Records) /\ Len(R) = Len(ls)
    BY <1>1 DEF Recs
  <1>4. \A x \in Line : \A i \in 1..Len(ls) : Append(ls, x)[i] = ls[i]
    BY AppendFacts
  <1>5. Append(ls, e)[Len(ls) + 1] = e
    BY <1>2, AppendFacts
  <1>6. Append(R, e.rec) = Recs(Append(ls, e), Len(ls) + 1)
    <2>1. /\ Append(R, e.rec) \in Seq(Records) /\ Len(Append(R, e.rec)) = Len(ls) + 1
          /\ \A i \in 1..Len(ls) : Append(R, e.rec)[i] = R[i]
          /\ Append(R, e.rec)[Len(ls) + 1] = e.rec
      BY <1>1, <1>2, <1>3, AppendFacts
    <2>2. \A i \in 1..(Len(ls) + 1) : Append(R, e.rec)[i] = Append(ls, e)[i].rec
      <3>1. \A i \in 1..(Len(ls) + 1) : i \in 1..Len(ls) \/ i = Len(ls) + 1
        BY <1>1
      <3>2. \A i \in 1..Len(ls) : R[i] = ls[i].rec
        BY DEF Recs
      <3> QED  BY <1>2, <1>4, <1>5, <2>1, <3>1, <3>2
    <2>3. Append(R, e.rec) = [i \in 1..(Len(ls) + 1) |-> Append(R, e.rec)[i]]
      BY <1>1, <2>1
    <2> QED  BY <2>2, <2>3 DEF Recs
  <1>7. \A x \in Line : Recs(Append(ls, x), Len(ls)) = R
    BY <1>4 DEF Recs
  <1>8. SubSeq(Append(R, e.rec), 1, Len(ls)) = R
    BY <1>2, <1>3
  <1> QED  BY <1>3, <1>6, <1>7, <1>8

\* The same as functions of the file, for a state and for the next one.
LinesOf(ls, t) ==
    CASE t = Closed -> ls
      [] t = Torn   -> Append(ls, Garbage)
      [] OTHER      -> Append(ls, t)
Parses(f) == \A i \in 1..Len(f) : f[i] # Garbage
ParsedOf(f) == Recs(f, IF Parses(f) THEN Len(f) ELSE Len(f) - 1)
TailOf(f, t) == IF ~ Parses(f) THEN "torn" ELSE IF t = Closed THEN "clean" ELSE "unterminated"

LEMMA AsFunctions ==
    /\ FileLines = LinesOf(lines, tail) /\ FileLines' = LinesOf(lines', tail')
    /\ Readable <=> Parses(FileLines)
    /\ Readable' <=> Parses(FileLines')
    /\ Parsed = ParsedOf(FileLines) /\ Parsed' = ParsedOf(FileLines')
    /\ CallersTail = TailOf(FileLines, tail) /\ CallersTail' = TailOf(FileLines', tail')
  <1>1. FileLines = LinesOf(lines, tail) /\ FileLines' = LinesOf(lines', tail')
    BY DEF FileLines, LinesOf
  <1>2. /\ Readable <=> Parses(FileLines)
        /\ Readable' <=> Parses(FileLines')
    BY DEF Readable, Parses
  <1>3. Parsed = ParsedOf(FileLines) /\ Parsed' = ParsedOf(FileLines')
    BY <1>2 DEF Parsed, ParsedOf, Recs
  <1>4. CallersTail = TailOf(FileLines, tail) /\ CallersTail' = TailOf(FileLines', tail')
    BY <1>2 DEF CallersTail, TailOf
  <1> QED  BY <1>1, <1>2, <1>3, <1>4

\* What callers see of each way a file can end.
LEMMA SeenByCallers ==
    ASSUME NEW ls \in Seq(Line), \A i \in 1..Len(ls) : ls[i] # Garbage
    PROVE  /\ LinesOf(ls, Closed) = ls /\ Parses(ls)
           /\ ParsedOf(ls) = Recs(ls, Len(ls)) /\ TailOf(ls, Closed) = "clean"
           /\ LinesOf(ls, Torn) = Append(ls, Garbage)
           /\ LinesOf(Append(ls, Garbage), Closed) = Append(ls, Garbage)
           /\ ParsedOf(Append(ls, Garbage)) = Recs(ls, Len(ls))
           /\ \A t : TailOf(Append(ls, Garbage), t) = "torn"
  <1>1. Len(ls) \in Nat /\ Garbage \in Line
    BY DEF Line
  <1>2. /\ LinesOf(ls, Closed) = ls /\ LinesOf(ls, Torn) = Append(ls, Garbage)
        /\ LinesOf(Append(ls, Garbage), Closed) = Append(ls, Garbage)
    BY MarkersAssumption DEF LinesOf
  <1>3. /\ Parses(ls) /\ ParsedOf(ls) = Recs(ls, Len(ls)) /\ TailOf(ls, Closed) = "clean"
    BY DEF Parses, ParsedOf, TailOf
  <1>4. /\ ParsedOf(Append(ls, Garbage)) = Recs(ls, Len(ls))
        /\ \A t : TailOf(Append(ls, Garbage), t) = "torn"
    <2> DEFINE f == Append(ls, Garbage)
    <2>1. /\ Len(f) = Len(ls) + 1
          /\ \A i \in 1..Len(ls) : f[i] = ls[i]
          /\ f[Len(ls) + 1] = Garbage
      BY <1>1, AppendFacts
    <2> HIDE DEF f
    <2>2. ~ Parses(f)
      BY <1>1, <2>1 DEF Parses
    <2>3. Len(f) - 1 = Len(ls)
      BY <1>1, <2>1
    <2>4. ParsedOf(f) = Recs(f, Len(ls))
      BY <2>2, <2>3 DEF ParsedOf
    <2>5. Recs(f, Len(ls)) = Recs(ls, Len(ls))
      BY <2>1 DEF Recs
    <2> QED  BY <2>2, <2>4, <2>5 DEF TailOf, f
  <1> QED  BY <1>2, <1>3, <1>4

LEMMA SeenUnterminated ==
    ASSUME NEW ls \in Seq(Line), \A i \in 1..Len(ls) : ls[i] # Garbage, NEW e \in Entry
    PROVE  /\ LinesOf(ls, e) = Append(ls, e) /\ Parses(Append(ls, e))
           /\ ParsedOf(Append(ls, e)) = Recs(Append(ls, e), Len(ls) + 1)
           /\ TailOf(Append(ls, e), e) = "unterminated"
  <1> DEFINE f == Append(ls, e)
  <1>1. LinesOf(ls, e) = f /\ e # Garbage /\ e # Closed /\ e \in Line
    BY MarkersAssumption DEF LinesOf, Line
  <1>2. /\ Len(f) = Len(ls) + 1 /\ Len(ls) \in Nat
        /\ \A i \in 1..Len(ls) : f[i] = ls[i]
        /\ f[Len(ls) + 1] = e
    BY <1>1, AppendFacts
  <1> HIDE DEF f
  <1>3. Parses(f)
    <2>1. \A i \in 1..(Len(ls) + 1) : i \in 1..Len(ls) \/ i = Len(ls) + 1
      BY <1>2
    <2> QED  BY <1>1, <1>2, <2>1 DEF Parses
  <1>4. ParsedOf(f) = Recs(f, Len(ls) + 1) /\ TailOf(f, e) = "unterminated"
    BY <1>1, <1>2, <1>3 DEF ParsedOf, TailOf
  <1> QED  BY <1>1, <1>3, <1>4 DEF f

\* Only the last line of each of these does not parse.
LEMMA OnlyLast ==
    ASSUME NEW ls \in Seq(Line), \A i \in 1..Len(ls) : ls[i] # Garbage,
           NEW f, f = ls \/ \E x \in Line : f = Append(ls, x)
    PROVE  \A i \in 1..(Len(f) - 1) : f[i] # Garbage
  <1>1. Len(ls) \in Nat
    OBVIOUS
  <1>2. CASE f = ls
    BY <1>1, <1>2
  <1>3. ASSUME NEW x \in Line, f = Append(ls, x)
        PROVE  \A i \in 1..(Len(f) - 1) : f[i] # Garbage
    <2>1. Len(f) = Len(ls) + 1 /\ \A i \in 1..Len(ls) : f[i] = ls[i]
      BY <1>3, AppendFacts
    <2> QED  BY <1>1, <2>1
  <1> QED  BY <1>2, <1>3

\* The push that has read appends, or glues to a line that lacks its newline.
LEMMA AppendIsEmit ==
    ASSUME TypeOK, TurnInv, NEW p \in Pushers, view[p] # NoView,
           Len(lines) < MaxEntries, lines' = Written(Pending(p)), tail' = Closed
    PROVE  /\ Callers!Emit(view[p].rec)
           /\ \A i \in 1..(Len(FileLines') - 1) : FileLines'[i] # Garbage
           /\ Len(lines') <= MaxEntries
  <1> DEFINE e == Pending(p)
  <1>1. e \in Entry /\ e \in Line /\ e.rec = view[p].rec /\ Garbage \in Line
    BY PendingType DEF Line, Pending
  <1>2. lines \in Seq(Line) /\ Len(lines) \in Nat /\ MaxEntries \in Nat /\ tail # Torn
    BY Seen, BoundAssumption DEF TurnInv
  <1>3. \A i \in 1..Len(lines) : lines[i] # Garbage
    BY <1>2, Seen DEF TurnInv, Readable
  <1> HIDE DEF e
  <1>4. Len(lines') <= MaxEntries
    <2>1. \E x \in Line : lines' = Append(lines, x)
      BY <1>1 DEF Written, e
    <2> QED  BY <1>2, <2>1, AppendFacts
  <1>5. CASE tail = Closed
    <2>1. /\ Parsed = Recs(lines, Len(lines)) /\ CallersTail = "clean"
          /\ Len(Parsed) = Len(lines)
      BY <1>1, <1>2, <1>3, <1>5, SeenByCallers, RecsFacts, AsFunctions
    <2>2. lines' = Append(lines, e)
      BY <1>5 DEF Written, e
    <2>3. /\ lines' \in Seq(Line) /\ Len(lines') = Len(lines) + 1
          /\ \A i \in 1..Len(lines') : lines'[i] # Garbage
      <3>1. \A i \in 1..(Len(lines) + 1) : i \in 1..Len(lines) \/ i = Len(lines) + 1
        BY <1>2
      <3> QED  BY <1>1, <1>2, <1>3, <2>2, <3>1, AppendFacts, MarkersAssumption
    <2>4. /\ Parsed' = Recs(lines', Len(lines) + 1) /\ CallersTail' = "clean"
          /\ FileLines' = lines'
      BY <2>3, SeenByCallers, AsFunctions
    <2>5. Parsed' = Append(Parsed, view[p].rec)
      BY <1>1, <1>2, <1>3, <2>1, <2>2, <2>4, RecsFacts
    <2>6. Callers!Emit(view[p].rec)
      BY <1>2, <2>1, <2>4, <2>5 DEF Callers!Emit, CallersTail
    <2> QED  BY <1>4, <2>3, <2>4, <2>6, OnlyLast
  <1>6. CASE tail # Closed
    <2>1. tail \in Entry /\ lines' = Append(lines, Garbage)
      BY <1>2, <1>6, Seen DEF Written
    <2>2. /\ Parsed = Recs(Append(lines, tail), Len(lines) + 1)
          /\ CallersTail = "unterminated"
      BY <1>2, <1>3, <2>1, SeenUnterminated, AsFunctions
    <2>3. /\ Parsed' = Recs(lines, Len(lines)) /\ CallersTail' = "torn"
          /\ FileLines' = Append(lines, Garbage)
      BY <1>2, <1>3, <2>1, SeenByCallers, AsFunctions
    <2>4. Len(Parsed) = Len(lines) + 1
      BY <1>2, <2>2 DEF Recs
    <2>5. Parsed' = SubSeq(Parsed, 1, Len(Parsed) - 1)
      BY <1>2, <1>3, <2>1, <2>2, <2>3, <2>4, RecsFacts
    <2>6. Callers!Emit(view[p].rec)
      BY <1>2, <2>2, <2>3, <2>4, <2>5 DEF Callers!Emit, Callers!Glued, CallersTail
    <2> QED  BY <1>1, <1>2, <1>3, <1>4, <2>3, <2>6, OnlyLast
  <1> QED  BY <1>5, <1>6

\* A write that fails leaves what a failed append of Ledger leaves.
LEMMA FailureIsEmitFails ==
    ASSUME TypeOK, TurnInv, NEW p \in Pushers, NEW fault \in WriteFaults, AppendFails(p, fault)
    PROVE  /\ Callers!EmitFails(view[p].rec)
           /\ \A i \in 1..(Len(FileLines') - 1) : FileLines'[i] # Garbage
           /\ Len(lines') <= MaxEntries
  <1> DEFINE e == Pending(p)
  <1>1. /\ e \in Entry /\ e \in Line /\ e.rec = view[p].rec /\ Garbage \in Line
        /\ view[p] # NoView /\ lines' = lines /\ tail' = Left(fault, e)
    BY PendingType DEF Line, Pending, AppendFails
  <1>2. /\ lines \in Seq(Line) /\ Len(lines) \in Nat /\ MaxEntries \in Nat /\ tail # Torn
        /\ Len(lines') <= MaxEntries
    BY <1>1, Seen, BoundAssumption DEF TurnInv
  <1>3. \A i \in 1..Len(lines) : lines[i] # Garbage
    BY <1>1, <1>2, Seen DEF TurnInv, Readable
  <1> HIDE DEF e
  <1>4. CASE fault = "none"
    <2>1. tail' = tail
      BY <1>1, <1>4 DEF Left
    <2>2. FileLines' = FileLines /\ Parsed' = Parsed /\ CallersTail' = CallersTail
      BY <1>1, <2>1, AsFunctions
    <2> QED  BY <1>2, <2>2 DEF Callers!EmitFails, CallersTail, TurnInv
  <1>5. CASE fault # "none" /\ tail = Closed
    <2>1. Parsed = Recs(lines, Len(lines)) /\ CallersTail = "clean"
      BY <1>2, <1>3, <1>5, SeenByCallers, AsFunctions
    <2>2. CASE fault = "torn"
      <3>1. tail' = Torn
        BY <1>1, <2>2 DEF Left
      <3>2. FileLines' = Append(lines, Garbage)
        BY <1>1, <1>2, <1>3, <3>1, SeenByCallers, AsFunctions
      <3>3. Parsed' = Recs(lines, Len(lines)) /\ CallersTail' = "torn"
        BY <1>2, <1>3, <3>2, SeenByCallers, AsFunctions
      <3>4. Callers!EmitFails(view[p].rec)
        BY <2>1, <2>2, <3>3 DEF Callers!EmitFails, CallersTail
      <3> QED  BY <1>1, <1>2, <1>3, <3>2, <3>4, OnlyLast
    <2>3. CASE fault = "unterminated"
      <3>1. tail' = e
        BY <1>1, <1>5, <2>3 DEF Left
      <3>2. FileLines' = Append(lines, e)
        BY <1>1, <1>2, <1>3, <3>1, SeenUnterminated, AsFunctions
      <3>3. Parsed' = Recs(Append(lines, e), Len(lines) + 1) /\ CallersTail' = "unterminated"
        BY <1>1, <1>2, <1>3, <3>1, <3>2, SeenUnterminated, AsFunctions
      <3>4. Parsed' = Append(Parsed, view[p].rec) /\ Len(Parsed) = Len(lines)
        BY <1>1, <1>2, <1>3, <2>1, <3>3, RecsFacts
      <3>5. Len(lines) < MaxEntries + 1
        BY <1>1, <1>2
      <3>6. Callers!EmitFails(view[p].rec)
        BY <2>1, <2>3, <3>3, <3>4, <3>5 DEF Callers!EmitFails, CallersTail
      <3> QED  BY <1>1, <1>2, <1>3, <3>2, <3>6, OnlyLast
    <2>4. fault \in {"torn", "unterminated"}
      BY <1>5, FaultsAssumption
    <2> QED  BY <2>2, <2>3, <2>4
  <1>6. CASE fault # "none" /\ tail # Closed
    <2>1. tail \in Entry /\ tail' = Torn
      BY <1>1, <1>2, <1>6, Seen DEF Left
    <2>2. FileLines = Append(lines, tail)
      BY <1>2, <1>3, <2>1, SeenUnterminated, AsFunctions
    <2>3. /\ Parsed = Recs(Append(lines, tail), Len(lines) + 1)
          /\ CallersTail = "unterminated"
      BY <1>2, <1>3, <2>1, <2>2, SeenUnterminated, AsFunctions
    <2>4. FileLines' = Append(lines, Garbage)
      BY <1>1, <1>2, <1>3, <2>1, SeenByCallers, AsFunctions
    <2>5. Parsed' = Recs(lines, Len(lines)) /\ CallersTail' = "torn"
      BY <1>2, <1>3, <2>4, SeenByCallers, AsFunctions
    <2>6. Len(Parsed) = Len(lines) + 1
      BY <1>2, <2>3 DEF Recs
    <2>7. Parsed' = SubSeq(Parsed, 1, Len(Parsed) - 1)
      BY <1>2, <1>3, <2>1, <2>3, <2>5, <2>6, RecsFacts
    <2>8. Callers!EmitFails(view[p].rec)
      BY <2>3, <2>5, <2>7 DEF Callers!EmitFails, Callers!Glued, CallersTail
    <2> QED  BY <1>1, <1>2, <1>3, <2>4, <2>8, OnlyLast
  <1> QED  BY <1>4, <1>5, <1>6

\* A step of callers with which a push gets a receipt, or ends without one.
CallersStep ==
    \E r \in Records : Callers!Emit(r) \/ (Callers!EmitFails(r) /\ UNCHANGED acked)

LEMMA TurnStep ==
    ASSUME TypeOK, TurnInv, InTurns, [Next]_vars
    PROVE  TurnInv' /\ [CallersStep]_vars
  <1>1. ASSUME NEW p \in Pushers, view[p] # NoView, view' = [view EXCEPT ![p] = NoView]
        PROVE  view[p].rec \in Records /\ \A q \in Pushers : view'[q] = NoView
    BY <1>1, PendingType DEF TypeOK, InTurns, View
  <1>2. ASSUME UNCHANGED <<lines, tail>>
        PROVE  /\ FileLines' = FileLines /\ Readable' = Readable
               /\ \A r : Callers!EmitFails(r)
    <2>1. FileLines' = FileLines
      BY <1>2, AsFunctions
    <2>2. Parsed' = Parsed /\ CallersTail' = CallersTail
      BY <1>2, <2>1, AsFunctions
    <2>3. Readable' = Readable
      BY <2>1 DEF Readable
    <2> QED  BY <2>1, <2>2, <2>3 DEF Callers!EmitFails, CallersTail
  <1>3. ASSUME NEW p \in Pushers, NEW r \in Records, ReadPrev(p, r)
        PROVE  TurnInv' /\ CallersStep
    <2>1. Readable /\ UNCHANGED <<lines, tail, acked>>
      BY <1>3 DEF ReadPrev
    <2> QED  BY <1>2, <2>1 DEF TurnInv, CallersStep
  <1>4. ASSUME NEW p \in Pushers, AppendEntry(p) \/ CrashAfterAppend(p)
        PROVE  TurnInv' /\ CallersStep
    <2>1. /\ view[p] # NoView /\ Len(lines) < MaxEntries
          /\ lines' = Written(Pending(p)) /\ tail' = Closed
          /\ view' = [view EXCEPT ![p] = NoView]
      BY <1>4 DEF AppendEntry, CrashAfterAppend
    <2> QED  BY <1>1, <2>1, AppendIsEmit DEF TurnInv, CallersStep
  <1>5. ASSUME NEW p \in Pushers, NEW fault \in WriteFaults, AppendFails(p, fault)
        PROVE  TurnInv' /\ CallersStep
    <2>1. view[p] # NoView /\ view' = [view EXCEPT ![p] = NoView] /\ acked' = acked
      BY <1>5 DEF AppendFails
    <2> QED  BY <1>1, <1>5, <2>1, FailureIsEmitFails DEF TurnInv, CallersStep
  <1>6. ASSUME NEW p \in Pushers, CrashBeforeAppend(p)
        PROVE  TurnInv' /\ CallersStep
    <2>1. /\ view[p] # NoView /\ view' = [view EXCEPT ![p] = NoView]
          /\ UNCHANGED <<lines, tail, acked>>
      BY <1>6 DEF CrashBeforeAppend
    <2> QED  BY <1>1, <1>2, <2>1 DEF TurnInv, CallersStep
  <1>7. CASE UNCHANGED vars
    <2>1. UNCHANGED <<lines, tail, view>>
      BY <1>7 DEF vars
    <2> QED  BY <1>2, <1>7, <2>1 DEF TurnInv
  <1> QED  BY <1>3, <1>4, <1>5, <1>6, <1>7 DEF Next

\* Any number of pushers that take turns implement the ledger that the other
\* components are modelled on, whatever dies and however writes fail.
THEOREM TurnsImplementLedger == Spec /\ []InTurns => CallersSpec
  <1>1. Init => TurnInv /\ Callers!Empty
    <2> SUFFICES ASSUME Init PROVE TurnInv /\ Callers!Empty
      OBVIOUS
    <2>1. lines = << >> /\ tail = Closed /\ \A p \in Pushers : view[p] = NoView
      BY DEF Init
    <2>2. << >> \in Seq(Line) /\ Len(<< >>) = 0 /\ \A i \in 1..Len(<< >>) : << >>[i] # Garbage
      OBVIOUS
    <2>3. FileLines = << >> /\ Parsed = Recs(<< >>, 0) /\ CallersTail = "clean"
      BY <2>1, <2>2, SeenByCallers, AsFunctions
    <2>4. Recs(<< >>, 0) = << >>
      BY DEF Recs
    <2> QED
      BY <2>1, <2>2, <2>3, <2>4, BoundAssumption DEF TurnInv, Callers!Empty, CallersTail
  <1>2. TypeOK /\ TurnInv /\ InTurns /\ [Next]_vars => TurnInv' /\ [CallersStep]_vars
    BY TurnStep
  <1> QED  BY <1>1, <1>2, TypeCorrect, PTL DEF Spec, CallersSpec, CallersStep

\* So does a single pusher.
THEOREM SerialImplementsLedger ==
    ASSUME \A p, q \in Pushers : p = q
    PROVE  Spec => CallersSpec
  <1> QED  BY OneTakesTurns, TurnsImplementLedger, PTL

-----------------------------------------------------------------------------
(* verify_ledger *)

\* What holds of zero and of every successor holds of all numbers, said of a
\* set: the smallest number outside of it would be a successor.
LEMMA AllNumbers ==
    ASSUME NEW S, 0 \in S, \A n \in Nat : n \in S => n + 1 \in S
    PROVE  \A n \in Nat : n \in S
  <1> DEFINE T == {n \in Nat : n \notin S}
             Less == OpToRel(<, Nat)
  <1>1. ASSUME T # {}
        PROVE  FALSE
    <2>1. IsWellFoundedOn(Less, Nat)
      BY NatLessThanWellFounded, Zenon
    <2>2. T \subseteq Nat
      OBVIOUS
    <2>3. PICK m \in T : \A n \in T : ~ (<<n, m>> \in Less)
      BY <1>1, <2>1, <2>2, WFMin, Zenon
    <2>4. m \in Nat /\ m # 0 /\ m - 1 \in Nat
      OBVIOUS
    <2>5. <<m - 1, m>> \in Less
      BY <2>4 DEF OpToRel
    <2>6. m - 1 \in S
      BY <2>3, <2>4, <2>5
    <2>7. (m - 1) + 1 \in S
      BY <2>4, <2>6
    <2> QED  BY <2>4, <2>7
  <1> QED  BY <1>1

\* Where the walk starts, and where it goes from s over line e.
WalkStart == [verdict |-> "ok", prev |-> Genesis, seq |-> 0]
Walked(s, e) ==
    IF s.verdict # "ok" THEN s
    ELSE IF e = Garbage THEN [s EXCEPT !.verdict = "raises"]
    ELSE IF e.seq # s.seq THEN [s EXCEPT !.verdict = "seq gap"]
    ELSE IF e.prev # s.prev THEN [s EXCEPT !.verdict = "broken chain"]
    ELSE IF e.hash # ChainHash(s.prev, e.seq, e.rec) THEN [s EXCEPT !.verdict = "tamper"]
    ELSE [verdict |-> "ok", prev |-> e.hash, seq |-> s.seq + 1]

WalkOf(w, ls, n) == w = [i \in 0..n |-> IF i = 0 THEN WalkStart ELSE Walked(w[i-1], ls[i])]

\* Over any number of lines there is a walk.
LEMMA WalkExists ==
    ASSUME NEW ls, NEW n \in Nat
    PROVE  \E w : WalkOf(w, ls, n)
  <1> DEFINE S == {k \in Nat : \E w : WalkOf(w, ls, k)}
  <1>1. 0 \in S
    <2> DEFINE w == [i \in 0..0 |-> WalkStart]
    <2>1. WalkOf(w, ls, 0)
      BY DEF WalkOf
    <2> QED  BY <2>1
  <1>2. ASSUME NEW k \in Nat, k \in S
        PROVE  k + 1 \in S
    <2>1. PICK w : WalkOf(w, ls, k)
      BY <1>2
    <2> DEFINE u == [i \in 0..(k + 1) |-> IF i = k + 1 THEN Walked(w[k], ls[k + 1]) ELSE w[i]]
    <2>2. \A i \in 0..k : w[i] = IF i = 0 THEN WalkStart ELSE Walked(w[i - 1], ls[i])
      BY <2>1 DEF WalkOf
    <2>3. ASSUME NEW i \in 0..(k + 1)
          PROVE  u[i] = IF i = 0 THEN WalkStart ELSE Walked(u[i - 1], ls[i])
      <3>1. CASE i = k + 1
        <4>1. u[i - 1] = w[k] /\ u[i] = Walked(w[k], ls[k + 1]) /\ i # 0
          BY <3>1
        <4> QED  BY <3>1, <4>1
      <3>2. CASE i # k + 1
        <4>1. i \in 0..k /\ u[i] = w[i] /\ (i # 0 => u[i - 1] = w[i - 1])
          BY <3>2
        <4> QED  BY <2>2, <4>1
      <3> QED  BY <3>1, <3>2
    <2>4. u = [i \in 0..(k + 1) |-> u[i]]
      OBVIOUS
    <2> HIDE DEF u
    <2>5. WalkOf(u, ls, k + 1)
      BY <2>3, <2>4 DEF WalkOf
    <2> QED  BY <2>5
  <1> HIDE DEF S
  <1>3. n \in S
    BY <1>1, <1>2, AllNumbers
  <1> QED  BY <1>3 DEF S

\* And VerifyWalk is one, over all lines.
LEMMA WalkIsWalked ==
    ASSUME NEW ls, Len(ls) \in Nat
    PROVE  WalkOf(VerifyWalk(ls), ls, Len(ls))
  <1>1. \E w : WalkOf(w, ls, Len(ls))
    BY WalkExists
  <1>2. VerifyWalk(ls) = CHOOSE w : WalkOf(w, ls, Len(ls))
    BY DEF VerifyWalk, WalkOf, Walked, WalkStart
  <1> QED  BY <1>1, <1>2

\* What ChainValid asks of line i.
LinkValid(ls, i) ==
    /\ ls[i] # Garbage
    /\ ls[i].seq = i - 1
    /\ ls[i].prev = IF i = 1 THEN Genesis ELSE ls[i-1].hash
    /\ ls[i].hash = ChainHash(ls[i].prev, ls[i].seq, ls[i].rec)

\* A step of a walk that was "ok" stays so over exactly the line that follows.
LEMMA WalkedOk ==
    ASSUME NEW p, NEW q, NEW e
    PROVE  LET s == [verdict |-> "ok", prev |-> p, seq |-> q]
           IN  Walked(s, e).verdict = "ok" <=>
                   /\ e # Garbage /\ e.seq = q /\ e.prev = p
                   /\ e.hash = ChainHash(p, q, e.rec)
  <1> DEFINE s == [verdict |-> "ok", prev |-> p, seq |-> q]
  <1>1. /\ s.verdict = "ok" /\ s.prev = p /\ s.seq = q
        /\ \A v : [s EXCEPT !.verdict = v].verdict = v
    OBVIOUS
  <1> HIDE DEF s
  <1>2. "ok" # "raises" /\ "ok" # "seq gap" /\ "ok" # "broken chain" /\ "ok" # "tamper"
    OBVIOUS
  <1>3. CASE e = Garbage
    BY <1>1, <1>2, <1>3 DEF Walked
  <1>4. CASE e # Garbage /\ e.seq # q
    BY <1>1, <1>2, <1>4 DEF Walked
  <1>5. CASE e # Garbage /\ e.seq = q /\ e.prev # p
    BY <1>1, <1>2, <1>5 DEF Walked
  <1>6. CASE e # Garbage /\ e.seq = q /\ e.prev = p
    BY <1>1, <1>2, <1>6 DEF Walked
  <1> QED  BY <1>3, <1>4, <1>5, <1>6

\* After i lines the walk is "ok" as long as they are a chain, and then knows
\* the number and the predecessor of the next.
LEMMA WalkAt ==
    ASSUME NEW ls \in Seq(Line), NEW w, WalkOf(w, ls, Len(ls))
    PROVE  \A n \in 0..Len(ls) : w[n].verdict = "ok" <=> \A i \in 1..n : LinkValid(ls, i)
  <1> DEFINE last(n) == [verdict |-> "ok", seq |-> n,
                         prev |-> IF n = 0 THEN Genesis ELSE ls[n].hash]
             At(n) == /\ w[n].verdict = "ok" <=> \A i \in 1..n : LinkValid(ls, i)
                      /\ w[n].verdict = "ok" => w[n] = last(n)
             S == {n \in Nat : n <= Len(ls) => At(n)}
  <1>1. /\ w[0] = WalkStart
        /\ \A n \in 1..Len(ls) : w[n] = Walked(w[n - 1], ls[n])
    BY DEF WalkOf
  <1>2. 0 \in S
    BY <1>1 DEF WalkStart
  <1>3. ASSUME NEW n \in Nat, n \in S
        PROVE  n + 1 \in S
    <2> SUFFICES ASSUME n + 1 <= Len(ls)
                 PROVE  At(n + 1)
      OBVIOUS
    <2>1. At(n) /\ n + 1 \in 1..Len(ls)
      BY <1>3
    <2>2. w[n + 1] = Walked(w[n], ls[n + 1])
      BY <1>1, <2>1
    <2>3. \A i \in 1..(n + 1) : i \in 1..n \/ i = n + 1
      OBVIOUS
    <2>4. CASE w[n].verdict # "ok"
      <3>1. w[n + 1] = w[n]
        BY <2>2, <2>4 DEF Walked
      <3> QED  BY <2>1, <2>4, <3>1
    <2>5. CASE w[n].verdict = "ok"
      <3>1. w[n] = last(n) /\ \A i \in 1..n : LinkValid(ls, i)
        BY <2>1, <2>5
      <3>2. CASE LinkValid(ls, n + 1)
        <4>1. /\ ls[n + 1] # Garbage /\ ls[n + 1].seq = n
              /\ ls[n + 1].prev = IF n = 0 THEN Genesis ELSE ls[n].hash
              /\ ls[n + 1].hash = ChainHash(ls[n + 1].prev, ls[n + 1].seq, ls[n + 1].rec)
          BY <3>2 DEF LinkValid
        <4>2. w[n + 1] = [verdict |-> "ok", prev |-> ls[n + 1].hash, seq |-> n + 1]
          BY <2>2, <3>1, <4>1 DEF Walked
        <4> QED  BY <2>3, <3>1, <3>2, <4>2
      <3>3. CASE ~ LinkValid(ls, n + 1)
        <4>1. \/ ls[n + 1] = Garbage \/ ls[n + 1].seq # n
              \/ ls[n + 1].prev # IF n = 0 THEN Genesis ELSE ls[n].hash
              \/ ls[n + 1].hash # ChainHash(ls[n + 1].prev, ls[n + 1].seq, ls[n + 1].rec)
          BY <3>3 DEF LinkValid
        <4>2. w[n + 1].verdict # "ok"
          <5>1. ~ /\ ls[n + 1] # Garbage /\ ls[n + 1].seq = n /\ ls[n + 1].prev = last(n).prev
                  /\ ls[n + 1].hash = ChainHash(last(n).prev, n, ls[n + 1].rec)
            BY <4>1
          <5> QED  BY <2>2, <3>1, <5>1, WalkedOk
        <4> QED  BY <3>3, <4>2
      <3> QED  BY <3>2, <3>3
    <2> QED  BY <2>4, <2>5
  <1> HIDE DEF S
  <1>4. \A n \in Nat : n \in S
    BY <1>2, <1>3, AllNumbers
  <1>5. ASSUME NEW n \in 0..Len(ls)
        PROVE  At(n)
    BY <1>4 DEF S
  <1> QED  BY <1>5

\* verify_ledger accepts exactly the files that are one chain from genesis,
\* however long, whoever pushed and however writes failed.
THEOREM VerifyIsExact == Spec => []VerifyExact
  <1>1. TypeOK => VerifyExact
    <2> SUFFICES ASSUME TypeOK
                 PROVE  VerifyExact
      OBVIOUS
    <2> DEFINE ls == FileLines
    <2>1. ls \in Seq(Line) /\ Len(ls) \in Nat
      BY FileLinesType
    <2> HIDE DEF ls
    <2>2. VerifyWalk(ls)[Len(ls)].verdict = "ok" <=> \A i \in 1..Len(ls) : LinkValid(ls, i)
      BY <2>1, WalkIsWalked, WalkAt
    <2>3. ChainValid(ls) <=> \A i \in 1..Len(ls) : LinkValid(ls, i)
      BY DEF ChainValid, LinkValid
    <2> QED  BY <2>2, <2>3 DEF VerifyExact, VerifyLedger, ls
  <1> QED  BY <1>1, TypeCorrect, PTL

-----------------------------------------------------------------------------
(* Pushes that take turns leave a file that verifies or does not parse *)

HeadOf(f) == IF f = << >> THEN Genesis ELSE f[Len(f)].hash

\* Whatever of a file parses is linked to the line before it.
Linked(f) == \A i \in 1..Len(f) : f[i] # Garbage => LinkValid(f, i)

\* The file is linked as far as it parses, and whoever has read knows its end.
FileInv ==
    /\ Linked(FileLines)
    /\ \A p \in Pushers : view[p] # NoView =>
          view[p].seq = Len(FileLines) /\ view[p].prev = HeadOf(FileLines)

\* The next line of the chain, or one that does not parse, keeps a file linked.
LEMMA LinkedGrow ==
    ASSUME NEW f \in Seq(Line), \A i \in 1..Len(f) : f[i] # Garbage, Linked(f),
           NEW e \in Line,
           e # Garbage => /\ e.seq = Len(f) /\ e.prev = HeadOf(f)
                          /\ e.hash = ChainHash(e.prev, e.seq, e.rec)
    PROVE  Linked(Append(f, e))
  <1> DEFINE g == Append(f, e)
  <1>1. /\ Len(g) = Len(f) + 1 /\ Len(f) \in Nat
        /\ \A i \in 1..Len(f) : g[i] = f[i]
        /\ g[Len(f) + 1] = e
    BY AppendFacts
  <1> HIDE DEF g
  <1>2. ASSUME NEW i \in 1..Len(f)
        PROVE  LinkValid(g, i)
    <2>1. LinkValid(f, i) /\ g[i] = f[i] /\ (i # 1 => g[i - 1] = f[i - 1])
      BY <1>1 DEF Linked
    <2> QED  BY <2>1 DEF LinkValid
  <1>3. ASSUME e # Garbage
        PROVE  LinkValid(g, Len(f) + 1)
    <2>1. CASE f = << >>
      BY <1>1, <1>3, <2>1 DEF LinkValid, HeadOf
    <2>2. CASE f # << >>
      <3>1. Len(f) # 0 /\ g[Len(f)] = f[Len(f)]
        BY <1>1, <2>2
      <3> QED  BY <1>1, <1>3, <2>2, <3>1 DEF LinkValid, HeadOf
    <2> QED  BY <2>1, <2>2
  <1>4. \A i \in 1..Len(g) : i \in 1..Len(f) \/ i = Len(f) + 1
    BY <1>1
  <1> QED  BY <1>1, <1>2, <1>3, <1>4 DEF Linked, g

\* The complete lines of a file that parses are linked as it is.
LEMMA LinesLinked ==
    ASSUME TypeOK, TurnInv, Readable, Linked(FileLines)
    PROVE  (\A i \in 1..Len(lines) : lines[i] # Garbage) /\ Linked(lines)
  <1>1. lines \in Seq(Line) /\ Len(lines) \in Nat
    BY Seen
  <1>2. CASE tail = Closed
    BY <1>2, Seen DEF Readable
  <1>3. CASE tail # Closed
    <2>1. FileLines = Append(lines, tail) /\ tail \in Line
      BY <1>3, Seen DEF Line
    <2>2. /\ Len(FileLines) = Len(lines) + 1
          /\ \A i \in 1..Len(lines) : FileLines[i] = lines[i]
      BY <1>1, <2>1, AppendFacts
    <2>3. ASSUME NEW i \in 1..Len(lines)
          PROVE  lines[i] # Garbage /\ LinkValid(lines, i)
      <3>1. /\ i \in 1..Len(FileLines) /\ FileLines[i] = lines[i]
            /\ i # 1 => FileLines[i - 1] = lines[i - 1]
        BY <1>1, <2>2
      <3>2. LinkValid(FileLines, i)
        BY <3>1 DEF Readable, Linked
      <3> QED  BY <3>1, <3>2 DEF LinkValid
    <2> QED  BY <2>3 DEF Linked
  <1> QED  BY <1>2, <1>3

\* What the write of a push makes of the file a reader sees: nothing, the entry
\* after all of it, or a line that does not parse after its complete lines.
LEMMA FileGrows ==
    ASSUME TypeOK, TurnInv, NEW p \in Pushers, view[p] # NoView,
           \/ lines' = Written(Pending(p)) /\ tail' = Closed
           \/ \E fault \in WriteFaults : AppendFails(p, fault)
    PROVE  \/ FileLines' = FileLines
           \/ FileLines' = Append(FileLines, Pending(p))
           \/ FileLines' = Append(lines, Garbage)
  <1> DEFINE e == Pending(p)
  <1>1. /\ e \in Entry /\ e # Closed /\ e # Torn /\ tail # Torn
    BY PendingType, MarkersAssumption, Seen DEF TurnInv
  <1>2. \A ls, x : x \notin {Closed, Torn} => LinesOf(ls, x) = Append(ls, x)
    BY DEF LinesOf
  <1>3. \A ls : LinesOf(ls, Closed) = ls /\ LinesOf(ls, Torn) = Append(ls, Garbage)
    BY MarkersAssumption DEF LinesOf
  <1> HIDE DEF e
  <1>4. CASE lines' = Written(e) /\ tail' = Closed
    <2>1. FileLines' = lines'
      BY <1>3, <1>4, AsFunctions
    <2>2. CASE tail = Closed
      <3>1. lines' = Append(lines, e) /\ FileLines = lines
        BY <1>3, <1>4, <2>2, AsFunctions DEF Written
      <3> QED  BY <2>1, <3>1 DEF e
    <2>3. CASE tail # Closed
      BY <1>4, <2>1, <2>3 DEF Written
    <2> QED  BY <2>2, <2>3
  <1>5. ASSUME NEW fault \in WriteFaults, AppendFails(p, fault)
        PROVE  \/ FileLines' = FileLines
               \/ FileLines' = Append(FileLines, e)
               \/ FileLines' = Append(lines, Garbage)
    <2>1. lines' = lines /\ tail' = Left(fault, e) /\ FileLines' = LinesOf(lines, tail')
      BY <1>5, AsFunctions DEF AppendFails, e
    <2>2. CASE fault = "none"
      BY <2>1, <2>2, AsFunctions DEF Left
    <2>3. CASE fault = "unterminated" /\ tail = Closed
      <3>1. tail' = e /\ FileLines = lines
        BY <1>3, <2>1, <2>3, AsFunctions DEF Left
      <3> QED  BY <1>1, <1>2, <2>1, <3>1
    <2>4. CASE fault # "none" /\ ~ (fault = "unterminated" /\ tail = Closed)
      BY <1>3, <2>1, <2>4 DEF Left
    <2> QED  BY <2>2, <2>3, <2>4
  <1> QED  BY <1>4, <1>5 DEF e

LEMMA FileInvStep ==
    ASSUME TypeOK, TurnInv, InTurns, InTurns', FileInv, [Next]_vars
    PROVE  FileInv'
  <1>1. ASSUME NEW p \in Pushers, view[p] # NoView, view' = [view EXCEPT ![p] = NoView],
               \/ lines' = Written(Pending(p)) /\ tail' = Closed
               \/ \E fault \in WriteFaults : AppendFails(p, fault)
        PROVE  FileInv'
    <2>1. \A q \in Pushers : view'[q] = NoView
      BY <1>1, OneSnapshot
    <2>2. /\ Readable /\ FileLines \in Seq(Line) /\ lines \in Seq(Line)
          /\ Pending(p) \in Line /\ Garbage \in Line
      BY <1>1, FileLinesType, PendingType, Seen DEF TurnInv, Line
    <2>3. /\ Pending(p).seq = Len(FileLines) /\ Pending(p).prev = HeadOf(FileLines)
          /\ Pending(p).hash = ChainHash(Pending(p).prev, Pending(p).seq, Pending(p).rec)
      BY <1>1 DEF FileInv, Pending
    <2>4. Linked(Append(FileLines, Pending(p)))
      BY <2>2, <2>3, LinkedGrow DEF FileInv, Readable
    <2>5. Linked(Append(lines, Garbage))
      BY <2>2, LinesLinked, LinkedGrow DEF FileInv
    <2>6. Linked(FileLines')
      BY <1>1, <2>4, <2>5, FileGrows DEF FileInv
    <2> QED  BY <2>1, <2>6 DEF FileInv, Linked, LinkValid
  <1>2. ASSUME UNCHANGED <<lines, tail>>,
               \A q \in Pushers : view'[q] # NoView =>
                   view'[q].seq = Len(FileLines) /\ view'[q].prev = HeadOf(FileLines)
        PROVE  FileInv'
    <2>1. FileLines' = FileLines
      BY <1>2, AsFunctions
    <2> QED  BY <1>2, <2>1 DEF FileInv, Linked, LinkValid, HeadOf
  <1>3. ASSUME NEW p \in Pushers, NEW r \in Records, ReadPrev(p, r)
        PROVE  FileInv'
    <2>1. view'[p] = NextInChain(r) /\ view'[p] # NoView /\ Readable
      BY <1>3, NextInChainType, MarkersAssumption DEF ReadPrev, TypeOK, View
    <2>2. NextInChain(r).seq = Len(FileLines) /\ NextInChain(r).prev = HeadOf(FileLines)
      <3>1. CASE FileLines = << >>
        BY <3>1 DEF NextInChain, HeadOf
      <3>2. CASE FileLines # << >>
        <4>1. Len(FileLines) \in Nat /\ Len(FileLines) \in 1..Len(FileLines)
          BY <3>2, FileLinesType
        <4>2. LastEntry.seq = Len(FileLines) - 1
          BY <2>1, <4>1 DEF FileInv, Linked, LinkValid, Readable, LastEntry
        <4> QED  BY <3>2, <4>1, <4>2 DEF NextInChain, HeadOf, LastEntry
      <3> QED  BY <3>1, <3>2
    <2>3. \A q \in Pushers : view'[q] # NoView => view'[q] = NextInChain(r)
      BY <2>1 DEF InTurns
    <2> QED  BY <1>2, <1>3, <2>2, <2>3 DEF ReadPrev
  <1>4. ASSUME NEW p \in Pushers, AppendEntry(p) \/ CrashAfterAppend(p)
        PROVE  FileInv'
    BY <1>1, <1>4 DEF AppendEntry, CrashAfterAppend
  <1>5. ASSUME NEW p \in Pushers, NEW fault \in WriteFaults, AppendFails(p, fault)
        PROVE  FileInv'
    BY <1>1, <1>5 DEF AppendFails
  <1>6. ASSUME NEW p \in Pushers, CrashBeforeAppend(p)
        PROVE  FileInv'
    <2>1. \A q \in Pushers : view'[q] = NoView
      BY <1>6, OneSnapshot DEF CrashBeforeAppend
    <2> QED  BY <1>2, <1>6, <2>1 DEF CrashBeforeAppend
  <1>7. CASE UNCHANGED vars
    BY <1>2, <1>7 DEF vars, FileInv
  <1> QED  BY <1>3, <1>4, <1>5, <1>6, <1>7 DEF Next

\* verify_ledger raises on a file that does not parse, and accepts any other:
\* pushes that take turns leave nothing it could call a gap or a broken chain,
\* whoever dies and however writes fail.
THEOREM TurnsVerify ==
    Spec /\ []InTurns => [](Readable => VerifyLedger(FileLines) = "ok")
  <1>1. Init => FileInv /\ TurnInv
    <2> SUFFICES ASSUME Init PROVE FileInv /\ TurnInv
      OBVIOUS
    <2>1. lines = << >> /\ FileLines = << >> /\ \A p \in Pushers : view[p] = NoView
      BY MarkersAssumption DEF Init, FileLines
    <2>2. Len(<< >>) = 0
      OBVIOUS
    <2> QED  BY <2>1, <2>2, BoundAssumption DEF FileInv, TurnInv, Linked
  <1>2. TypeOK /\ TurnInv /\ InTurns /\ InTurns' /\ FileInv /\ [Next]_vars => FileInv' /\ TurnInv'
    BY FileInvStep, TurnStep
  <1>3. FileInv /\ VerifyExact => (Readable => VerifyLedger(FileLines) = "ok")
    BY DEF FileInv, Linked, LinkValid, VerifyExact, ChainValid, Readable
  <1> QED  BY <1>1, <1>2, <1>3, TypeCorrect, VerifyIsExact, PTL DEF Spec
=============================================================================
