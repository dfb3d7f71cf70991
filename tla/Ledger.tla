------------------------------- MODULE Ledger -------------------------------
(***************************************************************************)
(* The ledger as the callers of emit_custody_event and publish use it: one *)
(* append is one step, with the three endings it can have.  ReceiptSpine   *)
(* models what goes on inside an append.                                   *)
(***************************************************************************)
EXTENDS Naturals, Sequences

CONSTANTS
    WriteFaults,  \* how a write may fail: "torn", "unterminated"
    MaxEvents     \* bound on the ledger, for model checking

ASSUME FaultsAssumption == WriteFaults \subseteq {"torn", "unterminated"}

VARIABLES
    trail,    \* the entries that a reader can parse
    tail      \* how the file ends: "clean", or as a failed write left it

Empty == trail = << >> /\ tail = "clean"

\* The line without a newline and what is written after it are one line,
\* which does not parse.
Glued == trail' = SubSeq(trail, 1, Len(trail) - 1) /\ tail' = "torn"

\* The append returns; it raises on a ledger that does not parse.
Emit(e) ==
    /\ Len(trail) < MaxEvents
    /\ \/ tail = "clean" /\ trail' = Append(trail, e) /\ UNCHANGED tail
       \/ tail = "unterminated" /\ Glued

\* It raises: the ledger does not parse or the file takes no byte, or the write
\* fails and leaves nothing readable, or all of the line but its newline.
EmitFails(e) ==
    \/ UNCHANGED <<trail, tail>>
    \/ tail = "clean" /\ "torn" \in WriteFaults /\ tail' = "torn" /\ UNCHANGED trail
    \/ /\ tail = "clean"
       /\ "unterminated" \in WriteFaults
       /\ Len(trail) < MaxEvents
       /\ trail' = Append(trail, e)
       /\ tail' = "unterminated"
    \/ tail = "unterminated" /\ Glued

\* No entry whose append raised stands on the ledger or can still be lost: it
\* ends in a newline, or no write leaves a line without one.
Whole == tail = "clean" \/ WriteFaults \subseteq {"torn"}

LedgerOK(Event) ==
    /\ trail \in Seq(Event)
    /\ tail \in {"clean", "torn"} \cup WriteFaults
=============================================================================
