----------------------------- MODULE ReceiptLog -----------------------------
(***************************************************************************)
(* What the receipt spine promises its callers: one totally ordered log    *)
(* that only grows, and receipts that name a record and its position.      *)
(***************************************************************************)
EXTENDS Naturals, Sequences

CONSTANT Records

VARIABLES
    log,       \* the records, in the order they were pushed
    receipts   \* what the callers were told: record and position

vars == <<log, receipts>>

Init == log = << >> /\ receipts = {}

\* A record is appended; its caller learns of it unless it died meanwhile.
Push(r) ==
    /\ log' = Append(log, r)
    /\ \/ receipts' = receipts \cup {[pos |-> Len(log) + 1, rec |-> r]}
       \/ receipts' = receipts

Next == \E r \in Records : Push(r)

Spec == Init /\ [][Next]_vars
=============================================================================
