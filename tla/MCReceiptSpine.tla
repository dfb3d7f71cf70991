--------------------------- MODULE MCReceiptSpine ---------------------------
(* Small instances of ReceiptSpine. *)
EXTENDS ReceiptSpine, TLC

CONSTANTS p1, p2, r1, r2

ConcurrentPushers == {p1, p2}
OnePusher == {p1}
TwoRecords == {r1, r2}

NoFaults == {"none"}
CleanOrTorn == {"none", "torn"}

\* Pushers and records are interchangeable: no definition names one of them.
Symmetry == Permutations(ConcurrentPushers) \cup Permutations(TwoRecords)
=============================================================================
