--------------------------- MODULE MCDriveIngest ---------------------------
(* Small instances of DriveIngest. *)
EXTENDS DriveIngest

CONSTANTS o1, o2, a, b

OneOperator == {o1}
TwoOperators == {o1, o2}
OneContent == {a}
TwoContents == {a, b}
OneFile == {1}
TwoFiles == {1, 2}

\* Contents of one size, and contents that differ in size.
AllSameSize(c) == 1
AllDistinct(c) == c
=============================================================================
