----------------------------- MODULE MCLaborLoop -----------------------------
(* Small instances of LaborLoop and WitnessQuorum. *)
EXTENDS LaborLoop, WitnessQuorum

CONSTANTS r1, r2, photo, survey, w1, w2, k1, k2

TwoRunners == {r1, r2}
TwoIds == {photo, survey}
Torn == {"torn"}

At(id, grade, nulls) ==
    [id |-> id, elsewhere |-> FALSE, artifacts |-> TRUE, grade |-> grade, nulls |-> nulls]
Good == [flaws |-> {}, evidence |-> <<At(photo, 2, FALSE)>>, cited |-> {photo}]

\* A good chain, and chains that fall short of it in their evidence.
SomeChains ==
    {Good,
     [Good EXCEPT !.evidence = <<At(photo, 3, FALSE)>>],
     [Good EXCEPT !.evidence = << >>, !.cited = {}]}

TwoWitnesses == {w1, w2}
TwoKeys == {k1, k2}
Enrol(id, key) == [id |-> id, key |-> key, alg |-> TRUE]

\* Rosters as they should be, and with one id twice, a key that does not load,
\* another algorithm and no witness at all.
SomeRosters ==
    {<<Enrol(w1, k1), Enrol(w2, k2)>>, <<Enrol(w1, k1)>>,
     <<Enrol(w1, k1), Enrol(w1, k2)>>, <<Enrol(w1, k1), Enrol(w2, NotAKey)>>,
     <<Enrol(w1, k1), [Enrol(w2, k2) EXCEPT !.alg = FALSE]>>, << >>}

\* A chain that falls short is not run side by side with another.
Alone ==
    \A r \in Runners :
        chain'[r] \in {NoChain, Good} \/ SumFunction(attempt') = 1

\* The runs and the quorums share nothing: each is explored with the other at
\* its start.
Init == LaborInit /\ QuorumInit
Next ==
    \/ QuorumInit /\ LaborNext /\ Alone /\ UNCHANGED quorumVars
    \/ LaborInit /\ QuorumNext /\ UNCHANGED laborVars

\* Types of the runs, their ledger and the quorums.
TypeOK == LaborTypeOK /\ QuorumTypeOK

Spec == Init /\ [][Next]_<<laborVars, quorumVars>> /\ LaborFairness
=============================================================================
