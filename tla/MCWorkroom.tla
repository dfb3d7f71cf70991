----------------------------- MODULE MCWorkroom -----------------------------
(* Small instances of Workroom and MountAuthority. *)
EXTENDS Workroom

CONSTANTS c1, c2, mail, drive, grantor, room1

TwoCalls == {c1, c2}
Symmetry == Permutations(TwoCalls)
TwoSources == {mail, drive}
OneGrantor == {grantor}
OneRoom == {room1}
Torn == {"torn"}

On(source, caps) == [source |-> source, caps |-> caps, by |-> grantor]
Path == <<"org", "team", "case">>

Narrow == [entries |-> {On(mail, {"read"})}, extent |-> SubSeq(Path, 1, 2)]

\* A wide table and what is narrower, wider or not to compare with it.
SomeTables ==
    {[entries |-> {On(mail, {"read"}), On(drive, {"read", "subscribe"})},
      extent |-> SubSeq(Path, 1, 2)],
     Narrow,
     [entries |-> {On(mail, {"read", "reference"})}, extent |-> SubSeq(Path, 1, 2)],
     [entries |-> {On(drive, {"subscribe"})}, extent |-> SubSeq(Path, 1, 1)],
     [entries |-> {On(mail, {"read"})}, extent |-> Path],
     [entries |-> {On(mail, {"read"})}, extent |-> <<"org", "other">>],
     [entries |-> {On(mail, {"read"}), On(mail, {"subscribe"})}, extent |-> Path],
     [entries |-> {[On(mail, {"read"}) EXCEPT !.by = Workspace]}, extent |-> Path],
     [entries |-> {}, extent |-> Path]}

SomeCatalogs ==
    {[s \in Sources |-> IF s = mail THEN Proved ELSE l] :
        l \in {Speculative, Proved, Unknown}}
SomeDrafts == {Merits, Merits \ {"confident"}, {}}
SomeCommands ==
    {[flaws |-> {}, offline |-> TRUE], [flaws |-> {"networked"}, offline |-> FALSE],
     [flaws |-> {"networked"}, offline |-> TRUE], [flaws |-> {"too long"}, offline |-> FALSE],
     [flaws |-> {"host target"}, offline |-> FALSE]}

\* The tools and the changes share nothing but the tables: each is explored
\* with the other at its start.
Init == MountInit /\ WorkInit
Next ==
    \/ WorkInit /\ MountNext /\ UNCHANGED workVars
    \/ reviewed = {Narrow} /\ MountInit /\ WorkNext /\ UNCHANGED mountVars

\* Types of the tools, their ledger and the mount tables.
TypeOK == MountTypeOK /\ WorkTypeOK

Spec == Init /\ [][Next]_<<mountVars, workVars>>
=============================================================================
