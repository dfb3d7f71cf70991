--------------------------- MODULE MountAuthority ---------------------------
(***************************************************************************)
(* What a workspace may read and claim: tools/workspace-controller over    *)
(* the mount tables that tools/validate_workspace_mount_table.py accepts,  *)
(* and the changes of the table that the room controller lets through      *)
(* without review.  A change is judged against the table its caller had    *)
(* and applied later, when other changes may have been.                    *)
(***************************************************************************)
EXTENDS Naturals, FiniteSetsExt, SequencesExt

CONSTANTS
    Sources,     \* sourceIds
    Grantors,    \* who may grant a mount
    Workspace,   \* the workspace, which may not
    Segments,    \* what the path of an extent is made of
    Tables,      \* the tables that are proposed
    Changers,    \* callers of authorize_power_change
    NoChange     \* not judging a change

\* LEVELS, by rank, and a name that is not one of them.
Speculative == 0
Derived == 1
Proved == 3
Unknown == 4
Levels == Speculative..Proved

Capabilities == {"read", "reference", "subscribe"}

\* The surface of an entry is left out: nothing here looks at it.
MountEntry ==
    [source : Sources, caps : SUBSET Capabilities, by : Grantors \cup {Workspace}]
Table == [entries : SUBSET MountEntry, extent : Seq(Segments)]

ASSUME TablesAssumption == Tables \subseteq Table
ASSUME WorkspaceAssumption == Workspace \notin Grantors
ASSUME NoChangeAssumption == NoChange \notin [prev : Table, new : Table]

-----------------------------------------------------------------------------
(* Tables *)

\* validate_mount_table: the table is not empty and mounts a source at most
\* once, and no mount is without a capability or granted by the workspace.
ValidTable(t) ==
    /\ t.entries # {}
    /\ \A e, f \in t.entries : e.source = f.source => e = f
    /\ \A e \in t.entries : e.caps # {} /\ e.by # Workspace

Mounted(t) == {e.source : e \in t.entries}

\* The capabilities t gives on s.
CapsOn(t, s) == UNION {e.caps : e \in {f \in t.entries : f.source = s}}

\* The scout's reachable sources.
Reachable(t) == {s \in Sources : CapsOn(t, s) \cap {"read", "reference"} # {}}

\* workspace_ceiling, where every level is known: the meet, which external
\* principals get clamped.
CeilingOf(t, external, level) ==
    LET meet == IF t.entries = {} THEN Speculative ELSE Min({level[s] : s \in Mounted(t)})
    IN  IF external /\ meet > Derived THEN Derived ELSE meet

-----------------------------------------------------------------------------
(* Changes *)

\* _extent_relation; an extent is an URI, so the longer path is the wider.
Extent(prev, new) ==
    IF prev = new THEN "same"
    ELSE IF IsPrefix(prev, new) THEN "wider"
    ELSE IF IsPrefix(new, prev) THEN "narrower"
    ELSE "incomparable"

\* Mutant: only added sources count, not added capabilities.
AddedSources(prev, new) == Mounted(new) \ Mounted(prev)

\* The sources that new adds, or adds a capability on.
Added(prev, new) ==
    (Mounted(new) \ Mounted(prev))
        \cup {s \in Mounted(new) : CapsOn(new, s) \ CapsOn(prev, s) # {}}

AuthorityChange(prev, new) ==
    LET extent == Extent(prev.extent, new.extent)
    IN  IF extent = "incomparable" THEN "ambiguous"
        ELSE IF extent = "wider" \/ Added(prev, new) # {} THEN "expanded"
        ELSE IF extent = "narrower" \/ Mounted(prev) \ Mounted(new) # {} THEN "reduced"
        ELSE "none"

\* review_required.
ReviewRequired(prev, new) == AuthorityChange(prev, new) \in {"expanded", "ambiguous"}

VARIABLES
    mounted,   \* the table in force
    reviewed,  \* the tables that a review has let through
    judging    \* judging[x]: the change of x, judged and not yet applied

mountVars == <<mounted, reviewed, judging>>

MountInit ==
    /\ mounted \in {t \in Tables : ValidTable(t)}
    /\ reviewed = {mounted}
    /\ judging = [x \in Changers |-> NoChange]

\* authorize_power_change, called with the table in force.
Judge(x, t) ==
    /\ judging[x] = NoChange
    /\ ValidTable(t)
    /\ judging' = [judging EXCEPT ![x] = [prev |-> mounted, new |-> t]]
    /\ UNCHANGED <<mounted, reviewed>>

\* Mutant: the verdict assigned instead of its table.
ApplyVerdict(x) ==
    /\ judging[x] # NoChange
    /\ ~ ReviewRequired(judging[x].prev, judging[x].new)
    /\ mounted' = judging[x]
    /\ judging' = [judging EXCEPT ![x] = NoChange]
    /\ UNCHANGED reviewed

\* What callers do with a verdict is not in this repository: the table is applied
\* where it needs no review.
Apply(x) ==
    /\ judging[x] # NoChange
    /\ ~ ReviewRequired(judging[x].prev, judging[x].new)
    /\ mounted' = judging[x].new
    /\ judging' = [judging EXCEPT ![x] = NoChange]
    /\ UNCHANGED reviewed

\* Otherwise a reviewer, who is not in it either, lets the change through or
\* turns it down.
Review(x, approve) ==
    /\ judging[x] # NoChange
    /\ ReviewRequired(judging[x].prev, judging[x].new)
    /\ mounted' = IF approve THEN judging[x].new ELSE mounted
    /\ reviewed' = IF approve THEN reviewed \cup {judging[x].new} ELSE reviewed
    /\ judging' = [judging EXCEPT ![x] = NoChange]

MountNext ==
    \E x \in Changers :
        \/ \E t \in Tables : Judge(x, t)
        \/ Apply(x)
        \/ \E approve \in BOOLEAN : Review(x, approve)

MountSpec == MountInit /\ [][MountNext]_mountVars

-----------------------------------------------------------------------------
(* Properties *)

\* Types of the tables and of the changes being judged.
MountTypeOK ==
    /\ mounted \in Tables
    /\ reviewed \subseteq Tables
    /\ judging \in [Changers -> [prev : Tables, new : Tables] \cup {NoChange}]

\* t gives nothing that u does not give.
Within(t, u) ==
    /\ \A s \in Sources : CapsOn(t, s) \subseteq CapsOn(u, s)
    /\ IsPrefix(t.extent, u.extent)

\* However many changes go through without review, in whatever order they
\* are judged and applied, a table in force gives the bot nothing that one
\* table a reviewer has seen did not give.
WithinReviewed == \E u \in reviewed : Within(mounted, u)
=============================================================================
