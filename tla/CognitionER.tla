----------------------------- MODULE CognitionER -----------------------------
(***************************************************************************)
(* tools/agent-cognition-er: an instance of the entity-relationship model  *)
(* is authored record by record and edge by edge, and validate_er_instance *)
(* refuses the ones that are not auditable by construction.                *)
(***************************************************************************)
EXTENDS Naturals, SequencesExt

CONSTANTS
    Ids,         \* primary keys
    RecordPool,  \* records that are authored
    EdgePool,    \* edges that are authored
    MaxRecords,  \* bounds for model checking
    MaxEdges

VARIABLES
    authored,  \* the records of an instance, block after block
    links,     \* its edges
    found      \* what validate_er_instance said of it last

erVars == <<authored, links, found>>

MemoryScoped ==
    {"OBSERVATION", "GRAPH_ENTITY", "VECTOR_CHUNK", "BELIEF_STATE", "PLAN"}
Entities ==
    MemoryScoped \cup
    {"AGENT", "DECISION_CYCLE", "GRAPH_EDGE", "FAIR_OBJECT", "FAIR_METADATA",
     "PROVENANCE_RECORD", "ACTION", "POLICY_CHECK", "AUDIT_EVENT", "EVIDENCE_BUNDLE",
     "DATASET_VERSION", "MODEL_VERSION"}

\* The edges that every record of their subject must have.
Required ==
    {<<"ACTION", "gated_by", "POLICY_CHECK">>,
     <<"ACTION", "recorded_as", "AUDIT_EVENT">>,
     <<"PROVENANCE_RECORD", "depends_on", "DATASET_VERSION">>,
     <<"PROVENANCE_RECORD", "includes", "MODEL_VERSION">>}

Relations ==
    Required \cup
    {<<"AGENT", "runs", "DECISION_CYCLE">>, <<"AGENT", "maintains", "BELIEF_STATE">>,
     <<"AGENT", "selects", "PLAN">>, <<"AGENT", "emits", "ACTION">>,
     <<"AGENT", "evaluates", "POLICY_CHECK">>,
     <<"DECISION_CYCLE", "consumes", "OBSERVATION">>,
     <<"DECISION_CYCLE", "references", "EVIDENCE_BUNDLE">>,
     <<"OBSERVATION", "about", "GRAPH_ENTITY">>, <<"OBSERVATION", "stored_as", "FAIR_OBJECT">>,
     <<"GRAPH_ENTITY", "linked_by", "GRAPH_EDGE">>,
     <<"GRAPH_ENTITY", "described_by", "FAIR_METADATA">>,
     <<"FAIR_OBJECT", "generated_by", "PROVENANCE_RECORD">>,
     <<"FAIR_OBJECT", "indexed_as", "VECTOR_CHUNK">>,
     <<"ACTION", "causes_updates", "GRAPH_ENTITY">>}

\* keyed: every key field beside the id is there, outcome and reason_code of a
\* POLICY_CHECK among them; scoped: topic_set, span and domain are.
Record == [type : Entities \cup {"no such entity"}, id : Ids, keyed : BOOLEAN, scoped : BOOLEAN]
Related == [from : Ids, by : {r[2] : r \in Relations} \cup {"no such relation"}, to : Ids]

ASSUME PoolsAssumption == RecordPool \subseteq Record /\ EdgePool \subseteq Related

ERInit == authored = << >> /\ links = {} /\ found = "nothing"

-----------------------------------------------------------------------------
(* The author *)

\* A block of records for each entity: a block that was left is not added to.
AddRecord(r) ==
    /\ Len(authored) < MaxRecords
    /\ \A n \in DOMAIN authored : authored[n].type = r.type => n = Len(authored)
                                      \/ authored[Len(authored)].type = r.type
    /\ authored' = Append(authored, r)
    /\ found' = "nothing"
    /\ UNCHANGED links

AddEdge(e) ==
    /\ Cardinality(links) < MaxEdges
    /\ links' = links \cup {e}
    /\ found' = "nothing"
    /\ UNCHANGED authored

-----------------------------------------------------------------------------
(* validate_er_instance *)

RecordOK(r) == r.type \in Entities /\ r.keyed /\ (r.type \in MemoryScoped => r.scoped)

Named == {authored[n].id : n \in DOMAIN authored}

\* id_type and id_record: of records with one id the last.
Holder(id) ==
    authored[CHOOSE n \in DOMAIN authored :
                authored[n].id = id /\ \A k \in DOMAIN authored : authored[k].id = id => k <= n]

\* Mutant: any relation of that name will do.
EdgeOKByName(e) ==
    /\ {e.from, e.to} \subseteq Named
    /\ \E r \in Relations : r[2] = e.by

EdgeOK(e) ==
    /\ {e.from, e.to} \subseteq Named
    /\ <<Holder(e.from).type, e.by, Holder(e.to).type>> \in Relations

\* out_edges of a subject and a predicate: what it leads to is not asked again.
HasRequired(id) ==
    \A r \in Required :
        Holder(id).type = r[1] => \E e \in links : e.from = id /\ e.by = r[2]

\* T6, of the checks that gate an action.
Gated(id) ==
    \A e \in links : e.from = id /\ e.by = "gated_by" => Holder(e.to).keyed

Validate ==
    /\ found = "nothing"
    /\ found' = IF /\ \A r \in ToSet(authored) : RecordOK(r)
                   /\ \A e \in links : EdgeOK(e)
                   /\ \A id \in Named : HasRequired(id)
                   /\ \A id \in Named : Holder(id).type = "ACTION" => Gated(id)
                THEN "valid" ELSE "refused"
    /\ UNCHANGED <<authored, links>>

ERNext ==
    \/ \E r \in RecordPool : AddRecord(r)
    \/ \E e \in EdgePool : AddEdge(e)
    \/ Validate

ERSpec == ERInit /\ [][ERNext]_erVars

-----------------------------------------------------------------------------
(* Properties *)

\* Types of an instance; a block of records is in one piece.
ERTypeOK ==
    /\ authored \in Seq(Record)
    /\ \A i, j, k \in DOMAIN authored :
          i < j /\ j < k /\ authored[i].type = authored[k].type
          => authored[j].type = authored[i].type
    /\ links \subseteq Related
    /\ found \in {"nothing", "valid", "refused"}

\* No later record has the id of record n.
Apparent(n) == \A k \in DOMAIN authored : k > n => authored[k].id # authored[n].id

\* An instance that was let through is auditable: of each action that no later
\* record shadows a typed policy decision and an audit event are at the other
\* end of its edges, of each provenance record a dataset and a model, and these
\* are what the instance says they are.
Auditable ==
    found = "valid" =>
        \A n \in DOMAIN authored : \A r \in Required :
            authored[n].type = r[1] /\ Apparent(n) =>
                \E e \in links, k \in DOMAIN authored :
                    /\ e.from = authored[n].id /\ e.by = r[2] /\ e.to = authored[k].id
                    /\ authored[k].type = r[3] /\ authored[k].keyed
                    /\ Apparent(k)
=============================================================================
