------------------------------ MODULE QueryBuild ------------------------------
(***************************************************************************)
(* tools/text-to-sql and tools/self-query: the same question becomes a     *)
(* SELECT over the memories table (build_sql) and a metadata filter over   *)
(* the vector index of the same memories (build_self_query), or is         *)
(* rejected; compile_filter also takes filters that a caller proposes.     *)
(* Years are numbers; year y starts at instant 2y and 2y + 1 is within it. *)
(***************************************************************************)
EXTENDS Naturals, FiniteSets

CONSTANTS
    Years,       \* years that questions mention
    Classes,     \* declared values of memory_class, the enum
    OtherClass,  \* a value it does not declare
    Words,       \* tags, users and search terms
    LimitCap,    \* LIMIT_CAP
    Questions,   \* what is asked
    Proposals,   \* constraints that are proposed
    Misfit,      \* an operand of another type than any operator takes
    NoWord       \* a phrase that the question does not have

ASSUME YearsAssumption == Years \subseteq Nat

VARIABLES
    asked,      \* the question, NoWord when none was asked
    select,     \* build_sql's answer to it: a statement or a rejection
    proposed,   \* the constraints that compile_filter was given
    filter      \* its answer, for a question or for a proposal

queryVars == <<asked, select, proposed, filter>>

Fields == {"memory_class", "tags", "user_id", "created_at"}
Undeclared == "no such field"

\* The columns a statement may group by, of those that differ.
Columns == {"text_content", "memory_class", "created_at"}
Instants == UNION {{2 * y, 2 * y + 1} : y \in Years}

\* What a memory holds under each field: one value, none or, for tags, many; and
\* the search terms that its text has in it.
Memory ==
    [text_content : SUBSET Words,
     memory_class : {{c} : c \in Classes},
     tags : SUBSET Words,
     user_id : {{}} \cup {{w} : w \in Words},
     created_at : {{t} : t \in Instants}]

\* What the patterns of both modules find in a question; named is an explicit
\* "field: value".
Question ==
    [count : BOOLEAN, recall : BOOLEAN, about : Words \cup {NoWord},
     group : Fields \cup Columns \cup {Undeclared, NoWord},
     class : Classes \cup {NoWord},
     after : Years \cup {NoWord}, before : Years \cup {NoWord}, in : Years \cup {NoWord},
     tagged : Words \cup {NoWord}, named : {"user_id", "memory_class", Undeclared, NoWord},
     limit : 0..(LimitCap + 1)]

ASSUME NoWordAssumption ==
    NoWord \notin Years \cup Classes \cup Words /\ NoWord \notin Fields \cup {Undeclared}
ASSUME OtherClassAssumption == OtherClass \notin Classes
ASSUME MisfitAssumption == Misfit \notin Classes \cup Words
ASSUME QuestionsAssumption == Questions \subseteq Question

Rejected(code) == [rejected |-> code]

QueryInit ==
    /\ asked = NoWord /\ proposed = NoWord
    /\ select = Rejected("not asked") /\ filter = Rejected("not asked")

-----------------------------------------------------------------------------
(* build_sql *)

\* The temporal predicates on created_at: "in" counts only without "after".
TimesOf(q) ==
    (IF q.after # NoWord THEN {<<">=", 2 * q.after>>}
     ELSE IF q.in # NoWord THEN {<<">=", 2 * q.in>>, <<"<", 2 * (q.in + 1)>>} ELSE {})
    \cup (IF q.before # NoWord THEN {<<"<", 2 * q.before>>} ELSE {})

\* The statement: its bound values are apart from its text.
Statement(q) ==
    [count |-> q.count \/ q.group # NoWord,
     group |-> q.group,
     class |-> q.class,
     times |-> TimesOf(q),
     like |-> q.about,
     limit |-> q.limit]

\* validate_select, of the statements that build_sql makes: its keywords are
\* read-only and what is left to refuse are columns and the limit.
Validated(s) == s.group \in Columns \cup {NoWord} /\ s.limit \in 1..LimitCap

\* No predicate, no count and no group.
Unbounded(s) ==
    ~ s.count /\ s.class = NoWord /\ s.times = {} /\ s.like = NoWord

BuildSql(q) ==
    IF q.limit \notin 1..LimitCap THEN Rejected("limit-cap")
    ELSE IF q.group \notin Columns \cup {NoWord} THEN Rejected("unknown-column")
    ELSE IF Unbounded(Statement(q)) /\ ~ q.recall THEN Rejected("no-mappable-intent")
    ELSE IF ~ Validated(Statement(q)) THEN Rejected("invalid")
    ELSE Statement(q)

\* The memories a statement ranges over, before count, group and limit.
Selects(s, m) ==
    /\ s.class # NoWord => s.class \in m.memory_class
    /\ \A c \in s.times : \A t \in m.created_at : IF c[1] = "<" THEN t < c[2] ELSE t >= c[2]
    /\ s.like # NoWord => s.like \in m.text_content

-----------------------------------------------------------------------------
(* compile_filter.  A constraint of a field is a function from operators to *)
(* operands; $in and $nin have a set, $exists a Boolean.                    *)

RangeOps == {"$gt", "$gte", "$lt", "$lte"}
SupportedOps == RangeOps \cup {"$eq", "$ne", "$in", "$nin", "$exists"}

Within(t, op, b) ==
    CASE op = "$gt" -> t > b [] op = "$gte" -> t >= b
      [] op = "$lt" -> t < b [] op = "$lte" -> t <= b

\* The operands of $exists are Booleans.  A range of tags has one bound: with
\* two the index looks for one tag within both, and keywords have no range.
ASSUME ProposalsAssumption ==
    \A cs \in Proposals : \A f \in DOMAIN cs :
        /\ "$exists" \in DOMAIN cs[f] => cs[f]["$exists"] \in BOOLEAN
        /\ f = "tags" => \A op1, op2 \in RangeOps \cap DOMAIN cs[f] : op1 = op2

\* _check_type: $in and $nin take lists, the range of a date strings, an enum its
\* declared values.
OperandOK(f, op, v) ==
    /\ op \in {"$in", "$nin"} \/ (f = "created_at" /\ op \in RangeOps) => v # Misfit
    /\ f = "memory_class" =>
          /\ op \in {"$eq", "$ne"} => v \in Classes
          /\ op \in {"$in", "$nin"} => v \subseteq Classes

Accepts(cs) ==
    /\ DOMAIN cs \subseteq Fields
    /\ \A f \in DOMAIN cs : DOMAIN cs[f] \subseteq SupportedOps
    /\ \A f \in DOMAIN cs : \A op \in DOMAIN cs[f] : OperandOK(f, op, cs[f][op])

Match(f, vs) == [on |-> f, match |-> vs]
IsEmpty(f) == [on |-> f, empty |-> TRUE]
Ranges(f, c) == [on |-> f, range |-> {<<op, c[op]>> : op \in DOMAIN c \cap RangeOps}]

\* Mutant: a field that must not hold any of a list put with those that must.
MustAll(f, c) ==
    {Match(f, IF op = "$eq" THEN {c[op]} ELSE c[op]) :
        op \in DOMAIN c \cap {"$eq", "$in", "$nin"}}
    \cup (IF DOMAIN c \cap RangeOps # {} THEN {Ranges(f, c)} ELSE {})
    \cup (IF "$exists" \in DOMAIN c /\ ~ c["$exists"] THEN {IsEmpty(f)} ELSE {})

\* _condition: the conditions of one field, those that must hold and those
\* that must not.  Its ranges make one condition.
Must(f, c) ==
    {Match(f, IF op = "$eq" THEN {c[op]} ELSE c[op]) : op \in DOMAIN c \cap {"$eq", "$in"}}
    \cup (IF DOMAIN c \cap RangeOps # {} THEN {Ranges(f, c)} ELSE {})
    \cup (IF "$exists" \in DOMAIN c /\ ~ c["$exists"] THEN {IsEmpty(f)} ELSE {})

MustNot(f, c) ==
    {Match(f, IF op = "$ne" THEN {c[op]} ELSE c[op]) : op \in DOMAIN c \cap {"$ne", "$nin"}}
    \cup (IF "$exists" \in DOMAIN c /\ c["$exists"] THEN {IsEmpty(f)} ELSE {})

Compile(cs) ==
    IF Accepts(cs)
    THEN [must |-> UNION {Must(f, cs[f]) : f \in DOMAIN cs},
          must_not |-> UNION {MustNot(f, cs[f]) : f \in DOMAIN cs}]
    ELSE Rejected("filter")

\* How the vector index reads a condition.
Holds(c, m) ==
    IF "match" \in DOMAIN c THEN m[c.on] \cap c.match # {}
    ELSE IF "empty" \in DOMAIN c THEN m[c.on] = {}
    ELSE \E t \in m[c.on] : \A b \in c.range : Within(t, b[1], b[2])

Keeps(f, m) ==
    /\ \A c \in f.must : Holds(c, m)
    /\ \A c \in f.must_not : ~ Holds(c, m)

-----------------------------------------------------------------------------
(* build_self_query *)

\* Mutant: "in" a year without its end.
YearsOpen(q) ==
    LET ops == (IF q.after # NoWord \/ q.in # NoWord THEN {"$gte"} ELSE {})
               \cup (IF q.before # NoWord THEN {"$lt"} ELSE {})
    IN  [op \in ops |-> IF op = "$lt" THEN 2 * q.before
                       ELSE IF q.after # NoWord THEN 2 * q.after ELSE 2 * q.in]

\* The range of the date field: "in" counts only without "after", and "before"
\* takes the place of the end of "in".
YearsOf(q) ==
    LET ops == (IF q.after # NoWord THEN {"$gte"}
                ELSE IF q.in # NoWord THEN {"$gte", "$lt"} ELSE {})
               \cup (IF q.before # NoWord THEN {"$lt"} ELSE {})
    IN  [op \in ops |-> IF op = "$gte" THEN 2 * (IF q.after # NoWord THEN q.after ELSE q.in)
                       ELSE IF q.before # NoWord THEN 2 * q.before ELSE 2 * (q.in + 1)]

\* The fields that are constrained.
FieldsOf(q) ==
    (IF DOMAIN YearsOf(q) # {} THEN {"created_at"} ELSE {})
    \cup (IF q.class # NoWord THEN {"memory_class"} ELSE {})
    \cup (IF q.tagged # NoWord THEN {"tags"} ELSE {})
    \cup {f \in {"memory_class", "user_id"} : q.named = f}

\* The user that an explicit mention names.
Named == CHOOSE w \in Words : TRUE

\* What is found first keeps a field: an explicit mention gives a constraint
\* only to a field without one.
ConstraintsOf(q) ==
    [f \in FieldsOf(q) |->
        CASE f = "created_at" -> YearsOf(q)
          [] f = "memory_class" ->
                [op \in {"$eq"} |-> IF q.class # NoWord THEN q.class ELSE OtherClass]
          [] f = "tags" -> [op \in {"$in"} |-> {q.tagged}]
          [] f = "user_id" -> [op \in {"$eq"} |-> Named]]

BuildSelf(q) ==
    IF q.named = Undeclared THEN Rejected("unknown-field")
    ELSE Compile(ConstraintsOf(q))

-----------------------------------------------------------------------------
(* One call is followed: neither constructor keeps anything. *)

BuildBoth(q) ==
    /\ asked' = q
    /\ select' = BuildSql(q)
    /\ filter' = BuildSelf(q)
    /\ UNCHANGED proposed

Propose(cs) ==
    /\ proposed' = cs
    /\ filter' = Compile(cs)
    /\ UNCHANGED <<asked, select>>

QueryNext ==
    /\ asked = NoWord /\ proposed = NoWord
    /\ \/ \E q \in Questions : BuildBoth(q)
       \/ \E cs \in Proposals : Propose(cs)

QuerySpec == QueryInit /\ [][QueryNext]_queryVars

-----------------------------------------------------------------------------
(* Properties *)

\* Types of a call and its answers.  The re-check of a statement never finds
\* anything that the constructor let through.
QueryTypeOK ==
    /\ asked \in Question \cup {NoWord}
    /\ \/ select \in {Rejected(code) : code \in
                         {"not asked", "limit-cap", "unknown-column", "no-mappable-intent"}}
       \/ /\ DOMAIN select = DOMAIN [count |-> 0, group |-> 0, class |-> 0, times |-> 0,
                                    like |-> 0, limit |-> 0]
          /\ select.limit \in 1..LimitCap /\ select.group \in Columns \cup {NoWord}
    /\ filter \in {Rejected(code) : code \in {"not asked", "filter", "unknown-field"}}
       \/ DOMAIN filter = {"must", "must_not"}

\* "before" is later than the end of "in" and takes its place in the filter.
Replaced(q) ==
    q.after = NoWord /\ q.in # NoWord /\ q.before # NoWord /\ q.before > q.in + 1

\* What a question says that its statement alone has: the search term, left to
\* the vectors by the other, and an end of "in" that "before" took the place of.
InStatement(q, m) ==
    /\ q.about # NoWord => q.about \in m.text_content
    /\ Replaced(q) => \A t \in m.created_at : t < 2 * (q.in + 1)

\* And what its filter alone has: the tag and the named user.
InFilter(q, m) ==
    /\ q.tagged # NoWord => q.tagged \in m.tags
    /\ q.named = "user_id" => Named \in m.user_id

\* The two stores are asked for the same memories but for what one of the two
\* languages alone can say: where those parts of the question hold of a memory,
\* the filter keeps it exactly when the statement ranges over it.
StoresAgree ==
    asked # NoWord /\ "limit" \in DOMAIN select /\ "must" \in DOMAIN filter =>
        \A m \in Memory :
            Keeps(filter, m) /\ InStatement(asked, m) <=> Selects(select, m) /\ InFilter(asked, m)

\* What an operator asks of a memory, of a field with several values as well.
Meets(vs, op, v) ==
    CASE op = "$eq" -> v \in vs
      [] op = "$ne" -> v \notin vs
      [] op = "$in" -> \E x \in vs : x \in v
      [] op = "$nin" -> \A x \in vs : x \notin v
      [] op = "$exists" -> v <=> vs # {}
      [] op \in RangeOps -> \E x \in vs : Within(x, op, v)

\* A filter that is accepted keeps exactly the memories that meet every
\* operator of every field that was proposed.
FilterMeansProposal ==
    proposed # NoWord /\ "must" \in DOMAIN filter =>
        \A m \in Memory :
            Keeps(filter, m) <=>
                \A f \in DOMAIN proposed : \A op \in DOMAIN proposed[f] :
                    Meets(m[f], op, proposed[f][op])
=============================================================================
