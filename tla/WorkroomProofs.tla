---------------------------- MODULE WorkroomProofs ----------------------------
(***************************************************************************)
(* Proofs about mount tables and the tools that act under them, for any    *)
(* sources, tables and callers: what goes through without review never     *)
(* adds up to more than a reviewer has seen in one table, what returns has *)
(* its one receipt, and no answer is published above its ceiling.          *)
(***************************************************************************)
EXTENDS MCWorkroom, TLAPS, FiniteSetTheorems

-----------------------------------------------------------------------------
(* The mount tables *)

\* Within, said of the path of an extent segment by segment.
LEMMA PrefixPointwise ==
    ASSUME NEW S, NEW s \in Seq(S), NEW t \in Seq(S)
    PROVE  IsPrefix(s, t) <=> Len(s) <= Len(t) /\ \A i \in 1..Len(s) : s[i] = t[i]
  <1>1. Len(s) \in Nat /\ Len(t) \in Nat
    OBVIOUS
  <1>2. SubSeq(s, 1, Len(s)) = s
    OBVIOUS
  <1>3. ASSUME Len(s) <= Len(t)
        PROVE  SubSeq(s, 1, Len(s)) = SubSeq(t, 1, Len(s)) <=> \A i \in 1..Len(s) : s[i] = t[i]
    <2>1. SubSeq(t, 1, Len(s)) = [i \in 1..Len(s) |-> t[i]]
      BY <1>1, <1>3
    <2>2. s = [i \in 1..Len(s) |-> s[i]]
      OBVIOUS
    <2> QED  BY <1>2, <2>1, <2>2
  <1> QED  BY <1>3 DEF IsPrefix

\* Within orders the tables.
LEMMA WithinItself ==
    ASSUME NEW t \in Table
    PROVE  Within(t, t)
  BY PrefixPointwise DEF Within, Table

LEMMA WithinTransitive ==
    ASSUME NEW t \in Table, NEW u \in Table, NEW v \in Table, Within(t, u), Within(u, v)
    PROVE  Within(t, v)
  <1>1. \A s \in Sources : CapsOn(t, s) \subseteq CapsOn(v, s)
    BY DEF Within
  <1>2. t.extent \in Seq(Segments) /\ u.extent \in Seq(Segments) /\ v.extent \in Seq(Segments)
    BY DEF Table
  <1>3. IsPrefix(t.extent, u.extent) /\ IsPrefix(u.extent, v.extent)
    BY DEF Within
  <1>4. IsPrefix(t.extent, v.extent)
    <2>1. /\ Len(t.extent) <= Len(u.extent) /\ Len(u.extent) <= Len(v.extent)
          /\ \A i \in 1..Len(t.extent) : t.extent[i] = u.extent[i]
          /\ \A i \in 1..Len(u.extent) : u.extent[i] = v.extent[i]
      BY <1>2, <1>3, PrefixPointwise
    <2>2. Len(t.extent) \in Nat /\ Len(u.extent) \in Nat /\ Len(v.extent) \in Nat
      BY <1>2
    <2>3. /\ Len(t.extent) <= Len(v.extent)
          /\ \A i \in 1..Len(t.extent) : t.extent[i] = v.extent[i]
      BY <2>1, <2>2
    <2> QED  BY <1>2, <2>3, PrefixPointwise
  <1> QED  BY <1>1, <1>4 DEF Within

\* A change that needs no review gives nothing that was not there before.
LEMMA UnreviewedIsWithin ==
    ASSUME NEW prev \in Table, NEW new \in Table, ~ ReviewRequired(prev, new)
    PROVE  Within(new, prev)
  <1>1. Extent(prev.extent, new.extent) \in {"same", "narrower"} /\ Added(prev, new) = {}
    BY DEF ReviewRequired, AuthorityChange, Extent
  <1>2. ASSUME NEW s \in Sources
        PROVE  CapsOn(new, s) \subseteq CapsOn(prev, s)
    <2>1. CASE s \in Mounted(new)
      BY <1>1, <2>1 DEF Added
    <2>2. CASE s \notin Mounted(new)
      <3>1. {f \in new.entries : f.source = s} = {}
        BY <2>2 DEF Mounted
      <3> QED  BY <3>1 DEF CapsOn
    <2> QED  BY <2>1, <2>2
  <1>3. prev.extent \in Seq(Segments) /\ new.extent \in Seq(Segments)
    BY DEF Table
  <1>4. IsPrefix(new.extent, prev.extent)
    <2>1. CASE prev.extent = new.extent
      BY <1>3, <2>1, PrefixPointwise
    <2>2. CASE prev.extent # new.extent
      BY <1>1, <2>2 DEF Extent
    <2> QED  BY <2>1, <2>2
  <1> QED  BY <1>2, <1>4 DEF Within

-----------------------------------------------------------------------------

LEMMA MountTypeStep == MountTypeOK /\ [MountNext]_mountVars => MountTypeOK'
  <1> SUFFICES ASSUME MountTypeOK, [MountNext]_mountVars
               PROVE  MountTypeOK'
    OBVIOUS
  <1> USE DEF MountTypeOK
  <1>1. ASSUME NEW x \in Changers, NEW t \in Tables, Judge(x, t)
        PROVE  MountTypeOK'
    BY <1>1 DEF Judge
  <1>2. ASSUME NEW x \in Changers, judging[x] # NoChange
        PROVE  judging[x].prev \in Tables /\ judging[x].new \in Tables
    BY <1>2
  <1>3. ASSUME NEW x \in Changers, Apply(x)
        PROVE  MountTypeOK'
    BY <1>2, <1>3 DEF Apply
  <1>4. ASSUME NEW x \in Changers, NEW approve \in BOOLEAN, Review(x, approve)
        PROVE  MountTypeOK'
    BY <1>2, <1>4 DEF Review
  <1>5. CASE UNCHANGED mountVars
    BY <1>5 DEF mountVars
  <1> QED  BY <1>1, <1>3, <1>4, <1>5 DEF MountNext

\* The table in force, the reviewed ones and the changes being judged keep
\* their types.
THEOREM MountTypeCorrect == MountSpec => []MountTypeOK
  <1>1. MountInit => MountTypeOK
    BY DEF MountInit, MountTypeOK
  <1> QED  BY <1>1, MountTypeStep, PTL DEF MountSpec

\* A table that a caller of authorize_power_change was given is one that was in
\* force, so what it may shrink to is within a reviewed table as well.
JudgedWithin ==
    \A x \in Changers :
        judging[x] # NoChange => \E u \in reviewed : Within(judging[x].prev, u)

MountInvariant == MountTypeOK /\ WithinReviewed /\ JudgedWithin

LEMMA MountInvariantStep == MountInvariant /\ [MountNext]_mountVars => MountInvariant'
  <1> SUFFICES ASSUME MountInvariant, [MountNext]_mountVars
               PROVE  MountInvariant'
    OBVIOUS
  <1>1. MountTypeOK /\ MountTypeOK'
    BY MountTypeStep DEF MountInvariant
  <1>2. \A t \in Tables : t \in Table
    BY TablesAssumption
  <1>3. ASSUME NEW x \in Changers, NEW t \in Tables, Judge(x, t)
        PROVE  WithinReviewed' /\ JudgedWithin'
    <2>1. \A y \in Changers : judging'[y] # NoChange =>
              judging'[y] = judging[y] \/ judging'[y].prev = mounted
      BY <1>1, <1>3 DEF Judge, MountTypeOK
    <2>2. mounted' = mounted /\ reviewed' = reviewed
      BY <1>3 DEF Judge
    <2> QED  BY <2>1, <2>2 DEF MountInvariant, WithinReviewed, JudgedWithin, Within
  <1>4. ASSUME NEW x \in Changers, Apply(x)
        PROVE  WithinReviewed' /\ JudgedWithin'
    <2>1. judging[x] # NoChange /\ ~ ReviewRequired(judging[x].prev, judging[x].new)
      BY <1>4 DEF Apply
    <2>2. judging[x].prev \in Tables /\ judging[x].new \in Tables
      BY <1>1, <2>1 DEF MountTypeOK
    <2>3. PICK u \in reviewed : Within(judging[x].prev, u)
      BY <2>1 DEF MountInvariant, JudgedWithin
    <2>4. Within(judging[x].new, judging[x].prev)
      BY <1>2, <2>1, <2>2, UnreviewedIsWithin
    <2>5. Within(judging[x].new, u)
      BY <1>1, <1>2, <2>2, <2>3, <2>4, WithinTransitive DEF MountTypeOK
    <2>6. mounted' = judging[x].new /\ reviewed' = reviewed
      BY <1>4 DEF Apply
    <2>7. \A y \in Changers : judging'[y] # NoChange => judging'[y] = judging[y]
      BY <1>1, <1>4 DEF Apply, MountTypeOK
    <2> QED  BY <2>5, <2>6, <2>7 DEF MountInvariant, WithinReviewed, JudgedWithin, Within
  <1>5. ASSUME NEW x \in Changers, NEW approve \in BOOLEAN, Review(x, approve)
        PROVE  WithinReviewed' /\ JudgedWithin'
    <2>1. \A y \in Changers : judging'[y] # NoChange => judging'[y] = judging[y]
      BY <1>1, <1>5 DEF Review, MountTypeOK
    <2>2. reviewed \subseteq reviewed'
      BY <1>5 DEF Review
    <2>3. WithinReviewed'
      <3>1. CASE approve
        <4>1. mounted' \in reviewed' /\ mounted' \in Table
          BY <1>1, <1>2, <1>5, <3>1 DEF Review, MountTypeOK
        <4> QED  BY <4>1, WithinItself DEF WithinReviewed, Within
      <3>2. CASE ~ approve
        <4>1. mounted' = mounted
          BY <1>5, <3>2 DEF Review
        <4> QED  BY <2>2, <4>1 DEF MountInvariant, WithinReviewed, Within
      <3> QED  BY <3>1, <3>2
    <2> QED  BY <2>1, <2>2, <2>3 DEF MountInvariant, JudgedWithin, Within
  <1>6. CASE UNCHANGED mountVars
    BY <1>1, <1>6 DEF mountVars, MountInvariant, WithinReviewed, JudgedWithin, Within
  <1> QED  BY <1>1, <1>3, <1>4, <1>5, <1>6 DEF MountNext, MountInvariant

\* Whatever is judged and applied in whatever order, the table in force stays
\* within one table that a reviewer has seen.
THEOREM NothingUnreviewed == MountSpec => []WithinReviewed
  <1>1. MountInit => MountInvariant
    <2> SUFFICES ASSUME MountInit PROVE MountInvariant
      OBVIOUS
    <2>1. mounted \in Table /\ mounted \in reviewed
      BY TablesAssumption DEF MountInit
    <2> QED  BY <2>1, WithinItself
             DEF MountInit, MountInvariant, MountTypeOK, WithinReviewed, JudgedWithin
  <1>2. MountInvariant => WithinReviewed
    BY DEF MountInvariant
  <1> QED  BY <1>1, <1>2, MountInvariantStep, PTL DEF MountSpec

-----------------------------------------------------------------------------
(* Levels *)

\* The meet of levels is one of them and below each.
LEMMA MinOfLevels ==
    ASSUME NEW S \in SUBSET (0..4), S # {}
    PROVE  Min(S) \in S /\ \A y \in S : Min(S) <= y
  <1>1. \E x \in S : \A y \in S : x <= y
    <2>1. CASE 0 \in S
      BY <2>1
    <2>2. CASE 0 \notin S /\ 1 \in S
      BY <2>2
    <2>3. CASE 0 \notin S /\ 1 \notin S /\ 2 \in S
      BY <2>3
    <2>4. CASE 0 \notin S /\ 1 \notin S /\ 2 \notin S /\ 3 \in S
      BY <2>4
    <2>5. CASE 0 \notin S /\ 1 \notin S /\ 2 \notin S /\ 3 \notin S
      <3>1. \A y \in S : y = 4
        BY <2>5
      <3>2. 4 \in S
        BY <3>1
      <3>3. \A y \in S : 4 <= y
        BY <3>1
      <3> QED  BY <3>2, <3>3
    <2> QED  BY <2>1, <2>2, <2>3, <2>4, <2>5
  <1> QED  BY <1>1 DEF Min

\* A ceiling is a level, and not above the level of a mounted source.
LEMMA CeilingIsMeet ==
    ASSUME NEW t \in Table, NEW external \in BOOLEAN,
           NEW level \in [Sources -> Speculative..Unknown]
    PROVE  LET ceiling == CeilingOf(t, external, level)
           IN  ceiling \in 0..4 /\ \A s \in Mounted(t) : ceiling <= level[s]
  <1> DEFINE S == {level[s] : s \in Mounted(t)}
  <1>1. Mounted(t) \subseteq Sources
    BY DEF Mounted, Table, MountEntry
  <1>2. S \in SUBSET (0..4)
    BY <1>1 DEF Speculative, Unknown
  <1>3. CASE t.entries = {}
    <2>1. Mounted(t) = {}
      BY <1>3 DEF Mounted
    <2> QED  BY <1>3, <2>1 DEF CeilingOf, Speculative, Derived
  <1>4. CASE t.entries # {}
    <2>1. S # {}
      BY <1>4 DEF Mounted
    <2>2. Min(S) \in S /\ \A y \in S : Min(S) <= y
      BY <1>2, <2>1, MinOfLevels
    <2>3. CeilingOf(t, external, level) =
             IF external /\ Min(S) > Derived THEN Derived ELSE Min(S)
      BY <1>4 DEF CeilingOf
    <2> HIDE DEF S
    <2>4. Min(S) \in 0..4 /\ \A s \in Mounted(t) : Min(S) <= level[s] /\ level[s] \in 0..4
      <3>1. \A s \in Mounted(t) : level[s] \in S
        BY DEF S
      <3> QED  BY <1>2, <2>2, <3>1
    <2> QED  BY <2>3, <2>4 DEF Derived
  <1> QED  BY <1>3, <1>4

\* What a call publishes at, and what a level above Speculative rests on.
LEMMA LevelFacts ==
    ASSUME NEW c \in Calls, call[c] \in Call
    PROVE  /\ LevelOf(c) \in {0, 1}
           /\ call[c].tool = "scout" =>
                 /\ \A s \in Mounted(call[c].table) : LevelOf(c) <= call[c].level[s]
                 /\ LevelOf(c) > 0 => call[c].grounded
  <1>1. CASE call[c].tool # "scout"
    BY <1>1 DEF LevelOf, Derived
  <1>2. CASE call[c].tool = "scout"
    <2> DEFINE t == call[c].table
               ceiling == CeilingOf(t, call[c].external, call[c].level)
    <2>1. /\ t \in Table /\ call[c].external \in BOOLEAN
          /\ call[c].level \in [Sources -> Speculative..Unknown]
      BY <1>2, TablesAssumption DEF Call
    <2>2. ceiling \in 0..4 /\ \A s \in Mounted(t) : ceiling <= call[c].level[s]
      BY <2>1, CeilingIsMeet
    <2>3. \A s \in Mounted(t) : call[c].level[s] \in 0..4
      BY <2>1 DEF Mounted, Table, MountEntry, Speculative, Unknown
    <2>4. CASE ~ call[c].grounded
      BY <1>2, <2>3, <2>4 DEF LevelOf, Speculative
    <2>5. CASE call[c].grounded
      <3>1. LevelOf(c) = Min({1, ceiling})
        BY <1>2, <2>5 DEF LevelOf, Derived
      <3> HIDE DEF t, ceiling
      <3>2. /\ Min({1, ceiling}) \in {1, ceiling}
            /\ Min({1, ceiling}) <= 1 /\ Min({1, ceiling}) <= ceiling
        <4>1. {1, ceiling} \in SUBSET (0..4) /\ {1, ceiling} # {}
          BY <2>2
        <4> QED  BY <4>1, MinOfLevels
      <3>3. LevelOf(c) \in {0, 1} /\ LevelOf(c) <= ceiling
        BY <2>2, <3>1, <3>2
      <3> QED  BY <2>2, <2>3, <2>5, <3>3 DEF t
    <2> QED  BY <2>4, <2>5
  <1> QED  BY <1>1, <1>2

-----------------------------------------------------------------------------
(* The invariant of the calls *)

\* What a call has behind it when it publishes.
Earned(c) ==
    /\ call[c] \in Call
    /\ call[c].tool \in {"command", "room"} => c \in done
    /\ call[c].tool = "assistant" => call[c].merits = Merits
    /\ call[c].tool = "scout" /\ call[c].grounded => Reachable(call[c].table) # {}

\* Where a call is tells what it has behind it.
PlacesTell ==
    \A c \in Calls :
        /\ place[c] \in Busy => call[c] \in Call
        /\ place[c] = "retrieving" => call[c].tool = "scout"
        /\ place[c] = "acting" => call[c].tool \in {"command", "room"}
        /\ place[c] = "publishing" => Earned(c)

\* A receipt is of a call that ended, with the level that the call published at.
ReceiptsTell ==
    \A n \in DOMAIN trail :
        LET c == trail[n].by
        IN  place[c] \in Ended /\ Earned(c) /\ trail[n].level = LevelOf(c)

OneReceipt == \A m, n \in DOMAIN trail : trail[m].by = trail[n].by => m = n

\* As long as the ledger is whole.
ReturnedHasReceipt ==
    Whole =>
        \A c \in Calls :
            place[c] = "returned" => \E n \in DOMAIN trail : trail[n].by = c

WorkInvariant ==
    WorkTypeOK /\ PlacesTell /\ ReceiptsTell /\ OneReceipt /\ ReturnedHasReceipt

\* A step of a call that has not ended, and leaves the ledger alone.
Quiet(c) ==
    /\ place[c] \notin Ended /\ place'[c] # "returned"
    /\ trail' = trail /\ tail' = tail
    /\ \A d \in Calls \ {c} :
          place'[d] = place[d] /\ call'[d] = call[d] /\ (d \in done' <=> d \in done)

\* It disturbs no other call and no receipt.
LEMMA QuietStep ==
    ASSUME WorkInvariant, NEW c \in Calls, Quiet(c), WorkTypeOK',
           /\ place'[c] \in Busy => call'[c] \in Call
           /\ place'[c] = "retrieving" => call'[c].tool = "scout"
           /\ place'[c] = "acting" => call'[c].tool \in {"command", "room"}
           /\ place'[c] = "publishing" => Earned(c)'
    PROVE  WorkInvariant'
  <1> USE DEF WorkInvariant
  <1>1. \A d \in Calls \ {c} : (Earned(d)' <=> Earned(d)) /\ LevelOf(d)' = LevelOf(d)
    BY DEF Quiet, Earned, LevelOf
  <1>2. PlacesTell'
    BY <1>1 DEF PlacesTell, Quiet
  <1>3. \A n \in DOMAIN trail : trail[n].by \in Calls \ {c}
    <2>1. \A n \in DOMAIN trail : trail[n] \in Receipt
      BY DEF WorkTypeOK, LedgerOK
    <2> QED  BY <2>1 DEF Receipt, ReceiptsTell, Quiet
  <1>4. ReceiptsTell'
    <2> SUFFICES ASSUME NEW n \in DOMAIN trail
                 PROVE  LET d == trail[n].by
                        IN  place'[d] \in Ended /\ Earned(d)' /\ trail[n].level = LevelOf(d)'
      BY DEF ReceiptsTell, Quiet
    <2> QED  BY <1>1, <1>3 DEF ReceiptsTell, Quiet
  <1>5. OneReceipt' /\ ReturnedHasReceipt'
    BY DEF OneReceipt, ReturnedHasReceipt, Whole, Quiet
  <1> QED  BY <1>2, <1>4, <1>5

-----------------------------------------------------------------------------
(* The steps *)

\* A call begins.
LEMMA BeginStep ==
    ASSUME WorkInvariant, NEW c \in Calls, NEW args \in Call, NEW p, Begin(c, args, p),
           p \in {"raised", "refused", "retrieving", "acting", "publishing"},
           p = "retrieving" => args.tool = "scout",
           p = "acting" => args.tool \in {"command", "room"},
           p = "publishing" => args.tool = "assistant" /\ args.merits = Merits
    PROVE  WorkInvariant'
  <1>1. WorkTypeOK
    BY DEF WorkInvariant
  <1>2. /\ call' = [call EXCEPT ![c] = args] /\ place' = [place EXCEPT ![c] = p]
        /\ done' = done /\ trail' = trail /\ tail' = tail /\ place[c] = "uncalled"
    BY DEF Begin, Goto
  <1>3. call'[c] = args /\ place'[c] = p
    BY <1>1, <1>2 DEF WorkTypeOK
  <1>4. WorkTypeOK'
    BY <1>1, <1>2 DEF WorkTypeOK, LedgerOK, Busy, Ended
  <1>5. Quiet(c)
    BY <1>1, <1>2, <1>3 DEF Quiet, WorkTypeOK, Ended
  <1>6. p = "publishing" => Earned(c)'
    BY <1>3 DEF Earned
  <1> QED  BY <1>3, <1>4, <1>5, <1>6, QuietStep

LEMMA CallsBegin ==
    ASSUME WorkInvariant, NEW c \in Calls,
           \/ \E t \in Tables, external \in BOOLEAN, level \in Catalogs :
                 Ask(c, t, external, level)
           \/ \E merits \in Drafts : Assist(c, merits)
           \/ \E m \in Commands : Run(c, m)
           \/ \E r \in Rooms : Provision(c, r)
    PROVE  WorkInvariant'
  <1>1. ASSUME NEW t \in Tables, NEW external \in BOOLEAN, NEW level \in Catalogs,
               Ask(c, t, external, level)
        PROVE  WorkInvariant'
    <2> DEFINE args == [tool |-> "scout", table |-> t, external |-> external,
                        level |-> level, grounded |-> FALSE]
               p == IF \E s \in Mounted(t) : level[s] = Unknown THEN "raised" ELSE "retrieving"
    <2>1. args \in Call /\ args.tool = "scout"
      BY CatalogsAssumption DEF Call
    <2>2. Begin(c, args, p) /\ p \in {"raised", "retrieving"}
      BY <1>1 DEF Ask
    <2> HIDE DEF args, p
    <2> QED  BY <2>1, <2>2, BeginStep
  <1>2. ASSUME NEW merits \in Drafts, Assist(c, merits)
        PROVE  WorkInvariant'
    <2> DEFINE args == [tool |-> "assistant", merits |-> merits]
               p == IF merits = Merits THEN "publishing" ELSE "refused"
    <2>1. args \in Call /\ args.tool = "assistant" /\ args.merits = merits
      BY DEF Call
    <2>2. /\ Begin(c, args, p) /\ p \in {"publishing", "refused"}
          /\ p = "publishing" => merits = Merits
      BY <1>2 DEF Assist
    <2> HIDE DEF args, p
    <2> QED  BY <2>1, <2>2, BeginStep
  <1>3. ASSUME NEW m \in Commands, Run(c, m)
        PROVE  WorkInvariant'
    <2> DEFINE args == [tool |-> "command", command |-> m]
               p == IF Blocked(m) THEN "refused" ELSE "acting"
    <2>1. args \in Call /\ args.tool = "command"
      BY DEF Call
    <2>2. Begin(c, args, p) /\ p \in {"refused", "acting"}
      BY <1>3 DEF Run
    <2> HIDE DEF args, p
    <2> QED  BY <2>1, <2>2, BeginStep
  <1>4. ASSUME NEW r \in Rooms, Provision(c, r)
        PROVE  WorkInvariant'
    <2> DEFINE args == [tool |-> "room", room |-> r]
    <2>1. args \in Call /\ args.tool = "room"
      BY DEF Call
    <2>2. Begin(c, args, "acting")
      BY <1>4 DEF Provision
    <2> HIDE DEF args
    <2> QED  BY <2>1, <2>2, BeginStep
  <1> QED  BY <1>1, <1>2, <1>3, <1>4

LEMMA RetrieveStep ==
    ASSUME WorkInvariant, NEW c \in Calls, NEW hits \in BOOLEAN, Retrieve(c, hits)
    PROVE  WorkInvariant'
  <1>1. WorkTypeOK /\ PlacesTell
    BY DEF WorkInvariant
  <1>2. /\ call' = [call EXCEPT ![c].grounded = hits]
        /\ place' = [place EXCEPT ![c] = "publishing"] /\ place[c] = "retrieving"
        /\ done' = done /\ trail' = trail /\ tail' = tail
        /\ hits => Reachable(call[c].table) # {}
    BY DEF Retrieve, Goto
  <1>3. call[c] \in Call /\ call[c].tool = "scout"
    BY <1>1, <1>2 DEF PlacesTell, Busy
  <1>4. /\ call'[c] = [call[c] EXCEPT !.grounded = hits]
        /\ \A d \in Calls \ {c} : call'[d] = call[d]
        /\ place'[c] = "publishing"
    BY <1>1, <1>2 DEF WorkTypeOK
  <1>5. /\ call'[c] \in Call /\ call'[c].tool = "scout"
        /\ call'[c].table = call[c].table /\ call'[c].grounded = hits
    BY <1>3, <1>4 DEF Call
  <1>6. WorkTypeOK'
    BY <1>1, <1>2, <1>5 DEF WorkTypeOK, LedgerOK, Busy
  <1>7. Quiet(c)
    BY <1>1, <1>2, <1>4 DEF Quiet, WorkTypeOK, Ended
  <1>8. Earned(c)'
    BY <1>2, <1>5 DEF Earned
  <1> QED  BY <1>4, <1>5, <1>6, <1>7, <1>8, QuietStep

LEMMA ActStep ==
    ASSUME WorkInvariant, NEW c \in Calls, Act(c) \/ Crash(c)
    PROVE  WorkInvariant'
  <1>1. WorkTypeOK /\ PlacesTell
    BY DEF WorkInvariant
  <1>2. /\ call' = call /\ trail' = trail /\ tail' = tail
        /\ place[c] \in Busy
        /\ \/ /\ place[c] = "acting" /\ done' = done \cup {c}
              /\ place' = [place EXCEPT ![c] = "publishing"]
           \/ /\ done' = done
              /\ \E p \in {"raised", "dead"} : place' = [place EXCEPT ![c] = p]
    BY DEF Act, Crash, Goto, Busy
  <1>3. WorkTypeOK'
    BY <1>1, <1>2 DEF WorkTypeOK, LedgerOK, Busy, Ended
  <1>4. Quiet(c)
    BY <1>1, <1>2 DEF Quiet, WorkTypeOK, Busy, Ended
  <1>5. /\ place'[c] \in {"publishing", "raised", "dead"}
        /\ place'[c] = "publishing" => place[c] = "acting" /\ c \in done'
    BY <1>1, <1>2 DEF WorkTypeOK
  <1>6. place'[c] \in Busy => call'[c] \in Call
    BY <1>1, <1>2 DEF PlacesTell
  <1>7. place'[c] = "publishing" => Earned(c)'
    BY <1>1, <1>2, <1>5 DEF PlacesTell, Earned, Busy
  <1> QED  BY <1>3, <1>4, <1>5, <1>6, <1>7, QuietStep

\* A receipt is written, or its write fails, and the call ends.
LEMMA PublishStep ==
    ASSUME WorkInvariant, NEW c \in Calls, Publish(c)
    PROVE  WorkInvariant'
  <1> DEFINE e == [by |-> c, level |-> LevelOf(c)]
  <1>1. WorkTypeOK /\ PlacesTell /\ ReceiptsTell /\ OneReceipt /\ ReturnedHasReceipt
    BY DEF WorkInvariant
  <1>2. /\ call' = call /\ done' = done /\ place[c] = "publishing"
        /\ \/ Emit(e) /\ place' = [place EXCEPT ![c] = "returned"]
           \/ /\ EmitFails(e)
              /\ \E p \in {"refused", "raised"} : place' = [place EXCEPT ![c] = p]
    BY DEF Publish, Goto, FailPlace
  <1>3. Earned(c)
    BY <1>1, <1>2 DEF PlacesTell
  <1>4. e \in Receipt /\ e.by = c /\ e.level = LevelOf(c)
    <2>1. LevelOf(c) \in {0, 1}
      BY <1>3, LevelFacts DEF Earned
    <2> QED  BY <2>1 DEF Receipt, Levels, Speculative, Proved
  <1> HIDE DEF e
  <1>5. /\ place'[c] \in Ended
        /\ \A d \in Calls \ {c} : place'[d] = place[d]
        /\ place' \in [Calls -> Busy \cup Ended \cup {"uncalled"}]
        /\ place'[c] = "returned" => Emit(e)
    BY <1>1, <1>2 DEF WorkTypeOK, Ended
  <1>6. /\ trail \in Seq(Receipt) /\ \A n \in DOMAIN trail : trail[n] \in Receipt
        /\ tail \in {"clean", "torn"} \cup WriteFaults
    BY <1>1 DEF WorkTypeOK, LedgerOK
  <1>7. /\ trail' \in {trail, Append(trail, e), SubSeq(trail, 1, Len(trail) - 1)}
        /\ tail' \in {"clean", "torn"} \cup WriteFaults
    BY <1>2, <1>6 DEF Emit, EmitFails, Glued
  \* An entry is an old one or the receipt.
  <1>8. ASSUME NEW n \in DOMAIN trail'
        PROVE  \/ n \in DOMAIN trail /\ trail'[n] = trail[n]
               \/ n = Len(trail) + 1 /\ trail'[n] = e
    BY <1>6, <1>7, <1>8
  <1>9. WorkTypeOK'
    <2>1. SubSeq(trail, 1, Len(trail) - 1) \in Seq(Receipt)
      <3>1. \A k \in 1..(Len(trail) - 1) : trail[k] \in Receipt
        BY <1>6
      <3> QED  BY <1>6, <3>1
    <2>2. trail' \in Seq(Receipt)
      BY <1>4, <1>6, <1>7, <2>1
    <2> QED  BY <1>1, <1>2, <1>5, <1>7, <2>2 DEF WorkTypeOK, LedgerOK
  <1>10. \A d \in Calls : (Earned(d)' <=> Earned(d)) /\ LevelOf(d)' = LevelOf(d)
    BY <1>2 DEF Earned, LevelOf
  <1>11. PlacesTell'
    BY <1>1, <1>2, <1>5, <1>10 DEF PlacesTell, Busy, Ended
  <1>12. \A n \in DOMAIN trail : trail[n].by \in Calls \ {c}
    BY <1>1, <1>2, <1>6 DEF Receipt, ReceiptsTell, Ended
  <1>13. ReceiptsTell'
    <2> SUFFICES ASSUME NEW n \in DOMAIN trail'
                 PROVE  (LET d == trail[n].by
                         IN  place[d] \in Ended /\ Earned(d) /\ trail[n].level = LevelOf(d))'
      BY DEF ReceiptsTell
    <2>1. PICK d \in Calls : /\ trail'[n].by = d
                             /\ place'[d] \in Ended /\ Earned(d) /\ trail'[n].level = LevelOf(d)
      <3>1. CASE n \in DOMAIN trail /\ trail'[n] = trail[n]
        BY <1>1, <1>5, <1>12, <3>1 DEF ReceiptsTell
      <3>2. CASE trail'[n] = e
        BY <1>3, <1>4, <1>5, <3>2
      <3> QED  BY <1>8, <3>1, <3>2
    <2> QED  BY <1>10, <2>1
  <1>14. OneReceipt'
    BY <1>1, <1>4, <1>8, <1>12 DEF OneReceipt
  <1>15. ReturnedHasReceipt'
    <2> SUFFICES ASSUME Whole', NEW d \in Calls, place'[d] = "returned"
                 PROVE  \E n \in DOMAIN trail' : trail'[n].by = d
      BY DEF ReturnedHasReceipt
    <2>1. Whole /\ (trail' = trail \/ trail' = Append(trail, e))
      BY <1>2, <1>6 DEF Emit, EmitFails, Glued, Whole
    <2>2. CASE d = c
      <3>1. trail' = Append(trail, e)
        BY <1>5, <1>6, <2>1, <2>2 DEF Emit, Whole
      <3>2. Len(trail) + 1 \in DOMAIN trail' /\ trail'[Len(trail) + 1] = e
        BY <1>4, <1>6, <3>1
      <3> QED  BY <1>4, <2>2, <3>2
    <2>3. CASE d # c
      <3>1. PICK n \in DOMAIN trail : trail[n].by = d
        BY <1>1, <1>5, <2>1, <2>3 DEF ReturnedHasReceipt
      <3>2. n \in DOMAIN trail' /\ trail'[n] = trail[n]
        BY <1>4, <1>6, <2>1
      <3> QED  BY <3>1, <3>2
    <2> QED  BY <2>2, <2>3
  <1> QED  BY <1>9, <1>11, <1>13, <1>14, <1>15 DEF WorkInvariant

LEMMA WorkInvariantStep == WorkInvariant /\ [WorkNext]_workVars => WorkInvariant'
  <1> SUFFICES ASSUME WorkInvariant, [WorkNext]_workVars
               PROVE  WorkInvariant'
    OBVIOUS
  <1>1. CASE UNCHANGED workVars
    BY <1>1 DEF workVars, WorkInvariant, WorkTypeOK, LedgerOK, PlacesTell, ReceiptsTell,
                OneReceipt, ReturnedHasReceipt, Whole, Earned, LevelOf
  <1>2. CASE WorkNext
    BY <1>2, CallsBegin, RetrieveStep, ActStep, PublishStep DEF WorkNext
  <1> QED  BY <1>1, <1>2

LEMMA WorkHolds == WorkSpec => []WorkInvariant
  <1>1. WorkInit => WorkInvariant
    <2> SUFFICES ASSUME WorkInit
                 PROVE  WorkInvariant
      OBVIOUS
    <2>1. trail \in Seq(Receipt) /\ DOMAIN trail = {}
      BY DEF WorkInit, Empty
    <2> QED  BY <2>1 DEF WorkInit, Empty, WorkInvariant, WorkTypeOK, LedgerOK, PlacesTell,
                         ReceiptsTell, OneReceipt, ReturnedHasReceipt, Busy, Ended
  <1> QED  BY <1>1, WorkInvariantStep, PTL DEF WorkSpec

\* The calls and their ledger have their types.
THEOREM WorkTypeCorrect == WorkSpec => []WorkTypeOK
  BY WorkHolds, PTL DEF WorkInvariant

\* No answer is published above what its sources allow, or above Speculative
\* with nothing to read, for any tables, catalogs and ways a write fails.
THEOREM CeilingsHold == WorkSpec => []AnswersUnderCeiling
  <1>1. WorkInvariant => AnswersUnderCeiling
    <2> SUFFICES ASSUME WorkInvariant, NEW n \in DOMAIN trail,
                        call[trail[n].by].tool = "scout"
                 PROVE  LET c == call[trail[n].by]
                            level == trail[n].level
                        IN  /\ \A s \in Mounted(c.table) : level <= c.level[s]
                            /\ c.external => level <= Derived
                            /\ level > Speculative =>
                                  \E f \in c.table.entries : f.caps \cap {"read", "reference"} # {}
      BY DEF AnswersUnderCeiling
    <2> DEFINE d == trail[n].by
    <2>1. d \in Calls
      <3>1. trail \in Seq(Receipt)
        BY DEF WorkInvariant, WorkTypeOK, LedgerOK
      <3>2. trail[n] \in Receipt
        BY <3>1
      <3> QED  BY <3>2 DEF Receipt
    <2>2. Earned(d) /\ trail[n].level = LevelOf(d)
      BY DEF WorkInvariant, ReceiptsTell
    <2>3. /\ LevelOf(d) \in {0, 1}
          /\ \A s \in Mounted(call[d].table) : LevelOf(d) <= call[d].level[s]
          /\ LevelOf(d) > 0 => call[d].grounded
      BY <2>1, <2>2, LevelFacts DEF Earned
    <2>4. call[d].grounded =>
             \E f \in call[d].table.entries : f.caps \cap {"read", "reference"} # {}
      BY <2>2 DEF Earned, Reachable, CapsOn
    <2> QED  BY <2>2, <2>3, <2>4 DEF Derived, Speculative
  <1> QED  BY <1>1, WorkHolds, PTL

\* What the invariant says of the receipts on a whole ledger.
LEMMA LawOfInvariant == WorkInvariant /\ Whole => ReceiptLaw
  <1> SUFFICES ASSUME WorkInvariant, Whole, NEW c \in Calls
               PROVE  /\ place[c] = "returned" => Receipts(c) # {}
                      /\ Cardinality(Receipts(c)) <= 1
                      /\ Receipts(c) # {} =>
                            /\ call[c].tool \in {"command", "room"} => c \in done
                            /\ call[c].tool = "assistant" => call[c].merits = Merits
    BY DEF ReceiptLaw
  <1>1. place[c] = "returned" => Receipts(c) # {}
    BY DEF WorkInvariant, ReturnedHasReceipt, Receipts
  <1>2. Receipts(c) # {} => Earned(c)
    BY DEF WorkInvariant, ReceiptsTell, Receipts
  <1>3. Cardinality(Receipts(c)) <= 1
    <2>1. CASE Receipts(c) = {}
      BY <2>1, FS_EmptySet
    <2>2. CASE Receipts(c) # {}
      <3>1. PICK n \in Receipts(c) : TRUE
        BY <2>2
      <3>2. Receipts(c) = {n}
        BY <3>1 DEF Receipts, WorkInvariant, OneReceipt
      <3>3. Cardinality({n}) = 1
        BY FS_Singleton
      <3> QED  BY <3>2, <3>3
    <2> QED  BY <2>1, <2>2
  <1> QED  BY <1>1, <1>2, <1>3 DEF Earned

\* The receipt law of the acting tools, as long as the ledger ends in a newline,
\* whatever died and however writes fail.
THEOREM WholeReceiptLaw == WorkSpec => [](tail = "clean" => ReceiptLaw)
  <1>1. tail = "clean" => Whole
    BY DEF Whole
  <1> QED  BY <1>1, LawOfInvariant, WorkHolds, PTL

\* And ever after, where a write that fails leaves nothing a reader takes for
\* an entry.
THEOREM ReceiptLawHolds ==
    ASSUME WriteFaults \subseteq {"torn"}
    PROVE  WorkSpec => []ReceiptLaw
  <1>1. Whole
    BY DEF Whole
  <1> QED  BY <1>1, LawOfInvariant, WorkHolds, PTL

-----------------------------------------------------------------------------
(* The tools and the changes side by side *)

\* Side by side with the tools, a change of mounts is what MountNext makes of
\* it, and the tools are what WorkNext makes of them.
LEMMA Parts == Spec => MountSpec /\ WorkSpec
  <1>1. Init => MountInit /\ WorkInit
    BY DEF Init
  <1>2. [Next]_<<mountVars, workVars>> => [MountNext]_mountVars /\ [WorkNext]_workVars
    BY DEF Next
  <1> QED  BY <1>1, <1>2, PTL DEF Spec, MountSpec, WorkSpec

\* The tools, their ledger and the mount tables stay what they are written as.
THEOREM TypeCorrect == Spec => []TypeOK
  <1> QED  BY Parts, MountTypeCorrect, WorkTypeCorrect, PTL DEF TypeOK
=============================================================================
