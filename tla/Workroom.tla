------------------------------ MODULE Workroom ------------------------------
(***************************************************************************)
(* The tools that act in a workspace and record what they did by publish:  *)
(* the scout's and the assistant's answers, agent-term's commands and the  *)
(* rooms of the room controller.  A command runs, and a room exists,       *)
(* before the receipt is written; calls interleave, raise and die.         *)
(***************************************************************************)
EXTENDS Ledger, MountAuthority

CONSTANTS
    Calls,      \* calls of the tools
    Rooms,      \* case rooms
    Catalogs,   \* classifications of the sources there may be
    Drafts,     \* what may be right about a draft answer
    Commands,   \* what may be wrong with a command, and the policy it meets
    NoCall      \* not called yet

ASSUME CatalogsAssumption == Catalogs \subseteq [Sources -> Speculative..Unknown]

\* What is right about a draft answer, and what is wrong with a command.
Merits == {"fields", "evidence", "citations", "confident"}
Flaws == {"host target", "too long", "networked"}

Call ==
    [tool : {"scout"}, table : Tables, external : BOOLEAN,
     level : [Sources -> Speculative..Unknown], grounded : BOOLEAN]
        \cup [tool : {"assistant"}, merits : Drafts]
        \cup [tool : {"command"}, command : Commands]
        \cup [tool : {"room"}, room : Rooms]
ASSUME DraftsAssumption == Drafts \subseteq SUBSET Merits
ASSUME CommandsAssumption == Commands \subseteq [flaws : SUBSET Flaws, offline : BOOLEAN]
ASSUME NoCallAssumption == NoCall \notin Call

VARIABLES
    call,    \* call[c]: the arguments of c, and whether the scout had hits
    place,   \* place[c]: how far c has come, or how it ended
    done     \* the calls whose command ran or whose room was ensured

workVars == <<call, place, done, trail, tail>>

Busy == {"retrieving", "acting", "publishing"}
Ended == {"returned", "refused", "raised", "dead"}

Receipt == [by : Calls, level : Levels]

WorkInit ==
    /\ call = [c \in Calls |-> NoCall]
    /\ place = [c \in Calls |-> "uncalled"]
    /\ done = {}
    /\ Empty

Goto(c, p) == place' = [place EXCEPT ![c] = p]

-----------------------------------------------------------------------------
(* The calls *)

Begin(c, args, p) ==
    /\ place[c] = "uncalled"
    /\ call' = [call EXCEPT ![c] = args]
    /\ Goto(c, p)
    /\ UNCHANGED <<done, trail, tail>>

\* scout.answer, which computes the ceiling first and raises on a source that
\* is classified by a name that is not a level.
Ask(c, t, external, level) ==
    Begin(c, [tool |-> "scout", table |-> t, external |-> external,
              level |-> level, grounded |-> FALSE],
          IF \E s \in Mounted(t) : level[s] = Unknown THEN "raised" ELSE "retrieving")

\* The graph is asked only if something is reachable, and has hits or none.
Retrieve(c, hits) ==
    /\ place[c] = "retrieving"
    /\ hits => Reachable(call[c].table) # {}
    /\ call' = [call EXCEPT ![c].grounded = hits]
    /\ Goto(c, "publishing")
    /\ UNCHANGED <<done, trail, tail>>

\* assistant_bot.answer: three gates before the receipt.
Assist(c, merits) ==
    Begin(c, [tool |-> "assistant", merits |-> merits],
          IF merits = Merits THEN "publishing" ELSE "refused")

\* What stops a command: the structural refusal, then the Sentinel's.
Blocked(m) ==
    \/ {"host target", "too long"} \cap m.flaws # {}
    \/ m.offline /\ "networked" \in m.flaws

\* ComputerUseController.run.
Run(c, m) ==
    Begin(c, [tool |-> "command", command |-> m], IF Blocked(m) THEN "refused" ELSE "acting")

\* Mutant: the receipt written first.
ProvisionOnPaper(c, r) == Begin(c, [tool |-> "room", room |-> r], "publishing")

\* provision_case_room.
Provision(c, r) == Begin(c, [tool |-> "room", room |-> r], "acting")

\* The guest runs the command, or the connector ensures the room; either may
\* raise instead.
Act(c) ==
    /\ place[c] = "acting"
    /\ \/ done' = done \cup {c} /\ Goto(c, "publishing")
       \/ UNCHANGED done /\ Goto(c, "raised")
    /\ UNCHANGED <<call, trail, tail>>

\* Mutant: the level of a grounded answer not held under the ceiling.
LevelOfDerived(c) ==
    IF call[c].tool = "scout" /\ ~ call[c].grounded THEN Speculative ELSE Derived

\* The level that a call publishes at.
LevelOf(c) ==
    IF call[c].tool # "scout" THEN Derived
    ELSE IF ~ call[c].grounded THEN Speculative
    ELSE Min({Derived, CeilingOf(call[c].table, call[c].external, call[c].level)})

\* The assistant turns every failure into a refusal of its own.
FailPlace(c) == IF call[c].tool = "assistant" THEN "refused" ELSE "raised"

\* publish, after which the call returns; the ceilings never refuse.
Publish(c) ==
    /\ place[c] = "publishing"
    /\ LET receipt == [by |-> c, level |-> LevelOf(c)]
       IN  \/ Emit(receipt) /\ Goto(c, "returned")
           \/ EmitFails(receipt) /\ Goto(c, FailPlace(c))
    /\ UNCHANGED <<call, done>>

Crash(c) ==
    /\ place[c] \in Busy
    /\ Goto(c, "dead")
    /\ UNCHANGED <<call, done, trail, tail>>

WorkNext ==
    \E c \in Calls :
        \/ \E t \in Tables, external \in BOOLEAN, level \in Catalogs :
              Ask(c, t, external, level)
        \/ \E hits \in BOOLEAN : Retrieve(c, hits)
        \/ \E merits \in Drafts : Assist(c, merits)
        \/ \E m \in Commands : Run(c, m)
        \/ \E r \in Rooms : Provision(c, r)
        \/ Act(c)
        \/ Publish(c)
        \/ Crash(c)

WorkSpec == WorkInit /\ [][WorkNext]_workVars

-----------------------------------------------------------------------------
(* Properties *)

\* Types of the calls and of the ledger.
WorkTypeOK ==
    /\ call \in [Calls -> Call \cup {NoCall}]
    /\ place \in [Calls -> Busy \cup Ended \cup {"uncalled"}]
    /\ done \subseteq Calls
    /\ LedgerOK(Receipt)

Receipts(c) == {n \in DOMAIN trail : trail[n].by = c}

\* The receipt law: what returned has a receipt, and there is at most one of a
\* call and none of what was not done - of a command that did not run, a room
\* that does not exist or an answer that did not pass its gates - wherever calls
\* raise or die between what they do and its receipt.
ReceiptLaw ==
    \A c \in Calls :
        /\ place[c] = "returned" => Receipts(c) # {}
        /\ Cardinality(Receipts(c)) <= 1
        /\ Receipts(c) # {} =>
              /\ call[c].tool \in {"command", "room"} => c \in done
              /\ call[c].tool = "assistant" => call[c].merits = Merits

\* An answer claims no more than each source it was given allows, nothing
\* external claims more than Derived, and nothing above Speculative is said
\* where no source is readable.
AnswersUnderCeiling ==
    \A n \in DOMAIN trail :
        LET c == call[trail[n].by]
            level == trail[n].level
        IN  c.tool = "scout" =>
                /\ \A s \in Mounted(c.table) : level <= c.level[s]
                /\ c.external => level <= Derived
                /\ level > Speculative =>
                      \E e \in c.table.entries : e.caps \cap {"read", "reference"} # {}
=============================================================================
