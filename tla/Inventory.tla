----------------------------- MODULE Inventory -----------------------------
(***************************************************************************)
(* The inventory tool: collectInventory of internal/server/inventory.go    *)
(* reads every section of the summary concurrently on one session, each    *)
(* with a call that keeps CallContract, and puts together what came back.  *)
(* Some calls are refused, some are lost with the connection, some answers *)
(* do not decode; the reader has to be able to tell what is missing.       *)
(*                                                                         *)
(* A row is its rank among the names of its section.                       *)
(***************************************************************************)
EXTENDS CallContract, Naturals, FiniteSets

CONSTANTS KeyOf,         \* KeyOf[s]: the key of the output section s goes under
          Bounded,       \* the sections that are cut short: datasets
          datasetLimit,  \* 200 in the code
          MaxRows        \* MaxRows[s]: bound on the rows the target holds for s

Sections == Calls
Keys == {KeyOf[s] : s \in Sections}

ASSUME InventoryAssumption ==
  /\ DOMAIN KeyOf = Sections
  /\ Bounded \subseteq Sections
  /\ \A s \in Bounded, t \in Sections : KeyOf[s] = KeyOf[t] => s = t
  /\ datasetLimit \in Nat /\ MaxRows \in [Sections -> Nat]

VARIABLES
  tool,   \* where collectInventory is
  reply,  \* what the target answered for each section
  out     \* InventoryOutput

allVars == <<vars, tool, reply, out>>

Replies(s) == [decodes : BOOLEAN, rows : {1..n : n \in 0..MaxRows[s]}]
NoReply == [decodes |-> FALSE, rows |-> {}]
Nothing == [k \in Keys |-> {}]
NoErrors == [k \in {} |-> {}]

InventoryInit ==
  /\ Init
  /\ tool = "idle"
  /\ reply = [s \in Sections |-> NoReply]
  /\ out = [rows |-> Nothing, errors |-> NoErrors, truncated |-> FALSE]

-----------------------------------------------------------------------------
(* The fan-out.                                                            *)

Begin ==
  /\ tool = "idle"
  /\ tool' = "fanout"
  /\ UNCHANGED <<vars, reply, out>>

\* One goroutine per section: its Call, and the outcome it stores.
SectionRuns(s) ==
  /\ tool = "fanout"
  /\ Open(s) \/ Refuse(s) \/ Answer(s) \/ GiveUp(s)
  /\ UNCHANGED <<tool, reply, out>>

\* What the target makes of a call nobody waits for any more is left out: the
\* summary cannot depend on it.
TargetAnswers(s) ==
  /\ status[s] = "open"
  /\ Apply(s)
  /\ IF verdict'[s] = "result"
     THEN \E r \in Replies(s) : (~r.decodes => r.rows = {}) /\ reply' = [reply EXCEPT ![s] = r]
     ELSE UNCHANGED reply
  /\ UNCHANGED <<tool, out>>

\* The session of this credential is replaced, or the server shuts down.
ClientCloses ==
  /\ ~closed
  /\ Close
  /\ UNCHANGED <<tool, reply, out>>

-----------------------------------------------------------------------------
(* Putting the result together.                                            *)

Failing(s) == status[s] # "result" \/ ~reply[s].decodes

\* The rows of a section that are shown: the first of them in name order.
shown(s) ==
  IF s \in Bounded
  THEN {n \in reply[s].rows : Cardinality({m \in reply[s].rows : m < n}) < datasetLimit}
  ELSE reply[s].rows

\* apply, for the sections under one key: the shares are appended to.
apply(k) == UNION {{s} \X shown(s) : s \in {t \in Sections : KeyOf[t] = k /\ ~Failing(t)}}

\* Mutant: a second failure under a key replaces the first.
failLast ==
  LET failed == {s \in Sections : Failing(s)}
  IN [k \in {KeyOf[s] : s \in failed} |-> {CHOOSE s \in failed : KeyOf[s] = k}]

\* fail, for every section: the failures under one key are joined.
fail ==
  LET failed == {s \in Sections : Failing(s)}
  IN [k \in {KeyOf[s] : s \in failed} |-> {s \in failed : KeyOf[s] = k}]

allFailed == \A s \in Sections : Failing(s)

\* After wg.Wait.
Assemble ==
  /\ tool = "fanout"
  /\ \A s \in Sections : status[s] \notin {"idle", "open"}
  /\ out' = [rows |-> [k \in Keys |-> apply(k)],
             errors |-> fail,
             truncated |-> \E s \in Bounded : ~Failing(s) /\ Cardinality(reply[s].rows) > datasetLimit]
  /\ tool' = IF allFailed THEN "failed" ELSE "returned"
  /\ UNCHANGED <<vars, reply>>

-----------------------------------------------------------------------------
InventoryNext ==
  \/ Begin \/ Assemble \/ ClientCloses
  \/ \E s \in Sections : SectionRuns(s) \/ TargetAnswers(s)

InventorySpec == InventoryInit /\ [][InventoryNext]_allVars

-----------------------------------------------------------------------------
(* Properties.                                                             *)

\* What is shown for a section, and what the target had for it.
ShownOf(s) == {p[2] : p \in {q \in out.rows[KeyOf[s]] : q[1] = s}}

\* An empty list means that there is nothing: whatever is under no key of
\* errors was read whole, or cut short and said to be.
NothingSilentlyMissing ==
  tool = "returned" =>
    \A s \in Sections : KeyOf[s] \notin DOMAIN out.errors =>
      /\ verdict[s] = "result" /\ reply[s].decodes
      /\ ShownOf(s) \subseteq reply[s].rows
      /\ ShownOf(s) # reply[s].rows => out.truncated /\ Cardinality(ShownOf(s)) = datasetLimit

\* "a failure in either is reported under the key the view knows, naming which
\* protocol was refused": every failure is named, none is made up, and what
\* could be read next to it is still shown.
FailuresNamed ==
  tool = "returned" =>
    \A s \in Sections :
      IF Failing(s)
      THEN KeyOf[s] \in DOMAIN out.errors /\ s \in out.errors[KeyOf[s]] /\ ShownOf(s) = {}
      ELSE KeyOf[s] \in DOMAIN out.errors => s \notin out.errors[KeyOf[s]] /\ ShownOf(s) = shown(s)

\* "It fails as a whole only when nothing at all could be read", and then it
\* does: no answer is thrown away, no empty summary passes for one.
FailsOnlyOnNothing ==
  tool \in {"returned", "failed"} =>
    (tool = "returned" <=> \E s \in Sections : status[s] = "result" /\ reply[s].decodes)

\* The three together: whatever subset of the sections fails, and however, the
\* reader of the summary can tell what is missing from it.
SummaryTellsAll == NothingSilentlyMissing /\ FailuresNamed /\ FailsOnlyOnNothing
=============================================================================
