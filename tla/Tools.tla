------------------------------- MODULE Tools -------------------------------
(***************************************************************************)
(* One call of a tool that NewMCPServer (internal/server/mcp.go) puts on   *)
(* the tool list, from its input to its answer: the concern tools, the     *)
(* discovery tools, the configuration writes, and the reads of a fixed     *)
(* method (system_info, jobs and the live resources). A call checks its    *)
(* input, is given a session, may ask the target what it says of the       *)
(* method, and then has the target run it. Between any two of these steps  *)
(* the connection may die, and the target may come back as another         *)
(* release, whose methods are other ones.                                  *)
(***************************************************************************)
EXTENDS ToolGate, Concerns, FiniteSets

CONSTANTS
  Releases,     \* releases of the target
  Catalogue,    \* the methods of each release: core.get_methods
  MaxArgs,      \* bound on the arguments a caller of a concern tool supplies
  Queries,      \* what search_methods may be asked for: the names that match
  Limits,       \* limits callers give
  searchLimit,  \* 40 in the code
  Lists,        \* the lists the target may answer with
  None          \* no call, nothing run

\* The configuration writes: NFS exports and the ACL of an SMB share are
\* written as SMB shares are.
ConfigWrites ==
  {[Method |-> "sharing.smb.create", NeedsID |-> FALSE, NeedsConfig |-> TRUE],
   [Method |-> "sharing.smb.update", NeedsID |-> TRUE, NeedsConfig |-> TRUE],
   [Method |-> "sharing.smb.delete", NeedsID |-> TRUE, NeedsConfig |-> FALSE],
   [Method |-> "filesystem.setacl", NeedsID |-> FALSE, NeedsConfig |-> TRUE]}

ASSUME ToolsAssumption ==
  /\ \A r \in Releases :
       /\ DOMAIN Catalogue[r] \subseteq Methods /\ IsFiniteSet(DOMAIN Catalogue[r])
       /\ \A m \in DOMAIN Catalogue[r] : Catalogue[r][m] \in MethodInfo
  /\ ReadConcerns \subseteq Op /\ MaxArgs \in Nat
  /\ {op.Method : op \in ConfigWrites} \subseteq Methods
  /\ Limits \subseteq Int /\ searchLimit \in Nat \ {0} /\ Lists \subseteq Seq(Item)

VARIABLES
  release, \* the release the target runs, from when a session is found
  link,    \* the connection of the session the call was given
  call,    \* the input of the call in flight
  stage,   \* how far it is
  asJob,   \* whether the method is to be called as a job, or that nobody knows
  ran,     \* what the target ran for it: under which release, with what, giving what
  result   \* what the caller is told

toolVars == <<release, link, call, stage, asJob, ran, result>>

Input ==
  [tool : {"concern"}, known : {FALSE}]
  \cup [tool : {"concern"}, known : {TRUE}, op : ReadConcerns,
          args : {a \in SUBSET ArgNames : Cardinality(a) <= MaxArgs}, limit : Limits, full : BOOLEAN]
  \cup [tool : {"search_methods"}, query : Queries, limit : Limits]
  \cup [tool : {"describe_method"}, method : Methods]
  \cup [tool : {"call_method"}, method : Methods, params : Params]
  \cup [tool : {"config_write"}, op : ConfigWrites, id : BOOLEAN, params : Params]
  \cup [tool : {"jobs", "job_resource"}, valid : BOOLEAN]
  \cup [tool : {"system_info", "live_resource"}]

\* The tools that look a method up in the catalogue of the target.
LooksUp == {"search_methods", "describe_method", "call_method", "config_write"}
\* The tools that may run any method, or one that changes something.
Gated == {"call_method", "config_write"}

NoResult == [is |-> "nothing"]
Refused == [is |-> "refused"]
Error == [is |-> "error"]

ToolsInit ==
  /\ release = None
  /\ link = "none"
  /\ call = None
  /\ stage = "idle"
  /\ asJob = "unasked"
  /\ ran = None
  /\ result = NoResult

-----------------------------------------------------------------------------
Tell(r) == result' = r /\ stage' = "answered" /\ link' = "none"

\* "The tool list is the policy": a configuration write exists only with the
\* write tier.
registered(in, writes) == in.tool = "config_write" => writes

\* The objects among the parameters. With none, a method denied in every form
\* is left to CheckDiscoverable.
checkCall(in) == in.params = {} \/ CheckDenied(in.method, At("top", in.params))

\* The configuration, and the options in it.
checkConfigWrite(in) ==
  /\ in.op.NeedsID => in.id
  /\ in.op.NeedsConfig => in.params # {}
  /\ CheckDenied(in.op.Method, At("top", in.params))
  /\ CheckDenied(in.op.Method, At("options", in.params))

jobURI(in) == in.valid

\* What each tool looks at before it asks for a session.
checked(in) ==
  CASE in.tool = "concern" -> in.known /\ Resolve(in.op, in.args)
    [] in.tool = "search_methods" -> in.query # {}
    [] in.tool = "call_method" -> checkCall(in)
    [] in.tool = "config_write" -> checkConfigWrite(in)
    [] in.tool = "job_resource" -> jobURI(in)
    [] OTHER -> TRUE

Invoke(in, writes) ==
  /\ stage = "idle"
  /\ registered(in, writes)
  /\ call' = in
  /\ IF checked(in)
     THEN stage' = "session" /\ UNCHANGED <<result, link>>
     ELSE Tell(Refused)
  /\ UNCHANGED <<release, asJob, ran>>

\* The session of this credential, opened anew if it has to be.
session ==
  /\ stage = "session"
  /\ \/ /\ link' = "up"
        /\ release' \in Releases
        /\ stage' = IF call.tool \in LooksUp THEN "metadata" ELSE "send"
        /\ UNCHANGED result
     \/ Tell(Error) /\ UNCHANGED release
  /\ UNCHANGED <<call, asJob, ran>>

-----------------------------------------------------------------------------
(* core.get_methods, by allMethods or methodMetadata.                      *)

searchMethods(writes) ==
  LET found == call.query \cap DOMAIN Catalogue[release]
      matched == {m \in found : CheckDiscoverable(m, Catalogue[release][m], writes)}
      limit == IF call.limit <= 0 THEN searchLimit ELSE call.limit
  IN \E listed \in SUBSET matched :
       /\ Cardinality(listed) = IF Cardinality(matched) > limit THEN limit ELSE Cardinality(matched)
       /\ Tell([is |-> "methods", listed |-> listed,
                matches |-> IF Cardinality(matched) > limit THEN Cardinality(matched) ELSE 0,
                hidden |-> Cardinality(found \ matched)])
       /\ UNCHANGED asJob

\* describe_method and call_method: the gate, with what the target says.
judged(method, writes) ==
  LET known == method \in DOMAIN Catalogue[release]
      info == Catalogue[release][method]
  IN IF ~known \/ ~CheckDiscoverable(method, info, writes) THEN Tell(Refused) /\ UNCHANGED asJob
     ELSE IF call.tool = "describe_method"
     THEN Tell([is |-> "described", job |-> info.job, readOnly |-> readOnly(info)]) /\ UNCHANGED asJob
     ELSE asJob' = (IF info.job THEN "yes" ELSE "no") /\ stage' = "send" /\ UNCHANGED <<result, link>>

isJobMethod(method) ==
  /\ asJob' = IF method \in DOMAIN Catalogue[release] /\ Catalogue[release][method].job THEN "yes" ELSE "no"
  /\ stage' = "send"
  /\ UNCHANGED <<result, link>>

methodMetadata(writes) ==
  /\ stage = "metadata"
  /\ link = "up"
  /\ CASE call.tool = "search_methods" -> searchMethods(writes)
       [] call.tool = "config_write" -> isJobMethod(call.op.Method)
       [] OTHER -> judged(call.method, writes)
  /\ UNCHANGED <<release, call, ran>>

\* The call fails or its answer does not decode. A configuration write goes on
\* all the same, and takes the method for one that is no job.
metadataFails ==
  /\ stage = "metadata"
  /\ IF call.tool = "config_write"
     THEN asJob' = "unknown" /\ stage' = "send" /\ UNCHANGED <<result, link>>
     ELSE Tell(Error) /\ UNCHANGED asJob
  /\ UNCHANGED <<release, call, ran>>

-----------------------------------------------------------------------------
(* The call itself.                                                        *)

calledMethod == IF call.tool = "config_write" THEN call.op.Method ELSE call.method

\* configParams: an update carries the configuration, a delete does not.
configParams == IF call.op.NeedsID /\ ~call.op.NeedsConfig THEN {} ELSE call.params

calledParams ==
  CASE call.tool = "concern" -> middlewareParams(call.op, call.args, call.limit)
    [] call.tool = "config_write" -> configParams
    [] call.tool = "call_method" -> call.params
    [] OTHER -> {}

\* What the target answers with: external.
Gives ==
  CASE call.tool = "concern" ->
         {[is |-> "object"]} \cup
         {[is |-> "list", list |-> l] : l \in {k \in Lists : calledParams.limit = 0 \/ Len(k) <= calledParams.limit}}
    [] call.tool \in Gated -> {[is |-> IF Catalogue[release][calledMethod].job THEN "id" ELSE "value"]}
    [] OTHER -> {[is |-> "value"], [is |-> "undecodable"]}

Runs == call.tool \in Gated => calledMethod \in DOMAIN Catalogue[release]

\* Mutant: the session is asked for again, and is a new one.
CallAgain ==
  /\ stage = "send"
  /\ call.tool = "jobs" => call.valid
  /\ Runs
  /\ \E g \in Gives : ran' = [release |-> release, params |-> calledParams, gave |-> g]
  /\ stage' = "sent"
  /\ UNCHANGED <<release, link, call, asJob, result>>

\* The request reaches the target, over the connection the call was given, and
\* is run.
Call ==
  /\ stage = "send"
  /\ call.tool = "jobs" => call.valid
  /\ link = "up"
  /\ Runs
  /\ \E g \in Gives : ran' = [release |-> release, params |-> calledParams, gave |-> g]
  /\ stage' = "sent"
  /\ UNCHANGED <<release, link, call, asJob, result>>

\* jobs without an operation it knows, or without the id of the job to show.
jobsRefuses ==
  /\ stage = "send"
  /\ call.tool = "jobs" /\ ~call.valid
  /\ Tell(Refused)
  /\ UNCHANGED <<release, call, asJob, ran>>

\* Mutant: whatever comes back is passed on.
CallJobRaw(gave) == [is |-> "value"]

CallJob(gave) == IF gave.is = "id" THEN [is |-> "job"] ELSE Error

\* The answer of a concern tool: a list is cut to size.
dispatched(gave) ==
  IF gave.is = "list" THEN [is |-> "list", out |-> shape(call.op, gave.list, call.limit, call.full)]
  ELSE [is |-> "value"]

decoded(gave) == IF gave.is = "value" THEN [is |-> "value"] ELSE Error

\* A resource is passed on as it came.
liveResource(gave) == [is |-> "value"]

\* call_method and a configuration write: a job is answered with its id.
called(gave) == IF asJob = "yes" THEN CallJob(gave) ELSE [is |-> "value"]

outcome(gave) ==
  CASE call.tool = "concern" -> dispatched(gave)
    [] call.tool \in Gated -> called(gave)
    [] call.tool = "live_resource" -> liveResource(gave)
    [] OTHER -> decoded(gave)

Answered ==
  /\ stage = "sent"
  /\ link = "up"
  /\ Tell(outcome(ran.gave))
  /\ UNCHANGED <<release, call, asJob, ran>>

\* Refused by the target, lost with the connection, or given up: run or not.
CallFails ==
  /\ stage \in {"send", "sent"}
  /\ Tell(Error)
  /\ UNCHANGED <<release, call, asJob, ran>>

\* The response is written and the handler returns.
Respond ==
  /\ stage = "answered"
  /\ call' = None /\ stage' = "idle" /\ asJob' = "unasked" /\ ran' = None /\ result' = NoResult
  /\ release' = None
  /\ UNCHANGED link

\* External: the connection dies; with it the target may be updated.
TargetRestarts ==
  /\ link = "up"
  /\ release' \in Releases
  /\ link' = "down"
  /\ UNCHANGED <<call, stage, asJob, ran, result>>

ToolStep(writes) ==
  session \/ methodMetadata(writes) \/ metadataFails \/ Call \/ jobsRefuses \/ Answered \/ CallFails \/ Respond
=============================================================================
