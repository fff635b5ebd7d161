------------------------------ MODULE JobTasks ------------------------------
(***************************************************************************)
(* A mutation from the tool call to the end of its job: the write tools of *)
(* internal/server/write_tool.go, which resolve their target and start a   *)
(* job on the TrueNAS host, and the MCP Tasks extension of tasks.go, which *)
(* hands the client a task id in place of the job id and answers           *)
(* tasks/get, tasks/update and tasks/cancel out of a registry that forgets.*)
(*                                                                         *)
(* A member of Calls is one invocation of a write tool and names the job   *)
(* it starts: job identifiers of the target are taken never to be reused.  *)
(***************************************************************************)
EXTENDS Integers, FiniteSets

CONSTANTS
  Calls,        \* invocations of write tools
  Synchronous,  \* those of create_snapshot, which starts no job
  Declaring,    \* those whose client declared the tasks extension
  Pollers,      \* clients that use task ids
  Creds,        \* credentials, hence MCP servers
  CredOf,       \* the credential of each call and each poller
  taskTTL,      \* in ticks, one hour in the code
  MaxTime,      \* bound on the clock
  MaxRestarts,  \* bound on the restarts
  None          \* no task, no question

Terminal == {"SUCCESS", "FAILED", "ABORTED"}
Ended == Terminal \cup {"pruned"}
Entry == [call : Calls, created : 0..MaxTime]
Question(ids) ==
  [id : ids, entry : Entry, method : {"get", "cancel"}, over : BOOLEAN, reply : {"pending", "RUNNING"} \cup Ended]

ASSUME TasksAssumption ==
  /\ Synchronous \subseteq Calls /\ Declaring \subseteq Calls
  /\ Calls \cap Pollers = {}
  /\ CredOf \in [Calls \cup Pollers -> Creds]
  /\ taskTTL \in Nat /\ MaxTime \in Nat /\ MaxRestarts \in Nat
  /\ None \notin Nat /\ None \notin Question(Nat)

VARIABLES
  now,       \* the clock
  pc,        \* where each tool call is
  installed, \* the calls whose target app exists on the host
  job,       \* the job of each call, on the host
  aborting,  \* the last core.job_abort of a running job: which, under which credential
  registry,  \* taskRegistry.tasks of each MCP server
  minted,    \* how many task ids were minted
  task,      \* the id of the task made for each call
  createdAt, \* the createdAt a call was answered with
  asked,     \* what each poller is waiting for: a task and the method, whether its
             \* job had ended by then (not in the code), and what the host replied
  told,      \* the last thing a client was told of its task, when, and whether
             \* the job had ended when the client asked
  restarts,  \* how often the server was restarted
  forgotten  \* the calls whose tasks were made before the last restart

serverVars == <<registry, minted, task, createdAt, restarts, forgotten>>
hostVars == <<installed, job, aborting>>
vars == <<now, pc, hostVars, serverVars, asked, told>>

Statuses == {"working", "completed", "failed", "cancelled"}
Refusals == {"unknown", "expired"}

TypeOK ==
  /\ now \in 0..MaxTime
  /\ pc \in [Calls -> {"idle", "resolve", "start", "accepted", "answered", "minted", "done", "failed"}]
  /\ installed \subseteq Calls
  /\ job \in [Calls -> {"none", "RUNNING"} \cup Ended]
  /\ aborting \subseteq [call : Calls, by : Creds]
  /\ \A k \in Creds : DOMAIN registry[k] \subseteq 1..minted /\ \A i \in DOMAIN registry[k] : registry[k][i] \in Entry
  /\ task \in [Calls -> {None} \cup 1..minted]
  /\ createdAt \in [Calls -> 0..MaxTime]
  /\ asked \in [Pollers -> {None} \cup Question(1..minted)]
  /\ told \subseteq [call : Calls, says : Statuses \cup Refusals, at : 0..MaxTime, over : BOOLEAN]
  /\ restarts \in 0..MaxRestarts /\ forgotten \subseteq Calls

Init ==
  /\ now = 0
  /\ pc = [c \in Calls |-> "idle"]
  /\ installed = Calls
  /\ job = [c \in Calls |-> "none"]
  /\ aborting = {}
  /\ registry = [k \in Creds |-> [i \in {} |-> None]]
  /\ minted = 0
  /\ task = [c \in Calls |-> None]
  /\ createdAt = [c \in Calls |-> 0]
  /\ asked = [p \in Pollers |-> None]
  /\ told = {}
  /\ restarts = 0 /\ forgotten = {}

-----------------------------------------------------------------------------
(* The write tool.                                                         *)

Goto(c, where) == pc' = [pc EXCEPT ![c] = where]

\* The argument checks, the denylist and the session; each of them may refuse.
WriteTool(c) ==
  /\ pc[c] = "idle"
  /\ Goto(c, "resolve") \/ Goto(c, "failed")
  /\ UNCHANGED <<now, hostVars, serverVars, asked, told>>

\* app.query for the target's name; a dataset is not looked up.
resolveTarget(c) ==
  /\ pc[c] = "resolve"
  /\ \/ (c \in installed \/ c \in Synchronous) /\ Goto(c, "start")
     \/ c \notin Synchronous /\ Goto(c, "failed")
  /\ UNCHANGED <<now, hostVars, serverVars, asked, told>>

\* The request reaches the host, which starts the job or refuses.
CallJob(c) ==
  /\ pc[c] = "start"
  /\ c \notin Synchronous
  /\ \/ /\ c \in installed
        /\ job' = [job EXCEPT ![c] = "RUNNING"]
        /\ Goto(c, "accepted")
     \/ /\ Goto(c, "failed")
        /\ UNCHANGED job
  /\ UNCHANGED <<now, installed, aborting, serverVars, asked, told>>

CallSynchronous(c) ==
  /\ pc[c] = "start"
  /\ c \in Synchronous
  /\ Goto(c, "done") \/ Goto(c, "failed")
  /\ UNCHANGED <<now, hostVars, serverVars, asked, told>>

\* The job id comes back, or the call ends without it while the job runs on.
JobAnswered(c) ==
  /\ pc[c] = "accepted"
  /\ Goto(c, "answered") \/ Goto(c, "failed")
  /\ UNCHANGED <<now, hostVars, serverVars, asked, told>>

-----------------------------------------------------------------------------
(* The registry.                                                           *)

\* Mutant: one registry for all credentials.
registryOfAll(k) == CHOOSE l \in Creds : TRUE

\* NewMCPServer, one per credential, makes a registry of its own.
registryOf(k) == k

Tasks(k) == registry[registryOf(k)]

\* Mutant: a task at the very end of its time to live is forgotten.
pruneEarly(k) ==
  [i \in {j \in DOMAIN Tasks(k) : Tasks(k)[j].created > now - taskTTL} |-> Tasks(k)[i]]

prune(k) ==
  [i \in {j \in DOMAIN Tasks(k) : Tasks(k)[j].created >= now - taskTTL} |-> Tasks(k)[i]]

\* Mutant: the identifier counts the entries.
newIDCounts(k) == Cardinality(DOMAIN prune(k)) + 1

\* A random identifier, taken never to repeat.
newID(k) == minted + 1

Store(k, tasks) == registry' = [registry EXCEPT ![registryOf(k)] = tasks]

\* The middleware: a result that names a job, for a client that declared the
\* extension, is registered. Another client is given the job id itself.
add(c) ==
  /\ pc[c] = "answered"
  /\ IF c \in Declaring
     THEN LET k == CredOf[c]
              id == newID(k)
              kept == prune(k)
          IN /\ Store(k, [i \in DOMAIN kept \cup {id} |->
                            IF i = id THEN [call |-> c, created |-> now] ELSE kept[i]])
             /\ task' = [task EXCEPT ![c] = id]
             /\ minted' = minted + 1
             /\ Goto(c, "minted")
     ELSE /\ Goto(c, "done")
          /\ UNCHANGED <<registry, task, minted>>
  /\ UNCHANGED <<now, hostVars, createdAt, asked, told, restarts, forgotten>>

\* Its second look into the registry, for the time the task was created; an
\* entry already gone reads as the zero time.
CreateTaskResult(c) ==
  /\ pc[c] = "minted"
  /\ LET found == prune(CredOf[c])
     IN /\ Store(CredOf[c], found)
        /\ createdAt' = [createdAt EXCEPT ![c] =
                           IF task[c] \in DOMAIN found THEN found[task[c]].created ELSE 0]
  /\ Goto(c, "done")
  /\ UNCHANGED <<now, hostVars, minted, task, asked, told, restarts, forgotten>>

-----------------------------------------------------------------------------
(* tasks/get, tasks/update and tasks/cancel on the task of call c.         *)

Tell(c, says, over) == told' = {[call |-> c, says |-> says, at |-> now, over |-> over]}
Over(c) == job[c] \in Ended
Own(p, c) == CredOf[p] = CredOf[c]

lookupTask(p, c, method) ==
  /\ asked[p] = None
  /\ pc[c] = "done" /\ task[c] # None
  /\ LET found == prune(CredOf[p])
     IN /\ Store(CredOf[p], found)
        /\ IF task[c] \in DOMAIN found
           THEN /\ asked' = IF method = "update" THEN asked
                            ELSE [asked EXCEPT ![p] = [id |-> task[c], entry |-> found[task[c]],
                                   method |-> method, over |-> Over(found[task[c]].call), reply |-> "pending"]]
                /\ UNCHANGED told
           ELSE /\ IF Own(p, c) /\ method = "get" THEN Tell(c, "unknown", Over(c)) ELSE UNCHANGED told
                /\ UNCHANGED asked
  /\ UNCHANGED <<now, pc, hostVars, minted, task, createdAt, restarts, forgotten>>

\* External: the host answers core.get_jobs for the job of the entry, which may
\* change before the answer is passed on.
HostReplies(p) ==
  /\ asked[p] # None
  /\ asked[p].method = "get" /\ asked[p].reply = "pending"
  /\ asked' = [asked EXCEPT ![p].reply = job[asked[p].entry.call]]
  /\ UNCHANGED <<now, pc, hostVars, serverVars, told>>

\* Mutant: an aborted job is reported as one that still runs.
describeTaskNotAborted(state) ==
  CASE state = "SUCCESS" -> "completed"
    [] state = "FAILED" -> "failed"
    [] state = "pruned" -> "expired"
    [] OTHER -> "working"

\* What tasks/get says of a job; one the host has forgotten is an error.
describeTask(state) ==
  CASE state = "SUCCESS" -> "completed"
    [] state = "FAILED" -> "failed"
    [] state = "ABORTED" -> "cancelled"
    [] state = "pruned" -> "expired"
    [] OTHER -> "working"

TaskGet(p) ==
  /\ asked[p] # None
  /\ asked[p].method = "get" /\ asked[p].reply # "pending"
  /\ Tell(asked[p].entry.call, describeTask(asked[p].reply), asked[p].over)
  /\ asked' = [asked EXCEPT ![p] = None]
  /\ UNCHANGED <<now, pc, hostVars, serverVars>>

\* The host acts on an abort in its own time, and ignores one that comes too late.
TaskCancel(p) ==
  /\ asked[p] # None
  /\ asked[p].method = "cancel"
  /\ aborting' = IF job[asked[p].entry.call] = "RUNNING"
                 THEN {[call |-> asked[p].entry.call, by |-> CredOf[p]]} ELSE aborting
  /\ asked' = [asked EXCEPT ![p] = None]
  /\ UNCHANGED <<now, pc, installed, job, serverVars, told>>

\* No session, or the call to the host fails: an error that says nothing.
TaskFails(p) ==
  /\ asked[p] # None
  /\ asked' = [asked EXCEPT ![p] = None]
  /\ UNCHANGED <<now, pc, hostVars, serverVars, told>>

-----------------------------------------------------------------------------
(* The host, external, and time.                                           *)

\* Whether or not it was this server that asked for the abort.
JobEnds(c) ==
  /\ job[c] = "RUNNING"
  /\ \E s \in Terminal : job' = [job EXCEPT ![c] = s]
  /\ aborting' = {a \in aborting : a.call # c}
  /\ UNCHANGED <<now, pc, installed, serverVars, asked, told>>

\* The host forgets the job, and when it ended.
JobPruned(c) ==
  /\ job[c] \in Terminal
  /\ job' = [job EXCEPT ![c] = "pruned"]
  /\ UNCHANGED <<now, pc, installed, aborting, serverVars, asked, told>>

\* (After the job has started it makes no difference to this server.)
AppRemoved(c) ==
  /\ c \in installed \ Synchronous /\ pc[c] \in {"idle", "resolve", "start"}
  /\ installed' = installed \ {c}
  /\ UNCHANGED <<now, pc, job, aborting, serverVars, asked, told>>

\* The process ends, with the registry and every request in it, and another one
\* starts. The jobs run on.
Restart ==
  /\ restarts < MaxRestarts
  /\ restarts' = restarts + 1
  /\ pc' = [c \in Calls |-> IF pc[c] \in {"idle", "done"} THEN pc[c] ELSE "failed"]
  /\ registry' = [k \in Creds |-> [i \in {} |-> None]]
  /\ asked' = [p \in Pollers |-> None]
  /\ forgotten' = {c \in Calls : task[c] # None}
  /\ UNCHANGED <<now, hostVars, minted, task, createdAt, told>>

Tick ==
  /\ now < MaxTime
  /\ now' = now + 1
  /\ UNCHANGED <<pc, hostVars, serverVars, asked, told>>

-----------------------------------------------------------------------------
WriteStep(c) ==
  WriteTool(c) \/ resolveTarget(c) \/ CallJob(c) \/ CallSynchronous(c) \/ JobAnswered(c)
  \/ add(c) \/ CreateTaskResult(c)

TaskStep(p) == HostReplies(p) \/ TaskGet(p) \/ TaskCancel(p) \/ TaskFails(p)

Next ==
  \/ \E c \in Calls : WriteStep(c) \/ JobEnds(c) \/ JobPruned(c) \/ AppRemoved(c)
  \/ \E p \in Pollers : TaskStep(p)
  \/ \E p \in Pollers, c \in Calls, m \in {"get", "update", "cancel"} : lookupTask(p, c, m)
  \/ Restart \/ Tick

Spec == Init /\ [][Next]_vars

-----------------------------------------------------------------------------
(* Properties.                                                             *)

\* A task id is handed out for a job that was started, and in the registry it
\* stands for that job or for nothing: whatever other calls were registered
\* and forgotten since.
TaskIsOwnJob ==
  \A c \in Calls : task[c] # None =>
    /\ job[c] # "none" /\ c \in Declaring \ Synchronous
    /\ task[c] \in DOMAIN Tasks(CredOf[c]) => Tasks(CredOf[c])[task[c]].call = c

\* "a task is reachable only under the credential that created it": nobody is
\* about to be told of a job of another credential, or has its abort under way.
OwnTasksOnly ==
  /\ \A p \in Pollers : asked[p] # None => Own(p, asked[p].entry.call)
  /\ \A a \in aborting : a.by = CredOf[a.call]

\* A client is told createdAt and ttlMs: until that time has passed tasks/get
\* knows the task, to the last instant, unless "after a restart a task id is
\* unknown and tasks/get says so". The time runs from the creation, not from
\* the end of the job.
KnownUntilTTL ==
  \A t \in told :
    t.says = "unknown" => t.at > createdAt[t.call] + taskTTL \/ t.call \in forgotten

\* What tasks/get says is true of the client's own job at some moment between
\* the question and the answer, however long the host takes and whatever
\* becomes of the job meanwhile: an end is the end the job came to, a job the
\* target "no longer has" is gone, and whoever asks after the end is not told
\* "working".
ToldTruth ==
  \A t \in told :
    /\ t.says = "completed" => job[t.call] \in {"SUCCESS", "pruned"}
    /\ t.says = "failed" => job[t.call] \in {"FAILED", "pruned"}
    /\ t.says = "cancelled" => job[t.call] \in {"ABORTED", "pruned"}
    /\ t.says = "expired" => job[t.call] = "pruned"
    /\ t.says = "working" => ~t.over
=============================================================================
