--------------------------- MODULE JobTasks_proofs ---------------------------
(***************************************************************************)
(* Proofs about JobTasks for any calls, credentials, clients, time to live *)
(* and clock: a task id stands for its own job, under its own credential,  *)
(* as long as its client was told or until a restart, and what is said of  *)
(* it was so when it was asked for or since.                               *)
(***************************************************************************)
EXTENDS JobTasks, TLAPS

-----------------------------------------------------------------------------
(* The inductive invariant.                                                *)

\* The variables have their types; a registry is a function of the ids.
Types ==
  /\ TypeOK
  /\ minted \in Nat
  /\ DOMAIN registry = Creds

\* How far a tool call has got, and what there is of its job and its task by
\* then.
Progress(c) ==
  /\ pc[c] \in {"accepted", "answered", "minted"} => job[c] # "none" /\ c \notin Synchronous
  /\ pc[c] = "minted" => task[c] # None
  /\ task[c] # None => pc[c] \in {"minted", "done", "failed"} /\ job[c] # "none" /\ c \in Declaring \ Synchronous
  /\ createdAt[c] <= now

\* No two calls share a task.
Distinct(c, d) == task[c] = task[d] /\ task[c] # None => c = d

\* An entry is that of the call it was made for, under its credential.
Registered(k, i) ==
  i \in DOMAIN registry[k] =>
    /\ task[registry[k][i].call] = i
    /\ CredOf[registry[k][i].call] = k
    /\ registry[k][i].created <= now

\* A task that is no longer registered is older than its client was told, or
\* was registered by an earlier process.
Kept(c) ==
  task[c] # None =>
    IF task[c] \in DOMAIN registry[CredOf[c]]
    THEN createdAt[c] <= registry[CredOf[c]][task[c]].created
    ELSE createdAt[c] + taskTTL < now \/ c \in forgotten

\* What a client waits for is a task of its own credential.
Pending(p) ==
  asked[p] # None =>
    /\ Own(p, asked[p].entry.call)
    /\ task[asked[p].entry.call] # None /\ pc[asked[p].entry.call] = "done"

\* What the host has replied is what the job was at some moment since it was
\* asked for, and what it has ended as it remains.
Replied(p) ==
  asked[p] # None =>
    LET c == asked[p].entry.call
        r == asked[p].reply
    IN /\ asked[p].over => job[c] \in Ended
       /\ r = "RUNNING" => ~asked[p].over
       /\ r \in Terminal => job[c] \in {r, "pruned"}
       /\ r = "pruned" => job[c] = "pruned"

\* An abort was asked for under the credential of the job.
Aborts(a) == a \in aborting => a.by = CredOf[a.call]

\* KnownUntilTTL and ToldTruth, of one answer.
Said(t) ==
  /\ pc[t.call] = "done" /\ task[t.call] # None
  /\ t.says = "unknown" => t.at > createdAt[t.call] + taskTTL \/ t.call \in forgotten

Truth(t) ==
  /\ t.says = "completed" => job[t.call] \in {"SUCCESS", "pruned"}
  /\ t.says = "failed" => job[t.call] \in {"FAILED", "pruned"}
  /\ t.says = "cancelled" => job[t.call] \in {"ABORTED", "pruned"}
  /\ t.says = "expired" => job[t.call] = "pruned"
  /\ t.says = "working" => ~t.over

Inv ==
  /\ Types
  /\ \A c \in Calls : Progress(c) /\ Kept(c)
  /\ \A t \in told : Said(t) /\ Truth(t)
  /\ \A c, d \in Calls : Distinct(c, d)
  /\ \A k \in Creds : \A i \in Nat : Registered(k, i)
  /\ \A p \in Pollers : Pending(p) /\ Replied(p)
  /\ \A a \in [call : Calls, by : Creds] : Aborts(a)

\* Nobody has called yet.
LEMMA InitInv == Init => Inv
<1> SUFFICES ASSUME Init PROVE Inv
  OBVIOUS
<1> USE TasksAssumption DEF Init
<1>1. Types
  <2>1. \A k \in Creds : DOMAIN registry[k] = {}
    OBVIOUS
  <2> QED
    BY <2>1 DEF Types, TypeOK, Entry, Ended
<1>2. (\A c \in Calls : Progress(c) /\ Kept(c)) /\ (\A t \in told : Said(t) /\ Truth(t))
  BY DEF Progress, Kept
<1>3. \A c, d \in Calls : Distinct(c, d)
  BY DEF Distinct
<1>4. \A k \in Creds : \A i \in Nat : Registered(k, i)
  BY DEF Registered
<1>5. \A p \in Pollers : Pending(p) /\ Replied(p)
  BY DEF Pending, Replied
<1>6. \A a \in [call : Calls, by : Creds] : Aborts(a)
  BY DEF Aborts
<1> QED
  BY <1>1, <1>2, <1>3, <1>4, <1>5, <1>6 DEF Inv

\* What a poller waits for.
LEMMA AskedOf ==
  ASSUME Inv, NEW q \in Pollers, asked[q] # None
  PROVE  /\ asked[q] \in Question(1..minted) /\ asked[q].entry.call \in Calls
         /\ asked[q].over \in BOOLEAN /\ asked[q].reply \in {"pending", "RUNNING"} \cup Ended
         /\ Pending(q) /\ Replied(q)
<1>1. asked[q] \in Question(1..minted) /\ Pending(q) /\ Replied(q)
  BY DEF Inv, Types, TypeOK
<1> QED
  BY <1>1 DEF Question, Entry

\* What a client was told.
LEMMA ToldOf ==
  ASSUME Inv, NEW t \in told
  PROVE  t.call \in Calls /\ Said(t) /\ Truth(t)
BY DEF Inv, Types, TypeOK

\* Pruning forgets entries that are too old and changes none.
LEMMA Pruned ==
  ASSUME Inv, NEW k \in Creds
  PROVE  /\ DOMAIN prune(k) = {i \in DOMAIN registry[k] : registry[k][i].created >= now - taskTTL}
         /\ \A i \in DOMAIN prune(k) : prune(k)[i] = registry[k][i]
         /\ \A i \in DOMAIN prune(k) : i \in 1..minted /\ prune(k)[i] \in Entry
BY DEF prune, Tasks, registryOf, Inv, Types, TypeOK

\* What is forgotten is too old; what is kept is as it was.
LEMMA Forgets ==
  ASSUME Inv, NEW k \in Creds, Store(k, prune(k))
  PROVE  /\ DOMAIN registry' = Creds
         /\ \A l \in Creds : /\ DOMAIN registry'[l] \subseteq DOMAIN registry[l]
                             /\ \A i \in DOMAIN registry'[l] : registry'[l][i] = registry[l][i]
         /\ \A x \in Calls : task[x] # None =>
              IF task[x] \in DOMAIN registry'[CredOf[x]]
              THEN createdAt[x] <= registry'[CredOf[x]][task[x]].created
              ELSE createdAt[x] + taskTTL < now \/ x \in forgotten
<1>1. registry' = [registry EXCEPT ![k] = prune(k)] /\ DOMAIN registry = Creds
  BY DEF Store, registryOf, Inv, Types
<1>2. /\ DOMAIN registry' = Creds /\ registry'[k] = prune(k)
      /\ \A l \in Creds : l # k => registry'[l] = registry[l]
  BY <1>1
<1>3. \A l \in Creds : /\ DOMAIN registry'[l] \subseteq DOMAIN registry[l]
                       /\ \A i \in DOMAIN registry'[l] : registry'[l][i] = registry[l][i]
  <2>1. ASSUME NEW l \in Creds, l = k
        PROVE  /\ DOMAIN registry'[l] \subseteq DOMAIN registry[l]
               /\ \A i \in DOMAIN registry'[l] : registry'[l][i] = registry[l][i]
    BY <1>2, <2>1, Pruned
  <2> QED
    BY <1>2, <2>1
<1>4. ASSUME NEW x \in Calls, task[x] # None
      PROVE  IF task[x] \in DOMAIN registry'[CredOf[x]]
             THEN createdAt[x] <= registry'[CredOf[x]][task[x]].created
             ELSE createdAt[x] + taskTTL < now \/ x \in forgotten
  <2>1. Kept(x) /\ CredOf[x] \in Creds /\ createdAt[x] \in Nat /\ now \in Nat
    BY TasksAssumption DEF Inv, Types, TypeOK
  <2>2. CASE task[x] \in DOMAIN registry'[CredOf[x]]
    BY <1>3, <1>4, <2>1, <2>2 DEF Kept
  <2>3. CASE task[x] \notin DOMAIN registry[CredOf[x]]
    BY <1>3, <1>4, <2>1, <2>3 DEF Kept
  <2>4. CASE task[x] \in DOMAIN registry[CredOf[x]] \ DOMAIN registry'[CredOf[x]]
    <3>1. CredOf[x] = k
      BY <1>2, <2>1, <2>4
    <3>2. ~(registry[k][task[x]].created >= now - taskTTL)
      BY <1>2, <2>4, <3>1, Pruned
    <3>3. registry[k][task[x]].created \in Nat
      BY <2>4, <3>1 DEF Inv, Types, TypeOK, Entry
    <3> QED
      BY <1>4, <2>1, <2>4, <3>1, <3>2, <3>3, TasksAssumption DEF Kept
  <2> QED
    BY <2>2, <2>3, <2>4
<1> QED
  BY <1>2, <1>3, <1>4

\* The task that is found under an id is that of the call the id was made for.
LEMMA FoundIsOwn ==
  ASSUME Inv, NEW k \in Creds, NEW c \in Calls, task[c] \in DOMAIN registry[k]
  PROVE  registry[k][task[c]].call = c /\ CredOf[c] = k
<1>1. task[c] \in Nat /\ task[c] # None /\ registry[k][task[c]].call \in Calls
  BY TasksAssumption DEF Inv, Types, TypeOK, Entry
<1>2. Registered(k, task[c]) /\ Distinct(registry[k][task[c]].call, c)
  BY <1>1 DEF Inv
<1> QED
  BY <1>1, <1>2 DEF Registered, Distinct

\* What tasks/get says of a job follows what the host has replied.
LEMMA Described ==
  ASSUME NEW r \in {"pending", "RUNNING"} \cup Ended
  PROVE  /\ describeTask(r) \in Statuses \cup {"expired"}
         /\ describeTask(r) = "completed" => r = "SUCCESS"
         /\ describeTask(r) = "failed" => r = "FAILED"
         /\ describeTask(r) = "cancelled" => r = "ABORTED"
         /\ describeTask(r) = "expired" => r = "pruned"
         /\ describeTask(r) = "working" => r \in {"pending", "RUNNING"}
<1>1. CASE r = "SUCCESS"
  BY <1>1 DEF describeTask, Statuses
<1>2. CASE r = "FAILED"
  BY <1>2 DEF describeTask, Statuses
<1>3. CASE r = "ABORTED"
  BY <1>3 DEF describeTask, Statuses
<1>4. CASE r = "pruned"
  BY <1>4 DEF describeTask, Statuses
<1>5. CASE r \in {"pending", "RUNNING"}
  BY <1>5 DEF describeTask, Statuses
<1> QED
  BY <1>1, <1>2, <1>3, <1>4, <1>5 DEF Ended, Terminal

\* A step of a tool call that changes nothing but where it is, before it has a
\* task.
LEMMA WalkInv ==
  ASSUME Inv, NEW c \in Calls, NEW w \in {"resolve", "start", "answered", "done", "failed"},
         pc[c] \notin {"minted", "done", "failed"}, w = "answered" => pc[c] = "accepted", Goto(c, w),
         UNCHANGED <<now, hostVars, serverVars, asked, told>>
  PROVE  Inv'
<1> USE TasksAssumption
<1>a. pc' \in [Calls -> {"idle", "resolve", "start", "accepted", "answered", "minted", "done", "failed"}] /\ \A x \in Calls : pc'[x] = IF x = c THEN w ELSE pc[x]
  BY DEF Inv, Types, TypeOK, Goto
<1>b. UNCHANGED <<now, installed, job, aborting, registry, minted, task, createdAt, restarts, forgotten, asked, told>>
  BY DEF hostVars, serverVars
<1>1. Types'
  BY <1>a, <1>b DEF Inv, Types, TypeOK
<1>2. ASSUME NEW x \in Calls PROVE Progress(x)'
  BY <1>a, <1>b DEF Inv, Progress, Types, TypeOK
<1>3. ASSUME NEW x \in Calls PROVE Kept(x)'
  BY <1>a, <1>b DEF Inv, Kept
<1>4. ASSUME NEW t \in told' PROVE Said(t)'
  BY <1>a, <1>b DEF Inv, Said, Types, TypeOK
<1>5. ASSUME NEW t \in told' PROVE Truth(t)'
  BY <1>a, <1>b DEF Inv, Truth, Types, TypeOK
<1>6. ASSUME NEW x \in Calls, NEW y \in Calls PROVE Distinct(x, y)'
  BY <1>a, <1>b DEF Inv, Distinct
<1>7. ASSUME NEW k \in Creds, NEW i \in Nat PROVE Registered(k, i)'
  BY <1>a, <1>b DEF Inv, Registered, Types, TypeOK, Entry
<1>8. ASSUME NEW q \in Pollers PROVE Pending(q)'
  <2>1. CASE asked[q] = None
    BY <1>a, <1>b, <2>1 DEF Pending
  <2>2. CASE asked[q] # None
    BY <1>a, <1>b, <2>2, AskedOf DEF Pending, Own
  <2> QED
    BY <2>1, <2>2
<1>9. ASSUME NEW a \in [call : Calls, by : Creds] PROVE Aborts(a)'
  BY <1>a, <1>b DEF Inv, Aborts
<1>10. ASSUME NEW q \in Pollers PROVE Replied(q)'
  BY <1>a, <1>b DEF Inv, Replied, Pending, Types, TypeOK, Entry, Terminal, Ended
<1> QED
  BY <1>1, <1>2, <1>3, <1>4, <1>5, <1>6, <1>7, <1>8, <1>9, <1>10 DEF Inv

\* The job of a call is started before anything is said of it.
LEMMA CallJobInv ==
  ASSUME Inv, NEW c \in Calls, CallJob(c)
  PROVE  Inv'
<1> USE TasksAssumption
<1>a. pc[c] = "start" /\ c \notin Synchronous /\ UNCHANGED <<now, installed, aborting, registry, minted, task, createdAt, restarts, forgotten, asked, told>>
  BY DEF CallJob, serverVars
<1>b. /\ pc' \in [Calls -> {"idle", "resolve", "start", "accepted", "answered", "minted", "done", "failed"}] /\ job' \in [Calls -> {"none", "RUNNING"} \cup Ended]
      /\ \A x \in Calls : x # c => pc'[x] = pc[x] /\ job'[x] = job[x]
      /\ (pc'[c] = "accepted" /\ job'[c] = "RUNNING") \/ (pc'[c] = "failed" /\ job'[c] = job[c])
  BY DEF Inv, Types, TypeOK, CallJob, Goto
<1>1. Types'
  BY <1>a, <1>b DEF Inv, Types, TypeOK
<1>2. ASSUME NEW x \in Calls PROVE Progress(x)'
  BY <1>a, <1>b DEF Inv, Progress, Types, TypeOK, Terminal
<1>3. ASSUME NEW x \in Calls PROVE Kept(x)'
  BY <1>a, <1>b DEF Inv, Kept
<1>4. ASSUME NEW t \in told' PROVE Said(t)'
  BY <1>a, <1>b DEF Inv, Said, Types, TypeOK
<1>5. ASSUME NEW t \in told' PROVE Truth(t)'
  <2>1. t.call \in Calls \ {c} /\ Truth(t)
    BY <1>a, ToldOf DEF Said
  <2> QED
    BY <1>b, <2>1 DEF Truth
<1>6. ASSUME NEW x \in Calls, NEW y \in Calls PROVE Distinct(x, y)'
  BY <1>a, <1>b DEF Inv, Distinct
<1>7. ASSUME NEW k \in Creds, NEW i \in Nat PROVE Registered(k, i)'
  BY <1>a, <1>b DEF Inv, Registered, Types, TypeOK, Entry
<1>8. ASSUME NEW q \in Pollers PROVE Pending(q)'
  <2>1. CASE asked[q] = None
    BY <1>a, <1>b, <2>1 DEF Pending
  <2>2. CASE asked[q] # None
    BY <1>a, <1>b, <2>2, AskedOf DEF Pending, Own
  <2> QED
    BY <2>1, <2>2
<1>9. ASSUME NEW a \in [call : Calls, by : Creds] PROVE Aborts(a)'
  BY <1>a, <1>b DEF Inv, Aborts
<1>10. ASSUME NEW q \in Pollers PROVE Replied(q)'
  <2>1. CASE asked[q] = None
    BY <1>a, <2>1 DEF Replied
  <2>2. CASE asked[q] # None
    <3>1. asked[q].entry.call # c
      BY <1>a, <2>2, AskedOf DEF Pending
    <3> QED
      BY <1>a, <1>b, <2>2, <3>1, AskedOf DEF Replied
  <2> QED
    BY <2>1, <2>2
<1> QED
  BY <1>1, <1>2, <1>3, <1>4, <1>5, <1>6, <1>7, <1>8, <1>9, <1>10 DEF Inv

\* A task is registered under an id that nothing else has.
LEMMA addInv ==
  ASSUME Inv, NEW c \in Calls, add(c), c \in Declaring
  PROVE  Inv'
<1> USE TasksAssumption
<1>a. /\ pc[c] = "answered" /\ CredOf[c] \in Creds /\ minted \in Nat /\ task[c] = None
      /\ minted' = minted + 1
      /\ UNCHANGED <<now, installed, job, aborting, createdAt, restarts, forgotten, asked, told>>
  BY TasksAssumption DEF add, hostVars, Inv, Types, Progress
<1>b. pc' \in [Calls -> {"idle", "resolve", "start", "accepted", "answered", "minted", "done", "failed"}] /\ \A x \in Calls : pc'[x] = IF x = c THEN "minted" ELSE pc[x]
  BY DEF Inv, Types, TypeOK, Goto, add
<1>c. /\ task' \in [Calls -> {None} \cup 1..minted']
      /\ \A x \in Calls : task'[x] = IF x = c THEN minted + 1 ELSE task[x]
  <2>1. task' = [task EXCEPT ![c] = minted + 1] /\ task \in [Calls -> {None} \cup 1..minted]
    BY DEF Inv, Types, TypeOK, add, newID
  <2>2. \A x \in Calls : task'[x] = IF x = c THEN minted + 1 ELSE task[x]
    BY <2>1
  <2>3. \A x \in Calls : task'[x] \in {None} \cup 1..minted'
    BY <1>a, <2>1, <2>2
  <2> QED
    BY <2>1, <2>2, <2>3
<1>d. /\ DOMAIN registry' = Creds
      /\ \A l \in Creds : l # CredOf[c] => registry'[l] = registry[l]
      /\ DOMAIN registry'[CredOf[c]] = DOMAIN prune(CredOf[c]) \cup {minted + 1}
      /\ \A i \in DOMAIN registry'[CredOf[c]] :
           registry'[CredOf[c]][i] = IF i = minted + 1 THEN [call |-> c, created |-> now] ELSE prune(CredOf[c])[i]
  BY <1>a DEF add, Store, registryOf, newID, Inv, Types
<1>e. /\ minted + 1 \in DOMAIN registry'[CredOf[c]]
      /\ registry'[CredOf[c]][minted + 1] = [call |-> c, created |-> now]
      /\ \A l \in Creds : \A i \in DOMAIN registry'[l] :
           \/ i = minted + 1 /\ l = CredOf[c]
           \/ i \in DOMAIN registry[l] /\ i \in 1..minted /\ registry'[l][i] = registry[l][i]
  <2>1. ASSUME NEW l \in Creds, l # CredOf[c], NEW i \in DOMAIN registry'[l]
        PROVE  i \in DOMAIN registry[l] /\ i \in 1..minted /\ registry'[l][i] = registry[l][i]
    BY <1>d, <2>1 DEF Inv, Types, TypeOK
  <2>2. minted + 1 \in DOMAIN registry'[CredOf[c]] /\ registry'[CredOf[c]][minted + 1] = [call |-> c, created |-> now]
    BY <1>d
  <2>3. ASSUME NEW l \in Creds, NEW i \in DOMAIN registry'[l]
        PROVE  \/ i = minted + 1 /\ l = CredOf[c]
               \/ i \in DOMAIN registry[l] /\ i \in 1..minted /\ registry'[l][i] = registry[l][i]
    <3>1. CASE l = CredOf[c] /\ i # minted + 1
      <4>1. i \in DOMAIN prune(l) /\ registry'[l][i] = prune(l)[i]
        BY <1>a, <1>d, <3>1
      <4> QED
        BY <4>1, Pruned
    <3>2. CASE l # CredOf[c]
      BY <2>1, <3>2
    <3> QED
      BY <3>1, <3>2
  <2> QED
    BY <2>2, <2>3
<1>1. Types'
  <2>1. [call |-> c, created |-> now] \in Entry
    BY DEF Entry, Inv, Types, TypeOK
  <2>2. \A l \in Creds : DOMAIN registry'[l] \subseteq 1..minted' /\ \A i \in DOMAIN registry'[l] : registry'[l][i] \in Entry
    <3>1. \A l \in Creds : \A i \in DOMAIN registry[l] : registry[l][i] \in Entry
      BY DEF Inv, Types, TypeOK
    <3>2. 1..minted \subseteq 1..minted' /\ minted + 1 \in 1..minted'
      BY <1>a
    <3> QED
      BY <1>a, <1>e, <2>1, <3>1, <3>2
  <2>3. asked' \in [Pollers -> {None} \cup Question(1..minted')]
    <3>1. \A r \in Question(1..minted) :
             r \in Question(1..minted')
      <4>1. 1..minted \subseteq 1..minted'
        BY <1>a
      <4> QED
        BY <4>1 DEF Question
    <3> QED
      BY <1>a, <3>1 DEF Inv, Types, TypeOK
  <2> QED
    BY <1>a, <1>b, <1>c, <1>d, <2>2, <2>3 DEF Inv, Types, TypeOK
<1>2. ASSUME NEW x \in Calls PROVE Progress(x)'
  <2>1. Progress(x)
    BY DEF Inv
  <2>2. CASE x = c
    BY <1>a, <1>b, <1>c, <2>1, <2>2, TasksAssumption DEF Progress
  <2>3. CASE x # c
    BY <1>a, <1>b, <1>c, <2>1, <2>3 DEF Progress
  <2> QED
    BY <2>2, <2>3
<1>3. ASSUME NEW x \in Calls PROVE Kept(x)'
  <2>1. CASE x = c
    BY <1>a, <1>c, <1>e, <2>1 DEF Kept, Inv, Progress
  <2>2. CASE x # c /\ task[x] # None
    <3>1. Kept(x) /\ task'[x] = task[x] /\ task[x] \in 1..minted /\ createdAt'[x] = createdAt[x] /\ CredOf[x] \in Creds
      BY <1>a, <1>c, <2>2, TasksAssumption DEF Inv, Types, TypeOK
    <3>2. CASE task[x] \in DOMAIN registry'[CredOf[x]]
      <4>1. task[x] \in DOMAIN registry[CredOf[x]] /\ registry'[CredOf[x]][task[x]] = registry[CredOf[x]][task[x]]
        BY <1>a, <1>e, <3>1, <3>2
      <4> QED
        BY <2>2, <3>1, <3>2, <4>1 DEF Kept
    <3>3. CASE task[x] \notin DOMAIN registry[CredOf[x]]
      BY <1>a, <1>e, <2>2, <3>1, <3>3 DEF Kept
    <3>4. CASE task[x] \in DOMAIN registry[CredOf[x]] \ DOMAIN registry'[CredOf[x]]
      <4>1. CredOf[x] = CredOf[c] /\ task[x] \notin DOMAIN prune(CredOf[c])
        BY <1>d, <3>1, <3>4
      <4>2. ~(registry[CredOf[x]][task[x]].created >= now - taskTTL)
        BY <1>a, <3>4, <4>1, Pruned
      <4>4. registry[CredOf[x]][task[x]].created \in Nat
        BY <1>a, <3>4, <4>1 DEF Inv, Types, TypeOK, Entry
      <4>3. createdAt[x] \in Nat /\ now \in Nat /\ now' = now
        BY <1>a DEF Inv, Types, TypeOK
      <4> QED
        BY <2>2, <3>1, <3>4, <4>2, <4>3, <4>4, TasksAssumption DEF Kept
    <3> QED
      BY <3>2, <3>3, <3>4
  <2>3. CASE x # c /\ task[x] = None
    BY <1>c, <2>3 DEF Kept
  <2> QED
    BY <2>1, <2>2, <2>3
<1>4. ASSUME NEW t \in told' PROVE Said(t)'
  <2>1. t.call \in Calls /\ Said(t)
    BY <1>a, ToldOf
  <2>2. t.call # c
    BY <1>a, <2>1 DEF Said
  <2> QED
    BY <1>a, <1>b, <1>c, <2>1, <2>2 DEF Said
<1>5. ASSUME NEW t \in told' PROVE Truth(t)'
  BY <1>a DEF Inv, Truth
<1>6. ASSUME NEW x \in Calls, NEW y \in Calls PROVE Distinct(x, y)'
  <2>1. \A z \in Calls : task[z] # minted + 1
    <3>1. task \in [Calls -> {None} \cup 1..minted] /\ None # minted + 1
      BY <1>a DEF Inv, Types, TypeOK
    <3>2. minted + 1 \notin 1..minted
      BY <1>a
    <3> QED
      BY <3>1, <3>2
  <2>2. Distinct(x, y)
    BY DEF Inv
  <2> QED
    BY <1>c, <2>1, <2>2 DEF Distinct
<1>7. ASSUME NEW k \in Creds, NEW i \in Nat PROVE Registered(k, i)'
  <2>1. CASE i = minted + 1 /\ k = CredOf[c]
    BY <1>a, <1>c, <1>e, <2>1 DEF Registered, Inv, Types, TypeOK
  <2>2. CASE i \in DOMAIN registry'[k] /\ ~(i = minted + 1 /\ k = CredOf[c])
    <3>1. i \in DOMAIN registry[k] /\ registry'[k][i] = registry[k][i]
      BY <1>e, <2>2
    <3>2. Registered(k, i) /\ registry[k][i].call \in Calls /\ i # None
      BY <3>1, TasksAssumption DEF Inv, Types, TypeOK, Entry
    <3>3. registry[k][i].call # c
      BY <1>a, <3>1, <3>2 DEF Registered
    <3> QED
      BY <1>a, <1>c, <3>1, <3>2, <3>3 DEF Registered
  <2> QED
    BY <2>1, <2>2 DEF Registered
<1>8. ASSUME NEW q \in Pollers PROVE Pending(q)'
  <2>1. CASE asked[q] = None
    BY <1>a, <2>1 DEF Pending
  <2>2. CASE asked[q] # None
    <3>1. Pending(q) /\ asked[q].entry.call \in Calls
      BY <2>2, AskedOf
    <3> QED
      BY <1>a, <1>b, <1>c, <2>2, <3>1 DEF Pending, Own
  <2> QED
    BY <2>1, <2>2
<1>9. ASSUME NEW a \in [call : Calls, by : Creds] PROVE Aborts(a)'
  BY <1>a DEF Inv, Aborts
<1>10. ASSUME NEW q \in Pollers PROVE Replied(q)'
  BY <1>a DEF Inv, Replied, Pending, Types, TypeOK, Entry, Terminal, Ended
<1> QED
  BY <1>1, <1>2, <1>3, <1>4, <1>5, <1>6, <1>7, <1>8, <1>9, <1>10 DEF Inv

\* The time a client is told is that of the entry, or the zero time when the
\* entry is already too old.
LEMMA CreateTaskResultInv ==
  ASSUME Inv, NEW c \in Calls, CreateTaskResult(c)
  PROVE  Inv'
<1> USE TasksAssumption
<1>a. /\ pc[c] = "minted" /\ CredOf[c] \in Creds /\ Store(CredOf[c], prune(CredOf[c]))
      /\ UNCHANGED <<now, installed, job, aborting, minted, task, restarts, forgotten, asked, told>>
  BY TasksAssumption DEF CreateTaskResult, hostVars
<1>b. pc' \in [Calls -> {"idle", "resolve", "start", "accepted", "answered", "minted", "done", "failed"}] /\ \A x \in Calls : pc'[x] = IF x = c THEN "done" ELSE pc[x]
  BY DEF Inv, Types, TypeOK, Goto, CreateTaskResult
<1>c. /\ DOMAIN registry' = Creds
      /\ \A l \in Creds : /\ DOMAIN registry'[l] \subseteq DOMAIN registry[l]
                          /\ \A i \in DOMAIN registry'[l] : registry'[l][i] = registry[l][i]
  BY <1>a, Forgets
<1>d. LET d == IF task[c] \in DOMAIN registry'[CredOf[c]] THEN registry'[CredOf[c]][task[c]].created ELSE 0
      IN \A x \in Calls : createdAt'[x] = IF x = c THEN d ELSE createdAt[x]
  <2>1. registry'[CredOf[c]] = prune(CredOf[c])
    BY <1>a DEF Store, registryOf, Inv, Types
  <2> QED
    BY <2>1 DEF CreateTaskResult, Inv, Types, TypeOK
<1>1. Types'
  <2>1. \A l \in Creds : DOMAIN registry'[l] \subseteq 1..minted /\ \A i \in DOMAIN registry'[l] : registry'[l][i] \in Entry
    BY <1>c DEF Inv, Types, TypeOK
  <2>2. createdAt' \in [Calls -> 0..MaxTime]
    <3>1. task[c] \in DOMAIN registry'[CredOf[c]] => registry'[CredOf[c]][task[c]].created \in 0..MaxTime
      BY <1>a, <2>1 DEF Entry
    <3>2. DOMAIN createdAt' = Calls /\ createdAt' = [x \in Calls |-> createdAt'[x]]
      BY DEF CreateTaskResult, Inv, Types, TypeOK
    <3>3. \A x \in Calls : createdAt'[x] \in 0..MaxTime
      <4>1. 0 \in 0..MaxTime /\ \A x \in Calls : createdAt[x] \in 0..MaxTime
        BY DEF Inv, Types, TypeOK
      <4> QED
        BY <1>d, <3>1, <4>1
    <3> QED
      BY <3>2, <3>3
  <2> QED
    BY <1>a, <1>b, <1>c, <2>1, <2>2 DEF Inv, Types, TypeOK
<1>2. ASSUME NEW x \in Calls PROVE Progress(x)'
  <2>1. Progress(x)
    BY DEF Inv
  <2>2. createdAt'[x] <= now
    <3>1. CASE x = c /\ task[c] \in DOMAIN registry'[CredOf[c]]
      <4>1. task[c] \in DOMAIN registry[CredOf[c]] /\ createdAt'[c] = registry[CredOf[c]][task[c]].created /\ task[c] \in Nat
        BY <1>a, <1>c, <1>d, <3>1 DEF Inv, Types, TypeOK
      <4> QED
        BY <1>a, <3>1, <4>1 DEF Inv, Registered
    <3>2. CASE ~(x = c /\ task[c] \in DOMAIN registry'[CredOf[c]])
      BY <1>d, <2>1, <3>2 DEF Progress, Inv, Types, TypeOK
    <3> QED
      BY <3>1, <3>2
  <2> QED
    BY <1>a, <1>b, <2>1, <2>2 DEF Progress
<1>3. ASSUME NEW x \in Calls PROVE Kept(x)'
  <2>1. task[x] # None =>
          IF task[x] \in DOMAIN registry'[CredOf[x]]
          THEN createdAt[x] <= registry'[CredOf[x]][task[x]].created
          ELSE createdAt[x] + taskTTL < now \/ x \in forgotten
    BY <1>a, Forgets
  <2>2. CASE x # c
    BY <1>a, <1>d, <2>1, <2>2 DEF Kept
  <2>3. CASE x = c /\ task[c] \in DOMAIN registry'[CredOf[c]]
    <3>1. createdAt'[x] = registry'[CredOf[x]][task[x]].created /\ createdAt'[x] \in Nat
      BY <1>1, <1>d, <2>3 DEF Types, TypeOK
    <3> QED
      BY <1>a, <2>3, <3>1 DEF Kept
  <2>4. CASE x = c /\ task[c] \notin DOMAIN registry'[CredOf[c]]
    <3>1. createdAt'[x] = 0 /\ createdAt[x] \in Nat /\ now \in Nat
      BY <1>d, <2>4 DEF Inv, Types, TypeOK
    <3> QED
      BY <1>a, <2>1, <2>4, <3>1 DEF Kept
  <2> QED
    BY <2>2, <2>3, <2>4
<1>4. ASSUME NEW t \in told' PROVE Said(t)'
  <2>1. t \in told /\ Said(t) /\ t.call \in Calls /\ t.call # c
    BY <1>a DEF Inv, Said, Types, TypeOK
  <2> QED
    BY <1>a, <1>b, <1>d, <2>1 DEF Said
<1>5. ASSUME NEW t \in told' PROVE Truth(t)'
  BY <1>a DEF Inv, Truth
<1>6. ASSUME NEW x \in Calls, NEW y \in Calls PROVE Distinct(x, y)'
  BY <1>a DEF Inv, Distinct
<1>7. ASSUME NEW k \in Creds, NEW i \in Nat PROVE Registered(k, i)'
  BY <1>a, <1>c DEF Inv, Registered
<1>8. ASSUME NEW q \in Pollers PROVE Pending(q)'
  <2>1. CASE asked[q] = None
    BY <1>a, <1>b, <2>1 DEF Pending
  <2>2. CASE asked[q] # None
    BY <1>a, <1>b, <2>2, AskedOf DEF Pending, Own
  <2> QED
    BY <2>1, <2>2
<1>9. ASSUME NEW a \in [call : Calls, by : Creds] PROVE Aborts(a)'
  BY <1>a DEF Inv, Aborts
<1>10. ASSUME NEW q \in Pollers PROVE Replied(q)'
  BY <1>a DEF Inv, Replied, Pending, Types, TypeOK, Entry, Terminal, Ended
<1> QED
  BY <1>1, <1>2, <1>3, <1>4, <1>5, <1>6, <1>7, <1>8, <1>9, <1>10 DEF Inv

\* A task is found in the registry of the poller; one that is its own and is not
\* found has had its time.
LEMMA lookupTaskInv ==
  ASSUME Inv, NEW p \in Pollers, NEW c \in Calls, NEW m \in {"get", "update", "cancel"}, lookupTask(p, c, m)
  PROVE  Inv'
<1> USE TasksAssumption
<1>a. /\ pc[c] = "done" /\ task[c] # None /\ CredOf[p] \in Creds /\ Store(CredOf[p], prune(CredOf[p]))
      /\ UNCHANGED <<now, pc, installed, job, aborting, minted, task, createdAt, restarts, forgotten>>
  BY TasksAssumption DEF lookupTask, hostVars
<1>b. /\ DOMAIN registry' = Creds
      /\ \A l \in Creds : /\ DOMAIN registry'[l] \subseteq DOMAIN registry[l]
                          /\ \A i \in DOMAIN registry'[l] : registry'[l][i] = registry[l][i]
  BY <1>a, Forgets
<1>c. registry'[CredOf[p]] = prune(CredOf[p])
  BY <1>a DEF Store, registryOf, Inv, Types
<1>d. \/ asked' = asked
      \/ /\ task[c] \in DOMAIN registry'[CredOf[p]] /\ m \in {"get", "cancel"}
         /\ asked' = [asked EXCEPT ![p] = [id |-> task[c], entry |-> registry'[CredOf[p]][task[c]], method |-> m,
                         over |-> Over(registry'[CredOf[p]][task[c]].call), reply |-> "pending"]]
  BY <1>c DEF lookupTask
<1>e. \/ told' = told
      \/ /\ task[c] \notin DOMAIN registry'[CredOf[p]] /\ CredOf[p] = CredOf[c]
         /\ told' = {[call |-> c, says |-> "unknown", at |-> now, over |-> Over(c)]}
  BY <1>c DEF lookupTask, Own, Tell
<1>f. ASSUME NEW q \in Pollers, asked'[q] # asked[q]
      PROVE  /\ q = p /\ asked'[q].entry.call = c /\ CredOf[c] = CredOf[p]
             /\ asked'[q].over = Over(c) /\ asked'[q].reply = "pending"
  <2>1. /\ task[c] \in DOMAIN registry'[CredOf[p]]
        /\ asked' = [asked EXCEPT ![p] = [id |-> task[c], entry |-> registry'[CredOf[p]][task[c]], method |-> m,
                        over |-> Over(registry'[CredOf[p]][task[c]].call), reply |-> "pending"]]
    BY <1>d, <1>f
  <2>2. registry'[CredOf[p]][task[c]].call = c /\ CredOf[c] = CredOf[p]
    BY <1>a, <1>b, <2>1, FoundIsOwn
  <2>3. q = p /\ DOMAIN asked = Pollers
    BY <1>f, <2>1 DEF Inv, Types, TypeOK
  <2> QED
    BY <2>1, <2>2, <2>3
<1>1. Types'
  <2>1. \A l \in Creds : DOMAIN registry'[l] \subseteq 1..minted /\ \A i \in DOMAIN registry'[l] : registry'[l][i] \in Entry
    BY <1>b DEF Inv, Types, TypeOK
  <2>2. asked' \in [Pollers -> {None} \cup Question(1..minted)]
    <3> DEFINE e == registry'[CredOf[p]][task[c]]
    <3>1. task[c] \in DOMAIN registry'[CredOf[p]] => task[c] \in 1..minted /\ e \in Entry
      BY <1>a, <2>1
    <3>2. Over(e.call) \in BOOLEAN
      BY DEF Over
    <3>3. task[c] \in DOMAIN registry'[CredOf[p]] /\ m \in {"get", "cancel"} =>
            [id |-> task[c], entry |-> e, method |-> m, over |-> Over(e.call), reply |-> "pending"] \in Question(1..minted)
      BY <3>1, <3>2 DEF Question
    <3>4. asked \in [Pollers -> {None} \cup Question(1..minted)]
      BY DEF Inv, Types, TypeOK
    <3> QED
      BY <1>d, <3>3, <3>4
  <2>3. told' \subseteq [call : Calls, says : Statuses \cup Refusals, at : 0..MaxTime, over : BOOLEAN]
    <3>1. now \in 0..MaxTime /\ told \subseteq [call : Calls, says : Statuses \cup Refusals, at : 0..MaxTime, over : BOOLEAN]
      BY DEF Inv, Types, TypeOK
    <3>2. Over(c) \in BOOLEAN /\ "unknown" \in Refusals
      BY DEF Over, Refusals
    <3> QED
      BY <1>e, <3>1, <3>2
  <2> QED
    BY <1>a, <1>b, <2>1, <2>2, <2>3 DEF Inv, Types, TypeOK
<1>2. ASSUME NEW x \in Calls PROVE Progress(x)'
  BY <1>a DEF Inv, Progress
<1>3. ASSUME NEW x \in Calls PROVE Kept(x)'
  BY <1>a, Forgets DEF Kept
<1>4. ASSUME NEW t \in told' PROVE Said(t)'
  <2>1. CASE t \in told
    BY <1>a, <2>1 DEF Inv, Said
  <2>2. CASE t \notin told
    <3>1. t.call = c /\ t.at = now /\ task[c] \notin DOMAIN registry'[CredOf[c]]
      BY <1>e, <2>2
    <3>2. createdAt[c] + taskTTL < now \/ c \in forgotten
      BY <1>a, <3>1, Forgets
    <3> QED
      BY <1>a, <3>1, <3>2, TasksAssumption DEF Said, Inv, Types, TypeOK
  <2> QED
    BY <2>1, <2>2
<1>5. ASSUME NEW t \in told' PROVE Truth(t)'
  <2>1. t \in told \/ t.says = "unknown"
    BY <1>e
  <2> QED
    BY <1>a, <2>1 DEF Inv, Truth
<1>6. ASSUME NEW x \in Calls, NEW y \in Calls PROVE Distinct(x, y)'
  BY <1>a DEF Inv, Distinct
<1>7. ASSUME NEW k \in Creds, NEW i \in Nat PROVE Registered(k, i)'
  BY <1>a, <1>b DEF Inv, Registered
<1>8. ASSUME NEW q \in Pollers PROVE Pending(q)'
  <2>1. CASE asked'[q] = asked[q]
    BY <1>a, <2>1 DEF Inv, Pending, Own
  <2>2. CASE asked'[q] # asked[q]
    BY <1>a, <1>f, <2>2 DEF Pending, Own
  <2> QED
    BY <2>1, <2>2
<1>9. ASSUME NEW a \in [call : Calls, by : Creds] PROVE Aborts(a)'
  BY <1>a DEF Inv, Aborts
<1>10. ASSUME NEW q \in Pollers PROVE Replied(q)'
  <2>1. CASE asked'[q] = asked[q]
    BY <1>a, <2>1 DEF Inv, Replied
  <2>2. CASE asked'[q] # asked[q]
    BY <1>a, <1>f, <2>2 DEF Replied, Over, Ended, Terminal
  <2> QED
    BY <2>1, <2>2
<1> QED
  BY <1>1, <1>2, <1>3, <1>4, <1>5, <1>6, <1>7, <1>8, <1>9, <1>10 DEF Inv

\* What is said of a job is said as it is.
LEMMA TaskGetInv ==
  ASSUME Inv, NEW p \in Pollers, TaskGet(p)
  PROVE  Inv'
<1> USE TasksAssumption
<1>a. /\ asked[p] # None /\ asked[p].entry.call \in Calls /\ Pending(p)
      /\ UNCHANGED <<now, pc, installed, job, aborting, registry, minted, task, createdAt, restarts, forgotten>>
  BY AskedOf DEF TaskGet, hostVars, serverVars
<1>b. asked' \in [Pollers -> {None} \cup Question(1..minted)]
      /\ \A q \in Pollers : asked'[q] = IF q = p THEN None ELSE asked[q]
  BY DEF Inv, Types, TypeOK, TaskGet
<1>c. /\ told' = {[call |-> asked[p].entry.call, says |-> describeTask(asked[p].reply), at |-> now, over |-> asked[p].over]}
      /\ asked[p].reply \in {"RUNNING"} \cup Ended /\ asked[p].over \in BOOLEAN /\ Replied(p)
  BY AskedOf DEF TaskGet, Tell
<1>d. describeTask(asked[p].reply) \in Statuses \cup {"expired"}
  BY <1>c, Described
<1>e. /\ describeTask(asked[p].reply) = "completed" => asked[p].reply = "SUCCESS"
      /\ describeTask(asked[p].reply) = "failed" => asked[p].reply = "FAILED"
      /\ describeTask(asked[p].reply) = "cancelled" => asked[p].reply = "ABORTED"
      /\ describeTask(asked[p].reply) = "expired" => asked[p].reply = "pruned"
      /\ describeTask(asked[p].reply) = "working" => asked[p].reply = "RUNNING"
  <2>1. asked[p].reply # "pending"
    BY DEF TaskGet
  <2> QED
    BY <1>c, <2>1, Described
<1>1. Types'
  <2>1. told' \subseteq [call : Calls, says : Statuses \cup Refusals, at : 0..MaxTime, over : BOOLEAN]
    BY <1>a, <1>c, <1>d DEF Inv, Types, TypeOK, Refusals
  <2> QED
    BY <1>a, <1>b, <2>1 DEF Inv, Types, TypeOK
<1>2. ASSUME NEW x \in Calls PROVE Progress(x)'
  BY <1>a DEF Inv, Progress
<1>3. ASSUME NEW x \in Calls PROVE Kept(x)'
  BY <1>a DEF Inv, Kept
<1>4. ASSUME NEW t \in told' PROVE Said(t)'
  BY <1>a, <1>c, <1>d DEF Said, Pending, Statuses
<1>5. ASSUME NEW t \in told' PROVE Truth(t)'
  <2>1. t.call = asked[p].entry.call /\ t.says = describeTask(asked[p].reply) /\ t.over = asked[p].over
    BY <1>c
  <2> QED
    BY <1>a, <1>c, <1>e, <2>1 DEF Truth, Replied, Terminal
<1>6. ASSUME NEW x \in Calls, NEW y \in Calls PROVE Distinct(x, y)'
  BY <1>a DEF Inv, Distinct
<1>7. ASSUME NEW k \in Creds, NEW i \in Nat PROVE Registered(k, i)'
  BY <1>a DEF Inv, Registered
<1>8. ASSUME NEW q \in Pollers PROVE Pending(q)'
  BY <1>a, <1>b DEF Inv, Pending, Own
<1>9. ASSUME NEW a \in [call : Calls, by : Creds] PROVE Aborts(a)'
  BY <1>a DEF Inv, Aborts
<1>10. ASSUME NEW q \in Pollers PROVE Replied(q)'
  BY <1>a, <1>b DEF Inv, Replied
<1> QED
  BY <1>1, <1>2, <1>3, <1>4, <1>5, <1>6, <1>7, <1>8, <1>9, <1>10 DEF Inv

\* What the host replies is what the job is at that moment.
LEMMA HostRepliesInv ==
  ASSUME Inv, NEW p \in Pollers, HostReplies(p)
  PROVE  Inv'
<1> USE TasksAssumption
<1>a. /\ asked[p] # None /\ asked[p] \in Question(1..minted) /\ asked[p].entry.call \in Calls /\ Pending(p) /\ Replied(p)
      /\ UNCHANGED <<now, pc, installed, job, aborting, registry, minted, task, createdAt, restarts, forgotten, told>>
  BY AskedOf DEF HostReplies, hostVars, serverVars
<1>b. job[asked[p].entry.call] \in {"RUNNING"} \cup Ended
  BY <1>a DEF Inv, Types, TypeOK, Pending, Progress
<1>c. /\ \A q \in Pollers : q # p => asked'[q] = asked[q]
      /\ asked'[p] = [asked[p] EXCEPT !.reply = job[asked[p].entry.call]]
      /\ asked' = [asked EXCEPT ![p] = [asked[p] EXCEPT !.reply = job[asked[p].entry.call]]]
  BY DEF HostReplies, Inv, Types, TypeOK
<1>d. /\ asked'[p] \in Question(1..minted)
      /\ asked'[p].entry = asked[p].entry /\ asked'[p].over = asked[p].over
      /\ asked'[p].reply = job[asked[p].entry.call]
  BY <1>a, <1>b, <1>c DEF Question
<1>1. Types'
  <2>1. asked' \in [Pollers -> {None} \cup Question(1..minted)]
    BY <1>c, <1>d DEF Inv, Types, TypeOK
  <2> QED
    BY <1>a, <2>1 DEF Inv, Types, TypeOK
<1>2. ASSUME NEW x \in Calls PROVE Progress(x)'
  BY <1>a DEF Inv, Progress
<1>3. ASSUME NEW x \in Calls PROVE Kept(x)'
  BY <1>a DEF Inv, Kept
<1>4. ASSUME NEW t \in told' PROVE Said(t)'
  BY <1>a DEF Inv, Said
<1>5. ASSUME NEW t \in told' PROVE Truth(t)'
  BY <1>a DEF Inv, Truth
<1>6. ASSUME NEW x \in Calls, NEW y \in Calls PROVE Distinct(x, y)'
  BY <1>a DEF Inv, Distinct
<1>7. ASSUME NEW k \in Creds, NEW i \in Nat PROVE Registered(k, i)'
  BY <1>a DEF Inv, Registered
<1>8. ASSUME NEW q \in Pollers PROVE Pending(q)'
  <2>1. CASE q = p
    BY <1>a, <1>d, <2>1 DEF Pending, Own
  <2>2. CASE q # p
    BY <1>a, <1>c, <2>2 DEF Inv, Pending, Own
  <2> QED
    BY <2>1, <2>2
<1>9. ASSUME NEW a \in [call : Calls, by : Creds] PROVE Aborts(a)'
  BY <1>a DEF Inv, Aborts
<1>10. ASSUME NEW q \in Pollers PROVE Replied(q)'
  <2>1. CASE q = p
    BY <1>a, <1>b, <1>d, <2>1 DEF Replied, Ended, Terminal
  <2>2. CASE q # p
    BY <1>a, <1>c, <2>2 DEF Inv, Replied
  <2> QED
    BY <2>1, <2>2
<1> QED
  BY <1>1, <1>2, <1>3, <1>4, <1>5, <1>6, <1>7, <1>8, <1>9, <1>10 DEF Inv

\* An abort is sent for a job of the credential.
LEMMA TaskCancelInv ==
  ASSUME Inv, NEW p \in Pollers, TaskCancel(p)
  PROVE  Inv'
<1> USE TasksAssumption
<1>a. /\ asked[p] # None /\ asked[p].entry.call \in Calls /\ Pending(p)
      /\ UNCHANGED <<now, pc, installed, job, registry, minted, task, createdAt, restarts, forgotten, told>>
  BY AskedOf DEF TaskCancel, serverVars
<1>b. asked' \in [Pollers -> {None} \cup Question(1..minted)]
      /\ \A q \in Pollers : asked'[q] = IF q = p THEN None ELSE asked[q]
  BY DEF Inv, Types, TypeOK, TaskCancel
<1>c. \/ aborting' = {[call |-> asked[p].entry.call, by |-> CredOf[p]]}
      \/ aborting' = aborting
  BY DEF TaskCancel
<1>1. Types'
  BY <1>a, <1>b, <1>c DEF Inv, Types, TypeOK
<1>2. ASSUME NEW x \in Calls PROVE Progress(x)'
  BY <1>a, <1>b, <1>c DEF Inv, Progress, Types, TypeOK
<1>3. ASSUME NEW x \in Calls PROVE Kept(x)'
  BY <1>a, <1>b, <1>c DEF Inv, Kept
<1>4. ASSUME NEW t \in told' PROVE Said(t)'
  BY <1>a, <1>b, <1>c DEF Inv, Said, Types, TypeOK
<1>5. ASSUME NEW t \in told' PROVE Truth(t)'
  BY <1>a, <1>b, <1>c DEF Inv, Truth, Types, TypeOK
<1>6. ASSUME NEW x \in Calls, NEW y \in Calls PROVE Distinct(x, y)'
  BY <1>a, <1>b, <1>c DEF Inv, Distinct
<1>7. ASSUME NEW k \in Creds, NEW i \in Nat PROVE Registered(k, i)'
  BY <1>a, <1>b, <1>c DEF Inv, Registered, Types, TypeOK, Entry
<1>8. ASSUME NEW q \in Pollers PROVE Pending(q)'
  BY <1>a, <1>b, <1>c DEF Inv, Pending, Types, TypeOK, Own, Entry
<1>9. ASSUME NEW a \in [call : Calls, by : Creds] PROVE Aborts(a)'
  BY <1>a, <1>b, <1>c DEF Inv, Aborts, Types, TypeOK, Own, Pending
<1>10. ASSUME NEW q \in Pollers PROVE Replied(q)'
  BY <1>a, <1>b, <1>c DEF Inv, Replied, Pending, Types, TypeOK, Entry, Terminal, Ended
<1> QED
  BY <1>1, <1>2, <1>3, <1>4, <1>5, <1>6, <1>7, <1>8, <1>9, <1>10 DEF Inv

\* An error says nothing of the job.
LEMMA TaskFailsInv ==
  ASSUME Inv, NEW p \in Pollers, TaskFails(p)
  PROVE  Inv'
<1> USE TasksAssumption
<1>a. UNCHANGED <<now, pc, installed, job, aborting, registry, minted, task, createdAt, restarts, forgotten, told>>
  BY DEF TaskFails, hostVars, serverVars
<1>b. asked' \in [Pollers -> {None} \cup Question(1..minted)]
      /\ \A q \in Pollers : asked'[q] = IF q = p THEN None ELSE asked[q]
  BY DEF Inv, Types, TypeOK, TaskFails
<1>1. Types'
  BY <1>a, <1>b DEF Inv, Types, TypeOK
<1>2. ASSUME NEW x \in Calls PROVE Progress(x)'
  BY <1>a, <1>b DEF Inv, Progress, Types, TypeOK
<1>3. ASSUME NEW x \in Calls PROVE Kept(x)'
  BY <1>a, <1>b DEF Inv, Kept
<1>4. ASSUME NEW t \in told' PROVE Said(t)'
  BY <1>a, <1>b DEF Inv, Said, Types, TypeOK
<1>5. ASSUME NEW t \in told' PROVE Truth(t)'
  BY <1>a, <1>b DEF Inv, Truth, Types, TypeOK
<1>6. ASSUME NEW x \in Calls, NEW y \in Calls PROVE Distinct(x, y)'
  BY <1>a, <1>b DEF Inv, Distinct
<1>7. ASSUME NEW k \in Creds, NEW i \in Nat PROVE Registered(k, i)'
  BY <1>a, <1>b DEF Inv, Registered, Types, TypeOK, Entry
<1>8. ASSUME NEW q \in Pollers PROVE Pending(q)'
  BY <1>a, <1>b DEF Inv, Pending, Types, TypeOK, Own, Entry
<1>9. ASSUME NEW a \in [call : Calls, by : Creds] PROVE Aborts(a)'
  BY <1>a, <1>b DEF Inv, Aborts
<1>10. ASSUME NEW q \in Pollers PROVE Replied(q)'
  BY <1>a, <1>b DEF Inv, Replied, Pending, Types, TypeOK, Entry, Terminal, Ended
<1> QED
  BY <1>1, <1>2, <1>3, <1>4, <1>5, <1>6, <1>7, <1>8, <1>9, <1>10 DEF Inv

\* A job that ends was working until then.
LEMMA JobEndsInv ==
  ASSUME Inv, NEW c \in Calls, JobEnds(c)
  PROVE  Inv'
<1> USE TasksAssumption
<1>a. job[c] = "RUNNING" /\ UNCHANGED <<now, pc, installed, registry, minted, task, createdAt, restarts, forgotten, asked, told>>
  BY DEF JobEnds, serverVars
<1>b. /\ job' \in [Calls -> {"none", "RUNNING"} \cup Ended] /\ job'[c] \in Terminal
      /\ \A x \in Calls : x # c => job'[x] = job[x]
  BY DEF JobEnds, Inv, Types, TypeOK, Ended
<1>c. aborting' \subseteq aborting
  BY DEF JobEnds
<1>1. Types'
  BY <1>a, <1>b, <1>c DEF Inv, Types, TypeOK
<1>2. ASSUME NEW x \in Calls PROVE Progress(x)'
  BY <1>a, <1>b, <1>c DEF Inv, Progress, Types, TypeOK, Terminal
<1>3. ASSUME NEW x \in Calls PROVE Kept(x)'
  BY <1>a, <1>b, <1>c DEF Inv, Kept
<1>4. ASSUME NEW t \in told' PROVE Said(t)'
  BY <1>a, <1>b, <1>c DEF Inv, Said, Types, TypeOK
<1>5. ASSUME NEW t \in told' PROVE Truth(t)'
  BY <1>a, <1>b, <1>c DEF Inv, Truth, Types, TypeOK, Progress, Terminal
<1>6. ASSUME NEW x \in Calls, NEW y \in Calls PROVE Distinct(x, y)'
  BY <1>a, <1>b, <1>c DEF Inv, Distinct
<1>7. ASSUME NEW k \in Creds, NEW i \in Nat PROVE Registered(k, i)'
  BY <1>a, <1>b, <1>c DEF Inv, Registered, Types, TypeOK, Entry
<1>8. ASSUME NEW q \in Pollers PROVE Pending(q)'
  BY <1>a, <1>b, <1>c DEF Inv, Pending, Types, TypeOK, Own, Entry
<1>9. ASSUME NEW a \in [call : Calls, by : Creds] PROVE Aborts(a)'
  BY <1>a, <1>b, <1>c DEF Inv, Aborts
<1>10. ASSUME NEW q \in Pollers PROVE Replied(q)'
  <2>1. CASE asked[q] = None
    BY <1>a, <1>b, <2>1 DEF Replied
  <2>2. CASE asked[q] # None
    BY <1>a, <1>b, <2>2, AskedOf DEF Replied, Ended, Terminal
  <2> QED
    BY <2>1, <2>2
<1> QED
  BY <1>1, <1>2, <1>3, <1>4, <1>5, <1>6, <1>7, <1>8, <1>9, <1>10 DEF Inv

\* A job is forgotten by the host after its end.
LEMMA JobPrunedInv ==
  ASSUME Inv, NEW c \in Calls, JobPruned(c)
  PROVE  Inv'
<1> USE TasksAssumption
<1>a. job[c] \in Terminal /\ UNCHANGED <<now, pc, installed, aborting, registry, minted, task, createdAt, restarts, forgotten, asked, told>>
  BY DEF JobPruned, serverVars
<1>b. /\ job' \in [Calls -> {"none", "RUNNING"} \cup Ended]
      /\ \A x \in Calls : job'[x] = IF x = c THEN "pruned" ELSE job[x]
  BY DEF JobPruned, Inv, Types, TypeOK, Ended
<1>1. Types'
  BY <1>a, <1>b DEF Inv, Types, TypeOK
<1>2. ASSUME NEW x \in Calls PROVE Progress(x)'
  BY <1>a, <1>b DEF Inv, Progress, Types, TypeOK, Terminal
<1>3. ASSUME NEW x \in Calls PROVE Kept(x)'
  BY <1>a, <1>b DEF Inv, Kept
<1>4. ASSUME NEW t \in told' PROVE Said(t)'
  BY <1>a, <1>b DEF Inv, Said, Types, TypeOK
<1>5. ASSUME NEW t \in told' PROVE Truth(t)'
  BY <1>a, <1>b DEF Inv, Truth, Types, TypeOK, Progress, Terminal
<1>6. ASSUME NEW x \in Calls, NEW y \in Calls PROVE Distinct(x, y)'
  BY <1>a, <1>b DEF Inv, Distinct
<1>7. ASSUME NEW k \in Creds, NEW i \in Nat PROVE Registered(k, i)'
  BY <1>a, <1>b DEF Inv, Registered, Types, TypeOK, Entry
<1>8. ASSUME NEW q \in Pollers PROVE Pending(q)'
  BY <1>a, <1>b DEF Inv, Pending, Types, TypeOK, Own, Entry
<1>9. ASSUME NEW a \in [call : Calls, by : Creds] PROVE Aborts(a)'
  BY <1>a, <1>b DEF Inv, Aborts
<1>10. ASSUME NEW q \in Pollers PROVE Replied(q)'
  <2>1. CASE asked[q] = None
    BY <1>a, <1>b, <2>1 DEF Replied
  <2>2. CASE asked[q] # None
    BY <1>a, <1>b, <2>2, AskedOf DEF Replied, Ended, Terminal
  <2> QED
    BY <2>1, <2>2
<1> QED
  BY <1>1, <1>2, <1>3, <1>4, <1>5, <1>6, <1>7, <1>8, <1>9, <1>10 DEF Inv

\* An app that goes away changes nothing of a job that was started.
LEMMA AppRemovedInv ==
  ASSUME Inv, NEW c \in Calls, AppRemoved(c)
  PROVE  Inv'
<1> USE TasksAssumption
<1>a. installed' \subseteq installed /\ UNCHANGED <<now, pc, job, aborting, registry, minted, task, createdAt, restarts, forgotten, asked, told>>
  BY DEF AppRemoved, serverVars
<1>1. Types'
  BY <1>a DEF Inv, Types, TypeOK
<1>2. ASSUME NEW x \in Calls PROVE Progress(x)'
  BY <1>a DEF Inv, Progress, Types, TypeOK
<1>3. ASSUME NEW x \in Calls PROVE Kept(x)'
  BY <1>a DEF Inv, Kept
<1>4. ASSUME NEW t \in told' PROVE Said(t)'
  BY <1>a DEF Inv, Said, Types, TypeOK
<1>5. ASSUME NEW t \in told' PROVE Truth(t)'
  BY <1>a DEF Inv, Truth, Types, TypeOK
<1>6. ASSUME NEW x \in Calls, NEW y \in Calls PROVE Distinct(x, y)'
  BY <1>a DEF Inv, Distinct
<1>7. ASSUME NEW k \in Creds, NEW i \in Nat PROVE Registered(k, i)'
  BY <1>a DEF Inv, Registered, Types, TypeOK, Entry
<1>8. ASSUME NEW q \in Pollers PROVE Pending(q)'
  BY <1>a DEF Inv, Pending, Types, TypeOK, Own, Entry
<1>9. ASSUME NEW a \in [call : Calls, by : Creds] PROVE Aborts(a)'
  BY <1>a DEF Inv, Aborts
<1>10. ASSUME NEW q \in Pollers PROVE Replied(q)'
  BY <1>a DEF Inv, Replied, Pending, Types, TypeOK, Entry, Terminal, Ended
<1> QED
  BY <1>1, <1>2, <1>3, <1>4, <1>5, <1>6, <1>7, <1>8, <1>9, <1>10 DEF Inv

\* A restart leaves no entry and no question, and only tasks that are forgotten.
LEMMA RestartInv ==
  ASSUME Inv, Restart
  PROVE  Inv'
<1> USE TasksAssumption
<1>a. /\ registry' = [k \in Creds |-> [i \in {} |-> None]] /\ asked' = [p \in Pollers |-> None]
      /\ forgotten' = {c \in Calls : task[c] # None} /\ restarts' \in 0..MaxRestarts
      /\ UNCHANGED <<now, installed, job, aborting, minted, task, createdAt, told>>
  BY DEF Restart, hostVars, Inv, Types, TypeOK
<1>b. /\ pc' \in [Calls -> {"idle", "resolve", "start", "accepted", "answered", "minted", "done", "failed"}]
      /\ \A x \in Calls : pc'[x] = IF pc[x] \in {"idle", "done"} THEN pc[x] ELSE "failed"
  BY DEF Restart, Inv, Types, TypeOK
<1>c. /\ DOMAIN registry' = Creds /\ \A k \in Creds : DOMAIN registry'[k] = {}
      /\ \A p \in Pollers : asked'[p] = None
  BY <1>a
<1>1. Types'
  BY <1>a, <1>b, <1>c DEF Inv, Types, TypeOK
<1>2. ASSUME NEW x \in Calls PROVE Progress(x)'
  BY <1>a, <1>b DEF Inv, Progress
<1>3. ASSUME NEW x \in Calls PROVE Kept(x)'
  BY <1>a, <1>c DEF Kept
<1>4. ASSUME NEW t \in told' PROVE Said(t)'
  <2>1. Said(t) /\ t.call \in Calls
    BY <1>a DEF Inv, Types, TypeOK
  <2> QED
    BY <1>a, <1>b, <2>1 DEF Said
<1>5. ASSUME NEW t \in told' PROVE Truth(t)'
  BY <1>a DEF Inv, Truth
<1>6. ASSUME NEW x \in Calls, NEW y \in Calls PROVE Distinct(x, y)'
  BY <1>a DEF Inv, Distinct
<1>7. ASSUME NEW k \in Creds, NEW i \in Nat PROVE Registered(k, i)'
  BY <1>c DEF Registered
<1>8. ASSUME NEW q \in Pollers PROVE Pending(q)'
  BY <1>c DEF Pending
<1>9. ASSUME NEW a \in [call : Calls, by : Creds] PROVE Aborts(a)'
  BY <1>a DEF Inv, Aborts
<1>10. ASSUME NEW q \in Pollers PROVE Replied(q)'
  BY <1>c DEF Replied
<1> QED
  BY <1>1, <1>2, <1>3, <1>4, <1>5, <1>6, <1>7, <1>8, <1>9, <1>10 DEF Inv

\* Time passes.
LEMMA TickInv ==
  ASSUME Inv, Tick
  PROVE  Inv'
<1> USE TasksAssumption
<1>a. now \in Nat /\ now' = now + 1 /\ now' \in 0..MaxTime /\ UNCHANGED <<pc, installed, job, aborting, registry, minted, task, createdAt, restarts, forgotten, asked, told>>
  BY TasksAssumption DEF Tick, hostVars, serverVars, Inv, Types, TypeOK
<1>1. Types'
  BY <1>a DEF Inv, Types, TypeOK
<1>2. ASSUME NEW x \in Calls PROVE Progress(x)'
  BY <1>a DEF Inv, Progress, Types, TypeOK
<1>3. ASSUME NEW x \in Calls PROVE Kept(x)'
  BY <1>a DEF Inv, Kept, Types, TypeOK, Entry
<1>4. ASSUME NEW t \in told' PROVE Said(t)'
  BY <1>a DEF Inv, Said, Types, TypeOK
<1>5. ASSUME NEW t \in told' PROVE Truth(t)'
  BY <1>a DEF Inv, Truth, Types, TypeOK
<1>6. ASSUME NEW x \in Calls, NEW y \in Calls PROVE Distinct(x, y)'
  BY <1>a DEF Inv, Distinct, Types, TypeOK
<1>7. ASSUME NEW k \in Creds, NEW i \in Nat PROVE Registered(k, i)'
  BY <1>a DEF Inv, Registered, Types, TypeOK, Entry
<1>8. ASSUME NEW q \in Pollers PROVE Pending(q)'
  BY <1>a DEF Inv, Pending, Types, TypeOK, Own, Entry
<1>9. ASSUME NEW a \in [call : Calls, by : Creds] PROVE Aborts(a)'
  BY <1>a DEF Inv, Aborts, Types, TypeOK
<1>10. ASSUME NEW q \in Pollers PROVE Replied(q)'
  BY <1>a DEF Inv, Replied, Pending, Types, TypeOK, Entry, Terminal, Ended
<1> QED
  BY <1>1, <1>2, <1>3, <1>4, <1>5, <1>6, <1>7, <1>8, <1>9, <1>10 DEF Inv

-----------------------------------------------------------------------------
\* Every step keeps the invariant.
LEMMA NextInv == Inv /\ [Next]_vars => Inv'
<1> SUFFICES ASSUME Inv, [Next]_vars PROVE Inv'
  OBVIOUS
<1>1. ASSUME NEW c \in Calls, WriteStep(c) PROVE Inv'
  <2>1. CASE WriteTool(c)
    BY <2>1, WalkInv DEF WriteTool
  <2>2. CASE resolveTarget(c)
    BY <2>2, WalkInv DEF resolveTarget
  <2>3. CASE CallSynchronous(c)
    BY <2>3, WalkInv DEF CallSynchronous
  <2>4. CASE JobAnswered(c)
    BY <2>4, WalkInv DEF JobAnswered
  <2>5. CASE add(c) /\ c \notin Declaring
    BY <2>5, WalkInv DEF add, serverVars
  <2> QED
    BY <1>1, <2>1, <2>2, <2>3, <2>4, <2>5, CallJobInv, addInv, CreateTaskResultInv DEF WriteStep
<1>2. ASSUME NEW p \in Pollers, TaskStep(p) PROVE Inv'
  BY <1>2, HostRepliesInv, TaskGetInv, TaskCancelInv, TaskFailsInv DEF TaskStep
<1>3. CASE UNCHANGED vars
  <2>1. /\ UNCHANGED <<now, pc, installed, job, aborting>>
        /\ UNCHANGED <<registry, minted, task, createdAt, restarts, forgotten, asked, told>>
    BY <1>3 DEF vars, hostVars, serverVars
  <2> QED
    BY <2>1 DEF Inv, Types, TypeOK, Progress, Kept, Said, Truth, Replied, Distinct, Registered, Pending, Aborts, Own
<1> QED
  BY <1>1, <1>2, <1>3, JobEndsInv, JobPrunedInv, AppRemovedInv, lookupTaskInv, RestartInv, TickInv DEF Next

\* The invariant holds of every reachable state.
LEMMA Invariance == Spec => []Inv
BY InitInv, NextInv, PTL DEF Spec

-----------------------------------------------------------------------------
\* A task id that was handed out stands in the registry for the job of its
\* call or for nothing, however many tasks were registered and pruned since.
THEOREM IdOfOneJob == Spec => []TaskIsOwnJob
<1>1. Inv => TaskIsOwnJob
  <2> SUFFICES ASSUME Inv, NEW c \in Calls, task[c] # None
               PROVE  /\ job[c] # "none" /\ c \in Declaring \ Synchronous
                      /\ task[c] \in DOMAIN Tasks(CredOf[c]) => Tasks(CredOf[c])[task[c]].call = c
    BY DEF TaskIsOwnJob
  <2>1. Progress(c) /\ CredOf[c] \in Creds
    BY TasksAssumption DEF Inv
  <2> QED
    BY <2>1, FoundIsOwn DEF Progress, Tasks, registryOf
<1> QED
  BY <1>1, Invariance, PTL

\* Whatever ids a client tries, tasks/get and tasks/cancel reach only jobs
\* that were started under its own credential.
THEOREM WithinTheCredential == Spec => []OwnTasksOnly
<1>1. Inv => OwnTasksOnly
  <2> SUFFICES ASSUME Inv PROVE OwnTasksOnly
    OBVIOUS
  <2>1. \A p \in Pollers : asked[p] # None => Own(p, asked[p].entry.call)
    BY DEF Inv, Pending
  <2>2. \A a \in aborting : a.by = CredOf[a.call]
    BY DEF Inv, Types, TypeOK, Aborts
  <2> QED
    BY <2>1, <2>2 DEF OwnTasksOnly
<1> QED
  BY <1>1, Invariance, PTL

\* A client's own task id is answered as unknown only when the time it was told
\* has passed since the task was created, whoever's request did the pruning, or
\* when the server was restarted since.
THEOREM AsLongAsPromised == Spec => []KnownUntilTTL
<1>1. Inv => KnownUntilTTL
  BY DEF Inv, Said, KnownUntilTTL
<1> QED
  BY <1>1, Invariance, PTL

\* What tasks/get says of a job was so at some moment since it was asked,
\* though the host's reply is passed on later and the job may end, or be
\* forgotten, between any two steps.
THEOREM TellsTheTruth == Spec => []ToldTruth
<1>1. Inv => ToldTruth
  BY DEF Inv, Truth, ToldTruth
<1> QED
  BY <1>1, Invariance, PTL
=============================================================================
