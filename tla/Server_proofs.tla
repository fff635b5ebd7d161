---------------------------- MODULE Server_proofs ----------------------------
(***************************************************************************)
(* Proofs about Server: the process, a file that is read, a tool call and  *)
(* the inventory, each by an invariant of its own. What they have in       *)
(* common is that a step of one leaves the others alone, and the           *)
(* environment never changes.                                              *)
(***************************************************************************)
EXTENDS Server, FiniteSetTheorems, TLAPS

-----------------------------------------------------------------------------
(* The parts of a step.                                                    *)

LifeStep == MainStep(busy) \/ Exit \/ ListenerStep \/ Outside

\* The environment of a process is read once and never changes.
LEMMA EnvironmentIsFixed ==
  ASSUME [ServerNext]_serverVars
  PROVE  env' = env
<1>1. CASE MainStep(busy) \/ Exit
  BY <1>1 DEF MainStep, InvalidConfiguration, Healthcheck, run, runStdio, Connect, StdioCanceled, StdioClosed,
              ListenerFailed, Shutdown, Drained, DeadlineExceeded, ListenerDone, Exit
<1>2. CASE ListenerStep \/ Outside
  BY <1>2 DEF ListenerStep, Listen, Serve, ServeReturns, Outside, Signal, ClientLeaves, AcceptFails
<1>3. CASE UNCHANGED lifeVars
  BY <1>3 DEF lifeVars
<1> QED
  BY <1>1, <1>2, <1>3 DEF ServerNext, ToolCallBegins, ToolCallGoesOn, TargetActs, Main, Listener, World, serverVars

-----------------------------------------------------------------------------
(* The process.                                                            *)

\* A process that serves was configured to, and what the listening goroutine
\* has to say is nil only if it was told to shut down.
LifeInv ==
  /\ env \in Env
  /\ errc \in {"empty", "nil", "error"}
  /\ proc = "start" => listener = "none" /\ errc = "empty"
  /\ listener # "none" => HTTP /\ Load(env)
  /\ proc \in {"connect", "serve", "closing"} => env.stdio /\ Load(env) /\ listener = "none"
  /\ proc = "select" => listener # "none" /\ serving
  /\ proc \in {"shutdown", "await"} => listener # "none" /\ ~serving /\ signalled
  /\ errc = "nil" => listener = "closed" /\ ~serving
  /\ proc = "await" => ~busy
  /\ proc \in {"returning", "exited"} /\ listener # "none" /\ ret = "nil" =>
       signalled /\ ~busy /\ listener = "closed" /\ ~serving

\* No request in flight means no step of one.
LEMMA StaysIdle ==
  ASSUME [ServerNext]_serverVars, ~busy, ~Accepting
  PROVE  ~busy'
<1>1. stage = "idle" /\ reading = "idle" /\ tool # "fanout"
  BY DEF busy
<1>2. ~ToolCallBegins /\ ~ToolStep(boolVar(env.writes)) /\ ~DownloadStep /\ ~Assemble /\ \A s \in Sections : ~SectionRuns(s)
  BY <1>1 DEF ToolCallBegins, ToolStep, session, methodMetadata, metadataFails, Call, jobsRefuses, Answered, CallFails,
              Respond, DownloadStep, DownloadFails, ReadBody, awaitDownloadJob, RespondFile, Assemble, SectionRuns
<1>3. CASE TargetActs
  BY <1>1, <1>3 DEF TargetActs, TargetRestarts, DownloadJobEnds, TargetAnswers, toolVars, fileVars, allVars, busy
<1>4. CASE UNCHANGED <<allVars, toolVars, fileVars>>
  BY <1>1, <1>4 DEF allVars, toolVars, fileVars, busy
<1> QED
  BY <1>2, <1>3, <1>4 DEF ServerNext, ToolCallGoesOn, Main, Listener, World, serverVars

\* A process that has just been started serves nothing.
LEMMA LifeInvInit == ServerInit => LifeInv
BY EnvironmentsAssumption DEF ServerInit, LifeInit, LifeInv

\* Every step of the server keeps what is said of the process.
LEMMA LifeInvNext == LifeInv /\ [ServerNext]_serverVars => LifeInv'
<1> SUFFICES ASSUME LifeInv, [ServerNext]_serverVars PROVE LifeInv'
  OBVIOUS
<1>1. env' = env
  BY EnvironmentIsFixed
<1>2. proc \in {"await", "returning", "exited"} /\ listener # "none" /\ ~busy /\ ~serving => ~busy'
  BY StaysIdle DEF Accepting, shuttingDown
<1>3. UNCHANGED lifeVars \/ LifeStep
  BY DEF ServerNext, ToolCallBegins, ToolCallGoesOn, TargetActs, Main, Listener, World, serverVars, LifeStep
<1>4. CASE UNCHANGED lifeVars
  BY <1>1, <1>2, <1>4 DEF lifeVars, LifeInv, HTTP
<1> USE DEF LifeInv, HTTP
<1>5. CASE InvalidConfiguration \/ Healthcheck
  BY <1>1, <1>5 DEF InvalidConfiguration, Healthcheck
<1>6. CASE run
  BY <1>1, <1>6 DEF run
<1>7. CASE runStdio \/ Connect
  BY <1>1, <1>7 DEF runStdio, Connect, Returns
<1>8. CASE StdioCanceled \/ ClientLeaves \/ StdioClosed(busy)
  BY <1>1, <1>8 DEF StdioCanceled, ClientLeaves, StdioClosed, Returns
<1>9. CASE ListenerFailed
  BY <1>1, <1>9 DEF ListenerFailed, Returns
<1>10. CASE Shutdown
  BY <1>1, <1>10 DEF Shutdown
<1>11. CASE Drained(busy)
  <2>1. ~busy'
    BY <1>11, StaysIdle DEF Drained, Accepting, shuttingDown
  <2> QED
    BY <1>1, <1>11, <2>1 DEF Drained
<1>12. CASE DeadlineExceeded(busy)
  BY <1>1, <1>12 DEF DeadlineExceeded, Returns
<1>13. CASE ListenerDone
  BY <1>1, <1>2, <1>13 DEF ListenerDone, Returns
<1>14. CASE Exit
  BY <1>1, <1>2, <1>14 DEF Exit
<1>15. CASE Listen
  BY <1>1, <1>2, <1>15 DEF Listen, Ends, shuttingDown
<1>16. CASE Serve
  BY <1>1, <1>2, <1>16 DEF Serve, Ends, shuttingDown
<1>17. CASE ServeReturns
  BY <1>1, <1>2, <1>17 DEF ServeReturns, Ends, shuttingDown
<1>18. CASE AcceptFails
  BY <1>1, <1>2, <1>18 DEF AcceptFails, Ends, shuttingDown
<1>19. CASE Signal
  BY <1>1, <1>2, <1>19 DEF Signal
<1> QED
  BY <1>3, <1>4, <1>5, <1>6, <1>7, <1>8, <1>9, <1>10, <1>11, <1>12, <1>13, <1>14, <1>15, <1>16, <1>17, <1>18, <1>19
  DEF LifeStep, MainStep, ListenerStep, Outside

\* Whatever environment it is started with, and from the first request it
\* takes up, the server is one that its configuration allows.
THEOREM ServesAsConfigured == ServerSpec => []NeverServesDegraded
<1>1. LifeInv => NeverServesDegraded
  BY DEF LifeInv, NeverServesDegraded, Accepting, HTTP, Load, validate, validateHTTP, TLSEnabled, OAuthEnabled, Env,
         Setting, durationOK, boolVar
<1> QED
  BY <1>1, LifeInvInit, LifeInvNext, PTL DEF ServerSpec

\* However a signal, a failing listener and requests in flight meet, a run
\* that reports success over HTTP was told to stop, had heard from its
\* listener and cut nobody off.
THEOREM SuccessIsClean == ServerSpec => []CleanExitIsClean
<1>1. LifeInv => CleanExitIsClean
  BY DEF LifeInv, CleanExitIsClean
<1> QED
  BY <1>1, LifeInvInit, LifeInvNext, PTL DEF ServerSpec

-----------------------------------------------------------------------------
(* A file that is read.                                                    *)

\* What the job wrote is a prefix of the file, the whole of it if it
\* succeeded; nothing is told before the end.
FileInv ==
  /\ file \in File /\ Possible(file)
  /\ wrote \in 0..file.size
  /\ reading = "idle" => file = NoFile
  /\ reading \in {"idle", "download", "await"} => content = NoContent /\ ~doubted
  /\ reading = "await" => wrote <= fileByteLimit
  /\ reading # "await" /\ reading # "answered" => wrote = 0 /\ dlJob = "RUNNING"
  /\ dlJob = "SUCCESS" => wrote = file.size
  /\ FileAsItIs

\* What is told of a file that was cut, and of one whose job has succeeded.
LEMMA ToldOfFile ==
  ASSUME FileInv, NEW len \in Nat, NEW cut \in BOOLEAN, readFile(len, cut), UNCHANGED file,
         cut => len = fileByteLimit /\ file.size > fileByteLimit,
         ~cut => len = file.size \/ doubted',
         len <= fileByteLimit
  PROVE  FileAsItIs'
<1>1. /\ file.size \in Nat /\ file.nul \in Nat /\ file.whole \in BOOLEAN /\ file.tail \in 0..UTFMax
      /\ file.nul <= file.size /\ (file.size = 0 => file.whole) /\ (file.whole => file.tail < UTFMax)
      /\ UTFMax \in Nat \ {0} /\ fileByteLimit \in Nat /\ UTFMax <= fileByteLimit
  BY DownloadAssumption DEF FileInv, File, Possible
<1>2. CASE isText(file, len, cut)
  <2>1. content' = [is |-> "text", len |-> len, truncated |-> cut]
    BY <1>2 DEF readFile, Given
  <2>2. file.nul \notin 1..len /\ (dangling(file, len) = 0 \/ (cut /\ dangling(file, len) < UTFMax))
    BY <1>2 DEF isText
  <2>3. cut => file.tail < UTFMax
    BY <1>1, <2>2 DEF dangling
  <2>4. ~cut => (len = file.size /\ file.whole /\ file.nul = 0) \/ doubted'
    <3> SUFFICES ASSUME ~cut, len = file.size PROVE file.whole /\ file.nul = 0
      OBVIOUS
    <3>1. dangling(file, len) = 0
      BY <2>2
    <3> QED
      BY <1>1, <2>2, <3>1 DEF dangling
  <2>5. content'.is = "text" /\ content'.len = len /\ content'.truncated = cut /\ file' = file
    BY <2>1
  <2> QED
    BY <2>2, <2>3, <2>4, <2>5 DEF FileAsItIs
<1>3. CASE ~isText(file, len, cut)
  <2>1. content'.is = "binary" /\ file' = file
    BY <1>3 DEF readFile, Given, NoContent
  <2>2. file.nul \in 1..len \/ (dangling(file, len) # 0 /\ (cut => dangling(file, len) >= UTFMax))
    BY <1>1, <1>3 DEF isText, dangling
  <2>3. file.nul \in 1..len => file.nul \in 1..fileByteLimit
    BY <1>1
  <2>4. dangling(file, len) # 0 /\ (cut => dangling(file, len) >= UTFMax) => ~file.whole \/ doubted'
    BY <1>1 DEF dangling
  <2> QED
    BY <2>1, <2>2, <2>3, <2>4 DEF FileAsItIs
<1> QED
  BY <1>2, <1>3

\* Nothing has been read.
LEMMA FileInvInit == ServerInit => FileInv
BY DownloadAssumption DEF ServerInit, FileInit, FileInv, File, Possible, NoFile, NoContent, FileAsItIs

\* Every step of the server keeps what is said of a file.
LEMMA FileInvNext == FileInv /\ [ServerNext]_serverVars => FileInv'
<1> SUFFICES ASSUME FileInv, [ServerNext]_serverVars PROVE FileInv'
  OBVIOUS
<1>1. UNCHANGED fileVars \/ StartDownload \/ DownloadStep \/ DownloadJobEnds
  BY DEF ServerNext, ToolCallBegins, ToolCallGoesOn, TargetActs, Main, Listener, World, serverVars
<1>2. CASE UNCHANGED fileVars
  BY <1>2 DEF fileVars, FileInv, FileAsItIs
<1>3. CASE StartDownload
  BY <1>3 DEF StartDownload, FileInv, FileAsItIs, NoContent, NoFile, File, Possible
<1>4. CASE DownloadFails
  BY <1>4 DEF DownloadFails, Fails, Given, FileInv, FileAsItIs, NoContent
<1>5. CASE ReadBody
  <2>1. /\ reading = "download" /\ wrote' \in 0..file.size /\ UNCHANGED <<file, dlJob, doubted>>
        /\ file.size \in Nat /\ fileByteLimit \in Nat /\ dlJob = "RUNNING"
    BY <1>5, DownloadAssumption DEF ReadBody, FileInv, File
  <2>2. CASE wrote' > fileByteLimit
    <3>1. readFile(fileByteLimit, TRUE) /\ reading' = "answered"
      BY <1>5, <2>2 DEF ReadBody, readFile, Given
    <3>2. TRUE \in BOOLEAN /\ file.size > fileByteLimit /\ UNCHANGED file /\ fileByteLimit <= fileByteLimit
      BY <2>1, <2>2
    <3>3. FileAsItIs'
      BY <2>1, <3>1, <3>2, ToldOfFile
    <3> QED
      BY <2>1, <3>1, <3>3 DEF FileInv
  <2>3. CASE ~(wrote' > fileByteLimit)
    BY <1>5, <2>1, <2>3 DEF ReadBody, FileInv, FileAsItIs, NoContent
  <2> QED
    BY <2>2, <2>3
<1>6. CASE awaitDownloadJob
  <2>1. reading = "await" /\ UNCHANGED <<file, wrote, dlJob>> /\ wrote \in Nat /\ wrote <= fileByteLimit
    BY <1>6 DEF awaitDownloadJob, FileInv, File
  <2>2. CASE Fails /\ UNCHANGED doubted
    BY <2>1, <2>2 DEF Fails, Given, FileInv, FileAsItIs, NoContent
  <2>3. CASE readFile(wrote, FALSE) /\ (dlJob = "SUCCESS" \/ doubted' = TRUE)
    <3>1. FileAsItIs'
      <4>1. wrote = file.size \/ doubted'
        BY <2>3 DEF FileInv
      <4> QED
        BY <2>1, <2>3, <4>1, ToldOfFile
    <3> QED
      BY <2>1, <2>3, <3>1 DEF readFile, Given, FileInv
  <2> QED
    BY <1>6, <2>2, <2>3 DEF awaitDownloadJob
<1>7. CASE RespondFile
  BY <1>7, DownloadAssumption DEF RespondFile, FileInv, FileAsItIs, NoFile, NoContent, File, Possible
<1>8. CASE DownloadJobEnds
  BY <1>8 DEF DownloadJobEnds, FileInv, FileAsItIs
<1> QED
  BY <1>1, <1>2, <1>3, <1>4, <1>5, <1>6, <1>7, <1>8 DEF DownloadStep

\* For any file, UTF-8 or not and wherever it ceases to be, any limit no
\* shorter than a character and any end of its job: what is told as text and
\* not as cut is whole and text, what is told as cut was cut at the limit and is
\* text but for its last few bytes, and no text is told as binary.
THEOREM FilesToldAsTheyAre == ServerSpec => []FileAsItIs
<1>1. FileInv => FileAsItIs
  BY DEF FileInv
<1> QED
  BY <1>1, FileInvInit, FileInvNext, PTL DEF ServerSpec


-----------------------------------------------------------------------------
(* A tool call: what the tables and the shaping of an answer come to.      *)

\* What a concern tool takes is at most one identifier, or filters, or a
\* limit: no operation takes two of these, so none hides another.
LEMMA EveryArgumentIsSent ==
  ASSUME NEW op \in ReadConcerns, NEW args \in SUBSET ArgNames, Resolve(op, args), NEW limit \in Int
  PROVE  /\ middlewareParams(op, args, limit).args = args
         /\ op.Options => middlewareParams(op, args, limit).limit = effectiveLimit(limit)
<1> DEFINE TakesOne == \E a \in {"id", "name", "path"} :
                         op.Args = {a} /\ op.Required = {a} /\ op.Filters = {} /\ ~op.Options
           TakesNone == op.Args = {} /\ (op.Options => op.Filters = {})
<1>1. TakesOne \/ TakesNone
  <2>1. \/ \E a \in {"id", "name", "path"} : op = GetOne(a)
        \/ op \in {Plain, Reduced(Plain), Reduced([Plain EXCEPT !.Options = TRUE])}
        \/ \E a \in {"pool", "dataset"} : op = Narrowed(a)
        \/ op \in {Reduced(Narrowed("category")), [Narrowed("name") EXCEPT !.Required = {"name"}]}
    BY DEF ReadConcerns, Storage, System, Apps, Catalog, Virtualization, Sharing, Backup, Filesystem
  <2>2. ASSUME NEW a \in {"id", "name", "path"}, op = GetOne(a) PROVE TakesOne
    <3>1. op.Args = {a} /\ op.Required = {a} /\ op.Filters = {} /\ ~op.Options
      BY <2>2 DEF GetOne, Plain
    <3> QED
      BY <3>1
  <2>3. CASE op \in {Plain, Reduced(Plain), Reduced([Plain EXCEPT !.Options = TRUE])}
    <3>1. Plain.Args = {} /\ Plain.Filters = {}
      BY DEF Plain
    <3>2. Reduced(Plain).Args = {} /\ Reduced(Plain).Filters = {}
      BY DEF Plain, Reduced
    <3> DEFINE Limited == [Plain EXCEPT !.Options = TRUE]
    <3>3. Limited.Args = {} /\ Limited.Filters = {} /\ {"Args", "Filters", "Project"} \subseteq DOMAIN Limited
      BY DEF Plain
    <3> HIDE DEF Limited
    <3>4. Reduced(Limited).Args = {} /\ Reduced(Limited).Filters = {}
      BY <3>3 DEF Reduced
    <3> QED
      BY <2>3, <3>1, <3>2, <3>4 DEF Limited
  <2>4. ASSUME NEW a \in {"pool", "dataset"}, op = Narrowed(a) PROVE TakesNone
    BY <2>4 DEF Narrowed, Plain
  <2>5. CASE op \in {Reduced(Narrowed("category")), [Narrowed("name") EXCEPT !.Required = {"name"}]}
    <3>1. op.Args = {} /\ op.Options = FALSE
      BY <2>5 DEF Reduced, Narrowed, Plain
    <3> QED
      BY <3>1
  <2> QED
    BY <2>1, <2>2, <2>3, <2>4, <2>5
<1>2. ASSUME NEW a \in {"id", "name", "path"}, op.Args = {a}, op.Required = {a}, op.Filters = {}, ~op.Options
      PROVE  middlewareParams(op, args, limit).args = args
  <2>1. args = {a}
    BY <1>2 DEF Resolve, acceptedArgs
  <2>2. positional(op, args) = {a}
    BY <1>2, <2>1 DEF positional
  <2> QED
    BY <2>1, <2>2 DEF middlewareParams
<1>3. CASE op.Args = {} /\ (op.Options => op.Filters = {})
  <2>1. positional(op, args) = {} /\ args \subseteq op.Filters
    BY <1>3 DEF positional, Resolve, acceptedArgs
  <2>2. op.Filters \cap args = args
    BY <2>1
  <2>3. CASE op.Options
    BY <1>3, <2>1, <2>3 DEF middlewareParams
  <2>4. CASE ~op.Options
    BY <2>1, <2>2, <2>4 DEF middlewareParams
  <2> QED
    BY <2>3, <2>4
<1> QED
  BY <1>1, <1>2, <1>3

\* What a list that is cut to a limit says of itself.
ToldOf(told, got, op, limit, full) ==
  /\ told.truncated <=> Len(told.items) < Len(got)
  /\ told.total = IF op.Options THEN 0 ELSE Len(got)
  /\ Len(told.items) <= effectiveLimit(limit)
  /\ told.projected <=> \E i \in DOMAIN told.items : told.items[i] # got[i]
  /\ full => ~told.projected

\* An answer made from a list says what it leaves out of it: items and fields.
LEMMA ShapedListIsTold ==
  ASSUME NEW op, NEW list \in Seq(Item), NEW limit \in Int, NEW full \in BOOLEAN,
         op.Options => Len(list) <= effectiveLimit(limit)
  PROVE  ToldOf(shape(op, list, limit, full), list, op, limit, full)
<1> DEFINE cut == truncated(Len(list), effectiveLimit(limit))
           page == IF cut THEN SubSeq(list, 1, effectiveLimit(limit)) ELSE list
           items == IF op.Project # {} /\ ~full
                    THEN [i \in DOMAIN page |-> projectFields(page[i], op.Project)] ELSE page
           told == shape(op, list, limit, full)
<1>1. effectiveLimit(limit) \in Nat \ {0} /\ Len(list) \in Nat
  BY DispatchAssumption DEF effectiveLimit
<1>2. /\ page \in Seq(Item) /\ \A i \in DOMAIN page : page[i] = list[i]
      /\ Len(page) = IF cut THEN effectiveLimit(limit) ELSE Len(list)
      /\ DOMAIN page = 1..Len(page)
  <2>1. CASE cut
    BY <1>1, <2>1 DEF truncated
  <2>2. CASE ~cut
    BY <1>1, <2>2
  <2> QED
    BY <2>1, <2>2
<1>3. DOMAIN items = DOMAIN page /\ Len(items) = Len(page) /\ (full => items = page)
  <2> HIDE DEF page
  <2>1. CASE op.Project # {} /\ ~full
    <3>1. items = [i \in DOMAIN page |-> projectFields(page[i], op.Project)]
      BY <2>1
    <3>2. \A i \in DOMAIN page : projectFields(page[i], op.Project) \in Item
      <4>1. ASSUME NEW item \in Item PROVE projectFields(item, op.Project) \in Item
        <5>1. item.object \in BOOLEAN /\ item.fields \cap op.Project \in SUBSET Fields
          BY DEF Item
        <5> DEFINE kept == [item EXCEPT !.fields = @ \cap op.Project]
        <5>2. kept \in [DOMAIN item -> BOOLEAN \cup SUBSET Fields] /\ DOMAIN item = {"object", "fields"}
          BY <5>1 DEF Item
        <5>3. kept.object = item.object /\ kept.fields = item.fields \cap op.Project
          BY <5>2
        <5>4. kept \in Item
          BY <5>1, <5>2, <5>3 DEF Item
        <5> QED
          BY <5>4 DEF projectFields
      <4>2. \A i \in DOMAIN page : page[i] \in Item
        BY <1>2
      <4> QED
        BY <4>1, <4>2
    <3>3. items \in Seq(Item) /\ DOMAIN items = 1..Len(page) /\ Len(page) \in Nat
      BY <1>2, <3>1, <3>2
    <3> QED
      BY <2>1, <1>2, <3>3
  <2>2. CASE ~(op.Project # {} /\ ~full)
    BY <2>2
  <2> QED
    BY <2>1, <2>2
<1>4. /\ told.items = items /\ told.truncated = (~op.Options /\ cut)
      /\ told.total = (IF op.Options THEN 0 ELSE Len(list))
      /\ told.projected = (\E i \in DOMAIN page : items[i] # page[i])
  BY DEF shape
<1> HIDE DEF page, items, told
<1>5. told.truncated <=> Len(told.items) < Len(list)
  <2>1. (cut <=> Len(list) > effectiveLimit(limit)) /\ Len(told.items) = IF cut THEN effectiveLimit(limit) ELSE Len(list)
    BY <1>2, <1>3, <1>4 DEF truncated
  <2>2. op.Options => ~cut
    BY <1>1, <2>1
  <2> HIDE DEF cut
  <2>3. told.truncated <=> cut
    BY <1>4, <2>2
  <2> QED
    BY <1>1, <2>1, <2>3
<1>6. Len(told.items) <= effectiveLimit(limit)
  BY <1>1, <1>2, <1>3, <1>4 DEF truncated
<1>7. told.projected <=> \E i \in DOMAIN told.items : told.items[i] # list[i]
  BY <1>2, <1>3, <1>4
<1>8. full => ~told.projected
  BY <1>3, <1>4
<1> QED
  BY <1>4, <1>5, <1>6, <1>7, <1>8 DEF ToldOf, told

\* What search_methods says of a search.
SearchTold(told, found, matched) ==
  /\ told.listed \subseteq matched
  /\ (told.matches = 0 /\ told.hidden = 0) => told.listed = found
  /\ told.matches = 0 => Cardinality(told.listed) + told.hidden = Cardinality(found)

\* A search that lists some of what it found says how many it left out.
LEMMA SearchIsTold ==
  ASSUME NEW found, IsFiniteSet(found), NEW matched \in SUBSET found, NEW listed \in SUBSET matched,
         NEW limit \in Nat \ {0},
         Cardinality(listed) = IF Cardinality(matched) > limit THEN limit ELSE Cardinality(matched)
  PROVE  SearchTold([is |-> "methods", listed |-> listed,
                     matches |-> IF Cardinality(matched) > limit THEN Cardinality(matched) ELSE 0,
                     hidden |-> Cardinality(found \ matched)], found, matched)
<1>1. /\ IsFiniteSet(matched) /\ Cardinality(matched) \in Nat /\ Cardinality(found) \in Nat
      /\ IsFiniteSet(found \ matched) /\ Cardinality(found \ matched) \in Nat
  BY FS_Subset, FS_Difference, FS_CardinalityType
<1>2. Cardinality(found \ matched) = Cardinality(found) - Cardinality(matched)
  <2>1. found \cap matched = matched
    OBVIOUS
  <2> QED
    BY <2>1, FS_Difference
<1>3. Cardinality(matched) <= limit => listed = matched
  BY <1>1, FS_Subset
<1>4. Cardinality(found \ matched) = 0 => found = matched
  BY <1>1, FS_EmptySet
<1> QED
  BY <1>1, <1>2, <1>3, <1>4 DEF SearchTold

-----------------------------------------------------------------------------
(* A tool call: the invariant.                                             *)

\* A connection is up from when the call is given it to when it is answered,
\* or until the connection dies.
Stages ==
  /\ stage \in {"idle", "session", "metadata", "send", "sent", "answered"}
  /\ link = "up" => release \in Releases /\ stage \in {"metadata", "send", "sent"}
  /\ stage # "answered" => result = NoResult
  /\ stage \notin {"sent", "answered"} => ran = None

\* Nothing passes the check of its input unchecked.
Asked ==
  /\ stage # "idle" => call \in Input /\ registered(call, boolVar(env.writes))
  /\ (stage \in {"session", "metadata", "send", "sent"} \/ ran # None) => checked(call)
  /\ stage = "metadata" => call.tool \in LooksUp
  /\ stage \in {"send", "sent"} => call.tool \notin {"search_methods", "describe_method"}

\* What the target said of the method stands for as long as the connection
\* that carried it is up.
Judged ==
  (stage = "send" /\ link = "up") =>
    /\ call.tool = "call_method" =>
         /\ call.method \in DOMAIN Catalogue[release]
         /\ CheckDiscoverable(call.method, Catalogue[release][call.method], boolVar(env.writes))
    /\ (call.tool \in Gated /\ calledMethod \in DOMAIN Catalogue[release] /\ Catalogue[release][calledMethod].job) =>
         asJob \in {"yes", "unknown"}

\* A list of at most as many items as were asked for, or something else.
GaveConcern(gave, params) ==
  gave.is = "list" => gave.list \in Lists /\ (params.limit = 0 \/ Len(gave.list) <= params.limit)

\* What the target ran, and what it gave.
WhatRan ==
  (stage = "sent" \/ ran # None) =>
    /\ ran.params = calledParams
    /\ call.tool = "concern" => GaveConcern(ran.gave, ran.params)
    /\ ran.gave.is = "id" => call.tool \in Gated /\ asJob \in {"yes", "unknown"}

ToolInv == Stages /\ Asked /\ Judged /\ WhatRan /\ OnlyPermittedRuns /\ JobsCanBeFollowed /\ AnswerSaysWhatIsMissing

-----------------------------------------------------------------------------
(* A tool call: its steps.                                                 *)

\* A step of the server is one of the tool call, or leaves it alone.
LEMMA PartOfToolCall ==
  ASSUME [ServerNext]_serverVars
  PROVE  \/ UNCHANGED toolVars
         \/ \E in \in Input : Invoke(in, boolVar(env.writes))
         \/ ToolStep(boolVar(env.writes))
         \/ TargetRestarts
BY DEF ServerNext, ToolCallBegins, ToolCallGoesOn, TargetActs, Main, Listener, World, serverVars

\* What the input of a tool has in it.
LEMMA InputOf ==
  ASSUME NEW in \in Input
  PROVE  /\ in.tool = "concern" /\ in.known =>
              in.op \in ReadConcerns /\ in.args \in SUBSET ArgNames /\ in.limit \in Int /\ in.full \in BOOLEAN
         /\ in.tool = "search_methods" => in.limit \in Int
BY ToolsAssumption DEF Input


\* A call that is answered without the target having run anything, or with an error.
LEMMA ToldPlainly ==
  ASSUME ToolInv, NEW r, Tell(r), r.is \in {"refused", "error", "described"},
         UNCHANGED <<call, release, asJob, ran, env>>,
         r.is # "error" => ran = None, stage # "idle"
  PROVE  ToolInv'
<1>1. Stages'
  BY DEF ToolInv, Stages, Tell
<1>2. Asked' /\ Judged'
  BY DEF ToolInv, Asked, Judged, Tell
<1>3. WhatRan'
  BY DEF ToolInv, WhatRan, Tell, calledParams, configParams
<1>4. OnlyPermittedRuns'
  BY DEF ToolInv, OnlyPermittedRuns, calledMethod
<1>5. JobsCanBeFollowed'
  BY DEF JobsCanBeFollowed, Tell
<1>6. AnswerSaysWhatIsMissing'
  BY DEF AnswerSaysWhatIsMissing, Tell
<1> QED
  BY <1>1, <1>2, <1>3, <1>4, <1>5, <1>6 DEF ToolInv

\* A step before anything is told: nothing to show about what is.
LEMMA NotToldYet ==
  ASSUME result' = NoResult
  PROVE  JobsCanBeFollowed' /\ AnswerSaysWhatIsMissing'
BY DEF JobsCanBeFollowed, AnswerSaysWhatIsMissing, NoResult

\* A tool call begins, or its input is refused.
LEMMA InvokeKeeps ==
  ASSUME ToolInv, NEW in \in Input, Invoke(in, boolVar(env.writes)), env' = env
  PROVE  ToolInv'
<1>1. /\ stage = "idle" /\ ran = None /\ ran' = None /\ result = NoResult /\ call' = in /\ link # "up" /\ link' # "up"
      /\ registered(in, boolVar(env.writes))
      /\ \/ checked(in) /\ stage' = "session" /\ result' = NoResult
         \/ stage' = "answered" /\ result' = Refused
  BY DEF ToolInv, Stages, Invoke, Tell
<1>2. Stages'
  BY <1>1 DEF Stages
<1>3. Asked' /\ Judged'
  BY <1>1 DEF Asked, Judged
<1>4. WhatRan' /\ OnlyPermittedRuns'
  BY <1>1 DEF WhatRan, OnlyPermittedRuns
<1>5. JobsCanBeFollowed' /\ AnswerSaysWhatIsMissing'
  BY <1>1 DEF JobsCanBeFollowed, AnswerSaysWhatIsMissing, NoResult, Refused
<1> QED
  BY <1>2, <1>3, <1>4, <1>5 DEF ToolInv

\* The provider gives a session, or an error.
LEMMA SessionKeeps ==
  ASSUME ToolInv, session, env' = env
  PROVE  ToolInv'
<1>1. CASE Tell(Error) /\ UNCHANGED release
  BY <1>1, ToldPlainly DEF session, Error
<1>2. CASE ~(Tell(Error) /\ UNCHANGED release)
  <2>1. /\ stage = "session" /\ link' = "up" /\ release' \in Releases /\ UNCHANGED <<result, call, asJob, ran>>
        /\ stage' = IF call.tool \in LooksUp THEN "metadata" ELSE "send"
        /\ ran = None /\ result = NoResult
    BY <1>2 DEF session, ToolInv, Stages
  <2>2. Stages'
    BY <2>1 DEF Stages
  <2>3. Asked' /\ Judged'
    BY <2>1 DEF ToolInv, Asked, Judged, LooksUp, Gated
  <2>4. WhatRan' /\ OnlyPermittedRuns'
    BY <2>1 DEF WhatRan, OnlyPermittedRuns
  <2> QED
    BY <2>1, <2>2, <2>3, <2>4, NotToldYet DEF ToolInv
<1> QED
  BY <1>1, <1>2

\* search_methods answers from the catalogue.
LEMMA SearchKeeps ==
  ASSUME ToolInv, methodMetadata(boolVar(env.writes)), call.tool = "search_methods", env' = env
  PROVE  ToolInv'
<1> DEFINE found == call.query \cap DOMAIN Catalogue[release]
           matched == {m \in found : CheckDiscoverable(m, Catalogue[release][m], boolVar(env.writes))}
           limit == IF call.limit <= 0 THEN searchLimit ELSE call.limit
           told(listed) == [is |-> "methods", listed |-> listed,
                            matches |-> IF Cardinality(matched) > limit THEN Cardinality(matched) ELSE 0,
                            hidden |-> Cardinality(found \ matched)]
<1>1. stage = "metadata" /\ link = "up" /\ searchMethods(boolVar(env.writes)) /\ UNCHANGED <<release, call, ran>>
  BY DEF methodMetadata
<1>2. PICK listed \in SUBSET matched :
        /\ Cardinality(listed) = IF Cardinality(matched) > limit THEN limit ELSE Cardinality(matched)
        /\ Tell(told(listed)) /\ UNCHANGED asJob
  BY <1>1 DEF searchMethods
<1>3. IsFiniteSet(found)
  <2>1. release \in Releases
    BY <1>1 DEF ToolInv, Stages
  <2>2. IsFiniteSet(DOMAIN Catalogue[release]) /\ found \subseteq DOMAIN Catalogue[release]
    BY <2>1, ToolsAssumption
  <2> QED
    BY <2>2, FS_Subset
<1>4. limit \in Nat \ {0} /\ matched \in SUBSET found
  <2>1. call.limit \in Int
    BY <1>1, InputOf DEF ToolInv, Asked
  <2> QED
    BY <2>1, ToolsAssumption
<1>5. SearchTold(told(listed), found, matched)
  <2> HIDE DEF found, matched, limit
  <2> QED
    BY <1>2, <1>3, <1>4, SearchIsTold
<1>6. result' = told(listed) /\ stage' = "answered" /\ link' = "none" /\ ran' = None
  BY <1>1, <1>2 DEF Tell, ToolInv, Stages
<1>7. AnswerSaysWhatIsMissing'
  <2>1. result'.is = "methods"
    BY <1>6
  <2>2. \A m \in result'.listed : CheckDiscoverable(m, Catalogue[release][m], boolVar(env.writes))
    BY <1>2, <1>6
  <2> HIDE DEF told, matched
  <2>3. /\ (result'.matches = 0 /\ result'.hidden = 0) => result'.listed = found
        /\ result'.matches = 0 => Cardinality(result'.listed) + result'.hidden = Cardinality(found)
    BY <1>5, <1>6 DEF SearchTold
  <2> QED
    BY <1>1, <2>1, <2>2, <2>3 DEF AnswerSaysWhatIsMissing
<1>8. Stages' /\ Asked' /\ Judged'
  BY <1>1, <1>6 DEF ToolInv, Stages, Asked, Judged
<1>9. WhatRan' /\ OnlyPermittedRuns' /\ JobsCanBeFollowed'
  BY <1>6 DEF WhatRan, OnlyPermittedRuns, JobsCanBeFollowed
<1> QED
  BY <1>7, <1>8, <1>9 DEF ToolInv

\* What the target says of the method is acted on, or is not to be had.
LEMMA MetadataKeeps ==
  ASSUME ToolInv, methodMetadata(boolVar(env.writes)) \/ metadataFails, env' = env
  PROVE  ToolInv'
<1>1. /\ stage = "metadata" /\ UNCHANGED <<release, call, ran>> /\ ran = None /\ result = NoResult
      /\ call.tool \in LooksUp /\ checked(call)
  BY DEF methodMetadata, metadataFails, ToolInv, Stages, Asked
\* The call goes on to be sent.
<1>2. ASSUME stage' = "send", UNCHANGED <<result, link>>, Judged', call.tool \in Gated
      PROVE  ToolInv'
  <2>1. Stages' /\ Asked'
    BY <1>1, <1>2 DEF ToolInv, Stages, Asked, Gated
  <2>2. WhatRan' /\ OnlyPermittedRuns'
    BY <1>1, <1>2 DEF WhatRan, OnlyPermittedRuns
  <2> QED
    BY <1>1, <1>2, <2>1, <2>2, NotToldYet DEF ToolInv
<1>3. CASE metadataFails
  <2>1. CASE call.tool = "config_write"
    <3>1. stage' = "send" /\ asJob' = "unknown" /\ UNCHANGED <<result, link>> /\ call.tool \in Gated
      BY <1>3, <2>1 DEF metadataFails, Gated
    <3>2. Judged'
      BY <1>1, <2>1, <3>1 DEF Judged
    <3> QED
      BY <1>2, <3>1, <3>2
  <2>2. CASE call.tool # "config_write"
    BY <1>1, <1>3, <2>2, ToldPlainly DEF metadataFails, Error
  <2> QED
    BY <2>1, <2>2
<1>4. CASE methodMetadata(boolVar(env.writes)) /\ call.tool = "search_methods"
  BY <1>4, SearchKeeps
<1>5. CASE methodMetadata(boolVar(env.writes)) /\ call.tool = "config_write"
  <2>1. isJobMethod(call.op.Method)
    BY <1>5 DEF methodMetadata
  <2>2. Judged'
    BY <1>1, <1>5, <2>1 DEF isJobMethod, Judged, calledMethod
  <2> QED
    BY <1>2, <1>5, <2>1, <2>2 DEF isJobMethod, Gated
<1>6. CASE methodMetadata(boolVar(env.writes)) /\ call.tool \in {"describe_method", "call_method"}
  <2>1. judged(call.method, boolVar(env.writes))
    BY <1>6 DEF methodMetadata
  <2> DEFINE info == Catalogue[release][call.method]
  <2>2. CASE Tell(Refused) /\ UNCHANGED asJob
    BY <1>1, <2>2, ToldPlainly DEF Refused
  <2>3. CASE Tell([is |-> "described", job |-> info.job, readOnly |-> readOnly(info)]) /\ UNCHANGED asJob
    BY <1>1, <2>3, ToldPlainly
  <2>4. CASE /\ call.method \in DOMAIN Catalogue[release] /\ CheckDiscoverable(call.method, info, boolVar(env.writes))
             /\ call.tool # "describe_method"
             /\ asJob' = (IF info.job THEN "yes" ELSE "no") /\ stage' = "send" /\ UNCHANGED <<result, link>>
    <3>1. Judged'
      BY <1>1, <1>6, <2>4 DEF Judged, calledMethod
    <3> QED
      BY <1>2, <1>6, <2>4, <3>1 DEF Gated
  <2> QED
    BY <2>1, <2>2, <2>3, <2>4 DEF judged
<1> QED
  BY <1>1, <1>3, <1>4, <1>5, <1>6 DEF LooksUp

\* What the target is sent for a gated call.
LEMMA CallIsPermitted ==
  ASSUME ToolInv, Call, env' = env
  PROVE  OnlyPermittedRuns'
<1> SUFFICES ASSUME call.tool \in Gated
             PROVE  OnlyPermittedRuns'
  BY DEF OnlyPermittedRuns, Call
<1>1. PICK g \in Gives : ran' = [release |-> release, params |-> calledParams, gave |-> g]
  BY DEF Call
<1>2. stage = "send" /\ link = "up" /\ checked(call) /\ call' = call /\ registered(call, boolVar(env.writes))
  BY DEF Call, ToolInv, Stages, Asked
<1>3. ran'.release = release /\ ran'.params = calledParams /\ calledMethod' = calledMethod
  BY <1>1, <1>2 DEF calledMethod
<1> DEFINE info == Catalogue[release][calledMethod]
<1>4. CASE call.tool = "call_method"
  <2>1. calledMethod = call.method /\ calledParams = call.params
    BY <1>4 DEF calledMethod, calledParams
  <2>2. CheckDiscoverable(calledMethod, info, boolVar(env.writes))
    BY <1>2, <1>4, <2>1 DEF ToolInv, Judged
  <2>3. /\ calledMethod \notin denied /\ calledMethod \notin withheld /\ ~info.pipe
        /\ boolVar(env.writes) \/ readOnly(info) \/ IsSafeUnroledRead(calledMethod)
        /\ info.roles # {} \/ IsSafeUnroledRead(calledMethod)
    BY <2>2 DEF CheckDiscoverable, CheckDenied
  <2>4. At("top", calledParams) \cap deniedWith[calledMethod] = {}
    <3>1. checkCall(call)
      BY <1>2, <1>4 DEF checked
    <3>2. call.params = {} => At("top", calledParams) = {}
      BY <2>1 DEF At
    <3> QED
      BY <2>1, <3>1, <3>2 DEF checkCall, CheckDenied
  <2> QED
    BY <1>2, <1>3, <1>4, <2>3, <2>4 DEF OnlyPermittedRuns
<1>5. CASE call.tool = "config_write"
  <2>1. calledMethod = call.op.Method /\ calledParams = configParams
    BY <1>5 DEF calledMethod, calledParams
  <2>2. boolVar(env.writes) /\ checkConfigWrite(call)
    BY <1>2, <1>5 DEF checked, registered
  <2>3. /\ calledMethod \notin denied
        /\ At("top", call.params) \cap deniedWith[calledMethod] = {}
        /\ At("options", call.params) \cap deniedWith[calledMethod] = {}
    BY <2>1, <2>2 DEF checkConfigWrite, CheckDenied
  <2>4. \A w \in {"top", "options"} : At(w, calledParams) \cap deniedWith[calledMethod] = {}
    <3>1. CASE calledParams = call.params
      BY <2>3, <3>1
    <3>2. CASE calledParams = {}
      BY <3>2 DEF At
    <3> QED
      BY <2>1, <3>1, <3>2 DEF configParams
  <2> QED
    BY <1>2, <1>3, <1>5, <2>2, <2>3, <2>4 DEF OnlyPermittedRuns
<1> QED
  BY <1>4, <1>5 DEF Gated

\* The target runs the call that was judged, on the connection it was judged on.
LEMMA CallKeeps ==
  ASSUME ToolInv, Call, env' = env
  PROVE  ToolInv'
<1>1. PICK g \in Gives : ran' = [release |-> release, params |-> calledParams, gave |-> g]
  BY DEF Call
<1>2. /\ stage = "send" /\ link = "up" /\ stage' = "sent" /\ UNCHANGED <<release, link, call, asJob, result>> /\ Runs
      /\ result = NoResult
  BY DEF Call, ToolInv, Stages
<1>3. ran'.params = calledParams /\ ran'.gave = g /\ calledParams' = calledParams
  BY <1>1, <1>2 DEF calledParams, configParams
<1>4. Stages' /\ Asked' /\ Judged'
  BY <1>2 DEF ToolInv, Stages, Asked, Judged
<1>5. call.tool = "concern" => GaveConcern(g, calledParams)
  BY DEF Gives, GaveConcern
<1>6. g.is = "id" => call.tool \in Gated /\ asJob \in {"yes", "unknown"}
  <2> SUFFICES ASSUME g.is = "id" PROVE call.tool \in Gated /\ asJob \in {"yes", "unknown"}
    OBVIOUS
  <2>1. call.tool \in Gated
    BY DEF Gives
  <2>2. Catalogue[release][calledMethod].job /\ calledMethod \in DOMAIN Catalogue[release]
    BY <1>2, <2>1 DEF Gives, Runs, Gated
  <2> QED
    BY <1>2, <2>1, <2>2 DEF ToolInv, Judged
<1>7. WhatRan'
  BY <1>2, <1>3, <1>5, <1>6 DEF WhatRan
<1> QED
  BY <1>2, <1>4, <1>7, CallIsPermitted, NotToldYet DEF ToolInv

\* The answer is what becomes of what the target gave.
LEMMA AnsweredKeeps ==
  ASSUME ToolInv, Answered, env' = env
  PROVE  ToolInv'
<1>1. /\ stage = "sent" /\ stage' = "answered" /\ link' = "none" /\ result' = outcome(ran.gave)
      /\ UNCHANGED <<release, call, asJob, ran>>
  BY DEF Answered, Tell
<1>2. /\ call \in Input /\ checked(call) /\ ran.params = calledParams
      /\ call.tool = "concern" => GaveConcern(ran.gave, ran.params)
      /\ ran.gave.is = "id" => call.tool \in Gated /\ asJob \in {"yes", "unknown"}
  BY <1>1 DEF ToolInv, Asked, WhatRan
<1>3. Stages' /\ Asked' /\ Judged'
  BY <1>1 DEF ToolInv, Stages, Asked, Judged
<1>4. WhatRan' /\ OnlyPermittedRuns'
  BY <1>1 DEF ToolInv, WhatRan, OnlyPermittedRuns, calledMethod, calledParams, configParams
<1>5. JobsCanBeFollowed'
  <2> SUFFICES ASSUME ran.gave.is = "id", asJob # "unknown" PROVE result'.is = "job"
    BY <1>1 DEF JobsCanBeFollowed
  <2>1. call.tool \in Gated /\ asJob = "yes"
    BY <1>2
  <2>2. outcome(ran.gave) = called(ran.gave)
    BY <2>1 DEF outcome, Gated
  <2> QED
    BY <1>1, <2>1, <2>2 DEF called, CallJob
<1>6. AnswerSaysWhatIsMissing'
  <2>1. CASE call.tool = "concern" /\ ran.gave.is = "list"
    <3> DEFINE list == ran.gave.list
               told == shape(call.op, list, call.limit, call.full)
    <3>1. /\ call.op \in ReadConcerns /\ call.args \in SUBSET ArgNames /\ call.limit \in Int /\ call.full \in BOOLEAN
          /\ Resolve(call.op, call.args)
      BY <1>2, <2>1, InputOf DEF checked
    <3>2. list \in Lists /\ (calledParams.limit = 0 \/ Len(list) <= calledParams.limit)
      BY <1>2, <2>1 DEF GaveConcern
    <3>3. call.op.Options => calledParams.limit = effectiveLimit(call.limit)
      BY <2>1, <3>1, EveryArgumentIsSent DEF calledParams
    <3>4. effectiveLimit(call.limit) # 0
      BY <3>1, DispatchAssumption DEF effectiveLimit
    <3>5. ToldOf(told, list, call.op, call.limit, call.full)
      <4>1. list \in Seq(Item)
        BY <3>2, ToolsAssumption
      <4>2. call.op.Options => Len(list) <= effectiveLimit(call.limit)
        BY <3>2, <3>3, <3>4
      <4> QED
        BY <3>1, <4>1, <4>2, ShapedListIsTold
    <3>6. result' = [is |-> "list", out |-> told]
      <4>1. outcome(ran.gave) = dispatched(ran.gave)
        BY <2>1 DEF outcome, Gated
      <4>2. dispatched(ran.gave) = [is |-> "list", out |-> told]
        BY <2>1 DEF dispatched
      <4> QED
        BY <1>1, <4>1, <4>2
    <3>7. result'.out = told /\ result'.is = "list" /\ ran'.gave.list = list /\ call' = call
      BY <1>1, <3>6
    <3> HIDE DEF told
    <3> QED
      BY <3>5, <3>7 DEF AnswerSaysWhatIsMissing, ToldOf
  <2>2. CASE ~(call.tool = "concern" /\ ran.gave.is = "list")
    <3>1. result'.is \in {"value", "job", "error"}
      BY <1>1, <2>2 DEF outcome, dispatched, called, CallJob, liveResource, decoded, Error
    <3> QED
      BY <3>1 DEF AnswerSaysWhatIsMissing
  <2> QED
    BY <2>1, <2>2
<1> QED
  BY <1>3, <1>4, <1>5, <1>6 DEF ToolInv

\* The answer is sent and the next call starts afresh.
LEMMA RespondKeeps ==
  ASSUME ToolInv, Respond
  PROVE  ToolInv'
<1>1. stage' = "idle" /\ ran' = None /\ result' = NoResult /\ link' # "up"
  BY DEF ToolInv, Stages, Respond
<1>2. Stages' /\ Asked' /\ Judged' /\ WhatRan' /\ OnlyPermittedRuns'
  BY <1>1 DEF Stages, Asked, Judged, WhatRan, OnlyPermittedRuns
<1> QED
  BY <1>1, <1>2, NotToldYet DEF ToolInv

\* A restart of the target takes the connection along, and the judgement with it.
LEMMA TargetRestartsKeeps ==
  ASSUME ToolInv, TargetRestarts, env' = env
  PROVE  ToolInv'
<1>1. link = "up" /\ link' = "down" /\ result = NoResult /\ UNCHANGED <<call, stage, asJob, ran, result>>
  BY DEF ToolInv, Stages, TargetRestarts
<1>2. Stages' /\ Asked' /\ Judged'
  BY <1>1 DEF ToolInv, Stages, Asked, Judged
<1>3. WhatRan' /\ OnlyPermittedRuns'
  BY <1>1 DEF ToolInv, WhatRan, OnlyPermittedRuns, calledMethod, calledParams, configParams
<1> QED
  BY <1>1, <1>2, <1>3, NotToldYet DEF ToolInv

\* No tool has been called.
LEMMA ToolInvInit == ServerInit => ToolInv
BY DEF ServerInit, ToolsInit, ToolInv, Stages, Asked, Judged, WhatRan, OnlyPermittedRuns, JobsCanBeFollowed,
       AnswerSaysWhatIsMissing, NoResult

\* Every step of the server keeps what is said of a tool call.
LEMMA ToolInvNext == ToolInv /\ [ServerNext]_serverVars => ToolInv'
<1> SUFFICES ASSUME ToolInv, [ServerNext]_serverVars PROVE ToolInv'
  OBVIOUS
<1>1. env' = env
  BY EnvironmentIsFixed
<1>2. CASE UNCHANGED toolVars
  <2> USE <1>1, <1>2 DEF toolVars
  <2>1. Stages' /\ Asked' /\ Judged'
    BY DEF ToolInv, Stages, Asked, Judged, calledMethod
  <2>2. WhatRan' /\ OnlyPermittedRuns'
    BY DEF ToolInv, WhatRan, OnlyPermittedRuns, calledMethod, calledParams, configParams
  <2>3. JobsCanBeFollowed' /\ AnswerSaysWhatIsMissing'
    BY DEF ToolInv, JobsCanBeFollowed, AnswerSaysWhatIsMissing
  <2> QED
    BY <2>1, <2>2, <2>3 DEF ToolInv
<1>3. CASE \E in \in Input : Invoke(in, boolVar(env.writes))
  BY <1>1, <1>3, InvokeKeeps
<1>4. CASE session
  BY <1>1, <1>4, SessionKeeps
<1>5. CASE methodMetadata(boolVar(env.writes)) \/ metadataFails
  BY <1>1, <1>5, MetadataKeeps
<1>6. CASE Call
  BY <1>1, <1>6, CallKeeps
<1>7. CASE jobsRefuses \/ CallFails
  <2>1. CASE jobsRefuses
    <3>1. ran = None
      BY <2>1 DEF ToolInv, Stages, jobsRefuses
    <3> QED
      BY <1>1, <2>1, <3>1, ToldPlainly DEF jobsRefuses, Refused
  <2>2. CASE CallFails
    BY <1>1, <2>2, ToldPlainly DEF CallFails, Error
  <2> QED
    BY <1>7, <2>1, <2>2
<1>8. CASE Answered
  BY <1>1, <1>8, AnsweredKeeps
<1>9. CASE Respond
  BY <1>9, RespondKeeps
<1>10. CASE TargetRestarts
  BY <1>1, <1>10, TargetRestartsKeeps
<1> QED
  BY <1>2, <1>3, <1>4, <1>5, <1>6, <1>7, <1>8, <1>9, <1>10, PartOfToolCall DEF ToolStep

\* The invariant of a tool call holds in every state of the server.
LEMMA ToolCorrect == ServerSpec => []ToolInv
BY ToolInvInit, ToolInvNext, PTL DEF ServerSpec

\* Whatever the tables of the gate hold and however releases of the target
\* differ, a method runs only under the release it was judged by, and with no
\* denied argument where its tool looks for one; in what call_method passes on
\* in nested objects nobody looks, see NoRouteAround.
THEOREM RunsWhatWasJudged == ServerSpec => []OnlyPermittedRuns
<1>1. ToolInv => OnlyPermittedRuns
  BY DEF ToolInv
<1> QED
  BY <1>1, ToolCorrect, PTL

\* A job that was started is answered as one, in every release.
THEOREM StartedJobsAreTold == ServerSpec => []JobsCanBeFollowed
<1>1. ToolInv => JobsCanBeFollowed
  BY DEF ToolInv
<1> QED
  BY <1>1, ToolCorrect, PTL

\* No operation of a concern tool loses an argument of its caller, however
\* many are supplied.
THEOREM EveryArgumentCounts == ServerSpec => []NoArgumentDropped
<1>1. ToolInv => NoArgumentDropped
  <2> SUFFICES ASSUME ToolInv, ran # None, call.tool = "concern"
               PROVE  /\ ran.params.args = call.args
                      /\ call.op.Options => ran.params.limit = effectiveLimit(call.limit)
    BY DEF NoArgumentDropped
  <2>1. call \in Input /\ checked(call) /\ ran.params = calledParams
    BY DEF ToolInv, Stages, Asked, WhatRan
  <2>2. /\ call.op \in ReadConcerns /\ call.args \in SUBSET ArgNames /\ call.limit \in Int
        /\ Resolve(call.op, call.args)
    BY <2>1, InputOf DEF checked
  <2>3. calledParams = middlewareParams(call.op, call.args, call.limit)
    BY DEF calledParams
  <2> QED
    BY <2>1, <2>2, <2>3, EveryArgumentIsSent
<1> QED
  BY <1>1, ToolCorrect, PTL

\* For lists and searches of any length, and any limit, what an answer lacks
\* it says, and nothing else.
THEOREM CompleteOrSaid == ServerSpec => []AnswerSaysWhatIsMissing
<1>1. ToolInv => AnswerSaysWhatIsMissing
  BY DEF ToolInv
<1> QED
  BY <1>1, ToolCorrect, PTL

-----------------------------------------------------------------------------
(* The inventory.                                                          *)

SectionStatus == {"idle", "open", "closed", "result", "error", "interrupted", "cancelled"}

\* What the summary was put together from stands as it was.
Assembled ==
  /\ \A s \in Sections : status[s] \notin {"idle", "open"}
  /\ out = [rows |-> [k \in Keys |-> apply(k)],
            errors |-> fail,
            truncated |-> \E s \in Bounded : ~Failing(s) /\ Cardinality(reply[s].rows) > datasetLimit]
  /\ tool = IF allFailed THEN "failed" ELSE "returned"

RowsAreRanks(rows) == \E n \in Nat : rows = 1..n

SummaryInv ==
  /\ status \in [Sections -> SectionStatus]
  /\ verdict \in [Sections -> Verdict \cup {"none"}]
  /\ DOMAIN reply = Sections
  /\ \A s \in Sections : status[s] = "result" => verdict[s] = "result"
  /\ \A s \in Sections : RowsAreRanks(reply[s].rows)
  /\ tool \in {"idle", "fanout", "returned", "failed"}
  /\ tool \in {"returned", "failed"} => Assembled

\* A step of the server is one of the inventory, or leaves it alone.
LEMMA PartOfInventory ==
  ASSUME [ServerNext]_serverVars
  PROVE  \/ UNCHANGED allVars \/ Begin \/ Assemble
         \/ tool = "fanout" /\ ClientCloses
         \/ \E s \in Sections : SectionRuns(s) \/ TargetAnswers(s)
BY DEF ServerNext, ToolCallBegins, ToolCallGoesOn, TargetActs, Main, Listener, World, serverVars

\* No rows are the first none.
LEMMA NoReplyIsRanks == RowsAreRanks(NoReply.rows)
<1>1. NoReply.rows = 1..0
  BY DEF NoReply
<1> QED
  BY <1>1 DEF RowsAreRanks

\* No section has been asked for.
LEMMA SummaryInvInit == ServerInit => SummaryInv
<1> SUFFICES ASSUME ServerInit PROVE SummaryInv
  OBVIOUS
<1>1. \A s \in Sections : RowsAreRanks(reply[s].rows)
  BY NoReplyIsRanks DEF ServerInit, InventoryInit
<1> QED
  BY <1>1 DEF ServerInit, InventoryInit, Init, SummaryInv, SectionStatus, Sections

\* Every step of the server keeps what is said of an inventory.
LEMMA SummaryInvNext == SummaryInv /\ [ServerNext]_serverVars => SummaryInv'
<1> SUFFICES ASSUME SummaryInv, [ServerNext]_serverVars PROVE SummaryInv'
  OBVIOUS
<1>1. ASSUME UNCHANGED <<status, verdict, reply, out>>, tool' = tool \/ (tool = "idle" /\ tool' = "fanout")
      PROVE  SummaryInv'
  <2>1. Assembled /\ tool' = tool => Assembled'
    BY <1>1 DEF Assembled, apply, shown, fail, allFailed, Failing
  <2> QED
    BY <1>1, <2>1 DEF SummaryInv
<1>2. CASE UNCHANGED allVars \/ Begin \/ ClientCloses
  BY <1>1, <1>2 DEF allVars, vars, Begin, ClientCloses, Close
<1>3. CASE Assemble
  <2>1. UNCHANGED <<status, verdict, reply>>
    BY <1>3 DEF Assemble, vars
  <2>2. Assembled'
    BY <1>3, <2>1 DEF Assemble, Assembled, apply, shown, fail, allFailed, Failing
  <2>3. tool' \in {"returned", "failed"}
    BY <1>3 DEF Assemble
  <2> QED
    BY <2>1, <2>2, <2>3 DEF SummaryInv
<1>4. ASSUME NEW s \in Sections, SectionRuns(s) PROVE SummaryInv'
  <2>1. tool' = "fanout" /\ UNCHANGED <<verdict, reply>>
    BY <1>4 DEF SectionRuns, Open, Refuse, Answer, GiveUp
  <2>2. PICK v \in SectionStatus : status' = [status EXCEPT ![s] = v] /\ (v = "result" => verdict[s] = "result")
    BY <1>4 DEF SectionRuns, Open, Refuse, Answer, GiveUp, SectionStatus, Verdict
  <2> QED
    BY <2>1, <2>2 DEF SummaryInv
<1>5. ASSUME NEW s \in Sections, TargetAnswers(s) PROVE SummaryInv'
  <2>1. /\ status[s] = "open" /\ UNCHANGED <<status, tool, out>>
        /\ verdict[s] = "none" /\ \E v \in Verdict : verdict' = [verdict EXCEPT ![s] = v]
    BY <1>5 DEF TargetAnswers, Apply
  <2>2. verdict' \in [Sections -> Verdict \cup {"none"}] /\ \A t \in Sections : t # s => verdict'[t] = verdict[t]
    BY <2>1 DEF SummaryInv
  <2>3. DOMAIN reply' = Sections /\ \A t \in Sections : RowsAreRanks(reply'[t].rows)
    <3>1. CASE UNCHANGED reply
      BY <3>1 DEF SummaryInv
    <3>2. CASE \E r \in Replies(s) : reply' = [reply EXCEPT ![s] = r]
      <4>1. PICK r \in Replies(s) : reply' = [reply EXCEPT ![s] = r]
        BY <3>2
      <4>2. RowsAreRanks(r.rows)
        BY InventoryAssumption DEF Replies, RowsAreRanks
      <4> QED
        BY <4>1, <4>2 DEF SummaryInv
    <3> QED
      BY <1>5, <3>1, <3>2 DEF TargetAnswers
  <2>4. tool \notin {"returned", "failed"}
    BY <2>1 DEF SummaryInv, Assembled
  <2> QED
    BY <2>1, <2>2, <2>3, <2>4 DEF SummaryInv
<1> QED
  BY <1>2, <1>3, <1>4, <1>5, PartOfInventory

\* The first rows of a section, up to a limit.
LEMMA FirstOfRanks ==
  ASSUME NEW n \in Nat, NEW limit \in Nat
  PROVE  {k \in 1..n : Cardinality({m \in 1..n : m < k}) < limit} = 1..(IF n <= limit THEN n ELSE limit)
<1>1. ASSUME NEW k \in 1..n PROVE Cardinality({m \in 1..n : m < k}) = k - 1
  <2>1. {m \in 1..n : m < k} = 1..(k - 1)
    OBVIOUS
  <2>2. 1 \in Int /\ k - 1 \in Int /\ (1 > k - 1 => k - 1 = 0) /\ (k - 1) - 1 + 1 = k - 1
    OBVIOUS
  <2>3. Cardinality(1..(k - 1)) = IF 1 > k - 1 THEN 0 ELSE (k - 1) - 1 + 1
    BY <2>2, FS_Interval
  <2> QED
    BY <2>1, <2>2, <2>3
<1>2. {k \in 1..n : Cardinality({m \in 1..n : m < k}) < limit} = {k \in 1..n : k - 1 < limit}
  BY <1>1
<1> QED
  BY <1>2

\* What is shown of a section that was read.
LEMMA ShownIsFirst ==
  ASSUME SummaryInv, NEW s \in Sections
  PROVE  /\ shown(s) \subseteq reply[s].rows
         /\ shown(s) # reply[s].rows =>
              s \in Bounded /\ Cardinality(reply[s].rows) > datasetLimit /\ Cardinality(shown(s)) = datasetLimit
<1>1. PICK n \in Nat : reply[s].rows = 1..n
  BY DEF SummaryInv, RowsAreRanks
<1>2. CASE s \in Bounded
  <2>1. shown(s) = 1..(IF n <= datasetLimit THEN n ELSE datasetLimit)
    <3>1. shown(s) = {k \in 1..n : Cardinality({m \in 1..n : m < k}) < datasetLimit}
      BY <1>1, <1>2 DEF shown
    <3> QED
      BY <3>1, FirstOfRanks, InventoryAssumption
  <2>2. Cardinality(1..n) = n /\ Cardinality(1..datasetLimit) = datasetLimit
    <3>1. ASSUME NEW m \in Nat PROVE Cardinality(1..m) = m
      <4>1. Cardinality(1..m) = IF 1 > m THEN 0 ELSE m - 1 + 1
        BY FS_Interval
      <4> QED
        BY <4>1
    <3> QED
      BY <3>1, InventoryAssumption
  <2>3. datasetLimit \in Nat
    BY InventoryAssumption
  <2>4. CASE n <= datasetLimit
    BY <1>1, <2>1, <2>4
  <2>5. CASE ~(n <= datasetLimit)
    <3>1. shown(s) = 1..datasetLimit /\ n > datasetLimit
      BY <2>1, <2>3, <2>5
    <3> QED
      BY <1>1, <1>2, <2>2, <2>3, <3>1
  <2> QED
    BY <2>4, <2>5
<1>3. CASE s \notin Bounded
  BY <1>3 DEF shown
<1> QED
  BY <1>2, <1>3

\* What the summary has of a section.
LEMMA ShownInSummary ==
  ASSUME SummaryInv, tool = "returned", NEW s \in Sections
  PROVE  ShownOf(s) = IF Failing(s) THEN {} ELSE shown(s)
<1>1. out.rows[KeyOf[s]] = apply(KeyOf[s])
  BY DEF SummaryInv, Assembled, Keys
<1>2. \A q : q \in apply(KeyOf[s]) /\ q[1] = s <=> ~Failing(s) /\ q \in {s} \X shown(s)
  BY DEF apply
<1>3. {q \in apply(KeyOf[s]) : q[1] = s} = IF Failing(s) THEN {} ELSE {s} \X shown(s)
  BY <1>2
<1>4. {p[2] : p \in {s} \X shown(s)} = shown(s)
  <2>1. ASSUME NEW r \in shown(s) PROVE r \in {p[2] : p \in {s} \X shown(s)}
    <3>1. <<s, r>> \in {s} \X shown(s) /\ <<s, r>>[2] = r
      OBVIOUS
    <3> QED
      BY <3>1
  <2> QED
    BY <2>1
<1> QED
  BY <1>1, <1>3, <1>4 DEF ShownOf

\* The errors of a summary are those of the sections that failed.
LEMMA ErrorsOfSummary ==
  ASSUME SummaryInv, tool = "returned", NEW s \in Sections
  PROVE  /\ Failing(s) => KeyOf[s] \in DOMAIN out.errors /\ s \in out.errors[KeyOf[s]]
         /\ ~Failing(s) /\ KeyOf[s] \in DOMAIN out.errors => s \notin out.errors[KeyOf[s]]
<1>1. out.errors = fail
  BY DEF SummaryInv, Assembled
<1> QED
  BY <1>1 DEF fail

\* However many rows the target has, and whichever sections fail and how, the
\* reader of a summary can tell what is missing from it.
THEOREM SummaryIsHonest == ServerSpec => []SummaryTellsAll
<1>1. ASSUME SummaryInv PROVE NothingSilentlyMissing
  <2> SUFFICES ASSUME tool = "returned", NEW s \in Sections, KeyOf[s] \notin DOMAIN out.errors
               PROVE  /\ verdict[s] = "result" /\ reply[s].decodes
                      /\ ShownOf(s) \subseteq reply[s].rows
                      /\ ShownOf(s) # reply[s].rows => out.truncated /\ Cardinality(ShownOf(s)) = datasetLimit
    BY DEF NothingSilentlyMissing
  <2>1. ~Failing(s)
    BY <1>1, ErrorsOfSummary
  <2>2. verdict[s] = "result" /\ reply[s].decodes
    BY <1>1, <2>1 DEF Failing, SummaryInv
  <2>3. ShownOf(s) = shown(s)
    BY <1>1, <2>1, ShownInSummary
  <2>4. s \in Bounded /\ Cardinality(reply[s].rows) > datasetLimit => out.truncated
    BY <1>1, <2>1 DEF SummaryInv, Assembled
  <2> QED
    BY <1>1, <2>2, <2>3, <2>4, ShownIsFirst
<1>2. SummaryInv => FailuresNamed
  BY ErrorsOfSummary, ShownInSummary DEF FailuresNamed
<1>3. SummaryInv => FailsOnlyOnNothing
  BY DEF SummaryInv, Assembled, FailsOnlyOnNothing, allFailed, Failing
<1>4. SummaryInv => SummaryTellsAll
  BY <1>1, <1>2, <1>3 DEF SummaryTellsAll
<1> QED
  BY <1>4, SummaryInvInit, SummaryInvNext, PTL DEF ServerSpec
=============================================================================
