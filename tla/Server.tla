------------------------------- MODULE Server -------------------------------
(***************************************************************************)
(* The running server: the process of Lifecycle, and the tool calls that   *)
(* clients make of it, by the paths of Tools, Download and Inventory. At   *)
(* most one tool call is in flight: calls share the connection, the        *)
(* session provider and the task registry, which have modules of their     *)
(* own, and tables nothing writes to.                                      *)
(***************************************************************************)
EXTENDS Inventory, Tools, Download, Lifecycle

serverVars == <<allVars, toolVars, fileVars, lifeVars>>

ServerInit == InventoryInit /\ ToolsInit /\ FileInit /\ LifeInit

busy == stage # "idle" \/ reading # "idle" \/ tool = "fanout"
Alive == proc # "exited"

-----------------------------------------------------------------------------
ToolCallBegins ==
  /\ Accepting
  /\ ~busy /\ tool = "idle"
  /\ \/ (\E in \in Input : Invoke(in, boolVar(env.writes))) /\ UNCHANGED <<fileVars, allVars>>
     \/ StartDownload /\ UNCHANGED <<toolVars, allVars>>
     \/ Begin /\ UNCHANGED <<toolVars, fileVars>>
  /\ UNCHANGED lifeVars

ToolCallGoesOn ==
  /\ Alive
  /\ \/ ToolStep(boolVar(env.writes)) /\ UNCHANGED <<fileVars, allVars>>
     \/ DownloadStep /\ UNCHANGED <<toolVars, allVars>>
     \/ (Assemble \/ \E s \in Sections : SectionRuns(s)) /\ UNCHANGED <<toolVars, fileVars>>
  /\ UNCHANGED lifeVars

\* External: the target, and the network.
TargetActs ==
  /\ Alive
  /\ \/ TargetRestarts /\ UNCHANGED <<fileVars, allVars>>
     \/ DownloadJobEnds /\ UNCHANGED <<toolVars, allVars>>
     \/ (tool = "fanout" /\ ClientCloses) /\ UNCHANGED <<toolVars, fileVars>>
     \/ (\E s \in Sections : TargetAnswers(s)) /\ UNCHANGED <<toolVars, fileVars>>
  /\ UNCHANGED lifeVars

Main == (MainStep(busy) \/ Exit) /\ UNCHANGED <<allVars, toolVars, fileVars>>
Listener == Alive /\ ListenerStep /\ UNCHANGED <<allVars, toolVars, fileVars>>
World == Alive /\ Outside /\ UNCHANGED <<allVars, toolVars, fileVars>>

ServerNext == ToolCallBegins \/ ToolCallGoesOn \/ TargetActs \/ Main \/ Listener \/ World

ServerSpec == ServerInit /\ [][ServerNext]_serverVars

\* Both goroutines are scheduled. Nothing is assumed of the tool calls, of the
\* target or of the clients.
FairServerSpec == ServerSpec /\ WF_serverVars(Main) /\ WF_serverVars(Listener)

-----------------------------------------------------------------------------
(* Properties.                                                             *)

\* "an ALLOWLIST ... fails closed": what the target runs for call_method and
\* for a configuration write is no method denied in every form; it carries no
\* argument denied to it at the top level of an object, nor, for a
\* configuration write, in its options; and for call_method it was exposed by
\* the very release that runs it, whatever the target was when it was asked:
\* with the write tier off it only reads. What call_method passes on in nested
\* objects is left to NoRouteAround.
OnlyPermittedRuns ==
  (ran # None /\ call.tool \in Gated) =>
    LET info == Catalogue[ran.release][calledMethod]
        looked == IF call.tool = "call_method" THEN {"top"} ELSE {"top", "options"}
    IN /\ calledMethod \notin denied
       /\ \A w \in looked : At(w, ran.params) \cap deniedWith[calledMethod] = {}
       /\ call.tool = "config_write" => boolVar(env.writes)
       /\ call.tool = "call_method" =>
            /\ calledMethod \notin withheld /\ ~info.pipe
            /\ boolVar(env.writes) \/ readOnly(info) \/ IsSafeUnroledRead(calledMethod)
            /\ info.roles # {} \/ IsSafeUnroledRead(calledMethod)

\* "It applies to every path that can reach a middleware method ... so there is
\* no route around it" (safety.go), "Options nest one level on some methods, so
\* check inside too": nothing that runs carries an argument denied to it,
\* neither at the top of an object nor in its options.
NoRouteAround ==
  (ran # None /\ call.tool \in Gated) =>
    /\ calledMethod \notin denied
    /\ \A w \in {"top", "options"} : At(w, ran.params) \cap deniedWith[calledMethod] = {}

\* "Operations that take time return a job id immediately": a job that the
\* target started is answered with its id as such, or with an error, unless
\* the target had not said whether the method is a job.
JobsCanBeFollowed ==
  (ran # None /\ ran.gave.is = "id" /\ result.is \notin {"nothing", "error"}) =>
    result.is = "job" \/ asJob = "unknown"

\* "silently dropping it would return a confidently wrong answer": every
\* argument the caller of a concern tool supplied reaches the target, and the
\* limit too where the target has to apply it.
NoArgumentDropped ==
  (ran # None /\ call.tool = "concern") =>
    /\ ran.params.args = call.args
    /\ call.op.Options => ran.params.limit = effectiveLimit(call.limit)

\* "a truncated answer never reads as a complete one": what a list lacks of
\* what the target gave is announced, items and fields, and nothing is
\* announced that it does not lack; what search_methods lists this server
\* runs, and what it does not list it counts.
AnswerSaysWhatIsMissing ==
  /\ result.is = "list" =>
       LET got == ran.gave.list
           told == result.out
       IN /\ told.truncated <=> Len(told.items) < Len(got)
          /\ told.total = IF call.op.Options THEN 0 ELSE Len(got)
          /\ Len(told.items) <= effectiveLimit(call.limit)
          /\ told.projected <=> \E i \in DOMAIN told.items : told.items[i] # got[i]
          /\ call.full => ~told.projected
  /\ result.is = "methods" =>
       LET found == call.query \cap DOMAIN Catalogue[release]
       IN /\ \A m \in result.listed : CheckDiscoverable(m, Catalogue[release][m], boolVar(env.writes))
          /\ (result.matches = 0 /\ result.hidden = 0) => result.listed = found
          /\ result.matches = 0 => Cardinality(result.listed) + result.hidden = Cardinality(found)

\* "the status code alone does not prove it succeeded": what is told as text
\* and not said to be cut is the whole of a file that is text from end to end,
\* unless its job was still running when the wait for it ended; what is said to
\* be cut was cut at the limit, holds no NUL, and is UTF-8 but for fewer than
\* UTFMax bytes at its end. Those need not be the start of a character, and
\* what follows the limit was not looked at. A text file is never taken for a
\* binary one because of where it was cut or of anything past the limit.
FileAsItIs ==
  /\ content.is = "text" =>
       /\ content.truncated =>
            content.len = fileByteLimit /\ file.size > fileByteLimit /\ file.tail < UTFMax
       /\ ~content.truncated => (content.len = file.size /\ file.whole /\ file.nul = 0) \/ doubted
       /\ file.nul \notin 1..content.len
  /\ content.is = "binary" => file.nul \in 1..fileByteLimit \/ ~file.whole \/ doubted

\* "refuses to start on invalid configuration rather than running degraded":
\* what serves HTTP in the clear was told to, both halves of a certificate or
\* neither were given, keys come from callers over HTTP and from the operator
\* over stdio, and an authorization server has an https issuer and a key. Only
\* the word for true opens anything: a switch that says neither is one that is
\* off, which nobody is told of.
NeverServesDegraded ==
  Accepting =>
    IF HTTP
    THEN /\ ~(env.cert /\ env.key) => env.plaintext = "true" /\ ~env.cert /\ ~env.key
         /\ ~env.apiKey
         /\ env.issuer # "unset" => env.issuer = "ok" /\ env.masterKey # "bad" /\ env.accessTTL # "zero"
    ELSE env.apiKey

\* A process that served HTTP and reports success was told to stop, had a
\* listener that did not fail, and cut no tool call off.
CleanExitIsClean ==
  (proc \in {"returning", "exited"} /\ HTTP /\ listener # "none" /\ ret = "nil") =>
    /\ signalled /\ ~busy
    /\ listener = "closed"

\* A signal ends the process: over HTTP before the listener is up, while it
\* comes up, and while a tool call is in flight that never returns, by the
\* deadline of Shutdown. Over stdio there is no deadline, and only a tool call
\* that never returns keeps the process.
SignalEnds == (signalled ~> (proc = "exited")) \/ <>[](env.stdio /\ busy)
=============================================================================
