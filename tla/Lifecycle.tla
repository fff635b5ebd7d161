----------------------------- MODULE Lifecycle -----------------------------
(***************************************************************************)
(* The process: main, run and runStdio of cmd/truenas-mcp/main.go. Over    *)
(* HTTP a goroutine listens and serves while main waits for it to fail or  *)
(* for a signal, upon which requests in flight are given ten seconds; over *)
(* stdio main connects to the target first and then serves the one client. *)
(*                                                                         *)
(* net/http's Server is external: ListenAndServe returns ErrServerClosed   *)
(* if Shutdown came first, whether before it has a listener or before it   *)
(* accepts from it, and Shutdown returns when no request is in flight. So  *)
(* is the SDK's Run, over stdio: when ctx is done or the client leaves it  *)
(* closes the session, takes no more requests, and returns when the one in *)
(* flight has, which nothing cancels.                                      *)
(***************************************************************************)
EXTENDS Config

CONSTANT Environments  \* the environments processes are started with

ASSUME EnvironmentsAssumption == Environments \subseteq Env

VARIABLES
  env,       \* flags and environment
  proc,      \* where main is
  ret,       \* the error run or runStdio returns
  exit,      \* how the process ended
  signalled, \* SIGINT or SIGTERM came, and ctx is done
  listener,  \* where the listening goroutine is
  errc,      \* the channel it answers on
  serving    \* Health.serving

lifeVars == <<env, proc, ret, exit, signalled, listener, errc, serving>>

LifeInit ==
  /\ env \in Environments
  /\ proc = "start"
  /\ ret = "nil"
  /\ exit = "no"
  /\ signalled = FALSE
  /\ listener = "none"
  /\ errc = "empty"
  /\ serving = FALSE

HTTP == ~env.stdio

-----------------------------------------------------------------------------
(* main, up to run or runStdio.                                            *)

InvalidConfiguration ==
  /\ proc = "start"
  /\ flagConflictErr(env) \/ ~Load(env)
  /\ proc' = "exited" /\ exit' = "failure"
  /\ UNCHANGED <<env, ret, signalled, listener, errc, serving>>

\* The process that probes another one, over plain HTTP whatever that one
\* speaks: it may find it healthy or not.
Healthcheck ==
  /\ proc = "start"
  /\ env.healthcheck /\ ~flagConflictErr(env) /\ Load(env)
  /\ proc' = "exited" /\ exit' \in {"success", "failure"}
  /\ UNCHANGED <<env, ret, signalled, listener, errc, serving>>

\* run, up to its select.
run ==
  /\ proc = "start"
  /\ HTTP /\ ~env.healthcheck /\ Load(env)
  /\ proc' = "select"
  /\ listener' = "starting"
  /\ serving' = TRUE
  /\ UNCHANGED <<env, ret, exit, signalled, errc>>

runStdio ==
  /\ proc = "start"
  /\ env.stdio /\ ~env.healthcheck /\ Load(env)
  /\ proc' = "connect"
  /\ UNCHANGED <<env, ret, exit, signalled, listener, errc, serving>>

\* The signal is asked for by run and runStdio; before that it kills.
Signal ==
  /\ ~signalled
  /\ proc # "exited"
  /\ signalled' = TRUE
  /\ IF proc = "start" THEN proc' = "exited" /\ exit' = "killed" ELSE UNCHANGED <<proc, exit>>
  /\ UNCHANGED <<env, ret, listener, errc, serving>>

Returns(err) == proc' = "returning" /\ ret' = err

-----------------------------------------------------------------------------
(* runStdio.                                                               *)

\* The provider is called once; it fails with the target, the key or ctx.
Connect ==
  /\ proc = "connect"
  /\ \/ ~signalled /\ proc' = "serve" /\ UNCHANGED ret
     \/ Returns("error")
  /\ UNCHANGED <<env, exit, signalled, listener, errc, serving>>

shutdownErr(err) == IF err = "canceled" THEN "nil" ELSE err

\* Run closes the session; if the client was leaving, it no longer says how.
StdioCanceled ==
  /\ proc \in {"serve", "closing"}
  /\ signalled
  /\ proc' = "closing" /\ ret' = shutdownErr("canceled")
  /\ UNCHANGED <<env, exit, signalled, listener, errc, serving>>

\* The client closes its end, or the pipe breaks.
ClientLeaves ==
  /\ proc = "serve"
  /\ proc' = "closing" /\ \E err \in {"nil", "error"} : ret' = shutdownErr(err)
  /\ UNCHANGED <<env, exit, signalled, listener, errc, serving>>

\* The request in flight has been answered, and Run returns.
StdioClosed(busy) ==
  /\ proc = "closing"
  /\ ~busy
  /\ Returns(ret)
  /\ UNCHANGED <<env, exit, signalled, listener, errc, serving>>

-----------------------------------------------------------------------------
(* run: the goroutine.                                                     *)

\* Shutdown was called: in one step here with SetUnhealthy, which precedes it.
shuttingDown == listener # "none" /\ ~serving

Ends(err) == errc' = err /\ listener' = IF err = "nil" THEN "closed" ELSE "failed"

\* Binding the address, loading the certificate: may fail.
Listen ==
  /\ listener = "starting"
  /\ IF shuttingDown THEN Ends("nil")
     ELSE Ends("error") \/ (listener' = "bound" /\ UNCHANGED errc)
  /\ UNCHANGED <<env, proc, ret, exit, signalled, serving>>

Serve ==
  /\ listener = "bound"
  /\ IF shuttingDown THEN Ends("nil") ELSE listener' = "accepting" /\ UNCHANGED errc
  /\ UNCHANGED <<env, proc, ret, exit, signalled, serving>>

ServeReturns ==
  /\ listener = "accepting"
  /\ shuttingDown
  /\ Ends("nil")
  /\ UNCHANGED <<env, proc, ret, exit, signalled, serving>>

AcceptFails ==
  /\ listener = "accepting"
  /\ ~shuttingDown
  /\ Ends("error")
  /\ UNCHANGED <<env, proc, ret, exit, signalled, serving>>

-----------------------------------------------------------------------------
(* run: its select. If both are ready either may be taken.                 *)

ListenerFailed ==
  /\ proc = "select"
  /\ errc # "empty"
  /\ Returns(errc)
  /\ errc' = "empty"
  /\ UNCHANGED <<env, exit, signalled, listener, serving>>

Shutdown ==
  /\ proc = "select"
  /\ signalled
  /\ proc' = "shutdown"
  /\ serving' = FALSE
  /\ UNCHANGED <<env, ret, exit, signalled, listener, errc>>

\* Mutant: what the goroutine has to say is not waited for.
DrainedUnheard(busy) ==
  /\ proc = "shutdown"
  /\ ~busy
  /\ Returns("nil")
  /\ UNCHANGED <<env, exit, signalled, listener, errc, serving>>

Drained(busy) ==
  /\ proc = "shutdown"
  /\ ~busy
  /\ proc' = "await"
  /\ UNCHANGED <<env, ret, exit, signalled, listener, errc, serving>>

\* Mutant: a request that takes its time is waited for.
NoDeadline(busy) == FALSE /\ UNCHANGED lifeVars

DeadlineExceeded(busy) ==
  /\ proc = "shutdown"
  /\ busy
  /\ Returns("error")
  /\ UNCHANGED <<env, exit, signalled, listener, errc, serving>>

ListenerDone ==
  /\ proc = "await"
  /\ errc # "empty"
  /\ Returns(errc)
  /\ errc' = "empty"
  /\ UNCHANGED <<env, exit, signalled, listener, serving>>

\* The deferred CloseAll, and the end of the process.
Exit ==
  /\ proc = "returning"
  /\ proc' = "exited"
  /\ exit' = IF ret = "nil" THEN "success" ELSE "failure"
  /\ UNCHANGED <<env, ret, signalled, listener, errc, serving>>

-----------------------------------------------------------------------------
\* What main does of its own accord, with busy for a request in flight.
MainStep(busy) ==
  InvalidConfiguration \/ Healthcheck \/ run \/ runStdio \/ Connect \/ StdioCanceled \/ StdioClosed(busy)
  \/ ListenerFailed \/ Shutdown \/ Drained(busy) \/ DeadlineExceeded(busy) \/ ListenerDone

ListenerStep == Listen \/ Serve \/ ServeReturns

Outside == Signal \/ ClientLeaves \/ AcceptFails

\* Whether a request sent now is taken up.
Accepting == (listener = "accepting" /\ ~shuttingDown) \/ proc = "serve"
=============================================================================
