------------------------------ MODULE AppLogs ------------------------------
(***************************************************************************)
(* apps(op="logs"): appLogs of internal/server/concern_tool.go and         *)
(* collectLogEntries of log_collector.go, reading a stream that keeps      *)
(* StreamContract. A forwarding goroutine decodes the events and hands     *)
(* them over one by one; the collector takes entries until one of its      *)
(* bounds is met; the deferred cancel then has to take the goroutine and   *)
(* the stream down with it.                                                *)
(*                                                                         *)
(* Time is abstracted to the order in which the timers fire: either may    *)
(* fire at any moment once it runs.                                        *)
(***************************************************************************)
EXTENDS StreamContract

CONSTANTS sub,        \* the one subscription of this tool call
          Limit,      \* effectiveLimit(in.Limit), the count bound
          ByteLimit,  \* logByteLimit
          MaxSize,    \* bound on the size of an entry
          MaxEvents   \* bound on the events the target sends

ASSUME AppLogsAssumption ==
  /\ Subs = {sub}
  /\ {Limit, ByteLimit, Capacity} \subseteq Nat \ {0}
  /\ {MaxSize, MaxEvents} \subseteq Nat
  /\ Events = [n : 1..MaxEvents, size : 0..MaxSize, decodes : BOOLEAN]

VARIABLES
  pc,         \* where appLogs is
  ctxDone,    \* the context of the tool call is done
  released,   \* the deferred cancel has run
  forwarder,  \* the goroutine: ranging over Events, offering an entry, ended
  offer,      \* the entry it offers
  entries,    \* result.Entries
  bytes,      \* the bytes in them
  bound,      \* result.Bound: count, bytes, quiet, deadline or canceled
  withheld,   \* result.ContentWithheld
  deadline,   \* the two timers: off, running or fired
  quiet,
  sent        \* every event the target sent while the stream was open

toolVars == <<pc, ctxDone, released>>
forwarderVars == <<forwarder, offer>>
resultVars == <<entries, bytes, bound, withheld>>
timerVars == <<deadline, quiet>>
allVars == <<vars, toolVars, forwarderVars, resultVars, timerVars, sent>>

AppLogsInit ==
  /\ Init
  /\ pc = "resolve" /\ ctxDone = FALSE /\ released = FALSE
  /\ forwarder = "none" /\ offer = <<>>
  /\ entries = <<>> /\ bytes = 0 /\ bound = "none" /\ withheld = FALSE
  /\ deadline = "off" /\ quiet = "off"
  /\ sent = <<>>

collectCtxDone == ctxDone \/ released

-----------------------------------------------------------------------------
(* appLogs up to the collection.                                           *)

\* The container is given, or the app has exactly one.
ResolveContainer ==
  /\ pc = "resolve"
  /\ pc' \in {"subscribe", "error"}
  /\ UNCHANGED <<vars, ctxDone, released, forwarderVars, resultVars, timerVars, sent>>

SubscribeRefused ==
  /\ pc = "subscribe"
  /\ pc' = "error" /\ released' = TRUE
  /\ UNCHANGED <<vars, ctxDone, forwarderVars, resultVars, timerVars, sent>>

SubscribeRegisters ==
  /\ pc = "subscribe"
  /\ Open(sub)
  /\ pc' = "subscribing"
  /\ UNCHANGED <<ctxDone, released, forwarderVars, resultVars, timerVars, sent>>

\* core.subscribe did not succeed: the stream is closed, unless it already is.
SubscribeFails ==
  /\ pc = "subscribing"
  /\ \/ \E why \in {"interrupted", "cancelled", "closed", "error"} : End(sub, why)
     \/ state[sub] = "ended" /\ UNCHANGED vars
  /\ pc' = "error" /\ released' = TRUE
  /\ UNCHANGED <<ctxDone, forwarderVars, resultVars, timerVars, sent>>

\* Mutant: the quiet interval runs from the start.
CollectBeginsQuiet ==
  /\ pc = "subscribing"
  /\ pc' = "collect"
  /\ forwarder' = "range"
  /\ deadline' = "running" /\ quiet' = "running"
  /\ UNCHANGED <<vars, ctxDone, released, offer, resultVars, sent>>

\* Mutant: the wait for the first entry has no bound.
CollectBeginsUnbounded ==
  /\ pc = "subscribing"
  /\ pc' = "collect"
  /\ forwarder' = "range"
  /\ UNCHANGED <<vars, ctxDone, released, offer, resultVars, timerVars, sent>>

\* Subscribe has returned: the goroutine starts, and the deadline. The quiet
\* interval does not: latency before the first entry is not silence.
CollectBegins ==
  /\ pc = "subscribing"
  /\ pc' = "collect"
  /\ forwarder' = "range"
  /\ deadline' = "running"
  /\ UNCHANGED <<vars, ctxDone, released, offer, resultVars, quiet, sent>>

-----------------------------------------------------------------------------
(* The forwarding goroutine. An event that does not decode is skipped.     *)

ForwarderReads ==
  /\ forwarder = "range"
  /\ Take(sub)
  /\ IF Head(buffer[sub]).decodes
     THEN forwarder' = "send" /\ offer' = <<Head(buffer[sub])>>
     ELSE UNCHANGED forwarderVars
  /\ UNCHANGED <<toolVars, resultVars, timerVars, sent>>

ForwarderEnds ==
  /\ \/ forwarder = "range" /\ buffer[sub] = <<>> /\ state[sub] = "ended"
     \/ forwarder = "send" /\ collectCtxDone
  /\ forwarder' = "ended" /\ offer' = <<>>
  /\ UNCHANGED <<vars, toolVars, resultVars, timerVars, sent>>

-----------------------------------------------------------------------------
(* collectLogEntries: one pass through the select. Which of several ready  *)
(* cases it takes is random.                                               *)

Stop(why) == bound' = why /\ pc' = "check"

fits(e) == e.size <= ByteLimit - bytes

CollectEntry ==
  /\ pc = "collect"
  /\ forwarder = "send"
  /\ forwarder' = "range" /\ offer' = <<>>
  /\ LET e == Head(offer)
     IN IF fits(e)
        THEN /\ entries' = Append(entries, e)
             /\ bytes' = bytes + e.size
             /\ IF Len(entries') = Limit THEN Stop("count") /\ UNCHANGED quiet
                ELSE IF bytes' = ByteLimit THEN Stop("bytes") /\ UNCHANGED quiet
                ELSE quiet' = "running" /\ UNCHANGED <<bound, pc>>
             /\ UNCHANGED withheld
        ELSE /\ Stop("bytes") /\ withheld' = TRUE
             /\ UNCHANGED <<entries, bytes, quiet>>
  /\ UNCHANGED <<vars, ctxDone, released, deadline, sent>>

\* The other cases; entries is closed when the goroutine has ended.
CollectStops ==
  /\ pc = "collect"
  /\ \/ collectCtxDone /\ Stop("canceled")
     \/ deadline = "fired" /\ Stop("deadline")
     \/ quiet = "fired" /\ Stop("quiet")
     \/ forwarder = "ended" /\ Stop("quiet")
  /\ UNCHANGED <<vars, ctxDone, released, forwarderVars, entries, bytes, withheld, timerVars, sent>>

\* Mutant: there is no deferred cancel.
ReturnUnreleased ==
  /\ pc = "check"
  /\ pc' = IF err[sub] = "open" THEN "result" ELSE "error"
  /\ UNCHANGED <<vars, ctxDone, released, forwarderVars, resultVars, timerVars, sent>>

\* subscription.Err decides whether there is a result; then the deferred cancel.
Return ==
  /\ pc = "check"
  /\ pc' = IF err[sub] = "open" THEN "result" ELSE "error"
  /\ released' = TRUE
  /\ UNCHANGED <<vars, ctxDone, forwarderVars, resultVars, timerVars, sent>>

TimerFires ==
  /\ \/ deadline = "running" /\ deadline' = "fired" /\ UNCHANGED quiet
     \/ quiet = "running" /\ quiet' = "fired" /\ UNCHANGED deadline
  /\ UNCHANGED <<vars, toolVars, forwarderVars, resultVars, sent>>

-----------------------------------------------------------------------------
(* The subscription's side, and the caller's context.                      *)

\* Mutant: an event that finds the buffer full is dropped.
dispatchNotificationDrops(e) ==
  \/ Push(sub, e)
  \/ state[sub] = "open" /\ Len(buffer[sub]) = Capacity /\ UNCHANGED vars

dispatchNotification(e) == Push(sub, e) \/ End(sub, "overflow")

TargetEvent ==
  /\ Len(sent) < MaxEvents
  /\ \E e \in Events :
       /\ e.n = Len(sent) + 1
       /\ e.decodes \/ e.size = 0
       /\ dispatchNotification(e)
       /\ sent' = Append(sent, e)
  /\ UNCHANGED <<toolVars, forwarderVars, resultVars, timerVars>>

ConnectionDies ==
  /\ state[sub] = "open"
  /\ Interrupt
  /\ UNCHANGED <<toolVars, forwarderVars, resultVars, timerVars, sent>>

ContextEnds ==
  /\ ~ctxDone
  /\ ctxDone' = TRUE
  /\ UNCHANGED <<vars, pc, released, forwarderVars, resultVars, timerVars, sent>>

\* The goroutine Subscribe leaves behind.
WatchContext ==
  /\ forwarder # "none"
  /\ collectCtxDone
  /\ End(sub, "cancelled")
  /\ UNCHANGED <<toolVars, forwarderVars, resultVars, timerVars, sent>>

-----------------------------------------------------------------------------
appLogs == ResolveContainer \/ SubscribeRefused \/ SubscribeRegisters \/ SubscribeFails \/ CollectBegins
collectLogEntries == CollectEntry \/ CollectStops \/ Return
forward == ForwarderReads \/ ForwarderEnds

AppLogsNext ==
  \/ appLogs \/ forward \/ collectLogEntries \/ TimerFires
  \/ TargetEvent \/ ConnectionDies \/ ContextEnds \/ WatchContext

AppLogsSpec == AppLogsInit /\ [][AppLogsNext]_allVars

\* Goroutines that can run run, and a timer fires in the end. Nothing is
\* assumed of the target, the connection or the caller's context.
AppLogsFairSpec ==
  /\ AppLogsSpec
  /\ WF_allVars(forward)
  /\ WF_allVars(collectLogEntries)
  /\ WF_allVars(WatchContext)
  /\ WF_allVars(TimerFires)

-----------------------------------------------------------------------------
(* Properties.                                                             *)

\* A log without holes: the entries are events the target sent, in order, and
\* every one before the last of them that decodes is there, although the
\* buffer in front of the forwarding goroutine is bounded and the read loop
\* never waits for it. And "a finite, bounded snapshot": never more entries
\* than asked for, nor more bytes than the limit, to the byte.
NoHoles ==
  /\ \A i \in DOMAIN entries :
       LET n == entries[i].n
       IN /\ n \in DOMAIN sent /\ entries[i] = sent[n] /\ sent[n].decodes
          /\ \A k \in 1..n : sent[k].decodes => \E j \in 1..i : entries[j] = sent[k]
          /\ \A j \in DOMAIN entries : i < j => n < entries[j].n
  /\ Len(entries) <= Limit
  /\ bytes <= ByteLimit
  /\ withheld => bound = "bytes"

\* "mistake ordinary subscribe latency ... for silence and end the collection
\* empty": a result that says the stream went quiet holds what was there
\* before, and a stream that ended because it overflowed or the connection
\* died is an error, never a short log that looks complete. (Once the caller
\* has cancelled, the goroutine may close entries before the watcher closes the
\* subscription, and the answer nobody waits for may say quiet.)
QuietIsSilence ==
  pc = "result" /\ bound = "quiet" /\ ~ctxDone => entries # <<>> /\ quiet = "fired"

\* "The deadline alone bounds the wait for that first entry": the tool call
\* returns, whatever the target, the connection or the caller do.
CollectionEnds == (pc = "collect") ~> (pc \in {"result", "error"})

\* "Releasing the child context closes the shared connection's stream on every
\* result path": neither the stream nor the goroutine outlives the tool call.
NothingLeftBehind ==
  (pc \in {"result", "error"}) ~> (state[sub] # "open" /\ forwarder \in {"none", "ended"})
=============================================================================
