--------------------------- MODULE Subscriptions ---------------------------
(***************************************************************************)
(* Event-source subscriptions of internal/truenas/client.go, on top of the *)
(* calls of RpcClient: Subscribe, the routing of notifications to bounded  *)
(* buffers, and the asynchronous core.unsubscribe that must end a stream   *)
(* on the target before a replacement for the same source may be opened.   *)
(*                                                                         *)
(* A member of Subs is one invocation of Subscribe; it is also its own     *)
(* core.subscribe call. An event is the subscription whose target-side     *)
(* stream produced it, which the notification itself does not say: it      *)
(* names the source only.                                                  *)
(***************************************************************************)
EXTENDS RpcClient

CONSTANTS Subs,       \* the invocations of Subscribe
          Sources,    \* event-source names
          SourceOf,   \* SourceOf[s]: the source s subscribes to
          CleanupOf,  \* CleanupOf[s]: the core.unsubscribe call that ends s
          Capacity,   \* the buffer of a subscription, 64 in the code
          MaxEvents   \* bound on the notifications the target sends

ASSUME SubsAssumption ==
  /\ Subs \subseteq Calls
  /\ SourceOf \in [Subs -> Sources]
  /\ CleanupOf \in [Subs -> Calls \ Subs]
  /\ \A s, t \in Subs : CleanupOf[s] = CleanupOf[t] => s = t
  /\ Capacity \in Nat \ {0} /\ MaxEvents \in Nat

VARIABLES
  subscriptions,  \* Client.subscriptions, from source to subscription
  unsubscribing,  \* Client.unsubscribing, from source to the subscription it ends
  spc,            \* where each Subscribe, and then its context watcher, is
  awaits,         \* the cleanup a Subscribe waits for, its local cleanup
  cancelled,      \* the contexts that are done
  subErr,         \* why a subscription was closed, "open" before it is
  events,         \* subscription.events
  cleanup,        \* where the goroutine of unsubscribeAsync is
  doneCloses,     \* how often subscriptionCleanup.done was closed
  streams,        \* the streams open on the target
  emitted         \* how many notifications the target has sent

regVars == <<subscriptions, unsubscribing, subErr, cleanup, doneCloses>>
subVars == <<regVars, spc, awaits, cancelled, events, streams, emitted>>
allVars == <<vars, subVars>>

Event(s) == [id |-> 0, body |-> Body("event", s)]
Undone == {"idle", "enter", "await", "calling"}

SubsTypeOK ==
  /\ DOMAIN subscriptions \subseteq Sources
  /\ \A x \in DOMAIN subscriptions : subscriptions[x] \in Subs /\ SourceOf[subscriptions[x]] = x
  /\ DOMAIN unsubscribing \subseteq Sources
  /\ \A x \in DOMAIN unsubscribing : unsubscribing[x] \in Subs /\ SourceOf[unsubscribing[x]] = x
  /\ spc \in [Subs -> Undone \cup {"open", "ended", "failed"}]
  /\ awaits \in [Subs -> Subs]
  /\ cancelled \subseteq Subs
  /\ subErr \in [Subs -> {"open", "interrupted", "cancelled", "closed", "error", "overflow"}]
  /\ events \in [Subs -> Seq(Subs)] /\ \A s \in Subs : Len(events[s]) <= Capacity
  /\ cleanup \in [Subs -> {"none", "calling", "clear", "finished"}]
  /\ doneCloses \in [Subs -> Nat]
  /\ streams \subseteq Subs
  /\ emitted \in 0..MaxEvents

SubsInit ==
  /\ Init
  /\ subscriptions = [x \in {} |-> NoCall] /\ unsubscribing = [x \in {} |-> NoCall]
  /\ spc = [s \in Subs |-> "idle"]
  /\ awaits = [s \in Subs |-> s]
  /\ cancelled = {}
  /\ subErr = [s \in Subs |-> "open"]
  /\ events = [s \in Subs |-> <<>>]
  /\ cleanup = [s \in Subs |-> "none"]
  /\ doneCloses = [s \in Subs |-> 0]
  /\ streams = {}
  /\ emitted = 0

Registered(s) == SourceOf[s] \in DOMAIN subscriptions /\ subscriptions[SourceOf[s]] = s
Cleaning(s) == SourceOf[s] \in DOMAIN unsubscribing /\ unsubscribing[SourceOf[s]] = s
Put(f, x, s) == [y \in DOMAIN f \cup {x} |-> IF y = x THEN s ELSE f[y]]

-----------------------------------------------------------------------------
(* Ending a subscription: endSubscription and unregisterSubscriptionLocked *)
(* under mu, then unsubscribeAsync starts a goroutine.                     *)

\* Mutant: no cleanup is recorded for the replacement to wait on.
endSubscriptionUnrecorded(s, why, unsubscribe) ==
  IF Registered(s)
  THEN /\ subscriptions' = Without(subscriptions, SourceOf[s])
       /\ subErr' = [subErr EXCEPT ![s] = why]
       /\ cleanup' = [cleanup EXCEPT ![s] = IF unsubscribe THEN "calling" ELSE @]
       /\ UNCHANGED <<unsubscribing, doneCloses>>
  ELSE UNCHANGED regVars

\* Mutant: the events channel is closed and the subscription left registered.
endSubscriptionRegistered(s, why, unsubscribe) ==
  IF Registered(s)
  THEN /\ subErr' = [subErr EXCEPT ![s] = why]
       /\ cleanup' = [cleanup EXCEPT ![s] = IF unsubscribe THEN "calling" ELSE @]
       /\ UNCHANGED <<subscriptions, unsubscribing, doneCloses>>
  ELSE UNCHANGED regVars

endSubscription(s, why, unsubscribe) ==
  IF Registered(s)
  THEN /\ subscriptions' = Without(subscriptions, SourceOf[s])
       /\ subErr' = [subErr EXCEPT ![s] = IF @ = "open" THEN why ELSE @]
       /\ IF unsubscribe
          THEN /\ unsubscribing' = Put(unsubscribing, SourceOf[s], s)
               /\ cleanup' = [cleanup EXCEPT ![s] = "calling"]
          ELSE UNCHANGED <<unsubscribing, cleanup>>
       /\ UNCHANGED doneCloses
  ELSE UNCHANGED regVars

-----------------------------------------------------------------------------
(* Subscribe.                                                              *)

SubscribeBegin(s) ==
  /\ spc[s] = "idle"
  /\ spc' = [spc EXCEPT ![s] = IF s \in cancelled THEN "failed" ELSE "enter"]
  /\ UNCHANGED <<vars, regVars, awaits, cancelled, events, streams, emitted>>

\* The loop's section under mu, by its four exits.
SubscribeRefused(s) ==
  /\ spc[s] = "enter"
  /\ closed \/ readErr \/ SourceOf[s] \in DOMAIN subscriptions
  /\ spc' = [spc EXCEPT ![s] = "failed"]
  /\ UNCHANGED <<vars, regVars, awaits, cancelled, events, streams, emitted>>

SubscribeAwaits(s) ==
  /\ spc[s] = "enter"
  /\ ~closed /\ ~readErr /\ SourceOf[s] \notin DOMAIN subscriptions
  /\ SourceOf[s] \in DOMAIN unsubscribing
  /\ awaits' = [awaits EXCEPT ![s] = unsubscribing[SourceOf[s]]]
  /\ spc' = [spc EXCEPT ![s] = "await"]
  /\ UNCHANGED <<vars, regVars, cancelled, events, streams, emitted>>

\* Mutant: a replacement does not look for a cleanup under way.
SubscribeRegistersAtOnce(s) ==
  /\ spc[s] = "enter"
  /\ ~closed /\ ~readErr /\ SourceOf[s] \notin DOMAIN subscriptions
  /\ subscriptions' = Put(subscriptions, SourceOf[s], s)
  /\ spc' = [spc EXCEPT ![s] = "calling"]
  /\ UNCHANGED <<vars, unsubscribing, subErr, cleanup, doneCloses, awaits, cancelled,
                 events, streams, emitted>>

SubscribeRegisters(s) ==
  /\ spc[s] = "enter"
  /\ ~closed /\ ~readErr /\ SourceOf[s] \notin DOMAIN subscriptions
  /\ SourceOf[s] \notin DOMAIN unsubscribing
  /\ subscriptions' = Put(subscriptions, SourceOf[s], s)
  /\ spc' = [spc EXCEPT ![s] = "calling"]
  /\ UNCHANGED <<vars, unsubscribing, subErr, cleanup, doneCloses, awaits, cancelled,
                 events, streams, emitted>>

\* The select on cleanup.done and the context.
SubscribeWakes(s) ==
  /\ spc[s] = "await"
  /\ \/ doneCloses[awaits[s]] > 0 /\ spc' = [spc EXCEPT ![s] = "enter"]
     \/ s \in cancelled /\ spc' = [spc EXCEPT ![s] = "failed"]
  /\ UNCHANGED <<vars, regVars, awaits, cancelled, events, streams, emitted>>

\* Call has returned. Only the target's refusal needs no unsubscribe.
SubscribeReturns(s) ==
  /\ spc[s] = "calling"
  /\ pc[s] = "done"
  /\ IF outcome[s].how = "result"
     THEN /\ spc' = [spc EXCEPT ![s] = "open"]
          /\ UNCHANGED regVars
     ELSE /\ spc' = [spc EXCEPT ![s] = "failed"]
          /\ endSubscription(s, outcome[s].how, outcome[s].how # "error")
  /\ UNCHANGED <<vars, awaits, cancelled, events, streams, emitted>>

\* The goroutine Subscribe leaves behind: the context, or sub.done.
WatchContext(s) ==
  /\ spc[s] = "open"
  /\ s \in cancelled \/ subErr[s] # "open"
  /\ spc' = [spc EXCEPT ![s] = "ended"]
  /\ endSubscription(s, "cancelled", TRUE)
  /\ UNCHANGED <<vars, awaits, cancelled, events, streams, emitted>>

-----------------------------------------------------------------------------
(* unsubscribeAsync.                                                       *)

\* Mutant: the error of core.unsubscribe is ignored.
CleanupReturnsAnyway(s) ==
  /\ cleanup[s] = "calling"
  /\ pc[CleanupOf[s]] = "done"
  /\ cleanup' = [cleanup EXCEPT ![s] = "clear"]
  /\ UNCHANGED <<vars, subscriptions, unsubscribing, subErr, doneCloses, spc, awaits,
                 cancelled, events, streams, emitted>>

\* What the target would apply after the link is gone is nobody's stream and
\* can no longer be answered: it is dropped with the link.
LinkDrops ==
  /\ streams' = {} /\ outbox' = <<>> /\ serving' = {}

\* An unsubscribe that did not succeed costs the connection. The streams are
\* the connection's: they end with it.
CleanupReturns(s) ==
  /\ cleanup[s] = "calling"
  /\ pc[CleanupOf[s]] = "done"
  /\ IF outcome[CleanupOf[s]].how = "result"
     THEN UNCHANGED <<link, streams, outbox, serving>>
     ELSE link' = "closed" /\ LinkDrops
  /\ cleanup' = [cleanup EXCEPT ![s] = "clear"]
  /\ UNCHANGED <<clientVars, callVars, inbox, verdict, subscriptions, unsubscribing,
                 subErr, doneCloses, spc, awaits, cancelled, events, emitted>>

\* Mutant: the goroutine closes done without asking whose cleanup it is.
CleanupClearsBlindly(s) ==
  /\ cleanup[s] = "clear"
  /\ cleanup' = [cleanup EXCEPT ![s] = "finished"]
  /\ unsubscribing' = Without(unsubscribing, SourceOf[s])
  /\ doneCloses' = [doneCloses EXCEPT ![s] = @ + 1]
  /\ UNCHANGED <<vars, subscriptions, subErr, spc, awaits, cancelled, events, streams, emitted>>

CleanupClears(s) ==
  /\ cleanup[s] = "clear"
  /\ cleanup' = [cleanup EXCEPT ![s] = "finished"]
  /\ IF Cleaning(s)
     THEN /\ unsubscribing' = Without(unsubscribing, SourceOf[s])
          /\ doneCloses' = [doneCloses EXCEPT ![s] = @ + 1]
     ELSE UNCHANGED <<unsubscribing, doneCloses>>
  /\ UNCHANGED <<vars, subscriptions, subErr, spc, awaits, cancelled, events, streams, emitted>>

-----------------------------------------------------------------------------
(* The read loop: dispatchNotification, and what failPending adds.         *)

\* The buffer takes the event, or the subscription is ended: the read loop
\* never waits for a consumer.
dispatchNotification(source, stream) ==
  IF source \notin DOMAIN subscriptions
  THEN UNCHANGED <<regVars, events>>
  ELSE LET t == subscriptions[source]
       IN IF Len(events[t]) < Capacity
          THEN /\ events' = [events EXCEPT ![t] = Append(@, stream)]
               /\ UNCHANGED regVars
          ELSE /\ endSubscription(t, "overflow", TRUE)
               /\ UNCHANGED events

IsEvent == inbox # <<>> /\ Head(inbox).body.how = "event"

ReadEvent ==
  /\ ~readErr
  /\ IsEvent
  /\ dispatchNotification(SourceOf[Head(inbox).body.re], Head(inbox).body.re)
  /\ inbox' = Tail(inbox)
  /\ UNCHANGED <<clientVars, callVars, link, outbox, targetVars, spc, awaits, cancelled,
                 streams, emitted>>

\* Mutant: the subscriptions are closed, the cleanups under way forgotten.
failSubscriptionsOnly ==
  /\ subErr' = [s \in Subs |-> IF Registered(s) THEN "interrupted" ELSE subErr[s]]
  /\ subscriptions' = [x \in {} |-> NoCall]
  /\ unsubscribing' = [x \in {} |-> NoCall]
  /\ UNCHANGED <<cleanup, doneCloses, spc, awaits, cancelled, events, streams, emitted>>

\* Mutant: the cleanups are released, the subscriptions left as they are.
failCleanupsOnly ==
  /\ doneCloses' = [s \in Subs |-> IF Cleaning(s) THEN doneCloses[s] + 1 ELSE doneCloses[s]]
  /\ unsubscribing' = [x \in {} |-> NoCall]
  /\ UNCHANGED <<subscriptions, subErr, cleanup, spc, awaits, cancelled, events, streams, emitted>>

failSubscriptions ==
  /\ subErr' = [s \in Subs |-> IF Registered(s) THEN "interrupted" ELSE subErr[s]]
  /\ subscriptions' = [x \in {} |-> NoCall]
  /\ doneCloses' = [s \in Subs |-> IF Cleaning(s) THEN doneCloses[s] + 1 ELSE doneCloses[s]]
  /\ unsubscribing' = [x \in {} |-> NoCall]
  /\ UNCHANGED <<cleanup, spc, awaits, cancelled, events, streams, emitted>>

SubsReadLoop ==
  \/ ReadEvent
  \/ ~IsEvent /\ ReadResponse /\ UNCHANGED subVars
  \/ ReadGarbled /\ failSubscriptions
  \/ ReadFails /\ failSubscriptions

-----------------------------------------------------------------------------
(* The callers, external: contexts end, the consumer reads events.         *)

\* (A context that ends after its Subscribe and watcher are gone is unobserved.)
Cancel(s) ==
  /\ s \notin cancelled /\ spc[s] \notin {"ended", "failed"}
  /\ cancelled' = cancelled \cup {s}
  /\ UNCHANGED <<vars, regVars, spc, awaits, events, streams, emitted>>

Consume(s) ==
  /\ spc[s] \in {"open", "ended"}
  /\ events[s] # <<>>
  /\ events' = [events EXCEPT ![s] = Tail(@)]
  /\ UNCHANGED <<vars, regVars, spc, awaits, cancelled, streams, emitted>>

\* The calls the subscriptions make. The cleanup's context is its five-second
\* timer, the subscribe call's is the caller's.
Started(c) ==
  \/ c \in Subs /\ spc[c] = "calling"
  \/ \E s \in Subs : CleanupOf[s] = c /\ cleanup[s] = "calling"

CallStarts(c) == Started(c) /\ (Register(c) \/ RefuseClosed(c)) /\ UNCHANGED subVars
CallWrites(c) == (Write(c) \/ WriteFails(c)) /\ UNCHANGED subVars
CallReceives(c) == Receive(c) /\ UNCHANGED subVars
CallContextDone(c) == (c \in Subs => c \in cancelled) /\ ContextDone(c) /\ UNCHANGED subVars

-----------------------------------------------------------------------------
(* The target, external: a stream per core.subscribe that succeeded, ended *)
(* by core.unsubscribe of its source or with the connection.               *)

StreamsAfter(c) ==
  IF verdict'[c] = "error" THEN streams
  ELSE IF c \in Subs THEN streams \cup {c}
  ELSE LET source == SourceOf[CHOOSE s \in Subs : CleanupOf[s] = c]
       IN {t \in streams : SourceOf[t] # source}

TargetServes ==
  /\ link = "up"
  /\ TargetApply
  /\ streams' = StreamsAfter(Head(outbox).call)
  /\ UNCHANGED <<regVars, spc, awaits, cancelled, events, emitted>>

TargetReplies == TargetReply /\ UNCHANGED subVars

\* Of the frames for nobody only the one that ends the read loop matters here.
TargetGarbles ==
  /\ Readable
  /\ \A i \in DOMAIN inbox : inbox[i] # Garbled
  /\ inbox' = Append(inbox, Garbled)
  /\ UNCHANGED <<clientVars, callVars, link, outbox, targetVars, subVars>>

TargetEvent ==
  /\ Readable
  /\ emitted < MaxEvents
  /\ \E s \in streams : inbox' = Append(inbox, Event(s))
  /\ emitted' = emitted + 1
  /\ UNCHANGED <<clientVars, callVars, link, outbox, targetVars, regVars, spc, awaits,
                 cancelled, events, streams>>

LinkEnds ==
  /\ \/ link = "up" /\ link' = "lost"
     \/ closed /\ link # "closed" /\ link' = "closed"
  /\ LinkDrops
  /\ UNCHANGED <<clientVars, callVars, inbox, verdict, regVars, spc, awaits, cancelled, events,
                 emitted>>

-----------------------------------------------------------------------------
Subscribe(s) ==
  \/ SubscribeBegin(s) \/ SubscribeRefused(s) \/ SubscribeAwaits(s) \/ SubscribeRegisters(s)
  \/ SubscribeWakes(s) \/ SubscribeReturns(s) \/ WatchContext(s)

unsubscribeAsync(s) == CleanupReturns(s) \/ CleanupClears(s)

SubsNext ==
  \/ \E s \in Subs : Subscribe(s) \/ unsubscribeAsync(s) \/ Cancel(s) \/ Consume(s)
  \/ \E c \in Calls : CallStarts(c) \/ CallWrites(c) \/ CallReceives(c) \/ CallContextDone(c)
  \/ SubsReadLoop
  \/ Close /\ UNCHANGED subVars
  \/ TargetServes \/ TargetReplies \/ TargetEvent \/ TargetGarbles
  \/ LinkEnds

SubsSpec == SubsInit /\ [][SubsNext]_allVars

\* As for RpcClient, each goroutine that can run runs: the one inside Subscribe
\* and the watcher it leaves, the one of unsubscribeAsync, the read loop. A
\* context that is done is noticed: a caller's once it is cancelled, a
\* cleanup's when its timer fires.
CallRuns(c) == CallStarts(c) \/ CallWrites(c) \/ CallReceives(c) \/ CallContextDone(c)
Subscriber(s) == (Subscribe(s) /\ spc[s] # "idle") \/ CallRuns(s)
Cleaner(s) == unsubscribeAsync(s) \/ CallRuns(CleanupOf[s])

SubsFairness ==
  /\ \A s \in Subs : WF_allVars(Subscriber(s)) /\ WF_allVars(Cleaner(s))
  /\ WF_allVars(SubsReadLoop)
  /\ WF_allVars(closed /\ LinkEnds)

SubsFairSpec == SubsSpec /\ SubsFairness

-----------------------------------------------------------------------------
(* Properties.                                                             *)

\* dispatchNotification sends to the events channel of a registered
\* subscription: no registered subscription is closed, so the send cannot
\* panic; none is registered while its source is being unsubscribed; and none
\* once failPending has run, which would be nobody's to release.
RegisteredIsOpen ==
  \A x \in DOMAIN subscriptions :
    subErr[subscriptions[x]] = "open" /\ x \notin DOMAIN unsubscribing /\ ~readErr

\* "unsubscribing prevents a replacement subscription from reaching the
\* target until the previous target-side subscription has ended": the target
\* never has two streams for one source, whose notifications could not be
\* told apart.
OneStreamPerSource ==
  \A s, t \in streams : SourceOf[s] = SourceOf[t] => s = t

\* A Subscribe that succeeded only ever delivers events of its own stream,
\* none left over from the subscription it replaces.
OwnEvents ==
  \A s \in Subs : spc[s] \in {"open", "ended"} =>
    \A i \in DOMAIN events[s] : events[s][i] = s

\* "A leak here degrades every tool in this shared session connection": while
\* the connection is in use, every stream on the target has a subscription to
\* receive it or a cleanup under way to end it.
NoStrandedStream ==
  link = "up" /\ ~readErr => \A s \in streams : Registered(s) \/ Cleaning(s)

\* close(cleanup.done) in failPending and in unsubscribeAsync: never twice.
DoneClosedOnce == \A s \in Subs : doneCloses[s] <= 1

\* Whether a subscription is open for its consumer.
streamState == [s \in Subs |-> IF Registered(s) THEN "open"
                              ELSE IF subErr[s] = "open" THEN "idle" ELSE "ended"]

Stream == INSTANCE StreamContract
            WITH Events <- Subs, state <- streamState, err <- subErr, buffer <- events

\* Subscribe keeps its promise to the consumer: the buffer never exceeds its
\* capacity, the stream ends once, Err has the reason when Events is closed,
\* and nothing is buffered after that.
ImplementsStream == Stream!Spec

\* A Subscribe waiting for a cleanup waits for a goroutine that is still at
\* work and will close done, or done is closed already: whether
\* core.unsubscribe succeeds, fails, times out or the connection dies.
AwaitedCleanupRuns ==
  \A s \in Subs : spc[s] = "await" =>
    \/ doneCloses[awaits[s]] > 0
    \/ Cleaning(awaits[s]) /\ cleanup[awaits[s]] \in {"calling", "clear"}

\* "Cancel ctx to stop the stream": a cancelled subscription is closed, and
\* its stream on the target ends, if need be with the connection.
CancelledStreamEnds ==
  \A s \in Subs : (s \in streams /\ s \in cancelled /\ ~readErr) ~> (s \notin streams \/ readErr)

\* A consumer does not wait for ever on a dead connection: the events channel
\* of an open subscription is closed.
ConsumerReleased ==
  \A s \in Subs : (spc[s] = "open" /\ link # "up") ~> (subErr[s] # "open")
=============================================================================
