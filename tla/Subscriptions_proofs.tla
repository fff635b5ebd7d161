------------------------ MODULE Subscriptions_proofs ------------------------
(***************************************************************************)
(* Proofs about Subscriptions, for any set of subscriptions on any sources *)
(* and any capacity of their buffers. What RpcClient keeps is kept here    *)
(* too; on top of it stand the registrations and cleanups of the client    *)
(* and, on top of both, what is on its way to and from the target.         *)
(***************************************************************************)
EXTENDS Subscriptions, RpcClient_proofs

-----------------------------------------------------------------------------
(* The registrations and the cleanups.                                     *)

Maps ==
  /\ \A x \in DOMAIN subscriptions : subscriptions[x] \in Subs /\ SourceOf[subscriptions[x]] = x
  /\ \A x \in DOMAIN unsubscribing : unsubscribing[x] \in Subs /\ SourceOf[unsubscribing[x]] = x

BookTypes ==
  /\ spc \in [Subs -> Undone \cup {"open", "ended", "failed"}]
  /\ awaits \in [Subs -> Subs]
  /\ subErr \in [Subs -> {"open"} \cup Stream!Reasons]
  /\ events \in [Subs -> Seq(Subs)]
  /\ cleanup \in [Subs -> {"none", "calling", "clear", "finished"}]
  /\ doneCloses \in [Subs -> {0, 1}]

\* What is so of each subscription.
Booked(s) ==
  /\ Registered(s) => /\ subErr[s] = "open" /\ spc[s] \in {"calling", "open"} /\ cleanup[s] = "none"
                      /\ ~readErr /\ SourceOf[s] \notin DOMAIN unsubscribing
  /\ Cleaning(s) => cleanup[s] \in {"calling", "clear"} /\ doneCloses[s] = 0 /\ ~readErr
  /\ cleanup[s] = "none" => doneCloses[s] = 0
  /\ spc[s] \in {"idle", "enter", "await"} => subErr[s] = "open" /\ cleanup[s] = "none" /\ events[s] = <<>>
  /\ spc[s] = "await" => doneCloses[awaits[s]] > 0 \/ Cleaning(awaits[s])
  /\ Len(events[s]) <= Capacity

\* A call that has returned says how it went.
Concluded == \A c \in Calls : pc[c] = "done" => outcome[c] # NoOutcome

\* Streams and events are of subscriptions.
Named ==
  /\ streams \subseteq Subs
  /\ \A i \in DOMAIN inbox : inbox[i].body.how = "event" => inbox[i].body.re \in Subs

Books == Maps /\ BookTypes /\ \A s \in Subs : Booked(s)

-----------------------------------------------------------------------------
(* What is on its way.                                                     *)

InOutbox(c) == \E i \in DOMAIN outbox : outbox[i].call = c
EventAt(i, s) == inbox[i].body.how = "event" /\ inbox[i].body.re = s
Unwritten(s) == spc[s] = "calling" /\ pc[s] \in {"idle", "write"}

\* How far the calls that a subscription makes are.
Stepped(s) ==
  /\ pc[s] \in {"write", "wait"} => spc[s] = "calling"
  /\ spc[s] \in {"idle", "enter", "await"} => pc[s] = "idle"
  /\ spc[s] \in {"open", "ended"} => outcome[s].how = "result"
  /\ cleanup[s] = "none" => pc[CleanupOf[s]] = "idle"
  /\ cleanup[s] \in {"clear", "finished"} => pc[CleanupOf[s]] = "done"
  /\ link = "up" /\ cleanup[s] \in {"clear", "finished"} => outcome[CleanupOf[s]].how = "result"

Callers == \A c \in Calls : pc[c] # "idle" => c \in Subs \/ \E s \in Subs : CleanupOf[s] = c

\* They are of subscriptions that succeeded.
Sent ==
  /\ link # "up" => streams = {}
  /\ \A s \in streams : verdict[s] = "result"
  /\ \A i \in DOMAIN inbox : inbox[i].body.how = "event" => verdict[inbox[i].body.re] = "result"

\* A stream that is open or may yet be opened, and one still heard of.
Reaches(s) == s \in streams \/ InOutbox(s) \/ Unwritten(s)
Heard(s) == \E i \in DOMAIN inbox : EventAt(i, s)

\* A subscription is asked for before it is ended, and ended for good.
Queued(s) ==
  link = "up" =>
    /\ \A i, j \in DOMAIN outbox : i < j /\ outbox[i].call = CleanupOf[s] => outbox[j].call # s
    /\ verdict[CleanupOf[s]] # "none" => ~InOutbox(s)
    /\ verdict[CleanupOf[s]] = "result" => s \notin streams

Asked(s) == link = "up" /\ Unwritten(s) => cleanup[s] = "none" /\ (~readErr => Registered(s))

Watched(s) == link = "up" /\ ~readErr /\ (Reaches(s) \/ Heard(s)) => Registered(s) \/ Cleaning(s)

OnePerSource ==
  link = "up" => \A s, t \in Subs : (Reaches(s) /\ Reaches(t) /\ SourceOf[s] = SourceOf[t]) => s = t

\* The answer to an unsubscribe comes after the last event of the stream.
LastWord(s) ==
  link = "up" => \A i \in DOMAIN inbox : EventAt(i, s) =>
    /\ outcome[CleanupOf[s]].how # "result" /\ ch[CleanupOf[s]].how # "result"
    /\ \A j \in DOMAIN inbox : j < i /\ inbox[j].body.how = "result" => inbox[j].body.re # CleanupOf[s]

\* Nobody's events but its own, ahead of a subscription and in its buffer.
OwnAhead(s) ==
  (verdict[s] = "result" /\ Registered(s)) =>
    \A i \in DOMAIN inbox : \A t \in Subs : (EventAt(i, t) /\ SourceOf[t] = SourceOf[s]) => t = s

OwnBuffered(s) ==
  \A k \in DOMAIN events[s] :
    verdict[events[s][k]] = "result" /\ (verdict[s] = "result" \/ link = "up" => events[s][k] = s)

Wire ==
  /\ Callers /\ Sent /\ OnePerSource
  /\ \A s \in Subs : Stepped(s) /\ Queued(s) /\ Asked(s) /\ Watched(s) /\ LastWord(s) /\ OwnAhead(s) /\ OwnBuffered(s)

Kept == Inv /\ Concluded /\ Named /\ Books

SubsInv == Kept /\ Wire

-----------------------------------------------------------------------------
(* What RpcClient keeps.                                                   *)

\* A frame for nobody leaves the callers alone.
LEMMA UnaskedInv ==
  ASSUME Inv, NEW f \in Unasked, inbox' = Append(inbox, f),
         UNCHANGED <<clientVars, callVars, link, outbox, targetVars>>
  PROVE  Inv'
<1> USE BodiesDiffer, NoCallAssumption DEF Inv, clientVars, callVars, targetVars
<1>1. TypeOK'
  BY DEF TypeOK
<1>2. UniqueIds' /\ RegisteredIsWaiting' /\ RequestsOnce'
  BY DEF UniqueIds, RegisteredIsWaiting, RequestsOnce
<1>3. RepliesOwn'
  BY DEF TypeOK, RepliesOwn
<1>4. ChannelsOwn' /\ OwnAnswer' /\ NoLostWakeup'
  BY DEF ChannelsOwn, OwnAnswer, NoLostWakeup
<1> QED
  BY <1>1, <1>2, <1>3, <1>4 DEF Inv

\* So does the end of the link, and what is dropped with it.
LEMMA DropInv ==
  ASSUME Inv, link' \in {"up", "lost", "closed"}, outbox' = <<>>, serving' = {},
         UNCHANGED <<clientVars, callVars, inbox, verdict>>
  PROVE  Inv'
<1> USE DEF Inv, clientVars, callVars
<1>1. TypeOK'
  BY DEF TypeOK
<1>2. UniqueIds' /\ RegisteredIsWaiting' /\ RequestsOnce'
  BY DEF UniqueIds, RegisteredIsWaiting, RequestsOnce
<1>3. RepliesOwn'
  BY DEF RepliesOwn
<1>4. ChannelsOwn' /\ OwnAnswer' /\ NoLostWakeup'
  BY DEF ChannelsOwn, OwnAnswer, NoLostWakeup
<1> QED
  BY <1>1, <1>2, <1>3, <1>4 DEF Inv

\* An event that is read is no caller's.
LEMMA ReadEventInv ==
  ASSUME Inv, ReadEvent
  PROVE  Inv'
<1>1. inbox # <<>> /\ inbox' = Tail(inbox) /\ UNCHANGED <<clientVars, callVars, link, outbox, targetVars>>
  BY DEF ReadEvent, IsEvent
<1> USE <1>1 DEF Inv, clientVars, callVars, targetVars
<1>2. inbox' \in Seq(Response \cup Unasked) /\ \A i \in DOMAIN inbox' : i + 1 \in DOMAIN inbox /\ inbox'[i] = inbox[i + 1]
  BY TailElements DEF TypeOK
<1>3. TypeOK'
  BY <1>2 DEF TypeOK
<1>4. UniqueIds' /\ RegisteredIsWaiting' /\ RequestsOnce'
  BY DEF UniqueIds, RegisteredIsWaiting, RequestsOnce
<1>5. RepliesOwn'
  BY <1>2 DEF RepliesOwn
<1>6. ChannelsOwn' /\ OwnAnswer' /\ NoLostWakeup'
  BY DEF ChannelsOwn, OwnAnswer, NoLostWakeup
<1> QED
  BY <1>3, <1>4, <1>5, <1>6 DEF Inv

\* Subscriptions do to the client nothing that its invariant does not allow.
LEMMA CallsKept == Inv /\ streams \subseteq Subs /\ [SubsNext]_allVars => Inv'
<1> SUFFICES ASSUME Inv, streams \subseteq Subs, [SubsNext]_allVars PROVE Inv'
  OBVIOUS
<1>1. CASE UNCHANGED vars
  BY <1>1, NextInv
<1>2. ASSUME NEW c \in Calls, CallStarts(c) \/ CallWrites(c) \/ CallReceives(c) \/ CallContextDone(c)
      PROVE  Inv'
  BY <1>2, RegisterInv, RefuseClosedInv, WriteInv, WriteFailsInv, ReceiveInv, ContextDoneInv
  DEF CallStarts, CallWrites, CallReceives, CallContextDone
<1>3. CASE SubsReadLoop
  BY <1>3, ReadEventInv, ReadResponseInv, ReadGarbledInv, ReadFailsInv DEF SubsReadLoop
<1>4. CASE Close
  BY <1>4, CloseInv
<1>5. CASE TargetServes \/ TargetReplies
  BY <1>5, TargetApplyInv, TargetReplyInv DEF TargetServes, TargetReplies
<1>6. CASE TargetGarbles
  BY <1>6, BodiesDiffer, UnaskedInv DEF TargetGarbles
<1>7. CASE TargetEvent
  <2>1. PICK s \in streams : inbox' = Append(inbox, Event(s))
    BY <1>7 DEF TargetEvent
  <2>2. Event(s) \in Unasked
    BY SubsAssumption DEF Event, Unasked, Body
  <2> QED
    BY <1>7, <2>1, <2>2, UnaskedInv DEF TargetEvent
<1>8. CASE LinkEnds
  BY <1>8, DropInv DEF LinkEnds, LinkDrops
<1>9. ASSUME NEW s \in Subs, CleanupReturns(s) PROVE Inv'
  <2>1. UNCHANGED <<clientVars, callVars, inbox, verdict>>
    BY <1>9 DEF CleanupReturns
  <2>2. CASE UNCHANGED <<link, streams, outbox, serving>>
    BY <1>1, <2>1, <2>2 DEF vars, targetVars
  <2>3. CASE link' = "closed" /\ LinkDrops
    BY <2>1, <2>3, DropInv DEF LinkDrops
  <2> QED
    BY <1>9, <2>2, <2>3 DEF CleanupReturns
<1>10. ASSUME NEW s \in Subs, Subscribe(s) \/ CleanupClears(s) \/ Cancel(s) \/ Consume(s) PROVE Inv'
  BY <1>1, <1>10 DEF Subscribe, SubscribeBegin, SubscribeRefused, SubscribeAwaits, SubscribeRegisters, SubscribeWakes,
                     SubscribeReturns, WatchContext, CleanupClears, Cancel, Consume
<1>11. CASE UNCHANGED allVars
  BY <1>1, <1>11 DEF allVars
<1> QED
  BY <1>2, <1>3, <1>4, <1>5, <1>6, <1>7, <1>8, <1>9, <1>10, <1>11 DEF SubsNext, unsubscribeAsync

-----------------------------------------------------------------------------
(* The registrations and the cleanups, step by step.                       *)

\* One subscription is registered, or being cleaned up, per source.
LEMMA OnePerName ==
  ASSUME NEW s \in Subs, NEW t \in Subs, SourceOf[s] = SourceOf[t],
         (Registered(s) /\ Registered(t)) \/ (Cleaning(s) /\ Cleaning(t))
  PROVE  s = t
BY DEF Registered, Cleaning

\* What Subscribe registers.
LEMMA RegisterEffect ==
  ASSUME Books, NEW s \in Subs, SubscribeRegisters(s)
  PROVE  /\ Maps' /\ UNCHANGED <<unsubscribing, subErr, cleanup, doneCloses, awaits, events, readErr>>
         /\ \A t \in Subs : Registered(t)' <=> Registered(t) \/ t = s
         /\ \A t \in Subs : Cleaning(t)' <=> Cleaning(t)
         /\ SourceOf[s] \notin DOMAIN unsubscribing
         /\ spc[s] = "enter" /\ spc' = [spc EXCEPT ![s] = "calling"]
<1>1. /\ subscriptions' = Put(subscriptions, SourceOf[s], s) /\ UNCHANGED unsubscribing
      /\ SourceOf[s] \notin DOMAIN subscriptions
  BY DEF SubscribeRegisters
<1>2. /\ DOMAIN subscriptions' = DOMAIN subscriptions \cup {SourceOf[s]} /\ subscriptions'[SourceOf[s]] = s
      /\ \A x \in DOMAIN subscriptions : subscriptions'[x] = subscriptions[x]
  BY <1>1 DEF Put
<1>3. Maps'
  BY <1>1, <1>2 DEF Books, Maps
<1>4. \A t \in Subs : Registered(t)' <=> Registered(t) \/ t = s
  BY <1>1, <1>2 DEF Registered
<1>5. \A t \in Subs : Cleaning(t)' <=> Cleaning(t)
  BY <1>1 DEF Cleaning
<1> QED
  BY <1>3, <1>4, <1>5 DEF SubscribeRegisters, vars, clientVars

\* What the end of a registered subscription changes.
LEMMA EndEffect ==
  ASSUME Books, NEW s \in Subs, NEW why, NEW unsubscribe \in BOOLEAN, endSubscription(s, why, unsubscribe), Registered(s)
  PROVE  /\ Maps' /\ UNCHANGED doneCloses
         /\ \A t \in Subs : Registered(t)' <=> Registered(t) /\ t # s
         /\ subErr' = [subErr EXCEPT ![s] = why]
         /\ SourceOf[s] \notin DOMAIN unsubscribing
         /\ unsubscribe =>
              /\ \A t \in Subs : Cleaning(t)' <=> Cleaning(t) \/ t = s
              /\ DOMAIN unsubscribing' = DOMAIN unsubscribing \cup {SourceOf[s]}
              /\ cleanup' = [cleanup EXCEPT ![s] = "calling"]
         /\ ~unsubscribe => UNCHANGED <<unsubscribing, cleanup>>
<1>1. /\ subscriptions' = Without(subscriptions, SourceOf[s])
      /\ subErr' = [subErr EXCEPT ![s] = IF @ = "open" THEN why ELSE @]
      /\ unsubscribe => /\ unsubscribing' = Put(unsubscribing, SourceOf[s], s)
                        /\ cleanup' = [cleanup EXCEPT ![s] = "calling"]
      /\ ~unsubscribe => UNCHANGED <<unsubscribing, cleanup>>
      /\ UNCHANGED doneCloses
  BY DEF endSubscription
<1>2. subErr[s] = "open" /\ SourceOf[s] \notin DOMAIN unsubscribing
  BY DEF Books, Booked
<1>3. /\ DOMAIN subscriptions' = DOMAIN subscriptions \ {SourceOf[s]}
      /\ \A x \in DOMAIN subscriptions' : subscriptions'[x] = subscriptions[x]
  BY <1>1 DEF Without
<1>4. unsubscribe =>
        /\ DOMAIN unsubscribing' = DOMAIN unsubscribing \cup {SourceOf[s]} /\ unsubscribing'[SourceOf[s]] = s
        /\ \A x \in DOMAIN unsubscribing : unsubscribing'[x] = unsubscribing[x]
  BY <1>1, <1>2 DEF Put
<1>5. Maps'
  BY <1>1, <1>3, <1>4 DEF Books, Maps
<1>6. \A t \in Subs : Registered(t)' <=> Registered(t) /\ t # s
  BY <1>3 DEF Registered
<1>7. unsubscribe => \A t \in Subs : Cleaning(t)' <=> Cleaning(t) \/ t = s
  BY <1>2, <1>4 DEF Cleaning
<1>8. subErr' = [subErr EXCEPT ![s] = why]
  BY <1>1, <1>2
<1> QED
  BY <1>1, <1>2, <1>4, <1>5, <1>6, <1>7, <1>8

\* The steps that leave the books alone.
LEMMA BooksUntouched ==
  ASSUME Books, UNCHANGED <<regVars, spc, awaits, events, readErr>>
  PROVE  Books'
<1>1. Maps' /\ BookTypes'
  BY DEF Books, Maps, BookTypes, regVars
<1>2. ASSUME NEW t \in Subs PROVE Booked(t)'
  BY DEF Books, Booked, Registered, Cleaning, regVars
<1> QED
  BY <1>1, <1>2 DEF Books

\* A Subscribe goes on, with nothing registered and nothing awaited.
LEMMA SubscribeMovesBooks ==
  ASSUME Books, NEW s \in Subs, UNCHANGED <<regVars, awaits, events, readErr>>,
         NEW to \in {"enter", "open", "ended", "failed"}, spc' = [spc EXCEPT ![s] = to],
         to = "enter" => spc[s] \in {"idle", "await"},
         to = "open" => spc[s] = "calling",
         to \in {"ended", "failed"} => ~Registered(s)
  PROVE  Books'
<1>1. Maps' /\ BookTypes'
  BY DEF Books, Maps, BookTypes, regVars, Undone
<1>2. ASSUME NEW t \in Subs PROVE Booked(t)'
  <2>1. (Registered(t)' <=> Registered(t)) /\ (Cleaning(t)' <=> Cleaning(t)) /\ (Cleaning(awaits[t])' <=> Cleaning(awaits[t]))
    BY DEF Registered, Cleaning, regVars
  <2>2. CASE t = s
    BY <2>1, <2>2 DEF Books, Booked, BookTypes, regVars
  <2>3. CASE t # s
    BY <2>1, <2>3 DEF Books, Booked, BookTypes, regVars
  <2> QED
    BY <2>2, <2>3
<1> QED
  BY <1>1, <1>2 DEF Books

\* A Subscribe waits for a cleanup that is registered.
LEMMA SubscribeAwaitsBooks ==
  ASSUME Books, NEW s \in Subs, SubscribeAwaits(s)
  PROVE  Books'
<1> DEFINE u == unsubscribing[SourceOf[s]]
<1>1. /\ spc[s] = "enter" /\ SourceOf[s] \in DOMAIN unsubscribing
      /\ awaits' = [awaits EXCEPT ![s] = u] /\ spc' = [spc EXCEPT ![s] = "await"]
      /\ UNCHANGED <<regVars, events, readErr>>
  BY DEF SubscribeAwaits, vars, clientVars
<1>2. u \in Subs /\ Cleaning(u)
  BY <1>1 DEF Books, Maps, Cleaning
<1>3. Maps' /\ BookTypes'
  BY <1>1, <1>2 DEF Books, Maps, BookTypes, regVars, Undone
<1>4. ASSUME NEW t \in Subs PROVE Booked(t)'
  <2>1. /\ Registered(t)' <=> Registered(t)
        /\ \A v \in Subs : Cleaning(v)' <=> Cleaning(v)
    BY <1>1 DEF Registered, Cleaning, regVars
  <2>2. CASE t = s
    <3>1. spc'[t] = "await" /\ awaits'[t] = u
      BY <1>1, <2>2 DEF Books, BookTypes
    <3> HIDE DEF u
    <3> QED
      BY <1>1, <1>2, <2>1, <2>2, <3>1 DEF Books, Booked, regVars
  <2>3. CASE t # s
    <3>1. spc'[t] = spc[t] /\ awaits'[t] = awaits[t] /\ awaits[t] \in Subs
      BY <1>1, <2>3 DEF Books, BookTypes
    <3>2. Cleaning(awaits[t])' <=> Cleaning(awaits[t])
      BY <2>1, <3>1
    <3> QED
      BY <1>1, <2>1, <3>1, <3>2 DEF Books, Booked, regVars
  <2> QED
    BY <2>2, <2>3
<1> QED
  BY <1>3, <1>4 DEF Books

\* A source that nobody has is registered.
LEMMA SubscribeRegistersBooks ==
  ASSUME Books, NEW s \in Subs, SubscribeRegisters(s)
  PROVE  Books'
<1>1. /\ Maps' /\ UNCHANGED <<unsubscribing, subErr, cleanup, doneCloses, awaits, events, readErr>>
      /\ \A t \in Subs : Registered(t)' <=> Registered(t) \/ t = s
      /\ \A t \in Subs : Cleaning(t)' <=> Cleaning(t)
      /\ SourceOf[s] \notin DOMAIN unsubscribing
      /\ spc[s] = "enter" /\ spc' = [spc EXCEPT ![s] = "calling"]
  BY RegisterEffect
<1>2. ~readErr
  BY DEF SubscribeRegisters
<1>3. BookTypes'
  BY <1>1 DEF Books, BookTypes, Undone
<1>4. ASSUME NEW t \in Subs PROVE Booked(t)'
  <2>1. CASE t = s
    BY <1>1, <1>2, <2>1 DEF Books, Booked, BookTypes
  <2>2. CASE t # s
    <3>1. spc'[t] = spc[t] /\ awaits'[t] = awaits[t] /\ awaits[t] \in Subs
      BY <1>1, <2>2 DEF Books, BookTypes
    <3>2. Cleaning(awaits[t])' <=> Cleaning(awaits[t])
      BY <1>1, <3>1 DEF Cleaning
    <3> QED
      BY <1>1, <2>2, <3>1, <3>2 DEF Books, Booked
  <2> QED
    BY <2>1, <2>2
<1> QED
  BY <1>1, <1>3, <1>4 DEF Books

\* A registered subscription ends. Who watches it moves on, or not yet.
LEMMA EndBooks ==
  ASSUME Books, NEW s \in Subs, NEW why \in Stream!Reasons, NEW unsubscribe \in BOOLEAN,
         endSubscription(s, why, unsubscribe), Registered(s), UNCHANGED <<awaits, events, readErr>>,
         NEW to \in {"calling", "open", "ended", "failed"}, spc' = [spc EXCEPT ![s] = to]
  PROVE  Books'
<1>1. /\ Maps' /\ UNCHANGED doneCloses
      /\ \A t \in Subs : Registered(t)' <=> Registered(t) /\ t # s
      /\ subErr' = [subErr EXCEPT ![s] = why]
      /\ SourceOf[s] \notin DOMAIN unsubscribing
      /\ unsubscribe =>
           /\ \A t \in Subs : Cleaning(t)' <=> Cleaning(t) \/ t = s
           /\ DOMAIN unsubscribing' = DOMAIN unsubscribing \cup {SourceOf[s]}
           /\ cleanup' = [cleanup EXCEPT ![s] = "calling"]
      /\ ~unsubscribe => UNCHANGED <<unsubscribing, cleanup>>
  BY EndEffect
<1>2. BookTypes'
  BY <1>1 DEF Books, BookTypes, Undone
<1>3. \A t \in Subs : t # s => spc'[t] = spc[t] /\ subErr'[t] = subErr[t] /\ cleanup'[t] = cleanup[t]
  BY <1>1 DEF Books, BookTypes
<1>4. /\ spc'[s] = to /\ subErr'[s] = why /\ cleanup'[s] = IF unsubscribe THEN "calling" ELSE "none"
      /\ doneCloses[s] = 0 /\ ~readErr /\ Len(events[s]) <= Capacity
  BY <1>1 DEF Books, BookTypes, Booked
<1>5. \A t \in Subs : Cleaning(t)' <=> Cleaning(t) \/ (t = s /\ unsubscribe)
  BY <1>1 DEF Cleaning
<1>6. \A t \in Subs : Registered(t) /\ t # s => SourceOf[t] \notin DOMAIN unsubscribing'
  <2> TAKE t \in Subs
  <2> HAVE Registered(t) /\ t # s
  <2>1. SourceOf[t] # SourceOf[s]
    BY OnePerName
  <2>2. SourceOf[t] \notin DOMAIN unsubscribing
    BY DEF Books, Booked
  <2> QED
    BY <1>1, <2>1, <2>2
<1>7. ASSUME NEW t \in Subs PROVE Booked(t)'
  <2>1. CASE t = s
    <3>1. ~Registered(t)' /\ (Cleaning(t)' <=> unsubscribe)
      BY <1>1, <1>5, <2>1 DEF Cleaning
    <3>2. spc'[t] \notin {"idle", "enter", "await"} /\ doneCloses'[t] = 0 /\ ~readErr' /\ Len(events'[t]) <= Capacity
      BY <1>1, <1>4, <2>1
    <3>3. cleanup'[t] = IF unsubscribe THEN "calling" ELSE "none"
      BY <1>4, <2>1
    <3> QED
      BY <3>1, <3>2, <3>3 DEF Booked
  <2>2. CASE t # s
    <3>1. awaits[t] \in Subs
      BY DEF Books, BookTypes
    <3>2. Cleaning(awaits[t]) => Cleaning(awaits[t])'
      BY <1>5, <3>1 DEF Cleaning
    <3> QED
      BY <1>1, <1>3, <1>5, <1>6, <2>2, <3>2 DEF Books, Booked
  <2> QED
    BY <2>1, <2>2
<1> QED
  BY <1>1, <1>2, <1>7 DEF Books

\* The goroutine of unsubscribeAsync has its answer.
LEMMA CleanupReturnsBooks ==
  ASSUME Books, NEW s \in Subs, CleanupReturns(s)
  PROVE  Books'
<1>1. /\ cleanup[s] = "calling" /\ cleanup' = [cleanup EXCEPT ![s] = "clear"]
      /\ UNCHANGED <<subscriptions, unsubscribing, subErr, doneCloses, spc, awaits, events, readErr>>
  BY DEF CleanupReturns, clientVars
<1>2. Maps' /\ BookTypes'
  BY <1>1 DEF Books, Maps, BookTypes
<1>3. ASSUME NEW t \in Subs PROVE Booked(t)'
  <2>1. (Registered(t)' <=> Registered(t)) /\ (Cleaning(t)' <=> Cleaning(t)) /\ (Cleaning(awaits[t])' <=> Cleaning(awaits[t]))
    BY <1>1 DEF Registered, Cleaning
  <2>2. cleanup'[t] = IF t = s THEN "clear" ELSE cleanup[t]
    BY <1>1 DEF Books, BookTypes
  <2> QED
    BY <1>1, <2>1, <2>2 DEF Books, Booked
<1> QED
  BY <1>2, <1>3 DEF Books

\* It clears its own entry, if the read loop has not done so for it.
LEMMA CleanupClearsBooks ==
  ASSUME Books, NEW s \in Subs, CleanupClears(s)
  PROVE  Books'
<1>1. /\ cleanup[s] = "clear" /\ cleanup' = [cleanup EXCEPT ![s] = "finished"]
      /\ UNCHANGED <<subscriptions, subErr, spc, awaits, events, readErr>>
  BY DEF CleanupClears, vars, clientVars
<1>2. CASE ~Cleaning(s)
  <2>1. UNCHANGED <<unsubscribing, doneCloses>>
    BY <1>2 DEF CleanupClears
  <2>2. Maps' /\ BookTypes'
    BY <1>1, <2>1 DEF Books, Maps, BookTypes
  <2>3. ASSUME NEW t \in Subs PROVE Booked(t)'
    <3>1. (Registered(t)' <=> Registered(t)) /\ (Cleaning(t)' <=> Cleaning(t)) /\ (Cleaning(awaits[t])' <=> Cleaning(awaits[t]))
      BY <1>1, <2>1 DEF Registered, Cleaning
    <3>2. cleanup'[t] = IF t = s THEN "finished" ELSE cleanup[t]
      BY <1>1 DEF Books, BookTypes
    <3> QED
      BY <1>1, <1>2, <2>1, <3>1, <3>2 DEF Books, Booked
  <2> QED
    BY <2>2, <2>3 DEF Books
<1>3. CASE Cleaning(s)
  <2>1. /\ unsubscribing' = Without(unsubscribing, SourceOf[s])
        /\ doneCloses' = [doneCloses EXCEPT ![s] = @ + 1] /\ doneCloses[s] = 0
    BY <1>3 DEF CleanupClears, Books, Booked
  <2>2. /\ DOMAIN unsubscribing' = DOMAIN unsubscribing \ {SourceOf[s]}
        /\ \A x \in DOMAIN unsubscribing' : unsubscribing'[x] = unsubscribing[x]
    BY <2>1 DEF Without
  <2>3. Maps'
    BY <1>1, <2>2 DEF Books, Maps
  <2>4. BookTypes'
    BY <1>1, <2>1 DEF Books, BookTypes
  <2>5. \A t \in Subs : (Registered(t)' <=> Registered(t)) /\ (Cleaning(t)' <=> Cleaning(t) /\ t # s)
    BY <1>1, <1>3, <2>2 DEF Registered, Cleaning
  <2>6. \A t \in Subs : /\ cleanup'[t] = IF t = s THEN "finished" ELSE cleanup[t]
                        /\ doneCloses'[t] = IF t = s THEN 1 ELSE doneCloses[t]
    BY <1>1, <2>1 DEF Books, BookTypes
  <2>7. ASSUME NEW t \in Subs PROVE Booked(t)'
    <3>1. awaits[t] \in Subs
      BY DEF Books, BookTypes
    <3>2. doneCloses[awaits[t]] > 0 => doneCloses'[awaits[t]] > 0
      BY <2>6, <3>1
    <3>3. Cleaning(awaits[t]) => doneCloses'[awaits[t]] > 0 \/ Cleaning(awaits[t])'
      <4> DEFINE a == awaits[t]
      <4>1. a \in Subs /\ awaits'[t] = a
        BY <1>1, <3>1
      <4> HIDE DEF a
      <4>2. a = s => doneCloses'[a] > 0
        BY <2>6, <4>1
      <4>3. Cleaning(a) /\ a # s => SourceOf[a] \in DOMAIN unsubscribing' /\ unsubscribing'[SourceOf[a]] = a
        BY <1>3, <2>2, <4>1 DEF Cleaning
      <4> QED
        BY <4>1, <4>2, <4>3 DEF a, Cleaning
    <3>4. SourceOf[t] \notin DOMAIN unsubscribing => SourceOf[t] \notin DOMAIN unsubscribing'
      BY <2>2
    <3>5. t = s => ~Registered(t) /\ spc[t] \notin {"idle", "enter", "await"}
      BY <1>1 DEF Books, Booked
    <3> QED
      BY <1>1, <2>5, <2>6, <3>2, <3>3, <3>4, <3>5 DEF Books, Booked
  <2> QED
    BY <2>3, <2>4, <2>7 DEF Books
<1> QED
  BY <1>2, <1>3

\* The read loop has failed: every entry goes, every cleanup is released.
LEMMA FailBooks ==
  ASSUME Books, failSubscriptions, readErr' = TRUE
  PROVE  Books'
<1>1. /\ subErr' = [s \in Subs |-> IF Registered(s) THEN "interrupted" ELSE subErr[s]]
      /\ doneCloses' = [s \in Subs |-> IF Cleaning(s) THEN doneCloses[s] + 1 ELSE doneCloses[s]]
      /\ subscriptions' = [x \in {} |-> NoCall] /\ unsubscribing' = [x \in {} |-> NoCall]
      /\ UNCHANGED <<cleanup, spc, awaits, events>>
  BY DEF failSubscriptions
<1>2. DOMAIN subscriptions' = {} /\ DOMAIN unsubscribing' = {}
  BY <1>1
<1>3. \A s \in Subs : doneCloses'[s] = (IF Cleaning(s) THEN 1 ELSE doneCloses[s]) /\ doneCloses[s] \in {0, 1}
  BY <1>1 DEF Books, Booked, BookTypes
<1>4. \A s \in Subs : subErr'[s] = (IF Registered(s) THEN "interrupted" ELSE subErr[s])
  BY <1>1
<1>5. Maps'
  BY <1>2 DEF Maps
<1>6. BookTypes'
  <2>1. doneCloses' \in [Subs -> {0, 1}]
    BY <1>1, <1>3
  <2>2. subErr' \in [Subs -> {"open"} \cup Stream!Reasons]
    BY <1>1 DEF Books, BookTypes, Stream!Reasons
  <2> QED
    BY <1>1, <2>1, <2>2 DEF Books, BookTypes
<1>7. ASSUME NEW t \in Subs PROVE Booked(t)'
  <2>1. ~Registered(t)' /\ ~Cleaning(t)'
    BY <1>2 DEF Registered, Cleaning
  <2>2. awaits[t] \in Subs
    BY DEF Books, BookTypes
  <2>3. spc[t] = "await" => doneCloses'[awaits[t]] > 0
    BY <1>3, <2>2 DEF Books, Booked
  <2>4. cleanup[t] = "none" => doneCloses'[t] = 0
    BY <1>3 DEF Books, Booked
  <2>5. spc[t] \in {"idle", "enter", "await"} => subErr'[t] = "open"
    BY <1>4 DEF Books, Booked
  <2> QED
    BY <1>1, <2>1, <2>3, <2>4, <2>5 DEF Books, Booked
<1> QED
  BY <1>5, <1>6, <1>7 DEF Books

\* A buffer changes, its subscription being registered or done with.
LEMMA BufferBooks ==
  ASSUME Books, NEW s \in Subs, NEW q \in Seq(Subs), Len(q) <= Capacity, events' = [events EXCEPT ![s] = q],
         spc[s] \notin {"idle", "enter", "await"},
         UNCHANGED <<regVars, spc, awaits, readErr>>
  PROVE  Books'
<1>1. Maps' /\ BookTypes'
  BY DEF Books, Maps, BookTypes, regVars
<1>2. ASSUME NEW t \in Subs PROVE Booked(t)'
  <2>1. (Registered(t)' <=> Registered(t)) /\ (Cleaning(t)' <=> Cleaning(t)) /\ (Cleaning(awaits[t])' <=> Cleaning(awaits[t]))
    BY DEF Registered, Cleaning, regVars
  <2>2. events'[t] = IF t = s THEN q ELSE events[t]
    BY DEF Books, BookTypes
  <2> QED
    BY <2>1, <2>2 DEF Books, Booked, regVars
<1> QED
  BY <1>1, <1>2 DEF Books

\* What the read loop finds in an event: the subscription it is for, if any,
\* takes it or ends.
LEMMA DispatchEffect ==
  ASSUME Inv, Books, ReadEvent, \A i \in DOMAIN inbox : inbox[i].body.how = "event" => inbox[i].body.re \in Subs
  PROVE  LET e == Head(inbox).body.re
         IN /\ e \in Subs /\ inbox # <<>> /\ Head(inbox).body.how = "event" /\ inbox' = Tail(inbox)
            /\ \/ UNCHANGED <<regVars, events>> /\ \A t \in Subs : SourceOf[t] = SourceOf[e] => ~Registered(t)
               \/ \E t \in Subs :
                    /\ Registered(t) /\ SourceOf[t] = SourceOf[e]
                    /\ \/ Len(events[t]) < Capacity /\ events' = [events EXCEPT ![t] = Append(@, e)] /\ UNCHANGED regVars
                       \/ Len(events[t]) = Capacity /\ endSubscription(t, "overflow", TRUE) /\ UNCHANGED events
<1> DEFINE e == Head(inbox).body.re
           x == SourceOf[e]
<1>1. inbox # <<>> /\ Head(inbox).body.how = "event" /\ inbox' = Tail(inbox) /\ dispatchNotification(x, e)
  BY DEF ReadEvent, IsEvent
<1>2. inbox \in Seq(Response \cup Unasked)
  BY DEF Inv, TypeOK
<1>3. Head(inbox) = inbox[1] /\ 1 \in DOMAIN inbox
  BY <1>1, <1>2, TailElements
<1>4. e \in Subs
  BY <1>1, <1>3
<1>5. CASE x \notin DOMAIN subscriptions
  <2>1. UNCHANGED <<regVars, events>>
    BY <1>1, <1>5 DEF dispatchNotification
  <2> QED
    BY <1>1, <1>4, <1>5, <2>1 DEF Registered
<1>6. CASE x \in DOMAIN subscriptions
  <2> DEFINE t == subscriptions[x]
  <2>1. t \in Subs /\ Registered(t) /\ SourceOf[t] = x
    BY <1>6 DEF Books, Maps, Registered
  <2>2. \/ Len(events[t]) < Capacity /\ events' = [events EXCEPT ![t] = Append(@, e)] /\ UNCHANGED regVars
        \/ ~(Len(events[t]) < Capacity) /\ endSubscription(t, "overflow", TRUE) /\ UNCHANGED events
    BY <1>1, <1>6 DEF dispatchNotification
  <2> HIDE DEF t
  <2>3. Len(events[t]) <= Capacity /\ Len(events[t]) \in Nat
    <3>1. events[t] \in Seq(Subs)
      BY <2>1 DEF Books, BookTypes
    <3> QED
      BY <2>1, <3>1 DEF Books, Booked
  <2>4. Len(events[t]) < Capacity \/ Len(events[t]) = Capacity
    BY <2>3, SubsAssumption
  <2>5. ~(Len(events[t]) < Capacity) => Len(events[t]) = Capacity
    BY <2>4
  <2> QED
    BY <1>1, <1>4, <2>1, <2>2, <2>5
<1> QED
  BY <1>5, <1>6

\* An event goes into a buffer, or the buffer is full and the subscription ends.
LEMMA ReadEventBooks ==
  ASSUME Inv, Books, ReadEvent, \A i \in DOMAIN inbox : inbox[i].body.how = "event" => inbox[i].body.re \in Subs
  PROVE  Books'
<1> DEFINE e == Head(inbox).body.re
<1>1. UNCHANGED <<spc, awaits, readErr>> /\ e \in Subs
  BY DispatchEffect DEF ReadEvent, clientVars
<1>2. CASE UNCHANGED <<regVars, events>>
  BY <1>1, <1>2, BooksUntouched
<1>3. ASSUME NEW t \in Subs, Registered(t), Len(events[t]) < Capacity, events' = [events EXCEPT ![t] = Append(@, e)],
             UNCHANGED regVars
      PROVE  Books'
  <2>1. spc[t] \notin {"idle", "enter", "await"} /\ events[t] \in Seq(Subs)
    BY <1>3 DEF Books, Booked, BookTypes
  <2>2. Append(events[t], e) \in Seq(Subs) /\ Len(Append(events[t], e)) <= Capacity
    BY <1>1, <1>3, <2>1, SubsAssumption
  <2>3. events' = [events EXCEPT ![t] = Append(events[t], e)]
    BY <1>3
  <2> QED
    BY <1>1, <1>3, <2>1, <2>2, <2>3, BufferBooks
<1>4. ASSUME NEW t \in Subs, Registered(t), endSubscription(t, "overflow", TRUE), UNCHANGED events
      PROVE  Books'
  <2>1. spc[t] \in {"calling", "open"} /\ spc' = [spc EXCEPT ![t] = spc[t]]
    BY <1>1, <1>4 DEF Books, Booked, BookTypes
  <2>2. "overflow" \in Stream!Reasons
    BY DEF Stream!Reasons
  <2> QED
    BY <1>1, <1>4, <2>1, <2>2, EndBooks
<1> QED
  BY <1>2, <1>3, <1>4, DispatchEffect

\* A consumer takes an event out of its buffer.
LEMMA ConsumeBooks ==
  ASSUME Books, NEW s \in Subs, Consume(s)
  PROVE  Books'
<1>1. /\ spc[s] \in {"open", "ended"} /\ events[s] # <<>> /\ events' = [events EXCEPT ![s] = Tail(events[s])]
      /\ UNCHANGED <<regVars, spc, awaits, readErr>>
  BY DEF Consume, vars, clientVars
<1>2. events[s] \in Seq(Subs) /\ Len(events[s]) <= Capacity
  BY DEF Books, Booked, BookTypes
<1>3. Tail(events[s]) \in Seq(Subs) /\ Len(Tail(events[s])) <= Capacity
  BY <1>1, <1>2, SubsAssumption
<1> QED
  BY <1>1, <1>3, BufferBooks

\* The subscription ends for the reason its call failed, or it is open.
LEMMA SubscribeReturnsBooks ==
  ASSUME Inv, Concluded, Books, NEW s \in Subs, SubscribeReturns(s)
  PROVE  Books'
<1> DEFINE how == outcome[s].how
<1>1. /\ spc[s] = "calling" /\ pc[s] = "done" /\ UNCHANGED <<awaits, events, readErr>>
      /\ how = "result" => spc' = [spc EXCEPT ![s] = "open"] /\ UNCHANGED regVars
      /\ how # "result" => spc' = [spc EXCEPT ![s] = "failed"] /\ endSubscription(s, how, how # "error")
  BY DEF SubscribeReturns, vars, clientVars
<1>2. how # "result" => how \in Stream!Reasons
  <2>1. s \in Calls
    BY SubsAssumption
  <2>2. outcome[s] \in Answer \cup {ErrInterrupted, ErrContext, ErrClosed}
    BY <1>1, <2>1 DEF Inv, TypeOK, Concluded
  <2> QED
    BY <2>2 DEF Answer, Verdict, ErrInterrupted, ErrContext, ErrClosed, Body, Stream!Reasons
<1>3. CASE how = "result"
  BY <1>1, <1>3, SubscribeMovesBooks
<1>4. CASE how # "result" /\ Registered(s)
  <2> HIDE DEF how
  <2> QED
    BY <1>1, <1>2, <1>4, EndBooks
<1>5. CASE how # "result" /\ ~Registered(s)
  <2>1. UNCHANGED regVars
    BY <1>1, <1>5 DEF endSubscription
  <2> QED
    BY <1>1, <1>5, <2>1, SubscribeMovesBooks
<1> QED
  BY <1>3, <1>4, <1>5

\* A context ends and the subscription with it.
LEMMA WatchContextBooks ==
  ASSUME Books, NEW s \in Subs, WatchContext(s)
  PROVE  Books'
<1>1. /\ spc[s] = "open" /\ spc' = [spc EXCEPT ![s] = "ended"] /\ endSubscription(s, "cancelled", TRUE)
      /\ UNCHANGED <<awaits, events, readErr>>
  BY DEF WatchContext, vars, clientVars
<1>2. CASE Registered(s)
  <2>1. "cancelled" \in Stream!Reasons
    BY DEF Stream!Reasons
  <2> QED
    BY <1>1, <1>2, <2>1, EndBooks
<1>3. CASE ~Registered(s)
  <2>1. UNCHANGED regVars
    BY <1>1, <1>3 DEF endSubscription
  <2> QED
    BY <1>1, <1>3, <2>1, SubscribeMovesBooks
<1> QED
  BY <1>2, <1>3

-----------------------------------------------------------------------------
(* All of it holds for ever.                                               *)

\* Every step leaves a call that has returned with an outcome.
LEMMA ConcludedKept == Inv /\ Concluded /\ [SubsNext]_allVars => Concluded'
<1> SUFFICES ASSUME Inv, Concluded, [SubsNext]_allVars PROVE Concluded'
  OBVIOUS
<1>1. pc \in [Calls -> {"idle", "write", "wait", "done"}] /\ DOMAIN outcome = Calls
  BY DEF Inv, TypeOK
<1>2. CASE UNCHANGED <<pc, outcome>>
  BY <1>2 DEF Concluded
<1>3. ASSUME NEW c \in Calls, pc' = [pc EXCEPT ![c] = "write"] \/ pc' = [pc EXCEPT ![c] = "wait"], UNCHANGED outcome
      PROVE  Concluded'
  BY <1>1, <1>3 DEF Concluded
<1>4. ASSUME NEW c \in Calls, NEW o, Return(c, o), o # NoOutcome PROVE Concluded'
  BY <1>1, <1>4 DEF Concluded, Return
<1>5. ASSUME NEW c \in Calls, Receive(c) PROVE Concluded'
  <2> DEFINE o == IF ch[c] = ClosedChannel THEN ErrInterrupted ELSE ch[c]
  <2>1. o # NoOutcome
    <3>1. ch[c] \in Answer \cup {ClosedChannel}
      BY <1>5 DEF Receive, Inv, TypeOK
    <3> QED
      BY <3>1 DEF Answer, Verdict, ClosedChannel, ErrInterrupted, NoOutcome, Body
  <2>2. Return(c, o)
    BY <1>5 DEF Receive
  <2> HIDE DEF o
  <2> QED
    BY <1>4, <2>1, <2>2
<1>6. ErrClosed # NoOutcome /\ ErrInterrupted # NoOutcome /\ ErrContext # NoOutcome
  BY DEF ErrClosed, ErrInterrupted, ErrContext, NoOutcome, Body
<1>7. ASSUME NEW c \in Calls, CallStarts(c) \/ CallWrites(c) \/ CallReceives(c) \/ CallContextDone(c)
      PROVE  Concluded'
  BY <1>3, <1>4, <1>5, <1>6, <1>7
  DEF CallStarts, CallWrites, CallReceives, CallContextDone, Register, RefuseClosed, Write, WriteFails, ContextDone
<1>8. CASE SubsReadLoop
  BY <1>2, <1>8 DEF SubsReadLoop, ReadEvent, ReadResponse, ReadGarbled, ReadFails, callVars
<1>9. CASE (Close /\ UNCHANGED subVars) \/ TargetServes \/ TargetReplies \/ TargetEvent \/ TargetGarbles \/ LinkEnds
  BY <1>2, <1>9 DEF Close, TargetServes, TargetReplies, TargetEvent, TargetGarbles, LinkEnds, TargetApply, TargetReply, callVars
<1>10. ASSUME NEW s \in Subs, Subscribe(s) \/ unsubscribeAsync(s) \/ Cancel(s) \/ Consume(s) PROVE Concluded'
  BY <1>2, <1>10 DEF Subscribe, SubscribeBegin, SubscribeRefused, SubscribeAwaits, SubscribeRegisters, SubscribeWakes,
    SubscribeReturns, WatchContext, unsubscribeAsync, CleanupReturns, CleanupClears, Cancel, Consume, vars, callVars
<1>11. CASE UNCHANGED allVars
  BY <1>2, <1>11 DEF allVars, vars, callVars
<1> QED
  BY <1>7, <1>8, <1>9, <1>10, <1>11 DEF SubsNext

\* What a frame that is read, or lost with the others, leaves in the inbox.
LEMMA ReadLeaves ==
  ASSUME Inv, SubsReadLoop
  PROVE  \/ inbox # <<>> /\ inbox' = Tail(inbox)
         \/ inbox' = <<>>
BY DEF SubsReadLoop, ReadEvent, IsEvent, ReadResponse, ReadGarbled, ReadFails, failPending

\* Every step leaves streams and events to subscriptions.
LEMMA NamedKept == Inv /\ Named /\ [SubsNext]_allVars => Named'
<1> SUFFICES ASSUME Inv, Named, [SubsNext]_allVars PROVE Named'
  OBVIOUS
<1>1. inbox \in Seq(Response \cup Unasked)
  BY DEF Inv, TypeOK
<1>2. CASE UNCHANGED inbox /\ (UNCHANGED streams \/ streams' = {})
  BY <1>2 DEF Named
<1>3. CASE SubsReadLoop
  <2>1. UNCHANGED streams
    BY <1>3 DEF SubsReadLoop, ReadEvent, failSubscriptions, subVars
  <2>2. CASE inbox' = <<>>
    BY <2>1, <2>2 DEF Named
  <2>3. CASE inbox # <<>> /\ inbox' = Tail(inbox)
    BY <1>1, <2>1, <2>3, TailElements DEF Named
  <2> QED
    BY <1>3, <2>2, <2>3, ReadLeaves
<1>4. CASE TargetServes
  <2>1. streams' \subseteq streams \cup (Subs \cap {Head(outbox).call})
    BY <1>4 DEF TargetServes, StreamsAfter
  <2>2. UNCHANGED inbox
    BY <1>4 DEF TargetServes, TargetApply
  <2> QED
    BY <2>1, <2>2 DEF Named
<1>5. ASSUME NEW f \in Response \cup Unasked, inbox' = Append(inbox, f), UNCHANGED streams,
             f.body.how = "event" => f.body.re \in Subs
      PROVE  Named'
  BY <1>1, <1>5, AppendElements DEF Named
<1>6. CASE TargetReplies
  <2>1. PICK r \in serving : inbox' = Append(inbox, [id |-> r.id, body |-> Body(verdict[r.call], r.call)])
    BY <1>6 DEF TargetReplies, TargetReply
  <2>2. r.id \in Nat /\ r.call \in Calls /\ verdict[r.call] \in Verdict
    BY DEF Inv, TypeOK, Request, RepliesOwn
  <2>3. [id |-> r.id, body |-> Body(verdict[r.call], r.call)] \in Response /\ Body(verdict[r.call], r.call).how # "event"
    BY <2>2 DEF Response, Answer, Body, Verdict
  <2> QED
    BY <1>5, <1>6, <2>1, <2>3 DEF TargetReplies, subVars
<1>7. CASE TargetEvent
  <2>1. PICK s \in streams : inbox' = Append(inbox, Event(s))
    BY <1>7 DEF TargetEvent
  <2>2. Event(s) \in Unasked /\ Event(s).body.re \in Subs
    BY SubsAssumption DEF Named, Event, Unasked, Body
  <2> QED
    BY <1>5, <1>7, <2>1, <2>2 DEF TargetEvent
<1>8. CASE TargetGarbles
  <2>1. Garbled \in Unasked /\ Garbled.body.how # "event"
    BY BodiesDiffer DEF Garbled, Body
  <2> QED
    BY <1>5, <1>8, <2>1 DEF TargetGarbles, subVars
<1>9. CASE (Close /\ UNCHANGED subVars) \/ LinkEnds
  BY <1>2, <1>9 DEF Close, LinkEnds, LinkDrops, subVars
<1>10. ASSUME NEW s \in Subs, Subscribe(s) \/ unsubscribeAsync(s) \/ Cancel(s) \/ Consume(s) PROVE Named'
  BY <1>2, <1>10 DEF Subscribe, SubscribeBegin, SubscribeRefused, SubscribeAwaits, SubscribeRegisters, SubscribeWakes,
    SubscribeReturns, WatchContext, unsubscribeAsync, CleanupReturns, LinkDrops, CleanupClears, Cancel, Consume, vars
<1>11. ASSUME NEW c \in Calls, CallStarts(c) \/ CallWrites(c) \/ CallReceives(c) \/ CallContextDone(c) PROVE Named'
  BY <1>2, <1>11 DEF CallStarts, CallWrites, CallReceives, CallContextDone, Register, RefuseClosed, Write, WriteFails,
    ContextDone, Receive, subVars
<1>12. CASE UNCHANGED allVars
  BY <1>2, <1>12 DEF allVars, vars, subVars
<1> QED
  BY <1>3, <1>4, <1>6, <1>7, <1>8, <1>9, <1>10, <1>11, <1>12 DEF SubsNext

\* Every step keeps the books.
LEMMA BooksKept == Kept /\ [SubsNext]_allVars => Books'
<1> SUFFICES ASSUME Inv, Concluded, Named, Books, [SubsNext]_allVars PROVE Books'
  BY DEF Kept
<1>1. CASE UNCHANGED <<regVars, spc, awaits, events, readErr>>
  BY <1>1, BooksUntouched
<1>2. ASSUME NEW s \in Subs, SubscribeBegin(s) \/ SubscribeRefused(s) \/ SubscribeWakes(s) PROVE Books'
  <2>1. PICK to \in {"enter", "failed"} : spc' = [spc EXCEPT ![s] = to]
    BY <1>2 DEF SubscribeBegin, SubscribeRefused, SubscribeWakes
  <2>2. UNCHANGED <<regVars, awaits, events, readErr>> /\ spc[s] \in {"idle", "enter", "await"}
    BY <1>2 DEF SubscribeBegin, SubscribeRefused, SubscribeWakes, vars, clientVars
  <2>3. ~Registered(s)
    BY <2>2 DEF Books, Booked
  <2>4. to = "enter" => spc[s] \in {"idle", "await"}
    <3>1. spc'[s] = to
      BY <2>1 DEF Books, BookTypes
    <3>2. SubscribeRefused(s) => spc'[s] = "failed"
      BY DEF SubscribeRefused, Books, BookTypes
    <3> QED
      BY <1>2, <3>1, <3>2 DEF SubscribeBegin, SubscribeWakes
  <2> QED
    BY <2>1, <2>2, <2>3, <2>4, SubscribeMovesBooks
<1>3. ASSUME NEW s \in Subs, Subscribe(s) PROVE Books'
  BY <1>2, <1>3, SubscribeAwaitsBooks, SubscribeRegistersBooks, SubscribeReturnsBooks, WatchContextBooks DEF Subscribe
<1>4. ASSUME NEW s \in Subs, unsubscribeAsync(s) PROVE Books'
  BY <1>4, CleanupReturnsBooks, CleanupClearsBooks DEF unsubscribeAsync
<1>5. ASSUME NEW s \in Subs, Cancel(s) \/ Consume(s) PROVE Books'
  BY <1>1, <1>5, ConsumeBooks DEF Cancel, vars, clientVars
<1>6. CASE SubsReadLoop
  <2>1. CASE ReadEvent
    BY <2>1, ReadEventBooks DEF Named
  <2>2. CASE ReadResponse /\ UNCHANGED subVars
    BY <1>1, <2>2 DEF ReadResponse, Deliver, subVars
  <2>3. CASE (ReadGarbled \/ ReadFails) /\ failSubscriptions
    BY <2>3, FailBooks DEF ReadGarbled, ReadFails, failPending
  <2> QED
    BY <1>6, <2>1, <2>2, <2>3 DEF SubsReadLoop
<1>7. ASSUME NEW c \in Calls, CallStarts(c) \/ CallWrites(c) \/ CallReceives(c) \/ CallContextDone(c) PROVE Books'
  BY <1>1, <1>7 DEF CallStarts, CallWrites, CallReceives, CallContextDone, Register, RefuseClosed, Write, WriteFails,
    ContextDone, Receive, subVars, clientVars
<1>8. CASE (Close /\ UNCHANGED subVars) \/ TargetServes \/ TargetReplies \/ TargetEvent \/ TargetGarbles \/ LinkEnds
  BY <1>1, <1>8 DEF Close, TargetServes, TargetApply, TargetReplies, TargetReply, TargetEvent, TargetGarbles, LinkEnds,
    subVars, clientVars
<1>9. CASE UNCHANGED allVars
  BY <1>1, <1>9 DEF allVars, vars, clientVars, subVars
<1> QED
  BY <1>3, <1>4, <1>5, <1>6, <1>7, <1>8, <1>9 DEF SubsNext

\* Every step keeps what the client knows.
LEMMA StepKept == Kept /\ [SubsNext]_allVars => Kept'
BY CallsKept, ConcludedKept, NamedKept, BooksKept DEF Kept, Named

\* Nobody has subscribed.
LEMMA InitKept == SubsInit => Kept
<1> SUFFICES ASSUME SubsInit PROVE Kept
  OBVIOUS
<1>1. Inv
  BY InitInv DEF SubsInit
<1>2. Concluded /\ Named
  BY DEF SubsInit, Init, Concluded, Named
<1>3. DOMAIN subscriptions = {} /\ DOMAIN unsubscribing = {}
  BY DEF SubsInit
<1>4. Maps
  BY <1>3 DEF Maps
<1>5. BookTypes
  BY DEF SubsInit, BookTypes, Undone
<1>6. ASSUME NEW s \in Subs PROVE Booked(s)
  BY <1>3, SubsAssumption DEF SubsInit, Booked, Registered, Cleaning
<1> QED
  BY <1>1, <1>2, <1>4, <1>5, <1>6 DEF Kept, Books

\* What the client knows holds in every state.
LEMMA AlwaysKept == SubsSpec => []Kept
BY InitKept, StepKept, PTL DEF SubsSpec

-----------------------------------------------------------------------------
(* What follows from the books.                                            *)

\* The read loop never sends to a channel that was closed: a registered
\* subscription is open, its source is not being unsubscribed, and nothing
\* is registered with a client whose read loop has returned.
THEOREM NeverSendsOnClosed == SubsSpec => []RegisteredIsOpen
<1>1. Kept => RegisteredIsOpen
  <2> SUFFICES ASSUME Kept, NEW x \in DOMAIN subscriptions
               PROVE  subErr[subscriptions[x]] = "open" /\ x \notin DOMAIN unsubscribing /\ ~readErr
    BY DEF RegisteredIsOpen
  <2>1. subscriptions[x] \in Subs /\ SourceOf[subscriptions[x]] = x
    BY DEF Kept, Books, Maps
  <2> QED
    BY <2>1 DEF Kept, Books, Booked, Registered
<1> QED
  BY <1>1, AlwaysKept, PTL

\* No cleanup's done channel is closed twice, by its goroutine and by the
\* read loop that fails meanwhile.
THEOREM NeverClosedTwice == SubsSpec => []DoneClosedOnce
<1>1. Kept => DoneClosedOnce
  <2> SUFFICES ASSUME Kept, NEW s \in Subs PROVE doneCloses[s] <= 1
    BY DEF DoneClosedOnce
  <2>1. doneCloses[s] \in {0, 1}
    BY DEF Kept, Books, BookTypes
  <2> QED
    BY <2>1
<1> QED
  BY <1>1, AlwaysKept, PTL

\* A Subscribe that waits for a cleanup is never left waiting for one that
\* has ended without telling it.
THEOREM WaitsForTheLiving == SubsSpec => []AwaitedCleanupRuns
<1>1. Kept => AwaitedCleanupRuns
  <2> SUFFICES ASSUME Kept, NEW s \in Subs, spc[s] = "await"
               PROVE  \/ doneCloses[awaits[s]] > 0
                      \/ Cleaning(awaits[s]) /\ cleanup[awaits[s]] \in {"calling", "clear"}
    BY DEF AwaitedCleanupRuns
  <2>1. awaits[s] \in Subs
    BY DEF Kept, Books, BookTypes
  <2> QED
    BY <2>1 DEF Kept, Books, Booked
<1> QED
  BY <1>1, AlwaysKept, PTL

-----------------------------------------------------------------------------
(* The promise to the consumer: StreamContract is implemented.             *)

StateOf(s) == IF Registered(s) THEN "open" ELSE IF subErr[s] = "open" THEN "idle" ELSE "ended"

\* A registered subscription ends.
LEMMA EndMaps ==
  ASSUME Kept, NEW s \in Subs, NEW why \in Stream!Reasons, NEW unsubscribe \in BOOLEAN,
         endSubscription(s, why, unsubscribe), Registered(s), UNCHANGED events,
         why = "overflow" => Len(events[s]) = Capacity
  PROVE  Stream!End(s, why)
<1>0. Books
  BY DEF Kept
<1>1. /\ Maps' /\ UNCHANGED doneCloses
      /\ \A t \in Subs : Registered(t)' <=> Registered(t) /\ t # s
      /\ subErr' = [subErr EXCEPT ![s] = why]
      /\ SourceOf[s] \notin DOMAIN unsubscribing
      /\ unsubscribe =>
           /\ \A t \in Subs : Cleaning(t)' <=> Cleaning(t) \/ t = s
           /\ DOMAIN unsubscribing' = DOMAIN unsubscribing \cup {SourceOf[s]}
           /\ cleanup' = [cleanup EXCEPT ![s] = "calling"]
      /\ ~unsubscribe => UNCHANGED <<unsubscribing, cleanup>>
  BY <1>0, EndEffect
<1>2. subErr \in [Subs -> {"open"} \cup Stream!Reasons] /\ why # "open"
  BY DEF Kept, Books, BookTypes, Stream!Reasons
<1>3. streamState[s] = "open"
  BY DEF streamState
<1>4. \A t \in Subs : StateOf(t)' = IF t = s THEN "ended" ELSE StateOf(t)
  BY <1>1, <1>2 DEF StateOf
<1>5. streamState' = [streamState EXCEPT ![s] = "ended"]
  BY <1>4 DEF streamState, StateOf
<1> QED
  BY <1>1, <1>3, <1>5 DEF Stream!End

\* Ending one that is not registered changes nothing the consumer sees.
LEMMA EndStutters ==
  ASSUME NEW s \in Subs, NEW why, NEW unsubscribe, endSubscription(s, why, unsubscribe), ~Registered(s)
  PROVE  UNCHANGED regVars
BY DEF endSubscription

\* A step that touches neither registration, reason nor buffer is no step of the stream.
LEMMA StreamStutters ==
  ASSUME UNCHANGED <<subscriptions, subErr, events>>
  PROVE  UNCHANGED Stream!vars
BY DEF Stream!vars, streamState, Registered

\* Every step is one of StreamContract, or a stutter.
LEMMA StepStream == Kept /\ [SubsNext]_allVars => [Stream!Next]_(Stream!vars)
<1> SUFFICES ASSUME Kept, [SubsNext]_allVars PROVE Stream!Next \/ UNCHANGED Stream!vars
  OBVIOUS
<1>1. CASE UNCHANGED <<regVars, events>>
  BY <1>1, StreamStutters DEF regVars
<1>2. ASSUME NEW s \in Subs, SubscribeRegisters(s) PROVE Stream!Next
  <2>1. /\ UNCHANGED <<subErr, events>> /\ spc[s] = "enter"
        /\ \A t \in Subs : Registered(t)' <=> Registered(t) \/ t = s
    BY <1>2, RegisterEffect DEF Kept
  <2>2. subErr[s] = "open" /\ ~Registered(s)
    BY <2>1 DEF Kept, Books, Booked
  <2>3. streamState[s] = "idle"
    BY <2>2 DEF streamState
  <2>4. \A t \in Subs : StateOf(t)' = IF t = s THEN "open" ELSE StateOf(t)
    BY <2>1 DEF StateOf
  <2>5. streamState' = [streamState EXCEPT ![s] = "open"]
    BY <2>4 DEF streamState, StateOf
  <2>6. Stream!Open(s)
    BY <2>1, <2>3, <2>5 DEF Stream!Open
  <2> QED
    BY <2>6 DEF Stream!Next
<1>3. ASSUME NEW s \in Subs, SubscribeReturns(s) PROVE Stream!Next \/ UNCHANGED Stream!vars
  <2> DEFINE how == outcome[s].how
  <2>1. CASE how = "result"
    BY <1>1, <1>3, <2>1 DEF SubscribeReturns
  <2>2. CASE how # "result"
    <3>1. endSubscription(s, how, how # "error") /\ UNCHANGED events /\ pc[s] = "done"
      BY <1>3, <2>2 DEF SubscribeReturns
    <3>2. outcome[s] \in Answer \cup {ErrInterrupted, ErrContext, ErrClosed}
      BY <3>1, SubsAssumption DEF Kept, Inv, TypeOK, Concluded
    <3>3. how \in Stream!Reasons /\ how # "overflow"
      BY <2>2, <3>2 DEF Answer, Verdict, ErrInterrupted, ErrContext, ErrClosed, Body, Stream!Reasons
    <3> HIDE DEF how
    <3>4. CASE Registered(s)
      <4>1. Stream!End(s, how)
        BY <3>1, <3>3, <3>4, EndMaps
      <4> QED
        BY <3>3, <4>1 DEF Stream!Next
    <3>5. CASE ~Registered(s)
      BY <1>1, <3>1, <3>5, EndStutters
    <3> QED
      BY <3>4, <3>5
  <2> QED
    BY <2>1, <2>2
<1>4. ASSUME NEW s \in Subs, WatchContext(s) PROVE Stream!Next \/ UNCHANGED Stream!vars
  <2>1. endSubscription(s, "cancelled", TRUE) /\ UNCHANGED events
    BY <1>4 DEF WatchContext
  <2>2. CASE Registered(s)
    <3>1. "cancelled" \in Stream!Reasons
      BY DEF Stream!Reasons
    <3>2. Stream!End(s, "cancelled")
      BY <2>1, <2>2, <3>1, EndMaps
    <3> QED
      BY <3>1, <3>2 DEF Stream!Next
  <2>3. CASE ~Registered(s)
    BY <1>1, <2>1, <2>3, EndStutters
  <2> QED
    BY <2>2, <2>3
<1>5. ASSUME NEW s \in Subs, Consume(s) PROVE Stream!Next
  <2>1. events[s] # <<>> /\ events' = [events EXCEPT ![s] = Tail(@)] /\ UNCHANGED regVars
    BY <1>5 DEF Consume
  <2>2. UNCHANGED <<streamState, subErr>>
    BY <2>1 DEF streamState, Registered, regVars
  <2>3. Stream!Take(s)
    BY <2>1, <2>2 DEF Stream!Take
  <2> QED
    BY <2>3 DEF Stream!Next
<1>6. CASE ReadEvent
  <2> DEFINE e == Head(inbox).body.re
  <2>1. /\ e \in Subs
        /\ \/ UNCHANGED <<regVars, events>>
           \/ \E t \in Subs :
                /\ Registered(t)
                /\ \/ Len(events[t]) < Capacity /\ events' = [events EXCEPT ![t] = Append(@, e)] /\ UNCHANGED regVars
                   \/ Len(events[t]) = Capacity /\ endSubscription(t, "overflow", TRUE) /\ UNCHANGED events
    BY <1>6, DispatchEffect DEF Kept, Named
  <2> HIDE DEF e
  <2>2. ASSUME NEW t \in Subs, Registered(t), Len(events[t]) < Capacity, events' = [events EXCEPT ![t] = Append(@, e)],
               UNCHANGED regVars
        PROVE  Stream!Next
    <3>1. UNCHANGED <<streamState, subErr>>
      BY <2>2 DEF streamState, Registered, regVars
    <3>2. streamState[t] = "open"
      BY <2>2 DEF streamState
    <3>3. Stream!Push(t, e)
      BY <2>2, <3>1, <3>2 DEF Stream!Push
    <3> QED
      BY <2>1, <3>3 DEF Stream!Next
  <2>3. ASSUME NEW t \in Subs, Registered(t), Len(events[t]) = Capacity, endSubscription(t, "overflow", TRUE),
               UNCHANGED events
        PROVE  Stream!Next
    <3>1. "overflow" \in Stream!Reasons
      BY DEF Stream!Reasons
    <3>2. Stream!End(t, "overflow")
      BY <2>3, <3>1, EndMaps
    <3> QED
      BY <3>1, <3>2 DEF Stream!Next
  <2> QED
    BY <1>1, <2>1, <2>2, <2>3
<1>7. CASE failSubscriptions
  <2>1. /\ subErr' = [s \in Subs |-> IF Registered(s) THEN "interrupted" ELSE subErr[s]]
        /\ DOMAIN subscriptions' = {} /\ UNCHANGED events
    BY <1>7 DEF failSubscriptions
  <2>2. \A s \in Subs : Registered(s) <=> streamState[s] = "open"
    BY DEF streamState
  <2>3. subErr' = [s \in Subs |-> IF streamState[s] = "open" THEN "interrupted" ELSE subErr[s]]
    BY <2>1, <2>2
  <2>4. \A s \in Subs : StateOf(s)' = IF StateOf(s) = "open" THEN "ended" ELSE StateOf(s)
    BY <2>1 DEF StateOf, Registered
  <2>5. streamState' = [s \in Subs |-> IF streamState[s] = "open" THEN "ended" ELSE streamState[s]]
    BY <2>4 DEF streamState, StateOf
  <2>6. Stream!Interrupt
    BY <2>1, <2>3, <2>5 DEF Stream!Interrupt
  <2> QED
    BY <2>6 DEF Stream!Next
<1>8. ASSUME NEW s \in Subs, Subscribe(s) \/ unsubscribeAsync(s) \/ Cancel(s) \/ Consume(s)
      PROVE  Stream!Next \/ UNCHANGED Stream!vars
  <2>1. CASE SubscribeBegin(s) \/ SubscribeRefused(s) \/ SubscribeAwaits(s) \/ SubscribeWakes(s) \/ Cancel(s)
    BY <1>1, <2>1 DEF SubscribeBegin, SubscribeRefused, SubscribeAwaits, SubscribeWakes, Cancel
  <2>2. CASE CleanupReturns(s) \/ CleanupClears(s)
    BY <2>2, StreamStutters DEF CleanupReturns, CleanupClears
  <2> QED
    BY <1>2, <1>3, <1>4, <1>5, <1>8, <2>1, <2>2 DEF Subscribe, unsubscribeAsync
<1>9. CASE SubsReadLoop
  BY <1>1, <1>6, <1>7, <1>9 DEF SubsReadLoop, subVars
<1>10. ASSUME NEW c \in Calls, CallStarts(c) \/ CallWrites(c) \/ CallReceives(c) \/ CallContextDone(c)
       PROVE  UNCHANGED Stream!vars
  BY <1>1, <1>10, StreamStutters DEF CallStarts, CallWrites, CallReceives, CallContextDone, subVars, regVars
<1>11. CASE (Close /\ UNCHANGED subVars) \/ TargetServes \/ TargetReplies \/ TargetEvent \/ TargetGarbles \/ LinkEnds
  BY <1>1, <1>11 DEF TargetServes, TargetReplies, TargetEvent, TargetGarbles, LinkEnds, subVars
<1>12. CASE UNCHANGED allVars
  BY <1>1, <1>12 DEF allVars, subVars
<1> QED
  BY <1>8, <1>9, <1>10, <1>11, <1>12 DEF SubsNext

\* A subscription starts as StreamContract has it.
LEMMA InitStream == SubsInit => Stream!Init
<1> SUFFICES ASSUME SubsInit PROVE Stream!Init
  OBVIOUS
<1>1. DOMAIN subscriptions = {} /\ \A s \in Subs : subErr[s] = "open"
  BY DEF SubsInit
<1>2. streamState = [s \in Subs |-> "idle"]
  BY <1>1 DEF streamState, Registered
<1> QED
  BY <1>2 DEF Stream!Init, SubsInit

\* Subscribe keeps its promise to the consumer, whatever the calls, the
\* cleanups, the link and the target do: a bounded buffer filled while the
\* stream is open, and one end, with its reason.
THEOREM SubscribeKeepsContract == SubsSpec => ImplementsStream
<1>1. SubsSpec => Stream!Spec
  BY InitStream, StepStream, AlwaysKept, PTL DEF SubsSpec, Stream!Spec
<1> QED
  BY <1>1 DEF ImplementsStream

-----------------------------------------------------------------------------
(* What is on its way, step by step.                                       *)

\* Nothing of it is asked of a link that is down.
LEMMA LinkDown ==
  ASSUME link' # "up", NEW s \in Subs
  PROVE  Queued(s)' /\ Asked(s)' /\ Watched(s)' /\ LastWord(s)' /\ OnePerSource'
BY DEF Queued, Asked, Watched, LastWord, OnePerSource

\* What a step inside Call changes.
LEMMA CallEffect ==
  ASSUME Inv, NEW c \in Calls, CallStarts(c) \/ CallWrites(c) \/ CallReceives(c) \/ CallContextDone(c)
  PROVE  /\ UNCHANGED <<subVars, link, readErr, inbox, verdict>>
         /\ pc[c] # "done" /\ (pc[c] = "idle" => Started(c))
         /\ \E p \in {"write", "wait", "done"} : pc' = [pc EXCEPT ![c] = p] /\ (p = "write" => pc[c] = "idle")
         /\ \A d \in Calls : d # c => outcome'[d] = outcome[d]
         /\ \A d \in Calls : outcome'[d].how = "result" => outcome[d].how = "result" \/ ch[d].how = "result"
         /\ \A d \in Calls : ch'[d].how = "result" => ch[d].how = "result"
         /\ \/ UNCHANGED outbox
            \/ outbox' = Append(outbox, [id |-> id[c], call |-> c]) /\ pc[c] = "write"
<1>1. /\ pc \in [Calls -> {"idle", "write", "wait", "done"}]
      /\ DOMAIN outcome = Calls /\ DOMAIN ch = Calls
  BY DEF Inv, TypeOK
<1>2. ErrClosed.how # "result" /\ ErrInterrupted.how # "result" /\ ErrContext.how # "result" /\ Empty.how # "result"
  BY DEF ErrClosed, ErrInterrupted, ErrContext, Empty, Body
<1>3. CASE Register(c) /\ Started(c) /\ UNCHANGED subVars
  BY <1>1, <1>3 DEF Register, targetVars
<1>4. CASE RefuseClosed(c) /\ Started(c) /\ UNCHANGED subVars
  BY <1>1, <1>2, <1>4 DEF RefuseClosed, Return, targetVars, clientVars
<1>5. CASE Write(c) /\ UNCHANGED subVars
  BY <1>1, <1>5 DEF Write, targetVars, clientVars
<1>6. CASE (WriteFails(c) \/ ContextDone(c)) /\ UNCHANGED subVars
  BY <1>1, <1>2, <1>6 DEF WriteFails, ContextDone, Return, targetVars, clientVars
<1>7. CASE Receive(c) /\ UNCHANGED subVars
  BY <1>1, <1>2, <1>7 DEF Receive, Return, targetVars, clientVars
<1> QED
  BY <1>3, <1>4, <1>5, <1>6, <1>7 DEF CallStarts, CallWrites, CallReceives, CallContextDone

\* A call that has started is a subscription's, and its subscription is at it.
LEMMA StartedWhere ==
  ASSUME NEW c \in Calls, Started(c), NEW s \in Subs
  PROVE  /\ c = s => spc[s] = "calling"
         /\ c = CleanupOf[s] => cleanup[s] = "calling"
         /\ c \in Subs \/ \E t \in Subs : CleanupOf[t] = c
BY SubsAssumption DEF Started

\* A step of a call keeps the calls in step with the subscriptions that make them.
LEMMA CallStepped ==
  ASSUME SubsInv, NEW c \in Calls, CallStarts(c) \/ CallWrites(c) \/ CallReceives(c) \/ CallContextDone(c)
  PROVE  Callers' /\ \A s \in Subs : Stepped(s)'
<1>1. /\ UNCHANGED <<spc, cleanup, link>>
      /\ pc[c] # "done" /\ (pc[c] = "idle" => Started(c))
      /\ \A d \in Calls : d # c => outcome'[d] = outcome[d]
  BY CallEffect DEF SubsInv, Kept, subVars, regVars
<1>2. PICK p \in {"write", "wait", "done"} : pc' = [pc EXCEPT ![c] = p]
  BY CallEffect DEF SubsInv, Kept
<1>3. /\ \A d \in Calls : pc'[d] = IF d = c THEN p ELSE pc[d]
      /\ pc[c] \in {"idle", "write", "wait"} /\ outcome[c].how # "result"
  <2>1. pc \in [Calls -> {"idle", "write", "wait", "done"}]
    BY DEF SubsInv, Kept, Inv, TypeOK
  <2>2. outcome[c] = NoOutcome
    BY <1>1 DEF SubsInv, Kept, Inv, ChannelsOwn
  <2> QED
    BY <1>1, <1>2, <2>1, <2>2 DEF NoOutcome, Body
<1>4. Callers'
  <2> SUFFICES ASSUME NEW d \in Calls, pc'[d] # "idle" PROVE d \in Subs \/ \E t \in Subs : CleanupOf[t] = d
    BY DEF Callers
  <2>1. CASE pc[d] # "idle"
    BY <2>1 DEF SubsInv, Wire, Callers
  <2>2. CASE pc[d] = "idle"
    <3>1. d = c
      BY <1>3, <2>2
    <3> QED
      BY <1>1, <2>2, <3>1 DEF Started
  <2> QED
    BY <2>1, <2>2
<1>5. ASSUME NEW s \in Subs PROVE Stepped(s)'
  <2>1. s \in Calls /\ CleanupOf[s] \in Calls /\ CleanupOf[s] # s
    BY SubsAssumption
  <2>2. pc[c] = "idle" => (c = s => spc[s] = "calling") /\ (c = CleanupOf[s] => cleanup[s] = "calling")
    BY <1>1, StartedWhere
  <2>3. Stepped(s)
    BY DEF SubsInv, Wire
  <2>4. CASE s = c
    BY <1>1, <1>3, <2>1, <2>2, <2>3, <2>4 DEF Stepped
  <2>5. CASE CleanupOf[s] = c
    BY <1>1, <1>3, <2>1, <2>2, <2>3, <2>5 DEF Stepped
  <2>6. CASE s # c /\ CleanupOf[s] # c
    BY <1>1, <1>3, <2>1, <2>3, <2>6 DEF Stepped
  <2> QED
    BY <2>4, <2>5, <2>6
<1> QED
  BY <1>4, <1>5

\* A request that is written is the last one in the outbox.
LEMMA WriteElements ==
  ASSUME Inv, NEW c \in Calls, outbox' = Append(outbox, [id |-> id[c], call |-> c])
  PROVE  /\ \A i \in DOMAIN outbox' : (i \in DOMAIN outbox /\ outbox'[i] = outbox[i]) \/ outbox'[i].call = c
         /\ \A i, j \in DOMAIN outbox' : i < j => i \in DOMAIN outbox /\ outbox'[i] = outbox[i]
<1>1. outbox \in Seq(Request) /\ [id |-> id[c], call |-> c] \in Request
  BY DEF Inv, TypeOK, Request
<1>2. \A i \in DOMAIN outbox' :
        \/ i \in DOMAIN outbox /\ outbox'[i] = outbox[i]
        \/ i = Len(outbox) + 1 /\ i \notin DOMAIN outbox /\ outbox'[i] = [id |-> id[c], call |-> c]
  BY <1>1, AppendElements
<1>3. \A j \in DOMAIN outbox' : j \in Nat /\ j <= Len(outbox) + 1
  BY <1>1
<1> QED
  BY <1>1, <1>2, <1>3

\* Writing turns what may yet be written into what was: nothing new reaches
\* the target.
LEMMA CallReaches ==
  ASSUME SubsInv, NEW c \in Calls, CallStarts(c) \/ CallWrites(c) \/ CallReceives(c) \/ CallContextDone(c), NEW s \in Subs
  PROVE  /\ Reaches(s)' => Reaches(s)
         /\ Unwritten(s)' => Unwritten(s)
         /\ InOutbox(s)' => InOutbox(s) \/ (s = c /\ pc[c] = "write" /\ Unwritten(s))
<1>1. UNCHANGED <<spc, streams>>
  BY CallEffect DEF SubsInv, Kept, subVars
<1>2. PICK p \in {"write", "wait", "done"} : pc' = [pc EXCEPT ![c] = p] /\ (p = "write" => pc[c] = "idle")
  BY CallEffect DEF SubsInv, Kept
<1>3. pc \in [Calls -> {"idle", "write", "wait", "done"}] /\ s \in Calls
  BY SubsAssumption DEF SubsInv, Kept, Inv, TypeOK
<1>4. Unwritten(s)' => Unwritten(s)
  BY <1>1, <1>2, <1>3 DEF Unwritten
<1>5. InOutbox(s)' => InOutbox(s) \/ (s = c /\ pc[c] = "write" /\ Unwritten(s))
  <2>1. CASE UNCHANGED outbox
    BY <2>1 DEF InOutbox
  <2>2. CASE outbox' = Append(outbox, [id |-> id[c], call |-> c]) /\ pc[c] = "write"
    <3>1. \A i \in DOMAIN outbox' : (i \in DOMAIN outbox /\ outbox'[i] = outbox[i]) \/ outbox'[i].call = c
      BY <2>2, WriteElements DEF SubsInv, Kept
    <3>2. InOutbox(s)' => InOutbox(s) \/ s = c
      BY <3>1 DEF InOutbox
    <3>3. s = c => Unwritten(s)
      BY <2>2 DEF SubsInv, Wire, Stepped, Unwritten
    <3> QED
      BY <2>2, <3>2, <3>3
  <2> QED
    BY <2>1, <2>2, CallEffect DEF SubsInv, Kept
<1> QED
  BY <1>1, <1>4, <1>5 DEF Reaches

\* A step of a call: at most it writes its request behind all others.
LEMMA CallWire ==
  ASSUME SubsInv, NEW c \in Calls, CallStarts(c) \/ CallWrites(c) \/ CallReceives(c) \/ CallContextDone(c)
  PROVE  Wire'
<1>1. Callers' /\ \A s \in Subs : Stepped(s)'
  BY CallStepped
<1>2. /\ UNCHANGED <<subscriptions, unsubscribing, spc, cleanup, events, streams, link, readErr, inbox, verdict>>
      /\ \A d \in Calls : outcome'[d].how = "result" => outcome[d].how = "result" \/ ch[d].how = "result"
      /\ \A d \in Calls : ch'[d].how = "result" => ch[d].how = "result"
  BY CallEffect DEF SubsInv, Kept, subVars, regVars
<1>3. Sent'
  BY <1>2 DEF SubsInv, Wire, Sent
<1>4. OnePerSource'
  BY <1>2, CallReaches DEF SubsInv, Wire, OnePerSource
<1>5. ASSUME NEW s \in Subs
      PROVE  Queued(s)' /\ Asked(s)' /\ Watched(s)' /\ LastWord(s)' /\ OwnAhead(s)' /\ OwnBuffered(s)'
  <2>1. /\ Reaches(s)' => Reaches(s)
        /\ Unwritten(s)' => Unwritten(s)
        /\ InOutbox(s)' => InOutbox(s) \/ (s = c /\ pc[c] = "write" /\ Unwritten(s))
    BY CallReaches
  <2>2. (Registered(s)' <=> Registered(s)) /\ (Cleaning(s)' <=> Cleaning(s)) /\ (Heard(s)' <=> Heard(s))
    BY <1>2 DEF Registered, Cleaning, Heard, EventAt
  <2>3. Queued(s)'
    <3> SUFFICES ASSUME link = "up"
                 PROVE  /\ \A i, j \in DOMAIN outbox' : i < j /\ outbox'[i].call = CleanupOf[s] => outbox'[j].call # s
                        /\ verdict[CleanupOf[s]] # "none" => ~InOutbox(s)'
                        /\ verdict[CleanupOf[s]] = "result" => s \notin streams
      BY <1>2 DEF Queued
    <3>1. Queued(s) /\ Asked(s) /\ Stepped(s)
      BY DEF SubsInv, Wire
    <3>2. CleanupOf[s] \in Calls
      BY SubsAssumption
    <3>3. Unwritten(s) => verdict[CleanupOf[s]] = "none" /\ ~InOutbox(CleanupOf[s])
      <4>1. Unwritten(s) => pc[CleanupOf[s]] = "idle"
        BY <3>1 DEF Asked, Stepped
      <4> QED
        BY <3>2, <4>1 DEF SubsInv, Kept, Inv, RequestsOnce, InOutbox
    <3>4. verdict[CleanupOf[s]] # "none" => ~InOutbox(s)'
      BY <2>1, <3>1, <3>3 DEF Queued
    <3>5. \A i, j \in DOMAIN outbox' : i < j /\ outbox'[i].call = CleanupOf[s] => outbox'[j].call # s
      <4>1. CASE UNCHANGED outbox
        BY <3>1, <4>1 DEF Queued
      <4>2. CASE outbox' = Append(outbox, [id |-> id[c], call |-> c]) /\ pc[c] = "write"
        <5>1. /\ \A i \in DOMAIN outbox' : (i \in DOMAIN outbox /\ outbox'[i] = outbox[i]) \/ outbox'[i].call = c
              /\ \A i, j \in DOMAIN outbox' : i < j => i \in DOMAIN outbox /\ outbox'[i] = outbox[i]
          BY <4>2, WriteElements DEF SubsInv, Kept
        <5>2. c = s => Unwritten(s)
          BY <3>1, <4>2 DEF Stepped, Unwritten
        <5>3. ASSUME NEW i \in DOMAIN outbox', NEW j \in DOMAIN outbox', i < j, outbox'[i].call = CleanupOf[s]
              PROVE  outbox'[j].call # s
          <6>1. i \in DOMAIN outbox /\ outbox[i].call = CleanupOf[s]
            BY <5>1, <5>3
          <6>2. CASE c = s
            BY <3>3, <5>2, <6>1, <6>2 DEF InOutbox
          <6>3. CASE c # s
            BY <3>1, <5>1, <5>3, <6>1, <6>3 DEF Queued
          <6> QED
            BY <6>2, <6>3
        <5> QED
          BY <5>3
      <4> QED
        BY <4>1, <4>2, CallEffect DEF SubsInv, Kept
    <3> QED
      BY <3>1, <3>4, <3>5 DEF Queued
  <2>4. Asked(s)' /\ Watched(s)'
    BY <1>2, <2>1, <2>2 DEF SubsInv, Wire, Asked, Watched
  <2>5. LastWord(s)'
    <3>1. CleanupOf[s] \in Calls
      BY SubsAssumption
    <3> QED
      BY <1>2, <3>1 DEF SubsInv, Wire, LastWord, EventAt
  <2>6. OwnAhead(s)' /\ OwnBuffered(s)'
    BY <1>2, <2>2 DEF SubsInv, Wire, OwnAhead, OwnBuffered, EventAt
  <2> QED
    BY <2>3, <2>4, <2>5, <2>6
<1> QED
  BY <1>1, <1>3, <1>4, <1>5 DEF Wire

\* A frame may have been read: the inbox has lost its first k.
Shifted(k) == \A i \in DOMAIN inbox' : i + k \in DOMAIN inbox /\ inbox'[i] = inbox[i + k]

\* The read loop takes a frame, drops all of them, or leaves them.
LEMMA Reading ==
  ASSUME Inv, UNCHANGED inbox \/ (inbox # <<>> /\ inbox' = Tail(inbox)) \/ inbox' = <<>>
  PROVE  \E k \in {0, 1} : Shifted(k)
<1>1. inbox \in Seq(Response \cup Unasked)
  BY DEF Inv, TypeOK
<1>2. CASE UNCHANGED inbox
  <2>1. Shifted(0)
    BY <1>1, <1>2 DEF Shifted
  <2> QED
    BY <2>1
<1>3. CASE inbox # <<>> /\ inbox' = Tail(inbox)
  <2>1. Shifted(1)
    BY <1>1, <1>3, TailElements DEF Shifted
  <2> QED
    BY <2>1
<1>4. CASE inbox' = <<>>
  <2>1. Shifted(0)
    BY <1>4 DEF Shifted
  <2> QED
    BY <2>1
<1> QED
  BY <1>2, <1>3, <1>4

\* What is still heard of was heard of before.
LEMMA HeardBefore ==
  ASSUME NEW k \in {0, 1}, Shifted(k), NEW s \in Subs
  PROVE  Heard(s)' => Heard(s)
BY DEF Shifted, Heard, EventAt

\* What holds of a step that sends nothing, once the rest is seen to.
LEMMA WireMoves ==
  ASSUME SubsInv, NEW k \in {0, 1}, Shifted(k), Kept',
         UNCHANGED <<pc, outcome, link, outbox, verdict, streams>>,
         \A t \in Subs : link = "up" /\ Heard(t)' => (ch'[CleanupOf[t]].how = "result" => ch[CleanupOf[t]].how = "result"),
         \A t \in Subs : Registered(t)' => Registered(t) \/ verdict[t] # "result",
         OnePerSource', \A t \in Subs : Stepped(t)' /\ Asked(t)' /\ Watched(t)' /\ OwnBuffered(t)'
  PROVE  Wire'
<1>1. Callers' /\ Sent'
  BY DEF SubsInv, Wire, Callers, Sent, Shifted
<1>2. ASSUME NEW s \in Subs PROVE Queued(s)' /\ LastWord(s)' /\ OwnAhead(s)'
  <2>1. Queued(s) /\ LastWord(s) /\ OwnAhead(s)
    BY DEF SubsInv, Wire
  <2>2. Queued(s)'
    BY <2>1 DEF Queued, InOutbox
  <2>3. LastWord(s)'
    <3> SUFFICES ASSUME link = "up", NEW i \in DOMAIN inbox', EventAt(i, s)'
                 PROVE  /\ outcome[CleanupOf[s]].how # "result" /\ ch'[CleanupOf[s]].how # "result"
                        /\ \A j \in DOMAIN inbox' : j < i /\ inbox'[j].body.how = "result" => inbox'[j].body.re # CleanupOf[s]
      BY DEF LastWord
    <3>1. i + k \in DOMAIN inbox /\ EventAt(i + k, s) /\ Heard(s)'
      BY DEF Shifted, EventAt, Heard
    <3>2. /\ outcome[CleanupOf[s]].how # "result" /\ ch[CleanupOf[s]].how # "result"
          /\ \A j \in DOMAIN inbox : j < i + k /\ inbox[j].body.how = "result" => inbox[j].body.re # CleanupOf[s]
      BY <2>1, <3>1 DEF LastWord
    <3>3. DOMAIN inbox' \subseteq Nat
      BY DEF Kept, Inv, TypeOK
    <3>4. ASSUME NEW j \in DOMAIN inbox', j < i, inbox'[j].body.how = "result" PROVE inbox'[j].body.re # CleanupOf[s]
      <4>1. j + k \in DOMAIN inbox /\ j + k < i + k /\ inbox'[j] = inbox[j + k]
        BY <3>3, <3>4 DEF Shifted
      <4> QED
        BY <3>2, <3>4, <4>1
    <3> QED
      BY <3>1, <3>2, <3>4
  <2>4. OwnAhead(s)'
    BY <2>1 DEF OwnAhead, Shifted, EventAt
  <2> QED
    BY <2>2, <2>3, <2>4
<1> QED
  BY <1>1, <1>2 DEF Wire

\* What reaches the target only shrinks where nothing is sent.
LEMMA NothingNew ==
  ASSUME SubsInv, NEW k \in {0, 1}, Shifted(k), UNCHANGED <<link, outbox, streams>>, readErr => readErr',
         \A t \in Subs : Unwritten(t)' => Unwritten(t)
  PROVE  /\ OnePerSource'
         /\ \A t \in Subs : Reaches(t)' => Reaches(t)
         /\ \A t \in Subs : (Registered(t) \/ Cleaning(t) => readErr' \/ Registered(t)' \/ Cleaning(t)') => Watched(t)'
<1>1. \A t \in Subs : Reaches(t)' => Reaches(t)
  BY DEF Reaches, InOutbox
<1>2. \A t \in Subs : Heard(t)' => Heard(t)
  BY HeardBefore
<1>3. OnePerSource'
  BY <1>1 DEF SubsInv, Wire, OnePerSource
<1>4. ASSUME NEW t \in Subs, Registered(t) \/ Cleaning(t) => readErr' \/ Registered(t)' \/ Cleaning(t)' PROVE Watched(t)'
  BY <1>1, <1>2, <1>4 DEF SubsInv, Wire, Watched
<1> QED
  BY <1>1, <1>3, <1>4

\* Nothing moves but the inbox and the buffers.
LEMMA StillWire ==
  ASSUME SubsInv, Kept', NEW k \in {0, 1}, Shifted(k),
         UNCHANGED <<pc, outcome, link, readErr, outbox, verdict, streams, subscriptions, unsubscribing, cleanup, spc>>,
         \A t \in Subs : link = "up" /\ Heard(t)' => (ch'[CleanupOf[t]].how = "result" => ch[CleanupOf[t]].how = "result"),
         \A t \in Subs : OwnBuffered(t)'
  PROVE  Wire'
<1>1. \A t \in Subs : /\ Registered(t)' <=> Registered(t)
                      /\ Cleaning(t)' <=> Cleaning(t)
                      /\ Unwritten(t)' <=> Unwritten(t)
  BY DEF Registered, Cleaning, Unwritten
<1>2. OnePerSource' /\ \A t \in Subs : Watched(t)'
  BY <1>1, NothingNew
<1>3. \A t \in Subs : Stepped(t)' /\ Asked(t)'
  BY <1>1 DEF SubsInv, Wire, Stepped, Asked
<1> QED
  BY <1>1, <1>2, <1>3, WireMoves

\* Buffers that nobody touches hold whose events they held.
LEMMA UntouchedBuffers ==
  ASSUME SubsInv, UNCHANGED <<events, verdict, link>>
  PROVE  \A t \in Subs : OwnBuffered(t)'
BY DEF SubsInv, Wire, OwnBuffered

\* A Subscribe or its watcher moves on, and nothing else does.
LEMMA SubscribeMovesWire ==
  ASSUME SubsInv, Kept', NEW s \in Subs, NEW to \in {"enter", "await", "open", "ended", "failed"},
         spc' = [spc EXCEPT ![s] = to], UNCHANGED <<vars, regVars, events, streams>>,
         spc[s] = "calling" => pc[s] = "done",
         to \in {"enter", "await"} => pc[s] = "idle",
         to \in {"open", "ended"} => outcome[s].how = "result"
  PROVE  Wire'
<1>1. UNCHANGED <<pc, outcome, ch, link, readErr, outbox, inbox, verdict, subscriptions, unsubscribing, cleanup>>
  BY DEF vars, callVars, clientVars, targetVars, regVars
<1>2. PICK k \in {0, 1} : Shifted(k)
  BY <1>1, Reading DEF SubsInv, Kept
<1>3. \A t \in Subs : spc'[t] = IF t = s THEN to ELSE spc[t]
  BY DEF SubsInv, Kept, Books, BookTypes
<1>4. \A t \in Subs : /\ Registered(t)' <=> Registered(t)
                      /\ Cleaning(t)' <=> Cleaning(t)
                      /\ Unwritten(t)' => Unwritten(t)
  BY <1>1, <1>3 DEF Registered, Cleaning, Unwritten
<1>5. OnePerSource' /\ \A t \in Subs : Watched(t)'
  BY <1>1, <1>2, <1>4, NothingNew
<1>6. ASSUME NEW t \in Subs PROVE Stepped(t)' /\ Asked(t)'
  <2>1. Stepped(t) /\ Asked(t)
    BY DEF SubsInv, Wire
  <2>2. Asked(t)'
    BY <1>1, <1>4, <2>1 DEF Asked
  <2>3. t = s => pc[s] \notin {"write", "wait"}
    BY <2>1 DEF Stepped
  <2>4. Stepped(t)'
    BY <1>1, <1>3, <2>1, <2>3 DEF Stepped
  <2> QED
    BY <2>2, <2>4
<1>7. \A t \in Subs : OwnBuffered(t)'
  BY <1>1, UntouchedBuffers
<1> QED
  BY <1>1, <1>2, <1>4, <1>5, <1>6, <1>7, WireMoves

\* A subscription is registered when nothing of its source reaches the
\* target any more.
LEMMA SubscribeRegistersWire ==
  ASSUME SubsInv, Kept', NEW s \in Subs, SubscribeRegisters(s)
  PROVE  Wire'
<1>1. UNCHANGED <<pc, outcome, ch, link, readErr, outbox, inbox, verdict, unsubscribing, cleanup, events, streams>>
  BY DEF SubscribeRegisters, vars, callVars, clientVars, targetVars
<1>2. PICK k \in {0, 1} : Shifted(k)
  BY <1>1, Reading DEF SubsInv, Kept
<1>3. /\ \A t \in Subs : Registered(t)' <=> Registered(t) \/ t = s
      /\ \A t \in Subs : Cleaning(t)' <=> Cleaning(t)
      /\ spc[s] = "enter" /\ spc' = [spc EXCEPT ![s] = "calling"]
  BY RegisterEffect DEF SubsInv, Kept
<1>4. \A t \in Subs : spc'[t] = IF t = s THEN "calling" ELSE spc[t]
  BY <1>3 DEF SubsInv, Kept, Books, BookTypes
<1>5. pc[s] = "idle" /\ cleanup[s] = "none" /\ verdict[s] = "none"
  <2>1. s \in Calls
    BY SubsAssumption
  <2>2. pc[s] = "idle"
    BY <1>3 DEF SubsInv, Wire, Stepped
  <2> QED
    BY <1>3, <2>1, <2>2 DEF SubsInv, Kept, Inv, RequestsOnce, Books, Booked
<1>6. \A t \in Subs : t # s => (Reaches(t)' <=> Reaches(t)) /\ (Unwritten(t)' <=> Unwritten(t))
  BY <1>1, <1>4 DEF Reaches, InOutbox, Unwritten
<1>7. \A t \in Subs : link = "up" /\ Reaches(t) /\ SourceOf[t] = SourceOf[s] => FALSE
  <2> SUFFICES ASSUME NEW t \in Subs, link = "up", Reaches(t), SourceOf[t] = SourceOf[s] PROVE FALSE
    OBVIOUS
  <2>1. ~readErr /\ SourceOf[s] \notin DOMAIN subscriptions /\ SourceOf[s] \notin DOMAIN unsubscribing
    BY DEF SubscribeRegisters
  <2>2. Registered(t) \/ Cleaning(t)
    BY <2>1 DEF SubsInv, Wire, Watched
  <2> QED
    BY <2>1, <2>2 DEF Registered, Cleaning
<1>8. OnePerSource'
  BY <1>1, <1>6, <1>7 DEF SubsInv, Wire, OnePerSource
<1>9. ASSUME NEW t \in Subs PROVE Stepped(t)' /\ Asked(t)' /\ Watched(t)'
  <2>1. Stepped(t) /\ Asked(t) /\ Watched(t)
    BY DEF SubsInv, Wire
  <2>2. Stepped(t)'
    BY <1>1, <1>3, <1>4, <1>5, <2>1 DEF Stepped
  <2>3. Asked(t)'
    BY <1>1, <1>3, <1>5, <1>6, <2>1 DEF Asked
  <2>4. Heard(t)' => Heard(t)
    BY <1>2, HeardBefore
  <2>5. Watched(t)'
    BY <1>1, <1>3, <1>6, <2>1, <2>4 DEF Watched
  <2> QED
    BY <2>2, <2>3, <2>5
<1>10. \A t \in Subs : OwnBuffered(t)'
  BY <1>1, UntouchedBuffers
<1> QED
  BY <1>1, <1>2, <1>3, <1>5, <1>8, <1>9, <1>10, WireMoves

\* A registered subscription ends: its cleanup takes over, or nothing of it
\* is left on the target.
LEMMA EndWire ==
  ASSUME SubsInv, Kept', NEW s \in Subs, NEW why \in Stream!Reasons, NEW unsubscribe \in BOOLEAN,
         endSubscription(s, why, unsubscribe), Registered(s), NEW k \in {0, 1}, Shifted(k),
         UNCHANGED <<pc, outcome, ch, link, readErr, outbox, verdict, streams, events>>,
         NEW to \in {"calling", "open", "ended", "failed"}, spc' = [spc EXCEPT ![s] = to],
         to = "calling" => spc[s] = "calling",
         link = "up" => ~Unwritten(s),
         pc[s] \in {"write", "wait"} => to = "calling",
         to \in {"open", "ended"} => outcome[s].how = "result",
         ~unsubscribe => ~Reaches(s) /\ ~Heard(s)
  PROVE  Wire'
<1>0. Books
  BY DEF SubsInv, Kept
<1>1. /\ Maps' /\ UNCHANGED doneCloses
      /\ \A t \in Subs : Registered(t)' <=> Registered(t) /\ t # s
      /\ subErr' = [subErr EXCEPT ![s] = why]
      /\ SourceOf[s] \notin DOMAIN unsubscribing
      /\ unsubscribe =>
           /\ \A t \in Subs : Cleaning(t)' <=> Cleaning(t) \/ t = s
           /\ DOMAIN unsubscribing' = DOMAIN unsubscribing \cup {SourceOf[s]}
           /\ cleanup' = [cleanup EXCEPT ![s] = "calling"]
      /\ ~unsubscribe => UNCHANGED <<unsubscribing, cleanup>>
  BY <1>0, EndEffect
<1>2. \A t \in Subs : /\ spc'[t] = IF t = s THEN to ELSE spc[t]
                      /\ cleanup'[t] = IF t = s /\ unsubscribe THEN "calling" ELSE cleanup[t]
  BY <1>0, <1>1 DEF Books, BookTypes
<1>3. \A t \in Subs : Cleaning(t)' <=> Cleaning(t) \/ (t = s /\ unsubscribe)
  BY <1>1 DEF Cleaning
<1>4. \A t \in Subs : Unwritten(t)' => Unwritten(t)
  BY <1>2 DEF Unwritten
<1>5. /\ OnePerSource'
      /\ \A t \in Subs : Reaches(t)' => Reaches(t)
      /\ \A t \in Subs : (Registered(t) \/ Cleaning(t) => readErr' \/ Registered(t)' \/ Cleaning(t)') => Watched(t)'
  BY <1>4, NothingNew
<1>6. ASSUME NEW t \in Subs PROVE Watched(t)'
  <2>1. CASE t = s /\ ~unsubscribe
    <3>1. Heard(t)' => Heard(t)
      BY HeardBefore
    <3> QED
      BY <1>5, <2>1, <3>1 DEF Watched
  <2>2. CASE t # s \/ unsubscribe
    BY <1>1, <1>3, <1>5, <2>2
  <2> QED
    BY <2>1, <2>2
<1>7. ASSUME NEW t \in Subs PROVE Stepped(t)' /\ Asked(t)'
  <2>1. Stepped(t) /\ Asked(t)
    BY DEF SubsInv, Wire
  <2>2. Asked(t)'
    BY <1>1, <1>2, <1>4, <2>1 DEF Asked
  <2>3. Stepped(t)'
    BY <1>2, <2>1 DEF Stepped
  <2> QED
    BY <2>2, <2>3
<1>8. \A t \in Subs : OwnBuffered(t)'
  BY UntouchedBuffers
<1> QED
  BY <1>1, <1>5, <1>6, <1>7, <1>8, WireMoves

\* What a subscription's call was given is the target's verdict on it.
LEMMA GivenVerdict ==
  ASSUME Inv, NEW c \in Calls
  PROVE  /\ outcome[c].how \in Verdict => verdict[c] = outcome[c].how
         /\ ch[c].how \in Verdict => verdict[c] = ch[c].how
<1>1. Body(verdict[c], c).how = verdict[c]
  BY DEF Body
<1>2. outcome[c].how \in Verdict => outcome[c] = Body(verdict[c], c)
  BY DEF Inv, OwnAnswer
<1>3. ch[c].how \in Verdict => ch[c] = Body(verdict[c], c)
  BY DEF Inv, ChannelsOwn
<1> QED
  BY <1>1, <1>2, <1>3

\* A Subscribe returns, and starts a cleanup if the target may have a stream.
LEMMA SubscribeReturnsWire ==
  ASSUME SubsInv, Kept', NEW s \in Subs, SubscribeReturns(s)
  PROVE  Wire'
<1> DEFINE how == outcome[s].how
<1>1. /\ spc[s] = "calling" /\ pc[s] = "done" /\ UNCHANGED <<vars, events, streams>>
      /\ how = "result" => spc' = [spc EXCEPT ![s] = "open"] /\ UNCHANGED regVars
      /\ how # "result" => spc' = [spc EXCEPT ![s] = "failed"] /\ endSubscription(s, how, how # "error")
  BY DEF SubscribeReturns
<1>2. s \in Calls
  BY SubsAssumption
<1>3. CASE how = "result"
  BY <1>1, <1>3, SubscribeMovesWire
<1>4. CASE how # "result" /\ ~Registered(s)
  <2>1. UNCHANGED regVars
    BY <1>1, <1>4, EndStutters
  <2> QED
    BY <1>1, <1>4, <2>1, SubscribeMovesWire
<1>5. CASE how # "result" /\ Registered(s)
  <2>1. UNCHANGED <<pc, outcome, ch, link, readErr, outbox, inbox, verdict>>
    BY <1>1 DEF vars, callVars, clientVars, targetVars
  <2>2. PICK k \in {0, 1} : Shifted(k)
    BY <2>1, Reading DEF SubsInv, Kept
  <2>3. how \in Stream!Reasons
    <3>1. outcome[s] \in Answer \cup {ErrInterrupted, ErrContext, ErrClosed}
      BY <1>1, <1>2 DEF SubsInv, Kept, Inv, TypeOK, Concluded
    <3> QED
      BY <1>5, <3>1 DEF Answer, Verdict, ErrInterrupted, ErrContext, ErrClosed, Body, Stream!Reasons
  <2>4. ~Unwritten(s)
    BY <1>1 DEF Unwritten
  <2>5. how = "error" => ~Reaches(s) /\ ~Heard(s)
    <3>1. how = "error" => verdict[s] = "error"
      BY <1>2, GivenVerdict DEF SubsInv, Kept, Verdict
    <3>2. verdict[s] = "error" => s \notin streams /\ ~Heard(s)
      BY DEF SubsInv, Wire, Sent, Heard, EventAt
    <3>3. verdict[s] = "error" => ~InOutbox(s)
      BY DEF SubsInv, Kept, Inv, RequestsOnce, InOutbox
    <3> QED
      BY <2>4, <3>1, <3>2, <3>3 DEF Reaches
  <2>6. (how # "error") \in BOOLEAN
    OBVIOUS
  <2> HIDE DEF how
  <2> QED
    BY <1>1, <1>5, <2>1, <2>2, <2>3, <2>4, <2>5, <2>6, EndWire
<1> QED
  BY <1>3, <1>4, <1>5

\* A context ends: the stream passes from the registration to its cleanup.
LEMMA WatchContextWire ==
  ASSUME SubsInv, Kept', NEW s \in Subs, WatchContext(s)
  PROVE  Wire'
<1>1. /\ spc[s] = "open" /\ spc' = [spc EXCEPT ![s] = "ended"] /\ endSubscription(s, "cancelled", TRUE)
      /\ UNCHANGED <<vars, events, streams>>
  BY DEF WatchContext
<1>2. outcome[s].how = "result" /\ pc[s] \notin {"write", "wait"} /\ ~Unwritten(s)
  BY <1>1 DEF SubsInv, Wire, Stepped, Unwritten
<1>3. CASE ~Registered(s)
  <2>1. UNCHANGED regVars
    BY <1>1, <1>3, EndStutters
  <2> QED
    BY <1>1, <1>2, <2>1, SubscribeMovesWire
<1>4. CASE Registered(s)
  <2>1. UNCHANGED <<pc, outcome, ch, link, readErr, outbox, inbox, verdict>>
    BY <1>1 DEF vars, callVars, clientVars, targetVars
  <2>2. PICK k \in {0, 1} : Shifted(k)
    BY <2>1, Reading DEF SubsInv, Kept
  <2>3. "cancelled" \in Stream!Reasons
    BY DEF Stream!Reasons
  <2> QED
    BY <1>1, <1>2, <1>4, <2>1, <2>2, <2>3, EndWire
<1> QED
  BY <1>3, <1>4

\* The other steps of Subscribe.
LEMMA SubscribeWire ==
  ASSUME SubsInv, Kept', NEW s \in Subs, Subscribe(s)
  PROVE  Wire'
<1>1. CASE SubscribeBegin(s) \/ SubscribeRefused(s) \/ SubscribeAwaits(s) \/ SubscribeWakes(s)
  <2>1. PICK to \in {"enter", "await", "failed"} : spc' = [spc EXCEPT ![s] = to]
    BY <1>1 DEF SubscribeBegin, SubscribeRefused, SubscribeAwaits, SubscribeWakes
  <2>2. UNCHANGED <<vars, regVars, events, streams>> /\ spc[s] \in {"idle", "enter", "await"}
    BY <1>1 DEF SubscribeBegin, SubscribeRefused, SubscribeAwaits, SubscribeWakes
  <2>3. pc[s] = "idle"
    BY <2>2 DEF SubsInv, Wire, Stepped
  <2> QED
    BY <2>1, <2>2, <2>3, SubscribeMovesWire
<1> QED
  BY <1>1, SubscribeRegistersWire, SubscribeReturnsWire, WatchContextWire DEF Subscribe

\* The link goes down, with all that was on its way to the target.
LEMMA DropWire ==
  ASSUME SubsInv, Kept', link' # "up", streams' = {}, outbox' = <<>>,
         UNCHANGED <<pc, outcome, inbox, verdict, events, subscriptions>>, \A t \in Subs : Stepped(t)'
  PROVE  Wire'
<1>1. Callers' /\ Sent'
  BY DEF SubsInv, Wire, Callers, Sent
<1>2. ASSUME NEW s \in Subs PROVE OwnAhead(s)' /\ OwnBuffered(s)'
  BY DEF SubsInv, Wire, OwnAhead, OwnBuffered, EventAt, Registered
<1>3. OnePerSource'
  BY DEF OnePerSource
<1> QED
  BY <1>1, <1>2, <1>3, LinkDown DEF Wire

\* A link that ends takes the streams and the requests along.
LEMMA LinkEndsWire ==
  ASSUME SubsInv, Kept', LinkEnds
  PROVE  Wire'
<1>1. /\ link' # "up" /\ streams' = {} /\ outbox' = <<>>
      /\ UNCHANGED <<pc, outcome, inbox, verdict, events, subscriptions, spc, cleanup>>
  BY DEF LinkEnds, LinkDrops, callVars, regVars
<1>2. \A t \in Subs : Stepped(t)'
  BY <1>1 DEF SubsInv, Wire, Stepped
<1> QED
  BY <1>1, <1>2, DropWire

\* A cleanup that succeeded goes on to clear its entry, one that did not
\* takes the connection down.
LEMMA CleanupReturnsWire ==
  ASSUME SubsInv, Kept', NEW s \in Subs, CleanupReturns(s)
  PROVE  Wire'
<1>1. /\ cleanup[s] = "calling" /\ pc[CleanupOf[s]] = "done" /\ cleanup' = [cleanup EXCEPT ![s] = "clear"]
      /\ UNCHANGED <<pc, outcome, ch, inbox, verdict, subscriptions, unsubscribing, spc, events, readErr>>
  BY DEF CleanupReturns, clientVars, callVars
<1>2. \A t \in Subs : cleanup'[t] = IF t = s THEN "clear" ELSE cleanup[t]
  BY <1>1 DEF SubsInv, Kept, Books, BookTypes
<1>3. CASE outcome[CleanupOf[s]].how # "result"
  <2>1. link' = "closed" /\ streams' = {} /\ outbox' = <<>>
    BY <1>3 DEF CleanupReturns, LinkDrops
  <2>2. ASSUME NEW t \in Subs PROVE Stepped(t)'
    <3>1. Stepped(t)
      BY DEF SubsInv, Wire
    <3> QED
      BY <1>1, <1>2, <2>1, <3>1 DEF Stepped
  <2> QED
    BY <1>1, <2>1, <2>2, DropWire
<1>4. CASE outcome[CleanupOf[s]].how = "result"
  <2>1. UNCHANGED <<link, streams, outbox>>
    BY <1>4 DEF CleanupReturns
  <2>2. PICK k \in {0, 1} : Shifted(k)
    BY <1>1, Reading DEF SubsInv, Kept
  <2>3. \A t \in Subs : /\ Registered(t)' <=> Registered(t)
                        /\ Cleaning(t)' <=> Cleaning(t)
                        /\ Unwritten(t)' <=> Unwritten(t)
    BY <1>1 DEF Registered, Cleaning, Unwritten
  <2>4. OnePerSource' /\ \A t \in Subs : Watched(t)'
    BY <1>1, <2>1, <2>2, <2>3, NothingNew
  <2>5. ASSUME NEW t \in Subs PROVE Stepped(t)' /\ Asked(t)'
    <3>1. Stepped(t) /\ Asked(t)
      BY DEF SubsInv, Wire
    <3>2. Stepped(t)'
      BY <1>1, <1>2, <1>4, <2>1, <3>1 DEF Stepped
    <3>3. Asked(t)'
      BY <1>1, <1>2, <2>1, <2>3, <3>1 DEF Asked
    <3> QED
      BY <3>2, <3>3
  <2>6. \A t \in Subs : OwnBuffered(t)'
    BY <1>1, <2>1, UntouchedBuffers
  <2> QED
    BY <1>1, <2>1, <2>2, <2>3, <2>4, <2>5, <2>6, WireMoves
<1> QED
  BY <1>3, <1>4

\* A source is given free once the last event of its stream was read.
LEMMA CleanupClearsWire ==
  ASSUME SubsInv, Kept', NEW s \in Subs, CleanupClears(s)
  PROVE  Wire'
<1>1. /\ cleanup[s] = "clear" /\ cleanup' = [cleanup EXCEPT ![s] = "finished"]
      /\ UNCHANGED <<pc, outcome, ch, link, readErr, outbox, inbox, verdict, subscriptions, spc, events, streams>>
  BY DEF CleanupClears, vars, clientVars, callVars, targetVars
<1>2. \A t \in Subs : cleanup'[t] = IF t = s THEN "finished" ELSE cleanup[t]
  BY <1>1 DEF SubsInv, Kept, Books, BookTypes
<1>3. \A t \in Subs : Cleaning(t) /\ t # s => Cleaning(t)'
  <2>1. CASE ~Cleaning(s)
    BY <2>1 DEF CleanupClears, Cleaning
  <2>2. CASE Cleaning(s)
    <3>1. unsubscribing' = Without(unsubscribing, SourceOf[s])
      BY <2>2 DEF CleanupClears
    <3>2. /\ DOMAIN unsubscribing' = DOMAIN unsubscribing \ {SourceOf[s]}
          /\ \A x \in DOMAIN unsubscribing' : unsubscribing'[x] = unsubscribing[x]
      BY <3>1 DEF Without
    <3> QED
      BY <2>2, <3>2 DEF Cleaning
  <2> QED
    BY <2>1, <2>2
<1>4. \A t \in Subs : (Registered(t)' <=> Registered(t)) /\ (Unwritten(t)' <=> Unwritten(t))
  BY <1>1 DEF Registered, Unwritten
<1>5. PICK k \in {0, 1} : Shifted(k)
  BY <1>1, Reading DEF SubsInv, Kept
<1>6. /\ OnePerSource'
      /\ \A t \in Subs : Reaches(t)' => Reaches(t)
      /\ \A t \in Subs : (Registered(t) \/ Cleaning(t) => readErr' \/ Registered(t)' \/ Cleaning(t)') => Watched(t)'
  BY <1>1, <1>4, <1>5, NothingNew
<1>7. link = "up" => ~Reaches(s) /\ ~Heard(s)
  <2> SUFFICES ASSUME link = "up" PROVE ~Reaches(s) /\ ~Heard(s)
    OBVIOUS
  <2>1. CleanupOf[s] \in Calls
    BY SubsAssumption
  <2>2. outcome[CleanupOf[s]].how = "result"
    BY <1>1 DEF SubsInv, Wire, Stepped
  <2>3. verdict[CleanupOf[s]] = "result"
    BY <2>1, <2>2, GivenVerdict DEF SubsInv, Kept, Verdict
  <2>4. s \notin streams /\ ~InOutbox(s)
    BY <2>3 DEF SubsInv, Wire, Queued
  <2>5. ~Unwritten(s)
    BY <1>1 DEF SubsInv, Wire, Asked
  <2>6. ~Heard(s)
    BY <2>2 DEF SubsInv, Wire, LastWord, Heard
  <2> QED
    BY <2>4, <2>5, <2>6 DEF Reaches
<1>8. ASSUME NEW t \in Subs PROVE Watched(t)'
  <2>1. CASE t = s
    <3>1. Heard(t)' => Heard(t)
      BY <1>5, HeardBefore
    <3> QED
      BY <1>1, <1>6, <1>7, <2>1, <3>1 DEF Watched
  <2>2. CASE t # s
    BY <1>3, <1>4, <1>6, <2>2
  <2> QED
    BY <2>1, <2>2
<1>9. ASSUME NEW t \in Subs PROVE Stepped(t)' /\ Asked(t)'
  <2>1. Stepped(t) /\ Asked(t)
    BY DEF SubsInv, Wire
  <2>2. Stepped(t)'
    BY <1>1, <1>2, <2>1 DEF Stepped
  <2>3. Asked(t)'
    BY <1>1, <1>2, <1>4, <2>1 DEF Asked
  <2> QED
    BY <2>2, <2>3
<1>10. \A t \in Subs : OwnBuffered(t)'
  BY <1>1, UntouchedBuffers
<1> QED
  BY <1>1, <1>4, <1>5, <1>6, <1>8, <1>9, <1>10, WireMoves

\* An event goes to the subscription it is of, which ends only after it has
\* been given some of its own.
LEMMA ReadEventWire ==
  ASSUME SubsInv, Kept', ReadEvent
  PROVE  Wire'
<1> DEFINE e == Head(inbox).body.re
<1>1. UNCHANGED <<pc, outcome, ch, link, readErr, outbox, verdict, streams, spc>> /\ ~readErr
  BY DEF ReadEvent, callVars, clientVars, targetVars
<1>2. /\ e \in Subs /\ inbox # <<>> /\ Head(inbox).body.how = "event" /\ inbox' = Tail(inbox)
      /\ \/ UNCHANGED <<regVars, events>>
         \/ \E t \in Subs :
              /\ Registered(t) /\ SourceOf[t] = SourceOf[e]
              /\ \/ Len(events[t]) < Capacity /\ events' = [events EXCEPT ![t] = Append(@, e)] /\ UNCHANGED regVars
                 \/ Len(events[t]) = Capacity /\ endSubscription(t, "overflow", TRUE) /\ UNCHANGED events
  BY DispatchEffect DEF SubsInv, Kept, Named
<1>3. PICK k \in {0, 1} : Shifted(k)
  BY <1>2, Reading DEF SubsInv, Kept
<1>4. 1 \in DOMAIN inbox /\ EventAt(1, e)
  <2>1. inbox \in Seq(Response \cup Unasked)
    BY DEF SubsInv, Kept, Inv, TypeOK
  <2>2. Head(inbox) = inbox[1] /\ 1 \in DOMAIN inbox
    BY <1>2, <2>1, TailElements
  <2> QED
    BY <1>2, <2>2 DEF EventAt
<1>5. verdict[e] = "result" /\ Heard(e)
  BY <1>4 DEF SubsInv, Wire, Sent, EventAt, Heard
<1> HIDE DEF e
<1>6. CASE UNCHANGED <<regVars, events>>
  BY <1>1, <1>3, <1>6, UntouchedBuffers, StillWire DEF regVars
<1>7. ASSUME NEW t \in Subs, Registered(t), SourceOf[t] = SourceOf[e], events' = [events EXCEPT ![t] = Append(@, e)],
             UNCHANGED regVars
      PROVE  Wire'
  <2>1. verdict[t] = "result" \/ link = "up" => e = t
    <3>1. CASE verdict[t] = "result"
      BY <1>2, <1>4, <1>7, <3>1 DEF SubsInv, Wire, OwnAhead
    <3>2. CASE link = "up"
      <4>1. Registered(e) \/ Cleaning(e)
        BY <1>1, <1>2, <1>5, <3>2 DEF SubsInv, Wire, Watched
      <4>2. ~Cleaning(e)
        BY <1>7 DEF SubsInv, Kept, Books, Booked, Cleaning
      <4> QED
        BY <1>2, <1>7, <4>1, <4>2, OnePerName
    <3> QED
      BY <3>1, <3>2
  <2>2. ASSUME NEW u \in Subs PROVE OwnBuffered(u)'
    <3>1. OwnBuffered(u) /\ events[u] \in Seq(Subs)
      BY DEF SubsInv, Wire, Kept, Books, BookTypes
    <3>2. events'[u] = IF u = t THEN Append(events[u], e) ELSE events[u]
      BY <1>7 DEF SubsInv, Kept, Books, BookTypes
    <3>3. CASE u # t
      BY <1>1, <3>1, <3>2, <3>3 DEF OwnBuffered
    <3>4. CASE u = t
      <4>1. \A i \in DOMAIN events'[u] : (i \in DOMAIN events[u] /\ events'[u][i] = events[u][i]) \/ events'[u][i] = e
        BY <1>2, <3>1, <3>2, <3>4, AppendElements
      <4> QED
        BY <1>1, <1>5, <2>1, <3>1, <3>4, <4>1 DEF OwnBuffered
    <3> QED
      BY <3>3, <3>4
  <2> QED
    BY <1>1, <1>3, <1>7, <2>2, StillWire DEF regVars
<1>8. ASSUME NEW t \in Subs, Registered(t), Len(events[t]) = Capacity, endSubscription(t, "overflow", TRUE),
             UNCHANGED events
      PROVE  Wire'
  <2>1. spc[t] \in {"calling", "open"} /\ spc' = [spc EXCEPT ![t] = spc[t]]
    BY <1>1, <1>8 DEF SubsInv, Kept, Books, Booked, BookTypes
  <2>2. "overflow" \in Stream!Reasons
    BY DEF Stream!Reasons
  <2>3. link = "up" => ~Unwritten(t)
    <3>1. events[t] \in Seq(Subs) /\ t \in Calls
      BY SubsAssumption DEF SubsInv, Kept, Books, BookTypes
    <3>2. 1 \in DOMAIN events[t]
      BY <1>8, <3>1, SubsAssumption
    <3>3. link = "up" => verdict[t] = "result"
      BY <3>2 DEF SubsInv, Wire, OwnBuffered
    <3> QED
      BY <3>1, <3>3 DEF SubsInv, Kept, Inv, RequestsOnce, Unwritten
  <2>4. /\ pc[t] \in {"write", "wait"} => spc[t] = "calling"
        /\ spc[t] \in {"open", "ended"} => outcome[t].how = "result"
    BY DEF SubsInv, Wire, Stepped
  <2> QED
    BY <1>1, <1>3, <1>8, <2>1, <2>2, <2>3, <2>4, EndWire
<1> QED
  BY <1>2, <1>6, <1>7, <1>8

\* A cleanup's caller is handed its answer after the last event was read.
LEMMA ReadResponseWire ==
  ASSUME SubsInv, Kept', ~IsEvent, ReadResponse, UNCHANGED subVars
  PROVE  Wire'
<1>1. /\ inbox # <<>> /\ inbox' = Tail(inbox) /\ Deliver(Head(inbox)) /\ Head(inbox).body.how \notin {"garbled", "event"}
      /\ UNCHANGED <<pc, outcome, link, outbox, verdict, readErr, subscriptions, unsubscribing, cleanup, spc, events, streams>>
  BY DEF ReadResponse, Deliver, IsEvent, targetVars, subVars, regVars
<1>2. /\ inbox \in Seq(Response \cup Unasked) /\ Head(inbox) = inbox[1] /\ 1 \in DOMAIN inbox
      /\ Head(inbox) \in Response \cup Unasked
      /\ \A i \in DOMAIN inbox' : i + 1 \in DOMAIN inbox /\ inbox'[i] = inbox[i + 1] /\ 1 < i + 1
  <2>1. inbox \in Seq(Response \cup Unasked)
    BY DEF SubsInv, Kept, Inv, TypeOK
  <2>2. DOMAIN inbox' \subseteq Nat \ {0}
    BY <1>1, <2>1
  <2> QED
    BY <1>1, <2>1, <2>2, TailElements
<1>3. Shifted(1)
  BY <1>2 DEF Shifted
<1>4. ASSUME NEW t \in Subs, link = "up", Heard(t)', ch'[CleanupOf[t]].how = "result"
      PROVE  ch[CleanupOf[t]].how = "result"
  <2> DEFINE f == Head(inbox)
             c == CleanupOf[t]
  <2>1. c \in Calls
    BY SubsAssumption
  <2>2. ch'[c] = IF f.id \in DOMAIN pending /\ pending[f.id] = c THEN f.body ELSE ch[c]
    BY <1>1, <2>1 DEF Deliver
  <2>3. SUFFICES ASSUME f.id \in DOMAIN pending, pending[f.id] = c, f.body.how = "result" PROVE FALSE
    BY <1>4, <2>2
  <2>4. f \in Response
    BY <1>2, <2>3 DEF Unasked
  <2>5. f.id = id[f.body.re] /\ f.id # 0 /\ f.body.re \in Calls
    <3>1. f.body.re \in Calls
      BY <2>4 DEF Response, Answer
    <3> QED
      BY <1>2, <2>4, <3>1 DEF SubsInv, Kept, Inv, RepliesOwn
  <2>6. id[c] = f.id
    BY <2>3 DEF SubsInv, Kept, Inv, RegisteredIsWaiting
  <2>7. f.body.re = c
    BY <2>1, <2>5, <2>6 DEF SubsInv, Kept, Inv, UniqueIds
  <2>8. PICK i \in DOMAIN inbox' : EventAt(i, t)'
    BY <1>4 DEF Heard
  <2>9. i + 1 \in DOMAIN inbox /\ EventAt(i + 1, t) /\ 1 < i + 1
    BY <1>2, <2>8 DEF EventAt
  <2>10. \A j \in DOMAIN inbox : j < i + 1 /\ inbox[j].body.how = "result" => inbox[j].body.re # CleanupOf[t]
    BY <1>4, <2>9 DEF SubsInv, Wire, LastWord
  <2> QED
    BY <1>2, <2>3, <2>7, <2>9, <2>10
<1>5. \A t \in Subs : OwnBuffered(t)'
  BY <1>1, UntouchedBuffers
<1> QED
  BY <1>1, <1>3, <1>4, <1>5, StillWire

\* A read that fails leaves nobody registered and nothing to be read.
LEMMA FailWire ==
  ASSUME SubsInv, Kept', ReadGarbled \/ ReadFails, failSubscriptions
  PROVE  Wire'
<1>1. /\ UNCHANGED <<pc, outcome, link, outbox, verdict, cleanup, spc, events, streams>>
      /\ readErr' = TRUE /\ inbox' = <<>> /\ DOMAIN subscriptions' = {}
  BY DEF ReadGarbled, ReadFails, failPending, failSubscriptions, targetVars
<1>2. Shifted(0) /\ \A t \in Subs : ~Heard(t)' /\ ~Registered(t)'
  BY <1>1 DEF Shifted, Heard, Registered
<1>3. \A t \in Subs : Unwritten(t)' <=> Unwritten(t)
  BY <1>1 DEF Unwritten
<1>4. OnePerSource' /\ \A t \in Subs : Watched(t)'
  BY <1>1, <1>2, <1>3, NothingNew
<1>5. \A t \in Subs : Stepped(t)' /\ Asked(t)'
  BY <1>1, <1>3 DEF SubsInv, Wire, Stepped, Asked
<1>6. \A t \in Subs : OwnBuffered(t)'
  BY <1>1, UntouchedBuffers
<1> QED
  BY <1>1, <1>2, <1>4, <1>5, <1>6, WireMoves

\* A consumer takes its own.
LEMMA ConsumeWire ==
  ASSUME SubsInv, Kept', NEW s \in Subs, Consume(s)
  PROVE  Wire'
<1>1. /\ events[s] # <<>> /\ events' = [events EXCEPT ![s] = Tail(@)]
      /\ UNCHANGED <<pc, outcome, ch, link, readErr, outbox, inbox, verdict, streams, subscriptions, unsubscribing, cleanup, spc>>
  BY DEF Consume, vars, callVars, clientVars, targetVars, regVars
<1>2. PICK k \in {0, 1} : Shifted(k)
  BY <1>1, Reading DEF SubsInv, Kept
<1>3. ASSUME NEW t \in Subs PROVE OwnBuffered(t)'
  <2>1. OwnBuffered(t) /\ events[t] \in Seq(Subs)
    BY DEF SubsInv, Wire, Kept, Books, BookTypes
  <2>2. events'[t] = IF t = s THEN Tail(events[t]) ELSE events[t]
    BY <1>1 DEF SubsInv, Kept, Books, BookTypes
  <2>3. CASE t # s
    BY <1>1, <2>1, <2>2, <2>3 DEF OwnBuffered
  <2>4. CASE t = s
    <3>1. \A i \in DOMAIN events'[t] : i + 1 \in DOMAIN events[t] /\ events'[t][i] = events[t][i + 1]
      <4>1. events[t] # <<>> /\ events'[t] = Tail(events[t])
        BY <1>1, <2>2, <2>4
      <4>2. \A i \in DOMAIN Tail(events[t]) : i + 1 \in DOMAIN events[t] /\ Tail(events[t])[i] = events[t][i + 1]
        BY <2>1, <4>1, TailElements
      <4> QED
        BY <4>1, <4>2
    <3> QED
      BY <1>1, <2>1, <3>1 DEF OwnBuffered
  <2> QED
    BY <2>3, <2>4
<1> QED
  BY <1>1, <1>2, <1>3, StillWire

\* What is written first is served first.
LEMMA ServeEffect ==
  ASSUME SubsInv, TargetServes
  PROVE  LET c == Head(outbox).call
         IN /\ c \in Calls /\ InOutbox(c) /\ verdict[c] = "none" /\ link = "up"
            /\ \E v \in Verdict : \A d \in Calls : verdict'[d] = IF d = c THEN v ELSE verdict[d]
            /\ \A d \in Calls : InOutbox(d)' => InOutbox(d) /\ d # c
            /\ \A i \in DOMAIN outbox' : i + 1 \in DOMAIN outbox /\ i + 1 > 1 /\ outbox'[i] = outbox[i + 1]
            /\ 1 \in DOMAIN outbox /\ outbox[1].call = c
            /\ streams' \subseteq streams \cup ({c} \cap Subs)
            /\ c \in streams' => verdict'[c] = "result"
            /\ \A s \in Subs : c = CleanupOf[s] /\ verdict'[c] = "result" => s \notin streams'
            /\ UNCHANGED <<pc, outcome, ch, link, readErr, inbox, subscriptions, unsubscribing, cleanup, spc, events>>
<1> DEFINE c == Head(outbox).call
<1>1. /\ outbox # <<>> /\ outbox' = Tail(outbox) /\ link = "up" /\ streams' = StreamsAfter(c)
      /\ UNCHANGED <<pc, outcome, ch, link, readErr, inbox, subscriptions, unsubscribing, cleanup, spc, events>>
  BY DEF TargetServes, TargetApply, callVars, clientVars, regVars
<1>2. outbox \in Seq(Request) /\ verdict \in [Calls -> Verdict \cup {"none"}]
  BY DEF SubsInv, Kept, Inv, TypeOK
<1>3. /\ Head(outbox) = outbox[1] /\ 1 \in DOMAIN outbox /\ c \in Calls
      /\ \A i \in DOMAIN outbox' : i + 1 \in DOMAIN outbox /\ outbox'[i] = outbox[i + 1]
      /\ DOMAIN outbox' \subseteq Nat \ {0}
  <2>1. Head(outbox) \in Request
    BY <1>1, <1>2, TailElements
  <2> QED
    BY <1>1, <1>2, <2>1, TailElements DEF Request
<1>4. PICK v \in Verdict : verdict' = [verdict EXCEPT ![c] = v]
  BY DEF TargetServes, TargetApply
<1>5. \A d \in Calls : verdict'[d] = IF d = c THEN v ELSE verdict[d]
  BY <1>2, <1>4
<1>6. verdict[c] = "none" /\ InOutbox(c)
  BY <1>3 DEF SubsInv, Kept, Inv, RequestsOnce, InOutbox
<1>7. \A d \in Calls : InOutbox(d)' => InOutbox(d) /\ d # c
  <2> SUFFICES ASSUME NEW i \in DOMAIN outbox' PROVE InOutbox(outbox'[i].call) /\ outbox'[i].call # c
    BY DEF InOutbox
  <2>1. i + 1 \in DOMAIN outbox /\ outbox'[i] = outbox[i + 1] /\ i + 1 # 1
    BY <1>3
  <2>2. outbox[i + 1].call # outbox[1].call
    BY <1>3, <2>1 DEF SubsInv, Kept, Inv, RequestsOnce
  <2> QED
    BY <1>3, <2>1, <2>2 DEF InOutbox
<1>8. c \notin streams
  BY <1>6 DEF SubsInv, Wire, Sent
<1>9. /\ streams' \subseteq streams \cup ({c} \cap Subs)
      /\ c \in streams' => verdict'[c] = "result"
  <2>1. verdict'[c] = "error" => streams' = streams
    BY <1>1 DEF StreamsAfter
  <2>2. verdict'[c] \in {"result", "error"}
    BY <1>3, <1>5 DEF Verdict
  <2>3. streams' \subseteq streams \cup ({c} \cap Subs)
    BY <1>1 DEF StreamsAfter
  <2> QED
    BY <1>8, <2>1, <2>2, <2>3
<1>10. ASSUME NEW s \in Subs, c = CleanupOf[s], verdict'[c] = "result" PROVE s \notin streams'
  <2>1. c \notin Subs
    BY <1>10, SubsAssumption
  <2>2. (CHOOSE t \in Subs : CleanupOf[t] = c) = s
    <3>1. \E t \in Subs : CleanupOf[t] = c
      BY <1>10
    <3>2. \A t \in Subs : CleanupOf[t] = c => t = s
      BY <1>10, SubsAssumption
    <3> QED
      BY <3>1, <3>2
  <2>3. streams' = {t \in streams : SourceOf[t] # SourceOf[s]}
    <3>1. streams' = {t \in streams : SourceOf[t] # SourceOf[CHOOSE u \in Subs : CleanupOf[u] = c]}
      BY <1>1, <1>10, <2>1 DEF StreamsAfter
    <3> QED
      BY <2>2, <3>1
  <2> QED
    BY <2>3
<1> QED
  BY <1>1, <1>3, <1>5, <1>6, <1>7, <1>9, <1>10

\* What the target takes in opens a stream nobody else has, or ends one.
LEMMA TargetServesWire ==
  ASSUME SubsInv, Kept', TargetServes
  PROVE  Wire'
<1> DEFINE c == Head(outbox).call
<1>1. /\ c \in Calls /\ InOutbox(c) /\ verdict[c] = "none" /\ link = "up"
      /\ \E v \in Verdict : \A d \in Calls : verdict'[d] = IF d = c THEN v ELSE verdict[d]
      /\ \A d \in Calls : InOutbox(d)' => InOutbox(d) /\ d # c
      /\ \A i \in DOMAIN outbox' : i + 1 \in DOMAIN outbox /\ i + 1 > 1 /\ outbox'[i] = outbox[i + 1]
      /\ 1 \in DOMAIN outbox /\ outbox[1].call = c
      /\ streams' \subseteq streams \cup ({c} \cap Subs)
      /\ c \in streams' => verdict'[c] = "result"
      /\ \A s \in Subs : c = CleanupOf[s] /\ verdict'[c] = "result" => s \notin streams'
      /\ UNCHANGED <<pc, outcome, ch, link, readErr, inbox, subscriptions, unsubscribing, cleanup, spc, events>>
  BY ServeEffect
<1> HIDE DEF c
<1>2. \A d \in Calls : (d # c => verdict'[d] = verdict[d]) /\ (verdict[d] # "none" => verdict'[d] = verdict[d])
  BY <1>1
<1>3. \A s \in Subs : s \in Calls /\ CleanupOf[s] \in Calls /\ CleanupOf[s] # s
  BY SubsAssumption
<1>4. \A s \in Subs : /\ Registered(s)' <=> Registered(s)
                      /\ Cleaning(s)' <=> Cleaning(s)
                      /\ Unwritten(s)' <=> Unwritten(s)
                      /\ Heard(s)' <=> Heard(s)
                      /\ Reaches(s)' => Reaches(s)
  <2>1. \A s \in Subs : (s \in streams \/ InOutbox(s))' => s \in streams \/ InOutbox(s)
    BY <1>1, <1>3
  <2> QED
    BY <1>1, <2>1 DEF Registered, Cleaning, Unwritten, Heard, EventAt, Reaches
<1>5. Callers' /\ OnePerSource'
  BY <1>1, <1>4 DEF SubsInv, Wire, Callers, OnePerSource
<1>6. Sent'
  <2>1. \A s \in streams' : verdict'[s] = "result"
    <3> SUFFICES ASSUME NEW s \in streams' PROVE verdict'[s] = "result"
      OBVIOUS
    <3>1. CASE s = c
      BY <1>1, <3>1
    <3>2. CASE s \in streams
      <4>1. s \in Calls /\ verdict[s] = "result"
        BY <1>3, <3>2 DEF SubsInv, Kept, Named, Wire, Sent
      <4> QED
        BY <1>2, <4>1
    <3> QED
      BY <1>1, <3>1, <3>2
  <2>2. ASSUME NEW i \in DOMAIN inbox, inbox[i].body.how = "event" PROVE verdict'[inbox[i].body.re] = "result"
    <3>1. inbox[i].body.re \in Calls /\ verdict[inbox[i].body.re] = "result"
      BY <1>3, <2>2 DEF SubsInv, Kept, Named, Wire, Sent
    <3> QED
      BY <1>2, <3>1
  <2> QED
    BY <1>1, <2>1, <2>2 DEF Sent
<1>7. ASSUME NEW s \in Subs PROVE Stepped(s)' /\ Asked(s)' /\ Watched(s)' /\ LastWord(s)'
  BY <1>1, <1>4 DEF SubsInv, Wire, Stepped, Asked, Watched, LastWord, EventAt
<1>8. ASSUME NEW s \in Subs PROVE Queued(s)'
  <2>1. Queued(s) /\ s \in Calls /\ CleanupOf[s] \in Calls /\ CleanupOf[s] # s
    BY <1>3 DEF SubsInv, Wire
  <2>2. /\ \A i, j \in DOMAIN outbox : i < j /\ outbox[i].call = CleanupOf[s] => outbox[j].call # s
        /\ verdict[CleanupOf[s]] # "none" => ~InOutbox(s)
        /\ verdict[CleanupOf[s]] = "result" => s \notin streams
    BY <1>1, <2>1 DEF Queued
  <2>3. \A i, j \in DOMAIN outbox' : i < j /\ outbox'[i].call = CleanupOf[s] => outbox'[j].call # s
    <3> SUFFICES ASSUME NEW i \in DOMAIN outbox', NEW j \in DOMAIN outbox', i < j, outbox'[i].call = CleanupOf[s]
                 PROVE  outbox'[j].call # s
      OBVIOUS
    <3>1. i + 1 \in DOMAIN outbox /\ outbox'[i] = outbox[i + 1] /\ j + 1 \in DOMAIN outbox /\ outbox'[j] = outbox[j + 1]
      BY <1>1
    <3>2. i \in Nat /\ j \in Nat
      BY DEF Kept, Inv, TypeOK
    <3>3. i + 1 < j + 1
      BY <3>2
    <3> QED
      BY <2>2, <3>1, <3>3
  <2>4. verdict'[CleanupOf[s]] # "none" => ~InOutbox(s)'
    <3>1. CASE CleanupOf[s] # c
      BY <1>1, <1>2, <2>1, <2>2, <3>1
    <3>2. CASE CleanupOf[s] = c
      <4>1. ASSUME NEW i \in DOMAIN outbox' PROVE outbox'[i].call # s
        <5>1. i + 1 \in DOMAIN outbox /\ 1 < i + 1 /\ outbox'[i] = outbox[i + 1]
          <6>1. i \in Nat
            BY DEF Kept, Inv, TypeOK
          <6> QED
            BY <1>1, <6>1
        <5> QED
          BY <1>1, <2>2, <3>2, <5>1
      <4> QED
        BY <4>1 DEF InOutbox
    <3> QED
      BY <3>1, <3>2
  <2>5. verdict'[CleanupOf[s]] = "result" => s \notin streams'
    <3>1. CASE CleanupOf[s] = c
      BY <1>1, <3>1
    <3>2. CASE CleanupOf[s] # c
      <4>1. verdict'[CleanupOf[s]] = verdict[CleanupOf[s]]
        BY <1>2, <2>1, <3>2
      <4>2. s = c => verdict[CleanupOf[s]] # "result"
        BY <1>1, <2>2
      <4> QED
        BY <1>1, <2>2, <4>1, <4>2
    <3> QED
      BY <3>1, <3>2
  <2> QED
    BY <2>3, <2>4, <2>5 DEF Queued
<1>9. ASSUME NEW s \in Subs PROVE OwnAhead(s)'
  <2> SUFFICES ASSUME verdict'[s] = "result", Registered(s), NEW i \in DOMAIN inbox, NEW t \in Subs, EventAt(i, t),
                      SourceOf[t] = SourceOf[s]
               PROVE  t = s
    BY <1>1, <1>4 DEF OwnAhead, EventAt
  <2>1. ~readErr /\ SourceOf[s] \notin DOMAIN unsubscribing /\ Heard(t)
    BY DEF SubsInv, Kept, Books, Booked, Heard
  <2>2. Registered(t) \/ Cleaning(t)
    BY <1>1, <2>1 DEF SubsInv, Wire, Watched
  <2>3. Registered(t)
    BY <2>1, <2>2 DEF Cleaning
  <2> QED
    BY <2>3, OnePerName
<1>10. ASSUME NEW s \in Subs PROVE OwnBuffered(s)'
  <2>1. OwnBuffered(s) /\ events[s] \in Seq(Subs)
    BY DEF SubsInv, Wire, Kept, Books, BookTypes
  <2>2. ASSUME NEW k \in DOMAIN events[s] PROVE verdict'[events[s][k]] = "result" /\ events[s][k] = s
    <3>1. events[s][k] \in Calls /\ verdict[events[s][k]] = "result" /\ events[s][k] = s
      BY <1>1, <1>3, <2>1 DEF OwnBuffered
    <3> QED
      BY <1>2, <3>1
  <2> QED
    BY <1>1, <2>2 DEF OwnBuffered
<1> QED
  BY <1>5, <1>6, <1>7, <1>8, <1>9, <1>10 DEF Wire

\* The target sends a frame: an answer, or an event of a stream it has open.
LEMMA SendWire ==
  ASSUME SubsInv, Kept', NEW f \in Response \cup Unasked, inbox' = Append(inbox, f), link = "up", ~readErr,
         f.body.how = "event" => f.body.re \in streams,
         UNCHANGED <<pc, outcome, ch, link, readErr, outbox, verdict, streams, subscriptions, unsubscribing, cleanup, spc, events>>
  PROVE  Wire'
<1>1. inbox \in Seq(Response \cup Unasked)
  BY DEF SubsInv, Kept, Inv, TypeOK
<1>2. \A i \in DOMAIN inbox' :
        \/ i \in DOMAIN inbox /\ inbox'[i] = inbox[i]
        \/ i = Len(inbox) + 1 /\ i \notin DOMAIN inbox /\ inbox'[i] = f
  BY <1>1, AppendElements
<1>3. \A i, j \in DOMAIN inbox' : j < i => j \in DOMAIN inbox /\ inbox'[j] = inbox[j]
  <2>1. \A i \in DOMAIN inbox' : i \in Nat /\ i <= Len(inbox) + 1
    BY <1>1
  <2> QED
    BY <1>1, <1>2, <2>1
<1>4. \A s \in Subs : /\ Registered(s)' <=> Registered(s)
                      /\ Cleaning(s)' <=> Cleaning(s)
                      /\ Unwritten(s)' <=> Unwritten(s)
                      /\ Reaches(s)' <=> Reaches(s)
                      /\ InOutbox(s)' <=> InOutbox(s)
  BY DEF Registered, Cleaning, Unwritten, Reaches, InOutbox
<1>5. \A i \in DOMAIN inbox' : \A s \in Subs :
        EventAt(i, s)' => (i \in DOMAIN inbox /\ EventAt(i, s)) \/ s \in streams
  BY <1>2 DEF EventAt
<1>6. Callers' /\ OnePerSource'
  BY <1>4 DEF SubsInv, Wire, Callers, OnePerSource
<1>7. Sent'
  BY <1>2 DEF SubsInv, Wire, Sent
<1>8. ASSUME NEW s \in Subs PROVE Stepped(s)' /\ Queued(s)' /\ Asked(s)' /\ OwnBuffered(s)'
  BY <1>4 DEF SubsInv, Wire, Stepped, Queued, Asked, OwnBuffered
<1>9. ASSUME NEW s \in Subs PROVE Watched(s)'
  <2>1. Heard(s)' => Heard(s) \/ Reaches(s)
    BY <1>5 DEF Heard, Reaches
  <2> QED
    BY <1>4, <2>1 DEF SubsInv, Wire, Watched
<1>10. ASSUME NEW s \in Subs PROVE LastWord(s)'
  <2> SUFFICES ASSUME NEW i \in DOMAIN inbox', EventAt(i, s)'
               PROVE  /\ outcome[CleanupOf[s]].how # "result" /\ ch[CleanupOf[s]].how # "result"
                      /\ \A j \in DOMAIN inbox' : j < i /\ inbox'[j].body.how = "result" => inbox'[j].body.re # CleanupOf[s]
    BY DEF LastWord
  <2>1. CASE i \in DOMAIN inbox /\ EventAt(i, s)
    BY <1>3, <2>1 DEF SubsInv, Wire, LastWord
  <2>2. CASE s \in streams
    <3>1. CleanupOf[s] \in Calls
      BY SubsAssumption
    <3>2. verdict[CleanupOf[s]] # "result"
      BY <2>2 DEF SubsInv, Wire, Queued
    <3>3. outcome[CleanupOf[s]].how # "result" /\ ch[CleanupOf[s]].how # "result"
      BY <3>1, <3>2, GivenVerdict DEF SubsInv, Kept, Verdict
    <3>4. ASSUME NEW j \in DOMAIN inbox, inbox[j].body.how = "result" PROVE inbox[j].body.re # CleanupOf[s]
      <4>1. inbox[j] \in Response
        BY <1>1, <3>4 DEF Unasked
      <4> QED
        BY <3>2, <3>4, <4>1 DEF SubsInv, Kept, Inv, RepliesOwn
    <3> QED
      BY <1>3, <3>3, <3>4
  <2> QED
    BY <1>5, <2>1, <2>2
<1>11. ASSUME NEW s \in Subs PROVE OwnAhead(s)'
  <2> SUFFICES ASSUME verdict[s] = "result", Registered(s), NEW i \in DOMAIN inbox', NEW t \in Subs, EventAt(i, t)',
                      SourceOf[t] = SourceOf[s]
               PROVE  t = s
    BY <1>4 DEF OwnAhead, EventAt
  <2>1. CASE i \in DOMAIN inbox /\ EventAt(i, t)
    BY <2>1 DEF SubsInv, Wire, OwnAhead
  <2>2. CASE t \in streams
    <3>1. Registered(t) \/ Cleaning(t)
      BY <2>2 DEF SubsInv, Wire, Watched, Reaches
    <3>2. ~Cleaning(t)
      BY DEF SubsInv, Kept, Books, Booked, Cleaning
    <3> QED
      BY <3>1, <3>2, OnePerName
  <2> QED
    BY <1>5, <2>1, <2>2
<1> QED
  BY <1>6, <1>7, <1>8, <1>9, <1>10, <1>11 DEF Wire

\* Every step keeps the invariant.
LEMMA StepSubs == SubsInv /\ [SubsNext]_allVars => SubsInv'
<1> SUFFICES ASSUME SubsInv, [SubsNext]_allVars PROVE Wire'
  BY StepKept DEF SubsInv
<1>1. Kept'
  BY StepKept DEF SubsInv
<1>2. CASE UNCHANGED <<callVars, link, readErr, outbox, inbox, verdict, regVars, spc, events, streams>>
  <2>1. UNCHANGED <<pc, outcome, ch, link, readErr, outbox, inbox, verdict, subscriptions, unsubscribing, cleanup, spc, streams>>
    BY <1>2 DEF callVars, regVars
  <2>2. PICK k \in {0, 1} : Shifted(k)
    BY <2>1, Reading DEF SubsInv, Kept
  <2>3. \A t \in Subs : OwnBuffered(t)'
    BY <1>2, UntouchedBuffers
  <2> QED
    BY <1>1, <2>1, <2>2, <2>3, StillWire
<1>3. ASSUME NEW s \in Subs, Subscribe(s) \/ unsubscribeAsync(s) \/ Cancel(s) \/ Consume(s) PROVE Wire'
  <2>1. CASE Cancel(s)
    BY <1>2, <2>1 DEF Cancel, vars, clientVars, targetVars
  <2> QED
    BY <1>1, <1>3, <2>1, SubscribeWire, CleanupReturnsWire, CleanupClearsWire, ConsumeWire DEF unsubscribeAsync
<1>4. ASSUME NEW c \in Calls, CallStarts(c) \/ CallWrites(c) \/ CallReceives(c) \/ CallContextDone(c) PROVE Wire'
  BY <1>4, CallWire
<1>5. CASE SubsReadLoop
  BY <1>1, <1>5, ReadEventWire, ReadResponseWire, FailWire DEF SubsReadLoop
<1>6. CASE Close /\ UNCHANGED subVars
  BY <1>2, <1>6 DEF Close, subVars, targetVars
<1>7. CASE TargetReplies
  <2>1. /\ Readable /\ UNCHANGED <<clientVars, callVars, link, outbox, verdict, subVars>>
    BY <1>7 DEF TargetReplies, TargetReply
  <2>2. PICK r \in serving : inbox' = Append(inbox, [id |-> r.id, body |-> Body(verdict[r.call], r.call)])
    BY <1>7 DEF TargetReplies, TargetReply
  <2> DEFINE f == [id |-> r.id, body |-> Body(verdict[r.call], r.call)]
  <2>3. r.id \in Nat /\ r.call \in Calls /\ verdict[r.call] \in Verdict
    BY DEF SubsInv, Kept, Inv, TypeOK, Request, RepliesOwn
  <2>4. f \in Response /\ f.body.how # "event"
    BY <2>3 DEF Response, Answer, Body, Verdict
  <2>5. inbox' = Append(inbox, f)
    BY <2>2
  <2> HIDE DEF f
  <2> QED
    BY <1>1, <2>1, <2>4, <2>5, SendWire DEF Readable, clientVars, callVars, subVars, regVars
<1>8. CASE TargetEvent
  <2>1. PICK s \in streams : inbox' = Append(inbox, Event(s))
    BY <1>8 DEF TargetEvent
  <2>2. Event(s) \in Unasked /\ Event(s).body.re = s
    BY SubsAssumption DEF SubsInv, Kept, Named, Event, Unasked, Body
  <2>3. /\ link = "up" /\ ~readErr
        /\ UNCHANGED <<pc, outcome, ch, link, readErr, outbox, verdict, streams, subscriptions, unsubscribing, cleanup,
                       spc, events>>
    BY <1>8 DEF TargetEvent, Readable, clientVars, callVars, targetVars, regVars
  <2> QED
    BY <1>1, <2>1, <2>2, <2>3, SendWire
<1>9. CASE TargetGarbles
  <2>1. Garbled \in Unasked /\ Garbled.body.how # "event"
    BY BodiesDiffer DEF Garbled, Body
  <2>2. /\ link = "up" /\ ~readErr /\ inbox' = Append(inbox, Garbled)
        /\ UNCHANGED <<pc, outcome, ch, link, readErr, outbox, verdict, streams, subscriptions, unsubscribing, cleanup,
                       spc, events>>
    BY <1>9 DEF TargetGarbles, Readable, clientVars, callVars, targetVars, subVars, regVars
  <2> QED
    BY <1>1, <2>1, <2>2, SendWire
<1>10. CASE TargetServes \/ LinkEnds
  BY <1>1, <1>10, TargetServesWire, LinkEndsWire
<1>11. CASE UNCHANGED allVars
  BY <1>2, <1>11 DEF allVars, vars, clientVars, targetVars, subVars
<1> QED
  BY <1>3, <1>4, <1>5, <1>6, <1>7, <1>8, <1>9, <1>10, <1>11 DEF SubsNext

\* Nobody has subscribed and nothing is under way.
LEMMA InitSubs == SubsInit => SubsInv
<1> SUFFICES ASSUME SubsInit PROVE Wire
  BY InitKept DEF SubsInv
<1>1. /\ \A c \in Calls : pc[c] = "idle" /\ verdict[c] = "none"
      /\ \A s \in Subs : spc[s] = "idle" /\ cleanup[s] = "none" /\ events[s] = <<>>
      /\ streams = {} /\ inbox = <<>> /\ outbox = <<>>
  BY DEF SubsInit, Init
<1>2. \A s \in Subs : s \in Calls /\ CleanupOf[s] \in Calls
  BY SubsAssumption
<1>3. \A s \in Subs : ~Unwritten(s) /\ ~InOutbox(s) /\ ~Heard(s) /\ ~Reaches(s)
  BY <1>1 DEF Unwritten, InOutbox, Heard, Reaches
<1>4. Callers /\ Sent /\ OnePerSource
  BY <1>1, <1>3 DEF Callers, Sent, OnePerSource
<1>5. ASSUME NEW s \in Subs PROVE Stepped(s) /\ Queued(s) /\ Asked(s) /\ Watched(s)
  BY <1>1, <1>2, <1>3 DEF Stepped, Queued, Asked, Watched
<1>6. ASSUME NEW s \in Subs PROVE LastWord(s) /\ OwnAhead(s) /\ OwnBuffered(s)
  BY <1>1 DEF LastWord, OwnAhead, OwnBuffered
<1> QED
  BY <1>4, <1>5, <1>6 DEF Wire

\* The invariant holds in every state.
LEMMA AlwaysSubs == SubsSpec => []SubsInv
BY InitSubs, StepSubs, PTL DEF SubsSpec

-----------------------------------------------------------------------------
(* What follows for the target's streams.                                  *)

\* A replacement reaches the target only when the stream it replaces has
\* ended there: two streams of one source are never open.
THEOREM NeverTwoStreams == SubsSpec => []OneStreamPerSource
<1>1. SubsInv => OneStreamPerSource
  <2> SUFFICES ASSUME SubsInv, NEW s \in streams, NEW t \in streams, SourceOf[s] = SourceOf[t] PROVE s = t
    BY DEF OneStreamPerSource
  <2>1. s \in Subs /\ t \in Subs /\ link = "up"
    BY DEF SubsInv, Kept, Named, Wire, Sent
  <2> QED
    BY <2>1 DEF SubsInv, Wire, OnePerSource, Reaches
<1> QED
  BY <1>1, AlwaysSubs, PTL

\* No stream is left open on the target without a subscription to receive it
\* or a cleanup to end it.
THEOREM NothingStranded == SubsSpec => []NoStrandedStream
<1>1. SubsInv => NoStrandedStream
  BY DEF SubsInv, Kept, Named, Wire, Watched, Reaches, NoStrandedStream
<1> QED
  BY <1>1, AlwaysSubs, PTL

\* What a successful Subscribe delivers is of its own stream.
THEOREM DeliversItsOwn == SubsSpec => []OwnEvents
<1>1. SubsInv => OwnEvents
  <2> SUFFICES ASSUME SubsInv, NEW s \in Subs, spc[s] \in {"open", "ended"}, NEW i \in DOMAIN events[s]
               PROVE  events[s][i] = s
    BY DEF OwnEvents
  <2>1. s \in Calls /\ outcome[s].how = "result"
    BY SubsAssumption DEF SubsInv, Wire, Stepped
  <2>2. verdict[s] = "result"
    BY <2>1, GivenVerdict DEF SubsInv, Kept, Verdict
  <2> QED
    BY <2>2 DEF SubsInv, Wire, OwnBuffered
<1> QED
  BY <1>1, AlwaysSubs, PTL
=============================================================================
