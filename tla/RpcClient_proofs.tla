-------------------------- MODULE RpcClient_proofs --------------------------
(***************************************************************************)
(* Proofs about RpcClient for any set of calls: its invariants, and that   *)
(* it implements CallContract.                                             *)
(***************************************************************************)
EXTENDS RpcClient, TLAPS

-----------------------------------------------------------------------------
(* What the two queues do to their elements.                               *)

\* Taking the head of a queue keeps its other elements, in order.
LEMMA TailElements ==
  ASSUME NEW S, NEW s \in Seq(S), s # <<>>
  PROVE  /\ Head(s) \in S /\ Head(s) = s[1] /\ 1 \in DOMAIN s
         /\ Tail(s) \in Seq(S)
         /\ \A i \in DOMAIN Tail(s) : i + 1 \in DOMAIN s /\ Tail(s)[i] = s[i + 1]
OBVIOUS

\* Appending to a queue keeps its elements and adds one at the end.
LEMMA AppendElements ==
  ASSUME NEW S, NEW s \in Seq(S), NEW e \in S
  PROVE  /\ Append(s, e) \in Seq(S)
         /\ \A i \in DOMAIN Append(s, e) :
              \/ i \in DOMAIN s /\ Append(s, e)[i] = s[i]
              \/ i = Len(s) + 1 /\ i \notin DOMAIN s /\ Append(s, e)[i] = e
OBVIOUS

\* The distinguished bodies and frames are not answers of a call.
LEMMA BodiesDiffer ==
  /\ Ignored \in Unasked /\ Garbled \in Unasked
  /\ \A f \in Unasked : f \notin Response /\ f.id = 0
  /\ Ignored # Garbled
  /\ Empty # ClosedChannel
  /\ Empty.how \notin Verdict /\ ClosedChannel.how \notin Verdict
  /\ \A o \in {NoOutcome, ErrInterrupted, ErrContext, ErrClosed} :
       o.how \notin Verdict /\ o.re = NoCall
  /\ NoOutcome # ErrClosed /\ ErrInterrupted # ErrClosed /\ ErrContext # ErrClosed
  /\ \A a \in Answer : a # Empty /\ a # ClosedChannel /\ a # ErrClosed /\ a.how \in Verdict
BY DEF Unasked, Ignored, Garbled, Answer, Response, Body, Verdict, Empty, ClosedChannel,
       NoOutcome, ErrInterrupted, ErrContext, ErrClosed

-----------------------------------------------------------------------------
\* A client that was just dialled satisfies the invariant.
LEMMA InitInv == Init => Inv
<1> SUFFICES ASSUME Init PROVE Inv
  OBVIOUS
<1> USE DEF Init
<1>1. TypeOK
  <2>1. nextID \in Nat /\ DOMAIN pending \subseteq 1..nextID
    OBVIOUS
  <2>2. \A i \in DOMAIN pending : pending[i] \in Calls
    OBVIOUS
  <2>3. closed \in BOOLEAN /\ readErr \in BOOLEAN
    OBVIOUS
  <2>4. pc \in [Calls -> {"idle", "write", "wait", "done"}] /\ id \in [Calls -> Nat]
    OBVIOUS
  <2>5. outbox \in Seq(Request) /\ inbox \in Seq(Response \cup Unasked)
    OBVIOUS
  <2> QED
    BY <2>1, <2>2, <2>3, <2>4, <2>5 DEF TypeOK
<1>2. UniqueIds /\ RegisteredIsWaiting /\ RequestsOnce /\ NoLostWakeup
  BY DEF UniqueIds, RegisteredIsWaiting, RequestsOnce, NoLostWakeup
<1>3. RepliesOwn /\ ChannelsOwn /\ OwnAnswer
  BY BodiesDiffer DEF RepliesOwn, ChannelsOwn, OwnAnswer
<1> QED
  BY <1>1, <1>2, <1>3 DEF Inv

-----------------------------------------------------------------------------
(* Every action keeps the invariant. *)

\* Registering allots a fresh identifier, so no entry of pending is overwritten.
LEMMA RegisterInv ==
  ASSUME Inv, NEW c \in Calls, Register(c)
  PROVE  Inv'
<1> USE BodiesDiffer, NoCallAssumption DEF Inv, Register, clientVars, callVars, targetVars
<1>1. TypeOK'
  BY DEF TypeOK
<1>2. UniqueIds'
  BY DEF TypeOK, UniqueIds
<1>3. RegisteredIsWaiting'
  BY DEF TypeOK, RegisteredIsWaiting, UniqueIds, ChannelsOwn
<1>4. RequestsOnce'
  BY DEF TypeOK, RequestsOnce, UniqueIds
<1>5. RepliesOwn'
  BY DEF TypeOK, RepliesOwn, UniqueIds
<1>6. ChannelsOwn'
  BY DEF TypeOK, ChannelsOwn, UniqueIds, RegisteredIsWaiting
<1>7. OwnAnswer'
  BY DEF TypeOK, OwnAnswer, UniqueIds
<1>8. NoLostWakeup'
  BY DEF TypeOK, NoLostWakeup, UniqueIds, RegisteredIsWaiting
<1> QED
  BY <1>1, <1>2, <1>3, <1>4, <1>5, <1>6, <1>7, <1>8 DEF Inv

\* ErrClosed touches no identifier and no channel.
LEMMA RefuseClosedInv ==
  ASSUME Inv, NEW c \in Calls, RefuseClosed(c)
  PROVE  Inv'
<1> USE BodiesDiffer, NoCallAssumption DEF Inv, RefuseClosed, Return, clientVars, callVars, targetVars
<1>1. TypeOK'
  BY DEF TypeOK
<1>2. UniqueIds'
  BY DEF TypeOK, UniqueIds
<1>3. RegisteredIsWaiting'
  BY DEF TypeOK, RegisteredIsWaiting, UniqueIds
<1>4. RequestsOnce'
  BY DEF TypeOK, RequestsOnce, UniqueIds
<1>5. RepliesOwn'
  BY DEF TypeOK, RepliesOwn, UniqueIds
<1>6. ChannelsOwn'
  BY DEF TypeOK, ChannelsOwn, UniqueIds, RegisteredIsWaiting
<1>7. OwnAnswer'
  BY DEF TypeOK, OwnAnswer, UniqueIds
<1>8. NoLostWakeup'
  BY DEF TypeOK, NoLostWakeup, UniqueIds, RegisteredIsWaiting
<1> QED
  BY <1>1, <1>2, <1>3, <1>4, <1>5, <1>6, <1>7, <1>8 DEF Inv

\* A call writes its request once, under its own identifier.
LEMMA WriteInv ==
  ASSUME Inv, NEW c \in Calls, Write(c)
  PROVE  Inv'
<1> USE BodiesDiffer, NoCallAssumption DEF Inv, Write, clientVars, callVars, targetVars
<1>1. TypeOK'
  <2>1. [id |-> id[c], call |-> c] \in Request
    BY DEF TypeOK, Request
  <2>2. outbox' \in Seq(Request)
    BY <2>1, AppendElements DEF TypeOK
  <2> QED
    BY <2>2 DEF TypeOK
<1>2. UniqueIds'
  BY DEF TypeOK, UniqueIds
<1>3. RegisteredIsWaiting'
  BY DEF TypeOK, RegisteredIsWaiting, UniqueIds
<1>4. RequestsOnce'
  <2> DEFINE r == [id |-> id[c], call |-> c]
  <2>1. r \in Request
    BY DEF TypeOK, Request
  <2>2. \A i \in DOMAIN (outbox') :
           \/ i \in DOMAIN outbox /\ outbox'[i] = outbox[i]
           \/ i = Len(outbox) + 1 /\ outbox'[i] = r
    BY <2>1, AppendElements DEF TypeOK
  <2>3. ASSUME NEW i \in DOMAIN outbox
        PROVE  outbox[i].call \in Calls /\ outbox[i].call # c
    <3>1. outbox[i] \in Request
      BY DEF TypeOK
    <3> QED
      BY <3>1 DEF RequestsOnce, Request
  <2>4. verdict[c] = "none" /\ id[c] # 0 /\ outcome[c] # ErrClosed
    BY DEF TypeOK, RequestsOnce, UniqueIds, ChannelsOwn
  <2> QED
    BY <2>2, <2>3, <2>4 DEF TypeOK, RequestsOnce
<1>5. RepliesOwn'
  BY DEF TypeOK, RepliesOwn, UniqueIds
<1>6. ChannelsOwn'
  BY DEF TypeOK, ChannelsOwn, UniqueIds, RegisteredIsWaiting
<1>7. OwnAnswer'
  BY DEF TypeOK, OwnAnswer, UniqueIds
<1>8. NoLostWakeup'
  BY DEF TypeOK, NoLostWakeup
<1> QED
  BY <1>1, <1>2, <1>3, <1>4, <1>5, <1>6, <1>7, <1>8 DEF Inv

\* A call whose write failed forgets its own entry and no other.
LEMMA WriteFailsInv ==
  ASSUME Inv, NEW c \in Calls, WriteFails(c)
  PROVE  Inv'
<1> USE BodiesDiffer, NoCallAssumption DEF Inv, WriteFails, Return, forget, Without, clientVars, callVars, targetVars
<1>1. TypeOK'
  BY DEF TypeOK
<1>2. UniqueIds'
  BY DEF TypeOK, UniqueIds
<1>3. RegisteredIsWaiting'
  BY DEF TypeOK, RegisteredIsWaiting, UniqueIds
<1>4. RequestsOnce'
  BY DEF TypeOK, RequestsOnce, UniqueIds
<1>5. RepliesOwn'
  BY DEF TypeOK, RepliesOwn, UniqueIds
<1>6. ChannelsOwn'
  BY DEF TypeOK, ChannelsOwn, UniqueIds, RegisteredIsWaiting
<1>7. OwnAnswer'
  BY DEF TypeOK, OwnAnswer, UniqueIds
<1>8. NoLostWakeup'
  BY DEF TypeOK, NoLostWakeup, UniqueIds, RegisteredIsWaiting
<1> QED
  BY <1>1, <1>2, <1>3, <1>4, <1>5, <1>6, <1>7, <1>8 DEF Inv

\* A cancelled call forgets its own entry and no other.
LEMMA ContextDoneInv ==
  ASSUME Inv, NEW c \in Calls, ContextDone(c)
  PROVE  Inv'
<1> USE BodiesDiffer, NoCallAssumption DEF Inv, ContextDone, Return, forget, Without, clientVars, callVars, targetVars
<1>1. TypeOK'
  BY DEF TypeOK
<1>2. UniqueIds'
  BY DEF TypeOK, UniqueIds
<1>3. RegisteredIsWaiting'
  BY DEF TypeOK, RegisteredIsWaiting, UniqueIds
<1>4. RequestsOnce'
  BY DEF TypeOK, RequestsOnce, UniqueIds
<1>5. RepliesOwn'
  BY DEF TypeOK, RepliesOwn, UniqueIds
<1>6. ChannelsOwn'
  BY DEF TypeOK, ChannelsOwn, UniqueIds, RegisteredIsWaiting
<1>7. OwnAnswer'
  BY DEF TypeOK, OwnAnswer, UniqueIds
<1>8. NoLostWakeup'
  BY DEF TypeOK, NoLostWakeup, UniqueIds, RegisteredIsWaiting
<1> QED
  BY <1>1, <1>2, <1>3, <1>4, <1>5, <1>6, <1>7, <1>8 DEF Inv

\* What a caller takes from its channel is the verdict on its own call.
LEMMA ReceiveInv ==
  ASSUME Inv, NEW c \in Calls, Receive(c)
  PROVE  Inv'
<1> USE BodiesDiffer, NoCallAssumption DEF Inv, Receive, Return, clientVars, callVars, targetVars
<1>1. TypeOK'
  BY DEF TypeOK
<1>2. UniqueIds'
  BY DEF TypeOK, UniqueIds
<1>3. RegisteredIsWaiting'
  BY DEF TypeOK, RegisteredIsWaiting, UniqueIds
<1>4. RequestsOnce'
  BY DEF TypeOK, RequestsOnce, UniqueIds
<1>5. RepliesOwn'
  BY DEF TypeOK, RepliesOwn, UniqueIds
<1>6. ChannelsOwn'
  BY DEF TypeOK, ChannelsOwn, UniqueIds, RegisteredIsWaiting
<1>7. OwnAnswer'
  BY DEF TypeOK, OwnAnswer, ChannelsOwn
<1>8. NoLostWakeup'
  BY DEF TypeOK, NoLostWakeup, UniqueIds, RegisteredIsWaiting
<1> QED
  BY <1>1, <1>2, <1>3, <1>4, <1>5, <1>6, <1>7, <1>8 DEF Inv

\* The read loop hands a response to the call it answers, or to nobody.
LEMMA ReadResponseInv ==
  ASSUME Inv, ReadResponse
  PROVE  Inv'
<1> USE BodiesDiffer, NoCallAssumption DEF Inv, ReadResponse, Deliver, Without, clientVars, callVars, targetVars
<1>1. TypeOK'
  <2>1. Tail(inbox) \in Seq(Response \cup Unasked)
    BY TailElements DEF TypeOK
  <2>2. Head(inbox) \in Response \cup Unasked
    BY TailElements DEF TypeOK
  <2>3. Head(inbox).id \in DOMAIN pending => Head(inbox).body \in Answer
    BY <2>2 DEF TypeOK, Response
  <2> QED
    BY <2>1, <2>3 DEF TypeOK
<1>2. UniqueIds'
  BY DEF TypeOK, UniqueIds
<1>3. RegisteredIsWaiting'
  BY DEF TypeOK, RegisteredIsWaiting, UniqueIds
<1>4. RequestsOnce'
  BY DEF TypeOK, RequestsOnce, UniqueIds
<1>5. RepliesOwn'
  BY DEF TypeOK, RepliesOwn, UniqueIds
<1>6. ChannelsOwn'
  <2> DEFINE f == Head(inbox)
  <2>1. f \in Response \cup Unasked /\ f = inbox[1] /\ 1 \in DOMAIN inbox
    BY TailElements DEF TypeOK
  <2>2. CASE f.id \notin DOMAIN pending
    BY <2>2 DEF TypeOK, ChannelsOwn
  <2>3. CASE f.id \in DOMAIN pending
    <3>1. f \in Response /\ f.body \in Answer /\ f.body.re \in Calls
      BY <2>1, <2>3 DEF TypeOK, Response, Answer
    <3>2. f.id = id[f.body.re] /\ f.id # 0 /\ f.body.how = verdict[f.body.re]
      BY <2>1, <3>1 DEF RepliesOwn
    <3>3. pending[f.id] = f.body.re
      BY <2>3, <3>1, <3>2 DEF TypeOK, RegisteredIsWaiting, UniqueIds
    <3>4. f.body = Body(verdict[f.body.re], f.body.re)
      BY <3>1, <3>2 DEF Answer, Body
    <3>5. pc[f.body.re] # "idle"
      BY <2>3, <3>3 DEF RegisteredIsWaiting
    <3> QED
      BY <2>3, <3>1, <3>3, <3>4, <3>5 DEF TypeOK, ChannelsOwn
  <2> QED
    BY <2>2, <2>3
<1>7. OwnAnswer'
  BY DEF TypeOK, OwnAnswer, UniqueIds
<1>8. NoLostWakeup'
  <2> DEFINE f == Head(inbox)
  <2>1. f \in Response \cup Unasked
    BY TailElements DEF TypeOK
  <2>2. f.id \in DOMAIN pending => f.body # Empty
    BY <2>1 DEF TypeOK, Response
  <2>3. SUFFICES ASSUME NEW c \in Calls, pc[c] \in {"write", "wait"}, ch'[c] = Empty
                 PROVE  id[c] \in DOMAIN (pending') /\ pending'[id[c]] = c
    BY DEF NoLostWakeup
  <2>4. ch[c] = Empty /\ ~(f.id \in DOMAIN pending /\ pending[f.id] = c)
    <3>1. CASE f.id \in DOMAIN pending /\ pending[f.id] = c
      BY <2>2, <2>3, <3>1
    <3>2. CASE ~(f.id \in DOMAIN pending /\ pending[f.id] = c)
      BY <2>3, <3>2
    <3> QED
      BY <3>1, <3>2
  <2>5. id[c] \in DOMAIN pending /\ pending[id[c]] = c
    BY <2>3, <2>4 DEF NoLostWakeup
  <2> QED
    BY <2>4, <2>5
<1> QED
  BY <1>1, <1>2, <1>3, <1>4, <1>5, <1>6, <1>7, <1>8 DEF Inv

\* A frame that does not decode closes every registered channel.
LEMMA ReadGarbledInv ==
  ASSUME Inv, ReadGarbled
  PROVE  Inv'
<1> USE BodiesDiffer, NoCallAssumption DEF Inv, ReadGarbled, failPending, clientVars, callVars, targetVars
<1>1. TypeOK'
  BY DEF TypeOK
<1>2. UniqueIds'
  BY DEF TypeOK, UniqueIds
<1>3. RegisteredIsWaiting'
  BY DEF TypeOK, RegisteredIsWaiting, UniqueIds
<1>4. RequestsOnce'
  BY DEF TypeOK, RequestsOnce, UniqueIds
<1>5. RepliesOwn'
  BY DEF TypeOK, RepliesOwn, UniqueIds
<1>6. ChannelsOwn'
  BY DEF TypeOK, ChannelsOwn, UniqueIds, RegisteredIsWaiting
<1>7. OwnAnswer'
  BY DEF TypeOK, OwnAnswer, UniqueIds
<1>8. NoLostWakeup'
  BY DEF TypeOK, NoLostWakeup, UniqueIds, RegisteredIsWaiting
<1> QED
  BY <1>1, <1>2, <1>3, <1>4, <1>5, <1>6, <1>7, <1>8 DEF Inv

\* A failed read closes every registered channel.
LEMMA ReadFailsInv ==
  ASSUME Inv, ReadFails
  PROVE  Inv'
<1> USE BodiesDiffer, NoCallAssumption DEF Inv, ReadFails, failPending, clientVars, callVars, targetVars
<1>1. TypeOK'
  BY DEF TypeOK
<1>2. UniqueIds'
  BY DEF TypeOK, UniqueIds
<1>3. RegisteredIsWaiting'
  BY DEF TypeOK, RegisteredIsWaiting, UniqueIds
<1>4. RequestsOnce'
  BY DEF TypeOK, RequestsOnce, UniqueIds
<1>5. RepliesOwn'
  BY DEF TypeOK, RepliesOwn, UniqueIds
<1>6. ChannelsOwn'
  BY DEF TypeOK, ChannelsOwn, UniqueIds, RegisteredIsWaiting
<1>7. OwnAnswer'
  BY DEF TypeOK, OwnAnswer, UniqueIds
<1>8. NoLostWakeup'
  BY DEF TypeOK, NoLostWakeup, UniqueIds, RegisteredIsWaiting
<1> QED
  BY <1>1, <1>2, <1>3, <1>4, <1>5, <1>6, <1>7, <1>8 DEF Inv

\* Setting closed leaves the calls in flight alone.
LEMMA CloseInv ==
  ASSUME Inv, Close
  PROVE  Inv'
<1> USE BodiesDiffer, NoCallAssumption DEF Inv, Close, clientVars, callVars, targetVars
<1>1. TypeOK'
  BY DEF TypeOK
<1>2. UniqueIds'
  BY DEF TypeOK, UniqueIds
<1>3. RegisteredIsWaiting'
  BY DEF TypeOK, RegisteredIsWaiting, UniqueIds
<1>4. RequestsOnce'
  BY DEF TypeOK, RequestsOnce, UniqueIds
<1>5. RepliesOwn'
  BY DEF TypeOK, RepliesOwn, UniqueIds
<1>6. ChannelsOwn'
  BY DEF TypeOK, ChannelsOwn, UniqueIds, RegisteredIsWaiting
<1>7. OwnAnswer'
  BY DEF TypeOK, OwnAnswer, UniqueIds
<1>8. NoLostWakeup'
  BY DEF TypeOK, NoLostWakeup, UniqueIds, RegisteredIsWaiting
<1> QED
  BY <1>1, <1>2, <1>3, <1>4, <1>5, <1>6, <1>7, <1>8 DEF Inv

\* Closing the connection leaves the calls in flight alone.
LEMMA CloseConnInv ==
  ASSUME Inv, CloseConn
  PROVE  Inv'
<1> USE BodiesDiffer, NoCallAssumption DEF Inv, CloseConn, clientVars, callVars, targetVars
<1>1. TypeOK'
  BY DEF TypeOK
<1>2. UniqueIds'
  BY DEF TypeOK, UniqueIds
<1>3. RegisteredIsWaiting'
  BY DEF TypeOK, RegisteredIsWaiting, UniqueIds
<1>4. RequestsOnce'
  BY DEF TypeOK, RequestsOnce, UniqueIds
<1>5. RepliesOwn'
  BY DEF TypeOK, RepliesOwn, UniqueIds
<1>6. ChannelsOwn'
  BY DEF TypeOK, ChannelsOwn, UniqueIds, RegisteredIsWaiting
<1>7. OwnAnswer'
  BY DEF TypeOK, OwnAnswer, UniqueIds
<1>8. NoLostWakeup'
  BY DEF TypeOK, NoLostWakeup, UniqueIds, RegisteredIsWaiting
<1> QED
  BY <1>1, <1>2, <1>3, <1>4, <1>5, <1>6, <1>7, <1>8 DEF Inv

\* The next request the target takes in was written by a live call, and has
\* not been applied.
LEMMA HeadRequest ==
  ASSUME Inv, outbox # <<>>
  PROVE  /\ Head(outbox) \in Request /\ Head(outbox).call \in Calls
         /\ verdict[Head(outbox).call] = "none"
         /\ Head(outbox).id = id[Head(outbox).call] /\ Head(outbox).id # 0
         /\ pc[Head(outbox).call] \in {"wait", "done"}
         /\ outcome[Head(outbox).call] # ErrClosed
         /\ \A i \in DOMAIN Tail(outbox) : Tail(outbox)[i].call # Head(outbox).call
<1>1. outbox \in Seq(Request)
  BY DEF Inv, TypeOK
<1>2. Head(outbox) \in Request /\ Head(outbox) = outbox[1] /\ 1 \in DOMAIN outbox
  BY <1>1, TailElements
<1>3. \A i \in DOMAIN Tail(outbox) :
         i # 0 /\ i \in Nat /\ i + 1 \in DOMAIN outbox /\ Tail(outbox)[i] = outbox[i + 1]
  BY <1>1, TailElements
<1>4. \A i \in DOMAIN Tail(outbox) : Tail(outbox)[i].call # Head(outbox).call
  BY <1>2, <1>3 DEF Inv, RequestsOnce
<1> QED
  BY <1>2, <1>4 DEF Inv, RequestsOnce, Request

\* The target fixes its verdict on a call once.
LEMMA TargetApplyInv ==
  ASSUME Inv, TargetApply
  PROVE  Inv'
<1> USE BodiesDiffer, NoCallAssumption DEF Inv, TargetApply, clientVars, callVars, targetVars
<1>1. TypeOK'
  <2>1. Tail(outbox) \in Seq(Request) /\ Head(outbox) \in Request
    BY TailElements DEF TypeOK
  <2> QED
    BY <2>1 DEF TypeOK, Verdict
<1>2. UniqueIds'
  BY DEF TypeOK, UniqueIds
<1>3. RegisteredIsWaiting'
  BY DEF TypeOK, RegisteredIsWaiting, UniqueIds
<1>4. RequestsOnce'
  <2> DEFINE r == Head(outbox)
  <2>1. r.call \in Calls /\ pc[r.call] \in {"wait", "done"}
    BY HeadRequest
  <2>2. outbox \in Seq(Request)
    BY DEF TypeOK
  <2>3. \A i \in DOMAIN (outbox') :
           i \in Nat /\ i + 1 \in DOMAIN outbox /\ outbox'[i] = outbox[i + 1]
    BY <2>2, TailElements
  <2>4. \A i \in DOMAIN (outbox') : outbox'[i].call # r.call
    BY HeadRequest
  <2>5. \A c \in Calls : c # r.call => verdict'[c] = verdict[c]
    BY <2>1 DEF TypeOK
  <2>6. ASSUME NEW i \in DOMAIN outbox PROVE outbox[i].call \in Calls
    <3>1. outbox[i] \in Request
      BY <2>2
    <3> QED
      BY <3>1 DEF Request
  <2>7. ASSUME NEW i \in DOMAIN (outbox')
        PROVE  LET q == outbox'[i]
               IN /\ q.id = id[q.call] /\ q.id # 0
                  /\ verdict'[q.call] = "none"
                  /\ pc[q.call] \in {"wait", "done"}
                  /\ outcome[q.call] # ErrClosed
    BY <2>3, <2>4, <2>5, <2>6 DEF RequestsOnce
  <2>8. ASSUME NEW i \in DOMAIN (outbox'), NEW j \in DOMAIN (outbox'),
               outbox'[i].call = outbox'[j].call
        PROVE  i = j
    <3>1. i + 1 = j + 1
      BY <2>3, <2>8 DEF RequestsOnce
    <3> QED
      BY <2>3, <3>1
  <2>9. ASSUME NEW c \in Calls, pc[c] \in {"idle", "write"}
        PROVE  verdict'[c] = "none"
    BY <2>1, <2>5, <2>9 DEF RequestsOnce
  <2> QED
    BY <2>7, <2>8, <2>9 DEF RequestsOnce
<1>5. RepliesOwn'
  <2> DEFINE r == Head(outbox)
  <2>1. r \in Request /\ r.call \in Calls
    BY HeadRequest
  <2>2. verdict[r.call] = "none" /\ r.id = id[r.call] /\ r.id # 0
    BY HeadRequest
  <2>3. verdict'[r.call] \in Verdict
    BY <2>1 DEF TypeOK
  <2>4. \A c \in Calls : c # r.call => verdict'[c] = verdict[c]
    BY <2>1 DEF TypeOK
  <2>5. "none" \notin Verdict
    BY DEF Verdict
  <2>6. ASSUME NEW q \in serving'
        PROVE  q.id = id[q.call] /\ q.id # 0 /\ verdict'[q.call] \in Verdict
    <3>1. CASE q = r
      BY <2>2, <2>3, <3>1
    <3>2. CASE q \in serving
      BY <2>2, <2>3, <2>4, <3>2 DEF TypeOK, Request, RepliesOwn
    <3> QED
      BY <3>1, <3>2
  <2>7. ASSUME NEW i \in DOMAIN inbox, inbox[i] \in Response
        PROVE  /\ inbox[i].id = id[inbox[i].body.re] /\ inbox[i].id # 0
               /\ inbox[i].body.how = verdict'[inbox[i].body.re]
    BY <2>2, <2>4, <2>5, <2>7 DEF Response, Answer, RepliesOwn
  <2> QED
    BY <2>6, <2>7 DEF RepliesOwn
<1>6. ChannelsOwn'
  <2> DEFINE r == Head(outbox)
  <2>1. r \in Request /\ r.call \in Calls
    BY HeadRequest
  <2>2. verdict[r.call] = "none" /\ r.id = id[r.call] /\ r.id # 0
    BY HeadRequest
  <2>3. ASSUME NEW c \in Calls, ch[c].how \in Verdict
        PROVE  ch[c] = Body(verdict'[c], c)
    <3>1. ch[c] = Body(verdict[c], c) /\ verdict[c] \in Verdict
      BY <2>3 DEF ChannelsOwn, Body
    <3>2. c # r.call
      BY <2>2, <3>1 DEF Verdict
    <3> QED
      BY <2>1, <3>1, <3>2 DEF TypeOK
  <2> QED
    BY <2>3 DEF ChannelsOwn
<1>7. OwnAnswer'
  <2> DEFINE r == Head(outbox)
  <2>1. r \in Request /\ r.call \in Calls
    BY HeadRequest
  <2>2. verdict[r.call] = "none" /\ r.id = id[r.call] /\ r.id # 0
    BY HeadRequest
  <2>3. ASSUME NEW c \in Calls, outcome[c].how \in Verdict
        PROVE  outcome[c] = Body(verdict'[c], c)
    <3>1. outcome[c] = Body(verdict[c], c) /\ verdict[c] \in Verdict
      BY <2>3 DEF OwnAnswer, Body
    <3>2. c # r.call
      BY <2>2, <3>1 DEF Verdict
    <3> QED
      BY <2>1, <3>1, <3>2 DEF TypeOK
  <2> QED
    BY <2>3 DEF OwnAnswer
<1>8. NoLostWakeup'
  BY DEF TypeOK, NoLostWakeup, UniqueIds, RegisteredIsWaiting
<1> QED
  BY <1>1, <1>2, <1>3, <1>4, <1>5, <1>6, <1>7, <1>8 DEF Inv

\* The target answers under the identifier the request came with.
LEMMA TargetReplyInv ==
  ASSUME Inv, TargetReply
  PROVE  Inv'
<1> USE BodiesDiffer, NoCallAssumption DEF Inv, TargetReply, clientVars, callVars, targetVars
<1>1. TypeOK'
  <2>1. PICK r \in serving :
          /\ inbox' = Append(inbox, [id |-> r.id, body |-> Body(verdict[r.call], r.call)])
          /\ serving' = serving \ {r}
    OBVIOUS
  <2> DEFINE f == [id |-> r.id, body |-> Body(verdict[r.call], r.call)]
  <2>2. r \in Request /\ r.call \in Calls /\ verdict[r.call] \in Verdict
    BY DEF TypeOK, Request, RepliesOwn
  <2>3. f \in Response
    BY <2>2 DEF Request, Response, Answer, Body
  <2>4. inbox' \in Seq(Response \cup Unasked)
    BY <2>1, <2>3, AppendElements DEF TypeOK
  <2> QED
    BY <2>1, <2>4 DEF TypeOK
<1>2. UniqueIds'
  BY DEF TypeOK, UniqueIds
<1>3. RegisteredIsWaiting'
  BY DEF TypeOK, RegisteredIsWaiting, UniqueIds
<1>4. RequestsOnce'
  BY DEF TypeOK, RequestsOnce, UniqueIds
<1>5. RepliesOwn'
  <2>1. PICK r \in serving :
          /\ inbox' = Append(inbox, [id |-> r.id, body |-> Body(verdict[r.call], r.call)])
          /\ serving' = serving \ {r}
    OBVIOUS
  <2> DEFINE f == [id |-> r.id, body |-> Body(verdict[r.call], r.call)]
  <2>2. r \in Request /\ r.call \in Calls /\ verdict[r.call] \in Verdict
    BY DEF TypeOK, Request, RepliesOwn
  <2>3. f \in Response
    BY <2>2 DEF Request, Response, Answer, Body
  <2>4. \A i \in DOMAIN (inbox') :
           \/ i \in DOMAIN inbox /\ inbox'[i] = inbox[i]
           \/ inbox'[i] = f
    BY <2>1, <2>3, AppendElements DEF TypeOK
  <2>5. f.id = id[f.body.re] /\ f.id # 0 /\ f.body.how = verdict[f.body.re]
    BY <2>2 DEF RepliesOwn, Body
  <2>6. \A q \in serving' : q.id = id[q.call] /\ q.id # 0 /\ verdict[q.call] \in Verdict
    BY <2>1 DEF RepliesOwn
  <2> QED
    BY <2>4, <2>5, <2>6 DEF RepliesOwn
<1>6. ChannelsOwn'
  BY DEF TypeOK, ChannelsOwn, UniqueIds, RegisteredIsWaiting
<1>7. OwnAnswer'
  BY DEF TypeOK, OwnAnswer, UniqueIds
<1>8. NoLostWakeup'
  BY DEF TypeOK, NoLostWakeup, UniqueIds, RegisteredIsWaiting
<1> QED
  BY <1>1, <1>2, <1>3, <1>4, <1>5, <1>6, <1>7, <1>8 DEF Inv

\* A frame for nobody disturbs no call.
LEMMA TargetStrayInv ==
  ASSUME Inv, TargetStray
  PROVE  Inv'
<1> USE BodiesDiffer, NoCallAssumption DEF Inv, TargetStray, clientVars, callVars, targetVars
<1>1. TypeOK'
  BY DEF TypeOK
<1>2. UniqueIds'
  BY DEF TypeOK, UniqueIds
<1>3. RegisteredIsWaiting'
  BY DEF TypeOK, RegisteredIsWaiting, UniqueIds
<1>4. RequestsOnce'
  BY DEF TypeOK, RequestsOnce, UniqueIds
<1>5. RepliesOwn'
  BY DEF TypeOK, RepliesOwn, UniqueIds
<1>6. ChannelsOwn'
  BY DEF TypeOK, ChannelsOwn, UniqueIds, RegisteredIsWaiting
<1>7. OwnAnswer'
  BY DEF TypeOK, OwnAnswer, UniqueIds
<1>8. NoLostWakeup'
  BY DEF TypeOK, NoLostWakeup, UniqueIds, RegisteredIsWaiting
<1> QED
  BY <1>1, <1>2, <1>3, <1>4, <1>5, <1>6, <1>7, <1>8 DEF Inv

\* Losing the link leaves the client's state alone.
LEMMA LoseLinkInv ==
  ASSUME Inv, LoseLink
  PROVE  Inv'
<1> USE BodiesDiffer, NoCallAssumption DEF Inv, LoseLink, clientVars, callVars, targetVars
<1>1. TypeOK'
  BY DEF TypeOK
<1>2. UniqueIds'
  BY DEF TypeOK, UniqueIds
<1>3. RegisteredIsWaiting'
  BY DEF TypeOK, RegisteredIsWaiting, UniqueIds
<1>4. RequestsOnce'
  BY DEF TypeOK, RequestsOnce, UniqueIds
<1>5. RepliesOwn'
  BY DEF TypeOK, RepliesOwn, UniqueIds
<1>6. ChannelsOwn'
  BY DEF TypeOK, ChannelsOwn, UniqueIds, RegisteredIsWaiting
<1>7. OwnAnswer'
  BY DEF TypeOK, OwnAnswer, UniqueIds
<1>8. NoLostWakeup'
  BY DEF TypeOK, NoLostWakeup, UniqueIds, RegisteredIsWaiting
<1> QED
  BY <1>1, <1>2, <1>3, <1>4, <1>5, <1>6, <1>7, <1>8 DEF Inv

-----------------------------------------------------------------------------
\* Every step keeps the invariant.
LEMMA NextInv == Inv /\ [Next]_vars => Inv'
<1> SUFFICES ASSUME Inv, [Next]_vars PROVE Inv'
  OBVIOUS
<1>1. ASSUME NEW c \in Calls, CallStep(c) PROVE Inv'
  BY <1>1, RegisterInv, RefuseClosedInv, WriteInv, WriteFailsInv, ContextDoneInv, ReceiveInv
     DEF CallStep
<1>2. CASE readLoop
  BY <1>2, ReadResponseInv, ReadGarbledInv, ReadFailsInv DEF readLoop
<1>3. CASE Close \/ CloseConn \/ LoseLink
  BY <1>3, CloseInv, CloseConnInv, LoseLinkInv
<1>4. CASE Target
  BY <1>4, TargetApplyInv, TargetReplyInv, TargetStrayInv DEF Target
<1>5. CASE UNCHANGED vars
  <2> USE <1>5 DEF vars, clientVars, callVars, targetVars, Inv
  <2>1. TypeOK' /\ UniqueIds' /\ RegisteredIsWaiting'
    BY DEF TypeOK, UniqueIds, RegisteredIsWaiting
  <2>2. RequestsOnce' /\ RepliesOwn' /\ ChannelsOwn' /\ OwnAnswer' /\ NoLostWakeup'
    BY DEF RequestsOnce, RepliesOwn, ChannelsOwn, OwnAnswer, NoLostWakeup
  <2> QED
    BY <2>1, <2>2
<1> QED
  BY <1>1, <1>2, <1>3, <1>4, <1>5 DEF Next

\* The client's state keeps its types, whatever the calls, the target and the
\* network do.
THEOREM TypeCorrect == Spec => []TypeOK
<1>1. Inv => TypeOK
  BY DEF Inv
<1> QED
  BY <1>1, InitInv, NextInv, PTL DEF Spec

\* Every caller gets the verdict on its own request: responses matched by
\* identifier (readLoop) never cross, however many calls are in flight.
THEOREM AnswersNeverCross == Spec => []OwnAnswer
<1>1. Inv => OwnAnswer
  BY DEF Inv
<1> QED
  BY <1>1, InitInv, NextInv, PTL DEF Spec

\* readLoop never blocks or panics on a channel: a registered channel is
\* open, empty, and its caller is still inside Call.
THEOREM ReadLoopNeverBlocks == Spec => []RegisteredIsWaiting
<1>1. Inv => RegisteredIsWaiting
  BY DEF Inv
<1> QED
  BY <1>1, InitInv, NextInv, PTL DEF Spec

\* No caller inside Call loses its channel without a response or a close.
THEOREM NoCallerForgotten == Spec => []NoLostWakeup
<1>1. Inv => NoLostWakeup
  BY DEF Inv
<1> QED
  BY <1>1, InitInv, NextInv, PTL DEF Spec

-----------------------------------------------------------------------------
(* Call implements its contract.                                           *)

\* The initial states are initial states of the contract.
LEMMA InitContract == Init => Contract!Init
BY DEF Init, Contract!Init, callStatus, callAnswers, NoOutcome, Body

\* A return of Call is seen by the contract as its outcome and its answer.
LEMMA ReturnMaps ==
  ASSUME Inv, NEW c \in Calls, pc[c] \in {"idle", "write", "wait"}, NEW o, Return(c, o)
  PROVE  /\ callStatus' = [callStatus EXCEPT ![c] = o.how]
         /\ callAnswers' = [callAnswers EXCEPT ![c] = o.re]
         /\ o.re = NoCall => callAnswers' = callAnswers
<1>1. pc'[c] = "done" /\ outcome'[c] = o
  BY DEF Inv, TypeOK, Return
<1>2. \A d \in Calls : d # c => pc'[d] = pc[d] /\ outcome'[d] = outcome[d]
  BY DEF Inv, TypeOK, Return
<1>3. callAnswers[c] = NoCall
  BY DEF Inv, ChannelsOwn, callAnswers, NoOutcome, Body
<1>4. callStatus' = [callStatus EXCEPT ![c] = o.how]
  BY <1>1, <1>2 DEF callStatus
<1>5. callAnswers' = [callAnswers EXCEPT ![c] = o.re]
  BY <1>1, <1>2 DEF callAnswers
<1> QED
  BY <1>3, <1>4, <1>5 DEF callAnswers

\* Every step is a step of the contract, or one it does not see.
LEMMA StepContract ==
  ASSUME Inv, Inv', [Next]_vars
  PROVE  [Contract!Next]_Contract!vars
<1> USE DEF Contract!vars, clientVars, callVars, targetVars
<1>0. \A c \in Calls : pc[c] \in {"write", "wait"} => callStatus[c] = "open"
  BY DEF callStatus
<1>1. ASSUME NEW c \in Calls, Register(c) PROVE Contract!Open(c)
  BY <1>1 DEF Inv, TypeOK, Register, Contract!Open, callStatus, callAnswers
<1>2. ASSUME NEW c \in Calls, RefuseClosed(c) PROVE Contract!Refuse(c)
  <2>1. callStatus' = [callStatus EXCEPT ![c] = "closed"] /\ callAnswers' = callAnswers
    BY <1>2, ReturnMaps DEF RefuseClosed, ErrClosed, Body
  <2> QED
    BY <1>2, <2>1 DEF RefuseClosed, Contract!Refuse, callStatus
<1>3. ASSUME NEW c \in Calls, Write(c) PROVE UNCHANGED Contract!vars
  BY <1>3 DEF Inv, TypeOK, Write, callStatus, callAnswers
<1>4. ASSUME NEW c \in Calls, WriteFails(c) PROVE Contract!GiveUp(c)
  <2>1. callStatus' = [callStatus EXCEPT ![c] = "interrupted"] /\ callAnswers' = callAnswers
    BY <1>4, ReturnMaps DEF WriteFails, ErrInterrupted, Body
  <2> QED
    BY <1>0, <1>4, <2>1 DEF WriteFails, Contract!GiveUp
<1>5. ASSUME NEW c \in Calls, ContextDone(c) PROVE Contract!GiveUp(c)
  <2>1. callStatus' = [callStatus EXCEPT ![c] = "cancelled"] /\ callAnswers' = callAnswers
    BY <1>5, ReturnMaps DEF ContextDone, ErrContext, Body
  <2> QED
    BY <1>0, <1>5, <2>1 DEF ContextDone, Contract!GiveUp
<1>6. ASSUME NEW c \in Calls, Receive(c) PROVE Contract!Answer(c) \/ Contract!GiveUp(c)
  <2>1. CASE ch[c] = ClosedChannel
    <3>1. Return(c, ErrInterrupted) /\ pc[c] = "wait"
      BY <1>6, <2>1 DEF Receive
    <3>2. callStatus' = [callStatus EXCEPT ![c] = "interrupted"] /\ callAnswers' = callAnswers
      BY <3>1, ReturnMaps DEF ErrInterrupted, Body
    <3> QED
      BY <1>0, <1>6, <3>1, <3>2 DEF Receive, Contract!GiveUp
  <2>2. CASE ch[c] # ClosedChannel
    <3>1. ch[c] \in Answer
      BY <1>6, <2>2 DEF Inv, TypeOK, Receive
    <3>2. ch[c] = Body(verdict[c], c) /\ verdict[c] \in Verdict
      BY <3>1 DEF Inv, ChannelsOwn, Answer, Body
    <3>3. Return(c, Body(verdict[c], c)) /\ pc[c] = "wait"
      BY <1>6, <2>2, <3>2 DEF Receive
    <3>4. /\ callStatus' = [callStatus EXCEPT ![c] = verdict[c]]
          /\ callAnswers' = [callAnswers EXCEPT ![c] = c]
      BY <3>3, ReturnMaps DEF Body
    <3> QED
      BY <1>0, <1>6, <3>2, <3>3, <3>4 DEF Receive, Verdict, Contract!Verdict, Contract!Answer
  <2> QED
    BY <2>1, <2>2
<1>7. CASE readLoop \/ CloseConn \/ LoseLink \/ TargetReply \/ TargetStray
  BY <1>7 DEF readLoop, ReadResponse, ReadGarbled, ReadFails, Deliver, failPending,
              CloseConn, LoseLink, TargetReply, TargetStray, callStatus, callAnswers
<1>8. CASE Close
  BY <1>8 DEF Close, Contract!Close, Contract!Next, callStatus, callAnswers
<1>9. CASE TargetApply
  <2> DEFINE c == Head(outbox).call
  <2>1. c \in Calls /\ verdict[c] = "none" /\ pc[c] \in {"wait", "done"} /\ outcome[c] # ErrClosed
    BY <1>9, HeadRequest DEF TargetApply
  <2>2. outcome[c].how # "closed" /\ outcome[c].how # "idle"
    <3>1. outcome[c] \in Answer \cup {NoOutcome, ErrInterrupted, ErrContext}
      BY <2>1 DEF Inv, TypeOK
    <3> QED
      BY <3>1 DEF Answer, Verdict, NoOutcome, ErrInterrupted, ErrContext, Body
  <2>3. callStatus[c] \notin {"idle", "closed"}
    BY <2>1, <2>2 DEF callStatus
  <2>4. Contract!Apply(c)
    BY <1>9, <2>1, <2>3 DEF TargetApply, Contract!Apply, Verdict, Contract!Verdict, callStatus,
                            callAnswers
  <2> QED
    BY <2>1, <2>4 DEF Contract!Next
<1>10. CASE UNCHANGED vars
  BY <1>10 DEF vars, callStatus, callAnswers
<1> QED
  BY <1>1, <1>2, <1>3, <1>4, <1>5, <1>6, <1>7, <1>8, <1>9, <1>10
     DEF Next, CallStep, Target, Contract!Next

\* Client.Call keeps its contract: the target applies a call at most once,
\* the caller is given the target's verdict on its own call or an error, and
\* ErrClosed is only given for a call the target never saw.
THEOREM CallKeepsContract == Spec => ImplementsContract
<1>1. Spec => []Inv
  BY InitInv, NextInv, PTL DEF Spec
<1>2. Inv /\ Inv' /\ [Next]_vars => [Contract!Next]_Contract!vars
  BY StepContract
<1> QED
  BY <1>1, <1>2, InitContract, PTL DEF Spec, ImplementsContract, Contract!Spec
=============================================================================
