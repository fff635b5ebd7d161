----------------------------- MODULE RpcClient -----------------------------
(***************************************************************************)
(* The JSON-RPC client of internal/truenas/client.go: any number of        *)
(* goroutines invoke Call on one websocket connection, one read loop hands *)
(* each response to the caller whose request identifier it carries, and    *)
(* the connection may be lost or closed at any moment.                     *)
(*                                                                         *)
(* A member of Calls is one invocation of Call with a context of its own.  *)
(* The methods, parameters and results are abstracted to the identity of   *)
(* the call they belong to: a response body names the call the target was  *)
(* answering, which the code never sees and the properties are about.      *)
(***************************************************************************)
EXTENDS Naturals, Sequences

CONSTANTS Calls,   \* the invocations of Call
          NoCall   \* the content of a body that answers no call

ASSUME NoCallAssumption == NoCall \notin Calls

VARIABLES
  nextID,    \* Client.nextID
  pending,   \* Client.pending, from identifier to the call whose channel it is
  closed,    \* Client.closed
  readErr,   \* Client.readErr # nil, the read loop has returned
  pc,        \* where each invocation of Call is
  id,        \* its local id, 0 before it has one
  ch,        \* its response channel, of capacity one
  outcome,   \* what it returned
  link,      \* the websocket: up, lost by the peer or network, closed locally
  outbox,    \* requests written and not yet taken in by the target
  inbox,     \* frames sent by the target and not yet read
  serving,   \* requests the target has applied and not yet answered
  verdict    \* what the target made of each call

clientVars == <<nextID, pending, closed, readErr>>
callVars == <<pc, id, ch, outcome>>
targetVars == <<serving, verdict>>
vars == <<clientVars, callVars, link, outbox, inbox, targetVars>>

-----------------------------------------------------------------------------
Verdict == {"result", "error"}
Request == [id : Nat, call : Calls]
Body(how, c) == [how |-> how, re |-> c]

\* Frames no waiter is registered for: a notification under a method the
\* client cannot route, or a message without an identifier; and a frame that
\* does not decode as JSON-RPC. (What a notification that can be routed does
\* is in Subscriptions.)
Unasked == [id : {0}, body : [how : {"ignored", "event", "garbled"}, re : Calls \cup {NoCall}]]
Ignored == [id |-> 0, body |-> Body("ignored", NoCall)]
Garbled == [id |-> 0, body |-> Body("garbled", NoCall)]
Answer == [how : Verdict, re : Calls]
Response == [id : Nat, body : Answer]

Empty == Body("empty", NoCall)
ClosedChannel == Body("shut", NoCall)
NoOutcome == Body("none", NoCall)
ErrInterrupted == Body("interrupted", NoCall)
ErrContext == Body("cancelled", NoCall)
ErrClosed == Body("closed", NoCall)

Without(f, k) == [x \in DOMAIN f \ {k} |-> f[x]]

TypeOK ==
  /\ nextID \in Nat
  /\ DOMAIN pending \subseteq 1..nextID
  /\ \A i \in DOMAIN pending : pending[i] \in Calls
  /\ closed \in BOOLEAN /\ readErr \in BOOLEAN
  /\ pc \in [Calls -> {"idle", "write", "wait", "done"}]
  /\ id \in [Calls -> Nat]
  /\ ch \in [Calls -> Answer \cup {Empty, ClosedChannel}]
  /\ outcome \in [Calls -> Answer \cup {NoOutcome, ErrInterrupted, ErrContext, ErrClosed}]
  /\ link \in {"up", "lost", "closed"}
  /\ outbox \in Seq(Request)
  /\ inbox \in Seq(Response \cup Unasked)
  /\ serving \subseteq Request
  /\ verdict \in [Calls -> Verdict \cup {"none"}]

Init ==
  /\ nextID = 0
  /\ pending = [i \in {} |-> NoCall]
  /\ closed = FALSE /\ readErr = FALSE
  /\ pc = [c \in Calls |-> "idle"]
  /\ id = [c \in Calls |-> 0]
  /\ ch = [c \in Calls |-> Empty]
  /\ outcome = [c \in Calls |-> NoOutcome]
  /\ link = "up"
  /\ outbox = <<>> /\ inbox = <<>>
  /\ serving = {}
  /\ verdict = [c \in Calls |-> "none"]

-----------------------------------------------------------------------------
(* Call.                                                                   *)

Return(c, result) ==
  /\ pc' = [pc EXCEPT ![c] = "done"]
  /\ outcome' = [outcome EXCEPT ![c] = result]

\* Mutant: the identifier is read before it is incremented.
RegisterPostIncrement(c) ==
  /\ pc[c] = "idle"
  /\ ~closed
  /\ nextID' = nextID + 1
  /\ id' = [id EXCEPT ![c] = nextID]
  /\ pending' = [i \in DOMAIN pending \cup {nextID} |-> IF i = nextID THEN c ELSE pending[i]]
  /\ pc' = [pc EXCEPT ![c] = "write"]
  /\ UNCHANGED <<closed, readErr, ch, outcome, link, outbox, inbox, targetVars>>

\* Mutant: the check of closed is dropped.
RegisterClosed(c) ==
  /\ pc[c] = "idle"
  /\ nextID' = nextID + 1
  /\ id' = [id EXCEPT ![c] = nextID + 1]
  /\ pending' = [i \in DOMAIN pending \cup {nextID + 1} |->
                   IF i = nextID + 1 THEN c ELSE pending[i]]
  /\ pc' = [pc EXCEPT ![c] = "write"]
  /\ UNCHANGED <<closed, readErr, ch, outcome, link, outbox, inbox, targetVars>>

\* The section under mu that allots the identifier and registers the channel.
\* It looks at closed and not at readErr.
Register(c) ==
  /\ pc[c] = "idle"
  /\ ~closed
  /\ nextID' = nextID + 1
  /\ id' = [id EXCEPT ![c] = nextID + 1]
  /\ pending' = [i \in DOMAIN pending \cup {nextID + 1} |->
                   IF i = nextID + 1 THEN c ELSE pending[i]]
  /\ pc' = [pc EXCEPT ![c] = "write"]
  /\ UNCHANGED <<closed, readErr, ch, outcome, link, outbox, inbox, targetVars>>

RefuseClosed(c) ==
  /\ pc[c] = "idle"
  /\ closed
  /\ Return(c, ErrClosed)
  /\ UNCHANGED <<clientVars, id, ch, link, outbox, inbox, targetVars>>

\* WriteJSON under writeMu. On a connection the peer has dropped the kernel
\* may still take the bytes; on one closed locally it never does.
Write(c) ==
  /\ pc[c] = "write"
  /\ link # "closed"
  /\ outbox' = Append(outbox, [id |-> id[c], call |-> c])
  /\ pc' = [pc EXCEPT ![c] = "wait"]
  /\ UNCHANGED <<clientVars, id, ch, outcome, link, inbox, targetVars>>

\* Mutant: a call that gives up leaves its channel registered.
forgetLeaks(c) == pending' = pending

forget(c) == pending' = Without(pending, id[c])

WriteFails(c) ==
  /\ pc[c] = "write"
  /\ link # "up"
  /\ forget(c)
  /\ Return(c, ErrInterrupted)
  /\ UNCHANGED <<nextID, closed, readErr, id, ch, link, outbox, inbox, targetVars>>

\* The select's first case. It may be taken although a response is waiting:
\* select chooses among ready cases at random.
ContextDone(c) ==
  /\ pc[c] = "wait"
  /\ forget(c)
  /\ Return(c, ErrContext)
  /\ UNCHANGED <<nextID, closed, readErr, id, ch, link, outbox, inbox, targetVars>>

\* The select's second case: a response, or the channel closed by failPending.
Receive(c) ==
  /\ pc[c] = "wait"
  /\ ch[c] # Empty
  /\ Return(c, IF ch[c] = ClosedChannel THEN ErrInterrupted ELSE ch[c])
  /\ ch' = [ch EXCEPT ![c] = IF @ = ClosedChannel THEN @ ELSE Empty]
  /\ UNCHANGED <<clientVars, id, link, outbox, inbox, targetVars>>

-----------------------------------------------------------------------------
(* The read loop.                                                          *)

\* Mutant: responses are handed out in the order the requests were made.
DeliverInOrder(f) ==
  LET first == {i \in DOMAIN pending : \A j \in DOMAIN pending : i <= j}
  IN /\ ch' = [c \in Calls |-> IF f.body.how \in Verdict /\ \E i \in first : pending[i] = c
                               THEN f.body ELSE ch[c]]
     /\ pending' = [i \in DOMAIN pending \ first |-> pending[i]]
     /\ UNCHANGED readErr

\* The response goes to whoever is registered under its identifier, if anyone.
\* (The send follows the unlock; the channel is the read loop's alone by then.)
Deliver(f) ==
  /\ ch' = [c \in Calls |-> IF f.id \in DOMAIN pending /\ pending[f.id] = c
                            THEN f.body ELSE ch[c]]
  /\ pending' = Without(pending, f.id)
  /\ UNCHANGED readErr

\* Mutant: the entries are deleted and the channels not closed.
failPendingSilently ==
  /\ readErr' = TRUE
  /\ pending' = [i \in {} |-> NoCall]
  /\ inbox' = <<>>
  /\ UNCHANGED ch

\* Nothing reads the connection after this: what is left in inbox is dropped.
failPending ==
  /\ readErr' = TRUE
  /\ ch' = [c \in Calls |-> IF \E i \in DOMAIN pending : pending[i] = c
                            THEN ClosedChannel ELSE ch[c]]
  /\ pending' = [i \in {} |-> NoCall]
  /\ inbox' = <<>>

ReadResponse ==
  /\ ~readErr
  /\ inbox # <<>>
  /\ Head(inbox).body.how # "garbled"
  /\ Deliver(Head(inbox))
  /\ inbox' = Tail(inbox)
  /\ UNCHANGED <<nextID, closed, pc, id, outcome, link, outbox, targetVars>>

\* A frame that does not decode ends the loop and leaves the connection as
\* it is.
ReadGarbled ==
  /\ ~readErr
  /\ inbox # <<>>
  /\ Head(inbox).body.how = "garbled"
  /\ failPending
  /\ UNCHANGED <<nextID, closed, pc, id, outcome, link, outbox, targetVars>>

\* The read fails; frames that had already arrived may be lost with it.
ReadFails ==
  /\ ~readErr
  /\ link # "up"
  /\ failPending
  /\ UNCHANGED <<nextID, closed, pc, id, outcome, link, outbox, targetVars>>

-----------------------------------------------------------------------------
(* Close: closed is set under mu, the connection is closed after it.       *)

Close ==
  /\ ~closed
  /\ closed' = TRUE
  /\ UNCHANGED <<nextID, pending, readErr, callVars, link, outbox, inbox, targetVars>>

CloseConn ==
  /\ closed
  /\ link # "closed"
  /\ link' = "closed"
  /\ UNCHANGED <<clientVars, callVars, outbox, inbox, targetVars>>

Alive == ~closed /\ ~readErr

-----------------------------------------------------------------------------
(* The target and the network, external. Requests are taken in the order   *)
(* written, answered in any order, each under the identifier it came with. *)
(* What was written before the link was lost may still be applied. Frames  *)
(* sent when the read loop has returned are never read and are left out.   *)

Readable == link = "up" /\ ~readErr

TargetApply ==
  /\ outbox # <<>>
  /\ \E v \in Verdict : verdict' = [verdict EXCEPT ![Head(outbox).call] = v]
  /\ serving' = serving \cup {Head(outbox)}
  /\ outbox' = Tail(outbox)
  /\ UNCHANGED <<clientVars, callVars, link, inbox>>

TargetReply ==
  /\ Readable
  /\ \E r \in serving :
       /\ inbox' = Append(inbox, [id |-> r.id, body |-> Body(verdict[r.call], r.call)])
       /\ serving' = serving \ {r}
  /\ UNCHANGED <<clientVars, callVars, link, outbox, verdict>>

\* The target is assumed to have at most one such frame on its way (a bound).
TargetStray ==
  /\ Readable
  /\ \A i \in DOMAIN inbox : inbox[i] \notin {Ignored, Garbled}
  /\ \E f \in {Ignored, Garbled} : inbox' = Append(inbox, f)
  /\ UNCHANGED <<clientVars, callVars, link, outbox, targetVars>>

LoseLink ==
  /\ link = "up"
  /\ link' = "lost"
  /\ UNCHANGED <<clientVars, callVars, outbox, inbox, targetVars>>

-----------------------------------------------------------------------------
CallStep(c) ==
  Register(c) \/ RefuseClosed(c) \/ Write(c) \/ WriteFails(c) \/ ContextDone(c) \/ Receive(c)

readLoop == ReadResponse \/ ReadGarbled \/ ReadFails

Target == TargetApply \/ TargetReply \/ TargetStray

Next == (\E c \in Calls : CallStep(c)) \/ readLoop \/ Close \/ CloseConn \/ Target \/ LoseLink

Spec == Init /\ [][Next]_vars

\* What the Go scheduler and the operating system do schedule: a goroutine
\* that can run runs, a read on a dead connection fails in the end (TCP
\* keep-alive is on by default), a write completes or fails. Nothing is
\* assumed of the target, nor that a context ever ends.
Fairness ==
  /\ WF_vars(readLoop)
  /\ WF_vars(CloseConn)
  /\ \A c \in Calls : WF_vars(Write(c) \/ WriteFails(c)) /\ WF_vars(Receive(c))

FairSpec == Spec /\ Fairness

-----------------------------------------------------------------------------
(* Properties.                                                             *)

\* readLoop's "ch <- resp" and failPending's "close(ch)": a registered
\* channel is empty and open and its caller has not returned, so the send
\* neither blocks the loop nor panics, the close happens once, and no entry
\* of pending outlives its call.
RegisteredIsWaiting ==
  \A i \in DOMAIN pending :
    LET c == pending[i] IN id[c] = i /\ ch[c] = Empty /\ pc[c] \in {"write", "wait"}

\* "Matching by ID rather than by arrival order is what makes concurrent
\* calls on one connection safe": a caller is handed the target's verdict on
\* its own request, whatever was cancelled, answered late or reordered.
OwnAnswer ==
  \A c \in Calls : outcome[c].how \in Verdict => outcome[c] = Body(verdict[c], c)

\* A caller inside Call has its response or the closed channel in front
\* of it, or is still registered where the read loop will find it: neither
\* readLoop nor failPending nor another caller's forget drops its channel.
NoLostWakeup ==
  \A c \in Calls :
    pc[c] \in {"write", "wait"} =>
      ch[c] # Empty \/ (id[c] \in DOMAIN pending /\ pending[id[c]] = c)

\* The parts that make the above inductive. Identifiers are allotted once.
UniqueIds ==
  /\ \A c \in Calls : id[c] <= nextID
  /\ \A c \in Calls : pc[c] = "idle" => id[c] = 0
  /\ \A c \in Calls : pc[c] \in {"write", "wait"} => id[c] # 0
  /\ \A c, d \in Calls : id[c] = id[d] /\ id[c] # 0 => c = d

\* A request on its way is its call's only one, written and not yet applied.
RequestsOnce ==
  /\ \A i \in DOMAIN outbox :
       LET r == outbox[i]
       IN /\ r.id = id[r.call] /\ r.id # 0
          /\ verdict[r.call] = "none"
          /\ pc[r.call] \in {"wait", "done"}
          /\ outcome[r.call] # ErrClosed
  /\ \A i, j \in DOMAIN outbox : outbox[i].call = outbox[j].call => i = j
  /\ \A c \in Calls : pc[c] \in {"idle", "write"} => verdict[c] = "none"

\* What the target has yet to answer or has answered bears the identifier of
\* the call it is about, and the verdict on it.
RepliesOwn ==
  /\ \A r \in serving : r.id = id[r.call] /\ r.id # 0 /\ verdict[r.call] \in Verdict
  /\ \A i \in DOMAIN inbox :
       inbox[i] \in Response =>
         /\ inbox[i].id = id[inbox[i].body.re] /\ inbox[i].id # 0
         /\ inbox[i].body.how = verdict[inbox[i].body.re]

ChannelsOwn ==
  /\ \A c \in Calls : ch[c].how \in Verdict => ch[c] = Body(verdict[c], c)
  /\ \A c \in Calls : pc[c] # "done" => outcome[c] = NoOutcome
  /\ \A c \in Calls : pc[c] = "idle" => ch[c] = Empty

Inv ==
  /\ TypeOK
  /\ UniqueIds
  /\ RegisteredIsWaiting
  /\ RequestsOnce
  /\ RepliesOwn
  /\ ChannelsOwn
  /\ OwnAnswer
  /\ NoLostWakeup

\* How far a call is for its caller, and the call whose verdict it was given.
callStatus == [c \in Calls |-> IF pc[c] = "idle" THEN "idle"
                              ELSE IF pc[c] = "done" THEN outcome[c].how ELSE "open"]
callAnswers == [c \in Calls |-> outcome[c].re]

Contract == INSTANCE CallContract WITH status <- callStatus, answers <- callAnswers

\* Call implements its contract: at most one application, the answer is the
\* target's verdict on this very call, ErrClosed means it was never applied.
ImplementsContract == Contract!Spec

\* "failPending releases every waiting caller when the connection dies", for
\* the callers that were registered while the read loop was still running;
\* also when it is Close that ends the connection.
RegisteredReleased ==
  \A c \in Calls :
    (pc[c] \in {"write", "wait"} /\ ~readErr /\ (link # "up" \/ closed)) ~> (pc[c] = "done")

\* The same promise for every caller, as the comment on failPending and the
\* connection specification word it.
EveryCallerReleased ==
  \A c \in Calls : (pc[c] = "wait" /\ link # "up") ~> (pc[c] = "done")
=============================================================================
