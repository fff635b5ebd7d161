---------------------------- MODULE CallContract ----------------------------
(***************************************************************************)
(* What Client.Call (internal/truenas/client.go) promises its callers,     *)
(* with no identifiers, channels, frames or read loop in sight: a call is  *)
(* opened, the target applies it at most once, and the caller is handed    *)
(* either the target's own verdict on that very call or an error that      *)
(* promises nothing about whether the call was applied.  Only a client     *)
(* that was already closed promises that nothing happened.                 *)
(***************************************************************************)
CONSTANTS Calls,   \* the invocations of Call
          NoCall   \* the answer of a call that carries no target's answer

VARIABLES status,   \* status[c]: how far call c is for its caller
          answers,  \* answers[c]: the call whose verdict c was handed
          verdict,  \* verdict[c]: what the target made of call c
          closed    \* whether the client was closed

vars == <<status, answers, verdict, closed>>

Verdict == {"result", "error"}

Init ==
  /\ status = [c \in Calls |-> "idle"]
  /\ answers = [c \in Calls |-> NoCall]
  /\ verdict = [c \in Calls |-> "none"]
  /\ closed = FALSE

Open(c) ==
  /\ status[c] = "idle"
  /\ ~closed
  /\ status' = [status EXCEPT ![c] = "open"]
  /\ UNCHANGED <<answers, verdict, closed>>

\* ErrClosed: the one error that says the target never saw the call.
Refuse(c) ==
  /\ status[c] = "idle"
  /\ closed
  /\ status' = [status EXCEPT ![c] = "closed"]
  /\ UNCHANGED <<answers, verdict, closed>>

\* The target may apply a call late, after its caller gave up on it.
Apply(c) ==
  /\ status[c] \notin {"idle", "closed"}
  /\ verdict[c] = "none"
  /\ \E v \in Verdict : verdict' = [verdict EXCEPT ![c] = v]
  /\ UNCHANGED <<status, answers, closed>>

Answer(c) ==
  /\ status[c] = "open"
  /\ verdict[c] \in Verdict
  /\ status' = [status EXCEPT ![c] = verdict[c]]
  /\ answers' = [answers EXCEPT ![c] = c]
  /\ UNCHANGED <<verdict, closed>>

GiveUp(c) ==
  /\ status[c] = "open"
  /\ \E s \in {"interrupted", "cancelled"} : status' = [status EXCEPT ![c] = s]
  /\ UNCHANGED <<answers, verdict, closed>>

Close ==
  /\ closed' = TRUE
  /\ UNCHANGED <<status, answers, verdict>>

Next ==
  \/ \E c \in Calls : Open(c) \/ Refuse(c) \/ Apply(c) \/ Answer(c) \/ GiveUp(c)
  \/ Close

Spec == Init /\ [][Next]_vars
=============================================================================
