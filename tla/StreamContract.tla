--------------------------- MODULE StreamContract ---------------------------
(***************************************************************************)
(* What Client.Subscribe (internal/truenas/client.go) promises whoever     *)
(* reads the events of a subscription, with no connection, registration or *)
(* cleanup in sight: a bounded buffer filled in order while the stream is  *)
(* open, and an end that comes once, with its reason known from the moment *)
(* the events channel is closed. What was buffered can still be read.      *)
(***************************************************************************)
EXTENDS Naturals, Sequences

CONSTANTS Subs,      \* the subscriptions
          Events,    \* what a stream may carry
          Capacity   \* the buffer of a subscription

VARIABLES state,   \* state[s]: not yet open, open, ended
          err,     \* err[s]: why s has ended, "open" before it has
          buffer   \* buffer[s]: the events not yet read

vars == <<state, err, buffer>>

Reasons == {"interrupted", "cancelled", "closed", "error", "overflow"}

Init ==
  /\ state = [s \in Subs |-> "idle"]
  /\ err = [s \in Subs |-> "open"]
  /\ buffer = [s \in Subs |-> <<>>]

Open(s) ==
  /\ state[s] = "idle"
  /\ state' = [state EXCEPT ![s] = "open"]
  /\ UNCHANGED <<err, buffer>>

\* Mutant: the buffer is not bounded.
PushUnbounded(s, e) ==
  /\ state[s] = "open"
  /\ buffer' = [buffer EXCEPT ![s] = Append(@, e)]
  /\ UNCHANGED <<state, err>>

Push(s, e) ==
  /\ state[s] = "open"
  /\ Len(buffer[s]) < Capacity
  /\ buffer' = [buffer EXCEPT ![s] = Append(@, e)]
  /\ UNCHANGED <<state, err>>

\* Only a full buffer is a reason to give a stream up.
End(s, why) ==
  /\ state[s] = "open"
  /\ why = "overflow" => Len(buffer[s]) = Capacity
  /\ state' = [state EXCEPT ![s] = "ended"]
  /\ err' = [err EXCEPT ![s] = why]
  /\ UNCHANGED buffer

Take(s) ==
  /\ buffer[s] # <<>>
  /\ buffer' = [buffer EXCEPT ![s] = Tail(@)]
  /\ UNCHANGED <<state, err>>

\* The connection is gone, for all of its streams at once.
Interrupt ==
  /\ err' = [s \in Subs |-> IF state[s] = "open" THEN "interrupted" ELSE err[s]]
  /\ state' = [s \in Subs |-> IF state[s] = "open" THEN "ended" ELSE state[s]]
  /\ UNCHANGED buffer

Next ==
  \/ \E s \in Subs :
       \/ Open(s) \/ Take(s)
       \/ \E e \in Events : Push(s, e)
       \/ \E why \in Reasons : End(s, why)
  \/ Interrupt

Spec == Init /\ [][Next]_vars
=============================================================================
