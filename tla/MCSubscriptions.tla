-------------------------- MODULE MCSubscriptions --------------------------
(* Subscriptions of one source, for TLC: a subscription and the one that   *)
(* replaces it, or one alone.                                              *)
EXTENDS Subscriptions, TLC

CONSTANTS s1, s2, u1, u2, logs

SubsOnOneSource == {s1, s2}
CallsOnOneSource == {s1, s2, u1, u2}
SourceOnOneSource == s1 :> logs @@ s2 :> logs
CleanupOnOneSource == s1 :> u1 @@ s2 :> u2

OneSub == {s1}
OneSubCalls == {s1, u1}
OneSubSource == s1 :> logs
OneSubCleanup == s1 :> u1

\* The two subscriptions are interchangeable, each with its own cleanup.
Swap == {s1 :> s1 @@ s2 :> s2 @@ u1 :> u1 @@ u2 :> u2,
         s1 :> s2 @@ s2 :> s1 @@ u1 :> u2 @@ u2 :> u1}
=============================================================================
