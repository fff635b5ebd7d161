----------------------------- MODULE MCAppLogs -----------------------------
(* One collection over a short stream, for TLC.                            *)
EXTENDS AppLogs

MCEvents == [n : 1..MaxEvents, size : 0..MaxSize, decodes : BOOLEAN]
=============================================================================
