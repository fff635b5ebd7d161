------------------------------- MODULE Config -------------------------------
(***************************************************************************)
(* internal/config/config.go: the environment a process is started with,   *)
(* and whether Load accepts it. A variable is what validation makes of it: *)
(* unset, usable or not; a Boolean one is what it says, if it says either. *)
(***************************************************************************)
Setting == {"unset", "ok", "bad"}
Switch == {"unset", "true", "false", "bad"}

Env == [stdio : BOOLEAN, healthcheck : BOOLEAN,       \* the flags
        target : Setting, listen : Setting, apiKey : BOOLEAN,
        cert : BOOLEAN, key : BOOLEAN, plaintext : Switch,
        issuer : Setting, masterKey : Setting,
        accessTTL : {"unset", "positive", "zero", "negative", "bad"},
        refreshTTL : {"unset", "positive", "zero", "negative", "bad"},
        writes : Switch]

\* What does not parse is false, and nobody is told.
boolVar(v) == v = "true"

flagConflictErr(e) == e.stdio /\ e.healthcheck

durationOK(d) == d \notin {"negative", "bad"}

TLSEnabled(e) == e.cert /\ e.key

OAuthEnabled(e) == ~e.stdio /\ e.issuer # "unset"

\* Mutant: the pair is not looked at.
validateHTTPUnpaired(e) ==
  /\ ~e.apiKey
  /\ TLSEnabled(e) \/ boolVar(e.plaintext)
  /\ OAuthEnabled(e) => e.issuer = "ok" /\ e.masterKey # "bad"
  /\ e.listen # "bad"

validateHTTP(e) ==
  /\ ~e.apiKey
  /\ e.cert <=> e.key
  /\ TLSEnabled(e) \/ boolVar(e.plaintext)
  /\ OAuthEnabled(e) => e.issuer = "ok" /\ e.masterKey # "bad"
  /\ e.listen # "bad"

\* In stdio mode nothing about the listener is looked at.
validate(e) ==
  /\ e.target = "ok"
  /\ IF e.stdio THEN e.apiKey ELSE validateHTTP(e)

Load(e) ==
  /\ durationOK(e.accessTTL) /\ e.accessTTL # "zero"
  /\ durationOK(e.refreshTTL)
  /\ validate(e)
=============================================================================
