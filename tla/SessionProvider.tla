-------------------------- MODULE SessionProvider --------------------------
(***************************************************************************)
(* The sessions of internal/server/session.go and the handler cache of     *)
(* internal/server/mcp.go. Tool calls of many callers arrive concurrently; *)
(* each credential has one provider that opens its middleware connection   *)
(* on first use (a sync.Once) and replaces it under a mutex when it has    *)
(* died; the OAuth consent page opens and closes connections of its own;   *)
(* shutdown closes what is tracked.                                        *)
(*                                                                         *)
(* A connection is named by the caller that opened it and by whether it    *)
(* was the first one or a replacement: a caller opens at most one of each. *)
(***************************************************************************)
EXTENDS Naturals, FiniteSets

CONSTANTS Requests,  \* tool calls
          Probes,    \* credential checks of the consent page
          Creds,     \* API keys
          CredOf,    \* the credential each caller presents
          IDs,       \* what handlers and sessions are cached by
          Hash,      \* the first eight bytes of the SHA-256 of each credential
          None       \* no connection, no caller, no credential

Callers == Requests \cup Probes
Conns == Callers \X {"first", "replace"}

ASSUME CallersAssumption ==
  /\ Requests \cap Probes = {}
  /\ CredOf \in [Callers -> Creds]
  /\ Hash \in [Creds -> IDs]
  /\ None \notin Callers \cup Creds \cup Conns

VARIABLES
  pc,        \* where each caller is
  mode,      \* which connection of its own a caller opens
  got,       \* the session a tool call was given
  key,       \* key[i]: the apiKey of the cached provider i, if there is one
  once,      \* its sync.Once
  sessErr,   \* its sessErr # nil
  sess,      \* its sess
  lock,      \* its mu
  conn,      \* the state of each connection
  login,     \* the credential each connection was opened with
  tracked,   \* SessionManager.sessions
  shutdown,  \* CloseAll has run
  settled    \* from now on nothing fails on the target's side

provVars == <<key, once, sessErr, sess, lock>>
vars == <<pc, mode, got, provVars, conn, login, tracked, shutdown, settled>>

-----------------------------------------------------------------------------
\* Mutant: the hash is cut down to nothing.
credentialIDEmpty(apiKey) == CHOOSE i \in IDs : TRUE

\* The identifier of a credential. Two credentials may have the same one.
credentialID(apiKey) == Hash[apiKey]

Prov(r) == credentialID(CredOf[r])
Mine(r) == <<r, mode[r]>>
Alive(k) == conn[k] \in {"dialled", "authed"}
Open(k) == conn[k] \in {"dialled", "authed", "dead"}
Opening(r) == pc[r] \in {"dial", "login", "version"}

TypeOK ==
  /\ pc \in [Callers -> {"idle", "once", "dial", "login", "version", "check",
                         "got", "done", "failed"}]
  /\ mode \in [Callers -> {"first", "replace"}]
  /\ got \in [Callers -> Conns \cup {None}]
  /\ key \in [IDs -> Creds \cup {None}]
  /\ once \in [IDs -> {"new", "running", "done"}]
  /\ sessErr \in [IDs -> BOOLEAN]
  /\ sess \in [IDs -> Conns \cup {None}]
  /\ lock \in [IDs -> Callers \cup {None}]
  /\ conn \in [Conns -> {"none", "dialled", "authed", "dead", "closed"}]
  /\ login \in [Conns -> Creds \cup {None}]
  /\ \A k \in Conns : conn[k] # "none" => login[k] # None
  /\ tracked \in [IDs -> Conns \cup {None}]
  /\ shutdown \in BOOLEAN /\ settled \in BOOLEAN

Init ==
  /\ pc = [r \in Callers |-> "idle"]
  /\ mode = [r \in Callers |-> "first"]
  /\ got = [r \in Callers |-> None]
  /\ key = [i \in IDs |-> None]
  /\ once = [i \in IDs |-> "new"]
  /\ sessErr = [i \in IDs |-> FALSE]
  /\ sess = [i \in IDs |-> None]
  /\ lock = [i \in IDs |-> None]
  /\ conn = [k \in Conns |-> "none"]
  /\ login = [k \in Conns |-> None]
  /\ tracked = [i \in IDs |-> None]
  /\ shutdown = FALSE /\ settled = FALSE

-----------------------------------------------------------------------------
(* Arrival: ServeHTTP finds or builds the handler of the credential. A     *)
(* consent-page probe (Validate) goes straight to Open.                    *)

handlerFor(r) ==
  /\ r \in Requests
  /\ pc[r] = "idle"
  /\ key' = [key EXCEPT ![Prov(r)] = IF @ = None THEN CredOf[r] ELSE @]
  /\ pc' = [pc EXCEPT ![r] = "once"]
  /\ UNCHANGED <<mode, got, once, sessErr, sess, lock, conn, login, tracked, shutdown, settled>>

Validate(r) ==
  /\ r \in Probes
  /\ pc[r] = "idle"
  /\ pc' = [pc EXCEPT ![r] = "dial"]
  /\ UNCHANGED <<mode, got, provVars, conn, login, tracked, shutdown, settled>>

-----------------------------------------------------------------------------
(* The provider. once.Do runs its function in the first caller and makes   *)
(* the others wait for it.                                                 *)

OnceRuns(r) ==
  /\ pc[r] = "once"
  /\ once[Prov(r)] = "new"
  /\ once' = [once EXCEPT ![Prov(r)] = "running"]
  /\ pc' = [pc EXCEPT ![r] = "dial"]
  /\ UNCHANGED <<mode, got, key, sessErr, sess, lock, conn, login, tracked, shutdown, settled>>

OnceDone(r) ==
  /\ pc[r] = "once"
  /\ once[Prov(r)] = "done"
  /\ pc' = [pc EXCEPT ![r] = IF sessErr[Prov(r)] THEN "failed" ELSE "check"]
  /\ UNCHANGED <<mode, got, provVars, conn, login, tracked, shutdown, settled>>

\* Mutant: the check of Alive and the replacement are not under the mutex.
SessionReplacedUnlocked(r) ==
  /\ pc[r] = "check"
  /\ ~Alive(sess[Prov(r)])
  /\ mode' = [mode EXCEPT ![r] = "replace"]
  /\ pc' = [pc EXCEPT ![r] = "dial"]
  /\ UNCHANGED <<got, provVars, conn, login, tracked, shutdown, settled>>

\* Under mu: the session is alive and is returned, or it is replaced, mu
\* held all the while.
SessionReused(r) ==
  /\ pc[r] = "check"
  /\ lock[Prov(r)] = None
  /\ Alive(sess[Prov(r)])
  /\ got' = [got EXCEPT ![r] = sess[Prov(r)]]
  /\ pc' = [pc EXCEPT ![r] = "got"]
  /\ UNCHANGED <<mode, provVars, conn, login, tracked, shutdown, settled>>

SessionReplaced(r) ==
  /\ pc[r] = "check"
  /\ lock[Prov(r)] = None
  /\ ~Alive(sess[Prov(r)])
  /\ lock' = [lock EXCEPT ![Prov(r)] = r]
  /\ mode' = [mode EXCEPT ![r] = "replace"]
  /\ pc' = [pc EXCEPT ![r] = "dial"]
  /\ UNCHANGED <<got, key, once, sessErr, sess, conn, login, tracked, shutdown, settled>>

-----------------------------------------------------------------------------
(* SessionManager.Open: Dial, Login, CheckVersion.                         *)

ApiKey(r) == IF r \in Probes THEN CredOf[r] ELSE key[Prov(r)]

Dial(r) ==
  /\ pc[r] = "dial"
  /\ conn' = [conn EXCEPT ![Mine(r)] = "dialled"]
  /\ login' = [login EXCEPT ![Mine(r)] = ApiKey(r)]
  /\ pc' = [pc EXCEPT ![r] = "login"]
  /\ UNCHANGED <<mode, got, provVars, tracked, shutdown, settled>>

Login(r) ==
  /\ pc[r] = "login"
  /\ Alive(Mine(r))
  /\ conn' = [conn EXCEPT ![Mine(r)] = "authed"]
  /\ pc' = [pc EXCEPT ![r] = "version"]
  /\ UNCHANGED <<mode, got, provVars, login, tracked, shutdown, settled>>

Closing(k) == IF Open(k) THEN [conn EXCEPT ![k] = "closed"] ELSE conn

\* Mutant: a session that replaces another does not close it.
ReplaceLeaks(r) ==
  /\ sess' = [sess EXCEPT ![Prov(r)] = Mine(r)]
  /\ tracked' = [tracked EXCEPT ![Prov(r)] = Mine(r)]
  /\ lock' = [lock EXCEPT ![Prov(r)] = None]
  /\ got' = [got EXCEPT ![r] = Mine(r)]
  /\ pc' = [pc EXCEPT ![r] = "got"]
  /\ UNCHANGED <<once, conn>>

\* Open has succeeded, for the three that call it.
FirstOpened(r) ==
  /\ sess' = [sess EXCEPT ![Prov(r)] = Mine(r)]
  /\ tracked' = [tracked EXCEPT ![Prov(r)] = Mine(r)]
  /\ once' = [once EXCEPT ![Prov(r)] = "done"]
  /\ pc' = [pc EXCEPT ![r] = "check"]
  /\ UNCHANGED <<lock, got, conn>>

Replace(r) ==
  /\ conn' = Closing(sess[Prov(r)])
  /\ sess' = [sess EXCEPT ![Prov(r)] = Mine(r)]
  /\ tracked' = [tracked EXCEPT ![Prov(r)] = Mine(r)]
  /\ lock' = [lock EXCEPT ![Prov(r)] = None]
  /\ got' = [got EXCEPT ![r] = Mine(r)]
  /\ pc' = [pc EXCEPT ![r] = "got"]
  /\ UNCHANGED once

Validated(r) ==
  /\ conn' = Closing(Mine(r))
  /\ pc' = [pc EXCEPT ![r] = "done"]
  /\ UNCHANGED <<sess, tracked, once, lock, got>>

CheckVersion(r) ==
  /\ pc[r] = "version"
  /\ Alive(Mine(r))
  /\ \/ r \in Probes /\ Validated(r)
     \/ r \in Requests /\ mode[r] = "first" /\ FirstOpened(r)
     \/ r \in Requests /\ mode[r] = "replace" /\ Replace(r)
  /\ UNCHANGED <<mode, key, sessErr, login, shutdown, settled>>

\* Mutant: mu stays locked when the replacement could not be opened.
OpenErrorStaysLocked(r) ==
  /\ pc' = [pc EXCEPT ![r] = "failed"]
  /\ IF r \in Requests /\ mode[r] = "first"
     THEN /\ once' = [once EXCEPT ![Prov(r)] = "done"]
          /\ sessErr' = [sessErr EXCEPT ![Prov(r)] = TRUE]
     ELSE UNCHANGED <<once, sessErr>>
  /\ UNCHANGED lock

\* What the caller of Open does with its error: the once keeps it for good.
OpenError(r) ==
  /\ pc' = [pc EXCEPT ![r] = "failed"]
  /\ IF r \in Requests /\ mode[r] = "first"
     THEN /\ once' = [once EXCEPT ![Prov(r)] = "done"]
          /\ sessErr' = [sessErr EXCEPT ![Prov(r)] = TRUE]
     ELSE UNCHANGED <<once, sessErr>>
  /\ lock' = [lock EXCEPT ![Prov(r)] = IF @ = r THEN None ELSE @]

\* Any step fails, with the context or on the target: the connection, if
\* there is one, is closed.
OpenFails(r) ==
  /\ Opening(r)
  /\ ~settled \/ (pc[r] # "dial" /\ ~Alive(Mine(r)))
  /\ conn' = Closing(Mine(r))
  /\ OpenError(r)
  /\ UNCHANGED <<mode, got, key, sess, login, tracked, shutdown, settled>>

-----------------------------------------------------------------------------
ToolCallEnds(r) ==
  /\ pc[r] = "got"
  /\ pc' = [pc EXCEPT ![r] = "done"]
  /\ UNCHANGED <<mode, got, provVars, conn, login, tracked, shutdown, settled>>

\* run's deferred CloseAll; a handler that outlived Shutdown's ten seconds may
\* still be running.
CloseAll ==
  /\ ~shutdown
  /\ shutdown' = TRUE
  /\ conn' = [k \in Conns |-> IF Open(k) /\ \E i \in IDs : tracked[i] = k
                              THEN "closed" ELSE conn[k]]
  /\ tracked' = [i \in IDs |-> None]
  /\ UNCHANGED <<pc, mode, got, provVars, login, settled>>

\* External: a connection dies; the target and the network recover.
ConnDies ==
  /\ ~settled
  /\ \E k \in Conns : Alive(k) /\ conn' = [conn EXCEPT ![k] = "dead"]
  /\ UNCHANGED <<pc, mode, got, provVars, login, tracked, shutdown, settled>>

Settle ==
  /\ ~settled
  /\ settled' = TRUE
  /\ UNCHANGED <<pc, mode, got, provVars, conn, login, tracked, shutdown>>

-----------------------------------------------------------------------------
OpenStep(r) == Dial(r) \/ Login(r) \/ CheckVersion(r) \/ OpenFails(r)
Provide(r) == OnceRuns(r) \/ OnceDone(r) \/ SessionReused(r) \/ SessionReplaced(r)

Next ==
  \/ \E r \in Callers : handlerFor(r) \/ Validate(r) \/ Provide(r) \/ OpenStep(r) \/ ToolCallEnds(r)
  \/ CloseAll \/ ConnDies \/ Settle

Spec == Init /\ [][Next]_vars

\* A goroutine that can run runs, and Open comes to an end: the target
\* answers, the connection dies or the context does.
FairSpec == Spec /\ \A r \in Callers : WF_vars(Provide(r) \/ OpenStep(r))

-----------------------------------------------------------------------------
(* Properties.                                                             *)

\* "Connections are never shared between callers and never reused across
\* credentials", as far as the code sees to it: a tool call runs on a connection
\* opened with the credential it presented, whoever opened it and whoever
\* replaced it, or with one whose SHA-256 begins with the same eight bytes.
\* Credentials with one identifier do share a connection, and no others.
OwnCredential ==
  \A r \in Requests : got[r] # None => Hash[login[got[r]]] = Hash[CredOf[r]]

\* No connection is left behind: an open one is still being opened, or is the
\* one CloseAll will find; whichever step of Open failed, whoever replaced it.
NoLeakedConnection ==
  \A k \in Conns : Open(k) =>
    \/ Opening(k[1]) /\ Mine(k[1]) = k
    \/ \E i \in IDs : tracked[i] = k /\ sess[i] = k

\* "only when the existing one is genuinely gone, since the target
\* rate-limits authentication": the tool calls of a credential never hold two
\* live authenticated connections, whatever finds the old one dead at once.
OneLiveSession ==
  \A k, l \in Conns :
    /\ conn[k] = "authed" /\ conn[l] = "authed"
    /\ {k[1], l[1]} \subseteq Requests /\ login[k] = login[l]
    => k = l

\* Whoever waits on the once or the mutex of a provider waits for a tool call
\* of that provider that is inside Open, and so will be done with it: neither
\* is left held, whichever step of Open fails and whatever happens meanwhile.
HeldByOpen ==
  \A i \in IDs :
    /\ once[i] = "running" => \E r \in Requests : Prov(r) = i /\ Opening(r) /\ mode[r] = "first"
    /\ lock[i] # None => Prov(lock[i]) = i /\ Opening(lock[i]) /\ mode[lock[i]] = "replace"

\* "every call after that goes through the same lazy-open-then-reconnect
\* path": a tool call that arrives when the target is well and nothing is
\* being opened is not refused because an earlier one failed.
LaterCallsReopen ==
  \A r \in Requests :
    []((settled /\ pc[r] = "idle" /\ \A q \in Callers : ~Opening(q)) => [](pc[r] # "failed"))
=============================================================================
