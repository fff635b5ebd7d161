----------------------- MODULE SessionProvider_proofs -----------------------
(***************************************************************************)
(* Proofs about SessionProvider for any callers and credentials: whose     *)
(* connection a tool call is given, how many there are, that none is left  *)
(* behind, and that neither the once nor the mutex of a provider is.       *)
(***************************************************************************)
EXTENDS SessionProvider, TLAPS

-----------------------------------------------------------------------------
(* The inductive invariant.                                                *)

\* A connection is opened by its own caller, step by step, and a caller that
\* has not got to its second connection has none.
Stage(r) ==
  /\ pc[r] \in {"idle", "once", "check"} => mode[r] = "first"
  /\ mode[r] = "first" => conn[<<r, "replace">>] = "none"
  /\ pc[r] \in {"idle", "once", "dial"} => conn[Mine(r)] = "none"
  /\ pc[r] = "login" => conn[Mine(r)] \in {"dialled", "dead"}
  /\ pc[r] = "version" => conn[Mine(r)] \in {"authed", "dead"}
  /\ r \in Probes => mode[r] = "first" /\ pc[r] \notin {"once", "check", "got"}

\* The provider of a tool call has a credential, and what the tool call was
\* given was opened by a tool call of the same provider.
Served(r) ==
  /\ pc[r] # "idle" => key[Prov(r)] # None
  /\ got[r] # None => conn[got[r]] # "none" /\ Prov(got[r][1]) = Prov(r)

\* A provider has a credential with the identifier it is cached under, and an
\* error only once its once has run.
Built(i) == (key[i] # None => Hash[key[i]] = i) /\ (sessErr[i] => once[i] = "done")

\* A connection is opened with a credential that its caller's identifier is
\* that of.
LoggedIn(k) == conn[k] # "none" => Hash[login[k]] = Prov(k[1])

\* The session of a provider is a connection that one of its tool calls
\* has finished opening, and the only one CloseAll knows of.
Session(i) ==
  /\ sess[i] # None =>
       /\ sess[i][1] \in Requests /\ Prov(sess[i][1]) = i
       /\ conn[sess[i]] # "none"
       /\ ~(Opening(sess[i][1]) /\ Mine(sess[i][1]) = sess[i])
  /\ sess[i] # None <=> once[i] = "done" /\ ~sessErr[i]
  /\ tracked[i] # None => tracked[i] = sess[i]

\* A tool call inside Open holds the once or the mutex of its provider.
Holding(r) ==
  /\ Opening(r) => IF mode[r] = "first" THEN once[Prov(r)] = "running" ELSE lock[Prov(r)] = r
  /\ pc[r] = "check" => sess[Prov(r)] # None

\* Only one tool call runs the function of a once.
Alone(r, q) ==
  Opening(r) /\ Opening(q) /\ mode[r] = "first" /\ mode[q] = "first" /\ Prov(r) = Prov(q) => r = q

\* A session is replaced under the mutex, and only when it is gone.
Replacing(i) == lock[i] # None => lock[i] \in Requests /\ sess[i] # None /\ ~Alive(sess[i])

\* The once is held by a tool call inside Open, and the mutex is.
Held(i) ==
  /\ once[i] = "running" => \E r \in Requests : Prov(r) = i /\ Opening(r) /\ mode[r] = "first"
  /\ lock[i] # None => Prov(lock[i]) = i /\ Opening(lock[i]) /\ mode[lock[i]] = "replace"

\* An open connection is being opened, or CloseAll will find it.
Owned(k) ==
  Open(k) => \/ Opening(k[1]) /\ Mine(k[1]) = k
             \/ \E i \in IDs : tracked[i] = k /\ sess[i] = k

Inv ==
  /\ TypeOK
  /\ \A r \in Callers : Stage(r)
  /\ \A r \in Requests : Served(r) /\ Holding(r)
  /\ \A r, q \in Requests : Alone(r, q)
  /\ \A k \in Conns : LoggedIn(k) /\ Owned(k)
  /\ \A i \in IDs : Built(i) /\ Session(i) /\ Replacing(i) /\ Held(i)

-----------------------------------------------------------------------------
\* Closing a connection leaves the others as they are.
LEMMA ClosingOne ==
  ASSUME TypeOK, NEW k \in Conns
  PROVE  /\ Closing(k) \in [Conns -> {"none", "dialled", "authed", "dead", "closed"}]
         /\ \A l \in Conns : Closing(k)[l] = IF l = k /\ Open(k) THEN "closed" ELSE conn[l]
BY DEF Closing, TypeOK, Open

\* What a caller is opening is nobody's session yet.
LEMMA NotYetSession ==
  ASSUME Inv, NEW r \in Callers, Opening(r)
  PROVE  /\ Mine(r) \in Conns /\ Mine(r)[1] = r
         /\ \A i \in IDs : sess[i] # Mine(r) /\ tracked[i] # Mine(r)
<1>1. Mine(r) \in Conns /\ Mine(r)[1] = r
  BY DEF Inv, TypeOK, Mine, Conns
<1> QED
  BY <1>1, CallersAssumption DEF Inv, Session

\* Nobody has called yet.
LEMMA InitInv == Init => Inv
<1> SUFFICES ASSUME Init PROVE Inv
  OBVIOUS
<1> USE CallersAssumption DEF Init, Opening, Open
<1>1. TypeOK
  <2>1. sessErr \in [IDs -> BOOLEAN] /\ shutdown \in BOOLEAN /\ settled \in BOOLEAN
    OBVIOUS
  <2>2. /\ pc \in [Callers -> {"idle", "once", "dial", "login", "version", "check", "got", "done", "failed"}]
        /\ mode \in [Callers -> {"first", "replace"}]
        /\ once \in [IDs -> {"new", "running", "done"}]
        /\ conn \in [Conns -> {"none", "dialled", "authed", "dead", "closed"}]
    OBVIOUS
  <2>3. /\ got \in [Callers -> Conns \cup {None}]
        /\ key \in [IDs -> Creds \cup {None}]
        /\ sess \in [IDs -> Conns \cup {None}] /\ tracked \in [IDs -> Conns \cup {None}]
        /\ lock \in [IDs -> Callers \cup {None}]
        /\ login \in [Conns -> Creds \cup {None}] /\ \A k \in Conns : conn[k] = "none"
    OBVIOUS
  <2> QED
    BY <2>1, <2>2, <2>3 DEF TypeOK
<1>2. \A r \in Callers : Stage(r)
  BY DEF Stage, Mine, Conns
<1>3. \A r \in Requests : Served(r) /\ Holding(r)
  BY DEF Served, Holding, Callers
<1>4. \A r, q \in Requests : Alone(r, q)
  BY DEF Alone, Callers
<1>5. \A k \in Conns : LoggedIn(k) /\ Owned(k)
  BY DEF LoggedIn, Owned
<1>6. \A i \in IDs : Built(i) /\ Session(i) /\ Replacing(i) /\ Held(i)
  BY DEF Built, Session, Replacing, Held
<1> QED
  BY <1>1, <1>2, <1>3, <1>4, <1>5, <1>6 DEF Inv

\* The handler of a credential is built once, with that credential.
LEMMA handlerForInv ==
  ASSUME Inv, NEW r \in Callers, handlerFor(r)
  PROVE  Inv'
<1>a. r \in Requests /\ pc[r] = "idle" /\ CredOf[r] \in Creds /\ CredOf[r] # None /\ \A q \in Callers : Prov(q) \in IDs
  BY CallersAssumption DEF handlerFor, Prov, credentialID
<1>b. \A q \in Callers : pc'[q] = IF q = r THEN "once" ELSE pc[q]
  BY DEF Inv, TypeOK, handlerFor
<1>c. \A i \in IDs : key'[i] = IF i = Prov(r) /\ key[i] = None THEN CredOf[r] ELSE key[i]
  BY <1>a DEF Inv, TypeOK, handlerFor
<1>d. UNCHANGED <<mode, got, once, sessErr, sess, lock, conn, login, tracked, shutdown, settled>>
  BY DEF handlerFor
<1> USE CallersAssumption DEF Mine, Opening, Open, Alive, Prov, credentialID
<1>1. TypeOK'
  BY <1>a, <1>d, CallersAssumption DEF Inv, TypeOK, handlerFor
<1>2. ASSUME NEW x \in Callers PROVE Stage(x)'
  BY <1>a, <1>b, <1>c, <1>d DEF Inv, Stage, TypeOK, Conns
<1>3. ASSUME NEW x \in Requests PROVE Served(x)'
  <2>1. Served(x) /\ x \in Callers /\ Prov(x) \in IDs
    BY <1>a DEF Inv, Callers
  <2>2. x = r \/ key[Prov(x)] # None => key'[Prov(x)] # None
    BY <1>a, <1>c, <2>1
  <2> QED
    BY <1>b, <1>d, <2>1, <2>2 DEF Served
<1>4. ASSUME NEW x \in IDs PROVE Built(x)'
  BY <1>a, <1>b, <1>c, <1>d DEF Inv, Built, TypeOK
<1>5. ASSUME NEW x \in Requests PROVE Holding(x)'
  BY <1>a, <1>b, <1>c, <1>d DEF Inv, Holding, TypeOK, Stage, Callers
<1>6. ASSUME NEW q \in Requests, NEW t \in Requests PROVE Alone(q, t)'
  BY <1>a, <1>b, <1>c, <1>d DEF Inv, Alone, TypeOK, Holding, Callers
<1>7. ASSUME NEW x \in Conns PROVE LoggedIn(x)'
  BY <1>a, <1>b, <1>c, <1>d DEF Inv, LoggedIn, TypeOK, Conns
<1>8. ASSUME NEW x \in Conns PROVE Owned(x)'
  BY <1>a, <1>b, <1>c, <1>d DEF Inv, Owned, TypeOK, Stage, Conns
<1>9. ASSUME NEW x \in IDs PROVE Session(x)'
  BY <1>a, <1>b, <1>c, <1>d DEF Inv, Session, TypeOK, Stage, Callers, Conns
<1>10. ASSUME NEW x \in IDs PROVE Replacing(x)'
  BY <1>a, <1>b, <1>c, <1>d DEF Inv, Replacing, TypeOK, Session, Conns
<1>11. ASSUME NEW x \in IDs PROVE Held(x)'
  BY <1>a, <1>b, <1>c, <1>d DEF Inv, Held, TypeOK, Stage, Callers
<1> QED
  BY <1>1, <1>2, <1>3, <1>4, <1>5, <1>6, <1>7, <1>8, <1>9, <1>10, <1>11 DEF Inv

\* A probe starts to open a connection of its own.
LEMMA ValidateInv ==
  ASSUME Inv, NEW r \in Callers, Validate(r)
  PROVE  Inv'
<1> USE CallersAssumption DEF Validate, Mine, Opening, Open, Alive, Prov, credentialID, provVars
<1>1. TypeOK'
  BY DEF Inv, TypeOK
<1>2. ASSUME NEW x \in Callers PROVE Stage(x)'
  BY DEF Inv, Stage, TypeOK, Conns
<1>3. ASSUME NEW x \in Requests PROVE Served(x)'
  BY DEF Inv, Served, TypeOK, Stage, Callers
<1>4. ASSUME NEW x \in IDs PROVE Built(x)'
  BY DEF Inv, Built, TypeOK
<1>5. ASSUME NEW x \in Requests PROVE Holding(x)'
  BY DEF Inv, Holding, TypeOK, Stage, Callers
<1>6. ASSUME NEW q \in Requests, NEW t \in Requests PROVE Alone(q, t)'
  BY DEF Inv, Alone, TypeOK, Holding, Callers
<1>7. ASSUME NEW x \in Conns PROVE LoggedIn(x)'
  BY DEF Inv, LoggedIn, TypeOK, Conns
<1>8. ASSUME NEW x \in Conns PROVE Owned(x)'
  BY DEF Inv, Owned, TypeOK, Stage, Conns
<1>9. ASSUME NEW x \in IDs PROVE Session(x)'
  BY DEF Inv, Session, TypeOK, Stage, Callers, Conns
<1>10. ASSUME NEW x \in IDs PROVE Replacing(x)'
  BY DEF Inv, Replacing, TypeOK, Session, Conns
<1>11. ASSUME NEW x \in IDs PROVE Held(x)'
  BY DEF Inv, Held, TypeOK, Stage, Callers
<1> QED
  BY <1>1, <1>2, <1>3, <1>4, <1>5, <1>6, <1>7, <1>8, <1>9, <1>10, <1>11 DEF Inv

\* The first tool call of a provider runs the function of the once, the only one to.
LEMMA OnceRunsInv ==
  ASSUME Inv, NEW r \in Callers, OnceRuns(r)
  PROVE  Inv'
<1>a. r \in Requests /\ pc[r] = "once" /\ mode[r] = "first" /\ once[Prov(r)] = "new" /\ Prov(r) \in IDs
  BY CallersAssumption DEF Inv, Stage, Callers, OnceRuns, Prov, credentialID
<1>b. \A q \in Callers : pc'[q] = IF q = r THEN "dial" ELSE pc[q]
  BY DEF Inv, TypeOK, OnceRuns
<1>c. \A i \in IDs : once'[i] = IF i = Prov(r) THEN "running" ELSE once[i]
  BY <1>a DEF Inv, TypeOK, OnceRuns
<1>d. UNCHANGED <<mode, got, key, sessErr, sess, lock, conn, login, tracked, shutdown, settled>>
  BY DEF OnceRuns
<1> USE CallersAssumption DEF Mine, Opening, Open, Alive, Prov, credentialID
<1>1. TypeOK'
  BY <1>a, <1>d DEF Inv, TypeOK, OnceRuns
<1>2. ASSUME NEW x \in Callers PROVE Stage(x)'
  BY <1>a, <1>b, <1>c, <1>d DEF Inv, Stage, TypeOK, Conns
<1>3. ASSUME NEW x \in Requests PROVE Served(x)'
  BY <1>a, <1>b, <1>c, <1>d DEF Inv, Served, TypeOK, Stage, Callers
<1>4. ASSUME NEW x \in IDs PROVE Built(x)'
  BY <1>a, <1>b, <1>c, <1>d DEF Inv, Built, TypeOK
<1>5. ASSUME NEW x \in Requests PROVE Holding(x)'
  BY <1>a, <1>b, <1>c, <1>d DEF Inv, Holding, TypeOK, Stage, Session, Callers
<1>6. ASSUME NEW q \in Requests, NEW t \in Requests PROVE Alone(q, t)'
  BY <1>a, <1>b, <1>c, <1>d DEF Inv, Alone, TypeOK, Holding, Stage, Callers
<1>7. ASSUME NEW x \in Conns PROVE LoggedIn(x)'
  BY <1>a, <1>b, <1>c, <1>d DEF Inv, LoggedIn, TypeOK, Conns
<1>8. ASSUME NEW x \in Conns PROVE Owned(x)'
  BY <1>a, <1>b, <1>c, <1>d DEF Inv, Owned, TypeOK, Stage, Conns
<1>9. ASSUME NEW x \in IDs PROVE Session(x)'
  <2>1. Session(x) /\ sess[x] \in Conns \cup {None} /\ conn[Mine(r)] = "none"
    BY <1>a DEF Inv, TypeOK, Stage
  <2>2. sess'[x] # None <=> once'[x] = "done" /\ ~sessErr'[x]
    BY <1>a, <1>c, <1>d, <2>1 DEF Session
  <2>3. CASE sess[x] = None
    BY <1>d, <2>1, <2>2, <2>3 DEF Session
  <2>4. CASE sess[x] # None
    <3>1. PICK a \in Callers, b \in {"first", "replace"} : sess[x] = <<a, b>>
      BY <2>1, <2>4 DEF Conns
    <3>2. CASE a = r
      BY <1>b, <1>d, <2>1, <2>2, <2>4, <3>1, <3>2 DEF Session
    <3>3. CASE a # r
      BY <1>b, <1>d, <2>1, <2>2, <2>4, <3>1, <3>3 DEF Session
    <3> QED
      BY <3>2, <3>3
  <2> QED
    BY <2>3, <2>4
<1>10. ASSUME NEW x \in IDs PROVE Replacing(x)'
  BY <1>a, <1>b, <1>c, <1>d DEF Inv, Replacing, TypeOK, Session, Conns
<1>11. ASSUME NEW x \in IDs PROVE Held(x)'
  <2>1. Held(x) /\ lock[x] \in Callers \cup {None}
    BY DEF Inv, TypeOK
  <2>2. (lock[x] # None => Prov(lock[x]) = x /\ Opening(lock[x]) /\ mode[lock[x]] = "replace")'
    BY <1>a, <1>b, <1>d, <2>1 DEF Held
  <2>3. CASE x = Prov(r)
    BY <1>a, <1>b, <1>d, <2>2, <2>3 DEF Held, Callers
  <2>4. CASE x # Prov(r)
    BY <1>a, <1>b, <1>c, <1>d, <2>1, <2>2, <2>4 DEF Held, Callers
  <2> QED
    BY <2>3, <2>4
<1> QED
  BY <1>1, <1>2, <1>3, <1>4, <1>5, <1>6, <1>7, <1>8, <1>9, <1>10, <1>11 DEF Inv

\* A tool call whose once has succeeded finds a session.
LEMMA OnceDoneInv ==
  ASSUME Inv, NEW r \in Callers, OnceDone(r)
  PROVE  Inv'
<1> USE CallersAssumption DEF OnceDone, Mine, Opening, Open, Alive, Prov, credentialID, provVars
<1>1. TypeOK'
  BY DEF Inv, TypeOK
<1>2. ASSUME NEW x \in Callers PROVE Stage(x)'
  BY DEF Inv, Stage, TypeOK, Conns
<1>3. ASSUME NEW x \in Requests PROVE Served(x)'
  BY DEF Inv, Served, TypeOK, Stage, Callers
<1>4. ASSUME NEW x \in IDs PROVE Built(x)'
  BY DEF Inv, Built, TypeOK
<1>5. ASSUME NEW x \in Requests PROVE Holding(x)'
  BY DEF Inv, Holding, TypeOK, Session, Callers
<1>6. ASSUME NEW q \in Requests, NEW t \in Requests PROVE Alone(q, t)'
  BY DEF Inv, Alone, TypeOK, Holding, Callers
<1>7. ASSUME NEW x \in Conns PROVE LoggedIn(x)'
  BY DEF Inv, LoggedIn, TypeOK, Conns
<1>8. ASSUME NEW x \in Conns PROVE Owned(x)'
  BY DEF Inv, Owned, TypeOK, Stage, Conns
<1>9. ASSUME NEW x \in IDs PROVE Session(x)'
  BY DEF Inv, Session, TypeOK, Stage, Callers, Conns
<1>10. ASSUME NEW x \in IDs PROVE Replacing(x)'
  BY DEF Inv, Replacing, TypeOK, Session, Conns
<1>11. ASSUME NEW x \in IDs PROVE Held(x)'
  BY DEF Inv, Held, TypeOK, Stage, Callers
<1> QED
  BY <1>1, <1>2, <1>3, <1>4, <1>5, <1>6, <1>7, <1>8, <1>9, <1>10, <1>11 DEF Inv

\* A session is given only to tool calls of its credential.
LEMMA SessionReusedInv ==
  ASSUME Inv, NEW r \in Callers, SessionReused(r)
  PROVE  Inv'
<1> USE CallersAssumption DEF SessionReused, Mine, Opening, Open, Alive, Prov, credentialID, provVars
<1>1. TypeOK'
  BY DEF Inv, TypeOK
<1>2. ASSUME NEW x \in Callers PROVE Stage(x)'
  BY DEF Inv, Stage, TypeOK, Conns
<1>3. ASSUME NEW x \in Requests PROVE Served(x)'
  <2>1. Served(x) /\ x \in Callers /\ pc[r] = "check" /\ r \in Requests
    BY DEF Inv, Stage, Callers
  <2>2. /\ Prov(r) \in IDs /\ sess[Prov(r)] # None
        /\ conn[sess[Prov(r)]] # "none" /\ Prov(sess[Prov(r)][1]) = Prov(r)
    <3>1. Prov(r) \in IDs
      OBVIOUS
    <3> QED
      BY <2>1, <3>1 DEF Inv, Session, Holding
  <2>3. pc'[x] # "idle" => pc[x] # "idle"
    BY <2>1 DEF Inv, TypeOK
  <2>4. got'[x] = IF x = r THEN sess[Prov(r)] ELSE got[x]
    BY <2>1 DEF Inv, TypeOK
  <2> QED
    BY <2>1, <2>2, <2>3, <2>4 DEF Served
<1>4. ASSUME NEW x \in IDs PROVE Built(x)'
  BY DEF Inv, Built, TypeOK
<1>5. ASSUME NEW x \in Requests PROVE Holding(x)'
  BY DEF Inv, Holding, TypeOK, Stage, Callers
<1>6. ASSUME NEW q \in Requests, NEW t \in Requests PROVE Alone(q, t)'
  BY DEF Inv, Alone, TypeOK, Holding, Callers
<1>7. ASSUME NEW x \in Conns PROVE LoggedIn(x)'
  BY DEF Inv, LoggedIn, TypeOK, Conns
<1>8. ASSUME NEW x \in Conns PROVE Owned(x)'
  BY DEF Inv, Owned, TypeOK, Stage, Conns
<1>9. ASSUME NEW x \in IDs PROVE Session(x)'
  BY DEF Inv, Session, TypeOK, Stage, Callers, Conns
<1>10. ASSUME NEW x \in IDs PROVE Replacing(x)'
  BY DEF Inv, Replacing, TypeOK, Session, Conns
<1>11. ASSUME NEW x \in IDs PROVE Held(x)'
  BY DEF Inv, Held, TypeOK, Stage, Callers
<1> QED
  BY <1>1, <1>2, <1>3, <1>4, <1>5, <1>6, <1>7, <1>8, <1>9, <1>10, <1>11 DEF Inv

\* Whoever finds the session dead takes the mutex.
LEMMA SessionReplacedInv ==
  ASSUME Inv, NEW r \in Callers, SessionReplaced(r)
  PROVE  Inv'
<1>a. r \in Requests /\ pc[r] = "check" /\ mode[r] = "first" /\ Mine(r) = <<r, "first">> /\ conn[<<r, "replace">>] = "none"
      /\ Prov(r) \in IDs /\ sess[Prov(r)] # None /\ ~Alive(sess[Prov(r)]) /\ lock[Prov(r)] = None
  <2>1. r \in Requests /\ pc[r] = "check"
    BY DEF Inv, Stage, Callers, SessionReplaced
  <2>2. Prov(r) \in IDs
    BY <2>1, CallersAssumption DEF Callers, Prov, credentialID
  <2>3. mode[r] = "first" /\ conn[<<r, "replace">>] = "none" /\ sess[Prov(r)] # None
    BY <2>1 DEF Inv, Stage, Holding
  <2> QED
    BY <2>1, <2>2, <2>3 DEF SessionReplaced, Mine
<1>b. \A q \in Callers : /\ pc'[q] = IF q = r THEN "dial" ELSE pc[q]
                         /\ mode'[q] = IF q = r THEN "replace" ELSE mode[q]
  BY DEF Inv, TypeOK, SessionReplaced
<1>c. \A i \in IDs : lock'[i] = IF i = Prov(r) THEN r ELSE lock[i]
  BY <1>a DEF Inv, TypeOK, SessionReplaced
<1>d. UNCHANGED <<got, key, once, sessErr, sess, conn, login, tracked, shutdown, settled>>
  BY DEF SessionReplaced
<1> USE CallersAssumption DEF Mine, Opening, Open, Alive, Prov, credentialID
<1>1. TypeOK'
  BY <1>a, <1>d DEF Inv, TypeOK, SessionReplaced
<1>2. ASSUME NEW x \in Callers PROVE Stage(x)'
  <2>1. CASE x = r
    BY <1>a, <1>b, <1>d, <2>1 DEF Stage
  <2>2. CASE x # r
    BY <1>b, <1>d, <2>2 DEF Inv, Stage
  <2> QED
    BY <2>1, <2>2
<1>3. ASSUME NEW x \in Requests PROVE Served(x)'
  BY <1>a, <1>b, <1>c, <1>d DEF Inv, Served, TypeOK, Stage, Callers
<1>4. ASSUME NEW x \in IDs PROVE Built(x)'
  BY <1>a, <1>b, <1>c, <1>d DEF Inv, Built, TypeOK
<1>5. ASSUME NEW x \in Requests PROVE Holding(x)'
  BY <1>a, <1>b, <1>c, <1>d DEF Inv, Holding, TypeOK, Stage, Callers
<1>6. ASSUME NEW q \in Requests, NEW t \in Requests PROVE Alone(q, t)'
  BY <1>a, <1>b, <1>c, <1>d DEF Inv, Alone, TypeOK, Holding, Callers
<1>7. ASSUME NEW x \in Conns PROVE LoggedIn(x)'
  BY <1>a, <1>b, <1>c, <1>d DEF Inv, LoggedIn, TypeOK, Conns
<1>8. ASSUME NEW x \in Conns PROVE Owned(x)'
  BY <1>a, <1>b, <1>c, <1>d DEF Inv, Owned, TypeOK, Stage, Conns
<1>9. ASSUME NEW x \in IDs PROVE Session(x)'
  <2>1. Session(x) /\ sess[x] \in Conns \cup {None}
    BY DEF Inv, TypeOK
  <2>2. CASE sess[x] = None
    BY <1>d, <2>1, <2>2 DEF Session
  <2>3. CASE sess[x] # None
    <3>1. PICK a \in Callers, b \in {"first", "replace"} : sess[x] = <<a, b>>
      BY <2>1, <2>3 DEF Conns
    <3>2. CASE a = r
      BY <1>a, <1>b, <1>d, <2>1, <2>3, <3>1, <3>2 DEF Session
    <3>3. CASE a # r
      BY <1>b, <1>d, <2>1, <2>3, <3>1, <3>3 DEF Session
    <3> QED
      BY <3>2, <3>3
  <2> QED
    BY <2>2, <2>3
<1>10. ASSUME NEW x \in IDs PROVE Replacing(x)'
  BY <1>a, <1>b, <1>c, <1>d DEF Inv, Replacing, TypeOK, Holding, Stage, Callers
<1>11. ASSUME NEW x \in IDs PROVE Held(x)'
  BY <1>a, <1>b, <1>c, <1>d DEF Inv, Held, TypeOK, Stage, Callers
<1> QED
  BY <1>1, <1>2, <1>3, <1>4, <1>5, <1>6, <1>7, <1>8, <1>9, <1>10, <1>11 DEF Inv

\* A connection is dialled with the credential of its caller.
LEMMA DialInv ==
  ASSUME Inv, NEW r \in Callers, Dial(r)
  PROVE  Inv'
<1>a. Mine(r) \in Conns /\ pc[r] = "dial" /\ conn[Mine(r)] = "none"
      /\ ApiKey(r) \in Creds /\ ApiKey(r) # None /\ Hash[ApiKey(r)] = Prov(r)
  <2>1. Mine(r) \in Conns /\ pc[r] = "dial" /\ conn[Mine(r)] = "none" /\ Prov(r) \in IDs
    <3>1. Prov(r) \in IDs
      BY CallersAssumption DEF Prov, credentialID
    <3>2. Mine(r) \in Conns
      BY DEF Inv, TypeOK, Mine, Conns
    <3>3. Stage(r) /\ pc[r] = "dial"
      BY DEF Inv, Dial
    <3> QED
      BY <3>1, <3>2, <3>3 DEF Stage
  <2>2. CASE r \in Probes
    <3>1. CredOf[r] \in Creds /\ CredOf[r] # None /\ ApiKey(r) = CredOf[r]
      BY <2>2, CallersAssumption DEF ApiKey
    <3> QED
      BY <2>1, <3>1 DEF Prov, credentialID
  <2>3. CASE r \notin Probes
    BY <2>1, <2>3, CallersAssumption DEF Inv, TypeOK, Served, Built, ApiKey, Callers
  <2> QED
    BY <2>1, <2>2, <2>3
<1>b. \A q \in Callers : pc'[q] = IF q = r THEN "login" ELSE pc[q]
  BY DEF Inv, TypeOK, Dial
<1>c. /\ conn' \in [Conns -> {"none", "dialled", "authed", "dead", "closed"}]
      /\ \A k \in Conns : conn'[k] = IF k = Mine(r) THEN "dialled" ELSE conn[k]
  BY <1>a DEF Inv, TypeOK, Dial
<1>d. \A k \in Conns : login'[k] = IF k = Mine(r) THEN ApiKey(r) ELSE login[k]
  BY <1>a DEF Inv, TypeOK, Dial
<1>e. UNCHANGED <<mode, got, key, once, sessErr, sess, lock, tracked, shutdown, settled>>
  BY DEF Dial, provVars
<1> USE CallersAssumption DEF Mine, Opening, Open, Alive, Prov, credentialID
<1>1. TypeOK'
  <2>1. pc' \in [Callers -> {"idle", "once", "dial", "login", "version", "check", "got", "done", "failed"}]
    BY DEF Inv, TypeOK, Dial
  <2>2. login' \in [Conns -> Creds \cup {None}] /\ \A k \in Conns : conn'[k] # "none" => login'[k] # None
    BY <1>a, <1>c, <1>d, CallersAssumption DEF Inv, TypeOK, Dial, Callers
  <2> QED
    BY <1>c, <1>e, <2>1, <2>2 DEF Inv, TypeOK
<1>2. ASSUME NEW x \in Callers PROVE Stage(x)'
  BY <1>a, <1>b, <1>c, <1>d, <1>e DEF Inv, Stage, TypeOK, Conns
<1>3. ASSUME NEW x \in Requests PROVE Served(x)'
  BY <1>a, <1>b, <1>c, <1>d, <1>e DEF Inv, Served, TypeOK, Stage, Callers
<1>4. ASSUME NEW x \in IDs PROVE Built(x)'
  BY <1>a, <1>b, <1>c, <1>d, <1>e DEF Inv, Built, TypeOK
<1>5. ASSUME NEW x \in Requests PROVE Holding(x)'
  BY <1>a, <1>b, <1>c, <1>d, <1>e DEF Inv, Holding, TypeOK, Stage, Callers
<1>6. ASSUME NEW q \in Requests, NEW t \in Requests PROVE Alone(q, t)'
  BY <1>a, <1>b, <1>c, <1>d, <1>e DEF Inv, Alone, TypeOK, Holding, Callers
<1>7. ASSUME NEW x \in Conns PROVE LoggedIn(x)'
  BY <1>a, <1>b, <1>c, <1>d, <1>e DEF Inv, LoggedIn, TypeOK, Conns
<1>8. ASSUME NEW x \in Conns PROVE Owned(x)'
  BY <1>a, <1>b, <1>c, <1>d, <1>e DEF Inv, Owned, TypeOK, Stage, Conns
<1>9. ASSUME NEW x \in IDs PROVE Session(x)'
  BY <1>a, <1>b, <1>c, <1>d, <1>e DEF Inv, Session, TypeOK, Stage, Callers, Conns
<1>10. ASSUME NEW x \in IDs PROVE Replacing(x)'
  <2>1. Replacing(x) /\ Session(x) /\ sess[x] \in Conns \cup {None}
    BY DEF Inv, TypeOK
  <2>2. sess[x] # None => conn[sess[x]] # "none"
    BY <2>1 DEF Session
  <2> QED
    BY <1>a, <1>c, <1>e, <2>1, <2>2 DEF Replacing
<1>11. ASSUME NEW x \in IDs PROVE Held(x)'
  BY <1>a, <1>b, <1>c, <1>d, <1>e DEF Inv, Held, TypeOK, Stage, Callers
<1> QED
  BY <1>1, <1>2, <1>3, <1>4, <1>5, <1>6, <1>7, <1>8, <1>9, <1>10, <1>11 DEF Inv

\* Logging in is done on the connection just dialled.
LEMMA LoginInv ==
  ASSUME Inv, NEW r \in Callers, Login(r)
  PROVE  Inv'
<1>a. Mine(r) \in Conns /\ pc[r] = "login" /\ conn[Mine(r)] # "none" /\ \A i \in IDs : sess[i] # Mine(r)
  BY NotYetSession DEF Inv, Stage, Login, Opening
<1>b. \A q \in Callers : pc'[q] = IF q = r THEN "version" ELSE pc[q]
  BY DEF Inv, TypeOK, Login
<1>c. /\ conn' \in [Conns -> {"none", "dialled", "authed", "dead", "closed"}]
      /\ \A k \in Conns : conn'[k] = IF k = Mine(r) THEN "authed" ELSE conn[k]
  BY <1>a DEF Inv, TypeOK, Login
<1>d. UNCHANGED <<mode, got, key, once, sessErr, sess, lock, login, tracked, shutdown, settled>>
  BY DEF Login, provVars
<1> USE CallersAssumption DEF Mine, Opening, Open, Alive, Prov, credentialID
<1>1. TypeOK'
  BY <1>a, <1>c DEF Inv, TypeOK, Login, provVars
<1>2. ASSUME NEW x \in Callers PROVE Stage(x)'
  BY <1>a, <1>b, <1>c, <1>d DEF Inv, Stage, TypeOK, Conns
<1>3. ASSUME NEW x \in Requests PROVE Served(x)'
  BY <1>a, <1>b, <1>c, <1>d DEF Inv, Served, TypeOK, Stage, Callers
<1>4. ASSUME NEW x \in IDs PROVE Built(x)'
  BY <1>a, <1>b, <1>c, <1>d DEF Inv, Built, TypeOK
<1>5. ASSUME NEW x \in Requests PROVE Holding(x)'
  BY <1>a, <1>b, <1>c, <1>d DEF Inv, Holding, TypeOK, Stage, Callers
<1>6. ASSUME NEW q \in Requests, NEW t \in Requests PROVE Alone(q, t)'
  BY <1>a, <1>b, <1>c, <1>d DEF Inv, Alone, TypeOK, Holding, Callers
<1>7. ASSUME NEW x \in Conns PROVE LoggedIn(x)'
  BY <1>a, <1>b, <1>c, <1>d DEF Inv, LoggedIn, TypeOK, Conns
<1>8. ASSUME NEW x \in Conns PROVE Owned(x)'
  BY <1>a, <1>b, <1>c, <1>d DEF Inv, Owned, TypeOK, Stage, Conns
<1>9. ASSUME NEW x \in IDs PROVE Session(x)'
  BY <1>a, <1>b, <1>c, <1>d DEF Inv, Session, TypeOK, Stage, Callers, Conns
<1>10. ASSUME NEW x \in IDs PROVE Replacing(x)'
  BY <1>a, <1>b, <1>c, <1>d DEF Inv, Replacing, TypeOK, Session, Conns
<1>11. ASSUME NEW x \in IDs PROVE Held(x)'
  BY <1>a, <1>b, <1>c, <1>d DEF Inv, Held, TypeOK, Stage, Callers
<1> QED
  BY <1>1, <1>2, <1>3, <1>4, <1>5, <1>6, <1>7, <1>8, <1>9, <1>10, <1>11 DEF Inv

\* A probe closes its own connection.
LEMMA ValidatedInv ==
  ASSUME Inv, NEW r \in Probes, CheckVersion(r)
  PROVE  Inv'
<1>a. /\ Mine(r) \in Conns /\ pc[r] = "version" /\ conn[Mine(r)] # "none"
      /\ \A i \in IDs : sess[i] # Mine(r) /\ tracked[i] # Mine(r)
  BY NotYetSession DEF Inv, Stage, CheckVersion, Opening, Callers
<1>b. Validated(r) /\ UNCHANGED <<mode, key, sessErr, login, shutdown, settled>>
  BY CallersAssumption DEF CheckVersion
<1>c. \A q \in Callers : pc'[q] = IF q = r THEN "done" ELSE pc[q]
  BY <1>b DEF Inv, TypeOK, Validated
<1>d. /\ conn' \in [Conns -> {"none", "dialled", "authed", "dead", "closed"}]
      /\ \A k \in Conns : conn'[k] = IF k = Mine(r) /\ Open(k) THEN "closed" ELSE conn[k]
  BY <1>a, <1>b, ClosingOne DEF Inv, Validated
<1>e. UNCHANGED <<mode, got, key, once, sessErr, sess, lock, login, tracked, shutdown, settled>>
  BY <1>b DEF Validated
<1> USE CallersAssumption DEF Mine, Opening, Open, Alive, Prov, credentialID
<1>1. TypeOK'
  <2>1. r \in Callers /\ pc' = [pc EXCEPT ![r] = "done"]
    BY <1>b DEF Validated, Callers
  <2> QED
    BY <1>d, <1>e, <2>1 DEF Inv, TypeOK
<1>2. ASSUME NEW x \in Callers PROVE Stage(x)'
  BY <1>a, <1>b, <1>c, <1>d, <1>e DEF Inv, Stage, TypeOK, Conns
<1>3. ASSUME NEW x \in Requests PROVE Served(x)'
  BY <1>a, <1>b, <1>c, <1>d, <1>e DEF Inv, Served, TypeOK, Stage, Callers
<1>4. ASSUME NEW x \in IDs PROVE Built(x)'
  BY <1>a, <1>b, <1>c, <1>d, <1>e DEF Inv, Built, TypeOK
<1>5. ASSUME NEW x \in Requests PROVE Holding(x)'
  BY <1>a, <1>b, <1>c, <1>d, <1>e DEF Inv, Holding, TypeOK, Stage, Callers
<1>6. ASSUME NEW q \in Requests, NEW t \in Requests PROVE Alone(q, t)'
  BY <1>a, <1>b, <1>c, <1>d, <1>e DEF Inv, Alone, TypeOK, Holding, Callers
<1>7. ASSUME NEW x \in Conns PROVE LoggedIn(x)'
  BY <1>a, <1>b, <1>c, <1>d, <1>e DEF Inv, LoggedIn, TypeOK, Conns
<1>8. ASSUME NEW x \in Conns PROVE Owned(x)'
  BY <1>a, <1>b, <1>c, <1>d, <1>e DEF Inv, Owned, TypeOK, Stage, Conns
<1>9. ASSUME NEW x \in IDs PROVE Session(x)'
  BY <1>a, <1>b, <1>c, <1>d, <1>e DEF Inv, Session, TypeOK, Stage, Callers, Conns
<1>10. ASSUME NEW x \in IDs PROVE Replacing(x)'
  BY <1>a, <1>b, <1>c, <1>d, <1>e DEF Inv, Replacing, TypeOK, Session, Conns
<1>11. ASSUME NEW x \in IDs PROVE Held(x)'
  BY <1>a, <1>b, <1>c, <1>d, <1>e DEF Inv, Held, TypeOK, Stage, Callers
<1> QED
  BY <1>1, <1>2, <1>3, <1>4, <1>5, <1>6, <1>7, <1>8, <1>9, <1>10, <1>11 DEF Inv

\* The first session of a provider replaces none.
LEMMA FirstOpenedInv ==
  ASSUME Inv, NEW r \in Requests, CheckVersion(r), mode[r] = "first"
  PROVE  Inv'
<1>a. /\ Mine(r) \in Conns /\ Mine(r)[1] = r /\ pc[r] = "version" /\ conn[Mine(r)] # "none"
      /\ once[Prov(r)] = "running" /\ sess[Prov(r)] = None /\ Prov(r) \in IDs
  <2>1. r \in Callers /\ pc[r] = "version" /\ Opening(r) /\ Prov(r) \in IDs
    BY CallersAssumption DEF CheckVersion, Opening, Callers, Prov, credentialID
  <2>2. Mine(r) \in Conns /\ Mine(r)[1] = r /\ conn[Mine(r)] # "none" /\ once[Prov(r)] = "running"
    BY <2>1, NotYetSession DEF Inv, Stage, Holding
  <2> QED
    BY <2>1, <2>2 DEF Inv, Session
<1>b. FirstOpened(r) /\ UNCHANGED <<mode, key, sessErr, login, shutdown, settled>>
  BY CallersAssumption DEF CheckVersion
<1>c. \A q \in Callers : pc'[q] = IF q = r THEN "check" ELSE pc[q]
  BY <1>b DEF Inv, TypeOK, FirstOpened
<1>d. \A i \in IDs : /\ sess'[i] = IF i = Prov(r) THEN Mine(r) ELSE sess[i]
                     /\ tracked'[i] = IF i = Prov(r) THEN Mine(r) ELSE tracked[i]
                     /\ once'[i] = IF i = Prov(r) THEN "done" ELSE once[i]
  BY <1>a, <1>b DEF Inv, TypeOK, FirstOpened
<1>e. UNCHANGED <<mode, got, key, conn, sessErr, lock, login, shutdown, settled>>
  BY <1>b DEF FirstOpened
<1> USE CallersAssumption DEF Mine, Opening, Open, Alive, Prov, credentialID
<1>1. TypeOK'
  BY <1>a, <1>b, <1>e DEF Inv, TypeOK, FirstOpened, Callers
<1>2. ASSUME NEW x \in Callers PROVE Stage(x)'
  BY <1>a, <1>b, <1>c, <1>d, <1>e DEF Inv, Stage, TypeOK, Conns
<1>3. ASSUME NEW x \in Requests PROVE Served(x)'
  BY <1>a, <1>b, <1>c, <1>d, <1>e DEF Inv, Served, TypeOK, Stage, Callers
<1>4. ASSUME NEW x \in IDs PROVE Built(x)'
  BY <1>a, <1>b, <1>c, <1>d, <1>e DEF Inv, Built, TypeOK
<1>5. ASSUME NEW x \in Requests PROVE Holding(x)'
  <2>1. Holding(x) /\ Alone(x, r) /\ Prov(x) \in IDs /\ x \in Callers
    BY DEF Inv, Callers
  <2>2. CASE x = r
    BY <1>a, <1>c, <1>d, <1>e, <2>1, <2>2 DEF Holding
  <2>3. CASE x # r
    <3>1. CASE Opening(x)
      <4>1. Opening(x)' /\ pc'[x] = pc[x] /\ mode'[x] = mode[x] /\ lock' = lock /\ mode[r] = "first"
        BY <1>c, <1>e, <2>1, <2>3, <3>1
      <4>2. mode[x] = "first" => Prov(x) # Prov(r)
        BY <1>a, <2>1, <2>3, <3>1 DEF Alone
      <4> QED
        BY <1>d, <2>1, <3>1, <4>1, <4>2 DEF Holding
    <3>2. CASE ~Opening(x)
      BY <1>a, <1>c, <1>d, <2>1, <2>3, <3>2 DEF Holding
    <3> QED
      BY <3>1, <3>2
  <2> QED
    BY <2>2, <2>3
<1>6. ASSUME NEW q \in Requests, NEW t \in Requests PROVE Alone(q, t)'
  BY <1>a, <1>b, <1>c, <1>d, <1>e DEF Inv, Alone, TypeOK, Holding, Callers
<1>7. ASSUME NEW x \in Conns PROVE LoggedIn(x)'
  BY <1>a, <1>b, <1>c, <1>d, <1>e DEF Inv, LoggedIn, TypeOK, Conns
<1>8. ASSUME NEW x \in Conns PROVE Owned(x)'
  <2>1. Owned(x) /\ x[1] \in Callers /\ tracked[Prov(r)] = None
    BY <1>a DEF Inv, Conns, Session
  <2>2. CASE x = Mine(r)
    BY <1>a, <1>d, <2>2 DEF Owned
  <2>3. CASE x # Mine(r)
    <3>1. CASE x[1] = r /\ Opening(x[1]) /\ Mine(x[1]) = x
      BY <2>3, <3>1
    <3>2. CASE x[1] # r /\ Opening(x[1]) /\ Mine(x[1]) = x
      BY <1>c, <1>e, <2>1, <3>2 DEF Owned
    <3>3. CASE \E i \in IDs : tracked[i] = x /\ sess[i] = x
      BY <1>a, <1>d, <2>1, <3>3 DEF Owned
    <3>4. CASE ~Open(x)
      BY <1>e, <3>4 DEF Owned
    <3> QED
      BY <2>1, <3>1, <3>2, <3>3, <3>4 DEF Owned
  <2> QED
    BY <2>2, <2>3
<1>9. ASSUME NEW x \in IDs PROVE Session(x)'
  <2>1. Session(x) /\ Built(x) /\ sess[x] \in Conns \cup {None}
    BY DEF Inv, TypeOK
  <2>2. CASE x = Prov(r)
    BY <1>a, <1>c, <1>d, <1>e, <2>1, <2>2 DEF Session, Built, Callers
  <2>3. CASE x # Prov(r) /\ sess[x] = None
    BY <1>d, <1>e, <2>1, <2>3 DEF Session
  <2>4. CASE x # Prov(r) /\ sess[x] # None
    <3>1. PICK a \in Callers, b \in {"first", "replace"} : sess[x] = <<a, b>>
      BY <2>1, <2>4 DEF Conns
    <3> QED
      BY <1>c, <1>d, <1>e, <2>1, <2>4, <3>1 DEF Session
  <2> QED
    BY <2>2, <2>3, <2>4
<1>10. ASSUME NEW x \in IDs PROVE Replacing(x)'
  BY <1>a, <1>b, <1>c, <1>d, <1>e DEF Inv, Replacing, TypeOK, Session, Conns
<1>11. ASSUME NEW x \in IDs PROVE Held(x)'
  <2>1. Held(x) /\ \A q \in Requests : q \in Callers /\ mode'[q] = mode[q]
    BY <1>e DEF Inv, Callers
  <2>2. once'[x] = "running" => \E q \in Requests : Prov(q) = x /\ Opening(q)' /\ mode'[q] = "first"
    BY <1>a, <1>c, <1>d, <1>e, <2>1 DEF Held
  <2>3. lock'[x] # None => Prov(lock'[x]) = x /\ pc'[lock'[x]] \in {"dial", "login", "version"} /\ mode'[lock'[x]] = "replace"
    BY <1>a, <1>c, <1>e, <2>1 DEF Held, Inv, Replacing
  <2> QED
    BY <2>2, <2>3 DEF Held
<1> QED
  BY <1>1, <1>2, <1>3, <1>4, <1>5, <1>6, <1>7, <1>8, <1>9, <1>10, <1>11 DEF Inv

\* A replacement closes the dead session it replaces, and no other.
LEMMA ReplaceInv ==
  ASSUME Inv, NEW r \in Requests, CheckVersion(r), mode[r] = "replace"
  PROVE  Inv'
<1>a. /\ Mine(r) \in Conns /\ Mine(r)[1] = r /\ pc[r] = "version" /\ conn[Mine(r)] # "none"
      /\ Prov(r) \in IDs /\ lock[Prov(r)] = r
      /\ sess[Prov(r)] \in Conns /\ sess[Prov(r)] # None /\ sess[Prov(r)] # Mine(r)
      /\ r \in Callers /\ ~Alive(sess[Prov(r)])
  <2>1. r \in Callers /\ r # None /\ pc[r] = "version" /\ Prov(r) \in IDs
    BY CallersAssumption DEF CheckVersion, Callers, Prov, credentialID
  <2>2. /\ Mine(r) \in Conns /\ Mine(r)[1] = r /\ conn[Mine(r)] # "none"
        /\ \A i \in IDs : sess[i] # Mine(r)
    BY <2>1, NotYetSession DEF Inv, Stage, Opening
  <2>3. lock[Prov(r)] = r /\ Replacing(Prov(r)) /\ sess[Prov(r)] \in Conns \cup {None}
    BY <2>1 DEF Inv, TypeOK, Holding, Opening
  <2> QED
    BY <2>1, <2>2, <2>3 DEF Replacing
<1>b. Replace(r) /\ UNCHANGED <<mode, key, sessErr, login, shutdown, settled>>
  BY CallersAssumption DEF CheckVersion
<1>c. \A q \in Callers : /\ pc'[q] = IF q = r THEN "got" ELSE pc[q]
                         /\ got'[q] = IF q = r THEN Mine(r) ELSE got[q]
  BY <1>b DEF Inv, TypeOK, Replace
<1>d. /\ conn' \in [Conns -> {"none", "dialled", "authed", "dead", "closed"}]
      /\ \A k \in Conns : conn'[k] = IF k = sess[Prov(r)] /\ Open(k) THEN "closed" ELSE conn[k]
  BY <1>a, <1>b, ClosingOne DEF Inv, Replace
<1>e. \A i \in IDs : /\ sess'[i] = IF i = Prov(r) THEN Mine(r) ELSE sess[i]
                     /\ tracked'[i] = IF i = Prov(r) THEN Mine(r) ELSE tracked[i]
                     /\ lock'[i] = IF i = Prov(r) THEN None ELSE lock[i]
  BY <1>a, <1>b DEF Inv, TypeOK, Replace
<1>f. UNCHANGED <<mode, key, once, sessErr, login, shutdown, settled>>
  BY <1>b DEF Replace
<1> USE CallersAssumption DEF Mine, Opening, Open, Alive, Prov, credentialID
<1>1. TypeOK'
  BY <1>a, <1>b, <1>d, <1>f DEF Inv, TypeOK, Replace, Callers
<1>2. ASSUME NEW x \in Callers PROVE Stage(x)'
  <2>1. Stage(x) /\ mode'[x] = mode[x] /\ <<x, "replace">> \in Conns /\ <<x, mode[x]>> \in Conns /\ Session(Prov(r))
    BY <1>a, <1>f DEF Inv, TypeOK, Conns
  <2>2. CASE x = r
    BY <1>a, <1>c, <1>d, <1>f, <2>1, <2>2 DEF Stage
  <2>3. CASE x # r
    <3>1. pc'[x] = pc[x]
      BY <1>c, <2>3
    <3>2. conn[Mine(x)] = "none" => conn'[Mine(x)] = "none"
      BY <1>d, <2>1
    <3>3. conn[<<x, "replace">>] = "none" => conn'[<<x, "replace">>] = "none"
      BY <1>d, <2>1
    <3>4. Opening(x) => conn'[Mine(x)] = conn[Mine(x)]
      BY <1>a, <1>d, <2>1, NotYetSession
    <3> QED
      BY <2>1, <3>1, <3>2, <3>3, <3>4 DEF Stage
  <2> QED
    BY <2>2, <2>3
<1>3. ASSUME NEW x \in Requests PROVE Served(x)'
  BY <1>a, <1>b, <1>c, <1>d, <1>e, <1>f DEF Inv, Served, TypeOK, Stage, Callers
<1>4. ASSUME NEW x \in IDs PROVE Built(x)'
  BY <1>a, <1>b, <1>c, <1>d, <1>e, <1>f DEF Inv, Built, TypeOK
<1>5. ASSUME NEW x \in Requests PROVE Holding(x)'
  BY <1>a, <1>b, <1>c, <1>d, <1>e, <1>f DEF Inv, Holding, TypeOK, Stage, Callers
<1>6. ASSUME NEW q \in Requests, NEW t \in Requests PROVE Alone(q, t)'
  BY <1>a, <1>b, <1>c, <1>d, <1>e, <1>f DEF Inv, Alone, TypeOK, Holding, Callers
<1>7. ASSUME NEW x \in Conns PROVE LoggedIn(x)'
  BY <1>a, <1>b, <1>c, <1>d, <1>e, <1>f DEF Inv, LoggedIn, TypeOK, Conns
<1>8. ASSUME NEW x \in Conns PROVE Owned(x)'
  <2>1. Owned(x) /\ x[1] \in Callers /\ Session(Prov(r))
    BY <1>a DEF Inv, Conns
  <2>2. CASE x = Mine(r)
    BY <1>a, <1>e, <2>2 DEF Owned
  <2>3. CASE x = sess[Prov(r)]
    BY <1>d, <2>3 DEF Owned
  <2>4. CASE x # Mine(r) /\ x # sess[Prov(r)]
    <3>1. CASE x[1] # r /\ Opening(x[1]) /\ Mine(x[1]) = x
      BY <1>c, <1>f, <2>1, <3>1 DEF Owned
    <3>2. CASE \E i \in IDs : tracked[i] = x /\ sess[i] = x
      BY <1>e, <2>4, <3>2 DEF Owned
    <3>3. CASE ~Open(x)
      BY <1>d, <3>3 DEF Owned
    <3> QED
      BY <2>1, <2>4, <3>1, <3>2, <3>3 DEF Owned
  <2> QED
    BY <2>2, <2>3, <2>4
<1>9. ASSUME NEW x \in IDs PROVE Session(x)'
  <2>1. Session(x) /\ Session(Prov(r)) /\ sess[x] \in Conns \cup {None} /\ (sess[x] # None => sess[x][1] \in Callers)
    BY <1>a DEF Inv, TypeOK, Conns
  <2>2. CASE x = Prov(r)
    <3>1. sess'[x] = Mine(r) /\ tracked'[x] = Mine(r) /\ Mine(r) # None
      BY <1>a, <1>e, <2>2
    <3>2. conn'[Mine(r)] # "none" /\ Prov(r) = x /\ pc'[r] = "got"
      BY <1>a, <1>c, <1>d, <2>2
    <3>3. once'[x] = "done" /\ ~sessErr'[x]
      BY <1>a, <1>f, <2>1, <2>2 DEF Session
    <3> QED
      BY <1>a, <3>1, <3>2, <3>3 DEF Session
  <2>3. CASE x # Prov(r)
    BY <1>a, <1>c, <1>d, <1>e, <1>f, <2>1, <2>3 DEF Session
  <2> QED
    BY <2>2, <2>3
<1>10. ASSUME NEW x \in IDs PROVE Replacing(x)'
  BY <1>a, <1>b, <1>c, <1>d, <1>e, <1>f DEF Inv, Replacing, TypeOK, Session, Conns
<1>11. ASSUME NEW x \in IDs PROVE Held(x)'
  <2>1. Held(x) /\ \A q \in Requests : q \in Callers /\ mode'[q] = mode[q]
    BY <1>f DEF Inv, Callers
  <2>2. once'[x] = "running" => \E q \in Requests : Prov(q) = x /\ Opening(q)' /\ mode'[q] = "first"
    BY <1>a, <1>c, <1>e, <1>f, <2>1 DEF Held
  <2>3. lock'[x] # None => Prov(lock'[x]) = x /\ pc'[lock'[x]] \in {"dial", "login", "version"} /\ mode'[lock'[x]] = "replace"
    BY <1>a, <1>c, <1>e, <1>f, <2>1 DEF Held, Inv, Replacing
  <2> QED
    BY <2>2, <2>3 DEF Held
<1> QED
  BY <1>1, <1>2, <1>3, <1>4, <1>5, <1>6, <1>7, <1>8, <1>9, <1>10, <1>11 DEF Inv

\* Whichever step of Open fails, its connection is closed and the once and the mutex let go.
LEMMA OpenFailsInv ==
  ASSUME Inv, NEW r \in Callers, OpenFails(r)
  PROVE  Inv'
<1>a. /\ Mine(r) \in Conns /\ Mine(r)[1] = r /\ Opening(r)
      /\ Prov(r) \in IDs /\ (r \in Requests => Holding(r))
      /\ \A i \in IDs : sess[i] # Mine(r) /\ tracked[i] # Mine(r)
  BY CallersAssumption, NotYetSession DEF Inv, OpenFails, Callers, Prov, credentialID
<1>b. \A q \in Callers : pc'[q] = IF q = r THEN "failed" ELSE pc[q]
  BY DEF Inv, TypeOK, OpenFails, OpenError
<1>c. /\ conn' \in [Conns -> {"none", "dialled", "authed", "dead", "closed"}]
      /\ \A k \in Conns : conn'[k] = IF k = Mine(r) /\ Open(k) THEN "closed" ELSE conn[k]
  BY <1>a, ClosingOne DEF Inv, OpenFails
<1>d. \A i \in IDs : /\ once'[i] = IF i = Prov(r) /\ r \in Requests /\ mode[r] = "first" THEN "done" ELSE once[i]
                     /\ sessErr'[i] = IF i = Prov(r) /\ r \in Requests /\ mode[r] = "first" THEN TRUE ELSE sessErr[i]
                     /\ lock'[i] = IF i = Prov(r) /\ lock[i] = r THEN None ELSE lock[i]
  <2>1. /\ DOMAIN once = IDs /\ DOMAIN sessErr = IDs /\ DOMAIN lock = IDs
        /\ OpenError(r)
    BY DEF Inv, TypeOK, OpenFails
  <2> QED
    BY <1>a, <2>1 DEF OpenError
<1>e. UNCHANGED <<mode, got, key, sess, login, tracked, shutdown, settled>>
  BY DEF OpenFails
<1> USE CallersAssumption DEF Mine, Opening, Open, Alive, Prov, credentialID
<1>1. TypeOK'
  <2>1. /\ pc' \in [Callers -> {"idle", "once", "dial", "login", "version", "check", "got", "done", "failed"}]
        /\ once' \in [IDs -> {"new", "running", "done"}]
        /\ lock' \in [IDs -> Callers \cup {None}]
    BY <1>a DEF Inv, TypeOK, OpenFails, OpenError
  <2>2. sessErr' \in [IDs -> BOOLEAN]
    BY <1>a DEF Inv, TypeOK, OpenFails, OpenError
  <2>3. \A k \in Conns : conn'[k] # "none" => login'[k] # None
    BY <1>c, <1>e DEF Inv, TypeOK
  <2> QED
    BY <1>c, <1>e, <2>1, <2>2, <2>3 DEF Inv, TypeOK
<1>2. ASSUME NEW x \in Callers PROVE Stage(x)'
  BY <1>a, <1>b, <1>c, <1>d, <1>e DEF Inv, Stage, TypeOK, Conns
<1>3. ASSUME NEW x \in Requests PROVE Served(x)'
  BY <1>a, <1>b, <1>c, <1>d, <1>e DEF Inv, Served, TypeOK, Stage, Callers
<1>4. ASSUME NEW x \in IDs PROVE Built(x)'
  <2>1. Built(x)
    BY DEF Inv
  <2>2. CASE x = Prov(r) /\ r \in Requests /\ mode[r] = "first"
    BY <1>d, <1>e, <2>1, <2>2 DEF Built
  <2>3. CASE ~(x = Prov(r) /\ r \in Requests /\ mode[r] = "first")
    BY <1>d, <1>e, <2>1, <2>3 DEF Built
  <2> QED
    BY <2>2, <2>3
<1>5. ASSUME NEW x \in Requests PROVE Holding(x)'
  <2>1. Holding(x) /\ (r \in Requests => Alone(x, r)) /\ Prov(x) \in IDs /\ x \in Callers
    BY DEF Inv, Callers
  <2>2. CASE x = r
    BY <1>b, <2>1, <2>2 DEF Holding
  <2>3. CASE x # r
    <3>1. pc'[x] = pc[x] /\ mode'[x] = mode[x] /\ sess' = sess
      BY <1>b, <1>e, <2>1, <2>3
    <3>2. Opening(x) /\ mode[x] = "first" => once'[Prov(x)] = "running"
      BY <1>a, <1>d, <2>1, <2>3 DEF Holding, Alone
    <3>3. Opening(x) /\ mode[x] # "first" => lock'[Prov(x)] = x
      BY <1>a, <1>d, <2>1, <2>3 DEF Holding
    <3> QED
      BY <2>1, <3>1, <3>2, <3>3 DEF Holding
  <2> QED
    BY <2>2, <2>3
<1>6. ASSUME NEW q \in Requests, NEW t \in Requests PROVE Alone(q, t)'
  BY <1>a, <1>b, <1>c, <1>d, <1>e DEF Inv, Alone, TypeOK, Holding, Callers
<1>7. ASSUME NEW x \in Conns PROVE LoggedIn(x)'
  BY <1>a, <1>b, <1>c, <1>d, <1>e DEF Inv, LoggedIn, TypeOK, Conns
<1>8. ASSUME NEW x \in Conns PROVE Owned(x)'
  BY <1>a, <1>b, <1>c, <1>d, <1>e DEF Inv, Owned, TypeOK, Stage, Conns
<1>9. ASSUME NEW x \in IDs PROVE Session(x)'
  <2>1. Session(x) /\ Built(x) /\ sess[x] \in Conns \cup {None} /\ sess[x] # Mine(r)
    BY <1>a DEF Inv, TypeOK
  <2>2. sess'[x] = sess[x] /\ tracked'[x] = tracked[x]
    BY <1>e
  <2>3. sess[x] # None <=> once'[x] = "done" /\ ~sessErr'[x]
    <3>1. CASE x = Prov(r) /\ r \in Requests /\ mode[r] = "first"
      BY <1>a, <1>d, <2>1, <3>1 DEF Session, Holding
    <3>2. CASE ~(x = Prov(r) /\ r \in Requests /\ mode[r] = "first")
      BY <1>d, <2>1, <3>2 DEF Session
    <3> QED
      BY <3>1, <3>2
  <2>4. CASE sess[x] = None
    BY <2>1, <2>2, <2>3, <2>4 DEF Session
  <2>5. CASE sess[x] # None
    <3>1. PICK a \in Callers, b \in {"first", "replace"} : sess[x] = <<a, b>>
      BY <2>1, <2>5 DEF Conns
    <3>2. conn'[sess[x]] # "none" /\ (Opening(a)' => Opening(a)) /\ mode'[a] = mode[a]
      BY <1>b, <1>c, <1>e, <2>1, <2>5, <3>1 DEF Session
    <3> QED
      BY <2>1, <2>2, <2>3, <2>5, <3>1, <3>2 DEF Session
  <2> QED
    BY <2>4, <2>5
<1>10. ASSUME NEW x \in IDs PROVE Replacing(x)'
  <2>1. Replacing(x) /\ sess[x] \in Conns \cup {None} /\ sess[x] # Mine(r)
    BY <1>a DEF Inv, TypeOK
  <2>2. sess'[x] = sess[x] /\ lock'[x] \in {lock[x], None}
    BY <1>d, <1>e
  <2>3. sess[x] # None => conn'[sess[x]] = conn[sess[x]]
    BY <1>c, <2>1
  <2> QED
    BY <2>1, <2>2, <2>3 DEF Replacing
<1>11. ASSUME NEW x \in IDs PROVE Held(x)'
  <2>1. Held(x) /\ lock[x] \in Callers \cup {None}
    BY DEF Inv, TypeOK
  <2>2. ASSUME once'[x] = "running"
        PROVE  \E q \in Requests : Prov(q) = x /\ Opening(q)' /\ mode'[q] = "first"
    <3>1. once[x] = "running" /\ ~(x = Prov(r) /\ r \in Requests /\ mode[r] = "first")
      BY <1>d, <2>2
    <3>2. PICK q \in Requests : Prov(q) = x /\ Opening(q) /\ mode[q] = "first"
      BY <2>1, <3>1 DEF Held
    <3>3. q # r
      BY <3>1, <3>2
    <3> QED
      BY <1>b, <1>e, <3>2, <3>3 DEF Callers
  <2>3. ASSUME lock'[x] # None
        PROVE  lock'[x] = lock[x] /\ Prov(lock[x]) = x /\ pc'[lock[x]] = pc[lock[x]] /\ Opening(lock[x]) /\ mode[lock[x]] = "replace"
    <3>1. lock'[x] = lock[x] /\ ~(x = Prov(r) /\ lock[x] = r)
      BY <1>d, <2>3
    <3>2. Prov(lock[x]) = x /\ Opening(lock[x]) /\ mode[lock[x]] = "replace" /\ lock[x] \in Callers
      BY <2>1, <2>3, <3>1 DEF Held
    <3> QED
      BY <1>b, <3>1, <3>2
  <2> QED
    BY <1>e, <2>2, <2>3 DEF Held
<1> QED
  BY <1>1, <1>2, <1>3, <1>4, <1>5, <1>6, <1>7, <1>8, <1>9, <1>10, <1>11 DEF Inv

\* A tool call that ends holds nothing.
LEMMA ToolCallEndsInv ==
  ASSUME Inv, NEW r \in Callers, ToolCallEnds(r)
  PROVE  Inv'
<1> USE CallersAssumption DEF ToolCallEnds, Mine, Opening, Open, Alive, Prov, credentialID, provVars
<1>1. TypeOK'
  BY DEF Inv, TypeOK
<1>2. ASSUME NEW x \in Callers PROVE Stage(x)'
  BY DEF Inv, Stage, TypeOK, Conns
<1>3. ASSUME NEW x \in Requests PROVE Served(x)'
  BY DEF Inv, Served, TypeOK, Stage, Callers
<1>4. ASSUME NEW x \in IDs PROVE Built(x)'
  BY DEF Inv, Built, TypeOK
<1>5. ASSUME NEW x \in Requests PROVE Holding(x)'
  BY DEF Inv, Holding, TypeOK, Stage, Callers
<1>6. ASSUME NEW q \in Requests, NEW t \in Requests PROVE Alone(q, t)'
  BY DEF Inv, Alone, TypeOK, Holding, Callers
<1>7. ASSUME NEW x \in Conns PROVE LoggedIn(x)'
  BY DEF Inv, LoggedIn, TypeOK, Conns
<1>8. ASSUME NEW x \in Conns PROVE Owned(x)'
  BY DEF Inv, Owned, TypeOK, Stage, Conns
<1>9. ASSUME NEW x \in IDs PROVE Session(x)'
  BY DEF Inv, Session, TypeOK, Stage, Callers, Conns
<1>10. ASSUME NEW x \in IDs PROVE Replacing(x)'
  BY DEF Inv, Replacing, TypeOK, Session, Conns
<1>11. ASSUME NEW x \in IDs PROVE Held(x)'
  BY DEF Inv, Held, TypeOK, Stage, Callers
<1> QED
  BY <1>1, <1>2, <1>3, <1>4, <1>5, <1>6, <1>7, <1>8, <1>9, <1>10, <1>11 DEF Inv

\* CloseAll closes every session that is tracked.
LEMMA CloseAllInv ==
  ASSUME Inv, CloseAll
  PROVE  Inv'
<1>a. /\ conn' \in [Conns -> {"none", "dialled", "authed", "dead", "closed"}]
      /\ \A k \in Conns : conn'[k] = IF Open(k) /\ (\E i \in IDs : tracked[i] = k) THEN "closed" ELSE conn[k]
  BY DEF Inv, TypeOK, CloseAll
<1>b. \A i \in IDs : tracked'[i] = None
  BY DEF CloseAll
<1>c. UNCHANGED <<pc, mode, got, key, once, sessErr, sess, lock, login, settled>>
  BY DEF CloseAll, provVars
<1> USE CallersAssumption DEF Mine, Opening, Open, Alive, Prov, credentialID
<1>1. TypeOK'
  BY <1>a, <1>c DEF Inv, TypeOK, CloseAll
<1>2. ASSUME NEW x \in Callers PROVE Stage(x)'
  <2>1. Stage(x) /\ <<x, "replace">> \in Conns /\ <<x, mode[x]>> \in Conns
    BY DEF Inv, TypeOK, Conns
  <2>2. conn[Mine(x)] = "none" => conn'[Mine(x)] = "none"
    BY <1>a, <2>1
  <2>3. conn[<<x, "replace">>] = "none" => conn'[<<x, "replace">>] = "none"
    BY <1>a, <2>1
  <2>4. Opening(x) => conn'[Mine(x)] = conn[Mine(x)]
    BY <1>a, <2>1, NotYetSession
  <2> QED
    BY <1>c, <2>1, <2>2, <2>3, <2>4 DEF Stage
<1>3. ASSUME NEW x \in Requests PROVE Served(x)'
  BY <1>a, <1>b, <1>c DEF Inv, Served, TypeOK, Stage, Callers
<1>4. ASSUME NEW x \in IDs PROVE Built(x)'
  BY <1>a, <1>b, <1>c DEF Inv, Built, TypeOK
<1>5. ASSUME NEW x \in Requests PROVE Holding(x)'
  BY <1>a, <1>b, <1>c DEF Inv, Holding, TypeOK, Stage, Callers
<1>6. ASSUME NEW q \in Requests, NEW t \in Requests PROVE Alone(q, t)'
  BY <1>a, <1>b, <1>c DEF Inv, Alone, TypeOK, Holding, Callers
<1>7. ASSUME NEW x \in Conns PROVE LoggedIn(x)'
  BY <1>a, <1>b, <1>c DEF Inv, LoggedIn, TypeOK, Conns
<1>8. ASSUME NEW x \in Conns PROVE Owned(x)'
  BY <1>a, <1>b, <1>c DEF Inv, Owned, TypeOK, Stage, Conns
<1>9. ASSUME NEW x \in IDs PROVE Session(x)'
  BY <1>a, <1>b, <1>c DEF Inv, Session, TypeOK, Stage, Callers, Conns
<1>10. ASSUME NEW x \in IDs PROVE Replacing(x)'
  BY <1>a, <1>b, <1>c DEF Inv, Replacing, TypeOK, Session, Conns
<1>11. ASSUME NEW x \in IDs PROVE Held(x)'
  BY <1>a, <1>b, <1>c DEF Inv, Held, TypeOK, Stage, Callers
<1> QED
  BY <1>1, <1>2, <1>3, <1>4, <1>5, <1>6, <1>7, <1>8, <1>9, <1>10, <1>11 DEF Inv

\* A connection that dies is still to be closed by whoever has it.
LEMMA ConnDiesInv ==
  ASSUME Inv, ConnDies
  PROVE  Inv'
<1> USE CallersAssumption DEF ConnDies, Mine, Opening, Open, Alive, Prov, credentialID, provVars
<1>1. TypeOK'
  BY DEF Inv, TypeOK
<1>2. ASSUME NEW x \in Callers PROVE Stage(x)'
  BY DEF Inv, Stage, TypeOK, Conns
<1>3. ASSUME NEW x \in Requests PROVE Served(x)'
  BY DEF Inv, Served, TypeOK, Stage, Callers
<1>4. ASSUME NEW x \in IDs PROVE Built(x)'
  BY DEF Inv, Built, TypeOK
<1>5. ASSUME NEW x \in Requests PROVE Holding(x)'
  BY DEF Inv, Holding, TypeOK, Stage, Callers
<1>6. ASSUME NEW q \in Requests, NEW t \in Requests PROVE Alone(q, t)'
  BY DEF Inv, Alone, TypeOK, Holding, Callers
<1>7. ASSUME NEW x \in Conns PROVE LoggedIn(x)'
  BY DEF Inv, LoggedIn, TypeOK, Conns
<1>8. ASSUME NEW x \in Conns PROVE Owned(x)'
  BY DEF Inv, Owned, TypeOK, Stage, Conns
<1>9. ASSUME NEW x \in IDs PROVE Session(x)'
  BY DEF Inv, Session, TypeOK, Stage, Callers, Conns
<1>10. ASSUME NEW x \in IDs PROVE Replacing(x)'
  BY DEF Inv, Replacing, TypeOK, Session, Conns
<1>11. ASSUME NEW x \in IDs PROVE Held(x)'
  BY DEF Inv, Held, TypeOK, Stage, Callers
<1> QED
  BY <1>1, <1>2, <1>3, <1>4, <1>5, <1>6, <1>7, <1>8, <1>9, <1>10, <1>11 DEF Inv

\* That nothing fails any more changes nothing.
LEMMA SettleInv ==
  ASSUME Inv, Settle
  PROVE  Inv'
<1> USE CallersAssumption DEF Settle, Mine, Opening, Open, Alive, Prov, credentialID, provVars
<1>1. TypeOK'
  BY DEF Inv, TypeOK
<1>2. ASSUME NEW x \in Callers PROVE Stage(x)'
  BY DEF Inv, Stage, TypeOK, Conns
<1>3. ASSUME NEW x \in Requests PROVE Served(x)'
  BY DEF Inv, Served, TypeOK, Stage, Callers
<1>4. ASSUME NEW x \in IDs PROVE Built(x)'
  BY DEF Inv, Built, TypeOK
<1>5. ASSUME NEW x \in Requests PROVE Holding(x)'
  BY DEF Inv, Holding, TypeOK, Stage, Callers
<1>6. ASSUME NEW q \in Requests, NEW t \in Requests PROVE Alone(q, t)'
  BY DEF Inv, Alone, TypeOK, Holding, Callers
<1>7. ASSUME NEW x \in Conns PROVE LoggedIn(x)'
  BY DEF Inv, LoggedIn, TypeOK, Conns
<1>8. ASSUME NEW x \in Conns PROVE Owned(x)'
  BY DEF Inv, Owned
<1>9. ASSUME NEW x \in IDs PROVE Session(x)'
  BY DEF Inv, Session, TypeOK, Stage, Callers, Conns
<1>10. ASSUME NEW x \in IDs PROVE Replacing(x)'
  BY DEF Inv, Replacing, TypeOK, Session, Conns
<1>11. ASSUME NEW x \in IDs PROVE Held(x)'
  BY DEF Inv, Held, TypeOK, Stage, Callers
<1> QED
  BY <1>1, <1>2, <1>3, <1>4, <1>5, <1>6, <1>7, <1>8, <1>9, <1>10, <1>11 DEF Inv

-----------------------------------------------------------------------------
\* Every step of the sessions keeps the invariant.
LEMMA NextInv == Inv /\ [Next]_vars => Inv'
<1> SUFFICES ASSUME Inv, [Next]_vars PROVE Inv'
  OBVIOUS
<1>1. ASSUME NEW r \in Callers, CheckVersion(r) PROVE Inv'
  <2>1. CASE r \in Probes
    BY <1>1, <2>1, ValidatedInv
  <2>2. CASE r \in Requests
    BY <1>1, <2>2, FirstOpenedInv, ReplaceInv DEF Inv, TypeOK
  <2> QED
    BY <2>1, <2>2 DEF Callers
<1>2. ASSUME NEW r \in Callers, OpenStep(r) PROVE Inv'
  BY <1>1, <1>2, DialInv, LoginInv, OpenFailsInv DEF OpenStep
<1>3. ASSUME NEW r \in Callers, Provide(r) PROVE Inv'
  BY <1>3, OnceRunsInv, OnceDoneInv, SessionReusedInv, SessionReplacedInv DEF Provide
<1>4. CASE UNCHANGED vars
  <2>1. /\ UNCHANGED <<pc, mode, got, key, once, sessErr, sess>>
        /\ UNCHANGED <<lock, conn, login, tracked, shutdown, settled>>
    BY <1>4 DEF vars, provVars
  <2> QED
    BY <2>1 DEF Inv, TypeOK, Stage, Served, Built, Holding, Alone, LoggedIn, Owned, Session, Replacing, Held,
                Mine, Opening, Open, Alive
<1> QED
  BY <1>2, <1>3, <1>4, handlerForInv, ValidateInv, ToolCallEndsInv, CloseAllInv, ConnDiesInv, SettleInv
  DEF Next

\* The invariant holds of every reachable state.
LEMMA Invariance == Spec => []Inv
BY InitInv, NextInv, PTL DEF Spec

-----------------------------------------------------------------------------
\* Every variable of the sessions keeps its type, and a connection that was
\* dialled its credential.
THEOREM TypeCorrect == Spec => []TypeOK
<1>1. Inv => TypeOK
  BY DEF Inv
<1> QED
  BY <1>1, Invariance, PTL

\* A tool call runs on a connection opened with a credential of the identifier
\* it presented, whoever opened it and however often it was replaced: with its
\* own credential if no other one has its identifier, and that is all the cache
\* of handlers rests on.
THEOREM NeverShared == Spec => []OwnCredential
<1>1. Inv => OwnCredential
  <2> SUFFICES ASSUME Inv, NEW r \in Requests, got[r] # None
               PROVE  Hash[login[got[r]]] = Hash[CredOf[r]]
    BY DEF OwnCredential
  <2>1. got[r] \in Conns /\ conn[got[r]] # "none" /\ Prov(got[r][1]) = Prov(r)
    BY DEF Inv, TypeOK, Served, Callers
  <2>2. Hash[login[got[r]]] = Prov(r)
    BY <2>1, CallersAssumption DEF Inv, TypeOK, LoggedIn, Callers
  <2> QED
    BY <2>2 DEF Prov, credentialID
<1> QED
  BY <1>1, Invariance, PTL

\* Whichever step of Open fails and whoever replaces a session, an open
\* connection is still in somebody's hands.
THEOREM NothingLeaks == Spec => []NoLeakedConnection
<1>1. Inv => NoLeakedConnection
  BY DEF Inv, Owned, NoLeakedConnection
<1> QED
  BY <1>1, Invariance, PTL

\* However many tool calls find a session dead at once, one of them replaces
\* it: the credential never has two live authenticated connections.
THEOREM OneAtATime == Spec => []OneLiveSession
<1>1. Inv => OneLiveSession
  <2> SUFFICES ASSUME Inv, NEW k \in Conns, NEW l \in Conns,
                      conn[k] = "authed", conn[l] = "authed",
                      k[1] \in Requests, l[1] \in Requests, login[k] = login[l]
               PROVE  k = l
    BY DEF OneLiveSession
  <2> DEFINE i == Prov(k[1])
             Busy(c) == Opening(c[1]) /\ Mine(c[1]) = c
  <2>1. i \in IDs /\ Prov(k[1]) = i /\ Prov(l[1]) = i
    BY CallersAssumption DEF Inv, LoggedIn, Prov, credentialID, Callers
  <2>2. ASSUME NEW c \in Conns, conn[c] = "authed", c[1] \in Requests, Prov(c[1]) = i
        PROVE  Busy(c) \/ sess[i] = c
    <3>1. Owned(c) /\ Open(c)
      BY <2>2 DEF Inv, Open
    <3>2. ASSUME NEW j \in IDs, sess[j] = c PROVE j = i
      BY <2>2, <3>2, CallersAssumption DEF Inv, Session
    <3> QED
      BY <3>1, <3>2 DEF Owned
  <2>3. ASSUME NEW c \in Conns, conn[c] = "authed", c[1] \in Requests, Prov(c[1]) = i, Busy(c)
        PROVE  /\ c[1] # None
               /\ IF mode[c[1]] = "first" THEN once[i] = "running" /\ sess[i] = None
                                        ELSE lock[i] = c[1] /\ sess[i] # None /\ ~Alive(sess[i])
    <3>1. Holding(c[1]) /\ Prov(c[1]) = i /\ c[1] # None /\ Session(i) /\ Replacing(i)
      BY <2>1, <2>3, CallersAssumption DEF Inv, Prov, credentialID, Callers
    <3> QED
      BY <2>3, <3>1 DEF Holding, Session, Replacing
  <2>4. Alone(k[1], l[1])
    BY DEF Inv
  <2>5. CASE Busy(k) /\ Busy(l)
    BY <2>1, <2>3, <2>4, <2>5 DEF Alone
  <2>6. CASE Busy(k) /\ sess[i] = l
    BY <2>1, <2>3, <2>6, CallersAssumption DEF Alive
  <2>7. CASE Busy(l) /\ sess[i] = k
    BY <2>1, <2>3, <2>7, CallersAssumption DEF Alive
  <2> QED
    BY <2>1, <2>2, <2>5, <2>6, <2>7
<1> QED
  BY <1>1, Invariance, PTL

\* Nobody waits for a once or a mutex that no one inside Open holds.
THEOREM LetGo == Spec => []HeldByOpen
<1>1. Inv => HeldByOpen
  BY DEF Inv, Held, HeldByOpen
<1> QED
  BY <1>1, Invariance, PTL
=============================================================================
