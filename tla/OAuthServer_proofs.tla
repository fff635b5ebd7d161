------------------------- MODULE OAuthServer_proofs -------------------------
(***************************************************************************)
(* Proofs about OAuthServer for any credentials, redirect URIs, clients,   *)
(* exchanges, times to live and clock: one text is redeemed once, nothing  *)
(* else is burnt, and every access that is granted goes back to a consent  *)
(* and is bounded by it.                                                   *)
(***************************************************************************)
EXTENDS OAuthServer, TLAPS

-----------------------------------------------------------------------------
(* The inductive invariant.                                                *)

\* The master key: an earlier one is never taken up again, and a generated
\* one belongs to a single process.
Keys ==
  /\ now \in Nat /\ key \in Nat /\ process \in Nat /\ key <= process
  /\ ~ConfiguredKey => key = process
  /\ DOMAIN exchange = Exchanges

\* g is the exchange in which the consent behind the token v was redeemed.
Behind(g, v) ==
  /\ g.code.nonce = v.payload.consent
  /\ g.code.payload.cred = v.payload.cred
  /\ ~ConfiguredKey => g.code.process = v.process /\ g.code.payload.client.process = v.process

\* A sealed value: what its process put into it.
Value(v) ==
  /\ v.key \in Nat /\ v.key <= key
  /\ ~ConfiguredKey => v.process = v.key
  /\ v.purpose = "code" =>
       /\ v.payload.at \in Nat /\ v.payload.at <= now
       /\ v.payload.expires = ExpiresAt(v.payload.at, CodeTTL)
       /\ ~ConfiguredKey => v.payload.client.process = v.process
  /\ v.purpose \in {"access", "refresh"} => \E g \in grants : Behind(g, v)

\* A code that has passed its checks was fresh when the clock was read.
Checked(x) ==
  exchange[x] # None =>
    /\ exchange[x].code \in Sealed("code") /\ exchange[x].code.key = key
    /\ exchange[x].now \in Nat /\ Unix(exchange[x].now) < exchange[x].code.payload.expires

\* The last instant at which an access token of a code can be good.
Bound(c) == c.payload.at + (CodeTTL + AccessTokenTTL) * TicksPerSecond

\* What an exchange was given.
Grant(g) ==
  /\ g.code \in Sealed("code")
  /\ g.claimed \in Nat /\ g.code.payload.at <= g.claimed /\ g.claimed <= now
  /\ g.process \in Nat /\ g.process <= process
  /\ g.tokens \subseteq issued
  /\ \A v \in g.tokens : v.purpose = "access" => v.payload.expires \in 0..Unix(Bound(g.code))

\* What an exchange is claimed under.
ID(g) == CodeReplayID(g.code, g.form)

\* The text of a claim was exchanged.
Claims(i) == seen[i] \in Nat /\ \E g \in grants : ID(g) = i

\* The text of a code that was redeemed is claimed until the code has expired,
\* unless a restart forgot the claim.
Burnt(g) ==
  g.code.key = key /\ (ConfiguredKey => g.process = process) =>
    \/ g.claimed + CodeTTL * TicksPerSecond <= now
    \/ ID(g) \in DOMAIN seen /\ seen[ID(g)] >= g.claimed + CodeTTL * TicksPerSecond

\* RedeemedOnce, for two exchanges.
Once(g, h) ==
  /\ g.code = h.code /\ g.form = h.form /\ (ConfiguredKey => g.process = h.process)
  /\ Unix(g.claimed) < g.code.payload.expires /\ Unix(h.claimed) < g.code.payload.expires
  => g = h

\* An API request was let through with a fresh access token.
Access(a) ==
  /\ a.value \in issued /\ a.value.purpose = "access" /\ a.cred = a.value.payload.cred
  /\ a.at \in Nat /\ Unix(a.at) < a.value.payload.expires
  /\ ~ConfiguredKey => a.value.process = a.process

Inv ==
  /\ Keys
  /\ \A v \in issued : Value(v)
  /\ \A x \in Exchanges : Checked(x)
  /\ \A g \in grants : Grant(g) /\ Burnt(g)
  /\ \A g, h \in grants : Once(g, h)
  /\ \A i \in DOMAIN seen : Claims(i)
  /\ \A a \in accepted : Access(a)

-----------------------------------------------------------------------------
\* Seconds pass with the ticks.
LEMMA UnixMonotone ==
  ASSUME NEW s \in Nat, NEW t \in Nat
  PROVE  /\ Unix(s) \in Nat
         /\ s <= t => Unix(s) <= Unix(t)
         /\ Unix(s) < Unix(t) => s < t
BY OAuthAssumption DEF Unix

\* Times to live, in ticks.
LEMMA Ticks ==
  /\ TicksPerSecond \in Nat \ {0} /\ CodeTTL \in Nat /\ AccessTokenTTL \in Nat
  /\ CodeTTL * TicksPerSecond \in Nat /\ AccessTokenTTL * TicksPerSecond \in Nat
  /\ (CodeTTL + AccessTokenTTL) * TicksPerSecond = CodeTTL * TicksPerSecond + AccessTokenTTL * TicksPerSecond
<1>1. TicksPerSecond \in Nat \ {0} /\ CodeTTL \in Nat /\ AccessTokenTTL \in Nat
  BY OAuthAssumption
<1> QED
  BY <1>1

\* What was sealed stays as it was.
LEMMA OldValue ==
  ASSUME Inv, NEW v \in issued, key' \in Nat, key <= key', now' \in Nat, now <= now', grants \subseteq grants'
  PROVE  Value(v)'
<1>1. Value(v) /\ now \in Nat /\ key \in Nat
  BY DEF Inv, Keys
<1> QED
  BY <1>1 DEF Value, ExpiresAt, Unix, Behind

\* What was granted stays granted.
LEMMA OldGrant ==
  ASSUME Inv, NEW g \in grants, now' \in Nat, now <= now', issued \subseteq issued',
         process' \in Nat, process <= process'
  PROVE  Grant(g)'
<1>1. Grant(g) /\ now \in Nat /\ process \in Nat
  BY DEF Inv, Keys
<1> QED
  BY <1>1 DEF Grant, Sealed, Bound, Unix

\* Nothing has been sealed yet.
LEMMA InitInv == Init => Inv
<1> SUFFICES ASSUME Init PROVE Inv
  OBVIOUS
<1>1. issued = {} /\ grants = {} /\ accepted = {} /\ DOMAIN seen = {} /\ \A x \in Exchanges : exchange[x] = None
  BY DEF Init
<1>2. Keys
  BY OAuthAssumption DEF Init, Keys
<1> QED
  BY <1>1, <1>2 DEF Inv, Checked

\* A client_id is no code and no token.
LEMMA handleRegisterInv ==
  ASSUME Inv, NEW uris \in SUBSET Uris, handleRegister(uris)
  PROVE  Inv'
<1>a. PICK s : s.purpose = "client" /\ s.key = key /\ s.process = process /\ issued' = issued \cup {s}
  BY DEF handleRegister, seal
<1>b. UNCHANGED <<now, process, key, seen, exchange, tried, grants, accepted>>
  BY DEF handleRegister
<1>1. Keys'
  BY <1>a, <1>b DEF Inv, Keys
<1>2. ASSUME NEW v \in issued' PROVE Value(v)'
  BY <1>a, <1>b DEF Inv, Value, Keys
<1>3. ASSUME NEW x \in Exchanges PROVE Checked(x)'
  BY <1>a, <1>b DEF Inv, Checked, Sealed
<1>4. ASSUME NEW g \in grants' PROVE Grant(g)'
  BY <1>a, <1>b DEF Inv, Grant, Keys, Sealed
<1>5. ASSUME NEW g \in grants' PROVE Burnt(g)'
  BY <1>a, <1>b DEF Inv, Burnt, ID, CodeReplayID
<1>6. ASSUME NEW g \in grants', NEW h \in grants' PROVE Once(g, h)'
  BY <1>a, <1>b DEF Inv, Once
<1>7. ASSUME NEW i \in DOMAIN seen' PROVE Claims(i)'
  BY <1>a, <1>b DEF Inv, Claims, ID, CodeReplayID
<1>8. ASSUME NEW a \in accepted' PROVE Access(a)'
  BY <1>a, <1>b DEF Inv, Access
<1> QED
  BY <1>1, <1>2, <1>3, <1>4, <1>5, <1>6, <1>7, <1>8 DEF Inv

\* A code is sealed with the clock it expires by, for a client of the same key.
LEMMA handleAuthorizePostInv ==
  ASSUME Inv, NEW w \in issued, NEW u \in Uris, NEW verifier \in Verifiers, NEW cred \in Creds,
         handleAuthorizePost(w, u, verifier, cred)
  PROVE  Inv'
<1>a. PICK s : s = seal("code", Code(cred, w, u, verifier), 1) /\ issued' = issued \cup {s}
  BY DEF handleAuthorizePost
<1>b. /\ s.purpose = "code" /\ s.key = key /\ s.process = process
      /\ s.payload.at = now /\ s.payload.expires = ExpiresAt(now, CodeTTL) /\ s.payload.client = w
  BY <1>a DEF seal, Code
<1>c. UNCHANGED <<now, process, key, seen, exchange, tried, grants, accepted>>
  BY DEF handleAuthorizePost
<1>d. w.key = key /\ Value(w)
  BY DEF Inv, handleAuthorizePost, parseAuthorizeRequest, DecodeClientID
<1>1. Keys'
  BY <1>a, <1>b, <1>c, <1>d DEF Inv, Keys
<1>2. ASSUME NEW v \in issued' PROVE Value(v)'
  BY <1>a, <1>b, <1>c, <1>d DEF Inv, Value, Keys
<1>3. ASSUME NEW x \in Exchanges PROVE Checked(x)'
  BY <1>a, <1>b, <1>c, <1>d DEF Inv, Checked, Sealed
<1>4. ASSUME NEW g \in grants' PROVE Grant(g)'
  BY <1>a, <1>b, <1>c, <1>d DEF Inv, Grant, Keys, Sealed
<1>5. ASSUME NEW g \in grants' PROVE Burnt(g)'
  BY <1>a, <1>b, <1>c, <1>d DEF Inv, Burnt, ID, CodeReplayID
<1>6. ASSUME NEW g \in grants', NEW h \in grants' PROVE Once(g, h)'
  BY <1>a, <1>b, <1>c, <1>d DEF Inv, Once
<1>7. ASSUME NEW i \in DOMAIN seen' PROVE Claims(i)'
  BY <1>a, <1>b, <1>c, <1>d DEF Inv, Claims, ID, CodeReplayID
<1>8. ASSUME NEW a \in accepted' PROVE Access(a)'
  BY <1>a, <1>b, <1>c, <1>d DEF Inv, Access
<1> QED
  BY <1>1, <1>2, <1>3, <1>4, <1>5, <1>6, <1>7, <1>8 DEF Inv

\* An exchange goes on with a code that is fresh and of the present key.
LEMMA CheckCodeInv ==
  ASSUME Inv, NEW y \in Exchanges, NEW d \in issued, NEW form \in Forms, NEW client \in Sealed("client"),
         NEW u \in Uris, NEW verifier \in Verifiers, CheckCode(y, d, form, client, u, verifier)
  PROVE  Inv'
<1>a. UNCHANGED <<now, process, key, issued, seen, grants, accepted>> /\ DOMAIN exchange' = Exchanges
  BY DEF CheckCode, Inv, Keys
<1>b. d.key = key /\ d.purpose = "code" /\ Unix(now) < d.payload.expires
  BY DEF CheckCode, DecodeCode, open, Fresh
<1>c. \A x \in Exchanges : exchange'[x] = exchange[x] \/ exchange'[x] = None 
                            \/ exchange'[x] = [code |-> d, form |-> form, now |-> now]
  BY DEF CheckCode, Inv, Keys
<1>1. Keys'
  BY <1>a, <1>b, <1>c DEF Inv, Keys
<1>2. ASSUME NEW v \in issued' PROVE Value(v)'
  BY <1>a, <1>b, <1>c DEF Inv, Value, Keys
<1>3. ASSUME NEW x \in Exchanges PROVE Checked(x)'
  BY <1>a, <1>b, <1>c DEF Inv, Checked, Sealed, Keys, Unix
<1>4. ASSUME NEW g \in grants' PROVE Grant(g)'
  BY <1>a, <1>b, <1>c DEF Inv, Grant, Keys, Sealed
<1>5. ASSUME NEW g \in grants' PROVE Burnt(g)'
  BY <1>a, <1>b, <1>c DEF Inv, Burnt, ID, CodeReplayID
<1>6. ASSUME NEW g \in grants', NEW h \in grants' PROVE Once(g, h)'
  BY <1>a, <1>b, <1>c DEF Inv, Once
<1>7. ASSUME NEW i \in DOMAIN seen' PROVE Claims(i)'
  BY <1>a, <1>b, <1>c DEF Inv, Claims, ID, CodeReplayID
<1>8. ASSUME NEW a \in accepted' PROVE Access(a)'
  BY <1>a, <1>b, <1>c DEF Inv, Access
<1> QED
  BY <1>1, <1>2, <1>3, <1>4, <1>5, <1>6, <1>7, <1>8 DEF Inv

\* A code that is claimed is not exchanged again; the sweep drops only what has
\* expired.
LEMMA RefusedInv ==
  ASSUME Inv, NEW y \in Exchanges, RedeemCode(y), Claimed(ID(exchange[y]))
  PROVE  Inv'
<1>a. /\ UNCHANGED <<now, process, key, issued, grants, accepted>> /\ DOMAIN exchange' = Exchanges
      /\ \A x \in Exchanges : exchange'[x] \in {exchange[x], None}
  BY DEF RedeemCode, Inv, Keys, ID
<1>b. \A i \in DOMAIN seen' : i \in DOMAIN seen /\ seen'[i] = seen[i]
  BY DEF RedeemCode, sweepLocked, ID
<1>c. \A i \in DOMAIN seen : i \in DOMAIN seen' \/ ~(now < seen[i])
  BY DEF RedeemCode, sweepLocked, ID
<1>1. Keys'
  BY <1>a, <1>b, <1>c DEF Inv, Keys
<1>2. ASSUME NEW v \in issued' PROVE Value(v)'
  BY <1>a, <1>b, <1>c DEF Inv, Value, Keys
<1>3. ASSUME NEW x \in Exchanges PROVE Checked(x)'
  BY <1>a, <1>b, <1>c DEF Inv, Checked, Sealed
<1>4. ASSUME NEW g \in grants' PROVE Grant(g)'
  BY <1>a, <1>b, <1>c DEF Inv, Grant, Keys, Sealed
<1>5. ASSUME NEW g \in grants' PROVE Burnt(g)'
  <2>1. Burnt(g) /\ Grant(g) /\ g \in grants /\ now \in Nat
    BY <1>a DEF Inv, Keys
  <2>2. ID(g) \in DOMAIN seen => seen[ID(g)] \in Nat
    BY DEF Inv, Claims, ID, CodeReplayID
  <2> QED
    BY <1>a, <1>b, <1>c, <2>1, <2>2, Ticks DEF Burnt, Grant, ID, CodeReplayID
<1>6. ASSUME NEW g \in grants', NEW h \in grants' PROVE Once(g, h)'
  BY <1>a, <1>b, <1>c DEF Inv, Once
<1>7. ASSUME NEW i \in DOMAIN seen' PROVE Claims(i)'
  BY <1>a, <1>b, <1>c DEF Inv, Claims, ID, CodeReplayID
<1>8. ASSUME NEW a \in accepted' PROVE Access(a)'
  BY <1>a, <1>b, <1>c DEF Inv, Access
<1> QED
  BY <1>1, <1>2, <1>3, <1>4, <1>5, <1>6, <1>7, <1>8 DEF Inv

\* A code that is not claimed is exchanged and claimed.
LEMMA RedeemedInv ==
  ASSUME Inv, NEW y \in Exchanges, RedeemCode(y), ~Claimed(ID(exchange[y]))
  PROVE  Inv'
<1>a. LET d == exchange[y].code IN exchange[y] # None /\ Checked(y) /\ d \in issued /\ d.purpose = "code" /\ Value(d) /\ d.key = key
  BY DEF RedeemCode, Inv, Checked, Sealed
<1>b. /\ UNCHANGED <<now, process, key, accepted>> /\ DOMAIN exchange' = Exchanges
      /\ \A x \in Exchanges : exchange'[x] \in {exchange[x], None}
  BY DEF RedeemCode, Inv, Keys
<1>c. issued \subseteq issued' /\ grants' = grants \cup {[by |-> y, code |-> exchange[y].code, form |-> exchange[y].form, claimed |-> now, process |-> process, tokens |-> issued' \ issued]}
  BY DEF RedeemCode, issueTokens, ID
<1>d. \A v \in issued' \ issued : /\ v.purpose \in {"access", "refresh"} /\ v.key = key /\ v.process = process
                                  /\ v.payload.consent = exchange[y].code.nonce /\ v.payload.cred = exchange[y].code.payload.cred
                                  /\ v.purpose = "access" => v.payload.expires = ExpiresAt(exchange[y].now, AccessTokenTTL)
  BY DEF RedeemCode, issueTokens, Tokens, seal, Token, ID
<1>e. DOMAIN seen' = {i \in DOMAIN seen : now < seen[i]} \cup {ID(exchange[y])}
      /\ \A i \in DOMAIN seen' : seen'[i] = IF i = ID(exchange[y]) THEN now + CodeTTL * TicksPerSecond ELSE seen[i]
  BY DEF RedeemCode, Claim, Claiming, sweepLocked, ID
<1>1. Keys'
  BY <1>a, <1>b, <1>c, <1>d, <1>e DEF Inv, Keys
<1>2. ASSUME NEW v \in issued' PROVE Value(v)'
  <2>1. CASE v \in issued
    BY <1>b, <1>c, <2>1, OldValue DEF Inv, Keys
  <2>2. CASE v \notin issued
    <3> DEFINE d == exchange[y].code
               g == [by |-> y, code |-> d, form |-> exchange[y].form, claimed |-> now, process |-> process, tokens |-> issued' \ issued]
    <3>1. /\ v.purpose \in {"access", "refresh"} /\ v.key = key /\ v.process = process
          /\ v.payload.consent = d.nonce /\ v.payload.cred = d.payload.cred
      BY <1>d, <2>2
    <3>2. key \in Nat /\ (~ConfiguredKey => key = process /\ d.process = process /\ d.payload.client.process = process)
      BY <1>a DEF Inv, Keys, Value
    <3>3. g \in grants' /\ g.code = d
      BY <1>c
    <3> HIDE DEF g
    <3>4. Behind(g, v)
      BY <3>1, <3>2, <3>3 DEF Behind
    <3> QED
      BY <1>b, <3>1, <3>2, <3>3, <3>4 DEF Value, Behind
  <2> QED
    BY <2>1, <2>2
<1>3. ASSUME NEW x \in Exchanges PROVE Checked(x)'
  BY <1>a, <1>b, <1>c, <1>d, <1>e DEF Inv, Checked, Sealed
<1>4. ASSUME NEW g \in grants' PROVE Grant(g)'
  <2>1. CASE g \in grants
    BY <1>b, <1>c, <2>1, OldGrant DEF Inv, Keys
  <2>2. CASE g \notin grants
    <3> DEFINE d == exchange[y].code
               t == exchange[y].now
    <3>1. g.code = d /\ g.claimed = now /\ g.process = process /\ g.tokens = issued' \ issued
      BY <1>c, <2>2
    <3>2. d \in issued' /\ d.purpose = "code" /\ d.payload.at \in Nat /\ d.payload.at <= now /\ now \in Nat /\ process \in Nat
      BY <1>a, <1>c DEF Value, Inv, Keys
    <3>3. t \in Nat /\ Unix(t) < Unix(d.payload.at + CodeTTL * TicksPerSecond)
      BY <1>a DEF Checked, Value, ExpiresAt
    <3> HIDE DEF d, t
    <3>4. t < d.payload.at + CodeTTL * TicksPerSecond
      BY <3>2, <3>3, Ticks, UnixMonotone
    <3>5. t + AccessTokenTTL * TicksPerSecond <= Bound(d)
      BY <3>2, <3>3, <3>4, Ticks DEF Bound
    <3>6. t + AccessTokenTTL * TicksPerSecond \in Nat /\ Bound(d) \in Nat
      BY <3>2, <3>3, Ticks DEF Bound
    <3>7. ExpiresAt(t, AccessTokenTTL) \in 0..Unix(Bound(d))
      BY <3>5, <3>6, UnixMonotone DEF ExpiresAt
    <3>8. \A v \in issued' \ issued : v.purpose = "access" => v.payload.expires \in 0..Unix(Bound(d))
      BY <1>d, <3>7 DEF t
    <3> QED
      BY <1>b, <3>1, <3>2, <3>8 DEF Grant, Sealed, Bound, Unix
  <2> QED
    BY <2>1, <2>2
<1>5. ASSUME NEW g \in grants' PROVE Burnt(g)'
  <2>1. now \in Nat /\ CodeTTL * TicksPerSecond \in Nat
    BY Ticks DEF Inv, Keys
  <2>2. CASE g \in grants
    <3>1. Burnt(g) /\ Grant(g) /\ (ID(g) \in DOMAIN seen => seen[ID(g)] \in Nat)
      BY <2>2 DEF Inv, Claims, ID, CodeReplayID
    <3>2. CASE ID(g) = ID(exchange[y])
      BY <1>b, <1>e, <2>1, <3>1, <3>2 DEF Burnt, Grant, ID, CodeReplayID
    <3>3. CASE ID(g) # ID(exchange[y])
      BY <1>b, <1>e, <2>1, <3>1, <3>3 DEF Burnt, Grant, ID, CodeReplayID
    <3> QED
      BY <3>2, <3>3
  <2>3. CASE g \notin grants
    <3>1. ID(g) = ID(exchange[y]) /\ g.claimed = now
      BY <1>c, <2>3 DEF ID
    <3> QED
      BY <1>b, <1>e, <2>1, <3>1 DEF Burnt
  <2> QED
    BY <2>2, <2>3
<1>6. ASSUME NEW g \in grants', NEW h \in grants' PROVE Once(g, h)'
  <2> DEFINE new == [by |-> y, code |-> exchange[y].code, form |-> exchange[y].form, claimed |-> now, process |-> process, tokens |-> issued' \ issued]
  <2>1. new.code = exchange[y].code /\ new.form = exchange[y].form /\ new.claimed = now /\ new.process = process
    OBVIOUS
  <2>2. \A f \in grants' : f \in grants \/ f = new
    BY <1>c
  <2> HIDE DEF new
  <2>3. ASSUME NEW f \in grants, (ConfiguredKey => f.process = process), f.code = exchange[y].code, f.form = exchange[y].form
        PROVE  ~(Unix(now) < f.code.payload.expires)
    <3>1. Burnt(f) /\ Grant(f) /\ now \in Nat /\ CodeTTL * TicksPerSecond \in Nat
      BY Ticks DEF Inv, Keys
    <3>2. f.claimed + CodeTTL * TicksPerSecond <= now
      <4>1. ID(f) \in DOMAIN seen => seen[ID(f)] \in Nat /\ ~(now < seen[ID(f)])
        BY <2>3 DEF Inv, Claims, Claimed, ID
      <4> QED
        BY <1>a, <2>3, <3>1, <4>1 DEF Burnt, Grant
    <3>3. /\ f.code.payload.at \in Nat /\ f.claimed \in Nat /\ f.code.payload.at <= f.claimed
          /\ f.code.payload.expires = Unix(f.code.payload.at + CodeTTL * TicksPerSecond)
      BY <1>a, <2>3, <3>1 DEF Value, Grant, ExpiresAt
    <3>4. Unix(f.code.payload.at + CodeTTL * TicksPerSecond) <= Unix(now) /\ Unix(now) \in Nat
      BY <3>1, <3>2, <3>3, UnixMonotone
    <3>5. Unix(f.code.payload.at + CodeTTL * TicksPerSecond) \in Nat
      BY <3>1, <3>3, UnixMonotone
    <3> QED
      BY <3>3, <3>4, <3>5
  <2>4. CASE g \in grants /\ h \in grants
    BY <2>4 DEF Inv, Once, Unix
  <2>5. CASE g \in grants /\ h = new
    BY <2>1, <2>3, <2>5 DEF Once, Unix
  <2>6. CASE g = new /\ h \in grants
    BY <2>1, <2>3, <2>6 DEF Once, Unix
  <2>7. CASE g = new /\ h = new
    BY <2>7 DEF Once
  <2> QED
    BY <2>2, <2>4, <2>5, <2>6, <2>7
<1>7. ASSUME NEW i \in DOMAIN seen' PROVE Claims(i)'
  <2>1. CASE i = ID(exchange[y])
    <3> DEFINE new == [by |-> y, code |-> exchange[y].code, form |-> exchange[y].form, claimed |-> now, process |-> process, tokens |-> issued' \ issued]
    <3>1. new \in grants' /\ ID(new) = i
      BY <1>c, <2>1 DEF ID
    <3>2. seen'[i] \in Nat
      BY <1>e, <2>1, Ticks DEF Inv, Keys
    <3> QED
      BY <3>1, <3>2 DEF Claims
  <2>2. CASE i # ID(exchange[y])
    <3>1. i \in DOMAIN seen /\ seen'[i] = seen[i]
      BY <1>e, <2>2
    <3> QED
      BY <1>c, <3>1 DEF Inv, Claims, ID, CodeReplayID
  <2> QED
    BY <2>1, <2>2
<1>8. ASSUME NEW a \in accepted' PROVE Access(a)'
  BY <1>a, <1>b, <1>c, <1>d, <1>e DEF Inv, Access
<1> QED
  BY <1>1, <1>2, <1>3, <1>4, <1>5, <1>6, <1>7, <1>8 DEF Inv

\* The tokens a refresh token is exchanged for go back to the same consent.
LEMMA handleRefreshTokenGrantInv ==
  ASSUME Inv, NEW w \in issued, handleRefreshTokenGrant(w)
  PROVE  Inv'
<1>a. UNCHANGED <<now, process, key, seen, exchange, tried, grants, accepted>>
  BY DEF handleRefreshTokenGrant
<1>b. w.key = key /\ w.purpose = "refresh"
  BY DEF handleRefreshTokenGrant, decodeToken, open, Fresh
<1>c. \A v \in issued' \ issued : /\ v.purpose \in {"access", "refresh"} /\ v.key = key /\ v.process = process
                                  /\ v.payload.consent = w.payload.consent /\ v.payload.cred = w.payload.cred
  BY DEF handleRefreshTokenGrant, issueTokens, Tokens, seal, Token
<1>d. issued \subseteq issued'
  BY DEF handleRefreshTokenGrant, issueTokens
<1>1. Keys'
  BY <1>a, <1>b, <1>c, <1>d DEF Inv, Keys
<1>2. ASSUME NEW v \in issued' PROVE Value(v)'
  <2>1. CASE v \in issued
    BY <1>a, <2>1, OldValue DEF Inv, Keys
  <2>2. CASE v \notin issued
    <3>1. /\ v.purpose \in {"access", "refresh"} /\ v.key = key /\ v.process = process
          /\ v.payload.consent = w.payload.consent /\ v.payload.cred = w.payload.cred
      BY <1>c, <2>2
    <3>2. key \in Nat /\ (~ConfiguredKey => key = process /\ w.process = process)
      BY <1>b DEF Inv, Keys, Value
    <3>3. PICK g \in grants : Behind(g, w)
      BY <1>b DEF Inv, Value
    <3>4. Behind(g, v)
      BY <3>1, <3>2, <3>3 DEF Behind
    <3> QED
      BY <1>a, <3>1, <3>2, <3>4 DEF Value, Behind
  <2> QED
    BY <2>1, <2>2
<1>3. ASSUME NEW x \in Exchanges PROVE Checked(x)'
  BY <1>a, <1>b, <1>c, <1>d DEF Inv, Checked, Sealed
<1>4. ASSUME NEW g \in grants' PROVE Grant(g)'
  BY <1>a, <1>b, <1>c, <1>d DEF Inv, Grant, Keys, Sealed
<1>5. ASSUME NEW g \in grants' PROVE Burnt(g)'
  BY <1>a, <1>b, <1>c, <1>d DEF Inv, Burnt, ID, CodeReplayID
<1>6. ASSUME NEW g \in grants', NEW h \in grants' PROVE Once(g, h)'
  BY <1>a, <1>b, <1>c, <1>d DEF Inv, Once
<1>7. ASSUME NEW i \in DOMAIN seen' PROVE Claims(i)'
  BY <1>a, <1>b, <1>c, <1>d DEF Inv, Claims, ID, CodeReplayID
<1>8. ASSUME NEW a \in accepted' PROVE Access(a)'
  BY <1>a, <1>b, <1>c, <1>d DEF Inv, Access
<1> QED
  BY <1>1, <1>2, <1>3, <1>4, <1>5, <1>6, <1>7, <1>8 DEF Inv

\* Only a fresh access token lets a request through.
LEMMA CredentialFromRequestInv ==
  ASSUME Inv, NEW w \in issued, CredentialFromRequest(w)
  PROVE  Inv'
<1>a. UNCHANGED <<now, process, key, issued, seen, exchange, tried, grants>>
  BY DEF CredentialFromRequest
<1>b. accepted' = {[cred |-> w.payload.cred, value |-> w, at |-> now, process |-> process]}
  BY DEF CredentialFromRequest
<1>c. w.key = key /\ w.purpose = "access" /\ Unix(now) < w.payload.expires
  BY DEF CredentialFromRequest, decodeToken, open, Fresh
<1>1. Keys'
  BY <1>a, <1>b, <1>c DEF Inv, Keys
<1>2. ASSUME NEW v \in issued' PROVE Value(v)'
  BY <1>a, <1>b, <1>c DEF Inv, Value, Keys
<1>3. ASSUME NEW x \in Exchanges PROVE Checked(x)'
  BY <1>a, <1>b, <1>c DEF Inv, Checked, Sealed
<1>4. ASSUME NEW g \in grants' PROVE Grant(g)'
  BY <1>a, <1>b, <1>c DEF Inv, Grant, Keys, Sealed
<1>5. ASSUME NEW g \in grants' PROVE Burnt(g)'
  BY <1>a, <1>b, <1>c DEF Inv, Burnt, ID, CodeReplayID
<1>6. ASSUME NEW g \in grants', NEW h \in grants' PROVE Once(g, h)'
  BY <1>a, <1>b, <1>c DEF Inv, Once
<1>7. ASSUME NEW i \in DOMAIN seen' PROVE Claims(i)'
  BY <1>a, <1>b, <1>c DEF Inv, Claims, ID, CodeReplayID
<1>8. ASSUME NEW a \in accepted' PROVE Access(a)'
  <2>1. a.cred = w.payload.cred /\ a.value = w /\ a.at = now /\ a.process = process
    BY <1>b
  <2>2. now \in Nat /\ (~ConfiguredKey => w.process = process)
    BY <1>c DEF Inv, Keys, Value
  <2> QED
    BY <1>a, <1>c, <2>1, <2>2 DEF Access, Unix
<1> QED
  BY <1>1, <1>2, <1>3, <1>4, <1>5, <1>6, <1>7, <1>8 DEF Inv

\* A restart forgets the claims; where it takes a new key, no code outlives
\* them, and where it does not, the process is another one.
LEMMA RestartInv ==
  ASSUME Inv, Restart
  PROVE  Inv'
<1>a. UNCHANGED <<now, issued, grants, accepted>> /\ DOMAIN seen' = {} /\ DOMAIN exchange' = Exchanges /\ \A x \in Exchanges : exchange'[x] = None
  BY DEF Restart
<1>b. process \in Nat /\ key \in Nat /\ key <= process /\ process' = process + 1 /\ key' = IF ConfiguredKey THEN key ELSE process + 1
  BY DEF Restart, ResolveMasterKey, Inv, Keys
<1>1. Keys'
  BY <1>a, <1>b DEF Inv, Keys
<1>2. ASSUME NEW v \in issued' PROVE Value(v)'
  BY <1>a, <1>b DEF Inv, Value, Keys
<1>3. ASSUME NEW x \in Exchanges PROVE Checked(x)'
  BY <1>a, <1>b DEF Inv, Checked, Sealed
<1>4. ASSUME NEW g \in grants' PROVE Grant(g)'
  BY <1>a, <1>b DEF Inv, Grant, Keys, Sealed
<1>5. ASSUME NEW g \in grants' PROVE Burnt(g)'
  <2>1. g.code.key \in Nat /\ g.code.key <= key /\ g.process \in Nat /\ g.process <= process
    BY <1>a DEF Inv, Grant, Sealed, Value
  <2> QED
    BY <1>b, <2>1 DEF Burnt, ID, CodeReplayID
<1>6. ASSUME NEW g \in grants', NEW h \in grants' PROVE Once(g, h)'
  BY <1>a, <1>b DEF Inv, Once
<1>7. ASSUME NEW i \in DOMAIN seen' PROVE Claims(i)'
  BY <1>a, <1>b DEF Inv, Claims, ID, CodeReplayID
<1>8. ASSUME NEW a \in accepted' PROVE Access(a)'
  BY <1>a, <1>b DEF Inv, Access
<1> QED
  BY <1>1, <1>2, <1>3, <1>4, <1>5, <1>6, <1>7, <1>8 DEF Inv

\* Time passes.
LEMMA TickInv ==
  ASSUME Inv, Tick
  PROVE  Inv'
<1>a. now \in Nat /\ now' = now + 1 /\ UNCHANGED <<process, key, issued, seen, exchange, grants, accepted>>
  BY DEF Tick, Inv, Keys
<1>1. Keys'
  BY <1>a DEF Inv, Keys
<1>2. ASSUME NEW v \in issued' PROVE Value(v)'
  BY <1>a DEF Inv, Value, Keys
<1>3. ASSUME NEW x \in Exchanges PROVE Checked(x)'
  BY <1>a DEF Inv, Checked, Sealed
<1>4. ASSUME NEW g \in grants' PROVE Grant(g)'
  BY <1>a DEF Inv, Grant, Keys, Sealed
<1>5. ASSUME NEW g \in grants' PROVE Burnt(g)'
  <2>1. Burnt(g) /\ Grant(g) /\ g \in grants /\ now \in Nat
    BY <1>a DEF Inv, Keys
  <2>2. ID(g) \in DOMAIN seen => seen[ID(g)] \in Nat
    BY DEF Inv, Claims, ID, CodeReplayID
  <2> QED
    BY <1>a, <2>1, <2>2, Ticks DEF Burnt, Grant, ID, CodeReplayID
<1>6. ASSUME NEW g \in grants', NEW h \in grants' PROVE Once(g, h)'
  BY <1>a DEF Inv, Once
<1>7. ASSUME NEW i \in DOMAIN seen' PROVE Claims(i)'
  BY <1>a DEF Inv, Claims, ID, CodeReplayID
<1>8. ASSUME NEW a \in accepted' PROVE Access(a)'
  BY <1>a DEF Inv, Access
<1> QED
  BY <1>1, <1>2, <1>3, <1>4, <1>5, <1>6, <1>7, <1>8 DEF Inv

-----------------------------------------------------------------------------
\* Every step of the authorization server keeps the invariant.
LEMMA NextInv == Inv /\ [Next]_vars => Inv'
<1> SUFFICES ASSUME Inv, [Next]_vars PROVE Inv'
  OBVIOUS
<1>1. ASSUME NEW x \in Exchanges, RedeemCode(x) PROVE Inv'
  BY <1>1, RefusedInv, RedeemedInv
<1>2. CASE UNCHANGED vars
  <2>1. UNCHANGED <<now, process, key, issued, seen, exchange, tried, grants, accepted>>
    BY <1>2 DEF vars
  <2> QED
    BY <2>1 DEF Inv, Keys, Value, Checked, Grant, Burnt, Once, Claims, Access, Behind, Sealed, ID, CodeReplayID
<1> QED
  BY <1>1, <1>2, handleRegisterInv, handleAuthorizePostInv, CheckCodeInv, handleRefreshTokenGrantInv,
     CredentialFromRequestInv, RestartInv, TickInv
  DEF Next

\* The invariant holds of every reachable state.
LEMMA Invariance == Spec => []Inv
BY InitInv, NextInv, PTL DEF Spec

-----------------------------------------------------------------------------
\* The text of a code is exchanged once within the code's validity, however the
\* checks and the claims of any number of exchanges interleave and however many
\* texts decode to that code: by all processes of a server that generates its
\* key, and by each process of one whose key is configured. A restart of the
\* latter forgets the claim, and another text of the same code is another claim.
THEOREM ExchangedOnce == Spec => []RedeemedOnce
<1>1. Inv => RedeemedOnce
  <2> SUFFICES ASSUME Inv, NEW g \in grants, NEW h \in grants, g.code = h.code, g.form = h.form,
                      ConfiguredKey => g.process = h.process,
                      {Unix(g.claimed), Unix(h.claimed)} \subseteq 0..(g.code.payload.expires - 1)
               PROVE  g = h
    BY DEF RedeemedOnce
  <2>1. g.code.payload.at + CodeTTL * TicksPerSecond \in Nat /\ g.code.payload.expires = Unix(g.code.payload.at + CodeTTL * TicksPerSecond)
    BY Ticks DEF Inv, Grant, Sealed, Value, ExpiresAt
  <2>2. g.code.payload.expires \in Nat
    BY <2>1, UnixMonotone
  <2>3. Unix(g.claimed) < g.code.payload.expires /\ Unix(h.claimed) < g.code.payload.expires
    BY <2>2
  <2> QED
    BY <2>3 DEF Inv, Once
<1> QED
  BY <1>1, Invariance, PTL

\* Whatever value is presented where, a request that is let through bears the
\* credential of a consent whose code was redeemed, and where the key is
\* generated, one of this very process.
THEOREM NoAccessWithoutConsent == Spec => []AccessFollowsConsent
<1>1. Inv => AccessFollowsConsent
  <2> SUFFICES ASSUME Inv, NEW a \in accepted
               PROVE  /\ a.value.purpose = "access"
                      /\ \E g \in grants :
                           /\ g.code.nonce = a.value.payload.consent
                           /\ g.code.payload.cred = a.cred
                           /\ ~ConfiguredKey =>
                                {a.value.process, g.code.process, g.code.payload.client.process} = {a.process}
    BY DEF AccessFollowsConsent
  <2>1. Access(a) /\ a.value \in issued
    BY DEF Inv, Access
  <2>2. PICK g \in grants : Behind(g, a.value)
    BY <2>1 DEF Inv, Access, Value
  <2> QED
    BY <2>1, <2>2 DEF Access, Behind
<1> QED
  BY <1>1, Invariance, PTL

\* However long an exchange stalls between reading the clock and Claim, the
\* access token it ends with is good no longer than the consent allows.
THEOREM NoLongerThanConsent == Spec => []ConsentBoundsAccess
<1>1. Inv => ConsentBoundsAccess
  <2> SUFFICES ASSUME Inv, NEW a \in accepted, NEW g \in grants, a.value \in g.tokens
               PROVE  a.at < Bound(g.code)
    BY DEF ConsentBoundsAccess, Bound
  <2>1. Access(a) /\ Grant(g)
    BY DEF Inv
  <2>2. a.value.payload.expires \in 0..Unix(Bound(g.code)) /\ Unix(a.at) < a.value.payload.expires /\ a.at \in Nat
    BY <2>1 DEF Access, Grant
  <2>3. Bound(g.code) \in Nat
    BY <2>1, Ticks DEF Bound, Inv, Grant, Sealed, Value
  <2>4. Unix(a.at) \in Nat /\ Unix(Bound(g.code)) \in Nat
    BY <2>2, <2>3, UnixMonotone
  <2>5. Unix(a.at) < Unix(Bound(g.code))
    BY <2>2, <2>4
  <2> QED
    BY <2>2, <2>3, <2>5, UnixMonotone
<1> QED
  BY <1>1, Invariance, PTL

\* A request that fails its checks burns no code: what is claimed was
\* exchanged.
THEOREM NothingElseBurns == Spec => []OnlyGrantsBurn
<1>1. Inv => OnlyGrantsBurn
  BY DEF Inv, Claims, OnlyGrantsBurn, ID
<1> QED
  BY <1>1, Invariance, PTL
=============================================================================
