---------------------------- MODULE OAuthServer ----------------------------
(***************************************************************************)
(* The OAuth 2.1 authorization server of internal/oauth and the credential *)
(* check of internal/server/session.go it feeds. The server stores nothing *)
(* but the replay cache: clients, codes and tokens are self-contained      *)
(* values that any holder may present at any endpoint, at any time, before *)
(* or after a restart.                                                     *)
(*                                                                         *)
(* A refusal changes nothing and is no step, except that of Claim, which   *)
(* sweeps. Time is in ticks, so that expiries, which are whole seconds,    *)
(* and the replay cache, which is exact, do not coincide.                  *)
(***************************************************************************)
EXTENDS Integers, FiniteSets

CONSTANTS
  Creds,            \* TrueNAS API keys the target accepts
  Uris,             \* redirect URIs
  KindOf,           \* KindOf[u]: "https", "loopback" or "other"
  Verifiers,        \* PKCE code verifiers; S256 is taken to be injective
  Forms,            \* the texts that decode to one and the same sealed value
  Exchanges,        \* requests to the token endpoint with an authorization code
  CodeTTL,          \* in seconds, 60 in the code
  AccessTokenTTL,   \* in seconds
  RefreshTokenTTL,  \* in seconds; 0 disables refresh tokens
  TicksPerSecond,
  ConfiguredKey,    \* whether the operator configured a master key
  MaxTime,          \* bound on the clock
  MaxSealed,        \* bound on the values sealed
  MaxRestarts,      \* bound on the restarts
  None              \* no exchange under way

ASSUME OAuthAssumption ==
  /\ KindOf \in [Uris -> {"https", "loopback", "other"}]
  /\ {CodeTTL, AccessTokenTTL, TicksPerSecond} \subseteq Nat \ {0}
  /\ {RefreshTokenTTL, MaxTime, MaxSealed, MaxRestarts} \subseteq Nat
  /\ ConfiguredKey \in BOOLEAN
  /\ None \notin Creds \cup Uris \cup Verifiers

VARIABLES
  now,       \* the clock, in ticks
  process,   \* how often the server was restarted
  key,       \* the master key
  issued,    \* every client_id, code and token sealed so far
  seen,      \* ReplayCache.seen, from replay IDs to the tick one is claimed until
  exchange,  \* the exchanges between their checks and their Claim
  tried,     \* the exchanges that have begun
  grants,    \* the exchanges that succeeded
  accepted   \* the last API request let through with an access token

vars == <<now, process, key, issued, seen, exchange, tried, grants, accepted>>

-----------------------------------------------------------------------------
Unix(t) == t \div TicksPerSecond
ExpiresAt(t, ttl) == Unix(t + ttl * TicksPerSecond)

\* The payloads. A token remembers the consent its credential comes from, and
\* every value the process that sealed it: neither is in the code.
Client(uris) == [uris |-> uris]
Code(cred, client, uri, challenge) ==
  [cred |-> cred, client |-> client, uri |-> uri, challenge |-> challenge,
   expires |-> ExpiresAt(now, CodeTTL), at |-> now]
Token(cred, ttl, t, consent) ==
  [cred |-> cred, expires |-> ExpiresAt(t, ttl), consent |-> consent]

Sealed(purpose) == {v \in issued : v.purpose = purpose}

\* A random nonce makes each sealed value another one.
seal(purpose, payload, n) ==
  [purpose |-> purpose, key |-> key, nonce |-> Cardinality(issued) + n,
   process |-> process, payload |-> payload]

\* Client identifiers are signed, with a key of their own, not sealed.
DecodeClientID(v) == v.key = key /\ v.purpose = "client"

\* Mutant: access and refresh tokens are sealed for one and the same purpose.
openAnyToken(purpose, v) ==
  v.key = key /\ (v.purpose = purpose \/ {v.purpose, purpose} = {"access", "refresh"})

open(purpose, v) == v.key = key /\ v.purpose = purpose

Fresh(v) == Unix(now) < v.payload.expires

DecodeCode(v) == open("code", v) /\ Fresh(v)
decodeToken(purpose, v) == open(purpose, v) /\ Fresh(v)

\* The SHA-256 of the text as it was presented, not of what it decodes to.
CodeReplayID(c, form) == <<c, form>>

-----------------------------------------------------------------------------
TypeOK ==
  /\ now \in 0..MaxTime
  /\ process \in 0..MaxRestarts /\ key \in 0..process
  /\ \A v \in issued :
       /\ v.purpose \in {"client", "code", "access", "refresh"}
       /\ v.process \in 0..process /\ v.key \in 0..key
  /\ Cardinality({v.nonce : v \in issued}) = Cardinality(issued)
  /\ DOMAIN seen \subseteq Sealed("code") \X Forms
  /\ \A i \in DOMAIN seen : seen[i] \in 0..(MaxTime + CodeTTL * TicksPerSecond)
  /\ exchange \in [Exchanges -> {None} \cup [code : Sealed("code"), form : Forms, now : 0..now]]
  /\ tried \subseteq Exchanges
  /\ \A g \in grants : g.code \in Sealed("code") /\ g.form \in Forms /\ g.claimed \in 0..now /\ g.process \in 0..process

Init ==
  /\ now = 0 /\ process = 0 /\ key = 0
  /\ issued = {}
  /\ seen = [i \in {} |-> 0]
  /\ exchange = [x \in Exchanges |-> None]
  /\ tried = {}
  /\ grants = {} /\ accepted = {}

-----------------------------------------------------------------------------
(* Registration and consent.                                               *)

validateRedirectURIScheme(u) == KindOf[u] \in {"https", "loopback"}

\* EncodeClientID is deterministic; the second it is stamped with is left out.
handleRegister(uris) ==
  /\ Cardinality(issued) < MaxSealed
  /\ uris # {} /\ \A u \in uris : validateRedirectURIScheme(u)
  /\ \A v \in Sealed("client") : v.key = key => v.payload.uris # uris
  /\ issued' = issued \cup {seal("client", Client(uris), 1)}
  /\ UNCHANGED <<now, process, key, seen, exchange, tried, grants, accepted>>

ValidateRedirectURI(v, u) == u \in v.payload.uris

\* The S256 challenge is mandatory: there is always a verifier to match.
parseAuthorizeRequest(v, u) == DecodeClientID(v) /\ ValidateRedirectURI(v, u)

\* The API key is one the target accepts: Validate has opened a session with
\* it. Nothing read before that call can change while it runs.
handleAuthorizePost(v, u, verifier, cred) ==
  /\ Cardinality(issued) < MaxSealed
  /\ parseAuthorizeRequest(v, u)
  /\ issued' = issued \cup {seal("code", Code(cred, v, u, verifier), 1)}
  /\ UNCHANGED <<now, process, key, seen, exchange, tried, grants, accepted>>

-----------------------------------------------------------------------------
(* The token endpoint. It reads the clock and checks the code, then claims *)
(* the code by a clock read of its own: time passes in between, and other  *)
(* exchanges run.                                                          *)

sweepLocked == [i \in {j \in DOMAIN seen : now < seen[j]} |-> seen[i]]
Claimed(id) == id \in DOMAIN seen /\ now < seen[id]
Claiming(id, until) == [i \in DOMAIN sweepLocked \cup {id} |-> IF i = id THEN until ELSE seen[i]]

\* Mutant: the claim is given up one tick before the code expires.
ClaimShort(id) == Claiming(id, now + CodeTTL * TicksPerSecond - 1)

Claim(id) == Claiming(id, now + CodeTTL * TicksPerSecond)

\* Mutant: the code is claimed before the request is checked.
CheckCodeClaims(x, c, form, client, u, verifier) ==
  /\ x \notin tried
  /\ DecodeCode(c)
  /\ tried' = tried \cup {x}
  /\ seen' = Claim(CodeReplayID(c, form))
  /\ exchange' = [exchange EXCEPT ![x] =
       IF client = c.payload.client /\ u = c.payload.uri /\ verifier = c.payload.challenge
       THEN [code |-> c, form |-> form, now |-> now] ELSE None]
  /\ UNCHANGED <<now, process, key, issued, grants, accepted>>

\* handleAuthorizationCodeGrant down to the PKCE check.
CheckCode(x, c, form, client, u, verifier) ==
  /\ x \notin tried
  /\ DecodeCode(c)
  /\ tried' = tried \cup {x}
  /\ exchange' = [exchange EXCEPT ![x] =
       IF client = c.payload.client /\ u = c.payload.uri /\ verifier = c.payload.challenge
       THEN [code |-> c, form |-> form, now |-> now] ELSE None]
  /\ UNCHANGED <<now, process, key, issued, seen, grants, accepted>>

Tokens(cred, t, consent) ==
  {seal("access", Token(cred, AccessTokenTTL, t, consent), 1)} \cup
  (IF RefreshTokenTTL > 0
   THEN {seal("refresh", Token(cred, RefreshTokenTTL, t, consent), 2)} ELSE {})

\* Mutant: the tokens are stamped with the time they are sealed.
issueTokensLate(cred, t, consent) == issued' = issued \cup Tokens(cred, now, consent)

issueTokens(cred, t, consent) == issued' = issued \cup Tokens(cred, t, consent)

\* Its end: Claim, and the tokens if it succeeds.
RedeemCode(x) ==
  /\ Cardinality(issued) < MaxSealed
  /\ exchange[x] # None
  /\ LET c == exchange[x].code
         id == CodeReplayID(c, exchange[x].form)
     IN IF Claimed(id)
        THEN /\ seen' = sweepLocked
             /\ UNCHANGED <<issued, grants>>
        ELSE /\ seen' = Claim(id)
             /\ issueTokens(c.payload.cred, exchange[x].now, c.nonce)
             /\ grants' = grants \cup 
                  {[by |-> x, code |-> c, form |-> exchange[x].form, claimed |-> now,
                    process |-> process, tokens |-> issued' \ issued]}
  /\ exchange' = [exchange EXCEPT ![x] = None]
  /\ UNCHANGED <<now, process, key, tried, accepted>>

\* A refresh token is not used up.
handleRefreshTokenGrant(v) ==
  /\ Cardinality(issued) < MaxSealed
  /\ RefreshTokenTTL > 0
  /\ decodeToken("refresh", v)
  /\ issueTokens(v.payload.cred, now, v.payload.consent)
  /\ UNCHANGED <<now, process, key, seen, exchange, tried, grants, accepted>>

-----------------------------------------------------------------------------
\* CredentialFromRequest for a bearer value under the access token's prefix.
\* A raw API key, in either header, passes as it is.
CredentialFromRequest(v) ==
  /\ decodeToken("access", v)
  /\ accepted' = {[cred |-> v.payload.cred, value |-> v, at |-> now, process |-> process]}
  /\ UNCHANGED <<now, process, key, issued, seen, exchange, tried, grants>>

-----------------------------------------------------------------------------
ResolveMasterKey == IF ConfiguredKey THEN key ELSE process + 1

\* The process ends, with all it had in memory, and another one starts.
Restart ==
  /\ process < MaxRestarts
  /\ process' = process + 1
  /\ key' = ResolveMasterKey
  /\ seen' = [i \in {} |-> 0]
  /\ exchange' = [x \in Exchanges |-> None]
  /\ UNCHANGED <<now, issued, tried, grants, accepted>>

Tick ==
  /\ now < MaxTime
  /\ now' = now + 1
  /\ UNCHANGED <<process, key, issued, seen, exchange, tried, grants, accepted>>

-----------------------------------------------------------------------------
Next ==
  \/ \E uris \in SUBSET Uris : handleRegister(uris)
  \/ \E v \in issued, u \in Uris, verifier \in Verifiers, cred \in Creds :
       handleAuthorizePost(v, u, verifier, cred)
  \/ \E x \in Exchanges, c \in issued, form \in Forms, client \in Sealed("client"), u \in Uris,
       verifier \in Verifiers : CheckCode(x, c, form, client, u, verifier)
  \/ \E x \in Exchanges : RedeemCode(x)
  \/ \E v \in issued : handleRefreshTokenGrant(v) \/ CredentialFromRequest(v)
  \/ Restart \/ Tick

Spec == Init /\ [][Next]_vars

-----------------------------------------------------------------------------
(* Properties.                                                             *)

\* "A code redeemed twice within its own validity window is rejected on the
\* second attempt", as far as the code sees to it: where it is the same text
\* both times and, with a configured key, the same process. No matter how the
\* checks and claims of concurrent exchanges interleave, how long they stall in
\* between and, with a generated key, how often the server is restarted.
RedeemedOnce ==
  \A g, h \in grants :
    /\ g.code = h.code /\ g.form = h.form
    /\ ConfiguredKey => g.process = h.process
    /\ {Unix(g.claimed), Unix(h.claimed)} \subseteq 0..(g.code.payload.expires - 1)
    => g = h

\* "a code redeems exactly once regardless of what it decodes to": one
\* consent is exchanged for tokens once within the code's validity, whichever
\* texts that decode to the code are presented.
CodeRedeemedOnce ==
  \A g, h \in grants :
    /\ g.code = h.code
    /\ {Unix(g.claimed), Unix(h.claimed)} \subseteq 0..(g.code.payload.expires - 1)
    => g = h

\* "a value sealed as, say, a refresh token cannot be replayed as an access
\* token": an API request let through bears the credential a resource owner
\* submitted, and the code of that consent was redeemed by an exchange. Where
\* the key is generated, all of that happened in this process: "restarting will
\* invalidate every outstanding OAuth registration, code, and token".
AccessFollowsConsent ==
  \A a \in accepted :
    /\ a.value.purpose = "access"
    /\ \E g \in grants :
         /\ g.code.nonce = a.value.payload.consent
         /\ g.code.payload.cred = a.cred
         /\ ~ConfiguredKey =>
              {a.value.process, g.code.process, g.code.payload.client.process} = {a.process}

\* The access token a code was exchanged for is good for CodeTTL plus
\* AccessTokenTTL from the consent and not longer, however late the code is
\* redeemed and however long the exchange stalls on its way to Claim.
ConsentBoundsAccess ==
  \A a \in accepted, g \in grants :
    a.value \in g.tokens =>
      a.at < g.code.payload.at + (CodeTTL + AccessTokenTTL) * TicksPerSecond

\* "Checked last ... so a client that retries doesn't burn its one shot at
\* redemption": only a code that was exchanged for tokens is claimed.
OnlyGrantsBurn == \A i \in DOMAIN seen : \E g \in grants : CodeReplayID(g.code, g.form) = i
=============================================================================
