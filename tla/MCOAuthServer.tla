--------------------------- MODULE MCOAuthServer ---------------------------
(* OAuthServer with redirect URIs of the three kinds to choose from.       *)
EXTENDS OAuthServer, TLC

CONSTANTS site, local, plain

MCKindOf == [u \in Uris |-> CASE u = site -> "https" [] u = local -> "loopback" [] OTHER -> "other"]
MCSymmetry == Permutations(Exchanges) \cup Permutations(Verifiers) \cup Permutations(Creds) \cup
              Permutations(Forms)
=============================================================================
