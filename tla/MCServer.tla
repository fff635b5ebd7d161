------------------------------ MODULE MCServer ------------------------------
(* Two releases of a target whose catalogues differ, and environments of   *)
(* which three start a server, one probes one, and each of the others      *)
(* breaks one rule.                                                        *)
EXTENDS Server, TLC

CONSTANTS datasets, smb, nfs

MCKeyOf == datasets :> "datasets" @@ smb :> "shares" @@ nfs :> "shares"
MCMaxRows == datasets :> 2 @@ smb :> 1 @@ nfs :> 1

-----------------------------------------------------------------------------
(* The target: setacl is a job in the first release only, app.query comes  *)
(* to do more than read, and chart.query is gone.                          *)

MCMethods == {"app.query", "chart.query", "core.bulk", "core.ping", "core.job_abort", "filesystem.get",
              "filesystem.setacl", "pool.export", "sharing.smb.create", "sharing.smb.delete",
              "sharing.smb.update"}
MCDeniedWith == [m \in MCMethods |-> IF m = "filesystem.setacl" THEN {"recursive"} ELSE {}]

Reads == [roles |-> {"READONLY_ADMIN", "other"}, job |-> FALSE, pipe |-> FALSE]
Writes == [Reads EXCEPT !.roles = {"other"}]
Unroled == [Reads EXCEPT !.roles = {}]
Job(info) == [info EXCEPT !.job = TRUE]

Common ==
  "core.bulk" :> Job(Writes) @@ "core.ping" :> Unroled @@ "core.job_abort" :> Unroled
  @@ "filesystem.get" :> [Job(Reads) EXCEPT !.pipe = TRUE] @@ "pool.export" :> Job(Writes)
  @@ "sharing.smb.create" :> Writes @@ "sharing.smb.delete" :> Writes @@ "sharing.smb.update" :> Writes
MCCatalogue ==
  [r \in {"25.10", "26.0"} |->
     IF r = "25.10" THEN Common @@ "app.query" :> Reads @@ "chart.query" :> Reads @@ "filesystem.setacl" :> Job(Writes)
     ELSE Common @@ "app.query" :> Writes @@ "filesystem.setacl" :> Writes]

MCQueries == {{}, {"app.query", "pool.export"}, MCMethods}

-----------------------------------------------------------------------------
(* The lists that concern tools get.                                       *)

Row == [object |-> TRUE, fields |-> {"name", "state"}]
Wide == [object |-> TRUE, fields |-> {"name", "state", "config"}]
Text == [object |-> FALSE, fields |-> {}]
MCLists == {<<>>, <<Row>>, <<Wide>>, <<Text, Wide>>, <<Row, Wide>>, <<Row, Row, Wide>>, <<Wide, Text, Row>>}

-----------------------------------------------------------------------------
(* The environments.                                                       *)

Clear == [stdio |-> FALSE, healthcheck |-> FALSE, target |-> "ok", listen |-> "unset", apiKey |-> FALSE,
          cert |-> FALSE, key |-> FALSE, plaintext |-> "true", issuer |-> "ok", masterKey |-> "ok",
          accessTTL |-> "unset", refreshTTL |-> "zero", writes |-> "true"]
Secure == [Clear EXCEPT !.cert = TRUE, !.key = TRUE, !.plaintext = "unset", !.issuer = "unset",
                        !.masterKey = "unset", !.accessTTL = "positive", !.writes = "bad"]
Stdio == [Clear EXCEPT !.stdio = TRUE, !.apiKey = TRUE, !.plaintext = "false", !.listen = "bad"]

MCEnvironments ==
  {Clear, Secure, Stdio, [Clear EXCEPT !.healthcheck = TRUE], [Stdio EXCEPT !.healthcheck = TRUE],
   [Clear EXCEPT !.target = "unset"], [Clear EXCEPT !.target = "bad"], [Clear EXCEPT !.listen = "bad"],
   [Clear EXCEPT !.apiKey = TRUE], [Clear EXCEPT !.plaintext = "false"], [Clear EXCEPT !.plaintext = "bad"],
   [Clear EXCEPT !.cert = TRUE], [Secure EXCEPT !.cert = FALSE],
   [Clear EXCEPT !.issuer = "bad"], [Clear EXCEPT !.masterKey = "bad"],
   [Clear EXCEPT !.accessTTL = "zero"], [Clear EXCEPT !.accessTTL = "bad"],
   [Clear EXCEPT !.refreshTTL = "negative"], [Stdio EXCEPT !.apiKey = FALSE], [Stdio EXCEPT !.target = "bad"]}
=============================================================================
