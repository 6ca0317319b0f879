--------------------------- MODULE MCCreateChannel ---------------------------
EXTENDS CreateChannel

CONSTANTS Config, Token, Cert

doc(object, body, secret, ask) ==
  [object |-> object, body |-> body, secret |-> secret, ask |-> ask]

Plain == doc(Config, 1, FALSE, FALSE)
Edited == doc(Config, 2, FALSE, FALSE)
Login == doc(Token, 1, TRUE, TRUE)
Key == doc(Cert, 1, TRUE, TRUE)

MCObjects == {Config, Token, Cert}
MCManifests == {<<Plain>>, <<Edited, Login, Key>>}
MCPolicies == {{}, {Config}}

(* Where a Secret of the cluster is decides nothing: it is never read, and no
   property of the run speaks of it.  States that differ in it are one. *)
SecretsUnread == <<now, denied, proposals, runs, call, cluster[Config], rehearsed>>
===============================================================================
