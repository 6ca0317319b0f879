------------------------------ MODULE MCAccess ------------------------------
(* The built-in administrator and a second user, both logged in; callers   *)
(* and grants are interchangeable.                                         *)
EXTENDS Access

CONSTANTS root, ann, t1, t2, c1, c2, n1

MCUsers == {root, ann}
MCStarts == {root :> "admin"} \cup
            {root :> "admin" @@ ann :> role : role \in {"admin", "operator"}}
MCGrantees == {ann}
MCStartGrants == {NoGrant, GrantTo(<<ann, "name">>, [ns |-> {n1}, verbs |-> {"*"}])}
MCLoggedIn == t1 :> root @@ t2 :> ann
MCTokens == {t1, t2}
MCCallers == {c1, c2}
(* Where grants have been made no request manages users or logs in: what   *)
(* such a request changes does not touch what grants there are.            *)
Beside == issued # {} =>
  \A c \in Callers : req[c].op \in GrantOps \cup {None} /\ req[c].pc # "login"

MCNext == Next /\ Beside'
MCSpec == Init /\ [][MCNext]_vars
MCSymmetry == Permutations(MCCallers) \cup Permutations(GrantIds)
=============================================================================
