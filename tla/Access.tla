------------------------------- MODULE Access -------------------------------
(***************************************************************************)
(* Grants of namespaces to users (internal/authz), managed by              *)
(* administrators' requests and read, one principal after the other, by    *)
(* the requests that need a user's scope: chats and scans.                 *)
(***************************************************************************)
EXTENDS Accounts, TLC

CONSTANTS
  GrantIds,
  Namespaces,
  Grantees,    \* bound: the users grants are made to
  StartGrants  \* bound: what may have been granted at first

VARIABLES
  grants,
  issued, \* ids of grants that have been given out
  scope,  \* the scope each request has gathered
  sure, maybe  \* history: what each grant gave a request's user throughout
               \* it, and what all of them did at any moment of it

grantVars == <<grants, issued, scope>>
vars == <<accountVars, gateVars, held, grantVars, sure, maybe>>

NoGrant == [to |-> <<None, None>>, ns |-> {}, verbs |-> {}, live |-> FALSE]

(* A grant names its user by id or by user name.                           *)
Principals(u) == {<<u, "id">>, <<u, "name">>}
Verbs == {"*", "destroy"}
Contents == [ns : (SUBSET Namespaces) \ {{}}, verbs : (SUBSET Verbs) \ {{}}]
GrantTo(p, x) == [to |-> p, ns |-> x.ns, verbs |-> x.verbs, live |-> TRUE]

ASSUME AccessAssumption ==
  /\ Grantees \subseteq Users
  /\ \A x \in StartGrants : \/ x = NoGrant
                          \/ \E u \in Users, y \in Contents :
                               \E p \in Principals(u) : x = GrantTo(p, y)

(* What one grant gives a user, as the documentation of a grant has it.    *)
Nothing == [ns |-> {}, destroy |-> FALSE]
GivenBy(grant, u) ==
  IF grant.live /\ grant.to \in Principals(u)
  THEN [ns |-> IF "*" \in grant.verbs THEN grant.ns ELSE {},
        destroy |-> "destroy" \in grant.verbs]
  ELSE Nothing

NoScope == [ns |-> {}, destroy |-> FALSE, admin |-> FALSE, timely |-> {},
            want |-> NoGrant, grant |-> None]

Init ==
  /\ AccountsInit
  /\ grants \in [GrantIds -> StartGrants]
  /\ issued = {g \in GrantIds : grants[g] # NoGrant}
  /\ scope = [c \in Callers |-> NoScope]
  /\ sure = [c \in Callers |-> [g \in GrantIds |-> Nothing]]
  /\ maybe = [c \in Callers |-> Nothing]

(* A scope is being gathered from the gate until it is handed over.        *)
Gathering(r) == r.pc \in {"scope", "scopeByName", "scoped"}

Both(x, y) == [ns |-> x.ns \cap y.ns, destroy |-> x.destroy /\ y.destroy]

ObserveGrants ==
  LET now(c, g) == GivenBy(grants'[g], req'[c].user)
  IN  /\ sure' = [c \in Callers |-> [g \in GrantIds |->
                    IF ~Gathering(req'[c]) THEN Nothing
                    ELSE IF Gathering(req[c]) THEN Both(sure[c][g], now(c, g))
                    ELSE now(c, g)]]
      /\ maybe' = [c \in Callers |->
                    IF ~Gathering(req'[c]) THEN Nothing
                    ELSE [ns |-> maybe[c].ns \cup UNION {now(c, g).ns : g \in GrantIds},
                          destroy |-> maybe[c].destroy \/ \E g \in GrantIds : now(c, g).destroy]]

---------------------------------------------------------------------------
(* EffectiveScope.                                                         *)

Live == {g \in GrantIds : grants[g].live}

(* Mutant: a grant of destruction counts as one of its namespaces. *)
GatheredAnyVerb(p, ids) ==
  LET found == {g \in ids : grants[g].to = p}
  IN  [ns |-> UNION {grants[g].ns : g \in found},
       destroy |-> \E g \in found : "destroy" \in grants[g].verbs]

(* What the grants to one principal add, of those that are in time.        *)
Gathered(p, ids) ==
  LET found == {g \in ids : grants[g].to = p}
  IN  [ns |-> UNION {grants[g].ns : g \in {h \in found : "*" \in grants[h].verbs}},
       destroy |-> \E g \in found : "destroy" \in grants[g].verbs]

(* A role that may do everything has every namespace; for another user the *)
(* grants to his id are listed, then those to his name.  The clock is read *)
(* once, before both lists.                                                *)
EffectiveScope(c) ==
  /\ req[c].pc = "scope"
  /\ IF req[c].row.role = "admin"
     THEN /\ req' = [req EXCEPT ![c].pc = "scoped"]
          /\ scope' = [scope EXCEPT ![c] = [NoScope EXCEPT !.admin = TRUE]]
     ELSE LET some == Gathered(<<req[c].user, "id">>, Live)
          IN  /\ req' = [req EXCEPT ![c].pc = "scopeByName"]
              /\ scope' = [scope EXCEPT ![c] = [NoScope EXCEPT !.ns = some.ns,
                              !.destroy = some.destroy, !.timely = Live]]
  /\ UNCHANGED <<accountVars, tokens, requests, grants, issued>>

ScopeByName(c) ==
  /\ req[c].pc = "scopeByName"
  /\ LET more == Gathered(<<req[c].user, "name">>, Live \cup scope[c].timely)
     IN  scope' = [scope EXCEPT ![c].ns = @ \cup more.ns,
                                ![c].destroy = @ \/ more.destroy,
                                ![c].timely = {}]
  /\ req' = [req EXCEPT ![c].pc = "scoped"]
  /\ UNCHANGED <<accountVars, tokens, requests, grants, issued>>

(* The chat, or the scan, is given its scope.                              *)
Scoped(c) ==
  /\ req[c].pc = "scoped" /\ Answer(c)
  /\ scope' = [scope EXCEPT ![c] = NoScope]
  /\ UNCHANGED <<accountVars, tokens, requests, grants, issued>>

---------------------------------------------------------------------------
(* Grants are managed by administrators' requests.                         *)

CreateGrant(c) ==
  /\ req[c].pc = "createGrant"
  /\ \/ \E g \in GrantIds, u \in Grantees, x \in Contents :
          /\ g \notin issued /\ issued' = issued \cup {g}
          /\ \E p \in Principals(u) : grants' = [grants EXCEPT ![g] = GrantTo(p, x)]
     \/ UNCHANGED <<grants, issued>>   \* the request is invalid
  /\ Answer(c) /\ UNCHANGED <<accountVars, tokens, requests, scope>>

(* The row is read whole, changed and written whole; a grant that has      *)
(* lapsed stays as it is unless it is given a new end.                     *)
ReadGrant(c) ==
  /\ req[c].pc = "updateGrant"
  /\ \E g \in GrantIds, x \in Contents, renew \in BOOLEAN :
       IF grants[g] # NoGrant /\ (grants[g].live \/ renew)
       THEN /\ scope' = [scope EXCEPT ![c].grant = g, ![c].want = GrantTo(grants[g].to, x)]
            /\ req' = [req EXCEPT ![c].pc = "writeGrant"]
       ELSE Answer(c) /\ UNCHANGED scope
  /\ UNCHANGED <<accountVars, tokens, requests, grants, issued>>

WriteGrant(c) ==
  /\ req[c].pc = "writeGrant"
  /\ LET g == scope[c].grant
     IN  grants' = [grants EXCEPT ![g] = IF @ = NoGrant THEN @ ELSE scope[c].want]
  /\ scope' = [scope EXCEPT ![c] = NoScope]
  /\ Answer(c) /\ UNCHANGED <<accountVars, tokens, requests, issued>>

DeleteGrant(c) ==
  /\ req[c].pc = "deleteGrant"
  /\ \E g \in GrantIds : grants' = [grants EXCEPT ![g] = NoGrant]
  /\ Answer(c) /\ UNCHANGED <<accountVars, tokens, requests, issued, scope>>

(* A grant's end passes.                                                   *)
GrantLapses(g) ==
  /\ grants[g].live /\ grants' = [grants EXCEPT ![g].live = FALSE]
  /\ UNCHANGED <<accountVars, gateVars, issued, scope>>

GrantOps == {"createGrant", "updateGrant", "deleteGrant", "scope"}

GrantStep(c) ==
  \/ EffectiveScope(c) \/ ScopeByName(c) \/ Scoped(c)
  \/ CreateGrant(c) \/ ReadGrant(c) \/ WriteGrant(c) \/ DeleteGrant(c)

AccountStep(c) ==
  \/ \E u \in Users, password \in {1, 2} : Authenticate(c, u, password)
  \/ Login(c)
  \/ \E t \in Tokens, op \in UserOps \cup GrantOps : Arrive(c, t, op)
  \/ Gate(c) \/ UserStep(c)

Next ==
  /\ \/ \E c \in Callers : GrantStep(c) \/ (AccountStep(c) /\ UNCHANGED grantVars)
     \/ \E t \in Tokens : Lapse(t) /\ UNCHANGED grantVars
     \/ \E g \in GrantIds : GrantLapses(g)
     \/ Restart /\ scope' = [c \in Callers |-> NoScope] /\ UNCHANGED <<grants, issued>>
  /\ Observe /\ ObserveGrants

Spec == Init /\ [][Next]_vars

---------------------------------------------------------------------------
(* A scope a chat or a scan is given holds what any one grant gave its     *)
(* user throughout the time it was gathered, and nothing that was not      *)
(* given at some moment of it -- whatever grants were created, changed,    *)
(* revoked or ran out between the reading of the one principal and of the  *)
(* other.                                                                  *)
ScopeIsGranted ==
  \A c \in Callers : req[c].pc = "scoped" /\ ~scope[c].admin =>
    /\ scope[c].ns \subseteq maybe[c].ns /\ (scope[c].destroy => maybe[c].destroy)
    /\ \A g \in GrantIds : /\ sure[c][g].ns \subseteq scope[c].ns
                           /\ sure[c][g].destroy => scope[c].destroy
=============================================================================
