---------------------------- MODULE Access_proofs ----------------------------
(***************************************************************************)
(* Accounts, the gate and the grants, for any users, callers, tokens and    *)
(* grants: an administrator is left, nothing passes the gate without a      *)
(* login and a role, and a scope is what was granted.                       *)
(***************************************************************************)
EXTENDS Access, TLAPS

(* The shapes of what is stored and of a request at each of its places. *)
UserRow == Changes \cup {NoUser}
Ops == UserOps \cup GrantOps
PastGate == Ops \cup {"write", "scopeByName", "scoped", "writeGrant"}

Request ==
  [pc : {"idle", "login", "token", "user"} \cup PastGate, token : Tokens \cup {None},
   user : Users \cup {None}, op : Ops \cup {None}, target : Users \cup {None},
   row : UserRow, want : UserRow]

Shaped(r) ==
  /\ r.pc \notin {"idle", "token"} => r.user \in Users
  /\ r.pc \in {"token", "user"} \cup PastGate => r.token \in Tokens /\ r.op \in Ops
  /\ r.pc = "write" => r.target \in Users

Token == [user : Users \cup {None}, live : BOOLEAN]

Grant ==
  [to : (Users \X {"id", "name"}) \cup {<<None, None>>}, ns : SUBSET Namespaces,
   verbs : SUBSET Verbs, live : BOOLEAN]
Share == [ns : SUBSET Namespaces, destroy : BOOLEAN]
Scope ==
  [ns : SUBSET Namespaces, destroy : BOOLEAN, admin : BOOLEAN,
   timely : SUBSET GrantIds, want : Grant, grant : GrantIds \cup {None}]

UsersOK == users \in [Users -> UserRow] /\ ever \subseteq Users
TokensOK ==
  /\ tokens \in [Tokens -> Token]
  /\ \A t \in Tokens : tokens[t] = NoToken \/ tokens[t].user \in Users
RequestsOK ==
  /\ req \in [Callers -> Request]
  /\ \A c \in Callers : Shaped(req[c])
  /\ requests \in Nat
GrantsOK ==
  /\ grants \in [GrantIds -> Grant]
  /\ issued \subseteq GrantIds
  /\ \A g \in GrantIds : grants[g] = NoGrant \/ g \in issued
ScopesOK ==
  /\ scope \in [Callers -> Scope]
  /\ \A c \in Callers : req[c].pc = "writeGrant" =>
       /\ scope[c].grant \in issued
       /\ \/ grants[scope[c].grant] = NoGrant
          \/ scope[c].want.to = grants[scope[c].grant].to /\ scope[c].want.live
HistoryOK ==
  /\ held \in [Callers -> [login : BOOLEAN, role : BOOLEAN]]
  /\ sure \in [Callers -> [GrantIds -> Share]]
  /\ maybe \in [Callers -> Share]

TypeOK ==
  /\ UsersOK /\ TokensOK /\ RequestsOK
  /\ GrantsOK /\ ScopesOK /\ HistoryOK

-----------------------------------------------------------------------------
(* Type correctness *)

LEMMA Shapes ==
  /\ NoUser \in UserRow /\ NoToken \in Token /\ NoReq \in Request /\ Shaped(NoReq)
  /\ NoGrant \in Grant /\ NoScope \in Scope /\ Nothing \in Share
  /\ NoneHeld \in [login : BOOLEAN, role : BOOLEAN]
  /\ \A u \in Users, x \in Contents : \A p \in Principals(u) : GrantTo(p, x) \in Grant
  BY DEF UserRow, NoUser, NoToken, Token, NoReq, Request, Shaped, PastGate, Ops, NoGrant,
         Grant, NoScope, Scope, Nothing, Share, NoneHeld, Principals, Contents, GrantTo,
         Verbs, None, UserOps, GrantOps

LEMMA TypeAtFirst ==
  ASSUME Init
  PROVE  TypeOK
<1> USE AccountsAssumption, AccessAssumption, Shapes DEF Init, AccountsInit
<1>1. UsersOK
  BY DEF UsersOK, UserRow, Changes
<1>2. TokensOK
  BY DEF TokensOK, Token, NoToken
<1>3. RequestsOK
  BY DEF RequestsOK
<1>4. GrantsOK
  BY DEF GrantsOK
<1>5. ScopesOK
  BY DEF ScopesOK, NoReq
<1>6. HistoryOK
  BY DEF HistoryOK
<1> QED BY <1>1, <1>2, <1>3, <1>4, <1>5, <1>6 DEF TypeOK

(* A request moves on: to what becomes of it there is nothing but its shape. *)
Becomes(c, r) == r \in Request /\ Shaped(r) /\ req' = [req EXCEPT ![c] = r]

LEMMA RequestsKeep ==
  ASSUME RequestsOK, NEW c \in Callers, NEW r, Becomes(c, r), requests' \in Nat
  PROVE  RequestsOK'
  BY DEF RequestsOK, Becomes

LEMMA RowsOfUsers ==
  ASSUME UsersOK, NEW u \in Users
  PROVE  users[u] \in UserRow /\ (Exists(u) => users[u] \in Changes)
  BY DEF UsersOK, UserRow, Exists

(* What a step of the accounts leaves. *)
AccountsTyped(c) ==
  /\ UsersOK' /\ TokensOK' /\ requests' \in Nat
  /\ \E r : Becomes(c, r) /\ r.pc # "writeGrant"

LEMMA AccountStepTyped ==
  ASSUME TypeOK, NEW c \in Callers, AccountStep(c)
  PROVE  AccountsTyped(c)
<1> USE Shapes DEF TypeOK, Answer, Begin, accountVars, gateVars, Becomes, RequestsOK,
           AccountsTyped
<1> NoReq.pc = "idle"
  BY DEF NoReq
<1>1. ASSUME NEW u \in Users, NEW password \in {1, 2}, Authenticate(c, u, password)
      PROVE  AccountsTyped(c)
  <2> DEFINE r == [NoReq EXCEPT !.pc = "login", !.user = u]
  <2>1. r \in Request /\ Shaped(r)
    BY DEF Request, Shaped, NoReq, PastGate, Ops, UserOps, GrantOps
  <2>2. r.pc = "login"
    BY DEF NoReq
  <2>3. req' = [req EXCEPT ![c] = NoReq] \/ req' = [req EXCEPT ![c] = r]
    BY <1>1 DEF Authenticate
  <2> HIDE DEF r
  <2>4. \E q : Becomes(c, q) /\ q.pc # "writeGrant"
    BY <2>1, <2>2, <2>3
  <2>5. UsersOK' /\ TokensOK' /\ requests' \in Nat
    BY <1>1 DEF Authenticate, UsersOK, TokensOK
  <2> QED BY <2>4, <2>5
<1>2. CASE Login(c)
  <2>1. req[c].user \in Users /\ [user |-> req[c].user, live |-> TRUE] \in Token
    BY <1>2 DEF Login, Shaped, Token
  <2>2. TokensOK'
    BY <1>2, <2>1 DEF Login, TokensOK
  <2> QED BY <1>2, <2>2 DEF Login, UsersOK
<1>3. ASSUME NEW t \in Tokens, NEW op \in Ops, Arrive(c, t, op)
      PROVE  AccountsTyped(c)
  <2> DEFINE r == [NoReq EXCEPT !.pc = "token", !.token = t, !.op = op]
  <2>1. r \in Request /\ Shaped(r)
    BY DEF Request, Shaped, NoReq, PastGate
  <2>2. r.pc = "token" /\ req' = [req EXCEPT ![c] = r]
    BY <1>3 DEF NoReq, Arrive
  <2> HIDE DEF r
  <2>4. \E q : Becomes(c, q) /\ q.pc # "writeGrant"
    BY <2>1, <2>2
  <2>5. UsersOK' /\ TokensOK' /\ requests' \in Nat
    BY <1>3 DEF Arrive, UsersOK, TokensOK
  <2> QED BY <2>4, <2>5
<1>4. CASE LookUpToken(c)
  <2> DEFINE t == req[c].token
             r == [req[c] EXCEPT !.pc = "user", !.user = tokens[t].user]
  <2>1. t \in Tokens /\ req[c].op \in Ops
    BY <1>4 DEF LookUpToken, Shaped
  <2>2. tokens[t].live => r \in Request /\ Shaped(r) /\ r.pc = "user"
    BY <2>1 DEF Request, Shaped, TokensOK, Token, NoToken, PastGate, Ops, UserOps, GrantOps
  <2>3. CASE tokens[t].live
    <3>1. req' = [req EXCEPT ![c] = r]
      BY <1>4, <2>3 DEF LookUpToken
    <3> QED BY <1>4, <2>2, <2>3, <3>1 DEF LookUpToken, UsersOK, TokensOK
  <2>4. CASE ~tokens[t].live
    BY <1>4, <2>1, <2>4 DEF LookUpToken, UsersOK, TokensOK
  <2> QED BY <2>3, <2>4
<1>5. CASE permissionGate(c)
  <2> DEFINE u == req[c].user
             r == [req[c] EXCEPT !.pc = req[c].op, !.row = users[u]]
  <2>1. u \in Users /\ req[c].op \in Ops /\ req[c].token \in Tokens /\ req[c] \in Request
    BY <1>5 DEF permissionGate, Shaped
  <2>2. r \in Request /\ Shaped(r) /\ r.pc = req[c].op
    BY <2>1, RowsOfUsers DEF Request, Shaped, PastGate, Ops, UserOps, GrantOps
  <2>3. req' = [req EXCEPT ![c] = r] \/ req' = [req EXCEPT ![c] = NoReq]
    BY <1>5 DEF permissionGate
  <2> HIDE DEF r
  <2> QED BY <1>5, <2>1, <2>2, <2>3
             DEF permissionGate, UsersOK, TokensOK, Ops, UserOps, GrantOps
<1>6. CASE Logout(c)
  <2>1. req[c].token \in Tokens
    BY <1>6 DEF Logout, Shaped, PastGate, Ops, UserOps
  <2> QED BY <1>6, <2>1 DEF Logout, UsersOK, TokensOK
<1>7. CASE CreateUser(c)
  <2>1. UsersOK'
    BY <1>7 DEF CreateUser, UsersOK, UserRow, Changes
  <2> QED BY <1>7, <2>1 DEF CreateUser, TokensOK
<1>8. CASE ReadToUpdate(c)
  <2>1. req' = [req EXCEPT ![c] = NoReq]
        \/ \E u \in ever, want \in Changes :
             req' = [req EXCEPT ![c].pc = "write", ![c].target = u, ![c].want = want]
    BY <1>8 DEF ReadToUpdate
  <2>2. ASSUME NEW u \in Users, NEW want \in Changes
        PROVE  LET r == [req[c] EXCEPT !.pc = "write", !.target = u, !.want = want]
               IN  r \in Request /\ Shaped(r) /\ r.pc = "write"
    BY <1>8 DEF ReadToUpdate, Request, Shaped, PastGate, Ops, UserOps, UserRow
  <2>3. ever \subseteq Users
    BY DEF UsersOK
  <2>4. \E r : Becomes(c, r) /\ r.pc # "writeGrant"
    <3>1. CASE req' = [req EXCEPT ![c] = NoReq]
      BY <3>1
    <3>2. ASSUME NEW u \in ever, NEW want \in Changes,
                 req' = [req EXCEPT ![c].pc = "write", ![c].target = u, ![c].want = want]
          PROVE  \E r : Becomes(c, r) /\ r.pc # "writeGrant"
      <4> DEFINE r == [req[c] EXCEPT !.pc = "write", !.target = u, !.want = want]
      <4>1. req' = [req EXCEPT ![c] = r]
        BY <3>2
      <4>2. r \in Request /\ Shaped(r) /\ r.pc = "write"
        BY <2>2, <2>3
      <4> HIDE DEF r
      <4> QED BY <4>1, <4>2
    <3> QED BY <2>1, <3>1, <3>2
  <2> QED BY <1>8, <2>4 DEF ReadToUpdate, UsersOK, TokensOK
<1>9. CASE ReadToChange(c)
  <2> DEFINE u == req[c].user
             w == [users[u] EXCEPT !.password = 3 - @]
             r == [req[c] EXCEPT !.pc = "write", !.target = u, !.want = w]
  <2>1. u \in Users /\ req[c] \in Request
    BY <1>9 DEF ReadToChange, Shaped
  <2>2. Exists(u) => w \in Changes
    BY <2>1, RowsOfUsers DEF Changes
  <2>3. \/ req' = [req EXCEPT ![c] = NoReq]
        \/ /\ Exists(u)
           /\ req' = [req EXCEPT ![c].pc = "write", ![c].target = u, ![c].want = w]
    BY <1>9 DEF ReadToChange
  <2> HIDE DEF w, u
  <2>4. Exists(u) => r \in Request /\ Shaped(r) /\ r.pc = "write"
    BY <1>9, <2>1, <2>2 DEF ReadToChange, Request, Shaped, PastGate, Ops, UserOps, UserRow
  <2>5. CASE /\ Exists(u)
             /\ req' = [req EXCEPT ![c].pc = "write", ![c].target = u, ![c].want = w]
    <3>1. req' = [req EXCEPT ![c] = r]
      BY <2>5
    <3> HIDE DEF r
    <3> QED BY <1>9, <2>4, <2>5, <3>1 DEF ReadToChange, UsersOK, TokensOK
  <2>6. CASE req' = [req EXCEPT ![c] = NoReq]
    BY <1>9, <2>6 DEF ReadToChange, UsersOK, TokensOK
  <2> QED BY <2>3, <2>5, <2>6
<1>10. CASE WriteUser(c)
  <2>1. req[c].target \in Users /\ req[c].want \in UserRow
    BY <1>10 DEF WriteUser, Shaped, Request
  <2> QED BY <1>10, <2>1 DEF WriteUser, UsersOK, TokensOK
<1>11. CASE DeleteUser(c)
  BY <1>11 DEF DeleteUser, UsersOK, TokensOK
<1> HIDE DEF AccountsTyped
<1> QED BY Zenon, <1>1, <1>2, <1>3, <1>4, <1>5, <1>6, <1>7, <1>8, <1>9, <1>10, <1>11
           DEF AccountStep, Gate, UserStep, Ops

(* What becomes of a grant: nothing, it is deleted, it runs out, it is written
   anew for the same principal, or it is created. *)
GrantMove(g) ==
  \/ grants'[g] = grants[g]
  \/ grants'[g] = NoGrant
  \/ grants[g] # NoGrant /\ grants'[g] = [grants[g] EXCEPT !.live = FALSE]
  \/ grants[g] # NoGrant /\ grants'[g].to = grants[g].to /\ grants'[g].live
  \/ g \notin issued /\ grants'[g].live

GrantMoves == issued \subseteq issued' /\ \A g \in GrantIds : GrantMove(g)

(* A request writes a grant for the principal it has read. *)
Writes(r, x) ==
  r.pc = "writeGrant" =>
    /\ x.grant \in issued /\ x.want.live /\ x.want.to = grants[x.grant].to
    /\ UNCHANGED grants

LEMMA ScopesKeep ==
  ASSUME ScopesOK, RequestsOK, GrantsOK, GrantMoves, NEW c \in Callers, NEW r, NEW x \in Scope,
         Becomes(c, r), scope' = [scope EXCEPT ![c] = x], Writes(r, x)
  PROVE  ScopesOK'
<1>1. scope' \in [Callers -> Scope]
  BY DEF ScopesOK
<1>2. /\ req'[c] = r /\ scope'[c] = x
      /\ \A d \in Callers \ {c} : req'[d] = req[d] /\ scope'[d] = scope[d]
  BY DEF Becomes, RequestsOK, ScopesOK
<1>3. ASSUME NEW d \in Callers, req'[d].pc = "writeGrant"
      PROVE  /\ scope'[d].grant \in issued'
             /\ \/ grants'[scope'[d].grant] = NoGrant
                \/ scope'[d].want.to = grants'[scope'[d].grant].to /\ scope'[d].want.live
  <2>1. CASE d = c
    BY <1>2, <1>3, <2>1 DEF Writes, GrantMoves
  <2>2. CASE d # c
    <3> DEFINE g == scope[d].grant
    <3>1. req[d].pc = "writeGrant" /\ scope'[d] = scope[d]
      BY <1>2, <1>3, <2>2
    <3>2. g \in issued /\ (grants[g] = NoGrant \/ (scope[d].want.to = grants[g].to /\ scope[d].want.live))
      BY <3>1 DEF ScopesOK
    <3>3. GrantMove(g)
      BY <3>2 DEF GrantMoves, GrantsOK
    <3>4. grants'[g] = NoGrant \/ (grants'[g].to = grants[g].to /\ grants[g] # NoGrant)
      BY <3>2, <3>3 DEF GrantMove, GrantsOK, Grant
    <3> QED BY <3>1, <3>2, <3>4 DEF GrantMoves
  <2> QED BY <2>1, <2>2
<1> QED BY <1>1, <1>3 DEF ScopesOK

LEMMA GatheredTyped ==
  ASSUME GrantsOK, NEW p, NEW ids, ids \subseteq GrantIds
  PROVE  Gathered(p, ids) \in Share
<1> DEFINE found == {g \in ids : grants[g].to = p}
<1>1. \A g \in found : grants[g].ns \subseteq Namespaces
  BY DEF GrantsOK, Grant
<1>2. UNION {grants[g].ns : g \in {h \in found : "*" \in grants[h].verbs}} \subseteq Namespaces
  BY <1>1
<1> QED BY <1>2 DEF Gathered, Share

(* What a step of the grants leaves. *)
GrantsTyped(c) ==
  /\ UNCHANGED <<accountVars, tokens, requests>>
  /\ GrantsOK' /\ GrantMoves
  /\ \E r, x : /\ Becomes(c, r) /\ x \in Scope /\ scope' = [scope EXCEPT ![c] = x]
               /\ Writes(r, x)

LEMMA GrantStepTyped ==
  ASSUME TypeOK, NEW c \in Callers, GrantStep(c)
  PROVE  GrantsTyped(c)
<1> USE Shapes DEF TypeOK, Answer, Becomes, RequestsOK, GrantsTyped
<1> NoReq.pc = "idle"
  BY DEF NoReq
<1>1. ASSUME NEW pc \in {"scopeByName", "scoped"}, req[c].pc \in {"scope", "scopeByName"}
      PROVE  LET r == [req[c] EXCEPT !.pc = pc] IN r \in Request /\ Shaped(r) /\ r.pc = pc
  BY <1>1 DEF Request, Shaped, PastGate, Ops, GrantOps
<1>2. UNCHANGED <<grants, issued>> => GrantsOK' /\ GrantMoves
  BY DEF GrantsOK, GrantMoves, GrantMove
<1>3. scope[c] \in Scope
  BY DEF ScopesOK
<1>4. CASE EffectiveScope(c)
  <2> DEFINE some == Gathered(<<req[c].user, "id">>, Live)
             y == [NoScope EXCEPT !.admin = TRUE]
             z == [NoScope EXCEPT !.ns = some.ns, !.destroy = some.destroy, !.timely = Live]
             r(pc) == [req[c] EXCEPT !.pc = pc]
  <2>1. some \in Share
    BY GatheredTyped DEF Live
  <2>2. y \in Scope /\ z \in Scope
    BY <2>1 DEF Scope, NoScope, Share, Live
  <2>3. \/ req' = [req EXCEPT ![c] = r("scoped")] /\ scope' = [scope EXCEPT ![c] = y]
        \/ req' = [req EXCEPT ![c] = r("scopeByName")] /\ scope' = [scope EXCEPT ![c] = z]
    BY <1>4 DEF EffectiveScope
  <2>4. \A pc \in {"scopeByName", "scoped"} : r(pc) \in Request /\ Shaped(r(pc)) /\ r(pc).pc = pc
    BY <1>1, <1>4 DEF EffectiveScope
  <2> HIDE DEF r, y, z, some
  <2> QED BY <1>2, <1>4, <2>2, <2>3, <2>4 DEF EffectiveScope, Writes
<1>5. CASE ScopeByName(c)
  <2> DEFINE more == Gathered(<<req[c].user, "name">>, Live \cup scope[c].timely)
             x == [scope[c] EXCEPT !.ns = @ \cup more.ns, !.destroy = @ \/ more.destroy,
                                   !.timely = {}]
             r == [req[c] EXCEPT !.pc = "scoped"]
  <2>1. more \in Share
    BY <1>3, GatheredTyped DEF Live, Scope
  <2>2. x \in Scope
    BY <1>3, <2>1 DEF Scope, Share
  <2>3. req' = [req EXCEPT ![c] = r] /\ scope' = [scope EXCEPT ![c] = x]
    BY <1>5 DEF ScopeByName, ScopesOK
  <2>4. r \in Request /\ Shaped(r) /\ r.pc = "scoped"
    BY <1>1, <1>5 DEF ScopeByName
  <2> HIDE DEF r, x, more
  <2> QED BY <1>2, <1>5, <2>2, <2>3, <2>4 DEF ScopeByName, Writes
<1>6. CASE Scoped(c)
  BY <1>2, <1>6 DEF Scoped, Writes
<1>7. CASE CreateGrant(c)
  <2>1. GrantsOK' /\ GrantMoves
    <3>1. CASE UNCHANGED <<grants, issued>>
      BY <1>2, <3>1
    <3>2. ASSUME NEW g \in GrantIds, NEW u \in Grantees, NEW x \in Contents,
                 NEW p \in Principals(u), g \notin issued, issued' = issued \cup {g},
                 grants' = [grants EXCEPT ![g] = GrantTo(p, x)]
          PROVE  GrantsOK' /\ GrantMoves
      <4>1. GrantTo(p, x) \in Grant /\ GrantTo(p, x).live
        BY AccessAssumption DEF GrantTo
      <4> QED BY <3>2, <4>1 DEF GrantsOK, GrantMoves, GrantMove
    <3> QED BY <1>7, <3>1, <3>2 DEF CreateGrant
  <2>2. scope' = [scope EXCEPT ![c] = scope[c]]
    BY <1>7 DEF CreateGrant, ScopesOK
  <2> QED BY <1>3, <1>7, <2>1, <2>2 DEF CreateGrant, Writes
<1>8. CASE ReadGrant(c)
  <2>1. CASE Answer(c) /\ UNCHANGED scope
    <3>1. scope' = [scope EXCEPT ![c] = scope[c]]
      BY <2>1 DEF ScopesOK
    <3> QED BY <1>2, <1>3, <1>8, <2>1, <3>1 DEF ReadGrant, Writes
  <2>2. ASSUME NEW g \in GrantIds, NEW y \in Contents, grants[g] # NoGrant,
               scope' = [scope EXCEPT ![c].grant = g, ![c].want = GrantTo(grants[g].to, y)],
               req' = [req EXCEPT ![c].pc = "writeGrant"]
        PROVE  GrantsTyped(c)
    <3> DEFINE w == GrantTo(grants[g].to, y)
               x == [scope[c] EXCEPT !.grant = g, !.want = w]
               r == [req[c] EXCEPT !.pc = "writeGrant"]
    <3>1. w \in Grant /\ w.live /\ w.to = grants[g].to
      BY DEF GrantTo, GrantsOK, Grant, Contents
    <3> HIDE DEF w
    <3>2. x \in Scope /\ x.grant = g /\ x.want = w
      BY <1>3, <3>1 DEF Scope
    <3>3. r \in Request /\ Shaped(r)
      BY <1>8 DEF ReadGrant, Request, Shaped, PastGate, Ops, GrantOps
    <3>4. req' = [req EXCEPT ![c] = r] /\ scope' = [scope EXCEPT ![c] = x]
      BY <2>2 DEF ScopesOK, w
    <3>5. g \in issued
      BY <2>2 DEF GrantsOK
    <3> HIDE DEF r, x
    <3> QED BY <1>2, <1>8, <3>1, <3>2, <3>3, <3>4, <3>5 DEF ReadGrant, Writes
  <2> QED BY <1>8, <2>1, <2>2 DEF ReadGrant
<1>9. CASE WriteGrant(c)
  <2> DEFINE g == scope[c].grant
  <2>1. /\ g \in issued /\ g \in GrantIds /\ scope[c].want \in Grant
        /\ grants[g] = NoGrant \/ (scope[c].want.to = grants[g].to /\ scope[c].want.live)
    BY <1>3, <1>9 DEF WriteGrant, ScopesOK, GrantsOK, Scope
  <2>2. grants' = [grants EXCEPT ![g] = IF grants[g] = NoGrant THEN grants[g] ELSE scope[c].want]
    BY <1>9 DEF WriteGrant
  <2>3. GrantsOK' /\ GrantMoves
    BY <1>9, <2>1, <2>2 DEF WriteGrant, GrantsOK, GrantMoves, GrantMove
  <2>4. Becomes(c, NoReq) /\ scope' = [scope EXCEPT ![c] = NoScope] /\ Writes(NoReq, NoScope)
    BY <1>9 DEF WriteGrant, Writes
  <2>5. UNCHANGED <<accountVars, tokens, requests>>
    BY <1>9 DEF WriteGrant
  <2> QED BY <2>3, <2>4, <2>5
<1>10. CASE DeleteGrant(c)
  <2>1. GrantsOK' /\ GrantMoves
    BY <1>10 DEF DeleteGrant, GrantsOK, GrantMoves, GrantMove
  <2>2. scope' = [scope EXCEPT ![c] = scope[c]]
    BY <1>10 DEF DeleteGrant, ScopesOK
  <2> QED BY <1>3, <1>10, <2>1, <2>2 DEF DeleteGrant, Writes
<1> HIDE DEF GrantsTyped
<1> QED BY <1>4, <1>5, <1>6, <1>7, <1>8, <1>9, <1>10 DEF GrantStep

(* The steps that are nobody's request. *)
LEMMA OtherStepTyped ==
  ASSUME TypeOK,
         \/ \E t \in Tokens : Lapse(t) /\ UNCHANGED grantVars
         \/ \E g \in GrantIds : GrantLapses(g)
         \/ Restart /\ scope' = [c \in Callers |-> NoScope] /\ UNCHANGED <<grants, issued>>
  PROVE  /\ UsersOK' /\ TokensOK' /\ RequestsOK' /\ GrantsOK' /\ ScopesOK'
         /\ GrantMoves /\ UNCHANGED users
<1> USE Shapes DEF TypeOK, accountVars, gateVars, grantVars
<1>1. ASSUME NEW t \in Tokens, Lapse(t), UNCHANGED grantVars
      PROVE  /\ UsersOK' /\ TokensOK' /\ RequestsOK' /\ GrantsOK' /\ ScopesOK'
             /\ GrantMoves /\ UNCHANGED users
  <2>1. TokensOK'
    BY <1>1 DEF Lapse, TokensOK, Token, NoToken
  <2>2. UsersOK' /\ RequestsOK' /\ GrantsOK' /\ ScopesOK'
    BY <1>1 DEF Lapse, UsersOK, RequestsOK, GrantsOK, ScopesOK
  <2> QED BY <1>1, <2>1, <2>2 DEF Lapse, GrantMoves, GrantMove
<1>2. ASSUME NEW g \in GrantIds, GrantLapses(g)
      PROVE  /\ UsersOK' /\ TokensOK' /\ RequestsOK' /\ GrantsOK' /\ ScopesOK'
             /\ GrantMoves /\ UNCHANGED users
  <2> DEFINE lapsed == [grants[g] EXCEPT !.live = FALSE]
  <2>1. grants[g] # NoGrant /\ lapsed \in Grant /\ lapsed.to = grants[g].to
    BY <1>2 DEF GrantLapses, NoGrant, GrantsOK, Grant
  <2>2. grants' = [grants EXCEPT ![g] = lapsed]
    BY <1>2 DEF GrantLapses, GrantsOK
  <2>3. GrantMoves
    BY <1>2, <2>1, <2>2 DEF GrantLapses, GrantMoves, GrantMove, GrantsOK
  <2> HIDE DEF lapsed
  <2>4. GrantsOK'
    BY <1>2, <2>1, <2>2 DEF GrantLapses, GrantsOK
  <2>5. ScopesOK'
    BY <1>2, <2>1, <2>2 DEF GrantLapses, ScopesOK, GrantsOK
  <2>6. UsersOK' /\ TokensOK' /\ RequestsOK'
    BY <1>2 DEF GrantLapses, UsersOK, TokensOK, RequestsOK
  <2> QED BY <1>2, <2>3, <2>4, <2>5, <2>6 DEF GrantLapses
<1>3. ASSUME Restart, scope' = [c \in Callers |-> NoScope], UNCHANGED <<grants, issued>>
      PROVE  /\ UsersOK' /\ TokensOK' /\ RequestsOK' /\ GrantsOK' /\ ScopesOK'
             /\ GrantMoves /\ UNCHANGED users
  <2>1. UsersOK' /\ TokensOK' /\ RequestsOK'
    BY <1>3 DEF Restart, UsersOK, TokensOK, RequestsOK
  <2>2. ScopesOK'
    BY <1>3 DEF Restart, ScopesOK, NoReq
  <2> QED BY <1>3, <2>1, <2>2 DEF Restart, GrantsOK, GrantMoves, GrantMove
<1> QED BY <1>1, <1>2, <1>3

LEMMA StepTyped ==
  ASSUME TypeOK, Next
  PROVE  UsersOK' /\ TokensOK' /\ RequestsOK' /\ GrantsOK' /\ ScopesOK' /\ GrantMoves
<1>1. ASSUME NEW c \in Callers, GrantStep(c)
      PROVE  UsersOK' /\ TokensOK' /\ RequestsOK' /\ GrantsOK' /\ ScopesOK' /\ GrantMoves
  <2>1. GrantsTyped(c)
    BY <1>1, GrantStepTyped
  <2>2. PICK r, x : /\ Becomes(c, r) /\ x \in Scope /\ scope' = [scope EXCEPT ![c] = x]
                    /\ Writes(r, x)
    BY <2>1 DEF GrantsTyped
  <2>3. UNCHANGED <<users, ever, tokens, requests>> /\ GrantsOK' /\ GrantMoves
    BY <2>1 DEF GrantsTyped, accountVars
  <2>4. ScopesOK'
    BY <2>2, <2>3, ScopesKeep DEF TypeOK
  <2>5. RequestsOK'
    BY <2>2, <2>3, RequestsKeep DEF TypeOK, RequestsOK
  <2> QED BY <2>3, <2>4, <2>5 DEF TypeOK, UsersOK, TokensOK
<1>2. ASSUME NEW c \in Callers, AccountStep(c), UNCHANGED grantVars
      PROVE  UsersOK' /\ TokensOK' /\ RequestsOK' /\ GrantsOK' /\ ScopesOK' /\ GrantMoves
  <2>1. PICK r : Becomes(c, r) /\ r.pc # "writeGrant"
    BY <1>2, AccountStepTyped DEF AccountsTyped
  <2>2. UsersOK' /\ TokensOK' /\ requests' \in Nat
    BY <1>2, AccountStepTyped DEF AccountsTyped
  <2>3. GrantsOK' /\ GrantMoves
    BY <1>2 DEF grantVars, TypeOK, GrantsOK, GrantMoves, GrantMove
  <2>4. scope[c] \in Scope /\ scope' = [scope EXCEPT ![c] = scope[c]]
    BY <1>2 DEF grantVars, TypeOK, ScopesOK
  <2>5. ScopesOK'
    BY <2>1, <2>3, <2>4, ScopesKeep DEF TypeOK, Writes
  <2> QED BY <2>1, <2>2, <2>3, <2>5, RequestsKeep DEF TypeOK
<1> QED BY <1>1, <1>2, OtherStepTyped DEF Next

LEMMA HistoryTyped ==
  ASSUME HistoryOK, Observe, ObserveGrants, RequestsOK', TokensOK', GrantsOK'
  PROVE  HistoryOK'
<1>1. held' \in [Callers -> [login : BOOLEAN, role : BOOLEAN]]
  <2> DEFINE h(c) == held'[c]
  <2>1. ASSUME NEW c \in Callers, req'[c].token \in Tokens
        PROVE  tokens'[req'[c].token].live \in BOOLEAN
    BY <2>1 DEF TokensOK, Token
  <2> QED BY <2>1, Shapes DEF Observe, HistoryOK, RequestsOK, Request
<1>2. ASSUME NEW g \in GrantIds, NEW u
      PROVE  GivenBy(grants'[g], u) \in Share
  BY Shapes DEF GivenBy, GrantsOK, Grant, Share
<1>3. sure' \in [Callers -> [GrantIds -> Share]]
  <2>1. ASSUME NEW x \in Share, NEW y \in Share
        PROVE  Both(x, y) \in Share
    BY DEF Both, Share
  <2> QED BY <1>2, <2>1, Shapes DEF ObserveGrants, HistoryOK
<1>4. maybe' \in [Callers -> Share]
  <2>1. ASSUME NEW c \in Callers
        PROVE  [ns |-> maybe[c].ns \cup UNION {GivenBy(grants'[g], req'[c].user).ns : g \in GrantIds},
                destroy |-> maybe[c].destroy \/ \E g \in GrantIds : GivenBy(grants'[g], req'[c].user).destroy]
               \in Share
    <3>1. \A g \in GrantIds : GivenBy(grants'[g], req'[c].user).ns \subseteq Namespaces
      BY <1>2 DEF Share
    <3> QED BY <3>1 DEF HistoryOK, Share
  <2> QED BY <2>1, Shapes DEF ObserveGrants
<1> QED BY <1>1, <1>3, <1>4 DEF HistoryOK

(* Every variable keeps its shape, and what a request holds fits its place. *)
THEOREM Typed == Spec => []TypeOK
<1>1. Init => TypeOK
  BY TypeAtFirst
<1>2. TypeOK /\ [Next]_vars => TypeOK'
  <2>1. CASE TypeOK /\ Next
    <3>1. UsersOK' /\ TokensOK' /\ RequestsOK' /\ GrantsOK' /\ ScopesOK'
      BY <2>1, StepTyped
    <3> QED BY <2>1, <3>1, HistoryTyped DEF Next, TypeOK
  <2>2. CASE TypeOK /\ UNCHANGED vars
    BY <2>2 DEF vars, accountVars, gateVars, grantVars, TypeOK, UsersOK, TokensOK,
                RequestsOK, GrantsOK, ScopesOK, HistoryOK
  <2> QED BY <2>1, <2>2
<1> QED BY <1>1, <1>2, PTL DEF Spec

-----------------------------------------------------------------------------
(* An administrator remains *)

(* The built-in account stands, and what is about to be written over its row
   keeps it standing. *)
BuiltinStands ==
  /\ Builtin \in ever
  /\ users[Builtin].role = "admin" /\ users[Builtin].active
  /\ \A c \in Callers : req[c].pc = "write" /\ req[c].target = Builtin =>
       req[c].want.active /\ req[c].want.role = "admin"

LEMMA BuiltinStandsStep ==
  ASSUME TypeOK, BuiltinStands, Next
  PROVE  BuiltinStands'
<1> USE DEF TypeOK, RequestsOK, UsersOK, BuiltinStands, Answer, Begin, accountVars, gateVars
<1>1. Builtin \in Users /\ Exists(Builtin) /\ NoReq.pc = "idle"
  BY DEF Exists, NoUser, NoReq
<1>2. ASSUME NEW c \in Callers, NEW r, Becomes(c, r), UNCHANGED accountVars,
             r.pc = "write" /\ r.target = Builtin => r.want.active /\ r.want.role = "admin"
      PROVE  BuiltinStands'
  BY <1>2 DEF Becomes
<1>3. ASSUME NEW c \in Callers, GrantStep(c)
      PROVE  BuiltinStands'
  <2>1. PICK r, x : Becomes(c, r) /\ x \in Scope /\ scope' = [scope EXCEPT ![c] = x] /\ Writes(r, x)
    BY <1>3, GrantStepTyped DEF GrantsTyped
  <2>2. r.pc # "write" /\ UNCHANGED accountVars
    <3>1. req'[c].pc \in {"idle", "scoped", "scopeByName", "writeGrant"}
      <4>1. CASE EffectiveScope(c) \/ ScopeByName(c)
        BY <4>1 DEF EffectiveScope, ScopeByName, Request
      <4>2. CASE Scoped(c) \/ CreateGrant(c) \/ WriteGrant(c) \/ DeleteGrant(c)
        BY <1>1, <4>2 DEF Scoped, CreateGrant, WriteGrant, DeleteGrant
      <4>3. CASE ReadGrant(c)
        BY <1>1, <4>3 DEF ReadGrant, Request
      <4> QED BY <1>3, <4>1, <4>2, <4>3 DEF GrantStep
    <3>2. req'[c] = r
      BY <2>1 DEF Becomes
    <3> QED BY <1>3, <3>1, <3>2, GrantStepTyped DEF GrantsTyped
  <2> QED BY <1>2, <2>1, <2>2
<1>4. ASSUME NEW c \in Callers, AccountStep(c)
      PROVE  BuiltinStands'
  <2>1. ASSUME NEW u \in Users, NEW password \in {1, 2}, Authenticate(c, u, password)
        PROVE  BuiltinStands'
    <3>1. req'[c].pc \in {"idle", "login"} /\ \A d \in Callers \ {c} : req'[d] = req[d]
      BY <1>1, <2>1 DEF Authenticate, NoReq
    <3> QED BY <2>1, <3>1 DEF Authenticate
  <2>2. CASE Login(c) \/ Logout(c)
    BY <1>1, <2>2 DEF Login, Logout
  <2>3. ASSUME NEW t \in Tokens, NEW op \in Ops, Arrive(c, t, op)
        PROVE  BuiltinStands'
    <3>1. req'[c].pc = "token" /\ \A d \in Callers \ {c} : req'[d] = req[d]
      BY <2>3 DEF Arrive, NoReq
    <3> QED BY <2>3, <3>1 DEF Arrive
  <2>4. CASE LookUpToken(c)
    <3>1. req'[c].pc \in {"idle", "user"} /\ \A d \in Callers \ {c} : req'[d] = req[d]
      BY <1>1, <2>4 DEF LookUpToken, Request
    <3> QED BY <2>4, <3>1 DEF LookUpToken
  <2>5. CASE permissionGate(c)
    <3>1. req'[c].pc \in {"idle"} \cup Ops /\ \A d \in Callers \ {c} : req'[d] = req[d]
      BY <1>1, <2>5 DEF permissionGate, Request, Shaped
    <3> QED BY <2>5, <3>1 DEF permissionGate, Ops, UserOps, GrantOps
  <2>6. CASE CreateUser(c)
    BY <1>1, <2>6 DEF CreateUser
  <2>7. CASE ReadToUpdate(c)
    <3>1. CASE req' = [req EXCEPT ![c] = NoReq]
      BY <1>1, <2>7, <3>1 DEF ReadToUpdate
    <3>2. ASSUME NEW u \in ever, NEW want \in Changes, BuiltinAllowed(u, users[u], want),
                 req' = [req EXCEPT ![c].pc = "write", ![c].target = u, ![c].want = want]
          PROVE  BuiltinStands'
      <4>1. req'[c].target = u /\ req'[c].want = want /\ \A d \in Callers \ {c} : req'[d] = req[d]
        BY <3>2 DEF Request
      <4>2. UNCHANGED accountVars
        BY <2>7 DEF ReadToUpdate
      <4> QED BY <3>2, <4>1, <4>2 DEF BuiltinAllowed
    <3>3. \/ req' = [req EXCEPT ![c] = NoReq]
          \/ \E u \in ever, want \in Changes :
               /\ BuiltinAllowed(u, users[u], want)
               /\ req' = [req EXCEPT ![c].pc = "write", ![c].target = u, ![c].want = want]
      BY <2>7 DEF ReadToUpdate
    <3> QED BY <3>1, <3>2, <3>3
  <2>8. CASE ReadToChange(c)
    <3> DEFINE u == req[c].user
               w == [users[u] EXCEPT !.password = 3 - @]
    <3>1. \/ req' = [req EXCEPT ![c] = NoReq]
          \/ req' = [req EXCEPT ![c].pc = "write", ![c].target = u, ![c].want = w]
      BY <2>8 DEF ReadToChange
    <3>2. u = Builtin => w.active /\ w.role = "admin"
      BY <1>1, RowsOfUsers DEF Changes
    <3> HIDE DEF u, w
    <3>3. CASE req' = [req EXCEPT ![c] = NoReq]
      BY <1>1, <2>8, <3>3 DEF ReadToChange
    <3>4. CASE req' = [req EXCEPT ![c].pc = "write", ![c].target = u, ![c].want = w]
      <4>1. req'[c].target = u /\ req'[c].want = w /\ \A d \in Callers \ {c} : req'[d] = req[d]
        BY <3>4 DEF Request
      <4> QED BY <2>8, <3>2, <4>1 DEF ReadToChange
    <3> QED BY <3>1, <3>3, <3>4
  <2>9. CASE WriteUser(c)
    BY <1>1, <2>9 DEF WriteUser
  <2>10. CASE DeleteUser(c)
    BY <1>1, <2>10 DEF DeleteUser
  <2> QED BY Zenon, <1>4, <2>1, <2>2, <2>3, <2>4, <2>5, <2>6, <2>7, <2>8, <2>9, <2>10
             DEF AccountStep, Gate, UserStep, Ops
<1>5. CASE \/ \E t \in Tokens : Lapse(t)
           \/ \E g \in GrantIds : GrantLapses(g)
           \/ Restart
  BY <1>1, <1>5 DEF Lapse, GrantLapses, Restart
<1> QED BY <1>3, <1>4, <1>5 DEF Next

(* However requests overlap, an active administrator is left, if the first
   one has the name the rule protects. *)
THEOREM AdministratorRemains ==
  ASSUME AdministratorIsNamed
  PROVE  Spec => []AdminRemains
<1>1. Init => BuiltinStands
  BY AccountsAssumption, AdministratorIsNamed
     DEF AdministratorIsNamed, Init, AccountsInit, BuiltinStands, NoReq
<1>2. TypeOK /\ BuiltinStands /\ [Next]_vars => BuiltinStands'
  <2>1. CASE UNCHANGED vars
    BY <2>1 DEF vars, accountVars, gateVars, BuiltinStands
  <2> QED BY <2>1, BuiltinStandsStep
<1>3. TypeOK /\ BuiltinStands => AdminRemains
  BY DEF TypeOK, UsersOK, BuiltinStands, AdminRemains
<1> QED BY <1>1, <1>2, <1>3, Typed, PTL DEF Spec

-----------------------------------------------------------------------------
(* Nothing passes the gate without a login and a role *)

(* How a request moves: past the gate its user and its operation stay. *)
ReqMove(c) ==
  \/ req'[c] = req[c]
  \/ req'[c].pc \in {"idle", "login", "token"}
  \/ /\ req[c].pc = "token" /\ req'[c].pc = "user"
     /\ req'[c].token \in Tokens /\ tokens'[req'[c].token].live
  \/ /\ req[c].pc = "user" /\ req'[c].pc = req'[c].op
     /\ req'[c].user \in Users /\ Has(users'[req'[c].user].role, req'[c].op)
  \/ /\ req[c].pc \in PastGate /\ req'[c].pc \in PastGate
     /\ req'[c].op = req[c].op /\ req'[c].user = req[c].user

LEMMA OwnMove ==
  ASSUME TypeOK, NEW c \in Callers, AccountStep(c) \/ GrantStep(c)
  PROVE  ReqMove(c)
<1> USE DEF TypeOK, RequestsOK, Answer, Begin
<1> req[c] \in Request /\ Shaped(req[c]) /\ NoReq.pc = "idle"
  BY DEF NoReq
<1>1. ASSUME NEW u \in Users, NEW password \in {1, 2}, Authenticate(c, u, password)
      PROVE  ReqMove(c)
  BY <1>1 DEF Authenticate, ReqMove, NoReq
<1>2. CASE Login(c) \/ Logout(c) \/ CreateUser(c) \/ WriteUser(c) \/ DeleteUser(c)
  BY <1>2 DEF Login, Logout, CreateUser, WriteUser, DeleteUser, ReqMove
<1>3. ASSUME NEW t \in Tokens, NEW op \in Ops, Arrive(c, t, op)
      PROVE  ReqMove(c)
  BY <1>3 DEF Arrive, ReqMove, NoReq
<1>4. CASE LookUpToken(c)
  BY <1>4 DEF LookUpToken, ReqMove, Request, Shaped
<1>5. CASE permissionGate(c)
  BY <1>5 DEF permissionGate, ReqMove, Request, Shaped, accountVars
<1>6. CASE ReadToUpdate(c)
  BY <1>6 DEF ReadToUpdate, ReqMove, Request, PastGate, Ops, UserOps
<1>7. CASE ReadToChange(c)
  BY <1>7 DEF ReadToChange, ReqMove, Request, PastGate, Ops, UserOps
<1>8. CASE EffectiveScope(c) \/ ScopeByName(c)
  BY <1>8 DEF EffectiveScope, ScopeByName, ReqMove, Request, PastGate, Ops, GrantOps
<1>9. CASE Scoped(c) \/ CreateGrant(c) \/ WriteGrant(c) \/ DeleteGrant(c)
  BY <1>9 DEF Scoped, CreateGrant, WriteGrant, DeleteGrant, ReqMove
<1>10. CASE ReadGrant(c)
  BY <1>10 DEF ReadGrant, ReqMove, Request, PastGate, Ops, GrantOps
<1> QED BY Zenon, <1>1, <1>2, <1>3, <1>4, <1>5, <1>6, <1>7, <1>8, <1>9, <1>10
           DEF AccountStep, GrantStep, Gate, UserStep, Ops

LEMMA EveryMove ==
  ASSUME TypeOK, Next, NEW c \in Callers
  PROVE  ReqMove(c)
<1>1. ASSUME NEW d \in Callers, GrantStep(d) \/ AccountStep(d)
      PROVE  ReqMove(c)
  <2>1. CASE d = c
    BY <1>1, <2>1, OwnMove
  <2>2. CASE d # c
    <3>1. PICK r : Becomes(d, r)
      BY <1>1, GrantStepTyped, AccountStepTyped DEF GrantsTyped, AccountsTyped
    <3> QED BY <2>2, <3>1 DEF Becomes, ReqMove, TypeOK, RequestsOK
  <2> QED BY <2>1, <2>2
<1>2. CASE \/ \E t \in Tokens : Lapse(t)
           \/ \E g \in GrantIds : GrantLapses(g)
           \/ Restart
  BY <1>2 DEF Lapse, GrantLapses, Restart, ReqMove, gateVars, NoReq
<1> QED BY <1>1, <1>2 DEF Next

(* What the gate has seen so far is on record. *)
Seen ==
  /\ \A c \in Callers : req[c].pc = "user" => held[c].login
  /\ ActsWithAuthority

LEMMA SeenStep ==
  ASSUME TypeOK, TypeOK', Seen, Next
  PROVE  Seen'
<1> SUFFICES ASSUME NEW c \in Callers, req'[c].pc \in {"user"} \cup PastGate
             PROVE  /\ held'[c].login
                    /\ req'[c].pc \in PastGate => req'[c].op \in Authenticated \/ held'[c].role
  <2>1. \A c \in Callers : req'[c].pc \in {"idle", "login", "token", "user"} \cup PastGate
    BY DEF TypeOK, RequestsOK, Request
  <2> QED BY <2>1 DEF Seen, ActsWithAuthority, TypeOK, RequestsOK, Request
<1> DEFINE r == req'[c]
           tokenUser == tokens'[r.token].user
           user == IF r.user = None THEN tokenUser ELSE r.user
<1>1. r \in Request /\ Shaped(r) /\ r.token \in Tokens /\ r.token # None /\ r.user \in Users /\ r.user # None
  BY AccountsAssumption DEF TypeOK, RequestsOK, Shaped, PastGate, Ops, UserOps, GrantOps
<1>2. /\ held[c].login => held'[c].login
      /\ tokenUser # None /\ tokens'[r.token].live => held'[c].login
      /\ held[c].role => held'[c].role
      /\ users'[r.user].role = "admin" => held'[c].role
  BY <1>1 DEF Next, Observe, PastGate, Ops, UserOps, GrantOps
<1>3. tokens'[r.token].live => tokenUser # None
  BY <1>1, AccountsAssumption DEF TypeOK, TokensOK, NoToken
<1>4. CASE req'[c] = req[c]
  BY <1>2, <1>4 DEF Seen, ActsWithAuthority, PastGate, Ops, UserOps, GrantOps
<1>5. CASE req[c].pc = "token" /\ r.pc = "user" /\ tokens'[r.token].live
  BY <1>2, <1>3, <1>5 DEF PastGate, Ops, UserOps, GrantOps
<1>6. CASE req[c].pc = "user" /\ r.pc = r.op /\ Has(users'[r.user].role, r.op)
  BY <1>2, <1>6 DEF Seen, Has
<1>7. CASE req[c].pc \in PastGate /\ r.pc \in PastGate /\ r.op = req[c].op
  BY <1>2, <1>7 DEF Seen, ActsWithAuthority, PastGate, Ops, UserOps, GrantOps
<1> QED BY <1>4, <1>5, <1>6, <1>7, EveryMove
           DEF ReqMove, PastGate, Ops, UserOps, GrantOps

(* What is past the gate came with a login that was live, and acts for a user
   whose role allowed it, at a moment since the request began. *)
THEOREM Authority == Spec => []ActsWithAuthority
<1>1. Init => Seen
  BY DEF Init, AccountsInit, Seen, ActsWithAuthority, NoReq
<1>2. TypeOK /\ TypeOK' /\ Seen /\ [Next]_vars => Seen'
  <2>1. CASE UNCHANGED vars
    BY <2>1 DEF vars, gateVars, Seen, ActsWithAuthority
  <2> QED BY <2>1, SeenStep
<1>3. Seen => ActsWithAuthority
  BY DEF Seen
<1> QED BY <1>1, <1>2, <1>3, Typed, PTL DEF Spec

-----------------------------------------------------------------------------
(* A scope is what was granted *)

(* How the gathering of a scope moves, while grants change beside it. *)
ScopeMove(c) ==
  \/ ~Gathering(req'[c])
  \/ ~Gathering(req[c]) /\ req'[c].pc = "scope"
  \/ UNCHANGED <<req[c], scope[c]>>
  \/ EffectiveScope(c)
  \/ ScopeByName(c)

LEMMA EveryScopeMove ==
  ASSUME TypeOK, Next, NEW c \in Callers
  PROVE  ScopeMove(c)
<1> USE DEF Gathering
<1>1. ASSUME NEW d \in Callers \ {c}, GrantStep(d) \/ (AccountStep(d) /\ UNCHANGED grantVars)
      PROVE  ScopeMove(c)
  <2>1. req'[c] = req[c]
    BY <1>1, GrantStepTyped, AccountStepTyped
       DEF GrantsTyped, AccountsTyped, Becomes, TypeOK, RequestsOK
  <2>2. scope'[c] = scope[c]
    BY <1>1, GrantStepTyped DEF GrantsTyped, grantVars, TypeOK, ScopesOK
  <2> QED BY <2>1, <2>2 DEF ScopeMove
<1>2. CASE GrantStep(c)
  <2>1. CASE Scoped(c) \/ CreateGrant(c) \/ WriteGrant(c) \/ DeleteGrant(c)
    BY <2>1 DEF Scoped, CreateGrant, WriteGrant, DeleteGrant, Answer, NoReq, ScopeMove,
                TypeOK, RequestsOK
  <2>2. CASE ReadGrant(c)
    BY <2>2 DEF ReadGrant, Answer, NoReq, ScopeMove, TypeOK, RequestsOK, Request
  <2> QED BY <1>2, <2>1, <2>2 DEF GrantStep, ScopeMove
<1>3. CASE AccountStep(c)
  <2>1. req[c].pc \notin {"scope", "scopeByName", "scoped"}
    BY <1>3 DEF AccountStep, Authenticate, Login, Arrive, Gate, LookUpToken, permissionGate,
                UserStep, Logout, CreateUser, ReadToUpdate, ReadToChange, WriteUser, DeleteUser,
                Begin
  <2>2. req'[c].pc \notin {"scopeByName", "scoped"}
    <3>1. ReqMove(c)
      BY <1>3, OwnMove
    <3>2. CASE req[c].pc = "user" /\ req'[c].pc = req'[c].op /\ req'[c].user \in Users
      <4>1. CASE permissionGate(c)
        BY <4>1 DEF permissionGate, Answer, NoReq, TypeOK, RequestsOK, Request, Shaped, Ops,
                    UserOps, GrantOps
      <4>2. CASE ~permissionGate(c)
        BY <1>3, <3>2, <4>2
           DEF AccountStep, Authenticate, Login, Arrive, Gate, LookUpToken,
               UserStep, Logout, CreateUser, ReadToUpdate, ReadToChange, WriteUser, DeleteUser,
               Begin
      <4> QED BY <4>1, <4>2
    <3>3. CASE req[c].pc \in PastGate
      <4>1. CASE ReadToUpdate(c) \/ ReadToChange(c)
        <5>1. \/ req' = [req EXCEPT ![c] = NoReq]
              \/ \E u, w : req' = [req EXCEPT ![c].pc = "write", ![c].target = u, ![c].want = w]
          <6> DEFINE w == [users[req[c].user] EXCEPT !.password = 3 - @]
                     written == [req EXCEPT ![c].pc = "write", ![c].target = req[c].user,
                                            ![c].want = w]
          <6>1. CASE ReadToUpdate(c)
            BY <6>1 DEF ReadToUpdate, Answer
          <6>2. CASE ReadToChange(c)
            <7>1. req' = [req EXCEPT ![c] = NoReq] \/ req' = written
              BY <6>2 DEF ReadToChange, Answer
            <7> HIDE DEF w
            <7> QED BY <7>1
          <6> QED BY <4>1, <6>1, <6>2
        <5>2. req'[c].pc \in {"idle", "write"}
          <6>1. ASSUME NEW u, NEW w,
                       req' = [req EXCEPT ![c].pc = "write", ![c].target = u, ![c].want = w]
                PROVE  req'[c].pc = "write"
            BY <6>1 DEF TypeOK, RequestsOK, Request
          <6>2. req' = [req EXCEPT ![c] = NoReq] => req'[c].pc = "idle"
            BY DEF NoReq, TypeOK, RequestsOK
          <6> QED BY <5>1, <6>1, <6>2
        <5> QED BY <5>2
      <4>2. CASE Logout(c) \/ CreateUser(c) \/ WriteUser(c) \/ DeleteUser(c)
        BY <4>2 DEF Logout, CreateUser, WriteUser, DeleteUser, Answer, NoReq, TypeOK, RequestsOK
      <4>3. CASE req[c].pc \in {"idle", "login", "token", "user"}
        BY <3>3, <4>3 DEF PastGate, Ops, UserOps, GrantOps
      <4> QED BY <1>3, <4>1, <4>2, <4>3
              DEF AccountStep, Authenticate, Login, Arrive, Gate, LookUpToken, permissionGate,
                  UserStep, Begin
    <3> QED BY <2>1, <3>1, <3>2, <3>3 DEF ReqMove
  <2> QED BY <2>1, <2>2 DEF ScopeMove
<1>4. CASE \/ \E t \in Tokens : Lapse(t) /\ UNCHANGED grantVars
           \/ \E g \in GrantIds : GrantLapses(g)
           \/ Restart
  BY <1>4 DEF Lapse, GrantLapses, Restart, ScopeMove, gateVars, grantVars, NoReq
<1> QED BY <1>1, <1>2, <1>3, <1>4 DEF Next

(* A grant whose time has not passed for a request. *)
InTime(c, g) ==
  grants[g].live \/ (req[c].pc = "scopeByName" /\ g \in scope[c].timely)

(* What a grant gave throughout it gives now; what is now granted, or still
   counts, is among what was ever granted. *)
Witnessed ==
  \A c \in Callers : Gathering(req[c]) => \A g \in GrantIds :
    /\ sure[c][g].ns \subseteq GivenBy(grants[g], req[c].user).ns
    /\ sure[c][g].destroy => GivenBy(grants[g], req[c].user).destroy
    /\ grants[g].to \in Principals(req[c].user) /\ InTime(c, g) =>
         /\ "*" \in grants[g].verbs => grants[g].ns \subseteq maybe[c].ns
         /\ "destroy" \in grants[g].verbs => maybe[c].destroy

(* Between the two lists the grants to the user's id are in. *)
HalfGathered ==
  \A c \in Callers : req[c].pc = "scopeByName" =>
    /\ scope[c].ns \subseteq maybe[c].ns /\ (scope[c].destroy => maybe[c].destroy)
    /\ \A g \in GrantIds : grants[g].to = <<req[c].user, "id">> =>
         /\ sure[c][g].ns \subseteq scope[c].ns
         /\ sure[c][g].destroy => scope[c].destroy

ScopesSound == Witnessed /\ HalfGathered /\ ScopeIsGranted

LEMMA Observed ==
  ASSUME TypeOK, Next, NEW c \in Callers, Gathering(req'[c]), NEW g \in GrantIds
  PROVE  LET now == GivenBy(grants'[g], req'[c].user)
         IN  /\ sure'[c][g].ns \subseteq now.ns
             /\ sure'[c][g].destroy => now.destroy
             /\ Gathering(req[c]) => /\ sure'[c][g].ns \subseteq sure[c][g].ns
                                     /\ sure'[c][g].destroy => sure[c][g].destroy
             /\ now.ns \cup maybe[c].ns \subseteq maybe'[c].ns
             /\ now.destroy \/ maybe[c].destroy => maybe'[c].destroy
<1> DEFINE now(h) == GivenBy(grants'[h], req'[c].user)
<1>1. /\ sure'[c][g] = IF Gathering(req[c]) THEN Both(sure[c][g], now(g)) ELSE now(g)
      /\ maybe'[c].ns = maybe[c].ns \cup UNION {now(h).ns : h \in GrantIds}
      /\ maybe[c].destroy \/ now(g).destroy => maybe'[c].destroy
  BY DEF Next, ObserveGrants
<1> HIDE DEF now
<1>2. ASSUME NEW x, NEW y
      PROVE  /\ Both(x, y).ns \subseteq x.ns /\ Both(x, y).ns \subseteq y.ns
             /\ Both(x, y).destroy => x.destroy /\ y.destroy
  BY DEF Both
<1>6. /\ sure'[c][g].ns \subseteq now(g).ns
      /\ sure'[c][g].destroy => now(g).destroy
      /\ Gathering(req[c]) => /\ sure'[c][g].ns \subseteq sure[c][g].ns
                              /\ sure'[c][g].destroy => sure[c][g].destroy
  BY <1>1, <1>2
<1>3. now(g).ns \subseteq UNION {now(h).ns : h \in GrantIds}
  OBVIOUS
<1>4. now(g).ns \cup maybe[c].ns \subseteq maybe'[c].ns
  BY <1>1, <1>3
<1>5. now(g).destroy \/ maybe[c].destroy => maybe'[c].destroy
  BY <1>1
<1> QED BY <1>6, <1>4, <1>5 DEF now

(* What a request has seen of one grant it still is owed: the grant is there,
   it is live and it is given to the request's user. *)
LEMMA SureIsLive ==
  ASSUME NEW g \in GrantIds, NEW u, NEW s,
         s.ns \subseteq GivenBy(grants[g], u).ns, s.destroy => GivenBy(grants[g], u).destroy
  PROVE  /\ s.ns # {} => /\ grants[g].live /\ grants[g].to \in Principals(u)
                         /\ "*" \in grants[g].verbs /\ s.ns \subseteq grants[g].ns
         /\ s.destroy => /\ grants[g].live /\ grants[g].to \in Principals(u)
                         /\ "destroy" \in grants[g].verbs
  BY DEF GivenBy, Nothing

(* A grant that is in time after a step was in time before it, unchanged but for
   its end, or is live now. *)
LEMMA StaysInTime ==
  ASSUME TypeOK, Next, NEW c \in Callers, NEW g \in GrantIds,
         InTime(c, g)', ~grants'[g].live, grants'[g] # NoGrant, GrantMove(g),
         UNCHANGED <<req[c], scope[c]>>
  PROVE  InTime(c, g) /\ grants'[g].to = grants[g].to /\ grants'[g].ns = grants[g].ns
         /\ grants'[g].verbs = grants[g].verbs
<1>1. grants[g] \in Grant
  BY DEF TypeOK, GrantsOK
<1>2. grants'[g] = grants[g] \/ grants'[g] = [grants[g] EXCEPT !.live = FALSE]
  BY DEF GrantMove
<1> QED BY <1>1, <1>2 DEF InTime, Grant

LEMMA WitnessedStep ==
  ASSUME TypeOK, TypeOK', Witnessed, Next, GrantMoves
  PROVE  Witnessed'
<1> SUFFICES ASSUME NEW c \in Callers, Gathering(req'[c]), NEW g \in GrantIds
             PROVE  /\ sure'[c][g].ns \subseteq GivenBy(grants'[g], req'[c].user).ns
                    /\ sure'[c][g].destroy => GivenBy(grants'[g], req'[c].user).destroy
                    /\ (grants'[g].to \in Principals(req'[c].user) /\ InTime(c, g)') =>
                         /\ "*" \in grants'[g].verbs => grants'[g].ns \subseteq maybe'[c].ns
                         /\ "destroy" \in grants'[g].verbs => maybe'[c].destroy
  BY DEF Witnessed
<1> DEFINE now == GivenBy(grants'[g], req'[c].user)
<1>1. /\ sure'[c][g].ns \subseteq now.ns
      /\ sure'[c][g].destroy => now.destroy
      /\ now.ns \cup maybe[c].ns \subseteq maybe'[c].ns
      /\ now.destroy \/ maybe[c].destroy => maybe'[c].destroy
  BY Observed
<1>2. ASSUME grants'[g].to \in Principals(req'[c].user), InTime(c, g)'
      PROVE  /\ "*" \in grants'[g].verbs => grants'[g].ns \subseteq maybe'[c].ns
             /\ "destroy" \in grants'[g].verbs => maybe'[c].destroy
  <2>1. CASE grants'[g].live
    BY <1>1, <1>2, <2>1 DEF GivenBy
  <2>2. CASE ~grants'[g].live
    <3>1. req'[c].pc = "scopeByName" /\ g \in scope'[c].timely
      BY <1>2, <2>2 DEF InTime
    <3>2. grants'[g] # NoGrant
      BY <1>2, AccessAssumption, AccountsAssumption DEF NoGrant, Principals, None
    <3>3. CASE UNCHANGED <<req[c], scope[c]>>
      <4>1. /\ InTime(c, g) /\ grants'[g].to = grants[g].to /\ grants'[g].ns = grants[g].ns
            /\ grants'[g].verbs = grants[g].verbs
        BY <1>2, <2>2, <3>2, <3>3, StaysInTime DEF GrantMoves
      <4>2. /\ "*" \in grants[g].verbs => grants[g].ns \subseteq maybe[c].ns
            /\ "destroy" \in grants[g].verbs => maybe[c].destroy
        BY <1>2, <3>3, <4>1 DEF Witnessed
      <4> QED BY <1>1, <4>1, <4>2
    <3>4. CASE EffectiveScope(c)
      <4>1. scope'[c].timely \in {{}, Live} /\ UNCHANGED grants
        BY <3>4 DEF EffectiveScope, NoScope, TypeOK, ScopesOK
      <4> QED BY <2>2, <3>1, <4>1 DEF Live
    <3>5. CASE ScopeByName(c)
      BY <3>1, <3>5 DEF ScopeByName, TypeOK, RequestsOK, Request
    <3> QED BY <3>1, <3>3, <3>4, <3>5, EveryScopeMove DEF ScopeMove
  <2> QED BY <2>1, <2>2
<1> QED BY <1>1, <1>2

(* What the gathering adds for a principal, seen from one grant. *)
LEMMA GatheredHas ==
  ASSUME NEW p, NEW ids, NEW g \in ids, grants[g].to = p
  PROVE  /\ "*" \in grants[g].verbs => grants[g].ns \subseteq Gathered(p, ids).ns
         /\ "destroy" \in grants[g].verbs => Gathered(p, ids).destroy
  BY DEF Gathered

LEMMA GatheredOnly ==
  ASSUME NEW p, NEW ids, NEW most, NEW may,
         \A g \in ids : grants[g].to = p =>
           /\ "*" \in grants[g].verbs => grants[g].ns \subseteq most
           /\ "destroy" \in grants[g].verbs => may
  PROVE  Gathered(p, ids).ns \subseteq most /\ (Gathered(p, ids).destroy => may)
  BY DEF Gathered

(* A grant that a request has had throughout was there when it began. *)
LEMMA SureKeepsItsUser ==
  ASSUME TypeOK, Witnessed, GrantMoves, NEW c \in Callers, Gathering(req[c]), NEW g \in GrantIds,
         sure[c][g].ns # {} \/ sure[c][g].destroy
  PROVE  /\ grants[g].live /\ grants[g].to \in Principals(req[c].user)
         /\ grants'[g].to \in {grants[g].to, NoGrant.to}
<1>1. grants[g].live /\ grants[g].to \in Principals(req[c].user)
  BY SureIsLive DEF Witnessed
<1>2. grants[g] # NoGrant /\ grants[g] \in Grant /\ g \in issued
  BY <1>1 DEF NoGrant, TypeOK, GrantsOK
<1> QED BY <1>1, <1>2 DEF GrantMoves, GrantMove, Grant

LEMMA HalfGatheredStep ==
  ASSUME TypeOK, TypeOK', Witnessed, Witnessed', HalfGathered, Next, GrantMoves
  PROVE  HalfGathered'
<1> SUFFICES ASSUME NEW c \in Callers, req'[c].pc = "scopeByName"
             PROVE  /\ scope'[c].ns \subseteq maybe'[c].ns /\ (scope'[c].destroy => maybe'[c].destroy)
                    /\ \A g \in GrantIds : grants'[g].to = <<req'[c].user, "id">> =>
                         /\ sure'[c][g].ns \subseteq scope'[c].ns
                         /\ sure'[c][g].destroy => scope'[c].destroy
  BY DEF HalfGathered
<1> Gathering(req'[c]) /\ NoGrant.to = <<None, None>> /\ "id" # None
  BY DEF Gathering, NoGrant, None
<1>1. CASE UNCHANGED <<req[c], scope[c]>>
  <2>1. Gathering(req[c])
    BY <1>1
  <2>2. maybe[c].ns \subseteq maybe'[c].ns /\ (maybe[c].destroy => maybe'[c].destroy)
    <3>1. CASE GrantIds # {}
      BY <3>1, Observed
    <3>2. CASE GrantIds = {}
      BY <3>2 DEF Next, ObserveGrants
    <3> QED BY <3>1, <3>2
  <2>3. ASSUME NEW g \in GrantIds, grants'[g].to = <<req'[c].user, "id">>
        PROVE  /\ sure'[c][g].ns \subseteq scope'[c].ns
               /\ sure'[c][g].destroy => scope'[c].destroy
    <3>1. /\ sure'[c][g].ns \subseteq sure[c][g].ns
          /\ sure'[c][g].destroy => sure[c][g].destroy
      BY <2>1, Observed
    <3>2. CASE sure[c][g].ns # {} \/ sure[c][g].destroy
      <4>1. grants[g].to = grants'[g].to
        BY <2>1, <2>3, <3>2, SureKeepsItsUser
      <4> QED BY <1>1, <2>3, <3>1, <4>1 DEF HalfGathered
    <3> QED BY <3>1, <3>2
  <2> QED BY <1>1, <2>2, <2>3 DEF HalfGathered
<1>2. CASE EffectiveScope(c)
  <2> DEFINE some == Gathered(<<req[c].user, "id">>, Live)
  <2>1. scope'[c].ns = some.ns /\ (scope'[c].destroy <=> some.destroy)
    <3> HIDE DEF some
    <3>1. req[c].row.role # "admin"
      BY <1>2 DEF EffectiveScope, TypeOK, RequestsOK, Request
    <3>2. scope' = [scope EXCEPT ![c] = [NoScope EXCEPT !.ns = some.ns, !.destroy = some.destroy,
                                                        !.timely = Live]]
      BY <1>2, <3>1 DEF EffectiveScope, some
    <3> QED BY <3>2 DEF NoScope, TypeOK, ScopesOK
  <2>2. UNCHANGED grants /\ req'[c].user = req[c].user
    BY <1>2 DEF EffectiveScope, TypeOK, RequestsOK, Request
  <2>3. \A g \in Live : grants[g].to = <<req[c].user, "id">> =>
           /\ "*" \in grants[g].verbs => grants[g].ns \subseteq maybe'[c].ns
           /\ "destroy" \in grants[g].verbs => maybe'[c].destroy
    BY <2>2 DEF Witnessed, InTime, Principals, Live
  <2>4. some.ns \subseteq maybe'[c].ns /\ (some.destroy => maybe'[c].destroy)
    <3> DEFINE most == maybe'[c].ns
               may == maybe'[c].destroy
    <3>1. \A g \in Live : grants[g].to = <<req[c].user, "id">> =>
             /\ "*" \in grants[g].verbs => grants[g].ns \subseteq most
             /\ "destroy" \in grants[g].verbs => may
      BY <2>3
    <3> HIDE DEF most, may
    <3>2. some.ns \subseteq most /\ (some.destroy => may)
      BY <3>1, GatheredOnly
    <3> QED BY <3>2 DEF most, may
  <2>5. ASSUME NEW g \in GrantIds, grants'[g].to = <<req'[c].user, "id">>
        PROVE  /\ sure'[c][g].ns \subseteq some.ns
               /\ sure'[c][g].destroy => some.destroy
    <3> DEFINE s == sure'[c][g]
    <3>1. /\ s.ns \subseteq GivenBy(grants[g], req[c].user).ns
          /\ s.destroy => GivenBy(grants[g], req[c].user).destroy
      BY <2>2 DEF Witnessed
    <3> HIDE DEF s
    <3>2. /\ s.ns # {} => g \in Live /\ "*" \in grants[g].verbs /\ s.ns \subseteq grants[g].ns
          /\ s.destroy => g \in Live /\ "destroy" \in grants[g].verbs
      BY <3>1, SureIsLive DEF Live
    <3>3. g \in Live => /\ "*" \in grants[g].verbs => grants[g].ns \subseteq some.ns
                        /\ "destroy" \in grants[g].verbs => some.destroy
      BY <2>2, <2>5, GatheredHas
    <3> HIDE DEF some
    <3>4. s.ns \subseteq some.ns /\ (s.destroy => some.destroy)
      BY <3>2, <3>3
    <3> QED BY <3>4 DEF s
  <2> HIDE DEF some
  <2> QED BY <2>1, <2>4, <2>5
<1>3. CASE ScopeByName(c)
  BY <1>3 DEF ScopeByName, TypeOK, RequestsOK, Request
<1> QED BY <1>1, <1>2, <1>3, EveryScopeMove DEF ScopeMove

(* The second list completes the scope. *)
LEMMA ScopeIsGrantedStep ==
  ASSUME TypeOK, TypeOK', Witnessed, Witnessed', HalfGathered, ScopeIsGranted, Next, GrantMoves
  PROVE  ScopeIsGranted'
<1> SUFFICES ASSUME NEW c \in Callers, req'[c].pc = "scoped", ~scope'[c].admin
             PROVE  /\ scope'[c].ns \subseteq maybe'[c].ns /\ (scope'[c].destroy => maybe'[c].destroy)
                    /\ \A g \in GrantIds : /\ sure'[c][g].ns \subseteq scope'[c].ns
                                           /\ sure'[c][g].destroy => scope'[c].destroy
  BY DEF ScopeIsGranted
<1> Gathering(req'[c])
  BY DEF Gathering
<1>1. maybe[c].ns \subseteq maybe'[c].ns /\ (maybe[c].destroy => maybe'[c].destroy)
  <2>1. CASE GrantIds # {}
    BY <2>1, Observed
  <2>2. CASE GrantIds = {}
    BY <2>2 DEF Next, ObserveGrants
  <2> QED BY <2>1, <2>2
<1>2. ASSUME Gathering(req[c]), NEW g \in GrantIds
      PROVE  /\ sure'[c][g].ns \subseteq sure[c][g].ns
             /\ sure'[c][g].destroy => sure[c][g].destroy
  BY <1>2, Observed
<1>3. CASE UNCHANGED <<req[c], scope[c]>>
  BY <1>1, <1>2, <1>3 DEF ScopeIsGranted
<1>4. CASE EffectiveScope(c)
  BY <1>4 DEF EffectiveScope, NoScope, TypeOK, RequestsOK, ScopesOK, Request
<1>5. CASE ScopeByName(c)
  <2> DEFINE ids == Live \cup scope[c].timely
             more == Gathered(<<req[c].user, "name">>, ids)
             old == scope[c]
  <2> Gathering(req[c]) /\ req[c].pc = "scopeByName" /\ ids \subseteq GrantIds
    BY <1>5 DEF Gathering, ScopeByName, Live, TypeOK, ScopesOK, Scope
  <2>1. scope'[c].ns = old.ns \cup more.ns /\ (scope'[c].destroy <=> old.destroy \/ more.destroy)
    <3> HIDE DEF more
    <3>1. scope' = [scope EXCEPT ![c].ns = @ \cup more.ns, ![c].destroy = @ \/ more.destroy,
                                 ![c].timely = {}]
      BY <1>5 DEF ScopeByName, more
    <3> QED BY <3>1 DEF TypeOK, ScopesOK, Scope
  <2>2. \A g \in ids : grants[g].to = <<req[c].user, "name">> =>
           /\ "*" \in grants[g].verbs => grants[g].ns \subseteq maybe[c].ns
           /\ "destroy" \in grants[g].verbs => maybe[c].destroy
    BY DEF Witnessed, InTime, Principals, Live
  <2>3. more.ns \subseteq maybe[c].ns /\ (more.destroy => maybe[c].destroy)
    <3> DEFINE most == maybe[c].ns
               may == maybe[c].destroy
    <3>1. \A g \in ids : grants[g].to = <<req[c].user, "name">> =>
             /\ "*" \in grants[g].verbs => grants[g].ns \subseteq most
             /\ "destroy" \in grants[g].verbs => may
      BY <2>2
    <3> HIDE DEF most, may, ids
    <3>2. more.ns \subseteq most /\ (more.destroy => may)
      BY <3>1, GatheredOnly
    <3> QED BY <3>2 DEF most, may
  <2>4. ASSUME NEW g \in GrantIds
        PROVE  /\ sure[c][g].ns \subseteq scope'[c].ns
               /\ sure[c][g].destroy => scope'[c].destroy
    <3> DEFINE s == sure[c][g]
    <3>1. /\ s.ns \subseteq GivenBy(grants[g], req[c].user).ns
          /\ s.destroy => GivenBy(grants[g], req[c].user).destroy
      BY DEF Witnessed
    <3>2. CASE grants[g].to = <<req[c].user, "id">>
      BY <2>1, <3>2 DEF HalfGathered
    <3>3. CASE grants[g].to = <<req[c].user, "name">>
      <4> HIDE DEF s
      <4>1. /\ s.ns # {} => g \in ids /\ "*" \in grants[g].verbs /\ s.ns \subseteq grants[g].ns
            /\ s.destroy => g \in ids /\ "destroy" \in grants[g].verbs
        BY <3>1, SureIsLive DEF Live
      <4>2. g \in ids => /\ "*" \in grants[g].verbs => grants[g].ns \subseteq more.ns
                         /\ "destroy" \in grants[g].verbs => more.destroy
        BY <3>3, GatheredHas
      <4> HIDE DEF more, ids
      <4>3. s.ns \subseteq scope'[c].ns /\ (s.destroy => scope'[c].destroy)
        BY <2>1, <4>1, <4>2
      <4> QED BY <4>3 DEF s
    <3>4. CASE grants[g].to \notin Principals(req[c].user)
      <4> HIDE DEF s
      <4>1. s.ns = {} /\ ~s.destroy
        BY <3>1, <3>4, SureIsLive
      <4> QED BY <4>1 DEF s
    <3> QED BY <3>2, <3>3, <3>4 DEF Principals
  <2> HIDE DEF more
  <2> QED BY <1>1, <1>2, <2>1, <2>3, <2>4 DEF HalfGathered
<1> QED BY <1>3, <1>4, <1>5, EveryScopeMove DEF ScopeMove

(* A scope a chat or a scan is given holds what any one grant gave its user
   throughout the time it was gathered, and nothing that was not given then. *)
THEOREM ScopeGranted == Spec => []ScopeIsGranted
<1>1. Init => ScopesSound
  BY DEF Init, AccountsInit, ScopesSound, Witnessed, HalfGathered, ScopeIsGranted, NoReq, Gathering
<1>2. TypeOK /\ TypeOK' /\ ScopesSound /\ [Next]_vars => ScopesSound'
  <2>1. CASE UNCHANGED vars
    BY <2>1 DEF vars, gateVars, grantVars, ScopesSound, Witnessed, HalfGathered, ScopeIsGranted,
                InTime
  <2>2. CASE TypeOK /\ TypeOK' /\ ScopesSound /\ Next
    <3>1. GrantMoves
      BY <2>2, StepTyped
    <3> QED BY <2>2, <3>1, WitnessedStep, HalfGatheredStep, ScopeIsGrantedStep DEF ScopesSound
  <2> QED BY <2>1, <2>2
<1>3. ScopesSound => ScopeIsGranted
  BY DEF ScopesSound
<1> QED BY <1>1, <1>2, <1>3, Typed, PTL DEF Spec

=============================================================================
