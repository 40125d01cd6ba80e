------------------------------ MODULE TokenAuth -----------------------------
(***************************************************************************)
(* Tokens and their authentication: InternalAuthenticate with its cache    *)
(* (internal/api/authenticate.go), service users, platform principals and  *)
(* plugin workload bindings with the tokens exchanged for them.            *)
(*                                                                         *)
(* A credential is a random payload presented as one of three kinds.  Its  *)
(* prefix chooses the kind, so a payload can be presented as any of them.  *)
(* Time passes in ticks; the cache keeps an entry for TTL ticks.           *)
(*                                                                         *)
(* Every management request reads and writes one row whose properties the  *)
(* read cannot see change (only platform principals can be bound, and a    *)
(* principal never changes its scope or gains a first static token), and   *)
(* is one step.  The exchange and the authentication are not.              *)
(***************************************************************************)
EXTENDS Naturals, FiniteSets, Functions

CONSTANTS
    Replica,    \* processes, each with its own cache
    Payload,    \* token payloads; bounds the tokens issued
    Principal,  \* service users
    Binding,    \* binding ids; bounds the bindings created
    Request,    \* concurrent authentications and exchanges
    Presented,  \* pairs of kinds: issued as, presented as
    None,
    Human,      \* the user sessions belong to
    TTL,        \* authenticationTokenCacheTTL, in ticks
    MaxLookup   \* bound: ticks between a lookup's query and its cache entry

Kind == {"session", "service-user", "plugin-workload"}

ASSUME TokenAssumption ==
    /\ Presented \subseteq Kind \X Kind
    /\ None \notin Principal \cup Payload \cup Binding \cup Kind
    /\ Human \notin Principal \cup {None}
    /\ TTL \in Nat \ {0}
    /\ MaxLookup \in Nat

VARIABLES
    su,       \* [p] service_user_tokens: scope, hash and whether it was expired
    roles,    \* service users that hold a role
    binding,  \* [b] plugin_workload_bindings: the bound principal
    wtok,     \* [x] plugin_workload_tokens: the binding
    sessions, \* session tokens
    used,     \* binding ids used already
    issued,   \* history: [x] kind and owner a payload was issued as
    expired,  \* payloads whose lifetime has ended
    revoked,  \* history: [x] 0, or one more than the ticks since revocation
              \* (Cap at once unless the token is static)
    cache,    \* [i][k, x] entry of GetTokenByHashCache, or None
    req,      \* [q] the authentication or exchange
    legacy,   \* organization service users bound by an earlier release
    static    \* configuration: PluginWorkloadStaticTokens

db == <<su, roles, binding, wtok, sessions, used, issued, expired, revoked>>
config == <<legacy, static>>
vars == <<db, cache, req, config>>

NoRow == [scope |-> "none", hash |-> None, cut |-> FALSE]
Idle == [pc |-> "idle", at |-> None, kind |-> None, x |-> None, res |-> None, dead |-> FALSE, age |-> 0]
Negative == [who |-> None, cut |-> FALSE, bound |-> FALSE, roles |-> FALSE]
NoToken == [kind |-> None, who |-> None]
Key == Kind \X Payload
Cap == TTL + MaxLookup + 1

BoundTo(p) == {b \in Binding : binding[b] = p}
Ended(p) == su[p].cut \/ su[p].hash \in expired
\* serviceUserActive
Active(p) == su[p].scope \in {"organization", "platform"} /\ ~Ended(p)

\* The database may hold legacy service users, with or without roles; a
\* payload and a binding id are chosen for each.
Init ==
    /\ legacy \in SUBSET Principal
    /\ static \in BOOLEAN
    /\ \E own \in [legacy -> Payload], of \in [legacy -> Binding] :
          /\ \A p, o \in legacy : p # o => own[p] # own[o] /\ of[p] # of[o]
          /\ su = [p \in Principal |->
                     IF p \in legacy THEN [scope |-> "organization", hash |-> own[p], cut |-> FALSE] ELSE NoRow]
          /\ binding = [b \in Binding |-> IF b \in Range(of) THEN AntiFunction(of)[b] ELSE None]
          /\ used = Range(of)
          /\ issued = [x \in Payload |->
                         IF x \in Range(own) THEN [kind |-> "service-user", who |-> AntiFunction(own)[x]] ELSE NoToken]
    /\ roles \in SUBSET legacy
    /\ wtok = [x \in Payload |-> None]
    /\ sessions = {}
    /\ expired = {}
    /\ revoked = [x \in Payload |-> 0]
    /\ cache = [i \in Replica |-> [k \in Key |-> None]]
    /\ req = [q \in Request |-> Idle]

-----------------------------------------------------------------------------
(* Service users and platform principals.                                  *)

\* A new payload is issued; the tokens in gone cannot authenticate any more.
Issue(x, k, who) ==
    /\ issued[x] = NoToken
    /\ issued' = [issued EXCEPT ![x] = [kind |-> k, who |-> who]]
Revoke(gone) ==
    revoked' = [x \in Payload |-> IF x \notin gone \/ revoked[x] # 0 THEN revoked[x]
                                 ELSE IF issued[x].kind = "service-user" THEN 1 ELSE Cap]
TokensOf(bs) == {x \in Payload : wtok[x] \in bs}

\* Rows that refer to a deleted service user are deleted with it.
DropPrincipal(p) ==
    /\ su' = [su EXCEPT ![p] = [NoRow EXCEPT !.scope = "deleted"]]
    /\ roles' = roles \ {p}
    /\ binding' = [b \in Binding |-> IF b \in BoundTo(p) THEN None ELSE binding[b]]
    /\ wtok' = [x \in Payload |-> IF wtok[x] \in BoundTo(p) THEN None ELSE wtok[x]]
    /\ Revoke(TokensOf(BoundTo(p)) \cup ({su[p].hash} \cap Payload))

\* The row of a new principal, with its static token.
InsertPrincipal(p, scope, x) ==
    /\ su[p] = NoRow
    /\ su' = [su EXCEPT ![p] = [scope |-> scope, hash |-> x, cut |-> FALSE]]
    /\ Issue(x, "service-user", p)

SetToken(p, x) ==
    /\ Issue(x, "service-user", p)
    /\ su' = [su EXCEPT ![p].hash = x, ![p].cut = FALSE]
    /\ Revoke({su[p].hash} \cap Payload)

SetRoles(p, some) == roles' = IF some THEN roles \cup {p} ELSE roles \ {p}

Management == UNCHANGED <<cache, req, config>>

\* With roles, or with an empty list of roles.
CreateServiceUser(p, x, withRoles) ==
    /\ InsertPrincipal(p, "organization", x)
    /\ SetRoles(p, withRoles)
    /\ Management /\ UNCHANGED <<binding, wtok, sessions, used, expired, revoked>>

RegenerateServiceUser(p, x) ==
    /\ su[p].scope = "organization"
    /\ static \/ BoundTo(p) = {}
    /\ SetToken(p, x)
    /\ Management /\ UNCHANGED <<roles, binding, wtok, sessions, used, expired>>

DeleteServiceUser(p) ==
    /\ su[p].scope = "organization"
    /\ DropPrincipal(p)
    /\ Management /\ UNCHANGED <<sessions, used, issued, expired>>

ReplaceServiceUserRoles(p, some) ==
    /\ su[p].scope = "organization"
    /\ BoundTo(p) = {}
    /\ SetRoles(p, some)
    /\ Management /\ UNCHANGED <<su, binding, wtok, sessions, used, issued, expired, revoked>>

\* BulkExpireAllServiceUserTokens of InternalRemoveAccessFromOrg.
BulkExpire ==
    LET org == {p \in Principal : su[p].scope = "organization"} IN
    /\ org # {}
    /\ su' = [p \in Principal |-> IF p \in org THEN [su[p] EXCEPT !.cut = TRUE] ELSE su[p]]
    /\ Revoke({su[p].hash : p \in org})
    /\ Management /\ UNCHANGED <<roles, binding, wtok, sessions, used, issued, expired>>

CreatePlatformPrincipal(p, x) ==
    /\ InsertPrincipal(p, "platform", x)
    /\ Management /\ UNCHANGED <<roles, binding, wtok, sessions, used, expired, revoked>>

\* A plugin workload principal, which has no static token, gets none.
RegeneratePlatformPrincipal(p, x) ==
    /\ su[p].scope = "platform"
    /\ su[p].hash # None
    /\ SetToken(p, x)
    /\ Management /\ UNCHANGED <<roles, binding, wtok, sessions, used, expired>>

DeletePlatformPrincipal(p) ==
    /\ su[p].scope = "platform"
    /\ DropPrincipal(p)
    /\ Management /\ UNCHANGED <<sessions, used, issued, expired>>

-----------------------------------------------------------------------------
(* Plugin workload bindings and the token exchange.                        *)

\* For a new platform principal, or for one without a static token and binding.
CreatePluginWorkloadBinding(p, b) ==
    /\ b \notin used
    /\ \/ /\ su[p] = NoRow
          /\ su' = [su EXCEPT ![p].scope = "platform"]
       \/ /\ su[p].scope = "platform"
          /\ su[p].hash = None
          /\ BoundTo(p) = {}
          /\ UNCHANGED su
    /\ binding' = [binding EXCEPT ![b] = p]
    /\ used' = used \cup {b}
    /\ Management /\ UNCHANGED <<roles, wtok, sessions, issued, expired, revoked>>

DeletePluginWorkloadBinding(b) ==
    /\ binding[b] # None
    /\ binding' = [binding EXCEPT ![b] = None]
    /\ wtok' = [x \in Payload |-> IF wtok[x] = b THEN None ELSE wtok[x]]
    /\ Revoke(TokensOf({b}))
    /\ Management /\ UNCHANGED <<su, roles, sessions, used, issued, expired>>

\* ExchangePluginWorkloadToken: the binding is read ...
Exchange(q, b) ==
    /\ req[q] = Idle
    /\ binding[b] # None
    /\ Active(binding[b])
    /\ binding[b] \notin roles
    /\ req' = [req EXCEPT ![q] = [Idle EXCEPT !.pc = "issue", !.at = b]]
    /\ UNCHANGED <<db, cache, config>>

\* ... and the token inserted, if the binding still exists then.
IssueWorkloadToken(q, x) ==
    /\ req[q].pc = "issue"
    /\ binding[req[q].at] # None
    /\ Issue(x, "plugin-workload", binding[req[q].at])
    /\ wtok' = [wtok EXCEPT ![x] = req[q].at]
    /\ req' = [req EXCEPT ![q] = Idle]
    /\ UNCHANGED <<su, roles, binding, sessions, used, expired, revoked, cache, config>>

ExchangeRejected(q) ==
    /\ req[q].pc = "issue"
    /\ binding[req[q].at] = None
    /\ req' = [req EXCEPT ![q] = Idle]
    /\ UNCHANGED <<db, cache, config>>

-----------------------------------------------------------------------------
(* Sessions and time.                                                      *)

Login(x) ==
    /\ Issue(x, "session", Human)
    /\ sessions' = sessions \cup {x}
    /\ Management /\ UNCHANGED <<su, roles, binding, wtok, used, expired, revoked>>

Logout(x) ==
    /\ x \in sessions
    /\ sessions' = sessions \ {x}
    /\ Revoke({x})
    /\ Management /\ UNCHANGED <<su, roles, binding, wtok, used, issued, expired>>

\* The lifetime of a token ends.
Expire(x) ==
    /\ issued[x] # NoToken
    /\ x \notin expired
    /\ expired' = expired \cup {x}
    /\ Management /\ UNCHANGED <<su, roles, binding, wtok, sessions, used, issued, revoked>>

\* DeleteExpiredSessionTokens and DeleteExpiredPluginWorkloadTokens.
Cleanup ==
    /\ \E x \in expired : x \in sessions \/ wtok[x] # None
    /\ sessions' = sessions \ expired
    /\ wtok' = [x \in Payload |-> IF x \in expired THEN None ELSE wtok[x]]
    /\ Management /\ UNCHANGED <<su, roles, binding, used, issued, expired, revoked>>

Tick ==
    /\ \A q \in Request : req[q].pc = "store" => req[q].age < MaxLookup
    /\ \E x \in Payload : revoked[x] \in 1..(Cap - 1) \/ \E i \in Replica, k \in Kind : cache[i][<<k, x>>] # None
    /\ revoked' = [x \in Payload |-> IF revoked[x] \in 1..(Cap - 1) THEN revoked[x] + 1 ELSE revoked[x]]
    /\ cache' = [i \in Replica |-> [k \in Key |->
                    IF cache[i][k] = None \/ cache[i][k].left = 1 THEN None
                    ELSE [cache[i][k] EXCEPT !.left = @ - 1]]]
    /\ req' = [q \in Request |-> IF req[q].pc = "store" THEN [req[q] EXCEPT !.age = @ + 1] ELSE req[q]]
    /\ UNCHANGED <<su, roles, binding, wtok, sessions, used, issued, expired, config>>

-----------------------------------------------------------------------------
(* Authentication.                                                         *)

\* What the handler decides about a token it was given.
Accepts(kind, x, t) ==
    /\ t.who # None
    /\ ~t.cut /\ x \notin expired
    /\ ~(kind = "service-user" /\ t.bound /\ (t.roles \/ ~static))

\* The request q for x, presented as kind at replica i, is answered.
Answer(q, i, kind, x, t, dead) ==
    req' = [req EXCEPT ![q] =
              IF Accepts(kind, x, t)
              THEN [pc |-> "accepted", at |-> i, kind |-> kind, x |-> x, res |-> t.who, dead |-> dead, age |-> 0]
              ELSE Idle]

KeyOfHashOnlyBug(k, x) == <<"session", x>>

\* The cache key.
KeyOf(k, x) == <<k, x>>

PositivelyCachedAllBug(k) == TRUE

\* Only service-user tokens are cached; of the others, only the knowledge that
\* there is no such token.
PositivelyCached(k) == k = "service-user"

Hit(i, k, x) ==
    LET e == cache[i][KeyOf(k, x)] IN e # None /\ (PositivelyCached(k) \/ e.who = None)

\* Somebody presents a payload of theirs as kind k.
Presents(q, k, x) == req[q] = Idle /\ <<issued[x].kind, k>> \in Presented

CacheHitAlwaysExtendedBug(q, i, k, x) ==
    LET e == cache[i][KeyOf(k, x)] IN
    /\ Presents(q, k, x)
    /\ Hit(i, k, x)
    /\ Answer(q, i, k, x, e, revoked[x] # 0)
    /\ cache' = [cache EXCEPT ![i][KeyOf(k, x)].left = TTL]
    /\ UNCHANGED <<db, config>>

\* Negative entries are extended, positive ones never.
CacheHit(q, i, k, x) ==
    LET e == cache[i][KeyOf(k, x)] IN
    /\ Presents(q, k, x)
    /\ Hit(i, k, x)
    /\ Answer(q, i, k, x, e, revoked[x] # 0)
    /\ cache' = IF e.who = None THEN [cache EXCEPT ![i][KeyOf(k, x)].left = TTL] ELSE cache
    /\ UNCHANGED <<db, config>>

RowWithoutPrefixBug(k, x) ==
    LET owner == {p \in Principal : su[p].hash = x} IN
    IF owner # {} THEN [Negative EXCEPT !.who = CHOOSE p \in owner : TRUE]
    ELSE IF x \in sessions THEN [Negative EXCEPT !.who = Human] ELSE Negative

\* GetServiceUserTokenByHash; the binding is still to be read.
StaticRow(x) ==
    LET owner == {p \in Principal : su[p].hash = x} IN
    IF owner = {} THEN Negative
    ELSE LET p == CHOOSE p \in owner : TRUE IN
         [who |-> p, cut |-> su[p].cut, bound |-> None, roles |-> p \in roles]

\* GetPluginWorkloadTokenByHash: neither the token nor its principal has ended.
WorkloadRow(x) ==
    LET holder == {p \in Principal : x \in TokensOf(BoundTo(p)) /\ Active(p) /\ p \notin roles} IN
    IF x \in expired \/ holder = {} THEN Negative
    ELSE [Negative EXCEPT !.who = CHOOSE p \in holder : TRUE]

\* GetSessionTokenByHash.
SessionRow(x) == IF x \in sessions THEN [Negative EXCEPT !.who = Human] ELSE Negative

\* The table is chosen by the kind.
Row(k, x) ==
    CASE k = "service-user" -> StaticRow(x)
      [] k = "plugin-workload" -> WorkloadRow(x)
      [] k = "session" -> SessionRow(x)

\* A miss: the table is queried.  A query that fails is answered with 401
\* and leaves no trace.
Lookup(q, i, k, x) ==
    /\ Presents(q, k, x)
    /\ ~Hit(i, k, x)
    /\ req' = [req EXCEPT ![q] = [pc |-> "store", at |-> i, kind |-> k, x |-> x, res |-> Row(k, x),
                                  dead |-> revoked[x] # 0, age |-> 0]]
    /\ UNCHANGED <<db, cache, config>>

\* The second query for a static token, in no transaction with the first: the
\* binding of the service user.  HoldsRoles matters only to one that is bound.
ReadBinding(q) ==
    LET r == req[q]
        bound == BoundTo(r.res.who) # {}
    IN /\ r.pc = "store"
       /\ r.res.bound = None
       /\ req' = [req EXCEPT ![q].res = [r.res EXCEPT !.bound = bound, !.roles = bound /\ r.res.roles]]
       /\ UNCHANGED <<db, cache, config>>

ReadBindingFails(q) ==
    /\ req[q].pc = "store"
    /\ req[q].res.bound = None
    /\ req' = [req EXCEPT ![q] = Idle]
    /\ UNCHANGED <<db, cache, config>>

\* The entry is written and the request answered.
Store(q) ==
    LET r == req[q]
        entry == [who |-> r.res.who, cut |-> r.res.cut, bound |-> r.res.bound, roles |-> r.res.roles, left |-> TTL]
    IN /\ r.pc = "store"
       /\ r.res.bound # None
       /\ cache' = IF PositivelyCached(r.kind)
                   THEN [cache EXCEPT ![r.at][KeyOf(r.kind, r.x)] = entry]
                   ELSE IF r.res.who = None \/ r.x \in expired
                   THEN [cache EXCEPT ![r.at][KeyOf(r.kind, r.x)] = [entry EXCEPT !.who = None]]
                   ELSE cache
       /\ Answer(q, r.at, r.kind, r.x, r.res, r.dead)
       /\ UNCHANGED <<db, config>>

\* The accepted request goes on.
Return(q) ==
    /\ req[q].pc = "accepted"
    /\ req' = [req EXCEPT ![q] = Idle]
    /\ UNCHANGED <<db, cache, config>>

-----------------------------------------------------------------------------

Next ==
    \/ \E p \in Principal, x \in Payload :
          \/ \E b \in BOOLEAN : CreateServiceUser(p, x, b)
          \/ RegenerateServiceUser(p, x)
          \/ CreatePlatformPrincipal(p, x)
          \/ RegeneratePlatformPrincipal(p, x)
    \/ \E p \in Principal :
          \/ DeleteServiceUser(p)
          \/ \E b \in BOOLEAN : ReplaceServiceUserRoles(p, b)
          \/ DeletePlatformPrincipal(p)
          \/ \E b \in Binding : CreatePluginWorkloadBinding(p, b)
    \/ \E b \in Binding : DeletePluginWorkloadBinding(b)
    \/ \E x \in Payload : Login(x) \/ Logout(x) \/ Expire(x)
    \/ BulkExpire \/ Cleanup \/ Tick
    \/ \E q \in Request :
          \/ \E b \in Binding : Exchange(q, b)
          \/ \E x \in Payload : IssueWorkloadToken(q, x)
          \/ ExchangeRejected(q)
          \/ \E i \in Replica, k \in Kind, x \in Payload : CacheHit(q, i, k, x) \/ Lookup(q, i, k, x)
          \/ ReadBinding(q) \/ ReadBindingFails(q) \/ Store(q) \/ Return(q)

Spec == Init /\ [][Next]_vars

-----------------------------------------------------------------------------
(* Properties.                                                             *)

TypeOK ==
    /\ su \in [Principal -> [scope : {"none", "organization", "platform", "deleted"},
                             hash : Payload \cup {None}, cut : BOOLEAN]]
    /\ roles \subseteq Principal
    /\ binding \in [Binding -> Principal \cup {None}]
    /\ wtok \in [Payload -> Binding \cup {None}]
    /\ sessions \subseteq Payload /\ expired \subseteq Payload /\ used \subseteq Binding
    /\ issued \in [Payload -> [kind : Kind \cup {None}, who : Principal \cup {Human, None}]]
    /\ revoked \in [Payload -> 0..Cap]
    /\ \A i \in Replica, k \in Key : cache[i][k] # None => cache[i][k].left \in 1..TTL
    /\ \A q \in Request : req[q].pc \in {"idle", "issue", "store", "accepted"} /\ req[q].age \in 0..MaxLookup

Accepted(q) == req[q].pc # "accepted" /\ req'[q].pc = "accepted"

\* "The previous token stops authenticating within the authentication cache
\* TTL": a regenerated, expired or deleted static token is accepted for at
\* most TTL after the last lookup that was under way, on every replica.
StaticRevocationBounded ==
    [][\A q \in Request : Accepted(q) /\ req'[q].kind = "service-user" =>
          revoked[req'[q].x] <= TTL + MaxLookup]_vars

\* "A human session must stop authenticating as soon as its database row is
\* deleted ... Plugin workload tokens follow the same rule": a request that
\* starts after the revocation is refused, on every replica.
RevokedAtOnce ==
    \A q \in Request : req[q].pc = "accepted" /\ req[q].kind # "service-user" => ~req[q].dead

\* A payload authenticates only as the kind and for the principal it was
\* issued for, whatever the caches hold for the same payload.
KindsStayApart ==
    \A q \in Request : req[q].pc = "accepted" =>
        issued[req[q].x] = [kind |-> req[q].kind, who |-> req[q].res]

\* "A plugin workload holds no role": a bound platform principal holds neither
\* a role nor a static token, through every order of creation, binding,
\* regeneration and deletion; and every workload token has its binding.
WorkloadHoldsNothing ==
    /\ \A b \in Binding : binding[b] # None /\ binding[b] \notin legacy =>
          su[binding[b]].scope = "platform" /\ su[binding[b]].hash = None /\ binding[b] \notin roles
    /\ \A x \in Payload : wtok[x] # None => binding[wtok[x]] # None

\* "it won't spontaneously map to a new token": a token that a cache remembers
\* as unknown can never authenticate again, so extending the entry is safe.
NegativesAreFinal ==
    \A i \in Replica, x \in Payload :
        LET k == issued[x].kind IN
        k \in Kind /\ issued[x].who \notin legacy /\ cache[i][KeyOf(k, x)] # None /\ cache[i][KeyOf(k, x)].who = None =>
            x \in expired \/ revoked[x] # 0

\* Types, that InternalAuthenticate accepts a token only as what it was issued
\* as, and that a plugin workload has no static token and no role of its own.
TokenInv == TypeOK /\ KindsStayApart /\ WorkloadHoldsNothing
=============================================================================
