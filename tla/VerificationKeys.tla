-------------------------- MODULE VerificationKeys --------------------------
(***************************************************************************)
(* The public keys that IAM verifies foreign tokens with, and the requests *)
(* that use them:                                                          *)
(*   - KeySet, for the ServiceAccount tokens of the cluster issuer that    *)
(*     the plugin workload exchange accepts: a mutex, a maximum age, and   *)
(*     reloads that are spaced in time;                                    *)
(*   - the key maps of the Google and Microsoft identity providers, for ID *)
(*     tokens at login: no lock, refilled when a key id is unknown, never  *)
(*     emptied.                                                            *)
(* The two share nothing, so a behaviour has one issuer and the cache that *)
(* watches it.  The issuer rotates its keys and is sometimes out of reach. *)
(*                                                                         *)
(* Time is kept as ages, which stop counting once they are past every      *)
(* limit, so the clock itself is unbounded.  Computation takes no time.    *)
(***************************************************************************)
EXTENDS Naturals

CONSTANTS
    Key,        \* signing keys, named by their key id
    Kinds,      \* kinds that the keys may be of
    Request,    \* requests in flight
    None,
    Interval,   \* keyRefreshInterval
    MaxAge,     \* keyMaxAge
    Timeout,    \* keyLoadTimeout
    TTL,        \* TokenTTL of the exchange or MaxTokenLifetime, whichever is less
    MaxLife,    \* bound: how long a ServiceAccount token is still valid
    Claims      \* sets of claims that an ID token has

ASSUME KeysAssumption ==
    /\ Kinds \subseteq [Key -> {"RSA", "EC", "enc"}]
    /\ Interval \in Nat /\ MaxAge \in Nat /\ Timeout \in Nat
    /\ Timeout < Interval /\ Interval < MaxAge
    /\ TTL \in Nat \ {0} /\ MaxLife \in Nat
    /\ None \notin Key \cup Request
    /\ \A held \in SUBSET Key : held # None

VARIABLES
    issuer,      \* "cluster", "google" or "microsoft"
    reachable,   \* does the issuer answer?
    trouble,     \* age of its last moment without a usable answer
    Kind,        \* [k] "RSA", "EC", or "enc": RSA, published for encryption only
    status,      \* [k] "new", "published" or "retired"
    age,         \* [k] age of the status
    keys,        \* KeySet.keys or keyCache; None: not loaded
    loaded,      \* age of loadedAt
    attempted,   \* age of attemptedAt
    mu,          \* holder of KeySet.mu
    request

environment == <<issuer, Kind, reachable, trouble, status, age>>
cache == <<keys, loaded, attempted, mu>>
vars == <<environment, cache, request>>

\* A request: the key that signed its token and the key id in the header; for
\* how long the ServiceAccount token is still valid once that was checked, the
\* lifetime of what is issued for it and what is left of that; for a login, the
\* keys still to be stored, whether another refill overlapped, and whether the
\* key has been published, and the provider fit to say so, all the time.
Idle == [pc |-> "idle", signer |-> None, kid |-> None, valid |-> 0, lifetime |-> 0, left |-> 0,
         todo |-> {}, overlap |-> FALSE, owed |-> FALSE]

Old == MaxAge
Older(t) == IF t < Old THEN t + 1 ELSE t
Less(t) == IF t > 0 THEN t - 1 ELSE t

Init ==
    /\ issuer \in {"cluster", "google", "microsoft"}
    /\ Kind \in Kinds
    /\ reachable = TRUE /\ trouble = Old
    /\ \E k \in Key : status = [x \in Key |-> IF x = k THEN "published" ELSE "new"]
    /\ age = [k \in Key |-> Old]
    /\ keys = None /\ loaded = Old /\ attempted = Old
    /\ mu = None
    /\ request = [r \in Request |-> Idle]

Published == {k \in Key : status[k] = "published"}
Set(r, new) == request' = [request EXCEPT ![r] = new]
Goto(r, pc) == Set(r, [request[r] EXCEPT !.pc = pc])
Refuse(r) == Set(r, Idle)
Loading(r) == request[r].pc \in {"ready load", "verify load"}

-----------------------------------------------------------------------------
(* What the two caches make of a published key set.                        *)

\* load keeps the public keys meant for signatures and fails without any.
load(published) ==
    LET signing == {k \in published : Kind[k] # "enc"}
    IN IF signing = {} THEN None ELSE signing

\* The key set as a map, or None: one key that is not RSA spoils it.  The use
\* of a key is not looked at.
getRawJwksKeys(published) ==
    IF \E k \in published : Kind[k] = "EC" THEN None ELSE published

-----------------------------------------------------------------------------
(* The issuer and the clock.                                               *)

Usable(up, published) ==
    /\ up
    /\ (IF issuer = "cluster" THEN load(published) ELSE getRawJwksKeys(published)) # None

\* The issuer changes: what it owed to logins it owes only if it stays usable.
Change(up, stat) ==
    LET published == {k \in Key : stat[k] = "published"}
        usable == Usable(reachable, Published) /\ Usable(up, published)
    IN /\ reachable' = up
       /\ status' = stat
       /\ trouble' = IF usable \/ issuer # "cluster" THEN trouble ELSE 0
       /\ request' = [r \in Request |-> [request[r] EXCEPT
                        !.owed = @ /\ usable /\ request[r].signer \in published]]
       /\ UNCHANGED <<issuer, Kind, cache>>

Rotate(k) ==
    /\ status[k] # "retired"
    /\ Change(reachable, [status EXCEPT ![k] = IF @ = "new" THEN "published" ELSE "retired"])
    /\ age' = [age EXCEPT ![k] = IF issuer = "cluster" THEN 0 ELSE Old]

\* The same key id is used again only after every trace of it is gone.
Forget(k) ==
    /\ status[k] = "retired" /\ age[k] = Old
    /\ keys # None => k \notin keys
    /\ \A r \in Request : request[r].signer # k
    /\ status' = [status EXCEPT ![k] = "new"]
    /\ UNCHANGED <<issuer, Kind, reachable, trouble, age, cache, request>>

Reach == Change(~reachable, status) /\ UNCHANGED age

\* A unit of time.  A load has ended by its timeout.  (Nothing about a login
\* depends on time.)
Tick ==
    /\ issuer = "cluster"
    /\ \A r \in Request : Loading(r) => attempted < Timeout
    /\ trouble' = IF Usable(reachable, Published) THEN Older(trouble) ELSE 0
    /\ age' = [k \in Key |-> Older(age[k])]
    /\ loaded' = Older(loaded) /\ attempted' = Older(attempted)
    /\ request' = [r \in Request |-> [request[r] EXCEPT !.valid = Less(@), !.left = Less(@)]]
    /\ UNCHANGED <<issuer, Kind, reachable, status, keys, mu>>

-----------------------------------------------------------------------------
(* KeySet: the exchange of a ServiceAccount token.                         *)

keysForWithoutMaxAgeBug(kid) ==
    (keys = None \/ (kid # None /\ kid \notin keys)) /\ attempted >= Interval

\* Does a call of keysFor go to the issuer?  If the keys are stale or lack the
\* one asked for, and the last attempt is long enough ago.
keysFor(kid) ==
    LET stale == loaded >= MaxAge
        unknown == kid # None /\ (keys = None \/ kid \notin keys)
        mayReload == attempted >= Interval
    IN (stale \/ unknown) /\ mayReload

\* The keys with the token's key id are tried, all of them if it has none.
VerifySignature(r, known) ==
    /\ request[r].signer \in known
    /\ request[r].kid \in {None, request[r].signer}

\* keysFor returns.  Ready goes on with the claims that go-oidc checks before
\* the signature (issuer, expiry, not-before), VerifySignature with the others.
Return(r) ==
    LET first == request[r].pc \in {"ready", "ready load"} IN
    CASE keys' = None -> Refuse(r)
      [] keys' # None /\ first ->
           \/ Refuse(r)
           \/ \E life \in 0..MaxLife : Set(r, [request[r] EXCEPT !.pc = "verify", !.valid = life])
      [] keys' # None /\ ~first ->
           IF VerifySignature(r, keys') THEN Goto(r, "verified") ELSE Refuse(r)

\* Ready and VerifySignature both begin with keysFor: under the mutex, which is
\* kept if a load is due.
Lock(r) ==
    LET q == request[r] IN
    /\ q.pc \in {"ready", "verify"}
    /\ mu = None
    /\ IF keysFor(IF q.pc = "ready" THEN None ELSE q.kid)
       THEN /\ attempted' = 0
            /\ mu' = r
            /\ Goto(r, IF q.pc = "ready" THEN "ready load" ELSE "verify load")
            /\ UNCHANGED <<keys, loaded>>
       ELSE UNCHANGED cache /\ Return(r)
    /\ UNCHANGED environment

LoadKeepsLockBug(r) ==
    /\ Loading(r)
    /\ IF reachable /\ load(Published) # None
       THEN keys' = load(Published) /\ loaded' = attempted /\ mu' = None
       ELSE UNCHANGED <<keys, loaded, mu>>
    /\ UNCHANGED attempted
    /\ Return(r)
    /\ UNCHANGED environment

\* The load ends, with new keys or without: the old ones then stay.
Load(r) ==
    /\ Loading(r)
    /\ IF reachable /\ load(Published) # None
       THEN keys' = load(Published) /\ loaded' = attempted
       ELSE UNCHANGED <<keys, loaded>>
    /\ mu' = None
    /\ UNCHANGED attempted
    /\ Return(r)
    /\ UNCHANGED environment

\* The configured lifetime, but never beyond the subject token's expiry.
IssuedLifetime(valid) == IF TTL < valid THEN TTL ELSE valid

\* The remaining checks of Verify (the subject, the kubernetes.io claims), the
\* binding from the database, MatchAudience; then the clock is read, and what is
\* to be issued has to be valid for a second at least.  (TokenAuth has the
\* conditions on the binding and what becomes of the token.)
Exchange(r) ==
    LET lifetime == IssuedLifetime(request[r].valid) IN
    /\ request[r].pc = "verified"
    /\ \/ Refuse(r)
       \/ /\ lifetime >= 1
          /\ Set(r, [request[r] EXCEPT !.pc = "insert", !.lifetime = lifetime, !.left = lifetime])
    /\ UNCHANGED <<environment, cache>>

CreatePluginWorkloadTokenLateClockBug(r) ==
    /\ request[r].pc = "insert"
    /\ \/ Refuse(r)
       \/ Set(r, [request[r] EXCEPT !.pc = "issued", !.left = request[r].lifetime])
    /\ UNCHANGED <<environment, cache>>

\* The token is stored with the expiry computed from that reading of the clock,
\* and answered, unless its binding is gone by now.
CreatePluginWorkloadToken(r) ==
    /\ request[r].pc = "insert"
    /\ \/ Refuse(r)
       \/ Goto(r, "issued")
    /\ UNCHANGED <<environment, cache>>

\* It is accepted until its expiry.
Expire(r) ==
    /\ request[r].pc = "issued" /\ request[r].left = 0
    /\ Set(r, Idle)
    /\ UNCHANGED <<environment, cache>>

-----------------------------------------------------------------------------
(* Google and Microsoft: the ID token of a login.                          *)

\* wrapKeyFunc accepts RSA with a key id only, and asks for no key's use.
SigningMethodRSA(q) == Kind[q.signer] # "EC" /\ q.kid # None

wrapKeyFuncFilledOnceBug(r) ==
    LET q == request[r] IN
    /\ q.pc = "key"
    /\ CASE ~SigningMethodRSA(q) -> Refuse(r)
         [] SigningMethodRSA(q) /\ keys = None -> Goto(r, "fetch")
         [] SigningMethodRSA(q) /\ keys # None -> IF q.kid \in keys THEN Goto(r, "verified id") ELSE Refuse(r)
    /\ UNCHANGED <<environment, cache>>

\* An unknown key id refills the map.
wrapKeyFunc(r) ==
    LET q == request[r] IN
    /\ q.pc = "key"
    /\ CASE ~SigningMethodRSA(q) -> Refuse(r)
         [] SigningMethodRSA(q) /\ keys # None /\ q.kid \in keys -> Goto(r, "verified id")
         [] OTHER -> Goto(r, "fetch")
    /\ UNCHANGED <<environment, cache>>

Refilling == {r \in Request : request[r].pc \in {"fetch", "check", "make", "store"}}

\* refillKeyCache: the OpenID configuration and the key set are fetched, ...
Fetch(r) ==
    LET got == getRawJwksKeys(Published) IN
    /\ request[r].pc = "fetch"
    /\ IF reachable /\ got # None
       THEN request' = [s \in Request |->
              CASE s = r -> [request[s] EXCEPT !.pc = "check", !.todo = got, !.overlap = @ \/ Refilling # {r}]
                [] s # r /\ s \in Refilling -> [request[s] EXCEPT !.overlap = TRUE]
                [] OTHER -> request[s]]
       ELSE Refuse(r)
    /\ UNCHANGED <<environment, cache>>

\* ... if there is no map yet a new one is assigned, ...
CheckMap(r) ==
    /\ request[r].pc = "check"
    /\ Goto(r, IF keys = None THEN "make" ELSE "store")
    /\ UNCHANGED <<environment, cache>>

MakeMap(r) ==
    /\ request[r].pc = "make"
    /\ keys' = {}
    /\ Goto(r, "store")
    /\ UNCHANGED <<environment, loaded, attempted, mu>>

\* ... the keys are stored one by one, and the one asked for is looked up.
Store(r) ==
    /\ request[r].pc = "store"
    /\ IF request[r].todo = {}
       THEN /\ IF request[r].kid \in keys THEN Goto(r, "verified id") ELSE Refuse(r)
            /\ UNCHANGED keys
       ELSE \E k \in request[r].todo :
              /\ keys' = keys \cup {k}
              /\ Set(r, [request[r] EXCEPT !.todo = @ \ {k}])
    /\ UNCHANGED <<environment, loaded, attempted, mu>>

\* Two goroutines in the map while one of them writes: the Go runtime may end
\* the process ("concurrent map read and map write").  It starts again empty.
Fatal ==
    /\ \E r, s \in Request :
          /\ r # s
          /\ request[r].pc = "store" /\ request[r].todo # {}
          /\ request[s].pc \in {"key", "store"}
    /\ keys' = None
    /\ request' = [r \in Request |-> Idle]
    /\ UNCHANGED <<environment, loaded, attempted, mu>>

\* What the library and IdentifyUser insist on besides the signature.
IdentifyUserGoogle == {"exp", "not expired", "issuer", "audience"}
IdentifyUserMicrosoft == IdentifyUserGoogle \cup {"iat", "nbf", "iat not in the future", "oid", "tid"}

IdentifyUser(r) ==
    LET required == IF issuer = "google" THEN IdentifyUserGoogle ELSE IdentifyUserMicrosoft IN
    /\ request[r].pc = "verified id"
    /\ \E has \in Claims : IF required \subseteq has THEN Goto(r, "identified") ELSE Refuse(r)
    /\ UNCHANGED <<environment, cache>>

LoggedIn(r) ==
    /\ request[r].pc = "identified"
    /\ Set(r, Idle)
    /\ UNCHANGED <<environment, cache>>

-----------------------------------------------------------------------------

\* A token arrives: whose key signed it, with or without its key id.
Begin(r) ==
    /\ request[r].pc = "idle"
    /\ \E signer \in Key, anonymous \in BOOLEAN :
          /\ status[signer] # "new"
          /\ Set(r, [Idle EXCEPT !.pc = IF issuer = "cluster" THEN "ready" ELSE "key",
                                 !.signer = signer, !.kid = IF anonymous THEN None ELSE signer,
                                 !.owed = /\ issuer # "cluster" /\ signer \in Published
                                          /\ Usable(reachable, Published)])
    /\ UNCHANGED <<environment, cache>>

Step(r) ==
    \/ Lock(r) \/ Load(r) \/ Exchange(r) \/ CreatePluginWorkloadToken(r) \/ Expire(r)
    \/ wrapKeyFunc(r) \/ Fetch(r) \/ CheckMap(r) \/ MakeMap(r) \/ Store(r) \/ IdentifyUser(r) \/ LoggedIn(r)

Next ==
    \/ Tick \/ Reach \/ Fatal
    \/ \E k \in Key : Rotate(k) \/ Forget(k)
    \/ \E r \in Request : Begin(r) \/ Step(r)

Spec == Init /\ [][Next]_vars

-----------------------------------------------------------------------------
(* Properties.                                                             *)

TypeOK ==
    /\ status \in [Key -> {"new", "published", "retired"}]
    /\ age \in [Key -> 0..Old]
    /\ {trouble, loaded, attempted} \subseteq 0..Old
    /\ keys = None \/ keys \subseteq Key
    /\ mu \in Request \cup {None}
    /\ \A r \in Request : request[r].signer \in Key \cup {None} /\ request[r].todo \subseteq Key

\* The issuer had no usable answer at some time in the last Interval.
Troubled == trouble < Interval

\* "keyMaxAge bounds how long a key removed by the issuer stays trusted while
\* the issuer is reachable": a signature that passes was made with a key that
\* is published, or was until less than MaxAge ago.  While the issuer cannot be
\* reached, or offers no signing key at all, the old keys remain in use.
TrustEnds ==
    \A r \in Request :
        LET k == request[r].signer IN
        request[r].pc # "verified" /\ request'[r].pc = "verified" =>
            k \in Published \/ age[k] < MaxAge \/ Troubled

\* A token with a key id, signed with a key that has been published for the
\* Interval, is not refused for its signature, whatever key ids others asked
\* for in between ("arbitrary key IDs must not become API server traffic").
RotationIsFollowed ==
    \A r \in Request :
        LET q == request[r] IN
        q.pc \in {"verify", "verify load"} /\ request'[r].pc = "idle" /\ q.kid # None =>
            \/ status[q.kid] # "published" \/ Kind[q.kid] = "enc"
            \/ age[q.kid] < Interval
            \/ Troubled

\* "A failed reload keeps the previous keys, so a briefly unreachable issuer
\* does not stop the exchange": once loaded there always are keys to try, and
\* none of them was published for another purpose.
KeysAreKept ==
    issuer = "cluster" /\ keys # None =>
        keys' # None /\ keys' # {} /\ \A k \in keys' : Kind[k] # "enc"

\* "an exchanged token never outlives the credential that justified it": as long
\* as an issued token is accepted its ServiceAccount token would be, though time
\* passes between the check of the one, the computation of the other's expiry,
\* its insertion and its use.
NeverOutlives ==
    \A r \in Request : request[r].pc = "issued" /\ request[r].left > 0 => request[r].valid > 0

\* A login whose RSA key was published, and the provider fit to say so, from
\* its beginning on is not refused for its signature, unless another refill of
\* the map ran at the same time.
LoginSucceeds ==
    [][\A r \in Request :
          LET q == request[r] IN
          /\ q.pc \in {"key", "fetch", "store"} /\ request'[r].pc = "idle"
          /\ q.owed /\ SigningMethodRSA(q)
          => q.overlap \/ Fatal]_vars

\* The mutex is held by the request that is loading and by nobody else: it is
\* released however the load ends, so no exchange waits longer than a timeout.
MutexIsReleased ==
    \A r \in Request : mu = r <=> Loading(r)

\* Types, and that load releases the mutex of the key set on every path.
KeysInv == TypeOK /\ MutexIsReleased

\* Every step of KeySet (keysFor, load) follows the issuer: an old key is refused once it is too old, a
\* new one is accepted after a refresh, and a failed refresh loses no key.
TrustFollowsIssuer == [][TrustEnds /\ RotationIsFollowed /\ KeysAreKept]_vars
=============================================================================
