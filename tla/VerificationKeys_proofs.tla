---------------------- MODULE VerificationKeys_proofs -----------------------
(***************************************************************************)
(* Proofs about VerificationKeys, for any keys, any number of requests in  *)
(* flight and any durations that the assumption admits.                    *)
(***************************************************************************)
EXTENDS VerificationKeys, TLAPS

Exchanging == {"ready", "ready load", "verify", "verify load", "verified", "insert", "issued"}
LoggingIn == {"key", "fetch", "check", "make", "store", "verified id", "identified"}
Filling == {"check", "make", "store"}

ReqType == [pc : {"idle"} \cup Exchanging \cup LoggingIn, signer : Key \cup {None}, kid : Key \cup {None},
            valid : Nat, lifetime : Nat, left : Nat, todo : SUBSET Key, overlap : BOOLEAN, owed : BOOLEAN]

Types ==
    /\ TypeOK
    /\ issuer \in {"cluster", "google", "microsoft"} /\ Kind \in Kinds /\ reachable \in BOOLEAN
    /\ request \in [Request -> ReqType]

\* An exchange talks to the cluster issuer, a login to a provider; a key id in
\* the header of a token is that of the key that signed it.
SideInv ==
    \A r \in Request :
        /\ request[r].pc \in Exchanging => issuer = "cluster"
        /\ request[r].pc \in LoggingIn => issuer # "cluster"
        /\ request[r].pc # "idle" => request[r].signer \in Key /\ request[r].kid \in {None, request[r].signer}

\* How old the keys can be: what is held was published when it was loaded, and
\* when the last attempt brought nothing newer the issuer was in trouble then.
AgeInv == issuer = "cluster" =>
    /\ ~reachable => trouble = 0
    /\ keys # None /\ ~Usable(reachable, Published) => trouble = 0
    /\ keys # None => /\ keys # {}
                      /\ \A k \in keys : /\ Kind[k] # "enc" /\ status[k] # "new"
                                         /\ status[k] # "published" => age[k] <= loaded
    /\ keys # None /\ mu = None /\ attempted < loaded => trouble <= attempted
    /\ mu = None => \A k \in Key : status[k] = "published" /\ Kind[k] # "enc" /\ attempted < age[k] =>
                        trouble <= attempted \/ (keys # None /\ k \in keys)

\* A login that the provider owes an answer finds its key among those that it
\* has yet to store or has stored, while nobody else fills the map.
FillInv ==
    /\ \A r \in Request :
          /\ request[r].owed => /\ issuer # "cluster" /\ request[r].signer \in Published
                                /\ Usable(reachable, Published)
          /\ request[r].pc = "store" => keys # None
          /\ request[r].pc \in Filling /\ request[r].owed /\ ~request[r].overlap =>
                \/ request[r].signer \in request[r].todo
                \/ request[r].pc = "store" /\ request[r].signer \in keys
    /\ \A r, s \in Request : r # s /\ request[r].pc \in Filling /\ request[s].pc \in Filling => request[r].overlap

IInv == Types /\ MutexIsReleased /\ SideInv /\ AgeInv /\ FillInv
-----------------------------------------------------------------------------
\* The numbers up to n.
LEMMA UpTo == \A n \in Nat : \A m \in 0..n : m \in Nat
  OBVIOUS

\* Nothing fits between a number and itself.
LEMMA Between ==
  ASSUME NEW a \in Nat, NEW i \in Nat, NEW g \in Nat
  PROVE  /\ ~(a >= i) => a < i
         /\ a < i /\ ~(g < i) => a < g
         /\ g <= a /\ a < i => g < i
  OBVIOUS

USE KeysAssumption

\* The durations, and a request that does nothing.
LEMMA Basics ==
  /\ Interval \in Nat /\ MaxAge \in Nat /\ Timeout \in Nat /\ 0 < Interval /\ Interval < MaxAge
  /\ Old = MaxAge /\ (\A k \in Key : k # None) /\ (\A r \in Request : r # None)
  /\ {} # None /\ \A K \in SUBSET Key : K # None
  /\ Idle \in ReqType /\ Idle.pc = "idle" /\ Idle.owed = FALSE
  BY DEF Old, Idle, ReqType

\* Ages grow together.
LEMMA OlderFacts ==
  ASSUME NEW a \in 0..Old, NEW b \in 0..Old
  PROVE  /\ Older(a) \in 0..Old
         /\ a <= b => Older(a) <= Older(b)
         /\ Older(a) < Older(b) => a < b
  BY Basics DEF Older

\* What makes an answer of the issuer usable.
LEMMA UsableMeans ==
  ASSUME NEW up, NEW pub \in SUBSET Key
  PROVE  Usable(up, pub) <=> /\ up
                             /\ issuer = "cluster" => \E k \in pub : Kind[k] # "enc"
                             /\ issuer # "cluster" => \A k \in pub : Kind[k] # "EC"
  BY Basics DEF Usable, load, getRawJwksKeys

\* The inductive invariant holds initially.
LEMMA InitIInv == Init => IInv
  <1> SUFFICES ASSUME Init PROVE IInv
    OBVIOUS
  <1>1. /\ request \in [Request -> ReqType] /\ \A r \in Request : request[r] = Idle
    BY Basics DEF Init
  <1>2. Types
    <2>1. status \in [Key -> {"new", "published", "retired"}] /\ age \in [Key -> 0..Old]
      BY Basics DEF Init
    <2>2. {trouble, loaded, attempted} \subseteq 0..Old
      BY Basics DEF Init
    <2>3. \A r \in Request : request[r].signer \in Key \cup {None} /\ request[r].todo \subseteq Key
      BY <1>1 DEF ReqType
    <2> QED
      BY <1>1, <2>1, <2>2, <2>3 DEF Init, Types, TypeOK
  <1>3. MutexIsReleased
    BY <1>1, Basics DEF Init, MutexIsReleased, Loading
  <1>4. SideInv
    BY <1>1, Basics DEF SideInv, Exchanging, LoggingIn
  <1>5. AgeInv
    <2>0. attempted = MaxAge /\ \A k \in Key : age[k] = MaxAge
      BY Basics DEF Init
    <2>1. ~(MaxAge < MaxAge)
      OBVIOUS
    <2>2. \A k \in Key : ~(attempted < age[k])
      BY <2>0, <2>1, Zenon
    <2> QED
      BY <2>2 DEF Init, AgeInv
  <1>6. FillInv
    BY <1>1, Basics DEF FillInv, Filling
  <1> QED
    BY <1>2, <1>3, <1>4, <1>5, <1>6 DEF IInv

\* The types, one variable at a time.
LEMMA TypeFacts ==
  ASSUME IInv
  PROVE  /\ status \in [Key -> {"new", "published", "retired"}] /\ age \in [Key -> 0..Old]
         /\ trouble \in 0..Old /\ loaded \in 0..Old /\ attempted \in 0..Old
         /\ keys = None \/ keys \subseteq Key
         /\ mu \in Request \cup {None}
         /\ request \in [Request -> ReqType]
         /\ Published \in SUBSET Key
  BY DEF IInv, Types, TypeOK, Published

\* A step of one request that leaves the cache and the issuer alone.
LEMMA SetIInv ==
  ASSUME IInv, NEW r \in Request, NEW new \in ReqType, Set(r, new), UNCHANGED <<environment, cache>>,
         Loading(r) <=> new.pc \in {"ready load", "verify load"},
         new.pc \in Exchanging => issuer = "cluster",
         new.pc \in LoggingIn => issuer # "cluster",
         new.pc # "idle" => new.signer \in Key /\ new.kid \in {None, new.signer},
         new.owed => issuer # "cluster" /\ new.signer \in Published /\ Usable(reachable, Published),
         new.pc = "store" => keys # None,
         new.pc \in Filling =>
            /\ request[r].pc \in Filling /\ new.overlap = request[r].overlap
            /\ new.owed /\ ~new.overlap => new.signer \in new.todo \/ (new.pc = "store" /\ new.signer \in keys)
  PROVE  IInv'
  <1>1. /\ request' \in [Request -> ReqType] /\ request'[r] = new
        /\ \A s \in Request \ {r} : request'[s] = request[s]
    BY TypeFacts DEF Set
  <1>2. UNCHANGED <<issuer, Kind, reachable, trouble, status, age, keys, loaded, attempted, mu>>
    BY DEF environment, cache
  <1>3. Types'
    <2>1. \A s \in Request : request'[s].signer \in Key \cup {None} /\ request'[s].todo \subseteq Key
      BY <1>1 DEF ReqType
    <2> QED
      BY <1>1, <1>2, <2>1 DEF IInv, Types, TypeOK
  <1>4. MutexIsReleased'
    BY <1>1, <1>2 DEF IInv, MutexIsReleased, Loading
  <1>5. SideInv'
    BY <1>1, <1>2 DEF IInv, SideInv
  <1>6. AgeInv'
    BY <1>2 DEF IInv, AgeInv, Usable, load, getRawJwksKeys, Published
  <1>7. Usable(reachable, Published)' = Usable(reachable, Published) /\ Published' = Published
    BY <1>2 DEF Usable, load, getRawJwksKeys, Published
  <1>8. FillInv'
    <2>1. \A s \in Request :
            /\ request'[s].owed => issuer # "cluster" /\ request'[s].signer \in Published /\ Usable(reachable, Published)
            /\ request'[s].pc = "store" => keys # None
            /\ request'[s].pc \in Filling /\ request'[s].owed /\ ~request'[s].overlap =>
                  \/ request'[s].signer \in request'[s].todo
                  \/ request'[s].pc = "store" /\ request'[s].signer \in keys
      BY <1>1 DEF IInv, FillInv
    <2>2. \A a, b \in Request : a # b /\ request'[a].pc \in Filling /\ request'[b].pc \in Filling => request'[a].overlap
      BY <1>1 DEF IInv, FillInv
    <2> QED
      BY <1>2, <1>7, <2>1, <2>2 DEF FillInv
  <1> QED
    BY <1>3, <1>4, <1>5, <1>6, <1>8 DEF IInv

\* keysFor returns: the request is refused, goes on to the claims, or its
\* signature has been verified with the keys that there are now.
LEMMA ReturnFacts ==
  ASSUME IInv, NEW r \in Request, request[r].pc \in {"ready", "ready load", "verify", "verify load"}, Return(r)
  PROVE  \E new \in ReqType :
            /\ Set(r, new)
            /\ new.pc = "idle" \/ (new.signer = request[r].signer /\ new.kid = request[r].kid)
            /\ new.owed => request[r].owed /\ new.signer = request[r].signer
            /\ \/ new.pc = "idle" /\ request[r].pc \in {"ready", "ready load"}
               \/ new.pc = "idle" /\ (keys' = None \/ ~VerifySignature(r, keys'))
               \/ new.pc = "verify" /\ request[r].pc \in {"ready", "ready load"}
               \/ /\ new.pc = "verified" /\ request[r].pc \in {"verify", "verify load"}
                  /\ keys' # None /\ VerifySignature(r, keys')
  <1>0. request[r] \in ReqType
    BY TypeFacts
  <1>1. CASE keys' = None
    BY <1>1, Basics DEF Return, Refuse
  <1>2. CASE keys' # None /\ request[r].pc \in {"ready", "ready load"}
    <2>1. CASE Refuse(r)
      BY <1>2, <2>1, Basics DEF Refuse
    <2>2. ASSUME NEW life \in 0..MaxLife, Set(r, [request[r] EXCEPT !.pc = "verify", !.valid = life])
          PROVE  \E new \in ReqType :
                    /\ Set(r, new) /\ new.signer = request[r].signer /\ new.kid = request[r].kid
                    /\ new.owed = request[r].owed /\ new.pc = "verify"
      <3> DEFINE new == [request[r] EXCEPT !.pc = "verify", !.valid = life]
      <3>0. life \in Nat
        BY UpTo, MaxLife \in Nat
      <3>1. /\ new \in ReqType /\ new.pc = "verify" /\ new.signer = request[r].signer /\ new.kid = request[r].kid
            /\ new.owed = request[r].owed
        BY <1>0, <3>0 DEF ReqType, Exchanging
      <3>2. Set(r, new)
        BY <2>2
      <3> HIDE DEF new
      <3> QED
        BY <3>1, <3>2
    <2>3. Refuse(r) \/ \E life \in 0..MaxLife : Set(r, [request[r] EXCEPT !.pc = "verify", !.valid = life])
      BY <1>2 DEF Return
    <2> QED
      BY <1>2, <2>1, <2>2, <2>3
  <1>3. CASE keys' # None /\ request[r].pc \in {"verify", "verify load"}
    <2>1. CASE ~VerifySignature(r, keys')
      BY <1>3, <2>1, Basics DEF Return, Refuse
    <2>2. CASE VerifySignature(r, keys')
      <3> DEFINE new == [request[r] EXCEPT !.pc = "verified"]
      <3>1. /\ new \in ReqType /\ new.pc = "verified" /\ new.signer = request[r].signer /\ new.kid = request[r].kid
            /\ new.owed = request[r].owed
        BY <1>0 DEF ReqType, Exchanging
      <3>2. Set(r, new)
        BY <1>3, <2>2 DEF Return, Goto
      <3> HIDE DEF new
      <3> QED
        BY <1>3, <2>2, <3>1, <3>2
    <2> QED
      BY <2>1, <2>2
  <1> QED
    BY <1>1, <1>2, <1>3

\* keysFor takes the mutex: it answers from what it has, or goes to the issuer.
LEMMA LockIInv ==
  ASSUME IInv, NEW r \in Request, Lock(r)
  PROVE  IInv'
  <1> DEFINE q == request[r]
             due == keysFor(IF q.pc = "ready" THEN None ELSE q.kid)
  <1>1. q.pc \in {"ready", "verify"} /\ mu = None /\ UNCHANGED environment /\ q \in ReqType
    BY TypeFacts DEF Lock
  <1>2. /\ issuer = "cluster" /\ q.signer \in Key /\ q.kid \in {None, q.signer} /\ ~Loading(r)
        /\ q.owed => issuer # "cluster"
    BY <1>1 DEF IInv, SideInv, Exchanging, Loading, FillInv
  <1>3. CASE ~due
    <2>1. UNCHANGED cache /\ Return(r)
      BY <1>3 DEF Lock
    <2>2. PICK new \in ReqType :
            /\ Set(r, new)
            /\ new.pc = "idle" \/ (new.signer = q.signer /\ new.kid = q.kid)
            /\ new.owed => q.owed
            /\ new.pc \in {"idle", "verify", "verified"}
      BY <1>1, <2>1, ReturnFacts
    <2> HIDE DEF q
    <2> QED
      BY <1>1, <1>2, <2>1, <2>2, SetIInv DEF Exchanging, LoggingIn, Filling
  <1>4. CASE due
    <2> DEFINE pc == IF q.pc = "ready" THEN "ready load" ELSE "verify load"
               new == [q EXCEPT !.pc = pc]
    <2>1. attempted' = 0 /\ mu' = r /\ request' = [request EXCEPT ![r] = new] /\ UNCHANGED <<keys, loaded>>
      BY <1>4 DEF Lock, Goto, Set
    <2>2. /\ new \in ReqType /\ new.pc \in {"ready load", "verify load"} /\ new.signer = q.signer /\ new.kid = q.kid
          /\ new.owed = q.owed
      BY <1>1 DEF ReqType, Exchanging
    <2> HIDE DEF new
    <2>3. /\ request' \in [Request -> ReqType] /\ request'[r] = new
          /\ \A s \in Request \ {r} : request'[s] = request[s]
      BY <2>1, <2>2, TypeFacts
    <2>4. UNCHANGED <<issuer, Kind, reachable, trouble, status, age>>
      BY <1>1 DEF environment
    <2>5. Types'
      <3>1. \A s \in Request : request'[s].signer \in Key \cup {None} /\ request'[s].todo \subseteq Key
        BY <2>3 DEF ReqType
      <3>2. {trouble, loaded, 0} \subseteq 0..Old
        BY TypeFacts, Basics
      <3> QED
        BY <2>1, <2>3, <2>4, <3>1, <3>2 DEF IInv, Types, TypeOK
    <2>6. MutexIsReleased'
      BY <1>1, <2>1, <2>2, <2>3, Basics DEF IInv, MutexIsReleased, Loading
    <2>7. SideInv'
      BY <1>2, <2>2, <2>3, <2>4 DEF IInv, SideInv, Exchanging, LoggingIn
    <2>8. AgeInv'
      BY <2>1, <2>4, Basics DEF IInv, AgeInv, Usable, load, getRawJwksKeys, Published
    <2>9. FillInv'
      <3>1. \A s \in Request : ~request[s].owed /\ request[s].pc \notin Filling
        BY <1>2 DEF IInv, FillInv, SideInv, Filling, LoggingIn
      <3>2. \A s \in Request : ~request'[s].owed /\ request'[s].pc \notin Filling
        BY <2>2, <2>3, <3>1 DEF Filling
      <3> QED
        BY <3>2 DEF FillInv, Filling
    <2> QED
      BY <2>5, <2>6, <2>7, <2>8, <2>9 DEF IInv
  <1> QED
    BY <1>3, <1>4

\* The load ends and the mutex is released, with new keys or without.
LEMMA LoadIInv ==
  ASSUME IInv, NEW r \in Request, Load(r)
  PROVE  IInv'
  <1> DEFINE q == request[r]
             got == reachable /\ load(Published) # None
  <1>1. /\ q.pc \in {"ready load", "verify load"} /\ mu' = None /\ attempted' = attempted
        /\ UNCHANGED <<issuer, Kind, reachable, trouble, status, age>> /\ Return(r)
        /\ got => keys' = load(Published) /\ loaded' = attempted
        /\ ~got => keys' = keys /\ loaded' = loaded
    BY DEF Load, Loading, environment
  <1>2. issuer = "cluster" /\ q.signer \in Key /\ q.kid \in {None, q.signer} /\ ~q.owed /\ mu = r
    BY <1>1 DEF IInv, SideInv, Exchanging, FillInv, MutexIsReleased, Loading
  <1>3. load(Published) # None => /\ load(Published) \subseteq Key /\ load(Published) # {}
                                  /\ \A k \in Key : k \in load(Published) <=> status[k] = "published" /\ Kind[k] # "enc"
    BY DEF load, Published
  <1>4. load(Published) = None => \A k \in Key : ~(status[k] = "published" /\ Kind[k] # "enc")
    BY Basics DEF load, Published
  <1>5. ~got /\ keys # None => ~Usable(reachable, Published)
    BY <1>2 DEF Usable
  <1> HIDE DEF got
  <1>6. PICK new \in ReqType :
          /\ Set(r, new)
          /\ new.pc = "idle" \/ (new.signer = q.signer /\ new.kid = q.kid)
          /\ new.owed => q.owed
          /\ new.pc \in {"idle", "verify", "verified"}
    BY <1>1, ReturnFacts
  <1>7. /\ request' \in [Request -> ReqType] /\ request'[r] = new
        /\ \A s \in Request \ {r} : request'[s] = request[s]
    BY <1>6, TypeFacts DEF Set
  <1>8. Types'
    <2>1. \A s \in Request : request'[s].signer \in Key \cup {None} /\ request'[s].todo \subseteq Key
      BY <1>7 DEF ReqType
    <2>2. keys' = None \/ keys' \subseteq Key
      BY <1>1, <1>3, TypeFacts
    <2>3. {trouble', loaded', attempted'} \subseteq 0..Old
      BY <1>1, TypeFacts
    <2> QED
      BY <1>1, <1>7, <2>1, <2>2, <2>3 DEF IInv, Types, TypeOK
  <1>9. MutexIsReleased'
    <2>1. \A s \in Request \ {r} : ~Loading(s)
      BY <1>2 DEF IInv, MutexIsReleased
    <2> QED
      BY <1>1, <1>6, <1>7, <2>1, Basics DEF MutexIsReleased, Loading
  <1>10. SideInv'
    BY <1>1, <1>2, <1>6, <1>7 DEF IInv, SideInv, Exchanging, LoggingIn
  <1>11. FillInv'
    <2>1. \A s \in Request : ~request[s].owed /\ request[s].pc \notin Filling
      BY <1>2 DEF IInv, FillInv, SideInv, Filling, LoggingIn
    <2>2. \A s \in Request : ~request'[s].owed /\ request'[s].pc \notin Filling
      BY <1>2, <1>6, <1>7, <2>1 DEF Filling
    <2> QED
      BY <2>2 DEF FillInv, Filling
  <1>12. AgeInv'
    <2>1. Usable(reachable, Published)' = Usable(reachable, Published)
      BY <1>1 DEF Usable, load, getRawJwksKeys, Published
    <2>2. \A k \in Key : age[k] \in 0..Old
      BY TypeFacts
    <2>3. CASE got
      <3>1. keys' = load(Published) /\ loaded' = attempted /\ load(Published) # None /\ Usable(reachable, Published) /\ reachable
        BY <1>1, <1>2, <2>3 DEF got, Usable
      <3>2. attempted \in Nat /\ ~(attempted < attempted)
        BY TypeFacts, Basics
      <3>3. keys' # {} /\ \A k \in keys' : k \in Key /\ Kind[k] # "enc" /\ status[k] = "published"
        BY <1>3, <3>1
      <3>4. \A k \in Key : status[k] = "published" /\ Kind[k] # "enc" => k \in keys' /\ keys' # None
        BY <1>3, <3>1
      <3> HIDE DEF q
      <3> QED
        BY <1>1, <2>1, <3>1, <3>2, <3>3, <3>4 DEF AgeInv
    <2>4. CASE ~got
      <3>1. keys' = keys /\ loaded' = loaded /\ (reachable => load(Published) = None)
        BY <1>1, <2>4 DEF got
      <3>2. ~reachable => trouble = 0
        BY <1>2 DEF IInv, AgeInv
      <3>3. keys # None => trouble = 0
        BY <1>2, <1>5, <2>4 DEF IInv, AgeInv
      <3>4. 0 <= attempted
        BY TypeFacts, Basics
      <3> QED
        BY <1>1, <1>2, <1>4, <2>1, <3>1, <3>2, <3>3, <3>4 DEF IInv, AgeInv
    <2> QED
      BY <2>3, <2>4
  <1> QED
    BY <1>8, <1>9, <1>10, <1>11, <1>12 DEF IInv

\* The exchange after the signature, up to the expiry of what it issued.
LEMMA ExchangeIInv ==
  ASSUME IInv, NEW r \in Request, Exchange(r) \/ CreatePluginWorkloadToken(r) \/ Expire(r)
  PROVE  IInv'
  <1> DEFINE q == request[r]
             lifetime == IssuedLifetime(q.valid)
  <1>1. q.pc \in {"verified", "insert", "issued"} /\ UNCHANGED <<environment, cache>> /\ q \in ReqType
    BY TypeFacts DEF Exchange, CreatePluginWorkloadToken, Expire
  <1>2. issuer = "cluster" /\ q.signer \in Key /\ q.kid \in {None, q.signer} /\ ~q.owed /\ ~Loading(r)
    BY <1>1 DEF IInv, SideInv, Exchanging, FillInv, Loading
  <1>3. CASE Set(r, Idle)
    BY <1>1, <1>2, <1>3, Basics, SetIInv DEF Exchanging, LoggingIn, Filling
  <1>4. CASE Set(r, [q EXCEPT !.pc = "insert", !.lifetime = lifetime, !.left = lifetime])
    <2> DEFINE new == [q EXCEPT !.pc = "insert", !.lifetime = lifetime, !.left = lifetime]
    <2>1. lifetime \in Nat
      BY <1>1 DEF IssuedLifetime, ReqType
    <2> HIDE DEF lifetime
    <2>2. new \in ReqType /\ new.pc = "insert" /\ new.signer = q.signer /\ new.kid = q.kid /\ new.owed = q.owed
      BY <1>1, <2>1 DEF ReqType, Exchanging
    <2>3. Set(r, new)
      BY <1>4
    <2> HIDE DEF new
    <2> QED
      BY <1>1, <1>2, <2>2, <2>3, SetIInv DEF Exchanging, LoggingIn, Filling
  <1>5. CASE Goto(r, "issued")
    <2> DEFINE new == [q EXCEPT !.pc = "issued"]
    <2>1. new \in ReqType /\ new.pc = "issued" /\ new.signer = q.signer /\ new.kid = q.kid /\ new.owed = q.owed
      BY <1>1 DEF ReqType, Exchanging
    <2>2. Set(r, new)
      BY <1>5 DEF Goto
    <2> HIDE DEF new
    <2> QED
      BY <1>1, <1>2, <2>1, <2>2, SetIInv DEF Exchanging, LoggingIn, Filling
  <1> QED
    BY <1>3, <1>4, <1>5 DEF Exchange, CreatePluginWorkloadToken, Expire, Refuse

\* The steps of a login that only read the map.
LEMMA ReadIInv ==
  ASSUME IInv, NEW r \in Request, wrapKeyFunc(r) \/ CheckMap(r) \/ IdentifyUser(r) \/ LoggedIn(r)
  PROVE  IInv'
  <1> DEFINE q == request[r]
  <1>1. q.pc \in {"key", "check", "verified id", "identified"} /\ UNCHANGED <<environment, cache>> /\ q \in ReqType
    BY TypeFacts DEF wrapKeyFunc, CheckMap, IdentifyUser, LoggedIn
  <1>2. issuer # "cluster" /\ q.signer \in Key /\ q.kid \in {None, q.signer} /\ ~Loading(r)
    BY <1>1 DEF IInv, SideInv, LoggingIn, Loading
  <1>3. q.owed => q.signer \in Published /\ Usable(reachable, Published)
    BY DEF IInv, FillInv
  <1>4. CASE Set(r, Idle)
    BY <1>1, <1>2, <1>4, Basics, SetIInv DEF Exchanging, LoggingIn, Filling
  <1>5. ASSUME NEW pc \in {"fetch", "verified id", "identified"}, Goto(r, pc)
        PROVE  IInv'
    <2> DEFINE new == [q EXCEPT !.pc = pc]
    <2>1. new \in ReqType /\ new.pc = pc /\ new.signer = q.signer /\ new.kid = q.kid /\ new.owed = q.owed
      BY <1>1 DEF ReqType, LoggingIn
    <2>2. Set(r, new)
      BY <1>5 DEF Goto
    <2> HIDE DEF new
    <2> QED
      BY <1>1, <1>2, <1>3, <2>1, <2>2, SetIInv DEF Exchanging, LoggingIn, Filling
  <1>6. CASE CheckMap(r)
    <2> DEFINE pc == IF keys = None THEN "make" ELSE "store"
               new == [q EXCEPT !.pc = pc]
    <2>1. /\ new \in ReqType /\ new.pc = pc /\ new.signer = q.signer /\ new.kid = q.kid /\ new.owed = q.owed
          /\ new.todo = q.todo /\ new.overlap = q.overlap
      BY <1>1 DEF ReqType, LoggingIn
    <2>2. Set(r, new) /\ q.pc = "check"
      BY <1>6 DEF Goto, CheckMap
    <2>3. q.owed /\ ~q.overlap => q.signer \in q.todo
      BY <2>2 DEF IInv, FillInv, Filling
    <2>4. pc \in {"make", "store"} /\ (pc = "store" => keys # None)
      OBVIOUS
    <2> HIDE DEF new, pc
    <2> QED
      BY <1>1, <1>2, <1>3, <2>1, <2>2, <2>3, <2>4, SetIInv DEF Exchanging, LoggingIn, Filling
  <1>7. CASE wrapKeyFunc(r)
    <2>1. Set(r, Idle) \/ Goto(r, "verified id") \/ Goto(r, "fetch")
      BY <1>7 DEF wrapKeyFunc, Refuse
    <2> QED
      BY <1>4, <1>5, <2>1
  <1>8. CASE IdentifyUser(r)
    <2>1. Set(r, Idle) \/ Goto(r, "identified")
      BY <1>8 DEF IdentifyUser, Refuse
    <2> QED
      BY <1>4, <1>5, <2>1
  <1> QED
    BY <1>4, <1>6, <1>7, <1>8 DEF LoggedIn

\* A token arrives.
LEMMA BeginIInv ==
  ASSUME IInv, NEW r \in Request, Begin(r)
  PROVE  IInv'
  <1>1. request[r].pc = "idle" /\ UNCHANGED <<environment, cache>> /\ ~Loading(r)
    BY DEF Begin, Loading
  <1>2. PICK signer \in Key, anonymous \in BOOLEAN :
          Set(r, [Idle EXCEPT !.pc = IF issuer = "cluster" THEN "ready" ELSE "key",
                              !.signer = signer, !.kid = IF anonymous THEN None ELSE signer,
                              !.owed = /\ issuer # "cluster" /\ signer \in Published
                                       /\ Usable(reachable, Published)])
    BY DEF Begin
  <1> DEFINE pc == IF issuer = "cluster" THEN "ready" ELSE "key"
             kid == IF anonymous THEN None ELSE signer
             owed == issuer # "cluster" /\ signer \in Published /\ Usable(reachable, Published)
             new == [Idle EXCEPT !.pc = pc, !.signer = signer, !.kid = kid, !.owed = owed]
  <1>3. Set(r, new)
    BY <1>2
  <1>4. /\ pc \in {"ready", "key"} /\ (pc = "ready" <=> issuer = "cluster")
        /\ kid \in Key \cup {None} /\ kid \in {None, signer} /\ owed \in BOOLEAN
    OBVIOUS
  <1>5. owed => issuer # "cluster" /\ signer \in Published /\ Usable(reachable, Published)
    OBVIOUS
  <1> HIDE DEF pc, kid, owed
  <1>6. new \in ReqType /\ new.pc = pc /\ new.signer = signer /\ new.kid = kid /\ new.owed = owed
    BY <1>4, Basics DEF ReqType, Exchanging, LoggingIn
  <1>7. new.pc \notin {"ready load", "verify load"} /\ new.pc \notin Filling /\ new.pc # "store"
    BY <1>4, <1>6 DEF Filling
  <1> HIDE DEF new
  <1> QED
    BY <1>1, <1>3, <1>4, <1>5, <1>6, <1>7, SetIInv DEF Exchanging, LoggingIn, Filling

\* A step of logins: the clock, the mutex and the issuer stand still.
LEMMA LoginIInv ==
  ASSUME IInv, issuer # "cluster", UNCHANGED <<environment, loaded, attempted, mu>>,
         keys' = None \/ keys' \subseteq Key, request' \in [Request -> ReqType],
         \A s \in Request : request'[s].pc # "idle" =>
            /\ request'[s].pc \in LoggingIn /\ request[s].pc # "idle"
            /\ request'[s].signer = request[s].signer /\ request'[s].kid = request[s].kid,
         FillInv'
  PROVE  IInv'
  <1>1. UNCHANGED <<issuer, Kind, reachable, trouble, status, age>>
    BY DEF environment
  <1>2. Types'
    <2>1. \A s \in Request : request'[s].signer \in Key \cup {None} /\ request'[s].todo \subseteq Key
      BY DEF ReqType
    <2> QED
      BY <1>1, <2>1 DEF IInv, Types, TypeOK
  <1>3. MutexIsReleased'
    <2>1. \A s \in Request : ~Loading(s)
      BY DEF IInv, SideInv, Exchanging, Loading
    <2>2. \A s \in Request : ~Loading(s)'
      BY DEF LoggingIn, Loading
    <2> QED
      BY <2>1, <2>2 DEF IInv, MutexIsReleased
  <1>4. SideInv'
    BY <1>1 DEF IInv, SideInv, Exchanging, LoggingIn
  <1>5. AgeInv'
    BY <1>1 DEF AgeInv
  <1> QED
    BY <1>2, <1>3, <1>4, <1>5 DEF IInv

\* The key set is fetched: every other refill under way overlaps with this one.
LEMMA FetchIInv ==
  ASSUME IInv, NEW r \in Request, Fetch(r)
  PROVE  IInv'
  <1> DEFINE q == request[r]
             got == getRawJwksKeys(Published)
  <1>1. q.pc = "fetch" /\ UNCHANGED <<environment, cache>> /\ q \in ReqType
    BY TypeFacts DEF Fetch
  <1>2. issuer # "cluster" /\ q.signer \in Key /\ q.kid \in {None, q.signer} /\ ~Loading(r)
    BY <1>1 DEF IInv, SideInv, LoggingIn, Loading
  <1>3. CASE Refuse(r)
    BY <1>1, <1>2, <1>3, Basics, SetIInv DEF Refuse, Exchanging, LoggingIn, Filling
  <1>4. CASE ~Refuse(r)
    <2>1. /\ got # None
          /\ request' = [s \in Request |->
              CASE s = r -> [request[s] EXCEPT !.pc = "check", !.todo = got, !.overlap = @ \/ Refilling # {r}]
                [] s # r /\ s \in Refilling -> [request[s] EXCEPT !.overlap = TRUE]
                [] OTHER -> request[s]]
      BY <1>4 DEF Fetch
    <2>2. got = Published /\ got \in SUBSET Key
      BY <2>1, TypeFacts DEF getRawJwksKeys
    <2> HIDE DEF got
    <2>3. ASSUME NEW s \in Request, s # r
          PROVE  /\ request'[s] \in ReqType /\ request'[s].pc = request[s].pc /\ request'[s].signer = request[s].signer
                 /\ request'[s].kid = request[s].kid /\ request'[s].todo = request[s].todo
                 /\ request'[s].owed = request[s].owed
                 /\ request'[s].overlap = (request[s].overlap \/ s \in Refilling)
      <3>0. request[s] \in ReqType
        BY TypeFacts
      <3>1. CASE s \in Refilling
        <4>1. request'[s] = [request[s] EXCEPT !.overlap = TRUE]
          BY <2>1, <2>3, <3>1
        <4> QED
          BY <3>0, <3>1, <4>1 DEF ReqType
      <3>2. CASE s \notin Refilling
        <4>1. request'[s] = request[s]
          BY <2>1, <2>3, <3>2
        <4> QED
          BY <3>0, <3>2, <4>1 DEF ReqType
      <3> QED
        BY <3>1, <3>2
    <2>4. /\ request'[r] \in ReqType /\ request'[r].pc = "check" /\ request'[r].signer = q.signer /\ request'[r].kid = q.kid
          /\ request'[r].todo = Published /\ request'[r].owed = q.owed
          /\ request'[r].overlap = (q.overlap \/ Refilling # {r})
      <3>1. request'[r] = [q EXCEPT !.pc = "check", !.todo = got, !.overlap = @ \/ Refilling # {r}]
        BY <2>1
      <3> QED
        BY <1>1, <2>2, <3>1 DEF ReqType, LoggingIn
    <2>5. request' \in [Request -> ReqType]
      <3>1. request' = [s \in Request |-> request'[s]]
        BY <2>1
      <3> QED
        BY <2>3, <2>4, <3>1
    <2>6. \A s \in Request : request[s].pc \in Filling => s \in Refilling
      BY DEF Filling, Refilling
    <2>7. UNCHANGED <<issuer, Kind, reachable, status, keys>>
      BY <1>1 DEF environment, cache
    <2>8. Usable(reachable, Published)' = Usable(reachable, Published) /\ Published' = Published
      BY <2>7 DEF Usable, load, getRawJwksKeys, Published
    <2>9. FillInv'
      <3>1. ASSUME NEW s \in Request
            PROVE  /\ request'[s].owed => issuer # "cluster" /\ request'[s].signer \in Published /\ Usable(reachable, Published)
                   /\ request'[s].pc = "store" => keys # None
                   /\ request'[s].pc \in Filling /\ request'[s].owed /\ ~request'[s].overlap =>
                         \/ request'[s].signer \in request'[s].todo
                         \/ request'[s].pc = "store" /\ request'[s].signer \in keys
        <4>1. CASE s = r
          BY <2>4, <4>1 DEF IInv, FillInv
        <4>2. CASE s # r
          BY <2>3, <4>2 DEF IInv, FillInv
        <4> QED
          BY <4>1, <4>2
      <3>2. ASSUME NEW a \in Request, NEW b \in Request, a # b, request'[a].pc \in Filling, request'[b].pc \in Filling
            PROVE  request'[a].overlap
        <4>1. CASE a = r
          <5>1. b \in Refilling
            BY <2>3, <2>6, <3>2, <4>1
          <5> QED
            BY <2>4, <3>2, <4>1, <5>1
        <4>2. CASE a # r
          BY <2>3, <2>6, <3>2, <4>2
        <4> QED
          BY <4>1, <4>2
      <3> QED
        BY <2>7, <2>8, <3>1, <3>2 DEF FillInv
    <2>10. \A s \in Request : request'[s].pc # "idle" =>
              /\ request'[s].pc \in LoggingIn /\ request[s].pc # "idle"
              /\ request'[s].signer = request[s].signer /\ request'[s].kid = request[s].kid
      <3>1. \A s \in Request : request[s].pc # "idle" => request[s].pc \in LoggingIn
        BY <1>2, TypeFacts DEF IInv, SideInv, ReqType
      <3> QED
        BY <1>1, <2>3, <2>4, <3>1 DEF LoggingIn
    <2> QED
      BY <1>1, <1>2, <2>5, <2>7, <2>9, <2>10, LoginIInv, TypeFacts DEF cache
  <1> QED
    BY <1>3, <1>4

\* A login writes to the map: a new map, or one more key, or it looks its key up.
LEMMA FillIInv ==
  ASSUME IInv, NEW r \in Request, MakeMap(r) \/ Store(r)
  PROVE  IInv'
  <1> DEFINE q == request[r]
  <1>1. q.pc \in {"make", "store"} /\ UNCHANGED <<environment, loaded, attempted, mu>> /\ q \in ReqType
    BY TypeFacts DEF MakeMap, Store
  <1>2. issuer # "cluster" /\ q.signer \in Key /\ q.kid \in {None, q.signer}
    BY <1>1 DEF IInv, SideInv, LoggingIn
  <1>3. UNCHANGED <<issuer, Kind, reachable, status>>
    BY <1>1 DEF environment
  <1>4. Usable(reachable, Published)' = Usable(reachable, Published) /\ Published' = Published
    BY <1>3 DEF Usable, load, getRawJwksKeys, Published
  <1>5. \A s \in Request : request[s].pc # "idle" => request[s].pc \in LoggingIn
    BY <1>2, TypeFacts DEF IInv, SideInv, ReqType
  <1>6. q.owed => q.signer \in Published /\ Usable(reachable, Published)
    BY DEF IInv, FillInv
  <1>7. ASSUME NEW new \in ReqType, Set(r, new), keys' = None \/ keys' \subseteq Key,
               new.pc \in LoggingIn \cup {"idle"},
               new.pc # "idle" => new.signer = q.signer /\ new.kid = q.kid,
               new.owed => q.owed /\ new.signer = q.signer,
               new.pc = "store" => keys' # None,
               new.pc \in Filling => /\ new.pc = "store" /\ new.overlap = q.overlap
                                     /\ new.owed /\ ~new.overlap => new.signer \in new.todo \/ new.signer \in keys',
               keys # None => keys' # None,
               \A s \in Request \ {r} : request[s].pc \in Filling => request[s].overlap
        PROVE  IInv'
    <2>1. /\ request' \in [Request -> ReqType] /\ request'[r] = new
          /\ \A s \in Request \ {r} : request'[s] = request[s]
      BY <1>7, TypeFacts DEF Set
    <2>2. FillInv'
      <3>1. \A s \in Request :
              /\ request'[s].owed => issuer # "cluster" /\ request'[s].signer \in Published /\ Usable(reachable, Published)
              /\ request'[s].pc = "store" => keys' # None
              /\ request'[s].pc \in Filling /\ request'[s].owed /\ ~request'[s].overlap =>
                    \/ request'[s].signer \in request'[s].todo
                    \/ request'[s].pc = "store" /\ request'[s].signer \in keys'
        BY <1>2, <1>6, <1>7, <2>1 DEF IInv, FillInv
      <3>2. q.pc \in Filling
        BY <1>1 DEF Filling
      <3>3. \A a, b \in Request : a # b /\ request'[a].pc \in Filling /\ request'[b].pc \in Filling => request'[a].overlap
        BY <1>7, <2>1, <3>2 DEF IInv, FillInv
      <3> QED
        BY <1>3, <1>4, <3>1, <3>3 DEF FillInv
    <2>3. \A s \in Request : request'[s].pc # "idle" =>
              /\ request'[s].pc \in LoggingIn /\ request[s].pc # "idle"
              /\ request'[s].signer = request[s].signer /\ request'[s].kid = request[s].kid
      BY <1>1, <1>5, <1>7, <2>1
    <2> QED
      BY <1>1, <1>2, <1>7, <2>1, <2>2, <2>3, LoginIInv
  <1>8. \A s \in Request \ {r} : request[s].pc \in Filling => request[s].overlap
    <2>1. q.pc \in Filling
      BY <1>1 DEF Filling
    <2> QED
      BY <2>1 DEF IInv, FillInv
  <1>9. CASE MakeMap(r)
    <2> DEFINE new == [q EXCEPT !.pc = "store"]
    <2>1. /\ new \in ReqType /\ new.pc = "store" /\ new.signer = q.signer /\ new.kid = q.kid /\ new.owed = q.owed
          /\ new.todo = q.todo /\ new.overlap = q.overlap
      BY <1>1 DEF ReqType, LoggingIn
    <2>2. Set(r, new) /\ keys' = {} /\ q.pc = "make"
      BY <1>9 DEF MakeMap, Goto
    <2>3. q.owed /\ ~q.overlap => q.signer \in q.todo
      BY <2>2 DEF IInv, FillInv, Filling
    <2> HIDE DEF new, q
    <2> QED
      BY <1>7, <1>8, <2>1, <2>2, <2>3, Basics DEF LoggingIn
  <1>10. CASE Store(r) /\ q.todo = {}
    <2>1. keys' = keys /\ (Goto(r, "verified id") \/ Refuse(r))
      BY <1>10 DEF Store
    <2>2. CASE Refuse(r)
      BY <1>7, <1>8, <2>1, <2>2, Basics, TypeFacts DEF Refuse, Filling
    <2>3. CASE Goto(r, "verified id")
      <3> DEFINE new == [q EXCEPT !.pc = "verified id"]
      <3>1. new \in ReqType /\ new.pc = "verified id" /\ new.signer = q.signer /\ new.kid = q.kid /\ new.owed = q.owed
        BY <1>1 DEF ReqType, LoggingIn
      <3>2. Set(r, new)
        BY <2>3 DEF Goto
      <3> HIDE DEF new, q
      <3> QED
        BY <1>7, <1>8, <2>1, <3>1, <3>2, TypeFacts DEF LoggingIn, Filling
    <2> QED
      BY <2>1, <2>2, <2>3
  <1>11. CASE Store(r) /\ q.todo # {}
    <2>1. PICK k \in q.todo : keys' = keys \cup {k} /\ Set(r, [q EXCEPT !.todo = @ \ {k}])
      BY <1>11 DEF Store
    <2> DEFINE new == [q EXCEPT !.todo = @ \ {k}]
    <2>2. q.pc = "store" /\ keys # None /\ k \in Key
      BY <1>1, <1>11 DEF Store, IInv, FillInv, ReqType
    <2>3. /\ new \in ReqType /\ new.pc = "store" /\ new.signer = q.signer /\ new.kid = q.kid /\ new.owed = q.owed
          /\ new.todo = q.todo \ {k} /\ new.overlap = q.overlap
      BY <1>1, <2>2 DEF ReqType
    <2>4. keys' \in SUBSET Key
      BY <2>1, <2>2, TypeFacts
    <2>5. q.owed /\ ~q.overlap => q.signer \in q.todo \/ q.signer \in keys
      BY <2>2 DEF IInv, FillInv, Filling
    <2>6. Set(r, new)
      BY <2>1
    <2> HIDE DEF new, q
    <2> QED
      BY <1>7, <1>8, <2>1, <2>2, <2>3, <2>4, <2>5, <2>6, Basics DEF LoggingIn
  <1> QED
    BY <1>9, <1>10, <1>11

\* The process ends and starts again.
LEMMA FatalIInv ==
  ASSUME IInv, Fatal
  PROVE  IInv'
  <1>1. PICK r \in Request : request[r].pc = "store"
    BY DEF Fatal
  <1>2. issuer # "cluster"
    BY <1>1 DEF IInv, SideInv, LoggingIn
  <1>3. /\ keys' = None /\ UNCHANGED <<environment, loaded, attempted, mu>>
        /\ request' \in [Request -> ReqType] /\ \A s \in Request : request'[s] = Idle
    BY Basics DEF Fatal
  <1>4. FillInv'
    BY <1>3, Basics DEF FillInv, Filling
  <1> QED
    BY <1>2, <1>3, <1>4, Basics, LoginIInv

\* A step of the issuer or of the clock: no request moves, the keys stay.
LEMMA OutsideIInv ==
  ASSUME IInv, UNCHANGED <<issuer, Kind, keys, mu>>, reachable' \in BOOLEAN,
         status' \in [Key -> {"new", "published", "retired"}], age' \in [Key -> 0..Old],
         trouble' \in 0..Old, loaded' \in 0..Old, attempted' \in 0..Old,
         request' \in [Request -> ReqType],
         \A r \in Request :
            /\ request'[r].pc = request[r].pc /\ request'[r].signer = request[r].signer
            /\ request'[r].kid = request[r].kid /\ request'[r].todo = request[r].todo
            /\ request'[r].overlap = request[r].overlap
            /\ request'[r].owed => /\ request[r].owed /\ status'[request[r].signer] = "published"
                                   /\ Usable(reachable', Published'),
         Usable(reachable, Published)' = Usable(reachable', Published'),
         AgeInv'
  PROVE  IInv'
  <1>1. Types'
    <2>1. \A s \in Request : request'[s].signer \in Key \cup {None} /\ request'[s].todo \subseteq Key
      BY DEF ReqType
    <2>2. {trouble', loaded', attempted'} \subseteq 0..Old
      OBVIOUS
    <2> QED
      BY <2>1, <2>2 DEF IInv, Types, TypeOK
  <1>2. MutexIsReleased'
    BY DEF IInv, MutexIsReleased, Loading
  <1>3. SideInv'
    BY DEF IInv, SideInv
  <1>4. FillInv'
    <2>1. \A r \in Request : request[r].owed => request[r].signer \in Key /\ issuer # "cluster"
      BY DEF IInv, FillInv, Published
    <2>2. \A r \in Request : request'[r].owed => request'[r].signer \in Published'
      BY <2>1 DEF Published
    <2>3. \A r \in Request :
            /\ request'[r].owed => /\ issuer' # "cluster" /\ request'[r].signer \in Published'
                                   /\ Usable(reachable', Published')
            /\ request'[r].pc = "store" => keys' # None
            /\ request'[r].pc \in Filling /\ request'[r].owed /\ ~request'[r].overlap =>
                  \/ request'[r].signer \in request'[r].todo
                  \/ request'[r].pc = "store" /\ request'[r].signer \in keys'
      BY <2>1, <2>2 DEF IInv, FillInv
    <2>4. \A a, b \in Request : a # b /\ request'[a].pc \in Filling /\ request'[b].pc \in Filling => request'[a].overlap
      BY DEF IInv, FillInv
    <2> QED
      BY <2>3, <2>4 DEF FillInv
  <1> QED
    BY <1>1, <1>2, <1>3, <1>4 DEF IInv

\* The issuer changes: a key that changes its status does so now.
LEMMA ChangeIInv ==
  ASSUME IInv, NEW up \in BOOLEAN, NEW stat \in [Key -> {"new", "published", "retired"}], Change(up, stat),
         age' \in [Key -> 0..Old],
         \A k \in Key : status[k] # "new" => stat[k] # "new",
         issuer = "cluster" => \A k \in Key : IF stat[k] = status[k] THEN age'[k] = age[k] ELSE age'[k] = 0
  PROVE  IInv'
  <1> DEFINE published == {k \in Key : stat[k] = "published"}
             before == Usable(reachable, Published)
             after == Usable(up, published)
  <1>1. /\ reachable' = up /\ status' = stat /\ UNCHANGED <<issuer, Kind, keys, loaded, attempted, mu>>
        /\ trouble' = IF (before /\ after) \/ issuer # "cluster" THEN trouble ELSE 0
        /\ request' = [r \in Request |-> [request[r] EXCEPT
                        !.owed = @ /\ (before /\ after) /\ request[r].signer \in published]]
    BY DEF Change, cache
  <1>2. Published' = published
    BY <1>1 DEF Published
  <1>3. Usable(reachable, Published)' = after /\ Usable(reachable', Published') = after
    BY <1>1, <1>2 DEF Usable, load, getRawJwksKeys
  <1>4. after \in BOOLEAN /\ before \in BOOLEAN /\ (after => up)
    BY DEF Usable
  <1> HIDE DEF before, after
  <1>5. ASSUME NEW r \in Request
        PROVE  /\ request'[r] \in ReqType
               /\ request'[r].pc = request[r].pc /\ request'[r].signer = request[r].signer
               /\ request'[r].kid = request[r].kid /\ request'[r].todo = request[r].todo
               /\ request'[r].overlap = request[r].overlap
               /\ request'[r].owed => /\ request[r].owed /\ status'[request[r].signer] = "published"
                                      /\ Usable(reachable', Published')
    <2>1. request[r] \in ReqType
      BY TypeFacts
    <2>2. request'[r] = [request[r] EXCEPT !.owed = @ /\ (before /\ after) /\ request[r].signer \in published]
      BY <1>1
    <2> QED
      BY <1>1, <1>3, <2>1, <2>2 DEF ReqType
  <1>6. request' \in [Request -> ReqType]
    <2>1. request' = [r \in Request |-> request'[r]]
      BY <1>1
    <2> QED
      BY <1>5, <2>1
  <1>7. trouble' \in 0..Old
    BY <1>1, TypeFacts, Basics
  <1>8. AgeInv'
    <2> SUFFICES ASSUME issuer = "cluster" PROVE AgeInv'
      BY <1>1 DEF AgeInv
    <2>1. trouble' = 0 \/ (trouble' = trouble /\ before /\ after)
      BY <1>1
    <2>2. \A k \in Key : IF stat[k] = status[k] THEN age'[k] = age[k] ELSE age'[k] = 0
      OBVIOUS
    <2>3. 0 <= attempted /\ 0 <= loaded /\ ~(attempted < 0)
      BY TypeFacts, Basics
    <2>4. keys' # None => keys' # {} /\ \A k \in keys' : Kind'[k] # "enc" /\ status'[k] # "new"
                                          /\ (status'[k] # "published" => age'[k] <= loaded')
      BY <1>1, <2>2, <2>3, TypeFacts DEF IInv, AgeInv
    <2>5. keys' # None /\ mu' = None /\ attempted' < loaded' => trouble' <= attempted'
      BY <1>1, <2>1, <2>3 DEF IInv, AgeInv
    <2>6. mu' = None => \A k \in Key : status'[k] = "published" /\ Kind'[k] # "enc" /\ attempted' < age'[k] =>
                          trouble' <= attempted' \/ (keys' # None /\ k \in keys')
      BY <1>1, <2>1, <2>2, <2>3 DEF IInv, AgeInv
    <2> QED
      BY <1>1, <1>3, <1>4, <2>1, <2>4, <2>5, <2>6 DEF AgeInv
  <1>9. Usable(reachable, Published)' = Usable(reachable', Published')
    BY <1>3
  <1> QED
    BY <1>1, <1>5, <1>6, <1>7, <1>8, <1>9, TypeFacts, OutsideIInv

\* The issuer publishes or withdraws a key, or comes and goes.
LEMMA IssuerIInv ==
  ASSUME IInv, Reach \/ \E k \in Key : Rotate(k)
  PROVE  IInv'
  <1>1. CASE Reach
    <2>1. Change(~reachable, status) /\ age' = age
      BY <1>1 DEF Reach
    <2> QED
      BY <2>1, TypeFacts, ChangeIInv
  <1>2. ASSUME NEW k \in Key, Rotate(k)
        PROVE  IInv'
    <2> DEFINE stat == [status EXCEPT ![k] = IF @ = "new" THEN "published" ELSE "retired"]
               now == IF issuer = "cluster" THEN 0 ELSE Old
    <2>1. Change(reachable, stat) /\ status[k] # "retired" /\ age' = [age EXCEPT ![k] = now]
      BY <1>2 DEF Rotate
    <2>2. now \in 0..Old
      BY Basics
    <2>3. age' \in [Key -> 0..Old] /\ age'[k] = now /\ \A x \in Key \ {k} : age'[x] = age[x]
      BY <2>1, <2>2, TypeFacts
    <2>4. /\ stat \in [Key -> {"new", "published", "retired"}] /\ stat[k] # "new" /\ stat[k] # status[k]
          /\ \A x \in Key \ {k} : stat[x] = status[x]
      BY <2>1, TypeFacts
    <2>5. reachable \in BOOLEAN
      BY DEF IInv, Types
    <2> HIDE DEF stat
    <2>6. issuer = "cluster" => \A x \in Key : IF stat[x] = status[x] THEN age'[x] = age[x] ELSE age'[x] = 0
      BY <2>3, <2>4
    <2>7. \A x \in Key : status[x] # "new" => stat[x] # "new"
      BY <2>4
    <2> QED
      BY <2>1, <2>3, <2>4, <2>5, <2>6, <2>7, ChangeIInv
  <1> QED
    BY <1>1, <1>2

\* A retired key is forgotten.
LEMMA ForgetIInv ==
  ASSUME IInv, NEW k \in Key, Forget(k)
  PROVE  IInv'
  <1>1. /\ status[k] = "retired" /\ (keys # None => k \notin keys)
        /\ status' = [status EXCEPT ![k] = "new"]
        /\ UNCHANGED <<issuer, Kind, reachable, trouble, age, keys, loaded, attempted, mu, request>>
    BY DEF Forget, cache
  <1>2. /\ status' \in [Key -> {"new", "published", "retired"}] /\ status'[k] = "new"
        /\ \A x \in Key \ {k} : status'[x] = status[x]
    BY <1>1, TypeFacts
  <1>3. Published' = Published
    BY <1>1, <1>2 DEF Published
  <1>4. /\ Usable(reachable, Published)' = Usable(reachable, Published)
        /\ Usable(reachable', Published') = Usable(reachable, Published)
    BY <1>1, <1>3 DEF Usable, load, getRawJwksKeys
  <1>5. AgeInv'
    BY <1>1, <1>2, <1>4, TypeFacts DEF IInv, AgeInv
  <1>6. \A r \in Request : request[r].owed => status'[request[r].signer] = "published" /\ Usable(reachable, Published)
    BY <1>1, <1>2 DEF IInv, FillInv, Published
  <1>7. reachable \in BOOLEAN
    BY DEF IInv, Types
  <1>8. Usable(reachable, Published)' = Usable(reachable', Published')
    BY <1>4
  <1> QED
    BY <1>1, <1>2, <1>4, <1>5, <1>6, <1>7, <1>8, TypeFacts, OutsideIInv

\* A number counted down stays a number.
LEMMA CountDown ==
  \A n \in Nat : Less(n) \in Nat /\ (n = 0 => Less(n) = 0) /\ \A m \in Nat : m <= n => Less(m) <= Less(n)
  BY DEF Less

\* Time passes: everything is older by the same amount.
LEMMA TickIInv ==
  ASSUME IInv, Tick
  PROVE  IInv'
  <1>1. /\ issuer = "cluster" /\ UNCHANGED <<issuer, Kind, reachable, status, keys, mu>>
        /\ trouble' = IF Usable(reachable, Published) THEN Older(trouble) ELSE 0
        /\ age' = [k \in Key |-> Older(age[k])]
        /\ loaded' = Older(loaded) /\ attempted' = Older(attempted)
        /\ request' = [r \in Request |-> [request[r] EXCEPT !.valid = Less(@), !.left = Less(@)]]
    BY DEF Tick
  <1>2. Published' = Published
    BY <1>1 DEF Published
  <1>3. /\ Usable(reachable, Published)' = Usable(reachable, Published)
        /\ Usable(reachable', Published') = Usable(reachable, Published)
        /\ Usable(reachable, Published) => reachable
    BY <1>1, <1>2 DEF Usable, load, getRawJwksKeys
  <1>4. ASSUME NEW r \in Request
        PROVE  /\ request'[r] \in ReqType /\ ~request'[r].owed
               /\ request'[r].pc = request[r].pc /\ request'[r].signer = request[r].signer
               /\ request'[r].kid = request[r].kid /\ request'[r].todo = request[r].todo
               /\ request'[r].overlap = request[r].overlap
    <2>1. request[r] \in ReqType /\ ~request[r].owed
      BY <1>1, TypeFacts DEF IInv, FillInv
    <2>2. Less(request[r].valid) \in Nat /\ Less(request[r].left) \in Nat
      BY <2>1, CountDown DEF ReqType
    <2>3. request'[r] = [request[r] EXCEPT !.valid = Less(@), !.left = Less(@)]
      BY <1>1
    <2> QED
      BY <2>1, <2>2, <2>3 DEF ReqType
  <1>5. request' \in [Request -> ReqType]
    <2>1. request' = [r \in Request |-> request'[r]]
      BY <1>1
    <2> QED
      BY <1>4, <2>1
  <1>6. /\ trouble \in 0..Old /\ loaded \in 0..Old /\ attempted \in 0..Old /\ \A k \in Key : age[k] \in 0..Old
    BY TypeFacts
  <1>7. /\ Older(trouble) \in 0..Old /\ Older(loaded) \in 0..Old /\ Older(attempted) \in 0..Old
        /\ \A k \in Key : Older(age[k]) \in 0..Old
    BY <1>6, OlderFacts
  <1>8. trouble' \in 0..Old /\ loaded' \in 0..Old /\ attempted' \in 0..Old /\ age' \in [Key -> 0..Old]
    <2>1. 0 \in 0..Old
      BY Basics
    <2> QED
      BY <1>1, <1>7, <2>1
  <1>9. AgeInv'
    <2>1. \A k \in Key : age'[k] = Older(age[k])
      BY <1>1
    <2>2. trouble <= attempted => trouble' <= attempted'
      <3>1. trouble <= attempted => Older(trouble) <= Older(attempted)
        BY <1>6, OlderFacts
      <3>2. 0 <= attempted'
        BY <1>8, Basics
      <3> QED
        BY <1>1, <3>1, <3>2
    <2>3. attempted' < loaded' => attempted < loaded
      BY <1>1, <1>6, OlderFacts
    <2>4. \A k \in Key : (attempted' < age'[k] => attempted < age[k]) /\ (age[k] <= loaded => age'[k] <= loaded')
      BY <1>1, <1>6, <2>1, OlderFacts
    <2>5. keys' # None => keys' # {} /\ \A k \in keys' : Kind'[k] # "enc" /\ status'[k] # "new"
                                          /\ (status'[k] # "published" => age'[k] <= loaded')
      BY <1>1, <2>4, TypeFacts DEF IInv, AgeInv
    <2>6. keys' # None /\ mu' = None /\ attempted' < loaded' => trouble' <= attempted'
      BY <1>1, <2>2, <2>3 DEF IInv, AgeInv
    <2>7. mu' = None => \A k \in Key : status'[k] = "published" /\ Kind'[k] # "enc" /\ attempted' < age'[k] =>
                          trouble' <= attempted' \/ (keys' # None /\ k \in keys')
      BY <1>1, <2>2, <2>4 DEF IInv, AgeInv
    <2> QED
      BY <1>1, <1>3, <2>5, <2>6, <2>7 DEF AgeInv
  <1>10. reachable' \in BOOLEAN /\ status' \in [Key -> {"new", "published", "retired"}]
    BY <1>1, TypeFacts DEF IInv, Types
  <1>11. Usable(reachable, Published)' = Usable(reachable', Published')
    BY <1>3
  <1> QED
    BY <1>1, <1>4, <1>5, <1>8, <1>9, <1>10, <1>11, OutsideIInv

\* Every step preserves the inductive invariant.
LEMMA NextIInv == IInv /\ [Next]_vars => IInv'
  <1> SUFFICES ASSUME IInv, [Next]_vars PROVE IInv'
    OBVIOUS
  <1>1. CASE UNCHANGED vars
    <2>1. UNCHANGED <<issuer, Kind, reachable, trouble, status, age, keys, loaded, attempted, mu, request>>
      BY <1>1 DEF vars, environment, cache
    <2> QED
      BY ZenonT(60), <2>1 DEF IInv, Types, TypeOK, MutexIsReleased, Loading, SideInv, AgeInv, FillInv, Usable, load,
                  getRawJwksKeys, Published
  <1>2. CASE Tick
    BY <1>2, TickIInv
  <1>3. CASE Reach \/ \E k \in Key : Rotate(k)
    BY <1>3, IssuerIInv
  <1>4. CASE Fatal
    BY <1>4, FatalIInv
  <1>5. ASSUME NEW k \in Key, Forget(k) PROVE IInv'
    BY <1>5, ForgetIInv
  <1>6. ASSUME NEW r \in Request, Begin(r) \/ Step(r) PROVE IInv'
    BY <1>6, BeginIInv, LockIInv, LoadIInv, ExchangeIInv, ReadIInv, FetchIInv, FillIInv DEF Step
  <1> QED
    BY <1>1, <1>2, <1>3, <1>4, <1>5, <1>6 DEF Next

\* The inductive invariant always holds.
LEMMA Invariance == Spec => []IInv
  BY InitIInv, NextIInv, PTL DEF Spec

\* The mutex of the key set is held by the request that loads and by nobody
\* else, whatever the load brings (keysFor, load), and the types hold.
THEOREM MutexIsReleasedEver == Spec => []KeysInv
  <1>1. IInv => KeysInv
    BY DEF IInv, Types, KeysInv
  <1> QED
    BY <1>1, Invariance, PTL
-----------------------------------------------------------------------------
\* The step that a request may take from where it is.
LEMMA StepOf ==
  ASSUME NEW r \in Request, Step(r)
  PROVE  /\ request[r].pc \in {"ready", "verify"} => Lock(r)
         /\ request[r].pc \in {"ready load", "verify load"} => Load(r)
         /\ request[r].pc = "verified" => Exchange(r)
         /\ request[r].pc = "insert" => CreatePluginWorkloadToken(r)
         /\ request[r].pc = "issued" => Expire(r)
         /\ request[r].pc = "key" => wrapKeyFunc(r)
         /\ request[r].pc = "fetch" => Fetch(r)
         /\ request[r].pc = "store" => Store(r)
         /\ request[r].pc # "idle"
  BY DEF Step, Lock, Load, Loading, Exchange, CreatePluginWorkloadToken, Expire, wrapKeyFunc, Fetch, CheckMap, MakeMap, Store,
            IdentifyUser, LoggedIn

\* A request moves by a step of its own, or with the whole process.
LEMMA Moves ==
  ASSUME IInv, Next, NEW r \in Request, request'[r].pc # request[r].pc
  PROVE  Fatal \/ Begin(r) \/ Step(r)
  <1>1. CASE Tick
    <2>1. request'[r] = [request[r] EXCEPT !.valid = Less(@), !.left = Less(@)]
      BY <1>1 DEF Tick
    <2> QED
      BY <2>1, TypeFacts DEF ReqType
  <1>2. ASSUME NEW up, NEW stat, Change(up, stat)
        PROVE  FALSE
    <2>1. PICK owed : request'[r] = [request[r] EXCEPT !.owed = owed]
      BY <1>2 DEF Change
    <2> QED
      BY <2>1, TypeFacts DEF ReqType
  <1>3. ASSUME NEW k \in Key, Forget(k)
        PROVE  FALSE
    BY <1>3 DEF Forget
  <1>4. ASSUME NEW s \in Request, s # r, Begin(s) \/ Step(s)
        PROVE  FALSE
    <2>1. ASSUME NEW new, Set(s, new)
          PROVE  FALSE
      BY <1>4, <2>1, TypeFacts DEF Set
    <2>2. CASE Begin(s)
      BY <2>1, <2>2 DEF Begin
    <2>3. ASSUME Return(s) PROVE FALSE
      BY <2>1, <2>3 DEF Return, Refuse, Goto
    <2>4. CASE Lock(s)
      BY <2>1, <2>3, <2>4 DEF Lock, Goto
    <2>5. CASE Load(s)
      BY <2>3, <2>5 DEF Load
    <2>6. CASE Exchange(s) \/ CreatePluginWorkloadToken(s) \/ Expire(s)
      BY <2>1, <2>6 DEF Exchange, CreatePluginWorkloadToken, Expire, Refuse, Goto
    <2>7. CASE wrapKeyFunc(s)
      BY <2>1, <2>7 DEF wrapKeyFunc, Refuse, Goto
    <2>8. CASE CheckMap(s) \/ IdentifyUser(s) \/ LoggedIn(s)
      BY <2>1, <2>8 DEF CheckMap, IdentifyUser, LoggedIn, Refuse, Goto
    <2>9. CASE MakeMap(s) \/ Store(s)
      BY <2>1, <2>9 DEF MakeMap, Store, Refuse, Goto
    <2>10. CASE Fetch(s)
      <3>1. Refuse(s) \/ request'[r] = [request[r] EXCEPT !.overlap = TRUE] \/ request'[r] = request[r]
        BY <1>4, <2>10 DEF Fetch
      <3> QED
        BY <2>1, <3>1, TypeFacts DEF Refuse, ReqType
    <2> QED
      BY <1>4, <2>2, <2>4, <2>5, <2>6, <2>7, <2>8, <2>9, <2>10 DEF Step
  <1> QED
    BY <1>1, <1>2, <1>3, <1>4 DEF Next, Reach, Rotate

\* The ages are numbers.
LEMMA Numbers ==
  ASSUME IInv
  PROVE  /\ trouble \in Nat /\ loaded \in Nat /\ attempted \in Nat /\ Interval \in Nat
         /\ \A k \in Key : age[k] \in Nat
  <1>1. Old \in Nat
    BY Basics
  <1> QED
    BY <1>1, TypeFacts, UpTo, Basics

\* Nobody changes the issuer.
LEMMA IssuerStays == Next => issuer' = issuer
  <1>1. Tick \/ Reach \/ Fatal => issuer' = issuer
    BY DEF Tick, Reach, Change, Fatal, environment
  <1>2. \A k \in Key : Rotate(k) \/ Forget(k) => issuer' = issuer
    BY DEF Rotate, Forget, Change
  <1>3. \A r \in Request : Begin(r) \/ Step(r) => UNCHANGED environment
    BY DEF Begin, Step, Lock, Load, Exchange, CreatePluginWorkloadToken, Expire, wrapKeyFunc, Fetch, CheckMap, MakeMap, Store, IdentifyUser,
           LoggedIn
  <1> QED
    BY <1>1, <1>2, <1>3 DEF Next, environment

\* keysFor has answered: from the keys that it held, or after a load.
LEMMA Answered ==
  ASSUME IInv, NEW r \in Request, request[r].pc \in {"verify", "verify load"}, Lock(r) \/ Load(r),
         request'[r].pc \in {"idle", "verified"}
  PROVE  /\ issuer = "cluster" /\ request[r].kid \in {None, request[r].signer} /\ request[r].signer \in Key
         /\ request'[r].pc = "verified" => keys' # None /\ request[r].signer \in keys'
         /\ request'[r].pc = "idle" => keys' = None \/ request[r].signer \notin keys'
         /\ \/ keys' = keys /\ mu = None /\ ~keysFor(request[r].kid)
            \/ reachable /\ load(Published) # None /\ keys' = load(Published)
            \/ keys' = keys /\ ~(reachable /\ load(Published) # None)
  <1> DEFINE q == request[r]
             how == \/ keys' = keys /\ mu = None /\ ~keysFor(q.kid)
                    \/ reachable /\ load(Published) # None /\ keys' = load(Published)
                    \/ keys' = keys /\ ~(reachable /\ load(Published) # None)
  <1>1. issuer = "cluster" /\ q.kid \in {None, q.signer} /\ q.signer \in Key
    BY DEF IInv, SideInv, Exchanging
  <1>2. Return(r) /\ how
    <2>1. CASE Lock(r)
      <3>1. q.pc = "verify" /\ mu = None
        BY <2>1 DEF Lock
      <3>2. CASE keysFor(q.kid)
        <4>1. Goto(r, "verify load")
          BY <2>1, <3>1, <3>2 DEF Lock
        <4>2. request'[r] = [request[r] EXCEPT !.pc = "verify load"]
          BY <4>1, TypeFacts DEF Goto, Set
        <4> QED
          BY <4>2, TypeFacts DEF ReqType
      <3>3. CASE ~keysFor(q.kid)
        BY <2>1, <3>1, <3>3 DEF Lock, cache
      <3> QED
        BY <3>2, <3>3
    <2>2. CASE Load(r)
      BY <2>2 DEF Load
    <2> QED
      BY <2>1, <2>2
  <1>3. /\ request'[r].pc = "verified" => keys' # None /\ VerifySignature(r, keys')
        /\ request'[r].pc = "idle" => keys' = None \/ ~VerifySignature(r, keys')
    <2>1. PICK new \in ReqType :
            /\ Set(r, new)
            /\ new.pc = "verified" => keys' # None /\ VerifySignature(r, keys')
            /\ new.pc = "idle" => keys' = None \/ ~VerifySignature(r, keys')
      BY <1>2, ReturnFacts
    <2>2. request'[r] = new
      BY <2>1, TypeFacts DEF Set
    <2> QED
      BY <2>1, <2>2
  <1>4. VerifySignature(r, keys') <=> q.signer \in keys'
    BY <1>1 DEF VerifySignature
  <1> QED
    BY <1>1, <1>2, <1>3, <1>4

\* A signature that passes was made with a key that the issuer vouches for, or
\* did until less than MaxAge ago, or the issuer has no usable answer.
LEMMA Trusted ==
  ASSUME IInv, Next, NEW r \in Request, request[r].pc # "verified", request'[r].pc = "verified"
  PROVE  request[r].signer \in Published \/ age[request[r].signer] < MaxAge \/ Troubled
  <1> DEFINE k == request[r].signer
  <1>1. Step(r)
    <2>1. ~Fatal
      BY Basics DEF Fatal
    <2>2. ~Begin(r)
      <3> SUFFICES ASSUME Begin(r) PROVE FALSE
        OBVIOUS
      <3>1. PICK signer, kid, owed : Set(r, [Idle EXCEPT !.pc = IF issuer = "cluster" THEN "ready" ELSE "key",
                                               !.signer = signer, !.kid = kid, !.owed = owed])
        BY DEF Begin
      <3>2. request'[r] = [Idle EXCEPT !.pc = IF issuer = "cluster" THEN "ready" ELSE "key",
                                       !.signer = signer, !.kid = kid, !.owed = owed]
        BY <3>1, TypeFacts DEF Set
      <3> QED
        BY <3>2, Basics DEF ReqType
    <2> QED
      BY <2>1, <2>2, Moves
  <1>2. request[r].pc \in {"verify", "verify load"} /\ (Lock(r) \/ Load(r))
    <2>1. issuer = "cluster"
      BY NextIInv, IssuerStays DEF IInv, SideInv, Exchanging
    <2>2. request[r].pc \in Exchanging
      BY <1>1, <2>1, StepOf, TypeFacts DEF IInv, SideInv, ReqType
    <2>3. request[r].pc # "issued"
      BY <1>1, StepOf, TypeFacts, Basics DEF Expire, Set
    <2>5. request[r].pc # "insert"
      <3> SUFFICES ASSUME request[r].pc = "insert" PROVE FALSE
        OBVIOUS
      <3>1. Set(r, Idle) \/ Set(r, [request[r] EXCEPT !.pc = "issued"])
        BY <1>1, StepOf DEF CreatePluginWorkloadToken, Refuse, Goto
      <3>2. request'[r] = Idle \/ request'[r] = [request[r] EXCEPT !.pc = "issued"]
        BY <3>1, TypeFacts DEF Set
      <3>3. request[r] \in ReqType
        BY TypeFacts
      <3> QED
        BY <3>2, <3>3, Basics DEF ReqType
    <2>4. request[r].pc \notin {"ready", "ready load"}
      <3> SUFFICES ASSUME request[r].pc \in {"ready", "ready load"} PROVE FALSE
        OBVIOUS
      <3>1. Lock(r) \/ Load(r)
        BY <1>1, StepOf
      <3>2. Goto(r, "ready load") \/ Return(r)
        BY <3>1 DEF Lock, Load, Loading
      <3>3. CASE Goto(r, "ready load")
        <4>1. request'[r] = [request[r] EXCEPT !.pc = "ready load"]
          BY <3>3, TypeFacts DEF Goto, Set
        <4> QED
          BY <4>1, TypeFacts DEF ReqType
      <3>4. CASE Return(r)
        <4>1. PICK new \in ReqType : Set(r, new) /\ new.pc # "verified"
          BY <3>4, ReturnFacts
        <4> QED
          BY <4>1, TypeFacts DEF Set
      <3> QED
        BY <3>2, <3>3, <3>4
    <2> QED
      BY <1>1, <2>2, <2>3, <2>4, <2>5, StepOf DEF Exchanging
  <1>3. /\ issuer = "cluster" /\ k \in Key /\ keys' # None /\ k \in keys' /\ request[r].kid \in {None, k}
        /\ \/ keys' = keys /\ mu = None /\ ~keysFor(request[r].kid)
           \/ reachable /\ load(Published) # None /\ keys' = load(Published)
           \/ keys' = keys /\ ~(reachable /\ load(Published) # None)
    BY <1>2, Answered
  <1>4. CASE keys' = keys /\ mu = None /\ ~keysFor(request[r].kid)
    <2>1. k \in keys /\ keys # None
      BY <1>3, <1>4
    <2>2. /\ status[k] # "new" /\ (status[k] # "published" => age[k] <= loaded)
          /\ attempted < loaded => trouble <= attempted
      BY <1>3, <1>4, <2>1 DEF IInv, AgeInv
    <2>3. ~(loaded >= MaxAge /\ attempted >= Interval)
      BY <1>4 DEF keysFor
    <2>4. age[k] \in Nat /\ trouble \in Nat /\ loaded \in Nat /\ attempted \in Nat
      BY <1>3, TypeFacts, Basics
    <2>5. CASE loaded < MaxAge /\ status[k] # "published"
      BY <2>2, <2>4, <2>5, Basics
    <2>6. CASE ~(loaded < MaxAge)
      BY <2>2, <2>3, <2>4, <2>6, Basics DEF Troubled
    <2> QED
      BY <1>3, <2>5, <2>6 DEF Published
  <1>5. CASE reachable /\ load(Published) # None /\ keys' = load(Published)
    BY <1>3, <1>5 DEF load
  <1>6. CASE keys' = keys /\ ~(reachable /\ load(Published) # None)
    <2>1. ~Usable(reachable, Published)
      BY <1>3, <1>6 DEF Usable
    <2>2. trouble = 0
      BY <1>3, <1>6, <2>1 DEF IInv, AgeInv
    <2> QED
      BY <2>2, Basics DEF Troubled
  <1> QED
    BY <1>3, <1>4, <1>5, <1>6

\* A signature with a key that has been published for the Interval passes.
LEMMA Followed ==
  ASSUME IInv, Next, NEW r \in Request, request[r].pc \in {"verify", "verify load"}, request'[r].pc = "idle",
         request[r].kid # None
  PROVE  \/ status[request[r].kid] # "published" \/ Kind[request[r].kid] = "enc"
         \/ age[request[r].kid] < Interval
         \/ Troubled
  <1> DEFINE k == request[r].kid
  <1>0. issuer = "cluster"
    BY DEF IInv, SideInv, Exchanging
  <1>1. Lock(r) \/ Load(r)
    <2>1. ~Fatal
      BY <1>0 DEF Fatal, IInv, SideInv, LoggingIn
    <2>2. ~Begin(r)
      BY DEF Begin
    <2> QED
      BY <2>1, <2>2, Moves, StepOf
  <1>2. /\ k = request[r].signer /\ k \in Key /\ (keys' = None \/ k \notin keys')
        /\ \/ keys' = keys /\ mu = None /\ ~keysFor(k)
           \/ reachable /\ load(Published) # None /\ keys' = load(Published)
           \/ keys' = keys /\ ~(reachable /\ load(Published) # None)
    BY <1>1, Answered
  <1> SUFFICES ASSUME status[k] = "published", Kind[k] # "enc", ~(age[k] < Interval)
               PROVE  Troubled
    OBVIOUS
  <1>3. load(Published) # None /\ k \in load(Published)
    BY <1>2, Basics, TypeFacts DEF load, Published
  <1>4. CASE keys' = keys /\ mu = None /\ ~keysFor(k)
    <2>1. attempted < Interval
      <3>1. ~(attempted >= Interval)
        BY <1>2, <1>4 DEF keysFor
      <3> QED
        BY <3>1, Numbers, Between
    <2>2. attempted < age[k]
      BY <1>2, <2>1, Numbers, Between
    <2>3. trouble <= attempted
      BY <1>0, <1>2, <1>4, <2>2 DEF IInv, AgeInv
    <2> QED
      BY <2>1, <2>3, Numbers, Between DEF Troubled
  <1>5. CASE keys' = load(Published)
    BY <1>2, <1>3, <1>5
  <1>6. CASE ~(reachable /\ load(Published) # None)
    <2>1. trouble = 0
      BY <1>0, <1>3, <1>6 DEF IInv, AgeInv
    <2> QED
      BY <2>1, Basics DEF Troubled
  <1> QED
    BY <1>2, <1>4, <1>5, <1>6

\* A failed reload loses no key.
LEMMA Kept ==
  ASSUME IInv, Next
  PROVE  KeysAreKept
  <1> SUFFICES ASSUME issuer = "cluster", keys # None
               PROVE  keys' # None /\ keys' # {} /\ \A k \in keys' : Kind[k] # "enc"
    BY DEF KeysAreKept
  <1>1. \A r \in Request : request[r].pc \notin LoggingIn
    BY DEF IInv, SideInv
  <1>2. keys' # None /\ issuer' = issuer /\ Kind' = Kind
    <2>1. CASE Tick \/ Reach
      BY <2>1 DEF Tick, Reach, Change, cache
    <2>2. CASE \E k \in Key : Rotate(k) \/ Forget(k)
      BY <2>2 DEF Rotate, Forget, Change, cache
    <2>3. CASE Fatal
      BY <1>1, <2>3 DEF Fatal, LoggingIn
    <2>4. ASSUME NEW r \in Request, Begin(r) \/ Step(r)
          PROVE  keys' # None /\ issuer' = issuer /\ Kind' = Kind
      <3>1. Begin(r) \/ Lock(r) \/ Load(r) \/ Exchange(r) \/ CreatePluginWorkloadToken(r) \/ Expire(r)
        BY <1>1, <2>4, TypeFacts, StepOf DEF ReqType, Exchanging
      <3> QED
        BY <3>1 DEF Begin, Lock, Load, Exchange, CreatePluginWorkloadToken, Expire, cache, environment
    <2> QED
      BY <2>1, <2>2, <2>3, <2>4 DEF Next
  <1>3. AgeInv'
    BY NextIInv DEF IInv
  <1> QED
    BY <1>2, <1>3 DEF AgeInv

\* Keys follow the issuer: a key that was withdrawn is trusted for less than
\* MaxAge, a new one is accepted from the Interval on, and a failed reload
\* keeps the old ones, unless the issuer itself had no usable answer (keysFor
\* and load of the plugin workload KeySet).
THEOREM TrustFollowsIssuerEver == Spec => TrustFollowsIssuer
  <1>1. ASSUME IInv, Next
        PROVE  TrustEnds /\ RotationIsFollowed /\ KeysAreKept
    BY <1>1, Trusted, Followed, Kept DEF TrustEnds, RotationIsFollowed
  <1>2. IInv /\ [Next]_vars => [TrustEnds /\ RotationIsFollowed /\ KeysAreKept]_vars
    BY <1>1
  <1> QED
    BY <1>2, Invariance, PTL DEF TrustFollowsIssuer, Spec

\* What is left of a token is at most what is left of its credential, from the
\* moment its expiry is computed.
Within(q) == q.left <= q.valid /\ (q.pc \notin {"insert", "issued"} => q.left = 0)

LeftInv == \A r \in Request : Within(request[r])

\* A step of one request keeps that if its new state does.
LEMMA SetLeft ==
  ASSUME IInv, LeftInv, NEW r \in Request, NEW new, Set(r, new), Within(new)
  PROVE  LeftInv'
  <1>1. request'[r] = new /\ \A s \in Request \ {r} : request'[s] = request[s]
    BY TypeFacts DEF Set
  <1>2. \A s \in Request : Within(request'[s])
    BY <1>1 DEF LeftInv
  <1> QED
    BY <1>2 DEF LeftInv, Within

\* Every step keeps it.
LEMMA NextLeft == IInv /\ LeftInv /\ [Next]_vars => LeftInv'
  <1> SUFFICES ASSUME IInv, LeftInv, [Next]_vars PROVE LeftInv'
    OBVIOUS
  <1>0. Within(Idle) /\ \A s \in Request : request[s] \in ReqType
    BY TypeFacts DEF Within, Idle
  <1>1. ASSUME NEW r \in Request, NEW pc, Goto(r, pc),
               pc \notin {"insert", "issued"} => request[r].pc \notin {"insert", "issued"}
        PROVE  LeftInv'
    <2> DEFINE new == [request[r] EXCEPT !.pc = pc]
    <2>1. new.pc = pc /\ new.left = request[r].left /\ new.valid = request[r].valid
      BY <1>0 DEF ReqType
    <2>2. Set(r, new)
      BY <1>1 DEF Goto
    <2> HIDE DEF new
    <2>3. Within(new)
      BY <1>1, <2>1 DEF LeftInv, Within
    <2> QED
      BY <2>2, <2>3, SetLeft
  <1>2. ASSUME NEW r \in Request, Refuse(r) \/ Set(r, Idle) PROVE LeftInv'
    BY <1>0, <1>2, SetLeft DEF Refuse
  <1>3. CASE Tick
    <2>1. ASSUME NEW s \in Request PROVE Within(request'[s])
      <3>1. request'[s] = [request[s] EXCEPT !.valid = Less(@), !.left = Less(@)]
        BY <1>3 DEF Tick
      <3>2. /\ request'[s].pc = request[s].pc /\ request'[s].valid = Less(request[s].valid)
            /\ request'[s].left = Less(request[s].left)
        BY <1>0, <3>1 DEF ReqType
      <3>3. request[s].valid \in Nat /\ request[s].left \in Nat
        BY <1>0 DEF ReqType
      <3> QED
        BY <3>2, <3>3, CountDown DEF LeftInv, Within
    <2> QED
      BY <2>1 DEF LeftInv, Within
  <1>4. ASSUME \A s \in Request : /\ request'[s].pc = request[s].pc /\ request'[s].valid = request[s].valid
                                  /\ request'[s].left = request[s].left
        PROVE  LeftInv'
    BY <1>4 DEF LeftInv, Within
  <1>5. ASSUME NEW up, NEW stat, Change(up, stat) PROVE LeftInv'
    <2>1. ASSUME NEW s \in Request
          PROVE  /\ request'[s].pc = request[s].pc /\ request'[s].valid = request[s].valid
                 /\ request'[s].left = request[s].left
      <3>1. PICK owed : request'[s] = [request[s] EXCEPT !.owed = owed]
        BY <1>5 DEF Change
      <3> QED
        BY <1>0, <3>1 DEF ReqType
    <2> QED
      BY <1>4, <2>1
  <1>6. CASE UNCHANGED vars \/ \E k \in Key : Forget(k)
    BY <1>6 DEF vars, Forget, LeftInv, Within
  <1>7. CASE Fatal
    <2>1. \A s \in Request : request'[s] = Idle
      BY <1>7 DEF Fatal
    <2> QED
      BY <1>0, <2>1 DEF LeftInv, Within
  <1>8. ASSUME NEW r \in Request, Begin(r) PROVE LeftInv'
    <2>1. PICK pc, signer, kid, owed :
            Set(r, [Idle EXCEPT !.pc = pc, !.signer = signer, !.kid = kid, !.owed = owed])
      BY <1>8 DEF Begin
    <2>2. Within([Idle EXCEPT !.pc = pc, !.signer = signer, !.kid = kid, !.owed = owed])
      BY DEF Within, Idle
    <2> QED
      BY <2>1, <2>2, SetLeft
  <1>9. ASSUME NEW r \in Request, Step(r) PROVE LeftInv'
    <2> DEFINE q == request[r]
    <2>1. ASSUME Return(r), q.pc \in {"ready", "ready load", "verify", "verify load"} PROVE LeftInv'
      <3>1. ASSUME NEW life \in 0..MaxLife, Set(r, [q EXCEPT !.pc = "verify", !.valid = life])
            PROVE  LeftInv'
        <4> DEFINE new == [q EXCEPT !.pc = "verify", !.valid = life]
        <4>0. q.left = 0 /\ 0 <= life
          <5>1. q.left = 0
            BY <2>1 DEF LeftInv, Within
          <5>2. \A m \in 0..MaxLife : 0 <= m
            OBVIOUS
          <5> QED
            BY <3>1, <5>1, <5>2
        <4>1. new.valid = life /\ new.left = q.left /\ new.pc = "verify"
          BY <1>0 DEF ReqType
        <4>2. Set(r, new)
          BY <3>1
        <4> HIDE DEF new, q
        <4>3. Within(new)
          BY <4>0, <4>1 DEF Within
        <4> QED
          BY <4>2, <4>3, SetLeft
      <3>2. CASE Goto(r, "verified")
        BY <1>1, <2>1, <3>2
      <3> QED
        BY <1>2, <2>1, <3>1, <3>2 DEF Return
    <2>2. CASE Lock(r) \/ Load(r)
      <3>1. q.pc \in {"ready", "ready load", "verify", "verify load"}
        BY <2>2 DEF Lock, Load, Loading
      <3>2. Return(r) \/ Goto(r, IF q.pc = "ready" THEN "ready load" ELSE "verify load")
        BY <2>2 DEF Lock, Load
      <3> QED
        BY <1>1, <2>1, <3>1, <3>2
    <2>3. CASE Exchange(r)
      <3> DEFINE lifetime == IssuedLifetime(q.valid)
                 new == [q EXCEPT !.pc = "insert", !.lifetime = lifetime, !.left = lifetime]
      <3>1. lifetime \in Nat /\ lifetime <= q.valid
        BY <1>0 DEF IssuedLifetime, ReqType
      <3>2. Refuse(r) \/ Set(r, new)
        BY <2>3 DEF Exchange
      <3> HIDE DEF lifetime
      <3>3. new.pc = "insert" /\ new.left = lifetime /\ new.valid = q.valid
        BY <1>0 DEF ReqType
      <3> HIDE DEF new
      <3>4. Within(new)
        BY <3>1, <3>3 DEF Within
      <3> QED
        BY <1>2, <3>2, <3>4, SetLeft
    <2>4. CASE CreatePluginWorkloadToken(r) \/ Expire(r)
      BY <1>1, <1>2, <2>4 DEF CreatePluginWorkloadToken, Expire
    <2>5. CASE wrapKeyFunc(r) \/ CheckMap(r) \/ IdentifyUser(r) \/ LoggedIn(r)
      <3>1. q.pc \notin {"insert", "issued"}
        BY <2>5 DEF wrapKeyFunc, CheckMap, IdentifyUser, LoggedIn
      <3>2. Refuse(r) \/ Set(r, Idle) \/ \E pc : Goto(r, pc)
        BY <2>5 DEF wrapKeyFunc, CheckMap, IdentifyUser, LoggedIn
      <3> QED
        BY <1>1, <1>2, <3>1, <3>2
    <2>6. CASE Fetch(r)
      <3>1. q.pc = "fetch"
        BY <2>6 DEF Fetch
      <3>2. CASE Refuse(r)
        BY <1>2, <3>2
      <3>3. CASE ~Refuse(r)
        <4>1. ASSUME NEW s \in Request
              PROVE  Within(request'[s])
          <5>1. CASE s = r
            <6>1. PICK todo, overlap : request'[s] = [request[s] EXCEPT !.pc = "check", !.todo = todo, !.overlap = overlap]
              <7>1. request'[s] = [request[s] EXCEPT !.pc = "check", !.todo = getRawJwksKeys(Published),
                                                     !.overlap = @ \/ Refilling # {r}]
                BY <2>6, <3>3, <5>1 DEF Fetch
              <7> QED
                BY <7>1
            <6>2. request'[s].pc = "check" /\ request'[s].left = request[s].left /\ request'[s].valid = request[s].valid
              BY <1>0, <6>1 DEF ReqType
            <6> QED
              BY <3>1, <5>1, <6>2 DEF LeftInv, Within
          <5>2. CASE s # r
            <6>1. request'[s] = [request[s] EXCEPT !.overlap = TRUE] \/ request'[s] = request[s]
              BY <2>6, <3>3, <5>2 DEF Fetch
            <6>2. request'[s].pc = request[s].pc /\ request'[s].left = request[s].left /\ request'[s].valid = request[s].valid
              BY <1>0, <6>1 DEF ReqType
            <6> QED
              BY <6>2 DEF LeftInv, Within
          <5> QED
            BY <5>1, <5>2
        <4> QED
          BY <4>1 DEF LeftInv, Within
      <3> QED
        BY <3>2, <3>3
    <2>7. CASE MakeMap(r)
      BY <1>1, <2>7 DEF MakeMap
    <2>8. CASE Store(r)
      <3>1. q.pc = "store"
        BY <2>8 DEF Store
      <3>2. ASSUME NEW todo, Set(r, [q EXCEPT !.todo = todo]) PROVE LeftInv'
        <4> DEFINE new == [q EXCEPT !.todo = todo]
        <4>1. new.pc = q.pc /\ new.left = q.left /\ new.valid = q.valid /\ Within(q)
          BY <1>0 DEF ReqType, LeftInv
        <4>2. Set(r, new)
          BY <3>2
        <4> HIDE DEF new, q
        <4>3. Within(new)
          BY <4>1 DEF Within
        <4> QED
          BY <4>2, <4>3, SetLeft
      <3> QED
        BY <1>1, <1>2, <2>8, <3>1, <3>2 DEF Store
    <2> QED
      BY <1>9, <2>2, <2>3, <2>4, <2>5, <2>6, <2>7, <2>8 DEF Step
  <1> QED
    BY <1>3, <1>5, <1>6, <1>7, <1>8, <1>9 DEF Next, Reach, Rotate

\* As long as a token that the exchange issued is accepted the ServiceAccount
\* token that justified it is valid, however much time the exchange took
\* between its steps (IssuedLifetime, CreatePluginWorkloadToken).
THEOREM NeverOutlivesEver == Spec => []NeverOutlives
  <1>1. Init => LeftInv
    <2> SUFFICES ASSUME Init PROVE \A r \in Request : Within(request[r])
      BY DEF LeftInv
    <2>1. \A r \in Request : request[r] = Idle
      BY DEF Init
    <2> QED
      BY <2>1 DEF Within, Idle
  <1>2. IInv /\ LeftInv => NeverOutlives
    <2> SUFFICES ASSUME IInv, LeftInv, NEW r \in Request, request[r].left > 0 PROVE request[r].valid > 0
      BY DEF NeverOutlives
    <2>1. request[r].left \in Nat /\ request[r].valid \in Nat
      BY TypeFacts DEF ReqType
    <2> QED
      BY <2>1 DEF LeftInv, Within
  <1>3. Spec => [](IInv /\ LeftInv)
    BY <1>1, InitIInv, NextIInv, NextLeft, PTL DEF Spec
  <1> QED
    BY <1>2, <1>3, PTL

\* A login with an RSA key that the provider publishes from its beginning on is
\* not refused for its signature, unless another refill of the map of keys ran
\* at the same time (wrapKeyFunc and refillKeyCache, which share it unlocked).
THEOREM LoginSucceedsEver == Spec => LoginSucceeds
  <1>1. ASSUME IInv, Next, NEW r \in Request, request[r].pc \in {"key", "fetch", "store"}, request'[r].pc = "idle",
               request[r].owed, SigningMethodRSA(request[r]), ~request[r].overlap, ~Fatal
        PROVE  FALSE
    <2> DEFINE q == request[r]
    <2>1. Step(r)
      BY <1>1, Moves DEF Begin
    <2>2. /\ q \in ReqType /\ request \in [Request -> ReqType] /\ q.signer \in Key /\ q.kid = q.signer
          /\ Usable(reachable, Published) /\ issuer # "cluster"
      BY <1>1, TypeFacts DEF IInv, FillInv, SideInv, SigningMethodRSA
    <2>3. ASSUME NEW pc, Goto(r, pc), pc # "idle"
          PROVE  FALSE
      <3>1. request'[r] = [q EXCEPT !.pc = pc]
        BY <2>2, <2>3 DEF Goto, Set
      <3> QED
        BY <1>1, <2>2, <2>3, <3>1 DEF ReqType
    <2>4. CASE q.pc = "key"
      <3>1. wrapKeyFunc(r)
        BY <2>1, <2>4, StepOf
      <3>2. Goto(r, "verified id") \/ Goto(r, "fetch")
        BY <1>1, <3>1 DEF wrapKeyFunc
      <3> QED
        BY <2>3, <3>2
    <2>5. CASE q.pc = "fetch"
      <3>1. Fetch(r) /\ reachable /\ getRawJwksKeys(Published) # None
        BY <2>1, <2>2, <2>5, StepOf DEF Usable
      <3>2. request'[r] = [q EXCEPT !.pc = "check", !.todo = getRawJwksKeys(Published), !.overlap = @ \/ Refilling # {r}]
        BY <3>1 DEF Fetch
      <3> QED
        BY <1>1, <2>2, <3>2 DEF ReqType
    <2>6. CASE q.pc = "store"
      <3>1. Store(r)
        BY <2>1, <2>6, StepOf
      <3>2. CASE q.todo = {}
        <4>1. q.signer \in keys
          BY <1>1, <2>6, <3>2 DEF IInv, FillInv, Filling
        <4>2. Goto(r, "verified id")
          BY <2>2, <3>1, <3>2, <4>1 DEF Store
        <4> QED
          BY <2>3, <4>2
      <3>3. CASE q.todo # {}
        <4>1. PICK todo : Set(r, [q EXCEPT !.todo = todo])
          BY <3>1, <3>3 DEF Store
        <4>2. request'[r] = [q EXCEPT !.todo = todo]
          BY <2>2, <4>1 DEF Set
        <4> QED
          BY <1>1, <2>2, <2>6, <4>2 DEF ReqType
      <3> QED
        BY <3>2, <3>3
    <2> QED
      BY <1>1, <2>4, <2>5, <2>6
  <1>2. IInv /\ [Next]_vars =>
          [\A r \in Request :
              LET q == request[r] IN
              /\ q.pc \in {"key", "fetch", "store"} /\ request'[r].pc = "idle"
              /\ q.owed /\ SigningMethodRSA(q)
              => q.overlap \/ Fatal]_vars
    BY <1>1
  <1> QED
    BY <1>2, Invariance, PTL DEF LoginSucceeds, Spec
=============================================================================
