-------------------------- MODULE TokenAuth_proofs --------------------------
(***************************************************************************)
(* Proofs about TokenAuth, for any number of replicas, payloads, service   *)
(* users, bindings and concurrent requests, and for any cache lifetime.    *)
(***************************************************************************)
EXTENDS TokenAuth, TLAPS

Owner == Principal \cup {Human}
Token(k, who) == [kind |-> k, who |-> who]
Result == [who : Owner \cup {None}, cut : BOOLEAN, bound : BOOLEAN \cup {None}, roles : BOOLEAN]
Entry == [who : Owner \cup {None}, cut : BOOLEAN, bound : BOOLEAN, roles : BOOLEAN, left : 1..TTL]
ReqType == [pc : {"idle", "issue", "store", "accepted"}, at : Replica \cup Binding \cup {None},
            kind : Kind \cup {None}, x : Payload \cup {None}, res : Result \cup Owner \cup {None},
            dead : BOOLEAN, age : 0..MaxLookup]

Types ==
    /\ TypeOK
    /\ cache \in [Replica -> [Key -> Entry \cup {None}]]
    /\ req \in [Request -> ReqType]

\* A row carries a payload that was issued for it, and no row carries a payload
\* that was revoked.
RowsInv ==
    /\ \A p \in Principal : su[p].hash # None =>
          /\ issued[su[p].hash] = Token("service-user", p)
          /\ ~su[p].cut => revoked[su[p].hash] = 0
    /\ \A x \in sessions : issued[x] = Token("session", Human) /\ revoked[x] = 0
    /\ \A x \in Payload : wtok[x] # None =>
          /\ binding[wtok[x]] # None
          /\ issued[x] = Token("plugin-workload", binding[wtok[x]])
          /\ revoked[x] = 0

\* A payload that has no row any more was revoked or has expired.
GoneInv ==
    \A x \in Payload :
        /\ issued[x].who = None => issued[x] = NoToken /\ revoked[x] = 0
        /\ issued[x].who # None => issued[x].kind \in Kind
        /\ issued[x].kind = "service-user" /\ revoked[x] = 0 => \E p \in Principal : su[p].hash = x
        /\ issued[x].kind = "plugin-workload" /\ revoked[x] = 0 => wtok[x] # None \/ x \in expired
        /\ issued[x].kind = "session" /\ revoked[x] = 0 => x \in sessions \/ x \in expired

\* What a principal may have depends on its scope, and a binding id is used once.
ScopeInv ==
    /\ \A p \in Principal : su[p].scope # "organization" => ~su[p].cut /\ p \notin roles
    /\ \A b \in Binding : binding[b] # None => b \in used
    /\ WorkloadHoldsNothing

\* A payload that is known to be unknown is gone for good.
Final(k, x) == issued[x].kind = k /\ issued[x].who \notin legacy => x \in expired \/ revoked[x] # 0

\* What a cache holds of a payload, and until when.
CacheInv ==
    \A i \in Replica, k \in Kind, x \in Payload : cache[i][<<k, x>>] # None =>
        /\ issued[x].who # None
        /\ cache[i][<<k, x>>].who # None => issued[x] = Token(k, cache[i][<<k, x>>].who)
        /\ k = "service-user" /\ cache[i][<<k, x>>].who # None /\ ~cache[i][<<k, x>>].cut =>
              revoked[x] + cache[i][<<k, x>>].left <= Cap
        /\ cache[i][<<k, x>>].who = None => Final(k, x)

\* What a lookup under way has read, and how long ago.
StoreInv ==
    \A q \in Request : req[q].pc = "store" =>
        /\ req[q].at \in Replica /\ req[q].kind \in Kind /\ req[q].x \in Payload /\ req[q].res \in Result
        /\ issued[req[q].x].who # None
        /\ req[q].res.who # None => issued[req[q].x] = Token(req[q].kind, req[q].res.who)
        /\ req[q].kind = "service-user" /\ req[q].res.who # None /\ ~req[q].res.cut =>
              revoked[req[q].x] <= req[q].age + 1
        /\ req[q].kind # "service-user" /\ req[q].res.who # None => ~req[q].dead
        /\ req[q].res.who = None => Final(req[q].kind, req[q].x)

\* An exchange knows its binding; an accepted token is what it was issued as.
AnswerInv ==
    \A q \in Request :
        /\ req[q].pc = "issue" => req[q].at \in Binding
        /\ req[q].pc = "accepted" =>
              /\ req[q].x \in Payload /\ req[q].kind \in Kind /\ req[q].res \in Owner
              /\ issued[req[q].x] = Token(req[q].kind, req[q].res)
              /\ req[q].kind # "service-user" => ~req[q].dead

IInv == Types /\ RowsInv /\ GoneInv /\ ScopeInv /\ CacheInv /\ StoreInv /\ AnswerInv

SuRow == [scope : {"none", "organization", "platform", "deleted"}, hash : Payload \cup {None}, cut : BOOLEAN]
TokenRow == [kind : Kind \cup {None}, who : Principal \cup {Human, None}]
-----------------------------------------------------------------------------
USE TokenAssumption

\* The constant records.
LEMMA Records ==
  /\ NoRow \in SuRow /\ NoRow.scope = "none" /\ NoRow.hash = None /\ NoRow.cut = FALSE
  /\ NoToken \in TokenRow /\ NoToken.kind = None /\ NoToken.who = None
  /\ Idle \in ReqType /\ Idle.pc = "idle"
  /\ Negative \in Result /\ Negative.who = None /\ Negative.cut = FALSE
  /\ \A k \in Kind, who \in Owner : /\ Token(k, who) \in TokenRow
                                    /\ Token(k, who).kind = k /\ Token(k, who).who = who
  /\ Human \in Owner /\ None \notin Owner /\ None \notin Kind
  /\ "service-user" \in Kind /\ "plugin-workload" \in Kind /\ "session" \in Kind
  /\ Cap \in Nat /\ Cap > 1 /\ Cap = TTL + MaxLookup + 1 /\ TTL \in Nat /\ MaxLookup \in Nat /\ TTL > 0
  <1>1. NoRow \in SuRow /\ NoRow.scope = "none" /\ NoRow.hash = None /\ NoRow.cut = FALSE
    BY DEF NoRow, SuRow
  <1>2. NoToken \in TokenRow /\ NoToken.kind = None /\ NoToken.who = None
    BY DEF NoToken, TokenRow
  <1>3. Idle \in ReqType /\ Idle.pc = "idle"
    BY DEF Idle, ReqType
  <1>4. Negative \in Result /\ Negative.who = None /\ Negative.cut = FALSE
    BY DEF Negative, Result
  <1>5. \A k \in Kind, who \in Owner : /\ Token(k, who) \in TokenRow
                                       /\ Token(k, who).kind = k /\ Token(k, who).who = who
    BY DEF Token, TokenRow, Owner
  <1>6. /\ Human \in Owner /\ None \notin Owner /\ None \notin Kind
        /\ "service-user" \in Kind /\ "plugin-workload" \in Kind /\ "session" \in Kind
    BY DEF Owner, Kind
  <1>7. Cap \in Nat /\ Cap > 1 /\ Cap = TTL + MaxLookup + 1 /\ TTL \in Nat /\ MaxLookup \in Nat /\ TTL > 0
    BY DEF Cap
  <1> QED
    BY <1>1, <1>2, <1>3, <1>4, <1>5, <1>6, <1>7

\* A function whose values are all different can be turned round.
LEMMA TurnRound ==
  ASSUME NEW S, NEW f, DOMAIN f = S, \A s, r \in S : s # r => f[s] # f[r]
  PROVE  /\ \A s \in S : f[s] \in Range(f) /\ AntiFunction(f)[f[s]] = s
         /\ \A y \in Range(f) : AntiFunction(f)[y] \in S /\ f[AntiFunction(f)[y]] = y
  <1>1. \A y \in Range(f) : \E s \in S : f[s] = y
    BY DEF Range
  <1>2. \A y \in Range(f) : AntiFunction(f)[y] = CHOOSE s \in S : y \in Range(f) => f[s] = y
    BY DEF AntiFunction, Inverse
  <1>3. \A y \in Range(f) : AntiFunction(f)[y] \in S /\ f[AntiFunction(f)[y]] = y
    BY <1>1, <1>2
  <1>4. \A s \in S : f[s] \in Range(f)
    BY DEF Range
  <1> QED
    BY <1>3, <1>4

\* The inductive invariant holds initially, with whatever legacy service users.
LEMMA InitIInv == Init => IInv
  <1> SUFFICES ASSUME Init PROVE IInv
    OBVIOUS
  <1>0. PICK own \in [legacy -> Payload], of \in [legacy -> Binding] :
          /\ \A p, o \in legacy : p # o => own[p] # own[o] /\ of[p] # of[o]
          /\ su = [p \in Principal |->
                     IF p \in legacy THEN [scope |-> "organization", hash |-> own[p], cut |-> FALSE] ELSE NoRow]
          /\ binding = [b \in Binding |-> IF b \in Range(of) THEN AntiFunction(of)[b] ELSE None]
          /\ used = Range(of)
          /\ issued = [x \in Payload |->
                         IF x \in Range(own) THEN [kind |-> "service-user", who |-> AntiFunction(own)[x]] ELSE NoToken]
    BY DEF Init
  <1>1. /\ legacy \subseteq Principal /\ roles \subseteq legacy
        /\ wtok = [x \in Payload |-> None] /\ sessions = {} /\ expired = {}
        /\ revoked = [x \in Payload |-> 0] /\ cache = [i \in Replica |-> [k \in Key |-> None]]
        /\ req = [q \in Request |-> Idle]
    BY DEF Init
  <1>2. /\ \A p \in legacy : own[p] \in Range(own) /\ AntiFunction(own)[own[p]] = p
        /\ \A x \in Range(own) : AntiFunction(own)[x] \in legacy /\ own[AntiFunction(own)[x]] = x
    BY <1>0, TurnRound
  <1>3. \A b \in Range(of) : AntiFunction(of)[b] \in legacy
    BY <1>0, TurnRound
  <1>4. Range(of) \subseteq Binding
    BY <1>0 DEF Range
  <1>5. \A p \in Principal :
          /\ su[p] \in SuRow /\ ~su[p].cut
          /\ p \in legacy => su[p].hash = own[p] /\ su[p].scope = "organization"
          /\ p \notin legacy => su[p].hash = None /\ su[p].scope = "none"
    BY <1>0, Records DEF SuRow
  <1>6. \A x \in Payload :
          /\ issued[x] \in TokenRow
          /\ x \in Range(own) => issued[x] = Token("service-user", AntiFunction(own)[x])
          /\ x \notin Range(own) => issued[x] = NoToken
    BY <1>0, <1>1, <1>2, Records DEF Token, TokenRow, Owner
  <1>7. \A b \in Binding : /\ binding[b] # None => b \in Range(of) /\ binding[b] \in legacy
                           /\ binding[b] \in Principal \cup {None}
    BY <1>0, <1>1, <1>3
  <1>8. Types
    <2>1. su \in [Principal -> SuRow] /\ issued \in [Payload -> TokenRow] /\ binding \in [Binding -> Principal \cup {None}]
      BY <1>0, <1>5, <1>6, <1>7
    <2>2. req \in [Request -> ReqType] /\ cache \in [Replica -> [Key -> Entry \cup {None}]]
      BY <1>1, Records
    <2>3. \A q \in Request : req[q].pc \in {"idle", "issue", "store", "accepted"} /\ req[q].age \in 0..MaxLookup
      BY <2>2 DEF ReqType
    <2>4. \A i \in Replica, k \in Key : cache[i][k] = None
      BY <1>1
    <2>5. revoked \in [Payload -> 0..Cap] /\ wtok \in [Payload -> Binding \cup {None}]
      BY <1>1, Records
    <2> QED
      BY <1>0, <1>1, <1>4, <2>1, <2>2, <2>3, <2>4, <2>5 DEF Types, TypeOK, SuRow, TokenRow
  <1>9. RowsInv
    BY <1>0, <1>1, <1>2, <1>5, <1>6 DEF RowsInv
  <1>10. GoneInv
    <2>1. \A x \in Range(own) : AntiFunction(own)[x] \in Owner /\ AntiFunction(own)[x] \in Principal
      BY <1>1, <1>2 DEF Owner
    <2>2. \A x \in Range(own) : su[AntiFunction(own)[x]].hash = x
      BY <1>1, <1>2, <1>5
    <2>3. \A x \in Payload : /\ x \in Range(own) => issued[x].kind = "service-user" /\ issued[x].who # None
                             /\ x \notin Range(own) => issued[x].kind = None /\ issued[x].who = None
      BY <1>6, <2>1, Records
    <2> QED
      BY <1>1, <1>6, <2>1, <2>2, <2>3, Records DEF GoneInv
  <1>11. ScopeInv
    BY <1>0, <1>1, <1>5, <1>7 DEF ScopeInv, WorkloadHoldsNothing
  <1>12. CacheInv /\ StoreInv /\ AnswerInv
    <2>1. \A k \in Kind, x \in Payload : <<k, x>> \in Key
      BY DEF Key
    <2> QED
      BY <1>1, <2>1, Records DEF CacheInv, StoreInv, AnswerInv
  <1> QED
    BY <1>8, <1>9, <1>10, <1>11, <1>12 DEF IInv

\* The rows and what was issued for them, one fact at a time.
LEMMA RowFacts ==
  ASSUME IInv
  PROVE  /\ su \in [Principal -> SuRow] /\ issued \in [Payload -> TokenRow]
         /\ binding \in [Binding -> Principal \cup {None}] /\ wtok \in [Payload -> Binding \cup {None}]
         /\ roles \subseteq Principal /\ sessions \subseteq Payload /\ expired \subseteq Payload /\ used \subseteq Binding
         /\ revoked \in [Payload -> 0..Cap]
         /\ cache \in [Replica -> [Key -> Entry \cup {None}]] /\ req \in [Request -> ReqType]
         /\ \A p \in Principal :
               /\ su[p].hash \in Payload \cup {None}
               /\ su[p].hash # None => /\ issued[su[p].hash].kind = "service-user" /\ issued[su[p].hash].who = p
                                       /\ issued[su[p].hash] = Token("service-user", p)
         /\ \A x \in sessions : issued[x].kind = "session" /\ issued[x].who = Human
         /\ \A x \in Payload : wtok[x] # None =>
               /\ wtok[x] \in Binding /\ binding[wtok[x]] \in Principal
               /\ issued[x].kind = "plugin-workload" /\ issued[x].who = binding[wtok[x]]
  <1>1. /\ su \in [Principal -> SuRow] /\ issued \in [Payload -> TokenRow]
        /\ binding \in [Binding -> Principal \cup {None}] /\ wtok \in [Payload -> Binding \cup {None}]
        /\ roles \subseteq Principal /\ sessions \subseteq Payload /\ expired \subseteq Payload /\ used \subseteq Binding
        /\ revoked \in [Payload -> 0..Cap]
        /\ cache \in [Replica -> [Key -> Entry \cup {None}]] /\ req \in [Request -> ReqType]
    BY DEF IInv, Types, TypeOK, SuRow, TokenRow
  <1>2. \A p \in Principal : p \in Owner /\ su[p].hash \in Payload \cup {None}
    BY <1>1 DEF SuRow, Owner
  <1>3. \A p \in Principal : su[p].hash # None => issued[su[p].hash] = Token("service-user", p)
    BY DEF IInv, RowsInv
  <1>4. \A x \in sessions : issued[x].kind = "session" /\ issued[x].who = Human
    BY Records DEF IInv, RowsInv
  <1>5. \A x \in Payload : wtok[x] # None => wtok[x] \in Binding /\ binding[wtok[x]] \in Principal
    BY <1>1 DEF IInv, RowsInv
  <1>6. \A x \in Payload : wtok[x] # None => issued[x].kind = "plugin-workload" /\ issued[x].who = binding[wtok[x]]
    BY <1>2, <1>5, Records DEF IInv, RowsInv
  <1> QED
    BY <1>1, <1>2, <1>3, <1>4, <1>5, <1>6, Records

\* A revocation is remembered, and counted from 1 for a static token.
LEMMA RevokeFacts ==
  ASSUME IInv, NEW gone, Revoke(gone)
  PROVE  /\ revoked' \in [Payload -> 0..Cap]
         /\ \A x \in Payload : x \notin gone => revoked'[x] = revoked[x]
         /\ \A x \in Payload : x \in gone => revoked'[x] # 0
         /\ \A x \in Payload : revoked'[x] # revoked[x] =>
               revoked[x] = 0 /\ (issued[x].kind = "service-user" => revoked'[x] = 1)
  BY RowFacts, Records DEF Revoke

\* A payload that is issued was nobody's before.
LEMMA IssueFacts ==
  ASSUME IInv, NEW x \in Payload, NEW k \in Kind, NEW who \in Owner, Issue(x, k, who)
  PROVE  /\ issued' \in [Payload -> TokenRow]
         /\ issued'[x] = Token(k, who) /\ issued'[x].kind = k /\ issued'[x].who = who
         /\ \A y \in Payload \ {x} : issued'[y] = issued[y]
         /\ issued[x].who = None /\ revoked[x] = 0
         /\ (\A p \in Principal : su[p].hash # x) /\ x \notin sessions /\ wtok[x] = None
  <1>1. issued[x] = NoToken /\ issued' = [issued EXCEPT ![x] = Token(k, who)]
    BY DEF Issue, Token
  <1>2. issued[x].who = None /\ revoked[x] = 0
    BY <1>1, Records DEF IInv, GoneInv
  <1>3. \A p \in Principal : p # None
    OBVIOUS
  <1> QED
    BY <1>1, <1>2, <1>3, RowFacts, Records

\* What the caches and the requests know stays true while the database changes.
LEMMA KeepsCaches ==
  ASSUME IInv, UNCHANGED <<cache, config>>, expired \subseteq expired',
         revoked' \in [Payload -> 0..Cap],
         \A x \in Payload : issued[x].who # None => issued'[x] = issued[x],
         \A x \in Payload : revoked'[x] # revoked[x] =>
            revoked[x] = 0 /\ (issued[x].kind = "service-user" => revoked'[x] = 1),
         \A q \in Request : \/ req'[q] = req[q]
                            \/ req'[q].pc = "idle"
                            \/ req'[q].pc = "issue" /\ req'[q].at \in Binding
  PROVE  CacheInv' /\ StoreInv' /\ AnswerInv'
  <1>1. \A x \in Payload, k \in Kind : issued[x].who # None /\ Final(k, x) => Final(k, x)'
    BY DEF Final, config
  <1>2. \A x \in Payload : /\ revoked[x] \in Nat /\ revoked'[x] \in Nat
                           /\ revoked[x] # 0 => revoked'[x] = revoked[x]
    BY RowFacts, Records
  <1>3. CacheInv'
    <2> SUFFICES ASSUME NEW i \in Replica, NEW k \in Kind, NEW x \in Payload, cache[i][<<k, x>>] # None
                 PROVE  /\ issued'[x].who # None
                        /\ cache[i][<<k, x>>].who # None => issued'[x] = Token(k, cache[i][<<k, x>>].who)
                        /\ k = "service-user" /\ cache[i][<<k, x>>].who # None /\ ~cache[i][<<k, x>>].cut =>
                              revoked'[x] + cache[i][<<k, x>>].left <= Cap
                        /\ cache[i][<<k, x>>].who = None => Final(k, x)'
      BY DEF CacheInv
    <2> DEFINE e == cache[i][<<k, x>>]
    <2>1. issued[x].who # None /\ issued'[x] = issued[x]
      BY DEF IInv, CacheInv
    <2>2. e.who # None => issued[x] = Token(k, e.who)
      BY DEF IInv, CacheInv
    <2>3. e.who = None => Final(k, x)
      BY DEF IInv, CacheInv
    <2>4. e.left \in 1..TTL /\ (e.who # None => e.who \in Owner)
      <3>1. <<k, x>> \in Key
        BY DEF Key
      <3>2. e \in Entry
        BY <3>1, RowFacts
      <3> QED
        BY <3>2 DEF Entry
    <2>5. ASSUME k = "service-user", e.who # None, ~e.cut
          PROVE  revoked'[x] + e.left <= Cap
      <3>1. revoked[x] + e.left <= Cap
        BY <2>5 DEF IInv, CacheInv
      <3>2. issued[x].kind = "service-user"
        BY <2>2, <2>4, <2>5, Records
      <3>3. revoked'[x] = revoked[x] \/ revoked'[x] = 1
        BY <3>2
      <3> QED
        BY <1>2, <2>4, <3>1, <3>3, Records
    <2> QED
      BY <1>1, <2>1, <2>2, <2>3, <2>5
  <1>4. StoreInv'
    <2> SUFFICES ASSUME NEW q \in Request, req'[q].pc = "store"
                 PROVE  /\ req'[q].at \in Replica /\ req'[q].kind \in Kind /\ req'[q].x \in Payload /\ req'[q].res \in Result
                        /\ issued'[req'[q].x].who # None
                        /\ req'[q].res.who # None => issued'[req'[q].x] = Token(req'[q].kind, req'[q].res.who)
                        /\ req'[q].kind = "service-user" /\ req'[q].res.who # None /\ ~req'[q].res.cut =>
                              revoked'[req'[q].x] <= req'[q].age + 1
                        /\ req'[q].kind # "service-user" /\ req'[q].res.who # None => ~req'[q].dead
                        /\ req'[q].res.who = None => Final(req[q].kind, req[q].x)'
      BY DEF StoreInv, Final
    <2> DEFINE r == req[q]
    <2>1. req'[q] = r /\ r.pc = "store"
      OBVIOUS
    <2>2. /\ r.at \in Replica /\ r.kind \in Kind /\ r.x \in Payload /\ r.res \in Result
          /\ issued[r.x].who # None
          /\ r.res.who # None => issued[r.x] = Token(r.kind, r.res.who)
          /\ r.kind # "service-user" /\ r.res.who # None => ~r.dead
          /\ r.res.who = None => Final(r.kind, r.x)
      BY <2>1 DEF IInv, StoreInv
    <2>3. r.age \in Nat /\ (r.res.who # None => r.res.who \in Owner)
      BY <2>2, RowFacts DEF ReqType, Result
    <2>4. ASSUME r.kind = "service-user", r.res.who # None, ~r.res.cut
          PROVE  revoked'[r.x] <= r.age + 1
      <3>1. revoked[r.x] <= r.age + 1
        BY <2>1, <2>4 DEF IInv, StoreInv
      <3>2. issued[r.x].kind = "service-user"
        BY <2>2, <2>3, <2>4, Records
      <3>3. revoked'[r.x] = revoked[r.x] \/ revoked'[r.x] = 1
        BY <2>2, <3>2
      <3> QED
        BY <2>3, <3>1, <3>3
    <2>5. issued'[r.x] = issued[r.x]
      BY <2>2
    <2>6. r.res.who = None => Final(r.kind, r.x)'
      BY <1>1, <2>2
    <2> QED
      BY <2>1, <2>2, <2>4, <2>5, <2>6
  <1>5. AnswerInv'
    <2>1. \A q \in Request : req[q].pc = "accepted" => issued'[req[q].x] = issued[req[q].x]
      <3> SUFFICES ASSUME NEW q \in Request, req[q].pc = "accepted" PROVE issued'[req[q].x] = issued[req[q].x]
        OBVIOUS
      <3>1. req[q].x \in Payload /\ req[q].kind \in Kind /\ req[q].res \in Owner /\ issued[req[q].x] = Token(req[q].kind, req[q].res)
        BY DEF IInv, AnswerInv
      <3> QED
        BY <3>1, Records
    <2> QED
      BY <2>1 DEF IInv, AnswerInv
  <1> QED
    BY <1>3, <1>4, <1>5

\* A management step preserves the types if its writes are well typed.
LEMMA ManagementTypes ==
  ASSUME IInv, Management, su' \in [Principal -> SuRow], roles' \subseteq Principal,
         binding' \in [Binding -> Principal \cup {None}], wtok' \in [Payload -> Binding \cup {None}],
         sessions' \subseteq Payload, expired' \subseteq Payload, used' \subseteq Binding,
         issued' \in [Payload -> TokenRow], revoked' \in [Payload -> 0..Cap]
  PROVE  Types'
  BY DEF IInv, Types, TypeOK, Management, SuRow, TokenRow

\* CreateServiceUser and CreatePlatformPrincipal.
LEMMA InsertIInv ==
  ASSUME IInv, NEW p \in Principal, NEW x \in Payload, NEW scope \in {"organization", "platform"},
         InsertPrincipal(p, scope, x), roles' \subseteq Principal, roles' \ {p} = roles \ {p},
         scope = "platform" => roles' = roles,
         Management, UNCHANGED <<binding, wtok, sessions, used, expired, revoked>>
  PROVE  IInv'
  <1> DEFINE row == [scope |-> scope, hash |-> x, cut |-> FALSE]
  <1>1. su[p] = NoRow /\ su' = [su EXCEPT ![p] = row] /\ Issue(x, "service-user", p)
    BY DEF InsertPrincipal
  <1>2. row \in SuRow /\ row.scope = scope /\ row.hash = x /\ row.cut = FALSE
    BY DEF SuRow
  <1> HIDE DEF row
  <1>3. /\ su' \in [Principal -> SuRow] /\ su'[p].scope = scope /\ su'[p].hash = x /\ su'[p].cut = FALSE
        /\ \A o \in Principal \ {p} : su'[o] = su[o]
        /\ su[p].hash = None /\ su[p].scope = "none"
    BY <1>1, <1>2, RowFacts, Records
  <1>4. /\ issued' \in [Payload -> TokenRow]
        /\ issued'[x] = Token("service-user", p) /\ issued'[x].kind = "service-user" /\ issued'[x].who = p
        /\ \A y \in Payload \ {x} : issued'[y] = issued[y]
        /\ issued[x].who = None /\ revoked[x] = 0
        /\ (\A o \in Principal : su[o].hash # x) /\ x \notin sessions /\ wtok[x] = None
    BY <1>1, IssueFacts, Records DEF Owner
  <1>5. Types'
    BY <1>3, <1>4, RowFacts, ManagementTypes
  <1>6. RowsInv'
    BY <1>3, <1>4, RowFacts, None \notin Payload DEF IInv, RowsInv
  <1>7. GoneInv'
    <2>1. \A o \in Principal, y \in Payload : su[o].hash = y => su'[o].hash = y
      BY <1>3
    <2> QED
      BY <1>3, <1>4, <2>1, Records DEF IInv, GoneInv
  <1>8. ScopeInv'
    <2>1. \A b \in Binding : binding[b] # None /\ binding[b] \notin legacy => binding[b] # p /\ binding[b] \in Principal
      BY <1>3, RowFacts DEF IInv, ScopeInv, WorkloadHoldsNothing
    <2>2. p \notin roles
      BY <1>3 DEF IInv, ScopeInv
    <2> QED
      BY <1>3, <2>1, <2>2 DEF IInv, ScopeInv, WorkloadHoldsNothing, Management, config
  <1>9. CacheInv' /\ StoreInv' /\ AnswerInv'
    BY <1>4, RowFacts, KeepsCaches DEF Management
  <1> QED
    BY <1>5, <1>6, <1>7, <1>8, <1>9 DEF IInv

\* RegenerateServiceUser and RegeneratePlatformPrincipal.
LEMMA SetTokenIInv ==
  ASSUME IInv, NEW p \in Principal, NEW x \in Payload, SetToken(p, x),
         \/ su[p].scope = "organization"
         \/ su[p].scope = "platform" /\ su[p].hash # None,
         Management, UNCHANGED <<roles, binding, wtok, sessions, used, expired>>
  PROVE  IInv'
  <1> DEFINE row == [su[p] EXCEPT !.hash = x, !.cut = FALSE]
  <1>1. /\ su' = [su EXCEPT ![p] = row] /\ Issue(x, "service-user", p)
        /\ Revoke({su[p].hash} \cap Payload)
    BY DEF SetToken
  <1>2. row \in SuRow /\ row.scope = su[p].scope /\ row.hash = x /\ row.cut = FALSE
    <2>1. su[p] \in SuRow
      BY RowFacts
    <2> QED
      BY <2>1 DEF SuRow
  <1> HIDE DEF row
  <1>3. /\ su' \in [Principal -> SuRow] /\ su'[p].scope = su[p].scope /\ su'[p].hash = x /\ su'[p].cut = FALSE
        /\ \A o \in Principal \ {p} : su'[o] = su[o]
    BY <1>1, <1>2, RowFacts
  <1>4. /\ issued' \in [Payload -> TokenRow]
        /\ issued'[x] = Token("service-user", p) /\ issued'[x].kind = "service-user" /\ issued'[x].who = p
        /\ \A y \in Payload \ {x} : issued'[y] = issued[y]
        /\ issued[x].who = None /\ revoked[x] = 0
        /\ (\A o \in Principal : su[o].hash # x) /\ x \notin sessions /\ wtok[x] = None
    BY <1>1, IssueFacts, Records DEF Owner
  <1>5. /\ revoked' \in [Payload -> 0..Cap]
        /\ \A y \in Payload : y # su[p].hash => revoked'[y] = revoked[y]
        /\ \A y \in Payload : y = su[p].hash => revoked'[y] # 0
        /\ \A y \in Payload : revoked'[y] # revoked[y] =>
               revoked[y] = 0 /\ (issued[y].kind = "service-user" => revoked'[y] = 1)
    BY <1>1, RevokeFacts
  <1>6. Types'
    BY <1>3, <1>4, <1>5, RowFacts, ManagementTypes
  <1>7. RowsInv'
    <2>1. \A o \in Principal \ {p} : su[o].hash # None => su[o].hash # su[p].hash
      BY RowFacts
    <2>2. \A y \in Payload : y \in sessions \/ wtok[y] # None => y # su[p].hash
      BY RowFacts, None \notin Payload
    <2> QED
      BY <1>3, <1>4, <1>5, <2>1, <2>2, RowFacts, None \notin Payload DEF IInv, RowsInv
  <1>8. GoneInv'
    <2>1. \A o \in Principal, y \in Payload : su[o].hash = y => su'[o].hash = y \/ revoked'[y] # 0
      BY <1>3, <1>5
    <2>2. \A y \in Payload : /\ revoked'[y] = 0 => revoked[y] = 0
                             /\ issued[y].who = None => revoked'[y] = revoked[y]
      BY <1>5, RowFacts
    <2> QED
      BY <1>3, <1>4, <2>1, <2>2, Records DEF IInv, GoneInv
  <1>9. ScopeInv'
    <2>1. \A b \in Binding : binding[b] # None /\ binding[b] \notin legacy => binding[b] # p /\ binding[b] \in Principal
      BY RowFacts DEF IInv, ScopeInv, WorkloadHoldsNothing
    <2> QED
      BY <1>3, <2>1 DEF IInv, ScopeInv, WorkloadHoldsNothing, Management, config
  <1>10. CacheInv' /\ StoreInv' /\ AnswerInv'
    BY <1>4, <1>5, RowFacts, KeepsCaches DEF Management
  <1> QED
    BY <1>6, <1>7, <1>8, <1>9, <1>10 DEF IInv

\* DeleteServiceUser and DeletePlatformPrincipal, with the rows that refer to it.
LEMMA DropIInv ==
  ASSUME IInv, NEW p \in Principal, DropPrincipal(p), Management, UNCHANGED <<sessions, used, issued, expired>>
  PROVE  IInv'
  <1> DEFINE row  == [NoRow EXCEPT !.scope = "deleted"]
             gone == TokensOf(BoundTo(p)) \cup ({su[p].hash} \cap Payload)
  <1>1. /\ su' = [su EXCEPT ![p] = row] /\ roles' = roles \ {p}
        /\ binding' = [b \in Binding |-> IF b \in BoundTo(p) THEN None ELSE binding[b]]
        /\ wtok' = [y \in Payload |-> IF wtok[y] \in BoundTo(p) THEN None ELSE wtok[y]]
        /\ Revoke(gone)
    BY DEF DropPrincipal
  <1>2. row \in SuRow /\ row.scope = "deleted" /\ row.hash = None /\ row.cut = FALSE
    BY DEF SuRow, NoRow
  <1>3. \A y \in Payload : y \in gone <=> wtok[y] \in BoundTo(p) \/ y = su[p].hash
    BY DEF TokensOf
  <1>4. \A b \in Binding : b \in BoundTo(p) <=> binding[b] = p
    BY DEF BoundTo
  <1>5. \A b \in BoundTo(p) : b \in Binding
    BY DEF BoundTo
  <1> HIDE DEF row, gone
  <1>6. /\ su' \in [Principal -> SuRow] /\ su'[p].scope = "deleted" /\ su'[p].hash = None /\ su'[p].cut = FALSE
        /\ \A o \in Principal \ {p} : su'[o] = su[o]
    BY <1>1, <1>2, RowFacts
  <1>7. /\ revoked' \in [Payload -> 0..Cap]
        /\ \A y \in Payload : y \notin gone => revoked'[y] = revoked[y]
        /\ \A y \in Payload : y \in gone => revoked'[y] # 0
        /\ \A y \in Payload : revoked'[y] # revoked[y] =>
               revoked[y] = 0 /\ (issued[y].kind = "service-user" => revoked'[y] = 1)
    BY <1>1, RevokeFacts
  <1>8. /\ \A b \in Binding : binding'[b] = IF binding[b] = p THEN None ELSE binding[b]
        /\ binding' \in [Binding -> Principal \cup {None}]
    BY <1>1, <1>4, RowFacts
  <1>9. /\ \A y \in Payload : wtok'[y] = IF wtok[y] \in BoundTo(p) THEN None ELSE wtok[y]
        /\ wtok' \in [Payload -> Binding \cup {None}]
    BY <1>1, RowFacts
  <1>10. \A y \in Payload : wtok'[y] # None => wtok'[y] = wtok[y] /\ binding'[wtok[y]] = binding[wtok[y]]
    BY <1>4, <1>8, <1>9, RowFacts
  <1>11. Types'
    BY <1>1, <1>6, <1>7, <1>8, <1>9, RowFacts, ManagementTypes
  <1>12. RowsInv'
    <2>1. \A o \in Principal \ {p} : su[o].hash # None => su[o].hash \notin gone
      BY <1>3, <1>5, RowFacts, None \notin Binding
    <2>2. \A y \in sessions : y \notin gone
      BY <1>3, <1>5, RowFacts, None \notin Binding, None \notin Payload
    <2>3. \A y \in Payload : wtok'[y] # None => y \notin gone
      BY <1>3, <1>9, RowFacts, None \notin Payload
    <2> QED
      BY <1>6, <1>7, <1>10, <2>1, <2>2, <2>3, RowFacts DEF IInv, RowsInv
  <1>13. GoneInv'
    <2>1. \A o \in Principal, y \in Payload : su[o].hash = y => su'[o].hash = y \/ revoked'[y] # 0
      BY <1>3, <1>6, <1>7
    <2>2. \A y \in Payload : wtok[y] # None => wtok'[y] # None \/ revoked'[y] # 0
      BY <1>3, <1>7, <1>9
    <2>3. \A y \in Payload : issued[y].who = None => y \notin gone
      BY <1>3, <1>5, RowFacts, None \notin Binding, None \notin Principal, None \notin Payload
    <2>4. \A y \in Payload : revoked'[y] = 0 => revoked[y] = 0
      BY <1>7, RowFacts
    <2> QED
      BY <1>7, <2>1, <2>2, <2>3, <2>4 DEF IInv, GoneInv
  <1>14. ScopeInv'
    BY <1>1, <1>6, <1>8, <1>10, RowFacts DEF IInv, ScopeInv, WorkloadHoldsNothing, Management, config
  <1>15. CacheInv' /\ StoreInv' /\ AnswerInv'
    BY <1>7, RowFacts, KeepsCaches DEF Management
  <1> QED
    BY <1>11, <1>12, <1>13, <1>14, <1>15 DEF IInv

\* ReplaceServiceUserRoles.
LEMMA ReplaceRolesIInv ==
  ASSUME IInv, NEW p \in Principal, NEW some \in BOOLEAN, ReplaceServiceUserRoles(p, some)
  PROVE  IInv'
  <1>1. /\ su[p].scope = "organization" /\ roles' \subseteq Principal /\ roles' \ {p} = roles \ {p}
        /\ Management /\ UNCHANGED <<su, binding, wtok, sessions, used, issued, expired, revoked>>
    BY RowFacts DEF ReplaceServiceUserRoles, SetRoles
  <1>2. Types'
    BY <1>1, RowFacts, ManagementTypes
  <1>3. RowsInv' /\ GoneInv'
    BY <1>1 DEF IInv, RowsInv, GoneInv
  <1>4. ScopeInv'
    BY <1>1, RowFacts DEF IInv, ScopeInv, WorkloadHoldsNothing, Management, config
  <1>5. CacheInv' /\ StoreInv' /\ AnswerInv'
    BY <1>1, RowFacts, KeepsCaches DEF Management
  <1> QED
    BY <1>2, <1>3, <1>4, <1>5 DEF IInv

\* BulkExpireAllServiceUserTokens.
LEMMA BulkExpireIInv ==
  ASSUME IInv, BulkExpire
  PROVE  IInv'
  <1> DEFINE org  == {p \in Principal : su[p].scope = "organization"}
             gone == {su[p].hash : p \in org}
  <1>1. /\ su' = [p \in Principal |-> IF p \in org THEN [su[p] EXCEPT !.cut = TRUE] ELSE su[p]]
        /\ Revoke(gone)
        /\ Management /\ UNCHANGED <<roles, binding, wtok, sessions, used, issued, expired>>
    BY DEF BulkExpire
  <1>2. \A p \in Principal : /\ p \in org => su[p].hash \in gone
                             /\ p \in org <=> su[p].scope = "organization"
    OBVIOUS
  <1>3. \A y \in gone : \E p \in org : p \in Principal /\ su[p].hash = y
    OBVIOUS
  <1> HIDE DEF org, gone
  <1>4. \A p \in Principal : su[p] \in SuRow
    BY RowFacts
  <1>5. \A p \in Principal : /\ su'[p] \in SuRow /\ su'[p].hash = su[p].hash /\ su'[p].scope = su[p].scope
                             /\ p \in org => su'[p].cut
                             /\ p \notin org => su'[p] = su[p]
    BY <1>1, <1>4 DEF SuRow
  <1>6. su' \in [Principal -> SuRow]
    <2>1. su' = [p \in Principal |-> su'[p]]
      BY <1>1
    <2> QED
      BY <1>5, <2>1
  <1>7. /\ revoked' \in [Payload -> 0..Cap]
        /\ \A y \in Payload : y \notin gone => revoked'[y] = revoked[y]
        /\ \A y \in Payload : revoked'[y] # revoked[y] =>
               revoked[y] = 0 /\ (issued[y].kind = "service-user" => revoked'[y] = 1)
    BY <1>1, RevokeFacts
  <1>8. Types'
    BY <1>1, <1>6, <1>7, RowFacts, ManagementTypes
  <1>9. RowsInv'
    <2>1. \A p \in Principal \ org : su[p].hash # None => su[p].hash \notin gone
      BY <1>3, RowFacts
    <2>2. \A y \in Payload : y \in sessions \/ wtok[y] # None => y \notin gone
      BY <1>3, RowFacts, None \notin Payload
    <2> QED
      BY <1>1, <1>5, <1>7, <2>1, <2>2, RowFacts DEF IInv, RowsInv
  <1>10. GoneInv'
    <2>1. \A y \in Payload : issued[y].who = None => y \notin gone
      BY <1>3, RowFacts, None \notin Payload
    <2>2. \A y \in Payload : revoked'[y] = 0 => revoked[y] = 0
      BY <1>7, RowFacts
    <2> QED
      BY <1>1, <1>5, <1>7, <2>1, <2>2 DEF IInv, GoneInv
  <1>11. ScopeInv'
    BY <1>1, <1>2, <1>5, RowFacts DEF IInv, ScopeInv, WorkloadHoldsNothing, Management, config
  <1>12. CacheInv' /\ StoreInv' /\ AnswerInv'
    BY <1>1, <1>7, RowFacts, KeepsCaches DEF Management
  <1> QED
    BY <1>8, <1>9, <1>10, <1>11, <1>12 DEF IInv

\* CreatePluginWorkloadBinding.
LEMMA CreateBindingIInv ==
  ASSUME IInv, NEW p \in Principal, NEW b \in Binding, CreatePluginWorkloadBinding(p, b)
  PROVE  IInv'
  <1>1. /\ b \notin used /\ binding' = [binding EXCEPT ![b] = p] /\ used' = used \cup {b}
        /\ Management /\ UNCHANGED <<roles, wtok, sessions, issued, expired, revoked>>
    BY DEF CreatePluginWorkloadBinding
  <1>2. /\ su' \in [Principal -> SuRow] /\ \A o \in Principal \ {p} : su'[o] = su[o]
        /\ su'[p].scope = "platform" /\ su'[p].hash = None /\ su'[p].hash = su[p].hash /\ su'[p].cut = su[p].cut
        /\ su[p].scope # "organization"
    <2>1. CASE su[p] = NoRow /\ su' = [su EXCEPT ![p].scope = "platform"]
      <3> DEFINE row == [NoRow EXCEPT !.scope = "platform"]
      <3>1. row \in SuRow /\ row.scope = "platform" /\ row.hash = None /\ row.cut = FALSE
        BY DEF NoRow, SuRow
      <3>2. su' = [su EXCEPT ![p] = row]
        BY <2>1
      <3> HIDE DEF row
      <3> QED
        BY SMTT(60), <2>1, <3>1, <3>2, RowFacts, Records
    <2>2. CASE su[p].scope = "platform" /\ su[p].hash = None /\ UNCHANGED su
      BY <2>2, RowFacts
    <2> QED
      BY <2>1, <2>2 DEF CreatePluginWorkloadBinding
  <1>3. /\ binding' \in [Binding -> Principal \cup {None}] /\ binding'[b] = p
        /\ \A o \in Binding \ {b} : binding'[o] = binding[o]
        /\ binding[b] = None
    BY <1>1, RowFacts DEF IInv, ScopeInv
  <1>4. Types'
    BY <1>1, <1>2, <1>3, RowFacts, ManagementTypes
  <1>5. RowsInv'
    BY <1>1, <1>2, <1>3, RowFacts DEF IInv, RowsInv
  <1>6. GoneInv'
    BY <1>1, <1>2 DEF IInv, GoneInv
  <1>7. ScopeInv'
    BY SMTT(60), <1>1, <1>2, <1>3, RowFacts DEF IInv, ScopeInv, WorkloadHoldsNothing, Management, config
  <1>8. CacheInv' /\ StoreInv' /\ AnswerInv'
    BY <1>1, RowFacts, KeepsCaches DEF Management
  <1> QED
    BY <1>4, <1>5, <1>6, <1>7, <1>8 DEF IInv

\* DeletePluginWorkloadBinding, with the tokens of the binding.
LEMMA DeleteBindingIInv ==
  ASSUME IInv, NEW b \in Binding, DeletePluginWorkloadBinding(b)
  PROVE  IInv'
  <1>1. /\ binding' = [binding EXCEPT ![b] = None]
        /\ wtok' = [y \in Payload |-> IF wtok[y] = b THEN None ELSE wtok[y]]
        /\ Revoke(TokensOf({b}))
        /\ Management /\ UNCHANGED <<su, roles, sessions, used, issued, expired>>
    BY DEF DeletePluginWorkloadBinding
  <1>2. \A y \in Payload : y \in TokensOf({b}) <=> wtok[y] = b
    BY DEF TokensOf
  <1>3. /\ revoked' \in [Payload -> 0..Cap]
        /\ \A y \in Payload : wtok[y] # b => revoked'[y] = revoked[y]
        /\ \A y \in Payload : wtok[y] = b => revoked'[y] # 0
        /\ \A y \in Payload : revoked'[y] # revoked[y] =>
               revoked[y] = 0 /\ (issued[y].kind = "service-user" => revoked'[y] = 1)
    BY <1>1, <1>2, RevokeFacts
  <1>4. /\ binding' \in [Binding -> Principal \cup {None}] /\ binding'[b] = None
        /\ \A o \in Binding \ {b} : binding'[o] = binding[o]
        /\ wtok' \in [Payload -> Binding \cup {None}]
        /\ \A y \in Payload : wtok'[y] = IF wtok[y] = b THEN None ELSE wtok[y]
    BY <1>1, RowFacts
  <1>5. Types'
    BY <1>1, <1>3, <1>4, RowFacts, ManagementTypes
  <1>6. \A y \in Payload : /\ issued[y].kind = "service-user" => wtok[y] # b
                           /\ issued[y].kind = "session" => wtok[y] # b
                           /\ issued[y].who = None => wtok[y] # b
    BY RowFacts, None \notin Binding, None \notin Principal
  <1>7. RowsInv'
    BY <1>1, <1>3, <1>4, <1>6, RowFacts DEF IInv, RowsInv
  <1>8. GoneInv'
    BY <1>1, <1>3, <1>4, <1>6, RowFacts DEF IInv, GoneInv
  <1>9. ScopeInv'
    BY <1>1, <1>4, RowFacts DEF IInv, ScopeInv, WorkloadHoldsNothing, Management, config
  <1>10. CacheInv' /\ StoreInv' /\ AnswerInv'
    BY <1>1, <1>3, RowFacts, KeepsCaches DEF Management
  <1> QED
    BY <1>5, <1>7, <1>8, <1>9, <1>10 DEF IInv

\* Login, Logout, Expire and Cleanup: sessions come and go, lifetimes end.
LEMMA SessionIInv ==
  ASSUME IInv, \/ \E x \in Payload : Login(x) \/ Logout(x) \/ Expire(x)
               \/ Cleanup
  PROVE  IInv'
  <1>1. ASSUME NEW x \in Payload, Login(x) PROVE IInv'
    <2>1. /\ Issue(x, "session", Human) /\ sessions' = sessions \cup {x}
          /\ Management /\ UNCHANGED <<su, roles, binding, wtok, used, expired, revoked>>
      BY <1>1 DEF Login
    <2>2. /\ issued' \in [Payload -> TokenRow]
          /\ issued'[x] = Token("session", Human) /\ issued'[x].kind = "session" /\ issued'[x].who = Human
          /\ \A y \in Payload \ {x} : issued'[y] = issued[y]
          /\ issued[x].who = None /\ revoked[x] = 0
          /\ (\A o \in Principal : su[o].hash # x) /\ x \notin sessions /\ wtok[x] = None
      BY <2>1, IssueFacts, Records
    <2>3. Types'
      BY <2>1, <2>2, RowFacts, ManagementTypes
    <2>4. RowsInv'
      BY <2>1, <2>2, RowFacts DEF IInv, RowsInv
    <2>5. GoneInv'
      BY <2>1, <2>2, Records DEF IInv, GoneInv
    <2>6. ScopeInv'
      BY <2>1 DEF IInv, ScopeInv, WorkloadHoldsNothing, Management, config
    <2>7. CacheInv' /\ StoreInv' /\ AnswerInv'
      BY <2>1, <2>2, RowFacts, KeepsCaches DEF Management
    <2> QED
      BY <2>3, <2>4, <2>5, <2>6, <2>7 DEF IInv
  <1>2. ASSUME NEW x \in Payload, Logout(x) PROVE IInv'
    <2>1. /\ x \in sessions /\ Revoke({x}) /\ sessions' = sessions \ {x}
          /\ Management /\ UNCHANGED <<su, roles, binding, wtok, used, issued, expired>>
      BY <1>2 DEF Logout
    <2>2. /\ revoked' \in [Payload -> 0..Cap]
          /\ \A y \in Payload \ {x} : revoked'[y] = revoked[y]
          /\ revoked'[x] # 0
          /\ \A y \in Payload : revoked'[y] # revoked[y] =>
               revoked[y] = 0 /\ (issued[y].kind = "service-user" => revoked'[y] = 1)
      BY <2>1, RevokeFacts
    <2>3. Types'
      BY <2>1, <2>2, RowFacts, ManagementTypes
    <2>4. issued[x].kind = "session" /\ issued[x].who # None
      BY <2>1, RowFacts
    <2>5. RowsInv'
      BY <2>1, <2>2, <2>4, RowFacts DEF IInv, RowsInv
    <2>6. GoneInv'
      BY <2>1, <2>2, <2>4 DEF IInv, GoneInv
    <2>7. ScopeInv'
      BY <2>1 DEF IInv, ScopeInv, WorkloadHoldsNothing, Management, config
    <2>8. CacheInv' /\ StoreInv' /\ AnswerInv'
      BY <2>1, <2>2, RowFacts, KeepsCaches DEF Management
    <2> QED
      BY <2>3, <2>5, <2>6, <2>7, <2>8 DEF IInv
  <1>3. ASSUME \/ \E x \in Payload : Expire(x)
               \/ Cleanup
        PROVE  IInv'
    <2>1. /\ Management /\ UNCHANGED <<su, roles, binding, used, issued, revoked>>
          /\ expired \subseteq expired' /\ expired' \subseteq Payload /\ sessions' \subseteq sessions
          /\ wtok' \in [Payload -> Binding \cup {None}]
      BY <1>3, RowFacts DEF Expire, Cleanup
    <2>2. /\ \A y \in sessions : y \in sessions' \/ y \in expired'
          /\ \A y \in Payload : wtok'[y] = wtok[y] \/ (wtok'[y] = None /\ y \in expired')
      BY <1>3, RowFacts DEF Expire, Cleanup
    <2>3. Types'
      BY <2>1, RowFacts, ManagementTypes
    <2>4. RowsInv'
      BY <2>1, <2>2 DEF IInv, RowsInv
    <2>5. GoneInv'
      BY <2>1, <2>2 DEF IInv, GoneInv
    <2>6. ScopeInv'
      BY <2>1, <2>2 DEF IInv, ScopeInv, WorkloadHoldsNothing, Management, config
    <2>7. CacheInv' /\ StoreInv' /\ AnswerInv'
      BY <2>1, RowFacts, KeepsCaches DEF Management
    <2> QED
      BY <2>3, <2>4, <2>5, <2>6, <2>7 DEF IInv
  <1> QED
    BY <1>1, <1>2, <1>3

\* The types from their parts.
LEMMA TypesFrom ==
  ASSUME IInv, su' = su, roles' = roles, binding' = binding, sessions' = sessions, used' = used,
         expired' = expired,
         wtok' \in [Payload -> Binding \cup {None}], issued' \in [Payload -> TokenRow],
         revoked' \in [Payload -> 0..Cap],
         cache' \in [Replica -> [Key -> Entry \cup {None}]], req' \in [Request -> ReqType]
  PROVE  Types'
  <1>1. \A q \in Request : req'[q].pc \in {"idle", "issue", "store", "accepted"} /\ req'[q].age \in 0..MaxLookup
    BY DEF ReqType
  <1>2. \A i \in Replica, k \in Key : cache'[i][k] # None => cache'[i][k].left \in 1..TTL
    BY DEF Entry
  <1> QED
    BY <1>1, <1>2 DEF IInv, Types, TypeOK, TokenRow

\* The exchange of a workload identity: its token is that of the principal that
\* the binding has when the token is inserted.
LEMMA ExchangeIInv ==
  ASSUME IInv, NEW q \in Request,
         \/ \E b \in Binding : Exchange(q, b)
         \/ \E x \in Payload : IssueWorkloadToken(q, x)
         \/ ExchangeRejected(q)
         \/ Return(q)
         \/ ReadBindingFails(q)
  PROVE  IInv'
  <1>1. ASSUME NEW b \in Binding, Exchange(q, b) PROVE IInv'
    <2> DEFINE rec == [Idle EXCEPT !.pc = "issue", !.at = b]
    <2>1. req' = [req EXCEPT ![q] = rec] /\ UNCHANGED <<db, cache, config>>
      BY <1>1 DEF Exchange
    <2>2. rec \in ReqType /\ rec.pc = "issue" /\ rec.at = b
      BY Records DEF ReqType
    <2> HIDE DEF rec
    <2>3. req' \in [Request -> ReqType] /\ req'[q] = rec /\ \A o \in Request \ {q} : req'[o] = req[o]
      BY <2>1, <2>2, RowFacts
    <2>4. Types'
      BY <2>1, <2>3, RowFacts, TypesFrom DEF db
    <2>5. RowsInv' /\ GoneInv' /\ ScopeInv'
      BY <2>1 DEF IInv, RowsInv, GoneInv, ScopeInv, WorkloadHoldsNothing, db, config
    <2>6. CacheInv' /\ StoreInv' /\ AnswerInv'
      BY <2>1, <2>2, <2>3, RowFacts, KeepsCaches DEF db
    <2> QED
      BY <2>4, <2>5, <2>6 DEF IInv
  <1>2. ASSUME NEW x \in Payload, IssueWorkloadToken(q, x) PROVE IInv'
    <2> DEFINE b == req[q].at
    <2>1. /\ req[q].pc = "issue" /\ binding[b] # None /\ Issue(x, "plugin-workload", binding[b])
          /\ wtok' = [wtok EXCEPT ![x] = b] /\ req' = [req EXCEPT ![q] = Idle]
          /\ UNCHANGED <<su, roles, binding, sessions, used, expired, revoked, cache, config>>
      BY <1>2 DEF IssueWorkloadToken
    <2>2. b \in Binding /\ binding[b] \in Principal /\ binding[b] \in Owner
      BY <2>1, RowFacts DEF IInv, AnswerInv, Owner
    <2>3. /\ issued' \in [Payload -> TokenRow]
          /\ issued'[x] = Token("plugin-workload", binding[b])
          /\ issued'[x].kind = "plugin-workload" /\ issued'[x].who = binding[b]
          /\ \A y \in Payload \ {x} : issued'[y] = issued[y]
          /\ issued[x].who = None /\ revoked[x] = 0
          /\ (\A o \in Principal : su[o].hash # x) /\ x \notin sessions /\ wtok[x] = None
      BY <2>1, <2>2, IssueFacts, Records
    <2>4. /\ wtok' \in [Payload -> Binding \cup {None}] /\ wtok'[x] = b
          /\ \A y \in Payload \ {x} : wtok'[y] = wtok[y]
      BY <2>1, <2>2, RowFacts
    <2>5. req' \in [Request -> ReqType] /\ req'[q].pc = "idle" /\ \A o \in Request \ {q} : req'[o] = req[o]
      BY <2>1, RowFacts, Records
    <2>6. Types'
      BY <2>1, <2>3, <2>4, <2>5, RowFacts, TypesFrom
    <2>7. RowsInv'
      BY <2>1, <2>2, <2>3, <2>4, RowFacts DEF IInv, RowsInv
    <2>8. GoneInv'
      BY <2>1, <2>2, <2>3, <2>4, Records DEF IInv, GoneInv
    <2>9. ScopeInv'
      BY <2>1, <2>2, <2>4 DEF IInv, ScopeInv, WorkloadHoldsNothing, config
    <2>10. CacheInv' /\ StoreInv' /\ AnswerInv'
      BY <2>1, <2>3, <2>5, RowFacts, KeepsCaches
    <2> QED
      BY <2>6, <2>7, <2>8, <2>9, <2>10 DEF IInv
  <1>3. ASSUME ExchangeRejected(q) \/ Return(q) \/ ReadBindingFails(q) PROVE IInv'
    <2>1. req' = [req EXCEPT ![q] = Idle] /\ UNCHANGED <<db, cache, config>>
      BY <1>3 DEF ExchangeRejected, Return, ReadBindingFails
    <2>2. req' \in [Request -> ReqType] /\ req'[q].pc = "idle" /\ \A o \in Request \ {q} : req'[o] = req[o]
      BY <2>1, RowFacts, Records
    <2>3. Types'
      BY <2>1, <2>2, RowFacts, TypesFrom DEF db
    <2>4. RowsInv' /\ GoneInv' /\ ScopeInv'
      BY <2>1 DEF IInv, RowsInv, GoneInv, ScopeInv, WorkloadHoldsNothing, db, config
    <2>5. CacheInv' /\ StoreInv' /\ AnswerInv'
      BY <2>1, <2>2, RowFacts, KeepsCaches DEF db
    <2> QED
      BY <2>3, <2>4, <2>5 DEF IInv
  <1> QED
    BY <1>1, <1>2, <1>3

\* What the tables say of a payload: a row is for what the payload was issued
\* for and is not revoked, and without a row the payload is gone for good.
LEMMA RowSound ==
  ASSUME IInv, NEW k \in Kind, NEW x \in Payload
  PROVE  /\ Row(k, x) \in Result
         /\ Row(k, x).who # None => /\ issued[x] = Token(k, Row(k, x).who)
                                    /\ Row(k, x).cut \/ revoked[x] = 0
                                    /\ k # "service-user" => revoked[x] = 0
         /\ Row(k, x).who = None => Final(k, x)
  <1>1. CASE k = "service-user"
    <2> DEFINE owner == {p \in Principal : su[p].hash = x}
               p == CHOOSE p \in owner : TRUE
               rec == [who |-> p, cut |-> su[p].cut, bound |-> None, roles |-> p \in roles]
    <2>1. Row(k, x) = IF owner = {} THEN Negative ELSE rec
      BY <1>1 DEF Row, StaticRow
    <2>2. CASE owner = {}
      <3>1. \A o \in Principal : su[o].hash # x
        BY <2>2
      <3> QED
        BY <1>1, <2>1, <2>2, <3>1, Records DEF Final, IInv, GoneInv
    <2>3. CASE owner # {}
      <3>1. p \in Principal /\ su[p].hash = x /\ p \in Owner
        BY <2>3 DEF Owner
      <3>2. su[p].cut \in BOOLEAN
        BY <3>1, RowFacts DEF SuRow
      <3> HIDE DEF p
      <3>3. rec \in Result /\ rec.who = p /\ rec.cut = su[p].cut
        BY <3>1, <3>2 DEF Result
      <3> HIDE DEF rec
      <3> QED
        BY <1>1, <2>1, <2>3, <3>1, <3>3, None \notin Principal, None \notin Payload DEF IInv, RowsInv
    <2> QED
      BY <2>2, <2>3
  <1>2. CASE k = "plugin-workload"
    <2> DEFINE holder == {p \in Principal : x \in TokensOf(BoundTo(p)) /\ Active(p) /\ p \notin roles}
               p == CHOOSE p \in holder : TRUE
               rec == [Negative EXCEPT !.who = p]
    <2>1. Row(k, x) = IF x \in expired \/ holder = {} THEN Negative ELSE rec
      BY <1>2 DEF Row, WorkloadRow
    <2>2. CASE x \in expired
      BY <2>1, <2>2, Records DEF Final
    <2>3. CASE x \notin expired /\ holder = {}
      <3> SUFFICES ASSUME issued[x].kind = "plugin-workload", issued[x].who \notin legacy, revoked[x] = 0
                   PROVE  FALSE
        BY <1>2, <2>1, <2>3, Records DEF Final
      <3>1. wtok[x] # None
        BY <2>3 DEF IInv, GoneInv
      <3> DEFINE b == wtok[x]
                 w == binding[b]
      <3>2. b \in Binding /\ w \in Principal /\ w \notin legacy /\ w # None
        BY <3>1, RowFacts
      <3>3. su[w].scope = "platform" /\ su[w].hash = None /\ w \notin roles /\ ~su[w].cut
        BY <3>2 DEF IInv, ScopeInv, WorkloadHoldsNothing
      <3>4. Active(w)
        BY <3>3, RowFacts, None \notin Payload DEF Active, Ended
      <3>5. x \in TokensOf(BoundTo(w))
        BY <3>2 DEF TokensOf, BoundTo
      <3> QED
        BY <2>3, <3>2, <3>3, <3>4, <3>5
    <2>4. CASE x \notin expired /\ holder # {}
      <3>1. p \in Principal /\ x \in TokensOf(BoundTo(p)) /\ p \in Owner
        BY <2>4 DEF Owner
      <3>2. wtok[x] # None /\ binding[wtok[x]] = p
        BY <3>1, None \notin Binding DEF TokensOf, BoundTo
      <3> HIDE DEF p
      <3>3. rec \in Result /\ rec.who = p
        BY <3>1 DEF Result, Negative
      <3> HIDE DEF rec
      <3> QED
        BY <1>2, <2>1, <2>4, <3>1, <3>2, <3>3, None \notin Principal DEF IInv, RowsInv
    <2> QED
      BY <2>2, <2>3, <2>4
  <1>3. CASE k = "session"
    <2> DEFINE rec == [Negative EXCEPT !.who = Human]
    <2>1. Row(k, x) = IF x \in sessions THEN rec ELSE Negative
      BY <1>3 DEF Row, SessionRow
    <2>2. rec \in Result /\ rec.who = Human
      BY DEF Result, Negative, Owner
    <2> HIDE DEF rec
    <2> QED
      BY <1>3, <2>1, <2>2, Records DEF IInv, RowsInv, GoneInv, Final
  <1> QED
    BY <1>1, <1>2, <1>3 DEF Kind

\* A request is answered from what the cache or the tables said.
LEMMA AnswerFacts ==
  ASSUME IInv, NEW q \in Request, NEW i \in Replica, NEW kind \in Kind, NEW x \in Payload, NEW t, NEW dead \in BOOLEAN,
         Answer(q, i, kind, x, t, dead), issued' = issued,
         t.who # None => t.who \in Owner /\ issued[x] = Token(kind, t.who) /\ (kind # "service-user" => ~dead)
  PROVE  /\ req' \in [Request -> ReqType] /\ \A o \in Request \ {q} : req'[o] = req[o]
         /\ req'[q].pc \in {"idle", "accepted"}
         /\ req'[q].pc = "accepted" => Accepts(kind, x, t) /\ req'[q].x = x /\ req'[q].kind = kind
         /\ AnswerInv'
  <1> DEFINE rec == [pc |-> "accepted", at |-> i, kind |-> kind, x |-> x, res |-> t.who, dead |-> dead, age |-> 0]
             new == IF Accepts(kind, x, t) THEN rec ELSE Idle
  <1>1. req' = [req EXCEPT ![q] = new]
    BY DEF Answer
  <1>2. CASE Accepts(kind, x, t)
    <2>1. t.who # None
      BY <1>2 DEF Accepts
    <2>2. /\ rec \in ReqType /\ rec.pc = "accepted" /\ rec.kind = kind /\ rec.x = x /\ rec.res = t.who /\ rec.dead = dead
      BY <2>1 DEF ReqType
    <2> HIDE DEF rec
    <2>3. req' \in [Request -> ReqType] /\ req'[q] = rec /\ \A o \in Request \ {q} : req'[o] = req[o]
      BY <1>1, <1>2, <2>2, RowFacts
    <2>4. AnswerInv'
      BY <2>1, <2>2, <2>3 DEF IInv, AnswerInv
    <2> QED
      BY <1>2, <2>2, <2>3, <2>4
  <1>3. CASE ~Accepts(kind, x, t)
    <2>1. req' \in [Request -> ReqType] /\ req'[q].pc = "idle" /\ \A o \in Request \ {q} : req'[o] = req[o]
      BY <1>1, <1>3, RowFacts, Records
    <2>2. AnswerInv'
      BY <2>1 DEF IInv, AnswerInv
    <2> QED
      BY <2>1, <2>2
  <1> QED
    BY <1>2, <1>3

\* A hit: the request is answered from the cache, which may extend a negative
\* entry.
LEMMA CacheHitIInv ==
  ASSUME IInv, NEW q \in Request, NEW i \in Replica, NEW k \in Kind, NEW x \in Payload, CacheHit(q, i, k, x)
  PROVE  IInv'
  <1> DEFINE e == cache[i][<<k, x>>]
             new == [e EXCEPT !.left = TTL]
  <1>1. /\ e # None /\ (k = "service-user" \/ e.who = None)
        /\ Answer(q, i, k, x, e, revoked[x] # 0)
        /\ cache' = IF e.who = None THEN [cache EXCEPT ![i] = [cache[i] EXCEPT ![<<k, x>>] = new]] ELSE cache
        /\ UNCHANGED <<db, config>>
    BY DEF CacheHit, Hit, KeyOf, PositivelyCached
  <1>2. <<k, x>> \in Key
    BY DEF Key
  <1>3. e \in Entry /\ (e.who # None => e.who \in Owner)
    BY <1>1, <1>2, RowFacts DEF Entry
  <1>4. new \in Entry /\ new.who = e.who
    BY <1>3 DEF Entry
  <1>5. e.who # None => issued[x] = Token(k, e.who)
    BY <1>1 DEF IInv, CacheInv
  <1>6. issued' = issued /\ UNCHANGED <<su, roles, binding, wtok, sessions, used, expired, revoked>>
    BY <1>1 DEF db
  <1>7. /\ req' \in [Request -> ReqType] /\ \A o \in Request \ {q} : req'[o] = req[o]
        /\ req'[q].pc \in {"idle", "accepted"} /\ AnswerInv'
    <2> HIDE DEF e
    <2>1. (revoked[x] # 0) \in BOOLEAN
      OBVIOUS
    <2> QED
      BY <1>1, <1>3, <1>5, <1>6, <2>1, AnswerFacts
  <1>8. /\ cache' \in [Replica -> [Key -> Entry \cup {None}]]
        /\ \A j \in Replica, c \in Key :
              \/ cache'[j][c] = cache[j][c]
              \/ c = <<k, x>> /\ j = i /\ e.who = None /\ cache'[j][c].who = None
    <2> HIDE DEF new
    <2> QED
      BY <1>1, <1>2, <1>4, RowFacts
  <1>9. Types'
    BY <1>6, <1>7, <1>8, RowFacts, TypesFrom
  <1>10. RowsInv' /\ GoneInv' /\ ScopeInv'
    BY <1>1, <1>6 DEF IInv, RowsInv, GoneInv, ScopeInv, WorkloadHoldsNothing, config
  <1>11. CacheInv'
    <2> SUFFICES ASSUME NEW j \in Replica, NEW kk \in Kind, NEW y \in Payload, cache'[j][<<kk, y>>] # None
                 PROVE  /\ issued[y].who # None
                        /\ cache'[j][<<kk, y>>].who # None => issued[y] = Token(kk, cache'[j][<<kk, y>>].who)
                        /\ kk = "service-user" /\ cache'[j][<<kk, y>>].who # None /\ ~cache'[j][<<kk, y>>].cut =>
                              revoked[y] + cache'[j][<<kk, y>>].left <= Cap
                        /\ cache'[j][<<kk, y>>].who = None => Final(kk, y)
      BY <1>1, <1>6 DEF CacheInv, Final, config
    <2>1. <<kk, y>> \in Key
      BY DEF Key
    <2>2. CASE cache'[j][<<kk, y>>] = cache[j][<<kk, y>>]
      BY <2>2 DEF IInv, CacheInv
    <2>3. CASE kk = k /\ y = x /\ j = i /\ e.who = None /\ cache'[j][<<kk, y>>].who = None
      BY <1>1, <2>3 DEF IInv, CacheInv
    <2> QED
      BY <1>8, <2>1, <2>2, <2>3
  <1>12. StoreInv'
    BY <1>1, <1>6, <1>7 DEF IInv, StoreInv, Final, config
  <1> QED
    BY <1>7, <1>9, <1>10, <1>11, <1>12 DEF IInv

\* A miss: the tables are queried.
LEMMA LookupIInv ==
  ASSUME IInv, NEW q \in Request, NEW i \in Replica, NEW k \in Kind, NEW x \in Payload, Lookup(q, i, k, x)
  PROVE  IInv'
  <1> DEFINE res == Row(k, x)
             rec == [pc |-> "store", at |-> i, kind |-> k, x |-> x, res |-> res, dead |-> revoked[x] # 0, age |-> 0]
  <1>1. /\ req' = [req EXCEPT ![q] = rec] /\ UNCHANGED <<db, cache, config>>
        /\ <<issued[x].kind, k>> \in Presented
    BY DEF Lookup, Presents
  <1>2. issued[x].who # None
    <2>1. issued[x].kind \in Kind
      BY <1>1
    <2> QED
      BY <2>1, Records DEF IInv, GoneInv
  <1>3. /\ res \in Result
        /\ res.who # None => /\ issued[x] = Token(k, res.who)
                             /\ res.cut \/ revoked[x] = 0
                             /\ k # "service-user" => revoked[x] = 0
        /\ res.who = None => Final(k, x)
    BY RowSound
  <1> HIDE DEF res
  <1>4. /\ rec \in ReqType /\ rec.pc = "store" /\ rec.at = i /\ rec.kind = k /\ rec.x = x /\ rec.res = res
        /\ rec.dead = (revoked[x] # 0) /\ rec.age = 0
    BY <1>3 DEF ReqType
  <1> HIDE DEF rec
  <1>5. req' \in [Request -> ReqType] /\ req'[q] = rec /\ \A o \in Request \ {q} : req'[o] = req[o]
    BY <1>1, <1>4, RowFacts
  <1>6. Types'
    BY <1>1, <1>5, RowFacts, TypesFrom DEF db
  <1>7. RowsInv' /\ GoneInv' /\ ScopeInv' /\ CacheInv'
    BY <1>1 DEF IInv, RowsInv, GoneInv, ScopeInv, WorkloadHoldsNothing, CacheInv, Final, db, config
  <1>8. StoreInv'
    <2> SUFFICES ASSUME NEW o \in Request, req'[o].pc = "store"
                 PROVE  /\ req'[o].at \in Replica /\ req'[o].kind \in Kind /\ req'[o].x \in Payload /\ req'[o].res \in Result
                        /\ issued[req'[o].x].who # None
                        /\ req'[o].res.who # None => issued[req'[o].x] = Token(req'[o].kind, req'[o].res.who)
                        /\ req'[o].kind = "service-user" /\ req'[o].res.who # None /\ ~req'[o].res.cut =>
                              revoked[req'[o].x] <= req'[o].age + 1
                        /\ req'[o].kind # "service-user" /\ req'[o].res.who # None => ~req'[o].dead
                        /\ req'[o].res.who = None =>
                              (issued[req'[o].x].kind = req'[o].kind /\ issued[req'[o].x].who \notin legacy =>
                                  req'[o].x \in expired \/ revoked[req'[o].x] # 0)
      BY <1>1 DEF StoreInv, Final, db, config
    <2>1. CASE o = q
      <3>1. /\ req'[o].at = i /\ req'[o].kind = k /\ req'[o].x = x /\ req'[o].res = res /\ req'[o].age = 0
            /\ req'[o].dead = rec.dead
        BY <1>4, <1>5, <2>1
      <3>2. k # "service-user" /\ res.who # None => ~rec.dead
        BY <1>3, <1>4
      <3>3. res.who # None /\ ~res.cut => revoked[x] <= 0 + 1
        BY <1>3
      <3> QED
        BY <1>2, <1>3, <3>1, <3>2, <3>3 DEF Final
    <2>2. CASE o # q
      BY <1>5, <2>2 DEF IInv, StoreInv, Final
    <2> QED
      BY <2>1, <2>2
  <1>9. AnswerInv'
    BY <1>1, <1>4, <1>5 DEF IInv, AnswerInv, db
  <1> QED
    BY <1>6, <1>7, <1>8, <1>9 DEF IInv

\* The second query adds the binding to what the first one has read.
LEMMA ReadBindingIInv ==
  ASSUME IInv, NEW q \in Request, ReadBinding(q)
  PROVE  IInv'
  <1> DEFINE r     == req[q]
             bound == BoundTo(r.res.who) # {}
             res   == [r.res EXCEPT !.bound = bound, !.roles = bound /\ r.res.roles]
             rec   == [r EXCEPT !.res = res]
  <1>1. /\ r.pc = "store" /\ req' = [req EXCEPT ![q] = rec]
        /\ UNCHANGED <<db, cache, config>>
    BY DEF ReadBinding
  <1>2. r.res \in Result /\ r \in ReqType
    BY <1>1, RowFacts DEF IInv, StoreInv
  <1>3. bound \in BOOLEAN /\ (bound /\ r.res.roles) \in BOOLEAN
    OBVIOUS
  <1> HIDE DEF bound
  <1>4. res \in Result /\ res.who = r.res.who /\ res.cut = r.res.cut
    BY <1>2, <1>3 DEF Result
  <1> HIDE DEF res
  <1>5. /\ rec \in ReqType /\ rec.pc = "store" /\ rec.at = r.at /\ rec.kind = r.kind /\ rec.x = r.x /\ rec.res = res
        /\ rec.dead = r.dead /\ rec.age = r.age
    BY <1>1, <1>2, <1>4 DEF ReqType
  <1> HIDE DEF rec
  <1>6. req' \in [Request -> ReqType] /\ req'[q] = rec /\ \A o \in Request \ {q} : req'[o] = req[o]
    BY <1>1, <1>5, RowFacts
  <1>7. Types'
    BY <1>1, <1>6, RowFacts, TypesFrom DEF db
  <1>8. RowsInv' /\ GoneInv' /\ ScopeInv' /\ CacheInv'
    BY <1>1 DEF IInv, RowsInv, GoneInv, ScopeInv, WorkloadHoldsNothing, CacheInv, Final, db, config
  <1>9. StoreInv'
    <2> SUFFICES ASSUME NEW o \in Request, req'[o].pc = "store"
                 PROVE  /\ req'[o].at \in Replica /\ req'[o].kind \in Kind /\ req'[o].x \in Payload /\ req'[o].res \in Result
                        /\ issued[req'[o].x].who # None
                        /\ req'[o].res.who # None => issued[req'[o].x] = Token(req'[o].kind, req'[o].res.who)
                        /\ req'[o].kind = "service-user" /\ req'[o].res.who # None /\ ~req'[o].res.cut =>
                              revoked[req'[o].x] <= req'[o].age + 1
                        /\ req'[o].kind # "service-user" /\ req'[o].res.who # None => ~req'[o].dead
                        /\ req'[o].res.who = None =>
                              (issued[req'[o].x].kind = req'[o].kind /\ issued[req'[o].x].who \notin legacy =>
                                  req'[o].x \in expired \/ revoked[req'[o].x] # 0)
      BY <1>1 DEF StoreInv, Final, db, config
    <2>1. /\ req[o].pc = "store" /\ req'[o].at = req[o].at /\ req'[o].kind = req[o].kind /\ req'[o].x = req[o].x
          /\ req'[o].res \in Result /\ req'[o].res.who = req[o].res.who /\ req'[o].res.cut = req[o].res.cut
          /\ req'[o].dead = req[o].dead /\ req'[o].age = req[o].age
      <3>1. CASE o = q
        BY <1>1, <1>4, <1>5, <1>6, <3>1
      <3>2. CASE o # q
        BY <1>6, <3>2 DEF IInv, StoreInv
      <3> QED
        BY <3>1, <3>2
    <2> QED
      BY <2>1 DEF IInv, StoreInv, Final
  <1>10. AnswerInv'
    BY <1>1, <1>5, <1>6 DEF IInv, AnswerInv, db
  <1> QED
    BY <1>7, <1>8, <1>9, <1>10 DEF IInv

\* The lookup is stored and the request answered.
LEMMA StoreIInv ==
  ASSUME IInv, NEW q \in Request, Store(q)
  PROVE  IInv'
  <1> DEFINE r     == req[q]
             entry == [who |-> r.res.who, cut |-> r.res.cut, bound |-> r.res.bound, roles |-> r.res.roles, left |-> TTL]
             none  == [entry EXCEPT !.who = None]
             c     == <<r.kind, r.x>>
  <1>1. /\ r.pc = "store" /\ r.res.bound # None
        /\ cache' = IF r.kind = "service-user" THEN [cache EXCEPT ![r.at] = [cache[r.at] EXCEPT ![c] = entry]]
                    ELSE IF r.res.who = None \/ r.x \in expired THEN [cache EXCEPT ![r.at] = [cache[r.at] EXCEPT ![c] = none]]
                    ELSE cache
        /\ Answer(q, r.at, r.kind, r.x, r.res, r.dead)
        /\ UNCHANGED <<db, config>>
    BY DEF Store, KeyOf, PositivelyCached
  <1>2. /\ r.at \in Replica /\ r.kind \in Kind /\ r.x \in Payload /\ r.res \in Result
        /\ issued[r.x].who # None
        /\ r.res.who # None => issued[r.x] = Token(r.kind, r.res.who)
        /\ r.kind # "service-user" /\ r.res.who # None => ~r.dead
        /\ r.res.who = None => Final(r.kind, r.x)
    BY <1>1 DEF IInv, StoreInv
  <1>3. r.kind = "service-user" /\ r.res.who # None /\ ~r.res.cut => revoked[r.x] <= r.age + 1
    BY <1>1 DEF IInv, StoreInv
  <1>4. c \in Key /\ r \in ReqType
    BY <1>2, RowFacts DEF Key
  <1>5. /\ r.res.who \in Owner \cup {None} /\ r.dead \in BOOLEAN /\ r.age \in 0..MaxLookup
        /\ r.res.cut \in BOOLEAN /\ r.res.bound \in BOOLEAN /\ r.res.roles \in BOOLEAN
    BY <1>1, <1>2, <1>4 DEF Result, ReqType
  <1>6. UNCHANGED <<su, roles, binding, wtok, sessions, used, issued, expired, revoked>>
    BY <1>1 DEF db
  <1> HIDE DEF r
  <1>7. entry \in Entry /\ entry.who = r.res.who /\ entry.cut = r.res.cut /\ entry.left = TTL
    BY <1>5, Records DEF Entry
  <1>8. none \in Entry /\ none.who = None
    BY <1>7 DEF Entry
  <1> HIDE DEF entry, none
  <1>9. /\ req' \in [Request -> ReqType] /\ \A o \in Request \ {q} : req'[o] = req[o]
        /\ req'[q].pc \in {"idle", "accepted"} /\ AnswerInv'
    BY <1>1, <1>2, <1>5, <1>6, AnswerFacts
  <1>10. /\ cache' \in [Replica -> [Key -> Entry \cup {None}]]
         /\ \A j \in Replica, d \in Key :
               \/ cache'[j][d] = cache[j][d]
               \/ d = c /\ r.kind = "service-user" /\ cache'[j][d] = entry
               \/ d = c /\ (r.res.who = None \/ r.x \in expired) /\ cache'[j][d] = none
    <2> HIDE DEF c
    <2> QED
      BY <1>1, <1>2, <1>4, <1>7, <1>8, RowFacts
  <1>11. Types'
    BY <1>6, <1>9, <1>10, RowFacts, TypesFrom
  <1>12. RowsInv' /\ GoneInv' /\ ScopeInv'
    BY <1>1, <1>6 DEF IInv, RowsInv, GoneInv, ScopeInv, WorkloadHoldsNothing, config
  <1>13. CacheInv'
    <2> SUFFICES ASSUME NEW j \in Replica, NEW k \in Kind, NEW y \in Payload, cache'[j][<<k, y>>] # None
                 PROVE  /\ issued[y].who # None
                        /\ cache'[j][<<k, y>>].who # None => issued[y] = Token(k, cache'[j][<<k, y>>].who)
                        /\ k = "service-user" /\ cache'[j][<<k, y>>].who # None /\ ~cache'[j][<<k, y>>].cut =>
                              revoked[y] + cache'[j][<<k, y>>].left <= Cap
                        /\ cache'[j][<<k, y>>].who = None => Final(k, y)
      BY <1>1, <1>6 DEF CacheInv, Final, config
    <2>1. <<k, y>> \in Key
      BY DEF Key
    <2>2. CASE cache'[j][<<k, y>>] = cache[j][<<k, y>>]
      BY <2>2 DEF IInv, CacheInv
    <2>3. CASE k = r.kind /\ y = r.x /\ r.kind = "service-user" /\ cache'[j][<<k, y>>] = entry
      <3>1. r.res.who # None /\ ~r.res.cut => revoked[y] + TTL <= Cap
        <4>1. revoked[y] \in Nat
          BY RowFacts, Records
        <4> QED
          BY <1>3, <1>5, <2>3, <4>1, Records
      <3> QED
        BY <1>2, <1>7, <2>3, <3>1
    <2>4. CASE k = r.kind /\ y = r.x /\ (r.res.who = None \/ r.x \in expired) /\ cache'[j][<<k, y>>] = none
      BY <1>2, <1>8, <2>4 DEF Final
    <2>5. <<k, y>> = c => k = r.kind /\ y = r.x
      OBVIOUS
    <2> QED
      BY SMTT(60), <1>10, <2>1, <2>2, <2>3, <2>4, <2>5
  <1>14. StoreInv'
    BY <1>1, <1>6, <1>9 DEF IInv, StoreInv, Final, config
  <1> QED
    BY <1>9, <1>11, <1>12, <1>13, <1>14 DEF IInv

\* Time passes: revocations and lookups get older, entries run out.
LEMMA TickIInv ==
  ASSUME IInv, Tick
  PROVE  IInv'
  <1>1. /\ \A q \in Request : req[q].pc = "store" => req[q].age < MaxLookup
        /\ revoked' = [x \in Payload |-> IF revoked[x] \in 1..(Cap - 1) THEN revoked[x] + 1 ELSE revoked[x]]
        /\ cache' = [i \in Replica |-> [k \in Key |->
                       IF cache[i][k] = None \/ cache[i][k].left = 1 THEN None
                       ELSE [cache[i][k] EXCEPT !.left = @ - 1]]]
        /\ req' = [q \in Request |-> IF req[q].pc = "store" THEN [req[q] EXCEPT !.age = @ + 1] ELSE req[q]]
        /\ UNCHANGED <<su, roles, binding, wtok, sessions, used, issued, expired, config>>
    BY DEF Tick
  <1>2. /\ revoked' \in [Payload -> 0..Cap]
        /\ \A x \in Payload : /\ revoked[x] \in Nat /\ revoked'[x] \in Nat
                              /\ revoked'[x] <= revoked[x] + 1
                              /\ revoked'[x] = 0 <=> revoked[x] = 0
    BY <1>1, RowFacts, Records
  <1>3. \A i \in Replica, k \in Key : cache'[i][k] # None =>
          /\ cache[i][k] # None /\ cache'[i][k] \in Entry
          /\ cache'[i][k].who = cache[i][k].who /\ cache'[i][k].cut = cache[i][k].cut
          /\ cache[i][k].left \in Nat /\ cache'[i][k].left = cache[i][k].left - 1
    <2> SUFFICES ASSUME NEW i \in Replica, NEW k \in Key, cache'[i][k] # None
                 PROVE  /\ cache[i][k] # None /\ cache'[i][k] \in Entry
                        /\ cache'[i][k].who = cache[i][k].who /\ cache'[i][k].cut = cache[i][k].cut
                        /\ cache[i][k].left \in Nat /\ cache'[i][k].left = cache[i][k].left - 1
      OBVIOUS
    <2> DEFINE e == cache[i][k]
               new == [e EXCEPT !.left = e.left - 1]
    <2>1. cache'[i][k] = IF e = None \/ e.left = 1 THEN None ELSE new
      BY <1>1
    <2>2. e # None /\ e.left # 1 /\ cache'[i][k] = new
      BY <2>1
    <2>3. e \in Entry /\ e.left \in Nat /\ e.left \in 1..TTL /\ e.left - 1 \in 1..TTL
      BY <2>2, RowFacts, Records DEF Entry
    <2>4. new \in Entry /\ new.who = e.who /\ new.cut = e.cut /\ new.left = e.left - 1
      BY <2>3 DEF Entry
    <2> QED
      BY <2>2, <2>3, <2>4
  <1>4. cache' \in [Replica -> [Key -> Entry \cup {None}]]
    <2>1. cache' = [i \in Replica |-> cache'[i]] /\ \A i \in Replica : cache'[i] = [k \in Key |-> cache'[i][k]]
      BY <1>1
    <2>2. \A i \in Replica, k \in Key : cache'[i][k] \in Entry \cup {None}
      BY <1>3
    <2>3. \A i \in Replica : cache'[i] \in [Key -> Entry \cup {None}]
      BY <2>1, <2>2
    <2> QED
      BY <2>1, <2>3
  <1>5. \A q \in Request :
          /\ req'[q] \in ReqType
          /\ req[q].pc # "store" => req'[q] = req[q]
          /\ req[q].pc = "store" => /\ req'[q].pc = "store" /\ req'[q].at = req[q].at /\ req'[q].kind = req[q].kind
                                    /\ req'[q].x = req[q].x /\ req'[q].res = req[q].res /\ req'[q].dead = req[q].dead
                                    /\ req[q].age \in Nat /\ req'[q].age = req[q].age + 1
    <2> SUFFICES ASSUME NEW q \in Request
                 PROVE  /\ req'[q] \in ReqType
                        /\ req[q].pc # "store" => req'[q] = req[q]
                        /\ req[q].pc = "store" =>
                              /\ req'[q].pc = "store" /\ req'[q].at = req[q].at /\ req'[q].kind = req[q].kind
                              /\ req'[q].x = req[q].x /\ req'[q].res = req[q].res /\ req'[q].dead = req[q].dead
                              /\ req[q].age \in Nat /\ req'[q].age = req[q].age + 1
      OBVIOUS
    <2> DEFINE r == req[q]
               new == [r EXCEPT !.age = r.age + 1]
    <2>1. r \in ReqType
      BY RowFacts
    <2>2. CASE r.pc = "store"
      <3>1. r.age \in Nat /\ r.age + 1 \in 0..MaxLookup
        BY <1>1, <2>1, <2>2, Records DEF ReqType
      <3>2. /\ new \in ReqType /\ new.pc = r.pc /\ new.at = r.at /\ new.kind = r.kind /\ new.x = r.x
            /\ new.res = r.res /\ new.dead = r.dead /\ new.age = r.age + 1
        BY <2>1, <3>1 DEF ReqType
      <3>3. req'[q] = new
        BY <1>1, <2>2
      <3> HIDE DEF new, r
      <3> QED
        BY <2>2, <3>1, <3>2, <3>3 DEF r
    <2>3. CASE r.pc # "store"
      BY <1>1, <2>1, <2>3
    <2> QED
      BY <2>2, <2>3
  <1>6. req' \in [Request -> ReqType]
    <2>1. req' = [q \in Request |-> req'[q]]
      BY <1>1
    <2> QED
      BY <1>5, <2>1
  <1>7. Types'
    BY <1>1, <1>2, <1>4, <1>6, RowFacts, TypesFrom
  <1>8. RowsInv' /\ GoneInv'
    BY <1>1, <1>2, RowFacts DEF IInv, RowsInv, GoneInv
  <1>9. ScopeInv'
    BY <1>1 DEF IInv, ScopeInv, WorkloadHoldsNothing, config
  <1>10. CacheInv'
    <2> SUFFICES ASSUME NEW i \in Replica, NEW k \in Kind, NEW x \in Payload, cache'[i][<<k, x>>] # None
                 PROVE  /\ issued[x].who # None
                        /\ cache'[i][<<k, x>>].who # None => issued[x] = Token(k, cache'[i][<<k, x>>].who)
                        /\ k = "service-user" /\ cache'[i][<<k, x>>].who # None /\ ~cache'[i][<<k, x>>].cut =>
                              revoked'[x] + cache'[i][<<k, x>>].left <= Cap
                        /\ cache'[i][<<k, x>>].who = None => Final(k, x)'
      <3>1. issued' = issued
        BY <1>1
      <3> QED
        BY <3>1 DEF CacheInv
    <2>0. Final(k, x) => Final(k, x)'
      BY <1>1, <1>2 DEF Final, config
    <2>1. <<k, x>> \in Key
      BY DEF Key
    <2>2. /\ cache[i][<<k, x>>] # None
          /\ cache'[i][<<k, x>>].who = cache[i][<<k, x>>].who /\ cache'[i][<<k, x>>].cut = cache[i][<<k, x>>].cut
          /\ cache[i][<<k, x>>].left \in Nat /\ cache'[i][<<k, x>>].left = cache[i][<<k, x>>].left - 1
      BY <1>3, <2>1
    <2> QED
      BY <1>2, <2>0, <2>2, Records DEF IInv, CacheInv
  <1>11. StoreInv'
    <2> SUFFICES ASSUME NEW o \in Request, req'[o].pc = "store"
                 PROVE  /\ req'[o].at \in Replica /\ req'[o].kind \in Kind /\ req'[o].x \in Payload /\ req'[o].res \in Result
                        /\ issued[req'[o].x].who # None
                        /\ req'[o].res.who # None => issued[req'[o].x] = Token(req'[o].kind, req'[o].res.who)
                        /\ req'[o].kind = "service-user" /\ req'[o].res.who # None /\ ~req'[o].res.cut =>
                              revoked'[req'[o].x] <= req'[o].age + 1
                        /\ req'[o].kind # "service-user" /\ req'[o].res.who # None => ~req'[o].dead
                        /\ req'[o].res.who = None =>
                              (issued[req'[o].x].kind = req'[o].kind /\ issued[req'[o].x].who \notin legacy =>
                                  req'[o].x \in expired \/ revoked'[req'[o].x] # 0)
      BY <1>1 DEF StoreInv, Final, config
    <2>1. req[o].pc = "store"
      BY <1>5
    <2>2. /\ req'[o].at = req[o].at /\ req'[o].kind = req[o].kind /\ req'[o].x = req[o].x
          /\ req'[o].res = req[o].res /\ req'[o].dead = req[o].dead
          /\ req[o].age \in Nat /\ req'[o].age = req[o].age + 1
      BY <1>5, <2>1
    <2> QED
      BY <1>2, <2>1, <2>2 DEF IInv, StoreInv, Final
  <1>12. AnswerInv'
    BY <1>1, <1>5 DEF IInv, AnswerInv
  <1> QED
    BY <1>7, <1>8, <1>9, <1>10, <1>11, <1>12 DEF IInv

\* Every step preserves the inductive invariant.
LEMMA NextIInv == IInv /\ [Next]_vars => IInv'
  <1> SUFFICES ASSUME IInv, [Next]_vars PROVE IInv'
    OBVIOUS
  <1>1. ASSUME NEW p \in Principal, NEW x \in Payload, NEW b \in BOOLEAN, CreateServiceUser(p, x, b)
        PROVE  IInv'
    <2>1. roles' \subseteq Principal /\ roles' \ {p} = roles \ {p}
      BY <1>1, RowFacts DEF CreateServiceUser, SetRoles
    <2> QED
      BY <1>1, <2>1, InsertIInv DEF CreateServiceUser
  <1>2. ASSUME NEW p \in Principal, NEW x \in Payload, CreatePlatformPrincipal(p, x)
        PROVE  IInv'
    BY <1>2, RowFacts, InsertIInv DEF CreatePlatformPrincipal
  <1>3. ASSUME NEW p \in Principal, NEW x \in Payload, RegenerateServiceUser(p, x) \/ RegeneratePlatformPrincipal(p, x)
        PROVE  IInv'
    BY <1>3, SetTokenIInv DEF RegenerateServiceUser, RegeneratePlatformPrincipal
  <1>4. ASSUME NEW p \in Principal, DeleteServiceUser(p) \/ DeletePlatformPrincipal(p)
        PROVE  IInv'
    BY <1>4, DropIInv DEF DeleteServiceUser, DeletePlatformPrincipal
  <1>5. CASE UNCHANGED vars
    BY <1>5 DEF IInv, Types, TypeOK, RowsInv, GoneInv, ScopeInv, WorkloadHoldsNothing, CacheInv, StoreInv,
                AnswerInv, Final, vars, db, config
  <1> QED
    BY <1>1, <1>2, <1>3, <1>4, <1>5, ReplaceRolesIInv, BulkExpireIInv, CreateBindingIInv, DeleteBindingIInv,
       SessionIInv, ExchangeIInv, CacheHitIInv, LookupIInv, ReadBindingIInv, StoreIInv, TickIInv DEF Next

\* The inductive invariant always holds.
LEMMA Invariance == Spec => []IInv
  BY InitIInv, NextIInv, PTL DEF Spec

-----------------------------------------------------------------------------
(* The theorems.                                                           *)

\* InternalAuthenticate accepts a payload only as the kind and for the principal
\* it was issued for, whatever the caches hold; and a bound platform principal
\* has neither a role nor a static token, whatever the order of management
\* requests.
THEOREM KindsStayApartEver == Spec => []TokenInv
  <1>1. IInv => TokenInv
    BY DEF IInv, Types, AnswerInv, ScopeInv, TokenInv, KindsStayApart, Token
  <1> QED
    BY <1>1, Invariance, PTL

\* A session and a workload token are refused by every request that begins after
\* their revocation, on every replica and whatever its cache holds.
THEOREM RevokedAtOnceEver == Spec => []RevokedAtOnce
  <1>1. IInv => RevokedAtOnce
    BY DEF IInv, AnswerInv, RevokedAtOnce
  <1> QED
    BY <1>1, Invariance, PTL

\* A payload that a cache remembers as unknown will never authenticate again, so
\* extending the entry at every hit is safe.
THEOREM NegativesAreFinalEver == Spec => []NegativesAreFinal
  <1>1. IInv => NegativesAreFinal
    BY DEF IInv, CacheInv, Final, NegativesAreFinal, KeyOf
  <1> QED
    BY <1>1, Invariance, PTL

\* A static token that was regenerated, expired or deleted is accepted for no
\* longer than the lifetime of a cache entry after the last lookup that was
\* under way, for any lifetime and any number of replicas.
THEOREM StaticRevocationIsBounded == Spec => StaticRevocationBounded
  <1>1. ASSUME IInv, Next, NEW q \in Request, Accepted(q), req'[q].kind = "service-user"
        PROVE  revoked[req'[q].x] <= TTL + MaxLookup
    <2>1. ASSUME NEW o \in Request, NEW i \in Replica, NEW k \in Kind, NEW x \in Payload, CacheHit(o, i, k, x)
          PROVE  revoked[req'[q].x] <= TTL + MaxLookup
      <3> DEFINE e == cache[i][<<k, x>>]
      <3>1. e # None /\ (k = "service-user" \/ e.who = None) /\ Answer(o, i, k, x, e, revoked[x] # 0) /\ issued' = issued
        BY <2>1 DEF CacheHit, Hit, KeyOf, PositivelyCached, db
      <3>2. e \in Entry /\ <<k, x>> \in Key
        BY <1>1, <3>1, RowFacts DEF Key
      <3>3. e.left \in 1..TTL /\ (e.who # None => e.who \in Owner)
        BY <3>2 DEF Entry
      <3>4. e.who # None => issued[x] = Token(k, e.who)
        BY <1>1, <3>1 DEF IInv, CacheInv
      <3>5. e.who # None /\ ~e.cut /\ k = "service-user" => revoked[x] + e.left <= Cap
        BY <1>1, <3>1 DEF IInv, CacheInv
      <3> HIDE DEF e
      <3> DEFINE dead == revoked[x] # 0
      <3>6. /\ dead \in BOOLEAN /\ Answer(o, i, k, x, e, dead)
            /\ e.who # None => e.who \in Owner /\ issued[x] = Token(k, e.who) /\ (k # "service-user" => ~dead)
        BY <3>1, <3>3, <3>4
      <3> HIDE DEF dead
      <3>7. /\ \A r \in Request \ {o} : req'[r] = req[r]
            /\ req'[o].pc = "accepted" => Accepts(k, x, e) /\ req'[o].x = x /\ req'[o].kind = k
        BY <1>1, <3>1, <3>6, AnswerFacts
      <3>8. q = o /\ Accepts(k, x, e) /\ req'[q].x = x /\ k = "service-user"
        BY <1>1, <3>7 DEF Accepted
      <3>9. revoked[x] \in Nat
        BY <1>1, RowFacts, Records
      <3> QED
        BY <3>3, <3>5, <3>8, <3>9, Records DEF Accepts
    <2>2. ASSUME NEW o \in Request, Store(o)
          PROVE  revoked[req'[q].x] <= TTL + MaxLookup
      <3> DEFINE r == req[o]
      <3>1. r.pc = "store" /\ Answer(o, r.at, r.kind, r.x, r.res, r.dead) /\ issued' = issued
        BY <2>2 DEF Store, db
      <3>2. /\ r.at \in Replica /\ r.kind \in Kind /\ r.x \in Payload /\ r.res \in Result
            /\ r.res.who # None => issued[r.x] = Token(r.kind, r.res.who)
            /\ r.kind # "service-user" /\ r.res.who # None => ~r.dead
            /\ r.kind = "service-user" /\ r.res.who # None /\ ~r.res.cut => revoked[r.x] <= r.age + 1
        BY <1>1, <3>1 DEF IInv, StoreInv
      <3>3. r.age \in 0..MaxLookup /\ r.dead \in BOOLEAN /\ (r.res.who # None => r.res.who \in Owner)
        BY <1>1, <3>2, RowFacts DEF ReqType, Result
      <3> HIDE DEF r
      <3>4. /\ \A s \in Request \ {o} : req'[s] = req[s]
            /\ req'[o].pc = "accepted" => Accepts(r.kind, r.x, r.res) /\ req'[o].x = r.x /\ req'[o].kind = r.kind
        BY <1>1, <3>1, <3>2, <3>3, AnswerFacts
      <3>5. q = o /\ Accepts(r.kind, r.x, r.res) /\ req'[q].x = r.x /\ r.kind = "service-user"
        BY <1>1, <3>4 DEF Accepted
      <3>6. revoked[r.x] \in Nat
        BY <1>1, <3>2, RowFacts, Records
      <3> QED
        BY <3>2, <3>3, <3>5, <3>6, Records DEF Accepts
    <2>3. ASSUME Management PROVE FALSE
      BY <1>1, <2>3 DEF Management, Accepted
    <2>4. ASSUME Tick PROVE FALSE
      <3>1. req' = [s \in Request |-> IF req[s].pc = "store" THEN [req[s] EXCEPT !.age = @ + 1] ELSE req[s]]
        BY <2>4 DEF Tick
      <3>2. req[q] \in ReqType
        BY <1>1, RowFacts
      <3>3. req'[q].pc = req[q].pc
        BY <3>1, <3>2 DEF ReqType
      <3> QED
        BY <1>1, <3>3 DEF Accepted
    <2>5. ASSUME NEW o \in Request,
                 \/ \E b \in Binding : Exchange(o, b)
                 \/ \E x \in Payload : IssueWorkloadToken(o, x)
                 \/ ExchangeRejected(o) \/ Return(o) \/ ReadBinding(o) \/ ReadBindingFails(o)
                 \/ \E i \in Replica, k \in Kind, x \in Payload : Lookup(o, i, k, x)
          PROVE  FALSE
      <3>1. req \in [Request -> ReqType]
        BY <1>1, RowFacts
      <3>2. CASE \E b \in Binding : Exchange(o, b)
        BY <1>1, <3>1, <3>2 DEF Exchange, Idle, Accepted
      <3>3. CASE (\E x \in Payload : IssueWorkloadToken(o, x)) \/ ExchangeRejected(o) \/ Return(o) \/ ReadBindingFails(o)
        BY <1>1, <3>1, <3>3, Records DEF IssueWorkloadToken, ExchangeRejected, Return, ReadBindingFails, Accepted
      <3>4. CASE \E i \in Replica, k \in Kind, x \in Payload : Lookup(o, i, k, x)
        BY <1>1, <3>1, <3>4 DEF Lookup, Accepted
      <3>5. CASE ReadBinding(o)
        BY <1>1, <3>1, <3>5 DEF ReadBinding, ReqType, Accepted
      <3> QED
        BY <2>5, <3>2, <3>3, <3>4, <3>5
    <2> QED
      BY <1>1, <2>1, <2>2, <2>3, <2>4, <2>5
      DEF Next, CreateServiceUser, RegenerateServiceUser, CreatePlatformPrincipal, RegeneratePlatformPrincipal,
          DeleteServiceUser, ReplaceServiceUserRoles, DeletePlatformPrincipal, CreatePluginWorkloadBinding,
          DeletePluginWorkloadBinding, Login, Logout, Expire, BulkExpire, Cleanup
  <1>2. IInv /\ [Next]_vars =>
          [\A q \in Request : Accepted(q) /\ req'[q].kind = "service-user" =>
              revoked[req'[q].x] <= TTL + MaxLookup]_vars
    BY <1>1
  <1> QED
    BY <1>2, Invariance, PTL DEF StaticRevocationBounded, Spec
=============================================================================
