------------------------ MODULE RoleBindings_proofs -------------------------
(***************************************************************************)
(* Proofs about the two modules that write role bindings: about Roles, for *)
(* any number of concurrent requests and subjects, and, from the second    *)
(* half on, about Memberships.                                             *)
(***************************************************************************)
EXTENDS Roles, Memberships, FiniteSetTheorems, SequenceTheorems, TLAPS

-----------------------------------------------------------------------------
(* The inductive invariant.                                                *)

BuiltinNames == {"Admin", "Deployer", "Viewer"}
PermsUsed == (UNION RoleBodies) \cup legacyRolePermissions
Asked == {"org:o", Org, Env, PlatformResource, "user:u"}
AskedPerms == {"member", "read", Plugin, "plugin_manager_write"}

CreateOp == [kind : {"create"}, pc : {"begin", "write", "reload", "failed", "done"},
             name : {"Admin", "Ops"}, perms : RoleBodies]
UpdateOp == [kind : {"update"}, pc : {"begin", "validate", "write", "reload", "failed", "done"},
             id : Nat, name : {"Admin", "Ops"}, perms : RoleBodies]
DeleteOp == [kind : {"delete"}, pc : {"begin", "write", "reload", "failed", "done"}, id : Nat]
GrantOp == [kind : {"grant"}, pc : {"begin", "write", "reload", "failed", "done"},
            id : Nat, sub : Subject, scope : {Org, Project}]
SubjectOp == [kind : {"revoke", "deactivate"}, pc : {"begin", "reload", "failed", "done"}, sub : Subject]
ResourceOp == [kind : {"record", "remove"}, pc : {"begin", "reload", "failed", "done"},
               resource : {Project, Env}]
ReplaceOp == [kind : {"replace"}, pc : {"begin", "reload", "failed", "done"}, scopes : SUBSET Scopes]
ListOp == [kind : {"list"}, pc : {"begin", "seed", "failed", "done"}]
CheckOp == [kind : {"check"}, pc : {"begin", "ask", "looked", "loaded", "failed", "done"},
            sub : Subject, resource : Asked, perm : AskedPerms,
            public : BOOLEAN, valid : BOOLEAN, allowed : BOOLEAN, clean : BOOLEAN]

OpType == {NoOp} \cup ListOp \cup CreateOp \cup UpdateOp \cup DeleteOp \cup GrantOp
          \cup SubjectOp \cup ResourceOp \cup ReplaceOp \cup CheckOp

\* The rows of roles: their columns, their keys, and the built-in ones, which
\* have the first three ids.
RoleRowsInv ==
    /\ lastRole \in Nat /\ lastRole >= 3
    /\ \A r \in roles : /\ r.id \in 1..lastRole /\ r.name \in RoleNames
                        /\ r.perms # {} /\ r.perms \subseteq PermsUsed
                        /\ r.key \in {"admin", "deployer", "viewer", "none"}
    /\ \A r \in roles : r = [id |-> r.id, name |-> r.name, perms |-> r.perms, key |-> r.key]
    /\ \A r, o \in roles : (r.id = o.id \/ r.name = o.name) => r = o
    /\ \A r \in roles : r.name \in BuiltinNames \/ r.key # "none" => r \in Builtin
    /\ \A r \in roles : r.key = "none" => r.id > 3
    /\ \/ \A r \in roles : r \notin Builtin
       \/ Builtin \subseteq roles

BindingsInv ==
    /\ bindings \subseteq [sub : Subject, role : 1..lastRole, scope : Resources]
    /\ BindingsResolve

TablesInv ==
    /\ registered \in {{}, {Org}, {Org, Project}, Resources}
    /\ caps \subseteq Scopes /\ live \subseteq Subject
    /\ left \in 0..MaxOps
    /\ gone \subseteq Subject /\ unregistered \subseteq Scopes

\* What a handler has established before it writes, and a check before it asks.
Validated(o) ==
    /\ o.kind \in {"create", "update"} /\ o.pc = "write" => o.name \notin BuiltinNames
    /\ o.kind \in {"update", "delete"} /\ o.pc \in {"validate", "write"} => o.id > 3
    /\ o.kind = "check" /\ o.pc \in {"ask", "looked", "loaded"} => o.resource \in {"org:o", Org, Env}

WriteInv == \A c \in Proc : Validated(op[c])

OpInv == op \in [Proc -> OpType] /\ WriteInv

CacheInv ==
    /\ policy.grants \subseteq [sub : Subject, scope : Resources, perm : PermsUsed]
    /\ known \subseteq [resource : Asked, perm : AskedPerms, yes : BOOLEAN]
    /\ \A k, l \in known : k.resource = l.resource /\ k.perm = l.perm => k = l

\* What a returned request took away is neither in the tables nor cached.
GoneInv ==
    \A s \in gone : /\ \A b \in bindings : b.sub # s
                    /\ \A g \in policy.grants : g.sub # s

UnregisteredInv ==
    /\ unregistered \cap caps = {}
    /\ \A k \in known : k.perm = Plugin /\ k.yes => ScopeOf(k.resource) \notin unregistered

Lost(o) == o.sub \in gone /\ o.resource # PlatformResource
Withdrawn(o) == o.perm = Plugin /\ ScopeOf(o.resource) \in unregistered

\* Why a check whose right was taken away is going to be refused.
CleanOf(o) ==
    o.kind = "check" /\ o.clean =>
        /\ ~o.allowed
        /\ o.pc = "begin" => Lost(o) \/ Withdrawn(o) \/ (o.sub \notin live /\ ~o.public)
        /\ o.pc \in {"ask", "looked"} => Lost(o) \/ Withdrawn(o)
        /\ o.pc = "loaded" => Lost(o) \/ ~o.valid

CleanInv == \A c \in Proc : CleanOf(op[c])

\* What a client has been given is in order and lacks nobody who was there up
\* to the cursor.
WalkInv ==
    /\ steady \subseteq Subject
    /\ walk.pc \in {"idle", "page", "done"} /\ walk.resource \in Resources
    /\ walk.filter \subseteq Subject /\ walk.cursor \in Subject \cup {0}
    /\ walk = [pc |-> walk.pc, reader |-> walk.reader, resource |-> walk.resource, filter |-> walk.filter,
               cursor |-> walk.cursor, seen |-> walk.seen]
    /\ walk.seen \in Seq(Range(walk.seen))
    /\ \A i \in DOMAIN walk.seen : walk.seen[i].id \in Subject
    /\ \A i, j \in DOMAIN walk.seen : i < j => walk.seen[i].id < walk.seen[j].id
    /\ walk.pc = "page" =>
         /\ \A i \in DOMAIN walk.seen : walk.seen[i].id =< walk.cursor
         /\ \A s \in steady \cap walk.filter : s =< walk.cursor =>
                \E i \in DOMAIN walk.seen : walk.seen[i].id = s
    /\ walk.pc = "done" =>
         \A s \in steady \cap walk.filter : \E i \in DOMAIN walk.seen : walk.seen[i].id = s

CoreInv ==
    /\ RoleRowsInv /\ BindingsInv /\ TablesInv /\ OpInv /\ CacheInv
    /\ GoneInv /\ UnregisteredInv /\ CleanInv

IInv == CoreInv /\ WalkInv

-----------------------------------------------------------------------------
(* What the sorting of the user listing gives.                             *)

IsAscending(f, S) ==
    /\ f \in [1..Cardinality(S) -> S]
    /\ \A i, j \in 1..Cardinality(S) : i < j => f[i] < f[j]

\* A set of numbers that is not empty has a least member.
LEMMA LeastExists ==
  ASSUME NEW S \in SUBSET Nat, S # {}
  PROVE  \E m \in S : \A s \in S : m =< s
  <1> DEFINE R == OpToRel(<, Nat)
  <1>1. IsWellFoundedOn(R, Nat)
    BY NatLessThanWellFounded
  <1>2. \A x, y \in Nat : x < y => <<x, y>> \in R
    BY DEF OpToRel
  <1> HIDE DEF R
  <1>3. PICK m \in S : \A s \in S : ~(<<s, m>> \in R)
    BY <1>1, WFMin
  <1>4. \A s \in S : ~(s < m)
    BY <1>2, <1>3
  <1>5. \A s \in S : m =< s
    BY <1>4
  <1> QED
    BY <1>5

\* The members of a finite set of numbers can be put in order: by induction on
\* their number, the least one first.
LEMMA AscendingExists ==
  ASSUME NEW S \in SUBSET Nat, IsFiniteSet(S)
  PROVE  \E f : IsAscending(f, S)
  <1> DEFINE Bad == {n \in Nat : \E T \in SUBSET Nat : /\ IsFiniteSet(T) /\ Cardinality(T) = n
                                                       /\ ~ \E f : IsAscending(f, T)}
  <1> SUFFICES ASSUME Bad # {} PROVE FALSE
    BY FS_CardinalityType
  <1>1. PICK n \in Bad : \A k \in Bad : n =< k
    BY LeastExists
  <1>2. PICK T \in SUBSET Nat : IsFiniteSet(T) /\ Cardinality(T) = n /\ ~ \E f : IsAscending(f, T)
    BY <1>1
  <1>3. n \in Nat /\ n # 0
    <2>1. ASSUME n = 0 PROVE FALSE
      <3>1. T = {} /\ Cardinality(T) = 0
        BY <1>2, <2>1, FS_EmptySet
      <3>2. IsAscending([i \in 1..0 |-> 0], T)
        BY <3>1 DEF IsAscending
      <3> QED
        BY <1>2, <3>2
    <2> QED
      BY <1>1, <2>1
  <1>4. T # {}
    BY <1>2, <1>3, FS_EmptySet
  <1>5. PICK m \in T : \A s \in T : m =< s
    BY <1>4, LeastExists
  <1> DEFINE U == T \ {m}
  <1>6. IsFiniteSet(U) /\ Cardinality(U) = n - 1
    BY <1>2, <1>3, FS_RemoveElement
  <1>7. n - 1 \notin Bad
    BY <1>1, <1>3
  <1>8. PICK g : IsAscending(g, U)
    BY <1>3, <1>6, <1>7
  <1> DEFINE f == [i \in 1..n |-> IF i = 1 THEN m ELSE g[i - 1]]
  <1>a. g \in [1..(n - 1) -> U]
    BY <1>6, <1>8 DEF IsAscending
  <1>b. \A s \in U : s \in Nat /\ s > m
    BY <1>5
  <1>9. \A i \in 2..n : i - 1 \in 1..(n - 1) /\ g[i - 1] \in U /\ g[i - 1] > m
    <2> TAKE i \in 2..n
    <2>1. i - 1 \in 1..(n - 1)
      BY <1>3
    <2> QED
      BY <1>a, <1>b, <2>1
  <1>10. \A i, j \in 1..(n - 1) : i < j => g[i] < g[j]
    BY <1>6, <1>8 DEF IsAscending
  <1>11. f \in [1..n -> T]
    BY <1>3, <1>9
  <1>12. ASSUME NEW i \in 1..n, NEW j \in 1..n, i < j PROVE f[i] < f[j]
    <2>1. j \in 2..n /\ f[j] = g[j - 1]
      BY <1>3, <1>12
    <2>2. CASE i = 1
      BY <1>3, <1>9, <2>1, <2>2
    <2>3. CASE i # 1
      <3>1. i \in 2..n /\ f[i] = g[i - 1] /\ i - 1 < j - 1
        BY <1>3, <1>12, <2>3
      <3> QED
        BY <1>9, <1>10, <2>1, <3>1
    <2> QED
      BY <2>2, <2>3
  <1>13. IsAscending(f, T)
    BY <1>2, <1>11, <1>12 DEF IsAscending
  <1> QED
    BY <1>2, <1>13

\* Ascending lists every member once, in order.
LEMMA AscendingType ==
  ASSUME NEW S \in SUBSET Nat, IsFiniteSet(S)
  PROVE  /\ Cardinality(S) \in Nat
         /\ Ascending(S) \in [1..Cardinality(S) -> S]
         /\ \A i, j \in 1..Cardinality(S) : i < j => Ascending(S)[i] < Ascending(S)[j]
         /\ \A s \in S : \E i \in 1..Cardinality(S) : Ascending(S)[i] = s
  <1> DEFINE n == Cardinality(S)
             f == Ascending(S)
  <1>1. n \in Nat
    BY FS_CardinalityType
  <1>2. \E h \in [1..n -> S] : \A i, j \in DOMAIN h : i < j => h[i] < h[j]
    BY AscendingExists DEF IsAscending
  <1>3. f \in [1..n -> S] /\ \A i, j \in DOMAIN f : i < j => f[i] < f[j]
    BY <1>2 DEF Ascending
  <1>4. \A i, j \in 1..n : i < j => f[i] < f[j]
    BY <1>3
  <1> HIDE DEF f
  <1>5. \A i, j \in 1..n : f[i] = f[j] => i = j
    <2> SUFFICES ASSUME NEW i \in 1..n, NEW j \in 1..n, f[i] = f[j], i < j PROVE FALSE
      BY <1>1
    <2>1. f[i] < f[j] /\ f[i] \in Nat
      BY <1>3, <1>4
    <2> QED
      BY <2>1
  <1>6. f \in Injection(1..n, S)
    BY <1>3, <1>5 DEF Injection, IsInjective
  <1>7. IsFiniteSet(1..n) /\ Cardinality(1..n) = n
    BY <1>1, FS_Interval
  <1>8. f \in Surjection(1..n, S)
    BY <1>6, <1>7, FS_Injection
  <1> QED
    BY <1>1, <1>3, <1>4, <1>8 DEF Surjection, f

-----------------------------------------------------------------------------
USE RolesAssumption

(* Initially.                                                              *)

\* The three built-in roles.
LEMMA BuiltinRows ==
  /\ \A r \in Builtin : /\ r.id \in 1..3 /\ r.name \in BuiltinNames /\ r.name \in RoleNames
                        /\ r.perms # {} /\ r.perms \subseteq PermsUsed
                        /\ r.key \in {"admin", "deployer", "viewer"}
                        /\ r = [id |-> r.id, name |-> r.name, perms |-> r.perms, key |-> r.key]
                        /\ r.key = "admin" => r.perms = {"manage_all"}
  /\ \A r, o \in Builtin : (r.id = o.id \/ r.name = o.name) => r = o
  /\ \A n \in BuiltinNames : \E r \in Builtin : r.name = n
  /\ \A i \in 1..3 : \E r \in Builtin : r.id = i
  <1>1. "manage_all" \in PermsUsed /\ "write_all" \in PermsUsed /\ "read_all" \in PermsUsed
    BY DEF PermsUsed, RoleBodies, legacyRolePermissions
  <1>2. BuiltinNames \subseteq RoleNames
    BY DEF BuiltinNames, RoleNames
  <1> QED
    BY <1>1, <1>2 DEF Builtin, BuiltinNames

\* The inductive invariant holds initially.
LEMMA InitIInv == Init => IInv
  <1> SUFFICES ASSUME Init PROVE IInv
    OBVIOUS
  <1>1. RoleRowsInv
    <2>1. lastRole = 3 /\ (roles = {} \/ roles = Builtin)
      BY DEF Init
    <2>2. CASE roles = {}
      BY <2>1, <2>2 DEF RoleRowsInv
    <2>3. CASE roles = Builtin
      BY <2>1, <2>3, BuiltinRows DEF RoleRowsInv
    <2> QED
      BY <2>1, <2>2, <2>3
  <1>2. BindingsInv
    <2>1. CASE bindings = {}
      BY <2>1 DEF BindingsInv, BindingsResolve
    <2>2. CASE /\ roles = Builtin
               /\ \E admin \in Subject \ ServiceUser : bindings =
                    {[sub |-> admin, role |-> 1, scope |-> Org]} \cup
                    {[sub |-> s, role |-> 3, scope |-> Project] : s \in Subject \ {admin}}
      <3>1. \A b \in bindings : b \in [sub : Subject, role : {1, 3}, scope : Resources]
        BY <2>2 DEF Resources
      <3>2. lastRole = 3
        BY DEF Init
      <3>3. \A b \in bindings : \E r \in roles : r.id = b.role
        BY <2>2, <3>1, BuiltinRows
      <3> QED
        BY <3>1, <3>2, <3>3 DEF BindingsInv, BindingsResolve, GetRole
    <2> QED
      BY <2>1, <2>2 DEF Init
  <1>3. TablesInv
    BY DEF Init, TablesInv, Scopes
  <1>4. OpInv
    BY DEF Init, OpInv, WriteInv, Validated, NoOp, OpType
  <1>5. CacheInv
    <2>1. \A r \in roles : r.perms \subseteq PermsUsed
      BY <1>1 DEF RoleRowsInv
    <2> QED
      BY <1>2, <2>1 DEF Init, CacheInv, LoadPolicy, ListAuthorizationPolicies, GetRole, BindingsInv
  <1>6. GoneInv /\ UnregisteredInv
    BY DEF Init, GoneInv, UnregisteredInv
  <1>7. CleanInv
    BY DEF Init, CleanInv, CleanOf, NoOp
  <1>8. WalkInv
    BY DEF Init, WalkInv, NoWalk, Resources, Range
  <1> QED
    BY <1>1, <1>2, <1>3, <1>4, <1>5, <1>6, <1>7, <1>8 DEF IInv, CoreInv

-----------------------------------------------------------------------------
(* Requests.                                                               *)

\* A request's kind tells its arguments.
LEMMA OpKinds ==
  ASSUME NEW o \in OpType
  PROVE  /\ o.kind = "list" => o \in ListOp
         /\ o.kind = "create" => o \in CreateOp
         /\ o.kind = "update" => o \in UpdateOp
         /\ o.kind = "delete" => o \in DeleteOp
         /\ o.kind = "grant" => o \in GrantOp
         /\ o.kind \in {"revoke", "deactivate"} => o \in SubjectOp
         /\ o.kind \in {"record", "remove"} => o \in ResourceOp
         /\ o.kind = "replace" => o \in ReplaceOp
         /\ o.kind = "check" => o \in CheckOp
  BY DEF OpType, NoOp, ListOp, CreateOp, UpdateOp, DeleteOp, GrantOp, SubjectOp, ResourceOp,
         ReplaceOp, CheckOp

\* One request changes to o.
LEMMA OpStep ==
  ASSUME OpInv, NEW c \in Proc, NEW o \in OpType, Validated(o), op' = [op EXCEPT ![c] = o]
  PROVE  /\ OpInv' /\ op'[c] = o
         /\ \A d \in Proc : d # c => op'[d] = op[d]
  BY DEF OpInv, WriteInv, Validated

\* A commit that grants something: no check is clean any more.
LEMMA GrantStep ==
  ASSUME OpInv, NEW c \in Proc, NEW o \in OpType, Validated(o), o.kind # "check",
         op' = [Granting(op) EXCEPT ![c] = o]
  PROVE  /\ OpInv' /\ op'[c] = o
         /\ \A d \in Proc : op'[d].kind = "check" => op'[d].clean = FALSE
  <1>1. \A d \in Proc : op[d] \in OpType
    BY DEF OpInv
  <1>2. ASSUME NEW d \in Proc
        PROVE  /\ Granting(op)[d] \in OpType /\ Granting(op)[d].kind = op[d].kind
               /\ Granting(op)[d].pc = op[d].pc
               /\ op[d].kind = "check" => Granting(op)[d].resource = op[d].resource
               /\ op[d].kind = "check" => Granting(op)[d].clean = FALSE
               /\ op[d].kind # "check" => Granting(op)[d] = op[d]
    <2>1. CASE op[d].kind = "check"
      <3>1. op[d] \in CheckOp
        BY <1>1, <2>1, OpKinds
      <3>2. Granting(op)[d] = [op[d] EXCEPT !.clean = FALSE]
        BY <2>1 DEF Granting
      <3>3. Granting(op)[d] \in CheckOp
        BY <3>1, <3>2 DEF CheckOp
      <3> QED
        BY <2>1, <3>1, <3>2, <3>3 DEF CheckOp, OpType
    <2>2. CASE op[d].kind # "check"
      <3>1. Granting(op)[d] = op[d]
        BY <2>2 DEF Granting
      <3> QED
        BY <1>1, <2>2, <3>1
    <2> QED
      BY <2>1, <2>2
  <1>3. DOMAIN Granting(op) = Proc
    BY DEF Granting
  <1>4. op'[c] = o /\ \A d \in Proc : d # c => op'[d] = Granting(op)[d]
    BY <1>3
  <1>5. op' \in [Proc -> OpType]
    <2>1. op' = [d \in Proc |-> IF d = c THEN o ELSE Granting(op)[d]]
      BY <1>3
    <2> QED
      BY <1>2, <2>1
  <1>6. WriteInv'
    <2> SUFFICES ASSUME NEW d \in Proc PROVE Validated(op'[d])
      BY DEF WriteInv, Validated
    <2>1. CASE d = c
      BY <1>4, <2>1
    <2>2. CASE d # c
      <3>1. Validated(op[d]) /\ op'[d] = Granting(op)[d]
        BY <1>4, <2>2 DEF OpInv, WriteInv
      <3> QED
        BY <1>2, <3>1 DEF Validated
    <2> QED
      BY <2>1, <2>2
  <1> QED
    BY <1>2, <1>4, <1>5, <1>6 DEF OpInv

\* The tables and caches are left alone.
LEMMA Frame ==
  ASSUME CoreInv, Store, Cache, Ghosts, live' = live, left' \in 0..MaxOps
  PROVE  /\ RoleRowsInv' /\ BindingsInv' /\ TablesInv' /\ CacheInv'
         /\ GoneInv' /\ UnregisteredInv'
  <1> USE DEF CoreInv, Store, Cache, Ghosts
  <1>1. RoleRowsInv'
    BY DEF RoleRowsInv
  <1>2. BindingsInv'
    BY DEF BindingsInv, BindingsResolve, GetRole
  <1>3. TablesInv' /\ CacheInv'
    BY DEF TablesInv, CacheInv
  <1>4. GoneInv' /\ UnregisteredInv'
    BY DEF GoneInv, UnregisteredInv
  <1> QED
    BY <1>1, <1>2, <1>3, <1>4

\* The checks under way are left alone, and nothing is granted.
LEMMA CheckFrame ==
  ASSUME CoreInv, gone \subseteq gone', unregistered \subseteq unregistered', live' \subseteq live,
         \A d \in Proc : op'[d].kind = "check" /\ op'[d].clean => op'[d] = op[d]
  PROVE  CleanInv'
  <1> SUFFICES ASSUME NEW d \in Proc, op'[d].kind = "check", op'[d].clean
               PROVE  CleanOf(op[d])'
    BY DEF CleanInv, CleanOf
  <1>1. op'[d] = op[d]
    OBVIOUS
  <1>2. (Lost(op[d]) => Lost(op[d])') /\ (Withdrawn(op[d]) => Withdrawn(op[d])')
    BY <1>1 DEF Lost, Withdrawn
  <1>3. CleanOf(op[d])
    BY DEF CoreInv, CleanInv
  <1> QED
    BY <1>1, <1>2, <1>3 DEF CleanOf

-----------------------------------------------------------------------------
(* The steps that change only the request.                                 *)

\* An action whose only effect is on one request that is no check.
LEMMA QuietStep ==
  ASSUME CoreInv, NEW c \in Proc, NEW o \in OpType, Validated(o), o.kind # "check",
         op' = [op EXCEPT ![c] = o],
         Store, Cache, Ghosts, live' = live, left' \in 0..MaxOps
  PROVE  CoreInv'
  <1>1. /\ RoleRowsInv' /\ BindingsInv' /\ TablesInv' /\ CacheInv'
        /\ GoneInv' /\ UnregisteredInv'
    BY Frame
  <1>2. OpInv' /\ op'[c] = o /\ \A d \in Proc : d # c => op'[d] = op[d]
    BY OpStep DEF CoreInv
  <1>3. CleanInv'
    BY <1>2, CheckFrame DEF Ghosts
  <1> QED
    BY <1>1, <1>2, <1>3 DEF CoreInv

\* A request other than a check starts.
LEMMA RequestCore ==
  ASSUME CoreInv, NEW c \in Proc, NEW o \in Request, Begin(c, o)
  PROVE  CoreInv'
  <1>0. \A w \in RoleWrites : w.name \in {"Admin", "Ops"} /\ w.perms \in RoleBodies
    BY DEF RoleWrites, RoleBodies
  <1>1. o \in OpType /\ o.pc = "begin" /\ o.kind # "check"
    BY <1>0 DEF Request, OpType, ListOp, CreateOp, UpdateOp, DeleteOp, GrantOp, SubjectOp, ResourceOp,
           ReplaceOp, Scopes
  <1>2. Validated(o)
    BY <1>1 DEF Validated
  <1>3. left' \in 0..MaxOps
    BY DEF Begin, CoreInv, TablesInv
  <1> QED
    BY <1>1, <1>2, <1>3, QuietStep DEF Begin, Become, Rest

\* A request is answered.
LEMMA AnswerCore ==
  ASSUME CoreInv, NEW c \in Proc, Answer(c)
  PROVE  CoreInv'
  <1>1. NoOp \in OpType /\ Validated(NoOp) /\ NoOp.kind # "check"
    BY DEF OpType, Validated, NoOp
  <1>2. left' \in 0..MaxOps
    BY DEF Answer, CoreInv, TablesInv
  <1> QED
    BY <1>1, <1>2, QuietStep DEF Answer, Become, Rest

\* ListRoles reads the roles.
LEMMA ListRolesCore ==
  ASSUME CoreInv, NEW c \in Proc, ListRoles(c)
  PROVE  CoreInv'
  <1> DEFINE x == IF roles = {} THEN "seed" ELSE "done"
             o == [op[c] EXCEPT !.pc = x]
  <1>1. op[c] \in ListOp
    BY OpKinds DEF ListRoles, CoreInv, OpInv
  <1>2. o \in ListOp
    BY <1>1 DEF ListOp
  <1>3. o \in OpType /\ o.kind = "list"
    BY <1>2 DEF OpType, ListOp
  <1>4. Validated(o)
    BY <1>3 DEF Validated
  <1>5. op' = [op EXCEPT ![c] = o]
    BY DEF ListRoles, To
  <1>6. left' \in 0..MaxOps
    BY DEF ListRoles, CoreInv, TablesInv
  <1> HIDE DEF o
  <1> QED
    BY <1>3, <1>4, <1>5, <1>6, QuietStep DEF ListRoles, Rest

\* CreateRole validates its body.
LEMMA ValidateCreateCore ==
  ASSUME CoreInv, NEW c \in Proc, ValidateCreate(c)
  PROVE  CoreInv'
  <1> DEFINE x == IF validateRoleWrite(op[c].name, op[c].perms) THEN "write" ELSE "failed"
             o == [op[c] EXCEPT !.pc = x]
  <1>1. op[c] \in CreateOp
    BY OpKinds DEF ValidateCreate, CoreInv, OpInv
  <1>3. x \in {"write", "failed"} /\ (x = "write" => op[c].name \notin BuiltinNames)
    BY DEF validateRoleWrite, BuiltinNames
  <1> HIDE DEF x
  <1>2. o \in CreateOp /\ o.pc = x /\ o.name = op[c].name
    BY <1>1, <1>3 DEF CreateOp
  <1>4. o \in OpType /\ o.kind = "create"
    BY <1>2 DEF OpType, CreateOp
  <1>5. op' = [op EXCEPT ![c] = o]
    BY DEF ValidateCreate, To, x
  <1>6. left' \in 0..MaxOps
    BY DEF ValidateCreate, CoreInv, TablesInv
  <1> HIDE DEF o
  <1>7. Validated(o)
    BY <1>2, <1>3, <1>4 DEF Validated
  <1> QED
    BY <1>4, <1>5, <1>6, <1>7, QuietStep DEF ValidateCreate, Rest

\* UpdateRole validates its body.
LEMMA ValidateUpdateCore ==
  ASSUME CoreInv, NEW c \in Proc, ValidateUpdate(c)
  PROVE  CoreInv'
  <1> DEFINE x == IF validateRoleWrite(op[c].name, op[c].perms) THEN "write" ELSE "failed"
             o == [op[c] EXCEPT !.pc = x]
  <1>1. op[c] \in UpdateOp /\ op[c].id > 3
    BY OpKinds DEF ValidateUpdate, CoreInv, OpInv, WriteInv, Validated
  <1>3. x \in {"write", "failed"} /\ (x = "write" => op[c].name \notin BuiltinNames)
    BY DEF validateRoleWrite, BuiltinNames
  <1> HIDE DEF x
  <1>2. o \in UpdateOp /\ o.pc = x /\ o.name = op[c].name /\ o.id = op[c].id
    BY <1>1, <1>3 DEF UpdateOp
  <1>4. o \in OpType /\ o.kind = "update"
    BY <1>2 DEF OpType, UpdateOp
  <1>5. op' = [op EXCEPT ![c] = o]
    BY DEF ValidateUpdate, To, x
  <1>6. left' \in 0..MaxOps
    BY DEF ValidateUpdate, CoreInv, TablesInv
  <1> HIDE DEF o
  <1>7. Validated(o)
    BY <1>1, <1>2, <1>3, <1>4 DEF Validated
  <1> QED
    BY <1>4, <1>5, <1>6, <1>7, QuietStep DEF ValidateUpdate, Rest

\* UpdateRole, DeleteRole and the grants read the role: none but the last goes
\* on with a built-in one.
LEMMA ReadRoleCore ==
  ASSUME CoreInv, NEW c \in Proc, ReadRole(c)
  PROVE  CoreInv'
  <1> DEFINE found == GetRole(op[c].id)
             frozen == op[c].kind # "grant" /\ \E r \in found : r.key # "none"
             x == IF found = {} \/ frozen THEN "failed"
                  ELSE IF op[c].kind = "update" THEN "validate" ELSE "write"
             o == [op[c] EXCEPT !.pc = x]
  <1>1. /\ op[c] \in OpType /\ op[c].kind \in {"update", "delete", "grant"}
        /\ x \in {"failed", "validate", "write"}
        /\ x = "validate" => op[c].kind = "update"
        /\ op[c].kind = "update" => x # "write"
    BY DEF ReadRole, CoreInv, OpInv
  <1>2. ASSUME x # "failed", op[c].kind # "grant" PROVE op[c].id > 3
    <2>1. PICK r \in roles : r.id = op[c].id /\ r.key = "none"
      BY <1>2 DEF GetRole
    <2> QED
      BY <2>1 DEF CoreInv, RoleRowsInv
  <1>3. op' = [op EXCEPT ![c] = o]
    BY DEF ReadRole, To
  <1>4. left' \in 0..MaxOps
    BY DEF ReadRole, CoreInv, TablesInv
  <1> HIDE DEF x
  <1>5. o \in OpType /\ o.kind = op[c].kind /\ o.pc = x /\ (o.kind # "grant" => o.id = op[c].id)
    <2>1. CASE op[c].kind = "update"
      <3>0. op[c] \in UpdateOp
        BY <1>1, <2>1, OpKinds
      <3>1. o \in UpdateOp /\ o.pc = x /\ o.id = op[c].id
        BY <1>1, <2>1, <3>0 DEF UpdateOp
      <3> QED
        BY <2>1, <3>1 DEF UpdateOp, OpType
    <2>2. CASE op[c].kind = "delete"
      <3>0. op[c] \in DeleteOp
        BY <1>1, <2>2, OpKinds
      <3>1. o \in DeleteOp /\ o.pc = x /\ o.id = op[c].id
        BY <1>1, <2>2, <3>0 DEF DeleteOp
      <3> QED
        BY <2>2, <3>1 DEF DeleteOp, OpType
    <2>3. CASE op[c].kind = "grant"
      <3>0. op[c] \in GrantOp
        BY <1>1, <2>3, OpKinds
      <3>1. o \in GrantOp /\ o.pc = x
        BY <1>1, <2>3, <3>0 DEF GrantOp
      <3> QED
        BY <2>3, <3>1 DEF GrantOp, OpType
    <2> QED
      BY <1>1, <2>1, <2>2, <2>3
  <1> HIDE DEF o
  <1>6. Validated(o)
    BY <1>1, <1>2, <1>5 DEF Validated
  <1>7. o.kind # "check"
    BY <1>1, <1>5
  <1> QED
    BY <1>3, <1>4, <1>5, <1>6, <1>7, QuietStep DEF ReadRole, Rest

-----------------------------------------------------------------------------
(* The steps that write the tables.                                        *)

\* A write that grants nothing.
LEMMA TableStep ==
  ASSUME CoreInv, NEW c \in Proc, NEW o \in OpType, Validated(o), o.kind # "check",
         op' = [op EXCEPT ![c] = o],
         RoleRowsInv', BindingsInv', bindings' \subseteq bindings,
         registered' \in {{}, {Org}, {Org, Project}, Resources},
         live' \subseteq live, caps' = caps, left' = left, Cache, Ghosts
  PROVE  CoreInv'
  <1>1. TablesInv'
    BY DEF CoreInv, TablesInv, Ghosts
  <1>2. CacheInv' /\ UnregisteredInv'
    BY DEF CoreInv, CacheInv, UnregisteredInv, Cache, Ghosts
  <1>3. GoneInv'
    BY DEF CoreInv, GoneInv, Cache, Ghosts
  <1>4. OpInv' /\ op'[c] = o /\ \A d \in Proc : d # c => op'[d] = op[d]
    BY OpStep DEF CoreInv
  <1>5. CleanInv'
    BY <1>4, CheckFrame DEF Ghosts
  <1> QED
    BY <1>1, <1>2, <1>3, <1>4, <1>5 DEF CoreInv

\* The bindings are what they were and their roles are still there.
LEMMA BindingsKept ==
  ASSUME CoreInv, lastRole' \in Nat, lastRole' >= lastRole, bindings' \subseteq bindings,
         \A b \in bindings', r \in roles : r.id = b.role => \E q \in roles' : q.id = b.role
  PROVE  BindingsInv'
  <1>1. lastRole \in Nat
    BY DEF CoreInv, RoleRowsInv
  <1>2. bindings' \subseteq [sub : Subject, role : 1..lastRole', scope : Resources]
    BY <1>1 DEF CoreInv, BindingsInv
  <1>3. \A b \in bindings' : \E r \in roles : r.id = b.role
    BY DEF CoreInv, BindingsInv, BindingsResolve, GetRole
  <1>4. \A b \in bindings' : \E q \in roles' : q.id = b.role
    BY <1>3
  <1> QED
    BY <1>2, <1>4 DEF BindingsInv, BindingsResolve, GetRole

\* A request that did not get through.
LEMMA FailedCore ==
  ASSUME CoreInv, NEW c \in Proc, To(c, "failed"), op[c].kind \in {"list", "create", "update", "delete", "grant", "record"},
         Store, Cache, Ghosts, live' = live, left' = left
  PROVE  CoreInv'
  <1> DEFINE o == [op[c] EXCEPT !.pc = "failed"]
  <1>1. op[c] \in OpType
    BY DEF CoreInv, OpInv
  <1>2. o \in OpType /\ o.kind = op[c].kind /\ o.pc = "failed"
    <2>1. CASE op[c].kind = "list"
      BY <1>1, <2>1, OpKinds DEF ListOp, OpType
    <2>2. CASE op[c].kind = "create"
      BY <1>1, <2>2, OpKinds DEF CreateOp, OpType
    <2>3. CASE op[c].kind = "update"
      BY <1>1, <2>3, OpKinds DEF UpdateOp, OpType
    <2>4. CASE op[c].kind = "delete"
      BY <1>1, <2>4, OpKinds DEF DeleteOp, OpType
    <2>5. CASE op[c].kind = "grant"
      BY <1>1, <2>5, OpKinds DEF GrantOp, OpType
    <2>6. CASE op[c].kind = "record"
      BY <1>1, <2>6, OpKinds DEF ResourceOp, OpType
    <2> QED
      BY <2>1, <2>2, <2>3, <2>4, <2>5, <2>6
  <1>3. op' = [op EXCEPT ![c] = o]
    BY DEF To
  <1> HIDE DEF o
  <1>4. Validated(o)
    BY <1>2 DEF Validated
  <1>5. left' \in 0..MaxOps
    BY DEF CoreInv, TablesInv
  <1> QED
    BY <1>2, <1>3, <1>4, <1>5, QuietStep

\* The built-in roles are inserted together, and only where their names are free.
LEMMA SeedCore ==
  ASSUME CoreInv, NEW c \in Proc, SeedBuiltinOrgRoles(c)
  PROVE  CoreInv'
  <1>1. CASE \E b \in Builtin : NameTaken(b.name, 0)
    <2>1. /\ To(c, "failed") /\ op[c].kind = "list" /\ Store /\ Cache /\ Ghosts
          /\ live' = live /\ left' = left
      BY <1>1 DEF SeedBuiltinOrgRoles, Store, Rest
    <2> QED
      BY <2>1, FailedCore
  <1>2. CASE ~ \E b \in Builtin : NameTaken(b.name, 0)
    <2> DEFINE o == [op[c] EXCEPT !.pc = "done"]
    <2>1. op[c] \in ListOp
      BY OpKinds DEF SeedBuiltinOrgRoles, CoreInv, OpInv
    <2>2. o \in OpType /\ o.kind = "list"
      BY <2>1 DEF ListOp, OpType
    <2>3. /\ op' = [op EXCEPT ![c] = o] /\ roles' = roles \cup Builtin
          /\ registered' = registered \cup {Org}
          /\ lastRole' = lastRole /\ bindings' = bindings /\ caps' = caps /\ left' = left
          /\ Cache /\ Ghosts /\ live' = live
      BY <1>2 DEF SeedBuiltinOrgRoles, To, Rest
    <2> HIDE DEF o
    <2>4. Validated(o)
      BY <2>2 DEF Validated
    <2>5. RoleRowsInv'
      <3> USE DEF CoreInv
      <3>1. \A r \in roles : r.id \in Nat /\ r.id # 0
        BY DEF RoleRowsInv
      <3>2. \A r \in roles, b \in Builtin : r.name # b.name
        BY <1>2, <3>1 DEF NameTaken
      <3>3. \A r \in roles : r.name \notin BuiltinNames
        BY <3>2, BuiltinRows
      <3>4. \A r \in roles : r.key = "none" /\ r.id > 3
        BY <3>3, BuiltinRows DEF RoleRowsInv
      <3>5. \A r, q \in roles' : (r.id = q.id \/ r.name = q.name) => r = q
        <4>1. \A r \in roles, q \in Builtin : r.id # q.id /\ r.name # q.name
          BY <3>1, <3>2, <3>4, BuiltinRows
        <4>2. \A r, q \in roles : (r.id = q.id \/ r.name = q.name) => r = q
          BY DEF RoleRowsInv
        <4> QED
          BY <2>3, <4>1, <4>2, BuiltinRows
      <3>6. lastRole' \in Nat /\ lastRole' >= 3
        BY <2>3 DEF RoleRowsInv
      <3>7. ASSUME NEW r \in roles'
            PROVE  /\ r.id \in 1..lastRole' /\ r.name \in RoleNames
                   /\ r.perms # {} /\ r.perms \subseteq PermsUsed
                   /\ r.key \in {"admin", "deployer", "viewer", "none"}
                   /\ r = [id |-> r.id, name |-> r.name, perms |-> r.perms, key |-> r.key]
        <4>1. CASE r \in roles
          BY <2>3, <4>1 DEF RoleRowsInv
        <4>2. CASE r \in Builtin
          BY <3>6, <4>2, BuiltinRows
        <4> QED
          BY <2>3, <4>1, <4>2
      <3>8. \A r \in roles' : r.name \in BuiltinNames \/ r.key # "none" => r \in Builtin
        BY <2>3, <3>3, <3>4
      <3>9. \A r \in roles' : r.key = "none" => r.id > 3
        BY <2>3, <3>4, BuiltinRows
      <3>10. Builtin \subseteq roles'
        BY <2>3
      <3> QED
        BY <3>5, <3>6, <3>7, <3>8, <3>9, <3>10 DEF RoleRowsInv
    <2>6. BindingsInv'
      <3>1. lastRole \in Nat
        BY DEF CoreInv, RoleRowsInv
      <3> QED
        BY <2>3, <3>1, BindingsKept
    <2>7. registered' \in {{}, {Org}, {Org, Project}, Resources}
      BY <2>3 DEF CoreInv, TablesInv, Resources
    <2> QED
      BY <2>2, <2>3, <2>4, <2>5, <2>6, <2>7, TableStep
  <1> QED
    BY <1>1, <1>2

\* The new role has a new id and a name that no role has.
LEMMA CreateRoleCore ==
  ASSUME CoreInv, NEW c \in Proc, CreateRole(c)
  PROVE  CoreInv'
  <1>1. CASE NameTaken(op[c].name, 0)
    <2>1. /\ To(c, "failed") /\ op[c].kind = "create" /\ Store /\ Cache /\ Ghosts
          /\ live' = live /\ left' = left
      BY <1>1 DEF CreateRole, Store, Rest
    <2> QED
      BY <2>1, FailedCore
  <1>2. CASE ~NameTaken(op[c].name, 0)
    <2> DEFINE o == [op[c] EXCEPT !.pc = "reload"]
               new == [id |-> lastRole + 1, name |-> op[c].name, perms |-> op[c].perms, key |-> "none"]
    <2>1. op[c] \in CreateOp
      BY OpKinds DEF CreateRole, CoreInv, OpInv
    <2>2. o \in OpType /\ o.kind = "create" /\ o.pc = "reload"
      BY <2>1 DEF CreateOp, OpType
    <2>3. /\ op' = [op EXCEPT ![c] = o] /\ roles' = roles \cup {new} /\ lastRole' = lastRole + 1
          /\ registered' = registered /\ bindings' = bindings /\ caps' = caps /\ left' = left
          /\ Cache /\ Ghosts /\ live' = live
      BY <1>2 DEF CreateRole, To, Rest
    <2> HIDE DEF o
    <2>4. Validated(o)
      BY <2>2 DEF Validated
    <2>5. /\ new.name \in RoleNames \ BuiltinNames /\ new.perms # {} /\ new.perms \subseteq PermsUsed
          /\ new.key = "none" /\ new.id = lastRole + 1 /\ new.name = op[c].name
          /\ new = [id |-> new.id, name |-> new.name, perms |-> new.perms, key |-> new.key]
      <3>1. op[c].name \notin BuiltinNames
        BY DEF CreateRole, CoreInv, OpInv, WriteInv, Validated
      <3>2. op[c].name \in {"Admin", "Ops"} /\ op[c].perms \in RoleBodies
        BY <2>1 DEF CreateOp
      <3> QED
        BY <3>1, <3>2 DEF RoleNames, PermsUsed, RoleBodies
    <2> HIDE DEF new
    <2>6. RoleRowsInv'
      <3> USE DEF CoreInv
      <3>1. lastRole \in Nat /\ lastRole >= 3 /\ \A r \in roles : r.id \in 1..lastRole
        BY DEF RoleRowsInv
      <3>2. \A r \in roles : r.id # new.id /\ r.name # new.name
        BY <1>2, <2>5, <3>1 DEF NameTaken
      <3>3. \A r, q \in roles' : (r.id = q.id \/ r.name = q.name) => r = q
        BY <2>3, <3>2 DEF RoleRowsInv
      <3>4. ASSUME NEW r \in roles'
            PROVE  /\ r.id \in 1..lastRole' /\ r.name \in RoleNames
                   /\ r.perms # {} /\ r.perms \subseteq PermsUsed
                   /\ r.key \in {"admin", "deployer", "viewer", "none"}
                   /\ r = [id |-> r.id, name |-> r.name, perms |-> r.perms, key |-> r.key]
                   /\ r.name \in BuiltinNames \/ r.key # "none" => r \in Builtin
                   /\ r.key = "none" => r.id > 3
        <4>1. CASE r \in roles
          BY <2>3, <3>1, <4>1 DEF RoleRowsInv
        <4>2. CASE r = new
          BY <2>3, <2>5, <3>1, <4>2
        <4> QED
          BY <2>3, <4>1, <4>2
      <3>5. (\A r \in roles' : r \notin Builtin) \/ Builtin \subseteq roles'
        <4>1. new \notin Builtin
          BY <2>5, BuiltinRows
        <4> QED
          BY <2>3, <4>1 DEF RoleRowsInv
      <3> QED
        BY <2>3, <3>1, <3>3, <3>4, <3>5 DEF RoleRowsInv
    <2>7. BindingsInv'
      <3>1. lastRole \in Nat
        BY DEF CoreInv, RoleRowsInv
      <3> QED
        BY <2>3, <3>1, BindingsKept
    <2>8. registered' \in {{}, {Org}, {Org, Project}, Resources}
      BY <2>3 DEF CoreInv, TablesInv
    <2>9. o.kind # "check" /\ live' \subseteq live /\ bindings' \subseteq bindings
      BY <2>2, <2>3
    <2> QED
      BY <2>2, <2>3, <2>4, <2>6, <2>7, <2>8, <2>9, TableStep
  <1> QED
    BY <1>1, <1>2

\* Only a role that is not built in and that nobody holds is deleted.
LEMMA DeleteRoleCore ==
  ASSUME CoreInv, NEW c \in Proc, DeleteRole(c)
  PROVE  CoreInv'
  <1>1. CASE GetRole(op[c].id) = {} \/ \E b \in bindings : b.role = op[c].id
    <2>1. /\ To(c, "failed") /\ op[c].kind = "delete" /\ Store /\ Cache /\ Ghosts
          /\ live' = live /\ left' = left
      BY <1>1 DEF DeleteRole, Store, Rest
    <2> QED
      BY <2>1, FailedCore
  <1>2. CASE ~(GetRole(op[c].id) = {} \/ \E b \in bindings : b.role = op[c].id)
    <2> DEFINE o == [op[c] EXCEPT !.pc = "reload"]
    <2>1. op[c] \in DeleteOp /\ op[c].id > 3
      BY OpKinds DEF DeleteRole, CoreInv, OpInv, WriteInv, Validated
    <2>2. o \in OpType /\ o.kind = "delete" /\ o.pc = "reload"
      BY <2>1 DEF DeleteOp, OpType
    <2>3. /\ op' = [op EXCEPT ![c] = o] /\ roles' = roles \ GetRole(op[c].id) /\ lastRole' = lastRole
          /\ registered' = registered /\ bindings' = bindings /\ caps' = caps /\ left' = left
          /\ Cache /\ Ghosts /\ live' = live
      BY <1>2 DEF DeleteRole, To, Rest
    <2> HIDE DEF o
    <2>4. Validated(o)
      BY <2>2 DEF Validated
    <2>5. \A r \in roles : r \in roles' <=> r.id # op[c].id
      BY <2>3 DEF GetRole
    <2>6. RoleRowsInv'
      <3>1. \A r \in Builtin : r.id # op[c].id
        BY <2>1, BuiltinRows
      <3>2. roles' \subseteq roles
        BY <2>3
      <3>3. (\A r \in roles' : r \notin Builtin) \/ Builtin \subseteq roles'
        BY <2>5, <3>1, <3>2 DEF CoreInv, RoleRowsInv
      <3> QED
        BY <2>3, <3>2, <3>3 DEF CoreInv, RoleRowsInv
    <2>7. BindingsInv'
      <3>1. lastRole \in Nat
        BY DEF CoreInv, RoleRowsInv
      <3>2. \A b \in bindings', r \in roles : r.id = b.role => \E q \in roles' : q.id = b.role
        BY <1>2, <2>3, <2>5
      <3> QED
        BY <2>3, <3>1, <3>2, BindingsKept
    <2>8. registered' \in {{}, {Org}, {Org, Project}, Resources}
      BY <2>3 DEF CoreInv, TablesInv
    <2>9. o.kind # "check" /\ live' \subseteq live /\ bindings' \subseteq bindings
      BY <2>2, <2>3
    <2> QED
      BY <2>2, <2>3, <2>4, <2>6, <2>7, <2>8, <2>9, TableStep
  <1> QED
    BY <1>1, <1>2

\* A revocation removes bindings.
LEMMA RevokeRolesCore ==
  ASSUME CoreInv, NEW c \in Proc, RevokeRoles(c)
  PROVE  CoreInv'
  <1> DEFINE o == [op[c] EXCEPT !.pc = "reload"]
  <1>1. op[c] \in SubjectOp
    BY OpKinds DEF RevokeRoles, CoreInv, OpInv
  <1>2. o \in OpType /\ o.kind \in {"revoke", "deactivate"}
    BY <1>1 DEF SubjectOp, OpType
  <1>3. /\ op' = [op EXCEPT ![c] = o] /\ roles' = roles /\ lastRole' = lastRole
        /\ registered' = registered /\ bindings' \subseteq bindings /\ caps' = caps /\ left' = left
        /\ Cache /\ Ghosts /\ live' = live
    BY DEF RevokeRoles, To, Rest
  <1> HIDE DEF o
  <1>4. Validated(o)
    BY <1>2 DEF Validated
  <1>5. RoleRowsInv' /\ registered' \in {{}, {Org}, {Org, Project}, Resources}
    BY <1>3 DEF CoreInv, RoleRowsInv, TablesInv
  <1>6. BindingsInv'
    <2>1. lastRole \in Nat
      BY DEF CoreInv, RoleRowsInv
    <2> QED
      BY <1>3, <2>1, BindingsKept
  <1>7. o.kind # "check" /\ live' \subseteq live
    BY <1>2, <1>3
  <1> QED
    BY <1>2, <1>3, <1>4, <1>5, <1>6, <1>7, TableStep

\* A deactivation leaves the bindings.
LEMMA DeactivateCore ==
  ASSUME CoreInv, NEW c \in Proc, Deactivate(c)
  PROVE  CoreInv'
  <1> DEFINE o == [op[c] EXCEPT !.pc = "done"]
  <1>1. op[c] \in SubjectOp
    BY OpKinds DEF Deactivate, CoreInv, OpInv
  <1>2. o \in OpType /\ o.kind \in {"revoke", "deactivate"}
    BY <1>1 DEF SubjectOp, OpType
  <1>3. /\ op' = [op EXCEPT ![c] = o] /\ roles' = roles /\ lastRole' = lastRole
        /\ registered' = registered /\ bindings' = bindings /\ caps' = caps /\ left' = left
        /\ Cache /\ Ghosts /\ live' \subseteq live
    BY DEF Deactivate, To, Store
  <1> HIDE DEF o
  <1>4. Validated(o)
    BY <1>2 DEF Validated
  <1>5. RoleRowsInv' /\ registered' \in {{}, {Org}, {Org, Project}, Resources}
    BY <1>3 DEF CoreInv, RoleRowsInv, TablesInv
  <1>6. BindingsInv'
    BY <1>3 DEF CoreInv, BindingsInv, BindingsResolve, GetRole
  <1>7. o.kind # "check" /\ bindings' \subseteq bindings
    BY <1>2, <1>3
  <1> QED
    BY <1>2, <1>3, <1>4, <1>5, <1>6, <1>7, TableStep

\* The resource tree always has the parents of what it has.
LEMMA UpsertCore ==
  ASSUME CoreInv, NEW c \in Proc, UpsertAuthorizationResource(c)
  PROVE  CoreInv'
  <1>1. CASE Org \notin registered
    <2>1. /\ To(c, "failed") /\ op[c].kind = "record" /\ Store /\ Cache /\ Ghosts
          /\ live' = live /\ left' = left
      BY <1>1 DEF UpsertAuthorizationResource, Store, Rest
    <2> QED
      BY <2>1, FailedCore
  <1>2. CASE Org \in registered
    <2> DEFINE o == [op[c] EXCEPT !.pc = "reload"]
    <2>1. op[c] \in ResourceOp
      BY OpKinds DEF UpsertAuthorizationResource, CoreInv, OpInv
    <2>2. o \in OpType /\ o.kind \in {"record", "remove"}
      BY <2>1 DEF ResourceOp, OpType
    <2>3. /\ op' = [op EXCEPT ![c] = o] /\ roles' = roles /\ lastRole' = lastRole
          /\ registered' = registered \cup {Project, op[c].resource}
          /\ bindings' = bindings /\ caps' = caps /\ left' = left
          /\ Cache /\ Ghosts /\ live' = live
      BY <1>2 DEF UpsertAuthorizationResource, To, Rest
    <2> HIDE DEF o
    <2>4. Validated(o)
      BY <2>2 DEF Validated
    <2>5. RoleRowsInv'
      BY <2>3 DEF CoreInv, RoleRowsInv
    <2>6. registered' \in {{}, {Org}, {Org, Project}, Resources}
      <3>1. op[c].resource \in {Project, Env}
        BY <2>1 DEF ResourceOp
      <3>2. registered \in {{}, {Org}, {Org, Project}, {Org, Project, Env}}
        BY DEF CoreInv, TablesInv, Resources
      <3> QED
        BY <1>2, <2>3, <3>1, <3>2 DEF Resources
    <2>7. BindingsInv'
      BY <2>3 DEF CoreInv, BindingsInv, BindingsResolve, GetRole
    <2>8. o.kind # "check" /\ bindings' \subseteq bindings /\ live' \subseteq live
      BY <2>2, <2>3
    <2> QED
      BY <2>2, <2>3, <2>4, <2>5, <2>6, <2>7, <2>8, TableStep
  <1> QED
    BY <1>1, <1>2

\* A removed project takes its environment with it.
LEMMA DeleteResourceCore ==
  ASSUME CoreInv, NEW c \in Proc, DeleteAuthorizationResource(c)
  PROVE  CoreInv'
  <1> DEFINE o == [op[c] EXCEPT !.pc = "reload"]
  <1>1. op[c] \in ResourceOp
    BY OpKinds DEF DeleteAuthorizationResource, CoreInv, OpInv
  <1>2. o \in OpType /\ o.kind \in {"record", "remove"}
    BY <1>1 DEF ResourceOp, OpType
  <1>3. /\ op' = [op EXCEPT ![c] = o] /\ roles' = roles /\ lastRole' = lastRole
        /\ \/ registered' = registered \ {Project, Env}
           \/ registered' = registered \ {Env}
        /\ bindings' = bindings /\ caps' = caps /\ left' = left
        /\ Cache /\ Ghosts /\ live' = live
    BY DEF DeleteAuthorizationResource, To, Rest
  <1> HIDE DEF o
  <1>4. Validated(o)
    BY <1>2 DEF Validated
  <1>5. RoleRowsInv'
    BY <1>3 DEF CoreInv, RoleRowsInv
  <1>6. registered' \in {{}, {Org}, {Org, Project}, Resources}
    <2>1. registered \in {{}, {Org}, {Org, Project}, {Org, Project, Env}}
      BY DEF CoreInv, TablesInv, Resources
    <2>2. Org # Project /\ Org # Env /\ Project # Env
      BY DEF Org, Project, Env
    <2> QED
      BY <1>3, <2>1, <2>2
  <1>7. BindingsInv'
    BY <1>3 DEF CoreInv, BindingsInv, BindingsResolve, GetRole
  <1>8. o.kind # "check" /\ bindings' \subseteq bindings /\ live' \subseteq live
    BY <1>2, <1>3
  <1> QED
    BY <1>2, <1>3, <1>4, <1>5, <1>6, <1>7, <1>8, TableStep

-----------------------------------------------------------------------------
(* The steps that grant something.                                         *)

\* After a commit that grants something no check counts as refused for good.
LEMMA GrantingStep ==
  ASSUME CoreInv, NEW c \in Proc, NEW o \in OpType, Validated(o), o.kind # "check",
         op' = [Granting(op) EXCEPT ![c] = o]
  PROVE  OpInv' /\ CleanInv'
  <1>1. /\ OpInv' /\ op'[c] = o
        /\ \A d \in Proc : op'[d].kind = "check" => op'[d].clean = FALSE
    BY GrantStep DEF CoreInv
  <1> QED
    BY <1>1 DEF CleanInv, CleanOf

RoleRow == [id : Nat, name : RoleNames, perms : SUBSET PermsUsed,
            key : {"admin", "deployer", "viewer", "none"}]

\* An update keeps the id and the key of the role.
LEMMA UpdateRoleCore ==
  ASSUME CoreInv, NEW c \in Proc, UpdateRole(c)
  PROVE  CoreInv'
  <1> DEFINE found == GetRole(op[c].id)
  <1>1. CASE found = {} \/ NameTaken(op[c].name, op[c].id)
    <2>1. /\ To(c, "failed") /\ op[c].kind = "update" /\ Store /\ Cache /\ Ghosts
          /\ live' = live /\ left' = left
      BY <1>1 DEF UpdateRole, Store, Rest
    <2> QED
      BY <2>1, FailedCore
  <1>2. CASE ~(found = {} \/ NameTaken(op[c].name, op[c].id))
    <2> DEFINE o == [op[c] EXCEPT !.pc = "reload"]
    <2>1. op[c] \in UpdateOp /\ op[c].id > 3 /\ op[c].name \notin BuiltinNames
      BY OpKinds DEF UpdateRole, CoreInv, OpInv, WriteInv, Validated
    <2>2. o \in OpType /\ o.kind = "update" /\ o.pc = "reload"
      BY <2>1 DEF UpdateOp, OpType
    <2>3. /\ op' = [Granting(op) EXCEPT ![c].pc = "reload"]
          /\ roles' = (roles \ found) \cup
                   {[r EXCEPT !.name = op[c].name, !.perms = op[c].perms] : r \in found}
          /\ lastRole' = lastRole
          /\ registered' = registered /\ bindings' = bindings /\ caps' = caps /\ left' = left
          /\ Cache /\ Ghosts /\ live' = live
      BY <1>2 DEF UpdateRole, Rest
    <2>4. op' = [Granting(op) EXCEPT ![c] = o]
      <3>1. Granting(op)[c] = op[c]
        BY <2>1 DEF Granting, UpdateOp
      <3> QED
        BY <2>3, <3>1
    <2> HIDE DEF o
    <2>5. Validated(o)
      BY <2>2 DEF Validated
    <2>6. OpInv' /\ CleanInv'
      BY <2>2, <2>4, <2>5, GrantingStep
    <2>7. PICK old \in roles : old.id = op[c].id
      BY <1>2 DEF GetRole
    <2> DEFINE new == [old EXCEPT !.name = op[c].name, !.perms = op[c].perms]
    <2>8. found = {old} /\ roles' = (roles \ {old}) \cup {new}
      <3>1. found = {old}
        BY <2>7 DEF GetRole, CoreInv, RoleRowsInv
      <3> QED
        BY <2>3, <3>1
    <2>9. old \in RoleRow
      <3>1. /\ old.id \in Nat /\ old.name \in RoleNames /\ old.perms \in SUBSET PermsUsed
            /\ old.key \in {"admin", "deployer", "viewer", "none"}
            /\ old = [id |-> old.id, name |-> old.name, perms |-> old.perms, key |-> old.key]
        BY DEF CoreInv, RoleRowsInv
      <3> QED
        BY <3>1 DEF RoleRow
    <2>10. /\ new.id = old.id /\ new.key = old.key /\ new.name = op[c].name
           /\ new = [id |-> new.id, name |-> new.name, perms |-> new.perms, key |-> new.key]
           /\ new.name \in RoleNames \ BuiltinNames /\ new.perms # {} /\ new.perms \subseteq PermsUsed
      <3>1. op[c].name \in {"Admin", "Ops"} /\ op[c].perms \in RoleBodies
        BY <2>1 DEF UpdateOp
      <3>2. op[c].name \in RoleNames /\ op[c].perms # {} /\ op[c].perms \subseteq PermsUsed
        BY <3>1 DEF RoleNames, PermsUsed, RoleBodies
      <3>3. /\ new \in RoleRow /\ new.id = old.id /\ new.key = old.key
            /\ new.name = op[c].name /\ new.perms = op[c].perms
        BY <2>9, <3>2 DEF RoleRow
      <3> HIDE DEF new
      <3>4. new = [id |-> new.id, name |-> new.name, perms |-> new.perms, key |-> new.key]
        BY <3>3 DEF RoleRow
      <3> QED
        BY <2>1, <3>2, <3>3, <3>4
    <2> HIDE DEF new, found
    <2>11. RoleRowsInv'
      <3> USE DEF CoreInv
      <3>1. old \notin Builtin /\ old.key = "none" /\ old.id \in 1..lastRole /\ old.id > 3
        <4>1. old \notin Builtin
          BY <2>1, <2>7, BuiltinRows
        <4> QED
          BY <2>1, <2>7, <4>1 DEF RoleRowsInv
      <3>2. \A r \in roles \ {old} : r.id # new.id /\ r.name # new.name
        BY <1>2, <2>7, <2>10 DEF NameTaken, RoleRowsInv
      <3>3. \A r, q \in roles' : (r.id = q.id \/ r.name = q.name) => r = q
        BY <2>8, <3>2 DEF RoleRowsInv
      <3>4. ASSUME NEW r \in roles'
            PROVE  /\ r.id \in 1..lastRole' /\ r.name \in RoleNames
                   /\ r.perms # {} /\ r.perms \subseteq PermsUsed
                   /\ r.key \in {"admin", "deployer", "viewer", "none"}
                   /\ r = [id |-> r.id, name |-> r.name, perms |-> r.perms, key |-> r.key]
                   /\ r.name \in BuiltinNames \/ r.key # "none" => r \in Builtin
                   /\ r.key = "none" => r.id > 3
        <4>1. CASE r \in roles
          BY <2>3, <4>1 DEF RoleRowsInv
        <4>2. CASE r = new
          BY <2>3, <2>10, <3>1, <4>2
        <4> QED
          BY <2>8, <4>1, <4>2
      <3>5. (\A r \in roles' : r \notin Builtin) \/ Builtin \subseteq roles'
        <4>1. new \notin Builtin
          BY <2>10, BuiltinRows
        <4> QED
          BY <2>8, <3>1, <4>1 DEF RoleRowsInv
      <3>6. lastRole' \in Nat /\ lastRole' >= 3
        BY <2>3 DEF RoleRowsInv
      <3> QED
        BY <3>3, <3>4, <3>5, <3>6 DEF RoleRowsInv
    <2>12. BindingsInv'
      <3>1. lastRole \in Nat
        BY DEF CoreInv, RoleRowsInv
      <3>2. \A b \in bindings', r \in roles : r.id = b.role => \E q \in roles' : q.id = b.role
        BY <2>8, <2>10
      <3>3. lastRole' = lastRole /\ bindings' = bindings
        BY DEF UpdateRole
      <3> QED
        BY <3>1, <3>2, <3>3, BindingsKept
    <2>13. TablesInv' /\ CacheInv' /\ GoneInv' /\ UnregisteredInv'
      BY <2>3 DEF CoreInv, TablesInv, CacheInv, GoneInv, UnregisteredInv, Cache, Ghosts
    <2> QED
      BY <2>6, <2>11, <2>12, <2>13 DEF CoreInv
  <1> QED
    BY <1>1, <1>2

\* A binding is inserted only to a role that exists, and its subject is not
\* gone any more.
LEMMA GrantRoleCore ==
  ASSUME CoreInv, NEW c \in Proc, GrantRole(c)
  PROVE  CoreInv'
  <1>1. CASE GetRole(op[c].id) = {}
    <2>1. /\ To(c, "failed") /\ op[c].kind = "grant" /\ Store /\ Cache /\ Ghosts
          /\ live' = live /\ left' = left
      BY <1>1 DEF GrantRole, Store, Rest, Ghosts
    <2> QED
      BY <2>1, FailedCore
  <1>2. CASE GetRole(op[c].id) # {}
    <2> DEFINE o == [op[c] EXCEPT !.pc = "reload"]
               new == [sub |-> op[c].sub, role |-> op[c].id, scope |-> op[c].scope]
    <2>1. op[c] \in GrantOp
      BY OpKinds DEF GrantRole, CoreInv, OpInv
    <2>2. o \in OpType /\ o.kind = "grant"
      BY <2>1 DEF GrantOp, OpType
    <2>3. /\ op' = [Granting(op) EXCEPT ![c].pc = "reload"]
          /\ roles' = roles /\ lastRole' = lastRole /\ registered' = registered
          /\ bindings' = bindings \cup {new} /\ gone' = gone \ {op[c].sub}
          /\ caps' = caps /\ left' = left /\ unregistered' = unregistered
          /\ Cache /\ live' = live
      BY <1>2 DEF GrantRole, Rest
    <2>4. op' = [Granting(op) EXCEPT ![c] = o]
      <3>1. Granting(op)[c] = op[c]
        BY <2>1 DEF Granting, GrantOp
      <3> QED
        BY <2>3, <3>1
    <2> HIDE DEF o
    <2>5. Validated(o) /\ o.kind # "check"
      BY <2>2 DEF Validated
    <2>6. OpInv' /\ CleanInv'
      BY <2>2, <2>4, <2>5, GrantingStep
    <2>7. PICK r \in roles : r.id = op[c].id
      BY <1>2 DEF GetRole
    <2>8. new \in [sub : Subject, role : 1..lastRole, scope : Resources]
      BY <2>1, <2>7 DEF GrantOp, Resources, CoreInv, RoleRowsInv
    <2>9. RoleRowsInv'
      BY <2>3 DEF CoreInv, RoleRowsInv
    <2>10. BindingsInv'
      BY <2>3, <2>7, <2>8 DEF CoreInv, BindingsInv, BindingsResolve, GetRole
    <2>11. TablesInv' /\ CacheInv' /\ UnregisteredInv'
      BY <2>3 DEF CoreInv, TablesInv, CacheInv, UnregisteredInv, Cache
    <2>12. GoneInv'
      BY <2>3 DEF CoreInv, GoneInv, Cache
    <2> QED
      BY <2>6, <2>9, <2>10, <2>11, <2>12 DEF CoreInv
  <1> QED
    BY <1>1, <1>2

\* A plugin's capabilities are replaced; those that are registered again are
\* not withdrawn any more.
LEMMA ReplaceCore ==
  ASSUME CoreInv, NEW c \in Proc, ReplacePluginCapabilities(c)
  PROVE  CoreInv'
  <1> DEFINE o == [op[c] EXCEPT !.pc = "reload"]
  <1>1. op[c] \in ReplaceOp
    BY OpKinds DEF ReplacePluginCapabilities, CoreInv, OpInv
  <1>2. o \in OpType /\ o.kind = "replace"
    BY <1>1 DEF ReplaceOp, OpType
  <1>3. /\ op' = [Granting(op) EXCEPT ![c].pc = "reload"]
        /\ roles' = roles /\ lastRole' = lastRole /\ registered' = registered
        /\ bindings' = bindings /\ gone' = gone
        /\ caps' = op[c].scopes /\ left' = left /\ unregistered' = unregistered \ op[c].scopes
        /\ Cache /\ live' = live
    BY DEF ReplacePluginCapabilities, Rest
  <1>4. op' = [Granting(op) EXCEPT ![c] = o]
    <2>1. Granting(op)[c] = op[c]
      BY <1>1 DEF Granting, ReplaceOp
    <2> QED
      BY <1>3, <2>1
  <1> HIDE DEF o
  <1>5. Validated(o) /\ o.kind # "check"
    BY <1>2 DEF Validated
  <1>6. OpInv' /\ CleanInv'
    BY <1>2, <1>4, <1>5, GrantingStep
  <1>7. RoleRowsInv'
    BY <1>3 DEF CoreInv, RoleRowsInv
  <1>8. BindingsInv'
    BY <1>3 DEF CoreInv, BindingsInv, BindingsResolve, GetRole
  <1>9. TablesInv' /\ CacheInv'
    BY <1>1, <1>3 DEF ReplaceOp, CoreInv, TablesInv, CacheInv, Cache
  <1>10. GoneInv' /\ UnregisteredInv'
    BY <1>3 DEF CoreInv, GoneInv, UnregisteredInv, Cache
  <1> QED
    BY <1>6, <1>7, <1>8, <1>9, <1>10 DEF CoreInv

-----------------------------------------------------------------------------
(* The reload.                                                             *)

\* The grants that the policy is loaded with are those of bindings and roles
\* that exist.
LEMMA PoliciesType ==
  ASSUME CoreInv
  PROVE  /\ ListAuthorizationPolicies \subseteq [sub : Subject, scope : Resources, perm : PermsUsed]
         /\ \A g \in ListAuthorizationPolicies : \E b \in bindings : b.sub = g.sub /\ b.scope = g.scope
  <1>1. ASSUME NEW g \in ListAuthorizationPolicies
        PROVE  \E b \in bindings, r \in roles :
                 /\ g = [sub |-> b.sub, scope |-> b.scope, perm |-> g.perm]
                 /\ r.id = b.role /\ g.perm \in r.perms
    BY DEF ListAuthorizationPolicies, GetRole
  <1>2. bindings \subseteq [sub : Subject, role : 1..lastRole, scope : Resources]
    BY DEF CoreInv, BindingsInv
  <1>3. \A r \in roles : r.perms \subseteq PermsUsed
    BY DEF CoreInv, RoleRowsInv
  <1>4. ASSUME NEW g \in ListAuthorizationPolicies
        PROVE  /\ g \in [sub : Subject, scope : Resources, perm : PermsUsed]
               /\ \E b \in bindings : b.sub = g.sub /\ b.scope = g.scope
    <2>1. PICK b \in bindings, r \in roles :
                 /\ g = [sub |-> b.sub, scope |-> b.scope, perm |-> g.perm]
                 /\ r.id = b.role /\ g.perm \in r.perms
      BY <1>1
    <2> QED
      BY <1>2, <1>3, <2>1
  <1> QED
    BY <1>4

\* A request that waits for a reload is no check, and goes on to its answer.
LEMMA ReloadingOp ==
  ASSUME CoreInv, NEW c \in Proc, op[c].pc = "reload", NEW pc \in {"failed", "done"},
         NEW o, o = [op[c] EXCEPT !.pc = pc]
  PROVE  /\ o \in OpType /\ o.kind = op[c].kind /\ o.pc = pc /\ o.kind # "check"
         /\ (o.kind = "revoke" => op[c].sub \in Subject) /\ Validated(o)
  <1>1. op[c] \in OpType /\ op[c].pc = "reload"
    BY DEF CoreInv, OpInv
  <1>2. o \in OpType /\ o.kind = op[c].kind /\ o.pc = pc /\ o.kind # "check" /\ (o.kind = "revoke" => op[c].sub \in Subject)
    <2>1. CASE op[c] \in CreateOp
      BY <2>1 DEF CreateOp, OpType
    <2>2. CASE op[c] \in UpdateOp
      BY <2>2 DEF UpdateOp, OpType
    <2>3. CASE op[c] \in DeleteOp
      BY <2>3 DEF DeleteOp, OpType
    <2>4. CASE op[c] \in GrantOp
      BY <2>4 DEF GrantOp, OpType
    <2>5. CASE op[c] \in SubjectOp
      BY <2>5 DEF SubjectOp, OpType
    <2>6. CASE op[c] \in ResourceOp
      BY <2>6 DEF ResourceOp, OpType
    <2>7. CASE op[c] \in ReplaceOp
      BY <2>7 DEF ReplaceOp, OpType
    <2>8. op[c] \notin ListOp /\ op[c] \notin CheckOp /\ op[c] # NoOp
      BY <1>1 DEF ListOp, CheckOp, NoOp
    <2>9. \/ op[c] \in CreateOp \/ op[c] \in UpdateOp \/ op[c] \in DeleteOp \/ op[c] \in GrantOp
          \/ op[c] \in SubjectOp \/ op[c] \in ResourceOp \/ op[c] \in ReplaceOp
      BY <1>1, <2>8 DEF OpType
    <2> QED
      BY <2>1, <2>2, <2>3, <2>4, <2>5, <2>6, <2>7, <2>9
  <1> QED
    BY <1>2 DEF Validated

\* A request that has written reloads the policy before it is answered: what it
\* took away is then neither in the snapshot nor in the cache.
LEMMA ReloadCore ==
  ASSUME CoreInv, NEW c \in Proc, ReloadAfterWrite(c)
  PROVE  CoreInv'
  <1> DEFINE o == [op[c] EXCEPT !.pc = "done"]
  <1>1. /\ op[c] \in OpType /\ op[c].pc = "reload"
        /\ Reading = {} /\ policy' = LoadPolicy /\ known' = {} /\ Store /\ live' = live /\ left' = left
        /\ op' = [op EXCEPT ![c] = o]
    BY DEF ReloadAfterWrite, ReloadPolicy, Rest, To, CoreInv, OpInv
  <1>2. /\ o \in OpType /\ o.kind = op[c].kind /\ o.pc = "done" /\ o.kind # "check"
        /\ (o.kind = "revoke" => op[c].sub \in Subject) /\ Validated(o)
    BY <1>1, ReloadingOp
  <1> HIDE DEF o
  <1>3. /\ gone \subseteq gone' /\ gone' \subseteq Subject
        /\ \A s \in gone' : \A b \in bindings : b.sub # s
    <2>1. gone' = IF op[c].kind # "revoke" \/ \E b \in bindings : b.sub = op[c].sub
                  THEN gone ELSE gone \cup {op[c].sub}
      BY DEF ReloadAfterWrite
    <2>2. gone \subseteq Subject /\ \A s \in gone : \A b \in bindings : b.sub # s
      BY DEF CoreInv, TablesInv, GoneInv
    <2> QED
      BY <1>2, <2>1, <2>2
  <1>4. unregistered \subseteq unregistered' /\ unregistered' \subseteq Scopes /\ unregistered' \cap caps = {}
    <2>1. unregistered' = IF op[c].kind = "replace" THEN Scopes \ caps ELSE unregistered
      BY DEF ReloadAfterWrite
    <2>2. unregistered \subseteq Scopes /\ unregistered \cap caps = {}
      BY DEF CoreInv, TablesInv, UnregisteredInv
    <2> QED
      BY <2>1, <2>2
  <1>6. OpInv' /\ op'[c] = o /\ \A d \in Proc : d # c => op'[d] = op[d]
    BY <1>1, <1>2, OpStep DEF CoreInv
  <1>7. CleanInv'
    BY <1>1, <1>2, <1>3, <1>4, <1>6, CheckFrame
  <1>8. RoleRowsInv'
    BY <1>1 DEF CoreInv, RoleRowsInv, Store
  <1>9. BindingsInv'
    BY <1>1 DEF CoreInv, BindingsInv, BindingsResolve, GetRole, Store
  <1>10. TablesInv'
    BY <1>1, <1>3, <1>4 DEF CoreInv, TablesInv, Store
  <1>11. policy'.grants = ListAuthorizationPolicies
    BY <1>1 DEF LoadPolicy
  <1>12. CacheInv'
    BY <1>1, <1>11, PoliciesType DEF CacheInv
  <1>13. GoneInv'
    <2>1. \A s \in gone' : \A g \in policy'.grants : g.sub # s
      BY <1>3, <1>11, PoliciesType
    <2> QED
      BY <1>1, <1>3, <2>1 DEF GoneInv, Store
  <1>14. UnregisteredInv'
    BY <1>1, <1>4 DEF UnregisteredInv, Store
  <1> QED
    BY <1>6, <1>7, <1>8, <1>9, <1>10, <1>12, <1>13, <1>14 DEF CoreInv

\* A reload that fails leaves an empty cache and the old snapshot or the new one;
\* nothing more counts as taken away.
LEMMA ReloadFailsCore ==
  ASSUME CoreInv, NEW c \in Proc, ReloadFails(c)
  PROVE  CoreInv'
  <1> DEFINE o == [op[c] EXCEPT !.pc = "failed"]
  <1>1. /\ op[c].pc = "reload" /\ policy' \in {policy, LoadPolicy} /\ known' = {}
        /\ Store /\ Ghosts /\ live' = live /\ left' = left
        /\ op' = [op EXCEPT ![c] = o]
    BY DEF ReloadFails, Rest, To
  <1>2. o \in OpType /\ o.kind # "check" /\ Validated(o)
    BY <1>1, ReloadingOp
  <1> HIDE DEF o
  <1>3. OpInv' /\ op'[c] = o /\ \A d \in Proc : d # c => op'[d] = op[d]
    BY <1>1, <1>2, OpStep DEF CoreInv
  <1>4. CleanInv'
    BY <1>1, <1>2, <1>3, CheckFrame DEF Ghosts
  <1>5. RoleRowsInv' /\ TablesInv'
    BY <1>1 DEF CoreInv, RoleRowsInv, TablesInv, Store, Ghosts
  <1>6. BindingsInv'
    BY <1>1 DEF CoreInv, BindingsInv, BindingsResolve, GetRole, Store
  <1>7. policy'.grants \in {policy.grants, ListAuthorizationPolicies}
    BY <1>1 DEF LoadPolicy
  <1>8. CacheInv'
    BY <1>1, <1>7, PoliciesType DEF CoreInv, CacheInv
  <1>9. GoneInv'
    <2>1. \A s \in gone : \A g \in policy'.grants : g.sub # s
      BY <1>7, PoliciesType DEF CoreInv, GoneInv
    <2> QED
      BY <1>1, <2>1 DEF CoreInv, GoneInv, Store, Ghosts
  <1>10. UnregisteredInv'
    BY <1>1 DEF CoreInv, UnregisteredInv, Store, Ghosts
  <1> QED
    BY <1>3, <1>4, <1>5, <1>6, <1>8, <1>9, <1>10 DEF CoreInv

-----------------------------------------------------------------------------
(* Checks.                                                                 *)

\* One check moves on, with nothing else changed but the cache.
LEMMA CheckStep ==
  ASSUME CoreInv, NEW c \in Proc, NEW o \in CheckOp, op' = [op EXCEPT ![c] = o], CleanOf(o),
         o.pc \in {"ask", "looked", "loaded"} => o.resource \in {"org:o", Org, Env},
         Store, Ghosts, live' = live, policy' = policy, left' \in 0..MaxOps, CacheInv', UnregisteredInv'
  PROVE  CoreInv'
  <1>1. o \in OpType /\ o.kind = "check"
    BY DEF OpType, CheckOp
  <1>2. Validated(o)
    BY <1>1 DEF Validated
  <1>3. OpInv' /\ op'[c] = o /\ \A d \in Proc : d # c => op'[d] = op[d]
    BY <1>1, <1>2, OpStep DEF CoreInv
  <1>4. RoleRowsInv'
    BY DEF CoreInv, RoleRowsInv, Store
  <1>5. BindingsInv'
    BY DEF CoreInv, BindingsInv, BindingsResolve, GetRole, Store
  <1>6. TablesInv' /\ GoneInv'
    BY DEF CoreInv, TablesInv, GoneInv, Store, Ghosts
  <1>7. CleanInv'
    <2> SUFFICES ASSUME NEW d \in Proc PROVE CleanOf(op[d])'
      BY DEF CleanInv
    <2>1. gone' = gone /\ unregistered' = unregistered
      BY DEF Ghosts
    <2>2. CASE d = c
      BY <1>3, <2>1, <2>2 DEF CleanOf, Lost, Withdrawn
    <2>3. CASE d # c
      <3>1. CleanOf(op[d]) /\ op'[d] = op[d]
        BY <1>3, <2>3 DEF CoreInv, CleanInv
      <3> QED
        BY <2>1, <3>1 DEF CleanOf, Lost, Withdrawn
    <2> QED
      BY <2>2, <2>3
  <1> QED
    BY <1>3, <1>4, <1>5, <1>6, <1>7 DEF CoreInv

\* A check starts; it knows whether its right had been taken away.
LEMMA CheckBeginCore ==
  ASSUME CoreInv, NEW c \in Proc, NEW s \in Subject, NEW q \in Questions, NEW public \in BOOLEAN,
         Begin(c, Check(s, q.resource, q.perm, public))
  PROVE  CoreInv'
  <1> DEFINE o == Check(s, q.resource, q.perm, public)
  <1>1. q.resource \in Asked /\ q.perm \in AskedPerms
    BY DEF Questions, Asked, AskedPerms
  <1>2. o \in CheckOp
    BY <1>1 DEF Check, CheckOp
  <1>3. CleanOf(o)
    <2> DEFINE lost == s \in gone /\ q.resource # PlatformResource
               dead == s \notin live /\ ~public
               withdrawn == q.perm = Plugin /\ ScopeOf(q.resource) \in unregistered
               right == lost \/ dead \/ withdrawn
    <2>1. /\ o.kind = "check" /\ o.pc = "begin" /\ o.sub = s /\ o.resource = q.resource
          /\ o.perm = q.perm /\ o.public = public /\ o.allowed = FALSE
          /\ o.clean = right
      BY DEF Check
    <2> HIDE DEF o
    <2>2. right => Lost(o) \/ Withdrawn(o) \/ (o.sub \notin live /\ ~o.public)
      BY <2>1 DEF Lost, Withdrawn
    <2> HIDE DEF right
    <2> QED
      BY <2>1, <2>2 DEF CleanOf
  <1>4. left' \in 0..MaxOps
    BY DEF Begin, CoreInv, TablesInv
  <1>7. o.pc = "begin"
    BY DEF Check
  <1> HIDE DEF o
  <1>5. op' = [op EXCEPT ![c] = o] /\ Store /\ Ghosts /\ Cache /\ live' = live
    BY DEF Begin, Become, Rest, o
  <1>6. CacheInv' /\ UnregisteredInv' /\ policy' = policy
    BY <1>5, <1>4, Frame DEF Cache
  <1> QED
    BY <1>2, <1>3, <1>4, <1>5, <1>6, <1>7, CheckStep

\* A check that is in the database's and the cache's hands is about a resource
\* of the tree.
LEMMA ScopeFacts ==
  /\ ScopeOf("org:o") = "organization" /\ ScopeOf(Org) = "organization" /\ ScopeOf(Env) = "environment"
  /\ ScopeOf(PlatformResource) = Invalid /\ ScopeOf("user:u") = Invalid
  /\ NormalizeResource("org:o") = Org /\ NormalizeResource(Org) = Org /\ NormalizeResource(Env) = Env
  /\ Invalid \notin Scopes
  /\ ParseResource("user:u") = Invalid /\ ParseResource(PlatformResource) = Invalid
  BY DEF ScopeOf, ParseResource, NormalizeResource, Org, Project, Env, PlatformResource, Invalid, Scopes

\* What the authentication and the resource settle before the authorizer is asked.
LEMMA InternalAuthorizeCore ==
  ASSUME CoreInv, NEW c \in Proc, InternalAuthorizeInner(c)
  PROVE  CoreInv'
  <1>1. op[c] \in CheckOp /\ op[c].pc = "begin" /\ ~op[c].public /\ CleanOf(op[c]) /\ op[c].kind = "check"
    BY OpKinds DEF InternalAuthorizeInner, CoreInv, OpInv, CleanInv
  <1>2. /\ Store /\ Cache /\ Ghosts /\ live' = live /\ policy' = policy /\ left' = left
        /\ left' \in 0..MaxOps
    BY DEF InternalAuthorizeInner, Rest, Cache, CoreInv, TablesInv
  <1>3. CacheInv' /\ UnregisteredInv'
    BY <1>2, Frame
  <1>4. unregistered \subseteq Scopes
    BY DEF CoreInv, TablesInv
  <1>5. ASSUME NEW v \in BOOLEAN, op[c].clean => ~v, Decided(c, v)
        PROVE  CoreInv'
    <2> DEFINE o == [op[c] EXCEPT !.pc = "done", !.allowed = v]
    <2>1. op' = [op EXCEPT ![c] = o]
      BY <1>5 DEF Decided
    <2>2. o \in CheckOp /\ o.pc = "done" /\ o.allowed = v /\ o.clean = op[c].clean
      BY <1>1 DEF CheckOp
    <2> HIDE DEF o
    <2>3. CleanOf(o)
      BY <1>5, <2>2 DEF CleanOf
    <2> QED
      BY <1>2, <1>3, <2>1, <2>2, <2>3, CheckStep
  <1>6. CASE ~IsAuthorizationSubjectActive(op[c].sub)
    <2>1. Decided(c, FALSE)
      BY <1>6 DEF InternalAuthorizeInner
    <2> QED
      BY <1>5, <2>1
  <1>7. CASE IsAuthorizationSubjectActive(op[c].sub) /\ op[c].resource = PlatformResource
    <2>1. Decided(c, holdsPlatformPermission(op[c].sub))
      BY <1>7 DEF InternalAuthorizeInner
    <2>2. ~op[c].clean
      BY <1>1, <1>4, <1>7, ScopeFacts DEF CleanOf, Lost, Withdrawn, IsAuthorizationSubjectActive
    <2>3. holdsPlatformPermission(op[c].sub) \in BOOLEAN
      BY DEF holdsPlatformPermission
    <2> QED
      BY <1>5, <2>1, <2>2, <2>3
  <1>8. CASE IsAuthorizationSubjectActive(op[c].sub) /\ op[c].resource # PlatformResource
    <2>1. CASE ParseResource(op[c].resource) = Invalid
      <3>1. Decided(c, FALSE)
        BY <1>8, <2>1 DEF InternalAuthorizeInner
      <3> QED
        BY <1>5, <3>1
    <2>2. CASE ParseResource(op[c].resource) # Invalid
      <3> DEFINE p == IF op[c].perm = "member" THEN "read" ELSE op[c].perm
                 o == [op[c] EXCEPT !.pc = "ask", !.perm = p]
      <3>1. op' = [op EXCEPT ![c] = o]
        BY <1>8, <2>2 DEF InternalAuthorizeInner
      <3>2. p \in AskedPerms /\ (op[c].perm = Plugin => p = Plugin)
        BY <1>1 DEF CheckOp, AskedPerms, Plugin
      <3> HIDE DEF p
      <3>3. /\ o \in CheckOp /\ o.pc = "ask" /\ o.perm = p /\ o.clean = op[c].clean
            /\ o.allowed = op[c].allowed /\ o.sub = op[c].sub /\ o.resource = op[c].resource
        BY <1>1, <3>2 DEF CheckOp
      <3> HIDE DEF o
      <3>5. o.resource \in {"org:o", Org, Env}
        BY <1>1, <1>8, <2>2, <3>3, ScopeFacts DEF CheckOp, Asked
      <3>4. CleanOf(o)
        BY <1>1, <1>8, <3>2, <3>3 DEF CleanOf, Lost, Withdrawn, IsAuthorizationSubjectActive
      <3> QED
        BY <1>2, <1>3, <3>1, <3>3, <3>4, <3>5, CheckStep
    <2> QED
      BY <2>1, <2>2
  <1> QED
    BY <1>6, <1>7, <1>8

\* The public endpoint leaves the liveness of the caller to its authentication.
LEMMA CheckPermissionsCore ==
  ASSUME CoreInv, NEW c \in Proc, CheckPermissions(c)
  PROVE  CoreInv'
  <1>1. op[c] \in CheckOp /\ op[c].pc = "begin" /\ op[c].public /\ CleanOf(op[c]) /\ op[c].kind = "check"
    BY OpKinds DEF CheckPermissions, CoreInv, OpInv, CleanInv
  <1>2. /\ Store /\ Cache /\ Ghosts /\ live' = live /\ policy' = policy /\ left' = left
        /\ left' \in 0..MaxOps
    BY DEF CheckPermissions, Rest, Cache, CoreInv, TablesInv
  <1>3. CacheInv' /\ UnregisteredInv'
    BY <1>2, Frame
  <1>4. unregistered \subseteq Scopes
    BY DEF CoreInv, TablesInv
  <1>5. CASE op[c].resource = PlatformResource
    <2> DEFINE v == holdsPlatformPermission(op[c].sub)
               o == [op[c] EXCEPT !.pc = "done", !.allowed = v]
    <2>1. op' = [op EXCEPT ![c] = o]
      BY <1>5 DEF CheckPermissions, Decided
    <2>2. v \in BOOLEAN
      BY DEF holdsPlatformPermission
    <2> HIDE DEF v
    <2>3. o \in CheckOp /\ o.clean = op[c].clean /\ o.pc = "done"
      BY <1>1, <2>2 DEF CheckOp
    <2>4. ~op[c].clean
      BY <1>1, <1>4, <1>5, ScopeFacts DEF CleanOf, Lost, Withdrawn
    <2> HIDE DEF o
    <2>5. CleanOf(o)
      BY <2>3, <2>4 DEF CleanOf
    <2> QED
      BY <1>2, <1>3, <2>1, <2>3, <2>5, CheckStep
  <1>6. CASE op[c].resource # PlatformResource
    <2> DEFINE x == IF ParseResource(op[c].resource) = Invalid THEN "failed" ELSE "ask"
               o == [op[c] EXCEPT !.pc = x]
    <2>1. op' = [op EXCEPT ![c] = o]
      BY <1>6 DEF CheckPermissions, To
    <2>2. x \in {"failed", "ask"} /\ (x = "ask" => op[c].resource \in {"org:o", Org, Env})
      BY <1>1, <1>6, ScopeFacts DEF CheckOp, Asked
    <2> HIDE DEF x
    <2>3. /\ o \in CheckOp /\ o.pc = x /\ o.perm = op[c].perm /\ o.clean = op[c].clean
          /\ o.allowed = op[c].allowed /\ o.sub = op[c].sub /\ o.resource = op[c].resource
      BY <1>1, <2>2 DEF CheckOp
    <2> HIDE DEF o
    <2>4. CleanOf(o)
      BY <1>1, <2>2, <2>3 DEF CleanOf, Lost, Withdrawn
    <2>5. o.pc \in {"ask", "looked", "loaded"} => o.resource \in {"org:o", Org, Env}
      BY <2>2, <2>3
    <2> QED
      BY <1>2, <1>3, <2>1, <2>3, <2>4, <2>5, CheckStep
  <1> QED
    BY <1>5, <1>6

\* Normalising a resource that was parsed keeps its scope.
LEMMA NormalizeFacts ==
  ASSUME NEW r \in {"org:o", Org, Env}
  PROVE  /\ NormalizeResource(r) \in {Org, Env} /\ NormalizeResource(r) \in Asked
         /\ NormalizeResource(r) # PlatformResource /\ r # PlatformResource
         /\ ScopeOf(NormalizeResource(r)) = ScopeOf(r)
  <1>1. /\ Org # PlatformResource /\ Env # PlatformResource /\ "org:o" # PlatformResource
        /\ Org \in Asked /\ Env \in Asked
    BY DEF Org, Env, PlatformResource, Asked
  <1> QED
    BY <1>1, ScopeFacts

\* The cache is asked about a custom permission: it knows of none that was
\* withdrawn.
LEMMA AuthorizeCore ==
  ASSUME CoreInv, NEW c \in Proc, Authorize(c)
  PROVE  CoreInv'
  <1>1. /\ op[c] \in CheckOp /\ op[c].pc = "ask" /\ CleanOf(op[c]) /\ op[c].kind = "check"
        /\ op[c].resource \in {"org:o", Org, Env}
    BY OpKinds DEF Authorize, CoreInv, OpInv, CleanInv, WriteInv, Validated
  <1>2. /\ Store /\ Cache /\ Ghosts /\ live' = live /\ policy' = policy /\ left' = left
        /\ left' \in 0..MaxOps
    BY DEF Authorize, Rest, Cache, CoreInv, TablesInv
  <1>3. CacheInv' /\ UnregisteredInv'
    BY <1>2, Frame
  <1> DEFINE r == NormalizeResource(op[c].resource)
             cached == GetPermission(r, op[c].perm)
             x == IF isCustomPermission(op[c].perm) /\ cached = {} THEN "looked" ELSE "loaded"
             v == IF isCustomPermission(op[c].perm) THEN \E k \in cached : k.yes ELSE TRUE
             o == [op[c] EXCEPT !.pc = x, !.resource = r, !.valid = v]
  <1>4. op' = [op EXCEPT ![c] = o]
    BY DEF Authorize
  <1>5. x \in {"looked", "loaded"} /\ v \in BOOLEAN
    OBVIOUS
  <1>6. r \in {Org, Env} /\ r \in Asked /\ r # PlatformResource /\ ScopeOf(r) = ScopeOf(op[c].resource)
    BY <1>1, NormalizeFacts
  <1>7. Withdrawn(op[c]) => ~v
    <2> SUFFICES ASSUME Withdrawn(op[c]) PROVE ~v
      OBVIOUS
    <2>1. op[c].perm = Plugin /\ ScopeOf(r) \in unregistered
      BY <1>6 DEF Withdrawn
    <2>2. isCustomPermission(Plugin)
      BY DEF isCustomPermission, IsAssignableRolePermission, FindPermission, permissionCatalog, ReadLevel,
             WriteLevel, ManageLevel, legacyRolePermissions, Plugin
    <2>3. ASSUME NEW k \in cached PROVE ~k.yes
      <3>1. k \in known /\ k.resource = r /\ k.perm = Plugin
        BY <2>1, <2>3 DEF GetPermission
      <3> QED
        BY <2>1, <3>1 DEF CoreInv, UnregisteredInv
    <2> QED
      BY <2>1, <2>2, <2>3
  <1> HIDE DEF x, v, r
  <1>8. /\ o \in CheckOp /\ o.pc = x /\ o.perm = op[c].perm /\ o.clean = op[c].clean /\ o.valid = v
        /\ o.allowed = op[c].allowed /\ o.sub = op[c].sub /\ o.resource = r
    BY <1>1, <1>5, <1>6 DEF CheckOp
  <1> HIDE DEF o
  <1>9. CleanOf(o)
    <2> SUFFICES ASSUME op[c].clean
                 PROVE  /\ ~o.allowed /\ (o.pc = "looked" => Lost(o) \/ Withdrawn(o))
                        /\ o.pc = "loaded" => Lost(o) \/ ~o.valid
      BY <1>5, <1>8 DEF CleanOf
    <2>1. ~op[c].allowed /\ (Lost(op[c]) \/ Withdrawn(op[c]))
      BY <1>1 DEF CleanOf
    <2>2. Lost(op[c]) => Lost(o)
      BY <1>6, <1>8 DEF Lost
    <2>3. Withdrawn(op[c]) => Withdrawn(o)
      BY <1>6, <1>8 DEF Withdrawn
    <2> QED
      BY <1>7, <1>8, <2>1, <2>2, <2>3
  <1>10. o.pc \in {"ask", "looked", "loaded"} => o.resource \in {"org:o", Org, Env}
    BY <1>6, <1>8
  <1> QED
    BY <1>2, <1>3, <1>4, <1>8, <1>9, <1>10, CheckStep

\* A miss is answered from the database and remembered: a capability that was
\* withdrawn is not known there either.
LEMMA KnownCore ==
  ASSUME CoreInv, NEW c \in Proc, knownCustomPermissions(c)
  PROVE  CoreInv'
  <1>1. /\ op[c] \in CheckOp /\ op[c].pc = "looked" /\ CleanOf(op[c]) /\ op[c].kind = "check"
        /\ op[c].resource \in {"org:o", Org, Env}
    BY OpKinds DEF knownCustomPermissions, CoreInv, OpInv, CleanInv, WriteInv, Validated
  <1> DEFINE yes == ListKnownAuthorizationPermissions(op[c].resource, op[c].perm)
             o == [op[c] EXCEPT !.pc = "loaded", !.valid = yes]
             k0 == [resource |-> op[c].resource, perm |-> op[c].perm, yes |-> yes]
  <1>2. /\ Store /\ Ghosts /\ live' = live /\ policy' = policy /\ left' = left
        /\ left' \in 0..MaxOps /\ op' = [op EXCEPT ![c] = o]
        /\ known' = (known \ GetPermission(op[c].resource, op[c].perm)) \cup {k0}
    BY DEF knownCustomPermissions, Rest, CoreInv, TablesInv, SetPermission
  <1>3. yes \in BOOLEAN
    BY DEF ListKnownAuthorizationPermissions
  <1>4. op[c].perm = Plugin /\ yes => ScopeOf(op[c].resource) \notin unregistered
    BY DEF ListKnownAuthorizationPermissions, CoreInv, UnregisteredInv
  <1> HIDE DEF yes
  <1>5. /\ k0 \in [resource : Asked, perm : AskedPerms, yes : BOOLEAN]
        /\ k0.resource = op[c].resource /\ k0.perm = op[c].perm /\ k0.yes = yes
    BY <1>1, <1>3 DEF CheckOp
  <1> HIDE DEF k0
  <1>6. CacheInv'
    BY <1>2, <1>5 DEF CoreInv, CacheInv, GetPermission
  <1>7. UnregisteredInv'
    <2>1. unregistered' = unregistered /\ caps' = caps /\ unregistered \cap caps = {}
      BY <1>2 DEF CoreInv, UnregisteredInv, Ghosts, Store
    <2>2. ASSUME NEW k \in known', k.perm = Plugin, k.yes PROVE ScopeOf(k.resource) \notin unregistered
      <3>1. CASE k \in known
        BY <2>2, <3>1 DEF CoreInv, UnregisteredInv
      <3>2. CASE k = k0
        BY <1>4, <1>5, <2>2, <3>2
      <3> QED
        BY <1>2, <3>1, <3>2
    <2> QED
      BY <2>1, <2>2 DEF UnregisteredInv
  <1>8. /\ o \in CheckOp /\ o.pc = "loaded" /\ o.perm = op[c].perm /\ o.clean = op[c].clean /\ o.valid = yes
        /\ o.allowed = op[c].allowed /\ o.sub = op[c].sub /\ o.resource = op[c].resource
    BY <1>1, <1>3 DEF CheckOp
  <1> HIDE DEF o
  <1>9. CleanOf(o)
    BY <1>1, <1>4, <1>8 DEF CleanOf, Lost, Withdrawn
  <1>10. o.pc \in {"ask", "looked", "loaded"} => o.resource \in {"org:o", Org, Env}
    BY <1>1, <1>8
  <1> QED
    BY <1>2, <1>6, <1>7, <1>8, <1>9, <1>10, CheckStep

\* The enforcer decides from the snapshot, which has no grant of a subject
\* that is gone.
LEMMA DecideCore ==
  ASSUME CoreInv, NEW c \in Proc, Decide(c)
  PROVE  CoreInv'
  <1>1. op[c] \in CheckOp /\ op[c].pc = "loaded" /\ CleanOf(op[c]) /\ op[c].kind = "check"
    BY OpKinds DEF Decide, CoreInv, OpInv, CleanInv
  <1>2. /\ Store /\ Cache /\ Ghosts /\ live' = live /\ policy' = policy /\ left' = left
        /\ left' \in 0..MaxOps
    BY DEF Decide, Rest, Cache, CoreInv, TablesInv
  <1>3. CacheInv' /\ UnregisteredInv'
    BY <1>2, Frame
  <1> DEFINE e == Enforce(op[c].sub, op[c].resource, op[c].perm)
             v == op[c].valid /\ e
             o == [op[c] EXCEPT !.pc = "done", !.allowed = v]
  <1>4. op' = [op EXCEPT ![c] = o]
    BY DEF Decide, Decided
  <1>5. Lost(op[c]) => ~e
    BY DEF Lost, Enforce, Allows, Granted, CoreInv, GoneInv
  <1> HIDE DEF e
  <1>6. v \in BOOLEAN /\ (op[c].clean => ~v)
    BY <1>1, <1>5 DEF CleanOf
  <1> HIDE DEF v
  <1>7. o \in CheckOp /\ o.pc = "done" /\ o.clean = op[c].clean /\ o.allowed = v
    BY <1>1, <1>6 DEF CheckOp
  <1> HIDE DEF o
  <1>8. CleanOf(o)
    BY <1>6, <1>7 DEF CleanOf
  <1> QED
    BY <1>2, <1>3, <1>4, <1>7, <1>8, CheckStep

\* A cached answer expires.
LEMMA ExpireCore ==
  ASSUME CoreInv, Expire
  PROVE  CoreInv'
  <1>1. /\ known' \subseteq known /\ policy' = policy /\ op' = op /\ left' = left
        /\ Store /\ Ghosts /\ live' = live
    BY DEF Expire, Rest
  <1>2. RoleRowsInv'
    BY <1>1 DEF CoreInv, RoleRowsInv, Store
  <1>3. BindingsInv'
    BY <1>1 DEF CoreInv, BindingsInv, BindingsResolve, GetRole, Store
  <1>4. TablesInv' /\ GoneInv'
    BY <1>1 DEF CoreInv, TablesInv, GoneInv, Store, Ghosts
  <1>5. CacheInv' /\ UnregisteredInv'
    BY <1>1 DEF CoreInv, CacheInv, UnregisteredInv, Store, Ghosts
  <1>6. OpInv'
    BY <1>1 DEF CoreInv, OpInv, WriteInv, Validated
  <1>7. CleanInv'
    BY <1>1, CheckFrame DEF Ghosts
  <1> QED
    BY <1>2, <1>3, <1>4, <1>5, <1>6, <1>7 DEF CoreInv

-----------------------------------------------------------------------------
(* The listing of users.                                                   *)

\* The users of a resource are subjects.
LEMMA EffectiveType ==
  ASSUME BindingsInv, NEW r
  PROVE  Effective(r) \subseteq Subject
  BY DEF BindingsInv, Effective, ListEffectiveRoleBindings

\* Whatever others do between two pages, what was given out stays right: the
\* set it is compared with only shrinks.
LEMMA WalkKept ==
  ASSUME IInv, BindingsInv', Observe, walk' = walk
  PROVE  WalkInv'
  <1>1. Effective(walk.resource)' \subseteq Subject /\ Effective(walk.resource) \subseteq Subject
    BY EffectiveType DEF IInv, CoreInv, BindingsInv, Effective, ListEffectiveRoleBindings
  <1>2. steady \subseteq Subject
    BY DEF IInv, WalkInv
  <1>3. steady' \subseteq Subject /\ (walk.pc # "idle" => steady' \subseteq steady)
    BY <1>1, <1>2 DEF Observe
  <1> QED
    BY <1>3 DEF IInv, WalkInv

\* A walk begins with nobody listed.
LEMMA StartWalkInv ==
  ASSUME IInv, NEW reader \in Subject, NEW resource \in {Project, Env}, NEW filter \in {Subject, ServiceUser},
         StartWalk(reader, resource, filter), Observe
  PROVE  WalkInv'
  <1>1. walk' = [pc |-> "page", reader |-> reader, resource |-> resource, filter |-> filter, cursor |-> 0, seen |-> <<>>]
    BY DEF StartWalk, NoWalk
  <1>2. steady' \subseteq Subject
    <2>1. steady' = Effective(resource)
      BY <1>1 DEF Observe, StartWalk
    <2> QED
      BY <2>1, EffectiveType DEF IInv, CoreInv
  <1>3. \A s \in Subject : s \in Nat /\ s > 0
    OBVIOUS
  <1>4. <<>> \in Seq(Range(<<>>)) /\ DOMAIN <<>> = {}
    OBVIOUS
  <1>5. /\ walk'.pc = "page" /\ walk'.resource = resource /\ walk'.filter = filter
        /\ walk'.cursor = 0 /\ walk'.seen = <<>>
    BY <1>1
  <1>6. resource \in Resources
    BY DEF Resources
  <1>7. ~ \E s \in steady' : s =< 0
    BY <1>2, <1>3
  <1> QED
    BY <1>1, <1>2, <1>4, <1>5, <1>6, <1>7 DEF WalkInv

\* After the last page, or one refused, the client starts anew.
LEMMA EndWalkInv ==
  ASSUME IInv, EndWalk \/ ForbidPage, Observe
  PROVE  WalkInv'
  <1>1. walk' = NoWalk
    BY DEF EndWalk, ForbidPage
  <1>2. steady' = {}
    BY <1>1 DEF Observe, NoWalk
  <1>3. <<>> \in Seq(Range(<<>>)) /\ DOMAIN <<>> = {}
    OBVIOUS
  <1>4. Org \in Resources
    BY DEF Resources
  <1> QED
    BY <1>1, <1>2, <1>3, <1>4 DEF WalkInv, NoWalk

\* A function on 1..n is a sequence.
LEMMA FunctionIsSeq ==
  ASSUME NEW n \in Nat, NEW A, NEW f \in [1..n -> A]
  PROVE  f \in Seq(A) /\ Len(f) = n
  OBVIOUS

\* A page is put behind what was listed before.
LEMMA ListedAfter ==
  ASSUME NEW seen, seen \in Seq(Range(seen)), NEW m \in Nat, NEW listed, listed = [i \in 1..m |-> listed[i]]
  PROVE  /\ Len(seen) \in Nat /\ DOMAIN seen = 1..Len(seen)
         /\ (seen \o listed) \in Seq(Range(seen \o listed))
         /\ DOMAIN (seen \o listed) = 1..(Len(seen) + m)
         /\ \A i \in 1..Len(seen) : (seen \o listed)[i] = seen[i]
         /\ \A i \in 1..m : (seen \o listed)[Len(seen) + i] = listed[i]
  <1> DEFINE S == Range(seen) \cup {listed[i] : i \in 1..m}
             all == seen \o listed
  <1>1. Len(seen) \in Nat /\ DOMAIN seen = 1..Len(seen)
    BY LenProperties
  <1>2. listed \in [1..m -> S]
    OBVIOUS
  <1>4. seen \in Seq(S)
    BY SeqMonotonic
  <1> HIDE DEF S
  <1>3. listed \in Seq(S) /\ Len(listed) = m
    BY <1>2, FunctionIsSeq
  <1>5. /\ all \in Seq(S) /\ Len(all) = Len(seen) + m
        /\ \A i \in 1..(Len(seen) + m) : all[i] = IF i <= Len(seen) THEN seen[i] ELSE listed[i - Len(seen)]
    BY <1>3, <1>4, ConcatProperties
  <1> HIDE DEF all
  <1>6. DOMAIN all = 1..(Len(seen) + m) /\ all \in [1..(Len(seen) + m) -> S]
    BY <1>5, LenProperties
  <1>7. all \in Seq(Range(all))
    <2>1. all \in [1..(Len(seen) + m) -> Range(all)]
      BY <1>6 DEF Range
    <2>2. Len(seen) + m \in Nat
      BY <1>1
    <2> QED
      BY <2>1, <2>2, FunctionIsSeq
  <1>8. \A i \in 1..Len(seen) : all[i] = seen[i]
    <2> TAKE i \in 1..Len(seen)
    <2>1. i \in 1..(Len(seen) + m) /\ i <= Len(seen)
      BY <1>1
    <2> QED
      BY <1>5, <2>1
  <1>9. \A i \in 1..m : all[Len(seen) + i] = listed[i]
    <2> TAKE i \in 1..m
    <2>1. Len(seen) + i \in 1..(Len(seen) + m) /\ ~(Len(seen) + i <= Len(seen)) /\ (Len(seen) + i) - Len(seen) = i
      BY <1>1
    <2> QED
      BY <1>5, <2>1
  <1> QED
    BY <1>1, <1>6, <1>7, <1>8, <1>9 DEF all

\* One page: the next subjects in order, and all of them when it is the last.
LEMMA PageInv ==
  ASSUME IInv, listUsersWithPermissionsOnResource, Observe
  PROVE  WalkInv'
  <1> DEFINE S == {s \in Effective(walk.resource) \cap walk.filter : s > walk.cursor}
             n == Cardinality(S)
             items == Items(walk.resource, walk.filter, walk.cursor)
             m == IF n < PerPage THEN n ELSE PerPage
             page == SubSeq(items, 1, m)
             listed == [i \in DOMAIN page |-> [id |-> page[i], role |-> Selected(page[i], walk.resource).id]]
             k == Len(walk.seen)
             seen == walk.seen \o listed
  <1>1. /\ walk.pc = "page" /\ walk.resource \in Resources /\ walk.filter \subseteq Subject
        /\ walk.cursor \in Nat /\ walk.seen \in Seq(Range(walk.seen)) /\ steady \subseteq Subject
        /\ walk = [pc |-> walk.pc, reader |-> walk.reader, resource |-> walk.resource,
                   filter |-> walk.filter, cursor |-> walk.cursor, seen |-> walk.seen]
    BY DEF listUsersWithPermissionsOnResource, IInv, WalkInv
  <1>2. PerPage \in Nat /\ PerPage > 0
    OBVIOUS
  <1>3. S \subseteq Subject /\ S \in SUBSET Nat /\ IsFiniteSet(S)
    <2>1. S \subseteq Subject
      BY EffectiveType DEF IInv, CoreInv
    <2> QED
      BY <2>1, FS_Subset
  <1>4. items = Ascending(S)
    BY DEF Items
  <1> HIDE DEF items
  <1>5. /\ n \in Nat /\ items \in [1..n -> S]
        /\ \A i, j \in 1..n : i < j => items[i] < items[j]
        /\ \A s \in S : \E i \in 1..n : items[i] = s
    BY <1>3, <1>4, AscendingType
  <1>6. items \in Seq(S) /\ Len(items) = n
    BY <1>5, FunctionIsSeq
  <1>7. walk' = [walk EXCEPT !.seen = @ \o listed,
                             !.cursor = IF n > PerPage THEN page[PerPage] ELSE 0,
                             !.pc = IF n > PerPage THEN "page" ELSE "done"]
    BY <1>6 DEF listUsersWithPermissionsOnResource, items
  <1>8. \A s \in S : s \in Effective(walk.resource) /\ s \in walk.filter /\ s > walk.cursor /\ s \in Subject /\ s \in Nat
    BY <1>3
  <1>9. \A s \in Effective(walk.resource) \cap walk.filter : s > walk.cursor => s \in S
    OBVIOUS
  <1> HIDE DEF n, S
  <1>10. m \in Nat /\ m =< n /\ m =< PerPage /\ (n =< PerPage => m = n) /\ (n > PerPage => m = PerPage)
    BY <1>2, <1>5
  <1> HIDE DEF m
  <1>11. page \in Seq(S) /\ Len(page) = m /\ \A i \in 1..m : page[i] = items[i]
    <2>1. \A i \in 1..m : items[i] \in S
      BY <1>5, <1>10
    <2>2. /\ page \in Seq(S) /\ Len(page) = IF 1 <= m THEN m - 1 + 1 ELSE 0
          /\ \A i \in 1..(m - 1 + 1) : page[i] = items[1 + i - 1]
      BY <1>10, <2>1, SubSeqProperties
    <2>3. m - 1 + 1 = m /\ \A i \in 1..m : 1 + i - 1 = i
      BY <1>10
    <2> HIDE DEF page
    <2>4. Len(page) = m
      BY <1>10, <2>2, <2>3
    <2> QED
      BY <2>2, <2>3, <2>4
  <1>12. DOMAIN page = 1..m
    BY <1>11, LenProperties
  <1> HIDE DEF page
  <1>13. /\ listed = [i \in 1..m |-> listed[i]]
         /\ \A i \in 1..m : listed[i].id = items[i]
    BY <1>11, <1>12
  <1> HIDE DEF listed
  <1>14. /\ k \in Nat /\ DOMAIN walk.seen = 1..k
         /\ seen \in Seq(Range(seen)) /\ DOMAIN seen = 1..(k + m)
         /\ \A i \in 1..k : seen[i] = walk.seen[i]
         /\ \A i \in 1..m : seen[k + i] = listed[i]
    BY <1>1, <1>10, <1>13, ListedAfter
  <1>15. /\ walk'.seen = seen /\ walk'.resource = walk.resource /\ walk'.filter = walk.filter
         /\ walk'.cursor = (IF n > PerPage THEN page[PerPage] ELSE 0)
         /\ walk'.pc = (IF n > PerPage THEN "page" ELSE "done")
         /\ walk' = [pc |-> walk'.pc, reader |-> walk'.reader, resource |-> walk'.resource, filter |-> walk'.filter,
                     cursor |-> walk'.cursor, seen |-> walk'.seen]
    BY <1>1, <1>7
  <1> HIDE DEF seen, k
  \* Old and new entries.
  <1>16. /\ \A i \in 1..k : /\ seen[i].id \in Subject /\ seen[i].id =< walk.cursor
                            /\ seen[i].id \in Nat
         /\ \A i, j \in 1..k : i < j => seen[i].id < seen[j].id
    <2>1. /\ \A i \in DOMAIN walk.seen : walk.seen[i].id \in Subject /\ walk.seen[i].id =< walk.cursor
          /\ \A i, j \in DOMAIN walk.seen : i < j => walk.seen[i].id < walk.seen[j].id
      BY <1>1 DEF IInv, WalkInv
    <2> QED
      BY <1>14, <2>1
  <1>17. \A i \in 1..(k + m) : i > k => /\ i - k \in 1..m /\ seen[i].id = items[i - k]
                                       /\ seen[i].id \in Subject /\ seen[i].id > walk.cursor
    <2> SUFFICES ASSUME NEW i \in 1..(k + m), i > k
                 PROVE  /\ i - k \in 1..m /\ seen[i].id = items[i - k]
                        /\ seen[i].id \in Subject /\ seen[i].id > walk.cursor
      OBVIOUS
    <2>1. i - k \in 1..m /\ k + (i - k) = i /\ i - k \in 1..n
      BY <1>5, <1>10, <1>14
    <2>2. seen[i] = listed[i - k]
      BY <1>14, <2>1
    <2>3. items[i - k] \in S
      BY <1>5, <2>1
    <2> QED
      BY <1>8, <1>13, <2>1, <2>2, <2>3
  <1>18. \A i \in 1..(k + m) : seen[i].id \in Subject /\ seen[i].id \in Nat
    <2> SUFFICES ASSUME NEW i \in 1..(k + m) PROVE seen[i].id \in Subject
      OBVIOUS
    <2>1. i =< k => i \in 1..k
      BY <1>14
    <2> QED
      BY <1>10, <1>14, <1>16, <1>17, <2>1
  <1>19. \A i, j \in 1..(k + m) : i < j => seen[i].id < seen[j].id
    <2> SUFFICES ASSUME NEW i \in 1..(k + m), NEW j \in 1..(k + m), i < j
                 PROVE  seen[i].id < seen[j].id
      OBVIOUS
    <2>1. CASE j =< k
      <3>1. i \in 1..k /\ j \in 1..k
        BY <1>14, <2>1
      <3> QED
        BY <1>16, <3>1
    <2>2. CASE i =< k /\ j > k
      <3>1. i \in 1..k
        BY <1>14, <2>2
      <3>2. seen[i].id =< walk.cursor /\ walk.cursor < seen[j].id
        BY <1>16, <1>17, <2>2, <3>1
      <3> QED
        BY <1>1, <1>18, <3>2
    <2>3. CASE i > k
      <3>1. i - k \in 1..m /\ j - k \in 1..m /\ i - k < j - k /\ j > k
        BY <1>10, <1>14, <1>17, <2>3
      <3>2. i - k \in 1..n /\ j - k \in 1..n
        BY <1>5, <1>10, <3>1
      <3>3. items[i - k] < items[j - k]
        BY <1>5, <3>1, <3>2
      <3> QED
        BY <1>17, <2>3, <3>1, <3>3
    <2> QED
      BY <1>14, <2>1, <2>2, <2>3
  \* Who has been a user all along is listed.
  <1>20. steady' \subseteq steady /\ steady' \subseteq Effective(walk.resource)
    <2>1. bindings' = bindings /\ registered' = registered
      BY DEF listUsersWithPermissionsOnResource, Store
    <2>2. Effective(walk.resource)' = Effective(walk.resource)
      BY <1>15, <2>1 DEF Effective, ListEffectiveRoleBindings, effective_scopes, Parents
    <2>3. walk'.pc # "idle" /\ walk.pc # "idle" /\ walk.pc # "done"
      BY <1>1, <1>15
    <2>4. steady' = steady \cap Effective(walk.resource)'
      BY <2>3 DEF Observe
    <2> QED
      BY <2>2, <2>4
  <1>21. \A s \in steady' \cap walk.filter : s =< walk.cursor => \E i \in 1..(k + m) : seen[i].id = s
    <2> SUFFICES ASSUME NEW s \in steady' \cap walk.filter, s =< walk.cursor
                 PROVE  \E i \in 1..(k + m) : seen[i].id = s
      OBVIOUS
    <2>1. PICK i \in DOMAIN walk.seen : walk.seen[i].id = s
      BY <1>1, <1>20 DEF IInv, WalkInv
    <2>2. i \in 1..k /\ i \in 1..(k + m) /\ seen[i] = walk.seen[i]
      BY <1>10, <1>14, <2>1
    <2> QED
      BY <2>1, <2>2
  <1>22. \A s \in steady' \cap walk.filter : s > walk.cursor => \E i \in 1..n : items[i] = s
    BY <1>5, <1>9, <1>20
  <1>23. \A i \in 1..m : k + i \in 1..(k + m) /\ seen[k + i].id = items[i]
    BY <1>10, <1>13, <1>14
  <1>24. \A s \in steady' : s \in Nat
    BY <1>1, <1>20
  <1>25. CASE n > PerPage
    <2>1. m = PerPage /\ m \in 1..n /\ walk'.pc = "page" /\ walk'.cursor = items[m]
      BY <1>2, <1>5, <1>10, <1>11, <1>15, <1>25
    <2>2. items[m] \in S
      BY <1>5, <2>1
    <2>3. items[m] \in Subject /\ items[m] \in Nat /\ items[m] > walk.cursor
      BY <1>8, <2>2
    <2>4. \A i \in 1..(k + m) : seen[i].id =< items[m]
      <3> SUFFICES ASSUME NEW i \in 1..(k + m) PROVE seen[i].id =< items[m]
        OBVIOUS
      <3>1. CASE i = k + m
        BY <1>10, <1>23, <2>1, <2>3, <3>1
      <3>2. CASE i < k + m
        <4>1. k + m \in 1..(k + m) /\ seen[k + m].id = items[m]
          BY <1>2, <1>23, <2>1
        <4>2. seen[i].id < seen[k + m].id
          BY <1>19, <3>2, <4>1
        <4> QED
          BY <1>18, <2>3, <4>1, <4>2
      <3> QED
        BY <1>10, <1>14, <3>1, <3>2
    <2>5. \A s \in steady' \cap walk.filter : s =< items[m] => \E i \in 1..(k + m) : seen[i].id = s
      <3> SUFFICES ASSUME NEW s \in steady' \cap walk.filter, s =< items[m], s > walk.cursor
                   PROVE  \E i \in 1..(k + m) : seen[i].id = s
        BY <1>1, <1>21, <1>24
      <3>1. PICK j \in 1..n : items[j] = s
        BY <1>22
      <3>2. j =< m
        <4> SUFFICES ASSUME j > m PROVE FALSE
          BY <1>10, <1>5
        <4>1. items[m] < items[j]
          BY <1>5, <2>1
        <4> QED
          BY <1>24, <2>3, <3>1, <4>1
      <3>3. j \in 1..m
        BY <1>5, <1>10, <3>2
      <3> QED
        BY <1>23, <3>1, <3>3
    <2> QED
      BY <1>1, <1>14, <1>15, <1>18, <1>19, <1>20, <2>1, <2>3, <2>4, <2>5 DEF WalkInv
  <1>26. CASE ~(n > PerPage)
    <2>1. m = n /\ walk'.pc = "done" /\ walk'.cursor = 0
      BY <1>2, <1>5, <1>10, <1>15, <1>26
    <2>2. \A s \in steady' \cap walk.filter : \E i \in 1..(k + m) : seen[i].id = s
      <3> SUFFICES ASSUME NEW s \in steady' \cap walk.filter, s > walk.cursor
                   PROVE  \E i \in 1..(k + m) : seen[i].id = s
        BY <1>1, <1>21, <1>24
      <3>1. PICK j \in 1..n : items[j] = s
        BY <1>22
      <3> QED
        BY <1>23, <2>1, <3>1
    <2> QED
      BY <1>1, <1>14, <1>15, <1>18, <1>19, <1>20, <2>1, <2>2 DEF WalkInv
  <1> QED
    BY <1>25, <1>26

-----------------------------------------------------------------------------
(* The whole.                                                              *)

\* A walk's steps leave the tables, the caches and the requests alone.
LEMMA WalkCore ==
  ASSUME CoreInv, Store, Cache, Ghosts, op' = op, live' = live, left' \in 0..MaxOps
  PROVE  CoreInv'
  <1>1. /\ RoleRowsInv' /\ BindingsInv' /\ TablesInv' /\ CacheInv'
        /\ GoneInv' /\ UnregisteredInv'
    BY Frame
  <1>2. OpInv'
    BY DEF CoreInv, OpInv, WriteInv, Validated
  <1>3. CleanInv'
    BY CheckFrame DEF Ghosts
  <1> QED
    BY <1>1, <1>2, <1>3 DEF CoreInv

\* Every step preserves the inductive invariant.
LEMMA NextIInv == IInv /\ [Next]_vars => IInv'
  <1> SUFFICES ASSUME IInv, [Next]_vars PROVE IInv'
    OBVIOUS
  <1>0. CoreInv
    BY DEF IInv
  <1>1. CASE UNCHANGED vars
    <2>1. CoreInv'
      BY <1>0, <1>1, WalkCore DEF vars, Store, Cache, Ghosts, CoreInv, TablesInv
    <2>2. WalkInv'
      BY <1>1 DEF vars, IInv, WalkInv
    <2> QED
      BY <2>1, <2>2 DEF IInv
  <1>2. ASSUME CoreInv', walk' = walk, Observe PROVE IInv'
    BY <1>2, WalkKept DEF IInv, CoreInv
  <1>3. ASSUME NEW c \in Proc, Observe,
               \/ \E o \in Request : Begin(c, o)
               \/ Answer(c)
               \/ ListRoles(c) \/ SeedBuiltinOrgRoles(c)
               \/ ValidateCreate(c) \/ CreateRole(c)
               \/ ReadRole(c) \/ ValidateUpdate(c)
        PROVE  IInv'
    <2>1. walk' = walk
      BY <1>3 DEF Begin, Answer, ListRoles, SeedBuiltinOrgRoles, ValidateCreate, CreateRole, ReadRole,
            ValidateUpdate, Rest
    <2>2. CoreInv'
      BY <1>0, <1>3, RequestCore, AnswerCore, ListRolesCore, SeedCore, ValidateCreateCore, CreateRoleCore,
         ReadRoleCore, ValidateUpdateCore
    <2> QED
      BY <1>2, <1>3, <2>1, <2>2
  <1>4. ASSUME NEW c \in Proc, Observe,
               \/ UpdateRole(c) \/ DeleteRole(c)
               \/ GrantRole(c) \/ RevokeRoles(c) \/ ReplacePluginCapabilities(c)
               \/ Deactivate(c) \/ UpsertAuthorizationResource(c) \/ DeleteAuthorizationResource(c)
               \/ ReloadAfterWrite(c) \/ ReloadFails(c)
        PROVE  IInv'
    <2>1. walk' = walk
      BY <1>4 DEF UpdateRole, DeleteRole, GrantRole, RevokeRoles, ReplacePluginCapabilities, Deactivate,
            UpsertAuthorizationResource, DeleteAuthorizationResource, ReloadAfterWrite, ReloadFails, Rest
    <2>2. CoreInv'
      BY <1>0, <1>4, UpdateRoleCore, DeleteRoleCore, GrantRoleCore, RevokeRolesCore, ReplaceCore,
         DeactivateCore, UpsertCore, DeleteResourceCore, ReloadCore, ReloadFailsCore
    <2> QED
      BY SMTT(60), <1>2, <1>4, <2>1, <2>2
  <1>5. ASSUME NEW c \in Proc, Observe,
               \/ \E s \in Subject, q \in Questions, public \in BOOLEAN :
                     Begin(c, Check(s, q.resource, q.perm, public))
               \/ InternalAuthorizeInner(c) \/ CheckPermissions(c)
               \/ Authorize(c) \/ knownCustomPermissions(c) \/ Decide(c)
        PROVE  IInv'
    <2>1. walk' = walk
      BY <1>5 DEF Begin, InternalAuthorizeInner, CheckPermissions, Authorize, knownCustomPermissions, Decide, Rest
    <2>2. CoreInv'
      BY <1>0, <1>5, CheckBeginCore, InternalAuthorizeCore, CheckPermissionsCore, AuthorizeCore, KnownCore,
         DecideCore
    <2> QED
      BY SMTT(60), <1>2, <1>5, <2>1, <2>2
  <1>6. ASSUME Expire, Observe PROVE IInv'
    <2>1. walk' = walk
      BY <1>6 DEF Expire, Rest
    <2> QED
      BY <1>0, <1>2, <1>6, <2>1, ExpireCore
  <1>7. ASSUME NEW s \in Subject, NEW r \in {Project, Env}, NEW f \in {Subject, ServiceUser},
               StartWalk(s, r, f), Observe
        PROVE  IInv'
    <2>1. /\ Store /\ Cache /\ Ghosts /\ op' = op /\ live' = live /\ left' \in 0..MaxOps
      BY <1>0, <1>7 DEF StartWalk, CoreInv, TablesInv
    <2> QED
      BY <1>0, <1>7, <2>1, WalkCore, StartWalkInv DEF IInv
  <1>8. ASSUME listUsersWithPermissionsOnResource, Observe PROVE IInv'
    <2>1. /\ Store /\ Cache /\ Ghosts /\ op' = op /\ live' = live /\ left' \in 0..MaxOps
      BY <1>0, <1>8 DEF listUsersWithPermissionsOnResource, CoreInv, TablesInv
    <2> QED
      BY <1>0, <1>8, <2>1, WalkCore, PageInv DEF IInv
  <1>9. ASSUME EndWalk \/ ForbidPage, Observe PROVE IInv'
    <2>1. /\ Store /\ Cache /\ Ghosts /\ op' = op /\ live' = live /\ left' \in 0..MaxOps
      BY <1>0, <1>9 DEF EndWalk, ForbidPage, CoreInv, TablesInv
    <2> QED
      BY <1>0, <1>9, <2>1, WalkCore, EndWalkInv DEF IInv
  <1> QED
    BY <1>1, <1>3, <1>4, <1>5, <1>6, <1>7, <1>8, <1>9 DEF Next, Step

\* The inductive invariant is an invariant.
LEMMA Invariance == Spec => []IInv
  BY InitIInv, NextIInv, PTL DEF Spec

\* Whatever listings, writes and deletions of roles race, and whoever grants
\* what meanwhile: the tables keep their keys, an organisation has the three
\* built-in roles as they were seeded or none of them, and no binding is left
\* without its role.
THEOREM RolesInvEver == Spec => []RolesInv
  <1>1. ASSUME IInv PROVE TypeOK
    BY <1>1 DEF IInv, CoreInv, RoleRowsInv, BindingsInv, TablesInv, OpInv, CacheInv, WalkInv, TypeOK, PermsUsed
  <1>2. ASSUME IInv PROVE BuiltinRolesIntact
    <2> DEFINE named == {r \in roles : r.name \in {"Admin", "Deployer", "Viewer"} \/ r.key # "none"}
    <2>1. /\ \A r \in roles : r.name \in BuiltinNames \/ r.key # "none" => r \in Builtin
          /\ (\A r \in roles : r \notin Builtin) \/ Builtin \subseteq roles
      BY <1>2 DEF IInv, CoreInv, RoleRowsInv
    <2>2. named \subseteq Builtin
      BY <2>1 DEF BuiltinNames
    <2>3. Builtin \subseteq roles => Builtin \subseteq named
      BY BuiltinRows DEF BuiltinNames
    <2>4. named = {} \/ named = Builtin
      BY <2>1, <2>2, <2>3
    <2> QED
      BY <2>4 DEF BuiltinRolesIntact
  <1>3. IInv => RolesInv
    BY <1>1, <1>2 DEF RolesInv, IInv, CoreInv, BindingsInv
  <1> QED
    BY <1>3, Invariance, PTL

\* A check that began after the request taking its right away was answered is
\* refused, unless something was granted meanwhile: for any number of requests
\* and checks in flight, whatever the caches held.
THEOREM RevokedIsRefusedEver == Spec => []RevokedIsRefused
  <1>1. IInv => RevokedIsRefused
    BY DEF IInv, CoreInv, CleanInv, CleanOf, RevokedIsRefused
  <1> QED
    BY <1>1, Invariance, PTL

\* A client that follows next_page_token meets every subject that was a user of
\* the resource all along exactly once, for every page size and any number of
\* subjects, whatever is granted and revoked between its pages.
THEOREM WalkIsCompleteEver == Spec => []WalkIsComplete
  <1>1. ASSUME IInv PROVE WalkIsComplete
    <2> DEFINE ids == [i \in DOMAIN walk.seen |-> walk.seen[i].id]
    <2>1. DOMAIN walk.seen = 1..Len(walk.seen) /\ Len(walk.seen) \in Nat
      BY <1>1, LenProperties DEF IInv, WalkInv
    <2>2. /\ \A i \in DOMAIN walk.seen : walk.seen[i].id \in Nat
          /\ \A i, j \in DOMAIN walk.seen : i < j => walk.seen[i].id < walk.seen[j].id
      BY <1>1 DEF IInv, WalkInv
    <2>3. IsInjective(ids)
      <3> SUFFICES ASSUME NEW i \in DOMAIN walk.seen, NEW j \in DOMAIN walk.seen, i < j,
                          walk.seen[i].id = walk.seen[j].id
                   PROVE  FALSE
        BY <2>1 DEF IsInjective
      <3>1. walk.seen[i].id < walk.seen[j].id /\ walk.seen[i].id \in Nat
        BY <2>2
      <3> QED
        BY <3>1
    <2>4. walk.pc = "done" => steady \cap walk.filter \subseteq Range(ids)
      BY <1>1 DEF IInv, WalkInv, Range
    <2> QED
      BY <2>3, <2>4 DEF WalkIsComplete
  <1> QED
    BY <1>1, Invariance, PTL

-----------------------------------------------------------------------------
(* The decisions.                                                          *)

Provisioning == {"provisioning_read", "provisioning_write"}

\* What a grant satisfies, spelled out.
LEMMA Matching ==
  ASSUME NEW asked, asked # "member", NEW granted
  PROVE  permissionMatch(asked, granted) <=>
            \/ asked = granted
            \/ granted = "manage_all"
            \/ legacyModulePermissionMatch(asked, granted)
            \/ asked \notin Provisioning /\ permissionLevel(asked) \in Sweeps(granted)
  BY DEF permissionMatch, Provisioning

\* The catalogue, the old names and a plugin's capability are different things.
LEMMA CatalogFacts ==
  /\ permissionCatalog \cap (legacyRolePermissions \cup {"member"}) = {}
  /\ Plugin \notin permissionCatalog /\ Plugin \notin legacyRolePermissions /\ Plugin # "member"
  /\ permissionLevel(Plugin) = "none"
  BY DEF permissionCatalog, ReadLevel, WriteLevel, ManageLevel, legacyRolePermissions, Plugin, permissionLevel

\* Which grants sweep up a level.
LEMMA SweepFacts ==
  /\ Sweeps("read_all") = {"read"} /\ Sweeps("write_all") = {"read", "write"}
  /\ \A g : "none" \notin Sweeps(g)
  /\ \A g : g \notin legacyRolePermissions => Sweeps(g) = {}
  BY DEF Sweeps, legacyRolePermissions

\* The wildcards form a chain.
LEMMA WildcardChain ==
  ASSUME NEW p, p \notin {"read_all", "write_all"}
  PROVE  /\ permissionMatch(p, "read_all") => permissionMatch(p, "write_all")
         /\ permissionMatch(p, "manage_all")
  BY SweepFacts DEF permissionMatch, legacyModulePermissionMatch

\* The permission hierarchy is what the comments of authorization.go say of it.
LEMMA Hierarchy == MatchingHierarchy
  <1> DEFINE All == permissionCatalog \cup legacyRolePermissions
             S(g) == Satisfied(g, Plugin) \ {"read_all", "write_all"}
  <1>1. S("read_all") \subseteq S("write_all") /\ S("write_all") \subseteq S("manage_all")
    BY WildcardChain DEF Satisfied
  <1>2. permissionCatalog \cup {Plugin} \subseteq S("manage_all")
    <2>1. \A p \in permissionCatalog \cup {Plugin} : p \notin {"read_all", "write_all"}
      BY CatalogFacts DEF legacyRolePermissions
    <2> QED
      BY <2>1, WildcardChain DEF Satisfied
  <1>3. ASSUME NEW p \in {"provisioning_read", "provisioning_write", Plugin}, NEW g \in All \cup {Plugin},
               p \in S(g)
        PROVE  g \in {p, "manage_all"}
    <2>1. permissionMatch(p, g)
      BY <1>3 DEF Satisfied
    <2>2. p # "member" /\ ~legacyModulePermissionMatch(p, g)
      BY DEF legacyModulePermissionMatch, Plugin
    <2>3. p \in Provisioning \/ permissionLevel(p) = "none"
      BY CatalogFacts DEF Provisioning
    <2> QED
      BY <2>1, <2>2, <2>3, Matching, SweepFacts
  <1>4. ASSUME NEW g \in permissionCatalog \ {"module_read", "module_write"} PROVE S(g) = {g}
    <2>1. g \notin legacyRolePermissions /\ g # "member" /\ Sweeps(g) = {}
      BY CatalogFacts, SweepFacts
    <2>2. g # "read" /\ g # "manage_all" /\ g # "read_all" /\ g # "write_all"
      BY <2>1 DEF legacyRolePermissions
    <2>3. \A p : permissionMatch(p, g) <=> p = g
      BY <2>1, <2>2 DEF permissionMatch, legacyModulePermissionMatch
    <2> QED
      BY <2>2, <2>3 DEF Satisfied
  <1>5. S("module_write") \cap {p \in permissionCatalog : permissionLevel(p) # "read"} =
          {"module_write", "module.version.publish", "module.version.promote", "module.archive"}
    <2> DEFINE four == {"module_write", "module.version.publish", "module.version.promote", "module.archive"}
    <2>1. \A p \in four : p \in permissionCatalog /\ p \notin ReadLevel \cup {"read"} /\ p \in WriteLevel \cup ManageLevel
      BY DEF permissionCatalog, ReadLevel, WriteLevel, ManageLevel
    <2>2. \A p \in four : permissionLevel(p) # "read"
      BY <2>1 DEF permissionLevel, WriteLevel, ManageLevel
    <2>3. Sweeps("module_write") = {}
      BY SweepFacts DEF legacyRolePermissions
    <2>4. \A p : permissionMatch(p, "module_write") <=> p \in four
      BY <2>3 DEF permissionMatch, legacyModulePermissionMatch
    <2>5. "read_all" \notin four /\ "write_all" \notin four
      OBVIOUS
    <2> QED
      BY <2>1, <2>2, <2>4, <2>5 DEF Satisfied
  <1> QED
    BY <1>1, <1>2, <1>3, <1>4, <1>5 DEF MatchingHierarchy

\* The recorded resources at and above r, and r.
Chain(r) ==
    IF r \notin registered THEN {r}
    ELSE CASE r = Env -> Resources [] r = Project -> {Project, Org} [] OTHER -> {r}

\* What the recursive query walks, row by row.
LEMMA QueryWalksChain ==
  ASSUME IInv, NEW r \in Resources
  PROVE  effective_scopes(r) = Chain(r)
  <1> DEFINE depth0 == registered \cap {r}
             depth1 == Parents(depth0)
             depth2 == Parents(depth1)
             depth3 == Parents(depth2)
  <1>1. registered \in {{}, {Org}, {Org, Project}, {Org, Project, Env}}
    BY DEF IInv, CoreInv, TablesInv, Resources
  <1>2. \A X : Parents(X) = {parent_resource(x) : x \in X} \cap registered
    BY DEF Parents
  <1>3. /\ parent_resource(Env) = Project /\ parent_resource(Project) = Org
        /\ parent_resource(Org) \notin registered
    BY <1>1 DEF parent_resource, Org, Project, Env
  <1>4. effective_scopes(r) = depth0 \cup depth1 \cup depth2 \cup depth3 \cup {r}
    BY DEF effective_scopes
  <1>5. /\ Parents({}) = {} /\ Parents({Org}) = {}
        /\ Org \in registered => Parents({Project}) = {Org}
        /\ Project \in registered => Parents({Env}) = {Project}
    BY <1>2, <1>3
  <1>6. (Project \in registered => Org \in registered) /\ (Env \in registered => Project \in registered)
    BY <1>1 DEF Org, Project, Env
  <1> HIDE DEF depth1, depth2, depth3
  <1>7. CASE r \notin registered
    <2>1. depth0 = {}
      BY <1>7
    <2>2. depth1 = {} /\ depth2 = {} /\ depth3 = {}
      BY <1>5, <2>1 DEF depth1, depth2, depth3
    <2> QED
      BY <1>4, <1>7, <2>1, <2>2 DEF Chain
  <1>8. CASE r \in registered /\ r = Org
    <2>1. depth0 = {Org}
      BY <1>8
    <2>2. depth1 = {} /\ depth2 = {} /\ depth3 = {}
      BY <1>5, <2>1 DEF depth1, depth2, depth3
    <2> QED
      BY <1>4, <1>8, <2>1, <2>2 DEF Chain, Org, Project, Env
  <1>9. CASE r \in registered /\ r = Project
    <2>1. depth0 = {Project}
      BY <1>9
    <2>2. depth1 = {Org} /\ depth2 = {} /\ depth3 = {}
      BY <1>5, <1>6, <1>9, <2>1 DEF depth1, depth2, depth3
    <2> QED
      BY <1>4, <1>9, <2>1, <2>2 DEF Chain, Org, Project, Env
  <1>10. CASE r \in registered /\ r = Env
    <2>1. depth0 = {Env}
      BY <1>10
    <2>2. depth1 = {Project} /\ depth2 = {Org} /\ depth3 = {}
      BY <1>5, <1>6, <1>10, <2>1 DEF depth1, depth2, depth3
    <2> QED
      BY <1>4, <1>10, <2>1, <2>2 DEF Chain, Resources, Env
  <1> QED
    BY <1>7, <1>8, <1>9, <1>10 DEF Resources

\* What Casbin reaches along the relations.
LEMMA EngineReachesChain ==
  ASSUME IInv, NEW r \in Resources
  PROVE  g2(ListAuthorizationResourceRelations, r) = Chain(r)
  <1> DEFINE tree == ListAuthorizationResourceRelations
             Closed(S) == r \in S /\ \A e \in tree : e.resource \in S => e.parent \in S
  <1>1. registered \in {{}, {Org}, {Org, Project}, {Org, Project, Env}}
    BY DEF IInv, CoreInv, TablesInv, Resources
  <1>2. /\ parent_resource(Env) = Project /\ parent_resource(Project) = Org
        /\ Org # Project /\ Org # Env /\ Project # Env
    BY DEF parent_resource, Org, Project, Env
  <1>3. /\ (Project \in registered => Org \in registered) /\ (Env \in registered => Project \in registered)
        /\ registered \subseteq {Org, Project, Env}
    BY <1>1, <1>2
  <1>4. /\ \A e \in tree : (e.resource = Env /\ e.parent = Project /\ Env \in registered)
                        \/ (e.resource = Project /\ e.parent = Org /\ Project \in registered)
        /\ Env \in registered => \E e \in tree : e.resource = Env /\ e.parent = Project
        /\ Project \in registered => \E e \in tree : e.resource = Project /\ e.parent = Org
    <2>1. tree = {[resource |-> x, parent |-> parent_resource(x)] : x \in registered \ {Org}}
      BY DEF ListAuthorizationResourceRelations
    <2> HIDE DEF tree
    <2>2. ASSUME NEW e \in tree
          PROVE  \/ e.resource = Env /\ e.parent = Project /\ Env \in registered
                 \/ e.resource = Project /\ e.parent = Org /\ Project \in registered
      <3>1. PICK x \in registered \ {Org} : e = [resource |-> x, parent |-> parent_resource(x)]
        BY <2>1, <2>2
      <3>2. e.resource = x /\ e.parent = parent_resource(x) /\ x \in {Project, Env}
        BY <1>3, <3>1
      <3> QED
        BY <1>2, <3>1, <3>2
    <2>3. ASSUME NEW x \in registered \ {Org}
          PROVE  \E e \in tree : e.resource = x /\ e.parent = parent_resource(x)
      <3> DEFINE e == [resource |-> x, parent |-> parent_resource(x)]
      <3>1. e \in tree /\ e.resource = x /\ e.parent = parent_resource(x)
        BY <2>1
      <3> QED
        BY <3>1
    <2> QED
      BY <1>2, <2>2, <2>3
  <1>5. g2(tree, r) = {x \in Resources : \A S \in SUBSET Resources : Closed(S) => x \in S}
    BY DEF g2
  <1> HIDE DEF tree
  <1>6. Chain(r) \in SUBSET Resources /\ Closed(Chain(r))
    BY <1>2, <1>3, <1>4 DEF Chain, Resources
  <1>7. ASSUME NEW S \in SUBSET Resources, Closed(S) PROVE Chain(r) \subseteq S
    BY <1>2, <1>3, <1>4, <1>7 DEF Chain, Resources
  <1> QED
    BY <1>5, <1>6, <1>7 DEF tree

\* The engine decides from the permissions of the roles that the listing finds.
LEMMA AllowedIfListed == IInv => AllowedAsListed
  <1> SUFFICES ASSUME IInv, Synced, NEW s \in Subject, NEW r \in Resources
               PROVE  Granted(s, r) = UNION {UNION {o.perms : o \in GetRole(b.role)} :
                                        b \in {l \in ListEffectiveRoleBindings(r) : l.sub = s}}
    BY DEF AllowedAsListed
  <1>1. policy.grants = ListAuthorizationPolicies /\ policy.tree = ListAuthorizationResourceRelations
    BY DEF Synced, LoadPolicy
  <1>2. Granted(s, r) = {g.perm : g \in {h \in ListAuthorizationPolicies : h.sub = s /\ h.scope \in Chain(r)}}
    BY <1>1, EngineReachesChain DEF Granted
  <1>3. ListEffectiveRoleBindings(r) = {b \in bindings : b.scope \in Chain(r)}
    BY QueryWalksChain DEF ListEffectiveRoleBindings
  <1>4. ASSUME NEW p \in Granted(s, r)
        PROVE  \E b \in bindings : /\ b.sub = s /\ b.scope \in Chain(r)
                                   /\ p \in UNION {o.perms : o \in GetRole(b.role)}
    <2>1. PICK g \in ListAuthorizationPolicies : g.sub = s /\ g.scope \in Chain(r) /\ p = g.perm
      BY <1>2, <1>4
    <2>2. PICK b \in bindings : \E q \in UNION {o.perms : o \in GetRole(b.role)} :
                 g = [sub |-> b.sub, scope |-> b.scope, perm |-> q]
      BY <2>1 DEF ListAuthorizationPolicies
    <2> QED
      BY <2>1, <2>2
  <1>5. ASSUME NEW b \in bindings, b.sub = s, b.scope \in Chain(r),
               NEW p \in UNION {o.perms : o \in GetRole(b.role)}
        PROVE  p \in Granted(s, r)
    <2>1. [sub |-> b.sub, scope |-> b.scope, perm |-> p] \in ListAuthorizationPolicies
      BY DEF ListAuthorizationPolicies
    <2> QED
      BY <1>2, <1>5, <2>1
  <1> QED
    BY <1>3, <1>4, <1>5

\* An administrator may do everything.
LEMMA AdminAllowed == IInv => AdminMayDoEverything
  <1> SUFFICES ASSUME IInv, NEW s \in Subject, Synced, IsOrganizationAdmin(s), NEW r \in registered,
                      NEW p \in {"role_read", "deployment_write", "role_write", "provisioning_write"}
                                    \cup ListPluginCapabilities
               PROVE  \/ Enforce(s, r, p) /\ (isCustomPermission(p) => ListKnownAuthorizationPermissions(r, p))
                      \/ p = Plugin /\ ScopeOf(r) \notin {x \in Scopes : x \in caps}
    BY DEF AdminMayDoEverything, Enforce
  <1>1. PICK b \in bindings : b.sub = s /\ b.scope = Org /\ \E q \in GetRole(b.role) : q.key = "admin"
    BY DEF IsOrganizationAdmin
  <1>2. PICK q \in roles : q.id = b.role /\ q.key = "admin"
    BY <1>1 DEF GetRole
  <1>3. q.perms = {"manage_all"}
    BY <1>2, BuiltinRows DEF IInv, CoreInv, RoleRowsInv
  <1>4. q \in GetRole(b.role)
    BY <1>2 DEF GetRole
  <1>5. r \in Resources /\ b \in ListEffectiveRoleBindings(r)
    <2>1. registered \in {{}, {Org}, {Org, Project}, {Org, Project, Env}}
      BY DEF IInv, CoreInv, TablesInv, Resources
    <2>2. r \in Resources
      BY <2>1 DEF Resources
    <2>3. Org \in Chain(r)
      BY <2>2 DEF Chain, Resources
    <2> QED
      BY <1>1, <2>2, <2>3, QueryWalksChain DEF ListEffectiveRoleBindings
  <1>6. "manage_all" \in Granted(s, r)
    BY <1>1, <1>3, <1>4, <1>5, AllowedIfListed DEF AllowedAsListed
  <1>7. Enforce(s, r, p)
    BY <1>6 DEF Enforce, Allows, permissionMatch
  <1>8. CASE p \in {"role_read", "deployment_write", "role_write", "provisioning_write"}
    <2>1. ~isCustomPermission(p)
      BY <1>8 DEF isCustomPermission, IsAssignableRolePermission, FindPermission, permissionCatalog, ReadLevel,
             WriteLevel, ManageLevel
    <2> QED
      BY <1>7, <2>1
  <1>9. CASE p = Plugin
    <2>1. ScopeOf(r) \in caps => ListKnownAuthorizationPermissions(r, p)
      BY <1>9 DEF ListKnownAuthorizationPermissions
    <2> QED
      BY <1>7, <1>9, <2>1
  <1> QED
    BY <1>8, <1>9 DEF ListPluginCapabilities

\* Whenever the snapshot is current the policy engine decides from exactly the
\* permissions of the roles that the listing's query finds, though one walks
\* relations of its own and the other rows up to a depth; whom the administrator
\* query accepts is refused nothing; and grants satisfy permissions by the table
\* of levels.  For any number of roles, bindings and subjects.
THEOREM DecisionsAgreeEver == Spec => []DecisionsAgree
  <1>1. IInv => DecisionsAgree
    BY Hierarchy, AllowedIfListed, AdminAllowed DEF DecisionsAgree
  <1> QED
    BY <1>1, Invariance, PTL

-----------------------------------------------------------------------------
(* Memberships, for any number of concurrent requests, users, roles and    *)
(* memberships.  Its inductive invariant is TxInv.                         *)

TxRecord == [op : {"idle", "create", "delete", "replace", "remove"},
             pc : {"idle", "insert", "delete", "bulk", "commit"},
             user : User \cup {None}, todo : SUBSET Membership, del : SUBSET Membership,
             roles : SUBSET Role, seen : SUBSET Membership]

\* Which arguments a handler has at which of its statements.
ShapeInv ==
    \A t \in Tx :
        /\ tx[t].op \in {"idle", "delete", "remove"} => tx[t].roles = {}
        /\ tx[t].op \in {"create", "delete", "replace"} => tx[t].user \in User
        /\ tx[t].pc = "idle" => tx[t] = Idle
        /\ tx[t].pc = "insert" => tx[t].op \in {"create", "replace"}
        /\ tx[t].pc = "bulk" => tx[t].op \in {"replace", "remove"}
        /\ tx[t].pc = "delete" => tx[t].op \in {"delete", "replace", "remove"}
        /\ tx[t].pc \in {"bulk", "delete"} => tx[t].del = {}

\* An id is used once.
BornInv == \A m \in Membership : row[m] # Absent => m \in born

\* A row that a request has deleted is there, and locked by it, until the commit.
DelInv == \A t \in Tx : \A m \in tx[t].del : lock[m] = t /\ row[m] # Absent

\* The unique constraint: the rows that a request is about to commit differ
\* from the live ones and from those of other requests.
NewInv ==
    \A t \in Tx : tx[t].pc = "commit" =>
        /\ \A m \in Membership \ tx[t].del : row[m].user = tx[t].user => row[m].role \notin tx[t].roles
        /\ \A o \in Tx \ {t} : tx[o].pc = "commit" /\ tx[o].user = tx[t].user =>
               tx[o].roles \cap tx[t].roles = {}

UniqueInv == \A m, k \in Membership : row[m] # Absent /\ row[m] = row[k] => m = k

\* A request that did not race is alone.
SoloInv == \A t \in Tx \ raced : tx[t] # Idle => \A o \in Tx \ {t} : tx[o] = Idle

\* What such a request read is still so.
ReplaceInv ==
    \A t \in Tx \ raced : tx[t].op = "replace" =>
        /\ tx[t].pc = "delete" => tx[t].todo = RowsOf(tx[t].user)
        /\ tx[t].pc \in {"insert", "commit"} => tx[t].del = RowsOf(tx[t].user)

\* A row that the target of a request had when it began is gone, or the
\* request is still to pick it, to delete it, or has deleted it.
SeenInv ==
    \A t \in Tx :
        /\ tx[t].seen \subseteq born
        /\ tx[t].pc = "bulk" /\ tx[t].op = "replace" =>
              \A m \in tx[t].seen : row[m] = Absent \/ row[m].user = tx[t].user
        /\ tx[t].pc = "delete" => \A m \in tx[t].seen : row[m] = Absent \/ m \in tx[t].todo
        /\ tx[t].pc \in {"insert", "commit"} => \A m \in tx[t].seen : row[m] = Absent \/ m \in tx[t].del

TxInv ==
    /\ MembershipsTypeOK /\ tx \in [Tx -> TxRecord]
    /\ ShapeInv /\ BornInv /\ DelInv /\ NewInv /\ UniqueInv /\ SoloInv /\ ReplaceInv /\ SeenInv

-----------------------------------------------------------------------------
USE MembershipAssumption

\* The inductive invariant holds initially.
LEMMA InitTxInv == MembershipsInit => TxInv
  BY DEF MembershipsInit, TxInv, MembershipsTypeOK, TxRecord, ShapeInv, BornInv, DelInv, NewInv, UniqueInv,
         SoloInv, ReplaceInv, SeenInv, Idle, Absent, RowsOf

\* A request that starts preserves the invariant, whichever handler it is of.
LEMMA BeginTxInv ==
  ASSUME TxInv, NEW t \in Tx, NEW rec \in TxRecord, StartRequest(t, rec),
         rec.del = {}, rec.seen \subseteq Live,
         \/ rec.op = "create" /\ rec.pc = "insert" /\ rec.user \in User /\ rec.seen = {}
         \/ /\ rec.op = "delete" /\ rec.pc = "delete" /\ rec.user \in User /\ rec.roles = {}
            /\ rec.seen = rec.todo
         \/ rec.op = "replace" /\ rec.pc = "bulk" /\ rec.user \in User /\ rec.seen = RowsOf(rec.user)
         \/ rec.op = "remove" /\ rec.pc = "bulk" /\ rec.roles = {}
  PROVE  TxInv'
  <1> USE DEF StartRequest, TxInv, Idle
  <1>1. MembershipsTypeOK' /\ tx' \in [Tx -> TxRecord]
    BY DEF MembershipsTypeOK, InFlight
  <1>2. \A o \in Tx : tx'[o] = IF o = t THEN rec ELSE tx[o]
    OBVIOUS
  <1>3. ShapeInv'
    BY <1>2 DEF ShapeInv
  <1>4. BornInv' /\ UniqueInv'
    BY DEF BornInv, UniqueInv, Absent
  <1>5. DelInv'
    BY <1>2 DEF DelInv, Absent
  <1>6. NewInv'
    BY <1>2 DEF NewInv
  <1>7. SoloInv'
    BY <1>2 DEF SoloInv, InFlight
  <1>8. ReplaceInv'
    BY <1>2 DEF ReplaceInv, RowsOf
  <1>9. SeenInv'
    BY <1>2 DEF SeenInv, BornInv, Live, RowsOf, Absent
  <1> QED
    BY <1>1, <1>3, <1>4, <1>5, <1>6, <1>7, <1>8, <1>9

\* A request that fails preserves the invariant.
LEMMA RollbackTxInv ==
  ASSUME TxInv, NEW t \in Tx, Rollback(t)
  PROVE  TxInv'
  <1> USE DEF Rollback, Finish, TxInv
  <1>0. Idle \in TxRecord
    BY DEF Idle, TxRecord
  <1>1. MembershipsTypeOK' /\ tx' \in [Tx -> TxRecord]
    BY <1>0 DEF MembershipsTypeOK
  <1>2. \A o \in Tx : tx'[o] = IF o = t THEN Idle ELSE tx[o]
    OBVIOUS
  <1>3. ShapeInv'
    BY <1>2 DEF ShapeInv, Idle
  <1>4. BornInv' /\ UniqueInv'
    BY DEF BornInv, UniqueInv, Absent
  <1>5. DelInv'
    BY <1>2 DEF DelInv, Absent, Idle, TxRecord, MembershipsTypeOK
  <1>6. NewInv'
    BY <1>2 DEF NewInv, Idle
  <1>7. SoloInv'
    BY <1>2 DEF SoloInv
  <1>8. ReplaceInv'
    BY <1>2 DEF ReplaceInv, RowsOf, Idle
  <1>9. SeenInv'
    BY <1>2 DEF SeenInv, Absent, Idle
  <1> QED
    BY <1>1, <1>3, <1>4, <1>5, <1>6, <1>7, <1>8, <1>9


\* A request that commits preserves the invariant.
LEMMA CommitTxInv ==
  ASSUME TxInv, NEW t \in Tx, Commit(t)
  PROVE  TxInv'
  <1> USE DEF TxInv
  <1>0. Idle \in TxRecord
    BY DEF Idle, TxRecord
  <1> PICK id \in NewIds(t) : row' = Written(t, id) /\ born' = born \cup {id[r] : r \in tx[t].roles}
    BY DEF Commit
  <1> DEFINE asked == tx[t].roles
             del   == tx[t].del
             fresh == {id[r] : r \in asked}
  <1>1. /\ tx[t] \in TxRecord /\ tx[t].pc = "commit"
        /\ asked \subseteq Role /\ del \subseteq Membership
    BY DEF Commit, TxRecord
  <1>2. /\ tx' = [tx EXCEPT ![t] = Idle] /\ raced' = raced \ {t} /\ ops' = ops
        /\ lock' = [m \in Membership |-> IF lock[m] = t THEN None ELSE lock[m]]
        /\ \A o \in Tx : tx'[o] = IF o = t THEN Idle ELSE tx[o]
    BY DEF Commit, Finish
  <1>3. /\ fresh \subseteq Membership \ born
        /\ \A a, b \in asked : a # b => id[a] # id[b]
    BY DEF NewIds
  <1>4. \A m \in Membership : row[m] = Absent \/ row[m] \in [user : User, role : Role]
    BY DEF MembershipsTypeOK
  <1>5. \A r \in asked : tx[t].user \in User /\ [user |-> tx[t].user, role |-> r] # Absent
    BY <1>1 DEF ShapeInv, TxRecord, Absent
  <1>6. \A r \in asked : id[r] \in Membership \ born /\ id[r] \in fresh /\ id[r] \notin del
    BY <1>3 DEF DelInv, BornInv
  <1>7. /\ \A r \in asked : /\ row'[id[r]] \in [user : User, role : Role]
                             /\ row'[id[r]].user = tx[t].user /\ row'[id[r]].role = r
        /\ \A m \in del : row'[m] = Absent
    <2>1. ASSUME NEW r \in asked PROVE (CHOOSE q \in asked : id[q] = id[r]) = r
      BY <1>3
    <2>2. ASSUME NEW r \in asked PROVE row'[id[r]] = [user |-> tx[t].user, role |-> r]
      BY <1>6, <2>1 DEF Written
    <2>3. ASSUME NEW m \in del PROVE row'[m] = Absent
      BY <1>1, <1>6 DEF Written
    <2>4. ASSUME NEW r \in asked
          PROVE  /\ row'[id[r]] \in [user : User, role : Role]
                 /\ row'[id[r]].user = tx[t].user /\ row'[id[r]].role = r
      <3>1. row'[id[r]] = [user |-> tx[t].user, role |-> r]
        BY <2>2
      <3>2. tx[t].user \in User /\ r \in Role
        BY <1>1, <1>5
      <3> QED
        BY <3>1, <3>2
    <2> QED
      BY <2>3, <2>4
  <1>8. /\ \A m \in Membership \ (del \cup fresh) : row'[m] = row[m]
        /\ \A m \in fresh : \E r \in asked : m = id[r]
    BY DEF Written
  <1> HIDE DEF fresh
  <1>9. row' \in [Membership -> [user : User, role : Role] \cup {Absent}]
    <2>1. \A m \in Membership : row'[m] \in [user : User, role : Role] \cup {Absent}
      BY <1>1, <1>4, <1>5, <1>7, <1>8
    <2> QED
      BY <2>1 DEF Written
  <1>10. MembershipsTypeOK' /\ tx' \in [Tx -> TxRecord]
    <2>1. born' \subseteq Membership
      BY <1>3 DEF MembershipsTypeOK, fresh
    <2>2. lock' \in [Membership -> Tx \cup {None}] /\ raced' \subseteq Tx /\ ops' \in 0..MaxRequests
      BY <1>2 DEF MembershipsTypeOK
    <2>3. tx' \in [Tx -> TxRecord]
      BY <1>0, <1>2
    <2> QED
      BY <2>1, <2>2, <2>3, <1>9 DEF MembershipsTypeOK, Absent
  <1>11. ShapeInv'
    BY <1>2 DEF ShapeInv, Idle
  <1>12. BornInv'
    BY <1>7, <1>8, <1>3 DEF BornInv, Absent, fresh
  <1>13. DelInv'
    <2> SUFFICES ASSUME NEW o \in Tx, NEW m \in tx'[o].del PROVE lock'[m] = o /\ row'[m] # Absent
      BY DEF DelInv, Absent
    <2>1. o # t /\ m \in tx[o].del /\ m \in Membership
      BY <1>2 DEF Idle, TxRecord
    <2>2. lock[m] = o /\ row[m] # Absent /\ m \in born
      BY <2>1 DEF DelInv, BornInv
    <2>3. m \notin del /\ m \notin fresh
      BY <2>1, <2>2, <1>3 DEF DelInv
    <2> QED
      BY <2>1, <2>2, <2>3, <1>2, <1>8
  <1>14. NewInv'
    <2> SUFFICES ASSUME NEW o \in Tx, tx'[o].pc = "commit"
                 PROVE  /\ \A m \in Membership \ tx'[o].del :
                             row'[m].user = tx'[o].user => row'[m].role \notin tx'[o].roles
                        /\ \A p \in Tx \ {o} : tx'[p].pc = "commit" /\ tx'[p].user = tx'[o].user =>
                             tx'[p].roles \cap tx'[o].roles = {}
      BY DEF NewInv
    <2>1. o # t /\ tx'[o] = tx[o] /\ tx[o].pc = "commit"
      BY <1>2 DEF Idle
    <2>2. ASSUME NEW p \in Tx \ {o}, tx'[p].pc = "commit", tx'[p].user = tx'[o].user
          PROVE  tx'[p].roles \cap tx'[o].roles = {}
      BY <2>1, <2>2, <1>2 DEF NewInv, Idle
    <2>3. ASSUME NEW m \in Membership \ tx[o].del, row'[m].user = tx[o].user
          PROVE  row'[m].role \notin tx[o].roles
      <3>1. CASE m \in del
        BY <3>1, <1>7, <2>1, None \notin Role DEF Absent, TxRecord
      <3>2. CASE m \in fresh
        <4> PICK r \in asked : m = id[r]
          BY <3>2, <1>8
        <4>1. row'[m].user = tx[t].user /\ row'[m].role = r
          BY <1>7
        <4> QED
          BY <4>1, <2>1, <2>3, <1>1 DEF NewInv
      <3>3. CASE m \notin del \cup fresh
        BY <3>3, <1>8, <2>1, <2>3 DEF NewInv
      <3> QED
        BY <3>1, <3>2, <3>3
    <2> QED
      BY <2>1, <2>2, <2>3
  <1>15. UniqueInv'
    <2> SUFFICES ASSUME NEW m \in Membership, NEW k \in Membership, row'[m] # Absent, row'[m] = row'[k]
                 PROVE  m = k
      BY DEF UniqueInv, Absent
    <2>1. m \notin del /\ k \notin del
      BY <1>7
    <2>2. CASE m \in fresh /\ k \in fresh
      BY <2>2, <1>7, <1>8
    <2>3. CASE m \notin fresh /\ k \notin fresh
      BY <2>1, <2>3, <1>8 DEF UniqueInv
    <2>4. ASSUME NEW a \in fresh, NEW b \in Membership \ (del \cup fresh) PROVE row'[a] # row'[b]
      <3> PICK r \in asked : a = id[r]
        BY <1>8
      <3>1. row'[a].user = tx[t].user /\ row'[a].role = r
        BY <1>7
      <3>2. row'[b] = row[b] /\ (row[b].user = tx[t].user => row[b].role \notin asked)
        BY <1>1, <1>8 DEF NewInv
      <3> QED
        BY <3>1, <3>2
    <2> QED
      BY <2>1, <2>2, <2>3, <2>4
  <1>16. ASSUME NEW o \in Tx \ raced', tx'[o] # Idle PROVE FALSE
    <2>1. o # t /\ tx[o] # Idle /\ o \notin raced
      BY <1>2, <1>16
    <2>2. tx[t] = Idle
      BY <2>1 DEF SoloInv
    <2> QED
      BY <2>2, <1>1 DEF Idle
  <1>17. SoloInv' /\ ReplaceInv'
    <2>1. \A o \in Tx \ raced' : tx'[o] = Idle
      BY <1>16
    <2>2. \A o \in Tx \ raced' : tx'[o].op = "idle"
      BY <2>1 DEF Idle
    <2> QED
      BY <2>1, <2>2 DEF SoloInv, ReplaceInv
  <1>18. SeenInv'
    <2> SUFFICES ASSUME NEW o \in Tx
                 PROVE  /\ tx'[o].seen \subseteq born'
                        /\ tx'[o].pc = "bulk" /\ tx'[o].op = "replace" =>
                              \A m \in tx'[o].seen : row'[m] = Absent \/ row'[m].user = tx'[o].user
                        /\ tx'[o].pc = "delete" =>
                              \A m \in tx'[o].seen : row'[m] = Absent \/ m \in tx'[o].todo
                        /\ tx'[o].pc \in {"insert", "commit"} =>
                              \A m \in tx'[o].seen : row'[m] = Absent \/ m \in tx'[o].del
      BY DEF SeenInv, Absent
    <2>1. CASE o = t
      BY <2>1, <1>2 DEF Idle
    <2>2. CASE o # t
      <3>1. tx'[o] = tx[o] /\ tx[o].seen \subseteq born /\ born \subseteq born' /\ born \subseteq Membership
        BY <2>2, <1>2 DEF SeenInv, MembershipsTypeOK
      <3>2. \A m \in tx[o].seen : row'[m] = Absent \/ row'[m] = row[m]
        BY <3>1, <1>3, <1>7, <1>8
      <3> QED
        BY <3>1, <3>2 DEF SeenInv
    <2> QED
      BY <2>1, <2>2
  <1> QED
    BY <1>10, <1>11, <1>12, <1>13, <1>14, <1>15, <1>17, <1>18

\* Every step preserves the inductive invariant.
LEMMA NextTxInv == TxInv /\ [MembershipsNext]_membershipVars => TxInv'
  <1> SUFFICES ASSUME TxInv, [MembershipsNext]_membershipVars PROVE TxInv'
    OBVIOUS
  <1>1. ASSUME NEW t \in Tx, NEW u \in User, NEW role \in Role, Create(t, u, role) PROVE TxInv'
    <2> DEFINE rec == [Idle EXCEPT !.op = "create", !.pc = "insert", !.user = u, !.roles = {role}]
    <2>1. /\ rec \in TxRecord /\ rec.op = "create" /\ rec.pc = "insert" /\ rec.user \in User /\ rec.del = {}
          /\ rec.seen = {}
      BY DEF TxRecord, Idle
    <2>2. StartRequest(t, rec)
      BY <1>1 DEF Create
    <2> HIDE DEF rec
    <2> QED
      BY <2>1, <2>2, BeginTxInv
  <1>2. ASSUME NEW t \in Tx, NEW m \in Membership, Delete(t, m) PROVE TxInv'
    <2> DEFINE rec == [Idle EXCEPT !.op = "delete", !.pc = "delete", !.user = row[m].user, !.todo = {m},
                               !.seen = {m}]
    <2>1. row[m].user \in User /\ m \in Live
      BY <1>2 DEF Delete, Live, TxInv, MembershipsTypeOK
    <2>2. /\ rec \in TxRecord /\ rec.op = "delete" /\ rec.pc = "delete" /\ rec.user \in User
          /\ rec.del = {} /\ rec.roles = {} /\ rec.todo = {m} /\ rec.seen = {m}
      BY <2>1 DEF TxRecord, Idle
    <2>3. StartRequest(t, rec)
      BY <1>2 DEF Delete
    <2> HIDE DEF rec
    <2> QED
      BY <2>1, <2>2, <2>3, BeginTxInv
  <1>3. ASSUME NEW t \in Tx, NEW u \in User, NEW asked \in SUBSET Role, Replace(t, u, asked) PROVE TxInv'
    <2> DEFINE rec == [Idle EXCEPT !.op = "replace", !.pc = "bulk", !.user = u, !.roles = asked,
                               !.seen = RowsOf(u)]
    <2>1. /\ rec \in TxRecord /\ rec.op = "replace" /\ rec.pc = "bulk" /\ rec.user \in User /\ rec.del = {}
          /\ rec.seen = RowsOf(rec.user)
      BY DEF TxRecord, Idle, RowsOf
    <2>3. RowsOf(u) \subseteq Live /\ rec.user = u
      BY None \notin User DEF RowsOf, Live, Absent
    <2>2. StartRequest(t, rec)
      BY <1>3 DEF Replace
    <2> HIDE DEF rec
    <2> QED
      BY <2>1, <2>2, <2>3, BeginTxInv
  <1>4. ASSUME NEW t \in Tx, RemoveAccess(t) PROVE TxInv'
    <2> DEFINE rec == [Idle EXCEPT !.op = "remove", !.pc = "bulk", !.seen = Live]
    <2>1. /\ rec \in TxRecord /\ rec.op = "remove" /\ rec.pc = "bulk" /\ rec.roles = {} /\ rec.del = {}
          /\ rec.seen = Live
      BY DEF TxRecord, Idle, Live
    <2>2. StartRequest(t, rec)
      BY <1>4 DEF RemoveAccess
    <2> HIDE DEF rec
    <2> QED
      BY <2>1, <2>2, BeginTxInv
  <1>5. ASSUME NEW t \in Tx, BulkDelete(t) PROVE TxInv'
    <2> DEFINE todo == IF tx[t].op = "replace" THEN RowsOf(tx[t].user) ELSE Live
    <2>1. /\ tx[t] \in TxRecord /\ tx[t].pc = "bulk" /\ todo \subseteq Membership
          /\ tx' = [tx EXCEPT ![t] = [tx[t] EXCEPT !.pc = "delete", !.todo = todo]]
          /\ UNCHANGED <<row, born, lock, raced, ops>>
      BY <1>5 DEF BulkDelete, TxInv, RowsOf, Live
    <2>2. /\ tx[t].op = "replace" => todo = RowsOf(tx[t].user)
          /\ tx[t].op # "replace" => todo = Live
      OBVIOUS
    <2> HIDE DEF todo
    <2>3. /\ tx' \in [Tx -> TxRecord]
          /\ \A o \in Tx \ {t} : tx'[o] = tx[o]
          /\ tx'[t].op = tx[t].op /\ tx'[t].user = tx[t].user /\ tx'[t].del = tx[t].del
          /\ tx'[t].roles = tx[t].roles /\ tx'[t].pc = "delete" /\ tx'[t].todo = todo
          /\ tx'[t].seen = tx[t].seen
      BY <2>1 DEF TxInv, TxRecord
    <2>4. MembershipsTypeOK' /\ BornInv' /\ UniqueInv'
      BY <2>1 DEF TxInv, MembershipsTypeOK, BornInv, UniqueInv, Absent
    <2>5. ShapeInv' /\ DelInv' /\ NewInv'
      BY <2>1, <2>3 DEF TxInv, ShapeInv, DelInv, NewInv, Absent, Idle
    <2>6. SoloInv'
      <3>1. Idle.pc = "idle"
        BY DEF Idle
      <3>2. tx[t] # Idle /\ tx'[t] # Idle
        BY <3>1, <2>1, <2>3
      <3> QED
        BY <3>2, <2>1, <2>3 DEF TxInv, SoloInv
    <2>7. ReplaceInv'
      BY <2>1, <2>2, <2>3 DEF TxInv, ReplaceInv, ShapeInv, RowsOf
    <2>8. SeenInv'
      <3>1. tx[t].seen \subseteq born /\ born \subseteq Membership
        BY DEF TxInv, SeenInv, MembershipsTypeOK
      <3>2. \A m \in tx[t].seen : row[m] = Absent \/ m \in todo
        BY <2>1, <2>2, <3>1 DEF TxInv, SeenInv, RowsOf, Live
      <3> QED
        BY <2>1, <2>3, <3>2 DEF TxInv, SeenInv, Absent
    <2> QED
      BY <2>3, <2>4, <2>5, <2>6, <2>7, <2>8 DEF TxInv
  <1>6. ASSUME NEW t \in Tx, DeleteRows(t), ~Rollback(t) PROVE TxInv'
    <2> DEFINE present == {m \in tx[t].todo : row[m] # Absent}
               pc   == IF tx[t].op = "replace" THEN "insert" ELSE "commit"
    <2>1. /\ tx[t] \in TxRecord /\ tx[t].pc = "delete" /\ present \subseteq Membership
          /\ \A m \in present : row[m] # Absent /\ lock[m] = None
          /\ tx' = [tx EXCEPT ![t] = [tx[t] EXCEPT !.pc = pc, !.del = present, !.todo = {}]]
          /\ lock' = [m \in Membership |-> IF m \in present THEN t ELSE lock[m]]
          /\ UNCHANGED <<row, born, raced, ops>>
      BY <1>6 DEF DeleteRows, TxInv, TxRecord
    <2>2. pc \in {"insert", "commit"} /\ (tx[t].op = "replace" <=> pc = "insert")
      OBVIOUS
    <2>3. tx[t].op = "replace" /\ t \notin raced => present = RowsOf(tx[t].user)
      BY <2>1, None \notin User DEF TxInv, ReplaceInv, ShapeInv, RowsOf, Absent
    <2>4. \A m \in tx[t].seen : row[m] = Absent \/ m \in present
      BY <2>1 DEF TxInv, SeenInv
    <2> HIDE DEF present, pc
    <2>5. /\ tx' \in [Tx -> TxRecord]
          /\ \A o \in Tx \ {t} : tx'[o] = tx[o]
          /\ tx'[t].op = tx[t].op /\ tx'[t].user = tx[t].user /\ tx'[t].del = present
          /\ tx'[t].roles = tx[t].roles /\ tx'[t].pc = pc /\ tx'[t].todo = {}
          /\ tx'[t].seen = tx[t].seen
      BY <2>1, <2>2 DEF TxInv, TxRecord
    <2>6. MembershipsTypeOK' /\ BornInv' /\ UniqueInv'
      BY <2>1 DEF TxInv, MembershipsTypeOK, BornInv, UniqueInv, Absent
    <2>7. ShapeInv'
      BY <2>1, <2>2, <2>5 DEF TxInv, ShapeInv, Idle
    <2>8. DelInv'
      BY <2>1, <2>5, None \notin Tx DEF TxInv, DelInv, Absent, TxRecord
    <2>9. NewInv'
      BY <2>1, <2>2, <2>5 DEF TxInv, NewInv, ShapeInv
    <2>10. SoloInv'
      <3>1. Idle.pc = "idle"
        BY DEF Idle
      <3>2. tx[t] # Idle /\ tx'[t] # Idle
        BY <3>1, <2>1, <2>2, <2>5
      <3> QED
        BY <3>2, <2>1, <2>2, <2>5 DEF TxInv, SoloInv
    <2>11. ReplaceInv'
      BY <2>1, <2>2, <2>3, <2>5 DEF TxInv, ReplaceInv, RowsOf
    <2>12. SeenInv'
      BY <2>1, <2>2, <2>4, <2>5 DEF TxInv, SeenInv, Absent
    <2> QED
      BY <2>5, <2>6, <2>7, <2>8, <2>9, <2>10, <2>11, <2>12 DEF TxInv
  <1>7. ASSUME NEW t \in Tx, DeleteFails(t) PROVE TxInv'
    BY <1>7, RollbackTxInv DEF DeleteFails
  <1>8. ASSUME NEW t \in Tx, InsertRows(t), ~Rollback(t) PROVE TxInv'
    <2>1. /\ tx[t] \in TxRecord /\ tx[t].pc = "insert"
          /\ tx' = [tx EXCEPT ![t] = [tx[t] EXCEPT !.pc = "commit"]]
          /\ UNCHANGED <<row, born, lock, raced, ops>>
          /\ \A m \in RowsOf(tx[t].user) \ tx[t].del : row[m].role \notin tx[t].roles
          /\ \A o \in Tx \ {t} :
               ~(tx[o].pc = "commit" /\ tx[o].user = tx[t].user /\ tx[o].roles \cap tx[t].roles # {})
      BY <1>8 DEF InsertRows, TxInv
    <2>2. /\ tx' \in [Tx -> TxRecord]
          /\ \A o \in Tx \ {t} : tx'[o] = tx[o]
          /\ tx'[t].op = tx[t].op /\ tx'[t].user = tx[t].user /\ tx'[t].del = tx[t].del
          /\ tx'[t].roles = tx[t].roles /\ tx'[t].pc = "commit" /\ tx'[t].todo = tx[t].todo
          /\ tx'[t].seen = tx[t].seen
      BY <2>1 DEF TxInv, TxRecord
    <2>3. MembershipsTypeOK' /\ BornInv' /\ UniqueInv'
      BY <2>1 DEF TxInv, MembershipsTypeOK, BornInv, UniqueInv, Absent
    <2>4. ShapeInv' /\ DelInv'
      BY <2>1, <2>2 DEF TxInv, ShapeInv, DelInv, Absent, Idle
    <2>5. NewInv'
      BY <2>1, <2>2 DEF TxInv, NewInv, RowsOf
    <2>6. SoloInv'
      <3>1. Idle.pc = "idle"
        BY DEF Idle
      <3>2. tx[t] # Idle /\ tx'[t] # Idle
        BY <3>1, <2>1, <2>2
      <3> QED
        BY <3>2, <2>1, <2>2 DEF TxInv, SoloInv
    <2>7. ReplaceInv' /\ SeenInv'
      BY <2>1, <2>2 DEF TxInv, ReplaceInv, SeenInv, ShapeInv, RowsOf, Absent
    <2> QED
      BY <2>2, <2>3, <2>4, <2>5, <2>6, <2>7 DEF TxInv
  <1>9. ASSUME NEW t \in Tx, Commit(t) PROVE TxInv'
    BY <1>9, CommitTxInv
  <1>11. ASSUME NEW t \in Tx, InsertFails(t) PROVE TxInv'
    BY <1>11, RollbackTxInv DEF InsertFails
  <1>10. CASE UNCHANGED membershipVars
    BY <1>10 DEF membershipVars, TxInv, MembershipsTypeOK, TxRecord, ShapeInv, BornInv, DelInv, NewInv, UniqueInv,
                 SoloInv, ReplaceInv, SeenInv, RowsOf, Absent, Idle
  <1> QED
    BY <1>1, <1>2, <1>3, <1>4, <1>5, <1>6, <1>7, <1>8, <1>9, <1>10, <1>11, RollbackTxInv DEF MembershipsNext

\* The inductive invariant always holds.
LEMMA TxInvariance == MembershipsSpec => []TxInv
  BY InitTxInv, NextTxInv, PTL DEF MembershipsSpec

-----------------------------------------------------------------------------

\* The rows are well-typed, a user never holds a role twice, and a membership
\* that DeleteOrgMembership is about to report as deleted is there, for any
\* number of requests in flight.
THEOREM NoPhantomRowsEver == MembershipsSpec => []MembershipInv
  <1>1. TxInv => MembershipInv
    BY DEF TxInv, MembershipInv, NoPhantomRows, UniqueInv, DelInv
  <1> QED
    BY <1>1, TxInvariance, PTL

\* Only Commit makes a request that is about to commit idle.
LEMMA CommitsIsCommit ==
  ASSUME TxInv, [MembershipsNext]_membershipVars, NEW t \in Tx, tx[t].pc = "commit", tx'[t] = Idle
  PROVE  Commit(t)
  <1>1. tx[t] # Idle /\ tx \in [Tx -> TxRecord]
    BY DEF Idle, TxInv
  <1>2. ASSUME NEW o \in Tx, o # t, Commit(o) PROVE FALSE
    BY <1>1, <1>2 DEF Commit, Finish
  <1>3. ASSUME NEW o \in Tx, NEW rec, StartRequest(o, rec) PROVE FALSE
    BY <1>1, <1>3 DEF StartRequest
  <1>4. ASSUME NEW o \in Tx, tx[o].pc # "commit", tx'[t] # tx[t], \A p \in Tx \ {o} : tx'[p] = tx[p] PROVE FALSE
    BY <1>4
  <1>5. ASSUME NEW o \in Tx, BulkDelete(o) \/ DeleteRows(o) \/ DeleteFails(o) \/ InsertRows(o) \/ InsertFails(o) PROVE FALSE
    <2>1. tx[o].pc # "commit" /\ \A p \in Tx \ {o} : tx'[p] = tx[p]
      BY <1>1, <1>5 DEF BulkDelete, DeleteRows, DeleteFails, InsertRows, InsertFails, Rollback, Finish
    <2> QED
      BY <2>1, <1>1, <1>4
  <1>6. ~UNCHANGED membershipVars
    BY <1>1 DEF membershipVars
  <1> QED
    BY <1>2, <1>3, <1>5, <1>6 DEF MembershipsNext, Create, Delete, Replace, RemoveAccess

\* ReplaceOrgUserMemberships that overlapped no request leaves the user with
\* exactly the roles that were asked for, whatever requests came before it.
THEOREM ReplaceIsExactEver == MembershipsSpec => ReplaceIsExact
  <1>1. ASSUME TxInv, [MembershipsNext]_membershipVars, NEW t \in Tx \ raced, Commits(t, "replace")
        PROVE  RolesOf(tx[t].user, row') = tx[t].roles
    <2>1. Commit(t)
      BY <1>1, CommitsIsCommit DEF Commits
    <2>2. /\ tx[t] \in TxRecord /\ tx[t].user \in User /\ tx[t].del = RowsOf(tx[t].user)
          /\ tx[t].roles \subseteq Role
      BY <1>1 DEF TxInv, TxRecord, ShapeInv, ReplaceInv, Commits
    <2>3. PICK id \in NewIds(t) : row' = Written(t, id)
      BY <2>1 DEF Commit
    <2>4. \A r \in tx[t].roles : id[r] \in Membership \ born /\ id[r] \notin tx[t].del
      BY <1>1, <2>1 DEF NewIds, TxInv, DelInv, BornInv
    <2>5. \A m \in tx[t].del : row'[m] = Absent
      BY <2>2, <2>3, <2>4 DEF Written, RowsOf
    <2>6. ASSUME NEW m \in Membership, row'[m].user = tx[t].user
          PROVE  row'[m].role \in tx[t].roles
      <3>1. m \notin tx[t].del
        BY <2>2, <2>5, <2>6, None \notin User DEF Absent
      <3>2. row[m].user # tx[t].user
        BY <2>2, <3>1 DEF RowsOf
      <3>3. \E r \in tx[t].roles : id[r] = m
        BY <2>3, <2>6, <3>1, <3>2 DEF Written
      <3>4. row'[m] = [user |-> tx[t].user, role |-> CHOOSE r \in tx[t].roles : id[r] = m]
        BY <2>3, <3>1, <3>3 DEF Written
      <3>5. (CHOOSE r \in tx[t].roles : id[r] = m) \in tx[t].roles
        BY <3>3
      <3> QED
        BY <3>4, <3>5
    <2>7. ASSUME NEW r \in tx[t].roles
          PROVE  id[r] \in Membership /\ row'[id[r]].user = tx[t].user /\ row'[id[r]].role = r
      <3>1. (CHOOSE q \in tx[t].roles : id[q] = id[r]) = r
        BY DEF NewIds
      <3>2. row'[id[r]] = [user |-> tx[t].user, role |-> r]
        BY <2>3, <2>4, <3>1 DEF Written
      <3> QED
        BY <2>4, <3>2
    <2> QED
      BY <2>6, <2>7 DEF RolesOf
  <1> QED
    <2>1. TxInv /\ [MembershipsNext]_membershipVars =>
            [\A t \in Tx \ raced : Commits(t, "replace") => RolesOf(tx[t].user, row') = tx[t].roles]_membershipVars
      BY <1>1
    <2> QED
      BY <2>1, TxInvariance, PTL DEF ReplaceIsExact, MembershipsSpec

\* What a deletion, a replacement or the removal of an organization's access
\* reports as removed is gone when it commits, whatever requests overlap it.
THEOREM DeletionsHoldEver == MembershipsSpec => DeletionsHold
  <1>1. ASSUME TxInv, [MembershipsNext]_membershipVars, NEW t \in Tx,
               NEW kind \in {"delete", "replace", "remove"}, Commits(t, kind), NEW m \in tx[t].seen
        PROVE  row'[m] = Absent
    <2>1. Commit(t)
      BY <1>1, CommitsIsCommit DEF Commits
    <2>2. m \in born /\ m \in Membership /\ (row[m] = Absent \/ m \in tx[t].del)
      BY <1>1 DEF TxInv, SeenInv, MembershipsTypeOK, Commits
    <2>3. PICK id \in NewIds(t) : row' = Written(t, id)
      BY <2>1 DEF Commit
    <2>4. ~\E r \in tx[t].roles : id[r] = m
      BY <2>2 DEF NewIds
    <2> QED
      BY <2>2, <2>3, <2>4 DEF Written
  <1> QED
    <2>1. TxInv /\ [MembershipsNext]_membershipVars =>
            [\A t \in Tx : \A kind \in {"delete", "replace", "remove"} :
                Commits(t, kind) => \A m \in tx[t].seen : row'[m] = Absent]_membershipVars
      BY <1>1
    <2> QED
      BY <2>1, TxInvariance, PTL DEF DeletionsHold, MembershipsSpec

=============================================================================
