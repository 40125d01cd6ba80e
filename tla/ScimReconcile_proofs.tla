------------------------ MODULE ScimReconcile_proofs ------------------------
(***************************************************************************)
(* Proofs about ScimReconcile, for any number of transactions in flight    *)
(* and any rows, groups, names, roles and clients.                         *)
(***************************************************************************)
EXTENDS ScimReconcile, WellFoundedInduction, TLAPS

PatchOp == {"add", "remove", "replace"}
GroupOp == PatchOp \cup {"delete_group"}
UserOp == {"update_user", "delete_user"}

Pcs == {"idle", "name", "check_members", "insert_members", "users", "reconcile", "commit", "group", "by_name",
        "lock_by_name", "write_mapping", "insert", "reconcile_user", "create_memberships", "lock_user",
        "find_groups", "lock_groups", "clear_members", "leave_groups"}

Plans == [Row -> [add : SUBSET Role, drop : SUBSET Role]]
TxType == [op : {"idle", "create", "mapping", "provision"} \cup GroupOp \cup UserOp, pc : Pcs,
           g : Group \cup {None}, n : Name \cup {None}, r : Row \cup {None}, role : Role \cup {None},
           active : BOOLEAN, seen : Nat, was : BOOLEAN, old : SUBSET Row, fresh : SUBSET Row,
           found : SUBSET Group, todo : SUBSET Nat, plan : Plans]

\* The transaction of t goes on as new.
Becomes(t, new) == tx' = [s \in Tx |-> IF s = t THEN new ELSE tx[s]]

Types == TypeOK /\ tx \in [Tx -> TxType]

\* What a request is about and how far one of its kind may get.
ShapeOf(q) ==
    /\ q.op = "idle" <=> q.pc = "idle"
    /\ q.op = "create" => q.pc \in {"name", "check_members", "insert_members", "users", "reconcile", "commit"}
    /\ q.op \in PatchOp =>
          q.pc \in {"group", "name", "clear_members", "check_members", "insert_members", "users", "reconcile", "commit"}
    /\ q.op = "delete_group" => q.pc \in {"group", "clear_members", "users", "reconcile", "commit"}
    /\ q.op = "mapping" => q.pc \in {"by_name", "lock_by_name", "write_mapping", "users", "reconcile", "commit"}
    /\ q.op = "provision" => q.pc \in {"insert", "reconcile_user", "create_memberships", "commit"}
    /\ q.op = "update_user" => q.pc \in {"lock_user", "reconcile_user", "create_memberships", "commit"}
    /\ q.op = "delete_user" => q.pc \in {"find_groups", "lock_groups", "lock_user", "leave_groups", "commit"}
    /\ q.op \in GroupOp \cup {"create"} <=> q.g # None
    /\ q.op \in UserOp \cup {"provision"} => q.r \in Row
    /\ q.op = "mapping" \/ q.pc = "name" => q.n \in Name
    /\ q.pc \in {"users", "insert_members", "clear_members", "name"} => q.todo \subseteq Row
    /\ q.pc \in {"lock_by_name", "lock_groups", "leave_groups"} => q.todo \subseteq Group

\* Which locks a request holds when: one that waits for a group holds nothing
\* but, if it deletes a user, groups with smaller ids.
LockOf(t, q, ex, sh) ==
    /\ \/ q.pc \in {"idle", "group", "by_name", "lock_by_name", "find_groups"}
       \/ q.op = "provision" \/ (q.op = "update_user" /\ q.pc = "lock_user")
       => (\A x \in Resource : ex[x] # t) /\ \A r \in Row : t \notin sh[r]
    /\ q.op = "delete_user" /\ q.pc \in {"lock_groups", "lock_user"} =>
          /\ \A r \in Row : ex[<<"user", r>>] # t /\ t \notin sh[r]
          /\ \A n \in Name : ex[<<"name", n>>] # t /\ ex[<<"mapping", n>>] # t
          /\ q.pc = "lock_groups" => \A g \in Group : ex[<<"group", g>>] = t => \A h \in q.todo : g < h
    /\ q.op \in GroupOp /\ q.pc # "group" => ex[<<"group", q.g>>] = t

\* Behind the lock of its group a request knows the members.
MembersOf(q, mb, st) ==
    q.op \in GroupOp /\ q.pc # "group" =>
        \A r \in Row : /\ st[r] \in Live => (r \in mb[q.g] <=> r \in q.old)
                       /\ r \in q.old => st[r] # "none"

\* What the user requests know of their row: one that may commit holds the row
\* and saw it as it is.
UserOf(t, q, ex, ver, st, n) ==
    /\ q.op = "provision" => st[q.r] = "none"
    /\ q.op \in UserOp =>
          /\ q.seen < n /\ q.seen <= ver[q.r] /\ st[q.r] # "none"
          /\ q.op = "update_user" /\ ver[q.r] = q.seen => (q.was <=> st[q.r] = "active")
          /\ q.pc \in {"reconcile_user", "create_memberships", "leave_groups", "commit"} =>
                ex[<<"user", q.r>>] = t /\ ver[q.r] = q.seen /\ st[q.r] \in Live

\* A plan is made for rows that are active, behind their locks, or for the one
\* row that becomes active.
PlanOf(t, q, ex, st) ==
    /\ q.op \in {"provision", "update_user"} /\ q.pc \in {"reconcile_user", "create_memberships"} =>
          q.active /\ (q.op = "update_user" => ~q.was)
    /\ \A r \in Row : q.plan[r].add # {} \/ q.plan[r].drop # {} =>
          /\ q.pc \in {"create_memberships", "commit"} /\ q.op # "delete_user"
          /\ IF q.op \in {"provision", "update_user"}
             THEN r = q.r /\ q.active /\ (q.op = "update_user" => ~q.was)
             ELSE ex[<<"user", r>>] = t /\ st[r] = "active"

RequestInv ==
    \A t \in Tx :
        /\ ShapeOf(tx[t]) /\ LockOf(t, tx[t], excl, share) /\ MembersOf(tx[t], members, status)
        /\ UserOf(t, tx[t], excl, version, status, started) /\ PlanOf(t, tx[t], excl, status)

\* A group that is locked exists, and one that is being created does not; a row
\* is inserted by one request, and its version is the number of its updates.
RowInv ==
    /\ \A g \in Group : excl[<<"group", g>>] # None => names[g] # None
    /\ \A t \in Tx : tx[t].op = "create" => names[tx[t].g] = None
    /\ \A s, t \in Tx : s # t /\ tx[s].op = "create" /\ tx[t].op = "create" => tx[s].g # tx[t].g
    /\ \A s, t \in Tx : s # t /\ tx[s].op = "provision" /\ tx[t].op = "provision" => tx[s].r # tx[t].r
    /\ \A g \in Group : \A r \in members[g] : status[r] # "none"
    /\ \A r \in Row : version[r] <= started

IInv == Types /\ RequestInv /\ RowInv /\ DeprovisionedStaysOut
-----------------------------------------------------------------------------
\* A set of numbers has a least element.
LEMMA Least ==
  ASSUME NEW T \in SUBSET Nat, T # {}
  PROVE  \E x \in T : \A y \in T : x <= y
  <1>1. PICK x \in T : \A y \in T : ~(<<y, x>> \in OpToRel(<, Nat))
    BY NatLessThanWellFounded, WFMin
  <1>2. \A y \in T : y \in Nat /\ x \in Nat
    OBVIOUS
  <1>3. \A y \in T : ~(y < x)
    <2> SUFFICES ASSUME NEW y \in T, y < x PROVE FALSE
      OBVIOUS
    <2>1. <<y, x>> \in OpToRel(<, Nat)
      BY <1>2 DEF OpToRel
    <2> QED
      BY <1>1, <2>1
  <1> QED
    BY <1>2, <1>3

\* One more than a bound.
LEMMA Counting == \A v, n \in Nat : v <= v /\ (v <= n => v < n + 1) /\ (v < n => v + 1 <= n)
  OBVIOUS

\* Less or equal, and different.
LEMMA Strictly == \A a, b \in Nat : a <= b /\ a # b => a < b
  OBVIOUS

USE ScimAssumption

\* Min, as the code's ORDER BY id uses it.
LEMMA MinFacts ==
  ASSUME NEW T \in SUBSET Nat, T # {}
  PROVE  Min(T) \in T /\ \A y \in T : Min(T) <= y /\ (y # Min(T) => Min(T) < y)
  <1>1. Min(T) \in T /\ \A y \in T : Min(T) <= y
    BY Least DEF Min
  <1> QED
    BY <1>1, Strictly

\* The resources that are locked, all different.
LEMMA Resources ==
  /\ \A g \in Group : <<"group", g>> \in Resource
  /\ \A r \in Row : <<"user", r>> \in Resource
  /\ \A g \in Group, r \in Row : <<"member", <<g, r>>>> \in Resource
  /\ \A n \in Name : <<"name", n>> \in Resource /\ <<"mapping", n>> \in Resource
  BY DEF Resource

\* An idle request, and the empty plan.
LEMMA Basics ==
  /\ Idle \in TxType /\ Idle.op = "idle" /\ Idle.pc = "idle" /\ Idle.g = None /\ Idle.r = None
  /\ Idle.plan = NoPlan /\ NoPlan \in Plans /\ Idle.todo = {} /\ Idle.found = {}
  /\ \A r \in Row : NoPlan[r].add = {} /\ NoPlan[r].drop = {}
  /\ \A t \in Tx : t # None
  /\ \A r \in Row : r # None /\ r # Human
  /\ Human # None
  <1>1. NoPlan \in Plans /\ \A r \in Row : NoPlan[r].add = {} /\ NoPlan[r].drop = {}
    BY DEF NoPlan, Plans
  <1> HIDE DEF NoPlan
  <1>2. /\ Idle.op = "idle" /\ Idle.pc = "idle" /\ Idle.g = None /\ Idle.r = None /\ Idle.plan = NoPlan
        /\ Idle.todo = {} /\ Idle.found = {}
    BY DEF Idle
  <1>3. Idle \in TxType
    BY <1>1 DEF Idle, TxType, Pcs
  <1>4. (\A t \in Tx : t # None) /\ (\A r \in Row : r # None /\ r # Human) /\ Human # None
    OBVIOUS
  <1> QED
    BY <1>1, <1>2, <1>3, <1>4

\* The types, one variable at a time.
LEMMA TypeFacts ==
  ASSUME IInv
  PROVE  /\ status \in [Row -> Live \cup {"none", "deleted"}] /\ version \in [Row -> 0..client.limit]
         /\ names \in [Group -> Name \cup {None}] /\ members \in [Group -> SUBSET Row]
         /\ mapping \in [Name -> Role \cup {None}]
         /\ grant \in [User -> [Role -> Row \cup {None, Human}]]
         /\ excl \in [Resource -> Tx \cup {None}] /\ share \in [Row -> SUBSET Tx]
         /\ started \in 0..client.limit /\ client \in Clients /\ client.limit \in Nat
         /\ tx \in [Tx -> TxType]
  BY DEF IInv, Types, TypeOK

\* What s knows, if nobody takes or gives away the locks of s.
LEMMA Others ==
  ASSUME IInv, NEW s \in Tx, started' \in Nat, started <= started',
         \A x \in Resource : excl'[x] = s <=> excl[x] = s,
         \A r \in Row : s \in share'[r] <=> s \in share[r]
  PROVE  /\ ShapeOf(tx[s]) /\ LockOf(s, tx[s], excl', share') /\ MembersOf(tx[s], members, status)
         /\ UserOf(s, tx[s], excl', version, status, started') /\ PlanOf(s, tx[s], excl', status)
         /\ UserOf(s, tx[s], excl, version', status', started) => UserOf(s, tx[s], excl', version', status', started')
         /\ PlanOf(s, tx[s], excl, status') => PlanOf(s, tx[s], excl', status')
  <1> DEFINE q == tx[s]
  <1>0. /\ q \in TxType /\ ShapeOf(q) /\ LockOf(s, q, excl, share) /\ MembersOf(q, members, status)
        /\ UserOf(s, q, excl, version, status, started) /\ PlanOf(s, q, excl, status)
    BY TypeFacts DEF IInv, RequestInv
  <1>1. LockOf(s, q, excl', share')
    <2>1. q.op \in GroupOp => q.g \in Group
      BY <1>0 DEF ShapeOf, TxType
    <2> QED
      BY <1>0, <2>1, Resources DEF LockOf
  <1>2. q.op \in UserOp => q.r \in Row /\ q.seen \in Nat
    BY <1>0 DEF ShapeOf, TxType
  <1>3. started \in Nat
    BY TypeFacts
  <1>4. q.op \in UserOp /\ q.seen < started => q.seen < started'
    BY <1>2, <1>3
  <1>5. UserOf(s, q, excl', version, status, started')
    BY <1>0, <1>2, <1>4, Resources DEF UserOf
  <1>6. UserOf(s, q, excl, version', status', started) => UserOf(s, q, excl', version', status', started')
    BY <1>0, <1>2, <1>4, Resources DEF UserOf
  <1>7. PlanOf(s, q, excl', status)
    BY <1>0, Resources DEF PlanOf
  <1>8. PlanOf(s, q, excl, status') => PlanOf(s, q, excl', status')
    BY <1>0, Resources DEF PlanOf
  <1> QED
    BY <1>0, <1>1, <1>5, <1>6, <1>7, <1>8

\* A step of t that leaves the tables alone.
LEMMA LocalIInv ==
  ASSUME IInv, NEW t \in Tx, NEW new \in TxType,
         Becomes(t, new), UNCHANGED <<tables, client>>,
         started' \in 0..client.limit, started <= started',
         excl' \in [Resource -> Tx \cup {None}], share' \in [Row -> SUBSET Tx],
         \A s \in Tx \ {t} : /\ \A x \in Resource : excl'[x] = s <=> excl[x] = s
                             /\ \A r \in Row : s \in share'[r] <=> s \in share[r],
         \A g \in Group : excl'[<<"group", g>>] = t => names[g] # None,
         new.op = "create" => /\ names[new.g] = None
                              /\ \A s \in Tx \ {t} : tx[s].op = "create" => tx[s].g # new.g,
         new.op = "provision" => \A s \in Tx \ {t} : tx[s].op = "provision" => tx[s].r # new.r,
         ShapeOf(new), LockOf(t, new, excl', share'), MembersOf(new, members, status),
         UserOf(t, new, excl', version, status, started'), PlanOf(t, new, excl', status)
  PROVE  IInv'
  <1>1. tx' \in [Tx -> TxType] /\ tx'[t] = new /\ \A s \in Tx \ {t} : tx'[s] = tx[s]
    BY TypeFacts DEF Becomes
  <1>2. UNCHANGED <<status, version, names, members, mapping, grant, client>>
    BY DEF tables
  <1>3. started \in Nat /\ started' \in Nat
    BY TypeFacts
  <1>4. Types'
    BY <1>1, <1>2 DEF IInv, Types, TypeOK
  <1>5. RequestInv'
    <2>1. ASSUME NEW s \in Tx
          PROVE  /\ ShapeOf(tx'[s]) /\ LockOf(s, tx'[s], excl', share') /\ MembersOf(tx'[s], members, status)
                 /\ UserOf(s, tx'[s], excl', version, status, started') /\ PlanOf(s, tx'[s], excl', status)
      <3>1. CASE s = t
        BY <1>1, <3>1
      <3>2. CASE s # t
        BY <1>1, <1>3, <3>2, Others
      <3> QED
        BY <3>1, <3>2
    <2> QED
      BY <1>2, <2>1 DEF RequestInv
  <1>6. RowInv'
    <2>1. \A g \in Group : excl'[<<"group", g>>] # None => names[g] # None
      <3> SUFFICES ASSUME NEW g \in Group, excl'[<<"group", g>>] # None, excl'[<<"group", g>>] # t
                   PROVE  names[g] # None
        OBVIOUS
      <3> DEFINE x == <<"group", g>>
      <3>1. x \in Resource
        BY Resources
      <3>2. excl'[x] \in Tx \ {t}
        BY <3>1
      <3>3. excl[x] = excl'[x]
        BY <3>1, <3>2
      <3> QED
        BY <3>2, <3>3, Basics DEF IInv, RowInv
    <2>2. \A s \in Tx : tx'[s].op = "create" => names[tx'[s].g] = None
      BY <1>1 DEF IInv, RowInv
    <2>3. /\ \A s, u \in Tx : s # u /\ tx'[s].op = "create" /\ tx'[u].op = "create" => tx'[s].g # tx'[u].g
          /\ \A s, u \in Tx : s # u /\ tx'[s].op = "provision" /\ tx'[u].op = "provision" => tx'[s].r # tx'[u].r
      BY <1>1 DEF IInv, RowInv
    <2>4. \A r \in Row : version[r] <= started'
      <3>1. \A r \in Row : version[r] <= started /\ version[r] \in Nat
        BY TypeFacts DEF IInv, RowInv
      <3> QED
        BY <1>3, <3>1
    <2>5. \A g \in Group : \A r \in members[g] : status[r] # "none"
      BY DEF IInv, RowInv
    <2> QED
      BY <1>2, <2>1, <2>2, <2>3, <2>4, <2>5 DEF RowInv
  <1>7. DeprovisionedStaysOut'
    BY <1>2 DEF IInv, DeprovisionedStaysOut, Managed
  <1> QED
    BY <1>4, <1>5, <1>6, <1>7 DEF IInv

\* What t knows when it has ended.
LEMMA IdleFacts ==
  ASSUME NEW t, \A x \in Resource : excl'[x] # t, \A r \in Row : t \notin share'[r]
  PROVE  /\ ShapeOf(Idle) /\ LockOf(t, Idle, excl', share')
         /\ MembersOf(Idle, members, status) /\ MembersOf(Idle, members', status')
         /\ UserOf(t, Idle, excl', version, status, started') /\ UserOf(t, Idle, excl', version', status', started')
         /\ PlanOf(t, Idle, excl', status) /\ PlanOf(t, Idle, excl', status')
  BY Basics DEF ShapeOf, LockOf, MembersOf, UserOf, PlanOf, PatchOp, GroupOp, UserOp

\* The transaction ends and its locks are gone.
LEMMA FinishFacts ==
  ASSUME IInv, NEW t \in Tx, Finish(t)
  PROVE  /\ Becomes(t, Idle)
         /\ excl' \in [Resource -> Tx \cup {None}] /\ share' \in [Row -> SUBSET Tx]
         /\ \A s \in Tx \ {t} : /\ \A x \in Resource : excl'[x] = s <=> excl[x] = s
                                /\ \A r \in Row : s \in share'[r] <=> s \in share[r]
         /\ \A x \in Resource : excl'[x] # t
         /\ \A r \in Row : t \notin share'[r]
  <1>1. Becomes(t, Idle)
    BY TypeFacts DEF Finish, Becomes
  <1>2. /\ excl' = [x \in Resource |-> IF excl[x] = t THEN None ELSE excl[x]]
        /\ share' = [r \in Row |-> share[r] \ {t}]
    BY DEF Finish, Release
  <1>3. excl' \in [Resource -> Tx \cup {None}] /\ share' \in [Row -> SUBSET Tx]
    BY <1>2, TypeFacts
  <1>4. \A x \in Resource : excl'[x] = IF excl[x] = t THEN None ELSE excl[x]
    BY <1>2
  <1>5. \A r \in Row : share'[r] = share[r] \ {t}
    BY <1>2
  <1> QED
    BY <1>1, <1>3, <1>4, <1>5, Basics

\* A transaction is rolled back.
LEMMA AbortIInv ==
  ASSUME IInv, NEW t \in Tx, Abort(t)
  PROVE  IInv'
  <1>1. Finish(t) /\ UNCHANGED <<tables, client>> /\ started' = started
    BY DEF Abort
  <1>2. started \in 0..client.limit /\ started <= started
    BY TypeFacts
  <1>3. \A g \in Group : excl'[<<"group", g>>] # t
    BY <1>1, FinishFacts, Resources
  <1>4. /\ ShapeOf(Idle) /\ LockOf(t, Idle, excl', share') /\ MembersOf(Idle, members, status)
        /\ UserOf(t, Idle, excl', version, status, started') /\ PlanOf(t, Idle, excl', status)
    BY <1>1, FinishFacts, IdleFacts
  <1> QED
    BY <1>1, <1>2, <1>3, <1>4, FinishFacts, Basics, LocalIInv

\* A transaction commits: what it writes suits everybody else.
LEMMA CommitIInv ==
  ASSUME IInv, NEW t \in Tx, Finish(t), UNCHANGED <<started, client>>,
         status' \in [Row -> Live \cup {"none", "deleted"}], version' \in [Row -> 0..client.limit],
         names' \in [Group -> Name \cup {None}], members' \in [Group -> SUBSET Row],
         mapping' \in [Name -> Role \cup {None}], grant' \in [User -> [Role -> Row \cup {None, Human}]],
         \A s \in Tx \ {t} : /\ MembersOf(tx[s], members', status')
                             /\ UserOf(s, tx[s], excl, version', status', started)
                             /\ PlanOf(s, tx[s], excl, status')
                             /\ tx[s].op = "create" => names'[tx[s].g] = None,
         \A g \in Group : excl[<<"group", g>>] \in Tx \ {t} => names'[g] # None,
         \A g \in Group : \A r \in members'[g] : status'[r] # "none",
         \A r \in Row : version'[r] <= started,
         \A r \in Row : \A role \in Role : status'[r] # "active" => grant'[Owner[r]][role] # r
  PROVE  IInv'
  <1>1. tx' \in [Tx -> TxType] /\ tx'[t] = Idle /\ \A s \in Tx \ {t} : tx'[s] = tx[s]
    BY FinishFacts, TypeFacts, Basics DEF Becomes
  <1>2. started \in Nat /\ started <= started
    BY TypeFacts
  <1>3. Types'
    BY <1>1, FinishFacts DEF IInv, Types, TypeOK
  <1>4. RequestInv'
    <2>1. ASSUME NEW s \in Tx
          PROVE  /\ ShapeOf(tx'[s]) /\ LockOf(s, tx'[s], excl', share') /\ MembersOf(tx'[s], members', status')
                 /\ UserOf(s, tx'[s], excl', version', status', started') /\ PlanOf(s, tx'[s], excl', status')
      <3>1. CASE s = t
        BY <1>1, <3>1, FinishFacts, IdleFacts
      <3>2. CASE s # t
        BY <1>1, <1>2, <3>2, FinishFacts, Others
      <3> QED
        BY <3>1, <3>2
    <2> QED
      BY <2>1 DEF RequestInv
  <1>5. RowInv'
    <2>1. \A g \in Group : excl'[<<"group", g>>] # None => names'[g] # None
      <3> SUFFICES ASSUME NEW g \in Group, excl'[<<"group", g>>] # None
                   PROVE  names'[g] # None
        OBVIOUS
      <3> DEFINE x == <<"group", g>>
      <3>1. x \in Resource
        BY Resources
      <3>2. excl'[x] \in Tx \ {t}
        BY <3>1, FinishFacts
      <3>3. excl[x] = excl'[x]
        BY <3>1, <3>2, FinishFacts
      <3> QED
        BY <3>2, <3>3
    <2>2. \A s \in Tx : tx'[s].op = "create" => names'[tx'[s].g] = None
      BY <1>1, Basics
    <2>3. /\ \A s, u \in Tx : s # u /\ tx'[s].op = "create" /\ tx'[u].op = "create" => tx'[s].g # tx'[u].g
          /\ \A s, u \in Tx : s # u /\ tx'[s].op = "provision" /\ tx'[u].op = "provision" => tx'[s].r # tx'[u].r
      BY <1>1, Basics DEF IInv, RowInv
    <2> QED
      BY <2>1, <2>2, <2>3 DEF RowInv
  <1>6. DeprovisionedStaysOut'
    BY DEF DeprovisionedStaysOut, Managed
  <1> QED
    BY <1>3, <1>4, <1>5, <1>6 DEF IInv

\* The inductive invariant holds initially.
LEMMA InitIInv == Init => IInv
  <1> SUFFICES ASSUME Init PROVE IInv
    OBVIOUS
  <1>1. tx \in [Tx -> TxType] /\ \A t \in Tx : tx[t] = Idle
    BY Basics DEF Init
  <1>2. /\ \A x \in Resource : excl[x] = None
        /\ \A r \in Row : share[r] = {}
    BY DEF Init
  <1>3. Types
    <2>1. client.limit \in Nat /\ client \in Clients /\ names \in [Group -> Name \cup {None}]
      BY DEF Init
    <2>2. started \in 0..client.limit /\ version \in [Row -> 0..client.limit]
      BY <2>1 DEF Init
    <2>3. /\ status \in [Row -> Live \cup {"none", "deleted"}] /\ members \in [Group -> SUBSET Row]
          /\ mapping \in [Name -> Role \cup {None}] /\ grant \in [User -> [Role -> Row \cup {None, Human}]]
          /\ excl \in [Resource -> Tx \cup {None}] /\ share \in [Row -> SUBSET Tx]
      BY DEF Init
    <2> QED
      BY <1>1, <2>1, <2>2, <2>3 DEF Types, TypeOK
  <1>4. RequestInv
    <2>1. \A t \in Tx : (\A x \in Resource : excl[x] # t) /\ \A r \in Row : t \notin share[r]
      BY <1>2, Basics
    <2> QED
      BY <1>1, <2>1, Basics DEF RequestInv, ShapeOf, LockOf, MembersOf, UserOf, PlanOf, PatchOp, GroupOp, UserOp
  <1>5. RowInv
    <2>1. \A g \in Group : excl[<<"group", g>>] = None
      BY <1>2, Resources
    <2>2. /\ \A g \in Group : members[g] = {}
          /\ \A r \in Row : version[r] <= started
      BY DEF Init
    <2> QED
      BY <1>1, <2>1, <2>2, Basics DEF RowInv
  <1>6. DeprovisionedStaysOut
    <2>1. \A r \in Row : Owner[r] \in User
      BY DEF User
    <2> QED
      BY <2>1, Basics DEF Init, DeprovisionedStaysOut, Managed
  <1> QED
    BY <1>3, <1>4, <1>5, <1>6 DEF IInv

\* A request arrives at an idle transaction.
LEMMA StartIInv ==
  ASSUME IInv, NEW t \in Tx, NEW op, NEW rec \in TxType, Start(t, op, rec), ShapeOf(rec), rec.plan = NoPlan,
         rec.op \in GroupOp => rec.pc = "group",
         rec.op = "provision" => /\ rec.pc = "insert" /\ status[rec.r] = "none"
                                 /\ \A s \in Tx : tx[s].r # rec.r,
         rec.op = "create" => names[rec.g] = None /\ \A s \in Tx : tx[s].g # rec.g,
         rec.op \in UserOp => /\ rec.pc \in {"find_groups", "lock_user"} /\ (rec.op = "delete_user" => rec.pc = "find_groups")
                              /\ rec.seen = version[rec.r] /\ status[rec.r] \in Live
                              /\ rec.op = "update_user" => (rec.was <=> status[rec.r] = "active")
  PROVE  IInv'
  <1>1. /\ tx[t] = Idle /\ started < client.limit /\ started' = started + 1 /\ UNCHANGED <<tables, excl, share, client>>
        /\ Becomes(t, rec)
    BY TypeFacts DEF Start, Becomes, lockVars
  <1>2. started \in Nat /\ started' \in 0..client.limit /\ started <= started' /\ client.limit \in Nat
    BY <1>1, TypeFacts
  <1>3. (\A x \in Resource : excl[x] # t) /\ \A r \in Row : t \notin share[r]
    BY <1>1, Basics DEF IInv, RequestInv, LockOf
  <1>4. LockOf(t, rec, excl, share)
    BY <1>3 DEF LockOf, GroupOp, PatchOp, UserOp
  <1>5. MembersOf(rec, members, status)
    BY DEF MembersOf
  <1>6. UserOf(t, rec, excl, version, status, started')
    <2>1. rec.op \in UserOp => rec.r \in Row
      BY DEF ShapeOf
    <2>2. \A r \in Row : version[r] \in Nat /\ version[r] < started' /\ version[r] <= version[r]
      <3>1. \A r \in Row : version[r] <= started /\ version[r] \in Nat
        BY TypeFacts DEF IInv, RowInv
      <3> QED
        BY <1>1, <1>2, <3>1, Counting
    <2>3. "none" \notin Live
      BY DEF Live
    <2> QED
      BY <2>1, <2>2, <2>3 DEF UserOf, UserOp
  <1>7. PlanOf(t, rec, excl, status)
    <2>1. rec.op \in {"provision", "update_user"} => rec.pc \notin {"reconcile_user", "create_memberships"}
      BY DEF UserOp
    <2> QED
      BY <2>1, Basics DEF PlanOf
  <1>8. \A g \in Group : excl[<<"group", g>>] # t
    BY <1>3, Resources
  <1> QED
    BY <1>1, <1>2, <1>4, <1>5, <1>6, <1>7, <1>8, TypeFacts, LocalIInv

\* Every request may arrive.
LEMMA RequestIInv ==
  ASSUME IInv, NEW t \in Tx, Request(t)
  PROVE  IInv'
  <1>0. client.groups \subseteq Group /\ client.names \subseteq Name
    BY TypeFacts
  <1>1. ASSUME NEW g \in client.groups, NEW n \in client.names, NEW ms \in SUBSET Row, BeginCreateGroup(t, g, n, ms)
        PROVE  IInv'
    <2> DEFINE rec == [Idle EXCEPT !.op = "create", !.pc = "name", !.g = g, !.n = n, !.fresh = ms]
    <2>1. /\ rec \in TxType /\ rec.op = "create" /\ rec.pc = "name" /\ rec.g = g /\ rec.n = n /\ rec.plan = NoPlan
          /\ rec.todo = {}
      BY <1>0, Basics DEF TxType, Pcs
    <2>2. Start(t, "create", rec) /\ names[g] = None /\ \A s \in Tx : tx[s].g # g
      BY <1>1 DEF BeginCreateGroup
    <2> HIDE DEF rec
    <2>3. ShapeOf(rec)
      BY <1>0, <2>1 DEF ShapeOf, GroupOp, PatchOp, UserOp
    <2> QED
      BY <2>1, <2>2, <2>3, StartIInv DEF GroupOp, PatchOp, UserOp
  <1>2. ASSUME NEW g \in client.groups, NEW n \in client.names \cup {None}, NEW kind \in {"add", "remove", "replace"},
               NEW ms \in SUBSET Row, BeginPatchGroup(t, g, n, kind, ms)
        PROVE  IInv'
    <2> DEFINE rec == [Idle EXCEPT !.op = kind, !.pc = "group", !.g = g, !.n = n, !.fresh = ms]
    <2>1. rec \in TxType /\ rec.op = kind /\ rec.pc = "group" /\ rec.g = g /\ rec.plan = NoPlan
      BY ZenonT(60), <1>0, Basics DEF TxType, Pcs, GroupOp, PatchOp
    <2>2. Start(t, "patch", rec)
      BY <1>2 DEF BeginPatchGroup
    <2> HIDE DEF rec
    <2>3. ShapeOf(rec)
      BY <1>0, <2>1 DEF ShapeOf, GroupOp, PatchOp, UserOp
    <2> QED
      BY <2>1, <2>2, <2>3, StartIInv DEF GroupOp, PatchOp, UserOp
  <1>3. ASSUME NEW g \in client.groups, BeginDeleteGroup(t, g)
        PROVE  IInv'
    <2> DEFINE rec == [Idle EXCEPT !.op = "delete_group", !.pc = "group", !.g = g]
    <2>1. rec \in TxType /\ rec.op = "delete_group" /\ rec.pc = "group" /\ rec.g = g /\ rec.plan = NoPlan
      BY <1>0, Basics DEF TxType, Pcs, GroupOp, PatchOp
    <2>2. Start(t, "delete_group", rec)
      BY <1>3 DEF BeginDeleteGroup
    <2> HIDE DEF rec
    <2>3. ShapeOf(rec)
      BY <1>0, <2>1 DEF ShapeOf, GroupOp, PatchOp, UserOp
    <2> QED
      BY <2>1, <2>2, <2>3, StartIInv DEF GroupOp, PatchOp, UserOp
  <1>4. ASSUME NEW n \in client.names, NEW role \in Role \cup {None}, BeginMapping(t, n, role)
        PROVE  IInv'
    <2> DEFINE rec == [Idle EXCEPT !.op = "mapping", !.pc = "by_name", !.n = n, !.role = role]
    <2>1. rec \in TxType /\ rec.op = "mapping" /\ rec.pc = "by_name" /\ rec.n = n /\ rec.g = None /\ rec.plan = NoPlan
      BY <1>0, Basics DEF TxType, Pcs
    <2>2. Start(t, "mapping", rec)
      BY <1>4 DEF BeginMapping
    <2> HIDE DEF rec
    <2>3. ShapeOf(rec)
      BY <1>0, <2>1 DEF ShapeOf, GroupOp, PatchOp, UserOp
    <2> QED
      BY <2>1, <2>2, <2>3, StartIInv DEF GroupOp, PatchOp, UserOp
  <1>5. ASSUME NEW r \in Row, NEW active \in BOOLEAN, BeginProvision(t, r, active)
        PROVE  IInv'
    <2> DEFINE rec == [Idle EXCEPT !.op = "provision", !.pc = "insert", !.r = r, !.active = active]
    <2>1. rec \in TxType /\ rec.op = "provision" /\ rec.pc = "insert" /\ rec.r = r /\ rec.g = None /\ rec.plan = NoPlan
      BY Basics DEF TxType, Pcs
    <2>2. Start(t, "provision", rec) /\ status[r] = "none" /\ \A s \in Tx : tx[s].r # r
      BY <1>5 DEF BeginProvision
    <2> HIDE DEF rec
    <2>3. ShapeOf(rec)
      BY <2>1 DEF ShapeOf, GroupOp, PatchOp, UserOp
    <2> QED
      BY <2>1, <2>2, <2>3, StartIInv DEF GroupOp, PatchOp, UserOp
  <1>6. ASSUME NEW r \in Row, NEW active \in BOOLEAN, BeginUpdateUser(t, r, active)
        PROVE  IInv'
    <2> DEFINE was == status[r] = "active"
               rec == [Idle EXCEPT !.op = "update_user", !.pc = "lock_user", !.r = r, !.active = active,
                                   !.seen = version[r], !.was = was]
    <2>0. was \in BOOLEAN /\ (was <=> status[r] = "active")
      OBVIOUS
    <2>4. version[r] \in Nat
      BY TypeFacts
    <2>2. Start(t, "update_user", rec) /\ status[r] \in Live
      BY <1>6 DEF BeginUpdateUser
    <2> HIDE DEF was
    <2>1. /\ rec \in TxType /\ rec.op = "update_user" /\ rec.pc = "lock_user" /\ rec.r = r /\ rec.g = None
          /\ rec.plan = NoPlan /\ rec.seen = version[r] /\ rec.was = was
      BY ZenonT(60), <2>0, <2>4, Basics DEF TxType, Pcs, UserOp
    <2> HIDE DEF rec
    <2>3. ShapeOf(rec)
      BY <2>1 DEF ShapeOf, GroupOp, PatchOp, UserOp
    <2> QED
      BY <2>0, <2>1, <2>2, <2>3, StartIInv DEF GroupOp, PatchOp, UserOp
  <1>7. ASSUME NEW r \in Row, BeginDeleteUser(t, r)
        PROVE  IInv'
    <2> DEFINE rec == [Idle EXCEPT !.op = "delete_user", !.pc = "find_groups", !.r = r, !.seen = version[r]]
    <2>0. version[r] \in Nat
      BY TypeFacts
    <2>1. /\ rec \in TxType /\ rec.op = "delete_user" /\ rec.pc = "find_groups" /\ rec.r = r /\ rec.g = None
          /\ rec.plan = NoPlan /\ rec.seen = version[r]
      BY <2>0, Basics DEF TxType, Pcs, UserOp
    <2>2. Start(t, "delete_user", rec) /\ status[r] \in Live
      BY <1>7 DEF BeginDeleteUser
    <2> HIDE DEF rec
    <2>3. ShapeOf(rec)
      BY <2>1 DEF ShapeOf, GroupOp, PatchOp, UserOp
    <2> QED
      BY <2>1, <2>2, <2>3, StartIInv DEF GroupOp, PatchOp, UserOp
  <1> QED
    BY <1>1, <1>2, <1>3, <1>4, <1>5, <1>6, <1>7 DEF Request

\* Locks are taken that nobody else holds.
LEMMA TakeFacts ==
  ASSUME IInv, NEW t \in Tx, NEW X, TakeExcl(t, X)
  PROVE  /\ excl' \in [Resource -> Tx \cup {None}]
         /\ \A x \in Resource : excl'[x] = IF x \in X THEN t ELSE excl[x]
         /\ \A s \in Tx \ {t} : \A x \in Resource : excl'[x] = s <=> excl[x] = s
  <1>1. excl' = [x \in Resource |-> IF x \in X THEN t ELSE excl[x]]
    BY DEF TakeExcl
  <1>2. \A x \in X : excl[x] \in {None, t}
    BY DEF TakeExcl, ExclBlockers
  <1>3. excl' \in [Resource -> Tx \cup {None}] /\ \A x \in Resource : excl'[x] = IF x \in X THEN t ELSE excl[x]
    BY <1>1, TypeFacts
  <1> QED
    BY <1>2, <1>3, Basics

\* A step by which a request goes on and takes locks.
LEMMA OwnIInv ==
  ASSUME IInv, NEW t \in Tx, NEW new \in TxType, Becomes(t, new), UNCHANGED <<tables, started, client>>,
         excl' \in [Resource -> Tx \cup {None}], share' \in [Row -> SUBSET Tx],
         \A s \in Tx \ {t} : /\ \A x \in Resource : excl'[x] = s <=> excl[x] = s
                             /\ \A r \in Row : s \in share'[r] <=> s \in share[r],
         \A g \in Group : excl'[<<"group", g>>] = t => excl[<<"group", g>>] = t \/ names[g] # None,
         new.op = tx[t].op, new.g = tx[t].g, new.r = tx[t].r, new.seen = tx[t].seen, new.was = tx[t].was,
         ShapeOf(new), LockOf(t, new, excl', share'), MembersOf(new, members, status), PlanOf(t, new, excl', status),
         new.op \in UserOp /\ new.pc \in {"reconcile_user", "create_memberships", "leave_groups", "commit"} =>
            excl'[<<"user", new.r>>] = t /\ version[new.r] = new.seen /\ status[new.r] \in Live
  PROVE  IInv'
  <1>1. UserOf(t, new, excl', version, status, started)
    <2>1. UserOf(t, tx[t], excl, version, status, started)
      BY DEF IInv, RequestInv
    <2> QED
      BY <2>1 DEF UserOf
  <1>2. \A g \in Group : excl'[<<"group", g>>] = t => names[g] # None
    BY Basics DEF IInv, RowInv
  <1>0. RowInv
    BY DEF IInv
  <1>3. new.op = "create" => /\ names[new.g] = None
                             /\ \A s \in Tx \ {t} : tx[s].op = "create" => tx[s].g # new.g
    <2> SUFFICES ASSUME new.op = "create"
                 PROVE  names[tx[t].g] = None /\ \A s \in Tx \ {t} : tx[s].op = "create" => tx[s].g # tx[t].g
      BY Zenon
    <2> QED
      BY <1>0, tx[t].op = "create" DEF RowInv
  <1>4. new.op = "provision" => \A s \in Tx \ {t} : tx[s].op = "provision" => tx[s].r # new.r
    <2> SUFFICES ASSUME new.op = "provision", NEW s \in Tx \ {t}, tx[s].op = "provision"
                 PROVE  tx[s].r # tx[t].r
      BY Zenon
    <2> QED
      BY <1>0, tx[t].op = "provision" DEF RowInv
  <1>5. started' \in 0..client.limit /\ started <= started'
    BY TypeFacts
  <1> QED
    BY <1>1, <1>2, <1>3, <1>4, <1>5, LocalIInv

\* What IInv says of one transaction.
LEMMA OwnFacts ==
  ASSUME IInv, NEW t \in Tx
  PROVE  /\ tx[t] \in TxType /\ ShapeOf(tx[t]) /\ LockOf(t, tx[t], excl, share) /\ MembersOf(tx[t], members, status)
         /\ UserOf(t, tx[t], excl, version, status, started) /\ PlanOf(t, tx[t], excl, status)
  BY TypeFacts DEF IInv, RequestInv

\* Another program counter.
LEMMA StepFacts ==
  ASSUME IInv, NEW t \in Tx, NEW pc, Step(t, pc)
  PROVE  Becomes(t, [tx[t] EXCEPT !.pc = pc])
  BY TypeFacts DEF Step, Becomes

\* No plan has been made yet.
LEMMA UnplannedFacts ==
  ASSUME IInv, NEW t \in Tx, NEW new, new.plan = tx[t].plan, tx[t].pc \notin {"create_memberships", "commit"},
         new.op \in {"provision", "update_user"} /\ new.pc \in {"reconcile_user", "create_memberships"} =>
            new.active /\ (new.op = "update_user" => ~new.was)
  PROVE  PlanOf(t, new, excl', status)
  <1>1. \A r \in Row : tx[t].plan[r].add = {} /\ tx[t].plan[r].drop = {}
    BY OwnFacts DEF PlanOf
  <1> QED
    BY <1>1 DEF PlanOf

\* A plan consists of roles.
LEMMA PlanFacts ==
  ASSUME IInv, NEW t \in Tx, NEW r \in Row
  PROVE  PlanFor(r, t) \in [add : SUBSET Role, drop : SUBSET Role]
  <1>0. tx[t].g \in Group \cup {None} /\ tx[t].n \in Name \cup {None} /\ tx[t].role \in Role \cup {None}
    BY TypeFacts DEF TxType
  <1>1. NamesIn(t) \in [Group -> Name \cup {None}]
    BY <1>0, TypeFacts DEF NamesIn
  <1>2. MappingIn(t) \in [Name -> Role \cup {None}]
    BY <1>0, TypeFacts DEF MappingIn
  <1>3. MappedRoles(r, NamesIn(t), MembersIn(t), MappingIn(t)) \subseteq Role
    BY <1>1, <1>2 DEF MappedRoles
  <1>4. Target(r, MappedRoles(r, NamesIn(t), MembersIn(t), MappingIn(t))) \subseteq Role
    BY <1>3 DEF Target
  <1> QED
    BY <1>4 DEF PlanFor, Managed

\* The name of a group is claimed.
LEMMA ClaimNameIInv ==
  ASSUME IInv, NEW t \in Tx, ClaimName(t)
  PROVE  IInv'
  <1> DEFINE q == tx[t]
             X == {<<"name", q.n>>}
             pc == IF q.op = "create" THEN "check_members" ELSE "clear_members"
             new == [q EXCEPT !.pc = pc]
  <1>1. CASE Abort(t)
    BY <1>1, AbortIInv
  <1>2. CASE ~Abort(t)
    <2>1. q.pc = "name" /\ TakeExcl(t, X) /\ Step(t, pc) /\ UNCHANGED <<tables, share, started, client>>
      BY <1>2 DEF ClaimName
    <2>12. pc \in Pcs /\ pc = IF q.op = "create" THEN "check_members" ELSE "clear_members"
      BY DEF Pcs
    <2>13. q.todo \subseteq Row
      BY <2>1, OwnFacts DEF ShapeOf
    <2> HIDE DEF pc
    <2>2. /\ new \in TxType /\ new.pc = pc /\ new.op = q.op /\ new.g = q.g /\ new.r = q.r
          /\ new.seen = q.seen /\ new.was = q.was /\ new.old = q.old /\ new.plan = q.plan /\ new.todo = q.todo
      BY <2>12, OwnFacts DEF TxType, Pcs
    <2>3. Becomes(t, new)
      BY <2>1, StepFacts
    <2> HIDE DEF new
    <2>4. q.op \in PatchOp \cup {"create"} /\ q.g \in Group
      BY <2>1, OwnFacts DEF ShapeOf, TxType, GroupOp, UserOp, PatchOp
    <2>11. /\ excl' \in [Resource -> Tx \cup {None}]
           /\ \A x \in Resource : excl'[x] = IF x \in X THEN t ELSE excl[x]
           /\ \A s \in Tx \ {t} : \A x \in Resource : excl'[x] = s <=> excl[x] = s
      <3> HIDE DEF X
      <3> QED
        BY <2>1, TakeFacts
    <2>5. \A g \in Group : excl'[<<"group", g>>] = excl[<<"group", g>>]
      BY <2>11, Resources
    <2>6. ShapeOf(new)
      BY <2>12, <2>13, <2>1, <2>2, <2>4, OwnFacts DEF ShapeOf, GroupOp, UserOp, PatchOp
    <2>7. LockOf(t, new, excl', share')
      BY <2>12, <2>1, <2>2, <2>4, <2>5, OwnFacts DEF LockOf, GroupOp, PatchOp
    <2>8. MembersOf(new, members, status)
      BY <2>12, <2>1, <2>2, <2>4, OwnFacts DEF MembersOf, GroupOp
    <2>9. PlanOf(t, new, excl', status)
      BY <2>12, <2>1, <2>2, <2>4, UnplannedFacts DEF PatchOp
    <2>10. new.op \notin UserOp
      BY <2>2, <2>4 DEF PatchOp, UserOp
    <2> QED
      BY <2>1, <2>2, <2>3, <2>5, <2>6, <2>7, <2>8, <2>9, <2>10, <2>11, TypeFacts, OwnIInv
  <1> QED
    BY <1>1, <1>2

\* The group is locked and its members are read.
LEMMA LockScimGroupIInv ==
  ASSUME IInv, NEW t \in Tx, LockScimGroup(t)
  PROVE  IInv'
  <1> DEFINE q == tx[t]
             X == {<<"group", q.g>>}
             old == {r \in members[q.g] : status[r] \in Live}
             fresh == CASE q.op = "add" -> old \cup q.fresh
                        [] q.op = "remove" -> old \ q.fresh
                        [] OTHER -> q.fresh
             n == IF q.n = None /\ q.op # "delete_group" THEN names[q.g] ELSE q.n
             pc == IF q.op = "delete_group" THEN "clear_members" ELSE "name"
             todo == members[q.g]
             new == [q EXCEPT !.old = old, !.fresh = fresh, !.todo = todo, !.n = n, !.pc = pc]
  <1>1. CASE Abort(t)
    BY <1>1, AbortIInv
  <1>2. CASE ~Abort(t)
    <2>1. q.pc = "group" /\ names[q.g] # None /\ TakeExcl(t, X) /\ UNCHANGED <<tables, share, started, client>>
      BY <1>2 DEF LockScimGroup
    <2>2. Becomes(t, new)
      <3>1. tx' = [tx EXCEPT ![t].old = old, ![t].fresh = fresh, ![t].todo = members[q.g],
                             ![t].n = IF @ = None /\ tx[t].op # "delete_group" THEN names[q.g] ELSE @,
                             ![t].pc = IF tx[t].op = "delete_group" THEN "clear_members" ELSE "name"]
        BY <1>2 DEF LockScimGroup
      <3> HIDE DEF old, fresh
      <3> QED
        BY <3>1, TypeFacts DEF Becomes
    <2>3. q.op \in GroupOp /\ q.g \in Group
      BY <2>1, OwnFacts DEF ShapeOf, TxType, GroupOp, UserOp, PatchOp
    <2>4. /\ old \in SUBSET Row /\ fresh \in SUBSET Row /\ n \in Name \cup {None} /\ pc \in Pcs
          /\ todo \subseteq Row /\ todo \in SUBSET Nat
      <3>1. old \in SUBSET Row /\ q.fresh \in SUBSET Row /\ q.n \in Name \cup {None} /\ names[q.g] \in Name \cup {None}
        BY <2>3, TypeFacts, OwnFacts DEF TxType
      <3> HIDE DEF old
      <3>2. fresh \in SUBSET Row
        BY <3>1
      <3>3. todo \subseteq Row
        BY <2>3, TypeFacts
      <3> HIDE DEF fresh, todo
      <3> QED
        BY <3>1, <3>2, <3>3 DEF Pcs
    <2>15. pc = "name" => n \in Name
      <3>1. q.n \in Name \cup {None} /\ names[q.g] \in Name
        BY <2>1, <2>3, TypeFacts, OwnFacts DEF TxType
      <3> QED
        BY <3>1
    <2>5. \A r \in Row : r \in old <=> r \in members[q.g] /\ status[r] \in Live
      OBVIOUS
    <2>6. pc = IF q.op = "delete_group" THEN "clear_members" ELSE "name"
      OBVIOUS
    <2> HIDE DEF old, fresh, n, pc, todo
    <2>7. /\ new \in TxType /\ new.pc = pc /\ new.op = q.op /\ new.g = q.g /\ new.r = q.r
          /\ new.seen = q.seen /\ new.was = q.was /\ new.old = old /\ new.plan = q.plan /\ new.todo = todo
          /\ new.n = n
      BY ZenonT(60), <2>4, OwnFacts DEF TxType
    <2> HIDE DEF new
    <2>14. /\ excl' \in [Resource -> Tx \cup {None}]
           /\ \A x \in Resource : excl'[x] = IF x \in X THEN t ELSE excl[x]
           /\ \A s \in Tx \ {t} : \A x \in Resource : excl'[x] = s <=> excl[x] = s
      <3> HIDE DEF X
      <3> QED
        BY <2>1, TakeFacts
    <2>8. /\ excl'[<<"group", q.g>>] = t
          /\ \A g \in Group : excl'[<<"group", g>>] = t => excl[<<"group", g>>] = t \/ names[g] # None
      BY <2>1, <2>3, <2>14, Resources
    <2>9. ShapeOf(new)
      BY <2>3, <2>4, <2>6, <2>7, <2>15, OwnFacts DEF ShapeOf, GroupOp, UserOp, PatchOp
    <2>10. LockOf(t, new, excl', share')
      BY <2>3, <2>6, <2>7, <2>8 DEF LockOf, GroupOp, PatchOp
    <2>11. MembersOf(new, members, status)
      BY <2>5, <2>7 DEF MembersOf, Live
    <2>12. PlanOf(t, new, excl', status)
      BY <2>1, <2>3, <2>6, <2>7, UnplannedFacts DEF GroupOp, PatchOp
    <2>13. new.op \notin UserOp
      BY <2>3, <2>7 DEF PatchOp, GroupOp, UserOp
    <2> QED
      BY <2>1, <2>2, <2>7, <2>8, <2>9, <2>10, <2>11, <2>12, <2>13, <2>14, TypeFacts, OwnIInv
  <1> QED
    BY <1>1, <1>2

\* A step by which a request goes on and takes no lock.
LEMMA GoOnIInv ==
  ASSUME IInv, NEW t \in Tx, NEW new \in TxType, Becomes(t, new), UNCHANGED <<tables, lockVars, started, client>>,
         new.op = tx[t].op, new.g = tx[t].g, new.r = tx[t].r, new.seen = tx[t].seen, new.was = tx[t].was,
         ShapeOf(new), LockOf(t, new, excl, share), MembersOf(new, members, status), PlanOf(t, new, excl', status),
         new.op \in UserOp /\ new.pc \in {"reconcile_user", "create_memberships", "leave_groups", "commit"} =>
            excl[<<"user", new.r>>] = t /\ version[new.r] = new.seen /\ status[new.r] \in Live
  PROVE  IInv'
  <1>1. excl' = excl /\ share' = share /\ UNCHANGED <<tables, started, client>>
    BY DEF lockVars
  <1> QED
    BY <1>1, TypeFacts, OwnIInv

\* The member rows of the group are locked, one by one.
LEMMA ClearMembersIInv ==
  ASSUME IInv, NEW t \in Tx, ClearMembers(t)
  PROVE  IInv'
  <1> DEFINE q == tx[t]
  <1>0. q.pc = "clear_members" /\ UNCHANGED <<tables, started, client>>
    BY DEF ClearMembers
  <1>1. q.op \in GroupOp /\ q.g \in Group /\ q.todo \subseteq Row
    BY <1>0, OwnFacts DEF ShapeOf, TxType, GroupOp, UserOp, PatchOp
  <1>2. CASE q.todo = {}
    <2> DEFINE pc == IF q.op = "delete_group" THEN "users" ELSE "check_members"
               new == [q EXCEPT !.pc = pc, !.todo = q.old]
    <2>1. tx' = [tx EXCEPT ![t].pc = pc, ![t].todo = tx[t].old] /\ UNCHANGED lockVars
      BY <1>2 DEF ClearMembers
    <2>9. pc \in Pcs /\ pc = IF q.op = "delete_group" THEN "users" ELSE "check_members"
      BY DEF Pcs
    <2> HIDE DEF pc
    <2>2. Becomes(t, new)
      BY <2>1, TypeFacts DEF Becomes
    <2>10. q \in TxType
      BY OwnFacts
    <2>11. q.old \subseteq Row /\ q.old \in SUBSET Nat
      BY <2>10 DEF TxType
    <2>3. /\ new \in TxType /\ new.pc = pc /\ new.op = q.op /\ new.g = q.g /\ new.r = q.r /\ new.n = q.n
          /\ new.seen = q.seen /\ new.was = q.was /\ new.old = q.old /\ new.plan = q.plan /\ new.todo = q.old
      BY <2>9, <2>10, <2>11 DEF TxType
    <2> HIDE DEF new
    <2>4. ShapeOf(new)
      BY <1>0, <1>1, <2>3, <2>9, <2>11, OwnFacts DEF ShapeOf, GroupOp, UserOp, PatchOp
    <2>5. LockOf(t, new, excl, share)
      BY <1>0, <1>1, <2>3, <2>9, OwnFacts DEF LockOf, GroupOp, PatchOp
    <2>6. MembersOf(new, members, status)
      BY <1>0, <1>1, <2>3, <2>9, OwnFacts DEF MembersOf, GroupOp
    <2>7. PlanOf(t, new, excl', status)
      BY <1>0, <1>1, <2>3, <2>9, UnplannedFacts DEF GroupOp, PatchOp
    <2>8. new.op \notin UserOp
      BY <1>1, <2>3 DEF GroupOp, PatchOp, UserOp
    <2> QED
      BY <1>0, <2>1, <2>2, <2>3, <2>4, <2>5, <2>6, <2>7, <2>8, GoOnIInv
  <1>3. CASE q.todo # {}
    <2> DEFINE r == Min(q.todo)
               X == IF r \in members[q.g] THEN {<<"member", <<q.g, r>>>>} ELSE {}
               todo == q.todo \ {r}
               new == [q EXCEPT !.todo = todo]
    <2>1. tx' = [tx EXCEPT ![t].todo = @ \ {r}] /\ share' = share
      BY <1>3 DEF ClearMembers, lockVars
    <2>3. /\ excl' \in [Resource -> Tx \cup {None}]
          /\ \A x \in Resource : excl'[x] = IF x \in X THEN t ELSE excl[x]
          /\ \A s \in Tx \ {t} : \A x \in Resource : excl'[x] = s <=> excl[x] = s
      <3> HIDE DEF r
      <3>1. CASE r \in members[q.g]
        <4>1. TakeExcl(t, X)
          BY <1>3, <3>1 DEF ClearMembers, r
        <4> HIDE DEF X
        <4> QED
          BY <4>1, TakeFacts
      <3>2. CASE r \notin members[q.g]
        <4>1. excl' = excl /\ X = {}
          BY <1>3, <3>2 DEF ClearMembers, lockVars, r
        <4> QED
          BY <4>1, TypeFacts
      <3> QED
        BY <3>1, <3>2
    <2> HIDE DEF r
    <2>4. \A g \in Group : excl'[<<"group", g>>] = excl[<<"group", g>>]
      BY <2>3, Resources
    <2> HIDE DEF X
    <2>5. Becomes(t, new)
      BY <2>1, TypeFacts DEF Becomes
    <2>6. todo \subseteq Row /\ todo \in SUBSET Nat
      BY <1>1
    <2> HIDE DEF todo
    <2>7. /\ new \in TxType /\ new.pc = "clear_members" /\ new.op = q.op /\ new.g = q.g /\ new.r = q.r /\ new.n = q.n
          /\ new.seen = q.seen /\ new.was = q.was /\ new.old = q.old /\ new.plan = q.plan /\ new.todo = todo
      BY <1>0, <2>6, OwnFacts DEF TxType
    <2> HIDE DEF new
    <2>8. ShapeOf(new)
      BY <1>0, <1>1, <2>6, <2>7, OwnFacts DEF ShapeOf, GroupOp, UserOp, PatchOp
    <2>9. LockOf(t, new, excl', share')
      <3>1. new.op \notin {"provision", "update_user", "delete_user"}
        BY <1>1, <2>7 DEF GroupOp, PatchOp
      <3>2. excl[<<"group", q.g>>] = t
        BY <1>0, <1>1, OwnFacts DEF LockOf, GroupOp, PatchOp
      <3> QED
        BY <1>0, <1>1, <2>4, <2>7, <3>1, <3>2 DEF LockOf
    <2>10. MembersOf(new, members, status)
      BY <1>0, <1>1, <2>7, OwnFacts DEF MembersOf, GroupOp
    <2>11. PlanOf(t, new, excl', status)
      BY <1>0, <1>1, <2>7, UnplannedFacts DEF GroupOp, PatchOp
    <2>12. new.op \notin UserOp
      BY <1>1, <2>7 DEF GroupOp, PatchOp, UserOp
    <2>13. share' \in [Row -> SUBSET Tx] /\ share' = share
      BY <2>1, TypeFacts
    <2> QED
      BY <1>0, <2>3, <2>4, <2>5, <2>7, <2>8, <2>9, <2>10, <2>11, <2>12, <2>13, OwnIInv
  <1> QED
    BY <1>2, <1>3

\* The new members are live.
LEMMA CheckMembersIInv ==
  ASSUME IInv, NEW t \in Tx, CheckMembers(t)
  PROVE  IInv'
  <1> DEFINE q == tx[t]
             todo == q.old \cup q.fresh
             new == [q EXCEPT !.pc = "insert_members", !.todo = todo]
  <1>1. CASE Abort(t)
    BY <1>1, AbortIInv
  <1>2. CASE ~Abort(t)
    <2>1. /\ q.pc = "check_members" /\ UNCHANGED <<tables, lockVars, started, client>>
          /\ tx' = [tx EXCEPT ![t].pc = "insert_members", ![t].todo = todo]
      BY <1>2 DEF CheckMembers
    <2>2. todo \subseteq Row /\ todo \in SUBSET Nat
      BY OwnFacts DEF TxType
    <2> HIDE DEF todo
    <2>3. Becomes(t, new)
      BY <2>1, TypeFacts DEF Becomes
    <2>4. /\ new \in TxType /\ new.pc = "insert_members" /\ new.op = q.op /\ new.g = q.g /\ new.r = q.r
          /\ new.seen = q.seen /\ new.was = q.was /\ new.old = q.old /\ new.plan = q.plan /\ new.todo = todo
      <3>1. q \in TxType
        BY OwnFacts
      <3> QED
        BY <2>2, <3>1 DEF TxType, Pcs
    <2> HIDE DEF new
    <2>5. q.op \in PatchOp \cup {"create"} /\ q.g \in Group
      BY <2>1, OwnFacts DEF ShapeOf, TxType, GroupOp, UserOp, PatchOp
    <2>6. ShapeOf(new)
      BY <2>1, <2>2, <2>4, <2>5, OwnFacts DEF ShapeOf, GroupOp, UserOp, PatchOp
    <2>7. LockOf(t, new, excl, share)
      BY <2>1, <2>4, <2>5, OwnFacts DEF LockOf, GroupOp, PatchOp
    <2>8. MembersOf(new, members, status)
      BY <2>1, <2>4, <2>5, OwnFacts DEF MembersOf, GroupOp
    <2>9. PlanOf(t, new, excl', status)
      BY <2>1, <2>4, <2>5, UnplannedFacts DEF PatchOp
    <2>10. new.op \notin UserOp
      BY <2>4, <2>5 DEF PatchOp, UserOp
    <2> QED
      BY <2>1, <2>3, <2>4, <2>6, <2>7, <2>8, <2>9, <2>10, GoOnIInv
  <1> QED
    BY <1>1, <1>2

\* The foreign keys of the new members are locked.
LEMMA InsertMembersIInv ==
  ASSUME IInv, NEW t \in Tx, InsertMembers(t)
  PROVE  IInv'
  <1> DEFINE q == tx[t]
             new == [q EXCEPT !.pc = "users"]
  <1>1. /\ q.pc = "insert_members" /\ excl' = excl /\ UNCHANGED <<tables, started, client>>
        /\ share' = [r \in Row |-> IF r \in q.fresh THEN share[r] \cup {t} ELSE share[r]]
    BY DEF InsertMembers
  <1>2. Becomes(t, new)
    BY StepFacts DEF InsertMembers
  <1>3. /\ new \in TxType /\ new.pc = "users" /\ new.op = q.op /\ new.g = q.g /\ new.r = q.r
        /\ new.seen = q.seen /\ new.was = q.was /\ new.old = q.old /\ new.plan = q.plan /\ new.todo = q.todo
    BY OwnFacts DEF TxType, Pcs
  <1> HIDE DEF new
  <1>4. share' \in [Row -> SUBSET Tx] /\ \A s \in Tx \ {t} : \A r \in Row : s \in share'[r] <=> s \in share[r]
    BY <1>1, TypeFacts
  <1>5. q.op \in PatchOp \cup {"create"} /\ q.g \in Group
    BY <1>1, OwnFacts DEF ShapeOf, TxType, GroupOp, UserOp, PatchOp
  <1>6. ShapeOf(new)
    BY <1>1, <1>3, <1>5, OwnFacts DEF ShapeOf, GroupOp, UserOp, PatchOp
  <1>7. LockOf(t, new, excl', share')
    BY <1>1, <1>3, <1>5, OwnFacts DEF LockOf, GroupOp, PatchOp
  <1>8. MembersOf(new, members, status)
    BY <1>1, <1>3, <1>5, OwnFacts DEF MembersOf, GroupOp
  <1>9. PlanOf(t, new, excl', status)
    BY <1>1, <1>3, <1>5, UnplannedFacts DEF PatchOp
  <1>10. new.op \notin UserOp
    BY <1>3, <1>5 DEF PatchOp, UserOp
  <1>11. excl' \in [Resource -> Tx \cup {None}]
    BY <1>1, TypeFacts
  <1> QED
    BY <1>1, <1>2, <1>3, <1>4, <1>6, <1>7, <1>8, <1>9, <1>10, <1>11, OwnIInv

\* The user rows are locked, one by one.
LEMMA LockUsersIInv ==
  ASSUME IInv, NEW t \in Tx, LockUsers(t)
  PROVE  IInv'
  <1> DEFINE q == tx[t]
  <1>0. q.pc = "users" /\ UNCHANGED <<tables, started, client>>
    BY DEF LockUsers
  <1>1. /\ q.op \in GroupOp \cup {"create", "mapping"} /\ (q.op = "mapping" \/ q.g \in Group) /\ q.todo \subseteq Row
    BY <1>0, OwnFacts DEF ShapeOf, TxType, GroupOp, UserOp, PatchOp
  <1>2. CASE q.todo = {}
    <2> DEFINE new == [q EXCEPT !.pc = "reconcile"]
    <2>1. Step(t, "reconcile") /\ UNCHANGED lockVars
      BY <1>2 DEF LockUsers
    <2>2. Becomes(t, new)
      BY <2>1, StepFacts
    <2>3. /\ new \in TxType /\ new.pc = "reconcile" /\ new.op = q.op /\ new.g = q.g /\ new.r = q.r /\ new.n = q.n
          /\ new.seen = q.seen /\ new.was = q.was /\ new.old = q.old /\ new.plan = q.plan /\ new.todo = q.todo
      BY OwnFacts DEF TxType, Pcs
    <2> HIDE DEF new
    <2>4. ShapeOf(new)
      BY <1>0, <1>1, <2>3, OwnFacts DEF ShapeOf, GroupOp, UserOp, PatchOp
    <2>5. LockOf(t, new, excl, share)
      BY <1>0, <1>1, <2>3, OwnFacts DEF LockOf, GroupOp, PatchOp
    <2>6. MembersOf(new, members, status)
      BY <1>0, <1>1, <2>3, OwnFacts DEF MembersOf, GroupOp
    <2>7. PlanOf(t, new, excl', status)
      BY <1>0, <1>1, <2>3, UnplannedFacts DEF GroupOp, PatchOp
    <2>8. new.op \notin UserOp
      BY <1>1, <2>3 DEF GroupOp, PatchOp, UserOp
    <2> QED
      BY <1>0, <2>1, <2>2, <2>3, <2>4, <2>5, <2>6, <2>7, <2>8, GoOnIInv
  <1>3. CASE q.todo # {}
    <2> DEFINE r == Min(q.todo)
               X == IF status[r] \in Live THEN {<<"user", r>>} ELSE {}
               todo == q.todo \ {r}
               new == [q EXCEPT !.todo = todo]
    <2>1. tx' = [tx EXCEPT ![t].todo = @ \ {r}] /\ share' = share
      BY <1>3 DEF LockUsers, lockVars
    <2>2. r \in Row
      BY <1>1, <1>3, MinFacts
    <2>3. /\ excl' \in [Resource -> Tx \cup {None}]
          /\ \A x \in Resource : excl'[x] = IF x \in X THEN t ELSE excl[x]
          /\ \A s \in Tx \ {t} : \A x \in Resource : excl'[x] = s <=> excl[x] = s
      <3> HIDE DEF r
      <3>1. CASE status[r] \in Live
        <4>1. TakeExcl(t, X)
          BY <1>3, <3>1 DEF LockUsers, r
        <4> HIDE DEF X
        <4> QED
          BY <4>1, TakeFacts
      <3>2. CASE status[r] \notin Live
        <4>1. excl' = excl /\ X = {}
          BY <1>3, <3>2 DEF LockUsers, lockVars, r
        <4> QED
          BY <4>1, TypeFacts
      <3> QED
        BY <3>1, <3>2
    <2> HIDE DEF r
    <2>4. \A g \in Group : excl'[<<"group", g>>] = excl[<<"group", g>>]
      BY <2>3, Resources
    <2> HIDE DEF X
    <2>5. Becomes(t, new)
      BY <2>1, TypeFacts DEF Becomes
    <2>6. todo \subseteq Row /\ todo \in SUBSET Nat
      BY <1>1
    <2> HIDE DEF todo
    <2>7. /\ new \in TxType /\ new.pc = "users" /\ new.op = q.op /\ new.g = q.g /\ new.r = q.r /\ new.n = q.n
          /\ new.seen = q.seen /\ new.was = q.was /\ new.old = q.old /\ new.plan = q.plan /\ new.todo = todo
      BY <1>0, <2>6, OwnFacts DEF TxType
    <2> HIDE DEF new
    <2>8. ShapeOf(new)
      BY <1>0, <1>1, <2>6, <2>7, OwnFacts DEF ShapeOf, GroupOp, UserOp, PatchOp
    <2>9. LockOf(t, new, excl', share')
      <3>1. new.op \notin {"provision", "update_user", "delete_user"}
        BY <1>1, <2>7 DEF GroupOp, PatchOp
      <3>2. q.op \in GroupOp => excl[<<"group", q.g>>] = t /\ q.g \in Group
        BY <1>0, <1>1, OwnFacts DEF LockOf, GroupOp, PatchOp
      <3> QED
        BY <1>0, <2>4, <2>7, <3>1, <3>2 DEF LockOf
    <2>10. MembersOf(new, members, status)
      BY <1>0, <1>1, <2>7, OwnFacts DEF MembersOf, GroupOp
    <2>11. PlanOf(t, new, excl', status)
      BY <1>0, <1>1, <2>7, UnplannedFacts DEF GroupOp, PatchOp
    <2>12. new.op \notin UserOp
      BY <1>1, <2>7 DEF GroupOp, PatchOp, UserOp
    <2>13. share' \in [Row -> SUBSET Tx] /\ share' = share
      BY <2>1, TypeFacts
    <2> QED
      BY <1>0, <2>3, <2>4, <2>5, <2>7, <2>8, <2>9, <2>10, <2>11, <2>12, <2>13, OwnIInv
  <1> QED
    BY <1>2, <1>3

\* The roles of the locked, active rows are planned.
LEMMA ReconcileIInv ==
  ASSUME IInv, NEW t \in Tx, Reconcile(t)
  PROVE  IInv'
  <1> DEFINE q == tx[t]
             rows == {r \in Row : excl[<<"user", r>>] = t /\ status[r] = "active"}
             plan == [r \in Row |-> IF r \in rows THEN PlanFor(r, t) ELSE NoPlan[r]]
             new == [q EXCEPT !.pc = "commit", !.plan = plan]
  <1>1. /\ q.pc = "reconcile" /\ UNCHANGED <<tables, lockVars, started, client>>
        /\ tx' = [tx EXCEPT ![t].pc = "commit", ![t].plan = plan]
    BY DEF Reconcile
  <1>2. /\ plan \in Plans
        /\ \A r \in Row : plan[r].add # {} \/ plan[r].drop # {} => excl[<<"user", r>>] = t /\ status[r] = "active"
    <2>1. \A r \in Row : NoPlan[r] \in [add : SUBSET Role, drop : SUBSET Role]
      BY Basics DEF Plans
    <2>2. \A r \in Row : PlanFor(r, t) \in [add : SUBSET Role, drop : SUBSET Role]
      BY PlanFacts
    <2>3. plan \in Plans
      BY <2>1, <2>2 DEF Plans
    <2>4. \A r \in Row : r \notin rows => plan[r] = NoPlan[r]
      OBVIOUS
    <2> HIDE DEF plan
    <2> QED
      BY <2>3, <2>4, Basics
  <1> HIDE DEF plan, rows
  <1>3. Becomes(t, new)
    BY <1>1, TypeFacts DEF Becomes
  <1>4. /\ new \in TxType /\ new.pc = "commit" /\ new.op = q.op /\ new.g = q.g /\ new.r = q.r /\ new.n = q.n
        /\ new.seen = q.seen /\ new.was = q.was /\ new.old = q.old /\ new.plan = plan /\ new.todo = q.todo
    <2>1. q \in TxType
      BY OwnFacts
    <2>2. plan \in Plans
      BY <1>2
    <2> QED
      BY <2>1, <2>2 DEF TxType, Pcs
  <1> HIDE DEF new
  <1>5. /\ q.op \in GroupOp \cup {"create", "mapping"} /\ (q.op = "mapping" \/ q.g \in Group)
    BY <1>1, OwnFacts DEF ShapeOf, TxType, GroupOp, UserOp, PatchOp
  <1>6. ShapeOf(new)
    BY <1>1, <1>4, <1>5, OwnFacts DEF ShapeOf, GroupOp, UserOp, PatchOp
  <1>7. LockOf(t, new, excl, share)
    BY <1>1, <1>4, <1>5, OwnFacts DEF LockOf, GroupOp, PatchOp
  <1>8. MembersOf(new, members, status)
    BY <1>1, <1>4, <1>5, OwnFacts DEF MembersOf, GroupOp
  <1>9. PlanOf(t, new, excl', status)
    <2>1. excl' = excl
      BY <1>1 DEF lockVars
    <2>2. new.op \notin {"provision", "update_user", "delete_user"}
      BY <1>4, <1>5 DEF GroupOp, PatchOp
    <2> QED
      BY <1>2, <1>4, <2>1, <2>2 DEF PlanOf
  <1>10. new.op \notin UserOp
    BY <1>4, <1>5 DEF GroupOp, PatchOp, UserOp
  <1> QED
    BY <1>1, <1>3, <1>4, <1>6, <1>7, <1>8, <1>9, <1>10, GoOnIInv

\* The group of a mapping's name is looked up.
LEMMA FindGroupByNameIInv ==
  ASSUME IInv, NEW t \in Tx, FindGroupByName(t)
  PROVE  IInv'
  <1> DEFINE q == tx[t]
             todo == {g \in Group : names[g] = q.n}
             new == [q EXCEPT !.pc = "lock_by_name", !.todo = todo]
  <1>1. /\ q.pc = "by_name" /\ UNCHANGED <<tables, lockVars, started, client>>
        /\ tx' = [tx EXCEPT ![t].pc = "lock_by_name", ![t].todo = todo]
    BY DEF FindGroupByName
  <1>2. todo \subseteq Group /\ todo \in SUBSET Nat
    OBVIOUS
  <1> HIDE DEF todo
  <1>3. Becomes(t, new)
    BY <1>1, TypeFacts DEF Becomes
  <1>4. /\ new \in TxType /\ new.pc = "lock_by_name" /\ new.op = q.op /\ new.g = q.g /\ new.r = q.r /\ new.n = q.n
        /\ new.seen = q.seen /\ new.was = q.was /\ new.plan = q.plan /\ new.todo = todo
    <2>1. q \in TxType
      BY OwnFacts
    <2> QED
      BY <1>2, <2>1 DEF TxType, Pcs
  <1> HIDE DEF new
  <1>5. q.op = "mapping"
    BY <1>1, OwnFacts DEF ShapeOf, TxType, GroupOp, UserOp, PatchOp
  <1>6. ShapeOf(new)
    BY <1>1, <1>2, <1>4, <1>5, OwnFacts DEF ShapeOf, GroupOp, UserOp, PatchOp
  <1>7. LockOf(t, new, excl, share)
    BY <1>1, <1>4, <1>5, OwnFacts DEF LockOf, GroupOp, PatchOp
  <1>8. MembersOf(new, members, status) /\ new.op \notin UserOp
    BY <1>4, <1>5 DEF MembersOf, GroupOp, PatchOp, UserOp
  <1>9. PlanOf(t, new, excl', status)
    BY <1>1, <1>4, <1>5, UnplannedFacts
  <1> QED
    BY <1>1, <1>3, <1>4, <1>6, <1>7, <1>8, <1>9, GoOnIInv

\* That group is locked, if it still has the name.
LEMMA LockGroupByNameIInv ==
  ASSUME IInv, NEW t \in Tx, LockGroupByName(t)
  PROVE  IInv'
  <1> DEFINE q == tx[t]
             X == {<<"group", g>> : g \in {h \in q.todo : names[h] = q.n}}
             new == [q EXCEPT !.pc = "write_mapping", !.todo = {}]
  <1>1. /\ q.pc = "lock_by_name" /\ TakeExcl(t, X) /\ UNCHANGED <<tables, share, started, client>>
        /\ tx' = [tx EXCEPT ![t].pc = "write_mapping", ![t].todo = {}]
    BY DEF LockGroupByName
  <1>2. q.op = "mapping" /\ q.n \in Name
    BY <1>1, OwnFacts DEF ShapeOf, TxType, GroupOp, UserOp, PatchOp
  <1>3. /\ excl' \in [Resource -> Tx \cup {None}]
        /\ \A x \in Resource : excl'[x] = IF x \in X THEN t ELSE excl[x]
        /\ \A s \in Tx \ {t} : \A x \in Resource : excl'[x] = s <=> excl[x] = s
    <2> HIDE DEF X
    <2> QED
      BY <1>1, TakeFacts
  <1>4. \A g \in Group : <<"group", g>> \in X => names[g] # None
    BY <1>2
  <1> HIDE DEF X
  <1>5. \A g \in Group : excl'[<<"group", g>>] = t => excl[<<"group", g>>] = t \/ names[g] # None
    BY <1>3, <1>4, Resources
  <1>6. Becomes(t, new)
    BY <1>1, TypeFacts DEF Becomes
  <1>7. /\ new \in TxType /\ new.pc = "write_mapping" /\ new.op = q.op /\ new.g = q.g /\ new.r = q.r /\ new.n = q.n
        /\ new.seen = q.seen /\ new.was = q.was /\ new.plan = q.plan /\ new.todo = {}
    <2>1. q \in TxType
      BY OwnFacts
    <2> QED
      BY <2>1 DEF TxType, Pcs
  <1> HIDE DEF new
  <1>8. ShapeOf(new)
    BY <1>1, <1>2, <1>7, OwnFacts DEF ShapeOf, GroupOp, UserOp, PatchOp
  <1>9. LockOf(t, new, excl', share')
    BY <1>2, <1>7 DEF LockOf, GroupOp, PatchOp
  <1>10. MembersOf(new, members, status) /\ new.op \notin UserOp
    BY <1>2, <1>7 DEF MembersOf, GroupOp, PatchOp, UserOp
  <1>11. PlanOf(t, new, excl', status)
    BY <1>1, <1>2, <1>7, UnplannedFacts
  <1>12. share' \in [Row -> SUBSET Tx] /\ share' = share /\ UNCHANGED <<tables, started, client>>
    BY <1>1, TypeFacts
  <1>13. \A s \in Tx \ {t} : /\ \A x \in Resource : excl'[x] = s <=> excl[x] = s
                             /\ \A r \in Row : s \in share'[r] <=> s \in share[r]
    BY <1>3, <1>12
  <1>14. excl' \in [Resource -> Tx \cup {None}]
    BY <1>3
  <1>15. UNCHANGED <<tables, started, client>> /\ share' \in [Row -> SUBSET Tx]
    BY <1>12
  <1>16. new.op = q.op /\ new.g = q.g /\ new.r = q.r /\ new.seen = q.seen /\ new.was = q.was /\ new \in TxType
    BY <1>7
  <1> QED
    BY <1>5, <1>6, <1>8, <1>9, <1>10, <1>11, <1>13, <1>14, <1>15, <1>16, OwnIInv

\* The mapping is written.
LEMMA WriteMappingIInv ==
  ASSUME IInv, NEW t \in Tx, WriteMapping(t)
  PROVE  IInv'
  <1> DEFINE q == tx[t]
             X == {<<"mapping", q.n>>}
             todo == {r \in Row : status[r] \in Live /\ \E g \in Group : names[g] = q.n /\ r \in members[g]}
             new == [q EXCEPT !.pc = "users", !.todo = todo]
  <1>1. CASE Abort(t)
    BY <1>1, AbortIInv
  <1>2. CASE ~Abort(t)
    <2>1. /\ q.pc = "write_mapping" /\ TakeExcl(t, X) /\ UNCHANGED <<tables, share, started, client>>
          /\ tx' = [tx EXCEPT ![t].pc = "users", ![t].todo = todo]
      BY <1>2 DEF WriteMapping
    <2>2. todo \subseteq Row /\ todo \in SUBSET Nat
      OBVIOUS
    <2> HIDE DEF todo
    <2>3. /\ excl' \in [Resource -> Tx \cup {None}]
          /\ \A x \in Resource : excl'[x] = IF x \in X THEN t ELSE excl[x]
          /\ \A s \in Tx \ {t} : \A x \in Resource : excl'[x] = s <=> excl[x] = s
      <3> HIDE DEF X
      <3> QED
        BY <2>1, TakeFacts
    <2>4. \A g \in Group : excl'[<<"group", g>>] = excl[<<"group", g>>]
      BY <2>3, Resources
    <2>5. Becomes(t, new)
      BY <2>1, TypeFacts DEF Becomes
    <2>6. /\ new \in TxType /\ new.pc = "users" /\ new.op = q.op /\ new.g = q.g /\ new.r = q.r /\ new.n = q.n
          /\ new.seen = q.seen /\ new.was = q.was /\ new.plan = q.plan /\ new.todo = todo
      <3>1. q \in TxType
        BY OwnFacts
      <3> QED
        BY <2>2, <3>1 DEF TxType, Pcs
    <2> HIDE DEF new
    <2>7. q.op = "mapping"
      BY <2>1, OwnFacts DEF ShapeOf, TxType, GroupOp, UserOp, PatchOp
    <2>8. ShapeOf(new)
      BY <2>1, <2>2, <2>6, <2>7, OwnFacts DEF ShapeOf, GroupOp, UserOp, PatchOp
    <2>9. LockOf(t, new, excl', share')
      BY <2>6, <2>7 DEF LockOf, GroupOp, PatchOp
    <2>10. MembersOf(new, members, status) /\ new.op \notin UserOp
      BY <2>6, <2>7 DEF MembersOf, GroupOp, PatchOp, UserOp
    <2>11. PlanOf(t, new, excl', status)
      BY <2>1, <2>6, <2>7, UnplannedFacts
    <2> QED
      BY <2>1, <2>3, <2>4, <2>5, <2>6, <2>8, <2>9, <2>10, <2>11, TypeFacts, OwnIInv
  <1> QED
    BY <1>1, <1>2

\* The row is inserted, unless its user has one.
LEMMA InsertUserIInv ==
  ASSUME IInv, NEW t \in Tx, InsertUser(t)
  PROVE  IInv'
  <1> DEFINE q == tx[t]
             pc == IF q.active THEN "reconcile_user" ELSE "commit"
             new == [q EXCEPT !.pc = pc]
  <1>1. CASE Abort(t)
    BY <1>1, AbortIInv
  <1>2. CASE ~Abort(t)
    <2>1. /\ q.pc = "insert" /\ UNCHANGED <<tables, lockVars, started, client>>
          /\ tx' = [tx EXCEPT ![t].pc = pc]
      BY <1>2 DEF InsertUser
    <2>2. pc \in Pcs /\ pc = IF q.active THEN "reconcile_user" ELSE "commit"
      BY DEF Pcs
    <2> HIDE DEF pc
    <2>3. Becomes(t, new)
      BY <2>1, TypeFacts DEF Becomes
    <2>4. /\ new \in TxType /\ new.pc = pc /\ new.op = q.op /\ new.g = q.g /\ new.r = q.r /\ new.n = q.n
          /\ new.seen = q.seen /\ new.was = q.was /\ new.plan = q.plan /\ new.todo = q.todo /\ new.active = q.active
      <3>1. q \in TxType
        BY OwnFacts
      <3> QED
        BY <2>2, <3>1 DEF TxType
    <2> HIDE DEF new
    <2>5. q.op = "provision"
      BY <2>1, OwnFacts DEF ShapeOf, TxType, GroupOp, UserOp, PatchOp
    <2>6. ShapeOf(new)
      BY <2>1, <2>2, <2>4, <2>5, OwnFacts DEF ShapeOf, GroupOp, UserOp, PatchOp
    <2>7. LockOf(t, new, excl, share)
      BY <2>1, <2>4, <2>5, OwnFacts DEF LockOf, GroupOp, PatchOp
    <2>8. MembersOf(new, members, status) /\ new.op \notin UserOp
      BY <2>4, <2>5 DEF MembersOf, GroupOp, PatchOp, UserOp
    <2>9. PlanOf(t, new, excl', status)
      BY <2>1, <2>2, <2>4, <2>5, UnplannedFacts
    <2> QED
      BY <2>1, <2>3, <2>4, <2>6, <2>7, <2>8, <2>9, GoOnIInv
  <1> QED
    BY <1>1, <1>2

\* The row of a user request is locked, if it is as it was seen.
LEMMA LockScimUserIInv ==
  ASSUME IInv, NEW t \in Tx, LockScimUser(t)
  PROVE  IInv'
  <1> DEFINE q == tx[t]
             X == {<<"user", q.r>>}
             pc == CASE q.op = "delete_user" -> "leave_groups"
                     [] q.op = "update_user" /\ ~q.was /\ q.active -> "reconcile_user"
                     [] OTHER -> "commit"
             todo == {g \in Group : q.op = "delete_user" /\ q.r \in members[g]}
             new == [q EXCEPT !.pc = pc, !.todo = todo]
  <1>1. CASE Abort(t)
    BY <1>1, AbortIInv
  <1>2. CASE ~Abort(t)
    <2>1. /\ q.pc = "lock_user" /\ TakeExcl(t, X) /\ tx' = [tx EXCEPT ![t].pc = pc, ![t].todo = todo] /\ UNCHANGED <<tables, share, started, client>>
          /\ status[q.r] \in Live /\ version[q.r] = q.seen
      BY <1>2 DEF LockScimUser
    <2>2. /\ pc \in Pcs /\ todo \subseteq Group /\ todo \in SUBSET Nat
          /\ pc = CASE q.op = "delete_user" -> "leave_groups"
                    [] q.op = "update_user" /\ ~q.was /\ q.active -> "reconcile_user"
                    [] OTHER -> "commit"
      BY DEF Pcs
    <2> HIDE DEF pc, todo
    <2>3. Becomes(t, new)
      BY <2>1, TypeFacts DEF Becomes
    <2>4. /\ new \in TxType /\ new.pc = pc /\ new.op = q.op /\ new.g = q.g /\ new.r = q.r /\ new.n = q.n
          /\ new.seen = q.seen /\ new.was = q.was /\ new.plan = q.plan /\ new.todo = todo /\ new.active = q.active
      <3>1. q \in TxType
        BY OwnFacts
      <3> QED
        BY <2>2, <3>1 DEF TxType
    <2> HIDE DEF new
    <2>5. q.op \in UserOp /\ q.r \in Row
      BY <2>1, OwnFacts DEF ShapeOf, TxType, GroupOp, UserOp, PatchOp
    <2>6. /\ excl' \in [Resource -> Tx \cup {None}]
          /\ \A x \in Resource : excl'[x] = IF x \in X THEN t ELSE excl[x]
          /\ \A s \in Tx \ {t} : \A x \in Resource : excl'[x] = s <=> excl[x] = s
      <3> HIDE DEF X
      <3> QED
        BY <2>1, TakeFacts
    <2>7. excl'[<<"user", q.r>>] = t /\ \A g \in Group : excl'[<<"group", g>>] = excl[<<"group", g>>]
      BY <2>5, <2>6, Resources
    <2>8. ShapeOf(new)
      BY <2>1, <2>2, <2>4, <2>5, OwnFacts DEF ShapeOf, GroupOp, UserOp, PatchOp
    <2>9. LockOf(t, new, excl', share')
      BY <2>2, <2>4, <2>5 DEF LockOf, GroupOp, PatchOp, UserOp
    <2>10. MembersOf(new, members, status)
      BY <2>4, <2>5 DEF MembersOf, GroupOp, PatchOp, UserOp
    <2>11. PlanOf(t, new, excl', status)
      <3>1. new.pc \in {"reconcile_user", "create_memberships"} => new.op = "update_user" /\ ~new.was /\ new.active
        BY <2>2, <2>4
      <3> QED
        BY <2>1, <2>4, <3>1, UnplannedFacts
    <2>12. share' \in [Row -> SUBSET Tx] /\ share' = share /\ UNCHANGED <<tables, started, client>>
      BY <2>1, TypeFacts
    <2>13. excl'[<<"user", new.r>>] = t /\ version[new.r] = new.seen /\ status[new.r] \in Live
      BY <2>1, <2>4, <2>7
    <2> QED
      BY <2>3, <2>4, <2>6, <2>7, <2>8, <2>9, <2>10, <2>11, <2>12, <2>13, OwnIInv
  <1> QED
    BY <1>1, <1>2

\* The roles of the row that becomes active are planned.
LEMMA ReconcileUserIInv ==
  ASSUME IInv, NEW t \in Tx, ReconcileUser(t)
  PROVE  IInv'
  <1> DEFINE q == tx[t]
             plan == [q.plan EXCEPT ![q.r] = PlanFor(q.r, t)]
             new == [q EXCEPT !.pc = "create_memberships", !.plan = plan]
  <1>1. /\ q.pc = "reconcile_user" /\ UNCHANGED <<tables, lockVars, started, client>>
        /\ tx' = [tx EXCEPT ![t].pc = "create_memberships", ![t].plan[q.r] = PlanFor(q.r, t)]
    BY DEF ReconcileUser
  <1>2. q.op \in {"provision", "update_user"} /\ q.r \in Row
    BY <1>1, OwnFacts DEF ShapeOf, TxType, GroupOp, UserOp, PatchOp
  <1>3. Becomes(t, new)
    <2> DEFINE made == PlanFor(q.r, t)
    <2>1. tx' = [tx EXCEPT ![t].pc = "create_memberships", ![t].plan[q.r] = made] /\ q \in TxType
      BY <1>1, OwnFacts
    <2> HIDE DEF made
    <2>2. tx' = [tx EXCEPT ![t] = [q EXCEPT !.pc = "create_memberships", !.plan[q.r] = made]]
      BY <2>1, TypeFacts DEF TxType
    <2>3. [q EXCEPT !.pc = "create_memberships", !.plan[q.r] = made] = new
      BY <2>1 DEF TxType, made
    <2>4. tx' = [tx EXCEPT ![t] = new]
      BY <2>2, <2>3, Zenon
    <2> HIDE DEF new
    <2> QED
      BY <2>4, TypeFacts DEF Becomes
  <1>4. q.active /\ (q.op = "update_user" => ~q.was) /\ \A r \in Row : q.plan[r].add = {} /\ q.plan[r].drop = {}
    BY <1>1, <1>2, OwnFacts DEF PlanOf
  <1>5. /\ plan \in Plans
        /\ \A r \in Row : plan[r].add # {} \/ plan[r].drop # {} => r = q.r
    <2>1. PlanFor(q.r, t) \in [add : SUBSET Role, drop : SUBSET Role]
      BY <1>2, PlanFacts
    <2>2. q.plan \in [Row -> [add : SUBSET Role, drop : SUBSET Role]]
      BY OwnFacts DEF TxType, Plans
    <2>3. plan \in Plans
      BY <2>1, <2>2 DEF Plans
    <2>4. \A r \in Row : r # q.r => plan[r] = q.plan[r]
      BY <2>2
    <2> QED
      BY <1>4, <2>3, <2>4
  <1> HIDE DEF plan
  <1>6. /\ new \in TxType /\ new.pc = "create_memberships" /\ new.op = q.op /\ new.g = q.g /\ new.r = q.r
        /\ new.n = q.n /\ new.seen = q.seen /\ new.was = q.was /\ new.plan = plan /\ new.todo = q.todo
        /\ new.active = q.active
    <2>1. q \in TxType
      BY OwnFacts
    <2>2. plan \in Plans
      BY <1>5
    <2> QED
      BY <2>1, <2>2 DEF TxType, Pcs
  <1> HIDE DEF new
  <1>7. ShapeOf(new)
    BY <1>1, <1>2, <1>6, OwnFacts DEF ShapeOf, GroupOp, UserOp, PatchOp
  <1>8. LockOf(t, new, excl, share)
    BY <1>1, <1>2, <1>6, OwnFacts DEF LockOf, GroupOp, PatchOp
  <1>9. MembersOf(new, members, status)
    BY <1>2, <1>6 DEF MembersOf, GroupOp, PatchOp
  <1>10. PlanOf(t, new, excl', status)
    BY <1>2, <1>4, <1>5, <1>6 DEF PlanOf
  <1>11. new.op \in UserOp => excl[<<"user", new.r>>] = t /\ version[new.r] = new.seen /\ status[new.r] \in Live
    BY <1>1, <1>6, OwnFacts DEF UserOf
  <1> QED
    BY <1>1, <1>3, <1>6, <1>7, <1>8, <1>9, <1>10, <1>11, GoOnIInv

\* The memberships of the row are inserted.
LEMMA CreateMembershipsIInv ==
  ASSUME IInv, NEW t \in Tx, CreateMemberships(t)
  PROVE  IInv'
  <1> DEFINE q == tx[t]
             new == [q EXCEPT !.pc = "commit"]
  <1>1. CASE Abort(t)
    BY <1>1, AbortIInv
  <1>2. CASE ~Abort(t)
    <2>1. q.pc = "create_memberships" /\ Step(t, "commit") /\ UNCHANGED <<tables, lockVars, started, client>>
      BY <1>2 DEF CreateMemberships
    <2>2. Becomes(t, new)
      BY <2>1, StepFacts
    <2>3. /\ new \in TxType /\ new.pc = "commit" /\ new.op = q.op /\ new.g = q.g /\ new.r = q.r /\ new.n = q.n
          /\ new.seen = q.seen /\ new.was = q.was /\ new.plan = q.plan /\ new.todo = q.todo /\ new.active = q.active
      <3>1. q \in TxType
        BY OwnFacts
      <3> QED
        BY <3>1 DEF TxType, Pcs
    <2> HIDE DEF new
    <2>4. q.op \in {"provision", "update_user"} /\ q.r \in Row
      BY <2>1, OwnFacts DEF ShapeOf, TxType, GroupOp, UserOp, PatchOp
    <2>5. ShapeOf(new)
      BY <2>1, <2>3, <2>4, OwnFacts DEF ShapeOf, GroupOp, UserOp, PatchOp
    <2>6. LockOf(t, new, excl, share)
      BY <2>1, <2>3, <2>4, OwnFacts DEF LockOf, GroupOp, PatchOp
    <2>7. MembersOf(new, members, status)
      BY <2>3, <2>4 DEF MembersOf, GroupOp, PatchOp
    <2>8. PlanOf(t, new, excl', status)
      <3>1. \A r \in Row : q.plan[r].add # {} \/ q.plan[r].drop # {} =>
                r = q.r /\ q.active /\ (q.op = "update_user" => ~q.was)
        BY <2>1, <2>4, OwnFacts DEF PlanOf
      <3> QED
        BY <2>3, <2>4, <3>1 DEF PlanOf
    <2>9. new.op \in UserOp => excl[<<"user", new.r>>] = t /\ version[new.r] = new.seen /\ status[new.r] \in Live
      BY <2>1, <2>3, OwnFacts DEF UserOf
    <2> QED
      BY <2>1, <2>2, <2>3, <2>5, <2>6, <2>7, <2>8, <2>9, GoOnIInv
  <1> QED
    BY <1>1, <1>2

\* The groups of a row that is deleted are looked up.
LEMMA FindGroupsIInv ==
  ASSUME IInv, NEW t \in Tx, FindGroups(t)
  PROVE  IInv'
  <1> DEFINE q == tx[t]
             todo == {g \in Group : q.r \in members[g]}
             new == [q EXCEPT !.pc = "lock_groups", !.found = todo, !.todo = todo]
  <1>1. /\ q.pc = "find_groups" /\ UNCHANGED <<tables, lockVars, started, client>>
        /\ tx' = [tx EXCEPT ![t].pc = "lock_groups", ![t].found = todo, ![t].todo = todo]
    BY DEF FindGroups
  <1>2. todo \subseteq Group /\ todo \in SUBSET Nat
    OBVIOUS
  <1> HIDE DEF todo
  <1>3. Becomes(t, new)
    BY <1>1, TypeFacts DEF Becomes
  <1>4. /\ new \in TxType /\ new.pc = "lock_groups" /\ new.op = q.op /\ new.g = q.g /\ new.r = q.r /\ new.n = q.n
        /\ new.seen = q.seen /\ new.was = q.was /\ new.plan = q.plan /\ new.todo = todo
    <2>1. q \in TxType
      BY OwnFacts
    <2> QED
      BY <1>2, <2>1 DEF TxType, Pcs
  <1> HIDE DEF new
  <1>5. q.op = "delete_user"
    BY <1>1, OwnFacts DEF ShapeOf, TxType, GroupOp, UserOp, PatchOp
  <1>6. ShapeOf(new)
    BY <1>1, <1>2, <1>4, <1>5, OwnFacts DEF ShapeOf, GroupOp, UserOp, PatchOp
  <1>7. LockOf(t, new, excl, share)
    <2>1. (\A x \in Resource : excl[x] # t) /\ \A r \in Row : t \notin share[r]
      BY <1>1, OwnFacts DEF LockOf
    <2> QED
      BY <1>4, <1>5, <2>1, Resources DEF LockOf, GroupOp, PatchOp
  <1>8. MembersOf(new, members, status) /\ new.pc \notin {"reconcile_user", "create_memberships", "leave_groups", "commit"}
    BY <1>4, <1>5 DEF MembersOf, GroupOp, PatchOp
  <1>9. PlanOf(t, new, excl', status)
    BY <1>1, <1>4, <1>5, UnplannedFacts
  <1> QED
    BY <1>1, <1>3, <1>4, <1>6, <1>7, <1>8, <1>9, GoOnIInv

\* They are locked in the order of their ids.
LEMMA LockScimGroupsForUserIInv ==
  ASSUME IInv, NEW t \in Tx, LockScimGroupsForUser(t)
  PROVE  IInv'
  <1> DEFINE q == tx[t]
  <1>0. q.pc = "lock_groups" /\ UNCHANGED <<tables, started, client>>
    BY DEF LockScimGroupsForUser
  <1>1. q.op = "delete_user" /\ q.todo \subseteq Group
    BY <1>0, OwnFacts DEF ShapeOf, TxType, GroupOp, UserOp, PatchOp
  <1>2. /\ \A r \in Row : excl[<<"user", r>>] # t /\ t \notin share[r]
        /\ \A n \in Name : excl[<<"name", n>>] # t /\ excl[<<"mapping", n>>] # t
        /\ \A g \in Group : excl[<<"group", g>>] = t => \A h \in q.todo : g < h
    BY <1>0, <1>1, OwnFacts DEF LockOf
  <1>3. CASE q.todo = {}
    <2> DEFINE new == [q EXCEPT !.pc = "lock_user"]
    <2>1. Step(t, "lock_user") /\ UNCHANGED lockVars
      BY <1>3 DEF LockScimGroupsForUser
    <2>2. Becomes(t, new)
      BY <2>1, StepFacts
    <2>3. /\ new \in TxType /\ new.pc = "lock_user" /\ new.op = q.op /\ new.g = q.g /\ new.r = q.r /\ new.n = q.n
          /\ new.seen = q.seen /\ new.was = q.was /\ new.plan = q.plan /\ new.todo = q.todo
      BY OwnFacts DEF TxType, Pcs
    <2> HIDE DEF new
    <2>4. ShapeOf(new)
      BY <1>0, <1>1, <2>3, OwnFacts DEF ShapeOf, GroupOp, UserOp, PatchOp
    <2>5. LockOf(t, new, excl, share)
      BY <1>1, <1>2, <2>3 DEF LockOf, GroupOp, PatchOp
    <2>6. MembersOf(new, members, status)
      BY <1>1, <2>3 DEF MembersOf, GroupOp, PatchOp
    <2>7. PlanOf(t, new, excl', status)
      BY <1>0, <1>1, <2>3, UnplannedFacts
    <2> QED
      BY <1>0, <2>1, <2>2, <2>3, <2>4, <2>5, <2>6, <2>7, GoOnIInv
  <1>4. CASE q.todo # {}
    <2> DEFINE g == Min(q.todo)
               X == IF names[g] = None THEN {} ELSE {<<"group", g>>}
               todo == q.todo \ {g}
               found == IF names[g] = None THEN q.found \ {g} ELSE q.found
               new == [q EXCEPT !.todo = todo, !.found = found]
    <2>1. tx' = [tx EXCEPT ![t].todo = @ \ {g}, ![t].found = IF names[g] = None THEN @ \ {g} ELSE @] /\ share' = share /\ TakeExcl(t, X)
      BY <1>4 DEF LockScimGroupsForUser
    <2>2. g \in Group /\ \A h \in todo : g < h
      BY <1>1, <1>4, MinFacts
    <2>3. /\ excl' \in [Resource -> Tx \cup {None}]
          /\ \A x \in Resource : excl'[x] = IF x \in X THEN t ELSE excl[x]
          /\ \A s \in Tx \ {t} : \A x \in Resource : excl'[x] = s <=> excl[x] = s
      <3> HIDE DEF X
      <3> QED
        BY <2>1, TakeFacts
    <2>13. found \in SUBSET Group
      BY OwnFacts DEF TxType
    <2>6. todo \subseteq Group /\ todo \in SUBSET Nat /\ \A h \in todo : h \in q.todo
      BY <1>1
    <2> HIDE DEF g
    <2>4. /\ \A r \in Row : excl'[<<"user", r>>] = excl[<<"user", r>>]
          /\ \A n \in Name : excl'[<<"name", n>>] = excl[<<"name", n>>] /\ excl'[<<"mapping", n>>] = excl[<<"mapping", n>>]
          /\ \A k \in Group : excl'[<<"group", k>>] = t => excl[<<"group", k>>] = t \/ k = g
          /\ \A k \in Group : excl'[<<"group", k>>] = t => excl[<<"group", k>>] = t \/ names[k] # None
      BY <2>3, Resources
    <2> HIDE DEF X
    <2>5. Becomes(t, new)
      BY <2>1, TypeFacts DEF Becomes
    <2> HIDE DEF todo, found
    <2>7. /\ new \in TxType /\ new.pc = "lock_groups" /\ new.op = q.op /\ new.g = q.g /\ new.r = q.r /\ new.n = q.n
          /\ new.seen = q.seen /\ new.was = q.was /\ new.plan = q.plan /\ new.todo = todo
      <3>1. q \in TxType
        BY OwnFacts
      <3> QED
        BY <1>0, <2>6, <2>13, <3>1 DEF TxType
    <2> HIDE DEF new
    <2>8. ShapeOf(new)
      BY <1>0, <1>1, <2>6, <2>7, OwnFacts DEF ShapeOf, GroupOp, UserOp, PatchOp
    <2>9. LockOf(t, new, excl', share')
      <3>1. \A k \in Group : excl'[<<"group", k>>] = t => \A h \in todo : k < h
        BY <1>2, <2>2, <2>4, <2>6
      <3> QED
        BY <1>1, <1>2, <2>1, <2>4, <2>7, <3>1 DEF LockOf, GroupOp, PatchOp
    <2>10. MembersOf(new, members, status)
      BY <1>1, <2>7 DEF MembersOf, GroupOp, PatchOp
    <2>11. PlanOf(t, new, excl', status)
      BY <1>0, <1>1, <2>7, UnplannedFacts
    <2>12. share' \in [Row -> SUBSET Tx] /\ share' = share
      BY <2>1, TypeFacts
    <2> QED
      BY <1>0, <2>3, <2>4, <2>5, <2>7, <2>8, <2>9, <2>10, <2>11, <2>12, OwnIInv
  <1> QED
    BY <1>3, <1>4

\* The member rows of the user are locked, one by one.
LEMMA LeaveGroupsIInv ==
  ASSUME IInv, NEW t \in Tx, LeaveGroups(t)
  PROVE  IInv'
  <1> DEFINE q == tx[t]
  <1>0. q.pc = "leave_groups" /\ UNCHANGED <<tables, started, client>>
    BY DEF LeaveGroups
  <1>1. q.op = "delete_user" /\ q.todo \subseteq Group /\ q.r \in Row
    BY <1>0, OwnFacts DEF ShapeOf, TxType, GroupOp, UserOp, PatchOp
  <1>2. excl[<<"user", q.r>>] = t /\ version[q.r] = q.seen /\ status[q.r] \in Live
    BY <1>0, <1>1, OwnFacts DEF UserOf, UserOp
  <1>3. CASE q.todo = {}
    <2> DEFINE new == [q EXCEPT !.pc = "commit"]
    <2>1. Step(t, "commit") /\ UNCHANGED lockVars
      BY <1>3 DEF LeaveGroups
    <2>2. Becomes(t, new)
      BY <2>1, StepFacts
    <2>3. /\ new \in TxType /\ new.pc = "commit" /\ new.op = q.op /\ new.g = q.g /\ new.r = q.r /\ new.n = q.n
          /\ new.seen = q.seen /\ new.was = q.was /\ new.plan = q.plan /\ new.todo = q.todo
      BY OwnFacts DEF TxType, Pcs
    <2> HIDE DEF new
    <2>4. ShapeOf(new)
      BY <1>0, <1>1, <2>3, OwnFacts DEF ShapeOf, GroupOp, UserOp, PatchOp
    <2>5. LockOf(t, new, excl, share)
      BY <1>1, <2>3 DEF LockOf, GroupOp, PatchOp
    <2>6. MembersOf(new, members, status)
      BY <1>1, <2>3 DEF MembersOf, GroupOp, PatchOp
    <2>7. PlanOf(t, new, excl', status)
      BY <1>0, <1>1, <2>3, UnplannedFacts
    <2> QED
      BY <1>0, <1>2, <2>1, <2>2, <2>3, <2>4, <2>5, <2>6, <2>7, GoOnIInv
  <1>4. CASE q.todo # {}
    <2> DEFINE g == Min(q.todo)
               X == IF q.r \in members[g] THEN {<<"member", <<g, q.r>>>>} ELSE {}
               todo == q.todo \ {g}
               new == [q EXCEPT !.todo = todo]
    <2>1. tx' = [tx EXCEPT ![t].todo = @ \ {g}] /\ share' = share
      BY <1>4 DEF LeaveGroups, lockVars
    <2>3. /\ excl' \in [Resource -> Tx \cup {None}]
          /\ \A x \in Resource : excl'[x] = IF x \in X THEN t ELSE excl[x]
          /\ \A s \in Tx \ {t} : \A x \in Resource : excl'[x] = s <=> excl[x] = s
      <3> HIDE DEF g
      <3>1. CASE q.r \in members[g]
        <4>1. TakeExcl(t, X)
          BY <1>4, <3>1 DEF LeaveGroups, g
        <4> HIDE DEF X
        <4> QED
          BY <4>1, TakeFacts
      <3>2. CASE q.r \notin members[g]
        <4>1. excl' = excl /\ X = {}
          BY <1>4, <3>2 DEF LeaveGroups, lockVars, g
        <4> QED
          BY <4>1, TypeFacts
      <3> QED
        BY <3>1, <3>2
    <2> HIDE DEF g
    <2>4. /\ \A k \in Group : excl'[<<"group", k>>] = excl[<<"group", k>>]
          /\ excl'[<<"user", q.r>>] = t
      BY <1>1, <1>2, <2>3, Resources
    <2> HIDE DEF X
    <2>5. Becomes(t, new)
      BY <2>1, TypeFacts DEF Becomes
    <2>6. todo \subseteq Group /\ todo \in SUBSET Nat
      BY <1>1
    <2> HIDE DEF todo
    <2>7. /\ new \in TxType /\ new.pc = "leave_groups" /\ new.op = q.op /\ new.g = q.g /\ new.r = q.r /\ new.n = q.n
          /\ new.seen = q.seen /\ new.was = q.was /\ new.plan = q.plan /\ new.todo = todo
      <3>1. q \in TxType
        BY OwnFacts
      <3> QED
        BY <1>0, <2>6, <3>1 DEF TxType
    <2> HIDE DEF new
    <2>8. ShapeOf(new)
      BY <1>0, <1>1, <2>6, <2>7, OwnFacts DEF ShapeOf, GroupOp, UserOp, PatchOp
    <2>9. LockOf(t, new, excl', share')
      BY <1>1, <2>7 DEF LockOf, GroupOp, PatchOp
    <2>10. MembersOf(new, members, status)
      BY <1>1, <2>7 DEF MembersOf, GroupOp, PatchOp
    <2>11. PlanOf(t, new, excl', status)
      BY <1>0, <1>1, <2>7, UnplannedFacts
    <2>12. share' \in [Row -> SUBSET Tx] /\ share' = share
      BY <2>1, TypeFacts
    <2> QED
      BY <1>0, <1>2, <2>3, <2>4, <2>5, <2>7, <2>8, <2>9, <2>10, <2>11, <2>12, OwnIInv
  <1> QED
    BY <1>3, <1>4

\* Applying a plan: human grants stay, and a row manages only what it did or
\* what its plan adds.
LEMMA ApplyFacts ==
  ASSUME IInv, NEW plan \in Plans, grant' = ApplyPlan(plan)
  PROVE  /\ grant' \in [User -> [Role -> Row \cup {None, Human}]]
         /\ \A u \in User, role \in Role : grant[u][role] = Human => grant'[u][role] = Human
         /\ \A r \in Row, role \in Role :
               grant'[Owner[r]][role] = r => grant[Owner[r]][role] = r \/ plan[r].add # {}
  <1> DEFINE Drops(u, role) == \E r \in Row : Owner[r] = u /\ role \in plan[r].drop /\ grant[u][role] = r
             Adds(u, role) == \E r \in Row : Owner[r] = u /\ role \in plan[r].add
             adder(u, role) == CHOOSE r \in Row : Owner[r] = u /\ role \in plan[r].add
             value(u, role) == CASE Drops(u, role) -> None
                                 [] grant[u][role] = None /\ Adds(u, role) -> adder(u, role)
                                 [] OTHER -> grant[u][role]
  <1>1. grant' = [u \in User |-> [role \in Role |-> value(u, role)]]
    BY DEF ApplyPlan
  <1>2. ASSUME NEW u \in User, NEW role \in Role
        PROVE  \/ value(u, role) = None /\ grant[u][role] \in Row
               \/ value(u, role) \in Row /\ role \in plan[value(u, role)].add /\ grant[u][role] = None
               \/ value(u, role) = grant[u][role]
    <2>1. Drops(u, role) => grant[u][role] \in Row /\ grant[u][role] # None
      BY Basics
    <2>2. Adds(u, role) => adder(u, role) \in Row /\ role \in plan[adder(u, role)].add
      OBVIOUS
    <2> HIDE DEF Drops, Adds, adder
    <2>3. CASE Drops(u, role)
      BY <2>1, <2>3
    <2>4. CASE ~Drops(u, role) /\ grant[u][role] = None /\ Adds(u, role)
      BY <2>2, <2>4
    <2>5. CASE ~Drops(u, role) /\ ~(grant[u][role] = None /\ Adds(u, role))
      BY <2>5
    <2> QED
      BY <2>3, <2>4, <2>5
  <1> HIDE DEF value
  <1>3. \A u \in User, role \in Role : grant'[u][role] = value(u, role)
    BY <1>1
  <1>4. \A u \in User, role \in Role : grant[u][role] \in Row \cup {None, Human}
    BY TypeFacts
  <1>5. \A u \in User, role \in Role : value(u, role) \in Row \cup {None, Human}
    BY <1>2, <1>4
  <1>6. grant' \in [User -> [Role -> Row \cup {None, Human}]]
    BY <1>1, <1>5
  <1>7. \A u \in User, role \in Role : grant[u][role] = Human => grant'[u][role] = Human
    BY <1>2, <1>3, Basics
  <1>8. ASSUME NEW r \in Row, NEW role \in Role, grant'[Owner[r]][role] = r
        PROVE  grant[Owner[r]][role] = r \/ plan[r].add # {}
    <2>1. Owner[r] \in User
      BY DEF User
    <2> QED
      BY <1>2, <1>3, <1>8, <2>1, Basics
  <1> QED
    BY <1>6, <1>7, <1>8

\* Taking every membership of a user away.
LEMMA StripFacts ==
  ASSUME IInv, NEW r \in Row, grant' = Strip(r)
  PROVE  /\ grant' \in [User -> [Role -> Row \cup {None, Human}]]
         /\ \A role \in Role : grant'[Owner[r]][role] = None
         /\ \A u \in User, role \in Role : u # Owner[r] => grant'[u][role] = grant[u][role]
  <1>1. Owner[r] \in User
    BY DEF User
  <1> QED
    BY <1>1, TypeFacts DEF Strip

\* A row that is not active manages nothing.
LEMMA InactiveFacts ==
  ASSUME IInv
  PROVE  \A r \in Row, role \in Role : status[r] # "active" => grant[Owner[r]][role] # r
  BY DEF IInv, DeprovisionedStaysOut, Managed

\* A group request commits.
LEMMA CommitGroupIInv ==
  ASSUME IInv, NEW t \in Tx, CommitGroup(t)
  PROVE  IInv'
  <1> DEFINE q == tx[t]
             kept == {r \in q.fresh : status[r] \in Live}
  <1>1. /\ q.pc = "commit" /\ q.g # None /\ grant' = ApplyPlan(q.plan) /\ Finish(t)
        /\ names' = NamesIn(t) /\ members' = [members EXCEPT ![q.g] = kept]
        /\ UNCHANGED <<status, version, mapping, started, client>>
    BY DEF CommitGroup
  <1>2. /\ q.op \in GroupOp \cup {"create"} /\ q.g \in Group /\ q.n \in Name \cup {None}
        /\ q.plan \in Plans /\ q.fresh \in SUBSET Row
    BY <1>1, OwnFacts DEF ShapeOf, TxType
  <1>3. q.op # "create" => excl[<<"group", q.g>>] = t
    BY <1>1, <1>2, OwnFacts DEF LockOf
  <1>4. q.op = "create" => names[q.g] = None /\ \A s \in Tx : excl[<<"group", q.g>>] # s
    BY <1>2, Basics DEF IInv, RowInv
  <1>5. names' \in [Group -> Name \cup {None}] /\ \A g \in Group : g # q.g => names'[g] = names[g]
    BY <1>1, <1>2, TypeFacts DEF NamesIn
  <1>6. /\ members' \in [Group -> SUBSET Row] /\ \A g \in Group : g # q.g => members'[g] = members[g]
        /\ \A r \in members'[q.g] : status[r] \in Live
    <2>1. kept \in SUBSET Row /\ \A r \in kept : status[r] \in Live
      BY <1>2
    <2> HIDE DEF kept
    <2> QED
      BY <1>1, <1>2, <2>1, TypeFacts
  <1>7. ASSUME NEW s \in Tx \ {t}
        PROVE  /\ MembersOf(tx[s], members', status')
               /\ UserOf(s, tx[s], excl, version', status', started)
               /\ PlanOf(s, tx[s], excl, status')
               /\ tx[s].op = "create" => names'[tx[s].g] = None
    <2>1. tx[s] \in TxType /\ ShapeOf(tx[s])
      BY OwnFacts
    <2>2. MembersOf(tx[s], members', status')
      <3> SUFFICES ASSUME tx[s].op \in GroupOp, tx[s].pc # "group"
                   PROVE  MembersOf(tx[s], members', status')
        BY DEF MembersOf
      <3>1. tx[s].g \in Group /\ excl[<<"group", tx[s].g>>] = s
        BY <2>1, OwnFacts DEF ShapeOf, TxType, LockOf
      <3>2. tx[s].g # q.g
        BY <1>2, <1>3, <1>4, <3>1
      <3>3. members'[tx[s].g] = members[tx[s].g] /\ status' = status
        BY <1>1, <1>6, <3>1, <3>2
      <3> QED
        BY <3>3, OwnFacts DEF MembersOf
    <2>3. UserOf(s, tx[s], excl, version', status', started) /\ PlanOf(s, tx[s], excl, status')
      BY <1>1, OwnFacts
    <2>4. ASSUME tx[s].op = "create" PROVE names'[tx[s].g] = None
      <3>1. tx[s].g \in Group /\ names[tx[s].g] = None
        BY <2>1, <2>4 DEF ShapeOf, TxType, IInv, RowInv
      <3>2. q.op # "create" => names[q.g] # None
        BY <1>2, <1>3, Basics DEF IInv, RowInv
      <3>3. q.op = "create" => tx[s].g # q.g
        BY <2>4 DEF IInv, RowInv
      <3> QED
        BY <1>5, <3>1, <3>2, <3>3
    <2> QED
      BY <2>2, <2>3, <2>4
  <1>8. \A g \in Group : excl[<<"group", g>>] \in Tx \ {t} => names'[g] # None
    <2> SUFFICES ASSUME NEW g \in Group, excl[<<"group", g>>] \in Tx \ {t} PROVE names'[g] # None
      OBVIOUS
    <2>1. g # q.g
      BY <1>2, <1>3, <1>4
    <2>2. names[g] # None
      BY Basics DEF IInv, RowInv
    <2> QED
      BY <1>5, <2>1, <2>2
  <1>9. \A g \in Group : \A r \in members'[g] : status'[r] # "none"
    BY <1>1, <1>6 DEF IInv, RowInv, Live
  <1>10. version' \in [Row -> 0..client.limit] /\ \A r \in Row : version'[r] <= started
    BY <1>1, TypeFacts DEF IInv, RowInv
  <1>11. \A r \in Row : \A role \in Role : status'[r] # "active" => grant'[Owner[r]][role] # r
    <2> SUFFICES ASSUME NEW r \in Row, NEW role \in Role, status[r] # "active", grant'[Owner[r]][role] = r
                 PROVE  FALSE
      BY <1>1
    <2>1. q.plan[r].add = {}
      <3>1. q.op \notin {"provision", "update_user"}
        BY <1>2 DEF GroupOp, PatchOp
      <3>2. PlanOf(t, q, excl, status)
        BY OwnFacts
      <3> QED
        BY <3>1, <3>2 DEF PlanOf
    <2> QED
      BY <1>1, <1>2, <2>1, ApplyFacts, InactiveFacts
  <1>12. /\ status' \in [Row -> Live \cup {"none", "deleted"}] /\ mapping' \in [Name -> Role \cup {None}]
         /\ grant' \in [User -> [Role -> Row \cup {None, Human}]]
    BY <1>1, <1>2, ApplyFacts, TypeFacts
  <1> QED
    BY <1>1, <1>5, <1>6, <1>7, <1>8, <1>9, <1>10, <1>11, <1>12, CommitIInv

\* A mapping request commits.
LEMMA CommitMappingIInv ==
  ASSUME IInv, NEW t \in Tx, CommitMapping(t)
  PROVE  IInv'
  <1> DEFINE q == tx[t]
  <1>1. /\ q.pc = "commit" /\ q.op = "mapping" /\ grant' = ApplyPlan(q.plan) /\ Finish(t)
        /\ mapping' = MappingIn(t) /\ UNCHANGED <<status, version, names, members, started, client>>
    BY DEF CommitMapping
  <1>2. q.plan \in Plans /\ q.n \in Name \cup {None} /\ q.role \in Role \cup {None}
    BY OwnFacts DEF TxType
  <1>3. mapping' \in [Name -> Role \cup {None}]
    BY <1>1, <1>2, TypeFacts DEF MappingIn
  <1>4. \A s \in Tx \ {t} : /\ MembersOf(tx[s], members', status')
                            /\ UserOf(s, tx[s], excl, version', status', started)
                            /\ PlanOf(s, tx[s], excl, status')
                            /\ tx[s].op = "create" => names'[tx[s].g] = None
    BY <1>1, OwnFacts DEF IInv, RowInv
  <1>5. /\ \A g \in Group : excl[<<"group", g>>] \in Tx \ {t} => names'[g] # None
        /\ \A g \in Group : \A r \in members'[g] : status'[r] # "none"
        /\ \A r \in Row : version'[r] <= started
    BY <1>1, Basics DEF IInv, RowInv
  <1>6. \A r \in Row : \A role \in Role : status'[r] # "active" => grant'[Owner[r]][role] # r
    <2> SUFFICES ASSUME NEW r \in Row, NEW role \in Role, status[r] # "active", grant'[Owner[r]][role] = r
                 PROVE  FALSE
      BY <1>1
    <2>1. q.plan[r].add = {}
      BY <1>1, OwnFacts DEF PlanOf
    <2> QED
      BY <1>1, <1>2, <2>1, ApplyFacts, InactiveFacts
  <1>7. /\ status' \in [Row -> Live \cup {"none", "deleted"}] /\ version' \in [Row -> 0..client.limit]
        /\ names' \in [Group -> Name \cup {None}] /\ members' \in [Group -> SUBSET Row]
        /\ grant' \in [User -> [Role -> Row \cup {None, Human}]]
    BY <1>1, <1>2, ApplyFacts, TypeFacts
  <1> QED
    BY <1>1, <1>3, <1>4, <1>5, <1>6, <1>7, CommitIInv

\* A user is provisioned.
LEMMA CommitProvisionIInv ==
  ASSUME IInv, NEW t \in Tx, CommitProvision(t)
  PROVE  IInv'
  <1> DEFINE q == tx[t]
             st == IF q.active THEN "active" ELSE "inactive"
  <1>1. /\ q.pc = "commit" /\ q.op = "provision" /\ grant' = ApplyPlan(q.plan) /\ Finish(t)
        /\ status' = [status EXCEPT ![q.r] = st] /\ UNCHANGED <<version, names, members, mapping, started, client>>
    BY DEF CommitProvision
  <1>2. q.plan \in Plans /\ q.r \in Row /\ status[q.r] = "none"
    BY <1>1, OwnFacts DEF TxType, ShapeOf, UserOf
  <1>3. st \in Live /\ st # "none" /\ (st # "active" => ~q.active)
    BY DEF Live
  <1> HIDE DEF st
  <1>4. /\ status' \in [Row -> Live \cup {"none", "deleted"}] /\ status'[q.r] = st
        /\ \A r \in Row : r # q.r => status'[r] = status[r]
    BY <1>1, <1>2, <1>3, TypeFacts
  <1>5. ASSUME NEW s \in Tx \ {t}
        PROVE  /\ MembersOf(tx[s], members', status')
               /\ UserOf(s, tx[s], excl, version', status', started)
               /\ PlanOf(s, tx[s], excl, status')
               /\ tx[s].op = "create" => names'[tx[s].g] = None
    <2>1. tx[s] \in TxType /\ ShapeOf(tx[s])
      BY OwnFacts
    <2>2. MembersOf(tx[s], members', status')
      <3> SUFFICES ASSUME tx[s].op \in GroupOp, tx[s].pc # "group"
                   PROVE  MembersOf(tx[s], members', status')
        BY DEF MembersOf
      <3>1. tx[s].g \in Group
        BY <2>1 DEF ShapeOf, TxType
      <3>2. q.r \notin members[tx[s].g]
        BY <1>2, <3>1 DEF IInv, RowInv
      <3>3. q.r \notin tx[s].old
        BY <1>2, OwnFacts DEF MembersOf
      <3> QED
        BY <1>1, <1>3, <1>4, <3>2, <3>3, OwnFacts DEF MembersOf
    <2>3. UserOf(s, tx[s], excl, version', status', started)
      <3>1. tx[s].op \in UserOp \cup {"provision"} => tx[s].r \in Row /\ tx[s].r # q.r
        <4>1. UserOf(s, tx[s], excl, version, status, started) /\ RowInv
          BY OwnFacts DEF IInv
        <4>2. tx[s].op = "provision" => tx[s].r # q.r
          BY <1>1, <4>1 DEF RowInv
        <4>3. tx[s].op \in UserOp => tx[s].r # q.r
          BY <1>2, <4>1 DEF UserOf
        <4> QED
          BY <2>1, <4>2, <4>3 DEF ShapeOf
      <3>2. tx[s].op \in UserOp \cup {"provision"} => status'[tx[s].r] = status[tx[s].r]
        BY <1>4, <3>1
      <3> QED
        BY <1>1, <3>2, OwnFacts DEF UserOf
    <2>4. PlanOf(s, tx[s], excl, status')
      <3>1. \A r \in Row : status[r] = "active" => status'[r] = "active"
        BY <1>2, <1>4
      <3> QED
        BY <3>1, OwnFacts DEF PlanOf
    <2>5. tx[s].op = "create" => names'[tx[s].g] = None
      BY <1>1 DEF IInv, RowInv
    <2> QED
      BY <2>2, <2>3, <2>4, <2>5
  <1>6. /\ \A g \in Group : excl[<<"group", g>>] \in Tx \ {t} => names'[g] # None
        /\ \A r \in Row : version'[r] <= started
    BY <1>1, Basics DEF IInv, RowInv
  <1>7. \A g \in Group : \A r \in members'[g] : status'[r] # "none"
    <2>1. \A g \in Group : \A r \in members[g] : r \in Row /\ status[r] # "none"
      BY TypeFacts DEF IInv, RowInv
    <2> QED
      BY <1>1, <1>3, <1>4, <2>1
  <1>8. \A r \in Row : \A role \in Role : status'[r] # "active" => grant'[Owner[r]][role] # r
    <2> SUFFICES ASSUME NEW r \in Row, NEW role \in Role, status'[r] # "active", grant'[Owner[r]][role] = r
                 PROVE  FALSE
      OBVIOUS
    <2>1. q.plan[r].add = {}
      <3>1. PlanOf(t, q, excl, status)
        BY OwnFacts
      <3>2. r = q.r => ~q.active
        BY <1>3, <1>4
      <3> QED
        BY <1>1, <3>1, <3>2 DEF PlanOf
    <2>2. status[r] # "active"
      BY <1>2, <1>4
    <2> QED
      BY <1>1, <1>2, <2>1, <2>2, ApplyFacts, InactiveFacts
  <1>9. /\ version' \in [Row -> 0..client.limit] /\ mapping' \in [Name -> Role \cup {None}]
        /\ names' \in [Group -> Name \cup {None}] /\ members' \in [Group -> SUBSET Row]
        /\ grant' \in [User -> [Role -> Row \cup {None, Human}]]
    BY <1>1, <1>2, ApplyFacts, TypeFacts
  <1> QED
    BY <1>1, <1>4, <1>5, <1>6, <1>7, <1>8, <1>9, CommitIInv

\* The row of a user request that commits, and what the others know of it.
LEMMA UserCommitFacts ==
  ASSUME IInv, NEW t \in Tx, tx[t].op \in UserOp, tx[t].pc = "commit", NEW st \in Live \cup {"deleted"},
         status' = [status EXCEPT ![tx[t].r] = st], version' = [version EXCEPT ![tx[t].r] = @ + 1]
  PROVE  /\ tx[t].r \in Row /\ status[tx[t].r] \in Live /\ excl[<<"user", tx[t].r>>] = t
         /\ tx[t].op = "update_user" => (tx[t].was <=> status[tx[t].r] = "active")
         /\ status' \in [Row -> Live \cup {"none", "deleted"}] /\ status'[tx[t].r] = st
         /\ \A r \in Row : r # tx[t].r => status'[r] = status[r]
         /\ version' \in [Row -> 0..client.limit] /\ \A r \in Row : version'[r] <= started
         /\ \A s \in Tx \ {t} : UserOf(s, tx[s], excl, version', status', started) /\ PlanOf(s, tx[s], excl, status')
  <1> DEFINE q == tx[t]
             r == q.r
  <1>1. /\ r \in Row /\ status[r] \in Live /\ excl[<<"user", r>>] = t /\ version[r] = q.seen /\ q.seen < started
        /\ q.op = "update_user" => (q.was <=> status[r] = "active")
    BY OwnFacts DEF ShapeOf, UserOf
  <1>2. /\ status' \in [Row -> Live \cup {"none", "deleted"}] /\ status'[r] = st
        /\ \A k \in Row : k # r => status'[k] = status[k]
    BY <1>1, TypeFacts
  <1>3. version[r] \in Nat /\ started \in Nat /\ client.limit \in Nat /\ started <= client.limit /\ version[r] < started
    <2>1. client.limit \in Nat /\ started \in 0..client.limit /\ version[r] \in 0..client.limit
      BY <1>1, TypeFacts
    <2>2. version[r] < started
      BY <1>1
    <2> QED
      BY <2>1, <2>2
  <1>4. version[r] + 1 \in 0..client.limit /\ version[r] + 1 <= started /\ version[r] < version[r] + 1
    BY <1>3
  <1>5. version' \in [Row -> 0..client.limit] /\ version'[r] = version[r] + 1 /\ \A k \in Row : k # r => version'[k] = version[k]
    BY <1>1, <1>4, TypeFacts
  <1>6. \A k \in Row : version'[k] <= started
    BY <1>4, <1>5 DEF IInv, RowInv
  <1>7. ASSUME NEW s \in Tx \ {t}
        PROVE  UserOf(s, tx[s], excl, version', status', started) /\ PlanOf(s, tx[s], excl, status')
    <2>0. tx[s] \in TxType /\ ShapeOf(tx[s]) /\ UserOf(s, tx[s], excl, version, status, started)
      BY OwnFacts
    <2>1. ASSUME tx[s].op \in UserOp /\ tx[s].r = r
          PROVE  UserOf(s, tx[s], excl, version', status', started)
      <3>1. /\ tx[s].pc \notin {"reconcile_user", "create_memberships", "leave_groups", "commit"}
            /\ tx[s].seen < started /\ tx[s].seen <= version[r] /\ tx[s].seen \in Nat
        BY <1>1, <2>0, <2>1 DEF UserOf, TxType
      <3>2. tx[s].seen <= version'[r] /\ tx[s].seen # version'[r]
        BY <1>3, <1>5, <3>1
      <3>3. status'[r] # "none"
        BY <1>2 DEF Live
      <3>4. tx[s].op # "provision"
        BY <2>1 DEF UserOp
      <3> QED
        BY <1>2, <2>1, <3>1, <3>2, <3>3, <3>4, <2>0 DEF UserOf, TxType
    <2>2. ASSUME ~(tx[s].op \in UserOp /\ tx[s].r = r)
          PROVE  UserOf(s, tx[s], excl, version', status', started)
      <3>1. tx[s].op \in UserOp \cup {"provision"} => tx[s].r \in Row /\ tx[s].r # r
        BY <1>1, <2>0, <2>2 DEF ShapeOf, UserOf, Live
      <3> QED
        BY <1>2, <1>5, <2>0, <3>1 DEF UserOf
    <2>3. PlanOf(s, tx[s], excl, status')
      BY <1>1, <1>2, OwnFacts DEF PlanOf
    <2> QED
      BY <2>1, <2>2, <2>3
  <1> QED
    BY <1>1, <1>2, <1>5, <1>6, <1>7

\* A user is updated.
LEMMA CommitUpdateUserIInv ==
  ASSUME IInv, NEW t \in Tx, CommitUpdateUser(t)
  PROVE  IInv'
  <1> DEFINE q == tx[t]
             st == IF q.active THEN "active" ELSE "inactive"
  <1>1. /\ q.pc = "commit" /\ q.op = "update_user" /\ Finish(t)
        /\ status' = [status EXCEPT ![q.r] = st] /\ version' = [version EXCEPT ![q.r] = @ + 1]
        /\ grant' = IF q.was /\ ~q.active THEN Strip(q.r) ELSE ApplyPlan(q.plan)
        /\ UNCHANGED <<names, members, mapping, started, client>>
    BY DEF CommitUpdateUser
  <1>2. st \in Live /\ st # "none" /\ (st # "active" <=> ~q.active)
    BY DEF Live
  <1> HIDE DEF st
  <1>3. /\ q.r \in Row /\ status[q.r] \in Live /\ (q.was <=> status[q.r] = "active")
        /\ status' \in [Row -> Live \cup {"none", "deleted"}] /\ status'[q.r] = st
        /\ \A r \in Row : r # q.r => status'[r] = status[r]
        /\ version' \in [Row -> 0..client.limit] /\ \A r \in Row : version'[r] <= started
        /\ \A s \in Tx \ {t} : UserOf(s, tx[s], excl, version', status', started) /\ PlanOf(s, tx[s], excl, status')
    BY <1>1, <1>2, UserCommitFacts DEF UserOp
  <1>4. q.plan \in Plans
    BY OwnFacts DEF TxType
  <1>5. \A s \in Tx \ {t} : MembersOf(tx[s], members', status')
    <2>1. \A r \in Row : (status'[r] \in Live <=> status[r] \in Live) /\ (status[r] # "none" => status'[r] # "none")
      BY <1>2, <1>3
    <2> QED
      BY <1>1, <2>1, OwnFacts DEF MembersOf
  <1>6. /\ \A s \in Tx \ {t} : tx[s].op = "create" => names'[tx[s].g] = None
        /\ \A g \in Group : excl[<<"group", g>>] \in Tx \ {t} => names'[g] # None
    BY <1>1, Basics DEF IInv, RowInv
  <1>7. \A g \in Group : \A r \in members'[g] : status'[r] # "none"
    <2>1. \A g \in Group : \A r \in members[g] : r \in Row /\ status[r] # "none"
      BY TypeFacts DEF IInv, RowInv
    <2> QED
      BY <1>1, <1>2, <1>3, <2>1
  <1>8. /\ grant' \in [User -> [Role -> Row \cup {None, Human}]]
        /\ \A r \in Row : \A role \in Role : status'[r] # "active" => grant'[Owner[r]][role] # r
    <2>1. CASE q.was /\ ~q.active
      <3>1. grant' = Strip(q.r)
        BY <1>1, <2>1
      <3>0. /\ grant' \in [User -> [Role -> Row \cup {None, Human}]]
            /\ \A role \in Role : grant'[Owner[q.r]][role] = None
            /\ \A u \in User, role \in Role : u # Owner[q.r] => grant'[u][role] = grant[u][role]
        BY <1>3, <3>1, StripFacts
      <3>2. ASSUME NEW r \in Row, NEW role \in Role, status'[r] # "active", grant'[Owner[r]][role] = r
            PROVE  FALSE
        <4>1. Owner[r] \in User
          BY DEF User
        <4>2. Owner[r] # Owner[q.r]
          BY <3>0, <3>2, Basics
        <4>3. grant[Owner[r]][role] = r /\ status[r] # "active"
          BY <1>3, <3>0, <3>2, <4>1, <4>2
        <4> QED
          BY <4>3, InactiveFacts
      <3> QED
        BY <3>0, <3>2
    <2>2. CASE ~(q.was /\ ~q.active)
      <3>1. grant' = ApplyPlan(q.plan)
        BY <1>1, <2>2
      <3>2. ASSUME NEW r \in Row, NEW role \in Role, status'[r] # "active", grant'[Owner[r]][role] = r
            PROVE  FALSE
        <4>1. status[r] # "active"
          BY <1>2, <1>3, <2>2, <3>2
        <4>2. PlanOf(t, q, excl, status) /\ (r = q.r => ~q.active)
          BY <1>2, <1>3, <3>2, OwnFacts
        <4>3. q.plan[r].add = {}
          BY <1>1, <4>2 DEF PlanOf
        <4> QED
          BY <1>4, <3>1, <3>2, <4>1, <4>3, ApplyFacts, InactiveFacts
      <3> QED
        BY <1>4, <3>1, <3>2, ApplyFacts
    <2> QED
      BY <2>1, <2>2
  <1>9. /\ mapping' \in [Name -> Role \cup {None}] /\ names' \in [Group -> Name \cup {None}]
        /\ members' \in [Group -> SUBSET Row]
    BY <1>1, TypeFacts
  <1> QED
    BY <1>1, <1>3, <1>5, <1>6, <1>7, <1>8, <1>9, CommitIInv

\* A user is deleted.
LEMMA CommitDeleteUserIInv ==
  ASSUME IInv, NEW t \in Tx, CommitDeleteUser(t)
  PROVE  IInv'
  <1> DEFINE q == tx[t]
  <1>1. /\ q.pc = "commit" /\ q.op = "delete_user" /\ Finish(t) /\ grant' = Strip(q.r)
        /\ status' = [status EXCEPT ![q.r] = "deleted"] /\ version' = [version EXCEPT ![q.r] = @ + 1]
        /\ members' = [g \in Group |-> members[g] \ {q.r}]
        /\ UNCHANGED <<names, mapping, started, client>>
    BY DEF CommitDeleteUser
  <1>2. /\ q.r \in Row /\ status[q.r] \in Live
        /\ status' \in [Row -> Live \cup {"none", "deleted"}] /\ status'[q.r] = "deleted"
        /\ \A r \in Row : r # q.r => status'[r] = status[r]
        /\ version' \in [Row -> 0..client.limit] /\ \A r \in Row : version'[r] <= started
        /\ \A s \in Tx \ {t} : UserOf(s, tx[s], excl, version', status', started) /\ PlanOf(s, tx[s], excl, status')
    BY ZenonT(60), <1>1, UserCommitFacts DEF UserOp
  <1>3. members' \in [Group -> SUBSET Row] /\ \A g \in Group : members'[g] = members[g] \ {q.r}
    BY <1>1, TypeFacts
  <1>4. ASSUME NEW s \in Tx \ {t} PROVE MembersOf(tx[s], members', status')
    <2> SUFFICES ASSUME tx[s].op \in GroupOp, tx[s].pc # "group", NEW r \in Row
                 PROVE  /\ status'[r] \in Live => (r \in members'[tx[s].g] <=> r \in tx[s].old)
                        /\ r \in tx[s].old => status'[r] # "none"
      BY DEF MembersOf
    <2>1. tx[s].g \in Group
      BY OwnFacts DEF ShapeOf, TxType
    <2>2. /\ status[r] \in Live => (r \in members[tx[s].g] <=> r \in tx[s].old)
          /\ r \in tx[s].old => status[r] # "none"
      BY OwnFacts DEF MembersOf
    <2> QED
      BY <1>2, <1>3, <2>1, <2>2 DEF Live
  <1>5. /\ \A s \in Tx \ {t} : tx[s].op = "create" => names'[tx[s].g] = None
        /\ \A g \in Group : excl[<<"group", g>>] \in Tx \ {t} => names'[g] # None
    BY <1>1, Basics DEF IInv, RowInv
  <1>6. \A g \in Group : \A r \in members'[g] : status'[r] # "none"
    <2>1. \A g \in Group : \A r \in members[g] : r \in Row /\ status[r] # "none"
      BY TypeFacts DEF IInv, RowInv
    <2> QED
      BY <1>2, <1>3, <2>1
  <1>9. /\ grant' \in [User -> [Role -> Row \cup {None, Human}]]
        /\ \A role \in Role : grant'[Owner[q.r]][role] = None
        /\ \A u \in User, role \in Role : u # Owner[q.r] => grant'[u][role] = grant[u][role]
    <2>1. grant' = Strip(q.r) /\ q.r \in Row
      BY <1>1, <1>2
    <2> QED
      BY <2>1, StripFacts
  <1>7. ASSUME NEW r \in Row, NEW role \in Role, status'[r] # "active"
        PROVE  grant'[Owner[r]][role] # r
    <2>1. Owner[r] \in User
      BY DEF User
    <2>2. CASE Owner[r] = Owner[q.r]
      BY <1>9, <2>2, Basics
    <2>3. CASE Owner[r] # Owner[q.r]
      <3>1. grant'[Owner[r]][role] = grant[Owner[r]][role]
        BY <1>9, <2>1, <2>3
      <3>2. status[r] # "active"
        BY <1>2, <1>7, <2>3
      <3> QED
        BY <3>1, <3>2, InactiveFacts
    <2> QED
      BY <2>2, <2>3
  <1>8. /\ mapping' \in [Name -> Role \cup {None}] /\ names' \in [Group -> Name \cup {None}]
        /\ grant' \in [User -> [Role -> Row \cup {None, Human}]]
    BY <1>1, <1>9, TypeFacts
  <1> QED
    BY <1>1, <1>2, <1>3, <1>4, <1>5, <1>6, <1>7, <1>8, CommitIInv

\* A membership is changed by hand.
LEMMA MembershipIInv ==
  ASSUME IInv, NEW u \in User, NEW role \in Role, NEW v \in {None, Human}, grant' = [grant EXCEPT ![u][role] = v],
         UNCHANGED <<status, version, names, members, mapping, lockVars, tx, started, client>>
  PROVE  IInv'
  <1>1. excl' = excl /\ share' = share
    BY DEF lockVars
  <1>2. grant' \in [User -> [Role -> Row \cup {None, Human}]]
    BY TypeFacts
  <1>3. Types'
    BY <1>1, <1>2 DEF IInv, Types, TypeOK
  <1>4. RequestInv' /\ RowInv'
    BY <1>1 DEF IInv, RequestInv, RowInv
  <1>5. ASSUME NEW r \in Row, NEW k \in Role, status[r] # "active" PROVE grant'[Owner[r]][k] # r
    <2>1. grant'[Owner[r]][k] \in {v, grant[Owner[r]][k]}
      <3>1. Owner[r] \in User
        BY DEF User
      <3> QED
        BY <3>1, TypeFacts
    <2> QED
      BY <1>5, <2>1, InactiveFacts, Basics
  <1>6. DeprovisionedStaysOut'
    BY <1>5 DEF DeprovisionedStaysOut, Managed
  <1> QED
    BY <1>3, <1>4, <1>6 DEF IInv

\* Every step keeps the inductive invariant.
LEMMA NextIInv == IInv /\ [Next]_vars => IInv'
  <1> SUFFICES ASSUME IInv, [Next]_vars PROVE IInv'
    OBVIOUS
  <1>1. ASSUME NEW t \in Tx, TxStep(t) PROVE IInv'
    <2>1. CASE DeadlockVictim(t)
      BY <2>1, AbortIInv DEF DeadlockVictim
    <2> QED
      BY <1>1, <2>1, ClaimNameIInv, LockScimGroupIInv, ClearMembersIInv, CheckMembersIInv, InsertMembersIInv, LockUsersIInv,
         ReconcileIInv, CommitGroupIInv, FindGroupByNameIInv, LockGroupByNameIInv, WriteMappingIInv,
         CommitMappingIInv, InsertUserIInv, LockScimUserIInv, ReconcileUserIInv, CreateMembershipsIInv,
         CommitProvisionIInv, CommitUpdateUserIInv, FindGroupsIInv, LockScimGroupsForUserIInv,
         LeaveGroupsIInv, CommitDeleteUserIInv DEF TxStep
  <1>2. ASSUME NEW t \in Tx, Request(t) PROVE IInv'
    BY <1>2, RequestIInv
  <1>3. ASSUME NEW u \in User, NEW role \in Role, GrantMembership(u, role) \/ RevokeMembership(u, role)
        PROVE  IInv'
    BY <1>3, MembershipIInv DEF GrantMembership, RevokeMembership
  <1>4. CASE UNCHANGED vars
    <2>1. /\ UNCHANGED <<status, version, names, members, mapping, grant, tx, started, client>>
          /\ excl' = excl /\ share' = share
      BY <1>4 DEF vars
    <2>2. Types' /\ RowInv' /\ DeprovisionedStaysOut'
      BY <2>1 DEF IInv, Types, TypeOK, RowInv, DeprovisionedStaysOut, Managed
    <2>3. RequestInv'
      BY <2>1 DEF IInv, RequestInv
    <2> QED
      BY <2>2, <2>3 DEF IInv
  <1> QED
    BY <1>1, <1>2, <1>3, <1>4 DEF Next

\* The inductive invariant holds in every reachable state.
LEMMA Invariance == Spec => []IInv
  BY InitIInv, NextIInv, PTL DEF Spec
-----------------------------------------------------------------------------
\* Who holds a member row: the request of its group, behind the lock of the
\* group, or the deletion of its user, which holds every group it found.
MayHold(q, g, r) ==
    \/ q.op \in GroupOp /\ q.pc # "group" /\ q.g = g
    \/ q.op = "delete_user" /\ q.pc \in {"leave_groups", "commit"} /\ q.r = r
KeepsOf(t, q, ex) ==
    /\ \A g \in Group, r \in Row : ex[<<"member", <<g, r>>>>] = t => MayHold(q, g, r)
    /\ q.op = "delete_user" =>
          \A g \in q.found : ex[<<"group", g>>] = t \/ (q.pc = "lock_groups" /\ g \in q.todo)

KeepInv == \A t \in Tx : KeepsOf(t, tx[t], excl)

\* A step of t does not disturb what the others hold.
LEMMA OthersKeep ==
  ASSUME IInv, KeepInv, NEW t \in Tx, \A s \in Tx \ {t} : tx'[s] = tx[s],
         \A s \in Tx \ {t} : \A x \in Resource : excl'[x] = s <=> excl[x] = s,
         KeepsOf(t, tx'[t], excl')
  PROVE  KeepInv'
  <1> SUFFICES ASSUME NEW s \in Tx, s # t PROVE KeepsOf(s, tx'[s], excl')
    BY DEF KeepInv
  <1>1. tx'[s] = tx[s] /\ KeepsOf(s, tx[s], excl) /\ tx[s].found \subseteq Group
    BY OwnFacts DEF KeepInv, TxType
  <1>2. /\ \A g \in Group, r \in Row : excl'[<<"member", <<g, r>>>>] = s <=> excl[<<"member", <<g, r>>>>] = s
        /\ \A g \in Group : excl'[<<"group", g>>] = s <=> excl[<<"group", g>>] = s
    BY Resources
  <1> QED
    BY <1>1, <1>2 DEF KeepsOf

\* The request of t goes on with the same group, user and groups found.
Follows(t) ==
    /\ \A s \in Tx \ {t} : tx'[s] = tx[s]
    /\ tx'[t].op = tx[t].op /\ tx'[t].g = tx[t].g /\ tx'[t].r = tx[t].r /\ tx'[t].found = tx[t].found
    /\ tx'[t].pc # "group" /\ tx[t].pc \notin {"lock_groups", "leave_groups", "commit"}

\* Locks are taken, but of no member row.
LEMMA FollowsKeep ==
  ASSUME IInv, KeepInv, NEW t \in Tx, Follows(t), NEW X, TakeExcl(t, X),
         \A g \in Group, r \in Row : <<"member", <<g, r>>>> \notin X
  PROVE  KeepInv'
  <1>1. /\ \A x \in Resource : excl'[x] = IF x \in X THEN t ELSE excl[x]
        /\ \A s \in Tx \ {t} : \A x \in Resource : excl'[x] = s <=> excl[x] = s
    BY TakeFacts
  <1>2. /\ \A g \in Group, r \in Row : excl'[<<"member", <<g, r>>>>] = excl[<<"member", <<g, r>>>>]
        /\ \A g \in Group : excl[<<"group", g>>] = t => excl'[<<"group", g>>] = t
    BY <1>1, Resources
  <1>3. KeepsOf(t, tx[t], excl) /\ tx[t].found \subseteq Group
    BY OwnFacts DEF KeepInv, TxType
  <1>4. KeepsOf(t, tx'[t], excl')
    BY <1>2, <1>3 DEF KeepsOf, Follows, MayHold
  <1> QED
    BY <1>1, <1>4, OthersKeep DEF Follows

\* No lock is taken.
LEMMA QuietKeep ==
  ASSUME IInv, KeepInv, NEW t \in Tx, Follows(t), excl' = excl
  PROVE  KeepInv'
  <1>1. TakeExcl(t, {})
    BY TypeFacts DEF TakeExcl
  <1> QED
    BY <1>1, FollowsKeep

\* The transaction ends.
LEMMA FinishKeep ==
  ASSUME IInv, KeepInv, NEW t \in Tx, Finish(t)
  PROVE  KeepInv'
  <1>1. /\ tx'[t] = Idle /\ \A s \in Tx \ {t} : tx'[s] = tx[s]
    BY FinishFacts DEF Becomes
  <1>2. KeepsOf(t, Idle, excl')
    BY FinishFacts, Resources, Basics DEF KeepsOf
  <1> QED
    BY <1>1, <1>2, FinishFacts, OthersKeep

\* A request arrives at a transaction that holds nothing.
LEMMA StartKeep ==
  ASSUME IInv, KeepInv, NEW t \in Tx, NEW op, NEW rec, Start(t, op, rec), rec.found = {}
  PROVE  KeepInv'
  <1>1. tx[t] = Idle /\ excl' = excl /\ tx'[t] = rec /\ \A s \in Tx \ {t} : tx'[s] = tx[s]
    BY TypeFacts DEF Start, lockVars
  <1>2. \A x \in Resource : excl[x] # t
    BY <1>1, Basics, OwnFacts DEF LockOf
  <1>3. KeepsOf(t, rec, excl)
    BY <1>2, Resources DEF KeepsOf
  <1> QED
    BY <1>1, <1>3, OthersKeep

LEMMA RequestKeep ==
  ASSUME IInv, KeepInv, NEW t \in Tx, Request(t)
  PROVE  KeepInv'
  <1>0. Idle \in TxType /\ Idle.found = {}
    BY Basics
  <1>1. ASSUME NEW g, NEW n, NEW ms, BeginCreateGroup(t, g, n, ms) PROVE KeepInv'
    <2> DEFINE rec == [Idle EXCEPT !.op = "create", !.pc = "name", !.g = g, !.n = n, !.fresh = ms]
    <2>1. Start(t, "create", rec) /\ rec.found = {}
      BY <1>0, <1>1 DEF BeginCreateGroup, TxType
    <2> QED
      BY <2>1, StartKeep
  <1>2. ASSUME NEW g, NEW n, NEW kind, NEW ms, BeginPatchGroup(t, g, n, kind, ms) PROVE KeepInv'
    <2> DEFINE rec == [Idle EXCEPT !.op = kind, !.pc = "group", !.g = g, !.n = n, !.fresh = ms]
    <2>1. Start(t, "patch", rec) /\ rec.found = {}
      BY <1>0, <1>2 DEF BeginPatchGroup, TxType
    <2> QED
      BY <2>1, StartKeep
  <1>3. ASSUME NEW g, BeginDeleteGroup(t, g) PROVE KeepInv'
    <2> DEFINE rec == [Idle EXCEPT !.op = "delete_group", !.pc = "group", !.g = g]
    <2>1. Start(t, "delete_group", rec) /\ rec.found = {}
      BY <1>0, <1>3 DEF BeginDeleteGroup, TxType
    <2> QED
      BY <2>1, StartKeep
  <1>4. ASSUME NEW n, NEW role, BeginMapping(t, n, role) PROVE KeepInv'
    <2> DEFINE rec == [Idle EXCEPT !.op = "mapping", !.pc = "by_name", !.n = n, !.role = role]
    <2>1. Start(t, "mapping", rec) /\ rec.found = {}
      BY <1>0, <1>4 DEF BeginMapping, TxType
    <2> QED
      BY <2>1, StartKeep
  <1>5. ASSUME NEW r, NEW active, BeginProvision(t, r, active) PROVE KeepInv'
    <2> DEFINE rec == [Idle EXCEPT !.op = "provision", !.pc = "insert", !.r = r, !.active = active]
    <2>1. Start(t, "provision", rec) /\ rec.found = {}
      BY <1>0, <1>5 DEF BeginProvision, TxType
    <2> QED
      BY <2>1, StartKeep
  <1>6. ASSUME NEW r, NEW active, BeginUpdateUser(t, r, active) PROVE KeepInv'
    <2> DEFINE rec == [Idle EXCEPT !.op = "update_user", !.pc = "lock_user", !.r = r, !.active = active,
                                   !.seen = version[r], !.was = (status[r] = "active")]
    <2>1. Start(t, "update_user", rec) /\ rec.found = {}
      BY <1>0, <1>6 DEF BeginUpdateUser, TxType
    <2> QED
      BY <2>1, StartKeep
  <1>7. ASSUME NEW r, BeginDeleteUser(t, r) PROVE KeepInv'
    <2> DEFINE rec == [Idle EXCEPT !.op = "delete_user", !.pc = "find_groups", !.r = r, !.seen = version[r]]
    <2>1. Start(t, "delete_user", rec) /\ rec.found = {}
      BY <1>0, <1>7 DEF BeginDeleteUser, TxType
    <2> QED
      BY <2>1, StartKeep
  <1> QED
    BY <1>1, <1>2, <1>3, <1>4, <1>5, <1>6, <1>7 DEF Request

\* Steps that take no lock of a member row.
LEMMA PlainKeep ==
  ASSUME IInv, KeepInv, NEW t \in Tx,
         \/ ClaimName(t) \/ LockScimGroup(t) \/ CheckMembers(t) \/ InsertMembers(t) \/ LockUsers(t) \/ Reconcile(t)
         \/ FindGroupByName(t) \/ LockGroupByName(t) \/ WriteMapping(t)
         \/ InsertUser(t) \/ LockScimUser(t) \/ ReconcileUser(t) \/ CreateMemberships(t)
  PROVE  KeepInv'
  <1>0. tx \in [Tx -> TxType] /\ tx[t] \in TxType
    BY TypeFacts
  <1>1. ASSUME Abort(t) PROVE KeepInv'
    BY <1>1, FinishKeep DEF Abort
  <1>2. ASSUME ClaimName(t), ~Abort(t) PROVE KeepInv'
    <2>1. Follows(t) /\ TakeExcl(t, {<<"name", tx[t].n>>})
      BY <1>0, <1>2 DEF ClaimName, Step, Follows, TxType
    <2> QED
      BY <2>1, FollowsKeep
  <1>3. ASSUME LockScimGroup(t), ~Abort(t) PROVE KeepInv'
    <2> DEFINE old == {r \in members[tx[t].g] : status[r] \in Live}
               fresh == CASE tx[t].op = "add" -> old \cup tx[t].fresh
                          [] tx[t].op = "remove" -> old \ tx[t].fresh
                          [] OTHER -> tx[t].fresh
               pc == IF tx[t].op = "delete_group" THEN "clear_members" ELSE "name"
    <2>1. /\ TakeExcl(t, {<<"group", tx[t].g>>}) /\ tx[t].pc = "group"
          /\ tx' = [tx EXCEPT ![t].old = old, ![t].fresh = fresh, ![t].todo = members[tx[t].g],
                              ![t].n = IF @ = None /\ tx[t].op # "delete_group" THEN names[tx[t].g] ELSE @,
                              ![t].pc = pc]
      BY <1>3 DEF LockScimGroup
    <2>2. pc # "group"
      OBVIOUS
    <2> HIDE DEF old, fresh, pc
    <2>3. Follows(t)
      BY <1>0, <2>1, <2>2 DEF Follows, TxType
    <2> QED
      BY <2>1, <2>3, FollowsKeep
  <1>4. ASSUME CheckMembers(t), ~Abort(t) PROVE KeepInv'
    <2>1. Follows(t) /\ excl' = excl
      BY <1>0, <1>4 DEF CheckMembers, Follows, TxType, lockVars
    <2> QED
      BY <2>1, QuietKeep
  <1>5. ASSUME InsertMembers(t) PROVE KeepInv'
    <2>1. Follows(t) /\ excl' = excl
      BY <1>0, <1>5 DEF InsertMembers, Step, Follows, TxType
    <2> QED
      BY <2>1, QuietKeep
  <1>6. ASSUME LockUsers(t) PROVE KeepInv'
    <2>1. CASE tx[t].todo = {}
      <3>1. Follows(t) /\ excl' = excl
        BY <1>0, <1>6, <2>1 DEF LockUsers, Step, Follows, TxType, lockVars
      <3> QED
        BY <3>1, QuietKeep
    <2>2. CASE tx[t].todo # {}
      <3> DEFINE r == Min(tx[t].todo)
      <3>1. tx[t].pc = "users" /\ tx' = [tx EXCEPT ![t].todo = @ \ {r}] /\ (TakeExcl(t, {<<"user", r>>}) \/ excl' = excl)
        BY <1>6, <2>2 DEF LockUsers, lockVars
      <3> HIDE DEF r
      <3>2. Follows(t)
        BY <1>0, <3>1 DEF Follows, TxType
      <3> QED
        BY <3>1, <3>2, FollowsKeep, QuietKeep
    <2> QED
      BY <2>1, <2>2
  <1>7. ASSUME Reconcile(t) PROVE KeepInv'
    <2>1. PICK plan : tx' = [tx EXCEPT ![t].pc = "commit", ![t].plan = plan]
      BY <1>7 DEF Reconcile
    <2>2. Follows(t) /\ excl' = excl
      BY <1>0, <1>7, <2>1 DEF Reconcile, Follows, TxType, lockVars
    <2> QED
      BY <2>2, QuietKeep
  <1>8. ASSUME FindGroupByName(t) PROVE KeepInv'
    <2>1. PICK todo : tx' = [tx EXCEPT ![t].pc = "lock_by_name", ![t].todo = todo]
      BY <1>8 DEF FindGroupByName
    <2>2. Follows(t) /\ excl' = excl
      BY <1>0, <1>8, <2>1 DEF FindGroupByName, Follows, TxType, lockVars
    <2> QED
      BY <2>2, QuietKeep
  <1>9. ASSUME LockGroupByName(t) PROVE KeepInv'
    <2> DEFINE X == {<<"group", g>> : g \in {h \in tx[t].todo : names[h] = tx[t].n}}
    <2>1. TakeExcl(t, X) /\ tx[t].pc = "lock_by_name" /\ tx' = [tx EXCEPT ![t].pc = "write_mapping", ![t].todo = {}]
      BY <1>9 DEF LockGroupByName
    <2>2. Follows(t)
      BY <1>0, <2>1 DEF Follows, TxType
    <2>3. \A g \in Group, r \in Row : <<"member", <<g, r>>>> \notin X
      OBVIOUS
    <2> HIDE DEF X
    <2> QED
      BY <2>1, <2>2, <2>3, FollowsKeep
  <1>10. ASSUME WriteMapping(t), ~Abort(t) PROVE KeepInv'
    <2>1. PICK todo : tx' = [tx EXCEPT ![t].pc = "users", ![t].todo = todo]
      BY <1>10 DEF WriteMapping
    <2>2. Follows(t) /\ TakeExcl(t, {<<"mapping", tx[t].n>>})
      BY <1>0, <1>10, <2>1 DEF WriteMapping, Follows, TxType
    <2> QED
      BY <2>2, FollowsKeep
  <1>11. ASSUME InsertUser(t), ~Abort(t) PROVE KeepInv'
    <2>1. Follows(t) /\ excl' = excl
      BY <1>0, <1>11 DEF InsertUser, Follows, TxType, lockVars
    <2> QED
      BY <2>1, QuietKeep
  <1>12. ASSUME LockScimUser(t), ~Abort(t) PROVE KeepInv'
    <2> DEFINE pc == CASE tx[t].op = "delete_user" -> "leave_groups"
                       [] tx[t].op = "update_user" /\ ~tx[t].was /\ tx[t].active -> "reconcile_user"
                       [] OTHER -> "commit"
               todo == {g \in Group : tx[t].op = "delete_user" /\ tx[t].r \in members[g]}
    <2>1. /\ tx' = [tx EXCEPT ![t].pc = pc, ![t].todo = todo] /\ tx[t].pc = "lock_user"
          /\ TakeExcl(t, {<<"user", tx[t].r>>})
      BY <1>12 DEF LockScimUser
    <2>2. pc # "group"
      OBVIOUS
    <2> HIDE DEF pc, todo
    <2>3. Follows(t)
      BY <1>0, <2>1, <2>2 DEF Follows, TxType
    <2> QED
      BY <2>1, <2>3, FollowsKeep
  <1>13. ASSUME ReconcileUser(t) PROVE KeepInv'
    <2>1. Follows(t) /\ excl' = excl
      BY <1>0, <1>13 DEF ReconcileUser, Follows, TxType, lockVars
    <2> QED
      BY <2>1, QuietKeep
  <1>14. ASSUME CreateMemberships(t), ~Abort(t) PROVE KeepInv'
    <2>1. Follows(t) /\ excl' = excl
      BY <1>0, <1>14 DEF CreateMemberships, Step, Follows, TxType, lockVars
    <2> QED
      BY <2>1, QuietKeep
  <1> QED
    BY <1>1, <1>2, <1>3, <1>4, <1>5, <1>6, <1>7, <1>8, <1>9, <1>10, <1>11, <1>12, <1>13, <1>14

\* A group request locks the member rows of its group.
LEMMA ClearMembersKeep ==
  ASSUME IInv, KeepInv, NEW t \in Tx, ClearMembers(t)
  PROVE  KeepInv'
  <1>0. tx \in [Tx -> TxType] /\ tx[t] \in TxType /\ tx[t].pc = "clear_members"
    BY TypeFacts DEF ClearMembers
  <1>1. CASE tx[t].todo = {}
    <2>1. Follows(t) /\ excl' = excl
      BY <1>0, <1>1 DEF ClearMembers, Follows, TxType, lockVars
    <2> QED
      BY <2>1, QuietKeep
  <1>2. CASE tx[t].todo # {}
    <2> DEFINE r == Min(tx[t].todo)
               X == {<<"member", <<tx[t].g, r>>>>}
    <2>1. tx' = [tx EXCEPT ![t].todo = @ \ {r}] /\ (TakeExcl(t, X) \/ excl' = excl)
      BY <1>2 DEF ClearMembers, lockVars
    <2> HIDE DEF r
    <2>2. Follows(t)
      BY <1>0, <2>1 DEF Follows, TxType
    <2>3. CASE TakeExcl(t, X)
      <3>1. \A g \in Group, k \in Row : <<"member", <<g, k>>>> \in X => g = tx[t].g
        OBVIOUS
      <3>2. \A g \in Group : <<"group", g>> \notin X
        OBVIOUS
      <3> HIDE DEF X
      <3>3. /\ \A x \in Resource : excl'[x] = IF x \in X THEN t ELSE excl[x]
            /\ \A s \in Tx \ {t} : \A x \in Resource : excl'[x] = s <=> excl[x] = s
        BY <2>3, TakeFacts
      <3>4. /\ \A g \in Group, k \in Row : excl'[<<"member", <<g, k>>>>] = t =>
                   excl[<<"member", <<g, k>>>>] = t \/ g = tx[t].g
            /\ \A g \in Group : excl'[<<"group", g>>] = excl[<<"group", g>>]
        BY <3>1, <3>2, <3>3, Resources
      <3>5. tx[t].op \in GroupOp /\ tx[t].found \subseteq Group /\ KeepsOf(t, tx[t], excl)
        BY <1>0, OwnFacts DEF KeepInv, ShapeOf, TxType, GroupOp, PatchOp, UserOp
      <3>6. KeepsOf(t, tx'[t], excl')
        BY <2>2, <3>4, <3>5 DEF KeepsOf, Follows, GroupOp, PatchOp, MayHold
      <3> QED
        BY <2>2, <3>3, <3>6, OthersKeep DEF Follows
    <2> QED
      BY <2>1, <2>2, <2>3, QuietKeep
  <1> QED
    BY <1>1, <1>2

\* A user deletion finds the groups of the user.
LEMMA FindGroupsKeep ==
  ASSUME IInv, KeepInv, NEW t \in Tx, FindGroups(t)
  PROVE  KeepInv'
  <1>0. tx \in [Tx -> TxType] /\ tx[t] \in TxType /\ tx[t].pc = "find_groups" /\ excl' = excl
    BY TypeFacts DEF FindGroups, lockVars
  <1>1. PICK found : tx' = [tx EXCEPT ![t].pc = "lock_groups", ![t].found = found, ![t].todo = found]
    BY DEF FindGroups
  <1>2. /\ \A s \in Tx \ {t} : tx'[s] = tx[s]
        /\ tx'[t].op = tx[t].op /\ tx'[t].found = found /\ tx'[t].todo = found /\ tx'[t].pc = "lock_groups"
    BY <1>0, <1>1 DEF TxType
  <1>3. \A x \in Resource : excl[x] # t
    BY <1>0, OwnFacts DEF LockOf
  <1>4. KeepsOf(t, tx'[t], excl')
    BY <1>0, <1>2, <1>3, Resources DEF KeepsOf
  <1> QED
    BY <1>0, <1>2, <1>4, OthersKeep

\* It locks them ...
LEMMA LockGroupsKeep ==
  ASSUME IInv, KeepInv, NEW t \in Tx, LockScimGroupsForUser(t)
  PROVE  KeepInv'
  <1>0. /\ tx \in [Tx -> TxType] /\ tx[t] \in TxType /\ tx[t].pc = "lock_groups" /\ tx[t].found \subseteq Group
        /\ KeepsOf(t, tx[t], excl)
    BY OwnFacts, TypeFacts DEF LockScimGroupsForUser, KeepInv, TxType
  <1>1. CASE tx[t].todo = {}
    <2>1. /\ \A s \in Tx \ {t} : tx'[s] = tx[s]
          /\ tx'[t].op = tx[t].op /\ tx'[t].g = tx[t].g /\ tx'[t].r = tx[t].r /\ tx'[t].found = tx[t].found
          /\ tx'[t].pc = "lock_user" /\ excl' = excl
      BY <1>0, <1>1 DEF LockScimGroupsForUser, Step, TxType, lockVars
    <2>2. KeepsOf(t, tx'[t], excl')
      BY <1>0, <1>1, <2>1 DEF KeepsOf, MayHold
    <2> QED
      BY <2>1, <2>2, OthersKeep
  <1>2. CASE tx[t].todo # {}
    <2> DEFINE g == Min(tx[t].todo)
               X == IF names[g] = None THEN {} ELSE {<<"group", g>>}
               found == IF names[g] = None THEN tx[t].found \ {g} ELSE tx[t].found
    <2>1. tx' = [tx EXCEPT ![t].todo = @ \ {g}, ![t].found = IF names[g] = None THEN @ \ {g} ELSE @] /\ TakeExcl(t, X)
      BY <1>2 DEF LockScimGroupsForUser
    <2> HIDE DEF g
    <2>2. /\ \A s \in Tx \ {t} : tx'[s] = tx[s]
          /\ tx'[t].op = tx[t].op /\ tx'[t].g = tx[t].g /\ tx'[t].r = tx[t].r /\ tx'[t].pc = "lock_groups"
          /\ tx'[t].todo = tx[t].todo \ {g} /\ tx'[t].found = found
      BY <1>0, <2>1 DEF TxType
    <2>3. /\ \A k \in Group, r \in Row : <<"member", <<k, r>>>> \notin X
          /\ \A k \in found : k \in tx[t].found /\ (k = g => <<"group", g>> \in X)
      OBVIOUS
    <2> HIDE DEF X, found
    <2>4. /\ \A x \in Resource : excl'[x] = IF x \in X THEN t ELSE excl[x]
          /\ \A s \in Tx \ {t} : \A x \in Resource : excl'[x] = s <=> excl[x] = s
      BY <2>1, TakeFacts
    <2>5. /\ \A k \in Group, r \in Row : excl'[<<"member", <<k, r>>>>] = excl[<<"member", <<k, r>>>>]
          /\ \A k \in Group : excl[<<"group", k>>] = t => excl'[<<"group", k>>] = t
          /\ \A k \in Group : k \in found /\ k = g => excl'[<<"group", k>>] = t
      BY <2>3, <2>4, Resources
    <2>6. KeepsOf(t, tx'[t], excl')
      <3>1. \A k \in Group, r \in Row : MayHold(tx[t], k, r) => MayHold(tx'[t], k, r)
        BY <1>0, <2>2 DEF MayHold
      <3>2. \A k \in found : tx[t].op = "delete_user" => excl'[<<"group", k>>] = t \/ k \in tx[t].todo \ {g}
        BY <1>0, <2>3, <2>5 DEF KeepsOf
      <3> QED
        BY <1>0, <2>2, <2>5, <3>1, <3>2 DEF KeepsOf
    <2> QED
      BY <2>2, <2>4, <2>6, OthersKeep
  <1> QED
    BY <1>1, <1>2

\* ... and, behind the lock of the user, the member rows.
LEMMA LeaveGroupsKeep ==
  ASSUME IInv, KeepInv, NEW t \in Tx, LeaveGroups(t)
  PROVE  KeepInv'
  <1>0. /\ tx \in [Tx -> TxType] /\ tx[t] \in TxType /\ tx[t].pc = "leave_groups" /\ tx[t].found \subseteq Group
        /\ KeepsOf(t, tx[t], excl)
    BY OwnFacts, TypeFacts DEF LeaveGroups, KeepInv, TxType
  <1>3. tx[t].op = "delete_user"
    BY <1>0, OwnFacts DEF ShapeOf, TxType, GroupOp, PatchOp, UserOp
  <1>1. CASE tx[t].todo = {}
    <2>1. /\ \A s \in Tx \ {t} : tx'[s] = tx[s]
          /\ tx'[t].op = tx[t].op /\ tx'[t].g = tx[t].g /\ tx'[t].r = tx[t].r /\ tx'[t].found = tx[t].found
          /\ tx'[t].pc = "commit" /\ excl' = excl
      BY <1>0, <1>1 DEF LeaveGroups, Step, TxType, lockVars
    <2>2. KeepsOf(t, tx'[t], excl')
      BY <1>0, <2>1 DEF KeepsOf, MayHold
    <2> QED
      BY <2>1, <2>2, OthersKeep
  <1>2. CASE tx[t].todo # {}
    <2> DEFINE g == Min(tx[t].todo)
               X == IF tx[t].r \in members[g] THEN {<<"member", <<g, tx[t].r>>>>} ELSE {}
    <2>1. tx' = [tx EXCEPT ![t].todo = @ \ {g}] /\ TakeExcl(t, X)
      <3>1. excl' = excl => TakeExcl(t, {})
        BY TypeFacts DEF TakeExcl
      <3> QED
        BY <1>2, <3>1 DEF LeaveGroups, lockVars
    <2> HIDE DEF g
    <2>2. /\ \A s \in Tx \ {t} : tx'[s] = tx[s]
          /\ tx'[t].op = tx[t].op /\ tx'[t].g = tx[t].g /\ tx'[t].r = tx[t].r /\ tx'[t].pc = "leave_groups"
          /\ tx'[t].found = tx[t].found
      BY <1>0, <2>1 DEF TxType
    <2>3. /\ \A k \in Group, r \in Row : <<"member", <<k, r>>>> \in X => r = tx[t].r
          /\ \A k \in Group : <<"group", k>> \notin X
      OBVIOUS
    <2> HIDE DEF X
    <2>4. /\ \A x \in Resource : excl'[x] = IF x \in X THEN t ELSE excl[x]
          /\ \A s \in Tx \ {t} : \A x \in Resource : excl'[x] = s <=> excl[x] = s
      BY <2>1, TakeFacts
    <2>5. /\ \A k \in Group, r \in Row : excl'[<<"member", <<k, r>>>>] = t =>
                excl[<<"member", <<k, r>>>>] = t \/ r = tx[t].r
          /\ \A k \in Group : excl'[<<"group", k>>] = excl[<<"group", k>>]
      BY <2>3, <2>4, Resources
    <2>6. KeepsOf(t, tx'[t], excl')
      BY <1>0, <1>3, <2>2, <2>5 DEF KeepsOf, MayHold
    <2> QED
      BY <2>2, <2>4, <2>6, OthersKeep
  <1> QED
    BY <1>1, <1>2

LEMMA KeepInvariance == Spec => [](IInv /\ KeepInv)
  <1>1. Init => KeepInv
    <2> SUFFICES ASSUME Init, NEW t \in Tx PROVE KeepsOf(t, tx[t], excl)
      BY DEF KeepInv
    <2>1. tx[t] = Idle /\ \A x \in Resource : excl[x] # t
      BY Basics DEF Init
    <2> QED
      BY <2>1, Basics, Resources DEF KeepsOf
  <1>2. IInv /\ KeepInv /\ [Next]_vars => KeepInv'
    <2> SUFFICES ASSUME IInv, KeepInv, [Next]_vars PROVE KeepInv'
      OBVIOUS
    <2>1. ASSUME NEW t \in Tx, Finish(t) PROVE KeepInv'
      BY <2>1, FinishKeep
    <2>2. ASSUME NEW t \in Tx, TxStep(t) PROVE KeepInv'
      <3>1. CASE CommitGroup(t) \/ CommitMapping(t) \/ CommitProvision(t) \/ CommitUpdateUser(t) \/ CommitDeleteUser(t)
                 \/ DeadlockVictim(t)
        BY <2>1, <3>1 DEF CommitGroup, CommitMapping, CommitProvision, CommitUpdateUser, CommitDeleteUser,
                         DeadlockVictim, Abort
      <3> QED
        BY <2>2, <3>1, PlainKeep, ClearMembersKeep, FindGroupsKeep, LockGroupsKeep, LeaveGroupsKeep DEF TxStep
    <2>3. ASSUME NEW t \in Tx, Request(t) PROVE KeepInv'
      BY <2>3, RequestKeep
    <2>4. CASE tx' = tx /\ excl' = excl
      BY <2>4 DEF KeepInv
    <2>5. ASSUME NEW u \in User, NEW role \in Role, GrantMembership(u, role) \/ RevokeMembership(u, role) PROVE KeepInv'
      BY <2>4, <2>5 DEF GrantMembership, RevokeMembership, lockVars
    <2>6. UNCHANGED vars => KeepInv'
      BY <2>4 DEF vars
    <2> QED
      BY <2>2, <2>3, <2>5, <2>6 DEF Next
  <1> QED
    BY <1>1, <1>2, Invariance, PTL DEF Spec
-----------------------------------------------------------------------------
\* y waits for a group that x holds; x holds something else; y waits for a
\* member row that x holds.
WaitsGroup(y, x) ==
    \E g \in Group : /\ excl[<<"group", g>>] = x
                     /\ \/ tx[y].pc \in {"group", "lock_by_name"}
                        \/ tx[y].pc = "lock_groups" /\ tx[y].todo # {} /\ g = Min(tx[y].todo)
HoldsElse(x) ==
    \/ \E n \in Name : excl[<<"name", n>>] = x \/ excl[<<"mapping", n>>] = x
    \/ \E r \in Row : excl[<<"user", r>>] = x \/ x \in share[r]
HoldsMember(x) == \E g \in Group, r \in Row : excl[<<"member", <<g, r>>>>] = x

\* Somebody waits for x: x holds a group the other asks for, or something else.
LEMMA BlockersFacts ==
  ASSUME IInv, NEW y \in Tx, NEW x, x \in Blockers(y)
  PROVE  x # y /\ (WaitsGroup(y, x) \/ HoldsElse(x) \/ HoldsMember(x))
  <1> USE DEF WaitsGroup, HoldsElse, HoldsMember
  <1> DEFINE q == tx[y]
  <1>0. q \in TxType /\ ShapeOf(q)
    BY OwnFacts
  <1>1. CASE q.pc = "group"
    <2>1. x \in ExclBlockers(y, <<"group", q.g>>)
      BY <1>1 DEF Blockers
    <2>2. q.g \in Group
      BY <1>0, <1>1 DEF ShapeOf, TxType, GroupOp, PatchOp, UserOp
    <2> QED
      BY <1>1, <2>1, <2>2 DEF ExclBlockers
  <1>2. CASE q.pc = "lock_groups"
    <2>1. q.todo # {} /\ x \in ExclBlockers(y, <<"group", Min(q.todo)>>)
      BY <1>2 DEF Blockers
    <2>2. Min(q.todo) \in Group
      BY <1>0, <1>2, <2>1, MinFacts DEF ShapeOf
    <2> QED
      BY <1>2, <2>1, <2>2 DEF ExclBlockers
  <1>3. CASE q.pc = "lock_by_name"
    <2>1. x \in UNION {ExclBlockers(y, <<"group", g>>) : g \in q.todo}
      BY <1>3 DEF Blockers
    <2>2. PICK g \in q.todo : x \in ExclBlockers(y, <<"group", g>>)
      BY <2>1
    <2>3. g \in Group
      BY <1>0, <1>3 DEF ShapeOf
    <2> QED
      BY <1>3, <2>2, <2>3 DEF ExclBlockers
  <1>4. CASE q.pc = "name"
    <2>1. x \in ExclBlockers(y, <<"name", q.n>>) /\ q.n \in Name
      BY <1>0, <1>4 DEF Blockers, ShapeOf
    <2> QED
      BY <2>1 DEF ExclBlockers
  <1>5. CASE q.pc = "write_mapping"
    <2>1. x \in ExclBlockers(y, <<"mapping", q.n>>)
      BY <1>5 DEF Blockers
    <2>2. q.n \in Name
      BY <1>0, <1>5 DEF ShapeOf, TxType, GroupOp, PatchOp, UserOp
    <2> QED
      BY <2>1, <2>2 DEF ExclBlockers
  <1>6. CASE q.pc = "insert_members"
    <2>1. x \in UNION {ShareBlockers(y, r) : r \in q.fresh}
      BY <1>6 DEF Blockers
    <2>2. PICK r \in q.fresh : x \in ShareBlockers(y, r)
      BY <2>1
    <2>3. r \in Row
      BY <1>0 DEF TxType
    <2> QED
      BY <2>2, <2>3 DEF ShareBlockers
  <1>7. CASE q.pc = "users"
    <2>1. q.todo # {} /\ x \in ExclBlockers(y, <<"user", Min(q.todo)>>)
      BY <1>7 DEF Blockers
    <2>2. Min(q.todo) \in Row
      BY <1>0, <1>7, <2>1, MinFacts DEF ShapeOf
    <2> QED
      BY <2>1, <2>2 DEF ExclBlockers
  <1>8. CASE q.pc = "lock_user"
    <2>1. x \in ExclBlockers(y, <<"user", q.r>>)
      BY <1>8 DEF Blockers
    <2>2. q.r \in Row
      BY <1>0, <1>8 DEF ShapeOf, TxType, GroupOp, PatchOp, UserOp
    <2> QED
      BY <2>1, <2>2 DEF ExclBlockers
  <1>9. CASE q.pc = "clear_members"
    <2>1. q.todo # {} /\ x \in ExclBlockers(y, <<"member", <<q.g, Min(q.todo)>>>>)
      BY <1>9 DEF Blockers
    <2>2. Min(q.todo) \in Row /\ q.g \in Group
      BY <1>0, <1>9, <2>1, MinFacts DEF ShapeOf, TxType, GroupOp, PatchOp, UserOp
    <2> QED
      BY <1>9, <2>1, <2>2 DEF ExclBlockers
  <1>10. CASE q.pc = "leave_groups"
    <2>1. q.todo # {} /\ x \in ExclBlockers(y, <<"member", <<Min(q.todo), q.r>>>>)
      BY <1>10 DEF Blockers
    <2>2. Min(q.todo) \in Group /\ q.r \in Row
      BY <1>0, <1>10, <2>1, MinFacts DEF ShapeOf, TxType, GroupOp, PatchOp, UserOp
    <2> QED
      BY <1>10, <2>1, <2>2 DEF ExclBlockers
  <1>11. CASE q.pc \notin {"group", "lock_groups", "lock_by_name", "name", "write_mapping", "insert_members",
                           "users", "lock_user", "clear_members", "leave_groups"}
    BY <1>11 DEF Blockers
  <1> QED
    BY <1>1, <1>2, <1>3, <1>4, <1>5, <1>6, <1>7, <1>8, <1>9, <1>10, <1>11

\* In a cycle everybody is waited for.
LEMMA CycleFacts ==
  ASSUME IInv, NEW S \in SUBSET Tx, WaitCycle(S), NEW x \in S
  PROVE  \E y \in S : x \in Blockers(y)
  <1> SUFFICES ASSUME \A y \in S : x \notin Blockers(y) PROVE FALSE
    OBVIOUS
  <1>1. \A s \in S : \E y \in S : y \in Blockers(s) /\ y # x
    BY DEF WaitCycle, Stuck
  <1>2. PICK y \in S : y \in Blockers(x) /\ y # x
    BY <1>1
  <1>3. Stuck(S \ {x})
    BY <1>1, <1>2 DEF Stuck
  <1> QED
    BY <1>3 DEF WaitCycle

\* A delete that leaves a group it found holds the group: nobody else has
\* cleared the member row.
LEMMA LeaveFacts ==
  ASSUME IInv, KeepInv, NEW d \in Tx, NEW x \in Tx, tx[d].pc = "leave_groups", x \in Blockers(d)
  PROVE  Min(tx[d].todo) \notin tx[d].found
  <1> DEFINE g == Min(tx[d].todo)
             r == tx[d].r
  <1>0. tx[d].op = "delete_user" /\ r \in Row /\ KeepsOf(d, tx[d], excl) /\ tx[d].found \subseteq Group
    BY OwnFacts DEF KeepInv, ShapeOf, TxType, GroupOp, PatchOp, UserOp
  <1>1. x # d /\ excl[<<"member", <<g, r>>>>] = x
    BY DEF Blockers, ExclBlockers
  <1> HIDE DEF g
  <1> SUFFICES ASSUME g \in tx[d].found PROVE FALSE
    BY DEF g
  <1>2. g \in Group /\ excl[<<"group", g>>] = d
    BY <1>0 DEF KeepsOf
  <1>3. KeepsOf(x, tx[x], excl) /\ ShapeOf(tx[x])
    BY OwnFacts DEF KeepInv
  <1>4. CASE tx[x].op \in GroupOp /\ tx[x].pc # "group" /\ tx[x].g = g
    <2>1. excl[<<"group", g>>] = x
      BY <1>4, OwnFacts DEF LockOf
    <2> QED
      BY <1>1, <1>2, <2>1
  <1>5. CASE tx[x].op = "delete_user" /\ tx[x].pc \in {"leave_groups", "commit"} /\ tx[x].r = r
    <2>1. excl[<<"user", r>>] = x
      BY <1>5, OwnFacts DEF UserOf, UserOp
    <2>2. excl[<<"user", r>>] = d
      BY <1>0, OwnFacts DEF UserOf, UserOp
    <2> QED
      BY <1>1, <2>1, <2>2
  <1> QED
    BY <1>0, <1>1, <1>2, <1>3, <1>4, <1>5 DEF KeepsOf, MayHold

\* Along a cycle a user deletion would be waited for by another one, which
\* waits for a group with a smaller id: there is no first.
LEMMA DeleteFacts == IInv /\ KeepInv => DeleteDeadlocksOnlyByJoin
  <1> SUFFICES ASSUME IInv, KeepInv, NEW S \in SUBSET Tx, WaitCycle(S), NEW d \in S, tx[d].op = "delete_user",
                      tx[d].pc # "leave_groups"
               PROVE  FALSE
    <2>1. ASSUME NEW S \in SUBSET Tx, WaitCycle(S), NEW d \in S PROVE \E x \in Tx : x \in Blockers(d)
      BY <2>1 DEF WaitCycle, Stuck
    <2> QED
      BY <2>1, LeaveFacts DEF DeleteDeadlocksOnlyByJoin
  <1> DEFINE Waits(y) == tx[y].op = "delete_user" /\ tx[y].pc = "lock_groups" /\ tx[y].todo # {}
             W == {Min(tx[y].todo) : y \in {z \in S : Waits(z)}}
  <1>1. ASSUME NEW x \in S, tx[x].op = "delete_user", tx[x].pc # "leave_groups"
        PROVE  \E y \in S : Waits(y) /\ \E g \in Group : excl[<<"group", g>>] = x /\ g = Min(tx[y].todo)
    <2>1. PICK y \in S : x \in Blockers(y)
      BY CycleFacts
    <2>2. PICK z \in S : z \in Blockers(x)
      BY DEF WaitCycle, Stuck
    <2>3. tx[x].pc \in {"lock_groups", "lock_user"}
      <3>1. tx[x].pc \in {"find_groups", "lock_groups", "lock_user", "leave_groups", "commit"}
        BY <1>1, OwnFacts DEF ShapeOf
      <3>2. tx[x].pc \notin {"find_groups", "commit"}
        BY <2>2 DEF Blockers
      <3> QED
        BY <1>1, <3>1, <3>2
    <2>4. ~HoldsElse(x)
      BY <1>1, <2>3, OwnFacts DEF LockOf, HoldsElse
    <2>8. ~HoldsMember(x)
      <3>1. KeepsOf(x, tx[x], excl) /\ \A g, r : ~MayHold(tx[x], g, r)
        BY <1>1, <2>3 DEF KeepInv, MayHold, GroupOp, PatchOp
      <3> QED
        BY <3>1 DEF KeepsOf, HoldsMember
    <2>9. WaitsGroup(y, x)
      BY <2>1, <2>4, <2>8, BlockersFacts
    <2>5. PICK g \in Group : /\ excl[<<"group", g>>] = x
                             /\ \/ tx[y].pc \in {"group", "lock_by_name"}
                                \/ tx[y].pc = "lock_groups" /\ tx[y].todo # {} /\ g = Min(tx[y].todo)
      BY <2>9 DEF WaitsGroup
    <2>6. tx[y].pc \notin {"group", "lock_by_name"}
      <3> SUFFICES ASSUME tx[y].pc \in {"group", "lock_by_name"} PROVE FALSE
        OBVIOUS
      <3>1. (\A k \in Resource : excl[k] # y) /\ \A r \in Row : y \notin share[r]
        BY OwnFacts DEF LockOf
      <3>2. PICK v \in S : y \in Blockers(v)
        BY CycleFacts
      <3>3. ~WaitsGroup(v, y)
        BY <3>1, Resources DEF WaitsGroup
      <3>4. ~HoldsElse(y) /\ ~HoldsMember(y)
        BY <3>1, Resources DEF HoldsElse, HoldsMember
      <3> QED
        BY <3>2, <3>3, <3>4, BlockersFacts
    <2>7. tx[y].op = "delete_user"
      BY <2>5, <2>6, OwnFacts DEF ShapeOf, TxType, GroupOp, PatchOp, UserOp
    <2> QED
      BY <2>5, <2>6, <2>7
  <1>2. ASSUME NEW y \in S, Waits(y) PROVE Min(tx[y].todo) \in Nat /\ Min(tx[y].todo) \in tx[y].todo
    <2>1. tx[y].todo \subseteq Group
      BY <1>2, OwnFacts DEF ShapeOf
    <2> QED
      BY <1>2, <2>1, MinFacts
  <1>3. W \in SUBSET Nat /\ W # {}
    BY <1>1, <1>2
  <1>4. PICK w \in W : \A v \in W : w <= v
    <2> HIDE DEF W
    <2> QED
      BY <1>3, Least
  <1>5. PICK x \in S : Waits(x) /\ w = Min(tx[x].todo)
    OBVIOUS
  <1>6. PICK y \in S : Waits(y) /\ \E g \in Group : excl[<<"group", g>>] = x /\ g = Min(tx[y].todo)
    BY <1>1, <1>5
  <1>7. Min(tx[y].todo) \in W /\ Min(tx[y].todo) \in Nat /\ w \in Nat /\ w \in tx[x].todo
    BY <1>2, <1>5, <1>6
  <1>8. Min(tx[y].todo) < w
    BY <1>5, <1>6, <1>7, OwnFacts DEF LockOf
  <1> QED
    BY <1>4, <1>7, <1>8

\* The variables keep their types, a user who is not active holds no role that
\* SCIM manages, and a user deletion waits in a cycle only to leave a group that
\* the user joined meanwhile (ScimInv): for any number of transactions, rows, groups and roles.
THEOREM ProvisioningIsSafe == Spec => []ScimInv
  <1>1. IInv /\ KeepInv => ScimInv
    BY DeleteFacts DEF IInv, Types, ScimInv
  <1> QED
    BY <1>1, KeepInvariance, PTL

\* Only a commit or the memberships API changes the tables.
LEMMA StepTables ==
  ASSUME NEW t \in Tx, TxStep(t)
  PROVE  \/ UNCHANGED tables
         \/ CommitGroup(t) \/ CommitMapping(t) \/ CommitProvision(t) \/ CommitUpdateUser(t) \/ CommitDeleteUser(t)
  <1>1. ASSUME Abort(t) PROVE UNCHANGED tables
    BY <1>1 DEF Abort
  <1>2. ASSUME ClaimName(t) \/ LockScimGroup(t) \/ CheckMembers(t) \/ WriteMapping(t) \/ InsertUser(t) PROVE UNCHANGED tables
    BY <1>1, <1>2 DEF ClaimName, LockScimGroup, CheckMembers, WriteMapping, InsertUser
  <1>3. ASSUME LockScimUser(t) \/ CreateMemberships(t) \/ DeadlockVictim(t) PROVE UNCHANGED tables
    BY <1>1, <1>3 DEF LockScimUser, CreateMemberships, DeadlockVictim
  <1>6. ASSUME ClearMembers(t) \/ LeaveGroups(t) PROVE UNCHANGED tables
    BY <1>6 DEF ClearMembers, LeaveGroups
  <1>4. ASSUME InsertMembers(t) \/ LockUsers(t) \/ Reconcile(t) \/ FindGroupByName(t) \/ LockGroupByName(t)
        PROVE  UNCHANGED tables
    BY <1>4 DEF InsertMembers, LockUsers, Reconcile, FindGroupByName, LockGroupByName
  <1>5. ASSUME ReconcileUser(t) \/ FindGroups(t) \/ LockScimGroupsForUser(t) PROVE UNCHANGED tables
    BY <1>5 DEF ReconcileUser, FindGroups, LockScimGroupsForUser
  <1> QED
    BY <1>2, <1>3, <1>4, <1>5, <1>6 DEF TxStep

\* Reconciliation neither takes nor adopts a role that a human granted
\* (HumanGrantsSurvive): what goes goes by the memberships API or when its
\* user is deactivated or deleted.
THEOREM HumanGrantsSurviveEver == Spec => HumanGrantsSurvive
  <1> DEFINE Kept == \A u \in User, role \in Role :
                 grant[u][role] = Human /\ grant'[u][role] # Human =>
                     \/ "revoke" \in client.ops /\ tx' = tx
                     \/ \E r \in Row : Owner[r] = u /\ status[r] \in Live /\ status'[r] # "active"
  <1>1. ASSUME IInv, NEW t \in Tx, TxStep(t) PROVE Kept
    <2>0. tx[t] \in TxType /\ tx[t].plan \in Plans
      BY <1>1, OwnFacts DEF TxType
    <2>1. CASE grant' = grant
      BY <2>1
    <2>2. ASSUME grant' = ApplyPlan(tx[t].plan) PROVE Kept
      BY <1>1, <2>0, <2>2, ApplyFacts
    <2>3. ASSUME NEW r \in Row, grant' = Strip(r), status[r] \in Live, status'[r] # "active" PROVE Kept
      BY <1>1, <2>3, StripFacts
    <2>4. ASSUME CommitUpdateUser(t), tx[t].was, ~tx[t].active PROVE Kept
      <3>1. /\ tx[t].op \in UserOp /\ tx[t].pc = "commit" /\ status' = [status EXCEPT ![tx[t].r] = "inactive"]
            /\ version' = [version EXCEPT ![tx[t].r] = @ + 1] /\ grant' = Strip(tx[t].r)
        BY <2>4 DEF CommitUpdateUser, UserOp
      <3>2. "inactive" \in Live \cup {"deleted"}
        BY DEF Live
      <3>3. tx[t].r \in Row /\ status[tx[t].r] \in Live /\ status'[tx[t].r] = "inactive"
        BY <1>1, <3>1, <3>2, UserCommitFacts
      <3> QED
        BY <2>3, <3>1, <3>3
    <2>5. ASSUME CommitDeleteUser(t) PROVE Kept
      <3>1. /\ tx[t].op \in UserOp /\ tx[t].pc = "commit" /\ status' = [status EXCEPT ![tx[t].r] = "deleted"]
            /\ version' = [version EXCEPT ![tx[t].r] = @ + 1] /\ grant' = Strip(tx[t].r)
        BY <2>5 DEF CommitDeleteUser, UserOp
      <3>2. tx[t].r \in Row /\ status[tx[t].r] \in Live /\ status'[tx[t].r] = "deleted"
        BY <1>1, <3>1, UserCommitFacts
      <3> QED
        BY <2>3, <3>1, <3>2
    <2>6. ASSUME CommitUpdateUser(t), ~(tx[t].was /\ ~tx[t].active) PROVE Kept
      BY <2>2, <2>6 DEF CommitUpdateUser
    <2>7. ASSUME CommitGroup(t) \/ CommitMapping(t) \/ CommitProvision(t) PROVE Kept
      BY <2>2, <2>7 DEF CommitGroup, CommitMapping, CommitProvision
    <2> HIDE DEF Kept
    <2>8. UNCHANGED tables => grant' = grant
      BY DEF tables
    <2> QED
      BY <1>1, <2>1, <2>4, <2>5, <2>6, <2>7, <2>8, StepTables
  <1>2. ASSUME IInv, NEW t \in Tx, Request(t) PROVE Kept
    <2>1. grant' = grant
      BY <1>2 DEF Request, BeginCreateGroup, BeginPatchGroup, BeginDeleteGroup, BeginMapping, BeginProvision,
                  BeginUpdateUser, BeginDeleteUser, Start, tables
    <2> QED
      BY SMTT(60), <2>1
  <1>3. ASSUME IInv, NEW u \in User, NEW role \in Role, GrantMembership(u, role) PROVE Kept
    <2>1. grant' = [grant EXCEPT ![u][role] = Human]
      BY <1>3 DEF GrantMembership
    <2> QED
      BY <1>3, <2>1, TypeFacts
  <1>4. ASSUME NEW u \in User, NEW role \in Role, RevokeMembership(u, role) PROVE Kept
    BY <1>4 DEF RevokeMembership
  <1>5. IInv /\ [Next]_vars => [Kept]_vars
    <2> HIDE DEF Kept
    <2> QED
      BY <1>1, <1>2, <1>3, <1>4 DEF Next
  <1> QED
    BY <1>5, Invariance, PTL DEF HumanGrantsSurvive, Spec

\* A PATCH that adds or removes members changes only those (NoLostMemberUpdate):
\* the member set it read behind LockScimGroup is still the one it changes.
THEOREM NoLostMemberUpdateEver == Spec => NoLostMemberUpdate
  <1> DEFINE Exact(t) ==
                 tx[t].pc = "commit" /\ tx[t].op \in {"add", "remove"} /\ tx'[t] = Idle =>
                     LET g == tx[t].g IN
                     \A r \in Row : status[r] \in Live /\ (r \in members[g]) # (r \in members'[g]) =>
                         (r \in tx[t].fresh) # (r \in tx[t].old)
  <1>1. ASSUME NEW t \in Tx, members' = members PROVE Exact(t)
    BY <1>1
  <1>2. ASSUME IInv, NEW t \in Tx, NEW s \in Tx, s # t, Finish(s) PROVE Exact(t)
    <2>1. tx'[t] = tx[t]
      BY <1>2, FinishFacts DEF Becomes
    <2> QED
      BY <2>1, Basics
  <1>3. ASSUME IInv, NEW t \in Tx, CommitGroup(t) PROVE Exact(t)
    <2> SUFFICES ASSUME tx[t].pc = "commit", tx[t].op \in {"add", "remove"}, NEW r \in Row, status[r] \in Live
                 PROVE  (r \in members[tx[t].g]) # (r \in members'[tx[t].g]) => (r \in tx[t].fresh) # (r \in tx[t].old)
      BY Zenon
    <2>1. tx[t].g \in Group
      BY <1>3, OwnFacts DEF CommitGroup, ShapeOf, TxType
    <2>2. r \in members[tx[t].g] <=> r \in tx[t].old
      BY <1>3, OwnFacts DEF MembersOf, GroupOp, PatchOp
    <2>3. members' = [members EXCEPT ![tx[t].g] = {k \in tx[t].fresh : status[k] \in Live}]
      BY <1>3 DEF CommitGroup
    <2>4. r \in members'[tx[t].g] <=> r \in tx[t].fresh
      BY <1>3, <2>1, <2>3, TypeFacts
    <2> QED
      BY <2>2, <2>4
  <1>4. ASSUME IInv, NEW t \in Tx, CommitDeleteUser(t) PROVE Exact(t)
    BY <1>4 DEF CommitDeleteUser
  <1>5. ASSUME IInv, NEW s \in Tx, NEW t \in Tx, TxStep(s) PROVE Exact(t)
    <2>1. UNCHANGED tables => members' = members
      BY DEF tables
    <2>2. CommitMapping(s) \/ CommitProvision(s) \/ CommitUpdateUser(s) => members' = members
      BY DEF CommitMapping, CommitProvision, CommitUpdateUser
    <2>3. CommitGroup(s) \/ CommitDeleteUser(s) => Finish(s)
      BY DEF CommitGroup, CommitDeleteUser
    <2> HIDE DEF Exact
    <2> QED
      BY <1>1, <1>2, <1>3, <1>4, <1>5, <2>1, <2>2, <2>3, StepTables
  <1>6. ASSUME NEW s \in Tx, NEW t \in Tx, Request(s) PROVE Exact(t)
    <2>1. members' = members
      BY <1>6 DEF Request, BeginCreateGroup, BeginPatchGroup, BeginDeleteGroup, BeginMapping, BeginProvision,
                  BeginUpdateUser, BeginDeleteUser, Start, tables
    <2> QED
      BY SMTT(60), <1>1, <2>1
  <1>7. ASSUME NEW u \in User, NEW role \in Role, NEW t \in Tx, GrantMembership(u, role) \/ RevokeMembership(u, role)
        PROVE  Exact(t)
    <2>1. members' = members
      BY <1>7 DEF GrantMembership, RevokeMembership
    <2> QED
      BY <1>1, <2>1
  <1>8. IInv /\ [Next]_vars => [\A t \in Tx : Exact(t)]_vars
    <2> HIDE DEF Exact
    <2> QED
      BY <1>5, <1>6, <1>7 DEF Next
  <1> QED
    BY <1>8, Invariance, PTL DEF NoLostMemberUpdate, Spec
-----------------------------------------------------------------------------
(* Reconciliation: with clients that neither create or rename groups nor   *)
(* change memberships by hand, the roles of an active user always are the  *)
(* ones its groups map to.                                                 *)

Calm == client.ops \cap {"create", "rename", "grant", "revoke"} = {}

\* The row of a provisioning request is in the unique index before it commits.
Entered(q) == q.op = "provision" /\ q.pc # "insert"

\* A user has one live row, or one about to be inserted.
LoneOf(txs, st) ==
    /\ \A r, k \in Row : st[r] \in Live /\ st[k] \in Live /\ Owner[r] = Owner[k] => r = k
    /\ \A t \in Tx : Entered(txs[t]) => \A r \in Row : Owner[r] = Owner[txs[t].r] => st[r] \notin Live
    /\ \A s, t \in Tx : Entered(txs[s]) /\ Entered(txs[t]) /\ Owner[txs[s].r] = Owner[txs[t].r] => s = t

\* What a transaction sees, as NamesIn, MembersIn and MappingIn say it.
NamesSeen(q, nm) == IF q.g = None THEN nm ELSE [nm EXCEPT ![q.g] = q.n]
MembersSeen(q, mb) == IF q.g = None THEN mb ELSE [mb EXCEPT ![q.g] = q.fresh]
MappingSeen(q, mp) == IF q.op = "mapping" THEN [mp EXCEPT ![q.n] = q.role] ELSE mp
RolesSeen(r, q, nm, mb, mp) == MappedRoles(r, NamesSeen(q, nm), MembersSeen(q, mb), MappingSeen(q, mp))

\* The roles that a row manages, and the ones it should.
Held(r, gr) == {role \in Role : gr[Owner[r]][role] = r}
OrViewer(mapped) == IF mapped = {} THEN {Viewer} ELSE mapped

\* The name a group request writes, and the groups a mapping request locks.
KnowsOf(t, q, ex, st, nm) ==
    /\ q.op # "create"
    /\ q.op \in PatchOp => q.n = IF q.pc = "group" THEN None ELSE nm[q.g]
    /\ q.op = "delete_group" => q.n = None /\ q.fresh = {}
    /\ q.op = "mapping" /\ q.pc = "lock_by_name" => \A g \in Group : nm[g] = q.n => g \in q.todo
    /\ q.op = "mapping" /\ q.pc \in {"write_mapping", "users", "reconcile", "commit"} =>
          \A g \in Group : nm[g] = q.n => ex[<<"group", g>>] = t
    /\ q.op \in GroupOp /\ q.pc \in {"insert_members", "users", "reconcile", "commit"} =>
          \A r \in q.old \cup q.fresh : st[r] # "none"
    /\ q.pc = "insert_members" => q.todo = q.old \cup q.fresh

\* The rows whose roles a group or mapping request may change.
Touched(q, nm, mb) ==
    IF q.op = "mapping" THEN {r \in Row : \E g \in Group : nm[g] = q.n /\ r \in mb[g]} ELSE q.old \cup q.fresh

\* All of them that are live are locked in the end.
CoverOf(t, q, ex, st, nm, mb) ==
    q.op \in GroupOp \cup {"mapping"} /\ q.pc \in {"users", "reconcile", "commit"} =>
        \A r \in Row : r \in Touched(q, nm, mb) /\ st[r] \in Live =>
            ex[<<"user", r>>] = t \/ (q.pc = "users" /\ r \in q.todo)

\* The rows a plan is for.
Planned(t, q, ex, st, r) ==
    \/ q.op \in GroupOp \cup {"mapping"} /\ q.pc = "commit" /\ ex[<<"user", r>>] = t /\ st[r] = "active"
    \/ /\ q.op \in {"provision", "update_user"} /\ q.pc \in {"create_memberships", "commit"}
       /\ r = q.r /\ q.active /\ (q.op = "update_user" => ~q.was)

\* A plan stays right until it is applied.
PlanFits(t, q, ex, st, nm, mb, mp, gr) ==
    \A r \in Row : Planned(t, q, ex, st, r) =>
        LET target == OrViewer(RolesSeen(r, q, nm, mb, mp))
        IN  q.plan[r].add = target \ Held(r, gr) /\ q.plan[r].drop = Held(r, gr) \ target

CalmOf(t, q, ex, st, nm, mb, mp, gr) ==
    /\ KnowsOf(t, q, ex, st, nm) /\ CoverOf(t, q, ex, st, nm, mb)
    /\ PlanFits(t, q, ex, st, nm, mb, mp, gr)

\* Every membership is managed by a row of its user.
OwnedOf(gr) == \A u \in User, role \in Role : gr[u][role] = None \/ (gr[u][role] \in Row /\ Owner[gr[u][role]] = u)

\* An active row holds what its groups map to.
SettledOf(st, nm, mb, mp, gr) ==
    \A r \in Row : st[r] = "active" => Held(r, gr) = OrViewer(MappedRoles(r, nm, mb, mp))

\* A row that is locked has been inserted.
LockedOf(ex, st) == \A r \in Row : ex[<<"user", r>>] # None => st[r] # "none"

CalmInv ==
    /\ \A t \in Tx : CalmOf(t, tx[t], excl, status, names, members, mapping, grant)
    /\ OwnedOf(grant) /\ LockedOf(excl, status)
    /\ SettledOf(status, names, members, mapping, grant)

CInv == LoneOf(tx, status) /\ (Calm => CalmInv)
-----------------------------------------------------------------------------
\* What CInv says of one transaction of calm clients.
LEMMA OwnCalm ==
  ASSUME CInv, Calm, NEW t \in Tx
  PROVE  /\ KnowsOf(t, tx[t], excl, status, names) /\ CoverOf(t, tx[t], excl, status, names, members)
         /\ PlanFits(t, tx[t], excl, status, names, members, mapping, grant)
  BY DEF CInv, CalmInv, CalmOf

\* What t knows depends on its own locks only.
LEMMA SameLocks ==
  ASSUME NEW t, NEW q, NEW ex, NEW ey, NEW st, NEW nm, NEW mb, NEW mp, NEW gr,
         \A x \in Resource : ey[x] = t <=> ex[x] = t, CalmOf(t, q, ex, st, nm, mb, mp, gr)
  PROVE  CalmOf(t, q, ey, st, nm, mb, mp, gr)
  <1>1. /\ \A g \in Group : ey[<<"group", g>>] = t <=> ex[<<"group", g>>] = t
        /\ \A r \in Row : ey[<<"user", r>>] = t <=> ex[<<"user", r>>] = t
    BY Resources
  <1>2. KnowsOf(t, q, ey, st, nm)
    BY <1>1 DEF CalmOf, KnowsOf
  <1>3. CoverOf(t, q, ey, st, nm, mb)
    BY <1>1 DEF CalmOf, CoverOf
  <1>4. \A r \in Row : Planned(t, q, ey, st, r) <=> Planned(t, q, ex, st, r)
    BY <1>1 DEF Planned
  <1>5. PlanFits(t, q, ey, st, nm, mb, mp, gr)
    BY <1>4 DEF CalmOf, PlanFits
  <1> QED
    BY <1>2, <1>3, <1>5 DEF CalmOf

\* A step of t that leaves the tables alone.
LEMMA LocalCInv ==
  ASSUME IInv, CInv, NEW t \in Tx, NEW new, Becomes(t, new), UNCHANGED <<tables, client>>,
         excl' \in [Resource -> Tx \cup {None}],
         \A s \in Tx \ {t} : \A x \in Resource : excl'[x] = s <=> excl[x] = s,
         \A r \in Row : excl'[<<"user", r>>] = t => excl[<<"user", r>>] = t \/ status[r] \in Live,
         Entered(new) => /\ \A r \in Row : Owner[r] = Owner[new.r] => status[r] \notin Live
                         /\ \A s \in Tx \ {t} : Entered(tx[s]) => Owner[tx[s].r] # Owner[new.r],
         Calm => CalmOf(t, new, excl', status, names, members, mapping, grant)
  PROVE  CInv'
  <1>1. tx'[t] = new /\ \A s \in Tx \ {t} : tx'[s] = tx[s]
    BY TypeFacts DEF Becomes
  <1>2. /\ status' = status /\ names' = names /\ members' = members /\ mapping' = mapping /\ grant' = grant
        /\ client' = client
    BY DEF tables
  <1>3. LoneOf(tx', status')
    <2>1. LoneOf(tx, status)
      BY DEF CInv
    <2>2. \A s \in Tx : Entered(tx'[s]) => \A r \in Row : Owner[r] = Owner[tx'[s].r] => status[r] \notin Live
      BY <1>1, <2>1 DEF LoneOf
    <2>3. \A s, u \in Tx : Entered(tx'[s]) /\ Entered(tx'[u]) /\ Owner[tx'[s].r] = Owner[tx'[u].r] => s = u
      <3> SUFFICES ASSUME NEW s \in Tx, NEW u \in Tx, Entered(tx'[s]), Entered(tx'[u]), Owner[tx'[s].r] = Owner[tx'[u].r],
                          s # u
                   PROVE  FALSE
        OBVIOUS
      <3>1. CASE s = t
        BY <1>1, <3>1
      <3>2. CASE u = t
        BY <1>1, <3>2
      <3>3. CASE s # t /\ u # t
        BY <1>1, <2>1, <3>3 DEF LoneOf
      <3> QED
        BY <3>1, <3>2, <3>3
    <2> QED
      BY <1>2, <2>1, <2>2, <2>3 DEF LoneOf
  <1>4. Calm' <=> Calm
    BY <1>2 DEF Calm
  <1>5. ASSUME Calm PROVE CalmInv'
    <2>0. CalmInv
      BY <1>5 DEF CInv
    <2>1. ASSUME NEW s \in Tx PROVE CalmOf(s, tx'[s], excl', status, names, members, mapping, grant)
      <3>1. CASE s = t
        BY <1>1, <1>5, <3>1
      <3>2. CASE s # t
        <4>1. CalmOf(s, tx[s], excl, status, names, members, mapping, grant)
          BY <2>0 DEF CalmInv
        <4>2. \A x \in Resource : excl'[x] = s <=> excl[x] = s
          BY <3>2
        <4>3. CalmOf(s, tx[s], excl', status, names, members, mapping, grant)
          BY <4>1, <4>2, SameLocks
        <4> QED
          BY <1>1, <3>2, <4>3
      <3> QED
        BY <3>1, <3>2
    <2>2. LockedOf(excl', status)
      <3> SUFFICES ASSUME NEW r \in Row, excl'[<<"user", r>>] # None PROVE status[r] # "none"
        BY DEF LockedOf
      <3>1. excl'[<<"user", r>>] \in Tx /\ <<"user", r>> \in Resource
        BY Resources
      <3>2. excl[<<"user", r>>] = excl'[<<"user", r>>] \/ status[r] \in Live
        BY <3>1
      <3> QED
        BY <2>0, <3>2 DEF CalmInv, LockedOf, Live
    <2>3. OwnedOf(grant) /\ SettledOf(status, names, members, mapping, grant)
      BY <2>0 DEF CalmInv
    <2> QED
      BY <1>2, <2>1, <2>2, <2>3 DEF CalmInv
  <1> QED
    BY <1>3, <1>4, <1>5 DEF CInv

\* A transaction that has ended knows nothing.
LEMMA IdleCalm ==
  ASSUME NEW t, NEW ex, NEW st, NEW nm, NEW mb, NEW mp, NEW gr
  PROVE  CalmOf(t, Idle, ex, st, nm, mb, mp, gr) /\ ~Entered(Idle)
  BY Basics DEF CalmOf, KnowsOf, CoverOf, PlanFits, Planned, PatchOp, GroupOp, Entered

\* A transaction is rolled back.
LEMMA AbortCInv ==
  ASSUME IInv, CInv, NEW t \in Tx, Abort(t)
  PROVE  CInv'
  <1>1. Finish(t) /\ UNCHANGED <<tables, client>>
    BY DEF Abort
  <1>2. \A r \in Row : excl'[<<"user", r>>] # t
    BY <1>1, FinishFacts, Resources
  <1>3. CalmOf(t, Idle, excl', status, names, members, mapping, grant) /\ ~Entered(Idle)
    BY IdleCalm
  <1> QED
    BY <1>1, <1>2, <1>3, FinishFacts, LocalCInv

\* Before a request has found its rows there is nothing to cover and no plan.
LEMMA EarlyCalm ==
  ASSUME NEW t, NEW q, NEW ex, NEW st, NEW nm, NEW mb, NEW mp, NEW gr, KnowsOf(t, q, ex, st, nm),
         q.pc \notin {"users", "reconcile", "commit", "create_memberships"}
  PROVE  CalmOf(t, q, ex, st, nm, mb, mp, gr)
  BY DEF CalmOf, CoverOf, PlanFits, Planned

\* A request arrives at an idle transaction.
LEMMA StartCInv ==
  ASSUME IInv, CInv, NEW t \in Tx, NEW op, NEW rec, Start(t, op, rec), ~Entered(rec),
         rec.pc \notin {"users", "reconcile", "commit", "create_memberships"},
         Calm => KnowsOf(t, rec, excl, status, names)
  PROVE  CInv'
  <1>1. Becomes(t, rec) /\ UNCHANGED <<tables, client>> /\ excl' = excl
    BY TypeFacts DEF Start, Becomes, lockVars
  <1>2. Calm => CalmOf(t, rec, excl', status, names, members, mapping, grant)
    BY <1>1, EarlyCalm
  <1> QED
    BY <1>1, <1>2, TypeFacts, LocalCInv

\* Every request may arrive.
LEMMA RequestCInv ==
  ASSUME IInv, CInv, NEW t \in Tx, Request(t)
  PROVE  CInv'
  <1> USE DEF PatchOp, GroupOp, UserOp
  <1>1. ASSUME NEW g \in client.groups, NEW n \in client.names, NEW ms \in SUBSET Row, BeginCreateGroup(t, g, n, ms)
        PROVE  CInv'
    <2> DEFINE rec == [Idle EXCEPT !.op = "create", !.pc = "name", !.g = g, !.n = n, !.fresh = ms]
    <2>1. rec.op = "create" /\ rec.pc = "name"
      BY DEF Idle
    <2>2. Start(t, "create", rec)
      BY <1>1 DEF BeginCreateGroup
    <2> HIDE DEF rec
    <2>3. ~Calm
      BY <2>2 DEF Start, Calm
    <2> QED
      BY <2>1, <2>2, <2>3, StartCInv DEF Entered
  <1>2. ASSUME NEW g \in client.groups, NEW n \in client.names \cup {None}, NEW kind \in {"add", "remove", "replace"},
               NEW ms \in SUBSET Row, BeginPatchGroup(t, g, n, kind, ms)
        PROVE  CInv'
    <2> DEFINE rec == [Idle EXCEPT !.op = kind, !.pc = "group", !.g = g, !.n = n, !.fresh = ms]
    <2>1. rec.op = kind /\ rec.pc = "group" /\ rec.n = n
      BY DEF Idle
    <2>2. Start(t, "patch", rec) /\ (n # None => "rename" \in client.ops)
      BY <1>2 DEF BeginPatchGroup
    <2> HIDE DEF rec
    <2>3. Calm => KnowsOf(t, rec, excl, status, names)
      BY <2>1, <2>2 DEF KnowsOf, Calm
    <2> QED
      BY <2>1, <2>2, <2>3, StartCInv DEF Entered
  <1>3. ASSUME NEW g \in client.groups, BeginDeleteGroup(t, g)
        PROVE  CInv'
    <2> DEFINE rec == [Idle EXCEPT !.op = "delete_group", !.pc = "group", !.g = g]
    <2>1. rec.op = "delete_group" /\ rec.pc = "group" /\ rec.n = None /\ rec.fresh = {}
      BY DEF Idle
    <2>2. Start(t, "delete_group", rec)
      BY <1>3 DEF BeginDeleteGroup
    <2> HIDE DEF rec
    <2>3. KnowsOf(t, rec, excl, status, names)
      BY <2>1 DEF KnowsOf
    <2> QED
      BY <2>1, <2>2, <2>3, StartCInv DEF Entered
  <1>4. ASSUME NEW n \in client.names, NEW role \in Role \cup {None}, BeginMapping(t, n, role)
        PROVE  CInv'
    <2> DEFINE rec == [Idle EXCEPT !.op = "mapping", !.pc = "by_name", !.n = n, !.role = role]
    <2>1. rec.op = "mapping" /\ rec.pc = "by_name"
      BY DEF Idle
    <2>2. Start(t, "mapping", rec)
      BY <1>4 DEF BeginMapping
    <2> HIDE DEF rec
    <2>3. KnowsOf(t, rec, excl, status, names)
      BY <2>1 DEF KnowsOf
    <2> QED
      BY <2>1, <2>2, <2>3, StartCInv DEF Entered
  <1>5. ASSUME NEW r \in Row, NEW active \in BOOLEAN, BeginProvision(t, r, active)
        PROVE  CInv'
    <2> DEFINE rec == [Idle EXCEPT !.op = "provision", !.pc = "insert", !.r = r, !.active = active]
    <2>1. rec.op = "provision" /\ rec.pc = "insert"
      BY DEF Idle
    <2>2. Start(t, "provision", rec)
      BY <1>5 DEF BeginProvision
    <2> HIDE DEF rec
    <2>3. KnowsOf(t, rec, excl, status, names)
      BY <2>1 DEF KnowsOf
    <2> QED
      BY <2>1, <2>2, <2>3, StartCInv DEF Entered
  <1>6. ASSUME NEW r \in Row, NEW active \in BOOLEAN, BeginUpdateUser(t, r, active)
        PROVE  CInv'
    <2> DEFINE was == status[r] = "active"
               rec == [Idle EXCEPT !.op = "update_user", !.pc = "lock_user", !.r = r, !.active = active,
                                   !.seen = version[r], !.was = was]
    <2>2. Start(t, "update_user", rec)
      BY <1>6 DEF BeginUpdateUser
    <2> HIDE DEF was
    <2>1. rec.op = "update_user" /\ rec.pc = "lock_user"
      BY DEF Idle
    <2> HIDE DEF rec
    <2>3. KnowsOf(t, rec, excl, status, names)
      BY <2>1 DEF KnowsOf
    <2> QED
      BY <2>1, <2>2, <2>3, StartCInv DEF Entered
  <1>7. ASSUME NEW r \in Row, BeginDeleteUser(t, r)
        PROVE  CInv'
    <2> DEFINE rec == [Idle EXCEPT !.op = "delete_user", !.pc = "find_groups", !.r = r, !.seen = version[r]]
    <2>1. rec.op = "delete_user" /\ rec.pc = "find_groups"
      BY DEF Idle
    <2>2. Start(t, "delete_user", rec)
      BY <1>7 DEF BeginDeleteUser
    <2> HIDE DEF rec
    <2>3. KnowsOf(t, rec, excl, status, names)
      BY <2>1 DEF KnowsOf
    <2> QED
      BY <2>1, <2>2, <2>3, StartCInv DEF Entered
  <1>8. (\E g \in client.groups, n \in client.names, ms \in SUBSET Row : BeginCreateGroup(t, g, n, ms)) => CInv'
    BY <1>1
  <1>9. (\E g \in client.groups, n \in client.names \cup {None}, kind \in {"add", "remove", "replace"}, ms \in SUBSET Row :
            BeginPatchGroup(t, g, n, kind, ms)) => CInv'
    BY <1>2
  <1>10. (\E r \in Row, active \in BOOLEAN : BeginProvision(t, r, active) \/ BeginUpdateUser(t, r, active)) => CInv'
    BY <1>5, <1>6
  <1> QED
    BY <1>3, <1>4, <1>7, <1>8, <1>9, <1>10 DEF Request

\* A request that is no provisioning goes on, before it commits.
LEMMA OwnCInv ==
  ASSUME IInv, CInv, NEW t \in Tx, NEW new, Becomes(t, new), UNCHANGED <<tables, client>>,
         excl' \in [Resource -> Tx \cup {None}],
         \A s \in Tx \ {t} : \A x \in Resource : excl'[x] = s <=> excl[x] = s,
         \A r \in Row : excl'[<<"user", r>>] = t => excl[<<"user", r>>] = t \/ status[r] \in Live,
         new.op = tx[t].op, new.op # "provision",
         Calm => /\ KnowsOf(t, new, excl', status, names) /\ CoverOf(t, new, excl', status, names, members)
                 /\ PlanFits(t, new, excl', status, names, members, mapping, grant)
  PROVE  CInv'
  <1>1. ~Entered(new)
    BY DEF Entered
  <1>2. Calm => CalmOf(t, new, excl', status, names, members, mapping, grant)
    BY DEF CalmOf
  <1> QED
    BY <1>1, <1>2, LocalCInv

\* No plan is made yet.
LEMMA NoPlanFits ==
  ASSUME NEW t, NEW q, NEW ex, NEW st, NEW nm, NEW mb, NEW mp, NEW gr, q.pc \notin {"commit", "create_memberships"}
  PROVE  PlanFits(t, q, ex, st, nm, mb, mp, gr)
  BY DEF PlanFits, Planned

\* Locks are taken that are no locks of users.
LEMMA TakeNoUser ==
  ASSUME IInv, NEW t \in Tx, NEW X, TakeExcl(t, X), \A r \in Row : <<"user", r>> \notin X
  PROVE  /\ excl' \in [Resource -> Tx \cup {None}]
         /\ \A s \in Tx \ {t} : \A x \in Resource : excl'[x] = s <=> excl[x] = s
         /\ \A r \in Row : excl'[<<"user", r>>] = excl[<<"user", r>>]
  BY TakeFacts, Resources

\* The name of a group is claimed.
LEMMA ClaimNameCInv ==
  ASSUME IInv, CInv, NEW t \in Tx, ClaimName(t)
  PROVE  CInv'
  <1> DEFINE q == tx[t]
             X == {<<"name", q.n>>}
             pc == IF q.op = "create" THEN "check_members" ELSE "clear_members"
             new == [q EXCEPT !.pc = pc]
  <1>1. CASE Abort(t)
    BY <1>1, AbortCInv
  <1>2. CASE ~Abort(t)
    <2>1. q.pc = "name" /\ TakeExcl(t, X) /\ Step(t, pc) /\ UNCHANGED <<tables, share, started, client>>
      BY <1>2 DEF ClaimName
    <2>11. pc \in {"check_members", "clear_members"}
      OBVIOUS
    <2> HIDE DEF pc
    <2>2. q \in TxType
      BY OwnFacts
    <2>3. new.pc = pc /\ new.op = q.op /\ new.g = q.g /\ new.n = q.n
      BY <2>2 DEF TxType
    <2>4. Becomes(t, new)
      BY <2>1, StepFacts
    <2> HIDE DEF new
    <2>5. q.op \in PatchOp \cup {"create"}
      BY <2>1, OwnFacts DEF ShapeOf, TxType, GroupOp, UserOp, PatchOp
    <2>6. /\ excl' \in [Resource -> Tx \cup {None}]
          /\ \A s \in Tx \ {t} : \A x \in Resource : excl'[x] = s <=> excl[x] = s
          /\ \A r \in Row : excl'[<<"user", r>>] = excl[<<"user", r>>]
      <3>1. \A r \in Row : <<"user", r>> \notin X
        OBVIOUS
      <3> HIDE DEF X
      <3> QED
        BY <2>1, <3>1, TakeNoUser
    <2>7. Calm => KnowsOf(t, new, excl', status, names)
      BY <2>11, <2>1, <2>3, <2>5, OwnCalm DEF KnowsOf, PatchOp, GroupOp
    <2>8. CoverOf(t, new, excl', status, names, members)
      BY <2>11, <2>3 DEF CoverOf
    <2>9. PlanFits(t, new, excl', status, names, members, mapping, grant)
      BY <2>11, <2>3, NoPlanFits
    <2>10. new.op # "provision"
      BY <2>3, <2>5 DEF PatchOp
    <2> QED
      BY <2>1, <2>3, <2>4, <2>6, <2>7, <2>8, <2>9, <2>10, OwnCInv
  <1> QED
    BY <1>1, <1>2

\* The group is locked and its members are read.
LEMMA LockScimGroupCInv ==
  ASSUME IInv, CInv, NEW t \in Tx, LockScimGroup(t)
  PROVE  CInv'
  <1> DEFINE q == tx[t]
             X == {<<"group", q.g>>}
             old == {r \in members[q.g] : status[r] \in Live}
             fresh == CASE q.op = "add" -> old \cup q.fresh
                        [] q.op = "remove" -> old \ q.fresh
                        [] OTHER -> q.fresh
             n == IF q.n = None /\ q.op # "delete_group" THEN names[q.g] ELSE q.n
             pc == IF q.op = "delete_group" THEN "clear_members" ELSE "name"
             todo == members[q.g]
             new == [q EXCEPT !.old = old, !.fresh = fresh, !.todo = todo, !.n = n, !.pc = pc]
  <1>1. CASE Abort(t)
    BY <1>1, AbortCInv
  <1>2. CASE ~Abort(t)
    <2>1. q.pc = "group" /\ names[q.g] # None /\ TakeExcl(t, X) /\ UNCHANGED <<tables, share, started, client>>
      BY <1>2 DEF LockScimGroup
    <2>2. Becomes(t, new)
      <3>1. tx' = [tx EXCEPT ![t].old = old, ![t].fresh = fresh, ![t].todo = members[q.g],
                             ![t].n = IF @ = None /\ tx[t].op # "delete_group" THEN names[q.g] ELSE @,
                             ![t].pc = IF tx[t].op = "delete_group" THEN "clear_members" ELSE "name"]
        BY <1>2 DEF LockScimGroup
      <3> HIDE DEF old, fresh
      <3> QED
        BY <3>1, TypeFacts DEF Becomes
    <2>3. q.op \in GroupOp /\ q.g \in Group /\ q \in TxType
      BY <2>1, OwnFacts DEF ShapeOf, TxType, GroupOp, UserOp, PatchOp
    <2>4. \A r \in old : status[r] # "none"
      BY DEF Live
    <2>5. q.op = "delete_group" => fresh = q.fresh
      OBVIOUS
    <2>6. Calm /\ q.op \in PatchOp => n = names[q.g] /\ pc = "name"
      BY <2>1, OwnCalm DEF KnowsOf, PatchOp
    <2>7. Calm /\ q.op = "delete_group" => n = None /\ q.fresh = {}
      BY OwnCalm DEF KnowsOf
    <2>8. pc = IF q.op = "delete_group" THEN "clear_members" ELSE "name"
      OBVIOUS
    <2> HIDE DEF old, fresh, n, pc, todo
    <2>10. /\ new.pc = pc /\ new.op = q.op /\ new.g = q.g /\ new.old = old /\ new.fresh = fresh /\ new.todo = todo
           /\ new.n = n
      BY <2>3 DEF TxType
    <2> HIDE DEF new
    <2>11. /\ excl' \in [Resource -> Tx \cup {None}]
           /\ \A s \in Tx \ {t} : \A x \in Resource : excl'[x] = s <=> excl[x] = s
           /\ \A r \in Row : excl'[<<"user", r>>] = excl[<<"user", r>>]
      <3>1. \A r \in Row : <<"user", r>> \notin X
        OBVIOUS
      <3> HIDE DEF X
      <3> QED
        BY <2>1, <3>1, TakeNoUser
    <2>12. Calm => KnowsOf(t, new, excl', status, names)
      BY <2>3, <2>4, <2>5, <2>6, <2>7, <2>8, <2>10 DEF KnowsOf, GroupOp, PatchOp
    <2>13. CoverOf(t, new, excl', status, names, members)
      BY <2>3, <2>8, <2>10 DEF CoverOf, Touched, GroupOp, PatchOp
    <2>14. PlanFits(t, new, excl', status, names, members, mapping, grant)
      BY <2>8, <2>10, NoPlanFits
    <2>15. new.op # "provision"
      BY <2>3, <2>10 DEF GroupOp, PatchOp
    <2> QED
      BY SMTT(60), <2>1, <2>2, <2>10, <2>11, <2>12, <2>13, <2>14, <2>15, OwnCInv
  <1> QED
    BY <1>1, <1>2

\* A step that takes no lock.
LEMMA GoOnCInv ==
  ASSUME IInv, CInv, NEW t \in Tx, NEW new, Becomes(t, new), UNCHANGED <<tables, client>>, excl' = excl,
         new.op = tx[t].op, new.op # "provision",
         Calm => /\ KnowsOf(t, new, excl, status, names) /\ CoverOf(t, new, excl, status, names, members)
                 /\ PlanFits(t, new, excl, status, names, members, mapping, grant)
  PROVE  CInv'
  BY TypeFacts, OwnCInv

\* The member rows are locked; then the rows of a deleted group are known.
LEMMA ClearMembersCInv ==
  ASSUME IInv, CInv, NEW t \in Tx, ClearMembers(t)
  PROVE  CInv'
  <1> DEFINE q == tx[t]
  <1>0. q.pc = "clear_members" /\ UNCHANGED <<tables, started, client>>
    BY DEF ClearMembers
  <1>1. q \in TxType /\ q.op \in GroupOp /\ q.op # "provision"
    BY <1>0, OwnFacts DEF ShapeOf, TxType, GroupOp, UserOp, PatchOp
  <1>2. CASE q.todo = {}
    <2> DEFINE pc == IF q.op = "delete_group" THEN "users" ELSE "check_members"
               new == [q EXCEPT !.pc = pc, !.todo = q.old]
    <2>1. tx' = [tx EXCEPT ![t].pc = pc, ![t].todo = tx[t].old] /\ excl' = excl
      BY <1>2 DEF ClearMembers, lockVars
    <2>2. pc = IF q.op = "delete_group" THEN "users" ELSE "check_members"
      OBVIOUS
    <2> HIDE DEF pc
    <2>3. Becomes(t, new)
      BY <2>1, TypeFacts DEF Becomes
    <2>4. /\ new.pc = pc /\ new.op = q.op /\ new.g = q.g /\ new.n = q.n
          /\ new.old = q.old /\ new.fresh = q.fresh /\ new.todo = q.old
      BY <1>1 DEF TxType
    <2> HIDE DEF new
    <2>5. \A r \in q.old : r \in Row /\ status[r] # "none"
      BY <1>0, <1>1, OwnFacts DEF MembersOf, TxType
    <2>6. Calm => KnowsOf(t, new, excl, status, names)
      BY <1>0, <1>1, <2>2, <2>4, <2>5, OwnCalm DEF KnowsOf, PatchOp, GroupOp
    <2>7. Calm => CoverOf(t, new, excl, status, names, members)
      <3>1. Calm /\ q.op = "delete_group" => q.fresh = {}
        BY OwnCalm DEF KnowsOf
      <3> QED
        BY <1>1, <2>2, <2>4, <3>1 DEF CoverOf, Touched, GroupOp, PatchOp
    <2>8. PlanFits(t, new, excl, status, names, members, mapping, grant)
      BY <2>2, <2>4, NoPlanFits
    <2> QED
      BY <1>0, <1>1, <2>1, <2>3, <2>4, <2>6, <2>7, <2>8, GoOnCInv
  <1>3. CASE q.todo # {}
    <2> DEFINE r == Min(q.todo)
               X == IF r \in members[q.g] THEN {<<"member", <<q.g, r>>>>} ELSE {}
               todo == q.todo \ {r}
               new == [q EXCEPT !.todo = todo]
    <2>1. tx' = [tx EXCEPT ![t].todo = @ \ {r}] /\ TakeExcl(t, X)
      <3>1. excl' = excl => TakeExcl(t, {})
        BY TypeFacts DEF TakeExcl
      <3> QED
        BY <1>3, <3>1 DEF ClearMembers, lockVars
    <2> HIDE DEF r
    <2>2. Becomes(t, new)
      BY <2>1, TypeFacts DEF Becomes
    <2> HIDE DEF todo
    <2>3. new.pc = "clear_members" /\ new.op = q.op /\ new.g = q.g /\ new.n = q.n /\ new.fresh = q.fresh
      BY <1>0, <1>1 DEF TxType
    <2> HIDE DEF new
    <2>4. \A k \in Row : <<"user", k>> \notin X
      OBVIOUS
    <2> HIDE DEF X
    <2>5. /\ excl' \in [Resource -> Tx \cup {None}]
          /\ \A s \in Tx \ {t} : \A x \in Resource : excl'[x] = s <=> excl[x] = s
          /\ \A k \in Row : excl'[<<"user", k>>] = excl[<<"user", k>>]
      BY <2>1, <2>4, TakeNoUser
    <2>6. Calm => KnowsOf(t, new, excl', status, names)
      BY <1>0, <1>1, <2>3, OwnCalm DEF KnowsOf, PatchOp, GroupOp
    <2>7. CoverOf(t, new, excl', status, names, members)
      BY <2>3 DEF CoverOf
    <2>8. PlanFits(t, new, excl', status, names, members, mapping, grant)
      BY <2>3, NoPlanFits
    <2> QED
      BY <1>0, <1>1, <2>2, <2>3, <2>5, <2>6, <2>7, <2>8, OwnCInv
  <1> QED
    BY <1>2, <1>3

\* The new members are live.
LEMMA CheckMembersCInv ==
  ASSUME IInv, CInv, NEW t \in Tx, CheckMembers(t)
  PROVE  CInv'
  <1> DEFINE q == tx[t]
             todo == q.old \cup q.fresh
             new == [q EXCEPT !.pc = "insert_members", !.todo = todo]
  <1>1. CASE Abort(t)
    BY <1>1, AbortCInv
  <1>2. CASE ~Abort(t)
    <2>1. /\ q.pc = "check_members" /\ UNCHANGED <<tables, lockVars, started, client>>
          /\ tx' = [tx EXCEPT ![t].pc = "insert_members", ![t].todo = todo]
          /\ \A r \in q.fresh : status[r] \in Live
      BY <1>2 DEF CheckMembers
    <2>2. todo = q.old \cup q.fresh
      OBVIOUS
    <2> HIDE DEF todo
    <2>3. Becomes(t, new) /\ excl' = excl
      BY <2>1, TypeFacts DEF Becomes, lockVars
    <2>4. q \in TxType
      BY OwnFacts
    <2>5. /\ new.pc = "insert_members" /\ new.op = q.op /\ new.g = q.g /\ new.n = q.n
          /\ new.old = q.old /\ new.fresh = q.fresh /\ new.todo = todo
      BY <2>4 DEF TxType
    <2> HIDE DEF new
    <2>6. q.op \in PatchOp \cup {"create"} /\ q.old \subseteq Row
      BY <2>1, <2>4, OwnFacts DEF ShapeOf, TxType, GroupOp, UserOp, PatchOp
    <2>7. q.op \in PatchOp => \A r \in q.old \cup q.fresh : status[r] # "none"
      BY <2>1, <2>6, OwnFacts DEF MembersOf, GroupOp, Live
    <2>8. Calm => KnowsOf(t, new, excl, status, names)
      BY <2>1, <2>2, <2>5, <2>6, <2>7, OwnCalm DEF KnowsOf, PatchOp, GroupOp
    <2>9. CoverOf(t, new, excl, status, names, members)
      BY <2>5 DEF CoverOf
    <2>10. PlanFits(t, new, excl, status, names, members, mapping, grant)
      BY <2>5, NoPlanFits
    <2>11. new.op # "provision"
      BY <2>5, <2>6 DEF PatchOp
    <2> QED
      BY <2>1, <2>3, <2>5, <2>8, <2>9, <2>10, <2>11, GoOnCInv
  <1> QED
    BY <1>1, <1>2

\* The foreign keys of the new members are locked.
LEMMA InsertMembersCInv ==
  ASSUME IInv, CInv, NEW t \in Tx, InsertMembers(t)
  PROVE  CInv'
  <1> DEFINE q == tx[t]
             new == [q EXCEPT !.pc = "users"]
  <1>1. q.pc = "insert_members" /\ excl' = excl /\ UNCHANGED <<tables, started, client>>
    BY DEF InsertMembers
  <1>2. Becomes(t, new)
    BY StepFacts DEF InsertMembers
  <1>3. q \in TxType
    BY OwnFacts
  <1>4. /\ new.pc = "users" /\ new.op = q.op /\ new.g = q.g /\ new.n = q.n
        /\ new.old = q.old /\ new.fresh = q.fresh /\ new.todo = q.todo
    BY <1>3 DEF TxType
  <1> HIDE DEF new
  <1>5. q.op \in PatchOp \cup {"create"}
    BY <1>1, <1>3, OwnFacts DEF ShapeOf, TxType, GroupOp, UserOp, PatchOp
  <1>6. Calm => KnowsOf(t, new, excl, status, names)
    BY <1>1, <1>4, <1>5, OwnCalm DEF KnowsOf, PatchOp, GroupOp
  <1>7. Calm => CoverOf(t, new, excl, status, names, members)
    BY <1>1, <1>4, <1>5, OwnCalm DEF KnowsOf, CoverOf, Touched, PatchOp, GroupOp
  <1>8. PlanFits(t, new, excl, status, names, members, mapping, grant)
    BY <1>4, NoPlanFits
  <1>9. new.op # "provision"
    BY <1>4, <1>5 DEF PatchOp
  <1> QED
    BY <1>1, <1>2, <1>4, <1>6, <1>7, <1>8, <1>9, GoOnCInv

\* The user rows are locked, one by one.
LEMMA LockUsersCInv ==
  ASSUME IInv, CInv, NEW t \in Tx, LockUsers(t)
  PROVE  CInv'
  <1> DEFINE q == tx[t]
  <1>0. q.pc = "users" /\ UNCHANGED <<tables, started, client>>
    BY DEF LockUsers
  <1>1. q \in TxType /\ q.op \in GroupOp \cup {"create", "mapping"} /\ q.todo \subseteq Row
    BY <1>0, OwnFacts DEF ShapeOf, TxType, GroupOp, UserOp, PatchOp
  <1>2. q.op # "provision"
    BY <1>1 DEF GroupOp, PatchOp
  <1>3. CASE q.todo = {}
    <2> DEFINE new == [q EXCEPT !.pc = "reconcile"]
    <2>1. Step(t, "reconcile") /\ excl' = excl
      BY <1>3 DEF LockUsers, lockVars
    <2>2. Becomes(t, new)
      BY <2>1, StepFacts
    <2>3. /\ new.pc = "reconcile" /\ new.op = q.op /\ new.g = q.g /\ new.n = q.n
          /\ new.old = q.old /\ new.fresh = q.fresh /\ new.todo = q.todo
      BY <1>1 DEF TxType
    <2> HIDE DEF new
    <2>4. Calm => KnowsOf(t, new, excl, status, names)
      BY <1>0, <2>3, OwnCalm DEF KnowsOf, PatchOp, GroupOp
    <2>5. Calm => CoverOf(t, new, excl, status, names, members)
      <3>1. Touched(new, names, members) = Touched(q, names, members)
        BY <2>3 DEF Touched
      <3> QED
        BY <1>0, <1>3, <2>3, <3>1, OwnCalm DEF CoverOf
    <2>6. PlanFits(t, new, excl, status, names, members, mapping, grant)
      BY <2>3, NoPlanFits
    <2> QED
      BY <1>0, <1>2, <2>1, <2>2, <2>3, <2>4, <2>5, <2>6, GoOnCInv
  <1>4. CASE q.todo # {}
    <2> DEFINE r == Min(q.todo)
               X == {<<"user", r>>}
               todo == q.todo \ {r}
               new == [q EXCEPT !.todo = todo]
    <2>1. tx' = [tx EXCEPT ![t].todo = @ \ {r}]
      BY <1>4 DEF LockUsers
    <2>2. IF status[r] \in Live THEN TakeExcl(t, X) ELSE UNCHANGED lockVars
      BY <1>4 DEF LockUsers
    <2>3. r \in Row
      BY <1>1, <1>4, MinFacts
    <2> HIDE DEF r
    <2>4. Becomes(t, new)
      BY <2>1, TypeFacts DEF Becomes
    <2>5. \A k \in todo \cup {r} : k \in q.todo \/ k = r
      OBVIOUS
    <2>6. \A k \in q.todo : k \in todo \/ k = r
      OBVIOUS
    <2> HIDE DEF todo
    <2>7. /\ new.pc = "users" /\ new.op = q.op /\ new.g = q.g /\ new.n = q.n
          /\ new.old = q.old /\ new.fresh = q.fresh /\ new.todo = todo
      BY <1>0, <1>1 DEF TxType
    <2> HIDE DEF new
    <2>8. /\ excl' \in [Resource -> Tx \cup {None}]
          /\ \A s \in Tx \ {t} : \A x \in Resource : excl'[x] = s <=> excl[x] = s
          /\ \A x \in Resource : excl'[x] = IF x \in X /\ status[r] \in Live THEN t ELSE excl[x]
      <3>1. CASE status[r] \in Live
        <4>1. TakeExcl(t, X)
          BY <2>2, <3>1
        <4> HIDE DEF X
        <4> QED
          BY <3>1, <4>1, TakeFacts
      <3>2. CASE status[r] \notin Live
        BY <2>2, <3>2, TypeFacts DEF lockVars
      <3> QED
        BY <3>1, <3>2
    <2>9. /\ \A g \in Group : excl'[<<"group", g>>] = excl[<<"group", g>>]
          /\ \A k \in Row : excl[<<"user", k>>] = t => excl'[<<"user", k>>] = t
          /\ \A k \in Row : excl'[<<"user", k>>] = t => excl[<<"user", k>>] = t \/ status[k] \in Live
          /\ status[r] \in Live => excl'[<<"user", r>>] = t
      <3>1. \A g \in Group : excl'[<<"group", g>>] = excl[<<"group", g>>]
        BY <2>8, Resources
      <3>2. \A k \in Row : excl'[<<"user", k>>] = IF k = r /\ status[r] \in Live THEN t ELSE excl[<<"user", k>>]
        BY <2>8, Resources
      <3> QED
        BY <2>3, <3>1, <3>2
    <2>10. Calm => KnowsOf(t, new, excl', status, names)
      BY <1>0, <2>7, <2>9, OwnCalm DEF KnowsOf, PatchOp, GroupOp
    <2>11. Calm => CoverOf(t, new, excl', status, names, members)
      <3>1. Touched(new, names, members) = Touched(q, names, members)
        BY <2>7 DEF Touched
      <3> QED
        BY <1>0, <2>6, <2>7, <2>9, <3>1, OwnCalm DEF CoverOf
    <2>12. PlanFits(t, new, excl', status, names, members, mapping, grant)
      BY <2>7, NoPlanFits
    <2> QED
      BY <1>0, <1>2, <2>4, <2>7, <2>8, <2>9, <2>10, <2>11, <2>12, OwnCInv
  <1> QED
    BY <1>3, <1>4

\* The mapping request finds the groups of its name ...
LEMMA FindGroupByNameCInv ==
  ASSUME IInv, CInv, NEW t \in Tx, FindGroupByName(t)
  PROVE  CInv'
  <1> DEFINE q == tx[t]
             todo == {g \in Group : names[g] = q.n}
             new == [q EXCEPT !.pc = "lock_by_name", !.todo = todo]
  <1>1. /\ q.pc = "by_name" /\ UNCHANGED <<tables, started, client>> /\ excl' = excl
        /\ tx' = [tx EXCEPT ![t].pc = "lock_by_name", ![t].todo = todo]
    BY DEF FindGroupByName, lockVars
  <1>2. \A g \in Group : names[g] = q.n => g \in todo
    OBVIOUS
  <1> HIDE DEF todo
  <1>3. Becomes(t, new)
    BY <1>1, TypeFacts DEF Becomes
  <1>4. q \in TxType /\ q.op = "mapping"
    BY <1>1, OwnFacts DEF ShapeOf, TxType, GroupOp, UserOp, PatchOp
  <1>5. new.pc = "lock_by_name" /\ new.op = q.op /\ new.n = q.n /\ new.todo = todo
    BY <1>4 DEF TxType
  <1> HIDE DEF new
  <1>6. KnowsOf(t, new, excl, status, names)
    BY <1>2, <1>4, <1>5 DEF KnowsOf, PatchOp, GroupOp
  <1>7. CoverOf(t, new, excl, status, names, members)
    BY <1>5 DEF CoverOf
  <1>8. PlanFits(t, new, excl, status, names, members, mapping, grant)
    BY <1>5, NoPlanFits
  <1> QED
    BY <1>1, <1>3, <1>4, <1>5, <1>6, <1>7, <1>8, GoOnCInv

\* ... and locks them.
LEMMA LockGroupByNameCInv ==
  ASSUME IInv, CInv, NEW t \in Tx, LockGroupByName(t)
  PROVE  CInv'
  <1> DEFINE q == tx[t]
             X == {<<"group", g>> : g \in {h \in q.todo : names[h] = q.n}}
             new == [q EXCEPT !.pc = "write_mapping", !.todo = {}]
  <1>1. /\ q.pc = "lock_by_name" /\ TakeExcl(t, X) /\ UNCHANGED <<tables, started, client>>
        /\ tx' = [tx EXCEPT ![t].pc = "write_mapping", ![t].todo = {}]
    BY DEF LockGroupByName
  <1>2. Becomes(t, new)
    BY <1>1, TypeFacts DEF Becomes
  <1>3. q \in TxType /\ q.op = "mapping"
    BY <1>1, OwnFacts DEF ShapeOf, TxType, GroupOp, UserOp, PatchOp
  <1>4. new.pc = "write_mapping" /\ new.op = q.op /\ new.n = q.n
    BY <1>3 DEF TxType
  <1> HIDE DEF new
  <1>5. \A g \in q.todo : names[g] = q.n => <<"group", g>> \in X
    OBVIOUS
  <1>6. \A r \in Row : <<"user", r>> \notin X
    OBVIOUS
  <1> HIDE DEF X
  <1>7. /\ excl' \in [Resource -> Tx \cup {None}]
        /\ \A s \in Tx \ {t} : \A x \in Resource : excl'[x] = s <=> excl[x] = s
        /\ \A r \in Row : excl'[<<"user", r>>] = excl[<<"user", r>>]
    BY <1>1, <1>6, TakeNoUser
  <1>8. \A x \in Resource : x \in X => excl'[x] = t
    BY <1>1, TakeFacts
  <1>9. Calm => \A g \in Group : names[g] = q.n => excl'[<<"group", g>>] = t
    BY <1>1, <1>3, <1>5, <1>8, Resources, OwnCalm DEF KnowsOf
  <1>10. Calm => KnowsOf(t, new, excl', status, names)
    BY <1>3, <1>4, <1>9 DEF KnowsOf, PatchOp, GroupOp
  <1>11. CoverOf(t, new, excl', status, names, members)
    BY <1>4 DEF CoverOf
  <1>12. PlanFits(t, new, excl', status, names, members, mapping, grant)
    BY <1>4, NoPlanFits
  <1> QED
    BY <1>1, <1>2, <1>3, <1>4, <1>7, <1>10, <1>11, <1>12, OwnCInv

\* The mapping is written and the members are listed.
LEMMA WriteMappingCInv ==
  ASSUME IInv, CInv, NEW t \in Tx, WriteMapping(t)
  PROVE  CInv'
  <1> DEFINE q == tx[t]
             X == {<<"mapping", q.n>>}
             todo == {r \in Row : status[r] \in Live /\ \E g \in Group : names[g] = q.n /\ r \in members[g]}
             new == [q EXCEPT !.pc = "users", !.todo = todo]
  <1>1. CASE Abort(t)
    BY <1>1, AbortCInv
  <1>2. CASE ~Abort(t)
    <2>1. /\ q.pc = "write_mapping" /\ TakeExcl(t, X) /\ UNCHANGED <<tables, started, client>>
          /\ tx' = [tx EXCEPT ![t].pc = "users", ![t].todo = todo]
      BY <1>2 DEF WriteMapping
    <2>2. \A r \in Row : status[r] \in Live /\ (\E g \in Group : names[g] = q.n /\ r \in members[g]) => r \in todo
      OBVIOUS
    <2> HIDE DEF todo
    <2>3. Becomes(t, new)
      BY <2>1, TypeFacts DEF Becomes
    <2>4. q \in TxType /\ q.op = "mapping"
      BY <2>1, OwnFacts DEF ShapeOf, TxType, GroupOp, UserOp, PatchOp
    <2>5. new.pc = "users" /\ new.op = q.op /\ new.n = q.n /\ new.todo = todo
      BY <2>4 DEF TxType
    <2> HIDE DEF new
    <2>6. \A r \in Row : <<"user", r>> \notin X
      OBVIOUS
    <2>7. \A g \in Group : <<"group", g>> \notin X
      OBVIOUS
    <2> HIDE DEF X
    <2>8. /\ excl' \in [Resource -> Tx \cup {None}]
          /\ \A s \in Tx \ {t} : \A x \in Resource : excl'[x] = s <=> excl[x] = s
          /\ \A r \in Row : excl'[<<"user", r>>] = excl[<<"user", r>>]
      BY <2>1, <2>6, TakeNoUser
    <2>9. \A g \in Group : excl'[<<"group", g>>] = excl[<<"group", g>>]
      BY <2>1, <2>7, TakeFacts, Resources
    <2>10. Calm => KnowsOf(t, new, excl', status, names)
      BY <2>1, <2>4, <2>5, <2>9, OwnCalm DEF KnowsOf, PatchOp, GroupOp
    <2>11. CoverOf(t, new, excl', status, names, members)
      BY <2>2, <2>4, <2>5 DEF CoverOf, Touched
    <2>12. PlanFits(t, new, excl', status, names, members, mapping, grant)
      BY <2>5, NoPlanFits
    <2> QED
      BY <2>1, <2>3, <2>4, <2>5, <2>8, <2>10, <2>11, <2>12, OwnCInv
  <1> QED
    BY <1>1, <1>2

\* All memberships of a live user, or of one being provisioned, are managed by
\* its row.
LEMMA OnlyOwn ==
  ASSUME IInv, CInv, Calm, NEW r \in Row,
         status[r] \in Live \/ \E t \in Tx : Entered(tx[t]) /\ tx[t].r = r
  PROVE  \A role \in Role : grant[Owner[r]][role] \in {None, r}
  <1> SUFFICES ASSUME NEW role \in Role, grant[Owner[r]][role] # None PROVE grant[Owner[r]][role] = r
    OBVIOUS
  <1> DEFINE k == grant[Owner[r]][role]
  <1>1. Owner[r] \in User
    BY DEF User
  <1>2. k \in Row /\ Owner[k] = Owner[r]
    BY <1>1 DEF CInv, CalmInv, OwnedOf
  <1>3. status[k] \in Live
    BY <1>2, InactiveFacts DEF Live
  <1> HIDE DEF k
  <1>4. k = r
    BY <1>2, <1>3 DEF CInv, LoneOf
  <1> QED
    BY <1>4 DEF k

\* What reconciliation plans.
LEMMA PlanForFits ==
  ASSUME IInv, CInv, Calm, NEW t \in Tx, NEW r \in Row,
         status[r] \in Live \/ \E s \in Tx : Entered(tx[s]) /\ tx[s].r = r
  PROVE  LET target == OrViewer(RolesSeen(r, tx[t], names, members, mapping))
         IN  PlanFor(r, t).add = target \ Held(r, grant) /\ PlanFor(r, t).drop = Held(r, grant) \ target
  <1>1. Manual(r) = {}
    BY OnlyOwn DEF Manual
  <1>2. Managed(r) = Held(r, grant)
    BY DEF Managed, Held
  <1>3. MappedRoles(r, NamesIn(t), MembersIn(t), MappingIn(t)) = RolesSeen(r, tx[t], names, members, mapping)
    BY DEF RolesSeen, NamesSeen, MembersSeen, MappingSeen, NamesIn, MembersIn, MappingIn
  <1>4. Target(r, RolesSeen(r, tx[t], names, members, mapping)) = OrViewer(RolesSeen(r, tx[t], names, members, mapping))
    BY <1>1 DEF Target, OrViewer
  <1> QED
    BY <1>2, <1>3, <1>4 DEF PlanFor

\* What a transaction sees depends on these fields.
LEMMA SameSeen ==
  ASSUME NEW p, NEW q, p.op = q.op, p.g = q.g, p.n = q.n, p.fresh = q.fresh, p.role = q.role,
         NEW r, NEW nm, NEW mb, NEW mp
  PROVE  RolesSeen(r, p, nm, mb, mp) = RolesSeen(r, q, nm, mb, mp)
  BY DEF RolesSeen, NamesSeen, MembersSeen, MappingSeen

\* The rows of a group or mapping request are reconciled.
LEMMA ReconcileCInv ==
  ASSUME IInv, CInv, NEW t \in Tx, Reconcile(t)
  PROVE  CInv'
  <1> DEFINE q == tx[t]
             rows == {r \in Row : excl[<<"user", r>>] = t /\ status[r] = "active"}
             plan == [r \in Row |-> IF r \in rows THEN PlanFor(r, t) ELSE NoPlan[r]]
             new == [q EXCEPT !.pc = "commit", !.plan = plan]
  <1>1. /\ q.pc = "reconcile" /\ UNCHANGED <<tables, started, client>> /\ excl' = excl
        /\ tx' = [tx EXCEPT ![t].pc = "commit", ![t].plan = plan]
    BY DEF Reconcile, lockVars
  <1>2. \A r \in Row : excl[<<"user", r>>] = t /\ status[r] = "active" => plan[r] = PlanFor(r, t)
    OBVIOUS
  <1> HIDE DEF plan
  <1>3. Becomes(t, new)
    BY <1>1, TypeFacts DEF Becomes
  <1>4. q \in TxType /\ q.op \in GroupOp \cup {"create", "mapping"}
    BY <1>1, OwnFacts DEF ShapeOf, TxType, GroupOp, UserOp, PatchOp
  <1>5. /\ new.pc = "commit" /\ new.op = q.op /\ new.g = q.g /\ new.n = q.n /\ new.role = q.role
        /\ new.old = q.old /\ new.fresh = q.fresh /\ new.plan = plan
    BY <1>4 DEF TxType
  <1> HIDE DEF new
  <1>6. Calm => KnowsOf(t, new, excl, status, names)
    BY <1>1, <1>4, <1>5, OwnCalm DEF KnowsOf, PatchOp, GroupOp
  <1>7. Calm => CoverOf(t, new, excl, status, names, members)
    <2>1. Touched(new, names, members) = Touched(q, names, members)
      BY <1>5 DEF Touched
    <2> QED
      BY <1>1, <1>5, <2>1, OwnCalm DEF CoverOf
  <1>8. new.op \notin {"provision", "update_user"}
    BY <1>4, <1>5 DEF GroupOp, PatchOp
  <1>9. ASSUME Calm PROVE PlanFits(t, new, excl, status, names, members, mapping, grant)
    <2> SUFFICES ASSUME NEW r \in Row, Planned(t, new, excl, status, r)
                 PROVE  LET target == OrViewer(RolesSeen(r, new, names, members, mapping))
                        IN  new.plan[r].add = target \ Held(r, grant) /\ new.plan[r].drop = Held(r, grant) \ target
      BY DEF PlanFits
    <2>1. excl[<<"user", r>>] = t /\ status[r] = "active"
      BY <1>8 DEF Planned
    <2>2. new.plan[r] = PlanFor(r, t)
      BY <1>2, <1>5, <2>1
    <2>3. status[r] \in Live
      BY <2>1 DEF Live
    <2>4. RolesSeen(r, new, names, members, mapping) = RolesSeen(r, q, names, members, mapping)
      BY <1>5, SameSeen
    <2>5. LET target == OrViewer(RolesSeen(r, q, names, members, mapping))
          IN  PlanFor(r, t).add = target \ Held(r, grant) /\ PlanFor(r, t).drop = Held(r, grant) \ target
      BY <1>9, <2>3, PlanForFits
    <2> QED
      BY <2>2, <2>4, <2>5
  <1> QED
    BY <1>1, <1>3, <1>5, <1>6, <1>7, <1>8, <1>9, GoOnCInv

\* A user request or a provisioning takes no part in groups.
LEMMA UserCalm ==
  ASSUME NEW t, NEW q, q.op \in {"provision", "update_user", "delete_user"}, q.pc # "insert_members",
         NEW ex, NEW st, NEW nm, NEW mb
  PROVE  KnowsOf(t, q, ex, st, nm) /\ CoverOf(t, q, ex, st, nm, mb)
  BY DEF KnowsOf, CoverOf, PatchOp, GroupOp

\* A row enters the unique index.
LEMMA InsertUserCInv ==
  ASSUME IInv, CInv, NEW t \in Tx, InsertUser(t)
  PROVE  CInv'
  <1> DEFINE q == tx[t]
             pc == IF q.active THEN "reconcile_user" ELSE "commit"
             new == [q EXCEPT !.pc = pc]
  <1>1. CASE Abort(t)
    BY <1>1, AbortCInv
  <1>2. CASE ~Abort(t)
    <2>1. /\ q.pc = "insert" /\ UNCHANGED <<tables, started, client>> /\ excl' = excl
          /\ tx' = [tx EXCEPT ![t].pc = pc]
      BY <1>2 DEF InsertUser, lockVars
    <2>2. \A r \in Row : Owner[r] = Owner[q.r] => status[r] \notin Live
      BY <1>2 DEF InsertUser
    <2>3. \A s \in Tx \ {t} : Entered(tx[s]) => tx[s].r \notin {r \in Row : Owner[r] = Owner[q.r]}
      BY <1>2 DEF InsertUser, Entered
    <2>4. \A s \in Tx \ {t} : Entered(tx[s]) => Owner[tx[s].r] # Owner[q.r]
      <3>1. \A s \in Tx \ {t} : Entered(tx[s]) => tx[s].r \in Row
        BY OwnFacts DEF ShapeOf, Entered
      <3> QED
        BY <2>3, <3>1
    <2>5. Becomes(t, new)
      BY <2>1, TypeFacts DEF Becomes
    <2>6. q \in TxType /\ q.op = "provision"
      BY <2>1, OwnFacts DEF ShapeOf, TxType, GroupOp, UserOp, PatchOp
    <2>7. pc \in {"reconcile_user", "commit"} /\ (pc = "commit" => ~q.active)
      OBVIOUS
    <2> HIDE DEF pc
    <2>8. new.pc = pc /\ new.op = "provision" /\ new.r = q.r /\ new.active = q.active
      BY <2>6 DEF TxType
    <2> HIDE DEF new
    <2>9. KnowsOf(t, new, excl, status, names) /\ CoverOf(t, new, excl, status, names, members)
      BY <2>7, <2>8, UserCalm
    <2>10. PlanFits(t, new, excl, status, names, members, mapping, grant)
      BY <2>7, <2>8 DEF PlanFits, Planned, GroupOp, PatchOp
    <2>11. CalmOf(t, new, excl', status, names, members, mapping, grant)
      BY <2>1, <2>9, <2>10 DEF CalmOf
    <2> QED
      BY <2>1, <2>2, <2>4, <2>5, <2>8, <2>11, TypeFacts, LocalCInv
  <1> QED
    BY <1>1, <1>2

\* A user request or a provisioning that has entered its row goes on.
LEMMA UserGoOnCInv ==
  ASSUME IInv, CInv, NEW t \in Tx, NEW new, Becomes(t, new), UNCHANGED <<tables, client>>,
         excl' \in [Resource -> Tx \cup {None}],
         \A s \in Tx \ {t} : \A x \in Resource : excl'[x] = s <=> excl[x] = s,
         \A r \in Row : excl'[<<"user", r>>] = t => excl[<<"user", r>>] = t \/ status[r] \in Live,
         new.op \in {"provision", "update_user", "delete_user"}, new.pc # "insert_members",
         Entered(new) => Entered(tx[t]) /\ new.r = tx[t].r,
         Calm => PlanFits(t, new, excl', status, names, members, mapping, grant)
  PROVE  CInv'
  <1>1. Calm => CalmOf(t, new, excl', status, names, members, mapping, grant)
    BY UserCalm DEF CalmOf
  <1>2. Entered(new) => /\ \A r \in Row : Owner[r] = Owner[new.r] => status[r] \notin Live
                        /\ \A s \in Tx \ {t} : Entered(tx[s]) => Owner[tx[s].r] # Owner[new.r]
    BY DEF CInv, LoneOf
  <1> QED
    BY <1>1, <1>2, LocalCInv

\* The user row is locked.
LEMMA LockScimUserCInv ==
  ASSUME IInv, CInv, NEW t \in Tx, LockScimUser(t)
  PROVE  CInv'
  <1> DEFINE q == tx[t]
             X == {<<"user", q.r>>}
             pc == CASE q.op = "delete_user" -> "leave_groups"
                     [] q.op = "update_user" /\ ~q.was /\ q.active -> "reconcile_user"
                     [] OTHER -> "commit"
             todo == {g \in Group : q.op = "delete_user" /\ q.r \in members[g]}
             new == [q EXCEPT !.pc = pc, !.todo = todo]
  <1>1. CASE Abort(t)
    BY <1>1, AbortCInv
  <1>2. CASE ~Abort(t)
    <2>1. /\ q.pc = "lock_user" /\ TakeExcl(t, X) /\ tx' = [tx EXCEPT ![t].pc = pc, ![t].todo = todo] /\ UNCHANGED <<tables, started, client>>
          /\ status[q.r] \in Live
      BY <1>2 DEF LockScimUser
    <2>2. q \in TxType /\ q.op \in UserOp
      BY <2>1, OwnFacts DEF ShapeOf, TxType, GroupOp, UserOp, PatchOp
    <2>3. /\ pc \in {"reconcile_user", "commit", "leave_groups"}
          /\ pc = "commit" => ~(q.op = "update_user" /\ ~q.was /\ q.active)
      BY <2>2 DEF UserOp
    <2> HIDE DEF pc, todo
    <2>4. Becomes(t, new)
      BY <2>1, TypeFacts DEF Becomes
    <2>5. new.pc = pc /\ new.op = q.op /\ new.was = q.was /\ new.active = q.active
      BY <2>2 DEF TxType
    <2> HIDE DEF new
    <2>6. PlanFits(t, new, excl', status, names, members, mapping, grant)
      BY <2>2, <2>3, <2>5 DEF PlanFits, Planned, UserOp, GroupOp, PatchOp
    <2>7. \A r \in Row : <<"user", r>> \in X => r = q.r
      OBVIOUS
    <2> HIDE DEF X
    <2>8. /\ excl' \in [Resource -> Tx \cup {None}]
          /\ \A s \in Tx \ {t} : \A x \in Resource : excl'[x] = s <=> excl[x] = s
          /\ \A x \in Resource : excl'[x] = IF x \in X THEN t ELSE excl[x]
      BY <2>1, TakeFacts
    <2>9. \A r \in Row : excl'[<<"user", r>>] = t => excl[<<"user", r>>] = t \/ status[r] \in Live
      BY <2>1, <2>7, <2>8, Resources
    <2>10. new.op \in {"provision", "update_user", "delete_user"} /\ new.pc # "insert_members" /\ ~Entered(new)
      BY <2>2, <2>3, <2>5 DEF UserOp, Entered
    <2> QED
      BY <2>1, <2>4, <2>6, <2>8, <2>9, <2>10, UserGoOnCInv
  <1> QED
    BY <1>1, <1>2

\* The roles of the one row are planned.
LEMMA ReconcileUserCInv ==
  ASSUME IInv, CInv, NEW t \in Tx, ReconcileUser(t)
  PROVE  CInv'
  <1> DEFINE q == tx[t]
             plan == [q.plan EXCEPT ![q.r] = PlanFor(q.r, t)]
             new == [q EXCEPT !.pc = "create_memberships", !.plan = plan]
  <1>1. /\ q.pc = "reconcile_user" /\ UNCHANGED <<tables, started, client>> /\ excl' = excl
        /\ tx' = [tx EXCEPT ![t].pc = "create_memberships", ![t].plan[q.r] = PlanFor(q.r, t)]
    BY DEF ReconcileUser, lockVars
  <1>2. q \in TxType /\ q.op \in {"provision", "update_user"} /\ q.r \in Row /\ q.plan \in Plans
    BY <1>1, OwnFacts DEF ShapeOf, TxType, GroupOp, UserOp, PatchOp
  <1>3. Becomes(t, new)
    <2> DEFINE made == PlanFor(q.r, t)
    <2>1. tx' = [tx EXCEPT ![t].pc = "create_memberships", ![t].plan[q.r] = made]
      BY <1>1
    <2> HIDE DEF made
    <2>2. tx' = [tx EXCEPT ![t] = [q EXCEPT !.pc = "create_memberships", !.plan[q.r] = made]]
      BY <1>2, <2>1, TypeFacts DEF TxType
    <2>3. [q EXCEPT !.pc = "create_memberships", !.plan[q.r] = made] = new
      BY <1>2 DEF TxType, made
    <2>4. tx' = [tx EXCEPT ![t] = new]
      BY <2>2, <2>3, Zenon
    <2> HIDE DEF new
    <2> QED
      BY <2>4, TypeFacts DEF Becomes
  <1>4. plan[q.r] = PlanFor(q.r, t)
    BY <1>2 DEF Plans
  <1> HIDE DEF plan
  <1>5. /\ new.pc = "create_memberships" /\ new.op = q.op /\ new.g = q.g /\ new.n = q.n /\ new.role = q.role
        /\ new.r = q.r /\ new.fresh = q.fresh /\ new.plan = plan
    BY <1>2 DEF TxType
  <1> HIDE DEF new
  <1>6. status[q.r] \in Live \/ Entered(q)
    BY <1>1, <1>2, OwnFacts DEF UserOf, UserOp, Entered
  <1>7. ASSUME Calm PROVE PlanFits(t, new, excl, status, names, members, mapping, grant)
    <2> SUFFICES ASSUME NEW r \in Row, Planned(t, new, excl, status, r)
                 PROVE  LET target == OrViewer(RolesSeen(r, new, names, members, mapping))
                        IN  new.plan[r].add = target \ Held(r, grant) /\ new.plan[r].drop = Held(r, grant) \ target
      BY DEF PlanFits
    <2>1. r = q.r
      BY <1>5 DEF Planned
    <2>2. new.plan[r] = PlanFor(r, t)
      BY <1>4, <1>5, <2>1
    <2>3. RolesSeen(r, new, names, members, mapping) = RolesSeen(r, q, names, members, mapping)
      BY <1>5, SameSeen
    <2>4. LET target == OrViewer(RolesSeen(r, q, names, members, mapping))
          IN  PlanFor(r, t).add = target \ Held(r, grant) /\ PlanFor(r, t).drop = Held(r, grant) \ target
      BY <1>6, <1>7, <2>1, PlanForFits
    <2> QED
      BY <2>2, <2>3, <2>4
  <1>8. Entered(new) => Entered(q)
    BY <1>1, <1>5 DEF Entered
  <1> QED
    BY <1>1, <1>2, <1>3, <1>5, <1>7, <1>8, TypeFacts, UserGoOnCInv

\* The memberships are inserted.
LEMMA CreateMembershipsCInv ==
  ASSUME IInv, CInv, NEW t \in Tx, CreateMemberships(t)
  PROVE  CInv'
  <1> DEFINE q == tx[t]
             new == [q EXCEPT !.pc = "commit"]
  <1>1. CASE Abort(t)
    BY <1>1, AbortCInv
  <1>2. CASE ~Abort(t)
    <2>1. q.pc = "create_memberships" /\ Step(t, "commit") /\ UNCHANGED <<tables, started, client>> /\ excl' = excl
      BY <1>2 DEF CreateMemberships, lockVars
    <2>2. q \in TxType /\ q.op \in {"provision", "update_user"}
      BY <2>1, OwnFacts DEF ShapeOf, TxType, GroupOp, UserOp, PatchOp
    <2>3. Becomes(t, new)
      BY <2>1, StepFacts
    <2>4. /\ new.pc = "commit" /\ new.op = q.op /\ new.g = q.g /\ new.n = q.n /\ new.role = q.role
          /\ new.r = q.r /\ new.fresh = q.fresh /\ new.plan = q.plan /\ new.active = q.active /\ new.was = q.was
      BY <2>2 DEF TxType
    <2> HIDE DEF new
    <2>5. \A r \in Row : Planned(t, new, excl, status, r) => Planned(t, q, excl, status, r)
      BY <2>1, <2>2, <2>4 DEF Planned, GroupOp, PatchOp
    <2>6. \A r \in Row : RolesSeen(r, new, names, members, mapping) = RolesSeen(r, q, names, members, mapping)
      BY <2>4, SameSeen
    <2>7. Calm => PlanFits(t, new, excl, status, names, members, mapping, grant)
      BY <2>4, <2>5, <2>6, OwnCalm DEF PlanFits
    <2>8. Entered(new) => Entered(q)
      BY <2>1, <2>4 DEF Entered
    <2> QED
      BY <2>1, <2>2, <2>3, <2>4, <2>7, <2>8, TypeFacts, UserGoOnCInv
  <1> QED
    BY <1>1, <1>2

\* A user deletion finds the groups of the row ...
LEMMA FindGroupsCInv ==
  ASSUME IInv, CInv, NEW t \in Tx, FindGroups(t)
  PROVE  CInv'
  <1> DEFINE q == tx[t]
             todo == {g \in Group : q.r \in members[g]}
             new == [q EXCEPT !.pc = "lock_groups", !.found = todo, !.todo = todo]
  <1>1. /\ q.pc = "find_groups" /\ UNCHANGED <<tables, started, client>> /\ excl' = excl
        /\ tx' = [tx EXCEPT ![t].pc = "lock_groups", ![t].found = todo, ![t].todo = todo]
    BY DEF FindGroups, lockVars
  <1> HIDE DEF todo
  <1>2. Becomes(t, new)
    BY <1>1, TypeFacts DEF Becomes
  <1>3. q \in TxType /\ q.op = "delete_user"
    BY <1>1, OwnFacts DEF ShapeOf, TxType, GroupOp, UserOp, PatchOp
  <1>4. new.pc = "lock_groups" /\ new.op = "delete_user"
    BY <1>3 DEF TxType
  <1> HIDE DEF new
  <1>5. PlanFits(t, new, excl, status, names, members, mapping, grant) /\ ~Entered(new)
    BY <1>4, NoPlanFits DEF Entered
  <1> QED
    BY <1>1, <1>2, <1>4, <1>5, TypeFacts, UserGoOnCInv

\* ... and locks them, one by one.
LEMMA LockScimGroupsForUserCInv ==
  ASSUME IInv, CInv, NEW t \in Tx, LockScimGroupsForUser(t)
  PROVE  CInv'
  <1> DEFINE q == tx[t]
  <1>0. q.pc = "lock_groups" /\ UNCHANGED <<tables, started, client>>
    BY DEF LockScimGroupsForUser
  <1>1. q \in TxType /\ q.op = "delete_user"
    BY <1>0, OwnFacts DEF ShapeOf, TxType, GroupOp, UserOp, PatchOp
  <1>2. CASE q.todo = {}
    <2> DEFINE new == [q EXCEPT !.pc = "lock_user"]
    <2>1. Step(t, "lock_user") /\ excl' = excl
      BY <1>2 DEF LockScimGroupsForUser, lockVars
    <2>2. Becomes(t, new)
      BY <2>1, StepFacts
    <2>3. new.pc = "lock_user" /\ new.op = "delete_user"
      BY <1>1 DEF TxType
    <2> HIDE DEF new
    <2>4. PlanFits(t, new, excl, status, names, members, mapping, grant) /\ ~Entered(new)
      BY <2>3, NoPlanFits DEF Entered
    <2> QED
      BY <1>0, <2>1, <2>2, <2>3, <2>4, TypeFacts, UserGoOnCInv
  <1>3. CASE q.todo # {}
    <2> DEFINE g == Min(q.todo)
               X == IF names[g] = None THEN {} ELSE {<<"group", g>>}
               todo == q.todo \ {g}
               found == IF names[g] = None THEN q.found \ {g} ELSE q.found
               new == [q EXCEPT !.todo = todo, !.found = found]
    <2>1. TakeExcl(t, X) /\ tx' = [tx EXCEPT ![t].todo = @ \ {g}, ![t].found = IF names[g] = None THEN @ \ {g} ELSE @]
      BY <1>3 DEF LockScimGroupsForUser
    <2>2. Becomes(t, new)
      <3> HIDE DEF g
      <3> QED
        BY <2>1, TypeFacts DEF Becomes
    <2> HIDE DEF todo, found
    <2>3. new.pc = "lock_groups" /\ new.op = "delete_user"
      BY <1>0, <1>1 DEF TxType
    <2> HIDE DEF new
    <2>4. \A r \in Row : <<"user", r>> \notin X
      OBVIOUS
    <2> HIDE DEF X
    <2>5. /\ excl' \in [Resource -> Tx \cup {None}]
          /\ \A s \in Tx \ {t} : \A x \in Resource : excl'[x] = s <=> excl[x] = s
          /\ \A r \in Row : excl'[<<"user", r>>] = excl[<<"user", r>>]
      BY <2>1, <2>4, TakeNoUser
    <2>6. PlanFits(t, new, excl', status, names, members, mapping, grant) /\ ~Entered(new)
      BY <2>3, NoPlanFits DEF Entered
    <2> QED
      BY <1>0, <2>2, <2>3, <2>5, <2>6, UserGoOnCInv
  <1> QED
    BY <1>2, <1>3

\* ... and leaves them.
LEMMA LeaveGroupsCInv ==
  ASSUME IInv, CInv, NEW t \in Tx, LeaveGroups(t)
  PROVE  CInv'
  <1> DEFINE q == tx[t]
  <1>0. q.pc = "leave_groups" /\ UNCHANGED <<tables, started, client>>
    BY DEF LeaveGroups
  <1>1. q \in TxType /\ q.op = "delete_user"
    BY <1>0, OwnFacts DEF ShapeOf, TxType, GroupOp, UserOp, PatchOp
  <1>2. CASE q.todo = {}
    <2> DEFINE new == [q EXCEPT !.pc = "commit"]
    <2>1. Step(t, "commit") /\ excl' = excl
      BY <1>2 DEF LeaveGroups, lockVars
    <2>2. Becomes(t, new)
      BY <2>1, StepFacts
    <2>3. new.pc = "commit" /\ new.op = "delete_user"
      BY <1>1 DEF TxType
    <2> HIDE DEF new
    <2>4. PlanFits(t, new, excl, status, names, members, mapping, grant) /\ ~Entered(new)
      BY <2>3 DEF Entered, PlanFits, Planned, GroupOp, PatchOp
    <2> QED
      BY <1>0, <2>1, <2>2, <2>3, <2>4, TypeFacts, UserGoOnCInv
  <1>3. CASE q.todo # {}
    <2> DEFINE g == Min(q.todo)
               X == IF q.r \in members[g] THEN {<<"member", <<g, q.r>>>>} ELSE {}
               todo == q.todo \ {g}
               new == [q EXCEPT !.todo = todo]
    <2>1. TakeExcl(t, X) /\ tx' = [tx EXCEPT ![t].todo = @ \ {g}]
      <3>1. excl' = excl => TakeExcl(t, {})
        BY TypeFacts DEF TakeExcl
      <3> QED
        BY <1>3, <3>1 DEF LeaveGroups, lockVars
    <2> HIDE DEF g
    <2>2. Becomes(t, new)
      BY <2>1, TypeFacts DEF Becomes
    <2> HIDE DEF todo
    <2>3. new.pc = "leave_groups" /\ new.op = "delete_user"
      BY <1>0, <1>1 DEF TxType
    <2> HIDE DEF new
    <2>4. \A r \in Row : <<"user", r>> \notin X
      OBVIOUS
    <2> HIDE DEF X
    <2>5. /\ excl' \in [Resource -> Tx \cup {None}]
          /\ \A s \in Tx \ {t} : \A x \in Resource : excl'[x] = s <=> excl[x] = s
          /\ \A r \in Row : excl'[<<"user", r>>] = excl[<<"user", r>>]
      BY <2>1, <2>4, TakeNoUser
    <2>6. PlanFits(t, new, excl', status, names, members, mapping, grant) /\ ~Entered(new)
      BY <2>3, NoPlanFits DEF Entered
    <2> QED
      BY <1>0, <2>2, <2>3, <2>5, <2>6, UserGoOnCInv
  <1> QED
    BY <1>2, <1>3
-----------------------------------------------------------------------------
\* The mapped roles of r depend only on the groups r is in.
LEMMA SameMapped ==
  ASSUME NEW r, NEW nm, NEW mb, NEW mp, NEW nx, NEW mx, NEW px,
         \A g \in Group :
            \/ ~(r \in mb[g] /\ nm[g] # None) /\ ~(r \in mx[g] /\ nx[g] # None)
            \/ (r \in mb[g] <=> r \in mx[g]) /\ nm[g] = nx[g] /\ (nm[g] # None => mp[nm[g]] = px[nm[g]])
  PROVE  MappedRoles(r, nm, mb, mp) = MappedRoles(r, nx, mx, px)
  BY DEF MappedRoles

\* A commit leaves alone what r sees of group g.
Unseen(r, g, nm, mb, mp, nx, mx, px) ==
    \/ r \notin mb[g] /\ r \notin mx[g]
    \/ nx[g] = nm[g] /\ (r \in mb[g] <=> r \in mx[g]) /\ (nm[g] # None => px[nm[g]] = mp[nm[g]])

\* So a transaction sees the same roles for r.
LEMMA SameRolesSeen ==
  ASSUME NEW q \in TxType, q.g # None => q.g \in Group /\ q.op # "mapping", q.op = "mapping" => q.n \in Name,
         NEW r,
         NEW nm \in [Group -> Name \cup {None}], NEW mb \in [Group -> SUBSET Row], NEW mp \in [Name -> Role \cup {None}],
         NEW nx \in [Group -> Name \cup {None}], NEW mx \in [Group -> SUBSET Row], NEW px \in [Name -> Role \cup {None}],
         \A g \in Group : Unseen(r, g, nm, mb, mp, nx, mx, px),
         q.g # None /\ q.n # None => px[q.n] = mp[q.n]
  PROVE  RolesSeen(r, q, nm, mb, mp) = RolesSeen(r, q, nx, mx, px)
  <1> DEFINE nv == NamesSeen(q, nm)
             mv == MembersSeen(q, mb)
             pv == MappingSeen(q, mp)
             nw == NamesSeen(q, nx)
             mw == MembersSeen(q, mx)
             pw == MappingSeen(q, px)
  <1>1. ASSUME NEW g \in Group
        PROVE  \/ ~(r \in mv[g] /\ nv[g] # None) /\ ~(r \in mw[g] /\ nw[g] # None)
               \/ (r \in mv[g] <=> r \in mw[g]) /\ nv[g] = nw[g] /\ (nv[g] # None => pv[nv[g]] = pw[nv[g]])
    <2>1. CASE q.g # None
      <3>1. pv = mp /\ pw = px
        BY <2>1 DEF MappingSeen
      <3>2. /\ nv[g] = IF g = q.g THEN q.n ELSE nm[g]
            /\ nw[g] = IF g = q.g THEN q.n ELSE nx[g]
            /\ mv[g] = IF g = q.g THEN q.fresh ELSE mb[g]
            /\ mw[g] = IF g = q.g THEN q.fresh ELSE mx[g]
        BY <2>1 DEF NamesSeen, MembersSeen
      <3> HIDE DEF nv, nw, mv, mw, pv, pw
      <3>3. CASE g = q.g
        BY <2>1, <3>1, <3>2, <3>3
      <3>4. CASE g # q.g
        BY <3>1, <3>2, <3>4 DEF Unseen
      <3> QED
        BY <3>3, <3>4
    <2>2. CASE q.g = None
      <3>1. nv = nm /\ nw = nx /\ mv = mb /\ mw = mx
        BY <2>2 DEF NamesSeen, MembersSeen
      <3>2. ASSUME NEW n \in Name, px[n] = mp[n] PROVE pv[n] = pw[n]
        BY <3>2 DEF MappingSeen
      <3>3. nm[g] \in Name \cup {None}
        OBVIOUS
      <3> HIDE DEF nv, nw, mv, mw, pv, pw
      <3> QED
        BY <3>1, <3>2, <3>3 DEF Unseen
    <2> QED
      BY <2>1, <2>2
  <1> HIDE DEF nv, nw, mv, mw, pv, pw
  <1>2. MappedRoles(r, nv, mv, pv) = MappedRoles(r, nw, mw, pw)
    BY <1>1, SameMapped
  <1> QED
    BY <1>2 DEF RolesSeen, nv, nw, mv, mw, pv, pw

\* A commit of t that concerns the rows of Mine, as the others see it.
LEMMA CommitOthers ==
  ASSUME IInv, CInv, Calm, NEW t \in Tx, NEW Mine \in SUBSET Row,
         names' \in [Group -> Name \cup {None}], members' \in [Group -> SUBSET Row], mapping' \in [Name -> Role \cup {None}],
         \A r \in Row \ Mine : status'[r] = status[r] /\ Held(r, grant') = Held(r, grant),
         \A r \in Row : /\ status'[r] = "none" => status[r] = "none"
                        /\ status'[r] \in Live => status[r] \in Live \cup {"none"},
         \A r \in Row \ Mine : status[r] \in Live \cup {"none"} =>
            \A g \in Group : Unseen(r, g, names, members, mapping, names', members', mapping'),
         \A g \in Group : names'[g] \in {names[g], None},
         \A g \in Group : excl[<<"group", g>>] \in Tx \ {t} =>
            /\ names'[g] = names[g] /\ members'[g] \subseteq members[g]
            /\ names[g] # None => mapping'[names[g]] = mapping[names[g]],
         \A r \in Mine : excl[<<"user", r>>] = t \/ (tx[t].op = "provision" /\ r = tx[t].r)
  PROVE  /\ \A s \in Tx \ {t} : CalmOf(s, tx[s], excl, status', names', members', mapping', grant')
         /\ \A r \in Row \ Mine : status'[r] = "active" => Held(r, grant') = OrViewer(MappedRoles(r, names', members', mapping'))
  <1>1. ASSUME NEW s \in Tx \ {t}
        PROVE  CalmOf(s, tx[s], excl, status', names', members', mapping', grant')
    <2> DEFINE q == tx[s]
    <2>0. q \in TxType /\ ShapeOf(q) /\ LockOf(s, q, excl, share) /\ UserOf(s, q, excl, version, status, started)
      BY OwnFacts
    <2>1. /\ KnowsOf(s, q, excl, status, names) /\ CoverOf(s, q, excl, status, names, members)
          /\ PlanFits(s, q, excl, status, names, members, mapping, grant)
      BY OwnCalm
    <2>2. q.op \in GroupOp => q.g \in Group /\ q.g # None
      BY <2>0 DEF ShapeOf, TxType
    <2>3. q.op \in GroupOp /\ q.pc # "group" =>
             /\ excl[<<"group", q.g>>] = s /\ names'[q.g] = names[q.g]
             /\ names[q.g] # None => mapping'[names[q.g]] = mapping[names[q.g]]
      <3>1. q.op \in GroupOp /\ q.pc # "group" => excl[<<"group", q.g>>] = s
        BY <2>0 DEF LockOf
      <3> HIDE DEF q
      <3>2. ASSUME NEW g \in Group, excl[<<"group", g>>] = s
            PROVE  names'[g] = names[g] /\ (names[g] # None => mapping'[names[g]] = mapping[names[g]])
        BY <3>2
      <3> QED
        BY <2>2, <3>1, <3>2
    <2>4. q.op = "mapping" => q.n \in Name /\ q.g = None
      BY <2>0 DEF ShapeOf, GroupOp, PatchOp
    <2>5. KnowsOf(s, q, excl, status', names')
      <3>1. q.op \in PatchOp => q.n = IF q.pc = "group" THEN None ELSE names'[q.g]
        BY <2>1, <2>3 DEF KnowsOf, GroupOp
      <3>2. q.op = "mapping" => \A g \in Group : names'[g] = q.n => names[g] = q.n
        BY <2>4
      <3>3. \A r \in q.old \cup q.fresh : status[r] # "none" => status'[r] # "none"
        BY <2>0 DEF TxType
      <3> QED
        BY <2>1, <3>1, <3>2, <3>3 DEF KnowsOf
    <2>6. CoverOf(s, q, excl, status', names', members')
      <3> SUFFICES ASSUME q.op \in GroupOp \cup {"mapping"}, q.pc \in {"users", "reconcile", "commit"},
                          NEW r \in Row, r \in Touched(q, names', members'), status'[r] \in Live
                   PROVE  excl[<<"user", r>>] = s \/ (q.pc = "users" /\ r \in q.todo)
        BY DEF CoverOf
      <3>1. r \in Touched(q, names, members) /\ status[r] # "none"
        <4>1. CASE q.op = "mapping"
          <5>1. PICK g \in Group : names'[g] = q.n /\ r \in members'[g]
            BY <4>1 DEF Touched
          <5>2. names[g] = q.n
            BY <2>4, <4>1, <5>1
          <5>3. excl[<<"group", g>>] = s
            BY <2>1, <4>1, <5>2 DEF KnowsOf
          <5>4. r \in members[g]
            BY <5>1, <5>3
          <5> QED
            BY <4>1, <5>2, <5>4 DEF Touched, IInv, RowInv
        <4>2. CASE q.op # "mapping"
          BY <2>1, <4>2 DEF Touched, KnowsOf
        <4> QED
          BY <4>1, <4>2
      <3>2. status[r] \in Live
        BY <3>1
      <3> QED
        BY <2>1, <3>1, <3>2 DEF CoverOf
    <2>7. PlanFits(s, q, excl, status', names', members', mapping', grant')
      <3> SUFFICES ASSUME NEW r \in Row, Planned(s, q, excl, status', r)
                   PROVE  LET target == OrViewer(RolesSeen(r, q, names', members', mapping'))
                          IN  q.plan[r].add = target \ Held(r, grant') /\ q.plan[r].drop = Held(r, grant') \ target
        BY DEF PlanFits
      <3>1. r \notin Mine
        <4> SUFFICES ASSUME r \in Mine PROVE FALSE
          OBVIOUS
        <4>1. CASE excl[<<"user", r>>] = s
          <5>1. tx[t].op = "provision" /\ r = tx[t].r
            BY <4>1
          <5>2. status[r] = "none"
            BY <5>1, OwnFacts DEF UserOf
          <5>3. excl[<<"user", r>>] = None
            BY <5>2 DEF CInv, CalmInv, LockedOf
          <5> QED
            BY <4>1, <5>3, Basics
        <4>2. CASE excl[<<"user", r>>] # s
          <5>1. q.op = "provision" /\ r = q.r
            <6>1. q.op \in {"provision", "update_user"} /\ q.pc \in {"create_memberships", "commit"} /\ r = q.r
              BY <4>2 DEF Planned
            <6> QED
              BY <2>0, <4>2, <6>1 DEF UserOf, UserOp
          <5>2. status[r] = "none"
            BY <2>0, <5>1 DEF UserOf
          <5>3. excl[<<"user", r>>] = None
            BY <5>2 DEF CInv, CalmInv, LockedOf
          <5>4. tx[t].op = "provision" /\ tx[t].r = q.r
            BY <5>1, <5>3, Basics
          <5> QED
            BY <5>1, <5>4 DEF IInv, RowInv
        <4> QED
          BY <4>1, <4>2
      <3>2. status'[r] = status[r] /\ Held(r, grant') = Held(r, grant)
        BY <3>1
      <3>3. Planned(s, q, excl, status, r)
        BY <3>2 DEF Planned
      <3>4. status[r] \in Live \cup {"none"}
        BY <2>0, <3>3 DEF Planned, UserOf, UserOp, Live
      <3>5. \A g \in Group : Unseen(r, g, names, members, mapping, names', members', mapping')
        BY <3>1, <3>4
      <3>6. q.g # None => q.g \in Group /\ q.op # "mapping"
        BY <2>0, <2>4 DEF TxType
      <3>7. q.g # None /\ q.n # None => mapping'[q.n] = mapping[q.n]
        <4> SUFFICES ASSUME q.g # None, q.n # None PROVE mapping'[q.n] = mapping[q.n]
          OBVIOUS
        <4>1. q.op \in PatchOp
          BY <2>0, <2>1 DEF ShapeOf, KnowsOf, GroupOp
        <4>2. q.pc # "group" /\ q.n = names[q.g]
          BY <2>1, <4>1 DEF KnowsOf
        <4> QED
          BY <2>3, <4>1, <4>2 DEF GroupOp
      <3>8. RolesSeen(r, q, names, members, mapping) = RolesSeen(r, q, names', members', mapping')
        <4>1. /\ names \in [Group -> Name \cup {None}] /\ members \in [Group -> SUBSET Row]
              /\ mapping \in [Name -> Role \cup {None}] /\ q \in TxType /\ (q.op = "mapping" => q.n \in Name)
          BY <2>0, <2>4, TypeFacts
        <4> HIDE DEF q
        <4> QED
          BY <3>5, <3>6, <3>7, <4>1, SameRolesSeen
      <3>9. LET target == OrViewer(RolesSeen(r, q, names, members, mapping))
            IN  q.plan[r].add = target \ Held(r, grant) /\ q.plan[r].drop = Held(r, grant) \ target
        BY <2>1, <3>3 DEF PlanFits
      <3> QED
        BY <3>2, <3>8, <3>9
    <2> QED
      BY <2>5, <2>6, <2>7 DEF CalmOf
  <1>2. ASSUME NEW r \in Row \ Mine, status'[r] = "active"
        PROVE  Held(r, grant') = OrViewer(MappedRoles(r, names', members', mapping'))
    <2>1. status[r] = "active"
      BY <1>2
    <2>2. Held(r, grant) = OrViewer(MappedRoles(r, names, members, mapping))
      BY <2>1 DEF CInv, CalmInv, SettledOf
    <2>3. \A g \in Group : Unseen(r, g, names, members, mapping, names', members', mapping')
      BY <2>1 DEF Live
    <2>4. MappedRoles(r, names, members, mapping) = MappedRoles(r, names', members', mapping')
      BY <2>3, SameMapped DEF Unseen
    <2> QED
      BY <2>2, <2>4
  <1> QED
    BY <1>1, <1>2

\* A transaction commits, with what it writes to suit the others.
LEMMA CommitCInv ==
  ASSUME IInv, CInv, NEW t \in Tx, Finish(t), client' = client, LoneOf(tx', status'),
         Calm => /\ \A s \in Tx \ {t} : CalmOf(s, tx[s], excl, status', names', members', mapping', grant')
                 /\ OwnedOf(grant') /\ SettledOf(status', names', members', mapping', grant')
                 /\ \A r \in Row : status'[r] = "none" => status[r] = "none"
  PROVE  CInv'
  <1>1. tx'[t] = Idle /\ \A s \in Tx \ {t} : tx'[s] = tx[s]
    BY FinishFacts, TypeFacts DEF Becomes
  <1>2. Calm' <=> Calm
    BY DEF Calm
  <1>3. ASSUME Calm PROVE CalmInv'
    <2>1. ASSUME NEW s \in Tx PROVE CalmOf(s, tx'[s], excl', status', names', members', mapping', grant')
      <3>1. CASE s = t
        BY <1>1, <3>1, IdleCalm
      <3>2. CASE s # t
        <4>1. CalmOf(s, tx[s], excl, status', names', members', mapping', grant')
          BY <1>3, <3>2
        <4>2. \A x \in Resource : excl'[x] = s <=> excl[x] = s
          BY <3>2, FinishFacts
        <4>3. CalmOf(s, tx[s], excl', status', names', members', mapping', grant')
          BY <4>1, <4>2, SameLocks
        <4> QED
          BY <1>1, <3>2, <4>3
      <3> QED
        BY <3>1, <3>2
    <2>2. LockedOf(excl', status')
      <3> SUFFICES ASSUME NEW r \in Row, excl'[<<"user", r>>] # None, status'[r] = "none" PROVE FALSE
        BY DEF LockedOf
      <3>1. excl'[<<"user", r>>] \in Tx \ {t} /\ <<"user", r>> \in Resource
        BY FinishFacts, Resources
      <3>2. excl[<<"user", r>>] # None
        BY <3>1, FinishFacts, Basics
      <3> QED
        BY <1>3, <3>2 DEF CInv, CalmInv, LockedOf
    <2> QED
      BY <1>3, <2>1, <2>2 DEF CalmInv
  <1> QED
    BY <1>2, <1>3 DEF CInv

\* Nobody comes to life.
LEMMA LoneKept ==
  ASSUME IInv, CInv, NEW t \in Tx, Finish(t), \A r \in Row : status'[r] \in Live => status[r] \in Live
  PROVE  LoneOf(tx', status')
  <1>1. tx'[t] = Idle /\ \A s \in Tx \ {t} : tx'[s] = tx[s]
    BY FinishFacts, TypeFacts DEF Becomes
  <1>2. ~Entered(tx'[t])
    BY <1>1, Basics DEF Entered
  <1> QED
    BY <1>1, <1>2 DEF CInv, LoneOf

\* What a plan makes of a membership.
LEMMA ApplyValue ==
  ASSUME IInv, NEW plan \in Plans, grant' = ApplyPlan(plan), NEW u \in User, NEW role \in Role
  PROVE  \/ /\ \E k \in Row : Owner[k] = u /\ role \in plan[k].drop /\ grant[u][role] = k
            /\ grant'[u][role] = None
         \/ /\ ~ \E k \in Row : Owner[k] = u /\ role \in plan[k].drop /\ grant[u][role] = k
            /\ grant[u][role] = None
            /\ \E k \in Row : Owner[k] = u /\ role \in plan[k].add /\ grant'[u][role] = k
         \/ /\ ~ \E k \in Row : Owner[k] = u /\ role \in plan[k].drop /\ grant[u][role] = k
            /\ ~(grant[u][role] = None /\ \E k \in Row : Owner[k] = u /\ role \in plan[k].add)
            /\ grant'[u][role] = grant[u][role]
  <1> DEFINE Drops == \E k \in Row : Owner[k] = u /\ role \in plan[k].drop /\ grant[u][role] = k
             Adds == \E k \in Row : Owner[k] = u /\ role \in plan[k].add
             adder == CHOOSE k \in Row : Owner[k] = u /\ role \in plan[k].add
  <1>1. grant'[u][role] = CASE Drops -> None
                            [] grant[u][role] = None /\ Adds -> adder
                            [] OTHER -> grant[u][role]
    BY DEF ApplyPlan
  <1>2. Drops => grant[u][role] \in Row /\ grant[u][role] # None
    BY Basics
  <1>3. Adds => adder \in Row /\ Owner[adder] = u /\ role \in plan[adder].add
    OBVIOUS
  <1> HIDE DEF adder
  <1>4. CASE Drops
    <2>1. grant'[u][role] = None
      <3> HIDE DEF Drops, Adds
      <3> QED
        BY <1>1, <1>2, <1>4
    <2> QED
      BY <1>4, <2>1
  <1>5. CASE ~Drops /\ grant[u][role] = None /\ Adds
    <2>1. grant'[u][role] = adder
      <3> HIDE DEF Drops, Adds
      <3> QED
        BY <1>1, <1>5
    <2> QED
      BY <1>3, <1>5, <2>1
  <1>6. CASE ~Drops /\ ~(grant[u][role] = None /\ Adds)
    <2>1. grant'[u][role] = grant[u][role]
      <3> HIDE DEF Drops, Adds
      <3> QED
        BY <1>1, <1>6
    <2> QED
      BY <1>6, <2>1
  <1> QED
    BY <1>4, <1>5, <1>6

\* A plan keeps every membership with a row of its user.
LEMMA ApplyOwned ==
  ASSUME IInv, NEW plan \in Plans, grant' = ApplyPlan(plan), OwnedOf(grant)
  PROVE  OwnedOf(grant')
  <1> SUFFICES ASSUME NEW u \in User, NEW role \in Role
               PROVE  grant'[u][role] = None \/ (grant'[u][role] \in Row /\ Owner[grant'[u][role]] = u)
    BY DEF OwnedOf
  <1>1. grant[u][role] = None \/ (grant[u][role] \in Row /\ Owner[grant[u][role]] = u)
    BY DEF OwnedOf
  <1> QED
    BY <1>1, ApplyValue

\* A commit plans for rows that are live or enter.
LEMMA PlannedRows ==
  ASSUME IInv, NEW t \in Tx, tx[t].pc = "commit", NEW k \in Row, tx[t].plan[k].add # {} \/ tx[t].plan[k].drop # {}
  PROVE  /\ status[k] \in Live \/ (Entered(tx[t]) /\ k = tx[t].r)
         /\ tx[t].op \in {"provision", "update_user"} => k = tx[t].r
         /\ tx[t].op \notin {"provision", "update_user"} => status[k] = "active" /\ excl[<<"user", k>>] = t
  <1>1. PlanOf(t, tx[t], excl, status) /\ UserOf(t, tx[t], excl, version, status, started)
    BY OwnFacts
  <1>2. /\ tx[t].op \in {"provision", "update_user"} => k = tx[t].r
        /\ tx[t].op \notin {"provision", "update_user"} => status[k] = "active" /\ excl[<<"user", k>>] = t
    BY <1>1 DEF PlanOf
  <1>3. tx[t].op = "update_user" => status[tx[t].r] \in Live
    BY <1>1 DEF UserOf, UserOp
  <1> QED
    BY <1>2, <1>3 DEF Entered, Live

\* A row without a plan keeps its roles.
LEMMA PlanHeld ==
  ASSUME IInv, CInv, NEW t \in Tx, tx[t].pc = "commit", grant' = ApplyPlan(tx[t].plan),
         NEW r \in Row, tx[t].plan[r].add = {}, tx[t].plan[r].drop = {}
  PROVE  Held(r, grant') = Held(r, grant)
  <1>0. tx[t].plan \in Plans
    BY OwnFacts DEF TxType
  <1>1. Owner[r] \in User
    BY DEF User
  <1>2. CASE status[r] # "active"
    <2>1. Held(r, grant) = {}
      BY <1>2, InactiveFacts DEF Held
    <2>2. Held(r, grant') = {}
      BY <1>0, <1>2, InactiveFacts, ApplyFacts DEF Held
    <2> QED
      BY <2>1, <2>2
  <1>3. CASE status[r] = "active"
    <2>1. ASSUME NEW k \in Row, Owner[k] = Owner[r] PROVE tx[t].plan[k].add = {} /\ tx[t].plan[k].drop = {}
      <3> SUFFICES ASSUME tx[t].plan[k].add # {} \/ tx[t].plan[k].drop # {} PROVE FALSE
        OBVIOUS
      <3>1. status[k] \in Live \/ (Entered(tx[t]) /\ k = tx[t].r)
        BY PlannedRows
      <3>2. status[r] \in Live /\ r # k
        BY <1>3 DEF Live
      <3> QED
        BY <2>1, <3>1, <3>2 DEF CInv, LoneOf
    <2>2. \A role \in Role : grant'[Owner[r]][role] = grant[Owner[r]][role]
      BY <1>0, <1>1, <2>1, ApplyValue
    <2> QED
      BY <2>2 DEF Held
  <1> QED
    BY <1>2, <1>3

\* A row with a plan gets the roles it should have.
LEMMA PlanDone ==
  ASSUME IInv, CInv, Calm, NEW t \in Tx, tx[t].pc = "commit", grant' = ApplyPlan(tx[t].plan),
         NEW r \in Row, Planned(t, tx[t], excl, status, r)
  PROVE  Held(r, grant') = OrViewer(RolesSeen(r, tx[t], names, members, mapping))
  <1> DEFINE q == tx[t]
             target == OrViewer(RolesSeen(r, q, names, members, mapping))
  <1>0. q.plan \in Plans /\ q.plan[r].add \subseteq Role
    <2>1. q.plan \in Plans
      BY OwnFacts DEF TxType
    <2> QED
      BY <2>1 DEF Plans
  <1>1. Owner[r] \in User
    BY DEF User
  <1>2. q.plan[r].add = target \ Held(r, grant) /\ q.plan[r].drop = Held(r, grant) \ target
    BY OwnCalm DEF PlanFits
  <1> HIDE DEF target
  <1>3. Held(r, grant) \subseteq Role
    BY DEF Held
  <1>4. target \subseteq Role
    BY <1>0, <1>2, <1>3
  <1>5. status[r] \in Live \/ (Entered(q) /\ q.r = r)
    BY OwnFacts DEF Planned, UserOf, UserOp, Entered, Live
  <1>6. \A role \in Role : grant[Owner[r]][role] \in {None, r}
    BY <1>5, OnlyOwn
  <1>7. ASSUME NEW k \in Row, Owner[k] = Owner[r], k # r PROVE q.plan[k].add = {} /\ q.plan[k].drop = {}
    <2> SUFFICES ASSUME tx[t].plan[k].add # {} \/ tx[t].plan[k].drop # {} PROVE FALSE
      OBVIOUS
    <2>1. q.op \notin {"provision", "update_user"} /\ status[k] = "active"
      <3>1. /\ q.op \in {"provision", "update_user"} => k = q.r
            /\ q.op \notin {"provision", "update_user"} => status[k] = "active"
        <4>1. PlanOf(t, q, excl, status)
          BY OwnFacts
        <4> QED
          BY <4>1 DEF PlanOf
      <3>2. q.op \in {"provision", "update_user"} => r = q.r
        BY DEF Planned, GroupOp, PatchOp
      <3> QED
        BY <1>7, <3>1, <3>2
    <2>2. status[r] = "active"
      BY <2>1 DEF Planned
    <2> QED
      BY <1>7, <2>1, <2>2 DEF CInv, LoneOf, Live
  <1>8. ASSUME NEW role \in Role PROVE grant'[Owner[r]][role] = r <=> role \in target
    <2>1. role \in Held(r, grant) <=> grant[Owner[r]][role] = r
      BY DEF Held
    <2>2. r # None
      BY Basics
    <2>3. CASE grant[Owner[r]][role] = r
      <3>1. grant'[Owner[r]][role] = IF role \in q.plan[r].drop THEN None ELSE r
        BY <1>0, <1>1, <2>2, <2>3, ApplyValue
      <3> QED
        BY <1>2, <2>1, <2>2, <2>3, <3>1
    <2>4. CASE grant[Owner[r]][role] # r
      <3>1. grant[Owner[r]][role] = None
        BY <1>6, <2>4
      <3>2. grant'[Owner[r]][role] = IF role \in q.plan[r].add THEN r ELSE None
        BY <1>0, <1>1, <1>7, <3>1, Basics, ApplyValue
      <3> QED
        BY <1>2, <2>1, <2>2, <2>4, <3>2
    <2> QED
      BY <2>3, <2>4
  <1>9. Held(r, grant') = target
    BY <1>4, <1>8 DEF Held
  <1> QED
    BY <1>9 DEF target

\* A group request commits.
LEMMA CommitGroupCInv ==
  ASSUME IInv, IInv', CInv, NEW t \in Tx, CommitGroup(t)
  PROVE  CInv'
  <1> DEFINE q == tx[t]
             kept == {r \in q.fresh : status[r] \in Live}
             Mine == {r \in Row : excl[<<"user", r>>] = t}
  <1>1. /\ q.pc = "commit" /\ q.g # None /\ grant' = ApplyPlan(q.plan) /\ Finish(t)
        /\ names' = NamesIn(t) /\ members' = [members EXCEPT ![q.g] = kept]
        /\ status' = status /\ mapping' = mapping /\ client' = client
    BY DEF CommitGroup
  <1>2. LoneOf(tx', status')
    BY <1>1, LoneKept
  <1>3. ASSUME Calm
        PROVE  /\ \A s \in Tx \ {t} : CalmOf(s, tx[s], excl, status', names', members', mapping', grant')
               /\ OwnedOf(grant') /\ SettledOf(status', names', members', mapping', grant')
    <2>0. q \in TxType /\ ShapeOf(q) /\ q.plan \in Plans /\ KnowsOf(t, q, excl, status, names)
      BY <1>3, OwnFacts, OwnCalm DEF TxType
    <2>1. q.op \in GroupOp /\ q.g \in Group /\ q.fresh \in SUBSET Row
      BY <1>1, <2>0 DEF ShapeOf, KnowsOf, TxType
    <2>2. /\ names' = [names EXCEPT ![q.g] = q.n] /\ q.n \in {names[q.g], None}
          /\ names' \in [Group -> Name \cup {None}] /\ members' \in [Group -> SUBSET Row]
          /\ mapping' \in [Name -> Role \cup {None}]
      <3>1. names' = [names EXCEPT ![q.g] = q.n]
        BY <1>1 DEF NamesIn
      <3>2. q.n \in {names[q.g], None}
        BY <1>1, <2>0, <2>1 DEF KnowsOf, GroupOp
      <3>3. kept \in SUBSET Row
        BY <2>1
      <3> HIDE DEF kept
      <3>4. names' \in [Group -> Name \cup {None}]
        BY <2>0, <2>1, <3>1, TypeFacts DEF TxType
      <3>5. members' \in [Group -> SUBSET Row] /\ mapping' \in [Name -> Role \cup {None}]
        BY <1>1, <2>1, <3>3, TypeFacts
      <3> QED
        BY <3>1, <3>2, <3>4, <3>5
    <2>3. /\ names'[q.g] = q.n /\ \A g \in Group : g # q.g => names'[g] = names[g] /\ members'[g] = members[g]
          /\ \A r \in Row : r \in members'[q.g] <=> r \in q.fresh /\ status[r] \in Live
      BY <1>1, <2>1, <2>2, TypeFacts
    <2> HIDE DEF kept
    <2>4. ASSUME NEW r \in Row \ Mine
          PROVE  Held(r, grant') = Held(r, grant)
      <3>1. q.plan[r].add = {} /\ q.plan[r].drop = {}
        <4>1. PlanOf(t, q, excl, status) /\ q.op \notin {"provision", "update_user"}
          BY <2>1, OwnFacts DEF GroupOp, PatchOp
        <4> QED
          BY <4>1 DEF PlanOf
      <3> QED
        BY <1>1, <3>1, PlanHeld
    <2>5. ASSUME NEW r \in Row \ Mine, status[r] \in Live \cup {"none"}, NEW g \in Group
          PROVE  Unseen(r, g, names, members, mapping, names', members', mapping')
      <3>1. CASE g # q.g
        BY <1>1, <2>3, <3>1 DEF Unseen
      <3>2. CASE g = q.g /\ status[r] \in Live
        <4>1. r \notin q.old \cup q.fresh
          <5>1. CoverOf(t, q, excl, status, names, members)
            BY <1>3, OwnCalm
          <5>2. q.op # "mapping"
            BY <2>1 DEF GroupOp, PatchOp
          <5> QED
            BY <1>1, <2>1, <3>2, <5>1, <5>2 DEF CoverOf, Touched
        <4>2. r \in members[q.g] <=> r \in q.old
          BY <1>1, <2>1, <3>2, OwnFacts DEF MembersOf
        <4> QED
          BY <2>3, <3>2, <4>1, <4>2 DEF Unseen
      <3>3. CASE g = q.g /\ status[r] \notin Live
        <4>1. r \notin members[q.g]
          BY <2>1, <2>5, <3>3 DEF IInv, RowInv
        <4> QED
          BY <2>3, <3>3, <4>1 DEF Unseen
      <3> QED
        BY <3>1, <3>2, <3>3
    <2>6. \A g \in Group : excl[<<"group", g>>] \in Tx \ {t} => g # q.g
      BY <1>1, <2>1, OwnFacts DEF LockOf
    <2>7. /\ \A s \in Tx \ {t} : CalmOf(s, tx[s], excl, status', names', members', mapping', grant')
          /\ \A r \in Row \ Mine : status'[r] = "active" =>
                Held(r, grant') = OrViewer(MappedRoles(r, names', members', mapping'))
      <3>1. Mine \in SUBSET Row
        OBVIOUS
      <3>2. \A g \in Group : names'[g] \in {names[g], None}
        BY <2>2, <2>3
      <3>3. \A g \in Group : excl[<<"group", g>>] \in Tx \ {t} =>
               /\ names'[g] = names[g] /\ members'[g] \subseteq members[g]
               /\ names[g] # None => mapping'[names[g]] = mapping[names[g]]
        BY <1>1, <2>3, <2>6
      <3>4. \A r \in Row \ Mine : status'[r] = status[r] /\ Held(r, grant') = Held(r, grant)
        BY <1>1, <2>4
      <3>5. \A r \in Row : /\ status'[r] = "none" => status[r] = "none"
                           /\ status'[r] \in Live => status[r] \in Live \cup {"none"}
        BY <1>1
      <3>6. \A r \in Row \ Mine : status[r] \in Live \cup {"none"} =>
               \A g \in Group : Unseen(r, g, names, members, mapping, names', members', mapping')
        BY <2>5
      <3>7. \A r \in Mine : excl[<<"user", r>>] = t \/ (tx[t].op = "provision" /\ r = tx[t].r)
        OBVIOUS
      <3> HIDE DEF Mine
      <3> QED
        BY <1>3, <2>2, <3>1, <3>2, <3>3, <3>4, <3>5, <3>6, <3>7, CommitOthers
    <2>8. ASSUME NEW r \in Mine, status[r] = "active"
          PROVE  Held(r, grant') = OrViewer(MappedRoles(r, names', members', mapping'))
      <3>1. Planned(t, q, excl, status, r)
        BY <1>1, <2>1, <2>8 DEF Planned
      <3>2. Held(r, grant') = OrViewer(RolesSeen(r, q, names, members, mapping))
        BY <1>1, <1>3, <3>1, PlanDone
      <3>3. /\ NamesSeen(q, names) = names' /\ MappingSeen(q, mapping) = mapping'
            /\ \A g \in Group : r \in MembersSeen(q, members)[g] <=> r \in members'[g]
        <4>1. NamesSeen(q, names) = names' /\ MappingSeen(q, mapping) = mapping'
          BY <1>1, <2>1, <2>2 DEF NamesSeen, MappingSeen, GroupOp, PatchOp
        <4>2. \A g \in Group : MembersSeen(q, members)[g] = IF g = q.g THEN q.fresh ELSE members[g]
          BY <1>1, <2>1, TypeFacts DEF MembersSeen
        <4>3. status[r] \in Live
          BY <2>8 DEF Live
        <4> QED
          BY <2>3, <4>1, <4>2, <4>3
      <3>4. RolesSeen(r, q, names, members, mapping) = MappedRoles(r, names', members', mapping')
        BY <3>3, SameMapped DEF RolesSeen
      <3> QED
        BY <3>2, <3>4
    <2>9. SettledOf(status', names', members', mapping', grant')
      BY <1>1, <2>7, <2>8 DEF SettledOf
    <2>10. OwnedOf(grant')
      BY <1>1, <1>3, <2>0, ApplyOwned DEF CInv, CalmInv
    <2> QED
      BY <2>7, <2>9, <2>10
  <1> QED
    BY <1>1, <1>2, <1>3, CommitCInv

\* A mapping request commits.
LEMMA CommitMappingCInv ==
  ASSUME IInv, IInv', CInv, NEW t \in Tx, CommitMapping(t)
  PROVE  CInv'
  <1> DEFINE q == tx[t]
             Mine == {r \in Row : excl[<<"user", r>>] = t}
  <1>1. /\ q.pc = "commit" /\ q.op = "mapping" /\ grant' = ApplyPlan(q.plan) /\ Finish(t)
        /\ mapping' = [mapping EXCEPT ![q.n] = q.role]
        /\ status' = status /\ names' = names /\ members' = members /\ client' = client
    BY DEF CommitMapping, MappingIn
  <1>2. LoneOf(tx', status')
    BY <1>1, LoneKept
  <1>3. ASSUME Calm
        PROVE  /\ \A s \in Tx \ {t} : CalmOf(s, tx[s], excl, status', names', members', mapping', grant')
               /\ OwnedOf(grant') /\ SettledOf(status', names', members', mapping', grant')
    <2>0. /\ q \in TxType /\ ShapeOf(q) /\ q.plan \in Plans /\ q.role \in Role \cup {None}
          /\ KnowsOf(t, q, excl, status, names)
      BY <1>3, OwnFacts, OwnCalm DEF TxType
    <2>1. q.n \in Name /\ q.g = None
      BY <1>1, <2>0 DEF ShapeOf, GroupOp, PatchOp
    <2>2. mapping' \in [Name -> Role \cup {None}] /\ \A n \in Name : n # q.n => mapping'[n] = mapping[n]
      BY <1>1, <2>0, <2>1, TypeFacts
    <2>3. names' \in [Group -> Name \cup {None}] /\ members' \in [Group -> SUBSET Row]
      BY <1>1, TypeFacts
    <2>4. ASSUME NEW r \in Row \ Mine
          PROVE  Held(r, grant') = Held(r, grant)
      <3>1. q.plan[r].add = {} /\ q.plan[r].drop = {}
        <4>1. PlanOf(t, q, excl, status)
          BY OwnFacts
        <4> QED
          BY <1>1, <4>1 DEF PlanOf
      <3> QED
        BY <1>1, <3>1, PlanHeld
    <2>5. ASSUME NEW r \in Row \ Mine, status[r] \in Live \cup {"none"}, NEW g \in Group
          PROVE  Unseen(r, g, names, members, mapping, names', members', mapping')
      <3> SUFFICES ASSUME r \in members[g] PROVE names[g] # None => mapping'[names[g]] = mapping[names[g]]
        BY <1>1 DEF Unseen
      <3>1. status[r] \in Live
        BY <2>5 DEF IInv, RowInv
      <3>2. names[g] # q.n
        <4>1. CoverOf(t, q, excl, status, names, members)
          BY <1>3, OwnCalm
        <4> QED
          BY <1>1, <3>1, <4>1 DEF CoverOf, Touched
      <3>3. names[g] \in Name \cup {None}
        BY TypeFacts
      <3> QED
        BY <2>2, <3>2, <3>3
    <2>6. \A g \in Group : excl[<<"group", g>>] \in Tx \ {t} =>
             /\ names'[g] = names[g] /\ members'[g] \subseteq members[g]
             /\ names[g] # None => mapping'[names[g]] = mapping[names[g]]
      <3>1. \A g \in Group : names[g] \in Name \cup {None}
        BY TypeFacts
      <3>2. \A g \in Group : names[g] = q.n => excl[<<"group", g>>] = t
        BY <1>1, <2>0 DEF KnowsOf
      <3> QED
        BY <1>1, <2>2, <3>1, <3>2
    <2>7. /\ \A s \in Tx \ {t} : CalmOf(s, tx[s], excl, status', names', members', mapping', grant')
          /\ \A r \in Row \ Mine : status'[r] = "active" =>
                Held(r, grant') = OrViewer(MappedRoles(r, names', members', mapping'))
      <3>1. Mine \in SUBSET Row
        OBVIOUS
      <3>2. \A g \in Group : names'[g] \in {names[g], None}
        BY <1>1
      <3>4. \A r \in Row \ Mine : status'[r] = status[r] /\ Held(r, grant') = Held(r, grant)
        BY <1>1, <2>4
      <3>5. \A r \in Row : /\ status'[r] = "none" => status[r] = "none"
                           /\ status'[r] \in Live => status[r] \in Live \cup {"none"}
        BY <1>1
      <3>6. \A r \in Row \ Mine : status[r] \in Live \cup {"none"} =>
               \A g \in Group : Unseen(r, g, names, members, mapping, names', members', mapping')
        BY <2>5
      <3>7. \A r \in Mine : excl[<<"user", r>>] = t \/ (tx[t].op = "provision" /\ r = tx[t].r)
        OBVIOUS
      <3> HIDE DEF Mine
      <3> QED
        BY ZenonT(60), <1>3, <2>2, <2>3, <2>6, <3>1, <3>2, <3>4, <3>5, <3>6, <3>7, CommitOthers
    <2>8. ASSUME NEW r \in Mine, status[r] = "active"
          PROVE  Held(r, grant') = OrViewer(MappedRoles(r, names', members', mapping'))
      <3>1. Planned(t, q, excl, status, r)
        BY <1>1, <2>8 DEF Planned
      <3>2. Held(r, grant') = OrViewer(RolesSeen(r, q, names, members, mapping))
        BY <1>1, <1>3, <3>1, PlanDone
      <3>3. RolesSeen(r, q, names, members, mapping) = MappedRoles(r, names', members', mapping')
        BY <1>1, <2>1 DEF RolesSeen, NamesSeen, MembersSeen, MappingSeen
      <3> QED
        BY <3>2, <3>3
    <2>9. SettledOf(status', names', members', mapping', grant')
      BY <1>1, <2>7, <2>8 DEF SettledOf
    <2>10. OwnedOf(grant')
      BY <1>1, <1>3, <2>0, ApplyOwned DEF CInv, CalmInv
    <2> QED
      BY <2>7, <2>9, <2>10
  <1> QED
    BY <1>1, <1>2, <1>3, CommitCInv

\* A request about one row commits: groups, names and mappings stay, but for
\* the row itself.
LEMMA CommitOneRow ==
  ASSUME IInv, CInv, Calm, NEW t \in Tx, tx[t].r \in Row,
         tx[t].op = "provision" \/ excl[<<"user", tx[t].r>>] = t,
         names' = names, mapping' = mapping, members' \in [Group -> SUBSET Row],
         \A g \in Group : members'[g] \subseteq members[g] /\ \A r \in Row : r # tx[t].r => (r \in members'[g] <=> r \in members[g]),
         \A r \in Row : r # tx[t].r => status'[r] = status[r] /\ Held(r, grant') = Held(r, grant),
         status'[tx[t].r] # "none", status[tx[t].r] \in Live \cup {"none"},
         status'[tx[t].r] = "active" =>
            Held(tx[t].r, grant') = OrViewer(MappedRoles(tx[t].r, names', members', mapping'))
  PROVE  /\ \A s \in Tx \ {t} : CalmOf(s, tx[s], excl, status', names', members', mapping', grant')
         /\ SettledOf(status', names', members', mapping', grant')
         /\ \A r \in Row : status'[r] = "none" => status[r] = "none"
  <1> DEFINE Mine == {tx[t].r}
  <1>1. Mine \in SUBSET Row /\ \A r \in Row : r \in Mine <=> r = tx[t].r
    OBVIOUS
  <1>2. \A r \in Mine : excl[<<"user", r>>] = t \/ (tx[t].op = "provision" /\ r = tx[t].r)
    OBVIOUS
  <1> HIDE DEF Mine
  <1>3. names' \in [Group -> Name \cup {None}] /\ mapping' \in [Name -> Role \cup {None}]
    BY TypeFacts
  <1>4. \A r \in Row \ Mine : status'[r] = status[r] /\ Held(r, grant') = Held(r, grant)
    BY <1>1
  <1>5. \A r \in Row : /\ status'[r] = "none" => status[r] = "none"
                       /\ status'[r] \in Live => status[r] \in Live \cup {"none"}
    OBVIOUS
  <1>6. \A r \in Row \ Mine : status[r] \in Live \cup {"none"} =>
           \A g \in Group : Unseen(r, g, names, members, mapping, names', members', mapping')
    BY <1>1 DEF Unseen
  <1>7. \A g \in Group : names'[g] \in {names[g], None}
    OBVIOUS
  <1>8. \A g \in Group : excl[<<"group", g>>] \in Tx \ {t} =>
           /\ names'[g] = names[g] /\ members'[g] \subseteq members[g]
           /\ names[g] # None => mapping'[names[g]] = mapping[names[g]]
    OBVIOUS
  <1>9. /\ \A s \in Tx \ {t} : CalmOf(s, tx[s], excl, status', names', members', mapping', grant')
        /\ \A r \in Row \ Mine : status'[r] = "active" =>
              Held(r, grant') = OrViewer(MappedRoles(r, names', members', mapping'))
    BY <1>1, <1>2, <1>3, <1>4, <1>5, <1>6, <1>7, <1>8, CommitOthers
  <1>10. SettledOf(status', names', members', mapping', grant')
    BY <1>1, <1>9 DEF SettledOf
  <1> QED
    BY <1>5, <1>9, <1>10

\* A user is provisioned.
LEMMA CommitProvisionCInv ==
  ASSUME IInv, IInv', CInv, NEW t \in Tx, CommitProvision(t)
  PROVE  CInv'
  <1> DEFINE q == tx[t]
             st == IF q.active THEN "active" ELSE "inactive"
  <1>1. /\ q.pc = "commit" /\ q.op = "provision" /\ grant' = ApplyPlan(q.plan) /\ Finish(t)
        /\ status' = [status EXCEPT ![q.r] = st]
        /\ names' = names /\ members' = members /\ mapping' = mapping /\ client' = client
    BY DEF CommitProvision
  <1>2. q.plan \in Plans /\ q.r \in Row /\ status[q.r] = "none" /\ q.g = None
    BY <1>1, OwnFacts DEF TxType, ShapeOf, UserOf, GroupOp, PatchOp
  <1>3. st # "none" /\ (st = "active" => q.active)
    OBVIOUS
  <1> HIDE DEF st
  <1>4. status'[q.r] = st /\ \A r \in Row : r # q.r => status'[r] = status[r]
    BY <1>1, <1>2, TypeFacts
  <1>5. LoneOf(tx', status')
    <2>1. tx'[t] = Idle /\ \A s \in Tx \ {t} : tx'[s] = tx[s]
      BY <1>1, FinishFacts, TypeFacts DEF Becomes
    <2>2. ~Entered(tx'[t]) /\ Entered(tx[t]) /\ LoneOf(tx, status)
      BY <1>1, <2>1, Basics DEF Entered, CInv
    <2>3. \A r, k \in Row : status'[r] \in Live /\ status'[k] \in Live /\ Owner[r] = Owner[k] => r = k
      BY <1>4, <2>2 DEF LoneOf
    <2>4. ASSUME NEW s \in Tx, Entered(tx'[s]), NEW r \in Row, Owner[r] = Owner[tx'[s].r] PROVE status'[r] \notin Live
      <3>1. s # t /\ tx'[s] = tx[s]
        BY <2>1, <2>2, <2>4
      <3>2. r # q.r
        BY <2>2, <2>4, <3>1 DEF LoneOf
      <3>3. status[r] \notin Live
        BY <2>2, <2>4, <3>1 DEF LoneOf
      <3> QED
        BY <1>4, <3>2, <3>3
    <2>5. \A s, u \in Tx : Entered(tx'[s]) /\ Entered(tx'[u]) /\ Owner[tx'[s].r] = Owner[tx'[u].r] => s = u
      BY <2>1, <2>2 DEF LoneOf
    <2> QED
      BY <2>3, <2>4, <2>5 DEF LoneOf
  <1>6. ASSUME Calm
        PROVE  /\ \A s \in Tx \ {t} : CalmOf(s, tx[s], excl, status', names', members', mapping', grant')
               /\ OwnedOf(grant') /\ SettledOf(status', names', members', mapping', grant')
               /\ \A r \in Row : status'[r] = "none" => status[r] = "none"
    <2>1. ASSUME NEW r \in Row, r # q.r PROVE Held(r, grant') = Held(r, grant)
      <3>1. q.plan[r].add = {} /\ q.plan[r].drop = {}
        <4>1. PlanOf(t, q, excl, status)
          BY OwnFacts
        <4> QED
          BY <1>1, <2>1, <4>1 DEF PlanOf
      <3> QED
        BY <1>1, <3>1, PlanHeld
    <2>2. ASSUME status'[q.r] = "active" PROVE Held(q.r, grant') = OrViewer(MappedRoles(q.r, names', members', mapping'))
      <3>1. Planned(t, q, excl, status, q.r)
        BY <1>1, <1>3, <1>4, <2>2 DEF Planned
      <3>2. Held(q.r, grant') = OrViewer(RolesSeen(q.r, q, names, members, mapping))
        BY <1>1, <1>2, <1>6, <3>1, PlanDone
      <3>3. RolesSeen(q.r, q, names, members, mapping) = MappedRoles(q.r, names', members', mapping')
        BY <1>1, <1>2 DEF RolesSeen, NamesSeen, MembersSeen, MappingSeen
      <3> QED
        BY <3>2, <3>3
    <2>3. /\ members' \in [Group -> SUBSET Row]
          /\ \A g \in Group : members'[g] \subseteq members[g] /\ \A r \in Row : r # q.r => (r \in members'[g] <=> r \in members[g])
      BY <1>1, TypeFacts
    <2>4. OwnedOf(grant')
      BY <1>1, <1>2, <1>6, ApplyOwned DEF CInv, CalmInv
    <2>5. \A r \in Row : r # q.r => status'[r] = status[r] /\ Held(r, grant') = Held(r, grant)
      BY <1>4, <2>1
    <2>6. /\ \A s \in Tx \ {t} : CalmOf(s, tx[s], excl, status', names', members', mapping', grant')
          /\ SettledOf(status', names', members', mapping', grant')
          /\ \A r \in Row : status'[r] = "none" => status[r] = "none"
      BY <1>1, <1>2, <1>3, <1>4, <1>6, <2>2, <2>3, <2>5, CommitOneRow
    <2> QED
      BY <2>4, <2>6
  <1> QED
    BY <1>1, <1>5, <1>6, CommitCInv

\* Taking the memberships of a live user away concerns no other row.
LEMMA StripHeld ==
  ASSUME IInv, CInv, NEW r \in Row, status[r] \in Live, grant' = Strip(r), NEW k \in Row, k # r
  PROVE  Held(k, grant') = Held(k, grant)
  <1>1. Owner[k] \in User
    BY DEF User
  <1>2. CASE Owner[k] # Owner[r]
    BY <1>1, <1>2, StripFacts DEF Held
  <1>3. CASE Owner[k] = Owner[r]
    <2>1. status[k] # "active"
      BY <1>3 DEF CInv, LoneOf, Live
    <2>2. Held(k, grant) = {}
      BY <2>1, InactiveFacts DEF Held
    <2>3. Held(k, grant') = {}
      BY <1>3, StripFacts, Basics DEF Held
    <2> QED
      BY <2>2, <2>3
  <1> QED
    BY <1>2, <1>3

\* No membership changes its row.
LEMMA StripOwned ==
  ASSUME IInv, OwnedOf(grant), NEW r \in Row, grant' = Strip(r)
  PROVE  OwnedOf(grant')
  <1>1. \A u \in User, role \in Role : grant'[u][role] = None \/ grant'[u][role] = grant[u][role]
    BY StripFacts
  <1> QED
    BY <1>1 DEF OwnedOf

\* A user is updated.
LEMMA CommitUpdateUserCInv ==
  ASSUME IInv, IInv', CInv, NEW t \in Tx, CommitUpdateUser(t)
  PROVE  CInv'
  <1> DEFINE q == tx[t]
             st == IF q.active THEN "active" ELSE "inactive"
  <1>1. /\ q.pc = "commit" /\ q.op = "update_user" /\ Finish(t)
        /\ status' = [status EXCEPT ![q.r] = st] /\ version' = [version EXCEPT ![q.r] = @ + 1]
        /\ grant' = IF q.was /\ ~q.active THEN Strip(q.r) ELSE ApplyPlan(q.plan)
        /\ names' = names /\ members' = members /\ mapping' = mapping /\ client' = client
    BY DEF CommitUpdateUser
  <1>2. st \in Live /\ st # "none" /\ (st = "active" <=> q.active)
    BY DEF Live
  <1> HIDE DEF st
  <1>3. /\ q.r \in Row /\ status[q.r] \in Live /\ excl[<<"user", q.r>>] = t /\ (q.was <=> status[q.r] = "active")
        /\ status'[q.r] = st /\ \A r \in Row : r # q.r => status'[r] = status[r]
    BY <1>1, <1>2, UserCommitFacts DEF UserOp
  <1>4. q.plan \in Plans /\ q.g = None
    BY <1>1, OwnFacts DEF TxType, ShapeOf, GroupOp, PatchOp
  <1>5. LoneOf(tx', status')
    BY <1>1, <1>3, LoneKept
  <1>6. ASSUME Calm
        PROVE  /\ \A s \in Tx \ {t} : CalmOf(s, tx[s], excl, status', names', members', mapping', grant')
               /\ OwnedOf(grant') /\ SettledOf(status', names', members', mapping', grant')
               /\ \A r \in Row : status'[r] = "none" => status[r] = "none"
    <2>0. PlanOf(t, q, excl, status) /\ OwnedOf(grant)
      BY <1>6, OwnFacts DEF CInv, CalmInv
    <2>1. ASSUME NEW r \in Row, r # q.r PROVE Held(r, grant') = Held(r, grant)
      <3>1. CASE q.was /\ ~q.active
        BY <1>1, <1>3, <2>1, <3>1, StripHeld
      <3>2. CASE ~(q.was /\ ~q.active)
        <4>1. q.plan[r].add = {} /\ q.plan[r].drop = {}
          BY <1>1, <2>0, <2>1 DEF PlanOf
        <4> QED
          BY <1>1, <3>2, <4>1, PlanHeld
      <3> QED
        BY <3>1, <3>2
    <2>2. ASSUME status'[q.r] = "active" PROVE Held(q.r, grant') = OrViewer(MappedRoles(q.r, names', members', mapping'))
      <3>0. q.active /\ grant' = ApplyPlan(q.plan)
        BY <1>1, <1>2, <1>3, <2>2
      <3>1. CASE q.was
        <4>1. q.plan[q.r].add = {} /\ q.plan[q.r].drop = {}
          BY <1>1, <1>3, <2>0, <3>1 DEF PlanOf
        <4>2. Held(q.r, grant') = Held(q.r, grant)
          BY <1>1, <1>3, <3>0, <4>1, PlanHeld
        <4> QED
          BY <1>1, <1>3, <1>6, <3>1, <4>2 DEF CInv, CalmInv, SettledOf
      <3>2. CASE ~q.was
        <4>1. Planned(t, q, excl, status, q.r)
          BY <1>1, <3>0, <3>2 DEF Planned
        <4>2. Held(q.r, grant') = OrViewer(RolesSeen(q.r, q, names, members, mapping))
          BY <1>1, <1>3, <1>6, <3>0, <4>1, PlanDone
        <4>3. RolesSeen(q.r, q, names, members, mapping) = MappedRoles(q.r, names', members', mapping')
          BY <1>1, <1>4 DEF RolesSeen, NamesSeen, MembersSeen, MappingSeen
        <4> QED
          BY <4>2, <4>3
      <3> QED
        BY <3>1, <3>2
    <2>3. /\ members' \in [Group -> SUBSET Row]
          /\ \A g \in Group : members'[g] \subseteq members[g] /\ \A r \in Row : r # q.r => (r \in members'[g] <=> r \in members[g])
      BY <1>1, TypeFacts
    <2>4. OwnedOf(grant')
      <3>1. CASE q.was /\ ~q.active
        BY <1>1, <1>3, <2>0, <3>1, StripOwned
      <3>2. CASE ~(q.was /\ ~q.active)
        BY <1>1, <1>4, <2>0, <3>2, ApplyOwned
      <3> QED
        BY <3>1, <3>2
    <2>5. \A r \in Row : r # q.r => status'[r] = status[r] /\ Held(r, grant') = Held(r, grant)
      BY <1>3, <2>1
    <2>6. /\ \A s \in Tx \ {t} : CalmOf(s, tx[s], excl, status', names', members', mapping', grant')
          /\ SettledOf(status', names', members', mapping', grant')
          /\ \A r \in Row : status'[r] = "none" => status[r] = "none"
      BY <1>1, <1>2, <1>3, <1>6, <2>2, <2>3, <2>5, CommitOneRow
    <2> QED
      BY <2>4, <2>6
  <1> QED
    BY <1>1, <1>5, <1>6, CommitCInv

\* A user is deleted.
LEMMA CommitDeleteUserCInv ==
  ASSUME IInv, IInv', CInv, NEW t \in Tx, CommitDeleteUser(t)
  PROVE  CInv'
  <1> DEFINE q == tx[t]
  <1>1. /\ q.pc = "commit" /\ q.op = "delete_user" /\ Finish(t) /\ grant' = Strip(q.r)
        /\ status' = [status EXCEPT ![q.r] = "deleted"] /\ version' = [version EXCEPT ![q.r] = @ + 1]
        /\ members' = [g \in Group |-> members[g] \ {q.r}]
        /\ names' = names /\ mapping' = mapping /\ client' = client
    BY DEF CommitDeleteUser
  <1>2. /\ q.r \in Row /\ status[q.r] \in Live /\ excl[<<"user", q.r>>] = t
        /\ status'[q.r] = "deleted" /\ \A r \in Row : r # q.r => status'[r] = status[r]
    BY ZenonT(60), <1>1, UserCommitFacts DEF UserOp
  <1>3. LoneOf(tx', status')
    BY <1>1, <1>2, LoneKept
  <1>4. ASSUME Calm
        PROVE  /\ \A s \in Tx \ {t} : CalmOf(s, tx[s], excl, status', names', members', mapping', grant')
               /\ OwnedOf(grant') /\ SettledOf(status', names', members', mapping', grant')
               /\ \A r \in Row : status'[r] = "none" => status[r] = "none"
    <2>1. \A r \in Row : r # q.r => status'[r] = status[r] /\ Held(r, grant') = Held(r, grant)
      BY <1>1, <1>2, StripHeld
    <2>2. /\ members' \in [Group -> SUBSET Row]
          /\ \A g \in Group : members'[g] \subseteq members[g] /\ \A r \in Row : r # q.r => (r \in members'[g] <=> r \in members[g])
      BY <1>1, TypeFacts
    <2>3. OwnedOf(grant')
      BY <1>1, <1>2, <1>4, StripOwned DEF CInv, CalmInv
    <2>4. /\ \A s \in Tx \ {t} : CalmOf(s, tx[s], excl, status', names', members', mapping', grant')
          /\ SettledOf(status', names', members', mapping', grant')
          /\ \A r \in Row : status'[r] = "none" => status[r] = "none"
      BY <1>1, <1>2, <1>4, <2>1, <2>2, CommitOneRow
    <2> QED
      BY <2>3, <2>4
  <1> QED
    BY <1>1, <1>3, <1>4, CommitCInv

\* CInv holds initially.
LEMMA InitCInv == Init => CInv
  <1> SUFFICES ASSUME Init PROVE CInv
    OBVIOUS
  <1>1. /\ \A t \in Tx : tx[t] = Idle
        /\ \A r \in Row : status[r] = "none"
        /\ \A u \in User, role \in Role : grant[u][role] = None
        /\ \A r \in Row : excl[<<"user", r>>] = None
    BY Resources DEF Init
  <1>2. LoneOf(tx, status)
    BY <1>1, Basics DEF LoneOf, Entered, Live
  <1>3. \A t \in Tx : CalmOf(t, tx[t], excl, status, names, members, mapping, grant)
    BY <1>1, IdleCalm
  <1>4. OwnedOf(grant) /\ LockedOf(excl, status) /\ SettledOf(status, names, members, mapping, grant)
    BY <1>1 DEF OwnedOf, LockedOf, SettledOf
  <1> QED
    BY <1>2, <1>3, <1>4 DEF CInv, CalmInv

\* Every step keeps CInv.
LEMMA NextCInv == IInv /\ IInv' /\ CInv /\ [Next]_vars => CInv'
  <1> SUFFICES ASSUME IInv, IInv', CInv, [Next]_vars PROVE CInv'
    OBVIOUS
  <1>1. ASSUME NEW t \in Tx, TxStep(t) PROVE CInv'
    <2>1. CASE DeadlockVictim(t)
      BY <2>1, AbortCInv DEF DeadlockVictim
    <2> QED
      BY <1>1, <2>1, ClaimNameCInv, LockScimGroupCInv, ClearMembersCInv, CheckMembersCInv, InsertMembersCInv, LockUsersCInv,
         ReconcileCInv, CommitGroupCInv, FindGroupByNameCInv, LockGroupByNameCInv, WriteMappingCInv,
         CommitMappingCInv, InsertUserCInv, LockScimUserCInv, ReconcileUserCInv, CreateMembershipsCInv,
         CommitProvisionCInv, CommitUpdateUserCInv, FindGroupsCInv, LockScimGroupsForUserCInv,
         LeaveGroupsCInv, CommitDeleteUserCInv DEF TxStep
  <1>2. ASSUME NEW t \in Tx, Request(t) PROVE CInv'
    BY <1>2, RequestCInv
  <1>3. ASSUME NEW u \in User, NEW role \in Role, GrantMembership(u, role) \/ RevokeMembership(u, role)
        PROVE  CInv'
    <2>1. tx' = tx /\ status' = status /\ client' = client /\ ~Calm
      BY <1>3 DEF GrantMembership, RevokeMembership, Calm
    <2>2. ~Calm'
      BY <2>1 DEF Calm
    <2> QED
      BY <2>1, <2>2 DEF CInv
  <1>4. CASE UNCHANGED vars
    BY <1>4 DEF vars, CInv, CalmInv, Calm
  <1> QED
    BY <1>1, <1>2, <1>3, <1>4 DEF Next

\* CInv holds in every reachable state.
LEMMA CalmInvariance == Spec => [](IInv /\ CInv)
  BY Invariance, InitCInv, NextCInv, PTL DEF Spec

\* Reconciliation is atomic with what it follows: with clients that neither
\* create or rename groups nor change memberships by hand, no committed state
\* shows an active user with other roles than its groups map to, or Viewer.
THEOREM NoStaleRoles ==
  Spec => [](Calm => \A r \in Row : status[r] = "active" =>
                Managed(r) = OrViewer(MappedRoles(r, names, members, mapping)))
  <1>1. IInv /\ CInv => (Calm => \A r \in Row : status[r] = "active" =>
                             Managed(r) = OrViewer(MappedRoles(r, names, members, mapping)))
    BY DEF CInv, CalmInv, SettledOf, Managed, Held
  <1> QED
    BY <1>1, CalmInvariance, PTL

\* A person has at most one row that is not a tombstone, although rows are
\* inserted, deleted and inserted again by requests that overlap.
THEOREM OneLiveRow ==
  Spec => [](\A r, k \in Row : status[r] \in Live /\ status[k] \in Live /\ Owner[r] = Owner[k] => r = k)
  <1>1. CInv => \A r, k \in Row : status[r] \in Live /\ status[k] \in Live /\ Owner[r] = Owner[k] => r = k
    BY DEF CInv, LoneOf
  <1> QED
    BY <1>1, CalmInvariance, PTL

\* Once nothing is in flight, an active user holds exactly the roles its groups
\* map to, or Viewer (ReconciledWhenQuiet): whatever group, mapping and user
\* requests ran at the same time, and whichever the deadlock detector aborted.
THEOREM RolesFollowGroups == Spec => []ReconciledWhenQuiet
  <1>1. IInv /\ CInv => ReconciledWhenQuiet
    <2> SUFFICES ASSUME IInv, CInv, Calm, NEW r \in Row, status[r] = "active"
                 PROVE  LET mapped == MappedRoles(r, names, members, mapping)
                            held == Managed(r) \cup Manual(r)
                        IN  /\ Managed(r) \subseteq (IF mapped = {} THEN {Viewer} ELSE mapped)
                            /\ mapped \subseteq held
                            /\ held # {}
      BY DEF ReconciledWhenQuiet, Calm
    <2>1. Managed(r) = OrViewer(MappedRoles(r, names, members, mapping))
      BY DEF CInv, CalmInv, SettledOf, Managed, Held
    <2> QED
      BY <2>1 DEF OrViewer
  <1> QED
    BY <1>1, CalmInvariance, PTL
=============================================================================
