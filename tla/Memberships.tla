----------------------------- MODULE Memberships ----------------------------
(***************************************************************************)
(* The memberships API of one organization (internal/api/memberships.go,   *)
(* cleanup.go): create one, delete one, replace all of a user, remove all  *)
(* of the organization.                                                    *)
(*                                                                         *)
(* Every request is one READ COMMITTED transaction.  A statement that      *)
(* deletes rows picks them among the rows committed when it starts, waits  *)
(* for the ones other transactions have deleted, and skips those that are  *)
(* gone afterwards; rows committed meanwhile are not looked at.            *)
(***************************************************************************)
EXTENDS Naturals, FiniteSets

CONSTANTS
    Tx,         \* concurrent requests
    Membership, \* membership ids
    User,
    Role,       \* the roles and custom subjects, each at one scope
    Admin,      \* those of the Admin role, at any scope
    None,       \* no user, no role, no lock holder
    Initial,    \* [m] the memberships that exist already
    Ops,        \* the handlers that clients use
    MaxRequests \* bound: requests

ASSUME MembershipAssumption ==
    /\ Admin \subseteq Role
    /\ None \notin User \cup Role \cup Tx \cup Membership
    /\ Initial \in [Membership -> [user : User, role : Role] \cup {[user |-> None, role |-> None]}]
    /\ \A m, k \in Membership : Initial[m].user # None /\ Initial[m] = Initial[k] => m = k
    /\ MaxRequests \in Nat

VARIABLES
    row,   \* [m] user and role of a live membership
    born,  \* ids that were used already
    lock,  \* [m] the transaction that deleted the row
    tx,    \* [t] the request: handler, program counter, arguments and writes, and
           \* (for the properties) the rows of its target when it began
    raced, \* requests in flight that overlapped another one
    ops    \* requests started

membershipVars == <<row, born, lock, tx, raced, ops>>

Absent == [user |-> None, role |-> None]
Idle == [op |-> "idle", pc |-> "idle", user |-> None, todo |-> {}, del |-> {}, roles |-> {},
         seen |-> {}]

MembershipsInit ==
    /\ row = Initial
    /\ born = {m \in Membership : Initial[m] # Absent}
    /\ lock = [m \in Membership |-> None]
    /\ tx = [t \in Tx |-> Idle]
    /\ raced = {}
    /\ ops = 0

Live == {m \in Membership : row[m] # Absent}
RowsOf(u) == {m \in Membership : row[m].user = u}
RolesOf(u, table) == {table[m].role : m \in {k \in Membership : table[k].user = u}}
Admins(table) == {m \in Membership : table[m].role \in Admin}

InFlight(t) == {o \in Tx \ {t} : tx[o] # Idle}

StartRequest(t, rec) ==
    /\ rec.op \in Ops
    /\ tx[t] = Idle
    /\ ops < MaxRequests
    /\ ops' = ops + 1
    /\ tx' = [tx EXCEPT ![t] = rec]
    /\ raced' = raced \cup InFlight(t) \cup (IF InFlight(t) = {} THEN {} ELSE {t})
    /\ UNCHANGED <<row, born, lock>>

Finish(t) ==
    /\ tx' = [tx EXCEPT ![t] = Idle]
    /\ lock' = [m \in Membership |-> IF lock[m] = t THEN None ELSE lock[m]]
    /\ raced' = raced \ {t}
    /\ UNCHANGED ops

Rollback(t) == Finish(t) /\ UNCHANGED <<row, born>>

-----------------------------------------------------------------------------
(* The requests and what they read first.                                  *)

\* InternalCreateOrgMembership.
Create(t, u, role) ==
    StartRequest(t, [Idle EXCEPT !.op = "create", !.pc = "insert", !.user = u, !.roles = {role}])

\* DeleteOrgMembership: the last membership of the Admin role, of whatever
\* scope, is refused.
Delete(t, m) ==
    /\ row[m] # Absent
    /\ Admins(row) # {m}
    /\ StartRequest(t, [Idle EXCEPT !.op = "delete", !.pc = "delete", !.user = row[m].user, !.todo = {m},
                              !.seen = {m}])

\* ReplaceOrgUserMemberships: the target must be a member.  (The caller must
\* be somebody else; callers are not part of the state.)
Replace(t, u, roles) ==
    /\ RowsOf(u) # {}
    /\ StartRequest(t, [Idle EXCEPT !.op = "replace", !.pc = "bulk", !.user = u, !.roles = roles,
                              !.seen = RowsOf(u)])

\* InternalRemoveAccessFromOrg.
RemoveAccess(t) ==
    StartRequest(t, [Idle EXCEPT !.op = "remove", !.pc = "bulk", !.seen = Live])

-----------------------------------------------------------------------------
(* The statements that write.                                              *)

\* BulkDeleteMemberships starts: of one user, or of the organization.
BulkDelete(t) ==
    /\ tx[t].pc = "bulk"
    /\ tx' = [tx EXCEPT ![t].pc = "delete",
                        ![t].todo = IF tx[t].op = "replace" THEN RowsOf(tx[t].user) ELSE Live]
    /\ UNCHANGED <<row, born, lock, raced, ops>>

DeleteRowsUncheckedBug(t) ==
    /\ tx[t].pc = "delete"
    /\ \A m \in tx[t].todo : lock[m] = None
    /\ lock' = [m \in Membership |-> IF m \in tx[t].todo THEN t ELSE lock[m]]
    /\ tx' = [tx EXCEPT ![t].pc = IF tx[t].op = "replace" THEN "insert" ELSE "commit",
                        ![t].del = tx[t].todo, ![t].todo = {}]
    /\ UNCHANGED <<row, born, raced, ops>>

DeleteRowsSkipLockedBug(t) ==
    /\ tx[t].pc = "delete"
    /\ LET free == {m \in tx[t].todo : row[m] # Absent /\ lock[m] = None} IN
       IF tx[t].op = "delete" /\ free = {}
       THEN Rollback(t)
       ELSE /\ lock' = [m \in Membership |-> IF m \in free THEN t ELSE lock[m]]
            /\ tx' = [tx EXCEPT ![t].pc = IF tx[t].op = "replace" THEN "insert" ELSE "commit",
                                ![t].del = free, ![t].todo = {}]
            /\ UNCHANGED <<row, born, raced, ops>>

\* The rows are deleted.  DeleteMembership of a row that is gone is an error,
\* which the handler answers as an internal error.
DeleteRows(t) ==
    /\ tx[t].pc = "delete"
    /\ \A m \in tx[t].todo : lock[m] = None
    /\ LET live == {m \in tx[t].todo : row[m] # Absent} IN
       IF tx[t].op = "delete" /\ live = {}
       THEN Rollback(t)
       ELSE /\ lock' = [m \in Membership |-> IF m \in live THEN t ELSE lock[m]]
            /\ tx' = [tx EXCEPT ![t].pc = IF tx[t].op = "replace" THEN "insert" ELSE "commit",
                                ![t].del = live, ![t].todo = {}]
            /\ UNCHANGED <<row, born, raced, ops>>

\* Any other failure of the statement, which DeleteOrgMembership answers as
\* not found.
DeleteFails(t) ==
    /\ tx[t].pc = "delete"
    /\ tx[t].op = "delete"
    /\ Rollback(t)

\* CreateMembership: the unique constraint waits for an equal row that another
\* transaction inserts or deletes and fails on a committed one.
InsertRows(t) ==
    /\ tx[t].pc = "insert"
    /\ \A o \in Tx \ {t} :
          ~(tx[o].pc = "commit" /\ tx[o].user = tx[t].user /\ tx[o].roles \cap tx[t].roles # {})
    /\ LET equal == {m \in RowsOf(tx[t].user) \ tx[t].del : row[m].role \in tx[t].roles} IN
       /\ \A m \in equal : lock[m] = None
       /\ IF equal # {}
          THEN Rollback(t)
          ELSE tx' = [tx EXCEPT ![t].pc = "commit"] /\ UNCHANGED <<row, born, lock, raced, ops>>

\* The scope is not valid, or the role is not there (any more).
InsertFails(t) ==
    /\ tx[t].pc = "insert"
    /\ Rollback(t)

\* Ids for the new rows, in any order that gives every role its own.
NewIds(t) ==
    {f \in [tx[t].roles -> Membership \ born] : \A a, b \in tx[t].roles : a # b => f[a] # f[b]}

WrittenFirstRoleOnlyBug(t, id) ==
    LET first == IF tx[t].roles = {} THEN {} ELSE {CHOOSE r \in tx[t].roles : TRUE} IN
    [m \in Membership |->
        CASE m \in tx[t].del -> Absent
          [] \E r \in first : id[r] = m ->
               [user |-> tx[t].user, role |-> CHOOSE r \in first : id[r] = m]
          [] OTHER -> row[m]]

\* The table after the deletions and insertions of a request.
Written(t, id) ==
    [m \in Membership |->
        CASE m \in tx[t].del -> Absent
          [] \E r \in tx[t].roles : id[r] = m ->
               [user |-> tx[t].user, role |-> CHOOSE r \in tx[t].roles : id[r] = m]
          [] OTHER -> row[m]]

Commit(t) ==
    /\ tx[t].pc = "commit"
    /\ \E id \in NewIds(t) :
          /\ row' = Written(t, id)
          /\ born' = born \cup {id[r] : r \in tx[t].roles}
    /\ Finish(t)

-----------------------------------------------------------------------------

MembershipsNext ==
    \E t \in Tx :
        \/ \E u \in User, role \in Role : Create(t, u, role)
        \/ \E m \in Membership : Delete(t, m)
        \/ \E u \in User, roles \in SUBSET Role : Replace(t, u, roles)
        \/ RemoveAccess(t)
        \/ BulkDelete(t) \/ DeleteRows(t) \/ DeleteFails(t)
        \/ InsertRows(t) \/ InsertFails(t) \/ Commit(t)

MembershipsSpec == MembershipsInit /\ [][MembershipsNext]_membershipVars

-----------------------------------------------------------------------------
(* Properties.                                                             *)

MembershipsTypeOK ==
    /\ row \in [Membership -> [user : User, role : Role] \cup {Absent}]
    /\ born \subseteq Membership
    /\ lock \in [Membership -> Tx \cup {None}]
    /\ raced \subseteq Tx
    /\ ops \in 0..MaxRequests

Commits(t, op) == tx[t].op = op /\ tx[t].pc = "commit" /\ tx'[t] = Idle

\* What DeleteOrgMembership, ReplaceOrgUserMemberships and
\* InternalRemoveAccessFromOrg report as removed is gone, whatever overlapped:
\* when one of them commits, no membership that its target had when the
\* request began is left, although other requests may have deleted some of
\* the same rows first and then have committed or failed.
DeletionsHold ==
    [][\A t \in Tx : \A kind \in {"delete", "replace", "remove"} :
          Commits(t, kind) => \A m \in tx[t].seen : row'[m] = Absent]_membershipVars

\* "Replace all memberships for a user in an organization": afterwards the
\* user holds what was asked for and nothing else, unless another request
\* (of ReplaceOrgUserMemberships for the same user, say) overlapped.
ReplaceIsExact ==
    [][\A t \in Tx \ raced : Commits(t, "replace") => RolesOf(tx[t].user, row') = tx[t].roles]_membershipVars

\* A membership that a request reported as deleted was there until then, and
\* a user never holds a role twice, whatever requests run at the same time.
NoPhantomRows ==
    /\ \A m, k \in Membership : row[m] # Absent /\ row[m] = row[k] => m = k
    /\ \A t \in Tx : tx[t].op = "delete" /\ tx[t].pc = "commit" => \A m \in tx[t].del : row[m] # Absent

\* Types, and that the deletions and insertions of the membership handlers
\* report what the rows say.
MembershipInv == MembershipsTypeOK /\ NoPhantomRows
=============================================================================
