-------------------- MODULE AuthorizationMigration_proofs -------------------
(***************************************************************************)
(* Proofs about AuthorizationMigration, for any number of replicas, any    *)
(* projects and environments, and any number of crashes, restarts,         *)
(* rollbacks and writes.                                                   *)
(***************************************************************************)
EXTENDS AuthorizationMigration, TLAPS

Late == {"state", "verify", "skip", "list", "sync", "recheck", "mark"}
\* Where a process holds the advisory lock.
Crit == {"version", "migrate", "open"} \cup Late
\* The operator is rolling back.
Undo == {"down", "validate"}

Fingerprint == {None} \cup Policy
StateType == [policy : Fingerprint, reconciled : BOOLEAN]
ProcType == [pc : Crit \cup Undo \cup {"off", "lock", "serving", "done"}, expected : Fingerprint,
             effective : Fingerprint, state : StateType \cup {None}, listed : SUBSET Scope]

\* No environment hangs below the organization.
Sound == \A e \in Env : parent[e] # Org

Types ==
    /\ TypeOK /\ saved \in Fingerprint /\ proc \in [Process -> ProcType]
    /\ \A r \in Replica : proc[r].pc \notin Undo \cup {"done"}
    /\ proc[Operator].pc # "serving"

\* The advisory lock is held by whoever upgrades, and a deployment that was
\* scaled to zero runs no replica.
LockInv ==
    /\ \A p \in Process : proc[p].pc \in Crit => lock = p
    /\ ~deployed => \A r \in Replica : proc[r].pc = "off"

\* The table that remembers the upgrade, and what it says of the data.
StateInv ==
    /\ IF version < Casbin THEN state = None
                           ELSE state \in StateType /\ (state.reconciled => Sound)
    /\ \A e \in Env : parent[e] \in {None, Org, ProjectOf[e]}
    /\ version > Legacy => \A b \in rbac : b.role # None

\* Until the upgrade is recorded the data is what it was in the legacy schema.
OriginInv ==
    origin # None =>
        /\ policyFingerprint = origin
        /\ ~(version < Casbin) => ~state.reconciled

\* How far an upgrade has got.
PhaseOf(q) ==
    /\ q.pc \in {"migrate", "open"} => version <= Latest
    /\ q.pc \in Late \cup {"serving"} => version = Latest
    /\ q.pc = "verify" => q.state = state
    /\ q.pc \in {"skip", "serving"} => state.reconciled
    /\ q.pc = "mark" => Sound

PhaseInv == \A p \in Process : PhaseOf(proc[p])

\* A rollback runs alone, with the bindings of the report that guards it, and
\* restores the projection with the last step.
UndoOf(q) ==
    q.pc \in Undo =>
        /\ ~deployed /\ policyFingerprint = q.expected /\ version \in Legacy..Casbin
        /\ version = Legacy => Grants(rbac) \subseteq scoped
        /\ q.pc = "validate" => version = Legacy

IInv == Types /\ LockInv /\ StateInv /\ OriginInv /\ PhaseInv /\ UndoOf(proc[Operator])
-----------------------------------------------------------------------------
\* The schema versions in order.
LEMMA Versions ==
  /\ Legacy \in Nat /\ Casbin \in Nat /\ Latest \in Nat /\ 0 < Legacy
  /\ Legacy < Casbin /\ Casbin <= Latest /\ Legacy + 1 < Casbin /\ Casbin - 1 = Legacy + 1
  /\ Legacy..Casbin = {Legacy, Legacy + 1, Casbin}
  BY MigrationAssumption

\* The processes and the resources, apart from one another.
LEMMA Basics ==
  /\ Off \in ProcType /\ Off.pc = "off" /\ Off.expected = None
  /\ Operator \in Process /\ Operator \notin Replica /\ \A r \in Replica : r \in Process
  /\ \A p \in Process : p # None /\ (p # Operator => p \in Replica)
  /\ Org # None /\ Org \in Resource /\ Org \notin Env
  /\ \A p \in Project : p # None /\ p # Org /\ p \in Resource /\ p \notin Env
  /\ \A e \in Env : e \in Resource /\ ProjectOf[e] \in Project /\ ProjectOf[e] # None /\ ProjectOf[e] # Org
  <1>1. Off \in ProcType /\ Off.pc = "off" /\ Off.expected = None
    BY DEF Off, ProcType, Fingerprint
  <1>2. /\ Operator \in Process /\ Operator \notin Replica /\ \A r \in Replica : r \in Process
        /\ \A p \in Process : p # None /\ (p # Operator => p \in Replica)
    BY MigrationAssumption DEF Process
  <1>3. Org # None /\ Org \in Resource /\ Org \notin Env /\ \A e \in Env : e \in Resource /\ ProjectOf[e] \in Project
    BY MigrationAssumption DEF Resource, Scope
  <1>4. \A p \in Project : p # None /\ p # Org /\ p \in Resource /\ p \notin Env
    BY MigrationAssumption DEF Resource, Scope
  <1> QED
    BY <1>1, <1>2, <1>3, <1>4

\* The types, one variable at a time.
LEMMA TypeFacts ==
  ASSUME IInv
  PROVE  /\ version \in 0..(Latest + 1) /\ version \in Nat /\ roles \in BOOLEAN /\ rbac \in SUBSET Row
         /\ scoped \subseteq Grant /\ origin \in Fingerprint /\ parent \in [Resource -> {None, Org} \cup Project]
         /\ lock \in Process \cup {None} /\ cp \in [Scope -> {"new", "live", "gone"}] /\ events \subseteq Scope
         /\ faults \in 0..MaxFaults /\ writes \in 0..MaxWrites /\ deployed \in BOOLEAN
         /\ saved \in Fingerprint /\ proc \in [Process -> ProcType]
  BY MigrationAssumption DEF IInv, Types, TypeOK, Fingerprint

\* What a row says.
LEMMA CanonicalFacts ==
  ASSUME NEW b \in Row
  PROVE  /\ Canonical(b) \in Binding /\ Canonical(b).role \in Role /\ Canonical(b).role # None
         /\ b.role # None => Canonical(b).role = b.role
         /\ b.on # Org => b.on \in Scope
  BY MigrationAssumption DEF Row, Binding, Canonical, Resource

\* A fingerprint stands for a policy.
LEMMA PolicyFacts ==
  ASSUME IInv
  PROVE  policyFingerprint \in Fingerprint
  BY TypeFacts, CanonicalFacts DEF policyFingerprint, Policy, Fingerprint

\* The migration that fills in the roles changes no fingerprint.
LEMMA BackfillFacts ==
  ASSUME IInv, rbac' = {[b EXCEPT !.role = Canonical(b).role] : b \in rbac}, roles' = roles
  PROVE  policyFingerprint' = policyFingerprint /\ rbac' \subseteq Row /\ \A b \in rbac' : b.role # None
  <1> DEFINE Filled(b) == [b EXCEPT !.role = Canonical(b).role]
  <1>1. ASSUME NEW b \in rbac
        PROVE  Filled(b) \in Row /\ Filled(b).role # None /\ Canonical(Filled(b)) = Canonical(b)
    <2>1. b \in Row
      BY TypeFacts
    <2>2. Canonical(b).role \in Role /\ Canonical(b).role # None
      BY <2>1, CanonicalFacts
    <2>3. /\ Filled(b) \in Row /\ Filled(b).role = Canonical(b).role
          /\ Filled(b).kind = b.kind /\ Filled(b).on = b.on
      BY <2>1, <2>2 DEF Row
    <2> HIDE DEF Filled
    <2> QED
      BY <2>2, <2>3 DEF Canonical
  <1>2. rbac' = {Filled(b) : b \in rbac}
    OBVIOUS
  <1> HIDE DEF Filled
  <1>3. {Canonical(c) : c \in rbac'} = {Canonical(b) : b \in rbac}
    BY <1>1, <1>2
  <1> QED
    BY <1>1, <1>2, <1>3 DEF policyFingerprint

\* What the invariant says of one process.
LEMMA OwnFacts ==
  ASSUME IInv, NEW p \in Process
  PROVE  /\ proc[p] \in ProcType /\ PhaseOf(proc[p]) /\ (proc[p].pc \in Crit => lock = p)
         /\ p \in Replica => proc[p].pc \notin Undo \cup {"done"}
         /\ p = Operator => proc[p].pc # "serving" /\ UndoOf(proc[p])
  BY TypeFacts DEF IInv, Types, LockInv, PhaseInv

\* While somebody upgrades, nobody else does and nothing is rolled back.
LEMMA AloneFacts ==
  ASSUME IInv, NEW p \in Process, proc[p].pc \in Crit
  PROVE  /\ \A s \in Process \ {p} : proc[s].pc \notin Crit
         /\ proc[Operator].pc \notin Undo
  <1>1. \A s \in Process \ {p} : proc[s].pc \notin Crit
    BY DEF IInv, LockInv
  <1>2. ASSUME proc[Operator].pc \in Undo PROVE FALSE
    <2>1. ~deployed
      BY <1>2 DEF IInv, UndoOf
    <2>2. p # Operator
      BY <1>2 DEF Crit, Late, Undo
    <2>3. proc[p].pc = "off"
      BY <2>1, <2>2, Basics DEF IInv, LockInv
    <2> QED
      BY <2>3 DEF Crit, Late
  <1> QED
    BY <1>1, <1>2

Becomes(p, new) == proc' = [s \in Process |-> IF s = p THEN new ELSE proc[s]]

\* A step of one process that leaves the database alone.
LEMMA LocalIInv ==
  ASSUME IInv, NEW p \in Process, NEW new \in ProcType, Becomes(p, new),
         UNCHANGED <<version, data, saved, deployed, cp, events, writes>>, faults' \in 0..MaxFaults,
         lock' \in Process \cup {None}, \A s \in Process \ {p} : lock = s => lock' = s,
         new.pc \in Crit => lock' = p,
         p \in Replica => new.pc \notin Undo \cup {"done"} /\ (~deployed => new.pc = "off"),
         p = Operator => new.pc # "serving" /\ UndoOf(new),
         PhaseOf(new)
  PROVE  IInv'
  <1>1. proc' \in [Process -> ProcType] /\ proc'[p] = new /\ \A s \in Process \ {p} : proc'[s] = proc[s]
    BY TypeFacts DEF Becomes
  <1>2. UNCHANGED <<version, roles, rbac, scoped, parent, state, origin, saved, deployed, cp, events, writes>>
    BY DEF data
  <1>3. Types'
    BY <1>1, <1>2, Basics DEF IInv, Types, TypeOK
  <1>4. LockInv'
    BY <1>1, <1>2, Basics DEF IInv, LockInv
  <1>5. StateInv'
    BY <1>2 DEF IInv, StateInv, Sound
  <1>6. PhaseInv'
    <2>1. \A s \in Process : PhaseOf(proc'[s])
      BY <1>1, OwnFacts
    <2> QED
      BY <1>2, <2>1 DEF PhaseInv, PhaseOf, Sound
  <1>7. UndoOf(proc[Operator])'
    <2>1. UndoOf(proc'[Operator])
      BY <1>1, Basics DEF IInv
    <2> QED
      BY <1>2, <2>1 DEF UndoOf, policyFingerprint, Grants
  <1>8. OriginInv'
    BY <1>2 DEF IInv, OriginInv, policyFingerprint
  <1> QED
    BY <1>3, <1>4, <1>5, <1>6, <1>7, <1>8 DEF IInv

\* The process ends.
LEMMA ExitIInv ==
  ASSUME IInv, NEW p \in Process, NEW pc \in {"off", "done"}, p \in Replica => pc = "off", Exit(p, pc),
         UNCHANGED <<version, data, env>>, faults' \in 0..MaxFaults
  PROVE  IInv'
  <1> DEFINE new == [Off EXCEPT !.pc = pc]
  <1>1. Becomes(p, new)
    BY TypeFacts DEF Exit, Becomes
  <1>2. new \in ProcType /\ new.pc = pc
    BY Basics DEF ProcType
  <1> HIDE DEF new
  <1>3. lock' \in Process \cup {None} /\ \A s \in Process \ {p} : lock = s => lock' = s
    BY TypeFacts DEF Exit, Unlocked
  <1>4. PhaseOf(new) /\ new.pc \notin Crit /\ new.pc \notin Undo
    BY <1>2 DEF PhaseOf, Late, Crit, Undo
  <1>5. UNCHANGED <<version, data, saved, deployed, cp, events, writes>>
    BY DEF env
  <1> QED
    BY <1>1, <1>2, <1>3, <1>4, <1>5, LocalIInv DEF UndoOf, Undo

\* The inductive invariant holds initially.
LEMMA InitIInv == Init => IInv
  <1> SUFFICES ASSUME Init PROVE IInv
    OBVIOUS
  <1>1. PICK s \in Start : /\ version = s.version /\ roles = s.roles /\ rbac = s.rbac
                           /\ scoped = s.scoped /\ parent = s.parent /\ state = s.state /\ cp = s.cp
                           /\ saved = s.saved
    BY DEF Init
  <1>2. proc \in [Process -> ProcType] /\ \A p \in Process : proc[p].pc = "off"
    BY Basics DEF Init
  <1>3. Types
    <2>1. TypeOK
      BY <1>1, StartAssumption, MigrationAssumption DEF Init, TypeOK, Process
    <2> QED
      BY <1>1, <1>2, <2>1, StartAssumption, Basics DEF Types, Fingerprint, Undo
  <1>4. LockInv /\ PhaseInv /\ UndoOf(proc[Operator])
    BY <1>2, Basics DEF LockInv, PhaseInv, PhaseOf, UndoOf, Crit, Late, Undo
  <1>5. StateInv
    BY <1>1, StartAssumption DEF StateInv, Sound, StateType, Fingerprint
  <1>6. OriginInv
    BY DEF Init, OriginInv
  <1> QED
    BY <1>3, <1>4, <1>5, <1>6 DEF IInv

\* A process that holds the lock goes on.
LEMMA GoIInv ==
  ASSUME IInv, NEW p \in Process, NEW new \in ProcType, Becomes(p, new), UNCHANGED <<version, data, lock, env, faults>>,
         proc[p].pc \in Crit, new.pc \in Crit, PhaseOf(new)
  PROVE  IInv'
  <1>1. UNCHANGED <<version, data, saved, deployed, cp, events, writes>> /\ faults' \in 0..MaxFaults /\ lock' = lock
    BY TypeFacts DEF env
  <1>2. lock = p /\ lock' \in Process \cup {None}
    BY <1>1, OwnFacts
  <1>3. p \in Replica => deployed
    BY DEF IInv, LockInv, Crit, Late
  <1>4. new.pc \notin Undo \cup {"done", "serving"}
    BY DEF Crit, Late, Undo
  <1> QED
    BY <1>1, <1>2, <1>3, <1>4, LocalIInv DEF UndoOf

\* Upgrade returns.
LEMMA FinishIInv ==
  ASSUME IInv, NEW p \in Process, Finish(p), UNCHANGED <<version, data, env, faults>>,
         proc[p].pc \in Crit, version = Latest, state.reconciled
  PROVE  IInv'
  <1> DEFINE pc == IF p = Operator THEN "done" ELSE "serving"
             new == [proc[p] EXCEPT !.pc = pc]
  <1>1. Becomes(p, new)
    BY TypeFacts DEF Finish, Becomes
  <1>2. new \in ProcType /\ new.pc = pc
    BY OwnFacts DEF ProcType
  <1> HIDE DEF new
  <1>3. lock' \in Process \cup {None} /\ \A s \in Process \ {p} : lock = s => lock' = s
    BY TypeFacts DEF Finish, Unlocked
  <1>4. PhaseOf(new) /\ new.pc \notin Crit /\ new.pc \notin Undo
    BY <1>2 DEF PhaseOf, Late, Crit, Undo
  <1>5. UNCHANGED <<version, data, saved, deployed, cp, events, writes>> /\ faults' \in 0..MaxFaults
    BY TypeFacts DEF env
  <1>6. p \in Replica => deployed /\ p # Operator
    BY Basics DEF IInv, LockInv, Crit, Late
  <1> QED
    BY <1>1, <1>2, <1>3, <1>4, <1>5, <1>6, LocalIInv DEF UndoOf

\* A process starts.
LEMMA BeginIInv ==
  ASSUME IInv, NEW p \in Process, Begin(p)
  PROVE  IInv'
  <1> DEFINE expected == IF p = Operator THEN saved ELSE None
             new == [Off EXCEPT !.pc = "lock", !.expected = expected]
  <1>1. Becomes(p, new) /\ UNCHANGED <<version, data, saved, deployed, cp, events, writes>> /\ lock' = lock
    BY TypeFacts DEF Begin, Becomes, env
  <1>2. expected \in Fingerprint
    BY TypeFacts DEF Fingerprint
  <1> HIDE DEF expected
  <1>3. new \in ProcType /\ new.pc = "lock"
    BY <1>2, Basics DEF ProcType
  <1> HIDE DEF new
  <1>4. faults' \in 0..MaxFaults
    <2>1. faults \in Nat /\ MaxFaults \in Nat /\ faults <= MaxFaults
      BY TypeFacts, MigrationAssumption
    <2>2. faults' = faults \/ (faults < MaxFaults /\ faults' = faults + 1)
      BY DEF Begin
    <2> QED
      BY <2>1, <2>2
  <1>5. PhaseOf(new) /\ new.pc \notin Crit /\ new.pc \notin Undo
    BY <1>3 DEF PhaseOf, Late, Crit, Undo
  <1>6. p \in Replica => deployed
    BY Basics DEF Begin
  <1>7. lock' \in Process \cup {None}
    BY <1>1, TypeFacts
  <1> QED
    BY <1>1, <1>3, <1>4, <1>5, <1>6, <1>7, LocalIInv DEF UndoOf

\* It gets the lock.
LEMMA AcquireLockIInv ==
  ASSUME IInv, NEW p \in Process, AcquireLock(p)
  PROVE  IInv'
  <1> DEFINE new == [proc[p] EXCEPT !.pc = "version"]
  <1>1. /\ Becomes(p, new) /\ UNCHANGED <<version, data, saved, deployed, cp, events, writes, faults>>
        /\ lock = None /\ lock' = p /\ proc[p].pc = "lock"
    BY TypeFacts DEF AcquireLock, Goto, Becomes, env
  <1>2. new \in ProcType /\ new.pc = "version"
    BY OwnFacts DEF ProcType, Crit
  <1> HIDE DEF new
  <1>3. PhaseOf(new) /\ new.pc \notin Undo \cup {"done", "serving"}
    BY <1>2 DEF PhaseOf, Late, Crit, Undo
  <1>4. p \in Replica => deployed
    BY <1>1 DEF IInv, LockInv
  <1>5. faults' \in 0..MaxFaults /\ \A s \in Process : s # None
    BY <1>1, TypeFacts, Basics
  <1> QED
    BY <1>1, <1>2, <1>3, <1>4, <1>5, LocalIInv DEF UndoOf

\* It refuses the version it finds or goes on.
LEMMA CurrentVersionIInv ==
  ASSUME IInv, NEW p \in Process, CurrentVersion(p)
  PROVE  IInv'
  <1>0. proc[p].pc = "version" /\ UNCHANGED <<version, data, env, faults>> /\ faults' \in 0..MaxFaults
    BY TypeFacts DEF CurrentVersion
  <1>1. CASE Exit(p, "off")
    BY <1>0, <1>1, ExitIInv
  <1>2. CASE ~Exit(p, "off")
    <2> DEFINE pc == IF version < Casbin THEN "migrate" ELSE "open"
               effective == IF version = Legacy THEN policyFingerprint ELSE proc[p].expected
               new == [proc[p] EXCEPT !.pc = pc, !.effective = effective]
    <2>1. /\ ~(version > Latest) /\ lock' = lock
          /\ proc' = [proc EXCEPT ![p].pc = pc, ![p].effective = effective]
      BY <1>2 DEF CurrentVersion
    <2>2. effective \in Fingerprint
      BY OwnFacts, PolicyFacts DEF ProcType
    <2>3. pc \in {"migrate", "open"}
      OBVIOUS
    <2> HIDE DEF pc, effective
    <2>4. Becomes(p, new)
      BY <2>1, TypeFacts DEF Becomes
    <2>5. new \in ProcType /\ new.pc = pc
      <3>1. proc[p] \in ProcType
        BY OwnFacts
      <3> QED
        BY <2>2, <2>3, <3>1 DEF ProcType, Crit
    <2> HIDE DEF new
    <2>6. version <= Latest
      BY <2>1, TypeFacts, Versions
    <2>7. PhaseOf(new) /\ new.pc \in Crit /\ proc[p].pc \in Crit
      BY <1>0, <2>3, <2>5, <2>6 DEF PhaseOf, Late, Crit
    <2> QED
      BY <1>0, <2>1, <2>4, <2>5, <2>7, GoIInv
  <1> QED
    BY <1>1, <1>2

\* It reads how far an earlier attempt got.
LEMMA loadMigrationStateIInv ==
  ASSUME IInv, NEW p \in Process, loadMigrationState(p)
  PROVE  IInv'
  <1> DEFINE new == [proc[p] EXCEPT !.state = state, !.pc = "verify"]
  <1>1. Becomes(p, new) /\ proc[p].pc = "state" /\ UNCHANGED <<version, data, lock, env, faults>>
    BY TypeFacts DEF loadMigrationState, Becomes
  <1>2. state \in StateType \cup {None}
    BY DEF IInv, StateInv
  <1>3. new \in ProcType /\ new.pc = "verify" /\ new.state = state
    <2>1. proc[p] \in ProcType
      BY OwnFacts
    <2> QED
      BY <1>2, <2>1 DEF ProcType, Crit, Late
  <1> HIDE DEF new
  <1>4. PhaseOf(new) /\ new.pc \in Crit /\ proc[p].pc \in Crit
    BY <1>1, <1>3, OwnFacts DEF PhaseOf, Late, Crit
  <1> QED
    BY <1>1, <1>3, <1>4, GoIInv

\* There is nothing left to do.
LEMMA SkipIInv ==
  ASSUME IInv, NEW p \in Process, Skip(p)
  PROVE  IInv'
  <1>1. proc[p].pc = "skip" /\ Finish(p) /\ UNCHANGED <<version, data, env, faults>>
    BY DEF Skip
  <1>2. proc[p].pc \in Crit /\ version = Latest /\ state.reconciled
    BY <1>1, OwnFacts DEF PhaseOf, Crit, Late
  <1> QED
    BY <1>1, <1>2, FinishIInv

\* It asks the control plane.
LEMMA loadOrganizationResourcesIInv ==
  ASSUME IInv, NEW p \in Process, loadOrganizationResources(p)
  PROVE  IInv'
  <1> DEFINE pc == IF listOrganizationIDs = {} THEN "recheck" ELSE "sync"
             new == [proc[p] EXCEPT !.listed = Live, !.pc = pc]
  <1>1. /\ proc' = [proc EXCEPT ![p].listed = Live, ![p].pc = pc]
        /\ proc[p].pc = "list" /\ UNCHANGED <<version, data, lock, env, faults>>
    BY DEF loadOrganizationResources
  <1>2. Live \in SUBSET Scope /\ pc \in {"recheck", "sync"}
    BY DEF Live
  <1> HIDE DEF pc
  <1>3. Becomes(p, new)
    BY <1>1, TypeFacts DEF Becomes
  <1>4. new \in ProcType /\ new.pc = pc
    <2>1. proc[p] \in ProcType
      BY OwnFacts
    <2> QED
      BY <1>2, <2>1 DEF ProcType, Crit, Late
  <1> HIDE DEF new
  <1>5. PhaseOf(new) /\ new.pc \in Crit /\ proc[p].pc \in Crit
    BY <1>1, <1>2, <1>4, OwnFacts DEF PhaseOf, Late, Crit
  <1> QED
    BY <1>1, <1>3, <1>4, <1>5, GoIInv

\* It checks once more what it has written.
LEMMA RecheckIInv ==
  ASSUME IInv, NEW p \in Process, Recheck(p)
  PROVE  IInv'
  <1>0. proc[p].pc = "recheck" /\ UNCHANGED <<version, data, env, faults>> /\ faults' \in 0..MaxFaults
    BY TypeFacts DEF Recheck
  <1>1. CASE Exit(p, "off")
    BY <1>0, <1>1, ExitIInv
  <1>2. CASE ~Exit(p, "off")
    <2> DEFINE new == [proc[p] EXCEPT !.pc = "mark"]
    <2>1. VerifyReady /\ lock' = lock /\ Becomes(p, new)
      BY <1>2, TypeFacts DEF Recheck, Goto, Becomes
    <2>2. new \in ProcType /\ new.pc = "mark"
      <3>1. proc[p] \in ProcType
        BY OwnFacts
      <3> QED
        BY <3>1 DEF ProcType, Crit, Late
    <2> HIDE DEF new
    <2>3. Sound
      BY <2>1, Basics DEF VerifyReady, inspectCasbin, Sound
    <2>4. PhaseOf(new) /\ new.pc \in Crit /\ proc[p].pc \in Crit
      BY <1>0, <2>2, <2>3, OwnFacts DEF PhaseOf, Late, Crit
    <2> QED
      BY <1>0, <2>1, <2>2, <2>4, GoIInv
  <1> QED
    BY <1>1, <1>2

\* One more fault.
LEMMA FaultFacts ==
  ASSUME IInv, faults < MaxFaults, faults' = faults + 1
  PROVE  faults' \in 0..MaxFaults
  <1>1. faults \in Nat /\ MaxFaults \in Nat
    BY TypeFacts, MigrationAssumption
  <1> QED
    BY <1>1

\* It crashes or meets an error.
LEMMA FailIInv ==
  ASSUME IInv, NEW p \in Process, Fail(p)
  PROVE  IInv'
  BY FaultFacts, ExitIInv DEF Fail

\* What a serving replica stands for.
LEMMA ServingFacts ==
  ASSUME IInv, Serving # {}
  PROVE  /\ version = Latest /\ state \in StateType /\ state.reconciled /\ Sound /\ deployed
         /\ proc[Operator].pc \notin Undo /\ origin = None /\ \A b \in rbac : b.role # None
  <1>1. PICK r \in Replica : proc[r].pc = "serving"
    BY DEF Serving
  <1>2. r \in Process /\ version = Latest /\ state.reconciled
    BY <1>1, Basics, OwnFacts DEF PhaseOf
  <1>3. ~(version < Casbin) /\ version > Legacy
    BY <1>2, Versions
  <1>4. deployed
    BY <1>1 DEF IInv, LockInv
  <1> QED
    BY <1>2, <1>3, <1>4 DEF IInv, StateInv, OriginInv, UndoOf

\* A client or the worker changes the data of a database in service.
LEMMA ServingIInv ==
  ASSUME IInv, Serving # {}, UNCHANGED <<version, state, origin, lock, proc, saved, deployed>>, TypeOK',
         \A b \in rbac' : b.role # None,
         \A e \in Env : parent'[e] \in {None, ProjectOf[e], parent[e]}
  PROVE  IInv'
  <1>1. /\ version = Latest /\ state \in StateType /\ state.reconciled /\ Sound /\ deployed
        /\ proc[Operator].pc \notin Undo /\ origin = None
    BY ServingFacts
  <1>2. Sound'
    BY <1>1, Basics DEF Sound
  <1>3. Types' /\ LockInv' /\ UndoOf(proc[Operator])'
    BY <1>1 DEF IInv, Types, LockInv, UndoOf
  <1>4. StateInv'
    BY <1>1, <1>2 DEF IInv, StateInv
  <1>5. PhaseInv'
    BY <1>2 DEF IInv, PhaseInv, PhaseOf
  <1>6. OriginInv'
    BY <1>1 DEF OriginInv
  <1> QED
    BY <1>3, <1>4, <1>5, <1>6 DEF IInv

\* A resource tree stays one, and no environment moves but to its project.
LEMMA AttachedFacts ==
  ASSUME IInv, NEW listed \in SUBSET Scope
  PROVE  /\ Attached(parent, listed) \in [Resource -> {None, Org} \cup Project]
         /\ \A e \in Env : Attached(parent, listed)[e] \in {ProjectOf[e], parent[e]}
  <1>1. parent \in [Resource -> {None, Org} \cup Project]
    BY TypeFacts
  <1>2. \A e \in Env : Attached(parent, listed)[e] \in {ProjectOf[e], parent[e]}
    BY Basics DEF Attached
  <1>3. \A r \in Resource : Attached(parent, listed)[r] \in {None, Org} \cup Project
    <2> SUFFICES ASSUME NEW r \in Resource PROVE Attached(parent, listed)[r] \in {None, Org} \cup Project
      OBVIOUS
    <2>1. CASE r \in Env
      BY <1>1, <1>2, <2>1, Basics
    <2>2. CASE r \notin Env
      BY <1>1, <2>2 DEF Attached
    <2> QED
      BY <2>1, <2>2
  <1> QED
    BY <1>2, <1>3 DEF Attached

\* A step of the upgrade after the migrations: the schema is complete, and
\* whoever else runs either serves or waits for the lock.
LEMMA LateIInv ==
  ASSUME IInv, NEW p \in Process, NEW new \in ProcType, Becomes(p, new), proc[p].pc \in Late,
         new.pc \in {"skip", "list", "recheck", "serving", "done"},
         p \in Replica => new.pc # "done", p = Operator => new.pc # "serving",
         new.pc \in {"skip", "serving"} => state'.reconciled,
         state.reconciled => state'.reconciled, state' \in StateType, state'.reconciled => Sound',
         UNCHANGED <<version, roles, rbac, scoped, env, faults>>,
         origin' \in {origin, None}, state'.reconciled => origin' = None,
         parent' \in [Resource -> {None, Org} \cup Project],
         \A e \in Env : parent'[e] \in {ProjectOf[e], parent[e]},
         lock' \in Process \cup {None}, \A s \in Process \ {p} : lock = s => lock' = s,
         new.pc \in Crit => lock' = p
  PROVE  IInv'
  <1>1. proc' \in [Process -> ProcType] /\ proc'[p] = new /\ \A s \in Process \ {p} : proc'[s] = proc[s]
    BY TypeFacts DEF Becomes
  <1>2. proc[p].pc \in Crit /\ version = Latest
    BY OwnFacts DEF Crit, PhaseOf
  <1>3. (\A s \in Process \ {p} : proc[s].pc \notin Crit) /\ proc[Operator].pc \notin Undo
    BY <1>2, AloneFacts
  <1>4. new.pc \notin Undo /\ (p \in Replica => deployed)
    BY <1>2 DEF IInv, LockInv, Undo, Crit, Late
  <1>5. UNCHANGED <<saved, deployed, cp, events, writes>>
    BY DEF env
  <1>6. Types'
    <2>1. state'.reconciled \in BOOLEAN
      BY DEF StateType
    <2>2. TypeOK'
      BY <1>5, <2>1 DEF IInv, Types, TypeOK
    <2> QED
      BY <1>1, <1>4, <1>5, <2>2, Basics DEF IInv, Types, Undo
  <1>7. LockInv'
    BY <1>1, <1>4, <1>5, Basics DEF IInv, LockInv
  <1>8. StateInv'
    <2>1. ~(version < Casbin)
      BY <1>2, Versions
    <2> QED
      BY <2>1 DEF IInv, StateInv
  <1>9. PhaseInv'
    <2>1. ASSUME NEW s \in Process PROVE PhaseOf(proc[s])'
      <3>1. CASE s = p
        BY <1>1, <1>2, <3>1 DEF PhaseOf, Late
      <3>2. CASE s # p
        <4>1. proc[s].pc \notin Crit /\ proc'[s] = proc[s] /\ PhaseOf(proc[s])
          BY <1>1, <1>3, <3>2, OwnFacts
        <4> QED
          BY <4>1 DEF PhaseOf, Crit, Late
      <3> QED
        BY <3>1, <3>2
    <2> QED
      BY <2>1 DEF PhaseInv
  <1>10. UndoOf(proc[Operator])'
    BY <1>1, <1>3, <1>4, Basics DEF UndoOf, Undo
  <1>11. OriginInv'
    BY DEF IInv, OriginInv, policyFingerprint
  <1> QED
    BY <1>6, <1>7, <1>8, <1>9, <1>10, <1>11 DEF IInv

\* It stores the hierarchy.
LEMMA ReconcileIInv ==
  ASSUME IInv, NEW p \in Process, Reconcile(p)
  PROVE  IInv'
  <1> DEFINE new == [proc[p] EXCEPT !.pc = "recheck"]
  <1>1. /\ Becomes(p, new) /\ proc[p].pc = "sync" /\ parent' = Attached(parent, proc[p].listed)
        /\ UNCHANGED <<version, roles, rbac, scoped, state, origin, lock, env, faults>>
    BY TypeFacts DEF Reconcile, Goto, Becomes
  <1>2. proc[p] \in ProcType /\ lock = p /\ version = Latest
    BY <1>1, OwnFacts DEF PhaseOf, Late, Crit
  <1>3. new \in ProcType /\ new.pc = "recheck" /\ proc[p].listed \in SUBSET Scope
    BY <1>2 DEF ProcType, Crit, Late
  <1> HIDE DEF new
  <1>4. /\ parent' \in [Resource -> {None, Org} \cup Project]
        /\ \A e \in Env : parent'[e] \in {ProjectOf[e], parent[e]}
    BY <1>1, <1>3, AttachedFacts
  <1>5. state \in StateType /\ (state.reconciled => Sound /\ origin = None)
    BY <1>2, Versions DEF IInv, StateInv, OriginInv
  <1>6. state'.reconciled => Sound'
    BY <1>1, <1>4, <1>5, Basics DEF Sound
  <1>7. proc[p].pc \in Late /\ lock' = p /\ lock' \in Process \cup {None}
    BY <1>1, <1>2 DEF Late
  <1> QED
    BY <1>1, <1>2, <1>3, <1>4, <1>5, <1>6, <1>7, LateIInv

\* It records that the data is sound.
LEMMA markMigrationReconciledIInv ==
  ASSUME IInv, NEW p \in Process, markMigrationReconciled(p)
  PROVE  IInv'
  <1> DEFINE pc == IF p = Operator THEN "done" ELSE "serving"
             new == [proc[p] EXCEPT !.pc = pc]
  <1>1. /\ Becomes(p, new) /\ proc[p].pc = "mark" /\ state' = [state EXCEPT !.reconciled = TRUE]
        /\ UNCHANGED <<version, roles, rbac, scoped, parent, env, faults>> /\ lock' = Unlocked(p) /\ origin' = None
    BY TypeFacts DEF markMigrationReconciled, Finish, Becomes
  <1>2. proc[p] \in ProcType /\ Sound /\ version = Latest
    BY <1>1, OwnFacts DEF PhaseOf, Late
  <1>3. new \in ProcType /\ new.pc = pc
    BY <1>2 DEF ProcType
  <1> HIDE DEF new
  <1>4. state \in StateType
    BY <1>2, Versions DEF IInv, StateInv
  <1>5. state' \in StateType /\ state'.reconciled
    BY <1>1, <1>4 DEF StateType
  <1>6. Sound'
    BY <1>1, <1>2 DEF Sound
  <1>7. lock' \in Process \cup {None} /\ \A s \in Process \ {p} : lock = s => lock' = s
    BY <1>1, TypeFacts DEF Unlocked
  <1>8. proc[p].pc \in Late /\ new.pc \notin Crit /\ (p \in Replica => p # Operator)
    BY <1>1, <1>3, Basics DEF Late, Crit
  <1>9. parent' \in [Resource -> {None, Org} \cup Project] /\ \A e \in Env : parent'[e] \in {ProjectOf[e], parent[e]}
    BY <1>1, TypeFacts
  <1>10. new.pc \in {"serving", "done"} /\ (p \in Replica => new.pc # "done") /\ (p = Operator => new.pc # "serving")
    BY <1>3, <1>8
  <1> QED
    BY <1>1, <1>3, <1>5, <1>6, <1>7, <1>8, <1>9, <1>10, LateIInv

\* It compares the fingerprints and records the first one.
LEMMA VerifyIInv ==
  ASSUME IInv, NEW p \in Process, Verify(p)
  PROVE  IInv'
  <1>0. proc[p].pc = "verify" /\ UNCHANGED <<version, env, faults>>
    BY DEF Verify
  <1>1. /\ proc[p] \in ProcType /\ version = Latest /\ proc[p].state = state /\ lock = p
        /\ proc[p].pc \in Late /\ proc[p].pc \in Crit
    BY <1>0, OwnFacts DEF PhaseOf, Late, Crit
  <1>2. state \in StateType /\ (state.reconciled => Sound /\ origin = None)
    BY <1>1, Versions DEF IInv, StateInv, OriginInv
  <1>3. CASE Finish(p) /\ UNCHANGED data /\ state.reconciled
    BY <1>0, <1>1, <1>3, FinishIInv
  <1>4. CASE Exit(p, "off") /\ UNCHANGED data
    BY <1>0, <1>4, ExitIInv, TypeFacts
  <1>5. CASE /\ ~(Finish(p) /\ UNCHANGED data /\ state.reconciled)
             /\ ~(Exit(p, "off") /\ UNCHANGED data)
    <2> DEFINE pc == IF state.reconciled /\ VerifyReady THEN "skip" ELSE "list"
               effective == Effective(p)
               new == [proc[p] EXCEPT !.effective = effective, !.pc = pc]
    <2>1. /\ proc' = [proc EXCEPT ![p].effective = effective, ![p].pc = pc]
          /\ state' = IF state.policy = None THEN [state EXCEPT !.policy = effective] ELSE state
          /\ UNCHANGED <<lock, roles, rbac, scoped, parent, origin>>
      BY <1>1, <1>5 DEF Verify
    <2>2. effective \in Fingerprint
      BY <1>1, <1>2, PolicyFacts DEF Effective, ProcType, StateType
    <2>3. pc \in {"skip", "list"} /\ (pc = "skip" => state.reconciled)
      OBVIOUS
    <2> HIDE DEF pc, effective
    <2>4. Becomes(p, new)
      BY <2>1, TypeFacts DEF Becomes
    <2>5. new \in ProcType /\ new.pc = pc
      BY <1>1, <2>2, <2>3 DEF ProcType, Crit, Late
    <2> HIDE DEF new
    <2>6. state' \in StateType /\ state'.reconciled = state.reconciled
      BY <1>2, <2>1, <2>2 DEF StateType
    <2>7. state'.reconciled => Sound'
      BY <1>2, <2>1, <2>6 DEF Sound
    <2>8. parent' \in [Resource -> {None, Org} \cup Project] /\ \A e \in Env : parent'[e] \in {ProjectOf[e], parent[e]}
      BY <2>1, TypeFacts
    <2>9. lock' = p /\ lock' \in Process \cup {None}
      BY <1>1, <2>1
    <2>10. origin' \in {origin, None} /\ (state'.reconciled => origin' = None)
      BY <1>2, <2>1, <2>6
    <2> QED
      BY <1>0, <1>1, <2>1, <2>3, <2>4, <2>5, <2>6, <2>7, <2>8, <2>9, <2>10, LateIInv
  <1> QED
    BY <1>3, <1>4, <1>5

\* One migration after the other: nobody serves yet, and nobody else migrates.
LEMMA MigrateUpIInv ==
  ASSUME IInv, NEW p \in Process, MigrateUp(p)
  PROVE  IInv'
  <1>1. proc[p].pc \in {"migrate", "open"} /\ UNCHANGED <<lock, env, faults>>
    BY DEF MigrateUp
  <1>2. proc[p] \in ProcType /\ version <= Latest /\ proc[p].pc \in Crit /\ version \in Nat /\ Latest \in Nat
    BY <1>1, OwnFacts, TypeFacts, Versions DEF PhaseOf, Crit
  <1>3. CASE version < Latest
    <2>1. Up(version + 1) /\ UNCHANGED proc
      BY <1>3 DEF MigrateUp
    <2>2. version' = version + 1 /\ version' \in 0..(Latest + 1) /\ version' <= Latest
      BY <1>2, <1>3, <2>1 DEF Up
    <2>3. UNCHANGED <<saved, deployed, cp, events, writes>>
      BY <1>1 DEF env
    <2>4. \A s \in Process : proc[s].pc \notin Late \cup {"serving"}
      <3>1. version # Latest
        BY <1>2, <1>3
      <3> QED
        BY <3>1, OwnFacts DEF PhaseOf
    <2>5. proc[Operator].pc \notin Undo
      BY <1>2, AloneFacts
    <2>6. version < Casbin => state = None
      BY DEF IInv, StateInv
    <2>7. /\ roles' \in BOOLEAN /\ rbac' \subseteq Row /\ scoped' \subseteq Grant /\ origin' \in Fingerprint
          /\ (version' > Legacy => \A b \in rbac' : b.role # None) /\ OriginInv'
          /\ parent' \in [Resource -> {None, Org} \cup Project]
          /\ \A e \in Env : parent'[e] \in {None, Org, ProjectOf[e]}
          /\ IF version' < Casbin THEN state' = None
                                  ELSE state' \in StateType /\ (state'.reconciled => Sound')
      <3>0. /\ roles \in BOOLEAN /\ rbac \subseteq Row /\ scoped \subseteq Grant /\ origin \in Fingerprint
            /\ parent \in [Resource -> {None, Org} \cup Project]
            /\ \A e \in Env : parent[e] \in {None, Org, ProjectOf[e]} /\ e \in Resource
        BY TypeFacts, Basics DEF IInv, StateInv
      <3>1. CASE version + 1 = Legacy + 1
        <4>0. version + 1 # Casbin
          BY <3>1, Versions
        <4>1. CasbinAuthorizationUp
          BY <2>1, <3>1, <4>0 DEF Up
        <4>2. version < Casbin /\ version' < Casbin
          BY <1>2, <2>2, <3>1, Versions
        <4>3. /\ parent' = [r \in Resource |-> IF (r = Org /\ roles) \/ r \in Scopes(scoped) THEN Org ELSE parent[r]]
              /\ scoped' = {} /\ UNCHANGED <<roles, state>> /\ origin' = policyFingerprint
              /\ rbac' = {[b EXCEPT !.role = Canonical(b).role] : b \in rbac}
          BY <4>1 DEF CasbinAuthorizationUp
        <4>4. policyFingerprint' = policyFingerprint /\ rbac' \subseteq Row /\ \A b \in rbac' : b.role # None
          BY <4>3, BackfillFacts
        <4>5. OriginInv' /\ origin' \in Fingerprint
          BY <4>2, <4>3, <4>4, PolicyFacts DEF OriginInv
        <4>6. /\ parent' \in [Resource -> {None, Org} \cup Project]
              /\ \A e \in Env : parent'[e] \in {None, Org, ProjectOf[e]}
          BY <3>0, <4>3
        <4> QED
          BY <2>6, <3>0, <4>2, <4>3, <4>4, <4>5, <4>6
      <3>2. CASE version + 1 = Casbin
        <4>1. Casbin # Legacy + 1 /\ version < Casbin /\ ~(version' < Casbin)
          BY <1>2, <2>2, <3>2, Versions
        <4>2. AutomaticUpgradeUp
          BY <2>1, <3>2, <4>1 DEF Up
        <4>3. state' \in StateType /\ ~state'.reconciled /\ UNCHANGED <<roles, rbac, scoped, parent, origin>>
          BY <4>2 DEF AutomaticUpgradeUp, FreshState, StateType, Fingerprint
        <4>4. version > Legacy
          BY <1>2, <3>2, Versions
        <4>5. OriginInv' /\ \A b \in rbac' : b.role # None
          BY <4>3, <4>4 DEF IInv, StateInv, OriginInv, policyFingerprint
        <4> QED
          BY <3>0, <4>1, <4>3, <4>5
      <3>3. CASE version + 1 # Legacy + 1 /\ version + 1 # Casbin
        <4>1. UNCHANGED <<roles, rbac, scoped, parent, state, origin>>
          BY <2>1, <3>3 DEF Up, data
        <4>2. (version' < Casbin <=> version < Casbin) /\ (version' > Legacy => version > Legacy)
          BY <1>2, <2>2, <3>3, Versions
        <4>3. Sound' <=> Sound
          BY <4>1 DEF Sound
        <4>4. IF version < Casbin THEN state = None ELSE state \in StateType /\ (state.reconciled => Sound)
          BY DEF IInv, StateInv
        <4>5. OriginInv' /\ (version' > Legacy => \A b \in rbac' : b.role # None)
          BY <4>1, <4>2 DEF IInv, StateInv, OriginInv, policyFingerprint
        <4> QED
          BY <3>0, <4>1, <4>2, <4>3, <4>4, <4>5
      <3> QED
        BY <3>1, <3>2, <3>3
    <2>8. Types'
      <3>1. state' = None \/ state'.reconciled \in BOOLEAN
        BY <2>7 DEF StateType
      <3>2. TypeOK'
        BY <1>1, <2>2, <2>3, <2>7, <3>1 DEF IInv, Types, TypeOK, Fingerprint
      <3> QED
        BY <2>1, <2>3, <3>2 DEF IInv, Types
    <2>9. LockInv'
      BY <1>1, <2>1, <2>3 DEF IInv, LockInv
    <2>10. StateInv'
      BY <2>7 DEF StateInv
    <2>11. PhaseInv'
      BY <2>1, <2>2, <2>4 DEF PhaseInv, PhaseOf, Late
    <2> QED
      BY <2>1, <2>5, <2>7, <2>8, <2>9, <2>10, <2>11 DEF IInv, UndoOf
  <1>4. CASE ~(version < Latest)
    <2> DEFINE pc == IF proc[p].pc = "migrate" THEN "open" ELSE "state"
               new == [proc[p] EXCEPT !.pc = pc]
    <2>1. Becomes(p, new) /\ UNCHANGED <<version, data>>
      BY <1>4, TypeFacts DEF MigrateUp, Goto, Becomes
    <2>2. pc \in {"open", "state"}
      OBVIOUS
    <2> HIDE DEF pc
    <2>3. new \in ProcType /\ new.pc = pc
      BY <1>2, <2>2 DEF ProcType, Crit, Late
    <2> HIDE DEF new
    <2>4. version = Latest
      BY <1>2, <1>4
    <2>5. PhaseOf(new) /\ new.pc \in Crit
      BY <1>2, <2>2, <2>3, <2>4 DEF PhaseOf, Crit, Late
    <2> QED
      BY <1>1, <1>2, <2>1, <2>3, <2>5, GoIInv
  <1> QED
    BY <1>3, <1>4

\* The deployment is scaled to zero.
LEMMA StopIAMIInv ==
  ASSUME IInv, StopIAM
  PROVE  IInv'
  <1>1. /\ proc' = [p \in Process |-> IF p = Operator THEN proc[p] ELSE Off] /\ deployed' = FALSE /\ deployed
        /\ lock' = IF lock \in Replica THEN None ELSE lock
        /\ UNCHANGED <<version, roles, rbac, scoped, parent, state, origin, saved, cp, events, writes>>
    BY DEF StopIAM, data
  <1>2. faults' \in 0..MaxFaults
    BY FaultFacts DEF StopIAM
  <1>3. /\ proc' \in [Process -> ProcType] /\ proc'[Operator] = proc[Operator]
        /\ \A r \in Replica : proc'[r].pc = "off"
    BY <1>1, TypeFacts, Basics
  <1>4. Types'
    <2>1. TypeOK'
      BY <1>1, <1>2 DEF IInv, Types, TypeOK
    <2> QED
      BY <1>1, <1>3, <2>1 DEF IInv, Types, Undo
  <1>5. LockInv'
    BY <1>1, <1>3, Basics DEF IInv, LockInv, Crit, Late
  <1>6. StateInv'
    BY <1>1 DEF IInv, StateInv, Sound
  <1>7. PhaseInv'
    <2>1. \A p \in Process : proc'[p] = proc[p] \/ proc'[p].pc = "off"
      BY <1>3, Basics
    <2> QED
      BY <1>1, <2>1 DEF IInv, PhaseInv, PhaseOf, Sound, Late
  <1>8. UndoOf(proc[Operator])'
    BY <1>1, <1>3 DEF IInv, UndoOf, policyFingerprint, Grants
  <1>9. OriginInv'
    BY <1>1 DEF IInv, OriginInv, policyFingerprint
  <1> QED
    BY <1>4, <1>5, <1>6, <1>7, <1>8, <1>9 DEF IInv

\* What the operator and the control plane do beside the database.
LEMMA BesideIInv ==
  ASSUME IInv, UNCHANGED <<version, data, lock, proc, faults>>, TypeOK', saved' \in Fingerprint,
         deployed' = deployed \/ (deployed' = TRUE /\ proc[Operator].pc \notin Undo)
  PROVE  IInv'
  <1>1. UNCHANGED <<version, roles, rbac, scoped, parent, state, origin, lock, proc>>
    BY DEF data
  <1>2. Types' /\ LockInv'
    BY <1>1 DEF IInv, Types, LockInv
  <1>3. StateInv'
    BY <1>1 DEF IInv, StateInv, Sound
  <1>4. PhaseInv'
    BY <1>1 DEF IInv, PhaseInv, PhaseOf, Sound
  <1>5. UndoOf(proc[Operator])'
    BY <1>1 DEF IInv, UndoOf, policyFingerprint, Grants
  <1>6. OriginInv'
    BY <1>1 DEF IInv, OriginInv, policyFingerprint
  <1> QED
    BY <1>2, <1>3, <1>4, <1>5, <1>6 DEF IInv

\* The deployment is scaled up, never during a rollback.
LEMMA StartIAMIInv ==
  ASSUME IInv, StartIAM
  PROVE  IInv'
  <1>1. TypeOK' /\ saved' \in Fingerprint /\ proc[Operator].pc \notin Undo
    BY DEF IInv, Types, TypeOK, StartIAM, data, Idle, Undo
  <1> QED
    BY <1>1, BesideIInv DEF StartIAM

\* The operator keeps a good report.
LEMMA PreflightIInv ==
  ASSUME IInv, Preflight
  PROVE  IInv'
  <1>1. TypeOK' /\ saved' \in Fingerprint
    BY PolicyFacts DEF IInv, Types, TypeOK, Preflight, data
  <1> QED
    BY <1>1, BesideIInv DEF Preflight

\* One more write.
LEMMA WriteFacts ==
  ASSUME IInv, Write
  PROVE  writes' \in 0..MaxWrites
  <1>1. writes \in Nat /\ MaxWrites \in Nat
    BY TypeFacts, MigrationAssumption
  <1> QED
    BY <1>1 DEF Write

\* Resources come and go in the control plane.
LEMMA ControlPlaneIInv ==
  ASSUME IInv, NEW s \in Scope, Create(s) \/ Delete(s)
  PROVE  IInv'
  <1>1. /\ UNCHANGED <<version, data, lock, proc, saved, deployed, faults>> /\ Write
        /\ events' = events \cup {s} /\ \E w \in {"live", "gone"} : cp' = [cp EXCEPT ![s] = w]
    BY DEF Create, Delete
  <1>2. writes' \in 0..MaxWrites
    BY <1>1, WriteFacts
  <1>3. TypeOK'
    BY <1>1, <1>2, TypeFacts DEF IInv, Types, TypeOK, data
  <1>4. saved' \in Fingerprint
    BY <1>1, TypeFacts
  <1> QED
    BY <1>1, <1>3, <1>4, BesideIInv

\* A rollback starts.
LEMMA RollbackIInv ==
  ASSUME IInv, Rollback
  PROVE  IInv'
  <1> DEFINE new == [Off EXCEPT !.pc = "down", !.expected = saved]
  <1>1. /\ Becomes(Operator, new) /\ UNCHANGED <<version, data, lock, saved, deployed, cp, events, writes>>
        /\ ~deployed /\ version = Casbin /\ policyFingerprint = saved
    BY TypeFacts DEF Rollback, Becomes, IAMStopped, env
  <1>2. new \in ProcType /\ new.pc = "down" /\ new.expected = saved
    BY Basics, TypeFacts DEF ProcType, Undo
  <1> HIDE DEF new
  <1>3. faults' \in 0..MaxFaults /\ lock' \in Process \cup {None} /\ lock' = lock
    BY <1>1, FaultFacts, TypeFacts DEF Rollback
  <1>4. PhaseOf(new) /\ new.pc \notin Crit /\ new.pc # "serving"
    BY <1>2 DEF PhaseOf, Crit, Late
  <1>5. UndoOf(new)
    <2>1. version # Legacy /\ version \in Legacy..Casbin
      BY <1>1, Versions
    <2> QED
      BY <1>1, <1>2, <2>1 DEF UndoOf
  <1> QED
    BY <1>1, <1>2, <1>3, <1>4, <1>5, Basics, LocalIInv

\* The two migrations back, with nobody else at work.
LEMMA MigrateDownToIInv ==
  ASSUME IInv, MigrateDownTo
  PROVE  IInv'
  <1>1. proc[Operator].pc = "down" /\ UNCHANGED <<lock, env, faults>>
    BY DEF MigrateDownTo
  <1>2. ~deployed /\ policyFingerprint = proc[Operator].expected /\ version \in {Legacy, Legacy + 1, Casbin}
    BY <1>1, Versions DEF IInv, UndoOf, Undo
  <1>3. proc[Operator] \in ProcType /\ (version = Legacy => Grants(rbac) \subseteq scoped)
    BY <1>1, Basics, OwnFacts DEF UndoOf, Undo
  <1>4. CASE version > Legacy
    <2>1. Down(version) /\ UNCHANGED proc
      BY <1>4 DEF MigrateDownTo
    <2>2. UNCHANGED <<saved, deployed, cp, events, writes>>
      BY <1>1 DEF env
    <2>3. \A s \in Process : proc[s].pc \in {"off", "down"}
      BY <1>1, <1>2, Basics DEF IInv, LockInv
    <2>4. /\ roles' = roles /\ rbac' = rbac /\ origin' = origin /\ scoped' \subseteq Grant
          /\ parent' \in [Resource -> {None, Org} \cup Project]
          /\ \A e \in Env : parent'[e] \in {None, Org, ProjectOf[e]}
          /\ state' = None /\ version' \in {Legacy, Legacy + 1} /\ (version' = Legacy => scoped' = Grants(rbac))
      <3>0. /\ roles \in BOOLEAN /\ rbac \subseteq Row /\ scoped \subseteq Grant
            /\ parent \in [Resource -> {None, Org} \cup Project]
            /\ \A e \in Env : parent[e] \in {None, Org, ProjectOf[e]} /\ e \in Resource
        BY TypeFacts, Basics DEF IInv, StateInv
      <3>1. CASE version = Casbin
        <4>1. version # Legacy + 1 /\ version - 1 = Legacy + 1 /\ Legacy + 1 # Legacy
          BY <3>1, Versions
        <4>2. AutomaticUpgradeDown /\ version' = Legacy + 1
          BY <2>1, <3>1, <4>1 DEF Down
        <4> QED
          BY <3>0, <4>1, <4>2 DEF AutomaticUpgradeDown
      <3>2. CASE version # Casbin
        <4>1. version = Legacy + 1 /\ version < Casbin /\ version - 1 = Legacy
          BY <1>2, <1>4, <3>2, Versions
        <4>2. CasbinAuthorizationDown /\ version' = Legacy
          BY <2>1, <3>2, <4>1 DEF Down
        <4>3. state = None
          BY <4>1 DEF IInv, StateInv
        <4>4. Grants(rbac) \subseteq Grant
          BY <3>0, CanonicalFacts DEF Grants, Grant
        <4>6. {b \in rbac : b.role # None} = rbac
          BY <1>4 DEF IInv, StateInv
        <4>5. /\ scoped' = Grants(rbac) /\ UNCHANGED <<roles, rbac, state, origin>>
              /\ parent' = [r \in Resource |-> None]
          BY <4>2, <4>6 DEF CasbinAuthorizationDown, NoRow
        <4> QED
          BY <3>0, <4>2, <4>3, <4>4, <4>5
      <3> QED
        BY <3>1, <3>2
    <2>5. version' \in 0..(Latest + 1) /\ version' < Casbin /\ version' \in Legacy..Casbin
      BY <2>4, Versions
    <2>6. Types'
      <3>1. TypeOK'
        BY <1>1, <2>2, <2>4, <2>5 DEF IInv, Types, TypeOK
      <3> QED
        BY <2>1, <2>2, <3>1 DEF IInv, Types
    <2>7. LockInv'
      BY <1>1, <2>1, <2>2 DEF IInv, LockInv
    <2>8. StateInv' /\ OriginInv'
      BY <1>4, <2>4, <2>5 DEF IInv, StateInv, OriginInv, policyFingerprint
    <2>9. PhaseInv'
      BY <2>1, <2>3 DEF PhaseInv, PhaseOf, Late
    <2>10. UndoOf(proc[Operator])'
      <3>1. Grants(rbac)' = Grants(rbac) /\ policyFingerprint' = policyFingerprint
        BY <2>4 DEF Grants, policyFingerprint
      <3> QED
        BY <1>1, <1>2, <2>1, <2>2, <2>4, <2>5, <3>1 DEF UndoOf
    <2> QED
      BY <2>6, <2>7, <2>8, <2>9, <2>10 DEF IInv
  <1>5. CASE ~(version > Legacy)
    <2> DEFINE new == [proc[Operator] EXCEPT !.pc = "validate"]
    <2>1. Becomes(Operator, new) /\ UNCHANGED <<version, data, lock, saved, deployed, cp, events, writes, faults>>
      BY <1>1, <1>5, TypeFacts DEF MigrateDownTo, Goto, Becomes, env
    <2>2. new \in ProcType /\ new.pc = "validate" /\ new.expected = proc[Operator].expected
      BY <1>3 DEF ProcType, Undo
    <2> HIDE DEF new
    <2>3. version = Legacy /\ version \in Legacy..Casbin
      BY <1>2, <1>5, Versions
    <2>4. UndoOf(new) /\ PhaseOf(new) /\ new.pc \notin Crit /\ new.pc # "serving"
      BY <1>2, <1>3, <2>2, <2>3 DEF UndoOf, PhaseOf, Crit, Late
    <2>5. faults' \in 0..MaxFaults /\ lock' \in Process \cup {None}
      BY <2>1, TypeFacts
    <2> QED
      BY <2>1, <2>2, <2>4, <2>5, Basics, LocalIInv
  <1> QED
    BY <1>4, <1>5

\* The rollback compares its result with the report.
LEMMA validateReportIInv ==
  ASSUME IInv, validateReport
  PROVE  IInv'
  <1> DEFINE pc == IF PreflightReady /\ policyFingerprint = proc[Operator].expected THEN "done" ELSE "off"
  <1>1. Exit(Operator, pc) /\ UNCHANGED <<version, data, env, faults>> /\ faults' \in 0..MaxFaults
    BY TypeFacts DEF validateReport
  <1>2. pc \in {"off", "done"}
    OBVIOUS
  <1> HIDE DEF pc
  <1> QED
    BY <1>1, <1>2, Basics, ExitIInv

\* The first request of an organization seeds its roles.
LEMMA SeedRolesIInv ==
  ASSUME IInv, SeedRoles
  PROVE  IInv'
  <1>1. /\ Serving # {} /\ Write /\ roles' = TRUE /\ parent' = [parent EXCEPT ![Org] = Org]
        /\ UNCHANGED <<version, rbac, scoped, state, origin, lock, proc, saved, deployed, cp, events, faults>>
    BY DEF SeedRoles
  <1>2. writes' \in 0..MaxWrites
    BY <1>1, WriteFacts
  <1>3. parent' \in [Resource -> {None, Org} \cup Project] /\ \A e \in Env : parent'[e] = parent[e]
    BY <1>1, TypeFacts, Basics
  <1>4. TypeOK'
    BY <1>1, <1>2, <1>3, TypeFacts DEF IInv, Types, TypeOK
  <1>5. \A b \in rbac' : b.role # None
    BY <1>1, ServingFacts
  <1> QED
    BY <1>1, <1>3, <1>4, <1>5, ServingIInv

\* Clients bind and unbind.
LEMMA BindIInv ==
  ASSUME IInv, (\E b \in Binding : Bind(b)) \/ (\E b \in rbac : Unbind(b))
  PROVE  IInv'
  <1>1. /\ Serving # {} /\ Write
        /\ UNCHANGED <<version, roles, scoped, parent, state, origin, lock, proc, saved, deployed, cp, events, faults>>
    BY DEF Bind, Unbind
  <1>2. writes' \in 0..MaxWrites
    BY <1>1, WriteFacts
  <1>3. \A b \in rbac : b.role # None
    BY <1>1, ServingFacts
  <1>4. rbac' \subseteq Row /\ \A b \in rbac' : b.role # None
    <2>1. ASSUME NEW b \in Binding, Bind(b) PROVE rbac' \subseteq Row /\ \A c \in rbac' : c.role # None
      <3> DEFINE new == [kind |-> b.kind, on |-> b.on, subject |-> b.role, role |-> b.role]
      <3>1. new \in Row /\ new.role # None
        BY MigrationAssumption DEF Binding, Row
      <3>2. rbac' = rbac \cup {new}
        BY <2>1 DEF Bind
      <3> HIDE DEF new
      <3> QED
        BY <1>3, <3>1, <3>2, TypeFacts
    <2>2. ASSUME NEW b \in rbac, Unbind(b) PROVE rbac' \subseteq Row /\ \A c \in rbac' : c.role # None
      BY <1>3, <2>2, TypeFacts DEF Unbind
    <2> QED
      BY <2>1, <2>2
  <1>5. TypeOK'
    BY <1>1, <1>2, <1>4, TypeFacts DEF IInv, Types, TypeOK
  <1> QED
    BY <1>1, <1>4, <1>5, ServingIInv

\* The worker attaches or removes a resource.
LEMMA HandleEventIInv ==
  ASSUME IInv, NEW s \in Scope, HandleEvent(s)
  PROVE  IInv'
  <1>1. /\ Serving # {} /\ events' = events \ {s}
        /\ UNCHANGED <<version, roles, scoped, state, origin, lock, proc, saved, deployed, cp, writes, faults>>
    BY DEF HandleEvent
  <1>2. /\ rbac' \subseteq rbac /\ parent' \in [Resource -> {None, Org} \cup Project]
        /\ \A e \in Env : parent'[e] \in {None, ProjectOf[e], parent[e]}
    <2>1. CASE s \in Live
      <3> DEFINE listed == {s} \cup (IF s \in Env THEN {ProjectOf[s]} ELSE {})
      <3>1. listed \in SUBSET Scope
        BY Basics DEF Scope
      <3>2. parent' = Attached(parent, listed) /\ rbac' = rbac
        BY <2>1 DEF HandleEvent
      <3> HIDE DEF listed
      <3> QED
        BY <3>1, <3>2, AttachedFacts
    <2>2. CASE s \notin Live
      <3>1. /\ parent' = [r \in Resource |-> IF r = s \/ parent[r] = s THEN None ELSE parent[r]]
            /\ rbac' = {b \in rbac : b.on # s}
        BY <2>2 DEF HandleEvent
      <3> QED
        BY <3>1, TypeFacts, Basics
    <2> QED
      BY <2>1, <2>2
  <1>3. \A b \in rbac' : b.role # None
    BY <1>1, <1>2, ServingFacts
  <1>4. TypeOK'
    BY <1>1, <1>2, TypeFacts DEF IInv, Types, TypeOK
  <1> QED
    BY <1>1, <1>2, <1>3, <1>4, ServingIInv

-----------------------------------------------------------------------------

\* Every step keeps the inductive invariant.
LEMMA NextIInv == IInv /\ [Next]_vars => IInv'
  <1> SUFFICES ASSUME IInv, [Next]_vars PROVE IInv'
    OBVIOUS
  <1>1. ASSUME NEW p \in Process, Begin(p) \/ AcquireLock(p) \/ Step(p) \/ Fail(p) PROVE IInv'
    BY <1>1, BeginIInv, AcquireLockIInv, FailIInv, CurrentVersionIInv, MigrateUpIInv, loadMigrationStateIInv,
       VerifyIInv, SkipIInv, loadOrganizationResourcesIInv, ReconcileIInv, RecheckIInv,
       markMigrationReconciledIInv DEF Step
  <1>2. CASE StopIAM \/ StartIAM \/ Preflight \/ Rollback \/ MigrateDownTo \/ validateReport \/ SeedRoles
    BY <1>2, StopIAMIInv, StartIAMIInv, PreflightIInv, RollbackIInv, MigrateDownToIInv, validateReportIInv,
       SeedRolesIInv
  <1>3. CASE (\E b \in Binding : Bind(b)) \/ (\E b \in rbac : Unbind(b))
    BY <1>3, BindIInv
  <1>4. ASSUME NEW s \in Scope, Create(s) \/ Delete(s) \/ HandleEvent(s) PROVE IInv'
    BY <1>4, ControlPlaneIInv, HandleEventIInv
  <1>5. CASE UNCHANGED vars
    <2>1. UNCHANGED <<version, data, lock, proc, faults, saved, deployed, cp, events, writes>>
      BY <1>5 DEF vars, env
    <2>2. TypeOK' /\ saved' \in Fingerprint
      BY <2>1, TypeFacts DEF IInv, Types, TypeOK, data
    <2> QED
      BY <2>1, <2>2, BesideIInv
  <1> QED
    BY <1>1, <1>2, <1>3, <1>4, <1>5 DEF Next

\* The inductive invariant always holds.
LEMMA Invariance == Spec => []IInv
  BY InitIInv, NextIInv, PTL DEF Spec

\* However the upgrade is interrupted, resumed or undone: a replica serves
\* only from a complete schema whose bindings all name a role and whose
\* environments inherit from their own project alone, and a rollback ends with
\* the legacy database that the preflight accepts.
THEOREM UpgradeFailsClosed == Spec => []MigrationInv
  <1>1. IInv => MigrationInv
    <2> SUFFICES ASSUME IInv PROVE MigrationInv
      OBVIOUS
    <2>1. TypeOK
      BY DEF IInv, Types
    <2>2. FailClosed
      <3> SUFFICES ASSUME Serving # {}
                   PROVE  /\ version = Latest /\ state.reconciled /\ \A b \in rbac : b.role # None
                          /\ \A e \in Env : parent[e] \in {None, ProjectOf[e]}
        BY DEF FailClosed
      <3>1. version = Latest /\ state.reconciled /\ Sound /\ \A b \in rbac : b.role # None
        BY ServingFacts
      <3> QED
        BY <3>1 DEF IInv, StateInv, Sound
    <2>3. RollbackIsClean
      BY DEF IInv, UndoOf, Undo, RollbackIsClean, PreflightReady, inspectLegacy
    <2> QED
      BY <2>1, <2>2, <2>3 DEF MigrationInv
  <1> QED
    BY <1>1, Invariance, PTL

\* However often the upgrade is interrupted and resumed, it is recorded as done
\* only with the roles and bindings that it found in the legacy schema.
THEOREM UpgradeKeepsPolicyEver == Spec => UpgradeKeepsPolicy
  <1>1. ASSUME IInv, [Next]_vars, NEW p \in Process, proc[p].pc = "mark", proc'[p].pc \in {"serving", "done"}
        PROVE  markMigrationReconciled(p)
    <2>0. proc = [q \in Process |-> proc[q]]
      BY <1>1, TypeFacts DEF ProcType
    <2>1. proc'[p] # proc[p] /\ ~Idle(p) /\ p \in Process
      BY <1>1 DEF Idle
    <2>2. ASSUME NEW q \in Process, Begin(q) \/ AcquireLock(q) \/ Step(q) \/ Fail(q) PROVE markMigrationReconciled(p)
      <3>1. CASE q # p
        <4>1. proc'[p] = proc[p]
          <5>1. CASE Begin(q) \/ AcquireLock(q) \/ Fail(q)
            BY <3>1, <5>1, <2>0, <2>2 DEF Begin, AcquireLock, Goto, Fail, Exit
          <5>2. CASE CurrentVersion(q) \/ MigrateUp(q) \/ loadMigrationState(q) \/ Skip(q)
            BY <3>1, <5>2, <2>0, <2>2 DEF Goto, Exit, Finish, CurrentVersion, MigrateUp, loadMigrationState, Skip
          <5>3. CASE Verify(q)
            <6>1. Finish(q) \/ Exit(q, "off") \/ \E new : proc' = [proc EXCEPT ![q] = new]
              BY <5>3 DEF Verify
            <6> QED
              BY <3>1, <6>1, <2>0, <2>2 DEF Finish, Exit
          <5>4. CASE loadOrganizationResources(q) \/ Reconcile(q) \/ Recheck(q) \/ markMigrationReconciled(q)
            BY <3>1, <5>4, <2>0, <2>2 DEF Goto, Exit, Finish, loadOrganizationResources, Reconcile, Recheck,
                                         markMigrationReconciled
          <5> QED
            BY <2>2, <5>1, <5>2, <5>3, <5>4 DEF Step
        <4> QED
          BY <2>1, <4>1
      <3>2. CASE q = p
        <4>1. ~Begin(p) /\ ~AcquireLock(p)
          BY <1>1, <2>1 DEF Begin, AcquireLock
        <4>2. ~Fail(p)
          <5>1. [Off EXCEPT !.pc = "off"].pc = "off"
            BY DEF Off
          <5>2. Fail(p) => proc'[p] = [Off EXCEPT !.pc = "off"]
            BY <1>1, <2>0 DEF Fail, Exit
          <5> QED
            BY <1>1, <5>1, <5>2
        <4>3. Step(p)
          BY <2>2, <3>2, <4>1, <4>2
        <4> QED
          BY <1>1, <4>3 DEF Step, CurrentVersion, MigrateUp, loadMigrationState, Verify, Skip,
                            loadOrganizationResources, Reconcile, Recheck
      <3> QED
        BY <3>1, <3>2
    <2>3. ~StopIAM
      BY <1>1, <2>1, TypeFacts, Basics DEF StopIAM
    <2>4. ~(StartIAM \/ Preflight \/ SeedRoles \/ UNCHANGED vars)
      BY <2>1 DEF StartIAM, Preflight, SeedRoles, vars
    <2>5. ~(Rollback \/ MigrateDownTo \/ validateReport)
      <3>1. ASSUME Rollback \/ MigrateDownTo \/ validateReport PROVE proc'[p] = proc[p]
        <4>1. p # Operator
          BY <1>1, <2>1, <3>1 DEF Rollback, MigrateDownTo, validateReport
        <4>2. \E new : proc' = [proc EXCEPT ![Operator] = new]
          <5>1. MigrateDownTo => proc' = proc \/ \E new : proc' = [proc EXCEPT ![Operator] = new]
            BY DEF MigrateDownTo, Goto
          <5>2. proc = [proc EXCEPT ![Operator] = proc[Operator]]
            BY <2>0
          <5>3. Rollback \/ validateReport => \E new : proc' = [proc EXCEPT ![Operator] = new]
            BY DEF Rollback, validateReport, Exit
          <5> QED
            BY <3>1, <5>1, <5>2, <5>3
        <4> QED
          BY <1>1, <4>1, <4>2, <2>0
      <3> QED
        BY <2>1, <3>1
    <2>6. ~((\E b \in Binding : Bind(b)) \/ (\E b \in rbac : Unbind(b)))
      BY <2>1 DEF Bind, Unbind
    <2>7. ~\E s \in Scope : Create(s) \/ Delete(s) \/ HandleEvent(s)
      BY <2>1 DEF Create, Delete, HandleEvent
    <2> QED
      BY <1>1, <2>2, <2>3, <2>4, <2>5, <2>6, <2>7 DEF Next
  <1>2. ASSUME IInv, NEW p \in Process, markMigrationReconciled(p)
        PROVE  origin = None \/ policyFingerprint' = origin
    BY <1>2 DEF IInv, OriginInv, markMigrationReconciled, policyFingerprint
  <1>3. IInv /\ [Next]_vars =>
          [\A p \in Process : proc[p].pc = "mark" /\ proc'[p].pc \in {"serving", "done"} =>
              origin = None \/ policyFingerprint' = origin]_vars
    BY <1>1, <1>2
  <1> QED
    BY <1>3, Invariance, PTL DEF Spec, UpgradeKeepsPolicy
=============================================================================
