------------------------ MODULE PolicyReload_proofs -------------------------
(***************************************************************************)
(* Proofs about PolicyReload, for any number of instances and handlers and *)
(* any bounds.                                                             *)
(***************************************************************************)
EXTENDS PolicyReload, TLAPS

Holding == {"drain"} \cup Loading

\* A goroutine between Lock and Unlock is the announced writer.
LockInv == \A p \in Proc : pc[p] \in Holding => writer[Home(p)] = p

\* A goroutine inside Authorize holds the read lock.
ReaderInv == \A h \in Handler : pc[h] \in Reading => h \in readers[Host[h]]

\* While a load runs there are no readers and the cache stays empty.
ExclusionInv ==
    \A p \in Proc : pc[p] \in Loading =>
        readers[Home(p)] = {} /\ decisions[Home(p)] = {} /\ known[Home(p)] = {}

\* Nothing runs in, and nothing is cached by, an instance that does not serve.
OffInv ==
    \A i \in Instance : ~Serving(i) =>
        /\ decisions[i] = {} /\ known[i] = {}
        /\ \A h \in Handler : Host[h] = i => pc[h] = "idle"

\* The second query is never older than the first, nothing is from the future.
OrderInv ==
    /\ \A i \in Instance : policies[i] <= relations[i] /\ relations[i] <= db /\ acked[i] <= db
    /\ \A p \in Proc : read[p] <= db
    /\ \A h \in Handler : target[h] <= db

\* No cached answer is older than the role bindings.
CacheInv ==
    \A i \in Instance :
        /\ \A v \in decisions[i] : v = policies[i]
        /\ \A v \in known[i] : policies[i] <= v

\* What a goroutine read and is about to store is at least as recent as what
\* it will replace, and answers for the change its own request committed.
ReadInv ==
    \A p \in Proc :
        /\ pc[p] = "relations" => policies[Home(p)] <= read[p]
        /\ pc[p] = "store_permission" => policies[Home(p)] <= read[p]
        /\ pc[p] = "store_decision" => read[p] = policies[Home(p)]
        /\ pc[p] = "boot_relations" => acked[Home(p)] <= read[p]

\* A reload in progress covers the change that its handler committed.
TargetInv ==
    \A h \in Handler :
        /\ pc[h] = "relations" => target[h] <= read[h]
        /\ pc[h] = "publish" => target[h] <= policies[Host[h]]

\* What an instance acknowledged, it serves, also after a restart.
AckInv ==
    \A i \in Instance : Serving(i) \/ pc[i] = "subscribe" => acked[i] <= policies[i]

IInv ==
    /\ TypeOK /\ LockInv /\ ReaderInv /\ ExclusionInv /\ OffInv
    /\ OrderInv /\ CacheInv /\ ReadInv /\ TargetInv /\ AckInv

-----------------------------------------------------------------------------
(* The constants' assumption is used throughout.                           *)
USE ConstantsAssumption

\* Every goroutine lives in an instance.
LEMMA HomeType == \A p \in Proc : Home(p) \in Instance
  BY DEF Proc, Home

\* The initial state is well typed.
LEMMA InitTypeOK == Init => TypeOK
  BY DEF Init, TypeOK, Proc, WorkerPC, HandlerPC, Booting, Loading

\* The end of a process resets its memory to well-typed values.
LEMMA ExitTypeOK ==
  ASSUME TypeOK, NEW i \in Instance, Exit(i), faults' \in 0..MaxFaults
  PROVE  TypeOK'
<1>1. pc' \in [Proc -> WorkerPC \cup HandlerPC]
  BY DEF Exit, TypeOK, WorkerPC, HandlerPC
<1>2. \A j \in Instance : pc'[j] \in WorkerPC
  BY DEF Exit, TypeOK, WorkerPC, Proc, Home
<1>3. \A h \in Handler : pc'[h] \in HandlerPC
  BY DEF Exit, TypeOK, HandlerPC, Proc, Home
<1>4. read' \in [Proc -> 0..MaxVersion]
  BY DEF Exit, TypeOK
<1>5. bus' \in [Instance \X Instance -> Nat]
  BY SMTT(60) DEF Exit, TypeOK
<1> QED
  BY <1>1, <1>2, <1>3, <1>4, <1>5 DEF Exit, TypeOK

\* Every step keeps the types.
LEMMA NextTypeOK == TypeOK /\ [Next]_vars => TypeOK'
<1> SUFFICES ASSUME TypeOK, [Next]_vars PROVE TypeOK'
  OBVIOUS
<1> USE HomeType
    DEF TypeOK, Proc, WorkerPC, HandlerPC, Booting, Loading,
        lockVars, snapVars, cacheVars, chanVars, ghostVars, Goto
<1>1. ASSUME NEW h \in Handler, CommitRevoke(h) PROVE TypeOK'
  BY <1>1 DEF CommitRevoke, Commit
<1>2. ASSUME NEW h \in Handler, CommitGrant(h) PROVE TypeOK'
  BY <1>2 DEF CommitGrant, Commit
<1>3. ASSUME NEW h \in Handler, RLock(h) PROVE TypeOK'
  BY <1>3 DEF RLock
<1>4. ASSUME NEW h \in Handler, QueryKnownPermissionsFails(h) PROVE TypeOK'
  BY <1>4 DEF QueryKnownPermissionsFails, RUnlock, Fault
<1>5. ASSUME NEW h \in Handler, ScheduleReloadPolicy(h) PROVE TypeOK'
  BY <1>5 DEF ScheduleReloadPolicy
<1>6. ASSUME NEW h \in Handler, PermissionCached(h) PROVE TypeOK'
  BY <1>6 DEF PermissionCached
<1>7. ASSUME NEW h \in Handler, QueryKnownPermissions(h) PROVE TypeOK'
  BY <1>7 DEF QueryKnownPermissions
<1>8. ASSUME NEW h \in Handler, StorePermission(h) PROVE TypeOK'
  <2>1. CASE Goto(h, "enforce") /\ UNCHANGED readers
    BY <1>8, <2>1 DEF StorePermission, Forget
  <2>2. CASE RUnlock(h)
    BY <1>8, <2>2 DEF StorePermission, RUnlock, Forget
  <2> QED
    BY <1>8, <2>1, <2>2 DEF StorePermission
<1>9. ASSUME NEW h \in Handler, DecisionCached(h) PROVE TypeOK'
  BY <1>9 DEF DecisionCached, RUnlock
<1>10. ASSUME NEW h \in Handler, ComputeDecision(h) PROVE TypeOK'
  BY <1>10 DEF ComputeDecision
<1>11. ASSUME NEW h \in Handler, StoreDecision(h) PROVE TypeOK'
  BY <1>11 DEF StoreDecision, RUnlock, Forget
<1>12. ASSUME NEW p \in Proc, Lock(p) PROVE TypeOK'
  BY <1>12 DEF Lock
<1>13. ASSUME NEW p \in Proc, StartLoad(p) PROVE TypeOK'
  BY <1>13 DEF StartLoad
<1>14. ASSUME NEW p \in Proc, QueryPolicies(p) PROVE TypeOK'
  BY <1>14 DEF QueryPolicies
<1>15. ASSUME NEW p \in Proc, QueryRelations(p) PROVE TypeOK'
  BY <1>15 DEF QueryRelations, AfterReload
<1>16. ASSUME NEW p \in Proc, Publish(p) PROVE TypeOK'
  BY <1>16 DEF Publish, AfterReload, Discharge, Forget, Fanout
<1>17. ASSUME NEW p \in Proc, LoadFails(p) PROVE TypeOK'
  BY <1>17 DEF LoadFails, AfterReload, Discharge, Forget, Fault
<1>18. ASSUME NEW p \in Proc, PublishFails(p) PROVE TypeOK'
  BY <1>18 DEF PublishFails, AfterReload, Discharge, Forget, Fault
<1>19. ASSUME NEW i \in Instance, SelectStop(i) PROVE TypeOK'
  BY <1>19 DEF SelectStop
<1>20. ASSUME NEW i \in Instance, SelectTicker(i) PROVE TypeOK'
  BY <1>20 DEF SelectTicker
<1>21. ASSUME NEW i \in Instance, SelectInvalidation(i) PROVE TypeOK'
  BY <1>21 DEF SelectInvalidation
<1>22. ASSUME NEW i \in Instance, SelectDeferred(i) PROVE TypeOK'
  BY <1>22 DEF SelectDeferred
<1>23. ASSUME NEW i \in Instance, Debounce(i) PROVE TypeOK'
  BY <1>23 DEF Debounce
<1>24. ASSUME NEW i \in Instance, Absorb(i) PROVE TypeOK'
  BY <1>24 DEF Absorb
<1>25. ASSUME NEW i \in Instance, BootPolicies(i) PROVE TypeOK'
  BY <1>25 DEF BootPolicies
<1>26. ASSUME NEW i \in Instance, BootRelations(i) PROVE TypeOK'
  BY <1>26 DEF BootRelations, Forget
<1>27. ASSUME NEW i \in Instance, Subscribe(i) PROVE TypeOK'
  BY <1>27 DEF Subscribe
<1>28. ASSUME NEW i \in Instance, Boot(i) PROVE TypeOK'
  BY <1>28 DEF Boot
<1>29. ASSUME NEW i \in Instance, Close(i) PROVE TypeOK'
  BY <1>29 DEF Close
<1>30. ASSUME NEW i \in Instance, Shutdown(i) PROVE TypeOK'
  BY <1>30, ExitTypeOK DEF Shutdown
<1>31. ASSUME NEW i \in Instance, Crash(i) PROVE TypeOK'
  <2>1. faults' \in 0..MaxFaults
    BY <1>31 DEF Crash, Fault
  <2> QED
    BY <1>31, <2>1, ExitTypeOK DEF Crash
<1>32. ASSUME NEW o \in Instance, NEW d \in Instance, HandleInvalidation(o, d) PROVE TypeOK'
  BY <1>32 DEF HandleInvalidation
<1>33. ASSUME NEW o \in Instance, NEW d \in Instance, LoseMessage(o, d) PROVE TypeOK'
  BY <1>33 DEF LoseMessage, Fault
<1>34. CASE UNCHANGED vars
  BY <1>34 DEF vars
<1> QED
  BY <1>1, <1>2, <1>3, <1>4, <1>5, <1>6, <1>7, <1>8, <1>9, <1>10, <1>11, <1>12, <1>13,
       <1>14, <1>15, <1>16, <1>17, <1>18, <1>19, <1>20, <1>21, <1>22, <1>23, <1>24, <1>25,
       <1>26, <1>27, <1>28, <1>29, <1>30, <1>31, <1>32, <1>33, <1>34
  DEF Next, HandlerStep, ReloadStep, WorkerStep, BootStep

\* Every step keeps the type invariant: the state stays within its types for
\* any number of instances, handlers, versions, shutdowns and faults.
THEOREM TypeCorrect == Spec => []TypeOK
  BY InitTypeOK, NextTypeOK, PTL DEF Spec

-----------------------------------------------------------------------------

\* The inductive invariant holds initially.
LEMMA InitIInv == Init => IInv
  BY SMTT(60), InitTypeOK DEF Init, IInv, LockInv, ReaderInv, ExclusionInv, OffInv, OrderInv,
     CacheInv, ReadInv, TargetInv, AckInv, TypeOK, Proc, Home, Holding, Loading,
     Reading, Serving, Booting

\* Every step keeps the inductive invariant, one case per action.
LEMMA NextIInv == IInv /\ [Next]_vars => IInv'
<1> DEFINE Parts == /\ LockInv /\ ReaderInv /\ ExclusionInv /\ OffInv
                    /\ OrderInv /\ CacheInv /\ ReadInv /\ TargetInv /\ AckInv
<1> SUFFICES ASSUME IInv, [Next]_vars PROVE Parts'
  BY NextTypeOK DEF IInv
<1> TypeOK /\ TypeOK'
  BY NextTypeOK DEF IInv
<1> USE HomeType
    DEF TypeOK, Proc, WorkerPC, HandlerPC, Booting, Loading, Serving, Home, Holding,
        Reading, IInv, LockInv, ReaderInv, ExclusionInv, OffInv, OrderInv, CacheInv,
        ReadInv, TargetInv, AckInv,
        lockVars, snapVars, cacheVars, chanVars, ghostVars, Goto
<1>1. ASSUME NEW h \in Handler, CommitRevoke(h) PROVE Parts'
  BY <1>1 DEF CommitRevoke, Commit
<1>2. ASSUME NEW h \in Handler, CommitGrant(h) PROVE Parts'
  BY <1>2 DEF CommitGrant, Commit
<1>3. ASSUME NEW h \in Handler, RLock(h) PROVE Parts'
  BY <1>3 DEF RLock
<1>4. ASSUME NEW h \in Handler, QueryKnownPermissionsFails(h) PROVE Parts'
  BY <1>4 DEF QueryKnownPermissionsFails, RUnlock, Fault
<1>5. ASSUME NEW h \in Handler, ScheduleReloadPolicy(h) PROVE Parts'
  BY <1>5 DEF ScheduleReloadPolicy
<1>6. ASSUME NEW h \in Handler, PermissionCached(h) PROVE Parts'
  BY <1>6 DEF PermissionCached
<1>7. ASSUME NEW h \in Handler, QueryKnownPermissions(h) PROVE Parts'
  BY <1>7 DEF QueryKnownPermissions
<1>8. ASSUME NEW h \in Handler, StorePermission(h) PROVE Parts'
  <2>1. CASE Goto(h, "enforce") /\ UNCHANGED readers
    BY <1>8, <2>1 DEF StorePermission, Forget
  <2>2. CASE RUnlock(h)
    BY <1>8, <2>2 DEF StorePermission, RUnlock, Forget
  <2> QED
    BY <1>8, <2>1, <2>2 DEF StorePermission
<1>9. ASSUME NEW h \in Handler, DecisionCached(h) PROVE Parts'
  BY <1>9 DEF DecisionCached, RUnlock
<1>10. ASSUME NEW h \in Handler, ComputeDecision(h) PROVE Parts'
  BY <1>10 DEF ComputeDecision
<1>11. ASSUME NEW h \in Handler, StoreDecision(h) PROVE Parts'
  BY <1>11 DEF StoreDecision, RUnlock, Forget
<1>12. ASSUME NEW p \in Proc, Lock(p) PROVE Parts'
  BY <1>12 DEF Lock
<1>13. ASSUME NEW p \in Proc, StartLoad(p) PROVE Parts'
  BY <1>13 DEF StartLoad
<1>14. ASSUME NEW p \in Proc, QueryPolicies(p) PROVE Parts'
  BY <1>14 DEF QueryPolicies
<1>15. ASSUME NEW p \in Proc, QueryRelations(p) PROVE Parts'
  <2> USE <1>15 DEF QueryRelations, AfterReload
  <2>1. LockInv' /\ ReaderInv' /\ ExclusionInv' /\ OffInv'
    OBVIOUS
  <2>2. OrderInv' /\ CacheInv' /\ TargetInv' /\ AckInv'
    OBVIOUS
  <2>3. ASSUME NEW q \in Proc, Home(q) = Home(p), q # p
        PROVE  pc[q] \notin {"relations", "store_permission", "store_decision", "boot_relations"}
    <3>1. pc[q] # "relations"
      BY <2>3
    <3>2. pc[q] \notin {"store_permission", "store_decision"}
      <4>1. readers[Home(p)] = {}
        OBVIOUS
      <4>2. CASE q \in Handler
        BY <2>3, <4>1, <4>2
      <4>3. CASE q \in Instance
        BY <4>3
      <4> QED
        BY <4>2, <4>3
    <3>3. pc[q] # "boot_relations"
      <4>1. SUFFICES ASSUME pc[q] = "boot_relations" PROVE FALSE
        OBVIOUS
      <4>2. q \in Instance /\ ~Serving(q) /\ q = Home(p)
        BY <2>3, <4>1
      <4>3. p \in Handler /\ Host[p] = q
        BY <2>3, <4>2
      <4> QED
        BY <4>2, <4>3
    <3> QED
      BY <3>1, <3>2, <3>3
  <2>4. pc'[p] \notin {"relations", "store_permission", "store_decision", "boot_relations"}
    OBVIOUS
  <2>5. ReadInv'
    BY <2>3, <2>4
  <2> QED
    BY ONLY <2>1, <2>2, <2>5
<1>16. ASSUME NEW p \in Proc, Publish(p) PROVE Parts'
  <2> USE <1>16 DEF Publish, AfterReload, Forget
  <2>1. LockInv' /\ ReaderInv' /\ ExclusionInv' /\ OffInv'
    OBVIOUS
  <2>2. OrderInv' /\ CacheInv' /\ TargetInv' /\ AckInv'
    OBVIOUS
  <2>3. ASSUME NEW q \in Proc, q # p, pc[q] = "boot_relations"
        PROVE  acked'[Home(q)] = acked[Home(q)]
    BY <2>3
  <2>4. pc'[p] \notin {"relations", "store_permission", "store_decision", "boot_relations"}
    OBVIOUS
  <2>5. ReadInv'
    BY <2>3, <2>4
  <2> QED
    BY ONLY <2>1, <2>2, <2>5
<1>17. ASSUME NEW p \in Proc, LoadFails(p) PROVE Parts'
  BY <1>17 DEF LoadFails, AfterReload, Forget
<1>18. ASSUME NEW p \in Proc, PublishFails(p) PROVE Parts'
  BY <1>18 DEF PublishFails, AfterReload, Forget
<1>19. ASSUME NEW i \in Instance, SelectStop(i) PROVE Parts'
  BY <1>19 DEF SelectStop
<1>20. ASSUME NEW i \in Instance, SelectTicker(i) PROVE Parts'
  BY <1>20 DEF SelectTicker
<1>21. ASSUME NEW i \in Instance, SelectInvalidation(i) PROVE Parts'
  BY <1>21 DEF SelectInvalidation
<1>22. ASSUME NEW i \in Instance, SelectDeferred(i) PROVE Parts'
  BY SMTT(60), <1>22 DEF SelectDeferred
<1>23. ASSUME NEW i \in Instance, Debounce(i) PROVE Parts'
  BY <1>23 DEF Debounce
<1>24. ASSUME NEW i \in Instance, Absorb(i) PROVE Parts'
  BY <1>24 DEF Absorb
<1>25. ASSUME NEW i \in Instance, BootPolicies(i) PROVE Parts'
  BY <1>25 DEF BootPolicies
<1>26. ASSUME NEW i \in Instance, BootRelations(i) PROVE Parts'
  BY <1>26 DEF BootRelations, Forget
<1>27. ASSUME NEW i \in Instance, Subscribe(i) PROVE Parts'
  BY <1>27 DEF Subscribe
<1>28. ASSUME NEW i \in Instance, Boot(i) PROVE Parts'
  BY <1>28 DEF Boot
<1>29. ASSUME NEW i \in Instance, Close(i) PROVE Parts'
  BY SMTT(60), <1>29 DEF Close
<1>30. ASSUME NEW i \in Instance, Shutdown(i) PROVE Parts'
  BY SMTT(60), <1>30 DEF Shutdown, Exit
<1>31. ASSUME NEW i \in Instance, Crash(i) PROVE Parts'
  BY <1>31 DEF Crash, Exit
<1>32. ASSUME NEW o \in Instance, NEW d \in Instance, HandleInvalidation(o, d) PROVE Parts'
  BY <1>32 DEF HandleInvalidation
<1>33. ASSUME NEW o \in Instance, NEW d \in Instance, LoseMessage(o, d) PROVE Parts'
  BY <1>33 DEF LoseMessage
<1>34. CASE UNCHANGED vars
  BY <1>34 DEF vars
<1> QED
  BY <1>1, <1>2, <1>3, <1>4, <1>5, <1>6, <1>7, <1>8, <1>9, <1>10, <1>11, <1>12, <1>13,
       <1>14, <1>15, <1>16, <1>17, <1>18, <1>19, <1>20, <1>21, <1>22, <1>23, <1>24, <1>25,
       <1>26, <1>27, <1>28, <1>29, <1>30, <1>31, <1>32, <1>33, <1>34
  DEF Next, HandlerStep, ReloadStep, WorkerStep, BootStep

\* The inductive invariant holds in every reachable state.
LEMMA Invariance == Spec => []IInv
  BY InitIInv, NextIInv, PTL DEF Spec

\* A change whose synchronous ReloadPolicy returned is in force on its
\* instance: snapshot, cached decisions and known permissions are never older.
THEOREM AckedChangesAreVisible == Spec => []AckedVisible
<1>1. IInv => AckedVisible
  BY DEF IInv, OrderInv, CacheInv, AckInv, AckedVisible, TypeOK
<1> QED
  BY <1>1, Invariance, PTL

\* The decision cache and the policy snapshot are refreshed together.
THEOREM CacheIsConsistent == Spec => []CacheMatchesSnapshot
<1>1. IInv => CacheMatchesSnapshot
  BY DEF IInv, CacheInv, CacheMatchesSnapshot
<1> QED
  BY <1>1, Invariance, PTL

-----------------------------------------------------------------------------
(* Steps as the abstract specification sees them.                          *)

\* A step that changes nothing the abstract specification can see.
Invisible ==
    /\ db' = db /\ acked' = acked
    /\ \A i \in Instance : /\ Serving(i)' <=> Serving(i)
                           /\ Serving(i) => policies'[i] = policies[i] /\ relations'[i] = relations[i]

\* Such a step is a stuttering step of PolicyView.
LEMMA InvisibleStutters == Invisible => UNCHANGED View!viewVars
  BY DEF Invisible, View!viewVars, Serving, Booting

\* A handler inside a reload keeps its instance serving.
LEMMA BusyServes ==
  ASSUME IInv, NEW p \in Proc, pc[p] \in {"lock", "drain", "publish"} \cup Loading
  PROVE  Home(p) \in Instance /\ Serving(Home(p))
<1>1. CASE p \in Handler
  BY <1>1, HomeType DEF IInv, OffInv, Home, Loading
<1>2. CASE p \in Instance
  BY <1>2, HomeType DEF Home, Serving, Booting, Loading
<1> QED
  BY <1>1, <1>2 DEF Proc

\* Every step is invisible, or it is one of the few that PolicyView sees.
LEMMA InvisibleSteps ==
  ASSUME IInv, [Next]_vars
  PROVE  \/ Invisible
         \/ \E h \in Handler : CommitRevoke(h) \/ CommitGrant(h)
         \/ \E p \in Proc : QueryRelations(p) \/ Publish(p)
         \/ \E i \in Instance : Subscribe(i) \/ (Serving(i) /\ Exit(i))
<1> USE DEF Invisible, Serving, Booting, Loading, TypeOK, Proc,
        lockVars, snapVars, cacheVars, chanVars, ghostVars, Goto
<1> TypeOK
  BY DEF IInv
<1>1. ASSUME NEW h \in Handler, RLock(h) PROVE Invisible
  BY <1>1 DEF RLock
<1>2. ASSUME NEW h \in Handler, QueryKnownPermissionsFails(h) PROVE Invisible
  BY <1>2 DEF QueryKnownPermissionsFails, RUnlock, Fault
<1>3. ASSUME NEW h \in Handler, ScheduleReloadPolicy(h) PROVE Invisible
  BY <1>3 DEF ScheduleReloadPolicy
<1>4. ASSUME NEW h \in Handler, PermissionCached(h) PROVE Invisible
  BY <1>4 DEF PermissionCached
<1>5. ASSUME NEW h \in Handler, QueryKnownPermissions(h) PROVE Invisible
  BY <1>5 DEF QueryKnownPermissions
<1>6. ASSUME NEW h \in Handler, StorePermission(h) PROVE Invisible
  BY <1>6 DEF StorePermission, RUnlock, Forget
<1>7. ASSUME NEW h \in Handler, DecisionCached(h) PROVE Invisible
  BY <1>7 DEF DecisionCached, RUnlock
<1>8. ASSUME NEW h \in Handler, ComputeDecision(h) PROVE Invisible
  BY <1>8 DEF ComputeDecision
<1>9. ASSUME NEW h \in Handler, StoreDecision(h) PROVE Invisible
  BY <1>9 DEF StoreDecision, RUnlock, Forget
<1>10. ASSUME NEW p \in Proc, Lock(p) PROVE Invisible
  BY <1>10 DEF Lock
<1>11. ASSUME NEW p \in Proc, StartLoad(p) PROVE Invisible
  BY <1>11 DEF StartLoad
<1>12. ASSUME NEW p \in Proc, QueryPolicies(p) PROVE Invisible
  BY <1>12 DEF QueryPolicies
<1>13. ASSUME NEW p \in Proc, LoadFails(p) PROVE Invisible
  BY <1>13 DEF LoadFails, AfterReload
<1>14. ASSUME NEW p \in Proc, PublishFails(p) PROVE Invisible
  BY <1>14 DEF PublishFails, AfterReload
<1>15. ASSUME NEW i \in Instance, SelectStop(i) PROVE Invisible
  BY <1>15 DEF SelectStop
<1>16. ASSUME NEW i \in Instance, SelectTicker(i) PROVE Invisible
  BY <1>16 DEF SelectTicker
<1>17. ASSUME NEW i \in Instance, SelectInvalidation(i) PROVE Invisible
  BY <1>17 DEF SelectInvalidation
<1>18. ASSUME NEW i \in Instance, SelectDeferred(i) PROVE Invisible
  BY <1>18 DEF SelectDeferred
<1>19. ASSUME NEW i \in Instance, Debounce(i) PROVE Invisible
  BY <1>19 DEF Debounce
<1>20. ASSUME NEW i \in Instance, Absorb(i) PROVE Invisible
  BY <1>20 DEF Absorb
<1>21. ASSUME NEW i \in Instance, BootPolicies(i) PROVE Invisible
  BY <1>21 DEF BootPolicies
<1>22. ASSUME NEW i \in Instance, BootRelations(i) PROVE Invisible
  BY <1>22 DEF BootRelations, Forget
<1>23. ASSUME NEW i \in Instance, Boot(i) PROVE Invisible
  BY <1>23 DEF Boot
<1>24. ASSUME NEW i \in Instance, Close(i) PROVE Invisible
  BY <1>24 DEF Close
<1>25. ASSUME NEW i \in Instance, Exit(i), ~Serving(i) PROVE Invisible
  BY <1>25 DEF Exit, Home, IInv, OffInv
<1>26. ASSUME NEW o \in Instance, NEW d \in Instance, HandleInvalidation(o, d) PROVE Invisible
  BY <1>26 DEF HandleInvalidation
<1>27. ASSUME NEW o \in Instance, NEW d \in Instance, LoseMessage(o, d) PROVE Invisible
  BY <1>27 DEF LoseMessage
<1>28. CASE UNCHANGED vars
  BY <1>28 DEF vars
<1> QED
  BY <1>1, <1>2, <1>3, <1>4, <1>5, <1>6, <1>7, <1>8, <1>9, <1>10, <1>11, <1>12, <1>13,
       <1>14, <1>15, <1>16, <1>17, <1>18, <1>19, <1>20, <1>21, <1>22, <1>23, <1>24, <1>25,
       <1>26, <1>27, <1>28
  DEF Next, HandlerStep, ReloadStep, WorkerStep, BootStep, Shutdown, Crash

\* A reload never replaces the policy of a serving instance by an older one.
THEOREM ReloadsMoveForward == Spec => SnapshotMonotonic
<1> DEFINE Forward == \A i \in Instance : Serving(i) /\ Serving(i)' =>
                          policies[i] <= policies'[i] /\ relations[i] <= relations'[i]
<1>1. ASSUME IInv, [Next]_vars PROVE Forward
  <2> TypeOK
    BY <1>1 DEF IInv
  <2> USE DEF TypeOK, Serving, Booting, Proc
  <2>1. CASE Invisible
    BY <2>1 DEF Invisible
  <2>2. ASSUME NEW h \in Handler, CommitRevoke(h) \/ CommitGrant(h) PROVE Forward
    BY <2>2 DEF CommitRevoke, CommitGrant, Commit, snapVars
  <2>3. ASSUME NEW p \in Proc, QueryRelations(p) PROVE Forward
    BY <1>1, <2>3, HomeType DEF QueryRelations, IInv, OrderInv, ReadInv
  <2>4. ASSUME NEW p \in Proc, Publish(p) PROVE Forward
    BY <2>4 DEF Publish, snapVars
  <2>5. ASSUME NEW i \in Instance, Subscribe(i) PROVE Forward
    BY <2>5 DEF Subscribe, snapVars
  <2>6. ASSUME NEW i \in Instance, Exit(i) PROVE Forward
    BY <2>6 DEF Exit
  <2> QED
    BY <1>1, <2>1, <2>2, <2>3, <2>4, <2>5, <2>6, InvisibleSteps
<1> QED
  BY <1>1, Invariance, PTL DEF Spec, SnapshotMonotonic

\* The detailed authorizer implements PolicyView: answers of a serving instance
\* are never older than what it acknowledged, in this life or an earlier one.
THEOREM ReloadImplementsView == Spec => ImplementsView
<1>1. Init => View!ViewInit
  BY DEF Init, View!ViewInit, Serving, Proc
<1>2. ASSUME IInv, IInv', [Next]_vars PROVE [View!ViewNext]_(View!viewVars)
  <2> TypeOK /\ TypeOK'
    BY <1>2 DEF IInv
  <2> USE <1>2 DEF TypeOK, Proc
  <2> DEFINE up == {i \in Instance : Serving(i)}
             seen == [i \in Instance |-> IF Serving(i) THEN policies[i] ELSE 0]
  <2>1. CASE Invisible
    BY <2>1, InvisibleStutters
  <2>2. ASSUME NEW h \in Handler, CommitRevoke(h) \/ CommitGrant(h) PROVE View!CommitChange
    BY <2>2 DEF CommitRevoke, CommitGrant, Commit, Goto, snapVars, ghostVars, Serving, Booting,
       View!CommitChange
  <2>3. ASSUME NEW p \in Proc, QueryRelations(p) PROVE View!Refresh(Home(p))
    <3>1. Home(p) \in Instance /\ Serving(Home(p))
      BY <2>3, BusyServes DEF QueryRelations, Loading
    <3>2. \A i \in Instance : Serving(i)' <=> Serving(i)
      BY <2>3 DEF QueryRelations, Goto, AfterReload, Serving, Booting, Loading
    <3>3. read[p] \in policies[Home(p)]..db
      BY <2>3, <3>1 DEF QueryRelations, IInv, OrderInv, ReadInv
    <3>4. up' = up
      BY <3>2
    <3>5. seen' = [seen EXCEPT ![Home(p)] = read[p]]
      <4>1. policies' = [policies EXCEPT ![Home(p)] = read[p]]
        BY <2>3 DEF QueryRelations
      <4>2. policies \in [Instance -> 0..MaxVersion]
        OBVIOUS
      <4> QED
        BY ONLY <3>1, <3>2, <4>1, <4>2
    <3>6. Home(p) \in up /\ read[p] \in seen[Home(p)]..db
      BY <3>1, <3>3
    <3>7. db' = db /\ acked' = acked
      BY <2>3 DEF QueryRelations, ghostVars
    <3> QED
      BY ONLY <3>4, <3>5, <3>6, <3>7 DEF View!Refresh
  <2>4. ASSUME NEW p \in Proc, Publish(p) PROVE View!Acknowledge(Home(p))
    <3>1. Home(p) \in Instance /\ Serving(Home(p))
      BY <2>4, BusyServes DEF Publish
    <3>2. \A i \in Instance : Serving(i)' <=> Serving(i)
      BY <2>4 DEF Publish, Goto, AfterReload, Serving, Booting
    <3>3. PICK v \in acked[Home(p)]..policies[Home(p)] : acked' = [acked EXCEPT ![Home(p)] = v]
      <4>1. CASE p \in Handler /\ acked[Home(p)] < target[p]
        <5>1. target[p] \in acked[Home(p)]..policies[Home(p)]
          BY <2>4, <3>1, <4>1 DEF Publish, IInv, TargetInv, Home
        <5>2. acked' = [acked EXCEPT ![Home(p)] = target[p]]
          BY <2>4, <4>1 DEF Publish
        <5> QED
          BY <5>1, <5>2
      <4>2. CASE ~(p \in Handler /\ acked[Home(p)] < target[p])
        <5>1. acked[Home(p)] \in acked[Home(p)]..policies[Home(p)]
          BY <3>1 DEF IInv, AckInv
        <5>2. acked' = [acked EXCEPT ![Home(p)] = acked[Home(p)]]
          BY <2>4, <4>2 DEF Publish
        <5> QED
          BY <5>1, <5>2
      <4> QED
        BY <4>1, <4>2
    <3> QED
      BY <2>4, <3>1, <3>2, <3>3 DEF Publish, snapVars, View!Acknowledge
  <2>5. ASSUME NEW i \in Instance, Subscribe(i) PROVE View!Start(i)
    <3>1. ~Serving(i) /\ Serving(i)'
      BY <2>5 DEF Subscribe, Goto, Serving, Booting
    <3>2. \A j \in Instance \ {i} : Serving(j)' <=> Serving(j)
      BY <2>5 DEF Subscribe, Goto, Serving, Booting
    <3>3. policies[i] \in acked[i]..db
      BY <2>5 DEF Subscribe, IInv, AckInv, OrderInv
    <3>4. up' = up \cup {i} /\ i \notin up
      BY <3>1, <3>2
    <3>5. seen' = [seen EXCEPT ![i] = policies[i]]
      <4>1. policies' = policies
        BY <2>5 DEF Subscribe, snapVars
      <4> QED
        BY ONLY <2>5, <3>1, <3>2, <4>1
    <3>6. db' = db /\ acked' = acked
      BY <2>5 DEF Subscribe
    <3> QED
      BY ONLY <3>3, <3>4, <3>5, <3>6 DEF View!Start
  <2>6. ASSUME NEW i \in Instance, Serving(i), Exit(i) PROVE View!Stop(i)
    <3>1. ~Serving(i)'
      BY <2>6 DEF Exit, Serving
    <3>2. \A j \in Instance \ {i} : Serving(j)' <=> Serving(j)
      BY <2>6 DEF Exit, Serving, Home
    <3>3. up' = up \ {i} /\ i \in up
      BY <2>6, <3>1, <3>2
    <3>4. seen' = [seen EXCEPT ![i] = 0]
      BY <2>6, <3>1, <3>2 DEF Exit
    <3>5. db' = db /\ acked' = acked
      BY <2>6 DEF Exit
    <3> QED
      BY ONLY <3>3, <3>4, <3>5 DEF View!Stop
  <2> QED
    BY <2>1, <2>2, <2>3, <2>4, <2>5, <2>6, InvisibleSteps, HomeType DEF View!ViewNext
<1> QED
  BY <1>1, <1>2, Invariance, PTL DEF Spec, ImplementsView, View!ViewSpec

-----------------------------------------------------------------------------

\* No reload is owed for a change that is not committed, and only a deferred
\* reload debounces.
OwedInv ==
    \A i \in Instance : /\ owed[i] <= db
                        /\ pc[i] \in {"debounce", "absorb"} => broadcast[i]

\* Every step keeps the bookkeeping of owed reloads.
LEMMA NextDeferred ==
  IInv /\ OwedInv /\ DeferredNeverLost /\ [Next]_vars => OwedInv' /\ DeferredNeverLost'
<1> SUFFICES ASSUME IInv, OwedInv, DeferredNeverLost, [Next]_vars
             PROVE  (OwedInv /\ DeferredNeverLost)'
  OBVIOUS
<1> TypeOK /\ TypeOK'
  BY NextTypeOK DEF IInv
<1> USE HomeType
    DEF TypeOK, Proc, WorkerPC, HandlerPC, Booting, Loading, Home, OwedInv, DeferredNeverLost,
        lockVars, snapVars, cacheVars, chanVars, ghostVars, Goto
<1>1. ASSUME NEW h \in Handler, CommitRevoke(h) PROVE (OwedInv /\ DeferredNeverLost)'
  BY <1>1 DEF CommitRevoke, Commit
<1>2. ASSUME NEW h \in Handler, CommitGrant(h) PROVE (OwedInv /\ DeferredNeverLost)'
  BY <1>2 DEF CommitGrant, Commit
<1>3. ASSUME NEW h \in Handler, RLock(h) PROVE (OwedInv /\ DeferredNeverLost)'
  BY <1>3 DEF RLock
<1>4. ASSUME NEW h \in Handler, QueryKnownPermissionsFails(h) PROVE (OwedInv /\ DeferredNeverLost)'
  BY <1>4 DEF QueryKnownPermissionsFails, RUnlock, Fault
<1>5. ASSUME NEW h \in Handler, ScheduleReloadPolicy(h) PROVE (OwedInv /\ DeferredNeverLost)'
  BY <1>5 DEF ScheduleReloadPolicy, IInv, OrderInv
<1>6. ASSUME NEW h \in Handler, PermissionCached(h) PROVE (OwedInv /\ DeferredNeverLost)'
  BY <1>6 DEF PermissionCached
<1>7. ASSUME NEW h \in Handler, QueryKnownPermissions(h) PROVE (OwedInv /\ DeferredNeverLost)'
  BY <1>7 DEF QueryKnownPermissions
<1>8. ASSUME NEW h \in Handler, StorePermission(h) PROVE (OwedInv /\ DeferredNeverLost)'
  BY <1>8 DEF StorePermission, RUnlock, Forget
<1>9. ASSUME NEW h \in Handler, DecisionCached(h) PROVE (OwedInv /\ DeferredNeverLost)'
  BY <1>9 DEF DecisionCached, RUnlock
<1>10. ASSUME NEW h \in Handler, ComputeDecision(h) PROVE (OwedInv /\ DeferredNeverLost)'
  BY <1>10 DEF ComputeDecision
<1>11. ASSUME NEW h \in Handler, StoreDecision(h) PROVE (OwedInv /\ DeferredNeverLost)'
  BY <1>11 DEF StoreDecision, RUnlock, Forget
<1>12. ASSUME NEW p \in Proc, Lock(p) PROVE (OwedInv /\ DeferredNeverLost)'
  BY <1>12 DEF Lock
<1>13. ASSUME NEW p \in Proc, StartLoad(p) PROVE (OwedInv /\ DeferredNeverLost)'
  BY <1>13 DEF StartLoad
<1>14. ASSUME NEW p \in Proc, QueryPolicies(p) PROVE (OwedInv /\ DeferredNeverLost)'
  BY <1>14 DEF QueryPolicies
<1>15. ASSUME NEW p \in Proc, QueryRelations(p) PROVE (OwedInv /\ DeferredNeverLost)'
  BY <1>15 DEF QueryRelations, AfterReload
<1>16. ASSUME NEW p \in Proc, Publish(p) PROVE (OwedInv /\ DeferredNeverLost)'
  <2> USE <1>16 DEF Publish, AfterReload, Forget
  <2>1. CASE p \in Handler
    BY <2>1 DEF Discharge
  <2>2. CASE p \in Instance /\ ~broadcast[p]
    BY <2>2 DEF Discharge
  <2>3. CASE p \in Instance /\ broadcast[p]
    BY <2>3 DEF Discharge
  <2> QED
    BY <2>1, <2>2, <2>3
<1>17. ASSUME NEW p \in Proc, LoadFails(p) PROVE (OwedInv /\ DeferredNeverLost)'
  <2> USE <1>17 DEF LoadFails, AfterReload, Forget
  <2>1. CASE p \in Handler
    BY <2>1 DEF Discharge
  <2>2. CASE p \in Instance /\ ~broadcast[p]
    BY <2>2 DEF Discharge
  <2>3. CASE p \in Instance /\ broadcast[p]
    BY <2>3 DEF Discharge
  <2> QED
    BY <2>1, <2>2, <2>3
<1>18. ASSUME NEW p \in Proc, PublishFails(p) PROVE (OwedInv /\ DeferredNeverLost)'
  BY <1>18 DEF PublishFails, AfterReload, Forget, Discharge
<1>19. ASSUME NEW i \in Instance, SelectStop(i) PROVE (OwedInv /\ DeferredNeverLost)'
  BY <1>19 DEF SelectStop
<1>20. ASSUME NEW i \in Instance, SelectTicker(i) PROVE (OwedInv /\ DeferredNeverLost)'
  BY <1>20 DEF SelectTicker
<1>21. ASSUME NEW i \in Instance, SelectInvalidation(i) PROVE (OwedInv /\ DeferredNeverLost)'
  BY <1>21 DEF SelectInvalidation
<1>22. ASSUME NEW i \in Instance, SelectDeferred(i) PROVE (OwedInv /\ DeferredNeverLost)'
  BY <1>22 DEF SelectDeferred
<1>23. ASSUME NEW i \in Instance, Debounce(i) PROVE (OwedInv /\ DeferredNeverLost)'
  BY <1>23 DEF Debounce
<1>24. ASSUME NEW i \in Instance, Absorb(i) PROVE (OwedInv /\ DeferredNeverLost)'
  BY <1>24 DEF Absorb
<1>25. ASSUME NEW i \in Instance, BootPolicies(i) PROVE (OwedInv /\ DeferredNeverLost)'
  BY <1>25 DEF BootPolicies
<1>26. ASSUME NEW i \in Instance, BootRelations(i) PROVE (OwedInv /\ DeferredNeverLost)'
  BY <1>26 DEF BootRelations, Forget
<1>27. ASSUME NEW i \in Instance, Subscribe(i) PROVE (OwedInv /\ DeferredNeverLost)'
  BY <1>27 DEF Subscribe
<1>28. ASSUME NEW i \in Instance, Boot(i) PROVE (OwedInv /\ DeferredNeverLost)'
  BY <1>28 DEF Boot
<1>29. ASSUME NEW i \in Instance, Close(i) PROVE (OwedInv /\ DeferredNeverLost)'
  BY <1>29 DEF Close
<1>30. ASSUME NEW i \in Instance, Shutdown(i) PROVE (OwedInv /\ DeferredNeverLost)'
  BY <1>30 DEF Shutdown, Exit
<1>31. ASSUME NEW i \in Instance, Crash(i) PROVE (OwedInv /\ DeferredNeverLost)'
  BY <1>31 DEF Crash, Exit
<1>32. ASSUME NEW o \in Instance, NEW d \in Instance, HandleInvalidation(o, d) PROVE (OwedInv /\ DeferredNeverLost)'
  BY <1>32 DEF HandleInvalidation
<1>33. ASSUME NEW o \in Instance, NEW d \in Instance, LoseMessage(o, d) PROVE (OwedInv /\ DeferredNeverLost)'
  BY <1>33 DEF LoseMessage
<1>34. CASE UNCHANGED vars
  BY <1>34 DEF vars
<1> QED
  BY <1>1, <1>2, <1>3, <1>4, <1>5, <1>6, <1>7, <1>8, <1>9, <1>10, <1>11, <1>12, <1>13,
       <1>14, <1>15, <1>16, <1>17, <1>18, <1>19, <1>20, <1>21, <1>22, <1>23, <1>24, <1>25,
       <1>26, <1>27, <1>28, <1>29, <1>30, <1>31, <1>32, <1>33, <1>34
  DEF Next, HandlerStep, ReloadStep, WorkerStep, BootStep

\* No call of ScheduleReloadPolicy is lost while its instance lives and the
\* worker has not been stopped.
THEOREM DeferredReloadsAreKept == Spec => []DeferredNeverLost
<1>1. Init => OwedInv /\ DeferredNeverLost
  BY DEF Init, OwedInv, DeferredNeverLost, Proc
<1> QED
  BY <1>1, NextDeferred, Invariance, PTL DEF Spec

-----------------------------------------------------------------------------

\* The change that i acknowledged last has reached j or is on its way to it.
Reached(i, j) ==
    \/ acked[i] <= policies[j]
    \/ bus[<<i, j>>] > 0
    \/ invalidationRequests[j]
    \/ pc[j] \in {"lock", "drain", "policies", "debounce", "absorb"}
    \/ pc[j] = "relations" /\ acked[i] <= read[j]

\* Every step that is no fault keeps acknowledged changes on their way.
LEMMA NextReaches ==
  IInv /\ InvalidationReaches /\ [Next]_vars => InvalidationReaches'
<1> SUFFICES ASSUME IInv, InvalidationReaches, [Next]_vars, faults' = 0,
                    NEW a \in Instance, NEW b \in Instance, a # b,
                    Subscribed(b)', (acked[a] > since[b])'
             PROVE  Reached(a, b)'
  BY DEF InvalidationReaches, Reached
<1> TypeOK /\ TypeOK'
  BY NextTypeOK DEF IInv
<1>0. faults = 0 /\ Subscribed(b) /\ acked[a] > since[b] => Reached(a, b)
  BY DEF InvalidationReaches, Reached
<1> USE <1>0, HomeType
    DEF TypeOK, Proc, WorkerPC, HandlerPC, Booting, Loading, Home, Subscribed, Serving, Reached,
        lockVars, snapVars, cacheVars, chanVars, ghostVars, Goto
<1>1. ASSUME NEW h \in Handler, CommitRevoke(h) PROVE Reached(a, b)'
  BY <1>1 DEF CommitRevoke, Commit
<1>2. ASSUME NEW h \in Handler, CommitGrant(h) PROVE Reached(a, b)'
  BY <1>2 DEF CommitGrant, Commit
<1>3. ASSUME NEW h \in Handler, RLock(h) PROVE Reached(a, b)'
  BY <1>3 DEF RLock
<1>4. ASSUME NEW h \in Handler, QueryKnownPermissionsFails(h) PROVE Reached(a, b)'
  BY <1>4 DEF QueryKnownPermissionsFails, Fault
<1>5. ASSUME NEW h \in Handler, ScheduleReloadPolicy(h) PROVE Reached(a, b)'
  BY <1>5 DEF ScheduleReloadPolicy
<1>6. ASSUME NEW h \in Handler, PermissionCached(h) PROVE Reached(a, b)'
  BY <1>6 DEF PermissionCached
<1>7. ASSUME NEW h \in Handler, QueryKnownPermissions(h) PROVE Reached(a, b)'
  BY <1>7 DEF QueryKnownPermissions
<1>8. ASSUME NEW h \in Handler, StorePermission(h) PROVE Reached(a, b)'
  BY <1>8 DEF StorePermission, RUnlock, Forget
<1>9. ASSUME NEW h \in Handler, DecisionCached(h) PROVE Reached(a, b)'
  BY <1>9 DEF DecisionCached, RUnlock
<1>10. ASSUME NEW h \in Handler, ComputeDecision(h) PROVE Reached(a, b)'
  BY <1>10 DEF ComputeDecision
<1>11. ASSUME NEW h \in Handler, StoreDecision(h) PROVE Reached(a, b)'
  BY <1>11 DEF StoreDecision, RUnlock, Forget
<1>12. ASSUME NEW p \in Proc, Lock(p) PROVE Reached(a, b)'
  BY <1>12 DEF Lock
<1>13. ASSUME NEW p \in Proc, StartLoad(p) PROVE Reached(a, b)'
  BY <1>13 DEF StartLoad
<1>14. ASSUME NEW p \in Proc, QueryPolicies(p) PROVE Reached(a, b)'
  BY <1>14 DEF QueryPolicies, IInv, OrderInv
<1>15. ASSUME NEW p \in Proc, QueryRelations(p) PROVE Reached(a, b)'
  BY <1>15 DEF QueryRelations, AfterReload, IInv, ReadInv
<1>16. ASSUME NEW p \in Proc, Publish(p) PROVE Reached(a, b)'
  BY <1>16 DEF Publish, Fanout, AfterReload, Forget
<1>17. ASSUME NEW p \in Proc, LoadFails(p) PROVE Reached(a, b)'
  BY <1>17 DEF LoadFails, Fault
<1>18. ASSUME NEW p \in Proc, PublishFails(p) PROVE Reached(a, b)'
  BY <1>18 DEF PublishFails, Fault
<1>19. ASSUME NEW i \in Instance, SelectStop(i) PROVE Reached(a, b)'
  BY <1>19 DEF SelectStop
<1>20. ASSUME NEW i \in Instance, SelectTicker(i) PROVE Reached(a, b)'
  BY <1>20 DEF SelectTicker
<1>21. ASSUME NEW i \in Instance, SelectInvalidation(i) PROVE Reached(a, b)'
  BY <1>21 DEF SelectInvalidation
<1>22. ASSUME NEW i \in Instance, SelectDeferred(i) PROVE Reached(a, b)'
  BY <1>22 DEF SelectDeferred
<1>23. ASSUME NEW i \in Instance, Debounce(i) PROVE Reached(a, b)'
  BY <1>23 DEF Debounce
<1>24. ASSUME NEW i \in Instance, Absorb(i) PROVE Reached(a, b)'
  BY <1>24 DEF Absorb
<1>25. ASSUME NEW i \in Instance, BootPolicies(i) PROVE Reached(a, b)'
  BY <1>25 DEF BootPolicies
<1>26. ASSUME NEW i \in Instance, BootRelations(i) PROVE Reached(a, b)'
  BY <1>26 DEF BootRelations, Forget
<1>27. ASSUME NEW i \in Instance, Subscribe(i) PROVE Reached(a, b)'
  BY <1>27 DEF Subscribe, IInv, OrderInv
<1>28. ASSUME NEW i \in Instance, Boot(i) PROVE Reached(a, b)'
  BY <1>28 DEF Boot
<1>29. ASSUME NEW i \in Instance, Close(i) PROVE Reached(a, b)'
  BY <1>29 DEF Close
<1>30. ASSUME NEW i \in Instance, Shutdown(i) PROVE Reached(a, b)'
  BY <1>30 DEF Shutdown, Exit
<1>31. ASSUME NEW i \in Instance, Crash(i) PROVE Reached(a, b)'
  BY <1>31 DEF Crash, Fault
<1>32. ASSUME NEW o \in Instance, NEW d \in Instance, HandleInvalidation(o, d) PROVE Reached(a, b)'
  BY <1>32 DEF HandleInvalidation
<1>33. ASSUME NEW o \in Instance, NEW d \in Instance, LoseMessage(o, d) PROVE Reached(a, b)'
  BY <1>33 DEF LoseMessage, Fault
<1>34. CASE UNCHANGED vars
  BY <1>34 DEF vars
<1> QED
  BY <1>1, <1>2, <1>3, <1>4, <1>5, <1>6, <1>7, <1>8, <1>9, <1>10, <1>11, <1>12, <1>13,
       <1>14, <1>15, <1>16, <1>17, <1>18, <1>19, <1>20, <1>21, <1>22, <1>23, <1>24, <1>25,
       <1>26, <1>27, <1>28, <1>29, <1>30, <1>31, <1>32, <1>33, <1>34
  DEF Next, HandlerStep, ReloadStep, WorkerStep, BootStep

\* Without faults an acknowledged change reaches every subscribed instance by
\* its invalidation message, for any number of instances and of changes: the
\* channel of capacity one and the dropped duplicates lose none.
THEOREM InvalidationsReachPeers == Spec => []InvalidationReaches
<1>1. Init => InvalidationReaches
  BY DEF Init, InvalidationReaches
<1> QED
  BY <1>1, NextReaches, Invariance, PTL DEF Spec
=============================================================================
