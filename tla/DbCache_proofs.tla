---------------------------- MODULE DbCache_proofs ----------------------------
(***************************************************************************)
(* Proofs about DbCache: IInv is inductive, the safety properties follow   *)
(* from it, and the cache implements SnapshotStore.                        *)
(***************************************************************************)
EXTENDS DbCache, TLAPS

\* A refresher that has been told which build is newest names one of Versions.
LEMMA TargetType ==
  ASSUME IInv, NEW r \in Refreshers, InRefresh(r), pc[r] \notin {"current", "failed"}
  PROVE  Target(r) \in Versions /\ build[r] \in 1 .. Newest
<1>1. build[r] \in 1 .. Len(log)
  BY DEF IInv, HolderInv, Newest
<1>2. log \in Seq(Versions)
  BY DEF IInv, TypeOK
<1> QED BY <1>1, <1>2 DEF Target, Newest

\* Every step leaves every variable with its type.
LEMMA TypeStep == IInv /\ [Next]_vars => TypeOK'
<1> SUFFICES ASSUME IInv, [Next]_vars PROVE TypeOK'
  OBVIOUS
<1> USE ConstantsAssumption DEF TypeOK, MaybeVersion, Labels, GoTo, worldVars,
        fileVars, fieldVars, localVars, queryVars, lifeVars
<1>0. TypeOK
  BY DEF IInv
<1>a. Newest \in Nat
  BY <1>0 DEF Newest
<1>1. ASSUME NEW v \in Versions, Publish(v) PROVE TypeOK'
  BY <1>0, <1>1 DEF Publish
<1>2. CASE SetHealth
  BY <1>0, <1>2 DEF SetHealth
<1>3. ASSUME NEW torn \in SUBSET Versions, Crash(torn) PROVE TypeOK'
  BY <1>0, <1>3 DEF Crash
<1>4. CASE LoopTick \/ LoopExit
  BY <1>0, <1>a, <1>4 DEF LoopTick, LoopExit, Refreshers
<1>5. ASSUME NEW r \in Refreshers, Call(r) \/ Acquire(r) PROVE TypeOK'
  <2>1. CASE Call(r)
    BY <1>0, <1>a, <2>1 DEF Call
  <2>2. CASE Acquire(r)
    BY <1>0, <2>2 DEF Acquire
  <2> QED BY <1>5, <2>1, <2>2
<1>6. ASSUME NEW r \in Refreshers, Step(r) PROVE TypeOK'
  <2>0. pc[r] \notin {"idle", "lock", "stopped", "current", "failed"}
          => Target(r) \in Versions /\ build[r] \in 1 .. Newest
    BY TargetType DEF InRefresh
  <2>a. ASSUME NEW l \in Labels, GoTo(r, l)
        PROVE  pc' \in [Refreshers -> Labels]
    BY <1>0, <2>a
  <2>b. ASSUME pc' \in [Refreshers -> Labels], mapped' \subseteq Versions,
               disk' \in [Versions -> {"absent", "complete", "torn"}],
               UNCHANGED <<worldVars, db, path, version, createdAt,
                           highWater, refreshMu, localVars, queryVars,
                           lifeVars>>
        PROVE  TypeOK'
    BY <1>0, <2>b
  <2>c. /\ disk \in [Versions -> {"absent", "complete", "torn"}]
        /\ mapped \subseteq Versions
    BY <1>0
  <2>1. CASE Current(r)
    <3>1. pc' \in [Refreshers -> Labels]
      BY <2>a, <2>1 DEF Current
    <3>2. build' \in [Refreshers -> Nat]
      BY <1>0, <1>a, <2>1 DEF Current, NewestEntry
    <3> QED BY <1>0, <2>1, <3>1, <3>2 DEF Current
  <2>10. CASE CurrentFails(r) \/ Check(r) \/ NoCached(r)
    <3>1. pc' \in [Refreshers -> Labels]
      BY <2>a, <2>10 DEF CurrentFails, Check, NoCached
    <3> QED BY <2>b, <2>c, <2>10, <3>1 DEF CurrentFails, Check, NoCached
  <2>2. CASE LoadCached(r) \/ OpenFresh(r)
    <3>1. pc' \in [Refreshers -> Labels]
      BY <2>a, <2>2 DEF LoadCached, OpenFresh
    <3>2. Target(r) \in Versions
      BY <2>0, <2>2 DEF LoadCached, OpenFresh
    <3> QED BY <2>b, <2>c, <2>2, <3>1, <3>2 DEF LoadCached, OpenFresh
  <2>3. CASE OpenObject(r) \/ Copy(r) \/ DownloadFails(r) \/ OpenFreshFails(r)
    <3>1. pc' \in [Refreshers -> Labels]
      BY <2>a, <2>3 DEF OpenObject, Copy, DownloadFails, OpenFreshFails
    <3> QED BY <2>b, <2>c, <2>3, <3>1 DEF OpenObject, Copy, DownloadFails,
              OpenFreshFails
  <2>4. CASE Rename(r)
    <3>1. pc' \in [Refreshers -> Labels]
      BY <2>a, <2>4 DEF Rename
    <3>2. disk' \in [Versions -> {"absent", "complete", "torn"}]
      BY <2>c, <2>4 DEF Rename
    <3> QED BY <2>b, <2>c, <2>4, <3>1, <3>2 DEF Rename
  <2>5. CASE Discard(r)
    <3>1. pc' \in [Refreshers -> Labels]
      BY <2>a, <2>5 DEF Discard
    <3>2. disk' \in [Versions -> {"absent", "complete", "torn"}]
      BY <2>c, <2>5 DEF Discard
    <3> QED BY <2>b, <2>c, <2>5, <3>1, <3>2 DEF Discard
  <2>6. CASE Swap(r)
    BY <1>0, <2>0, <2>6 DEF Swap, CreatedAt, Newest
  <2>7. CASE Release(r)
    <3>1. mapped' \subseteq Versions
      BY <1>0, <2>7 DEF Release, StillMapped
    <3>2. disk' \in [Versions -> {"absent", "complete", "torn"}]
      BY <1>0, <2>7 DEF Release
    <3>3. pc' \in [Refreshers -> Labels]
      BY <1>0, <2>7 DEF Release
    <3> QED BY <1>0, <2>7, <3>1, <3>2, <3>3 DEF Release
  <2>8. CASE Sweep(r)
    BY <1>0, <2>8 DEF Sweep
  <2>9. CASE Return(r)
    BY <1>0, <2>9 DEF Return
  <2> QED BY <1>6, <2>1, <2>2, <2>3, <2>4, <2>5, <2>6, <2>7, <2>8, <2>9,
            <2>10 DEF Step
<1>7. ASSUME NEW q \in Queries, Query(q) PROVE TypeOK'
  <2>1. readers' \subseteq Queries
    BY <1>0, <1>7 DEF Query, QueryBegin, Lookup, QueryEnd
  <2>2. answers' \in [Queries -> SUBSET MaybeVersion]
    <3>1. CASE QueryBegin(q) \/ QueryEnd(q)
      BY <1>0, <3>1 DEF QueryBegin, QueryEnd
    <3>2. CASE Lookup(q)
      <4>1. answers[q] \cup {db} \in SUBSET MaybeVersion
        BY <1>0
      <4> QED BY <1>0, <3>2, <4>1 DEF Lookup
    <3> QED BY <1>7, <3>1, <3>2 DEF Query
  <2> QED BY <1>0, <1>7, <2>1, <2>2 DEF Query, QueryBegin, Lookup, QueryEnd
<1>8. CASE CancelParent \/ Close
  <2>1. CASE CancelParent
    BY <1>0, <2>1 DEF CancelParent
  <2>2. CASE CloseCancel
    BY <1>0, <2>2 DEF CloseCancel
  <2>3. CASE CloseWaited
    BY <1>0, <2>3 DEF CloseWaited
  <2>4. CASE CloseRelease
    BY <1>0, <2>4 DEF CloseRelease
  <2> QED BY <1>8, <2>1, <2>2, <2>3, <2>4 DEF Close
<1>9. CASE UNCHANGED vars
  BY <1>0, <1>9 DEF vars
<1> QED BY <1>1, <1>2, <1>3, <1>4, <1>5, <1>6, <1>7, <1>8, <1>9 DEF Next

\* Only the refresher that takes or gives back refreshMu changes who holds it.
LEMMA MutexStep == IInv /\ [Next]_vars => MutexInv'
<1> SUFFICES ASSUME IInv, [Next]_vars PROVE MutexInv'
  OBVIOUS
<1> USE ConstantsAssumption DEF MutexInv, InRefresh, GoTo
<1>0. MutexInv /\ pc \in [Refreshers -> Labels] /\ None \notin Refreshers
  BY DEF IInv, TypeOK, Refreshers
<1>1. ASSUME NEW r \in Refreshers, Acquire(r) \/ Return(r) PROVE MutexInv'
  BY <1>0, <1>1 DEF Acquire, Return, RefreshMuFree
<1>2. ASSUME NEW r \in Refreshers, Step(r), ~Return(r) PROVE MutexInv'
  BY <1>0, <1>2 DEF Step, Current, CurrentFails, Check, LoadCached, NoCached,
     OpenObject, Copy, Rename, DownloadFails, OpenFresh, OpenFreshFails,
     Discard, Swap, Release, Sweep
<1>3. ASSUME NEW r \in Refreshers, Call(r) PROVE MutexInv'
  BY <1>0, <1>3 DEF Call
<1>4. CASE LoopTick \/ LoopExit
  BY <1>0, <1>4 DEF LoopTick, LoopExit, Refreshers
<1>5. ASSUME NEW torn \in SUBSET Versions, Crash(torn) PROVE MutexInv'
  BY <1>0, <1>5 DEF Crash
<1>6. CASE UNCHANGED <<pc, refreshMu>>
  BY <1>0, <1>6
<1> QED BY <1>1, <1>2, <1>3, <1>4, <1>5, <1>6 DEF Next, vars, Publish, SetHealth,
   Query, QueryBegin, Lookup, QueryEnd, CancelParent, Close, CloseCancel,
   CloseWaited, CloseRelease

\* While r is inside Refresh nobody else is.
LEMMA OneHolder ==
  ASSUME IInv, NEW r \in Refreshers, NEW x \in Refreshers, InRefresh(r), x # r
  PROVE  pc[x] \in {"idle", "lock", "stopped"}
BY DEF IInv, MutexInv, InRefresh

\* A refresher outside Refresh has nothing to keep true.
LEMMA HolderIdle ==
  ASSUME NEW r \in Refreshers, pc[r] \in {"idle", "lock", "stopped"}
  PROVE  HolderInv(r)
BY DEF HolderInv, InRefresh, Replacing

\* A publication leaves what every refresher targets alone.
LEMMA TargetKept ==
  ASSUME IInv, NEW v \in Versions, log' = Append(log, v), build' = build,
         NEW r \in Refreshers, build[r] \in 1 .. Newest
  PROVE  Target(r)' = Target(r) /\ Newest' = Newest + 1
<1>1. log \in Seq(Versions)
  BY DEF IInv, TypeOK
<1> QED BY <1>1 DEF Target, Newest

\* What the holder of refreshMu knows stays true of each refresher.
LEMMA HolderStep ==
  ASSUME IInv, [Next]_vars, NEW x \in Refreshers PROVE HolderInv(x)'
<1> USE DEF GoTo
<1>0. TypeOK /\ HolderInv(x) /\ FieldsAgree /\ HistoryInv /\ Newest \in Nat
  BY DEF IInv, TypeOK, Newest
<1>t. InRefresh(x) /\ pc[x] \notin {"current", "failed"}
        => Target(x) \in Versions /\ build[x] \in 1 .. Newest
  BY TargetType
<1>1. ASSUME NEW v \in Versions, Publish(v) PROVE HolderInv(x)'
  <2>1. CASE pc[x] \in {"idle", "lock", "stopped", "current", "failed"}
    BY <1>1, <2>1 DEF Publish, HolderInv, InRefresh, Replacing, localVars
  <2>2. CASE ~(pc[x] \in {"idle", "lock", "stopped", "current", "failed"})
    <3>1. Target(x)' = Target(x) /\ Newest' = Newest + 1 /\ build[x] \in 1 .. Newest
      BY <1>1, <1>t, <2>2, TargetKept DEF Publish, localVars, InRefresh
    <3> QED BY <1>0, <1>1, <3>1 DEF Publish, HolderInv, InRefresh, Replacing,
            localVars, fieldVars, fileVars, lifeVars
  <2> QED BY <2>1, <2>2
<1>2. ASSUME UNCHANGED <<log, pc, build, since, db, version, highWater, disk,
                         mapped, old, closer>>
      PROVE  HolderInv(x)'
  BY <1>0, <1>2 DEF HolderInv, InRefresh, Replacing, Target, Newest
<1>3. ASSUME pc'[x] \in {"idle", "lock", "stopped"} PROVE HolderInv(x)'
  BY <1>3 DEF HolderInv, InRefresh, Replacing
<1>4. ASSUME NEW r \in Refreshers, Step(r) PROVE HolderInv(x)'
  <2>1. CASE r # x
    <3>1. pc'[x] \in {"idle", "lock", "stopped"}
      <4>1. InRefresh(r) /\ pc' = [pc EXCEPT ![r] = pc'[r]]
        BY <1>0, <1>4 DEF TypeOK, Step, Current, CurrentFails, Check, LoadCached, NoCached,
           OpenObject, Copy, Rename, DownloadFails, OpenFresh, OpenFreshFails,
           Discard, Swap, Release, Sweep, Return, InRefresh
      <4> QED BY <2>1, <4>1, <1>0, OneHolder DEF TypeOK
    <3> QED BY <3>1, <1>3
  <2>2. CASE r = x
    <3> USE DEF TypeOK, HolderInv, InRefresh, Replacing, Target, Newest,
            worldVars, fileVars, fieldVars, localVars, queryVars, lifeVars
    <3>1. CASE Current(x)
      BY <1>0, <3>1 DEF Current, NewestEntry, HistoryInv
    <3>2. CASE Check(x)
      BY <1>0, <3>2 DEF Check, AlreadyCurrent
    <3>3. CASE LoadCached(x) \/ OpenFresh(x)
      BY <1>0, <1>t, <3>3 DEF LoadCached, OpenFresh, Opens
    <3>4. CASE NoCached(x) \/ OpenObject(x) \/ Copy(x) \/ OpenFreshFails(x)
      BY <1>0, <3>4 DEF NoCached, OpenObject, Copy, OpenFreshFails
    <3>5. CASE Rename(x)
      BY <1>0, <3>5 DEF Rename
    <3>6. CASE CurrentFails(x) \/ DownloadFails(x) \/ Discard(x)
      BY <1>0, <3>6 DEF CurrentFails, DownloadFails, Discard
    <3>7. CASE Swap(x)
      BY <1>0, <3>7 DEF Swap, FieldsAgree
    <3>8. CASE Release(x)
      BY <1>0, <3>8 DEF Release
    <3>9. CASE Sweep(x)
      BY <1>0, <3>9 DEF Sweep, FieldsAgree
    <3>10. CASE Return(x)
      BY <1>0, <1>3, <3>10 DEF Return
    <3> QED BY <1>4, <2>2, <3>1, <3>2, <3>3, <3>4, <3>5, <3>6, <3>7, <3>8,
               <3>9, <3>10 DEF Step
  <2> QED BY <2>1, <2>2
<1>5. CASE LoopTick \/ LoopExit
  <2>1. CASE x = Loop
    BY <1>0, <1>3, <1>5, <2>1 DEF LoopTick, LoopExit, TypeOK
  <2>2. CASE x # Loop
    <3>1. pc'[x] = pc[x] /\ since'[x] = since[x]
      BY <1>0, <1>5, <2>2 DEF LoopTick, LoopExit, TypeOK, localVars
    <3>2. UNCHANGED <<log, build, db, version, highWater, disk, mapped, old,
                      closer>>
      BY <1>5 DEF LoopTick, LoopExit, worldVars, fileVars, fieldVars,
         localVars, lifeVars
    <3> QED BY <1>0, <3>1, <3>2 DEF HolderInv, InRefresh, Replacing, Target,
               Newest
  <2> QED BY <2>1, <2>2
<1>6. ASSUME NEW r \in Refreshers, Call(r) \/ Acquire(r) PROVE HolderInv(x)'
  <2>1. CASE x = r
    BY <1>0, <1>6, <2>1 DEF Call, Acquire, TypeOK, HolderInv, InRefresh,
       Replacing
  <2>2. CASE x # r
    <3>1. pc'[x] = pc[x] /\ since'[x] = since[x]
      BY <1>0, <1>6, <2>2 DEF Call, Acquire, TypeOK, localVars
    <3>2. UNCHANGED <<log, build, db, version, highWater, disk, mapped, old,
                      closer>>
      BY <1>6 DEF Call, Acquire, worldVars, fileVars, fieldVars, localVars,
         lifeVars
    <3> QED BY <1>0, <3>1, <3>2 DEF HolderInv, InRefresh, Replacing, Target,
               Newest
  <2> QED BY <2>1, <2>2
<1>7. ASSUME NEW torn \in SUBSET Versions, Crash(torn) PROVE HolderInv(x)'
  BY <1>7, <1>3 DEF Crash
<1>8. CASE SetHealth \/ CancelParent
  BY <1>2, <1>8 DEF SetHealth, CancelParent, fileVars, fieldVars, localVars,
     lifeVars, worldVars
<1>9. CASE Close
  BY <1>0, <1>t, <1>9, ConstantsAssumption DEF Close, CloseCancel, CloseWaited,
     CloseRelease, TypeOK, FieldsAgree, HolderInv, InRefresh, Replacing, Target,
     Newest, worldVars, fileVars, fieldVars, localVars
<1>10. ASSUME NEW q \in Queries, Query(q) PROVE HolderInv(x)'
  BY <1>2, <1>10 DEF Query, QueryBegin, Lookup, QueryEnd, worldVars, fileVars,
     fieldVars, localVars, lifeVars
<1>11. CASE UNCHANGED vars
  BY <1>2, <1>11 DEF vars, worldVars, fileVars, fieldVars, localVars, lifeVars
<1> QED BY <1>1, <1>4, <1>5, <1>6, <1>7, <1>8, <1>9, <1>10, <1>11 DEF Next

\* The fields keep describing one publication.
LEMMA FieldsStep == IInv /\ [Next]_vars => FieldsAgree'
<1> SUFFICES ASSUME IInv, [Next]_vars PROVE FieldsAgree'
  OBVIOUS
<1> USE DEF FieldsAgree, Newest
<1>0. TypeOK /\ FieldsAgree
  BY DEF IInv
<1>1. ASSUME NEW v \in Versions, Publish(v) PROVE FieldsAgree'
  BY <1>0, <1>1 DEF Publish, TypeOK, fieldVars, CreatedAt
<1>2. ASSUME NEW r \in Refreshers, Swap(r) PROVE FieldsAgree'
  <2>1. Target(r) \in Versions /\ build[r] \in 1 .. Len(log)
    BY <1>2, TargetType DEF Swap, InRefresh
  <2> QED BY <1>2, <2>1 DEF Swap, CreatedAt, Target, worldVars
<1>3. ASSUME NEW torn \in SUBSET Versions, Crash(torn) PROVE FieldsAgree'
  BY <1>3 DEF Crash
<1>4. CASE CloseRelease
  BY <1>4 DEF CloseRelease
<1>5. CASE UNCHANGED <<log, db, path, version, createdAt>>
  BY <1>0, <1>5 DEF CreatedAt
<1> QED BY <1>1, <1>2, <1>3, <1>4, <1>5 DEF Next, vars, worldVars, fieldVars,
   SetHealth, LoopTick, LoopExit, Call, Acquire, Step, Current, CurrentFails,
   Check, LoadCached, NoCached, OpenObject, Copy, Rename, DownloadFails,
   OpenFresh, OpenFreshFails, Discard, Release, Sweep, Return, Query,
   QueryBegin, Lookup, QueryEnd, CancelParent, Close, CloseCancel, CloseWaited

\* The publications seen, served and counted stay in the order of log.
LEMMA HistoryStep == IInv /\ [Next]_vars => HistoryInv'
<1> SUFFICES ASSUME IInv, [Next]_vars PROVE HistoryInv'
  OBVIOUS
<1> USE DEF HistoryInv, Newest
<1>0. TypeOK /\ HistoryInv /\ Len(log) \in Nat
  BY DEF IInv, TypeOK
<1>1. ASSUME NEW v \in Versions, Publish(v) PROVE HistoryInv'
  BY <1>0, <1>1 DEF Publish, TypeOK, fieldVars, localVars
<1>2. ASSUME NEW r \in Refreshers, Swap(r) PROVE HistoryInv'
  <2>1. build[r] \in 1 .. Len(log) /\ build[r] >= highWater
    BY <1>2, TargetType DEF Swap, InRefresh, IInv, HolderInv, Replacing
  <2> QED BY <1>0, <1>2, <2>1 DEF Swap, CreatedAt, worldVars, TypeOK
<1>3. ASSUME NEW torn \in SUBSET Versions, Crash(torn) PROVE HistoryInv'
  BY <1>0, <1>3 DEF Crash, worldVars
<1>4. CASE CloseRelease
  BY <1>0, <1>4 DEF CloseRelease, worldVars, localVars
<1>5. ASSUME NEW r \in Refreshers,
             since' = [since EXCEPT ![r] = Newest] \/ since' = [since EXCEPT ![r] = 0],
             UNCHANGED <<log, db, createdAt, highWater>>
      PROVE  HistoryInv'
  <2>1. since \in [Refreshers -> Nat]
    BY <1>0 DEF TypeOK
  <2>2. ASSUME NEW x \in Refreshers PROVE since'[x] <= Len(log)
    <3>1. CASE x = r
      BY <1>0, <1>5, <2>1, <3>1
    <3>2. CASE x # r
      BY <1>0, <1>5, <2>1, <3>2
    <3> QED BY <3>1, <3>2
  <2> QED BY <1>0, <1>5, <2>2
<1>6. CASE UNCHANGED <<log, db, createdAt, highWater, since>>
  BY <1>0, <1>6
<1>7. Loop \in Refreshers
  BY DEF Refreshers
<1> QED BY <1>1, <1>2, <1>3, <1>4, <1>5, <1>6, <1>7 DEF Next, vars, worldVars,
   fieldVars, localVars,
   SetHealth, LoopTick, LoopExit, Call, Acquire, Step, Current, CurrentFails,
   Check, LoadCached, NoCached, OpenObject, Copy, Rename, DownloadFails,
   OpenFresh, OpenFreshFails, Discard, Release, Sweep, Return, Query,
   QueryBegin, Lookup, QueryEnd, CancelParent, Close, CloseCancel, CloseWaited

\* Every mapping is the served one, one about to be, or one about to go.
LEMMA MappingStep == IInv /\ [Next]_vars => MappingInv'
<1> SUFFICES ASSUME IInv, [Next]_vars PROVE MappingInv'
  OBVIOUS
<1> USE DEF GoTo
<1>0. TypeOK /\ MappingInv /\ FieldsAgree
  BY DEF IInv
<1>1. ASSUME NEW v \in Versions, Publish(v) PROVE MappingInv'
  <2>1. ASSUME NEW r \in Refreshers, pc[r] = "swap" PROVE Target(r)' = Target(r)
    BY <1>1, <2>1, TargetType, TargetKept DEF Publish, InRefresh, localVars
  <2> QED BY <1>0, <1>1, <2>1 DEF Publish, MappingInv, fieldVars, localVars
<1>2. ASSUME NEW r \in Refreshers, LoadCached(r) \/ OpenFresh(r) PROVE MappingInv'
  <2>1. \A x \in Refreshers : x # r => pc[x] \notin {"swap", "release"}
    BY <1>2, OneHolder DEF LoadCached, OpenFresh, InRefresh
  <2>2. pc[r] \notin {"swap", "release"} /\ pc'[r] = "swap"
    BY <1>0, <1>2 DEF LoadCached, OpenFresh, TypeOK
  <2>3. mapped' = mapped \cup {Target(r)} /\ Target(r)' = Target(r) /\ db' = db
    BY <1>2 DEF LoadCached, OpenFresh, Target, worldVars, localVars
  <2> QED BY <1>0, <2>1, <2>2, <2>3 DEF MappingInv
<1>3. ASSUME NEW r \in Refreshers, Swap(r) PROVE MappingInv'
  <2>1. \A x \in Refreshers : x # r => pc[x] \notin {"swap", "release"}
    BY <1>3, OneHolder DEF Swap, InRefresh
  <2>2. Target(r) \in mapped /\ pc[r] = "swap"
    BY <1>3 DEF Swap, IInv, HolderInv
  <2>3. pc'[r] = "release" /\ old'[r] = db /\ db' = Target(r) /\ mapped' = mapped
    BY <1>0, <1>3 DEF Swap, TypeOK
  <2> QED BY <1>0, <2>1, <2>2, <2>3 DEF MappingInv
<1>4. ASSUME NEW r \in Refreshers, Release(r) PROVE MappingInv'
  <2>1. \A x \in Refreshers : x # r => pc[x] \notin {"swap", "release"}
    BY <1>4, OneHolder DEF Release, InRefresh
  <2>2. /\ pc[r] = "release" /\ old[r] # Target(r)
        /\ db = Target(r) \/ db = None
    BY <1>4 DEF Release, IInv, HolderInv
  <2>3. mapped' = mapped \ {old[r]} /\ db' = db
    BY <1>4 DEF Release, StillMapped
  <2> QED BY <1>0, <2>1, <2>2, <2>3 DEF MappingInv
<1>5. ASSUME NEW torn \in SUBSET Versions, Crash(torn) PROVE MappingInv'
  BY <1>5 DEF Crash, MappingInv
<1>6. CASE CloseRelease
  <2>1. \A r \in Refreshers : Target(r)' = Target(r)
    BY <1>6 DEF CloseRelease, Target, worldVars, localVars
  <2> QED BY <1>0, <1>6, <2>1 DEF CloseRelease, MappingInv, localVars
<1>7. ASSUME NEW r \in Refreshers, UNCHANGED <<log, db, mapped>>,
             pc[r] \notin {"swap", "release"},
             \A x \in Refreshers : x # r => pc'[x] = pc[x] /\ build'[x] = build[x]
                                                          /\ old'[x] = old[x]
      PROVE  MappingInv'
  <2>1. \A x \in Refreshers : pc[x] \in {"swap", "release"} =>
          pc'[x] = pc[x] /\ Target(x)' = Target(x) /\ old'[x] = old[x]
    BY <1>7 DEF Target
  <2> QED BY <1>0, <1>7, <2>1 DEF MappingInv
<1>8. CASE UNCHANGED <<log, db, mapped, pc, build, old>>
  BY <1>0, <1>8 DEF MappingInv, Target
<1>9. ASSUME NEW r \in Refreshers,
             \/ Current(r) \/ CurrentFails(r) \/ Check(r) \/ NoCached(r)
             \/ OpenObject(r) \/ Copy(r) \/ Rename(r) \/ DownloadFails(r)
             \/ OpenFreshFails(r) \/ Discard(r) \/ Sweep(r) \/ Return(r)
             \/ Call(r) \/ Acquire(r) \/ (r = Loop /\ (LoopTick \/ LoopExit))
      PROVE  MappingInv'
  <2>1. pc[r] \notin {"swap", "release"}
    BY <1>9 DEF Current, CurrentFails, Check, NoCached, OpenObject, Copy,
       Rename, DownloadFails, OpenFreshFails, Discard, Sweep, Return, Call,
       Acquire, LoopTick, LoopExit
  <2>2. UNCHANGED <<log, db, mapped>>
    BY <1>9 DEF Current, CurrentFails, Check, NoCached, OpenObject, Copy,
       Rename, DownloadFails, OpenFreshFails, Discard, Sweep, Return, Call,
       Acquire, LoopTick, LoopExit, worldVars, fieldVars
  <2>3. ASSUME NEW x \in Refreshers, x # r
        PROVE  pc'[x] = pc[x] /\ build'[x] = build[x] /\ old'[x] = old[x]
    BY <1>0, <1>9, <2>3 DEF Current, CurrentFails, Check, NoCached, OpenObject,
       Copy, Rename, DownloadFails, OpenFreshFails, Discard, Sweep, Return,
       Call, Acquire, LoopTick, LoopExit, localVars, TypeOK
  <2> QED BY <1>7, <2>1, <2>2, <2>3
<1>10. Loop \in Refreshers
  BY DEF Refreshers
<1> QED BY <1>1, <1>2, <1>3, <1>4, <1>5, <1>6, <1>8, <1>9, <1>10 DEF Next,
   vars, worldVars, fieldVars, localVars, Step, SetHealth, Query,
   QueryBegin, Lookup, QueryEnd, CancelParent, Close, CloseCancel, CloseWaited

\* A batch only ever reads the served database.
LEMMA ReaderStep == IInv /\ [Next]_vars => ReaderInv'
<1> SUFFICES ASSUME IInv, [Next]_vars PROVE ReaderInv'
  OBVIOUS
<1>0. TypeOK /\ ReaderInv
  BY DEF IInv
<1>1. ASSUME NEW r \in Refreshers, Swap(r) PROVE ReaderInv'
  BY <1>0, <1>1 DEF Swap, WriteLockFree, ReaderInv, queryVars
<1>2. CASE CloseRelease
  BY <1>0, <1>2 DEF CloseRelease, WriteLockFree, ReaderInv, queryVars
<1>3. ASSUME NEW torn \in SUBSET Versions, Crash(torn) PROVE ReaderInv'
  BY <1>3 DEF Crash, ReaderInv
<1>4. ASSUME NEW q \in Queries, Query(q) PROVE ReaderInv'
  <2>1. CASE QueryBegin(q)
    BY <1>0, <2>1 DEF QueryBegin, ReaderInv, TypeOK, fieldVars
  <2>2. CASE Lookup(q)
    <3>1. answers[q] \cup {db} = {db}
      BY <1>0 DEF ReaderInv
    <3> QED BY <1>0, <2>2, <3>1 DEF Lookup, ReaderInv, TypeOK, fieldVars
  <2>3. CASE QueryEnd(q)
    BY <1>0, <2>3 DEF QueryEnd, ReaderInv, TypeOK, fieldVars
  <2> QED BY <1>4, <2>1, <2>2, <2>3 DEF Query
<1>5. CASE UNCHANGED <<db, readers, answers>>
  BY <1>0, <1>5 DEF ReaderInv
<1> QED BY <1>1, <1>2, <1>3, <1>4, <1>5 DEF Next, vars, fieldVars, queryVars,
   Publish, SetHealth, LoopTick, LoopExit, Call, Acquire, Step, Current,
   CurrentFails, Check, LoadCached, NoCached, OpenObject, Copy, Rename,
   DownloadFails, OpenFresh, OpenFreshFails, Discard, Release, Sweep, Return,
   CancelParent, Close, CloseCancel, CloseWaited

\* No release, sweep, discard or rename takes the served database's file away.
LEMMA ServedFileStep == IInv /\ [Next]_vars => ServedFileKept'
<1> SUFFICES ASSUME IInv, [Next]_vars PROVE ServedFileKept'
  OBVIOUS
<1> USE DEF ServedFileKept
<1>0. TypeOK /\ ServedFileKept /\ FieldsAgree /\ None \notin Versions
  BY ConstantsAssumption DEF IInv
<1>1. ASSUME NEW r \in Refreshers, Rename(r) PROVE ServedFileKept'
  BY <1>0, <1>1 DEF Rename, fieldVars, TypeOK
<1>2. ASSUME NEW r \in Refreshers, Discard(r) PROVE ServedFileKept'
  <2>1. Target(r) # db
    BY <1>0, <1>2 DEF Discard, IInv, HolderInv, Replacing, FieldsAgree
  <2> QED BY <1>0, <1>2, <2>1 DEF Discard, fieldVars, TypeOK,
            MaybeVersion
<1>3. ASSUME NEW r \in Refreshers, Swap(r) PROVE ServedFileKept'
  BY <1>3 DEF Swap, fileVars, IInv, HolderInv
<1>4. ASSUME NEW r \in Refreshers, Release(r) \/ Sweep(r) PROVE ServedFileKept'
  <2>1. db \in {Target(r), None} /\ (pc[r] = "release" => old[r] # Target(r))
    BY <1>4 DEF Release, Sweep, IInv, HolderInv
  <2>2. db' = db /\ (db # None => disk'[db] = disk[db])
    BY <1>0, <1>4, <2>1 DEF Release, Sweep, Stale, fieldVars, TypeOK, MaybeVersion
  <2> QED BY <1>0, <2>2
<1>5. CASE UNCHANGED <<db, disk>>
  BY <1>0, <1>5
<1>6. ASSUME NEW torn \in SUBSET Versions, Crash(torn) PROVE ServedFileKept'
  BY <1>6 DEF Crash
<1>7. CASE CloseRelease
  BY <1>7 DEF CloseRelease
<1> QED BY <1>1, <1>2, <1>3, <1>4, <1>5, <1>6, <1>7 DEF Next, vars, fileVars,
   fieldVars, Publish, SetHealth, LoopTick, LoopExit, Call, Acquire, Step,
   Current, CurrentFails, Check, LoadCached, NoCached, OpenObject, Copy,
   DownloadFails, OpenFresh, OpenFreshFails, Return, Query, QueryBegin, Lookup,
   QueryEnd, CancelParent, Close, CloseCancel, CloseWaited

\* Nothing but Close and a crash takes a database away.
LEMMA ReadyStep == IInv /\ [Next]_vars => ReadyMeansLoaded'
<1> SUFFICES ASSUME IInv, [Next]_vars PROVE ReadyMeansLoaded'
  OBVIOUS
<1> USE DEF ReadyMeansLoaded
<1>0. ReadyMeansLoaded /\ None \notin Versions
  BY ConstantsAssumption DEF IInv
<1>1. ASSUME NEW r \in Refreshers, Swap(r) PROVE ReadyMeansLoaded'
  BY <1>0, <1>1, TargetType DEF Swap, InRefresh
<1>2. ASSUME NEW r \in Refreshers, Sweep(r) PROVE ReadyMeansLoaded'
  <2>1. Target(r) # None /\ (db = Target(r) \/ closer = "closed")
    BY <1>0, <1>2, TargetType DEF Sweep, InRefresh, IInv, HolderInv
  <2> QED BY <1>2, <2>1 DEF Sweep, fieldVars
<1>3. ASSUME NEW torn \in SUBSET Versions, Crash(torn) PROVE ReadyMeansLoaded'
  BY <1>3 DEF Crash
<1>4. CASE Close
  BY <1>0, <1>4 DEF Close, CloseCancel, CloseWaited, CloseRelease, fieldVars
<1>5. CASE UNCHANGED <<db, ready, closer>>
  BY <1>0, <1>5
<1> QED BY <1>1, <1>2, <1>3, <1>4, <1>5 DEF Next, vars, fieldVars, lifeVars,
   Publish, SetHealth, LoopTick, LoopExit, Call, Acquire, Step, Current,
   CurrentFails, Check, LoadCached, NoCached, OpenObject, Copy, Rename,
   DownloadFails, OpenFresh, OpenFreshFails, Discard, Release, Return, Query,
   QueryBegin, Lookup, QueryEnd, CancelParent

\* The directory holds the served file and the one being brought in.
LEMMA DirectoryStep == IInv /\ [Next]_vars => DirectoryInv'
<1> SUFFICES ASSUME IInv, [Next]_vars, ~RemovalMayFail, db' # None
             PROVE  DirectoryInv'
  BY DEF DirectoryInv
<1> USE DEF GoTo
<1>0. TypeOK /\ DirectoryInv /\ FieldsAgree
  BY DEF IInv
<1>1. ASSUME NEW v \in Versions, Publish(v) PROVE DirectoryInv'
  <2>1. ASSUME NEW r \in Refreshers, pc[r] \in {"load", "discard", "swap"}
        PROVE  Target(r)' = Target(r)
    BY <1>1, <2>1, TargetType, TargetKept DEF Publish, InRefresh, localVars
  <2> QED BY <1>0, <1>1, <2>1 DEF Publish, DirectoryInv, fieldVars, fileVars
<1>2. ASSUME NEW r \in Refreshers, Step(r) PROVE DirectoryInv'
  <2>a. InRefresh(r) /\ pc' = [pc EXCEPT ![r] = pc'[r]]
    BY <1>0, <1>2 DEF TypeOK, Step, Current, CurrentFails, Check, LoadCached, NoCached,
       OpenObject, Copy, Rename, DownloadFails, OpenFresh, OpenFreshFails,
       Discard, Swap, Release, Sweep, Return, InRefresh
  <2>b. \A x \in Refreshers : x # r => pc[x] \in {"idle", "lock", "stopped"}
    BY <2>a, OneHolder
  <2>1. CASE Swap(r) \/ Release(r)
    <3>1. pc'[r] \in {"release", "sweep"}
      BY <1>0, <2>1 DEF Swap, Release, TypeOK
    <3> QED BY <3>1 DEF DirectoryInv
  <2>2. CASE Sweep(r)
    <3>1. db' = db /\ db = Target(r)
      BY <1>0, <2>2 DEF Sweep, fieldVars, IInv, HolderInv
    <3>2. \A v \in Versions : v # Target(r) => disk'[v] = "absent"
      BY <1>0, <2>2 DEF Sweep, Stale, TypeOK
    <3> QED BY <3>1, <3>2 DEF DirectoryInv
  <2>3. ASSUME ~Swap(r), ~Release(r), ~Sweep(r) PROVE DirectoryInv'
    <3>1. db' = db /\ pc[r] \notin {"release", "sweep"}
      BY <1>2, <2>3 DEF Step, Current, CurrentFails, Check, LoadCached,
         NoCached, OpenObject, Copy, Rename, DownloadFails, OpenFresh,
         OpenFreshFails, Discard, Return, fieldVars
    <3>2. ASSUME NEW v \in Versions, disk[v] # "absent"
          PROVE  v = db \/ (pc[r] \in {"load", "discard", "swap"} /\ v = Target(r))
      BY <1>0, <2>b, <3>1, <3>2 DEF DirectoryInv
    <3>3. CASE Rename(r)
      <4>1. pc'[r] = "load" /\ Target(r)' = Target(r)
        BY <1>0, <3>3 DEF Rename, TypeOK, Target, worldVars, localVars
      <4>2. \A v \in Versions : disk'[v] # "absent" => v = db \/ v = Target(r)
        BY <1>0, <3>2, <3>3 DEF Rename, TypeOK
      <4> QED BY <3>1, <4>1, <4>2 DEF DirectoryInv
    <3>4. CASE Discard(r)
      <4>1. \A v \in Versions : disk'[v] # "absent" => v = db
        BY <1>0, <3>2, <3>4 DEF Discard, TypeOK
      <4> QED BY <3>1, <4>1 DEF DirectoryInv
    <3>5. CASE OpenFresh(r) \/ OpenFreshFails(r)
      <4>1. /\ pc[r] = "load" /\ pc'[r] \in {"discard", "swap"}
            /\ Target(r)' = Target(r) /\ disk' = disk
        BY <1>0, <3>5 DEF OpenFresh, OpenFreshFails, TypeOK, Target, worldVars,
           localVars, fileVars
      <4> QED BY <3>1, <3>2, <4>1 DEF DirectoryInv
    <3>6. CASE ~(Rename(r) \/ Discard(r) \/ OpenFresh(r) \/ OpenFreshFails(r))
      <4>1. disk' = disk /\ pc[r] \notin {"load", "discard", "swap"}
        BY <1>2, <2>3, <3>6 DEF Step, Current, CurrentFails, Check, LoadCached,
           NoCached, OpenObject, Copy, DownloadFails, Return, fileVars
      <4> QED BY <3>1, <3>2, <4>1 DEF DirectoryInv
    <3> QED BY <3>3, <3>4, <3>5, <3>6
  <2> QED BY <2>1, <2>2, <2>3
<1>3. ASSUME NEW r \in Refreshers, Call(r) \/ Acquire(r) PROVE DirectoryInv'
  <2>1. /\ UNCHANGED <<db, disk, log, build>>
        /\ \A x \in Refreshers : \/ pc'[x] = pc[x]
                                \/ pc[x] \in {"idle", "lock"}
    BY <1>0, <1>3 DEF Call, Acquire, TypeOK, fieldVars, fileVars, worldVars,
       localVars
  <2> QED BY <1>0, <2>1 DEF DirectoryInv, Target
<1>4. CASE LoopTick \/ LoopExit
  <2>1. /\ UNCHANGED <<db, disk, log, build>>
        /\ \A x \in Refreshers : \/ pc'[x] = pc[x]
                                \/ pc[x] \in {"idle", "lock"}
    BY <1>0, <1>4 DEF LoopTick, LoopExit, TypeOK, fieldVars, fileVars, worldVars,
       localVars
  <2> QED BY <1>0, <2>1 DEF DirectoryInv, Target
<1>5. CASE UNCHANGED <<db, disk, log, build, pc>>
  BY <1>0, <1>5 DEF DirectoryInv, Target
<1>6. ASSUME NEW torn \in SUBSET Versions, Crash(torn) PROVE DirectoryInv'
  BY <1>6 DEF Crash
<1>7. CASE CloseRelease
  BY <1>7 DEF CloseRelease
<1> QED BY <1>1, <1>2, <1>3, <1>4, <1>5, <1>6, <1>7 DEF Next, vars, fileVars,
   fieldVars, worldVars, localVars, SetHealth, Query, QueryBegin, Lookup,
   QueryEnd, CancelParent, Close, CloseCancel, CloseWaited

-----------------------------------------------------------------------------
\* IInv holds when New returns and every step keeps it.
THEOREM InductiveInvariant == Spec => []IInv
<1>1. Init => IInv
  <2> SUFFICES ASSUME Init PROVE IInv
    OBVIOUS
  <2> USE ConstantsAssumption DEF Init
  <2>1. TypeOK
    <3>1. log \in Seq(Versions) /\ Len(log) <= MaxPublishes
      OBVIOUS
    <3>2. createdAt \in [from : {"none", "index", "mmdb"}, gen : Nat]
      OBVIOUS
    <3> QED BY <3>1, <3>2 DEF TypeOK, MaybeVersion, Labels
  <2>2. MutexInv
    BY DEF MutexInv, InRefresh
  <2>3. ASSUME NEW r \in Refreshers PROVE HolderInv(r)
    BY HolderIdle
  <2>4. FieldsAgree /\ HistoryInv /\ MappingInv
    BY DEF FieldsAgree, HistoryInv, MappingInv, Newest
  <2>5. ReaderInv /\ ServedFileKept /\ ReadyMeansLoaded /\ DirectoryInv
    BY DEF ReaderInv, ServedFileKept, ReadyMeansLoaded, DirectoryInv
  <2> QED BY <2>1, <2>2, <2>3, <2>4, <2>5 DEF IInv
<1>2. IInv /\ [Next]_vars => IInv'
  BY TypeStep, MutexStep, HolderStep, FieldsStep, HistoryStep, MappingStep,
     ReaderStep, ServedFileStep, ReadyStep, DirectoryStep DEF IInv
<1> QED BY <1>1, <1>2, PTL DEF Spec

\* Every variable keeps its type.
THEOREM TypeCorrect == Spec => []TypeOK
<1>1. IInv => TypeOK
  BY DEF IInv
<1> QED BY <1>1, InductiveInvariant, PTL

\* The database a batch of lookups reads is mapped for as long as the batch
\* holds the read lock.
THEOREM QueriesReadMapped == Spec => []NoUseAfterUnmap
<1>1. IInv => NoUseAfterUnmap
  BY DEF IInv, NoUseAfterUnmap, ReaderInv, MappingInv
<1> QED BY <1>1, InductiveInvariant, PTL

\* A batch never mixes the records of two builds.
THEOREM BatchesAreSnapshots == Spec => []OneSnapshot
<1>1. IInv => OneSnapshot
  BY DEF IInv, TypeOK, OneSnapshot, ReaderInv
<1> QED BY <1>1, InductiveInvariant, PTL

\* What is returned with a batch describes the build it was read from.
THEOREM FieldsDescribeOneBuild == Spec => []FieldsAgree
<1>1. IInv => FieldsAgree
  BY DEF IInv
<1> QED BY <1>1, InductiveInvariant, PTL

\* No mapping outlives the refresh that retired it.
THEOREM MappingsAccounted == Spec => []NoMappingLeak
<1>1. IInv => NoMappingLeak
  BY DEF IInv, MappingInv, NoMappingLeak
<1> QED BY <1>1, InductiveInvariant, PTL

\* No download is moved over a file that is mapped.
THEOREM RenamesAreSafe == Spec => []RenameTargetUnmapped
<1>1. IInv => RenameTargetUnmapped
  <2> SUFFICES ASSUME IInv, NEW r \in Refreshers, pc[r] \in {"copy", "rename"},
                      Target(r) \in mapped
               PROVE  FALSE
    BY DEF RenameTargetUnmapped
  <2>1. Target(r) # db
    BY DEF IInv, HolderInv, Replacing, FieldsAgree
  <2>2. \A x \in Refreshers : pc[x] \notin {"swap", "release"}
    BY OneHolder DEF InRefresh
  <2> QED BY <2>1, <2>2 DEF IInv, MappingInv
<1> QED BY <1>1, InductiveInvariant, PTL

\* No release, sweep or discard removes the file behind the served database.
THEOREM ServedFileStays == Spec => []ServedFileKept
<1>1. IInv => ServedFileKept
  BY DEF IInv
<1> QED BY <1>1, InductiveInvariant, PTL

\* Without refused removals the directory holds the served file only.
THEOREM DirectorySafety == Spec => []OnlyServedFile
<1>1. IInv => OnlyServedFile
  BY DEF IInv, DirectoryInv, OnlyServedFile, NoRefresh, InRefresh
<1> QED BY <1>1, InductiveInvariant, PTL

\* Once Ready is closed a database stays loaded.
THEOREM ReadyStaysLoaded == Spec => []ReadyMeansLoaded
<1>1. IInv => ReadyMeansLoaded
  BY DEF IInv
<1> QED BY <1>1, InductiveInvariant, PTL

\* A Refresh that returned nil left a build that was newest since the call.
THEOREM ReturnsAreFresh == Spec => []FreshAtReturn
<1>1. IInv => FreshAtReturn
  <2> SUFFICES ASSUME IInv, NEW r \in Refreshers, pc[r] = "ok", closer # "closed"
               PROVE  \E g \in since[r] .. Newest : g > 0 /\ log[g] = version
    BY DEF FreshAtReturn
  <2>1. build[r] \in 1 .. Newest /\ build[r] >= since[r] /\ log[build[r]] = version
    BY DEF IInv, HolderInv, InRefresh, Target
  <2>2. since[r] \in Nat /\ Newest \in Nat
    BY DEF IInv, TypeOK, Newest
  <2> QED BY <2>1, <2>2
<1> QED BY <1>1, InductiveInvariant, PTL

-----------------------------------------------------------------------------
(* Close, when the run loop is the only refresher, as in reputationdbd *)

\* Close gets past its wait only when the run loop has stopped, and from its
\* release on nothing loads a database again.
ClosedInv ==
  /\ closer \in {"lock", "closed"} => pc[Loop] = "stopped"
  /\ closer = "closed" => db = None

\* With no callers of Refresh but the run loop, nothing is mapped once Close
\* has returned: the loop cannot swap a database in behind it.
THEOREM CloseUnmaps == Callers = {} => (Spec => []ClosedReleases)
<1> SUFFICES ASSUME Callers = {} PROVE Spec => []ClosedReleases
  OBVIOUS
<1>a. Refreshers = {Loop}
  BY DEF Refreshers
<1>1. Init => ClosedInv
  BY DEF Init, ClosedInv
<1>2. IInv /\ ClosedInv /\ [Next]_vars => ClosedInv'
  <2> SUFFICES ASSUME IInv, ClosedInv, [Next]_vars PROVE ClosedInv'
    OBVIOUS
  <2> USE DEF ClosedInv
  <2>0. pc \in [Refreshers -> Labels] /\ closer \in {"idle", "wait", "lock", "closed"}
    BY DEF IInv, TypeOK
  <2>1. ASSUME NEW r \in Refreshers, Call(r) \/ Acquire(r) \/ Step(r) PROVE ClosedInv'
    <3>1. r = Loop /\ pc[Loop] # "stopped"
      BY <1>a, <2>1 DEF Call, Acquire, Step, Current, CurrentFails, Check,
         LoadCached, NoCached, OpenObject, Copy, Rename, DownloadFails,
         OpenFresh, OpenFreshFails, Discard, Swap, Release, Sweep, Return
    <3>2. closer' = closer
      BY <2>1 DEF Call, Acquire, Step, Current, CurrentFails, Check,
         LoadCached, NoCached, OpenObject, Copy, Rename, DownloadFails,
         OpenFresh, OpenFreshFails, Discard, Swap, Release, Sweep, Return,
         lifeVars
    <3> QED BY <3>1, <3>2
  <2>2. CASE LoopTick \/ LoopExit
    BY <2>0, <2>2 DEF LoopTick, LoopExit, GoTo, lifeVars, fieldVars, Refreshers
  <2>3. ASSUME NEW torn \in SUBSET Versions, Crash(torn) PROVE ClosedInv'
    BY <2>3 DEF Crash
  <2>4. CASE Close
    BY <2>4 DEF Close, CloseCancel, CloseWaited, LoopDone, CloseRelease, fieldVars
  <2>5. CASE UNCHANGED <<pc, db, closer>>
    BY <2>5
  <2> QED BY <2>1, <2>2, <2>3, <2>4, <2>5 DEF Next, vars, fieldVars, lifeVars,
     Publish, SetHealth, Query, QueryBegin, Lookup, QueryEnd, CancelParent
<1>3. IInv /\ ClosedInv => ClosedReleases
  <2> SUFFICES ASSUME IInv, ClosedInv, closer = "closed", NEW v \in mapped
               PROVE  FALSE
    BY DEF ClosedReleases
  <2>1. pc[Loop] = "stopped" /\ db = None
    BY DEF ClosedInv
  <2>2. v = db \/ \E r \in Refreshers : pc[r] \in {"swap", "release"}
    BY DEF IInv, MappingInv
  <2>3. v # None
    BY ConstantsAssumption DEF IInv, TypeOK
  <2> QED BY <1>a, <2>1, <2>2, <2>3
<1> QED BY <1>1, <1>2, <1>3, InductiveInvariant, PTL DEF Spec

-----------------------------------------------------------------------------
(* The cache implements SnapshotStore. *)

\* A served publication has a number above 0 and none above highWater.
LEMMA ServingNumber ==
  ASSUME IInv PROVE Serving \in Nat /\ (db # None => Serving > 0)
BY DEF IInv, TypeOK, FieldsAgree, Serving

\* What a batch is answered from and what is served change together only while
\* nobody reads.
LEMMA StoreStep == IInv /\ IInv' /\ [Next]_vars => [Store!Next]_(Store!vars)
<1> SUFFICES ASSUME IInv, IInv', [Next]_vars PROVE [Store!Next]_(Store!vars)
  OBVIOUS
<1> USE DEF Store!vars, Store!Next
<1>0. TypeOK /\ ReaderInv
  BY DEF IInv
<1>1. ASSUME NEW r \in Refreshers, Swap(r) PROVE Store!Next
  <2>0. /\ build[r] \in 1 .. Newest /\ Target(r) \in Versions
        /\ build[r] >= highWater
    BY <1>1, TargetType DEF Swap, InRefresh, IInv, HolderInv, Replacing
  <2>1. build[r] \in Publications /\ build[r] >= highWater /\ Target(r) # None
    BY <1>0, <2>0, ConstantsAssumption DEF TypeOK, Newest, Publications
  <2>2. Serving' = build[r] /\ highWater' = build[r]
    BY <1>0, <1>1, <2>1 DEF Swap, Serving, CreatedAt, TypeOK, Publications
  <2>3. readers = {} /\ readers' = {}
    BY <1>1 DEF Swap, WriteLockFree, queryVars
  <2>4. Store!Install(build[r])
    BY <2>1, <2>2, <2>3 DEF Store!Install, Store!Quiet, StoreBatch
  <2> QED BY <2>1, <2>4
<1>2. CASE CloseRelease
  <2>1. readers = {} /\ readers' = {} /\ Serving' = 0 /\ highWater' = highWater
    BY <1>2 DEF CloseRelease, WriteLockFree, queryVars, Serving
  <2>2. Store!Retire
    BY <2>1 DEF Store!Retire, Store!Quiet, StoreBatch
  <2> QED BY <2>2
<1>3. ASSUME NEW torn \in SUBSET Versions, Crash(torn) PROVE Store!Next
  <2>1. Store!Crash
    BY <1>3 DEF Crash, Store!Crash, Serving, StoreBatch
  <2> QED BY <2>1
<1>4. ASSUME NEW q \in Queries, QueryBegin(q) PROVE Store!Next
  <2>1. Serving > 0 /\ Serving \in Nat /\ Serving' = Serving /\ highWater' = highWater
    BY <1>4, ServingNumber DEF QueryBegin, Serving, fieldVars
  <2>2. q \notin readers /\ readers' = readers \cup {q}
    BY <1>4 DEF QueryBegin
  <2>3. Store!BeginBatch(q)
    <3>1. StoreBatch[q] = 0
      BY <2>2 DEF StoreBatch
    <3>2. StoreBatch' = [StoreBatch EXCEPT ![q] = Serving]
      BY <2>1, <2>2 DEF StoreBatch
    <3> QED BY <2>1, <3>1, <3>2 DEF Store!BeginBatch
  <2> QED BY <2>3
<1>5. ASSUME NEW q \in Queries, QueryEnd(q) PROVE Store!Next
  <2>1. Serving > 0 /\ Serving \in Nat /\ Serving' = Serving /\ highWater' = highWater
    BY <1>0, <1>5, ServingNumber DEF QueryEnd, Serving, fieldVars, ReaderInv
  <2>2. q \in readers /\ readers' = readers \ {q}
    BY <1>5 DEF QueryEnd
  <2>3. Store!EndBatch(q)
    <3>1. StoreBatch[q] = Serving
      BY <2>2 DEF StoreBatch
    <3>2. StoreBatch' = [StoreBatch EXCEPT ![q] = 0]
      BY <2>1, <2>2 DEF StoreBatch
    <3> QED BY <2>1, <3>1, <3>2 DEF Store!EndBatch
  <2> QED BY <2>3
<1>6. CASE UNCHANGED <<db, createdAt, highWater, readers>>
  BY <1>6 DEF Serving, StoreBatch
<1> QED BY <1>1, <1>2, <1>3, <1>4, <1>5, <1>6 DEF Next, vars, fieldVars,
   queryVars, Publish, SetHealth, LoopTick, LoopExit, Call, Acquire, Step,
   Current, CurrentFails, Check, LoadCached, NoCached, OpenObject, Copy, Rename,
   DownloadFails, OpenFresh, OpenFreshFails, Discard, Release, Sweep, Return,
   Query, Lookup, CancelParent, Close, CloseCancel, CloseWaited

\* Every behaviour of the cache is one SnapshotStore allows: one build per
\* batch, and never an older publication after a newer one.
THEOREM Refinement == Spec => ImplementsSnapshotStore
<1>1. Init => Store!Init
  BY DEF Init, Store!Init, Serving, StoreBatch
<1>2. IInv /\ IInv' /\ [Next]_vars => [Store!Next]_(Store!vars)
  BY StoreStep
<1> QED BY <1>1, <1>2, InductiveInvariant, PTL DEF Spec, Store!Spec,
           ImplementsSnapshotStore
=============================================================================
