--------------------------- MODULE MaatStore_proofs ---------------------------
(***************************************************************************)
(* Proofs about MaatStore, for any number of stores in one directory: IInv *)
(* is inductive, the safety properties and KeepsServing follow from it,    *)
(* and a store implements SnapshotStore.                                   *)
(***************************************************************************)
EXTENDS MaatStore, TLAPS

\* A refresh that has been told of a build knows its place in the log.
LEMMA BuildType ==
  ASSUME IInv, NEW s \in Stores, Refreshing(s)
  PROVE  /\ job[s].gen \in 1 .. advert /\ advert \in 1 .. Len(log)
         /\ log[job[s].gen] \in Versions /\ job[s].version \in Paths
         /\ Len(log) \in Nat /\ job[s].gen \in 1 .. MaxPublishes
<1>1. /\ job[s].gen \in 1 .. advert /\ advert \in 0 .. Len(log)
      /\ job[s].version \in {log[job[s].gen], NoVersion}
      /\ log \in Seq(Versions) /\ Len(log) <= MaxPublishes /\ MaxPublishes \in Nat
  BY MaatAssumption DEF IInv, TypeOK, JobInv
<1>2. job[s].gen \in 1 .. Len(log) /\ Len(log) \in Nat
  BY <1>1
<1>3. log[job[s].gen] \in Versions
  BY <1>1, <1>2
<1> QED BY <1>1, <1>2, <1>3 DEF Paths

\* What a refresh opens is a mapping of the build it was told of.
LEMMA MappingType ==
  ASSUME IInv, NEW s \in Stores, pc[s] \in {"stat", "open"}, MapFile(s)
  PROVE  /\ Mapping(s) \in Mappings /\ Mapping(s) # None
         /\ Mapping(s).path = TargetPath(s) /\ Mapping(s).version = job[s].version
         /\ Mapping(s).gen = job[s].gen /\ Mapping(s).bytes = disk[TargetPath(s)]
         /\ disk[TargetPath(s)] \in Versions
<1>1. job[s].version \in Paths /\ job[s].gen \in 1 .. MaxPublishes
  BY BuildType DEF Refreshing
<1>2. disk[TargetPath(s)] \in Versions
  BY DEF MapFile, Opens
<1>3. Mapping(s) \in Mappings
  BY <1>1, <1>2 DEF Mapping, Mappings, TargetPath, DatabasePath
<1> QED BY <1>2, <1>3, MaatAssumption DEF Mapping

\* The steps of store s touch no other store's fields and locals.
LEMMA OthersKept ==
  ASSUME TypeOK, NEW s \in Stores, NEW x \in Stores, x # s,
         Create(s) \/ Cancel(s) \/ Teardown(s) \/ Run(s)
  PROVE  /\ cur'[x] = cur[x] /\ mapped'[x] = mapped[x] /\ highWater'[x] = highWater[x]
         /\ pc'[x] = pc[x] /\ job'[x] = job[x] /\ canceled'[x] = canceled[x]
BY DEF TypeOK, Run, Refresh, Create, Cancel, Teardown, Timer, Exit, Current, Resolve,
   CurrentFails, Check, LoadCached, NoCached, Fetch, DownloadFails, Place, Unload,
   ReleaseUnloaded, Rename, Open, OpenFails, Swap, Release, MapFile, Close, GoTo, Set,
   fields, locals

\* Every step leaves every variable with its type.
LEMMA TypeStep == IInv /\ [Next]_vars => TypeOK'
<1> SUFFICES ASSUME IInv, [Next]_vars PROVE TypeOK'
  OBVIOUS
<1> USE MaatAssumption DEF world, fields, locals, GoTo, Set
<1>0. TypeOK
  BY DEF IInv
<1>1. ASSUME NEW v \in Versions, Publish(v) PROVE TypeOK'
  BY <1>0, <1>1 DEF Publish, TypeOK
<1>2. CASE Advertise \/ SetHealth
  BY <1>0, <1>2 DEF Advertise, SetHealth, TypeOK
<1>3. ASSUME NEW torn \in SUBSET Paths, Crash(torn) PROVE TypeOK'
  <2>1. NoJob \in [version : Paths \cup {None}, gen : 0 .. MaxPublishes,
                   bytes : Versions \cup {None},
                   old : MaybeMapping, new : MaybeMapping]
    BY DEF NoJob, MaybeMapping
  <2> QED BY <1>0, <1>3, <2>1 DEF Crash, TypeOK, PcLabels, MaybeMapping
<1>4. ASSUME NEW s \in Stores, Create(s) \/ Cancel(s) \/ Teardown(s) \/ Run(s)
      PROVE  TypeOK'
  <2> DEFINE Job == [version : Paths \cup {None}, gen : 0 .. MaxPublishes,
                     bytes : Versions \cup {None},
                     old : MaybeMapping, new : MaybeMapping]
  <2>1. job[s] \in Job /\ NoJob \in Job /\ cur[s] \in MaybeMapping
        /\ mapped[s] \subseteq Mappings
    BY <1>0 DEF TypeOK, NoJob, MaybeMapping
  <2>2. pc'[s] \in PcLabels
    BY <1>0, <1>4 DEF TypeOK, PcLabels, Run, Refresh, Create, Cancel, Teardown, Timer,
       Exit, Current, Resolve, CurrentFails, Check, LoadCached, NoCached, Fetch,
       DownloadFails, Place, Unload, ReleaseUnloaded, Rename, Open, OpenFails, Swap,
       Release, MapFile, Close
  <2>3. /\ job'[s] \in Job
        /\ cur'[s] \in MaybeMapping /\ mapped'[s] \subseteq Mappings
        /\ highWater'[s] \in 0 .. MaxPublishes
        /\ disk' \in [Paths -> Versions \cup {"absent", "torn"}]
    <3>1. CASE Create(s) \/ Cancel(s) \/ Teardown(s) \/ Timer(s) \/ Exit(s)
      BY <1>0, <2>1, <3>1 DEF TypeOK, Create, Cancel, Teardown, Timer, Exit, MaybeMapping
    <3>2. CASE Current(s)
      <4>1. PICK v \in BuildVersions :
              job' = [job EXCEPT ![s] = [NoJob EXCEPT !.version = v, !.gen = advert]]
        BY <3>2 DEF Current
      <4>2. v \in Paths /\ advert \in 0 .. MaxPublishes
        BY <1>0, <3>2 DEF TypeOK, Current, BuildVersions, Paths
      <4>3. [NoJob EXCEPT !.version = v, !.gen = advert] \in Job
        BY <2>1, <4>2 DEF NoJob
      <4> HIDE DEF Job
      <4>4. job'[s] \in Job
        BY <1>0, <4>1, <4>3 DEF TypeOK
      <4> QED BY <1>0, <2>1, <3>2, <4>4 DEF TypeOK, Current
    <3>3. CASE \/ Resolve(s) \/ CurrentFails(s) \/ Check(s) \/ NoCached(s)
               \/ DownloadFails(s) \/ Place(s) \/ OpenFails(s)
      BY <1>0, <2>1, <3>3 DEF TypeOK, Resolve, CurrentFails, Check, NoCached,
         DownloadFails, Place, OpenFails
    <3>4. CASE LoadCached(s) \/ Open(s)
      <4>1. Mapping(s) \in Mappings
        BY <3>4, MappingType DEF LoadCached, Open
      <4>2. [job[s] EXCEPT !.new = Mapping(s)] \in Job
        BY <2>1, <4>1 DEF MaybeMapping
      <4> HIDE DEF Job
      <4>3. job'[s] \in Job
        BY <1>0, <3>4, <4>2 DEF TypeOK, LoadCached, Open, MapFile
      <4> QED BY <1>0, <2>1, <3>4, <4>1, <4>3 DEF TypeOK, LoadCached, Open, MapFile
    <3>5. CASE Fetch(s)
      <4>1. Downloaded(job[s].gen) \in Versions
        <5>1. job[s].gen \in 1 .. Len(log) /\ Len(log) \in 1 .. Len(log)
          BY <3>5, BuildType DEF Fetch, Refreshing
        <5> QED BY <1>0, <5>1 DEF Downloaded, TypeOK
      <4> QED BY <1>0, <2>1, <3>5, <4>1 DEF TypeOK, Fetch
    <3>6. CASE Unload(s)
      BY <1>0, <2>1, <3>6 DEF TypeOK, Unload, MaybeMapping
    <3>7. CASE Swap(s)
      BY <1>0, <2>1, <3>7, BuildType DEF TypeOK, Swap, Refreshing
    <3>8. CASE ReleaseUnloaded(s) \/ Release(s)
      <4>1. [job[s] EXCEPT !.old = None] \in Job
        BY <2>1 DEF MaybeMapping
      <4>2. job'[s] \in {[job[s] EXCEPT !.old = None], NoJob}
        BY <1>0, <3>8 DEF TypeOK, ReleaseUnloaded, Release, Close
      <4>3. job'[s] \in Job
        BY <2>1, <4>1, <4>2
      <4>4. mapped'[s] \subseteq Mappings
        BY <1>0, <2>1, <3>8 DEF TypeOK, ReleaseUnloaded, Release, Close, AfterClose
      <4>5. disk' \in [Paths -> Versions \cup {"absent", "torn"}]
        BY <1>0, <3>8 DEF TypeOK, ReleaseUnloaded, Release, Close, Removed
      <4> QED BY <1>0, <2>1, <3>8, <4>3, <4>4, <4>5 DEF TypeOK, ReleaseUnloaded,
              Release, Close
    <3>9. CASE Rename(s)
      <4>1. job[s].bytes \in Versions
        BY <3>9 DEF Rename, IInv, JobInv
      <4> QED BY <1>0, <2>1, <3>9, <4>1 DEF TypeOK, Rename
    <3> QED BY <1>4, <3>1, <3>2, <3>3, <3>4, <3>5, <3>6, <3>7, <3>8, <3>9
               DEF Run, Refresh
  <2>4. UNCHANGED <<log, advert>> /\ canceled' \in [Stores -> BOOLEAN]
        /\ reading' = reading
    BY <1>0, <1>4 DEF TypeOK, Run, Refresh, Create, Cancel, Teardown, Timer,
       Exit, Current, Resolve, CurrentFails, Check, LoadCached, NoCached, Fetch,
       DownloadFails, Place, Unload, ReleaseUnloaded, Rename, Open, OpenFails, Swap,
       Release, MapFile, Close
  <2> HIDE DEF Job
  <2>a. /\ pc' = [pc EXCEPT ![s] = pc'[s]] /\ job' = [job EXCEPT ![s] = job'[s]]
        /\ cur' = [cur EXCEPT ![s] = cur'[s]] /\ mapped' = [mapped EXCEPT ![s] = mapped'[s]]
        /\ highWater' = [highWater EXCEPT ![s] = highWater'[s]]
    BY <1>0, <1>4 DEF TypeOK, Run, Refresh, Create, Cancel, Teardown, Timer,
       Exit, Current, Resolve, CurrentFails, Check, LoadCached, NoCached, Fetch,
       DownloadFails, Place, Unload, ReleaseUnloaded, Rename, Open, OpenFails, Swap,
       Release, MapFile, Close
  <2>5. /\ pc' \in [Stores -> PcLabels] /\ job' \in [Stores -> Job]
        /\ cur' \in [Stores -> MaybeMapping] /\ mapped' \in [Stores -> SUBSET Mappings]
        /\ highWater' \in [Stores -> 0 .. MaxPublishes]
    BY <1>0, <2>2, <2>3, <2>a DEF TypeOK, Job
  <2> QED BY <1>0, <2>3, <2>4, <2>5 DEF TypeOK, Job
<1>5. ASSUME NEW q \in Lookups, NEW s \in Stores, LookupBegin(q, s) PROVE TypeOK'
  <2>1. cur[s] \in Mappings
    BY <1>0, <1>5 DEF LookupBegin, TypeOK, MaybeMapping
  <2>2. reading' \in [Lookups -> [store : Stores, db : Mappings] \cup {None}]
    BY <1>0, <1>5, <2>1 DEF LookupBegin, TypeOK
  <2> QED BY <1>0, <1>5, <2>2 DEF LookupBegin, TypeOK
<1>6. ASSUME NEW q \in Lookups, LookupEnd(q) PROVE TypeOK'
  BY <1>0, <1>6 DEF LookupEnd, TypeOK
<1>7. CASE UNCHANGED vars
  BY <1>0, <1>7 DEF vars, TypeOK
<1> QED BY <1>1, <1>2, <1>3, <1>4, <1>5, <1>6, <1>7 DEF Next

\* What a refresh knows stays true while it takes its next step, and whatever
\* the world, the lookups and the other stores do.
LEMMA JobStep == ASSUME IInv, [Next]_vars, NEW x \in Stores PROVE JobInv(x)'
<1> USE MaatAssumption DEF world, fields, locals, GoTo, Set, TargetPath, DatabasePath,
        OnServedPath, Refreshing
<1>0. TypeOK /\ JobInv(x) /\ (cur[x] # None => cur[x].path = cur[x].version)
  BY DEF IInv, PlaceInv
<1>1. ASSUME NEW v \in Versions, Publish(v) PROVE JobInv(x)'
  <2>1. job[x].gen \in 1 .. advert => log'[job[x].gen] = log[job[x].gen]
    BY <1>0, <1>1 DEF Publish, TypeOK
  <2> QED BY <1>0, <1>1, <2>1 DEF Publish, JobInv
<1>2. CASE Advertise
  BY <1>0, <1>2 DEF Advertise, JobInv, TypeOK
<1>3. ASSUME UNCHANGED <<log, advert>>, highWater'[x] = highWater[x],
             pc'[x] = pc[x], job'[x] = job[x], cur'[x] = cur[x]
      PROVE  JobInv(x)'
  BY <1>0, <1>3 DEF JobInv
<1>4. ASSUME NEW torn \in SUBSET Paths, Crash(torn) PROVE JobInv(x)'
  BY <1>0, <1>4 DEF Crash, JobInv, NoJob
<1>5. ASSUME Create(x) \/ Cancel(x) \/ Teardown(x) \/ Run(x) PROVE JobInv(x)'
  <2> USE DEF JobInv, TypeOK
  <2>1. CASE Create(x) \/ Cancel(x) \/ Timer(x) \/ Exit(x)
    BY <1>0, <2>1 DEF Create, Cancel, Timer, Exit
  <2>2. CASE Teardown(x)
    BY <1>0, <2>2 DEF Teardown, RunDone, NoJob
  <2>3. CASE Current(x)
    BY <1>0, <2>3 DEF Current, BuildVersions, NoJob
  <2>4. CASE CurrentFails(x) \/ DownloadFails(x) \/ OpenFails(x)
    BY <1>0, <2>4 DEF CurrentFails, DownloadFails, OpenFails, NoJob
  <2>5. CASE Resolve(x)
    BY <1>0, <2>5 DEF Resolve
  <2>6. CASE Check(x)
    BY <1>0, <2>6 DEF Check, AlreadyCurrent, NoJob
  <2>7. CASE LoadCached(x) \/ Open(x)
    <3>1. /\ pc[x] \in {"stat", "open"} /\ pc'[x] = "swap"
          /\ job'[x] = [job[x] EXCEPT !.new = Mapping(x)]
          /\ UNCHANGED <<log, advert, cur, highWater>>
      BY <1>0, <2>7 DEF LoadCached, Open, MapFile
    <3>2. /\ Mapping(x) # None /\ Mapping(x).path = job[x].version
          /\ Mapping(x).version = job[x].version /\ Mapping(x).gen = job[x].gen
      BY <2>7, MappingType DEF LoadCached, Open
    <3>3. /\ job'[x].new = Mapping(x) /\ job'[x].gen = job[x].gen
          /\ job'[x].version = job[x].version /\ job'[x].old = job[x].old
      BY <1>0, <3>1
    <3> QED BY <1>0, <3>1, <3>2, <3>3
  <2>8. CASE NoCached(x) \/ Place(x)
    BY <1>0, <2>8 DEF NoCached, Place
  <2>9. CASE Fetch(x)
    <3>1. Downloaded(job[x].gen) \in Versions
      <4>1. job[x].gen \in 1 .. Len(log) /\ Len(log) \in 1 .. Len(log)
        BY <2>9, BuildType DEF Fetch
      <4> QED BY <1>0, <4>1 DEF Downloaded
    <3>2. /\ pc[x] = "fetch" /\ pc'[x] = "place"
          /\ job'[x] = [job[x] EXCEPT !.bytes = Downloaded(job[x].gen)]
          /\ UNCHANGED <<log, advert, cur, highWater>>
      BY <1>0, <2>9 DEF Fetch
    <3>3. /\ job'[x].bytes = Downloaded(job[x].gen) /\ job'[x].gen = job[x].gen
          /\ job'[x].version = job[x].version /\ job'[x].old = job[x].old
          /\ job'[x].new = job[x].new
      BY <1>0, <3>2
    <3> QED BY <1>0, <3>1, <3>2, <3>3
  <2>10. CASE Unload(x)
    BY <1>0, <2>10 DEF Unload
  <2>11. CASE ReleaseUnloaded(x)
    BY <1>0, <2>11 DEF ReleaseUnloaded, Close
  <2>12. CASE Rename(x)
    BY <1>0, <2>12 DEF Rename
  <2>13. CASE Swap(x)
    BY <1>0, <2>13 DEF Swap
  <2>14. CASE Release(x)
    BY <1>0, <2>14 DEF Release, Close, NoJob
  <2> QED BY <1>5, <2>1, <2>2, <2>3, <2>4, <2>5, <2>6, <2>7, <2>8, <2>9, <2>10, <2>11,
             <2>12, <2>13, <2>14 DEF Run, Refresh
<1>6. ASSUME NEW s \in Stores, s # x, Create(s) \/ Cancel(s) \/ Teardown(s) \/ Run(s)
      PROVE  JobInv(x)'
  <2>1. UNCHANGED <<log, advert>>
    BY <1>6 DEF Run, Refresh, Create, Cancel, Teardown, Timer,
       Exit, Current, Resolve, CurrentFails, Check, LoadCached, NoCached, Fetch,
       DownloadFails, Place, Unload, ReleaseUnloaded, Rename, Open, OpenFails, Swap,
       Release, MapFile, Close
  <2> QED BY <1>0, <1>3, <1>6, <2>1, OthersKept
<1>7. CASE SetHealth \/ UNCHANGED vars
  BY <1>3, <1>7 DEF SetHealth, vars
<1>8. ASSUME NEW q \in Lookups, NEW s \in Stores, LookupBegin(q, s) \/ LookupEnd(q)
      PROVE  JobInv(x)'
  BY <1>3, <1>8 DEF LookupBegin, LookupEnd
<1> QED BY <1>1, <1>2, <1>4, <1>5, <1>6, <1>7, <1>8 DEF Next

\* A file is mapped under the path its version has.
LEMMA PlaceStep == IInv /\ [Next]_vars => PlaceInv'
<1> SUFFICES ASSUME IInv, [Next]_vars PROVE PlaceInv'
  OBVIOUS
<1> USE DEF PlaceInv, DatabasePath, fields
<1>0. TypeOK /\ PlaceInv
  BY DEF IInv
<1>1. ASSUME NEW s \in Stores, Swap(s) PROVE PlaceInv'
  <2>1. job[s].new.path = job[s].new.version
    BY <1>1 DEF Swap, IInv, JobInv, TargetPath
  <2>2. cur' = [cur EXCEPT ![s] = job[s].new]
    BY <1>1 DEF Swap
  <2> QED BY <1>0, <2>1, <2>2 DEF TypeOK
<1>2. ASSUME NEW s \in Stores, Unload(s) \/ Teardown(s) PROVE PlaceInv'
  BY <1>0, <1>2 DEF Unload, Teardown, TypeOK
<1>3. ASSUME NEW torn \in SUBSET Paths, Crash(torn) PROVE PlaceInv'
  BY <1>3 DEF Crash
<1>4. CASE UNCHANGED cur
  BY <1>0, <1>4
<1> QED BY <1>1, <1>2, <1>3, <1>4 DEF Next, vars, Publish, Advertise, SetHealth, Create,
   Cancel, Run, Refresh, Timer, Exit, Current, Resolve, CurrentFails, Check, LoadCached,
   NoCached, Fetch, DownloadFails, Place, ReleaseUnloaded, Rename, Open, OpenFails,
   Release, MapFile, Close, LookupBegin, LookupEnd

\* A store holds the mapping it serves, the one it is about to serve and the
\* one it is about to close.
LEMMA LeakStep == IInv /\ [Next]_vars => NoMappingLeak'
<1> SUFFICES ASSUME IInv, [Next]_vars, NEW x \in Stores
             PROVE  mapped'[x] = {cur'[x], job'[x].old, job'[x].new} \ {None}
  BY DEF NoMappingLeak
<1> USE DEF world, fields, locals, GoTo, Set
<1>0. TypeOK /\ JobInv(x) /\ mapped[x] = {cur[x], job[x].old, job[x].new} \ {None}
  BY DEF IInv, NoMappingLeak
<1>1. CASE mapped'[x] = mapped[x] /\ cur'[x] = cur[x] /\ job'[x] = job[x]
  BY <1>0, <1>1
<1>2. ASSUME NEW torn \in SUBSET Paths, Crash(torn)
      PROVE  mapped'[x] = {cur'[x], job'[x].old, job'[x].new} \ {None}
  BY <1>2 DEF Crash, NoJob
<1>3. ASSUME Create(x) \/ Cancel(x) \/ Teardown(x) \/ Run(x)
      PROVE  mapped'[x] = {cur'[x], job'[x].old, job'[x].new} \ {None}
  <2> USE DEF JobInv, TypeOK
  <2>1. CASE \/ Create(x) \/ Cancel(x) \/ Timer(x) \/ Exit(x) \/ Resolve(x)
             \/ NoCached(x) \/ Place(x) \/ Rename(x)
    BY <1>0, <1>1, <2>1 DEF Create, Cancel, Timer, Exit, Resolve, NoCached, Place, Rename
  <2>2. CASE Teardown(x)
    BY <1>0, <2>2 DEF Teardown, RunDone, NoJob, Refreshing
  <2>3. CASE Current(x) \/ CurrentFails(x) \/ Check(x) \/ DownloadFails(x) \/ OpenFails(x)
    <3>1. /\ job[x].old = None /\ job[x].new = None
          /\ job'[x].old = None /\ job'[x].new = None
      <4>1. CASE Current(x)
        <5>1. PICK v \in BuildVersions :
                job' = [job EXCEPT ![x] = [NoJob EXCEPT !.version = v, !.gen = advert]]
          BY <4>1 DEF Current
        <5> QED BY <1>0, <4>1, <5>1 DEF Current, NoJob
      <4>2. CASE CurrentFails(x) \/ Check(x)
        BY <1>0, <4>2 DEF CurrentFails, Check, NoJob
      <4>3. CASE DownloadFails(x) \/ OpenFails(x)
        BY <1>0, <4>3 DEF DownloadFails, OpenFails, NoJob
      <4> QED BY <2>3, <4>1, <4>2, <4>3
    <3>2. mapped' = mapped /\ cur' = cur
      BY <2>3 DEF Current, CurrentFails, Check, DownloadFails, OpenFails
    <3> QED BY <1>0, <3>1, <3>2
  <2>4. CASE LoadCached(x) \/ Open(x)
    <3>1. /\ mapped'[x] = mapped[x] \cup {Mapping(x)} /\ cur' = cur
          /\ job'[x] = [job[x] EXCEPT !.new = Mapping(x)]
          /\ job[x].new = None
      BY <1>0, <2>4 DEF LoadCached, Open, MapFile
    <3>2. Mapping(x) # None
      BY <2>4, MappingType DEF LoadCached, Open
    <3>3. job'[x].new = Mapping(x) /\ job'[x].old = job[x].old
      BY <1>0, <3>1
    <3> QED BY <1>0, <3>1, <3>2, <3>3
  <2>5. CASE Fetch(x)
    <3>1. /\ job'[x] = [job[x] EXCEPT !.bytes = Downloaded(job[x].gen)]
          /\ mapped' = mapped /\ cur' = cur
      BY <1>0, <2>5 DEF Fetch
    <3>2. job'[x].new = job[x].new /\ job'[x].old = job[x].old
      BY <1>0, <3>1
    <3> QED BY <1>0, <3>1, <3>2
  <2>6. CASE Unload(x) \/ Swap(x)
    <3>1. /\ job'[x] = [job[x] EXCEPT !.old = cur[x]] /\ mapped' = mapped
          /\ job[x].old = None
          /\ \/ cur'[x] = None /\ job[x].new = None
             \/ cur'[x] = job[x].new
      BY <1>0, <2>6 DEF Unload, Swap
    <3>2. job'[x].new = job[x].new /\ job'[x].old = cur[x]
      BY <1>0, <3>1
    <3> QED BY <1>0, <3>1, <3>2
  <2>7. CASE ReleaseUnloaded(x)
    <3>1. /\ mapped'[x] = mapped[x] \ {job[x].old} /\ cur' = cur
          /\ job'[x] = [job[x] EXCEPT !.old = None]
          /\ cur[x] = None /\ job[x].new = None
      BY <1>0, <2>7 DEF ReleaseUnloaded, Close, AfterClose
    <3>2. job'[x].new = job[x].new /\ job'[x].old = None
      BY <1>0, <3>1
    <3> QED BY <1>0, <3>1, <3>2
  <2>8. CASE Release(x)
    <3>1. /\ mapped'[x] = mapped[x] \ {job[x].old} /\ cur' = cur
          /\ job'[x] = NoJob
          /\ job[x].new = cur[x] /\ job[x].old # cur[x] /\ cur[x] # None
      BY <1>0, <2>8 DEF Release, Close, AfterClose
    <3> QED BY <1>0, <3>1 DEF NoJob
  <2> QED BY <1>3, <2>1, <2>2, <2>3, <2>4, <2>5, <2>6, <2>7, <2>8 DEF Run, Refresh
<1>4. ASSUME NEW s \in Stores, s # x, Create(s) \/ Cancel(s) \/ Teardown(s) \/ Run(s)
      PROVE  mapped'[x] = {cur'[x], job'[x].old, job'[x].new} \ {None}
  BY <1>0, <1>1, <1>4, OthersKept
<1>5. CASE UNCHANGED <<mapped, cur, job>>
  BY <1>1, <1>5
<1> QED BY <1>2, <1>3, <1>4, <1>5 DEF Next, vars, Publish, Advertise, SetHealth,
           LookupBegin, LookupEnd

\* mu.Lock waits for every lookup, so nothing is taken from under one.
LEMMA LookupStep == IInv /\ [Next]_vars => LookupInv'
<1> SUFFICES ASSUME IInv, [Next]_vars PROVE LookupInv'
  OBVIOUS
<1> USE DEF LookupInv, fields
<1>0. TypeOK /\ LookupInv
  BY DEF IInv
<1>1. ASSUME NEW s \in Stores, WriteLockFree(s), UNCHANGED reading,
             \A x \in Stores : x # s => cur'[x] = cur[x]
      PROVE  LookupInv'
  BY <1>0, <1>1 DEF TypeOK, WriteLockFree
<1>2. ASSUME NEW s \in Stores, Swap(s) \/ Unload(s) \/ Teardown(s) PROVE LookupInv'
  <2>1. WriteLockFree(s) /\ UNCHANGED reading
    BY <1>2 DEF Swap, Unload, Teardown
  <2>2. \A x \in Stores : x # s => cur'[x] = cur[x]
    BY <1>0, <1>2 DEF Swap, Unload, Teardown, TypeOK
  <2> QED BY <1>1, <2>1, <2>2
<1>3. ASSUME NEW torn \in SUBSET Paths, Crash(torn) PROVE LookupInv'
  BY <1>3 DEF Crash
<1>4. ASSUME NEW q \in Lookups, NEW s \in Stores, LookupBegin(q, s) PROVE LookupInv'
  BY <1>0, <1>4 DEF LookupBegin, TypeOK
<1>5. ASSUME NEW q \in Lookups, LookupEnd(q) PROVE LookupInv'
  BY <1>0, <1>5 DEF LookupEnd, TypeOK
<1>6. CASE UNCHANGED <<cur, reading>>
  BY <1>0, <1>6
<1> QED BY <1>2, <1>3, <1>4, <1>5, <1>6 DEF Next, vars, Publish, Advertise, SetHealth,
   Create, Cancel, Run, Refresh, Timer, Exit, Current, Resolve, CurrentFails, Check,
   LoadCached, NoCached, Fetch, DownloadFails, Place, ReleaseUnloaded, Rename, Open,
   OpenFails, Release, MapFile, Close

\* With URLs that name the described build, no store puts contents in place
\* under another version than theirs, whoever else uses the directory.
LEMMA ContentsStep == IInv /\ [Next]_vars => ContentsInv'
<1> SUFFICES ASSUME IInv, [Next]_vars, Pinned PROVE ContentsInv'
  BY DEF ContentsInv
<1> USE MaatAssumption DEF world, fields, locals, GoTo, Set, RightUnder, TargetPath,
        DatabasePath
<1> DEFINE Right(s) ==
      /\ cur[s] # None => RightUnder(cur[s].version, cur[s].bytes)
      /\ pc[s] = "swap" => RightUnder(job[s].version, job[s].new.bytes)
      /\ pc[s] \in {"place", "unload", "unloaded", "rename"}
           => RightUnder(job[s].version, job[s].bytes)
<1>0. /\ TypeOK /\ \A v \in Versions : disk[v] \in {"absent", "torn", v}
      /\ \A s \in Stores : Right(s) /\ JobInv(s)
  BY DEF IInv, ContentsInv
<1>1. ASSUME NEW s \in Stores, Rename(s)
      PROVE  \A v \in Versions : disk'[v] \in {"absent", "torn", v}
  <2>1. disk' = [disk EXCEPT ![job[s].version] = job[s].bytes] /\ pc[s] = "rename"
    BY <1>1 DEF Rename
  <2>2. RightUnder(job[s].version, job[s].bytes)
    BY <1>0, <2>1
  <2> QED BY <1>0, <2>1, <2>2 DEF TypeOK
<1>2. ASSUME NEW torn \in SUBSET Paths, Crash(torn) PROVE ContentsInv'
  <2>1. \A v \in Versions : disk'[v] \in {"absent", "torn", v}
    BY <1>0, <1>2 DEF Crash, Paths
  <2>2. \A s \in Stores : Right(s)'
    BY <1>2 DEF Crash
  <2> QED BY <2>1, <2>2 DEF ContentsInv
<1>3. ASSUME NEW s \in Stores, Release(s) \/ ReleaseUnloaded(s)
      PROVE  \A v \in Versions : disk'[v] \in {"absent", "torn", v}
  BY <1>0, <1>3 DEF Release, ReleaseUnloaded, Close, Removed, Paths
<1>4. ASSUME NEW s \in Stores, Create(s) \/ Cancel(s) \/ Teardown(s) \/ Run(s)
      PROVE  Right(s)'
  <2> USE DEF TypeOK, JobInv
  <2>1. CASE Create(s) \/ Cancel(s) \/ Teardown(s) \/ Timer(s) \/ Exit(s)
    BY <1>0, <2>1 DEF Create, Cancel, Teardown, Timer, Exit, RunDone
  <2>2. CASE Current(s) \/ Resolve(s) \/ CurrentFails(s) \/ Check(s) \/ NoCached(s)
    <3>1. /\ pc'[s] \in {"check", "resolve", "wait", "stat", "fetch"}
          /\ cur' = cur
      <4>1. CASE Current(s)
        BY <1>0, <4>1 DEF Current
      <4>2. CASE Resolve(s) \/ CurrentFails(s)
        BY <1>0, <4>2 DEF Resolve, CurrentFails
      <4>3. CASE Check(s) \/ NoCached(s)
        BY <1>0, <4>3 DEF Check, NoCached
      <4> QED BY <2>2, <4>1, <4>2, <4>3
    <3> QED BY <1>0, <3>1
  <2>3. CASE DownloadFails(s) \/ OpenFails(s) \/ Release(s)
    <3>1. pc'[s] = "wait" /\ cur' = cur
      BY <1>0, <2>3 DEF DownloadFails, OpenFails, Release, Close
    <3> QED BY <1>0, <3>1
  <2>4. CASE LoadCached(s) \/ Open(s)
    <3>1. /\ pc'[s] = "swap" /\ cur' = cur
          /\ job'[s] = [job[s] EXCEPT !.new = Mapping(s)]
      BY <1>0, <2>4 DEF LoadCached, Open, MapFile
    <3>2. /\ Mapping(s).bytes = disk[job[s].version] /\ disk[job[s].version] \in Versions
          /\ job[s].version \in Paths
      BY <2>4, MappingType, BuildType DEF LoadCached, Open, Refreshing
    <3>3. job[s].version # NoVersion => Mapping(s).bytes = job[s].version
      BY <1>0, <3>2 DEF Paths
    <3>4. job'[s].version = job[s].version /\ job'[s].new.bytes = Mapping(s).bytes
      BY <1>0, <3>1
    <3> QED BY <1>0, <3>1, <3>3, <3>4
  <2>5. CASE Fetch(s)
    <3>1. /\ pc'[s] = "place" /\ cur' = cur
          /\ job'[s] = [job[s] EXCEPT !.bytes = log[job[s].gen]]
      BY <1>0, <2>5 DEF Fetch, Downloaded
    <3>2. job'[s].version = job[s].version /\ job'[s].bytes = log[job[s].gen]
      BY <1>0, <3>1
    <3>3. job[s].version \in {log[job[s].gen], NoVersion}
      BY <1>0, <2>5 DEF Fetch, Refreshing
    <3> QED BY <1>0, <3>1, <3>2, <3>3
  <2>6. CASE Place(s)
    BY <1>0, <2>6 DEF Place
  <2>7. CASE Unload(s) \/ ReleaseUnloaded(s)
    <3>1. /\ pc'[s] \in {"unloaded", "rename"} /\ pc[s] \in {"unload", "unloaded"}
          /\ cur'[s] \in {cur[s], None}
          /\ job'[s].version = job[s].version /\ job'[s].bytes = job[s].bytes
      BY <1>0, <2>7 DEF Unload, ReleaseUnloaded, Close
    <3> QED BY <1>0, <3>1
  <2>8. CASE Rename(s)
    BY <1>0, <2>8 DEF Rename
  <2>9. CASE Swap(s)
    <3>1. /\ pc'[s] = "release" /\ pc[s] = "swap" /\ cur'[s] = job[s].new
          /\ job[s].new.version = job[s].version
      BY <1>0, <2>9 DEF Swap
    <3> QED BY <1>0, <3>1
  <2> QED BY <1>4, <2>1, <2>2, <2>3, <2>4, <2>5, <2>6, <2>7, <2>8, <2>9 DEF Run, Refresh
<1>5. ASSUME NEW s \in Stores, Create(s) \/ Cancel(s) \/ Teardown(s) \/ Run(s)
      PROVE  ContentsInv'
  <2>1. \A v \in Versions : disk'[v] \in {"absent", "torn", v}
    <3>1. CASE Rename(s) \/ Release(s) \/ ReleaseUnloaded(s)
      BY <1>1, <1>3, <3>1
    <3>2. CASE ~(Rename(s) \/ Release(s) \/ ReleaseUnloaded(s))
      BY <1>0, <1>5, <3>2 DEF Run, Refresh, Create, Cancel, Teardown, Timer, Exit,
         Current, Resolve, CurrentFails, Check, LoadCached, NoCached, Fetch,
         DownloadFails, Place, Unload, Open, OpenFails, Swap, MapFile
    <3> QED BY <3>1, <3>2
  <2>2. ASSUME NEW x \in Stores PROVE Right(x)'
    <3>1. CASE x = s
      BY <1>4, <1>5, <3>1
    <3>2. CASE x # s
      BY <1>0, <1>5, <3>2, OthersKept
    <3> QED BY <3>1, <3>2
  <2> QED BY <2>1, <2>2 DEF ContentsInv
<1>6. CASE UNCHANGED <<disk, cur, pc, job>>
  BY <1>0, <1>6 DEF ContentsInv
<1> QED BY <1>2, <1>5, <1>6 DEF Next, vars, Publish, Advertise, SetHealth,
           LookupBegin, LookupEnd

\* A store with a directory of its own removes only what it no longer serves.
LEMMA KeptStep == IInv /\ [Next]_vars => KeptInv'
<1> SUFFICES ASSUME IInv, [Next]_vars, Alone, NEW x \in Stores
             PROVE  /\ cur'[x] # None => disk'[cur'[x].path] # "absent"
                    /\ pc'[x] = "swap" => disk'[TargetPath(x)'] # "absent"
  BY DEF KeptInv, Alone
<1> USE MaatAssumption DEF world, fields, locals, GoTo, Set, TargetPath, DatabasePath
<1> DEFINE Kept == /\ cur[x] # None => disk[cur[x].path] # "absent"
                   /\ pc[x] = "swap" => disk[job[x].version] # "absent"
<1>0. TypeOK /\ Kept /\ JobInv(x)
  BY DEF IInv, KeptInv
<1>1. ASSUME NEW torn \in SUBSET Paths, Crash(torn) PROVE Kept'
  BY <1>1 DEF Crash
<1>2. ASSUME NEW s \in Stores, Create(s) \/ Cancel(s) \/ Teardown(s) \/ Run(s)
      PROVE  Kept'
  <2>0. s = x
    BY DEF Alone
  <2> USE DEF TypeOK, JobInv
  <2>1. CASE Teardown(x)
    BY <1>0, <2>1 DEF Teardown
  <2>2. CASE LoadCached(x) \/ Open(x)
    <3>1. /\ job'[x] = [job[x] EXCEPT !.new = Mapping(x)] /\ UNCHANGED <<cur, disk>>
      BY <1>0, <2>2 DEF LoadCached, Open, MapFile
    <3>2. disk[job[x].version] # "absent"
      BY <2>2, MappingType DEF LoadCached, Open
    <3>3. job'[x].version = job[x].version
      BY <1>0, <3>1
    <3> QED BY <1>0, <3>1, <3>2, <3>3
  <2>3. CASE Rename(x)
    <3>1. job[x].bytes \in Versions /\ (cur[x] # None => cur[x].path # job[x].version)
      BY <1>0, <2>3 DEF Rename, OnServedPath
    <3>2. /\ disk' = [disk EXCEPT ![job[x].version] = job[x].bytes]
          /\ pc'[x] = "open" /\ cur' = cur
      BY <1>0, <2>3 DEF Rename
    <3>3. cur[x] # None => disk'[cur[x].path] = disk[cur[x].path]
      BY <1>0, <3>1, <3>2
    <3> QED BY <1>0, <3>2, <3>3
  <2>4. CASE Unload(x)
    <3>1. cur'[x] = None /\ pc'[x] = "unloaded"
      BY <1>0, <2>4 DEF Unload
    <3> QED BY <3>1
  <2>5. CASE ReleaseUnloaded(x)
    <3>1. cur'[x] = None /\ pc'[x] = "rename"
      BY <1>0, <2>5 DEF ReleaseUnloaded, Close
    <3> QED BY <3>1
  <2>6. CASE Swap(x)
    <3>1. /\ pc[x] = "swap" /\ pc'[x] = "release" /\ cur'[x] = job[x].new
          /\ job[x].new.path = job[x].version /\ disk' = disk
      BY <1>0, <2>6 DEF Swap
    <3> QED BY <1>0, <3>1
  <2>7. CASE Release(x)
    <3>1. /\ pc'[x] = "wait" /\ cur' = cur /\ cur[x] \in Mappings
          /\ \/ disk' = disk
             \/ disk' = Removed({job[x].old.path} \ {cur[x].path})
      BY <1>0, <2>7 DEF Release, Close, Retired, MaybeMapping
    <3>2. cur[x].path \in Paths
      BY <3>1 DEF Mappings
    <3>3. disk'[cur[x].path] = disk[cur[x].path]
      BY <1>0, <3>1, <3>2 DEF Removed
    <3> QED BY <1>0, <3>1, <3>3
  <2>8. CASE \/ Create(x) \/ Cancel(x) \/ Timer(x) \/ Exit(x) \/ Current(x)
             \/ Resolve(x) \/ CurrentFails(x) \/ Check(x) \/ NoCached(x)
             \/ Fetch(x) \/ DownloadFails(x) \/ Place(x) \/ OpenFails(x)
    <3>1. /\ UNCHANGED <<disk, cur>>
          /\ pc'[x] # "swap" \/ (pc'[x] = pc[x] /\ job'[x] = job[x])
      BY <1>0, <2>8 DEF Create, Cancel, Timer, Exit, Current, Resolve, CurrentFails,
         Check, NoCached, Fetch, DownloadFails, Place, OpenFails
    <3> QED BY <1>0, <3>1
  <2> QED BY <1>2, <2>0, <2>1, <2>2, <2>3, <2>4, <2>5, <2>6, <2>7, <2>8
             DEF Run, Refresh
<1>3. CASE UNCHANGED <<disk, cur, pc, job>>
  BY <1>0, <1>3
<1> QED BY <1>1, <1>2, <1>3 DEF Next, vars, Publish, Advertise, SetHealth,
           LookupBegin, LookupEnd

-----------------------------------------------------------------------------
\* IInv holds before the first store is created, and every step keeps it.
THEOREM InductiveInvariant == Spec => []IInv
<1>1. Init => IInv
  <2> SUFFICES ASSUME Init PROVE IInv
    OBVIOUS
  <2> USE MaatAssumption DEF Init
  <2>1. NoJob \in [version : Paths \cup {None}, gen : 0 .. MaxPublishes,
                   bytes : Versions \cup {None},
                   old : MaybeMapping, new : MaybeMapping]
    BY DEF NoJob, MaybeMapping
  <2>2. TypeOK
    BY <2>1 DEF TypeOK, PcLabels, MaybeMapping
  <2>3. \A s \in Stores : JobInv(s)
    BY DEF JobInv, NoJob, Refreshing
  <2>4. NoMappingLeak
    BY DEF NoMappingLeak, NoJob
  <2>5. PlaceInv /\ LookupInv
    BY DEF PlaceInv, LookupInv
  <2>6. ContentsInv
    BY DEF ContentsInv, Paths
  <2>7. KeptInv
    BY DEF KeptInv
  <2> QED BY <2>2, <2>3, <2>4, <2>5, <2>6, <2>7 DEF IInv
<1>2. IInv /\ [Next]_vars => IInv'
  BY TypeStep, JobStep, PlaceStep, LeakStep, LookupStep, ContentsStep, KeptStep DEF IInv
<1> QED BY <1>1, <1>2, PTL DEF Spec

\* Every variable keeps its type.
THEOREM TypeCorrect == Spec => []TypeOK
<1>1. IInv => TypeOK
  BY DEF IInv
<1> QED BY <1>1, InductiveInvariant, PTL

\* A lookup never reads a database that a refresh, an unload or a Destruct has
\* closed, in any of the stores of a directory.
THEOREM LookupsReadMapped == Spec => []NoUseAfterUnmap
<1>1. IInv => NoUseAfterUnmap
  <2> SUFFICES ASSUME IInv, NEW q \in Lookups, reading[q] # None
               PROVE  reading[q].db \in mapped[reading[q].store]
    BY DEF NoUseAfterUnmap
  <2>1. reading[q].store \in Stores
    BY DEF IInv, TypeOK
  <2>2. reading[q].db = cur[reading[q].store] /\ cur[reading[q].store] # None
    BY DEF IInv, LookupInv
  <2> QED BY <2>1, <2>2 DEF IInv, NoMappingLeak
<1> QED BY <1>1, InductiveInvariant, PTL

\* No store leaves a mapping behind, and one that is gone has none.
THEOREM MappingsAccounted == Spec => []NoMappingLeak
<1>1. IInv => NoMappingLeak
  BY DEF IInv
<1> QED BY <1>1, InductiveInvariant, PTL

\* Where a URL always yields the build it was given for, a version is served
\* with its own contents, however many stores share the directory.
THEOREM VersionsHoldTheirBytes == Pinned => (Spec => []RightBytes)
<1> SUFFICES ASSUME Pinned PROVE Spec => []RightBytes
  OBVIOUS
<1>1. IInv => RightBytes
  BY DEF IInv, ContentsInv, RightBytes, RightUnder
<1> QED BY <1>1, InductiveInvariant, PTL

\* The full tier is such a tier.
COROLLARY FullTierBytes == Tier = "full" => (Spec => []RightBytes)
BY VersionsHoldTheirBytes, MaatAssumption

\* A store with a directory of its own finds what it serves there when it is
\* started again.
THEOREM FileSurvives == Alone => (Spec => []ServedFileKept)
<1> SUFFICES ASSUME Alone PROVE Spec => []ServedFileKept
  OBVIOUS
<1>1. IInv => ServedFileKept
  BY DEF IInv, KeptInv, ServedFileKept
<1> QED BY <1>1, InductiveInvariant, PTL

\* Only a Destruct or the end of the process takes away the database of a store
\* whose server reports versions: no failed or unusable download does.
THEOREM NeverUnloaded == Spec => KeepsServing
<1>1. IInv /\ [Next]_vars =>
        [\A s \in Stores :
           cur[s] # None /\ cur[s].version # NoVersion /\ cur'[s] = None
             => canceled[s] \/ pc'[s] = "off"]_vars
  <2> SUFFICES ASSUME IInv, Next, NEW s \in Stores, cur[s] # None,
                      cur[s].version # NoVersion, cur'[s] = None
               PROVE  canceled[s] \/ pc'[s] = "off"
    BY DEF vars
  <2>0. TypeOK /\ JobInv(s) /\ cur[s].path = cur[s].version
    BY DEF IInv, PlaceInv, DatabasePath
  <2>1. ASSUME NEW torn \in SUBSET Paths, Crash(torn) PROVE pc'[s] = "off"
    BY <2>1 DEF Crash
  <2>2. ASSUME NEW x \in Stores, Create(x) \/ Cancel(x) \/ Teardown(x) \/ Run(x)
        PROVE  canceled[s]
    <3>0. x = s
      BY <2>0, <2>2, OthersKept
    <3>1. CASE Teardown(s)
      BY <3>1 DEF Teardown
    <3>2. CASE Unload(s)
      BY <2>0, <3>2 DEF Unload, JobInv, OnServedPath, TargetPath, DatabasePath
    <3>3. CASE Swap(s)
      BY <2>0, <3>3 DEF Swap, JobInv, TypeOK
    <3>4. CASE UNCHANGED cur
      BY <3>4
    <3> QED BY <2>2, <3>0, <3>1, <3>2, <3>3, <3>4 DEF Create, Cancel, Run, Refresh, Timer,
       Exit, Current, Resolve, CurrentFails, Check, LoadCached, NoCached, Fetch,
       DownloadFails, Place, ReleaseUnloaded, Rename, Open, OpenFails, Release,
       MapFile, Close, fields
  <2>3. CASE UNCHANGED cur
    BY <2>3
  <2> QED BY <2>1, <2>2, <2>3 DEF Next, Publish, Advertise, SetHealth, LookupBegin,
             LookupEnd, fields
<1> QED BY <1>1, InductiveInvariant, PTL DEF Spec, KeepsServing

-----------------------------------------------------------------------------
(* A store implements SnapshotStore. *)

\* What is served has a publication's number.
LEMMA ServingNumber ==
  ASSUME IInv, AStore \in Stores
  PROVE  ServedGen \in Nat /\ (cur[AStore] # None => ServedGen > 0)
BY MaatAssumption DEF IInv, TypeOK, MaybeMapping, Mappings, ServedGen

\* A step of the store the lookups are counted for installs a build no older
\* than any before, retires one while nobody reads, or changes nothing.
LEMMA StoreStep ==
  ASSUME IInv, AStore \in Stores,
         Create(AStore) \/ Cancel(AStore) \/ Teardown(AStore) \/ Run(AStore)
  PROVE  [Snapshot!Next]_(Snapshot!vars)
<1> DEFINE a == AStore
<1>0. TypeOK /\ JobInv(a)
  BY DEF IInv
<1>q. WriteLockFree(a) => Snapshot!Quiet
  BY DEF WriteLockFree, Snapshot!Quiet, StoreBatch
<1>r. reading' = reading => StoreBatch' = StoreBatch
  BY DEF StoreBatch
<1>1. CASE Swap(a)
  <2>1. /\ WriteLockFree(a) /\ reading' = reading
        /\ cur'[a] = job[a].new /\ job[a].new # None /\ job[a].new.gen = job[a].gen
        /\ highWater'[a] = job[a].gen /\ job[a].gen >= highWater[a]
    BY <1>0, <1>1 DEF Swap, JobInv, TypeOK, Refreshing
  <2>2. ServedGen' = job[a].gen
    BY <2>1 DEF ServedGen
  <2>3. job[a].gen \in 1 .. MaxPublishes
    BY <1>1, BuildType DEF Swap, Refreshing
  <2>4. Snapshot!Install(job[a].gen)
    BY <1>q, <1>r, <2>1, <2>2 DEF Snapshot!Install
  <2> QED BY <2>3, <2>4 DEF Snapshot!Next
<1>2. CASE Unload(a) \/ Teardown(a)
  <2>1. WriteLockFree(a) /\ reading' = reading /\ cur'[a] = None /\ highWater' = highWater
    BY <1>0, <1>2 DEF Unload, Teardown, TypeOK
  <2>2. ServedGen' = 0
    BY <2>1 DEF ServedGen
  <2>3. Snapshot!Retire
    BY <1>q, <1>r, <2>1, <2>2 DEF Snapshot!Retire
  <2> QED BY <2>3 DEF Snapshot!Next
<1>3. CASE ~(Swap(a) \/ Unload(a) \/ Teardown(a))
  <2>1. UNCHANGED <<cur, highWater, reading>>
    BY <1>3 DEF Run, Refresh, Create, Cancel, Timer, Exit, Current, Resolve,
       CurrentFails, Check, LoadCached, NoCached, Fetch, DownloadFails, Place,
       ReleaseUnloaded, Rename, Open, OpenFails, Release, MapFile, Close, fields
  <2>2. ServedGen' = ServedGen
    BY <2>1 DEF ServedGen
  <2> QED BY <1>r, <2>1, <2>2 DEF Snapshot!vars
<1> QED BY <1>1, <1>2, <1>3

\* Every step of the stores maps to a step of SnapshotStore or to a stutter.
LEMMA SnapshotStep ==
  ASSUME IInv, [Next]_vars, AStore \in Stores
  PROVE  [Snapshot!Next]_(Snapshot!vars)
<1> DEFINE a == AStore
<1>0. TypeOK /\ LookupInv
  BY DEF IInv
<1>1. ASSUME NEW torn \in SUBSET Paths, Crash(torn) PROVE Snapshot!Next
  <2>1. ServedGen' = 0 /\ highWater' = highWater
        /\ StoreBatch' = [q \in Lookups |-> 0]
    BY <1>1 DEF Crash, ServedGen, StoreBatch
  <2>2. Snapshot!Crash
    BY <2>1 DEF Snapshot!Crash
  <2> QED BY <2>2 DEF Snapshot!Next
<1>2. ASSUME NEW s \in Stores, Create(s) \/ Cancel(s) \/ Teardown(s) \/ Run(s)
      PROVE  [Snapshot!Next]_(Snapshot!vars)
  <2>1. CASE s = a
    BY <1>2, <2>1, StoreStep
  <2>2. CASE s # a
    <3>1. cur'[a] = cur[a] /\ highWater'[a] = highWater[a]
      BY <1>0, <1>2, <2>2, OthersKept
    <3>2. reading' = reading
      BY <1>2 DEF Run, Refresh, Create, Cancel, Teardown, Timer, Exit, Current, Resolve,
         CurrentFails, Check, LoadCached, NoCached, Fetch, DownloadFails, Place, Unload,
         ReleaseUnloaded, Rename, Open, OpenFails, Swap, Release, MapFile, Close
    <3> QED BY <3>1, <3>2 DEF ServedGen, StoreBatch, Snapshot!vars
  <2> QED BY <2>1, <2>2
<1>3. ASSUME NEW q \in Lookups, NEW s \in Stores, LookupBegin(q, s)
      PROVE  [Snapshot!Next]_(Snapshot!vars)
  <2>1. /\ reading[q] = None /\ cur[s] # None
        /\ reading' = [reading EXCEPT ![q] = [store |-> s, db |-> cur[s]]]
        /\ cur' = cur /\ highWater' = highWater
    BY <1>3 DEF LookupBegin, fields
  <2>2. [store |-> s, db |-> cur[s]] # None
    BY <1>0, <2>1, MaatAssumption DEF TypeOK, MaybeMapping
  <2>3. ServedGen' = ServedGen
    BY <2>1 DEF ServedGen
  <2>4. CASE s = a
    <3>1. StoreBatch[q] = 0 /\ StoreBatch' = [StoreBatch EXCEPT ![q] = ServedGen]
      BY <1>0, <2>1, <2>2, <2>4 DEF StoreBatch, ServedGen, TypeOK
    <3>2. ServedGen # 0
      BY <2>1, <2>4, ServingNumber
    <3>3. Snapshot!BeginBatch(q)
      BY <2>1, <2>3, <3>1, <3>2 DEF Snapshot!BeginBatch
    <3> QED BY <3>3 DEF Snapshot!Next
  <2>5. CASE s # a
    <3>1. StoreBatch' = StoreBatch
      BY <1>0, <2>1, <2>2, <2>5 DEF StoreBatch, TypeOK
    <3> QED BY <2>1, <2>3, <3>1 DEF Snapshot!vars
  <2> QED BY <2>4, <2>5
<1>4. ASSUME NEW q \in Lookups, LookupEnd(q) PROVE [Snapshot!Next]_(Snapshot!vars)
  <2>1. /\ reading[q] # None /\ reading' = [reading EXCEPT ![q] = None]
        /\ cur' = cur /\ highWater' = highWater
    BY <1>4 DEF LookupEnd, fields
  <2>2. ServedGen' = ServedGen
    BY <2>1 DEF ServedGen
  <2>3. StoreBatch' = [StoreBatch EXCEPT ![q] = 0]
    BY <1>0, <2>1 DEF StoreBatch, TypeOK
  <2>4. CASE StoreBatch[q] = 0
    BY <2>1, <2>2, <2>3, <2>4 DEF StoreBatch, Snapshot!vars
  <2>5. CASE StoreBatch[q] # 0
    BY <2>1, <2>2, <2>3, <2>5 DEF Snapshot!EndBatch, Snapshot!Next
  <2> QED BY <2>4, <2>5
<1>5. CASE UNCHANGED <<cur, highWater, reading>>
  BY <1>5 DEF ServedGen, StoreBatch, Snapshot!vars
<1> QED BY <1>1, <1>2, <1>3, <1>4, <1>5 DEF Next, vars, fields, Publish, Advertise,
           SetHealth

\* Seen from its lookups a store is a SnapshotStore: one build at a time, and
\* never an older one after a newer one, restarts included.
THEOREM Refinement == Stores # {} => (Spec => ImplementsSnapshotStore)
<1> SUFFICES ASSUME Stores # {} PROVE Spec => ImplementsSnapshotStore
  OBVIOUS
<1>0. AStore \in Stores
  BY DEF AStore
<1>1. Init => Snapshot!Init
  BY <1>0 DEF Init, Snapshot!Init, ServedGen, StoreBatch
<1>2. IInv /\ [Next]_vars => [Snapshot!Next]_(Snapshot!vars)
  BY <1>0, SnapshotStep
<1> QED BY <1>1, <1>2, InductiveInvariant, PTL DEF Spec, Snapshot!Spec,
           ImplementsSnapshotStore
=============================================================================
