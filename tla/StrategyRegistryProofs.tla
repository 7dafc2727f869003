----------------------- MODULE StrategyRegistryProofs -----------------------
(***************************************************************************)
(* What is installed and what a backtest executes, for any number of        *)
(* repositories, versions, concurrent installs and requests.                *)
(***************************************************************************)
EXTENDS StrategyRegistry, TLAPS

-----------------------------------------------------------------------------
(* Types. *)

LEMMA Bounds ==
    /\ MaxVer \in Nat /\ MaxVer >= 1 /\ MaxCrashes \in Nat /\ MaxSwitches \in Nat /\ MaxFaults \in Nat
    /\ 0 \in 0..MaxVer /\ 1 \in Versions /\ Versions \subseteq 0..MaxVer
    /\ \A v \in 0..MaxVer : v # 0 => v \in Versions
BY RegistryAssumption DEF Versions

LEMMA EmptyTypes ==
    /\ NoRow \in RowState /\ NoRow.installed = 0
    /\ Idle \in SyncState
    /\ NoInstall \in InstallState /\ NoInstall.pc = "none"
    /\ NoJob \in JobState /\ NoJob.pc = "none"
<1>1. [r \in Repos |-> 0] \in [Repos -> 0..MaxVer]
  BY Bounds
<1>2. Idle \in SyncState
  BY <1>1 DEF Idle, SyncState
<1> QED
  BY <1>2, Bounds DEF NoRow, RowState, NoInstall, InstallState, NoJob, JobState

\* A key belongs to one repository.
LEMMA KeysOwned ==
    ASSUME TypeOK, NEW r \in Repos
    PROVE  /\ KeysOf(r) \subseteq Keys /\ code[r] \in KeysOf(r) /\ Name[r] \in KeysOf(r)
           /\ code[r] \in Keys /\ Name[r] \in Keys
           /\ \A s : \A k \in KeysOf(r) : s \in Repos /\ k \in KeysOf(s) => s = r
<1>1. KeysOf(r) \subseteq Keys
  BY DEF Keys
<1>2. code[r] \in KeysOf(r) /\ Name[r] \in KeysOf(r)
  BY DEF TypeOK, KeysOf
<1>3. \A s : \A k \in KeysOf(r) : s \in Repos /\ k \in KeysOf(s) => s = r
  <2> HIDE DEF KeysOf
  <2> QED
    BY RegistryAssumption
<1> QED
  BY <1>1, <1>2, <1>3

LEMMA FaultType == ASSUME TypeOK, Fault \/ NoFault PROVE faults' \in 0..MaxFaults
BY Bounds DEF TypeOK, Fault, NoFault

-----------------------------------------------------------------------------
(* Frames. *)

\* A step that leaves rows, artifacts, installs and requests alone.
LEMMA OtherStepKeeps ==
    ASSUME IInv, TypeOK', UNCHANGED <<code, mode, rows, dirs, built, install, job, temp, switches>>
    PROVE  IInv'
<1> USE DEF IInv
<1>1. InstallInv' /\ RowInv' /\ ModeInv' /\ JobInv' /\ InstalledIsBuilt'
  BY DEF InstallInv, InstallOK, RowInv, ModeInv, JobInv, InstalledIsBuilt, NewArtifact
<1>2. ResolvedIsPinned'
  BY DEF ResolvedIsPinned, JobKind
<1> QED
  BY <1>1, <1>2

\* Statistics and their age are columns that no installation reads.
LEMMA StatsStepKeeps ==
    ASSUME IInv, TypeOK', UNCHANGED <<code, mode, dirs, built, install, job, temp, switches>>,
           \A k \in Keys : /\ rows'[k].url = rows[k].url /\ rows'[k].installed = rows[k].installed
                           /\ rows'[k].ref = rows[k].ref
    PROVE  IInv'
<1> USE DEF IInv
<1>1. InstallInv'
  BY KeysOwned DEF InstallInv, InstallOK, NewArtifact
<1>2. RowInv' /\ ModeInv' /\ JobInv' /\ InstalledIsBuilt'
  BY DEF RowInv, ModeInv, JobInv, InstalledIsBuilt
<1>3. ResolvedIsPinned'
  BY DEF ResolvedIsPinned, JobKind
<1> QED
  BY <1>1, <1>2, <1>3

\* A step of the install of r: artifacts are added, rows of r written.
LEMMA InstallStepKeeps ==
    ASSUME IInv, TypeOK', NEW r \in Repos, UNCHANGED <<code, mode, job, temp, switches>>,
           dirs \subseteq dirs', built \subseteq built',
           NEW x \in InstallState, install' = [install EXCEPT ![r] = x],
           NEW k \in KeysOf(r), \A l \in Keys \ {k} : rows'[l] = rows[l],
           rows'[k].url = rows[k].url \/ rows'[k].url = r,
           InstallOK(r)',
           rows'[k].installed # 0 =>
               /\ rows'[k].ref \in built'
               /\ rows'[k].ref.repo = rows'[k].url
               /\ rows'[k].ref.ver = rows'[k].installed
               /\ <<rows'[k].url, rows'[k].installed>> \in dirs'
               /\ k \in KeysOf(rows'[k].url)
               /\ switches = 0 => rows'[k].ref.kind = "binary"
    PROVE  IInv'
<1> USE DEF IInv
<1>1. \A s \in Repos \ {r} : install'[s] = install[s]
  BY DEF TypeOK
<1>2. ASSUME NEW s \in Repos \ {r} PROVE InstallOK(s)'
  <2>1. InstallOK(s) /\ install'[s] = install[s]
    BY <1>1 DEF InstallInv
  <2>2. code[s] # k /\ code[s] \in Keys
    BY KeysOwned
  <2> QED
    BY <2>1, <2>2 DEF InstallOK, NewArtifact
<1>3. InstallInv'
  BY <1>2 DEF InstallInv
<1>4. RowInv' /\ InstalledIsBuilt'
  BY DEF RowInv, InstalledIsBuilt
<1>5. ModeInv' /\ JobInv'
  BY DEF ModeInv, JobInv
<1>6. ResolvedIsPinned'
  BY DEF ResolvedIsPinned, JobKind
<1> QED
  BY <1>3, <1>4, <1>5, <1>6

\* A step of request j.
LEMMA JobStepKeeps ==
    ASSUME IInv, TypeOK', NEW j \in Jobs, NEW x \in JobState, job' = [job EXCEPT ![j] = x],
           UNCHANGED <<code, mode, rows, dirs, built, install, switches>>,
           \A i \in Jobs \ {j} : i \in temp' <=> i \in temp,
           x.pc = "lookup" => x.ver # 0 /\ x.what = "backtest",
           x.pc = "ephemeral" => j \in temp',
           x.pc = "run" =>
               /\ x.art.repo = x.repo
               /\ x.ver # 0 => x.art.ver = x.ver
               /\ x.art \in built \/ j \in temp'
               /\ switches = 0 => x.art.kind = IF x.what = "describe" THEN "binary" ELSE ExpectedKind(mode)
    PROVE  IInv'
<1> USE DEF IInv
<1>1. job'[j] = x /\ \A i \in Jobs \ {j} : job'[i] = job[i]
  BY DEF TypeOK
<1>2. InstallInv' /\ RowInv' /\ ModeInv' /\ InstalledIsBuilt'
  BY DEF InstallInv, InstallOK, RowInv, ModeInv, InstalledIsBuilt, NewArtifact
<1>3. JobInv'
  BY <1>1 DEF JobInv
<1>4. ResolvedIsPinned'
  BY <1>1 DEF ResolvedIsPinned, JobKind
<1> QED
  BY <1>2, <1>3, <1>4

-----------------------------------------------------------------------------
(* The sync loop, the statistics and the calendar. *)

LEMMA ReleaseKeeps == ASSUME IInv, NEW r \in Repos, Release(r) PROVE IInv'
<1>1. /\ released[r] < MaxVer /\ released' = [released EXCEPT ![r] = @ + 1]
      /\ UNCHANGED <<code, mode, rows, dirs, built, install, job, temp, switches, crashes, faults, syncer,
                     stats, due>>
  BY DEF Release, disk, sync, statJobs, builds
<1>2. released' \in [Repos -> Versions]
  BY <1>1, Bounds DEF IInv, TypeOK, Versions
<1>3. TypeOK'
  BY <1>1, <1>2 DEF IInv, TypeOK
<1> QED
  BY <1>1, <1>3, OtherStepKeeps

LEMMA SyncStepKeeps ==
    ASSUME IInv, BeginTick \/ EndTick \/ \E r \in Repos : Inspect(r)
    PROVE  IInv'
<1>1. /\ UNCHANGED <<code, released, mode, rows, dirs, built, install, job, temp, switches, crashes,
                     stats, due>>
      /\ faults' \in 0..MaxFaults
  BY FaultType DEF BeginTick, EndTick, Inspect, env, disk, sync, statJobs, builds, NoFault, IInv
<1>2. syncer \in SyncState /\ released \in [Repos -> Versions]
  BY DEF IInv, TypeOK
<1>3. syncer' \in SyncState
  <2>1. CASE BeginTick
    BY <1>2, <2>1 DEF BeginTick, SyncState
  <2>2. CASE EndTick
    BY <2>2, EmptyTypes DEF EndTick
  <2>3. ASSUME NEW r \in Repos, Inspect(r) PROVE syncer' \in SyncState
    <3>1. \/ syncer' = [syncer EXCEPT !.todo = @ \ {r}]
          \/ \E v \in 0..MaxVer : syncer' = [syncer EXCEPT !.todo = @ \ {r}, !.jobs[r] = v]
      BY <1>2, <2>3, Bounds DEF Inspect, ResolveVer
    <3>2. CASE syncer' = [syncer EXCEPT !.todo = @ \ {r}]
      BY <1>2, <3>2 DEF SyncState
    <3>3. ASSUME NEW v \in 0..MaxVer, syncer' = [syncer EXCEPT !.todo = @ \ {r}, !.jobs[r] = v]
          PROVE  syncer' \in SyncState
      <4> DEFINE f == [syncer.jobs EXCEPT ![r] = v]
      <4>1. f \in [Repos -> 0..MaxVer]
        BY <1>2 DEF SyncState
      <4>2. syncer' = [syncer EXCEPT !.todo = @ \ {r}, !.jobs = f]
        BY <1>2, <3>3 DEF SyncState
      <4> HIDE DEF f
      <4> QED
        BY <1>2, <4>1, <4>2 DEF SyncState
    <3> QED
      BY <3>1, <3>2, <3>3
  <2> QED
    BY <2>1, <2>2, <2>3
<1>4. TypeOK'
  BY <1>1, <1>3 DEF IInv, TypeOK
<1> QED
  BY <1>1, <1>4, OtherStepKeeps

LEMMA ListDueKeeps == ASSUME IInv, ListDue PROVE IInv'
<1>1. /\ UNCHANGED <<code, released, mode, rows, dirs, built, install, job, temp, switches, crashes,
                     faults, stats, syncer>>
      /\ due' \subseteq Keys
  BY DEF ListDue, env, disk, sync, builds, ListInstalled
<1>2. TypeOK'
  BY <1>1 DEF IInv, TypeOK
<1> QED
  BY <1>1, <1>2, OtherStepKeeps

LEMMA StartedType ==
    ASSUME IInv, NEW k \in Keys, NEW by \in {"install", "daily"}
    PROVE  Started(by, k) \subseteq StatsJobs
<1>1. rows[k].ref \in Artifacts \cup {NoArtifact}
  BY DEF IInv, TypeOK, RowState
<1> QED
  BY <1>1 DEF Started, StatsJobs

LEMMA RefreshOneKeeps == ASSUME IInv, NEW k \in due, RefreshOne(k) PROVE IInv'
<1>1. /\ UNCHANGED <<code, released, mode, rows, dirs, built, install, job, temp, switches, crashes,
                     faults, syncer>>
      /\ due' = due \ {k} /\ stats' = stats \cup Started("daily", k) /\ k \in Keys
  BY DEF RefreshOne, env, disk, sync, builds, IInv, TypeOK
<1>2. Started("daily", k) \subseteq StatsJobs
  BY <1>1, StartedType
<1>3. TypeOK'
  BY <1>1, <1>2 DEF IInv, TypeOK
<1> QED
  BY <1>1, <1>3, OtherStepKeeps

LEMMA StartStatsKeeps == ASSUME IInv, NEW s \in stats, StartStats(s) PROVE IInv'
<1>1. /\ UNCHANGED <<code, released, mode, rows, dirs, built, install, job, temp, switches, crashes,
                     faults, syncer, due>>
      /\ stats' = (stats \ {s}) \cup Started(s.by, s.key) /\ s \in StatsJobs
  BY DEF StartStats, env, disk, sync, builds, IInv, TypeOK
<1>2. Started(s.by, s.key) \subseteq StatsJobs
  <2>1. s.by \in {"install", "daily"} /\ s.key \in Keys
    BY <1>1 DEF StatsJobs
  <2> QED
    BY <2>1, StartedType
<1>3. TypeOK'
  BY <1>1, <1>2 DEF IInv, TypeOK
<1> QED
  BY <1>1, <1>3, OtherStepKeeps

LEMMA FinishStatsKeeps == ASSUME IInv, NEW s \in stats, FinishStats(s) PROVE IInv'
<1> DEFINE k == s.key
           y == [rows[k] EXCEPT !.stats = s.art.ver, !.fresh = TRUE]
<1>1. /\ UNCHANGED <<code, released, mode, dirs, built, install, job, temp, switches, crashes, syncer, due>>
      /\ stats' = stats \ {s} /\ faults' \in 0..MaxFaults /\ s \in StatsJobs /\ s.art # NoArtifact
      /\ rows' = rows \/ UpdateStats(s)
  BY FaultType DEF FinishStats, env, disk, sync, builds, IInv, TypeOK
<1>2. k \in Keys /\ s.art.ver \in 0..MaxVer /\ rows[k] \in RowState
  BY <1>1, Bounds DEF StatsJobs, Artifacts, IInv, TypeOK
<1>3. /\ y \in RowState /\ y.url = rows[k].url /\ y.installed = rows[k].installed /\ y.ref = rows[k].ref
  BY <1>2 DEF RowState
<1>4. rows' = rows \/ rows' = [rows EXCEPT ![k] = y]
  BY <1>1, <1>2 DEF UpdateStats, IInv, TypeOK
<1> HIDE DEF y
<1>5. /\ rows' \in [Keys -> RowState]
      /\ \A l \in Keys : /\ rows'[l].url = rows[l].url /\ rows'[l].installed = rows[l].installed
                         /\ rows'[l].ref = rows[l].ref
  BY <1>2, <1>3, <1>4 DEF IInv, TypeOK
<1>6. TypeOK'
  BY <1>1, <1>5 DEF IInv, TypeOK
<1> QED
  BY <1>1, <1>5, <1>6, StatsStepKeeps

LEMMA MidnightKeeps == ASSUME IInv, Midnight PROVE IInv'
<1>1. /\ UNCHANGED <<code, released, mode, dirs, built, install, job, temp, switches, crashes, faults,
                     syncer, stats, due>>
      /\ rows' = [k \in Keys |-> [rows[k] EXCEPT !.fresh = FALSE]]
  BY DEF Midnight, env, disk, sync, statJobs, builds
<1>2. ASSUME NEW k \in Keys
      PROVE  /\ rows'[k] \in RowState /\ rows'[k].url = rows[k].url
             /\ rows'[k].installed = rows[k].installed /\ rows'[k].ref = rows[k].ref
  <2>1. rows[k] \in RowState /\ rows'[k] = [rows[k] EXCEPT !.fresh = FALSE]
    BY <1>1 DEF IInv, TypeOK
  <2> QED
    BY <2>1 DEF RowState
<1>3. TypeOK'
  BY <1>1, <1>2 DEF IInv, TypeOK
<1> QED
  BY <1>1, <1>2, <1>3, StatsStepKeeps

-----------------------------------------------------------------------------
(* Installs. *)

\* An install step that writes no row.
LEMMA InstallDiskKeeps ==
    ASSUME IInv, NEW r \in Repos, NEW x \in InstallState, install' = [install EXCEPT ![r] = x],
           UNCHANGED <<code, released, mode, rows, job, temp, stats, due, switches, crashes>>,
           faults' \in 0..MaxFaults, syncer' \in SyncState,
           dirs \subseteq dirs', dirs' \subseteq Repos \X Versions,
           built \subseteq built', built' \subseteq Artifacts,
           x.pc # "mark",
           x.pc \in {"build", "describe", "upsert"} => <<r, x.ver>> \in dirs',
           x.pc \in {"describe", "upsert"} => [kind |-> ExpectedKind(mode), repo |-> r, ver |-> x.ver] \in built'
    PROVE  IInv'
<1>1. TypeOK'
  BY DEF IInv, TypeOK
<1>2. Name[r] \in KeysOf(r) /\ Name[r] \in Keys
  BY KeysOwned DEF IInv
<1>3. install'[r] = x
  BY DEF IInv, TypeOK
<1>4. InstallOK(r)'
  BY <1>3 DEF InstallOK, NewArtifact
<1>5. \A l \in Keys : rows'[l] = rows[l]
  OBVIOUS
<1>6. rows'[Name[r]].installed # 0 =>
               /\ rows'[Name[r]].ref \in built'
               /\ rows'[Name[r]].ref.repo = rows'[Name[r]].url
               /\ rows'[Name[r]].ref.ver = rows'[Name[r]].installed
               /\ <<rows'[Name[r]].url, rows'[Name[r]].installed>> \in dirs'
               /\ Name[r] \in KeysOf(rows'[Name[r]].url)
               /\ switches = 0 => rows'[Name[r]].ref.kind = "binary"
  BY <1>2 DEF IInv, RowInv, InstalledIsBuilt
<1> QED
  BY <1>1, <1>2, <1>4, <1>5, <1>6, InstallStepKeeps

\* Where an install is and what it installs.
LEMMA InstallType ==
    ASSUME IInv, NEW r \in Repos
    PROVE  /\ install[r] \in InstallState /\ InstallOK(r)
           /\ install[r].pc # "none" => install[r].ver \in Versions /\ NewArtifact(r) \in Artifacts
           /\ \A pc \in {"build", "describe", "upsert", "mark", "fail", "markfail"} :
                install[r].pc # "none" =>
                   /\ [install[r] EXCEPT !.pc = pc] = [pc |-> pc, ver |-> install[r].ver]
                   /\ [pc |-> pc, ver |-> install[r].ver] \in InstallState
<1>1. install[r] \in InstallState /\ InstallOK(r)
  BY DEF IInv, TypeOK, InstallInv
<1>2. ASSUME install[r].pc # "none"
      PROVE  install[r] \in [pc : {"clone", "build", "describe", "upsert", "mark", "fail", "markfail"}, ver : Versions]
  BY <1>1, <1>2 DEF InstallState, NoInstall
<1>3. ASSUME install[r].pc # "none" PROVE install[r].ver \in Versions /\ NewArtifact(r) \in Artifacts
  <2>1. install[r].ver \in Versions
    BY <1>2, <1>3
  <2> QED
    BY <2>1 DEF NewArtifact, Artifacts, Kinds, ExpectedKind
<1>4. ASSUME NEW pc \in {"build", "describe", "upsert", "mark", "fail", "markfail"}, install[r].pc # "none"
      PROVE  /\ [install[r] EXCEPT !.pc = pc] = [pc |-> pc, ver |-> install[r].ver]
             /\ [pc |-> pc, ver |-> install[r].ver] \in InstallState
  BY <1>2, <1>4 DEF InstallState
<1> QED
  BY <1>1, <1>3, <1>4

LEMMA StartInstallKeeps == ASSUME IInv, NEW r \in Repos, StartInstall(r) PROVE IInv'
<1> DEFINE x == [pc |-> "clone", ver |-> syncer.jobs[r]]
<1>1. /\ install' = [install EXCEPT ![r] = x] /\ syncer' = [syncer EXCEPT !.jobs[r] = 0]
      /\ syncer.jobs[r] # 0
      /\ UNCHANGED <<code, released, mode, rows, dirs, built, job, temp, stats, due, switches, crashes, faults>>
  BY DEF StartInstall, env, disk, statJobs, builds
<1>2. syncer \in SyncState /\ syncer.jobs[r] \in Versions
  BY <1>1, Bounds DEF IInv, TypeOK, SyncState
<1>3. syncer' \in SyncState
  BY <1>1, <1>2, Bounds DEF SyncState
<1>4. x \in InstallState /\ x.pc = "clone"
  BY <1>2 DEF InstallState
<1>5. dirs \subseteq Repos \X Versions /\ built \subseteq Artifacts /\ faults \in 0..MaxFaults
  BY DEF IInv, TypeOK
<1> HIDE DEF x
<1> QED
  BY <1>1, <1>3, <1>4, <1>5, InstallDiskKeeps

LEMMA CloneKeeps == ASSUME IInv, NEW r \in Repos, Clone(r) PROVE IInv'
<1> DEFINE v == install[r].ver
<1>1. /\ install[r].pc = "clone" /\ faults' \in 0..MaxFaults
      /\ UNCHANGED <<code, released, mode, rows, built, syncer, job, temp, stats, due, switches, crashes>>
      /\ \/ dirs' = dirs \cup {<<r, v>>} /\ Goto(r, "build")
         \/ dirs' \in {dirs, dirs \cup {<<r, v>>}} /\ Goto(r, "fail")
  BY FaultType DEF Clone, env, statJobs, builds, IInv
<1>2. v \in Versions /\ dirs \subseteq Repos \X Versions /\ built \subseteq Artifacts /\ syncer \in SyncState
  BY <1>1, InstallType DEF IInv, TypeOK
<1>3. dirs \subseteq dirs' /\ dirs' \subseteq Repos \X Versions
  BY <1>1, <1>2
<1>4. PICK pc \in {"build", "fail"} : install' = [install EXCEPT ![r].pc = pc] /\ (pc = "build" => <<r, v>> \in dirs')
  BY <1>1 DEF Goto
<1> DEFINE x == [pc |-> pc, ver |-> v]
<1>5. x \in InstallState /\ install' = [install EXCEPT ![r] = x] /\ x.pc = pc /\ x.ver = v
  BY <1>1, <1>4, InstallType DEF IInv, TypeOK
<1> HIDE DEF x
<1> QED
  BY <1>1, <1>2, <1>3, <1>4, <1>5, InstallDiskKeeps

LEMMA BuildKeeps == ASSUME IInv, NEW r \in Repos, Build(r) \/ BuildImage(r) \/ DescribeImage(r) PROVE IInv'
<1> DEFINE v == install[r].ver
<1>1. /\ install[r].pc \in {"build", "describe"} /\ faults' \in 0..MaxFaults
      /\ UNCHANGED <<code, released, mode, rows, dirs, syncer, job, temp, stats, due, switches, crashes>>
      /\ built' \in {built, built \cup {NewArtifact(r)}}
      /\ \E pc \in {"describe", "upsert", "fail"} :
            Goto(r, pc) /\ (pc # "fail" => built' = built \cup {NewArtifact(r)} \/ install[r].pc = "describe")
  BY FaultType DEF Build, BuildImage, DescribeImage, env, disk, statJobs, builds, IInv
<1>2. /\ v \in Versions /\ dirs \subseteq Repos \X Versions /\ built \subseteq Artifacts /\ syncer \in SyncState
      /\ NewArtifact(r) \in Artifacts /\ <<r, v>> \in dirs
      /\ install[r].pc = "describe" => NewArtifact(r) \in built
  BY <1>1, InstallType DEF IInv, TypeOK, InstallOK
<1>3. built \subseteq built' /\ built' \subseteq Artifacts
  BY <1>1, <1>2
<1>4. PICK pc \in {"describe", "upsert", "fail"} :
         install' = [install EXCEPT ![r].pc = pc] /\ (pc # "fail" => NewArtifact(r) \in built')
  BY <1>1, <1>2 DEF Goto
<1> DEFINE x == [pc |-> pc, ver |-> v]
<1>5. x \in InstallState /\ install' = [install EXCEPT ![r] = x] /\ x.pc = pc /\ x.ver = v
  BY <1>1, <1>4, InstallType DEF IInv, TypeOK
<1>6. NewArtifact(r) = [kind |-> ExpectedKind(mode), repo |-> r, ver |-> x.ver]
  BY <1>5 DEF NewArtifact
<1> HIDE DEF x
<1> QED
  BY <1>1, <1>2, <1>3, <1>4, <1>5, <1>6, InstallDiskKeeps, ZenonT(60)

\* Upsert writes the URL; whatever is installed under the key is of the same repository.
LEMMA UpsertKeeps ==
    ASSUME IInv, NEW r \in Repos, NEW k \in KeysOf(r), Upsert(k, r) \/ UNCHANGED rows,
           NEW x \in InstallState, install' = [install EXCEPT ![r] = x],
           UNCHANGED <<code, released, mode, dirs, built, syncer, job, temp, stats, due, switches, crashes>>,
           faults' \in 0..MaxFaults,
           x.pc \in {"none", "markfail"} \/ (x.pc = "mark" /\ install[r].pc = "upsert" /\ x.ver = install[r].ver
                                               /\ k = code[r] /\ Upsert(k, r))
    PROVE  IInv'
<1> DEFINE y == [rows[k] EXCEPT !.url = r]
<1>1. k \in Keys /\ rows[k] \in RowState
  BY KeysOwned DEF IInv, TypeOK
<1>2. /\ y \in RowState /\ y.url = r /\ y.installed = rows[k].installed /\ y.ref = rows[k].ref
  BY <1>1 DEF RowState
<1>3. Upsert(k, r) => rows' = [rows EXCEPT ![k] = y]
  BY <1>1 DEF Upsert, IInv, TypeOK
<1>4. Upsert(k, r) => rows'[k] = y
  BY <1>1, <1>3 DEF IInv, TypeOK
<1> HIDE DEF y
<1>5. rows' \in [Keys -> RowState] /\ \A l \in Keys \ {k} : rows'[l] = rows[l]
  BY <1>1, <1>2, <1>3 DEF IInv, TypeOK
<1>6. TypeOK'
  BY <1>5 DEF IInv, TypeOK
<1>7. /\ rows'[k].installed = rows[k].installed /\ rows'[k].ref = rows[k].ref
      /\ rows'[k].url = rows[k].url \/ rows'[k].url = r
  BY <1>1, <1>2, <1>4
<1>8. rows[k].installed # 0 =>
        /\ rows[k].ref \in built /\ rows[k].ref.repo = rows[k].url /\ rows[k].ref.ver = rows[k].installed
        /\ <<rows[k].url, rows[k].installed>> \in dirs /\ k \in KeysOf(rows[k].url)
        /\ switches = 0 => rows[k].ref.kind = "binary"
  BY <1>1 DEF IInv, RowInv, InstalledIsBuilt
<1>9. rows[k].installed # 0 => rows[k].url = r
  <2>1. built \subseteq Artifacts
    BY DEF IInv, TypeOK
  <2>2. rows[k].installed # 0 => rows[k].url \in Repos
    BY <1>8, <2>1 DEF Artifacts
  <2> QED
    BY <1>8, <2>2, KeysOwned DEF IInv
<1>10. InstallOK(r)'
  <2>1. install'[r] = x
    BY DEF IInv, TypeOK
  <2>2. CASE x.pc \in {"none", "markfail"}
    BY <2>1, <2>2 DEF InstallOK
  <2>3. CASE x.pc = "mark"
    <3>1. rows'[code[r]].url = r
      BY <1>2, <1>4, <2>3
    <3>2. <<r, x.ver>> \in dirs /\ NewArtifact(r) \in built
      BY <2>3, InstallType DEF InstallOK
    <3>3. NewArtifact(r)' = NewArtifact(r)
      BY <2>1, <2>3 DEF NewArtifact
    <3> QED
      BY <2>1, <3>1, <3>2, <3>3 DEF InstallOK
  <2> QED
    BY <2>2, <2>3
<1> QED
  BY <1>5, <1>6, <1>7, <1>8, <1>9, <1>10, InstallStepKeeps

LEMMA UpsertInstalledKeeps == ASSUME IInv, NEW r \in Repos, UpsertInstalled(r) PROVE IInv'
<1>1. /\ install[r].pc = "upsert" /\ faults' \in 0..MaxFaults
      /\ UNCHANGED <<code, released, mode, dirs, built, syncer, job, temp, stats, due, switches, crashes>>
      /\ \/ Upsert(code[r], r) /\ install' = [install EXCEPT ![r].pc = "mark"]
         \/ UNCHANGED rows /\ install' = [install EXCEPT ![r] = NoInstall]
  BY FaultType DEF UpsertInstalled, Goto, EndInstall, env, disk, statJobs, builds, IInv
<1>2. code[r] \in KeysOf(r) /\ NoInstall \in InstallState /\ NoInstall.pc = "none"
  BY KeysOwned, EmptyTypes DEF IInv
<1>3. CASE UNCHANGED rows /\ install' = [install EXCEPT ![r] = NoInstall]
  BY <1>1, <1>2, <1>3, UpsertKeeps
<1>4. CASE Upsert(code[r], r) /\ install' = [install EXCEPT ![r].pc = "mark"]
  <2> DEFINE x == [pc |-> "mark", ver |-> install[r].ver]
  <2>1. x \in InstallState /\ install' = [install EXCEPT ![r] = x] /\ x.pc = "mark" /\ x.ver = install[r].ver
    BY <1>1, <1>4, InstallType DEF IInv, TypeOK
  <2> HIDE DEF x
  <2> QED
    BY <1>1, <1>2, <1>4, <2>1, UpsertKeeps
<1> QED
  BY <1>1, <1>3, <1>4

LEMMA UpsertFailedKeeps == ASSUME IInv, NEW r \in Repos, UpsertFailed(r) PROVE IInv'
<1> DEFINE x == [pc |-> "markfail", ver |-> install[r].ver]
<1>1. /\ install[r].pc = "fail" /\ faults' \in 0..MaxFaults
      /\ UNCHANGED <<code, released, mode, dirs, built, syncer, job, temp, stats, due, switches, crashes>>
      /\ Upsert(Name[r], r) \/ UNCHANGED rows
      /\ install' = [install EXCEPT ![r].pc = "markfail"]
  BY FaultType DEF UpsertFailed, Goto, env, disk, statJobs, builds, IInv
<1>2. x \in InstallState /\ install' = [install EXCEPT ![r] = x] /\ x.pc = "markfail" /\ x.ver = install[r].ver
  BY <1>1, InstallType DEF IInv, TypeOK
<1>3. Name[r] \in KeysOf(r)
  BY KeysOwned DEF IInv
<1> HIDE DEF x
<1> QED
  BY <1>1, <1>2, <1>3, UpsertKeeps

\* MarkSuccess records what was cloned and built.
LEMMA RecordSuccessKeeps == ASSUME IInv, NEW r \in Repos, RecordSuccess(r) PROVE IInv'
<1> DEFINE k == code[r]
           art == NewArtifact(r)
           y == [rows[k] EXCEPT !.installed = art.ver, !.attempted = art.ver, !.ref = art, !.failed = FALSE]
<1>1. /\ install[r].pc = "mark" /\ faults' \in 0..MaxFaults
      /\ UNCHANGED <<code, released, mode, dirs, built, syncer, job, temp, due, switches, crashes>>
      /\ install' = [install EXCEPT ![r] = NoInstall]
      /\ MarkSuccess(k, art) \/ UNCHANGED rows
      /\ stats' \in {stats, stats \cup {[by |-> "install", key |-> k, art |-> NoArtifact]}}
  BY FaultType DEF RecordSuccess, EndInstall, env, disk, builds, IInv
<1>2. /\ install[r].ver \in Versions /\ art \in Artifacts /\ art \in built /\ <<r, install[r].ver>> \in dirs
      /\ rows[k].url = r
  BY <1>1, InstallType DEF InstallOK
<1>3. art.ver = install[r].ver /\ art.repo = r /\ art.kind = ExpectedKind(mode)
  BY DEF NewArtifact
<1>4. k \in Keys /\ k \in KeysOf(r) /\ rows[k] \in RowState
  BY KeysOwned DEF IInv, TypeOK
<1> HIDE DEF art
<1>5. y \in RowState /\ y.url = r /\ y.installed = art.ver /\ y.ref = art
  BY <1>2, <1>3, <1>4, Bounds DEF RowState
<1>6. MarkSuccess(k, art) => rows' = [rows EXCEPT ![k] = y]
  BY <1>4 DEF MarkSuccess, IInv, TypeOK
<1> HIDE DEF y
<1>7. /\ rows' \in [Keys -> RowState] /\ \A l \in Keys \ {k} : rows'[l] = rows[l]
      /\ rows'[k] = y \/ rows'[k] = rows[k]
  BY <1>1, <1>4, <1>5, <1>6 DEF IInv, TypeOK
<1>8. stats' \subseteq StatsJobs
  <2>1. [by |-> "install", key |-> k, art |-> NoArtifact] \in StatsJobs
    BY <1>4 DEF StatsJobs
  <2> QED
    BY <1>1, <2>1 DEF IInv, TypeOK
<1>9. NoInstall \in InstallState /\ NoInstall.pc = "none" /\ install'[r] = NoInstall
  BY <1>1, EmptyTypes DEF IInv, TypeOK
<1>10. TypeOK'
  BY <1>1, <1>7, <1>8, <1>9 DEF IInv, TypeOK
<1>11. InstallOK(r)'
  BY <1>9 DEF InstallOK
<1>12. switches = 0 => art.kind = "binary"
  BY <1>3 DEF IInv, ModeInv, ExpectedKind
<1>13. rows'[k].url = r
  BY <1>2, <1>5, <1>7
<1>14. rows'[k].installed # 0 =>
               /\ rows'[k].ref \in built'
               /\ rows'[k].ref.repo = rows'[k].url
               /\ rows'[k].ref.ver = rows'[k].installed
               /\ <<rows'[k].url, rows'[k].installed>> \in dirs'
               /\ k \in KeysOf(rows'[k].url)
               /\ switches = 0 => rows'[k].ref.kind = "binary"
  <2>1. CASE rows'[k] = y
    BY <1>1, <1>2, <1>3, <1>4, <1>5, <1>12, <1>13, <2>1
  <2>2. CASE rows'[k] = rows[k]
    BY <1>1, <1>4, <2>2 DEF IInv, RowInv, InstalledIsBuilt
  <2> QED
    BY <1>7, <2>1, <2>2
<1> QED
  BY <1>1, <1>4, <1>7, <1>9, <1>10, <1>11, <1>13, <1>14, InstallStepKeeps

LEMMA RecordFailureKeeps == ASSUME IInv, NEW r \in Repos, RecordFailure(r) PROVE IInv'
<1> DEFINE k == Name[r]
           v == install[r].ver
           y == [rows[k] EXCEPT !.attempted = v, !.failed = TRUE]
<1>1. /\ install[r].pc = "markfail" /\ faults' \in 0..MaxFaults
      /\ UNCHANGED <<code, released, mode, dirs, built, syncer, job, temp, stats, due, switches, crashes>>
      /\ install' = [install EXCEPT ![r] = NoInstall]
      /\ MarkFailure(k, v) \/ UNCHANGED rows
  BY FaultType DEF RecordFailure, EndInstall, env, disk, statJobs, builds, IInv
<1>2. v \in 0..MaxVer /\ k \in Keys /\ k \in KeysOf(r) /\ rows[k] \in RowState
  BY <1>1, InstallType, KeysOwned, Bounds DEF IInv, TypeOK
<1>3. y \in RowState /\ y.url = rows[k].url /\ y.installed = rows[k].installed /\ y.ref = rows[k].ref
  BY <1>2 DEF RowState
<1>4. rows' = rows \/ rows' = [rows EXCEPT ![k] = y]
  BY <1>1, <1>2 DEF MarkFailure, IInv, TypeOK
<1> HIDE DEF y
<1>5. /\ rows' \in [Keys -> RowState] /\ \A l \in Keys \ {k} : rows'[l] = rows[l]
      /\ rows'[k].url = rows[k].url /\ rows'[k].installed = rows[k].installed /\ rows'[k].ref = rows[k].ref
  BY <1>2, <1>3, <1>4 DEF IInv, TypeOK
<1>6. NoInstall \in InstallState /\ NoInstall.pc = "none" /\ install'[r] = NoInstall
  BY <1>1, EmptyTypes DEF IInv, TypeOK
<1>7. TypeOK'
  BY <1>1, <1>5, <1>6 DEF IInv, TypeOK
<1>8. InstallOK(r)'
  BY <1>6 DEF InstallOK
<1>9. rows'[k].installed # 0 =>
               /\ rows'[k].ref \in built'
               /\ rows'[k].ref.repo = rows'[k].url
               /\ rows'[k].ref.ver = rows'[k].installed
               /\ <<rows'[k].url, rows'[k].installed>> \in dirs'
               /\ k \in KeysOf(rows'[k].url)
               /\ switches = 0 => rows'[k].ref.kind = "binary"
  BY <1>1, <1>2, <1>5 DEF IInv, RowInv, InstalledIsBuilt
<1> QED
  BY <1>1, <1>2, <1>5, <1>6, <1>7, <1>8, <1>9, InstallStepKeeps

-----------------------------------------------------------------------------
(* Requests. *)

LEMMA JobType ==
    ASSUME IInv, NEW j \in Jobs
    PROVE  /\ job[j] \in JobState
           /\ job[j].pc # "none" =>
                job[j] \in [pc : {"lookup", "ephemeral", "run"}, repo : Repos, ver : 0..MaxVer,
                            art : Artifacts \cup {NoArtifact}, what : {"backtest", "describe"}]
           /\ NoJob \in JobState /\ NoJob.pc = "none"
BY EmptyTypes DEF IInv, TypeOK, JobState, NoJob

LEMMA BeginKeeps ==
    ASSUME IInv, NEW j \in Jobs, NEW r \in Repos, NEW v \in 0..MaxVer, NEW pc \in {"lookup", "ephemeral"},
           NEW what \in {"backtest", "describe"}, Begin(j, pc, r, v, what),
           pc = "lookup" => v # 0 /\ what = "backtest"
    PROVE  IInv'
<1> DEFINE x == [pc |-> pc, repo |-> r, ver |-> v, art |-> NoArtifact, what |-> what]
<1>1. /\ job' = [job EXCEPT ![j] = x] /\ temp' = IF pc = "ephemeral" THEN temp \cup {j} ELSE temp
      /\ UNCHANGED <<code, released, mode, rows, dirs, built, syncer, install, stats, due, crashes, switches, faults>>
  BY DEF Begin, env, disk, sync, statJobs
<1>2. x \in JobState /\ x.pc = pc /\ x.ver = v /\ x.what = what
  BY DEF JobState
<1> HIDE DEF x
<1>3. TypeOK'
  BY <1>1, <1>2 DEF IInv, TypeOK
<1> QED
  BY <1>1, <1>2, <1>3, JobStepKeeps

LEMMA ResolveKeeps ==
    ASSUME IInv, NEW j \in Jobs, NEW r \in Repos, NEW v \in 0..MaxVer, Resolve(j, r, v)
    PROVE  IInv'
<1>1. CASE v = 0
  BY <1>1, BeginKeeps DEF Resolve
<1>2. CASE v # 0
  BY <1>2, BeginKeeps DEF Resolve
<1> QED
  BY <1>1, <1>2

LEMMA DescribeKeeps == ASSUME IInv, NEW j \in Jobs, NEW r \in Repos, Describe(j, r) PROVE IInv'
BY Bounds, BeginKeeps DEF Describe

\* A request that is over, with or without its directory.
LEMMA EndJobKeeps ==
    ASSUME IInv, NEW j \in Jobs, job' = [job EXCEPT ![j] = NoJob], temp' \in {temp, temp \ {j}},
           UNCHANGED <<code, released, mode, rows, dirs, built, syncer, install, stats, due, crashes, switches>>,
           faults' \in 0..MaxFaults
    PROVE  IInv'
<1>1. NoJob \in JobState /\ NoJob.pc = "none"
  BY EmptyTypes
<1>2. TypeOK'
  BY <1>1 DEF IInv, TypeOK
<1> QED
  BY <1>1, <1>2, JobStepKeeps

LEMMA LookupKeeps == ASSUME IInv, NEW j \in Jobs, Lookup(j) PROVE IInv'
<1>1. /\ job[j].pc = "lookup" /\ faults' \in 0..MaxFaults
      /\ UNCHANGED <<code, released, mode, rows, dirs, built, syncer, install, stats, due, crashes, switches>>
  BY FaultType DEF Lookup, env, disk, sync, statJobs, IInv
<1>2. /\ job[j] \in [pc : {"lookup", "ephemeral", "run"}, repo : Repos, ver : 0..MaxVer,
                     art : Artifacts \cup {NoArtifact}, what : {"backtest", "describe"}]
      /\ job[j].ver # 0 /\ job[j].what = "backtest"
  BY <1>1, JobType DEF IInv, JobInv
<1>3. CASE job' = [job EXCEPT ![j] = NoJob] /\ UNCHANGED temp
  BY <1>1, <1>3, EndJobKeeps
<1>4. CASE job' = [job EXCEPT ![j].pc = "ephemeral"] /\ temp' = temp \cup {j}
  <2> DEFINE x == [job[j] EXCEPT !.pc = "ephemeral"]
  <2>1. job' = [job EXCEPT ![j] = x]
    BY <1>4 DEF IInv, TypeOK
  <2>2. x \in JobState /\ x.pc = "ephemeral"
    BY <1>2 DEF JobState
  <2> HIDE DEF x
  <2>3. TypeOK'
    BY <1>1, <1>4, <2>1, <2>2 DEF IInv, TypeOK
  <2> QED
    BY <1>1, <1>4, <2>1, <2>2, <2>3, JobStepKeeps
<1>5. ASSUME NEW k \in LookupArtifact(job[j].repo, job[j].ver), UNCHANGED temp,
             job' = [job EXCEPT ![j].pc = "run", ![j].art = rows[k].ref]
      PROVE  IInv'
  <2> DEFINE x == [job[j] EXCEPT !.pc = "run", !.art = rows[k].ref]
  <2>1. k \in Keys /\ rows[k].url = job[j].repo /\ rows[k].installed = job[j].ver
    BY DEF LookupArtifact, RowsOf
  <2>2. /\ rows[k].ref \in built /\ rows[k].ref.repo = job[j].repo /\ rows[k].ref.ver = job[j].ver
        /\ switches = 0 => rows[k].ref.kind = "binary"
    BY <1>2, <2>1 DEF IInv, InstalledIsBuilt, RowInv
  <2>3. rows[k].ref \in Artifacts
    BY <2>2 DEF IInv, TypeOK
  <2>4. job' = [job EXCEPT ![j] = x]
    BY <1>5 DEF IInv, TypeOK
  <2>5. /\ x \in JobState /\ x.pc = "run" /\ x.art = rows[k].ref /\ x.repo = job[j].repo /\ x.ver = job[j].ver
        /\ x.what = job[j].what
    BY <1>2, <2>3 DEF JobState
  <2>6. switches = 0 => ExpectedKind(mode) = "binary"
    BY DEF IInv, ModeInv, ExpectedKind
  <2> HIDE DEF x
  <2>7. TypeOK'
    BY <1>1, <1>5, <2>4, <2>5 DEF IInv, TypeOK
  <2>8. /\ x.art.repo = x.repo /\ (x.ver # 0 => x.art.ver = x.ver) /\ x.art \in built
        /\ switches = 0 => x.art.kind = IF x.what = "describe" THEN "binary" ELSE ExpectedKind(mode)
    BY <1>2, <2>2, <2>5, <2>6
  <2>9. /\ x \in JobState /\ x.pc = "run" /\ job' = [job EXCEPT ![j] = x]
        /\ \A i \in Jobs \ {j} : i \in temp' <=> i \in temp
    BY <1>5, <2>4, <2>5
  <2> QED
    BY <1>1, <2>7, <2>8, <2>9, JobStepKeeps
<1> QED
  BY <1>3, <1>4, <1>5 DEF Lookup

LEMMA BuiltKeeps ==
    ASSUME IInv, NEW j \in Jobs, job[j].pc = "ephemeral", Built(j, JobKind(j)), UNCHANGED temp,
           UNCHANGED <<code, released, mode, rows, dirs, built, syncer, install, stats, due, crashes, switches>>,
           faults' \in 0..MaxFaults
    PROVE  IInv'
<1> DEFINE r == job[j].repo
           art == [kind |-> JobKind(j), repo |-> r,
                   ver |-> IF job[j].ver = 0 THEN released[r] ELSE job[j].ver]
           x == [job[j] EXCEPT !.pc = "run", !.art = art]
<1>1. /\ job[j] \in [pc : {"lookup", "ephemeral", "run"}, repo : Repos, ver : 0..MaxVer,
                     art : Artifacts \cup {NoArtifact}, what : {"backtest", "describe"}]
      /\ j \in temp
  BY JobType DEF IInv, JobInv
<1>2. JobKind(j) \in Kinds
  BY DEF JobKind, ExpectedKind, Kinds
<1>3. (IF job[j].ver = 0 THEN released[r] ELSE job[j].ver) \in Versions
  BY <1>1, Bounds DEF IInv, TypeOK
<1>4. art \in Artifacts /\ art.repo = r /\ art.kind = JobKind(j) /\ (job[j].ver # 0 => art.ver = job[j].ver)
  BY <1>1, <1>2, <1>3 DEF Artifacts
<1>5. job' = [job EXCEPT ![j] = x]
  BY DEF Built, IInv, TypeOK
<1> HIDE DEF art
<1>6. /\ x \in JobState /\ x.pc = "run" /\ x.art = art /\ x.repo = r /\ x.ver = job[j].ver
      /\ x.what = job[j].what
  BY <1>1, <1>4 DEF JobState
<1> HIDE DEF x
<1>7. TypeOK'
  BY <1>5, <1>6 DEF IInv, TypeOK
<1>8. art.kind = IF x.what = "describe" THEN "binary" ELSE ExpectedKind(mode)
  BY <1>4, <1>6 DEF JobKind
<1> QED
  BY <1>1, <1>4, <1>5, <1>6, <1>7, <1>8, JobStepKeeps

LEMMA EphemeralKeeps ==
    ASSUME IInv, NEW j \in Jobs, EphemeralBuild(j) \/ EphemeralImageBuild(j)
    PROVE  IInv'
<1>1. /\ job[j].pc = "ephemeral" /\ faults' \in 0..MaxFaults
      /\ UNCHANGED <<code, released, mode, rows, dirs, built, syncer, install, stats, due, crashes, switches>>
      /\ \/ Built(j, JobKind(j)) /\ UNCHANGED temp
         \/ job' = [job EXCEPT ![j] = NoJob] /\ temp' = temp \ {j}
  BY FaultType DEF EphemeralBuild, EphemeralImageBuild, env, disk, sync, statJobs, IInv
<1> QED
  BY <1>1, BuiltKeeps, EndJobKeeps

LEMMA FinishKeeps == ASSUME IInv, NEW j \in Jobs, Finish(j) PROVE IInv'
<1>1. faults \in 0..MaxFaults
  BY DEF IInv, TypeOK
<1> QED
  BY <1>1, EndJobKeeps DEF Finish, env, disk, sync, statJobs

-----------------------------------------------------------------------------
(* The process dies; the table and the disk stay. *)

LEMMA RestartKeeps == ASSUME IInv, Restart PROVE IInv'
<1> USE DEF IInv
<1>1. /\ crashes' = crashes + 1 /\ crashes < MaxCrashes
      /\ \/ UNCHANGED <<mode, switches>>
         \/ switches < MaxSwitches /\ switches' = switches + 1 /\ mode' \in Modes
      /\ syncer' = Idle /\ install' = [r \in Repos |-> NoInstall] /\ job' = [j \in Jobs |-> NoJob]
      /\ stats' = {} /\ due' = {} /\ temp' = {}
      /\ UNCHANGED <<dirs, built, code, released, rows, faults>>
  BY DEF Restart, disk
<1>2. crashes' \in 0..MaxCrashes /\ switches' \in 0..MaxSwitches /\ mode' \in Modes
  BY <1>1, Bounds DEF TypeOK
<1>3. (switches' = switches /\ mode' = mode) \/ switches' # 0
  BY <1>1, Bounds DEF TypeOK
<1>4. TypeOK'
  BY <1>1, <1>2, EmptyTypes DEF TypeOK
<1>5. InstallInv' /\ JobInv' /\ ResolvedIsPinned'
  BY <1>1, EmptyTypes DEF InstallInv, InstallOK, JobInv, ResolvedIsPinned
<1>6. RowInv' /\ ModeInv' /\ InstalledIsBuilt'
  BY <1>1, <1>3 DEF RowInv, ModeInv, InstalledIsBuilt
<1> QED
  BY <1>4, <1>5, <1>6

-----------------------------------------------------------------------------
(* The theorems. *)

LEMMA InitEstablishes == Init => IInv
<1> SUFFICES ASSUME Init PROVE IInv
  OBVIOUS
<1> USE DEF Init
<1>1. released \in [Repos -> Versions]
  BY Bounds
<1>2. TypeOK
  BY <1>1, Bounds, EmptyTypes DEF TypeOK, Modes
<1>3. InstallInv /\ JobInv /\ ResolvedIsPinned
  BY EmptyTypes DEF InstallInv, InstallOK, JobInv, ResolvedIsPinned
<1>4. RowInv /\ ModeInv /\ InstalledIsBuilt
  BY EmptyTypes DEF RowInv, ModeInv, InstalledIsBuilt
<1> QED
  BY <1>2, <1>3, <1>4 DEF IInv

LEMMA NextKeeps == IInv /\ [Next]_vars => IInv'
<1> SUFFICES ASSUME IInv, [Next]_vars PROVE IInv'
  OBVIOUS
<1>1. ASSUME NEW r \in Repos, Release(r) \/ InstallStep(r) PROVE IInv'
  BY <1>1, ReleaseKeeps, CloneKeeps, BuildKeeps, UpsertInstalledKeeps, RecordSuccessKeeps,
     UpsertFailedKeeps, RecordFailureKeeps DEF InstallStep, HostInstall, DockerInstall, Record
<1>2. CASE SyncStep
  BY <1>2, SyncStepKeeps, StartInstallKeeps DEF SyncStep, InspectOne, DispatchStep
<1>3. CASE StatsStep
  BY <1>3, StartStatsKeeps, FinishStatsKeeps DEF StatsStep, StatsStart, StatsRun
<1>4. CASE RefreshStep
  BY <1>4, ListDueKeeps, RefreshOneKeeps DEF RefreshStep
<1>5. CASE Midnight \/ Restart
  BY <1>5, MidnightKeeps, RestartKeeps
<1>6. ASSUME NEW j \in Jobs, JobStep(j) PROVE IInv'
  BY <1>6, LookupKeeps, EphemeralKeeps, FinishKeeps DEF JobStep
<1>7. ASSUME NEW j \in Jobs, NEW r \in Repos, Describe(j, r) \/ \E v \in 0..MaxVer : Resolve(j, r, v)
      PROVE  IInv'
  BY <1>7, DescribeKeeps, ResolveKeeps
<1>8. CASE UNCHANGED vars
  BY <1>8 DEF vars, IInv, TypeOK, InstallInv, InstallOK, NewArtifact, RowInv, ModeInv, JobInv,
              InstalledIsBuilt, ResolvedIsPinned, JobKind
<1> QED
  BY <1>1, <1>2, <1>3, <1>4, <1>5, <1>6, <1>7, <1>8 DEF Next

\* The inductive invariant of the registry holds in every state of every behaviour.
THEOREM Invariance == Spec => []IInv
BY InitEstablishes, NextKeeps, PTL DEF Spec

\* Every variable keeps its type.
THEOREM TypeCorrect == Spec => []TypeOK
<1>1. IInv => TypeOK
  BY DEF IInv
<1> QED
  BY <1>1, Invariance, PTL

\* What a row of strategies says is installed was built from the row's repository at
\* the row's version, whatever installs, failures, lost acknowledgements, restarts
\* and changes of runner.mode do to one another.
THEOREM InstalledIsBuiltHolds == Spec => []InstalledIsBuilt
<1>1. IInv => InstalledIsBuilt
  BY DEF IInv
<1> QED
  BY <1>1, Invariance, PTL

\* A backtest executes an existing artifact of the repository and the version its
\* portfolio is pinned at, and while runner.mode is unchanged one its runner can
\* execute.
THEOREM ResolvedIsPinnedHolds == Spec => []ResolvedIsPinned
<1>1. IInv => ResolvedIsPinned
  BY DEF IInv
<1> QED
  BY <1>1, Invariance, PTL

-----------------------------------------------------------------------------
(* Installed versions only advance. *)

\* What most steps do to the rows and to the installs.
RowsKept ==
    \A k \in Keys : /\ rows'[k].installed = rows[k].installed
                    /\ rows[k].installed # 0 => rows'[k].url = rows[k].url
InstallsKept ==
    \A r \in Repos : \/ install'[r] = NoInstall
                     \/ install[r].pc # "none" /\ install'[r].ver = install[r].ver
                     \/ install'[r] = install[r]

LEMMA OrderTypes ==
    ASSUME TypeOK
    PROVE  /\ \A r \in Repos : released[r] \in Nat /\ syncer.jobs[r] \in Nat /\ install[r].ver \in Nat
           /\ \A k \in Keys : rows[k].installed \in Nat
<1>1. \A r \in Repos : released[r] \in Nat /\ syncer.jobs[r] \in Nat
  BY Bounds DEF TypeOK, SyncState, Versions
<1>2. \A r \in Repos : install[r].ver \in Nat
  BY Bounds DEF TypeOK, InstallState, NoInstall, Versions
<1>3. \A k \in Keys : rows[k].installed \in Nat
  BY Bounds DEF TypeOK, RowState
<1> QED
  BY <1>1, <1>2, <1>3

LEMMA OrderKeeps ==
    ASSUME TypeOK, TypeOK', OrderInv, RowsKept, InstallsKept, UNCHANGED <<released, syncer>>
    PROVE  OrderInv'
<1> SUFFICES ASSUME NEW r \in Repos PROVE OrderOK(r)'
  BY DEF OrderInv
<1>1. OrderOK(r)
  BY DEF OrderInv
<1>2. \/ install'[r].pc = "none" /\ install'[r].ver = 0
      \/ install[r].pc # "none" /\ install'[r].ver = install[r].ver
      \/ install'[r] = install[r]
  BY DEF InstallsKept, NoInstall
<1>3. /\ syncer'.jobs[r] <= released'[r] /\ install'[r].ver <= released'[r]
      /\ syncer'.jobs[r] # 0 => install'[r].pc = "none"
      /\ install'[r].pc # "none" => syncer'.pc = "listing" /\ syncer'.todo = {}
  BY <1>1, <1>2, OrderTypes DEF OrderOK
<1>4. ASSUME NEW k \in Keys, rows'[k].url = r
      PROVE  /\ rows'[k].installed <= released'[r]
             /\ syncer'.jobs[r] # 0 => rows'[k].installed <= syncer'.jobs[r]
             /\ install'[r].pc # "none" => rows'[k].installed <= install'[r].ver
  <2>1. CASE rows[k].installed = 0
    <3>1. rows'[k].installed = 0 /\ install'[r].ver \in Nat
      BY <2>1, OrderTypes DEF RowsKept, TypeOK, InstallState, NoInstall, Versions
    <3> QED
      BY <3>1, OrderTypes
  <2>2. CASE rows[k].installed # 0
    <3>1. rows'[k].installed = rows[k].installed /\ k \in RowsOf(r)
      BY <1>4, <2>2 DEF RowsKept, RowsOf
    <3> QED
      BY <1>1, <1>2, <3>1 DEF OrderOK
  <2> QED
    BY <2>1, <2>2
<1> QED
  BY <1>3, <1>4 DEF OrderOK, RowsOf

\* Upsert leaves an installed row with its repository.
LEMMA UpsertRows ==
    ASSUME IInv, NEW r \in Repos, NEW k \in KeysOf(r), Upsert(k, r) PROVE RowsKept
<1>1. k \in Keys /\ rows \in [Keys -> RowState] /\ built \subseteq Artifacts
  BY KeysOwned DEF IInv, TypeOK
<1>2. /\ \A l \in Keys : rows'[l].installed = rows[l].installed
      /\ \A l \in Keys \ {k} : rows'[l].url = rows[l].url
      /\ rows'[k].url = r
  BY <1>1 DEF Upsert, RowState
<1>3. rows[k].installed # 0 => rows[k].url \in Repos /\ k \in KeysOf(rows[k].url)
  BY <1>1 DEF IInv, InstalledIsBuilt, RowInv, Artifacts
<1>4. rows[k].installed # 0 => rows[k].url = r
  BY <1>3, KeysOwned DEF IInv
<1> QED
  BY <1>2, <1>4 DEF RowsKept

LEMMA SameRows == ASSUME UNCHANGED rows PROVE RowsKept
BY DEF RowsKept

\* MarkFailure leaves installed_ver alone.
LEMMA MarkFailureRows ==
    ASSUME TypeOK, NEW k \in Keys, NEW v, MarkFailure(k, v) PROVE RowsKept
BY DEF TypeOK, MarkFailure, RowsKept, RowState

\* An install that goes on or ends.
LEMMA OneInstall ==
    ASSUME TypeOK, NEW r \in Repos, install[r].pc # "none",
           EndInstall(r) \/ \E pc : Goto(r, pc)
    PROVE  InstallsKept
<1>1. install \in [Repos -> InstallState]
  BY DEF TypeOK
<1>2. CASE EndInstall(r)
  BY <1>1, <1>2 DEF EndInstall, InstallsKept
<1>3. ASSUME NEW pc, Goto(r, pc) PROVE InstallsKept
  <2>1. install'[r].ver = install[r].ver /\ \A s \in Repos \ {r} : install'[s] = install[s]
    BY <1>1, <1>3 DEF Goto, InstallState, NoInstall
  <2> QED
    BY <2>1 DEF InstallsKept
<1> QED
  BY <1>2, <1>3

\* The steps of an install, but for the UPDATE that records a success.
LEMMA OrderInstall ==
    ASSUME IInv, IInv', OrderInv, NEW r \in Repos, InstallStep(r),
           ~(install[r].pc = "mark" /\ MarkSuccess(code[r], NewArtifact(r)))
    PROVE  OrderInv' /\ RowsKept
<1> USE DEF env, disk, statJobs, builds
<1>1. install[r].pc # "none" /\ UNCHANGED <<released, syncer>> /\ TypeOK /\ TypeOK'
  BY DEF InstallStep, HostInstall, DockerInstall, Record, Clone, Build, BuildImage, DescribeImage, UpsertInstalled, RecordSuccess,
     UpsertFailed, RecordFailure, IInv
<1>2. EndInstall(r) \/ \E pc : Goto(r, pc)
  BY DEF InstallStep, HostInstall, DockerInstall, Record, Clone, Build, BuildImage, DescribeImage, UpsertInstalled, RecordSuccess,
     UpsertFailed, RecordFailure
<1>3. \/ UNCHANGED rows \/ Upsert(code[r], r) \/ Upsert(Name[r], r)
      \/ MarkFailure(Name[r], install[r].ver)
  BY DEF InstallStep, HostInstall, DockerInstall, Record, Clone, Build, BuildImage, DescribeImage, UpsertInstalled, RecordSuccess,
     UpsertFailed, RecordFailure
<1>4. /\ code[r] \in KeysOf(r) /\ Name[r] \in KeysOf(r) /\ Name[r] \in Keys
  BY <1>1, KeysOwned
<1>5. RowsKept
  BY <1>1, <1>3, <1>4, SameRows, UpsertRows, MarkFailureRows
<1>6. InstallsKept
  BY <1>1, <1>2, OneInstall
<1> QED
  BY <1>1, <1>5, <1>6, OrderKeeps

\* MarkSuccess records the version of the install, which no row of the
\* repository is ahead of.
LEMMA OrderSuccess ==
    ASSUME IInv, IInv', OrderInv, NEW r \in Repos, RecordSuccess(r),
           MarkSuccess(code[r], NewArtifact(r))
    PROVE  OrderInv' /\ \A k \in Keys : rows[k].installed <= rows'[k].installed
<1> DEFINE c == code[r]
<1>1. /\ install[r].pc = "mark" /\ UNCHANGED <<released, syncer>> /\ TypeOK /\ TypeOK'
      /\ install' = [install EXCEPT ![r] = NoInstall]
  BY DEF RecordSuccess, EndInstall, env, IInv
<1>2. c \in Keys /\ rows[c].url = r /\ rows \in [Keys -> RowState]
  BY <1>1, KeysOwned DEF IInv, InstallInv, InstallOK, TypeOK
<1>3. NewArtifact(r).ver = install[r].ver
  BY DEF NewArtifact
<1>4. /\ rows'[c].installed = install[r].ver
      /\ \A k \in Keys : rows'[k].url = rows[k].url /\ (k # c => rows'[k] = rows[k])
  BY <1>2, <1>3 DEF MarkSuccess, RowState
<1>5. OrderOK(r) /\ c \in RowsOf(r)
  BY <1>2 DEF OrderInv, RowsOf
<1>6. /\ rows[c].installed <= install[r].ver /\ install[r].ver <= released[r] /\ syncer.jobs[r] = 0
  BY <1>1, <1>5 DEF OrderOK
<1>7. \A k \in Keys : rows[k].installed <= rows'[k].installed
  <2>1. \A k \in Keys : rows[k].installed \in Nat
    BY <1>1, OrderTypes
  <2> QED
    BY <1>4, <1>6, <2>1
<1>8. ASSUME NEW s \in Repos PROVE OrderOK(s)'
  <2>1. OrderOK(s) /\ RowsOf(s)' = RowsOf(s)
    BY <1>4 DEF OrderInv, RowsOf
  <2>2. CASE s = r
    <3>1. install'[s].pc = "none" /\ install'[s].ver = 0
      BY <1>1, <2>2 DEF TypeOK, NoInstall
    <3>2. \A k \in RowsOf(s) : rows'[k].installed <= released[s]
      BY <1>4, <1>6, <2>1, <2>2 DEF OrderOK, RowsOf
    <3> QED
      BY <1>1, <1>6, <2>1, <2>2, <3>1, <3>2, OrderTypes DEF OrderOK
  <2>3. CASE s # r
    <3>1. install'[s] = install[s] /\ c \notin RowsOf(s)
      BY <1>1, <1>2, <2>3 DEF TypeOK, RowsOf
    <3>2. \A k \in RowsOf(s) : rows'[k] = rows[k]
      BY <1>4, <3>1 DEF RowsOf
    <3> QED
      BY <1>1, <2>1, <3>1, <3>2 DEF OrderOK
  <2> QED
    BY <2>2, <2>3
<1> QED
  BY <1>7, <1>8 DEF OrderInv

LEMMA OrderRelease ==
    ASSUME IInv, OrderInv, NEW s \in Repos, Release(s) PROVE OrderInv' /\ UNCHANGED rows
<1>1. UNCHANGED <<rows, syncer, install>> /\ \A r \in Repos : released'[r] \in {released[r], released[r] + 1}
  BY DEF Release, sync, IInv, TypeOK
<1>2. TypeOK
  BY DEF IInv
<1>3. ASSUME NEW r \in Repos PROVE OrderOK(r)'
  <2>1. OrderOK(r) /\ RowsOf(r)' = RowsOf(r) /\ RowsOf(r) \subseteq Keys
    BY <1>1 DEF OrderInv, RowsOf
  <2>2. released[r] <= released'[r] /\ released[r] \in Nat /\ released'[r] \in Nat
    BY <1>1, <1>2, OrderTypes
  <2> QED
    BY <1>1, <1>2, <2>1, <2>2, OrderTypes DEF OrderOK
<1> QED
  BY <1>1, <1>3 DEF OrderInv

\* The sync loop: a listing is inspected while no install is under way.
LEMMA OrderSync ==
    ASSUME IInv, OrderInv, SyncStep PROVE OrderInv' /\ UNCHANGED rows
<1> USE DEF env, disk, statJobs, builds
<1>0. TypeOK /\ UNCHANGED <<rows, released>> /\ syncer \in SyncState /\ install \in [Repos -> InstallState]
  BY DEF SyncStep, InspectOne, DispatchStep, BeginTick, EndTick, Inspect, StartInstall, IInv, TypeOK
<1>1. CASE BeginTick
  <2>1. UNCHANGED install /\ syncer'.jobs = syncer.jobs /\ syncer.pc = "idle"
    BY <1>0, <1>1 DEF BeginTick, SyncState
  <2>2. ASSUME NEW r \in Repos PROVE OrderOK(r)'
    <3>1. OrderOK(r) /\ RowsOf(r)' = RowsOf(r)
      BY <1>0 DEF OrderInv, RowsOf
    <3> QED
      BY <1>0, <2>1, <3>1 DEF OrderOK
  <2> QED
    BY <1>0, <2>2 DEF OrderInv
<1>2. CASE EndTick
  <2>1. UNCHANGED install /\ syncer' = Idle /\ \A r \in Repos : install[r].pc = "none"
    BY <1>0, <1>2 DEF EndTick, Active
  <2>2. ASSUME NEW r \in Repos PROVE OrderOK(r)'
    <3>1. OrderOK(r) /\ RowsOf(r)' = RowsOf(r)
      BY <1>0 DEF OrderInv, RowsOf
    <3>2. syncer'.jobs[r] = 0
      BY <2>1 DEF Idle
    <3> QED
      BY <1>0, <2>1, <3>1, <3>2, OrderTypes DEF OrderOK
  <2> QED
    BY <1>0, <2>2 DEF OrderInv
<1>3. ASSUME NEW q \in Repos, Inspect(q) PROVE OrderInv'
  <2>1. UNCHANGED install /\ q \in syncer.todo
    BY <1>3 DEF Inspect
  <2>2. /\ syncer'.jobs[q] \in {0, released[q], syncer.jobs[q]}
        /\ \A r \in Repos \ {q} : syncer'.jobs[r] = syncer.jobs[r]
    <3>1. \/ \E v \in {0, released[q]} :
               syncer' = [syncer EXCEPT !.todo = @ \ {q}, !.jobs[q] = v]
          \/ syncer' = [syncer EXCEPT !.todo = @ \ {q}]
      BY <1>3 DEF Inspect, ResolveVer
    <3>2. syncer.jobs \in [Repos -> 0..MaxVer]
      BY <1>0 DEF SyncState
    <3>3. \/ \E v \in {0, released[q]} : syncer'.jobs = [syncer.jobs EXCEPT ![q] = v]
          \/ syncer'.jobs = syncer.jobs
      BY <1>0, <3>1 DEF SyncState
    <3> QED
      BY <3>2, <3>3
  <2>3. ASSUME NEW r \in Repos PROVE OrderOK(r)'
    <3>1. OrderOK(r) /\ RowsOf(r)' = RowsOf(r) /\ install[r].pc = "none"
      BY <1>0, <2>1 DEF OrderInv, OrderOK, RowsOf
    <3>2. syncer'.jobs[r] \in {0, released[r], syncer.jobs[r]}
      BY <2>2
    <3> QED
      BY <1>0, <2>1, <3>1, <3>2, OrderTypes DEF OrderOK
  <2> QED
    BY <2>3 DEF OrderInv
<1>4. ASSUME NEW q \in Repos, StartInstall(q) PROVE OrderInv'
  <2>1. /\ syncer.jobs[q] # 0 /\ syncer'.jobs = [syncer.jobs EXCEPT ![q] = 0]
        /\ syncer.pc = "listing" /\ syncer.todo = {} /\ syncer'.pc = "listing" /\ syncer'.todo = {}
        /\ install' = [install EXCEPT ![q] = [pc |-> "clone", ver |-> syncer.jobs[q]]]
    BY <1>0, <1>4 DEF StartInstall, SyncState
  <2>2. ASSUME NEW r \in Repos PROVE OrderOK(r)'
    <3>1. OrderOK(r) /\ RowsOf(r)' = RowsOf(r)
      BY <1>0 DEF OrderInv, RowsOf
    <3>2. CASE r = q
      <4>1. syncer'.jobs[r] = 0 /\ install'[r].ver = syncer.jobs[r]
        BY <1>0, <2>1, <3>2 DEF SyncState
      <4> QED
        BY <1>0, <2>1, <3>1, <3>2, <4>1, OrderTypes DEF OrderOK
    <3>3. CASE r # q
      <4>1. syncer'.jobs[r] = syncer.jobs[r] /\ install'[r] = install[r]
        BY <1>0, <2>1, <3>3 DEF SyncState
      <4> QED
        BY <1>0, <2>1, <3>1, <4>1 DEF OrderOK
    <3> QED
      BY <3>2, <3>3
  <2> QED
    BY <2>2 DEF OrderInv
<1> QED
  BY <1>0, <1>1, <1>2, <1>3, <1>4 DEF SyncStep, InspectOne, DispatchStep

LEMMA OrderRestart ==
    ASSUME IInv, OrderInv, Restart PROVE OrderInv' /\ UNCHANGED rows
<1>1. /\ UNCHANGED <<rows, released>> /\ syncer' = Idle /\ TypeOK
      /\ install' = [r \in Repos |-> NoInstall]
  BY DEF Restart, IInv
<1>2. ASSUME NEW r \in Repos PROVE OrderOK(r)'
  <2>1. OrderOK(r) /\ RowsOf(r)' = RowsOf(r)
    BY <1>1 DEF OrderInv, RowsOf
  <2>2. syncer'.jobs[r] = 0 /\ install'[r].pc = "none" /\ install'[r].ver = 0
    BY <1>1 DEF Idle, NoInstall
  <2> QED
    BY <1>1, <2>1, <2>2, OrderTypes DEF OrderOK
<1> QED
  BY <1>1, <1>2 DEF OrderInv

\* Statistics, requests and days leave versions and installs alone.
LEMMA OrderOther ==
    ASSUME IInv, IInv', OrderInv,
           \/ StatsStep \/ RefreshStep \/ Midnight \/ UNCHANGED vars
           \/ \E j \in Jobs : JobStep(j)
           \/ \E j \in Jobs, r \in Repos : Describe(j, r) \/ \E v \in 0..MaxVer : Resolve(j, r, v)
    PROVE  OrderInv' /\ RowsKept
<1> USE DEF env, disk, sync, statJobs, builds
<1>1. UNCHANGED <<released, syncer, install>>
  BY DEF StatsStep, StatsStart, StatsRun, StartStats, FinishStats, RefreshStep, ListDue, RefreshOne, Midnight, vars, JobStep,
     Lookup, EphemeralBuild, EphemeralImageBuild, Finish, Describe, Resolve, Begin
<1>2. RowsKept
  <2>0. rows \in [Keys -> RowState] /\ \A s \in stats : s.key \in Keys
    BY DEF IInv, TypeOK, StatsJobs
  <2>1. CASE Midnight
    BY <2>0, <2>1 DEF Midnight, RowsKept, RowState
  <2>2. ASSUME NEW s \in stats, UpdateStats(s) PROVE RowsKept
    BY <2>0, <2>2 DEF UpdateStats, RowsKept, RowState
  <2>3. Midnight \/ UNCHANGED rows \/ \E s \in stats : UpdateStats(s)
    BY DEF StatsStep, StatsStart, StatsRun, StartStats, FinishStats, RefreshStep, ListDue, RefreshOne, vars, JobStep,
       Lookup, EphemeralBuild, EphemeralImageBuild, Finish, Describe, Resolve, Begin
  <2> QED
    BY <2>1, <2>2, <2>3, SameRows
<1>3. InstallsKept
  BY <1>1 DEF InstallsKept
<1> QED
  BY <1>1, <1>2, <1>3, OrderKeeps DEF IInv

LEMMA OrderInit == Init => OrderInv
<1> SUFFICES ASSUME Init, NEW r \in Repos PROVE OrderOK(r)
  BY DEF OrderInv
<1>1. released[r] = 1 /\ syncer.jobs[r] = 0 /\ install[r].pc = "none" /\ install[r].ver = 0
  BY DEF Init, Idle, NoInstall
<1>2. \A k \in Keys : rows[k].installed = 0
  BY DEF Init, NoRow
<1> QED
  BY <1>1, <1>2 DEF OrderOK, RowsOf

LEMMA OrderNext ==
    ASSUME IInv, OrderInv, [Next]_vars
    PROVE  OrderInv' /\ \A k \in Keys : rows[k].installed <= rows'[k].installed
<1>0. IInv' /\ TypeOK
  BY NextKeeps DEF IInv
<1> DEFINE Goal == OrderInv' /\ \A k \in Keys : rows[k].installed <= rows'[k].installed
<1>1. RowsKept \/ UNCHANGED rows => \A k \in Keys : rows[k].installed <= rows'[k].installed
  BY <1>0, OrderTypes DEF RowsKept
<1>2. ASSUME NEW r \in Repos, InstallStep(r) PROVE Goal
  <2>1. CASE install[r].pc = "mark" /\ MarkSuccess(code[r], NewArtifact(r))
    <3>1. RecordSuccess(r)
      BY <1>2, <2>1 DEF InstallStep, HostInstall, DockerInstall, Record, Clone, Build, BuildImage, DescribeImage, UpsertInstalled,
         UpsertFailed, RecordFailure
    <3> QED
      BY <1>0, <2>1, <3>1, OrderSuccess
  <2>2. CASE ~(install[r].pc = "mark" /\ MarkSuccess(code[r], NewArtifact(r)))
    BY <1>0, <1>1, <1>2, <2>2, OrderInstall
  <2> QED
    BY <2>1, <2>2
<1>3. ASSUME NEW r \in Repos, Release(r) PROVE Goal
  BY <1>1, <1>3, OrderRelease
<1>4. CASE SyncStep
  BY <1>1, <1>4, OrderSync
<1>5. CASE Restart
  BY <1>1, <1>5, OrderRestart
<1>6. CASE \/ StatsStep \/ RefreshStep \/ Midnight \/ UNCHANGED vars
           \/ \E j \in Jobs : JobStep(j)
           \/ \E j \in Jobs, r \in Repos : Describe(j, r) \/ \E v \in 0..MaxVer : Resolve(j, r, v)
  BY <1>0, <1>1, <1>6, OrderOther
<1>7. CASE Next
  BY <1>2, <1>3, <1>4, <1>5, <1>6, <1>7, Zenon DEF Next
<1> QED
  BY <1>6, <1>7

\* The installed version of a row never goes back and is never lost: MarkSuccess
\* writes what its tick resolved, the installs of two ticks do not overlap, and
\* MarkFailure leaves the column alone.
THEOREM InstalledAdvancesHolds == Spec => InstalledAdvances
<1>1. Init => IInv /\ OrderInv
  BY InitEstablishes, OrderInit
<1>2. IInv /\ OrderInv /\ [Next]_vars => (IInv /\ OrderInv)'
  BY NextKeeps, OrderNext
<1>3. IInv /\ OrderInv /\ [Next]_vars =>
        [\A k \in Keys : rows[k].installed <= rows'[k].installed]_vars
  BY OrderNext
<1> QED
  BY <1>1, <1>2, <1>3, PTL DEF Spec, InstalledAdvances
=============================================================================
