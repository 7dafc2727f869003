-------------------------- MODULE StrategyRegistry --------------------------
(***************************************************************************)
(* The registry of official strategies (strategy/, and the resolver of     *)
(* cmd/server.go): the sync loop discovers repositories, installs their    *)
(* latest tag and records the outcome in table strategies; statistics jobs *)
(* run the installed binaries; backtests resolve the artifact of a pinned  *)
(* version and fall back to an ephemeral build.                            *)
(***************************************************************************)
EXTENDS Naturals, FiniteSets

CONSTANTS Repos,        \* clone URLs that discovery lists
          Name,         \* repository name
          ShortCodes,   \* short codes the binaries may report, by repository
          MaxVer,       \* bound: tags a repository gets, in version order
          Concurrency,  \* strategy.install_concurrency
          Jobs,         \* slots for backtests and describe requests
          MaxCrashes, MaxSwitches, MaxFaults   \* bounds on what goes wrong

Versions == 1..MaxVer
KeysOf(r) == {Name[r]} \cup {c[r] : c \in ShortCodes}
Keys == UNION {KeysOf(r) : r \in Repos}

(* Names and short codes of different repositories differ: discovery keeps *)
(* one owner, whose repository names are unique; nothing checks the codes. *)
ASSUME RegistryAssumption ==
    /\ Concurrency \in Nat \ {0}
    /\ MaxVer \in Nat \ {0}
    /\ {MaxCrashes, MaxSwitches, MaxFaults} \subseteq Nat
    /\ \A r, s \in Repos : r # s => KeysOf(r) \cap KeysOf(s) = {}

Modes == {"host", "docker"}
Kinds == {"binary", "image"}
Artifacts == [kind : Kinds, repo : Repos, ver : Versions]
NoArtifact == [kind |-> "none", repo |-> "none", ver |-> 0]

VARIABLES
    code,       \* the short code that describe reports for each repository
    released,   \* latest tag of each repository
    mode,       \* runner.mode of this process
    rows,       \* table strategies, by short_code
    dirs,       \* clone directories <official_dir>/<owner>/<name>/<ver>
    built,      \* installed binaries and image tags that exist
    syncer,     \* the sync loop: place, listings to visit, install queue
    install,    \* the install goroutine of each repository
    stats,      \* statistics jobs in progress
    due,        \* strategies the daily refresh has still to run
    job,        \* backtests and describe requests resolving an artifact
    temp,       \* requests whose ephemeral build directory exists
    crashes, switches, faults

vars == <<code, released, mode, rows, dirs, built, syncer, install, stats, due, job,
          temp, crashes, switches, faults>>

env == <<code, released, mode, crashes, switches>>
disk == <<dirs, built>>
sync == <<syncer, install>>
statJobs == <<stats, due>>
builds == <<job, temp>>

(* A row of table strategies. The version 0 is NULL, artifact_kind is the  *)
(* kind of ref, stats the version whose binary computed the statistics and *)
(* fresh whether stats_as_of is of this UTC day.                           *)
NoRow == [url |-> "none", installed |-> 0, attempted |-> 0, failed |-> FALSE,
          ref |-> NoArtifact, stats |-> 0, fresh |-> FALSE]

RowsOf(r) == {k \in Keys : rows[k].url = r}

(* expectedArtifactKind *)
ExpectedKind(m) == IF m = "docker" THEN "image" ELSE "binary"

Idle == [pc |-> "idle", todo |-> {}, jobs |-> [r \in Repos |-> 0]]
NoInstall == [pc |-> "none", ver |-> 0]
NoJob == [pc |-> "none", repo |-> "none", ver |-> 0, art |-> NoArtifact,
          what |-> "none"]

RowState == [url : Repos \cup {"none"}, installed : 0..MaxVer, attempted : 0..MaxVer,
             failed : BOOLEAN, ref : Artifacts \cup {NoArtifact}, stats : 0..MaxVer,
             fresh : BOOLEAN]
SyncState == [pc : {"idle", "listing"}, todo : SUBSET Repos, jobs : [Repos -> 0..MaxVer]]
InstallState == {NoInstall} \cup
    [pc : {"clone", "build", "describe", "upsert", "mark", "fail", "markfail"}, ver : Versions]
StatsJobs == [by : {"install", "daily"}, key : Keys, art : Artifacts \cup {NoArtifact}]
JobState == {NoJob} \cup
    [pc : {"lookup", "ephemeral", "run"}, repo : Repos, ver : 0..MaxVer,
     art : Artifacts \cup {NoArtifact}, what : {"backtest", "describe"}]

Init ==
    /\ code \in ShortCodes
    /\ released = [r \in Repos |-> 1]
    /\ mode = "host"
    /\ rows = [k \in Keys |-> NoRow]
    /\ dirs = {} /\ built = {} /\ stats = {} /\ due = {} /\ temp = {}
    /\ syncer = Idle
    /\ install = [r \in Repos |-> NoInstall]
    /\ job = [j \in Jobs |-> NoJob]
    /\ crashes = 0 /\ switches = 0 /\ faults = 0

(* A step that may go wrong: an exec, Docker or SQL error.                 *)
Fault == faults < MaxFaults /\ faults' = faults + 1
NoFault == UNCHANGED faults
-----------------------------------------------------------------------------
(* A new tag is pushed to a repository.                                    *)
Release(r) ==
    /\ released[r] < MaxVer
    /\ released' = [released EXCEPT ![r] = @ + 1]
    /\ UNCHANGED <<disk, sync, statJobs, builds, code, mode, rows, crashes,
                   switches, faults>>

-----------------------------------------------------------------------------
(* The sync loop.                                                          *)

BeginTick ==
    /\ syncer.pc = "idle"
    /\ syncer' = [syncer EXCEPT !.pc = "listing", !.todo = Repos]
    /\ UNCHANGED <<env, disk, statJobs, builds, rows, install, faults>>

UpToDate_OlderToo(row, remote) ==
    /\ row.attempted # 0
    /\ row.ref = NoArtifact \/ row.ref.kind = ExpectedKind(mode)

(* ResolveVerWithGit: git ls-remote --sort=-v:refname, the first tag.      *)
ResolveVer(r) == released[r]

(* The test of Tick on the row GetByCloneURL returned.                     *)
UpToDate(row, remote) ==
    /\ row.attempted = remote
    /\ row.ref = NoArtifact \/ row.ref.kind = ExpectedKind(mode)

(* One listing: GetByCloneURL (LIMIT 1 without ORDER BY: any row of the    *)
(* repository), git ls-remote, skip or queue. Only the sync loop writes    *)
(* the columns read here, so the two reads are one step.                   *)
Inspect(r) ==
    /\ syncer.pc = "listing" /\ r \in syncer.todo
    /\ \/ /\ NoFault
          /\ \E row \in IF RowsOf(r) = {} THEN {NoRow}
                        ELSE {rows[k] : k \in RowsOf(r)} :
                syncer' = [syncer EXCEPT
                    !.todo = @ \ {r},
                    !.jobs[r] = IF UpToDate(row, ResolveVer(r))
                                  THEN 0 ELSE ResolveVer(r)]
       \/ /\ Fault
          /\ syncer' = [syncer EXCEPT !.todo = @ \ {r}]
    /\ UNCHANGED <<env, disk, statJobs, builds, rows, install>>

Active == {r \in Repos : install[r].pc # "none"}

(* sem <- struct{}{} and the goroutine of one queued install.              *)
StartInstall(r) ==
    /\ syncer.pc = "listing" /\ syncer.todo = {} /\ syncer.jobs[r] # 0
    /\ Cardinality(Active) < Concurrency
    /\ install' = [install EXCEPT ![r] = [pc |-> "clone", ver |-> syncer.jobs[r]]]
    /\ syncer' = [syncer EXCEPT !.jobs[r] = 0]
    /\ UNCHANGED <<env, disk, statJobs, builds, rows, faults>>

(* wg.Wait: the tick is over when every install has returned.              *)
EndTick ==
    /\ syncer.pc = "listing" /\ syncer.todo = {}
    /\ \A r \in Repos : syncer.jobs[r] = 0
    /\ Active = {}
    /\ syncer' = Idle
    /\ UNCHANGED <<env, disk, statJobs, builds, rows, install, faults>>

-----------------------------------------------------------------------------
(* One install: Install or InstallDocker, then the row.                    *)

Goto(r, pc) == install' = [install EXCEPT ![r].pc = pc]
EndInstall(r) == install' = [install EXCEPT ![r] = NoInstall]

(* git clone refuses a directory that exists and is not empty. A clone     *)
(* that fails removes what it created, one that is killed does not.        *)
Clone(r) ==
    LET dest == <<r, install[r].ver>> IN
    /\ install[r].pc = "clone"
    /\ \/ /\ NoFault /\ dest \notin dirs
          /\ dirs' = dirs \cup {dest} /\ Goto(r, "build")
       \/ /\ NoFault /\ dest \in dirs
          /\ Goto(r, "fail") /\ UNCHANGED dirs
       \/ /\ Fault /\ dirs' \in {dirs, dirs \cup {dest}} /\ Goto(r, "fail")
    /\ UNCHANGED <<env, statJobs, builds, rows, built, syncer>>

NewArtifact(r) ==
    [kind |-> ExpectedKind(mode), repo |-> r, ver |-> install[r].ver]

(* Install: go build and describe --json, then the rename of strategy.bin  *)
(* to <short code>.bin, the name the row gets.                             *)
Build(r) ==
    /\ install[r].pc = "build" /\ mode = "host"
    /\ \/ NoFault /\ built' = built \cup {NewArtifact(r)} /\ Goto(r, "upsert")
       \/ Fault /\ Goto(r, "fail") /\ UNCHANGED built
    /\ UNCHANGED <<env, statJobs, builds, rows, dirs, syncer>>

(* InstallDocker: the daemon builds the directory and tags the image,      *)
(* possibly without us getting to know ...                                 *)
BuildImage(r) ==
    /\ install[r].pc = "build" /\ mode = "docker"
    /\ \/ NoFault /\ built' = built \cup {NewArtifact(r)} /\ Goto(r, "describe")
       \/ Fault /\ built' \in {built, built \cup {NewArtifact(r)}} /\ Goto(r, "fail")
    /\ UNCHANGED <<env, statJobs, builds, rows, dirs, syncer>>

(* ... and a container of it is asked for the short code. An image that    *)
(* cannot answer stays.                                                    *)
DescribeImage(r) ==
    /\ install[r].pc = "describe"
    /\ \/ NoFault /\ Goto(r, "upsert")
       \/ Fault /\ Goto(r, "fail")
    /\ UNCHANGED <<env, disk, statJobs, builds, rows, syncer>>

(* INSERT ... ON CONFLICT (short_code) DO UPDATE SET clone_url ...         *)
Upsert(k, r) == rows' = [rows EXCEPT ![k].url = r]

UpsertInstalled(r) ==
    /\ install[r].pc = "upsert"
    /\ \/ NoFault /\ Upsert(code[r], r) /\ Goto(r, "mark")
       \/ Fault /\ EndInstall(r) /\ UNCHANGED rows
    /\ UNCHANGED <<env, disk, statJobs, builds, syncer>>

MarkSuccess(k, ref) ==
    rows' = [rows EXCEPT ![k].installed = ref.ver, ![k].attempted = ref.ver,
                         ![k].ref = ref, ![k].failed = FALSE]

(* The UPDATE, and on success the goroutine that computes the statistics;  *)
(* an acknowledgement may be lost after the commit. The goroutine of the   *)
(* automatic upgrader belongs to module Portfolios.                        *)
RecordSuccess(r) ==
    /\ install[r].pc = "mark"
    /\ \/ /\ NoFault /\ MarkSuccess(code[r], NewArtifact(r))
          /\ stats' = stats \cup
                {[by |-> "install", key |-> code[r], art |-> NoArtifact]}
       \/ /\ Fault /\ UNCHANGED stats
          /\ MarkSuccess(code[r], NewArtifact(r)) \/ UNCHANGED rows
    /\ EndInstall(r)
    /\ UNCHANGED <<env, disk, builds, syncer, due>>

(* recordFailure: both statements are by repository name and their errors  *)
(* are dropped.                                                            *)
UpsertFailed(r) ==
    /\ install[r].pc = "fail"
    /\ \/ NoFault /\ Upsert(Name[r], r)
       \/ Fault /\ UNCHANGED rows
    /\ Goto(r, "markfail")
    /\ UNCHANGED <<env, disk, statJobs, builds, syncer>>

MarkFailure_SetsInstalled(k, ver) ==
    rows' = [rows EXCEPT ![k].attempted = ver, ![k].installed = ver, ![k].failed = TRUE]

MarkFailure_ClearsInstalled(k, ver) ==
    rows' = [rows EXCEPT ![k].attempted = ver, ![k].installed = 0, ![k].failed = TRUE]

MarkFailure(k, ver) ==
    rows' = IF rows[k].url = "none" THEN rows
            ELSE [rows EXCEPT ![k].attempted = ver, ![k].failed = TRUE]

RecordFailure(r) ==
    /\ install[r].pc = "markfail"
    /\ \/ NoFault /\ MarkFailure(Name[r], install[r].ver)
       \/ Fault /\ UNCHANGED rows
    /\ EndInstall(r)
    /\ UNCHANGED <<env, disk, statJobs, builds, syncer>>

-----------------------------------------------------------------------------
(* Statistics. Jobs in the same state are one element of the set.          *)

(* Midnight UTC: stats_as_of is no longer of today.                        *)
Midnight ==
    /\ rows' = [k \in Keys |-> [rows[k] EXCEPT !.fresh = FALSE]]
    /\ UNCHANGED <<env, disk, sync, statJobs, builds, faults>>

Refreshing == {s \in stats : s.by = "daily"}

ListInstalled == {k \in Keys : rows[k].ref # NoArtifact}

(* RefreshDue: list the installed rows that are not fresh ...              *)
ListDue ==
    /\ due = {} /\ Refreshing = {}
    /\ due' = {k \in ListInstalled : ~rows[k].fresh}
    /\ due' # {}
    /\ UNCHANGED <<env, disk, sync, builds, rows, stats, faults>>

(* RunOne starts with the row of its strategy; images are skipped.         *)
Started(by, k) ==
    IF rows[k].ref.kind = "binary"
      THEN {[by |-> by, key |-> k, art |-> rows[k].ref]} ELSE {}

(* ... and run them one after the other.                                   *)
RefreshOne(k) ==
    /\ k \in due /\ Refreshing = {}
    /\ due' = due \ {k}
    /\ stats' = stats \cup Started("daily", k)
    /\ UNCHANGED <<env, disk, sync, builds, rows, faults>>

(* The goroutine an install left behind.                                   *)
StartStats(s) ==
    /\ s \in stats /\ s.art = NoArtifact
    /\ stats' = (stats \ {s}) \cup Started(s.by, s.key)
    /\ UNCHANGED <<env, disk, sync, builds, rows, due, faults>>

UpdateStats_KeepsAsOf(s) ==
    rows' = [rows EXCEPT ![s.key].stats = IF @ = 0 THEN s.art.ver ELSE @,
                         ![s.key].fresh = TRUE]

(* UPDATE strategies SET cagr ... WHERE short_code: by key, whatever is    *)
(* installed by now.                                                       *)
UpdateStats(s) ==
    rows' = [rows EXCEPT ![s.key].stats = s.art.ver, ![s.key].fresh = TRUE]

(* The run and its UPDATE; MarkStatsError leaves the statistics alone.     *)
FinishStats(s) ==
    /\ s \in stats /\ s.art # NoArtifact
    /\ \/ NoFault /\ UpdateStats(s)
       \/ Fault /\ UNCHANGED rows
    /\ stats' = stats \ {s}
    /\ UNCHANGED <<env, disk, sync, builds, due>>

-----------------------------------------------------------------------------
(* What a backtest executes: the resolver of cmd/server.go.                *)

Begin(j, pc, r, v, what) ==
    /\ job[j].pc = "none"
    /\ job' = [job EXCEPT ![j] = [pc |-> pc, repo |-> r, ver |-> v,
                                  art |-> NoArtifact, what |-> what]]
    /\ temp' = IF pc = "ephemeral" THEN temp \cup {j} ELSE temp
    /\ UNCHANGED <<env, disk, sync, statJobs, rows, faults>>

(* The resolver: a portfolio names a repository and a version it was once  *)
(* installed or upgraded at, or none (an unofficial strategy). Without a   *)
(* version there is nothing to look up and a build directory is made.      *)
Resolve(j, r, v) ==
    /\ v <= released[r]
    /\ Begin(j, IF v = 0 THEN "ephemeral" ELSE "lookup", r, v, "backtest")

(* GET /strategies/describe builds the head of a repository, on the host.  *)
Describe(j, r) == Begin(j, "ephemeral", r, 0, "describe")

LookupArtifact_AnyVersion(r, v) ==
    {k \in RowsOf(r) : rows[k].installed # 0 /\ ~rows[k].failed}

(* The rows LookupArtifact may return.                                     *)
LookupArtifact(r, v) ==
    {k \in RowsOf(r) : rows[k].installed = v /\ ~rows[k].failed}

Lookup(j) ==
    LET found == LookupArtifact(job[j].repo, job[j].ver) IN
    /\ job[j].pc = "lookup"
    /\ \/ /\ NoFault /\ UNCHANGED temp
          /\ \E k \in found :
                job' = [job EXCEPT ![j].pc = "run", ![j].art = rows[k].ref]
       \/ /\ NoFault /\ found = {}
          /\ job' = [job EXCEPT ![j].pc = "ephemeral"]
          /\ temp' = temp \cup {j}
       \/ Fault /\ job' = [job EXCEPT ![j] = NoJob] /\ UNCHANGED temp
    /\ UNCHANGED <<env, disk, sync, statJobs, rows>>

JobKind(j) == IF job[j].what = "describe" THEN "binary" ELSE ExpectedKind(mode)

(* Clone at the pinned version, or at the head, and build.                 *)
Built(j, kind) ==
    job' = [job EXCEPT ![j].pc = "run",
        ![j].art = [kind |-> kind, repo |-> job[j].repo,
                    ver |-> IF job[j].ver = 0 THEN released[job[j].repo]
                            ELSE job[j].ver]]

(* On an error the directory is removed before the builder returns.        *)
EphemeralBuild(j) ==
    /\ job[j].pc = "ephemeral" /\ JobKind(j) = "binary"
    /\ \/ NoFault /\ Built(j, "binary") /\ UNCHANGED temp
       \/ Fault /\ job' = [job EXCEPT ![j] = NoJob] /\ temp' = temp \ {j}
    /\ UNCHANGED <<env, disk, sync, statJobs, rows>>

(* The same with an image under a tag of its own. The tag is left out: an  *)
(* error after the daemon has set it leaves an image behind.               *)
EphemeralImageBuild(j) ==
    /\ job[j].pc = "ephemeral" /\ JobKind(j) = "image"
    /\ \/ NoFault /\ Built(j, "image") /\ UNCHANGED temp
       \/ Fault /\ job' = [job EXCEPT ![j] = NoJob] /\ temp' = temp \ {j}
    /\ UNCHANGED <<env, disk, sync, statJobs, rows>>

(* The artifact has been run, whatever came of it; deferred cleanup.       *)
Finish(j) ==
    /\ job[j].pc = "run"
    /\ job' = [job EXCEPT ![j] = NoJob]
    /\ temp' = temp \ {j}
    /\ UNCHANGED <<env, disk, sync, statJobs, rows, faults>>

-----------------------------------------------------------------------------
(* The process dies and starts again, possibly under another runner.mode.  *)
(* What ephemeral builds left on disk stays there and belongs to nobody.   *)
Restart ==
    /\ crashes < MaxCrashes /\ crashes' = crashes + 1
    /\ \/ UNCHANGED <<mode, switches>>
       \/ /\ switches < MaxSwitches /\ switches' = switches + 1
          /\ mode' \in Modes \ {mode}
    /\ syncer' = Idle
    /\ install' = [r \in Repos |-> NoInstall]
    /\ job' = [j \in Jobs |-> NoJob]
    /\ stats' = {} /\ due' = {} /\ temp' = {}
    /\ UNCHANGED <<disk, code, released, rows, faults>>

(* The steps of an install: git, go build and describe on the host run     *)
(* without a timeout, InstallDocker under build_timeout.                   *)
HostInstall(r) == mode = "host" /\ (Clone(r) \/ Build(r))
DockerInstall(r) == mode = "docker" /\ (Clone(r) \/ BuildImage(r) \/ DescribeImage(r))
Record(r) == UpsertInstalled(r) \/ RecordSuccess(r) \/ UpsertFailed(r) \/ RecordFailure(r)
InstallStep(r) == HostInstall(r) \/ DockerInstall(r) \/ Record(r)

InspectOne == \E r \in Repos : Inspect(r)
DispatchStep == EndTick \/ \E r \in Repos : StartInstall(r)
SyncStep == BeginTick \/ InspectOne \/ DispatchStep

StatsStart == \E s \in stats : StartStats(s)
StatsRun == \E s \in stats : FinishStats(s)
StatsStep == StatsStart \/ StatsRun

RefreshStep == ListDue \/ \E k \in due : RefreshOne(k)

JobStep(j) == Lookup(j) \/ EphemeralBuild(j) \/ EphemeralImageBuild(j) \/ Finish(j)

Next ==
    \/ \E r \in Repos : Release(r) \/ InstallStep(r)
    \/ SyncStep \/ StatsStep \/ RefreshStep \/ Midnight \/ Restart
    \/ \E j \in Jobs : JobStep(j)
    \/ \E j \in Jobs, r \in Repos : Describe(j, r) \/ \E v \in 0..MaxVer : Resolve(j, r, v)

Spec == Init /\ [][Next]_vars

(* What the code guarantees by itself: days pass, goroutines that wait for *)
(* nothing but each other and the database go on, and docker installs are  *)
(* bounded by their timeout.                                               *)
FairSpec ==
    /\ Spec
    /\ WF_vars(DispatchStep) /\ WF_vars(StatsStart) /\ WF_vars(RefreshStep) /\ WF_vars(Midnight)
    /\ \A r \in Repos : WF_vars(DockerInstall(r)) /\ WF_vars(Record(r))

(* What it does not: the search of a tick, git ls-remote, an install on    *)
(* the host and a statistics run have no timeout. No call of these hangs.  *)
CallsReturn ==
    /\ WF_vars(BeginTick) /\ WF_vars(InspectOne) /\ WF_vars(StatsRun)
    /\ \A r \in Repos : WF_vars(HostInstall(r))
-----------------------------------------------------------------------------
(* The type invariant.                                                     *)
TypeOK ==
    /\ code \in ShortCodes
    /\ released \in [Repos -> Versions]
    /\ mode \in Modes
    /\ rows \in [Keys -> RowState]
    /\ dirs \subseteq Repos \X Versions
    /\ built \subseteq Artifacts
    /\ syncer \in SyncState /\ install \in [Repos -> InstallState]
    /\ stats \subseteq StatsJobs /\ due \subseteq Keys
    /\ job \in [Jobs -> JobState]
    /\ temp \subseteq Jobs
    /\ crashes \in 0..MaxCrashes /\ switches \in 0..MaxSwitches
    /\ faults \in 0..MaxFaults

(* What a row of strategies says is installed was built, from the          *)
(* repository and at the version the row names, however installs, failures *)
(* recorded under another key, lost acknowledgements and restarts mix.     *)
InstalledIsBuilt ==
    \A k \in Keys : rows[k].installed # 0 =>
        /\ rows[k].ref \in built
        /\ rows[k].ref.repo = rows[k].url
        /\ rows[k].ref.ver = rows[k].installed
        /\ <<rows[k].url, rows[k].installed>> \in dirs

(* A backtest executes an artifact of the repository and the version its   *)
(* portfolio is pinned at, one that exists, and one its runner can execute *)
(* as long as runner.mode has not been changed (LookupArtifact does not    *)
(* look at artifact_kind).                                                 *)
ResolvedIsPinned ==
    \A j \in Jobs : job[j].pc = "run" =>
        /\ job[j].art.repo = job[j].repo
        /\ job[j].ver # 0 => job[j].art.ver = job[j].ver
        /\ job[j].art \in built \/ j \in temp
        /\ switches = 0 => job[j].art.kind = JobKind(j)

(* The installed version of a row never goes back and is never lost, while *)
(* releases, installs, their failures ("leaves installed_ver and           *)
(* artifact_* alone"), unacknowledged updates and restarts follow each     *)
(* other: what an install records was the latest tag when its tick looked, *)
(* and wg.Wait keeps the installs of two ticks apart.                      *)
InstalledAdvances ==
    [][\A k \in Keys : rows[k].installed <= rows'[k].installed]_vars

(* Unless a call hangs, every released tag is eventually attempted or      *)
(* superseded: no error, crash or row that LIMIT 1 happens to return makes *)
(* the sync loop forget a version.                                         *)
VersionDecided ==
    CallsReturn => \A r \in Repos, v \in Versions :
        released[r] = v ~> \/ released[r] # v
                           \/ \E k \in RowsOf(r) : rows[k].attempted = v

(* Unless a call hangs, the statistics of a binary eventually are those of *)
(* the version that is installed, although a job that read an older        *)
(* artifact may write last: the refresh of a later day repairs it.         *)
StatsConverge ==
    CallsReturn => <>[](\A k \in Keys :
            rows[k].ref.kind = "binary" => rows[k].stats = rows[k].installed)

(* README.md:9: after a switch to docker the next sync tick "will rebuild  *)
(* every official strategy as a Docker image", if no call hangs.           *)
RebuiltAfterSwitch ==
    CallsReturn => \A k \in Keys :
        (mode = "docker" /\ rows[k].ref.kind = "binary") ~>
            (mode = "host" \/ rows[k].ref.kind = "image")

-----------------------------------------------------------------------------
(* The inductive invariant behind InstalledIsBuilt and ResolvedIsPinned.   *)

(* An install records what it has cloned and built, in a row of its own    *)
(* repository.                                                             *)
InstallOK(r) ==
    /\ install[r].pc \in {"build", "describe", "upsert", "mark"} => <<r, install[r].ver>> \in dirs
    /\ install[r].pc \in {"describe", "upsert", "mark"} => NewArtifact(r) \in built
    /\ install[r].pc = "mark" => rows[code[r]].url = r

InstallInv == \A r \in Repos : InstallOK(r)

(* A row keeps the repository it was installed from, and the kind of its   *)
(* artifact is that of the one mode there has been.                        *)
RowInv ==
    \A k \in Keys : rows[k].installed # 0 =>
        /\ k \in KeysOf(rows[k].url)
        /\ switches = 0 => rows[k].ref.kind = "binary"

ModeInv == switches = 0 => mode = "host"

(* Only a backtest with a pinned version looks an artifact up, and a build *)
(* has its directory.                                                      *)
JobInv ==
    \A j \in Jobs :
        /\ job[j].pc = "lookup" => job[j].ver # 0 /\ job[j].what = "backtest"
        /\ job[j].pc = "ephemeral" => j \in temp

(* Behind InstalledAdvances: no row is ahead of the tags, of the install   *)
(* queued for its repository or of the one in progress, of which there is  *)
(* one and only after the listings.                                        *)
OrderOK(r) ==
    /\ syncer.jobs[r] <= released[r] /\ install[r].ver <= released[r]
    /\ syncer.jobs[r] # 0 => install[r].pc = "none"
    /\ install[r].pc # "none" => syncer.pc = "listing" /\ syncer.todo = {}
    /\ \A k \in RowsOf(r) :
         /\ rows[k].installed <= released[r]
         /\ syncer.jobs[r] # 0 => rows[k].installed <= syncer.jobs[r]
         /\ install[r].pc # "none" => rows[k].installed <= install[r].ver

OrderInv == \A r \in Repos : OrderOK(r)

IInv == TypeOK /\ InstallInv /\ RowInv /\ ModeInv /\ JobInv /\ InstalledIsBuilt
             /\ ResolvedIsPinned
=============================================================================
