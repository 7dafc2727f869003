-------------------------- MODULE PortfoliosProofs --------------------------
(***************************************************************************)
(* One portfolio under any number of concurrent requests and automatic     *)
(* upgrades, for any versions, parameters, presets and retentions.         *)
(***************************************************************************)
EXTENDS Portfolios, TLAPS, FiniteSetTheorems

-----------------------------------------------------------------------------
(* Types. *)

LEMMA Bounds ==
    /\ MaxRuns \in Nat /\ MaxRequests \in Nat /\ MaxFaults \in Nat
    /\ 0 \in Versions /\ 1 \in Versions /\ Versions \subseteq Nat
    /\ Bodies \subseteq Params
    /\ \A c \in Clients : c \notin Upgraders
BY PortfoliosAssumption DEF Params, Names

LEMMA ParamsIntro ==
    ASSUME NEW D, D \subseteq Names, NEW f \in [D -> Values] PROVE f \in Params
BY DEF Params

LEMMA ParamsElim ==
    ASSUME NEW f \in Params
    PROVE  DOMAIN f \subseteq Names /\ \A x \in DOMAIN f : f[x] \in Values
BY DEF Params

LEMMA NoParams == <<>> \in Params /\ DOMAIN <<>> = {}
<1>1. <<>> \in [{} -> Values]
  OBVIOUS
<1> QED
  BY <1>1, ParamsIntro

LEMMA EmptyTypes ==
    /\ None \in Rows /\ None.status = "none" /\ None.ver = 0 /\ None.snap = 0
    /\ NoInput \in Inputs
    /\ Idle \in Calls /\ Idle.pc = "idle" /\ Idle.op = "none" /\ ~Idle.doomed
    /\ Idle.p = None /\ Idle.s = 0 /\ Idle.new = 0 /\ Idle.body = <<>> /\ ~Idle.explicit
<1>1. None \in Rows
  BY Bounds, NoParams DEF None, Rows
<1>2. Idle \in Calls
  BY <1>1, Bounds, NoParams DEF Idle, Calls
<1> QED
  BY <1>1, <1>2, Bounds, NoParams DEF None, Idle, NoInput, Inputs

LEMMA MatchType ==
    ASSUME NEW params, NEW d \in Versions
    PROVE  MatchPresetName(params, d) \in PresetNames \cup {"none"}
<1> DEFINE hits == {x \in DOMAIN Presets[d] : Presets[d][x] = params}
<1>1. hits # {} => (CHOOSE x \in hits : TRUE) \in hits
  OBVIOUS
<1>2. hits \subseteq PresetNames
  BY DEF PresetNames
<1> QED
  BY <1>1, <1>2 DEF MatchPresetName

\* A request reads a row and carries some of its columns.
LEMMA ViewTypes ==
    ASSUME NEW p \in Rows
    PROVE  /\ StatusOnly(p) \in Rows /\ StatusOnly(p).status = p.status
           /\ UpgradeView(p) \in Rows
           /\ UpgradeView(p).ver = p.ver /\ UpgradeView(p).describe = p.describe
           /\ UpgradeView(p).params = p.params
           /\ InputOf(UpgradeView(p)) = InputOf(p)
           /\ InputOf(p) \in Inputs
<1>1. /\ StatusOnly(p) \in Rows /\ StatusOnly(p).status = p.status
  BY EmptyTypes DEF StatusOnly, Rows, None
<1>2. /\ UpgradeView(p) \in Rows
      /\ UpgradeView(p).ver = p.ver /\ UpgradeView(p).describe = p.describe
      /\ UpgradeView(p).params = p.params
  BY EmptyTypes DEF UpgradeView, Rows, None
<1>3. InputOf(p) \in Inputs
  BY DEF InputOf, Inputs, Rows
<1> QED
  BY <1>1, <1>2, <1>3 DEF InputOf

\* mergeKeptAndDefaults, when the describes are compatible and the parameters
\* are those of the old one, gives exactly the parameters of the new one and
\* keeps every value there was.
LEMMA MergeCompatible ==
    ASSUME NEW params \in Params, NEW o \in Versions, NEW n \in Versions,
           Compatible(o, n), ValidParameters(params, o)
    PROVE  /\ MergeKeptAndDefaults(params, o, n) \in Params
           /\ ValidParameters(MergeKeptAndDefaults(params, o, n), n)
           /\ \A x \in DOMAIN params :
                /\ x \in DOMAIN MergeKeptAndDefaults(params, o, n)
                /\ MergeKeptAndDefaults(params, o, n)[x] = params[x]
<1> DEFINE m == MergeKeptAndDefaults(params, o, n)
<1>1. Kept(o, n) = DOMAIN Declares[o]
  BY DEF Compatible, Retyped, Removed, Kept
<1>2. Kept(o, n) \cup (Added(o, n) \cap DOMAIN Defaults[n]) = DOMAIN Declares[n]
  <2>1. DOMAIN Declares[o] \subseteq DOMAIN Declares[n]
    BY DEF Compatible, Removed
  <2> QED
    BY <1>1, <2>1 DEF Compatible, Added
<1>3. DOMAIN m = DOMAIN Declares[n]
  BY <1>2 DEF MergeKeptAndDefaults
<1>4. \A x \in DOMAIN params : x \in DOMAIN m /\ m[x] = params[x]
  BY <1>1, <1>2 DEF MergeKeptAndDefaults, ValidParameters
<1>5. m \in [DOMAIN Declares[n] -> Values]
  <2>1. \A x \in DOMAIN Declares[n] :
           (IF x \in Kept(o, n) THEN params[x] ELSE Defaults[n][x]) \in Values
    <3> SUFFICES ASSUME NEW x \in DOMAIN Declares[n]
                 PROVE  (IF x \in Kept(o, n) THEN params[x] ELSE Defaults[n][x]) \in Values
      OBVIOUS
    <3>1. CASE x \in Kept(o, n)
      BY <3>1, <1>1, ParamsElim DEF ValidParameters
    <3>2. CASE x \notin Kept(o, n)
      BY <3>2, <1>2, PortfoliosAssumption
    <3> QED
      BY <3>1, <3>2
  <2> QED
    BY <2>1, <1>2 DEF MergeKeptAndDefaults
<1>6. DOMAIN Declares[n] \subseteq Names
  BY DEF Names
<1> QED
  BY <1>3, <1>4, <1>5, <1>6, ParamsIntro DEF ValidParameters

-----------------------------------------------------------------------------
(* Steps of a request or an upgrader that write no row. *)

\* A process moves on; what it leaves undone is done by another or on record.
LEMMA CallMoveKeeps ==
    ASSUME IInv, NEW c \in Procs, NEW x \in Calls, call' = [call EXCEPT ![c] = x], CallOK(c, x),
           row.status = "pending" /\ Committed(call[c]) =>
              Committed(x) \/ dropped' \/ Tasked # {} \/ \E d \in Procs \ {c} : Committed(call[d]),
           call[c].pc \in {"send", "rollback"} => x.pc \in {"send", "rollback"} \/ dropped' \/ Loose = {},
           x.pc # "send",
           RetentionOK /\ c \in Clients /\ x.pc = "submit" => ~x.doomed,
           dropped' \in BOOLEAN, dropped => dropped',
           UNCHANGED <<row, runs, files, nextId, given, stale, computed, streak>>,
           registry' \in [ver : Versions, err : BOOLEAN],
           budget' \in [requests : 0..MaxRequests, faults : 0..MaxFaults]
    PROVE  IInv'
<1> USE DEF IInv
<1>1. call'[c] = x /\ \A d \in Procs \ {c} : call'[d] = call[d]
  BY DEF TypeOK
<1>2. TypeOK'
  BY DEF TypeOK
<1>3. RunsInv' /\ RowCoherent' /\ UserParamsKept' /\ SnapshotOfRow'
  BY DEF RunsInv, RowCoherent, UserParamsKept, SnapshotOfRow, Exists, Inflight, Loose, Tasked
<1>4. CallInv'
  BY <1>1 DEF CallInv, CallOK
<1>5. PendingServed'
  <2>0. Tasked' = Tasked
    BY DEF Tasked
  <2> SUFFICES ASSUME row.status = "pending", Tasked = {}, ~dropped'
               PROVE  \E d \in Procs : Committed(call'[d])
    BY <2>0 DEF PendingServed
  <2>1. PICK d \in Procs : Committed(call[d])
    BY DEF PendingServed
  <2> QED
    BY <1>1, <2>1
<1>6. LooseInv'
  <2>0. Loose' = Loose
    BY DEF Loose
  <2> SUFFICES ASSUME Loose # {}, ~dropped'
               PROVE  \E d \in Procs : call'[d].pc \in {"send", "rollback"}
    BY <2>0 DEF LooseInv
  <2>1. PICK d \in Procs : call[d].pc \in {"send", "rollback"}
    BY DEF LooseInv
  <2> QED
    BY <1>1, <2>1
<1>7. SendInv'
  BY <1>1 DEF SendInv, Loose, Exists
<1>8. StreakInv'
  BY DEF StreakInv, Counted, Successes, Inflight, Loose, Tasked, Exists
<1>9. NoThirdRun'
  BY <1>1 DEF NoThirdRun, RetentionOK, Procs
<1> QED
  BY <1>2, <1>3, <1>4, <1>5, <1>6, <1>7, <1>8, <1>9

\* ... one that has nothing to do for a pending portfolio.
LEMMA CallStepKeeps ==
    ASSUME IInv, NEW c \in Procs, NEW x \in Calls, call' = [call EXCEPT ![c] = x], CallOK(c, x),
           ~Committed(call[c]), x.pc # "send",
           RetentionOK /\ c \in Clients /\ x.pc = "submit" => ~x.doomed,
           UNCHANGED <<row, runs, files, nextId, history>>,
           registry' \in [ver : Versions, err : BOOLEAN],
           budget' \in [requests : 0..MaxRequests, faults : 0..MaxFaults]
    PROVE  IInv'
<1>1. call[c].pc \notin {"send", "rollback"}
  BY DEF Committed, IInv, CallInv, CallOK
<1>2. dropped' = dropped /\ dropped \in BOOLEAN /\ UNCHANGED <<given, stale, computed, streak>>
  BY DEF history, IInv, TypeOK
<1> QED
  BY <1>1, <1>2, CallMoveKeeps

LEMMA BudgetType ==
    ASSUME TypeOK, budget.requests > 0, budget' = [budget EXCEPT !.requests = @ - 1]
    PROVE  budget' \in [requests : 0..MaxRequests, faults : 0..MaxFaults]
BY Bounds DEF TypeOK

LEMMA FaultType ==
    ASSUME TypeOK, Fault PROVE budget' \in [requests : 0..MaxRequests, faults : 0..MaxFaults]
BY Bounds DEF TypeOK, Fault

LEMMA Requesting == ASSUME NEW c \in Clients PROVE c \in Procs /\ c \notin Upgraders
BY Bounds DEF Procs

LEMMA Upgrading == ASSUME NEW u \in Upgraders PROVE u \in Procs /\ u \notin Clients
BY Bounds DEF Procs

\* Where a request may be without any obligation.
LEMMA IdleOK == ASSUME NEW c PROVE Idle \in Calls /\ CallOK(c, Idle) /\ ~Committed(Idle) /\ Idle.pc = "idle"
BY EmptyTypes DEF CallOK, Committed

\* A handler that returns.
LEMMA LeaveKeeps ==
    ASSUME IInv, NEW c \in Procs, Leave(c), ~Committed(call[c]),
           UNCHANGED <<row, runs, files, registry, nextId, history, budget>>
    PROVE  IInv'
<1>1. call' = [call EXCEPT ![c] = Idle] /\ registry' \in [ver : Versions, err : BOOLEAN]
      /\ budget' \in [requests : 0..MaxRequests, faults : 0..MaxFaults]
  BY DEF Leave, IInv, TypeOK
<1> QED
  BY <1>1, IdleOK, CallStepKeeps

LEMMA CreateRunKeeps ==
    ASSUME IInv, NEW c \in Clients, CreateRun(c),
           budget' \in [requests : 0..MaxRequests, faults : 0..MaxFaults]
    PROVE  IInv'
<1> DEFINE x == [Idle EXCEPT !.pc = "submit", !.op = "run", !.p = None]
<1>1. /\ call' = [call EXCEPT ![c] = x] /\ call[c].pc = "idle"
      /\ UNCHANGED <<row, runs, files, registry, nextId, history>>
  BY DEF CreateRun, Begin, tables, At
<1>2. x \in Calls /\ x.pc = "submit" /\ x.op = "run" /\ ~x.doomed
  BY EmptyTypes DEF Idle, Calls
<1> HIDE DEF x
<1>3. c \in Procs /\ CallOK(c, x) /\ ~Committed(call[c])
  BY <1>1, <1>2, Requesting DEF CallOK, Committed
<1>4. registry' \in [ver : Versions, err : BOOLEAN]
  BY <1>1 DEF IInv, TypeOK
<1> QED
  BY <1>1, <1>2, <1>3, <1>4, CallStepKeeps

LEMMA ReadSnapshotKeeps ==
    ASSUME IInv, NEW c \in Clients, ReadSnapshot(c),
           budget' \in [requests : 0..MaxRequests, faults : 0..MaxFaults]
    PROVE  IInv'
<1> DEFINE dm == row.status = "failed" /\ streak = 2
           x == [Idle EXCEPT !.pc = "list", !.op = "read", !.p = StatusOnly(row), !.doomed = dm]
<1>1. /\ call' = [call EXCEPT ![c] = x] /\ call[c].pc = "idle"
      /\ UNCHANGED <<row, runs, files, registry, nextId, history>>
  BY DEF ReadSnapshot, tables, At
<1>2. StatusOnly(row) \in Rows /\ StatusOnly(row).status = row.status
  BY ViewTypes DEF IInv, TypeOK
<1>3. x \in Calls /\ x.pc = "list" /\ x.op = "read" /\ (x.doomed => x.p.status = "failed")
  <2>1. dm \in BOOLEAN
    OBVIOUS
  <2>2. dm => row.status = "failed"
    OBVIOUS
  <2> HIDE DEF dm
  <2> QED
    BY <1>2, <2>1, <2>2, EmptyTypes DEF Idle, Calls
<1> HIDE DEF x
<1>4. c \in Procs /\ CallOK(c, x) /\ ~Committed(call[c])
  BY <1>1, <1>3, Requesting DEF CallOK, Committed
<1>5. registry' \in [ver : Versions, err : BOOLEAN]
  BY <1>1 DEF IInv, TypeOK
<1> QED
  BY <1>1, <1>3, <1>4, <1>5, CallStepKeeps

LEMMA FiniteRuns == ASSUME TypeOK PROVE IsFiniteSet(DOMAIN runs)
<1>1. IsFiniteSet(1..MaxRuns)
  BY Bounds, FS_Interval
<1> QED
  BY <1>1, FS_Subset DEF TypeOK, RunIds

LEMMA TwoElements ==
    ASSUME NEW S, IsFiniteSet(S), NEW a \in S, NEW b \in S, a # b
    PROVE  Cardinality(S) \in Nat /\ Cardinality(S) >= 2
<1>1. IsFiniteSet({a, b}) /\ Cardinality({a, b}) = 2
  <2>1. IsFiniteSet({a}) /\ Cardinality({a}) = 1
    BY FS_Singleton
  <2>2. IsFiniteSet({a} \cup {b}) /\ Cardinality({a} \cup {b}) = 2
    BY <2>1, FS_AddElement
  <2>3. {a} \cup {b} = {a, b}
    OBVIOUS
  <2> QED
    BY <2>2, <2>3
<1>2. Cardinality({a, b}) <= Cardinality(S)
  BY <1>1, FS_Subset
<1> QED
  BY <1>1, <1>2, FS_CardinalityType

LEMMA RespondRecalculatingKeeps == ASSUME IInv, NEW c \in Clients, RespondRecalculating(c) PROVE IInv'
<1> DEFINE k == call[c]
           dm == k.doomed /\ streak = 2
           x == [Idle EXCEPT !.pc = "submit", !.op = "read", !.doomed = dm]
           stop == Inflight # {} \/ (call[c].p.status = "failed" /\ ConsecutiveFailedRuns >= 2)
<1>1. UNCHANGED <<row, runs, files, registry, nextId, history, budget>> /\ k.pc = "list"
  BY DEF RespondRecalculating, tables, At
<1>2. c \in Procs /\ k \in Calls /\ CallOK(c, k) /\ ~Committed(k)
  BY <1>1, Requesting DEF IInv, TypeOK, CallInv, Committed
<1>3. CASE stop
  <2>1. Leave(c)
    BY <1>3 DEF RespondRecalculating
  <2> QED
    BY <2>1, <1>1, <1>2, LeaveKeeps
<1>4. CASE ~stop
  <2>1. call' = [call EXCEPT ![c] = x]
    BY <1>4 DEF RespondRecalculating
  <2>2. RetentionOK => ~dm
    <3> SUFFICES ASSUME RetentionOK, dm PROVE FALSE
      OBVIOUS
    <3>1. k.p.status = "failed"
      BY <1>1, <1>2 DEF CallOK
    <3>2. PICK r, q \in Counted : r # q
      BY DEF IInv, StreakInv
    <3>3. IsFiniteSet(Counted)
      BY FiniteRuns, FS_Subset DEF IInv, Counted
    <3>4. ConsecutiveFailedRuns >= 2
      BY <3>2, <3>3, TwoElements DEF ConsecutiveFailedRuns
    <3> QED
      BY <1>4, <3>1, <3>4
  <2>3. dm \in BOOLEAN
    OBVIOUS
  <2> HIDE DEF dm
  <2>4. x \in Calls /\ x.pc = "submit" /\ x.op = "read" /\ x.doomed = dm
    BY <2>3, EmptyTypes DEF Idle, Calls
  <2> HIDE DEF x
  <2>5. CallOK(c, x)
    BY <2>4, Requesting DEF CallOK
  <2>6. registry' \in [ver : Versions, err : BOOLEAN]
        /\ budget' \in [requests : 0..MaxRequests, faults : 0..MaxFaults]
    BY <1>1 DEF IInv, TypeOK
  <2> QED
    BY <2>1, <2>2, <2>4, <2>5, <2>6, <1>1, <1>2, CallStepKeeps
<1> QED
  BY <1>3, <1>4

-----------------------------------------------------------------------------
(* Upgrades until they write. *)

LEMMA RowValid == ASSUME IInv, Exists PROVE ValidParameters(row.params, row.describe) /\ row \in Rows
BY DEF IInv, RowCoherent, TypeOK

LEMMA LoadUpgradePortfolioKeeps ==
    ASSUME IInv, NEW c \in Clients, NEW body \in Params, NEW explicit \in BOOLEAN,
           LoadUpgradePortfolio(c, body, explicit),
           budget' \in [requests : 0..MaxRequests, faults : 0..MaxFaults]
    PROVE  IInv'
<1> DEFINE x == [Idle EXCEPT !.pc = "strategy", !.op = "upgrade",
                    !.p = UpgradeView(row), !.body = body, !.explicit = explicit]
<1>1. /\ call' = [call EXCEPT ![c] = x] /\ call[c].pc = "idle" /\ Exists
      /\ UNCHANGED <<row, runs, files, registry, nextId, history>>
  BY DEF LoadUpgradePortfolio, tables, At
<1>2. /\ UpgradeView(row) \in Rows
      /\ ValidParameters(UpgradeView(row).params, UpgradeView(row).describe)
  BY <1>1, RowValid, ViewTypes
<1>3. x \in Calls /\ x.pc = "strategy" /\ x.op = "upgrade" /\ x.p = UpgradeView(row) /\ ~x.doomed
  BY <1>2, EmptyTypes DEF Idle, Calls
<1> HIDE DEF x
<1>4. c \in Procs /\ CallOK(c, x) /\ ~Committed(call[c])
  BY <1>1, <1>2, <1>3, Requesting DEF CallOK, Committed
<1>5. registry' \in [ver : Versions, err : BOOLEAN]
  BY <1>1 DEF IInv, TypeOK
<1> QED
  BY <1>1, <1>3, <1>4, <1>5, CallStepKeeps

LEMMA LoadUpgradeStrategyKeeps == ASSUME IInv, NEW c \in Clients, LoadUpgradeStrategy(c) PROVE IInv'
<1> DEFINE k == call[c]
           x == [k EXCEPT !.pc = "apply", !.s = registry.ver]
           may == registry.ver # 0 /\ ~registry.err
                  /\ MayUpgrade(call[c].p, registry.ver, call[c].body, call[c].explicit)
<1>1. UNCHANGED <<row, runs, files, registry, nextId, history, budget>> /\ k.pc = "strategy"
  BY DEF LoadUpgradeStrategy, tables, At
<1>2. c \in Procs /\ k \in Calls /\ CallOK(c, k) /\ ~Committed(k)
  BY <1>1, Requesting DEF IInv, TypeOK, CallInv, Committed
<1>3. registry \in [ver : Versions, err : BOOLEAN] /\ registry' \in [ver : Versions, err : BOOLEAN]
      /\ budget' \in [requests : 0..MaxRequests, faults : 0..MaxFaults]
  BY <1>1 DEF IInv, TypeOK
<1>4. CASE ~may
  <2>1. Leave(c)
    BY <1>4 DEF LoadUpgradeStrategy
  <2> QED
    BY <2>1, <1>1, <1>2, LeaveKeeps
<1>5. CASE may
  <2>1. call' = [call EXCEPT ![c] = x]
    BY <1>5, <1>2 DEF LoadUpgradeStrategy, Calls, IInv, TypeOK
  <2>2. x \in Calls /\ x.pc = "apply" /\ x.s = registry.ver /\ x.op = k.op /\ x.p = k.p
        /\ x.body = k.body /\ x.explicit = k.explicit /\ x.doomed = k.doomed
    BY <1>2, <1>3 DEF Calls
  <2>3. k.op = "upgrade"
    BY <1>1, <1>2 DEF CallOK
  <2> HIDE DEF x
  <2>4. CallOK(c, x)
    BY <1>1, <1>2, <1>5, <2>2, <2>3 DEF CallOK, MayUpgrade
  <2> QED
    BY <2>1, <2>2, <2>4, <1>1, <1>2, <1>3, CallStepKeeps
<1> QED
  BY <1>4, <1>5

LEMMA AutoLoadStrategyKeeps == ASSUME IInv, NEW u \in Upgraders, AutoLoadStrategy(u) PROVE IInv'
<1> DEFINE k == call[u]
           x == [k EXCEPT !.pc = "list", !.s = registry.ver]
<1>1. UNCHANGED <<row, runs, files, registry, nextId, history, budget>> /\ k.pc = "strategy"
  BY DEF AutoLoadStrategy, tables, At
<1>2. u \in Procs /\ u \notin Clients /\ k \in Calls /\ CallOK(u, k) /\ ~Committed(k)
  BY <1>1, Upgrading DEF IInv, TypeOK, CallInv, Committed
<1>3. registry \in [ver : Versions, err : BOOLEAN] /\ registry' \in [ver : Versions, err : BOOLEAN]
      /\ budget' \in [requests : 0..MaxRequests, faults : 0..MaxFaults]
  BY <1>1 DEF IInv, TypeOK
<1>4. CASE registry.err
  <2>1. Leave(u)
    BY <1>4 DEF AutoLoadStrategy
  <2> QED
    BY <2>1, <1>1, <1>2, LeaveKeeps
<1>5. CASE ~registry.err
  <2>1. call' = [call EXCEPT ![u] = x]
    BY <1>5, <1>2 DEF AutoLoadStrategy, Calls, IInv, TypeOK
  <2>2. x \in Calls /\ x.pc = "list" /\ x.op = k.op /\ x.doomed = k.doomed
        /\ x.explicit = k.explicit
    BY <1>2, <1>3 DEF Calls
  <2> HIDE DEF x
  <2>4. CallOK(u, x)
    BY <1>1, <1>2, <2>2 DEF CallOK
  <2> QED
    BY <2>1, <2>2, <2>4, <1>1, <1>2, <1>3, CallStepKeeps
<1> QED
  BY <1>4, <1>5

LEMMA AutoListPortfoliosKeeps == ASSUME IInv, NEW u \in Upgraders, AutoListPortfolios(u) PROVE IInv'
<1> DEFINE k == call[u]
           x == [k EXCEPT !.pc = "apply", !.p = UpgradeView(row)]
           may == Exists /\ Eligible(row, call[u].new) /\ MayUpgrade(row, call[u].s, <<>>, FALSE)
<1>1. /\ UNCHANGED <<row, runs, files, registry, nextId, history, budget>>
      /\ k.pc = "list" /\ k.op = "auto"
  BY DEF AutoListPortfolios, tables, At
<1>2. u \in Procs /\ u \notin Clients /\ k \in Calls /\ CallOK(u, k) /\ ~Committed(k)
  BY <1>1, Upgrading DEF IInv, TypeOK, CallInv, Committed
<1>3. registry' \in [ver : Versions, err : BOOLEAN]
      /\ budget' \in [requests : 0..MaxRequests, faults : 0..MaxFaults]
  BY <1>1 DEF IInv, TypeOK
<1>4. CASE ~may
  <2>1. Leave(u)
    BY <1>4 DEF AutoListPortfolios
  <2> QED
    BY <2>1, <1>1, <1>2, LeaveKeeps
<1>5. CASE may
  <2>1. call' = [call EXCEPT ![u] = x]
    BY <1>5, <1>2 DEF AutoListPortfolios, Calls, IInv, TypeOK
  <2>2. /\ UpgradeView(row) \in Rows /\ UpgradeView(row).describe = row.describe
        /\ ValidParameters(UpgradeView(row).params, UpgradeView(row).describe)
    BY <1>5, RowValid, ViewTypes
  <2>3. x \in Calls /\ x.pc = "apply" /\ x.s = k.s /\ x.op = k.op /\ x.p = UpgradeView(row)
        /\ x.explicit = k.explicit /\ x.doomed = k.doomed
    BY <1>2, <2>2 DEF Calls
  <2> HIDE DEF x
  <2>4. ~x.explicit /\ ~x.doomed
    BY <1>1, <1>2, <2>3 DEF CallOK
  <2>5. Compatible(x.p.describe, x.s)
    BY <1>5, <2>2, <2>3 DEF MayUpgrade
  <2>6. CallOK(u, x)
    <3>1. ValidParameters(x.p.params, x.p.describe)
      BY <2>2, <2>3
    <3>2. x.op = "auto" /\ x.pc = "apply" /\ u \notin Clients
      BY <1>1, <1>2, <2>3
    <3> QED
      BY <3>1, <3>2, <2>4, <2>5 DEF CallOK
  <2> QED
    BY <2>1, <2>3, <2>6, <1>1, <1>2, <1>3, CallStepKeeps
<1> QED
  BY <1>4, <1>5

-----------------------------------------------------------------------------
(* The registry, the directory and the retention. *)

LEMMA QuietStepKeeps ==
    ASSUME IInv, UNCHANGED <<row, runs, nextId, call, history>>, files' \subseteq RunIds,
           registry' \in [ver : Versions, err : BOOLEAN],
           budget' \in [requests : 0..MaxRequests, faults : 0..MaxFaults]
    PROVE  IInv'
<1> USE DEF IInv, history
<1>1. TypeOK'
  BY DEF TypeOK
<1>2. RunsInv' /\ RowCoherent' /\ UserParamsKept' /\ SnapshotOfRow'
  BY DEF RunsInv, RowCoherent, UserParamsKept, SnapshotOfRow, Exists, Inflight, Loose, Tasked
<1>3. CallInv' /\ NoThirdRun'
  BY DEF CallInv, CallOK, NoThirdRun, RetentionOK
<1>4. PendingServed' /\ LooseInv' /\ SendInv' /\ StreakInv'
  BY DEF PendingServed, LooseInv, SendInv, Inflight, Loose, Tasked, StreakInv, Counted, Successes, Exists
<1> QED
  BY <1>1, <1>2, <1>3, <1>4

LEMMA InstallKeeps ==
    ASSUME IInv, NEW u \in Upgraders, NEW v \in Versions, Install(v, u) PROVE IInv'
<1> DEFINE x == [Idle EXCEPT !.pc = "strategy", !.op = "auto", !.new = v]
<1>1. /\ call' = [call EXCEPT ![u] = x] /\ call[u].pc = "idle"
      /\ registry' = [ver |-> v, err |-> FALSE]
      /\ UNCHANGED <<row, runs, files, nextId, budget, history>>
  BY DEF Install, At
<1>2. x \in Calls /\ x.pc = "strategy" /\ x.op = "auto" /\ ~x.doomed /\ ~x.explicit
  BY EmptyTypes DEF Idle, Calls
<1> HIDE DEF x
<1>3. u \in Procs /\ u \notin Clients /\ CallOK(u, x) /\ ~Committed(call[u])
  BY <1>1, <1>2, Upgrading DEF CallOK, Committed
<1>4. registry' \in [ver : Versions, err : BOOLEAN]
      /\ budget' \in [requests : 0..MaxRequests, faults : 0..MaxFaults]
  BY <1>1 DEF IInv, TypeOK
<1> QED
  BY <1>1, <1>2, <1>3, <1>4, CallStepKeeps

LEMMA InstallFailsKeeps == ASSUME IInv, InstallFails PROVE IInv'
<1>1. /\ UNCHANGED <<row, runs, nextId, call, history>> /\ files' \subseteq RunIds
      /\ budget' \in [requests : 0..MaxRequests, faults : 0..MaxFaults]
      /\ registry' \in [ver : Versions, err : BOOLEAN]
  BY FaultType DEF InstallFails, Fault, IInv, TypeOK
<1> QED
  BY <1>1, QuietStepKeeps

LEMMA LoseSnapshotKeeps == ASSUME IInv, LoseSnapshot PROVE IInv'
<1>1. /\ UNCHANGED <<row, runs, nextId, call, history>> /\ files' \subseteq RunIds
      /\ budget' \in [requests : 0..MaxRequests, faults : 0..MaxFaults]
      /\ registry' \in [ver : Versions, err : BOOLEAN]
  BY Bounds, FaultType DEF LoseSnapshot, Fault, IInv, TypeOK
<1> QED
  BY <1>1, QuietStepKeeps

LEMMA PatchKeeps ==
    ASSUME IInv, NEW c \in Clients, NEW n \in Retentions, Patch(c, n),
           budget' \in [requests : 0..MaxRequests, faults : 0..MaxFaults]
    PROVE  IInv'
<1> USE DEF IInv
<1>1. /\ row' = [row EXCEPT !.retention = n] /\ Exists
      /\ UNCHANGED <<runs, files, registry, call, nextId, given, stale, computed, dropped, streak>>
  BY DEF Patch
<1>2. /\ row' \in Rows /\ row'.retention = n /\ row'.status = row.status /\ row'.official = row.official
      /\ row'.ver = row.ver /\ row'.describe = row.describe /\ row'.params = row.params
      /\ row'.preset = row.preset
  BY <1>1 DEF TypeOK, Rows
<1>3. InputOf(row)' = InputOf(row) /\ Exists' = Exists /\ Inflight' = Inflight
      /\ Loose' = Loose /\ Tasked' = Tasked /\ Counted' = Counted
  BY <1>1, <1>2 DEF InputOf, Exists, Inflight, Loose, Tasked, Counted, Successes
<1>4. TypeOK'
  BY <1>1, <1>2 DEF TypeOK
<1>5. RunsInv'
  BY <1>1, <1>3 DEF RunsInv
<1>6. RowCoherent' /\ UserParamsKept' /\ SnapshotOfRow'
  BY <1>1, <1>2, <1>3 DEF RowCoherent, UserParamsKept, SnapshotOfRow
<1>7. CallInv' /\ NoThirdRun' /\ PendingServed' /\ LooseInv' /\ SendInv'
  BY <1>1, <1>2, <1>3 DEF CallInv, CallOK, NoThirdRun, RetentionOK, PendingServed, LooseInv, SendInv
<1>8. StreakInv'
  BY <1>1, <1>2, <1>3 DEF StreakInv, RetentionOK
<1> QED
  BY <1>4, <1>5, <1>6, <1>7, <1>8

-----------------------------------------------------------------------------
(* Creating and deleting the portfolio. *)

LEMMA CreateKeeps ==
    ASSUME IInv, NEW c \in Clients, NEW official \in BOOLEAN, NEW params \in Bodies,
           Create(c, official, params),
           budget' \in [requests : 0..MaxRequests, faults : 0..MaxFaults]
    PROVE  IInv'
<1> USE DEF IInv
<1> DEFINE v == IF official THEN registry.ver ELSE 0
           x == [Idle EXCEPT !.pc = "submit", !.op = "create", !.p = None]
<1>1. /\ row' = NewRow(official, v, params) /\ ~Exists
      /\ ValidParameters(params, v) /\ nextId = 1
      /\ call' = [call EXCEPT ![c] = x] /\ given' = params
      /\ UNCHANGED <<runs, files, registry, nextId, stale, computed, dropped, streak>>
  BY DEF Create, ValidateCreate, Begin, Exists
<1>2. v \in Versions /\ params \in Params
  BY Bounds DEF TypeOK
<1> HIDE DEF v
<1>3. /\ row' \in Rows /\ row'.status = "pending" /\ row'.describe = v /\ row'.params = params
      /\ (row'.official => row'.ver = v) /\ row'.preset = MatchPresetName(params, v)
      /\ row'.retention = 2
  BY <1>1, <1>2, Bounds, MatchType DEF NewRow, Rows
<1>4. x \in Calls /\ x.pc = "submit" /\ x.op = "create" /\ ~x.doomed
  BY EmptyTypes DEF Idle, Calls
<1> HIDE DEF x
<1>5. c \in Procs /\ CallOK(c, x) /\ Committed(x)
  BY <1>4, Requesting DEF CallOK, Committed
<1>6. call'[c] = x /\ \A d \in Procs \ {c} : call'[d] = call[d]
  BY <1>1, <1>5 DEF TypeOK
<1>7. TypeOK'
  BY <1>1, <1>2, <1>3, <1>4 DEF TypeOK
<1>8. RunsInv'
  BY <1>1, <1>3 DEF RunsInv, Inflight, Loose, Tasked, Exists
<1>9. RowCoherent' /\ UserParamsKept' /\ SnapshotOfRow'
  BY <1>1, <1>3 DEF RowCoherent, UserParamsKept, SnapshotOfRow
<1>10. CallInv'
  BY <1>5, <1>6 DEF CallInv, CallOK
<1>11. PendingServed'
  BY <1>5, <1>6 DEF PendingServed
<1>12. NoThirdRun'
  BY <1>4, <1>6 DEF NoThirdRun, RetentionOK, Procs
<1>13. StreakInv'
  BY <1>1, <1>3 DEF StreakInv, RetentionOK, Counted, Successes, Inflight, Loose, Tasked
<1>14. LooseInv' /\ SendInv'
  <2>1. DOMAIN runs = {} /\ Loose' = {}
    BY <1>1 DEF RunsInv, Loose
  <2>2. \A d \in Procs : call[d].pc # "send"
    BY <1>1 DEF SendInv
  <2> QED
    BY <1>4, <1>6, <2>1, <2>2 DEF LooseInv, SendInv
<1> QED
  BY <1>7, <1>8, <1>9, <1>10, <1>11, <1>12, <1>13, <1>14

\* The row and its runs are gone; requests that had read it go on.
LEMMA DeleteRowKeeps ==
    ASSUME IInv, NEW c \in Procs, NEW x \in Calls, call' = [call EXCEPT ![c] = x], CallOK(c, x),
           RetentionOK /\ c \in Clients /\ x.pc = "submit" => ~x.doomed, x.pc # "send",
           DeleteRow, files' \subseteq RunIds,
           budget' \in [requests : 0..MaxRequests, faults : 0..MaxFaults]
    PROVE  IInv'
<1> USE DEF IInv
<1>1. call'[c] = x /\ \A d \in Procs \ {c} : call'[d] = call[d]
  BY DEF TypeOK
<1>2. row' = None /\ row' \in Rows /\ row'.status = "none" /\ runs' = <<>> /\ DOMAIN runs' = {}
  BY EmptyTypes, NoParams DEF DeleteRow
<1>3. given' = <<>> /\ stale' = FALSE /\ dropped' = FALSE /\ streak' = 0
      /\ computed' = [input |-> NoInput, old |-> FALSE] /\ registry' = registry /\ nextId' = nextId
  BY DEF DeleteRow
<1>4. TypeOK'
  <2>1. computed' \in [input : Inputs, old : BOOLEAN] /\ given' \in Params
    BY <1>3, NoParams, EmptyTypes
  <2>2. call' \in [Procs -> Calls] /\ nextId' \in 1..(MaxRuns + 1)
        /\ registry' \in [ver : Versions, err : BOOLEAN]
    BY <1>3 DEF TypeOK
  <2>3. DOMAIN runs' \subseteq RunIds /\ \A r \in DOMAIN runs' : runs'[r] \in RunRows
    BY <1>2
  <2>4. row' \in Rows /\ streak' \in 0..2
    BY <1>2, <1>3
  <2>5. stale' \in BOOLEAN /\ dropped' \in BOOLEAN
    BY <1>3
  <2> QED
    BY <2>1, <2>2, <2>3, <2>4, <2>5 DEF TypeOK
<1>5. RunsInv' /\ RowCoherent' /\ UserParamsKept' /\ SnapshotOfRow'
  BY <1>2, <1>3 DEF RunsInv, Inflight, Loose, Tasked, Exists, RowCoherent, UserParamsKept, SnapshotOfRow
<1>6. CallInv'
  BY <1>1 DEF CallInv, CallOK
<1>7. NoThirdRun'
  BY <1>1 DEF NoThirdRun, RetentionOK, Procs
<1>8. PendingServed' /\ StreakInv' /\ LooseInv' /\ SendInv'
  BY <1>1, <1>2, <1>3 DEF PendingServed, StreakInv, LooseInv, SendInv, Loose, Exists
<1> QED
  BY <1>4, <1>5, <1>6, <1>7, <1>8

LEMMA DeleteKeeps ==
    ASSUME IInv, NEW c \in Clients, Delete(c),
           budget' \in [requests : 0..MaxRequests, faults : 0..MaxFaults]
    PROVE  IInv'
<1>1. /\ c \in Procs /\ call[c] \in Calls /\ CallOK(c, call[c]) /\ call[c].pc = "idle"
      /\ call' = [call EXCEPT ![c] = call[c]]
      /\ DeleteRow /\ files' \subseteq RunIds
  BY Requesting DEF Delete, At, IInv, TypeOK, CallInv
<1> QED
  BY <1>1, DeleteRowKeeps

LEMMA RollbackKeeps == ASSUME IInv, NEW c \in Clients, Rollback(c) PROVE IInv'
<1>1. c \in Procs /\ Leave(c) /\ budget' = budget
  BY Requesting DEF Rollback
<1>2. CASE Exists
  <2>1. /\ DeleteRow /\ files' \subseteq RunIds /\ call' = [call EXCEPT ![c] = Idle]
        /\ budget' \in [requests : 0..MaxRequests, faults : 0..MaxFaults]
    BY <1>1, <1>2 DEF Rollback, Leave, IInv, TypeOK
  <2> QED
    BY <1>1, <2>1, IdleOK, DeleteRowKeeps
<1>3. CASE ~Exists
  <2>1. /\ UNCHANGED <<row, runs, files, nextId, history>>
        /\ row.status # "pending" /\ Loose = {}
        /\ call' = [call EXCEPT ![c] = Idle] /\ registry' \in [ver : Versions, err : BOOLEAN]
        /\ budget' \in [requests : 0..MaxRequests, faults : 0..MaxFaults]
    BY <1>1, <1>3 DEF Rollback, Leave, tables, Exists, IInv, TypeOK, RunsInv, Loose
  <2>2. dropped' \in BOOLEAN /\ dropped' = dropped /\ UNCHANGED <<given, stale, computed, streak>>
    BY <2>1 DEF history, IInv, TypeOK
  <2> QED
    BY <1>1, <2>1, <2>2, IdleOK, CallMoveKeeps
<1> QED
  BY <1>2, <1>3

\* A handler or an upgrader that returns and leaves something undone on record.
LEMMA DropKeeps ==
    ASSUME IInv, NEW c \in Procs, Leave(c), Fault, dropped' \in BOOLEAN, dropped => dropped',
           Committed(call[c]) => dropped',
           UNCHANGED <<tables, given, stale, computed, streak>>
    PROVE  IInv'
<1>1. /\ call' = [call EXCEPT ![c] = Idle] /\ registry' \in [ver : Versions, err : BOOLEAN]
      /\ budget' \in [requests : 0..MaxRequests, faults : 0..MaxFaults]
      /\ UNCHANGED <<row, runs, files, nextId>>
  BY FaultType DEF Leave, tables, IInv, TypeOK
<1>2. call[c].pc \in {"send", "rollback"} => dropped'
  BY DEF Committed, IInv, CallInv, CallOK
<1> QED
  BY <1>1, <1>2, IdleOK, CallMoveKeeps

LEMMA RollbackFailsKeeps == ASSUME IInv, NEW c \in Clients, RollbackFails(c) PROVE IInv'
BY Requesting, DropKeeps DEF RollbackFails

LEMMA GiveUpKeeps == ASSUME IInv, NEW c \in Procs, GiveUp(c) PROVE IInv'
<1>1. dropped' \in BOOLEAN /\ (dropped => dropped')
  BY DEF GiveUp, IInv, TypeOK
<1>2. Committed(call[c]) => dropped'
  BY DEF GiveUp, At, Committed
<1> QED
  BY <1>1, <1>2, DropKeeps DEF GiveUp

-----------------------------------------------------------------------------
(* The upgrade that writes. *)

\* What ApplyUpgrade writes belongs together, and as long as the row has not
\* changed since it was read keeps what it had.
LEMMA UpgradeParams ==
    ASSUME NEW k \in Calls, NEW c, CallOK(c, k), k.pc = "apply",
           NEW params,
           params = IF k.explicit THEN k.body ELSE MergeKeptAndDefaults(k.p.params, k.p.describe, k.s)
    PROVE  /\ params \in Params /\ ValidParameters(params, k.s) /\ k.s \in Versions
           /\ ~k.explicit => \A x \in DOMAIN k.p.params :
                x \in DOMAIN params /\ params[x] = k.p.params[x]
           /\ k.op \in {"upgrade", "auto"}
<1>1. k.s \in Versions /\ k.p \in Rows /\ k.body \in Params /\ k.explicit \in BOOLEAN
      /\ k.op \in {"upgrade", "auto"} /\ k.p.params \in Params /\ k.p.describe \in Versions
  BY DEF Calls, CallOK, Rows
<1>2. CASE k.explicit
  BY <1>1, <1>2 DEF CallOK
<1>3. CASE ~k.explicit
  <2>1. Compatible(k.p.describe, k.s) /\ ValidParameters(k.p.params, k.p.describe)
    BY <1>3 DEF CallOK
  <2> QED
    BY <1>1, <1>3, <2>1, MergeCompatible
<1> QED
  BY <1>1, <1>2, <1>3

LEMMA ApplyUpgradeKeeps == ASSUME IInv, NEW c \in Procs, ApplyUpgrade(c) PROVE IInv'
<1> USE DEF IInv
<1> DEFINE k == call[c]
           params == IF k.explicit THEN k.body
                     ELSE MergeKeptAndDefaults(k.p.params, k.p.describe, k.s)
           x == [Idle EXCEPT !.pc = "submit", !.op = k.op, !.p = None]
<1>1. k \in Calls /\ CallOK(c, k) /\ k.pc = "apply" /\ ~Committed(k)
      /\ UNCHANGED <<files, registry, nextId, budget, computed, streak>>
  BY DEF ApplyUpgrade, At, CallInv, TypeOK, Committed
<1>2. CASE ~Exists
  <2>1. Leave(c) /\ UNCHANGED <<row, runs, given, stale, dropped>>
    BY <1>2 DEF ApplyUpgrade
  <2> QED
    BY <1>1, <2>1, LeaveKeeps DEF history
<1>3. CASE Exists
  <2>1. /\ row' = UpgradedRow(k.s, params)
        /\ runs' = [r \in DOMAIN runs |->
                     IF runs[r].status \in {"loaded", "running"}
                     THEN [runs[r] EXCEPT !.old = TRUE] ELSE runs[r]]
        /\ given' = IF k.explicit THEN k.body ELSE given
        /\ stale' = IF k.explicit THEN FALSE ELSE stale \/ InputOf(k.p) # InputOf(row)
        /\ dropped' = (dropped /\ Loose # {})
        /\ call' = [call EXCEPT ![c] = x]
    BY <1>3 DEF ApplyUpgrade, Begin
  <2>2. /\ params \in Params /\ ValidParameters(params, k.s) /\ k.s \in Versions
        /\ ~k.explicit => \A y \in DOMAIN k.p.params :
             y \in DOMAIN params /\ params[y] = k.p.params[y]
        /\ k.op \in {"upgrade", "auto"}
    BY <1>1, UpgradeParams
  <2>3. k.explicit => params = k.body
    OBVIOUS
  <2> HIDE DEF params
  <2>4. /\ row' \in Rows /\ row'.status = "pending" /\ row'.ver = k.s /\ row'.describe = k.s
        /\ row'.params = params /\ row'.preset = MatchPresetName(params, k.s)
        /\ row'.retention = row.retention
    BY <2>1, <2>2, MatchType DEF UpgradedRow, TypeOK, Rows
  <2>5. x \in Calls /\ x.pc = "submit" /\ x.op = k.op /\ ~x.doomed /\ ~x.explicit
    BY <1>1, EmptyTypes DEF Idle, Calls
  <2> HIDE DEF x
  <2>6. CallOK(c, x) /\ Committed(x)
    BY <1>1, <2>2, <2>5 DEF CallOK, Committed
  <2>7. call'[c] = x /\ \A d \in Procs \ {c} : call'[d] = call[d]
    BY <2>1 DEF TypeOK
  <2>8. /\ DOMAIN runs' = DOMAIN runs
        /\ \A r \in DOMAIN runs :
             /\ runs'[r] \in RunRows /\ runs'[r].status = runs[r].status
             /\ runs'[r].started = runs[r].started
             /\ runs[r].status \in {"loaded", "running"} => runs'[r].old
    <3> SUFFICES ASSUME NEW r \in DOMAIN runs
                 PROVE  /\ runs'[r] \in RunRows /\ runs'[r].status = runs[r].status
                        /\ runs'[r].started = runs[r].started
                        /\ runs[r].status \in {"loaded", "running"} => runs'[r].old
      BY <2>1
    <3>1. runs[r] \in RunRows
      BY DEF TypeOK
    <3>2. CASE runs[r].status \in {"loaded", "running"}
      <4>1. runs'[r] = [runs[r] EXCEPT !.old = TRUE]
        BY <3>2, <2>1
      <4> QED
        BY <3>1, <4>1 DEF RunRows
    <3>3. CASE runs[r].status \notin {"loaded", "running"}
      <4>1. runs'[r] = runs[r]
        BY <3>3, <2>1
      <4> QED
        BY <3>1, <3>3, <4>1
    <3> QED
      BY <3>2, <3>3
  <2>9. Loose' = Loose /\ Tasked' = Tasked /\ Successes' = Successes
    BY <2>8 DEF Loose, Tasked, Successes
  <2>10. Inflight' = Inflight
    BY <2>9 DEF Inflight
  <2>11. Counted' = Counted
    BY <2>8, <2>9 DEF Counted
  <2>12. given' \in Params /\ stale' \in BOOLEAN /\ dropped' \in BOOLEAN
    BY <2>1, <1>1 DEF TypeOK, Calls
  <2>13. TypeOK'
    BY <1>1, <2>1, <2>4, <2>5, <2>8, <2>12 DEF TypeOK
  <2>14. RunsInv'
    BY <1>1, <1>3, <2>4, <2>8, <2>10 DEF RunsInv, Exists
  <2>15. RowCoherent' /\ SnapshotOfRow'
    BY <2>2, <2>4 DEF RowCoherent, SnapshotOfRow
  <2>16. UserParamsKept'
    <3>1. CASE k.explicit
      BY <3>1, <2>1, <2>3, <2>4 DEF UserParamsKept
    <3>2. CASE ~k.explicit
      <4> SUFFICES ASSUME ~stale', NEW y \in DOMAIN given'
                   PROVE  y \in DOMAIN params /\ params[y] = given'[y]
        BY <2>4 DEF UserParamsKept
      <4>1. given' = given /\ ~stale /\ InputOf(k.p) = InputOf(row)
        BY <3>2, <2>1
      <4>2. k.p.params = row.params
        BY <4>1 DEF InputOf
      <4>3. y \in DOMAIN row.params /\ row.params[y] = given[y]
        BY <1>3, <4>1 DEF UserParamsKept
      <4> QED
        BY <3>2, <4>1, <4>2, <4>3, <2>2
    <3> QED
      BY <3>1, <3>2
  <2>17. CallInv'
    BY <2>6, <2>7 DEF CallInv, CallOK
  <2>18. PendingServed'
    BY <2>6, <2>7 DEF PendingServed
  <2>19. NoThirdRun'
    BY <2>5, <2>7 DEF NoThirdRun, RetentionOK, Procs
  <2>20. StreakInv'
    BY <1>1, <1>3, <2>4, <2>11, <2>10 DEF StreakInv, RetentionOK
  <2>21. LooseInv'
    <3> SUFFICES ASSUME Loose # {}, ~dropped'
                 PROVE  \E d \in Procs : call'[d].pc \in {"send", "rollback"}
      BY <2>9 DEF LooseInv
    <3>1. PICK d \in Procs : call[d].pc \in {"send", "rollback"}
      BY <2>1 DEF LooseInv
    <3> QED
      BY <1>1, <2>7, <3>1
  <2>22. SendInv'
    BY <1>1, <1>3, <2>5, <2>7, <2>9 DEF SendInv
  <2> QED
    BY <2>13, <2>14, <2>15, <2>16, <2>17, <2>18, <2>19, <2>20, <2>21, <2>22
<1> QED
  BY <1>2, <1>3

-----------------------------------------------------------------------------
(* Submit. *)

LEMMA MoveCallOK ==
    ASSUME NEW c, NEW k \in Calls, CallOK(c, k), k.pc \in {"submit", "send"},
           NEW pc \in {"send", "rollback"}, pc = "rollback" => k.op = "create"
    PROVE  /\ [k EXCEPT !.pc = pc] \in Calls /\ CallOK(c, [k EXCEPT !.pc = pc])
           /\ Committed([k EXCEPT !.pc = pc])
           /\ [k EXCEPT !.pc = pc].pc = pc
<1> DEFINE x == [k EXCEPT !.pc = pc]
<1>1. x \in Calls /\ x.pc = pc /\ x.op = k.op /\ x.doomed = k.doomed /\ x.explicit = k.explicit
  BY DEF Calls
<1> HIDE DEF x
<1>2. CallOK(c, x) /\ Committed(x)
  BY <1>1 DEF CallOK, Committed
<1> QED
  BY <1>1, <1>2 DEF x

\* Where a caller goes whose Submit failed.
LEMMA Bounced ==
    ASSUME IInv, NEW c \in Procs, call[c].pc \in {"submit", "send"}, Bounce(c)
    PROVE  \E x \in Calls :
             /\ call' = [call EXCEPT ![c] = x] /\ CallOK(c, x)
             /\ IF call[c].op = "create" THEN x.pc = "rollback" /\ Committed(x) ELSE x.pc = "idle"
<1> DEFINE k == call[c]
           back == [k EXCEPT !.pc = "rollback"]
<1>1. k \in Calls /\ CallOK(c, k)
  BY DEF IInv, TypeOK, CallInv
<1>2. CASE k.op = "create"
  <2>1. call' = [call EXCEPT ![c] = back]
    BY <1>2 DEF Bounce, IInv, TypeOK
  <2>2. back \in Calls /\ CallOK(c, back) /\ Committed(back) /\ back.pc = "rollback"
    BY <1>1, <1>2, MoveCallOK
  <2> HIDE DEF back
  <2> QED
    BY <1>2, <2>1, <2>2
<1>3. CASE k.op # "create"
  <2>1. call' = [call EXCEPT ![c] = Idle]
    BY <1>3 DEF Bounce, IInv, TypeOK
  <2> QED
    BY <1>3, <2>1, IdleOK
<1> QED
  BY <1>2, <1>3

\* A run row appears that no task has.
LEMMA NewRunKeeps ==
    ASSUME IInv, NEW c \in Procs, NEW x \in Calls, call' = [call EXCEPT ![c] = x], CallOK(c, x),
           x.pc # "submit", Exists, Inflight = {}, nextId <= MaxRuns, nextId' = nextId + 1,
           runs' = InsertRun, dropped' \in BOOLEAN, dropped => dropped',
           (x.pc \in {"send", "rollback"} /\ Committed(x)) \/ dropped',
           UNCHANGED <<row, files, registry, given, stale, computed, streak>>,
           budget' \in [requests : 0..MaxRequests, faults : 0..MaxFaults]
    PROVE  IInv'
<1> USE DEF IInv
<1> DEFINE new == RunRow("loose", FALSE)
<1>1. call'[c] = x /\ \A d \in Procs \ {c} : call'[d] = call[d]
  BY DEF TypeOK
<1>2. nextId \in RunIds /\ nextId' \in 1..(MaxRuns + 1) /\ nextId \in Nat /\ nextId \notin DOMAIN runs
  BY Bounds DEF TypeOK, RunIds, RunsInv
<1>3. new \in RunRows /\ new.status = "loose"
  BY EmptyTypes DEF RunRow, RunRows
<1>4. /\ DOMAIN runs' = DOMAIN runs \cup {nextId}
      /\ \A r \in DOMAIN runs : runs'[r] = runs[r] /\ r # nextId
      /\ runs'[nextId] = new
  BY <1>2 DEF InsertRun
<1> HIDE DEF new
<1>5. Loose' = {nextId} /\ Tasked' = {} /\ Inflight' = {nextId} /\ Successes' = Successes
  <2>1. Successes' = Successes
    BY <1>2, <1>3, <1>4 DEF Successes
  <2>2. \A r \in DOMAIN runs : r \notin Loose' /\ r \notin Tasked'
    BY <1>4 DEF Inflight, Loose, Tasked
  <2>3. nextId \in Loose' /\ nextId \notin Tasked'
    BY <1>3, <1>4 DEF Loose, Tasked
  <2>4. Loose' \subseteq DOMAIN runs \cup {nextId} /\ Tasked' \subseteq DOMAIN runs \cup {nextId}
    BY <1>4 DEF Loose, Tasked
  <2> QED
    BY <2>1, <2>2, <2>3, <2>4 DEF Inflight
<1>6. \A r \in Counted : r \in Counted' /\ r # nextId
  BY <1>4, <1>5 DEF Counted
<1>7. TypeOK'
  BY <1>1, <1>2, <1>3, <1>4 DEF TypeOK
<1>8. RunsInv'
  <2>1. DOMAIN runs' \subseteq 1..(nextId' - 1)
    <3>1. nextId \in 1..(nextId' - 1) /\ 1..(nextId - 1) \subseteq 1..(nextId' - 1)
      BY <1>2 DEF RunIds
    <3> QED
      BY <1>4, <3>1 DEF RunsInv
  <2>2. \A r \in DOMAIN runs' : \A q \in RunIds : r <= q /\ q < nextId' => q \in DOMAIN runs'
    BY <1>2, <1>4 DEF RunsInv, RunIds
  <2>3. Inflight' \subseteq {nextId' - 1}
    BY <1>2, <1>5
  <2>4. \A r \in DOMAIN runs' :
         /\ runs'[r].status = "running" => runs'[r].started
         /\ runs'[r].status \in {"loaded", "running"} /\ ~runs'[r].old => runs'[r].input = InputOf(row')
    BY <1>3, <1>4 DEF RunsInv, InputOf
  <2> QED
    BY <2>1, <2>2, <2>3, <2>4 DEF RunsInv, Exists, InputOf
<1>9. RowCoherent' /\ UserParamsKept' /\ SnapshotOfRow'
  BY DEF RowCoherent, UserParamsKept, SnapshotOfRow, Exists, InputOf
<1>10. CallInv'
  BY <1>1 DEF CallInv, CallOK
<1>11. PendingServed' /\ LooseInv'
  BY <1>1 DEF PendingServed, LooseInv
<1>12. NoThirdRun'
  BY <1>1 DEF NoThirdRun, RetentionOK, Procs
<1>13. StreakInv'
  <2>1. \A r \in Counted \ Inflight : r \in Counted' \ Inflight'
    BY <1>5, <1>6
  <2> QED
    BY <1>6, <2>1 DEF StreakInv, RetentionOK, Exists
<1>14. SendInv'
  <2>1. \A d \in Procs : call[d].pc # "send"
    BY DEF SendInv, Inflight
  <2>2. nextId' > 1
    BY <1>2 DEF RunIds
  <2> QED
    BY <1>1, <1>5, <2>1, <2>2 DEF SendInv
<1> QED
  BY <1>7, <1>8, <1>9, <1>10, <1>11, <1>12, <1>13, <1>14

\* A refused caller leaves the rows alone: the run in flight is a task, or one
\* that another Submit is about to send, or a loss on record.
LEMMA BounceKeeps ==
    ASSUME IInv, NEW c \in Procs, call[c].pc \in {"submit", "send"}, Bounce(c),
           UNCHANGED <<row, runs, files, registry, nextId, given, stale, computed, streak>>,
           budget' \in [requests : 0..MaxRequests, faults : 0..MaxFaults],
           dropped' \in BOOLEAN, dropped => dropped',
           \/ call[c].op = "create" \/ dropped'
           \/ call[c].pc = "submit" /\ (~Exists \/ Inflight # {})
    PROVE  IInv'
<1>1. PICK x \in Calls :
        /\ call' = [call EXCEPT ![c] = x] /\ CallOK(c, x)
        /\ IF call[c].op = "create" THEN x.pc = "rollback" /\ Committed(x) ELSE x.pc = "idle"
  BY Bounced
<1>2. registry' \in [ver : Versions, err : BOOLEAN]
  BY DEF IInv, TypeOK
<1>3. row.status = "pending" =>
        Committed(x) \/ dropped' \/ Tasked # {} \/ \E d \in Procs \ {c} : Committed(call[d])
  <2> SUFFICES ASSUME row.status = "pending", ~Committed(x), ~dropped', Tasked = {}
               PROVE  \E d \in Procs \ {c} : Committed(call[d])
    OBVIOUS
  <2>1. call[c].pc = "submit" /\ Loose # {} /\ ~dropped
    BY <1>1 DEF Exists, Inflight
  <2>2. PICK d \in Procs : call[d].pc \in {"send", "rollback"}
    BY <2>1 DEF IInv, LooseInv
  <2>3. Committed(call[d]) /\ d # c
    BY <2>1, <2>2 DEF IInv, CallInv, CallOK, Committed
  <2> QED
    BY <2>3
<1>4. x.pc # "send" /\ x.pc # "submit"
  BY <1>1
<1>5. call[c].pc \in {"send", "rollback"} => x.pc \in {"send", "rollback"} \/ dropped'
  BY <1>1
<1> QED
  BY <1>1, <1>2, <1>3, <1>4, <1>5, CallMoveKeeps

LEMMA SubmitKeeps == ASSUME IInv, NEW c \in Procs, Submit(c) PROVE IInv'
<1> DEFINE k == call[c]
           x == [k EXCEPT !.pc = "send"]
<1>1. /\ k \in Calls /\ CallOK(c, k) /\ k.pc = "submit" /\ dropped' \in BOOLEAN /\ dropped' = dropped
      /\ UNCHANGED <<row, files, registry, given, stale, computed, streak>>
      /\ budget' \in [requests : 0..MaxRequests, faults : 0..MaxFaults]
  BY DEF Submit, At, IInv, CallInv, TypeOK, history
<1>2. CASE ~Exists \/ Inflight # {}
  <2>1. Bounce(c) /\ UNCHANGED <<runs, nextId>>
    BY <1>2 DEF Submit
  <2> QED
    BY <1>1, <1>2, <2>1, BounceKeeps
<1>3. CASE Exists /\ Inflight = {}
  <2>1. nextId <= MaxRuns /\ nextId' = nextId + 1 /\ runs' = InsertRun
    BY <1>3 DEF Submit
  <2>2. call' = [call EXCEPT ![c] = x]
    BY <1>3 DEF Submit, Goto, IInv, TypeOK
  <2>3. x \in Calls /\ CallOK(c, x) /\ x.pc = "send" /\ Committed(x)
    BY <1>1, MoveCallOK
  <2> HIDE DEF x
  <2> QED
    BY <1>1, <1>3, <2>1, <2>2, <2>3, NewRunKeeps
<1> QED
  BY <1>2, <1>3

LEMMA SubmitFailsKeeps ==
    ASSUME IInv, NEW c \in Procs, NEW ghost \in BOOLEAN, SubmitFails(c, ghost) PROVE IInv'
<1>1. /\ call[c].pc = "submit" /\ Bounce(c)
      /\ UNCHANGED <<row, files, registry, given, stale, computed, streak>>
      /\ budget' \in [requests : 0..MaxRequests, faults : 0..MaxFaults]
  BY FaultType DEF SubmitFails, At, IInv
<1>2. dropped' \in BOOLEAN /\ (dropped => dropped') /\ (call[c].op = "create" \/ dropped')
  BY DEF SubmitFails, IInv, TypeOK
<1>3. CASE ghost
  <2>1. Exists /\ Inflight = {} /\ nextId <= MaxRuns /\ nextId' = nextId + 1 /\ runs' = InsertRun
    BY <1>3 DEF SubmitFails
  <2>2. PICK x \in Calls :
        /\ call' = [call EXCEPT ![c] = x] /\ CallOK(c, x)
        /\ IF call[c].op = "create" THEN x.pc = "rollback" /\ Committed(x) ELSE x.pc = "idle"
    BY <1>1, Bounced
  <2>3. x.pc # "submit" /\ ((x.pc \in {"send", "rollback"} /\ Committed(x)) \/ dropped')
    BY <1>2, <2>2
  <2> QED
    BY <1>1, <1>2, <2>1, <2>2, <2>3, NewRunKeeps
<1>4. CASE ~ghost
  <2>1. UNCHANGED <<runs, nextId>>
    BY <1>4 DEF SubmitFails
  <2> QED
    BY <1>1, <1>2, <2>1, BounceKeeps
<1> QED
  BY <1>3, <1>4

\* The second half of Submit: the row becomes a task, or a failed run.
LEMMA SettleKeeps ==
    ASSUME IInv, NEW c \in Procs, call[c].pc = "send",
           NEW x \in Calls, call' = [call EXCEPT ![c] = x], CallOK(c, x), x.pc \in {"idle", "rollback"},
           NEW st \in {"queued", "failed"},
           runs' = [r \in DOMAIN runs |->
                 IF r \in Loose THEN [runs[r] EXCEPT !.status = st] ELSE runs[r]],
           dropped' \in BOOLEAN, st = "queued" \/ Committed(x) \/ dropped',
           UNCHANGED <<row, files, registry, nextId, budget, given, stale, computed, streak>>
    PROVE  IInv'
<1> USE DEF IInv
<1>1. call'[c] = x /\ \A d \in Procs \ {c} : call'[d] = call[d]
  BY DEF TypeOK
<1>2. /\ DOMAIN runs' = DOMAIN runs
      /\ \A r \in DOMAIN runs : /\ runs'[r] \in RunRows /\ runs'[r].started = runs[r].started
                                /\ runs'[r].status = IF r \in Loose THEN st ELSE runs[r].status
                                /\ r \notin Loose => runs'[r] = runs[r]
  <2> SUFFICES ASSUME NEW r \in DOMAIN runs
               PROVE  /\ runs'[r] \in RunRows /\ runs'[r].started = runs[r].started
                      /\ runs'[r].status = IF r \in Loose THEN st ELSE runs[r].status
                      /\ r \notin Loose => runs'[r] = runs[r]
    OBVIOUS
  <2>1. runs[r] \in RunRows
    BY DEF TypeOK
  <2>2. CASE r \in Loose
    <3>1. runs'[r] = [runs[r] EXCEPT !.status = st]
      BY <2>2
    <3> QED
      BY <2>1, <2>2, <3>1 DEF RunRows
  <2>3. CASE r \notin Loose
    BY <2>1, <2>3
  <2> QED
    BY <2>2, <2>3
<1>3. Loose' = {} /\ Successes' = Successes /\ Tasked' \subseteq Inflight
      /\ (st = "queued" => Tasked' = Inflight)
  <2>1. Loose' = {}
    BY <1>2 DEF Loose
  <2>2. Successes' = Successes
    BY <1>2 DEF Loose, Successes
  <2>3. Tasked' \subseteq Inflight
    BY <1>2 DEF Loose, Tasked, Inflight
  <2>4. st = "queued" => Inflight \subseteq Tasked'
    BY <1>2 DEF Loose, Tasked, Inflight
  <2> QED
    BY <2>1, <2>2, <2>3, <2>4
<1>4. Inflight' \subseteq Inflight /\ Counted' = Counted
  <2>1. Inflight' \subseteq Inflight
    BY <1>3 DEF Inflight
  <2>2. Counted' = Counted
    BY <1>2, <1>3 DEF Counted
  <2> QED
    BY <2>1, <2>2
<1>5. TypeOK'
  BY <1>2 DEF TypeOK
<1>6. RunsInv'
  <2>1. \A r \in DOMAIN runs :
         /\ runs'[r].status = "running" => runs'[r].started
         /\ runs'[r].status \in {"loaded", "running"} /\ ~runs'[r].old => runs'[r].input = InputOf(row)
    BY <1>2 DEF RunsInv
  <2> QED
    BY <1>2, <1>4, <2>1 DEF RunsInv, Exists, InputOf
<1>7. RowCoherent' /\ UserParamsKept' /\ SnapshotOfRow'
  BY DEF RowCoherent, UserParamsKept, SnapshotOfRow, Exists, InputOf
<1>8. CallInv' /\ NoThirdRun'
  <2>1. CallInv'
    BY <1>1 DEF CallInv, CallOK
  <2>2. NoThirdRun'
    BY <1>1 DEF NoThirdRun, RetentionOK, Procs
  <2> QED
    BY <2>1, <2>2
<1>9. PendingServed'
  <2>1. row.status = "pending" => Loose # {}
    BY DEF SendInv, Exists
  <2> QED
    BY <1>1, <1>3, <2>1 DEF PendingServed, Inflight
<1>10. LooseInv'
  BY <1>3 DEF LooseInv
<1>11. SendInv'
  BY <1>1 DEF SendInv, Exists
<1>12. StreakInv'
  <2>1. Counted \ Inflight \subseteq Counted' \ Inflight'
    BY <1>4
  <2> QED
    BY <1>4, <2>1 DEF StreakInv, RetentionOK, Exists
<1> QED
  BY <1>5, <1>6, <1>7, <1>8, <1>9, <1>10, <1>11, <1>12

LEMMA SendKeeps == ASSUME IInv, NEW c \in Procs, Send(c) PROVE IInv'
<1>1. /\ call[c].pc = "send" /\ call' = [call EXCEPT ![c] = Idle] /\ dropped' \in BOOLEAN
      /\ UNCHANGED <<row, files, registry, nextId, budget, given, stale, computed, streak>>
      /\ runs' = [r \in DOMAIN runs |->
                 IF r \in Loose THEN [runs[r] EXCEPT !.status = "queued"] ELSE runs[r]]
  BY DEF Send, At, Leave
<1> QED
  BY <1>1, IdleOK, SettleKeeps

LEMMA RefuseKeeps ==
    ASSUME IInv, NEW c \in Procs, NEW recorded \in BOOLEAN, Refuse(c, recorded) PROVE IInv'
<1>1. /\ call[c].pc = "send" /\ Bounce(c)
      /\ UNCHANGED <<row, files, registry, nextId, given, stale, computed, streak>>
  BY DEF Refuse, At
<1>2. dropped' \in BOOLEAN /\ (dropped => dropped') /\ (call[c].op = "create" \/ dropped')
  BY DEF Refuse, IInv, TypeOK
<1>3. CASE recorded
  <2>1. /\ budget' = budget
        /\ runs' = [r \in DOMAIN runs |->
                 IF r \in Loose THEN [runs[r] EXCEPT !.status = "failed"] ELSE runs[r]]
    BY <1>3 DEF Refuse
  <2>2. PICK x \in Calls :
        /\ call' = [call EXCEPT ![c] = x] /\ CallOK(c, x)
        /\ IF call[c].op = "create" THEN x.pc = "rollback" /\ Committed(x) ELSE x.pc = "idle"
    BY <1>1, Bounced
  <2>3. x.pc \in {"idle", "rollback"} /\ (Committed(x) \/ dropped')
    BY <1>2, <2>2
  <2> QED
    BY <1>1, <1>2, <2>1, <2>2, <2>3, SettleKeeps
<1>4. CASE ~recorded
  <2>1. budget' \in [requests : 0..MaxRequests, faults : 0..MaxFaults]
    BY <1>4, FaultType DEF Refuse, IInv
  <2>2. runs' = runs
    BY <1>4 DEF Refuse
  <2> QED
    BY <1>1, <1>2, <2>1, <2>2, BounceKeeps
<1> QED
  BY <1>3, <1>4

-----------------------------------------------------------------------------
(* The worker. *)

LEMMA NewestInflight ==
    ASSUME IInv, NEW r \in Inflight
    PROVE  /\ r \in DOMAIN runs /\ runs[r] \in RunRows /\ r = nextId - 1 /\ r \in RunIds /\ r \in Nat
           /\ Inflight = {r} /\ Exists
BY DEF IInv, RunsInv, Inflight, Loose, Tasked, TypeOK, RunIds

\* ... and while a worker or the queue has it, no Submit is between its halves.
LEMMA NewestTasked ==
    ASSUME IInv, NEW r \in Tasked
    PROVE  /\ r \in DOMAIN runs /\ runs[r] \in RunRows /\ r = nextId - 1 /\ r \in RunIds /\ r \in Nat
           /\ Inflight = {r} /\ Tasked = {r} /\ Loose = {} /\ Exists
           /\ \A c \in Procs : call[c].pc # "send"
<1>1. r \in Inflight
  BY DEF Inflight
<1>2. Loose = {} /\ Tasked = {r}
  <2>1. Inflight = {r}
    BY <1>1, NewestInflight
  <2>2. r \notin Loose
    BY DEF Loose, Tasked
  <2> QED
    BY <2>1, <2>2 DEF Inflight
<1>3. Exists
  BY <1>1, NewestInflight
<1>4. \A c \in Procs : call[c].pc # "send"
  BY <1>2, <1>3 DEF IInv, SendInv
<1> QED
  BY <1>1, <1>2, <1>3, <1>4, NewestInflight

LEMMA LoadKeeps == ASSUME IInv, NEW r \in RunIds, Load(r) PROVE IInv'
<1> USE DEF IInv
<1>1. /\ r \in Tasked /\ runs[r].status = "queued"
      /\ UNCHANGED <<row, files, registry, nextId, call, budget, history>>
  BY DEF Load
<1>2. /\ r \in DOMAIN runs /\ runs[r] \in RunRows /\ Inflight = {r} /\ Exists /\ r = nextId - 1
      /\ row \in Rows /\ InputOf(row) \in Inputs
      /\ Tasked = {r} /\ Loose = {} /\ \A c \in Procs : call[c].pc # "send"
  BY <1>1, NewestTasked, ViewTypes DEF TypeOK
<1>3. /\ DOMAIN runs' = DOMAIN runs
      /\ \A q \in DOMAIN runs : q # r => runs'[q] = runs[q]
      /\ runs'[r] \in RunRows /\ runs'[r].started = runs[r].started
      /\ IF row.status = "running" THEN runs'[r].status = "failed"
         ELSE runs'[r].status = "loaded" /\ runs'[r].input = InputOf(row)
  <2>1. CASE row.status = "running"
    <3>1. runs' = [runs EXCEPT ![r].status = "failed"]
      BY <2>1 DEF Load
    <3> QED
      BY <1>2, <2>1, <3>1 DEF RunRows
  <2>2. CASE row.status # "running"
    <3>1. runs' = [runs EXCEPT ![r].status = "loaded", ![r].input = InputOf(row)]
      BY <2>2 DEF Load
    <3> QED
      BY <1>2, <2>2, <3>1 DEF RunRows
  <2> QED
    BY <2>1, <2>2
<1>4. /\ Tasked' = (IF row.status = "running" THEN {} ELSE {r}) /\ Loose' = {}
      /\ Inflight' = Tasked' /\ Successes' = Successes
  <2>1. Successes' = Successes
    BY <1>1, <1>2, <1>3 DEF Successes
  <2>2. \A q \in DOMAIN runs : q # r => q \notin Tasked' /\ q \notin Loose'
    BY <1>2, <1>3 DEF Loose, Tasked
  <2>3. (r \in Tasked' <=> row.status # "running") /\ r \notin Loose'
    BY <1>2, <1>3 DEF Loose, Tasked
  <2>4. Tasked' \subseteq DOMAIN runs /\ Loose' \subseteq DOMAIN runs
    BY <1>3 DEF Loose, Tasked
  <2> QED
    BY <2>1, <2>2, <2>3, <2>4 DEF Inflight
<1>5. Counted' = Counted
  BY <1>2, <1>3, <1>4 DEF Counted
<1>6. TypeOK'
  BY <1>1, <1>2, <1>3 DEF TypeOK, history
<1>7. RunsInv'
  <2>1. \A q \in DOMAIN runs' :
         /\ runs'[q].status = "running" => runs'[q].started
         /\ runs'[q].status \in {"loaded", "running"} /\ ~runs'[q].old => runs'[q].input = InputOf(row)
    BY <1>2, <1>3 DEF RunsInv
  <2> QED
    BY <1>1, <1>2, <1>3, <1>4, <2>1 DEF RunsInv, Exists, InputOf
<1>8. RowCoherent' /\ UserParamsKept' /\ SnapshotOfRow'
  BY <1>1 DEF RowCoherent, UserParamsKept, SnapshotOfRow, Exists, InputOf, history
<1>9. CallInv' /\ NoThirdRun'
  BY <1>1 DEF CallInv, CallOK, NoThirdRun, RetentionOK
<1>10. PendingServed' /\ LooseInv' /\ SendInv'
  BY <1>1, <1>2, <1>4 DEF PendingServed, LooseInv, SendInv
<1>11. StreakInv'
  BY <1>1, <1>2, <1>4, <1>5 DEF StreakInv, Exists, history, RetentionOK
<1> QED
  BY <1>6, <1>7, <1>8, <1>9, <1>10, <1>11

LEMMA MarkRunningKeeps == ASSUME IInv, NEW r \in RunIds, MarkRunning(r) PROVE IInv'
<1> USE DEF IInv
<1>1. /\ r \in Tasked /\ runs[r].status = "loaded"
      /\ runs' = [runs EXCEPT ![r].status = "running", ![r].started = TRUE]
      /\ row' = [row EXCEPT !.status = "running"]
      /\ UNCHANGED <<files, registry, nextId, call, budget, history>>
  BY DEF MarkRunning
<1>2. /\ r \in DOMAIN runs /\ runs[r] \in RunRows /\ Inflight = {r} /\ Exists
      /\ row \in Rows
      /\ Tasked = {r} /\ Loose = {} /\ \A c \in Procs : call[c].pc # "send"
  BY <1>1, NewestTasked DEF TypeOK
<1>3. /\ DOMAIN runs' = DOMAIN runs
      /\ \A q \in DOMAIN runs : q # r => runs'[q] = runs[q]
      /\ runs'[r] \in RunRows /\ runs'[r].started /\ runs'[r].status = "running"
      /\ runs'[r].old = runs[r].old /\ runs'[r].input = runs[r].input
  BY <1>1, <1>2 DEF RunRows
<1>4. /\ row' \in Rows /\ row'.status = "running" /\ row'.official = row.official
      /\ row'.ver = row.ver /\ row'.describe = row.describe /\ row'.params = row.params
      /\ row'.preset = row.preset /\ row'.retention = row.retention
      /\ InputOf(row') = InputOf(row)
  BY <1>1, <1>2 DEF Rows, InputOf
<1>5. Tasked' = {r} /\ Loose' = {} /\ Inflight' = {r} /\ Successes' = Successes
  <2>1. Successes' = Successes
    BY <1>1, <1>2, <1>3 DEF Successes
  <2>2. \A q \in DOMAIN runs : q # r => q \notin Tasked' /\ q \notin Loose'
    BY <1>2, <1>3 DEF Loose, Tasked
  <2>3. r \in Tasked' /\ r \notin Loose'
    BY <1>2, <1>3 DEF Loose, Tasked
  <2>4. Tasked' \subseteq DOMAIN runs /\ Loose' \subseteq DOMAIN runs
    BY <1>3 DEF Loose, Tasked
  <2> QED
    BY <2>1, <2>2, <2>3, <2>4 DEF Inflight
<1>6. \A q \in Counted : q \in Counted'
  BY <1>3, <1>5 DEF Counted
<1>7. TypeOK'
  BY <1>1, <1>2, <1>3, <1>4 DEF TypeOK, history
<1>8. RunsInv'
  <2>1. \A q \in DOMAIN runs' :
         /\ runs'[q].status = "running" => runs'[q].started
         /\ runs'[q].status \in {"loaded", "running"} /\ ~runs'[q].old => runs'[q].input = InputOf(row)
    BY <1>1, <1>2, <1>3 DEF RunsInv
  <2> QED
    BY <1>1, <1>2, <1>3, <1>4, <1>5, <2>1 DEF RunsInv, Exists
<1>9. RowCoherent' /\ UserParamsKept' /\ SnapshotOfRow'
  BY <1>1, <1>2, <1>4 DEF RowCoherent, UserParamsKept, SnapshotOfRow, Exists, history
<1>10. CallInv' /\ NoThirdRun'
  BY <1>1 DEF CallInv, CallOK, NoThirdRun, RetentionOK
<1>11. PendingServed' /\ LooseInv' /\ SendInv'
  BY <1>1, <1>2, <1>4, <1>5 DEF PendingServed, LooseInv, SendInv
<1>12. StreakInv'
  BY <1>1, <1>2, <1>4, <1>5, <1>6 DEF StreakInv, Exists, history, RetentionOK
<1> QED
  BY <1>7, <1>8, <1>9, <1>10, <1>11, <1>12

\* PruneRuns keeps the newest rows: the run that ended, and with a retention of
\* two or more the one before it.
LEMMA Pruned ==
    ASSUME IInv, NEW rs, DOMAIN rs = DOMAIN runs, NEW r \in Inflight
    PROVE  /\ KeptRuns(rs) \subseteq DOMAIN runs
           /\ r \in KeptRuns(rs)
           /\ \A x \in KeptRuns(rs) : \A y \in DOMAIN runs : y >= x => y \in KeptRuns(rs)
           /\ row.retention >= 2 /\ r - 1 \in DOMAIN runs => r - 1 \in KeptRuns(rs)
           /\ \A y \in DOMAIN runs : y <= r
<1> DEFINE D == DOMAIN runs
           Above(x) == {q \in D : q >= x}
<1>1. IsFiniteSet(D) /\ D \subseteq Nat /\ \A y \in D : y <= r
  BY FiniteRuns, NewestInflight DEF IInv, RunsInv, TypeOK, RunIds
<1>2. r \in D /\ r \in Nat
  BY NewestInflight
<1>3. row.retention \in Nat /\ row.retention >= 1
  <2>1. row.retention \in Retentions \cup {1, 2}
    BY DEF IInv, TypeOK, Rows
  <2>2. \A n \in Retentions : n \in Nat /\ n >= 1
    BY PortfoliosAssumption
  <2> QED
    BY <2>1, <2>2
<1>4. KeptRuns(rs) = {x \in D : Cardinality(Above(x)) <= row.retention}
  BY DEF KeptRuns
<1>5. \A x \in D : IsFiniteSet(Above(x)) /\ Cardinality(Above(x)) \in Nat
  BY <1>1, FS_Subset, FS_CardinalityType
<1>6. \A x, y \in D : y >= x => Cardinality(Above(y)) <= Cardinality(Above(x))
  <2> SUFFICES ASSUME NEW x \in D, NEW y \in D, y >= x
               PROVE  Cardinality(Above(y)) <= Cardinality(Above(x))
    OBVIOUS
  <2>1. Above(y) \subseteq Above(x)
    BY <1>1
  <2> QED
    BY <1>5, <2>1, FS_Subset
<1>7. Above(r) = {r}
  BY <1>1, <1>2
<1>8. Cardinality(Above(r)) = 1
  BY <1>7, FS_Singleton
<1>9. r - 1 \in D => Cardinality(Above(r - 1)) = 2
  <2> SUFFICES ASSUME r - 1 \in D PROVE Cardinality(Above(r - 1)) = 2
    OBVIOUS
  <2>1. Above(r - 1) = {r} \cup {r - 1} /\ r - 1 \notin {r}
    BY <1>1, <1>2
  <2>2. IsFiniteSet({r}) /\ Cardinality({r}) = 1
    BY FS_Singleton
  <2>3. Cardinality({r} \cup {r - 1}) = 2
    BY <2>1, <2>2, FS_AddElement
  <2> QED
    BY <2>1, <2>3
<1> HIDE DEF Above
<1>10. \A x \in KeptRuns(rs) : \A y \in D : y >= x => y \in KeptRuns(rs)
  <2> SUFFICES ASSUME NEW x \in KeptRuns(rs), NEW y \in D, y >= x PROVE y \in KeptRuns(rs)
    OBVIOUS
  <2>1. x \in D /\ Cardinality(Above(x)) <= row.retention
    BY <1>4
  <2>2. Cardinality(Above(y)) <= Cardinality(Above(x))
    BY <1>6, <2>1
  <2>3. Cardinality(Above(y)) <= row.retention
    BY <1>3, <1>5, <2>1, <2>2
  <2> QED
    BY <1>4, <2>3
<1>11. r \in KeptRuns(rs)
  BY <1>2, <1>3, <1>4, <1>8
<1>12. row.retention >= 2 /\ r - 1 \in D => r - 1 \in KeptRuns(rs)
  BY <1>3, <1>4, <1>9
<1> QED
  BY <1>1, <1>4, <1>10, <1>11, <1>12

\* A worker is done with its run: it has succeeded or failed, or its end could
\* not be recorded; and the rows are pruned or not.
LEMMA WorkerEnds ==
    ASSUME IInv, NEW r \in Tasked, NEW e \in RunRows, NEW keep, NEW ended,
           e.status \in {"success", "failed", "loose"}, runs[r].started => e.started,
           DOMAIN ended = DOMAIN runs, ended[r] = e, \A q \in DOMAIN runs : q # r => ended[q] = runs[q],
           keep \in {DOMAIN runs, KeptRuns(ended)},
           runs' = Restrict(ended, keep), files' \subseteq RunIds,
           row' \in Rows, row'.status # "none", row'.official = row.official, row'.ver = row.ver,
           row'.describe = row.describe, row'.params = row.params, row'.preset = row.preset,
           row'.retention = row.retention,
           dropped' \in BOOLEAN, row'.status # "pending" \/ dropped', e.status = "loose" => dropped',
           \/ streak' = 0
           \/ e.status # "success" /\ streak' = streak
           \/ e.status = "failed" /\ e.started /\ streak' = Longer,
           SnapshotOfRow', computed' \in [input : Inputs, old : BOOLEAN],
           budget' \in [requests : 0..MaxRequests, faults : 0..MaxFaults],
           UNCHANGED <<registry, call, nextId, given, stale>>
    PROVE  IInv'
<1> USE DEF IInv
<1> DEFINE D == DOMAIN runs
<1>1. /\ r \in D /\ runs[r] \in RunRows /\ Inflight = {r} /\ Exists /\ row \in Rows
      /\ r = nextId - 1 /\ r \in Nat /\ r \in RunIds
      /\ \A c \in Procs : call[c].pc # "send"
  BY NewestTasked DEF TypeOK
<1>2. /\ keep \subseteq D /\ r \in keep
      /\ \A x \in keep : \A y \in D : y >= x => y \in keep
      /\ row.retention >= 2 /\ r - 1 \in D => r - 1 \in keep
      /\ \A y \in D : y <= r
  <2>1. r \in Inflight
    BY <1>1
  <2> QED
    BY <1>1, <2>1, Pruned
<1>3. DOMAIN runs' = keep /\ \A q \in keep : runs'[q] = IF q = r THEN e ELSE runs[q]
  BY <1>2 DEF Restrict
<1>4. InputOf(row') = InputOf(row) /\ Exists'
  BY DEF InputOf, Exists
<1>5. Tasked' = {} /\ Loose' = (IF e.status = "loose" THEN {r} ELSE {}) /\ Inflight' = Loose'
  <2>1. \A q \in keep : q # r => q \notin Tasked' /\ q \notin Loose'
    BY <1>1, <1>2, <1>3 DEF Inflight, Loose, Tasked
  <2>2. r \notin Tasked' /\ (r \in Loose' <=> e.status = "loose")
    BY <1>2, <1>3 DEF Loose, Tasked
  <2>3. Tasked' \subseteq keep /\ Loose' \subseteq keep
    BY <1>3 DEF Loose, Tasked
  <2> QED
    BY <2>1, <2>2, <2>3 DEF Inflight
<1>6. TypeOK'
  <2>1. DOMAIN runs' \subseteq RunIds /\ \A q \in DOMAIN runs' : runs'[q] \in RunRows
    BY <1>2, <1>3 DEF TypeOK
  <2>2. streak' \in 0..2
    BY DEF TypeOK, Longer
  <2> QED
    BY <2>1, <2>2 DEF TypeOK
<1>7. RunsInv'
  <2>1. \A x \in keep : \A q \in RunIds : x <= q /\ q < nextId => q \in keep
    BY <1>2 DEF RunsInv, TypeOK, RunIds
  <2>2. \A q \in keep :
         /\ runs'[q].status = "running" => runs'[q].started
         /\ runs'[q].status \in {"loaded", "running"} /\ ~runs'[q].old => runs'[q].input = InputOf(row)
    BY <1>2, <1>3 DEF RunsInv
  <2>3. keep \subseteq 1..(nextId - 1)
    BY <1>2 DEF RunsInv
  <2>4. Inflight' \subseteq {nextId - 1}
    BY <1>1, <1>5
  <2> QED
    BY <1>3, <1>4, <2>1, <2>2, <2>3, <2>4 DEF RunsInv
<1>8. RowCoherent' /\ UserParamsKept'
  BY <1>1 DEF RowCoherent, UserParamsKept
<1>9. CallInv' /\ NoThirdRun'
  BY DEF CallInv, CallOK, NoThirdRun, RetentionOK
<1>10. PendingServed' /\ LooseInv' /\ SendInv'
  BY <1>1, <1>5 DEF PendingServed, LooseInv, SendInv
<1>11. StreakInv'
  <2>0. RetentionOK => row.retention >= 2 /\ row'.retention >= 2
    BY <1>1 DEF StreakInv
  <2> SUFFICES ASSUME RetentionOK, streak' # 0
               PROVE  /\ Counted' \ Inflight' # {}
                      /\ streak' = 2 => \E x, y \in Counted' : x # y
    BY <2>0 DEF StreakInv, RetentionOK
  <2>1. /\ e.status # "success"
        /\ streak' # 1 \/ streak # 0 \/ (e.status = "failed" /\ e.started)
        /\ streak' = 2 => streak = 2 \/ (streak >= 1 /\ e.status = "failed" /\ e.started)
    BY DEF Longer, TypeOK
  <2>2. Successes' = Successes \cap keep /\ r \notin Successes
    <3>1. r \notin Successes
      BY DEF Successes, Tasked
    <3>2. \A q \in keep : q \in Successes' <=> q \in Successes
      BY <1>2, <1>3, <2>1, <3>1 DEF Successes
    <3>3. Successes' \subseteq keep
      BY <1>3 DEF Successes
    <3> QED
      BY <3>1, <3>2, <3>3
  <2>3. \A q \in Successes : q \in D /\ q < r /\ q \in Nat
    BY <1>1, <1>2, <2>2 DEF Successes, TypeOK, RunIds
  <2>4. e.started => r \in Counted'
    BY <1>1, <1>2, <1>3, <2>2, <2>3 DEF Counted
  \* A row of an earlier failure, if there is one.
  <2>5. streak # 0 => \E p \in Counted : p # r
    BY <1>1 DEF StreakInv, TypeOK
  <2>6. CASE Successes' = {}
    <3>1. Counted' = keep
      BY <1>3, <2>6 DEF Counted
    <3>2. streak # 0 => r - 1 \in keep
      <4> SUFFICES ASSUME streak # 0 PROVE r - 1 \in keep
        OBVIOUS
      <4>1. PICK p \in Counted : p # r
        BY <2>5
      <4>2. p \in D /\ p \in Nat /\ p < r /\ p >= 1
        BY <1>1, <1>2, <4>1 DEF Counted, TypeOK, RunIds
      <4>3. r - 1 \in RunIds /\ p <= r - 1 /\ r - 1 < nextId
        <5>1. nextId \in Nat /\ r - 1 >= 1 /\ r <= MaxRuns
          BY <1>1, <4>2, Bounds DEF TypeOK, RunIds
        <5> QED
          BY <1>1, <4>2, <5>1, Bounds DEF RunIds
      <4>4. r - 1 \in D
        BY <4>2, <4>3 DEF RunsInv
      <4> QED
        BY <1>2, <2>0, <4>4
    <3>3. r - 1 # r
      BY <1>1
    <3>4. CASE streak # 0
      BY <1>2, <1>5, <3>1, <3>2, <3>3, <3>4
    <3>5. CASE streak = 0
      BY <1>2, <1>5, <2>1, <3>1, <3>5 DEF TypeOK, Longer
    <3> QED
      BY <3>4, <3>5
  <2>7. CASE Successes' # {}
    <3>1. PICK s \in Successes : s \in keep
      BY <2>2, <2>7
    <3>2. ASSUME NEW p \in Counted, p # r PROVE p \in Counted'
      <4>1. p \in D /\ p \in Nat /\ p > s /\ runs[p].started /\ \A q \in Successes : p > q
        BY <3>1 DEF Counted, TypeOK, RunIds
      <4>2. p \in keep
        BY <1>2, <2>3, <3>1, <4>1
      <4>3. runs'[p].started
        BY <1>3, <3>2, <4>1, <4>2
      <4> QED
        BY <1>3, <2>2, <4>1, <4>2, <4>3 DEF Counted
    <3>3. r \in Counted => r \in Counted'
      <4>1. r \in Counted => runs[r].started
        BY <3>1 DEF Counted
      <4> QED
        BY <2>4, <4>1
    <3>4. CASE streak = 2
      <4>1. PICK a, b \in Counted : a # b
        BY <3>4 DEF StreakInv
      <4>2. a \in Counted' /\ b \in Counted'
        BY <3>2, <3>3
      <4>3. a \notin Inflight' \/ b \notin Inflight'
        BY <1>5, <4>1
      <4> QED
        BY <4>1, <4>2, <4>3
    <3>5. CASE streak = 1
      <4>1. PICK p \in Counted : p # r
        BY <2>5, <3>5
      <4>2. p \in Counted' /\ p \notin Inflight'
        BY <1>5, <3>2, <4>1
      <4>3. streak' = 2 => r \in Counted'
        BY <2>1, <2>4, <3>5
      <4> QED
        BY <4>1, <4>2, <4>3
    <3>6. CASE streak = 0
      <4>1. e.status = "failed" /\ e.started /\ streak' = 1
        BY <3>6 DEF Longer
      <4> QED
        BY <1>5, <2>4, <4>1
    <3> QED
      BY <3>4, <3>5, <3>6 DEF TypeOK
  <2> QED
    BY <2>6, <2>7
<1> QED
  BY <1>6, <1>7, <1>8, <1>9, <1>10, <1>11

\* What a worker writes to the portfolio, and the row it leaves of its run.
LEMMA EndTypes ==
    ASSUME TypeOK, NEW st \in {"ready", "failed"}, NEW snap \in 0..MaxRuns,
           row' = [row EXCEPT !.status = st, !.snap = snap]
    PROVE  /\ row' \in Rows /\ row'.status = st /\ row'.official = row.official
           /\ row'.ver = row.ver /\ row'.describe = row.describe /\ row'.params = row.params
           /\ row'.preset = row.preset /\ row'.retention = row.retention
BY DEF TypeOK, Rows

LEMMA RunRowType ==
    ASSUME NEW st \in {"success", "failed", "loose"}, NEW started \in BOOLEAN
    PROVE  /\ RunRow(st, started) \in RunRows
           /\ RunRow(st, started).status = st /\ RunRow(st, started).started = started
BY EmptyTypes DEF RunRow, RunRows

LEMMA FinishKeeps == ASSUME IInv, NEW r \in RunIds, NEW ok \in BOOLEAN, Finish(r, ok) PROVE IInv'
<1> DEFINE e == RunRow(IF ok THEN "success" ELSE "failed", TRUE)
           ended == [runs EXCEPT ![r] = e]
           keep == KeptRuns(ended)
<1>1. /\ r \in Tasked /\ runs[r].status = "running"
      /\ runs' = Restrict(ended, keep)
      /\ files' = (IF ok THEN files \cup {r} ELSE files) \cap keep
      /\ row' = IF ok THEN [row EXCEPT !.status = "ready", !.snap = r]
                ELSE [row EXCEPT !.status = "failed"]
      /\ computed' = IF ok THEN [input |-> runs[r].input, old |-> runs[r].old] ELSE computed
      /\ streak' = IF ok THEN 0 ELSE Longer
      /\ UNCHANGED <<registry, call, nextId, budget, given, stale, dropped>>
  BY DEF Finish
<1>2. e \in RunRows /\ e.status = (IF ok THEN "success" ELSE "failed") /\ e.started
  BY RunRowType
<1>3. row' = [row EXCEPT !.status = IF ok THEN "ready" ELSE "failed", !.snap = IF ok THEN r ELSE row.snap]
  BY <1>1 DEF IInv, TypeOK, Rows
<1>4. /\ row' \in Rows /\ row'.status = (IF ok THEN "ready" ELSE "failed")
      /\ row'.official = row.official
      /\ row'.ver = row.ver /\ row'.describe = row.describe /\ row'.params = row.params
      /\ row'.preset = row.preset /\ row'.retention = row.retention
  <2>1. r \in 0..MaxRuns /\ row.snap \in 0..MaxRuns
    BY Bounds DEF RunIds, IInv, TypeOK, Rows
  <2> QED
    BY <1>3, <2>1, EndTypes DEF IInv
<1>5. r \in DOMAIN runs /\ runs[r] \in RunRows
  BY <1>1, NewestTasked
<1>6. computed' \in [input : Inputs, old : BOOLEAN] /\ files' \subseteq RunIds
      /\ budget' \in [requests : 0..MaxRequests, faults : 0..MaxFaults] /\ dropped' \in BOOLEAN
  BY <1>1, <1>5 DEF IInv, TypeOK, RunRows
<1>7. SnapshotOfRow'
  <2>1. CASE ok
    BY <1>1, <1>4, <1>5, <2>1 DEF SnapshotOfRow, IInv, RunsInv, InputOf
  <2>2. CASE ~ok
    BY <1>4, <2>2 DEF SnapshotOfRow
  <2> QED
    BY <2>1, <2>2
<1>8. \/ streak' = 0
      \/ e.status # "success" /\ streak' = streak
      \/ e.status = "failed" /\ e.started /\ streak' = Longer
  BY <1>1, <1>2
<1>9. DOMAIN ended = DOMAIN runs /\ ended[r] = e /\ \A q \in DOMAIN runs : q # r => ended[q] = runs[q]
  BY <1>1, NewestTasked
<1> HIDE DEF e, keep, ended
<1>10. keep \in {DOMAIN runs, KeptRuns(ended)}
  BY DEF keep
<1>11. /\ e.status \in {"success", "failed", "loose"} /\ (e.status = "loose" => dropped')
       /\ row'.status # "none" /\ row'.status # "pending"
  BY <1>2, <1>4
<1>12. /\ r \in Tasked /\ e \in RunRows
       /\ e.status \in {"success", "failed", "loose"} /\ (runs[r].started => e.started)
       /\ keep \in {DOMAIN runs, KeptRuns(ended)}
       /\ runs' = Restrict(ended, keep) /\ files' \subseteq RunIds
  BY <1>1, <1>2, <1>4, <1>6, <1>7, <1>8, <1>10, <1>11
<1>13. /\ row' \in Rows /\ row'.status # "none" /\ row'.official = row.official /\ row'.ver = row.ver
       /\ row'.describe = row.describe /\ row'.params = row.params /\ row'.preset = row.preset
       /\ row'.retention = row.retention
       /\ dropped' \in BOOLEAN /\ (row'.status # "pending" \/ dropped') /\ (e.status = "loose" => dropped')
  BY <1>1, <1>2, <1>4, <1>6, <1>7, <1>8, <1>10, <1>11
<1>14. UNCHANGED <<registry, call, nextId, given, stale>>
  BY <1>1, <1>2, <1>4, <1>6, <1>7, <1>8, <1>10, <1>11
<1>15. \/ streak' = 0
       \/ e.status # "success" /\ streak' = streak
       \/ e.status = "failed" /\ e.started /\ streak' = Longer
  BY <1>1, <1>2, <1>4, <1>6, <1>7, <1>8, <1>10, <1>11
<1> QED
  BY <1>12, <1>13, <1>14, <1>15, <1>9, <1>6, <1>7, WorkerEnds

LEMMA FailRunKeeps == ASSUME IInv, NEW r \in RunIds, FailRun(r) PROVE IInv'
<1> DEFINE e == RunRow("failed", runs[r].started)
           ended == [runs EXCEPT ![r] = e]
           keep == KeptRuns(ended)
<1>1. /\ r \in Tasked /\ Fault
      /\ runs' = Restrict(ended, keep)
      /\ files' = files \cap keep
      /\ row' = [row EXCEPT !.status = "failed"]
      /\ UNCHANGED <<registry, call, nextId, history>>
  BY DEF FailRun
<1>2. e \in RunRows /\ e.status = "failed" /\ e.started = runs[r].started
  <2>1. runs[r].started \in BOOLEAN
    BY <1>1, NewestTasked DEF RunRows
  <2> QED
    BY <2>1, RunRowType
<1>3. row' = [row EXCEPT !.status = "failed", !.snap = row.snap]
  BY <1>1 DEF IInv, TypeOK, Rows
<1>4. /\ row' \in Rows /\ row'.status = "failed" /\ row'.official = row.official
      /\ row'.ver = row.ver /\ row'.describe = row.describe /\ row'.params = row.params
      /\ row'.preset = row.preset /\ row'.retention = row.retention
  <2>1. row.snap \in 0..MaxRuns
    BY DEF IInv, TypeOK, Rows
  <2> QED
    BY <1>3, <2>1, EndTypes DEF IInv
<1>5. /\ computed' \in [input : Inputs, old : BOOLEAN] /\ files' \subseteq RunIds
      /\ dropped' \in BOOLEAN /\ UNCHANGED <<given, stale, streak>>
  BY <1>1 DEF IInv, TypeOK, history
<1>6. budget' \in [requests : 0..MaxRequests, faults : 0..MaxFaults]
  BY <1>1, FaultType DEF IInv
<1>7. SnapshotOfRow'
  BY <1>4 DEF SnapshotOfRow
<1>8. DOMAIN ended = DOMAIN runs /\ ended[r] = e /\ \A q \in DOMAIN runs : q # r => ended[q] = runs[q]
  BY <1>1, NewestTasked
<1> HIDE DEF e, keep, ended
<1>9. keep \in {DOMAIN runs, KeptRuns(ended)}
  BY DEF keep
<1>10. /\ e.status \in {"success", "failed", "loose"} /\ (e.status = "loose" => dropped')
      /\ row'.status # "none" /\ row'.status # "pending" /\ e.status # "success"
  BY <1>2, <1>4
<1>11. /\ r \in Tasked /\ e \in RunRows
       /\ e.status \in {"success", "failed", "loose"} /\ (runs[r].started => e.started)
       /\ keep \in {DOMAIN runs, KeptRuns(ended)}
       /\ runs' = Restrict(ended, keep) /\ files' \subseteq RunIds
  BY <1>1, <1>2, <1>4, <1>5, <1>6, <1>7, <1>9, <1>10
<1>12. /\ row' \in Rows /\ row'.status # "none" /\ row'.official = row.official /\ row'.ver = row.ver
       /\ row'.describe = row.describe /\ row'.params = row.params /\ row'.preset = row.preset
       /\ row'.retention = row.retention
       /\ dropped' \in BOOLEAN /\ (row'.status # "pending" \/ dropped') /\ (e.status = "loose" => dropped')
  BY <1>1, <1>2, <1>4, <1>5, <1>6, <1>7, <1>9, <1>10
<1>13. UNCHANGED <<registry, call, nextId, given, stale>>
  BY <1>1, <1>2, <1>4, <1>5, <1>6, <1>7, <1>9, <1>10
<1>14. \/ streak' = 0
       \/ e.status # "success" /\ streak' = streak
       \/ e.status = "failed" /\ e.started /\ streak' = Longer
  BY <1>1, <1>2, <1>4, <1>5, <1>6, <1>7, <1>9, <1>10
<1> QED
  BY <1>11, <1>12, <1>13, <1>14, <1>8, <1>5, <1>6, <1>7, WorkerEnds

LEMMA AbandonKeeps ==
    ASSUME IInv, NEW r \in RunIds, NEW prunes \in BOOLEAN, Abandon(r, prunes) PROVE IInv'
<1> DEFINE e == RunRow("loose", runs[r].started)
           ended == [runs EXCEPT ![r] = e]
           keep == IF prunes THEN KeptRuns(ended) ELSE DOMAIN runs
<1>1. /\ r \in Tasked /\ Fault
      /\ runs' = Restrict(ended, keep)
      /\ files' = IF prunes THEN files \cap keep ELSE files
      /\ dropped' = TRUE
      /\ UNCHANGED <<row, registry, call, nextId, given, stale, computed, streak>>
  BY DEF Abandon
<1>2. e \in RunRows /\ e.status = "loose" /\ e.started = runs[r].started
  <2>1. runs[r].started \in BOOLEAN
    BY <1>1, NewestTasked DEF RunRows
  <2> QED
    BY <2>1, RunRowType
<1>3. row' \in Rows /\ row'.status # "none"
  BY <1>1, NewestTasked DEF IInv, TypeOK, Exists
<1>4. /\ computed' \in [input : Inputs, old : BOOLEAN] /\ files' \subseteq RunIds
  BY <1>1 DEF IInv, TypeOK
<1>5. budget' \in [requests : 0..MaxRequests, faults : 0..MaxFaults]
  BY <1>1, FaultType DEF IInv
<1>6. SnapshotOfRow'
  BY <1>1 DEF IInv, SnapshotOfRow, InputOf
<1>7. keep \in {DOMAIN runs, KeptRuns(ended)}
  OBVIOUS
<1>8. DOMAIN ended = DOMAIN runs /\ ended[r] = e /\ \A q \in DOMAIN runs : q # r => ended[q] = runs[q]
  BY <1>1, NewestTasked
<1> HIDE DEF e, keep, ended
<1>9. /\ e.status \in {"success", "failed", "loose"} /\ e.status # "success"
      /\ dropped' \in BOOLEAN
  BY <1>1, <1>2
<1>10. /\ r \in Tasked /\ e \in RunRows
       /\ e.status \in {"success", "failed", "loose"} /\ (runs[r].started => e.started)
       /\ keep \in {DOMAIN runs, KeptRuns(ended)}
       /\ runs' = Restrict(ended, keep) /\ files' \subseteq RunIds
  BY <1>1, <1>2, <1>3, <1>4, <1>5, <1>6, <1>7, <1>9
<1>11. /\ row' \in Rows /\ row'.status # "none" /\ row'.official = row.official /\ row'.ver = row.ver
       /\ row'.describe = row.describe /\ row'.params = row.params /\ row'.preset = row.preset
       /\ row'.retention = row.retention
       /\ dropped' \in BOOLEAN /\ (row'.status # "pending" \/ dropped') /\ (e.status = "loose" => dropped')
  BY <1>1, <1>2, <1>3, <1>4, <1>5, <1>6, <1>7, <1>9
<1>12. UNCHANGED <<registry, call, nextId, given, stale>>
  BY <1>1, <1>2, <1>3, <1>4, <1>5, <1>6, <1>7, <1>9
<1>13. \/ streak' = 0
       \/ e.status # "success" /\ streak' = streak
       \/ e.status = "failed" /\ e.started /\ streak' = Longer
  BY <1>1, <1>2, <1>3, <1>4, <1>5, <1>6, <1>7, <1>9
<1> QED
  BY <1>10, <1>11, <1>12, <1>13, <1>8, <1>4, <1>5, <1>6, WorkerEnds

-----------------------------------------------------------------------------
(* A restart. *)

LEMMA RestartKeeps == ASSUME IInv, Restart PROVE IInv'
<1> USE DEF IInv
<1>1. /\ Fault /\ call' = [c \in Procs |-> Idle]
      /\ runs' = [r \in DOMAIN runs |->
                 IF r \in Inflight THEN RunRow("failed", runs[r].started) ELSE runs[r]]
      /\ row' = IF row.status = "running" THEN [row EXCEPT !.status = "failed"] ELSE row
      /\ streak' = IF \E r \in Inflight : runs[r].started THEN Longer ELSE streak
      /\ dropped' = TRUE
      /\ UNCHANGED <<files, registry, nextId, given, stale, computed>>
  BY DEF Restart
<1>2. /\ DOMAIN runs' = DOMAIN runs
      /\ \A r \in DOMAIN runs : /\ runs'[r] \in RunRows /\ runs'[r].started = runs[r].started
                                /\ runs'[r].status = IF r \in Inflight THEN "failed" ELSE runs[r].status
  <2> SUFFICES ASSUME NEW r \in DOMAIN runs
               PROVE  /\ runs'[r] \in RunRows /\ runs'[r].started = runs[r].started
                      /\ runs'[r].status = IF r \in Inflight THEN "failed" ELSE runs[r].status
    BY <1>1
  <2>1. runs[r] \in RunRows /\ runs[r].started \in BOOLEAN
    BY DEF TypeOK, RunRows
  <2>2. CASE r \in Inflight
    <3>1. runs'[r] = RunRow("failed", runs[r].started)
      BY <1>1, <2>2
    <3> QED
      BY <2>1, <2>2, <3>1, RunRowType
  <2>3. CASE r \notin Inflight
    BY <1>1, <2>1, <2>3
  <2> QED
    BY <2>2, <2>3
<1>3. /\ row' \in Rows /\ row'.official = row.official
      /\ row'.ver = row.ver /\ row'.describe = row.describe /\ row'.params = row.params
      /\ row'.preset = row.preset /\ row'.retention = row.retention
      /\ row'.status = (IF row.status = "running" THEN "failed" ELSE row.status)
  BY <1>1 DEF TypeOK, Rows
<1>4. InputOf(row') = InputOf(row) /\ (Exists' <=> Exists)
  BY <1>3 DEF InputOf, Exists
<1>5. Loose' = {} /\ Tasked' = {} /\ Inflight' = {} /\ Successes' = Successes
  <2>1. Loose' = {} /\ Tasked' = {}
    BY <1>2 DEF Inflight, Loose, Tasked
  <2>2. Successes' = Successes
    BY <1>2 DEF Inflight, Loose, Tasked, Successes
  <2> QED
    BY <2>1, <2>2 DEF Inflight
<1>6. Counted' = Counted
  BY <1>2, <1>5 DEF Counted
<1>7. \A c \in Procs : call'[c] = Idle
  BY <1>1
<1>8. TypeOK'
  <2>1. call' \in [Procs -> Calls]
    BY <1>1, EmptyTypes
  <2>2. streak' \in 0..2
    BY <1>1 DEF TypeOK, Longer
  <2>3. budget' \in [requests : 0..MaxRequests, faults : 0..MaxFaults]
    BY <1>1, FaultType
  <2> QED
    BY <1>1, <1>2, <1>3, <2>1, <2>2, <2>3 DEF TypeOK
<1>9. RunsInv'
  <2>1. \A r \in DOMAIN runs : runs'[r].status \notin {"loaded", "running"}
    BY <1>2 DEF Inflight, Tasked
  <2> QED
    BY <1>1, <1>2, <1>4, <1>5, <2>1 DEF RunsInv
<1>10. RowCoherent' /\ UserParamsKept' /\ SnapshotOfRow'
  BY <1>1, <1>3, <1>4 DEF RowCoherent, UserParamsKept, SnapshotOfRow
<1>11. CallInv' /\ NoThirdRun' /\ SendInv'
  BY <1>7, EmptyTypes, IdleOK DEF CallInv, NoThirdRun, SendInv, Procs
<1>12. PendingServed' /\ LooseInv'
  BY <1>1 DEF PendingServed, LooseInv
<1>13. StreakInv'
  <2>1. ASSUME NEW r \in Inflight, runs[r].started PROVE r \in Counted
    <3>1. r = nextId - 1 /\ r \in DOMAIN runs /\ r \notin Successes
      BY NewestInflight DEF Inflight, Loose, Tasked, Successes
    <3>2. \A q \in Successes : q \in 1..(nextId - 1)
      BY DEF RunsInv, Successes
    <3>3. nextId \in Nat
      BY DEF TypeOK
    <3>4. \A q \in Successes : r > q
      BY <3>1, <3>2, <3>3
    <3> QED
      BY <2>1, <3>1, <3>4 DEF Counted
  <2> SUFFICES ASSUME RetentionOK, streak' # 0
               PROVE  /\ Counted # {}
                      /\ streak' = 2 => \E x, y \in Counted : x # y
    BY <1>3, <1>4, <1>5, <1>6 DEF StreakInv, RetentionOK
  <2>2. CASE streak' = streak
    BY <2>2 DEF StreakInv, TypeOK
  <2>3. CASE streak' # streak
    <3>1. PICK r \in Inflight : runs[r].started
      BY <1>1, <2>3
    <3>2. streak' = 2 => streak = 1
      BY <1>1, <2>3 DEF Longer, TypeOK
    <3>3. streak = 1 => \E p \in Counted : p \notin Inflight
      BY DEF StreakInv
    <3> QED
      BY <2>1, <3>1, <3>2, <3>3
  <2> QED
    BY <2>2, <2>3
<1> QED
  BY <1>8, <1>9, <1>10, <1>11, <1>12, <1>13

-----------------------------------------------------------------------------

LEMMA InitIInv == ASSUME Init PROVE IInv
<1>1. /\ row = None /\ row \in Rows /\ row.status = "none" /\ DOMAIN runs = {} /\ files = {}
      /\ registry \in [ver : Versions, err : BOOLEAN]
      /\ call = [c \in Procs |-> Idle] /\ nextId = 1
      /\ budget = [requests |-> MaxRequests, faults |-> MaxFaults]
      /\ given = <<>> /\ stale = FALSE /\ computed = [input |-> NoInput, old |-> FALSE]
      /\ dropped = FALSE /\ streak = 0
  BY EmptyTypes, NoParams, Bounds DEF Init
<1>2. TypeOK
  <2>1. computed \in [input : Inputs, old : BOOLEAN] /\ given \in Params
    BY <1>1, NoParams, EmptyTypes
  <2>2. call \in [Procs -> Calls] /\ nextId \in 1..(MaxRuns + 1)
    BY <1>1, EmptyTypes, Bounds
  <2>3. stale \in BOOLEAN /\ dropped \in BOOLEAN
    BY <1>1
  <2>4. budget \in [requests : 0..MaxRequests, faults : 0..MaxFaults]
    BY <1>1, Bounds
  <2>5. DOMAIN runs \subseteq RunIds /\ (\A r \in DOMAIN runs : runs[r] \in RunRows)
        /\ files \subseteq RunIds /\ streak \in 0..2
    BY <1>1
  <2> QED
    BY <1>1, <2>1, <2>2, <2>3, <2>4, <2>5 DEF TypeOK
<1>3. RunsInv /\ RowCoherent /\ UserParamsKept /\ SnapshotOfRow
  BY <1>1 DEF RunsInv, Inflight, Loose, Tasked, Exists, RowCoherent, UserParamsKept, SnapshotOfRow
<1>4. CallInv
  BY <1>1, IdleOK DEF CallInv
<1>5. NoThirdRun
  BY <1>1, EmptyTypes DEF NoThirdRun, Procs
<1>6. PendingServed /\ StreakInv /\ LooseInv /\ SendInv
  BY <1>1, EmptyTypes DEF PendingServed, StreakInv, LooseInv, SendInv, Loose, Exists
<1> QED
  BY <1>2, <1>3, <1>4, <1>5, <1>6 DEF IInv

LEMMA NextIInv == ASSUME IInv, [Next]_vars PROVE IInv'
<1>1. ASSUME NEW c \in Clients, budget.requests > 0, budget' = [budget EXCEPT !.requests = @ - 1],
             Request(c)
      PROVE  IInv'
  <2>1. budget' \in [requests : 0..MaxRequests, faults : 0..MaxFaults]
    BY <1>1, BudgetType DEF IInv
  <2>2. \A body \in Bodies : body \in Params
    BY Bounds
  <2> QED
    BY <1>1, <2>1, <2>2, NoParams, CreateKeeps, CreateRunKeeps, ReadSnapshotKeeps, DeleteKeeps,
       LoadUpgradePortfolioKeeps, PatchKeeps
    DEF Request
<1>2. ASSUME NEW c \in Clients,
             RespondRecalculating(c) \/ LoadUpgradeStrategy(c) \/ Rollback(c) \/ RollbackFails(c)
      PROVE  IInv'
  BY <1>2, RespondRecalculatingKeeps, LoadUpgradeStrategyKeeps, RollbackKeeps, RollbackFailsKeeps
<1>3. ASSUME NEW u \in Upgraders, AutoLoadStrategy(u) \/ AutoListPortfolios(u) PROVE IInv'
  BY <1>3, AutoLoadStrategyKeeps, AutoListPortfoliosKeeps
<1>4. ASSUME NEW c \in Procs,
             \/ ApplyUpgrade(c) \/ Submit(c) \/ Send(c) \/ GiveUp(c)
             \/ \E ghost \in BOOLEAN : SubmitFails(c, ghost)
             \/ \E recorded \in BOOLEAN : Refuse(c, recorded)
      PROVE  IInv'
  BY <1>4, ApplyUpgradeKeeps, SubmitKeeps, SendKeeps, GiveUpKeeps, SubmitFailsKeeps, RefuseKeeps
<1>5. ASSUME NEW r \in RunIds,
             \/ Load(r) \/ MarkRunning(r) \/ FailRun(r)
             \/ \E ok \in BOOLEAN : Finish(r, ok)
             \/ \E prunes \in BOOLEAN : Abandon(r, prunes)
      PROVE  IInv'
  BY <1>5, LoadKeeps, MarkRunningKeeps, FailRunKeeps, FinishKeeps, AbandonKeeps
<1>6. CASE UNCHANGED vars
  <2>1. /\ UNCHANGED <<row, runs, nextId, call, history>> /\ files' \subseteq RunIds
        /\ budget' \in [requests : 0..MaxRequests, faults : 0..MaxFaults]
        /\ registry' \in [ver : Versions, err : BOOLEAN]
    BY <1>6 DEF vars, tables, history, IInv, TypeOK
  <2> QED
    BY <2>1, QuietStepKeeps
<1> QED
  BY <1>1, <1>2, <1>3, <1>4, <1>5, <1>6, InstallKeeps, InstallFailsKeeps, LoseSnapshotKeeps,
     RestartKeeps
  DEF Next

\* The inductive invariant holds in every state.
THEOREM Invariance == Spec => []IInv
BY InitIInv, NextIInv, PTL DEF Spec

\* Type correctness: the rows the handlers and the worker write are the ones
\* the schema has.
THEOREM TypeCorrect == Spec => []TypeOK
<1>1. IInv => TypeOK
  BY DEF IInv
<1> QED
  BY <1>1, Invariance, PTL

\* Version, describe, parameters and preset of the row agree, whatever requests
\* and automatic upgrades interleave (doUpgrade writes them in one UPDATE from
\* values validated together).
THEOREM RowCoherentHolds == Spec => []RowCoherent
<1>1. IInv => RowCoherent
  BY DEF IInv
<1> QED
  BY <1>1, Invariance, PTL

\* mergeKeptAndDefaults loses nothing the user gave, as long as no upgrade was
\* computed from a row that another one had replaced.
THEOREM UserParamsKeptHolds == Spec => []UserParamsKept
<1>1. IInv => UserParamsKept
  BY DEF IInv
<1> QED
  BY <1>1, Invariance, PTL

\* A ready portfolio shows what its version and parameters compute, unless it
\* was upgraded while the run that made it ready was under way.
THEOREM SnapshotOfRowHolds == Spec => []SnapshotOfRow
<1>1. IInv => SnapshotOfRow
  BY DEF IInv
<1> QED
  BY <1>1, Invariance, PTL

\* A pending portfolio has a run with the dispatcher or a worker, or a request
\* at work on it, or what should have served it was dropped: refused by the full
\* queue, failed in the database, or lost in a restart (Dispatcher.Submit,
\* doUpgrade, insertAndDispatch, MarkAllRunningAsFailed).
THEOREM PendingServedHolds == Spec => []PendingServed
<1>1. IInv => PendingServed
  BY DEF IInv
<1> QED
  BY <1>1, Invariance, PTL

\* respondRecalculating never queues a third run behind two failed ones that had
\* started, with a retention of two or more, whatever fails before its start.
THEOREM NoThirdRunHolds == Spec => []NoThirdRun
<1>1. IInv => NoThirdRun
  BY DEF IInv
<1> QED
  BY <1>1, Invariance, PTL

-----------------------------------------------------------------------------
(* Versions only advance. *)

LEMMA VersionTypes ==
    ASSUME TypeOK
    PROVE  /\ row.ver \in Nat /\ registry.ver \in Nat
           /\ \A c \in Procs : call[c].s \in Nat /\ call[c].new \in Nat /\ call[c].p.ver \in Nat
BY Bounds DEF TypeOK, Rows, Calls

\* A process that carries no version satisfies the invariant.
LEMMA NoVersions ==
    ASSUME NEW x, NEW v, x.pc \notin {"strategy", "list", "apply"} PROVE VersionsOK(x, v)
BY DEF VersionsOK

\* A step of one process, while the registry does not go back.
LEMMA VersionCall ==
    ASSUME TypeOK, TypeOK', VersionInv, NEW c \in Procs, NEW x, call' = [call EXCEPT ![c] = x],
           VersionsOK(x, registry'.ver), row'.ver <= registry'.ver, registry.ver <= registry'.ver
    PROVE  VersionInv'
<1> SUFFICES ASSUME NEW d \in Procs PROVE VersionsOK(call'[d], registry'.ver)
  BY DEF VersionInv
<1>1. CASE d = c
  BY <1>1 DEF TypeOK
<1>2. CASE d # c
  <2>1. call'[d] = call[d] /\ VersionsOK(call[d], registry.ver)
    BY <1>2 DEF TypeOK, VersionInv
  <2>2. registry.ver \in Nat /\ registry'.ver \in Nat
    BY VersionTypes, Bounds DEF TypeOK
  <2> QED
    BY <2>1, <2>2, VersionTypes DEF VersionsOK
<1> QED
  BY <1>1, <1>2

\* A step of no process, which does not touch the versions.
LEMMA VersionQuiet ==
    ASSUME VersionInv, call' = call, row'.ver = row.ver, registry'.ver = registry.ver
    PROVE  VersionInv'
BY DEF VersionInv

LEMMA VersionRequest ==
    ASSUME IInv, IInv', VersionInv, NEW c \in Clients, Request(c) PROVE VersionInv'
<1> USE DEF tables
<1> c \in Procs /\ TypeOK /\ TypeOK'
  BY DEF Procs, IInv
<1>1. ASSUME NEW official \in BOOLEAN, NEW params \in Bodies, Create(c, official, params)
      PROVE  VersionInv'
  <2> DEFINE x == [Idle EXCEPT !.pc = "submit", !.op = "create", !.p = None]
  <2>1. call' = [call EXCEPT ![c] = x] /\ UNCHANGED registry
    BY <1>1 DEF Create, Begin
  <2>0. x.pc = "submit"
    BY DEF Idle
  <2>2. VersionsOK(x, registry'.ver)
    BY <2>0 DEF VersionsOK
  <2>3. row'.ver <= registry'.ver
    BY <1>1, VersionTypes DEF Create, NewRow
  <2>4. registry.ver <= registry'.ver
    BY <2>1, VersionTypes
  <2> HIDE DEF x
  <2> QED
    BY <2>1, <2>2, <2>3, <2>4, VersionCall
<1>2. CASE CreateRun(c)
  <2> DEFINE x == [Idle EXCEPT !.pc = "submit", !.op = "run", !.p = None]
  <2>1. call' = [call EXCEPT ![c] = x] /\ UNCHANGED <<row, registry>>
    BY <1>2 DEF CreateRun, Begin
  <2>0. x.pc = "submit"
    BY DEF Idle
  <2>2. VersionsOK(x, registry'.ver)
    BY <2>0 DEF VersionsOK
  <2>3. row'.ver <= registry'.ver /\ registry.ver <= registry'.ver
    BY <2>1, VersionTypes DEF VersionInv
  <2> HIDE DEF x
  <2> QED
    BY <2>1, <2>2, <2>3, VersionCall
<1>3. CASE ReadSnapshot(c)
  <2> DEFINE x == [Idle EXCEPT !.pc = "list", !.op = "read", !.p = StatusOnly(row),
                               !.doomed = row.status = "failed" /\ streak = 2]
  <2>1. call' = [call EXCEPT ![c] = x] /\ UNCHANGED <<row, registry>>
    BY <1>3 DEF ReadSnapshot
  <2>2. x.pc = "list" /\ x.op = "read" /\ x.s = 0
    BY DEF Idle
  <2>3. VersionsOK(x, registry'.ver)
    BY <2>1, <2>2, VersionTypes DEF VersionsOK
  <2>4. row'.ver <= registry'.ver /\ registry.ver <= registry'.ver
    BY <2>1, VersionTypes DEF VersionInv
  <2> HIDE DEF x
  <2> QED
    BY <2>1, <2>3, <2>4, VersionCall
<1>4. CASE Delete(c)
  <2>1. call' = call /\ registry' = registry /\ row'.ver = 0
    BY <1>4, EmptyTypes DEF Delete, DeleteRow
  <2> QED
    BY <2>1, VersionTypes DEF VersionInv
<1>5. ASSUME NEW body, NEW explicit, LoadUpgradePortfolio(c, body, explicit) PROVE VersionInv'
  <2> DEFINE x == [Idle EXCEPT !.pc = "strategy", !.op = "upgrade", !.p = UpgradeView(row),
                               !.body = body, !.explicit = explicit]
  <2>1. call' = [call EXCEPT ![c] = x] /\ UNCHANGED <<row, registry>>
    BY <1>5 DEF LoadUpgradePortfolio
  <2>2. x.pc = "strategy" /\ x.op = "upgrade" /\ x.p = UpgradeView(row)
    BY DEF Idle
  <2>3. x.p.ver = row.ver
    BY <2>2, ViewTypes DEF TypeOK
  <2>4. row'.ver <= registry'.ver /\ registry.ver <= registry'.ver
    BY <2>1, VersionTypes DEF VersionInv
  <2>5. VersionsOK(x, registry'.ver)
    BY <2>1, <2>2, <2>3, <2>4 DEF VersionsOK
  <2> HIDE DEF x
  <2> QED
    BY <2>1, <2>4, <2>5, VersionCall
<1>6. ASSUME NEW n \in Retentions, Patch(c, n) PROVE VersionInv'
  <2>1. call' = call /\ registry' = registry /\ row'.ver = row.ver
    BY <1>6 DEF Patch, TypeOK, Rows
  <2> QED
    BY <2>1, VersionQuiet
<1> QED
  BY <1>1, <1>2, <1>3, <1>4, <1>5, <1>6 DEF Request

\* A process that leaves, or moves on without a version.
LEMMA VersionLeave ==
    ASSUME TypeOK, TypeOK', VersionInv, NEW c \in Procs, NEW x, call' = [call EXCEPT ![c] = x],
           x.pc \notin {"strategy", "list", "apply"}, row'.ver <= registry.ver, UNCHANGED registry
    PROVE  VersionInv'
<1>1. VersionsOK(x, registry'.ver)
  BY NoVersions
<1>2. registry.ver <= registry'.ver
  BY VersionTypes
<1> QED
  BY <1>1, <1>2, VersionCall

LEMMA VersionHandler ==
    ASSUME IInv, IInv', VersionInv, NEW c \in Clients,
           RespondRecalculating(c) \/ LoadUpgradeStrategy(c) \/ Rollback(c) \/ RollbackFails(c)
    PROVE  VersionInv'
<1> USE DEF tables
<1> c \in Procs /\ TypeOK /\ TypeOK' /\ row.ver <= registry.ver
  BY DEF Procs, IInv, VersionInv
<1>1. CASE RespondRecalculating(c)
  <2> DEFINE x == [Idle EXCEPT !.pc = "submit", !.op = "read", !.doomed = call[c].doomed /\ streak = 2]
  <2>1. UNCHANGED <<row, registry>>
        /\ (call' = [call EXCEPT ![c] = Idle] \/ call' = [call EXCEPT ![c] = x])
    BY <1>1 DEF RespondRecalculating, Leave
  <2>2. x.pc = "submit" /\ Idle.pc = "idle"
    BY DEF Idle
  <2> HIDE DEF x
  <2> QED
    BY <2>1, <2>2, VersionLeave
<1>2. CASE LoadUpgradeStrategy(c)
  <2>0. UNCHANGED <<row, registry>> /\ call[c].pc = "strategy"
    BY <1>2 DEF LoadUpgradeStrategy, At
  <2>1. CASE call' = [call EXCEPT ![c] = Idle]
    BY <2>0, <2>1, EmptyTypes, VersionLeave
  <2>2. CASE MayUpgrade(call[c].p, registry.ver, call[c].body, call[c].explicit)
             /\ call' = [call EXCEPT ![c].pc = "apply", ![c].s = registry.ver]
    <3> DEFINE x == [call[c] EXCEPT !.pc = "apply", !.s = registry.ver]
    <3>1. call' = [call EXCEPT ![c] = x]
      BY <2>2 DEF TypeOK
    <3>2. x.pc = "apply" /\ x.s = registry.ver /\ x.p = call[c].p
      BY DEF TypeOK, Calls
    <3>3. call[c].op # "auto" /\ VersionsOK(call[c], registry.ver)
      BY DEF IInv, CallInv, CallOK, VersionInv
    <3>4. call[c].p.ver < registry.ver
      BY <2>0, <2>2, <3>3, VersionTypes DEF MayUpgrade, VersionsOK
    <3>5. VersionsOK(x, registry'.ver)
      BY <2>0, <3>2, <3>4, VersionTypes DEF VersionsOK
    <3>6. row'.ver <= registry'.ver /\ registry.ver <= registry'.ver
      BY <2>0, VersionTypes
    <3> HIDE DEF x
    <3> QED
      BY <3>1, <3>5, <3>6, VersionCall
  <2> QED
    BY <1>2, <2>1, <2>2 DEF LoadUpgradeStrategy, Leave
<1>3. CASE Rollback(c)
  <2>1. call' = [call EXCEPT ![c] = Idle] /\ UNCHANGED registry /\ row'.ver \in {0, row.ver}
    BY <1>3, EmptyTypes DEF Rollback, Leave, DeleteRow
  <2>2. row'.ver <= registry.ver
    BY <2>1, VersionTypes
  <2> QED
    BY <2>1, <2>2, EmptyTypes, VersionLeave
<1>4. CASE RollbackFails(c)
  <2>1. call' = [call EXCEPT ![c] = Idle] /\ UNCHANGED <<row, registry>>
    BY <1>4 DEF RollbackFails, Leave
  <2> QED
    BY <2>1, EmptyTypes, VersionLeave
<1> QED
  BY <1>1, <1>2, <1>3, <1>4

\* AutoUpgradeAfterInstall reads the registry after the install that started it
\* and the row after that: a patch bump from the row to the version installed
\* then is an advance to the version it has read.
LEMMA VersionUpgrader ==
    ASSUME IInv, IInv', VersionInv, NEW u \in Upgraders,
           AutoLoadStrategy(u) \/ AutoListPortfolios(u)
    PROVE  VersionInv'
<1> USE DEF tables
<1> u \in Procs /\ TypeOK /\ TypeOK' /\ row.ver <= registry.ver
  BY DEF Procs, IInv, VersionInv
<1>0. UNCHANGED <<row, registry>> /\ VersionsOK(call[u], registry.ver)
  BY DEF AutoLoadStrategy, AutoListPortfolios, VersionInv
<1>1. CASE call' = [call EXCEPT ![u] = Idle]
  BY <1>0, <1>1, EmptyTypes, VersionLeave
<1>2. row'.ver <= registry'.ver /\ registry.ver <= registry'.ver
  BY <1>0, VersionTypes
<1>3. CASE At(u, "strategy") /\ call' = [call EXCEPT ![u].pc = "list", ![u].s = registry.ver]
  <2> DEFINE x == [call[u] EXCEPT !.pc = "list", !.s = registry.ver]
  <2>1. call' = [call EXCEPT ![u] = x]
    BY <1>3 DEF TypeOK
  <2>2. x.pc = "list" /\ x.s = registry.ver /\ x.new = call[u].new
    BY DEF TypeOK, Calls
  <2>3. call[u].op = "auto"
    BY <1>3, Upgrading DEF IInv, CallInv, CallOK, At
  <2>4. VersionsOK(x, registry'.ver)
    BY <1>0, <1>3, <2>2, <2>3, VersionTypes DEF VersionsOK, At
  <2> HIDE DEF x
  <2> QED
    BY <1>2, <2>1, <2>4, VersionCall
<1>4. CASE /\ At(u, "list") /\ call[u].op = "auto" /\ Eligible(row, call[u].new)
           /\ call' = [call EXCEPT ![u].pc = "apply", ![u].p = UpgradeView(row)]
  <2> DEFINE x == [call[u] EXCEPT !.pc = "apply", !.p = UpgradeView(row)]
  <2>1. call' = [call EXCEPT ![u] = x]
    BY <1>4 DEF TypeOK
  <2>2. x.pc = "apply" /\ x.s = call[u].s /\ x.p = UpgradeView(row)
    BY DEF TypeOK, Calls
  <2>3. x.p.ver = row.ver
    BY <2>2, ViewTypes DEF TypeOK
  <2>4. call[u].new <= call[u].s /\ call[u].s <= registry.ver /\ row.ver < call[u].new
    BY <1>0, <1>4 DEF VersionsOK, At, Eligible, IsPatchBump
  <2>5. VersionsOK(x, registry'.ver)
    BY <1>0, <2>2, <2>3, <2>4, VersionTypes DEF VersionsOK
  <2> HIDE DEF x
  <2> QED
    BY <1>2, <2>1, <2>5, VersionCall
<1> QED
  BY <1>1, <1>3, <1>4 DEF AutoLoadStrategy, AutoListPortfolios, Leave

\* ApplyUpgrade writes the version the process has read.
LEMMA VersionApply ==
    ASSUME IInv, IInv', VersionInv, NEW c \in Procs, ApplyUpgrade(c)
    PROVE  /\ VersionInv' /\ row'.ver \in {row.ver, call[c].s}
           /\ call[c].p.ver < call[c].s /\ call[c].pc = "apply" /\ call'[c].pc # "apply"
<1>1. call[c].pc = "apply" /\ VersionsOK(call[c], registry.ver) /\ UNCHANGED registry
  BY DEF ApplyUpgrade, At, VersionInv
<1>2. row'.ver \in {row.ver, call[c].s}
  <2>1. row \in Rows
    BY DEF IInv, TypeOK
  <2> QED
    BY <2>1 DEF ApplyUpgrade, UpgradedRow, Rows
<1>3. TypeOK /\ TypeOK' /\ row'.ver <= registry.ver
  BY <1>1, <1>2 DEF VersionsOK, VersionInv, IInv
<1>4. VersionInv' /\ call'[c].pc # "apply"
  <2> DEFINE y == [Idle EXCEPT !.pc = "submit", !.op = call[c].op, !.p = None]
  <2>1. call' = [call EXCEPT ![c] = Idle] \/ call' = [call EXCEPT ![c] = y]
    BY DEF ApplyUpgrade, Begin, Leave
  <2>2. y.pc = "submit" /\ Idle.pc = "idle"
    BY DEF Idle
  <2> HIDE DEF y
  <2>3. call'[c].pc # "apply"
    BY <1>3, <2>1, <2>2 DEF TypeOK
  <2> QED
    BY <1>1, <1>3, <2>1, <2>2, <2>3, VersionLeave
<1> QED
  BY <1>1, <1>2, <1>4 DEF VersionsOK

\* The steps of Submit, and a handler that gives up, carry no version.
LEMMA VersionSubmit ==
    ASSUME IInv, IInv', VersionInv, NEW c \in Procs,
           \/ Submit(c) \/ Send(c) \/ GiveUp(c)
           \/ \E ghost \in BOOLEAN : SubmitFails(c, ghost)
           \/ \E recorded \in BOOLEAN : Refuse(c, recorded)
    PROVE  VersionInv' /\ row' = row
<1> USE DEF tables
<1> DEFINE y(pc) == [call[c] EXCEPT !.pc = pc]
<1>1. UNCHANGED <<row, registry>> /\ TypeOK /\ TypeOK' /\ row.ver <= registry.ver
  BY DEF Submit, Send, GiveUp, SubmitFails, Refuse, IInv, VersionInv
<1>2. \/ call' = [call EXCEPT ![c] = Idle] \/ call' = [call EXCEPT ![c] = y("rollback")]
      \/ call' = [call EXCEPT ![c] = y("send")]
  BY <1>1 DEF Submit, Send, GiveUp, SubmitFails, Refuse, Bounce, Goto, Leave, TypeOK
<1>3. y("rollback").pc = "rollback" /\ y("send").pc = "send" /\ Idle.pc = "idle"
  BY <1>1, EmptyTypes DEF TypeOK, Calls
<1> HIDE DEF y
<1> QED
  BY <1>1, <1>2, <1>3, VersionLeave

LEMMA VersionWorker ==
    ASSUME IInv, VersionInv, NEW r \in RunIds,
           \/ Load(r) \/ MarkRunning(r) \/ FailRun(r)
           \/ \E ok \in BOOLEAN : Finish(r, ok)
           \/ \E prunes \in BOOLEAN : Abandon(r, prunes)
    PROVE  VersionInv' /\ row'.ver = row.ver
<1>1. row \in Rows
  BY DEF IInv, TypeOK
<1>2. call' = call /\ registry' = registry /\ row'.ver = row.ver
  BY <1>1 DEF Load, MarkRunning, FailRun, Finish, Abandon, Rows
<1> QED
  BY <1>2, VersionQuiet

LEMMA VersionRestart ==
    ASSUME IInv, VersionInv, Restart PROVE VersionInv' /\ row'.ver = row.ver
<1>1. row'.ver = row.ver /\ registry' = registry /\ \A c \in Procs : call'[c] = Idle
  BY DEF Restart, IInv, TypeOK, Rows
<1>2. VersionsOK(Idle, registry.ver)
  BY EmptyTypes, NoVersions
<1> QED
  BY <1>1, <1>2 DEF VersionInv

LEMMA VersionInstall ==
    ASSUME IInv, IInv', VersionInv, NEW v \in Versions, NEW u \in Upgraders, Install(v, u)
    PROVE  VersionInv'
<1> DEFINE x == [Idle EXCEPT !.pc = "strategy", !.op = "auto", !.new = v]
<1>1. /\ call' = [call EXCEPT ![u] = x] /\ registry'.ver = v /\ registry.ver < v /\ row' = row
      /\ TypeOK /\ TypeOK' /\ row.ver <= registry.ver /\ u \in Procs
  BY DEF Install, IInv, VersionInv, Procs
<1>2. x.pc = "strategy" /\ x.op = "auto" /\ x.new = v
  BY DEF Idle
<1>3. v \in Nat
  BY Bounds
<1>4. VersionsOK(x, registry'.ver)
  BY <1>1, <1>2, <1>3 DEF VersionsOK
<1>5. row'.ver <= registry'.ver /\ registry.ver <= registry'.ver
  BY <1>1, <1>3, VersionTypes
<1> HIDE DEF x
<1> QED
  BY <1>1, <1>4, <1>5, VersionCall

LEMMA VersionInit == Init => VersionInv
<1> SUFFICES ASSUME Init PROVE VersionInv
  OBVIOUS
<1>1. row.ver = 0 /\ registry.ver \in {0, 1} /\ \A c \in Procs : call[c].pc = "idle"
  BY EmptyTypes DEF Init
<1> QED
  BY <1>1, NoVersions DEF VersionInv

LEMMA VersionNext == ASSUME IInv, VersionInv, [Next]_vars PROVE VersionInv'
<1> USE DEF tables
<1>0. IInv'
  BY NextIInv
<1>1. ASSUME NEW c \in Procs, ApplyUpgrade(c) PROVE VersionInv'
  BY <1>0, <1>1, VersionApply
<1>2. CASE InstallFails \/ LoseSnapshot \/ UNCHANGED vars
  <2>1. call' = call /\ row' = row /\ registry'.ver = registry.ver
    BY <1>2 DEF InstallFails, LoseSnapshot, vars, IInv, TypeOK
  <2> QED
    BY <2>1, VersionQuiet
<1> QED
  BY <1>0, <1>1, <1>2, VersionRequest, VersionHandler, VersionUpgrader, VersionSubmit, VersionWorker,
     VersionInstall, VersionRestart
  DEF Next

\* A step that lowers the version of a portfolio that stays is an ApplyUpgrade
\* of a process that has read another version.
LEMMA VersionBack ==
    ASSUME IInv, VersionInv, [Next]_vars, Exists, row'.status # "none", row'.ver < row.ver
    PROVE  \E c \in Procs : /\ At(c, "apply") /\ call'[c].pc # "apply"
                            /\ call[c].p.ver # row.ver
<1> USE DEF tables
<1>1. row \in Rows /\ row.ver \in Nat /\ row'.ver # row.ver /\ row' # None
  <2>1. row \in Rows /\ row.ver \in Nat
    BY VersionTypes DEF IInv, TypeOK
  <2>2. row'.ver \in Nat
    <3>1. IInv'
      BY NextIInv
    <3>2. row' \in Rows
      BY <3>1 DEF IInv, TypeOK
    <3> QED
      BY <3>2, Bounds DEF Rows
  <2> QED
    BY <2>1, <2>2, EmptyTypes
<1>2. ASSUME NEW c \in Clients, Request(c) PROVE FALSE
  BY <1>1, <1>2 DEF Request, Create, CreateRun, ReadSnapshot, Delete, DeleteRow, LoadUpgradePortfolio,
     Patch, Exists, Rows
<1>3. ASSUME NEW c \in Clients,
             RespondRecalculating(c) \/ LoadUpgradeStrategy(c) \/ Rollback(c) \/ RollbackFails(c)
      PROVE  FALSE
  BY <1>1, <1>3 DEF RespondRecalculating, LoadUpgradeStrategy, Rollback, RollbackFails, DeleteRow
<1>4. ASSUME NEW u \in Upgraders, AutoLoadStrategy(u) \/ AutoListPortfolios(u) PROVE FALSE
  BY <1>1, <1>4 DEF AutoLoadStrategy, AutoListPortfolios
<1>5. ASSUME NEW c \in Procs, ApplyUpgrade(c)
      PROVE  At(c, "apply") /\ call'[c].pc # "apply" /\ call[c].p.ver # row.ver
  <2>1. /\ row'.ver = call[c].s /\ call[c].p.ver < call[c].s /\ call[c].pc = "apply"
        /\ call'[c].pc # "apply"
    BY <1>1, <1>5, NextIInv, VersionApply
  <2>2. call[c].s \in Nat /\ call[c].p.ver \in Nat
    BY VersionTypes DEF IInv
  <2> QED
    BY <1>1, <2>1, <2>2 DEF At
<1>6. ASSUME NEW c \in Procs,
             \/ Submit(c) \/ Send(c) \/ GiveUp(c)
             \/ \E ghost \in BOOLEAN : SubmitFails(c, ghost)
             \/ \E recorded \in BOOLEAN : Refuse(c, recorded)
      PROVE  FALSE
  BY <1>1, <1>6, NextIInv, VersionSubmit
<1>7. ASSUME NEW r \in RunIds,
             \/ Load(r) \/ MarkRunning(r) \/ FailRun(r)
             \/ \E ok \in BOOLEAN : Finish(r, ok)
             \/ \E prunes \in BOOLEAN : Abandon(r, prunes)
      PROVE  FALSE
  BY <1>1, <1>7, VersionWorker
<1>8. CASE Restart
  BY <1>1, <1>8, VersionRestart
<1>9. CASE InstallFails \/ LoseSnapshot \/ UNCHANGED vars
           \/ \E v \in Versions, u \in Upgraders : Install(v, u)
  BY <1>1, <1>9 DEF InstallFails, LoseSnapshot, Install, vars
<1> QED
  BY <1>2, <1>3, <1>4, <1>5, <1>6, <1>7, <1>9, <1>8 DEF Next

\* Versions only advance, unless an upgrade is written over another: handlers
\* read the row before the registry, upgraders after it and compare with the
\* version whose install started them (tryUpgradeOne, isPatchBump).
THEOREM VersionAdvancesHolds == Spec => VersionAdvances
<1>1. Init => IInv /\ VersionInv
  BY InitIInv, VersionInit
<1>2. IInv /\ VersionInv /\ [Next]_vars => (IInv /\ VersionInv)'
  BY NextIInv, VersionNext
<1>3. IInv /\ VersionInv /\ [Next]_vars =>
        [ (Exists /\ row'.status # "none" /\ row'.ver < row.ver) =>
             \E c \in Procs : /\ At(c, "apply") /\ call'[c].pc # "apply"
                              /\ call[c].p.ver # row.ver ]_vars
  BY VersionBack
<1> QED
  BY <1>1, <1>2, <1>3, PTL DEF Spec, VersionAdvances
=============================================================================
