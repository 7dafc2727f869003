--------------------------- MODULE SchedulerProofs ---------------------------
(***************************************************************************)
(* The nightly scheduler for any portfolios, trading days, channel,         *)
(* workers, batch size and retention.                                       *)
(***************************************************************************)
EXTENDS Scheduler, TLAPS, WellFoundedInduction

-----------------------------------------------------------------------------
(* The calendar. *)

LEMMA Bounds ==
    /\ LastDay \in Nat /\ LastDay > 0 /\ Retention \in Nat /\ Retention > 0 /\ QueueCap \in Nat /\ QueueCap > 0
    /\ MaxManual \in Nat /\ MaxFaults \in Nat
    /\ Instants \subseteq Nat /\ Never \in Nat /\ Days \subseteq Nat
BY SchedulerAssumption DEF Instants, Never, Days

LEMMA FireTypes == Fires \subseteq Instants
BY SchedulerAssumption DEF Fires, Instants

\* A set of instants that is not empty has a first one.
LEMMA First == ASSUME NEW S, S \subseteq Nat, S # {} PROVE \E x \in S : \A y \in S : x <= y
<1>1. \E x \in S : \A y \in S : ~(<<y, x>> \in OpToRel(<, Nat))
  BY NatLessThanWellFounded, WFMin
<1>2. OpToRel(<, Nat) = {ss \in Nat \X Nat : ss[1] < ss[2]}
  BY Zenon DEF OpToRel
<1>3. \A x, y \in Nat : <<y, x>> \in {ss \in Nat \X Nat : ss[1] < ss[2]} <=> y < x
  OBVIOUS
<1>4. PICK x \in S : \A y \in S : ~(<<y, x>> \in {ss \in Nat \X Nat : ss[1] < ss[2]})
  BY <1>1, <1>2, Zenon
<1>5. \A y \in S : ~(y < x)
  BY <1>3, <1>4
<1> QED
  BY <1>5

\* NextFire is no later than any fire after t.
LEMMA NextFireType ==
    ASSUME NEW t \in Nat
    PROVE  /\ NextFire(t) \in Instants \cup {Never}
           /\ \A f \in Fires : f > t => NextFire(t) <= f
<1>1. CASE \E f \in Fires : f > t
  <2> DEFINE later == {f \in Fires : f > t}
  <2>1. later \subseteq Nat /\ later # {}
    BY <1>1, FireTypes, Bounds
  <2>2. \E f \in later : \A g \in later : f <= g
    BY <2>1, First
  <2>3. \E f \in Fires : f > t /\ \A g \in Fires : g > t => f <= g
    BY <2>2
  <2>4. NextFire(t) = CHOOSE f \in Fires : f > t /\ \A g \in Fires : g > t => f <= g
    BY <1>1 DEF NextFire
  <2>5. NextFire(t) \in Fires /\ \A g \in Fires : g > t => NextFire(t) <= g
    BY <2>3, <2>4
  <2> QED
    BY <2>5, FireTypes
<1>2. CASE ~\E f \in Fires : f > t
  BY <1>2 DEF NextFire
<1> QED
  BY <1>1, <1>2

LEMMA DayType ==
    ASSUME NEW t \in Instants
    PROVE  Day(t) \in Days /\ Day(t) \in Nat /\ Day(t) # NotStarted /\ Day(t + 1) \in Nat /\ Day(t + 1) >= Day(t)
BY SchedulerAssumption DEF Instants, Days, Day, NotStarted

\* Where dispatchDue begins and ends.
LEMMA ReturnType ==
    ASSUME now \in Instants
    PROVE  /\ Return \in SchState /\ Return.pc = "sleep" /\ Return.ids = {} /\ Return.fire = NextFire(now)
           /\ [Return EXCEPT !.pc = "off"] \in SchState /\ [Return EXCEPT !.pc = "off"].pc = "off"
           /\ [Return EXCEPT !.pc = "off"].ids = {}
<1>1. NextFire(now) \in Instants \cup {Never}
  BY NextFireType, Bounds
<1> QED
  BY <1>1 DEF Return, SchState, PC

LEMMA PassType ==
    ASSUME NEW u \in Instants \cup {Never}
    PROVE  Pass(u) \in SchState /\ Pass(u).pc = "claim" /\ Pass(u).ids = {}
BY DEF Pass, SchState, PC

-----------------------------------------------------------------------------
(* Rows. *)

LEMMA NewRowType ==
    ASSUME NEW tr \in {"scheduled", "manual"}, NEW st \in {"queued", "ended"}
    PROVE  /\ NewRow(tr, st) \in Row /\ NewRow(tr, st).trigger = tr /\ NewRow(tr, st).status = st
           /\ NewRow(tr, st).day = NotStarted
BY DEF NewRow, Row

LEMMA EndedType ==
    ASSUME NEW s \in Seq(Row), Len(s) > 0
    PROVE  /\ Ended(s) \in Seq(Row) /\ Len(Ended(s)) = Len(s)
           /\ \A i \in 1..Len(s) : /\ i < Len(s) => Ended(s)[i] = s[i]
                                   /\ Ended(s)[i].trigger = s[i].trigger /\ Ended(s)[i].day = s[i].day
           /\ Ended(s)[Len(s)].status = "ended"
<1> DEFINE r == [s[Len(s)] EXCEPT !.status = "ended"]
<1>1. Len(s) \in 1..Len(s) /\ s[Len(s)] \in Row
  OBVIOUS
<1>2. r \in Row /\ r.trigger = s[Len(s)].trigger /\ r.day = s[Len(s)].day /\ r.status = "ended"
  BY <1>1 DEF Row
<1>3. Ended(s) = [s EXCEPT ![Len(s)] = r]
  BY DEF Ended
<1> HIDE DEF r
<1> QED
  BY <1>1, <1>2, <1>3

LEMMA StartedType ==
    ASSUME NEW s \in Seq(Row), Len(s) > 0, NEW d \in Days
    PROVE  /\ Started(s, d) \in Seq(Row) /\ Len(Started(s, d)) = Len(s)
           /\ \A i \in 1..Len(s) : i < Len(s) => Started(s, d)[i] = s[i]
           /\ Started(s, d)[Len(s)].status = "running" /\ Started(s, d)[Len(s)].day = d
           /\ Started(s, d)[Len(s)].trigger = s[Len(s)].trigger
<1> DEFINE r == [s[Len(s)] EXCEPT !.status = "running", !.day = d]
<1>1. Len(s) \in 1..Len(s) /\ s[Len(s)] \in Row
  OBVIOUS
<1>2. r \in Row /\ r.trigger = s[Len(s)].trigger /\ r.day = d /\ r.status = "running"
  BY <1>1 DEF Row
<1>3. Started(s, d) = [s EXCEPT ![Len(s)] = r]
  BY DEF Started
<1> HIDE DEF r
<1> QED
  BY <1>1, <1>2, <1>3

LEMMA AddRejectedCases ==
    ASSUME NEW s \in Seq(Row), NEW r \in Row
    PROVE  AddRejected(s, r) = s \/ AddRejected(s, r) = Append(s, r)
BY DEF AddRejected

\* PruneRuns drops the oldest rows.
LEMMA KeepType ==
    ASSUME NEW s \in Seq(Row)
    PROVE  \E k \in Nat :
             /\ k <= Len(s) /\ k = (IF Len(s) <= Retention THEN 0 ELSE Len(s) - Retention)
             /\ Keep(s) \in Seq(Row) /\ Len(Keep(s)) = Len(s) - k
             /\ \A i \in 1..(Len(s) - k) : Keep(s)[i] = s[i + k]
<1>1. CASE Len(s) <= Retention
  BY <1>1 DEF Keep
<1>2. CASE Len(s) > Retention
  <2> DEFINE k == Len(s) - Retention
  <2>1. k \in Nat /\ k <= Len(s) /\ Len(s) - k = Retention /\ Len(s) \in Nat
    BY <1>2, Bounds
  <2>2. Keep(s) = SubSeq(s, k + 1, Len(s))
    BY <1>2, Bounds DEF Keep
  <2> HIDE DEF k
  <2>3. /\ SubSeq(s, k + 1, Len(s)) \in Seq(Row)
        /\ Len(SubSeq(s, k + 1, Len(s))) = Len(s) - k
        /\ \A i \in 1..(Len(s) - k) : SubSeq(s, k + 1, Len(s))[i] = s[i + k]
    BY <2>1, Bounds
  <2> QED
    BY <1>2, <2>1, <2>2, <2>3, Bounds DEF k
<1> QED
  BY <1>1, <1>2, Bounds

-----------------------------------------------------------------------------
(* Steps that write no row. *)

\* The scheduler claims, waits or returns; a crash drops the channel.
LEMMA SchStepKeeps ==
    ASSUME IInv, UNCHANGED <<now, status, runs, served>>, sch' \in SchState,
           queue' = queue \/ queue' = <<>>, sch'.pc = "off" => queue' = <<>> /\ working' = {},
           \A p \in sch'.ids : p \in sch.ids \/ p \in ClaimDue,
           manuals' \in 0..MaxManual, manuals' >= manuals, faults' \in 0..MaxFaults,
           working' \subseteq working, left' \subseteq Portfolios, SleepInv'
    PROVE  IInv'
<1> USE DEF IInv
<1>1. TypeOK'
  <2>1. CASE queue' = queue
    BY <2>1 DEF TypeOK
  <2>2. CASE queue' = <<>>
    <3>1. queue' \in Seq(Portfolios) /\ Len(queue') = 0
      BY <2>2
    <3> QED
      BY <3>1, Bounds DEF TypeOK
  <2> QED
    BY <2>1, <2>2
<1>2. \A p \in Portfolios : Scheduled(p)' = Scheduled(p) /\ \A st : Has(p, st)' = Has(p, st)
  BY DEF Scheduled, Has, Newest
<1>3. QueueInv'
  <2>1. CASE queue' = queue
    BY <1>2, <2>1 DEF QueueInv, Waiting
  <2>2. CASE queue' = <<>>
    BY <2>2 DEF QueueInv
  <2> QED
    BY <2>1, <2>2
<1>4. RowsInv' /\ WorkInv'
  BY <1>2 DEF RowsInv, RowOK, WorkInv, TypeOK
<1>5. ClaimedInv'
  BY <1>2 DEF ClaimedInv, ClaimDue, Inflight, Scheduled, SchState
<1>6. OnceInv'
  <2> SUFFICES ASSUME manuals' < Retention, NEW p \in Portfolios
               PROVE  /\ Day(now) \in served[p] => Remembered(p)'
                      /\ p \in sch'.ids \/ Scheduled(p)' => Day(now) \notin served[p]
    BY DEF OnceInv
  <2>1. manuals \in Nat /\ manuals' \in Nat /\ manuals < Retention
    BY Bounds DEF TypeOK
  <2>2. Day(now) \in served[p] => Remembered(p)
    BY <2>1 DEF OnceInv
  <2>3. Remembered(p) => Remembered(p)'
    BY <2>1 DEF Remembered, TypeOK
  <2>4. p \in ClaimDue => ~Remembered(p)
    BY DEF ClaimDue, Remembered
  <2> QED
    BY <1>2, <2>1, <2>2, <2>3, <2>4 DEF OnceInv
<1> QED
  BY <1>1, <1>3, <1>4, <1>5, <1>6

\* A scheduler that does not sleep owes nothing.
LEMMA AwakeOK == ASSUME sch'.pc # "sleep" PROVE SleepInv'
BY DEF SleepInv

LEMMA FireKeeps == ASSUME IInv, Fire PROVE IInv'
<1>1. /\ sch' = Pass(NextFire(sch.fire)) /\ left' = {}
      /\ UNCHANGED <<now, status, runs, queue, manuals, faults, working, served>>
  BY DEF Fire
<1>2. NextFire(sch.fire) \in Instants \cup {Never}
  BY NextFireType, Bounds DEF IInv, TypeOK, SchState
<1>3. sch' \in SchState /\ sch'.pc = "claim" /\ sch'.ids = {}
  BY <1>1, <1>2, PassType
<1>4. /\ manuals' \in 0..MaxManual /\ manuals' >= manuals /\ faults' \in 0..MaxFaults
      /\ left' \subseteq Portfolios /\ queue' = queue /\ sch'.pc # "off"
      /\ \A p \in sch'.ids : p \in sch.ids \/ p \in ClaimDue
  BY <1>1, <1>3, Bounds DEF IInv, TypeOK
<1>5. SleepInv'
  BY <1>3, AwakeOK
<1> QED
  BY <1>1, <1>3, <1>4, <1>5, SchStepKeeps

\* dispatchDue returns to Run.  What it leaves behind has had its run, or has
\* it in the channel.
LEMMA ReturnKeeps ==
    ASSUME IInv, sch' = Return, left' \subseteq Portfolios,
           \A p \in Portfolios \ left' : Day(now) \in served[p] \/ Scheduled(p),
           UNCHANGED <<now, status, runs, queue, manuals, faults, working, served>>
    PROVE  IInv'
<1>1. now \in Instants /\ now \in Nat
  BY Bounds DEF IInv, TypeOK
<1>2. /\ sch' \in SchState /\ sch'.pc = "sleep" /\ sch'.ids = {} /\ sch'.fire = NextFire(now)
  BY <1>1, ReturnType
<1>3. \A f \in Fires : f > now => sch'.fire <= f
  BY <1>1, <1>2, NextFireType
<1>4. \A p \in Portfolios : Scheduled(p)' = Scheduled(p)
  BY DEF Scheduled, Has, Newest
<1>5. SleepInv'
  BY <1>2, <1>3, <1>4 DEF SleepInv
<1>6. /\ manuals' \in 0..MaxManual /\ manuals' >= manuals /\ faults' \in 0..MaxFaults
      /\ queue' = queue /\ sch'.pc # "off"
      /\ \A p \in sch'.ids : p \in sch.ids \/ p \in ClaimDue
  BY <1>2, Bounds DEF IInv, TypeOK
<1> QED
  BY <1>2, <1>5, <1>6, SchStepKeeps

\* An awake scheduler goes on.
LEMMA GoOnKeeps ==
    ASSUME IInv, sch' \in SchState, sch'.pc \in {"claim", "submit", "wait"},
           \A p \in sch'.ids : p \in sch.ids \/ p \in ClaimDue, left' \subseteq Portfolios,
           UNCHANGED <<now, status, runs, queue, manuals, faults, working, served>>
    PROVE  IInv'
<1>1. SleepInv'
  BY AwakeOK
<1>2. /\ manuals' \in 0..MaxManual /\ manuals' >= manuals /\ faults' \in 0..MaxFaults
      /\ queue' = queue /\ sch'.pc # "off"
  BY Bounds DEF IInv, TypeOK
<1> QED
  BY <1>1, <1>2, SchStepKeeps

\* A claim that finds nothing.
LEMMA NothingDue ==
    ASSUME IInv, ClaimDue = {}, NEW p \in Portfolios \ Busy
    PROVE  Day(now) \in served[p] \/ Scheduled(p)
<1> USE DEF IInv
<1>1. runs[p] \in Seq(Row) /\ Len(runs[p]) \in Nat /\ status[p] \in {"running", "done"} /\ Day(now) # NotStarted
  BY DayType DEF TypeOK
<1>2. \A i \in 1..Len(runs[p]) : RowOK(p, i) /\ runs[p][i] \in Row
  BY <1>1 DEF RowsInv
<1>3. CASE Inflight(p)
  <2>1. Newest(p).trigger # "manual" /\ Newest(p).day \in {NotStarted, Day(now)}
    BY <1>3 DEF Busy
  <2>2. Len(runs[p]) \in 1..Len(runs[p]) /\ RowOK(p, Len(runs[p])) /\ Newest(p) \in Row
    BY <1>1, <1>2, <1>3 DEF Inflight, Has, Newest
  <2>3. Newest(p).trigger = "scheduled"
    BY <2>1, <2>2 DEF Row
  <2>4. CASE Has(p, "queued")
    BY <2>3, <2>4 DEF Scheduled
  <2>5. CASE Has(p, "running")
    BY <2>1, <2>2, <2>3, <2>5 DEF RowOK, Has, Newest
  <2> QED
    BY <1>3, <2>4, <2>5 DEF Inflight
<1>4. CASE ~Inflight(p)
  <2>1. status[p] = "done"
    BY <1>1, <1>4 DEF RowsInv, Inflight
  <2>2. PICK i \in 1..Len(runs[p]) : runs[p][i].trigger = "scheduled" /\ runs[p][i].day = Day(now)
    BY <1>4, <2>1 DEF ClaimDue
  <2> QED
    BY <1>1, <1>2, <2>2 DEF RowOK
<1> QED
  BY <1>3, <1>4

LEMMA ClaimKeeps == ASSUME IInv, Claim PROVE IInv'
<1>1. UNCHANGED <<now, status, runs, queue, manuals, faults, working, served>>
  BY DEF Claim
<1>2. CASE ClaimDue = {}
  <2>1. sch' = Return /\ left' = Busy /\ left' \subseteq Portfolios
    BY <1>2 DEF Claim, Busy
  <2> QED
    BY <1>1, <1>2, <2>1, NothingDue, ReturnKeeps
<1>3. CASE ClaimDue # {}
  <2>1. PICK ids \in SUBSET ClaimDue :
           /\ sch' = [sch EXCEPT !.pc = "submit", !.ids = ids, !.dispatched = FALSE, !.full = FALSE]
           /\ left' = left
    BY <1>3 DEF Claim
  <2>2. ids \subseteq Portfolios /\ left' \subseteq Portfolios
    BY <2>1 DEF ClaimDue, IInv, TypeOK
  <2>3. sch' \in SchState /\ sch'.pc = "submit" /\ sch'.ids = ids
    BY <2>1, <2>2 DEF IInv, TypeOK, SchState, PC
  <2> QED
    BY <1>1, <2>2, <2>3, GoOnKeeps
<1> QED
  BY <1>2, <1>3

LEMMA ClaimFailsKeeps == ASSUME IInv, ClaimFails PROVE IInv'
BY ReturnKeeps DEF ClaimFails

LEMMA BatchDoneKeeps == ASSUME IInv, BatchDone PROVE IInv'
<1>1. UNCHANGED <<now, status, runs, queue, manuals, faults, working, served>>
  BY DEF BatchDone
<1>2. sch \in SchState /\ left \subseteq Portfolios
  BY DEF IInv, TypeOK
<1>3. CASE sch.full
  <2>1. sch' = [sch EXCEPT !.pc = "wait"] /\ left' = left
    BY <1>3 DEF BatchDone
  <2>2. sch' \in SchState /\ sch'.pc = "wait" /\ sch'.ids = sch.ids
    BY <1>2, <2>1 DEF SchState, PC
  <2> QED
    BY <1>1, <1>2, <2>1, <2>2, GoOnKeeps
<1>4. CASE ~sch.full /\ sch.dispatched
  <2>1. sch' = [sch EXCEPT !.pc = "claim"] /\ left' = left
    BY <1>4 DEF BatchDone
  <2>2. sch' \in SchState /\ sch'.pc = "claim" /\ sch'.ids = sch.ids
    BY <1>2, <2>1 DEF SchState, PC
  <2> QED
    BY <1>1, <1>2, <2>1, <2>2, GoOnKeeps
<1>5. CASE ~sch.full /\ ~sch.dispatched
  <2>1. sch' = Return /\ left' = Portfolios
    BY <1>5 DEF BatchDone
  <2> QED
    BY <1>1, <2>1, ReturnKeeps
<1> QED
  BY <1>3, <1>4, <1>5

LEMMA RetryKeeps == ASSUME IInv, Retry PROVE IInv'
<1>1. UNCHANGED <<now, status, runs, queue, manuals, faults, working, served>>
  BY DEF Retry
<1>2. sch \in SchState /\ left \subseteq Portfolios
  BY DEF IInv, TypeOK
<1>3. CASE now >= sch.until
  <2>1. sch' = Return /\ left' = Portfolios
    BY <1>3 DEF Retry
  <2> QED
    BY <1>1, <2>1, ReturnKeeps
<1>4. CASE ~(now >= sch.until)
  <2>1. sch' = [sch EXCEPT !.pc = "claim"] /\ left' = left
    BY <1>4 DEF Retry
  <2>2. sch' \in SchState /\ sch'.pc = "claim" /\ sch'.ids = sch.ids
    BY <1>2, <2>1 DEF SchState, PC
  <2> QED
    BY <1>1, <1>2, <2>1, <2>2, GoOnKeeps
<1> QED
  BY <1>3, <1>4

LEMMA CrashKeeps == ASSUME IInv, Crash PROVE IInv'
<1>1. /\ faults < MaxFaults /\ faults' = faults + 1
      /\ sch' = [Return EXCEPT !.pc = "off"] /\ queue' = <<>> /\ working' = {}
      /\ UNCHANGED <<now, status, runs, manuals, served, left>>
  BY DEF Crash
<1>2. sch' \in SchState /\ sch'.pc = "off" /\ sch'.ids = {}
  BY <1>1, ReturnType DEF IInv, TypeOK
<1>3. /\ manuals' \in 0..MaxManual /\ manuals' >= manuals /\ faults' \in 0..MaxFaults
      /\ left' \subseteq Portfolios /\ working' \subseteq working
      /\ \A p \in sch'.ids : p \in sch.ids \/ p \in ClaimDue
  BY <1>1, <1>2, Bounds DEF IInv, TypeOK
<1>4. SleepInv'
  BY <1>2, AwakeOK
<1> QED
  BY <1>1, <1>2, <1>3, <1>4, SchStepKeeps

-----------------------------------------------------------------------------
(* Submit. *)

\* A row of p that has not started appears; a task comes only with a queued row.
LEMMA NewRowKeeps ==
    ASSUME IInv, NEW p \in Portfolios, ~Inflight(p),
           NEW r \in Row, r.day = NotStarted, r.status \in {"queued", "ended"},
           runs' = [runs EXCEPT ![p] = Append(runs[p], r)],
           queue' = queue \/ (r.status = "queued" /\ queue' = Append(queue, p)),
           Len(queue') <= QueueCap, faults' \in 0..MaxFaults,
           UNCHANGED <<now, status, working, served, left>>,
           sch' \in SchState, sch'.pc = sch.pc, sch.pc # "off", sch'.fire = sch.fire, sch'.ids \subseteq sch.ids,
           manuals' \in 0..MaxManual, manuals' >= manuals,
           \/ r.trigger = "manual" /\ manuals' >= manuals + 1
           \/ r.trigger = "scheduled" /\ p \in sch.ids /\ p \notin sch'.ids
    PROVE  IInv'
<1> USE DEF IInv
<1>1. runs[p] \in Seq(Row) /\ Len(runs[p]) \in Nat /\ Append(runs[p], r) \in Seq(Row)
  BY DEF TypeOK
<1>2. /\ Len(runs'[p]) = Len(runs[p]) + 1 /\ runs'[p][Len(runs[p]) + 1] = r
      /\ \A i \in 1..Len(runs[p]) : runs'[p][i] = runs[p][i]
      /\ \A q \in Portfolios \ {p} : runs'[q] = runs[q]
  BY <1>1 DEF TypeOK
<1>3. \A q \in Portfolios \ {p} : Scheduled(q)' = Scheduled(q) /\ \A st : Has(q, st)' = Has(q, st)
  BY <1>2 DEF Scheduled, Has, Newest
<1>4. /\ \A st : Has(p, st)' <=> r.status = st
      /\ Scheduled(p)' <=> r.status = "queued" /\ r.trigger = "scheduled"
      /\ ~Scheduled(p)
  BY <1>1, <1>2 DEF Scheduled, Has, Newest, Inflight
<1>5. TypeOK'
  <2>1. runs' \in [Portfolios -> Seq(Row)]
    BY <1>1 DEF TypeOK
  <2>2. queue \in Seq(Portfolios) /\ Append(queue, p) \in Seq(Portfolios)
    BY DEF TypeOK
  <2>3. queue' \in Seq(Portfolios)
    BY <2>2
  <2> QED
    BY <2>1, <2>3 DEF TypeOK
<1>6. QueueInv'
  <2>1. /\ queue \in Seq(Portfolios) /\ Len(queue) \in Nat
        /\ \A i \in 1..Len(queue) : queue[i] \in Waiting /\ queue[i] # p
    BY DEF TypeOK, QueueInv, Inflight, Waiting
  <2>2. \A q \in Waiting : q # p => q \in Waiting'
    BY <1>3 DEF Waiting
  <2>3. CASE r.status = "queued" /\ queue' = Append(queue, p)
    <3>1. /\ queue' = Append(queue, p) /\ Len(queue') = Len(queue) + 1 /\ queue'[Len(queue) + 1] = p
          /\ \A i \in 1..Len(queue) : queue'[i] = queue[i]
      BY <2>1, <2>3
    <3>2. p \in Waiting'
      BY <1>4, <2>3 DEF Waiting
    <3>3. \A i \in 1..Len(queue') : queue'[i] \in Waiting'
      BY <2>1, <2>2, <3>1, <3>2
    <3>4. \A i, j \in 1..Len(queue') : queue'[i] = queue'[j] => i = j
      BY <2>1, <3>1 DEF QueueInv
    <3> QED
      BY <3>3, <3>4 DEF QueueInv
  <2>4. CASE queue' = queue
    BY <2>1, <2>2, <2>4 DEF QueueInv
  <2> QED
    BY <2>3, <2>4
<1>7. RowsInv'
  <2> SUFFICES ASSUME NEW q \in Portfolios
               PROVE  /\ \A i \in 1..Len(runs'[q]) : RowOK(q, i)'
                      /\ status[q] = "running" => Has(q, "running")'
                      /\ \A d \in served[q] : d <= Day(now)
    BY DEF RowsInv
  <2>1. /\ \A i \in 1..Len(runs[q]) : RowOK(q, i)
        /\ status[q] = "running" => Has(q, "running")
        /\ \A d \in served[q] : d <= Day(now)
    BY DEF RowsInv
  <2>2. CASE q # p
    BY <1>2, <1>3, <2>1, <2>2 DEF RowOK
  <2>3. CASE q = p
    <3>1. status[p] # "running"
      BY <2>1, <2>3 DEF Inflight
    <3>2. ASSUME NEW i \in 1..Len(runs[p]) PROVE RowOK(p, i)'
      <4>1. RowOK(p, i) /\ runs'[p][i] = runs[p][i]
        BY <1>2, <2>1, <2>3, <3>2
      <4>2. runs[p][i].status = "ended"
        <5>1. CASE i < Len(runs[p])
          BY <4>1, <5>1 DEF RowOK
        <5>2. CASE i = Len(runs[p])
          <6>1. runs[p][i] \in Row
            BY <1>1
          <6> QED
            BY <5>2, <6>1 DEF Inflight, Has, Newest, Row
        <5> QED
          BY <5>1, <5>2, <1>1
      <4> QED
        BY <4>1, <4>2 DEF RowOK
    <3>3. \A i \in 1..Len(runs'[p]) : i \in 1..Len(runs[p]) \/ i = Len(runs[p]) + 1
      BY <1>1, <1>2
    <3>4. \A i \in 1..Len(runs'[p]) : i = Len(runs[p]) + 1 => RowOK(p, i)'
      BY <1>1, <1>2 DEF RowOK
    <3> QED
      BY <2>1, <2>3, <3>1, <3>2, <3>3, <3>4
  <2> QED
    BY <2>2, <2>3
<1>8. ClaimedInv'
  BY <1>3, <1>4 DEF ClaimedInv, SchState
<1>9. OnceInv'
  <2> SUFFICES ASSUME manuals' < Retention, NEW q \in Portfolios
               PROVE  /\ Day(now) \in served[q] => Remembered(q)'
                      /\ q \in sch'.ids \/ Scheduled(q)' => Day(now) \notin served[q]
    BY DEF OnceInv
  <2>1. manuals \in Nat /\ manuals' \in Nat /\ manuals < Retention
    BY Bounds DEF TypeOK
  <2>2. /\ Day(now) \in served[q] => Remembered(q)
        /\ q \in sch.ids \/ Scheduled(q) => Day(now) \notin served[q]
    BY <2>1 DEF OnceInv
  <2>3. CASE q # p
    <3>1. Remembered(q) => Remembered(q)'
      BY <1>2, <2>1, <2>3 DEF Remembered, TypeOK
    <3> QED
      BY <1>3, <2>2, <2>3, <3>1
  <2>4. CASE q = p
    <3>1. r.trigger = "manual" /\ Remembered(p) => Remembered(p)'
      <4> SUFFICES ASSUME r.trigger = "manual", Remembered(p) PROVE Remembered(p)'
        OBVIOUS
      <4>1. PICK i \in 1..Len(runs[p]) :
              /\ runs[p][i].trigger = "scheduled" /\ runs[p][i].day = Day(now)
              /\ Len(runs[p]) - i <= manuals
        BY DEF Remembered
      <4>2. i \in 1..Len(runs'[p]) /\ Len(runs'[p]) - i <= manuals' /\ runs'[p][i] = runs[p][i]
        BY <1>1, <1>2, <2>1, <4>1
      <4> QED
        BY <4>1, <4>2 DEF Remembered
    <3> QED
      BY <1>4, <2>2, <2>4, <3>1
  <2> QED
    BY <2>3, <2>4
<1>10. SleepInv' /\ WorkInv'
  BY <1>3, <1>4 DEF SleepInv, WorkInv, Inflight, TypeOK
<1> QED
  BY <1>5, <1>6, <1>7, <1>8, <1>9, <1>10

\* Dispatcher.Submit for p, queued or refused as full, by the scheduler or by a
\* user.
LEMMA SubmittedKeeps ==
    ASSUME IInv, NEW p \in Portfolios, ~Inflight(p), NEW tr \in {"scheduled", "manual"},
           Accept(p, tr) \/ Reject(p, tr),
           UNCHANGED <<now, status, working, served, left>>,
           sch' \in SchState, sch'.pc = sch.pc, sch.pc # "off", sch'.fire = sch.fire, sch'.ids \subseteq sch.ids,
           manuals' \in 0..MaxManual, manuals' >= manuals,
           \/ tr = "manual" /\ manuals' >= manuals + 1
           \/ tr = "scheduled" /\ p \in sch.ids /\ p \notin sch'.ids
    PROVE  IInv'
<1>1. runs[p] \in Seq(Row) /\ queue \in Seq(Portfolios) /\ Len(queue) <= QueueCap /\ Len(queue) \in Nat
      /\ runs \in [Portfolios -> Seq(Row)]
  BY DEF IInv, TypeOK
<1>2. CASE Accept(p, tr)
  <2> DEFINE r == NewRow(tr, "queued")
  <2>1. r \in Row /\ r.trigger = tr /\ r.status = "queued" /\ r.day = NotStarted
    BY NewRowType
  <2>2. runs' = [runs EXCEPT ![p] = Append(runs[p], r)] /\ queue' = Append(queue, p)
        /\ Len(queue') <= QueueCap /\ faults' \in 0..MaxFaults
    BY <1>1, <1>2, Bounds DEF Accept, IInv, TypeOK
  <2> HIDE DEF r
  <2> QED
    BY <2>1, <2>2, NewRowKeeps
<1>3. CASE Reject(p, tr) /\ runs' = [runs EXCEPT ![p] = Append(runs[p], NewRow(tr, "queued"))]
  <2> DEFINE r == NewRow(tr, "queued")
  <2>1. r \in Row /\ r.trigger = tr /\ r.status = "queued" /\ r.day = NotStarted
    BY NewRowType
  <2>2. runs' = [runs EXCEPT ![p] = Append(runs[p], r)] /\ queue' = queue
        /\ Len(queue') <= QueueCap /\ faults' \in 0..MaxFaults
    BY <1>1, <1>3, Bounds DEF Reject, IInv, TypeOK
  <2> HIDE DEF r
  <2>3. queue' = queue \/ (r.status = "queued" /\ queue' = Append(queue, p))
    BY <2>2
  <2> QED
    BY <2>1, <2>2, <2>3, NewRowKeeps
<1>4. CASE /\ Reject(p, tr)
           /\ runs' = [runs EXCEPT ![p] = AddRejected(runs[p], NewRow(tr, "ended"))]
  <2> DEFINE r == NewRow(tr, "ended")
  <2>1. r \in Row /\ r.trigger = tr /\ r.status = "ended" /\ r.day = NotStarted
    BY NewRowType
  <2>2. runs' = [runs EXCEPT ![p] = AddRejected(runs[p], r)] /\ queue' = queue
        /\ Len(queue') <= QueueCap /\ faults' \in 0..MaxFaults
    BY <1>1, <1>4, Bounds DEF Reject, IInv, TypeOK
  <2> HIDE DEF r
  <2>3. CASE AddRejected(runs[p], r) = Append(runs[p], r)
    <3>1. queue' = queue \/ (r.status = "queued" /\ queue' = Append(queue, p))
      BY <2>2
    <3> QED
      BY <2>1, <2>2, <2>3, <3>1, NewRowKeeps
  <2>4. CASE AddRejected(runs[p], r) = runs[p]
    <3>1. runs' = runs
      BY <1>1, <2>2, <2>4
    <3>2. \A q \in Portfolios : Scheduled(q)' = Scheduled(q)
      BY <3>1 DEF Scheduled, Has, Newest
    <3>3. SleepInv'
      BY <3>2 DEF IInv, SleepInv
    <3>4. left' \subseteq Portfolios /\ working' \subseteq working
      BY DEF IInv, TypeOK
    <3> QED
      BY <2>2, <3>1, <3>3, <3>4, SchStepKeeps
  <2> QED
    BY <1>1, <2>1, <2>3, <2>4, AddRejectedCases
<1> QED
  BY <1>2, <1>3, <1>4 DEF Reject

LEMMA SubmitClaimedKeeps == ASSUME IInv, SubmitClaimed PROVE IInv'
<1>1. sch.pc = "submit" /\ UNCHANGED <<now, status, manuals, working, served, left>>
  BY DEF SubmitClaimed, AtPC
<1>2. sch \in SchState /\ manuals' \in 0..MaxManual /\ manuals' >= manuals /\ left' \subseteq Portfolios
      /\ faults \in 0..MaxFaults /\ working' \subseteq working
  BY <1>1, Bounds, SMTT(30) DEF IInv, TypeOK
<1>3. PICK p \in sch.ids :
         \/ /\ ~Inflight(p) /\ Accept(p, "scheduled")
            /\ sch' = [sch EXCEPT !.ids = @ \ {p}, !.dispatched = TRUE]
         \/ /\ ~Inflight(p) /\ Reject(p, "scheduled")
            /\ sch' = [sch EXCEPT !.ids = @ \ {p}, !.full = TRUE]
         \/ /\ sch' = [sch EXCEPT !.ids = @ \ {p}]
            /\ UNCHANGED <<runs, queue, faults>>
  BY DEF SubmitClaimed
<1>4. p \in Portfolios
  BY <1>2 DEF SchState
<1>5. sch' \in SchState /\ sch'.pc = sch.pc /\ sch'.fire = sch.fire /\ sch'.ids = sch.ids \ {p}
  <2>1. CASE sch' = [sch EXCEPT !.ids = @ \ {p}, !.dispatched = TRUE]
    BY <1>2, <2>1 DEF SchState
  <2>2. CASE sch' = [sch EXCEPT !.ids = @ \ {p}, !.full = TRUE]
    BY <1>2, <2>2 DEF SchState
  <2>3. CASE sch' = [sch EXCEPT !.ids = @ \ {p}]
    BY <1>2, <2>3 DEF SchState
  <2> QED
    BY <1>3, <2>1, <2>2, <2>3
<1>6. CASE ~Inflight(p) /\ (Accept(p, "scheduled") \/ Reject(p, "scheduled"))
  BY <1>1, <1>2, <1>4, <1>5, <1>6, SubmittedKeeps
<1>7. CASE UNCHANGED <<runs, queue, faults>>
  <2>1. SleepInv'
    BY <1>1, <1>5, AwakeOK
  <2> QED
    BY <1>1, <1>2, <1>5, <1>7, <2>1, SchStepKeeps
<1> QED
  BY <1>3, <1>6, <1>7

LEMMA ManualRunKeeps == ASSUME IInv, NEW p \in Portfolios, ManualRun(p) PROVE IInv'
<1>1. /\ sch.pc # "off" /\ manuals < MaxManual /\ ~Inflight(p) /\ manuals' = manuals + 1
      /\ Accept(p, "manual") \/ Reject(p, "manual")
      /\ UNCHANGED <<now, status, working, sch, served, left>>
  BY DEF ManualRun
<1>2. sch' \in SchState /\ manuals' \in 0..MaxManual /\ manuals' >= manuals /\ manuals' >= manuals + 1
  BY <1>1, Bounds DEF IInv, TypeOK
<1> QED
  BY <1>1, <1>2, SubmittedKeeps

-----------------------------------------------------------------------------
(* Workers, restart and clock. *)

\* A step that only touches the rows of p leaves the others' alone.
LEMMA OtherRows ==
    ASSUME IInv, NEW p \in Portfolios, NEW s \in Seq(Row), runs' = [runs EXCEPT ![p] = s]
    PROVE  /\ runs' \in [Portfolios -> Seq(Row)] /\ runs'[p] = s
           /\ \A q \in Portfolios \ {p} :
                /\ runs'[q] = runs[q] /\ Scheduled(q)' = Scheduled(q)
                /\ \A st : Has(q, st)' = Has(q, st)
<1>1. runs' \in [Portfolios -> Seq(Row)] /\ runs'[p] = s /\ \A q \in Portfolios \ {p} : runs'[q] = runs[q]
  BY DEF IInv, TypeOK
<1> QED
  BY <1>1 DEF Scheduled, Has, Newest

LEMMA StartRunKeeps == ASSUME IInv, StartRun PROVE IInv'
<1> USE DEF IInv
<1>1. /\ queue \in Seq(Portfolios) /\ Len(queue) \in Nat /\ Len(queue) > 0 /\ Head(queue) = queue[1]
      /\ Len(Tail(queue)) = Len(queue) - 1 /\ Tail(queue) \in Seq(Portfolios)
      /\ \A i \in 1..Len(Tail(queue)) : i + 1 \in 1..Len(queue) /\ Tail(queue)[i] = queue[i + 1]
  BY DEF StartRun, TypeOK
<1>2. PICK p \in Portfolios : p = Head(queue)
  BY <1>1
<1> DEFINE n == Len(runs[p])
           d == Day(now)
           s == Started(runs[p], d)
<1>3. /\ queue' = Tail(queue)
      /\ runs' = [runs EXCEPT ![p] = s] /\ status' = [status EXCEPT ![p] = "running"]
      /\ served' = IF Newest(p).trigger = "scheduled" THEN [served EXCEPT ![p] = @ \cup {d}] ELSE served
      /\ working' = working \cup {p} /\ UNCHANGED <<now, sch, manuals, faults, left>>
  BY <1>2 DEF StartRun
<1>4. Has(p, "queued") /\ \A i \in 1..Len(queue') : queue'[i] # p /\ queue'[i] \in Waiting
  <2>1. 1 \in 1..Len(queue)
    BY <1>1
  <2> QED
    BY <1>1, <1>2, <1>3, <2>1 DEF QueueInv, Waiting
<1>5. /\ d \in Days /\ d \in Nat /\ d # NotStarted
      /\ runs[p] \in Seq(Row) /\ n \in Nat /\ n > 0 /\ n \in 1..n
      /\ \A i \in 1..n : RowOK(p, i)
  BY <1>4, DayType DEF TypeOK, Has, RowsInv
<1>6. /\ s \in Seq(Row) /\ Len(s) = n /\ \A i \in 1..n : i < n => s[i] = runs[p][i]
      /\ s[n].status = "running" /\ s[n].day = d /\ s[n].trigger = runs[p][n].trigger
  BY <1>5, StartedType
<1> HIDE DEF s
<1>7. /\ runs' \in [Portfolios -> Seq(Row)] /\ runs'[p] = s
      /\ \A q \in Portfolios \ {p} :
           /\ runs'[q] = runs[q] /\ Scheduled(q)' = Scheduled(q)
           /\ \A st : Has(q, st)' = Has(q, st)
  BY <1>3, <1>6, OtherRows
<1>8. /\ served' \in [Portfolios -> SUBSET Days] /\ \A q \in Portfolios : q # p => served'[q] = served[q]
      /\ served'[p] = IF Scheduled(p) THEN served[p] \cup {d} ELSE served[p]
  BY <1>3, <1>4, <1>5 DEF TypeOK, Scheduled
<1>9. ~Scheduled(p)' /\ Has(p, "running")'
  BY <1>5, <1>6, <1>7 DEF Scheduled, Has, Newest
<1>10. TypeOK'
  <2>1. queue' \in Seq(Portfolios) /\ Len(queue') <= QueueCap
    BY <1>1, <1>3, Bounds DEF TypeOK
  <2>2. status' \in [Portfolios -> {"running", "done"}]
    BY <1>3 DEF TypeOK
  <2> QED
    BY <1>3, <1>7, <1>8, <2>1, <2>2 DEF TypeOK
<1>11. QueueInv'
  <2>1. \A q \in Waiting : q # p => q \in Waiting'
    BY <1>7 DEF Waiting
  <2>2. \A i \in 1..Len(queue') : queue'[i] \in Waiting'
    BY <1>4, <2>1
  <2>3. \A i, j \in 1..Len(queue') : queue'[i] = queue'[j] => i = j
    <3> SUFFICES ASSUME NEW i \in 1..Len(queue'), NEW j \in 1..Len(queue'), queue'[i] = queue'[j]
                 PROVE  i = j
      OBVIOUS
    <3>1. i + 1 \in 1..Len(queue) /\ j + 1 \in 1..Len(queue) /\ queue[i + 1] = queue[j + 1]
      BY <1>1, <1>3
    <3>2. i + 1 = j + 1
      BY <3>1 DEF QueueInv
    <3> QED
      BY <3>2, <1>1, <1>3
  <2>4. sch'.pc # "off"
    BY <1>1, <1>3 DEF QueueInv
  <2> QED
    BY <2>2, <2>3, <2>4 DEF QueueInv
<1>12. RowsInv'
  <2> SUFFICES ASSUME NEW q \in Portfolios
               PROVE  /\ \A i \in 1..Len(runs'[q]) : RowOK(q, i)'
                      /\ status'[q] = "running" => Has(q, "running")'
                      /\ \A e \in served'[q] : e <= Day(now)
    BY <1>3 DEF RowsInv
  <2>1. /\ \A i \in 1..Len(runs[q]) : RowOK(q, i)
        /\ status[q] = "running" => Has(q, "running")
        /\ \A e \in served[q] : e <= Day(now)
    BY DEF RowsInv
  <2>2. CASE q # p
    <3>1. status'[q] = status[q] /\ served'[q] = served[q] /\ runs'[q] = runs[q]
      BY <1>3, <1>7, <1>8, <2>2 DEF TypeOK
    <3> QED
      BY <1>7, <2>1, <2>2, <3>1 DEF RowOK
  <2>3. CASE q = p
    <3>1. \A e \in served'[p] : e <= Day(now)
      BY <1>5, <1>8, <2>1, <2>3
    <3>2. ASSUME NEW i \in 1..n PROVE RowOK(p, i)'
      <4>1. CASE i < n
        BY <1>5, <1>6, <1>7, <1>8, <4>1 DEF RowOK
      <4>2. CASE i = n
        <5>1. runs'[p][i].trigger = "scheduled" => d \in served'[p]
          BY <1>4, <1>6, <1>7, <1>8, <4>2 DEF Scheduled, Newest
        <5> QED
          BY <1>5, <1>6, <1>7, <4>2, <5>1 DEF RowOK
      <4> QED
        BY <1>5, <4>1, <4>2
    <3> QED
      BY <1>6, <1>7, <1>9, <2>3, <3>1, <3>2
  <2> QED
    BY <2>2, <2>3
<1>13. ClaimedInv'
  BY <1>3, <1>7, <1>9 DEF ClaimedInv, TypeOK, SchState
<1>14. OnceInv'
  <2> SUFFICES ASSUME manuals < Retention, NEW q \in Portfolios
               PROVE  /\ Day(now) \in served'[q] => Remembered(q)'
                      /\ q \in sch.ids \/ Scheduled(q)' => Day(now) \notin served'[q]
    BY <1>3 DEF OnceInv
  <2>1. /\ Day(now) \in served[q] => Remembered(q)
        /\ q \in sch.ids \/ Scheduled(q) => Day(now) \notin served[q]
        /\ manuals \in Nat
    BY DEF OnceInv, TypeOK
  <2>2. CASE q # p
    <3>1. Remembered(q) => Remembered(q)'
      BY <1>3, <1>7, <2>2 DEF Remembered
    <3> QED
      BY <1>7, <1>8, <2>1, <2>2, <3>1
  <2>3. CASE q = p /\ Scheduled(p)
    <3>1. Remembered(p)'
      <4>1. n \in 1..Len(runs'[p]) /\ runs'[p][n].trigger = "scheduled" /\ runs'[p][n].day = d
            /\ Len(runs'[p]) - n <= manuals
        BY <1>5, <1>6, <1>7, <2>1, <2>3 DEF Scheduled, Newest
      <4> QED
        BY <1>3, <4>1 DEF Remembered
    <3>2. p \notin sch.ids
      BY <2>3 DEF ClaimedInv
    <3> QED
      BY <1>9, <2>3, <3>1, <3>2
  <2>4. CASE q = p /\ ~Scheduled(p)
    <3>1. Remembered(p) => Remembered(p)'
      <4> SUFFICES ASSUME Remembered(p) PROVE Remembered(p)'
        OBVIOUS
      <4>1. PICK i \in 1..n :
              /\ runs[p][i].trigger = "scheduled" /\ runs[p][i].day = Day(now)
              /\ n - i <= manuals
        BY DEF Remembered
      <4>2. i < n
        BY <1>4, <1>5, <2>4, <4>1 DEF Scheduled, Newest
      <4>3. i \in 1..Len(runs'[p]) /\ runs'[p][i] = runs[p][i] /\ Len(runs'[p]) = n
        BY <1>6, <1>7, <4>2
      <4> QED
        BY <1>3, <4>1, <4>3 DEF Remembered
    <3> QED
      BY <1>8, <1>9, <2>1, <2>4, <3>1
  <2> QED
    BY <2>2, <2>3, <2>4
<1>15. SleepInv'
  <2>1. \A q \in Portfolios : Day(now) \in served[q] \/ Scheduled(q) => Day(now) \in served'[q] \/ Scheduled(q)'
    BY <1>7, <1>8
  <2> QED
    BY <1>3, <2>1 DEF SleepInv
<1>16. WorkInv'
  BY <1>3, <1>7, <1>9 DEF WorkInv, TypeOK
<1> QED
  BY <1>10, <1>11, <1>12, <1>13, <1>14, <1>15, <1>16

\* What a worker leaves behind: the row of p ended, or as it was because
\* MarkFailedTx failed, and the oldest rows pruned.
LEMMA GivenUpKeeps ==
    ASSUME IInv, NEW p \in Portfolios, Inflight(p),
           NEW t, t = Ended(runs[p]) \/ t = runs[p],
           runs' = [runs EXCEPT ![p] = Keep(t)],
           status' \in [Portfolios -> {"running", "done"}],
           \A q \in Portfolios \ {p} : status'[q] = status[q],
           status'[p] = "done" \/ (t = runs[p] /\ status'[p] = status[p]),
           queue' \in Seq(Portfolios), Len(queue') <= QueueCap,
           \A i \in 1..Len(queue') : queue'[i] # p /\ queue'[i] \in Waiting,
           \A i, j \in 1..Len(queue') : queue'[i] = queue'[j] => i = j,
           sch.pc # "off", working' \subseteq working \ {p},
           UNCHANGED <<now, sch, manuals, served>>, faults' \in 0..MaxFaults,
           left' = left \/ left' = left \cup {p},
           t = Ended(runs[p]) /\ Scheduled(p) => p \in left'
    PROVE  IInv'
<1> USE DEF IInv
<1> DEFINE n == Len(runs[p])
           s == Keep(t)
<1>2. /\ runs[p] \in Seq(Row) /\ n \in Nat /\ n > 0 /\ n \in 1..n /\ \A i \in 1..n : RowOK(p, i)
  BY DEF TypeOK, Inflight, Has, RowsInv
<1>3. /\ t \in Seq(Row) /\ Len(t) = n
      /\ \A i \in 1..n : /\ i < n => t[i] = runs[p][i]
                         /\ t[i].trigger = runs[p][i].trigger /\ t[i].day = runs[p][i].day
      /\ t[n].status = "ended" \/ t = runs[p]
  <2>1. CASE t = Ended(runs[p])
    BY <1>2, <2>1, EndedType
  <2>2. CASE t = runs[p]
    BY <1>2, <2>2
  <2> QED
    BY <2>1, <2>2
<1>4. \A i \in 1..n : i < n => t[i].status = "ended"
  BY <1>2, <1>3 DEF RowOK
<1>5. PICK k \in Nat :
         /\ k <= n /\ k = (IF n <= Retention THEN 0 ELSE n - Retention)
         /\ s \in Seq(Row) /\ Len(s) = n - k
         /\ \A i \in 1..(n - k) : s[i] = t[i + k]
  <2>1. \E k \in Nat :
         /\ k <= Len(t) /\ k = (IF Len(t) <= Retention THEN 0 ELSE Len(t) - Retention)
         /\ Keep(t) \in Seq(Row) /\ Len(Keep(t)) = Len(t) - k
         /\ \A i \in 1..(Len(t) - k) : Keep(t)[i] = t[i + k]
    BY <1>3, KeepType
  <2> HIDE DEF n
  <2> QED
    BY <1>3, <2>1
<1> HIDE DEF s
<1>6. n - k \in Nat /\ n - k > 0 /\ \A i \in 1..(n - k) : i + k \in 1..n
  <2> HIDE DEF n
  <2> QED
    BY <1>2, <1>5, Bounds
<1>7. /\ runs' \in [Portfolios -> Seq(Row)] /\ runs'[p] = s
      /\ \A q \in Portfolios \ {p} :
           /\ runs'[q] = runs[q] /\ Scheduled(q)' = Scheduled(q)
           /\ \A st : Has(q, st)' = Has(q, st)
  BY <1>5, OtherRows DEF s
<1>8. \A i \in 1..Len(runs'[p]) :
         /\ runs'[p][i] = t[i + k] /\ i + k \in 1..n
         /\ runs'[p][i].trigger = runs[p][i + k].trigger /\ runs'[p][i].day = runs[p][i + k].day
  <2> SUFFICES ASSUME NEW i \in 1..Len(runs'[p])
               PROVE  /\ runs'[p][i] = t[i + k] /\ i + k \in 1..n
                      /\ runs'[p][i].trigger = runs[p][i + k].trigger
                      /\ runs'[p][i].day = runs[p][i + k].day
    OBVIOUS
  <2> HIDE DEF n
  <2>1. i \in 1..(n - k) /\ runs'[p][i] = t[i + k]
    BY <1>5, <1>7
  <2>2. i + k \in 1..n
    BY <1>6, <2>1
  <2> QED
    BY <1>3, <2>1, <2>2
<1>9. /\ t = runs[p] => (Scheduled(p)' <=> Scheduled(p)) /\ \A st : Has(p, st)' <=> Has(p, st)
      /\ t # runs[p] => ~Scheduled(p)'
  <2>1. Len(runs'[p]) > 0 /\ Len(runs'[p]) \in 1..Len(runs'[p]) /\ Len(runs'[p]) + k = n
    <3> HIDE DEF n
    <3> QED
      BY <1>2, <1>5, <1>6, <1>7
  <2>2. runs'[p][Len(runs'[p])] = t[n]
    BY <1>8, <2>1
  <2>3. Newest(p)' = t[n] /\ Newest(p) = runs[p][n]
    BY <2>2 DEF Newest
  <2>4. \A st : Has(p, st)' <=> t[n].status = st
    BY <2>1, <2>3 DEF Has
  <2>5. \A st : Has(p, st) <=> runs[p][n].status = st
    BY <1>2 DEF Has, Newest
  <2>6. t # runs[p] => ~Scheduled(p)'
    BY <1>3, <2>4 DEF Scheduled
  <2>7. t = runs[p] => (Scheduled(p)' <=> Scheduled(p))
    BY <2>3, <2>4, <2>5 DEF Scheduled
  <2> QED
    BY <2>4, <2>5, <2>6, <2>7
<1>10. TypeOK'
  BY <1>7 DEF TypeOK
<1>11. QueueInv'
  <2>1. \A q \in Waiting : q # p => q \in Waiting'
    BY <1>7 DEF Waiting
  <2> QED
    BY <2>1 DEF QueueInv
<1>12. RowsInv'
  <2> SUFFICES ASSUME NEW q \in Portfolios
               PROVE  /\ \A i \in 1..Len(runs'[q]) : RowOK(q, i)'
                      /\ status'[q] = "running" => Has(q, "running")'
                      /\ \A e \in served[q] : e <= Day(now)
    BY DEF RowsInv
  <2>1. /\ \A i \in 1..Len(runs[q]) : RowOK(q, i)
        /\ status[q] = "running" => Has(q, "running")
        /\ \A e \in served[q] : e <= Day(now)
    BY DEF RowsInv
  <2>2. CASE q # p
    <3>1. status'[q] = status[q] /\ runs'[q] = runs[q]
      BY <1>7, <2>2
    <3> QED
      BY <1>7, <2>1, <2>2, <3>1 DEF RowOK
  <2>3. CASE q = p
    <3>1. status'[p] = "running" => Has(p, "running")'
      BY <1>9, <2>1, <2>3
    <3>2. ASSUME NEW i \in 1..Len(runs'[p]) PROVE RowOK(p, i)'
      <4>1. /\ i + k \in 1..n /\ RowOK(p, i + k) /\ runs'[p][i] = t[i + k]
            /\ runs'[p][i].trigger = runs[p][i + k].trigger /\ runs'[p][i].day = runs[p][i + k].day
        BY <1>2, <1>8, <3>2
      <4>2. i < Len(runs'[p]) => i + k < n
        <5> HIDE DEF n
        <5> QED
          BY <1>2, <1>5, <1>7
      <4>3. CASE i + k < n
        BY <1>4, <4>1, <4>2, <4>3 DEF RowOK
      <4>4. CASE i + k = n /\ t = runs[p]
        BY <4>1, <4>2, <4>4 DEF RowOK
      <4>5. CASE i + k = n /\ t # runs[p]
        <5>1. runs'[p][i].status = "ended"
          BY <1>3, <4>1, <4>5
        <5> QED
          BY <4>1, <4>2, <4>5, <5>1 DEF RowOK
      <4> QED
        <5> HIDE DEF n
        <5> QED
          BY <1>2, <4>1, <4>3, <4>4, <4>5
    <3> QED
      BY <2>1, <2>3, <3>1, <3>2
  <2> QED
    BY <2>2, <2>3
<1>13. ClaimedInv'
  BY <1>7, <1>9 DEF ClaimedInv, TypeOK, SchState
<1>14. OnceInv'
  <2> SUFFICES ASSUME manuals < Retention, NEW q \in Portfolios
               PROVE  /\ Day(now) \in served[q] => Remembered(q)'
                      /\ q \in sch.ids \/ Scheduled(q)' => Day(now) \notin served[q]
    BY DEF OnceInv
  <2>1. /\ Day(now) \in served[q] => Remembered(q)
        /\ q \in sch.ids \/ Scheduled(q) => Day(now) \notin served[q]
        /\ manuals \in Nat
    BY DEF OnceInv, TypeOK
  <2>2. CASE q # p
    <3>1. Remembered(q) => Remembered(q)'
      BY <1>7, <2>2 DEF Remembered
    <3> QED
      BY <1>7, <2>1, <2>2, <3>1
  <2>3. CASE q = p
    <3>1. Remembered(p) => Remembered(p)'
      <4> SUFFICES ASSUME Remembered(p) PROVE Remembered(p)'
        OBVIOUS
      <4>1. PICK i \in 1..n :
              /\ runs[p][i].trigger = "scheduled" /\ runs[p][i].day = Day(now)
              /\ n - i <= manuals
        BY DEF Remembered
      <4>2. i - k \in 1..(n - k)
        BY <1>2, <1>5, <2>1, <4>1, Bounds
      <4>3. /\ i - k \in 1..Len(runs'[p]) /\ Len(runs'[p]) - (i - k) = n - i
            /\ runs'[p][i - k].trigger = runs[p][i].trigger /\ runs'[p][i - k].day = runs[p][i].day
        <5>1. (i - k) + k = i /\ Len(runs'[p]) = n - k
          BY <1>5, <1>7
        <5>2. i - k \in 1..Len(runs'[p])
          BY <4>2, <5>1
        <5> QED
          <6>1. /\ runs'[p][i - k].trigger = runs[p][(i - k) + k].trigger
                /\ runs'[p][i - k].day = runs[p][(i - k) + k].day
            BY <1>8, <5>2
          <6>2. (n - k) - (i - k) = n - i
            <7> HIDE DEF n
            <7> QED
              BY <1>2, <4>1
          <6> QED
            BY <5>1, <5>2, <6>1, <6>2
      <4> QED
        BY <4>1, <4>3 DEF Remembered
    <3> QED
      BY <1>9, <2>1, <2>3, <3>1
  <2> QED
    BY <2>2, <2>3
<1>15. SleepInv'
  <2>1. \A q \in Portfolios : q \notin left' => q \notin left /\ (Scheduled(q) => Scheduled(q)')
    BY <1>7, <1>9
  <2> QED
    BY <2>1 DEF SleepInv
<1>16. WorkInv'
  BY <1>7 DEF WorkInv, TypeOK
<1> QED
  BY <1>10, <1>11, <1>12, <1>13, <1>14, <1>15, <1>16

LEMMA FailRunKeeps == ASSUME IInv, FailRun PROVE IInv'
<1> USE DEF IInv
<1>1. /\ queue \in Seq(Portfolios) /\ Len(queue) \in Nat /\ Len(queue) > 0 /\ Head(queue) = queue[1]
      /\ Len(Tail(queue)) = Len(queue) - 1 /\ Tail(queue) \in Seq(Portfolios) /\ 1 \in 1..Len(queue)
      /\ \A i \in 1..Len(Tail(queue)) : i + 1 \in 1..Len(queue) /\ Tail(queue)[i] = queue[i + 1]
  BY DEF FailRun, TypeOK
<1>2. PICK p \in Portfolios : p = Head(queue)
  BY <1>1
<1>3. /\ queue' = Tail(queue) /\ UNCHANGED <<now, status, working, sch, manuals, served>>
      /\ faults < MaxFaults /\ faults' = faults + 1
      /\ \/ /\ runs' = [runs EXCEPT ![p] = Keep(Ended(runs[p]))]
            /\ left' = IF Newest(p).trigger = "scheduled" THEN left \cup {p} ELSE left
         \/ /\ runs' = [runs EXCEPT ![p] = Keep(runs[p])]
            /\ left' = left
  BY <1>2 DEF FailRun
<1>4. Has(p, "queued") /\ \A i \in 1..Len(queue') : queue'[i] # p /\ queue'[i] \in Waiting
  BY <1>1, <1>2, <1>3 DEF QueueInv, Waiting
<1>5. \A i, j \in 1..Len(queue') : queue'[i] = queue'[j] => i = j
  <2> SUFFICES ASSUME NEW i \in 1..Len(queue'), NEW j \in 1..Len(queue'), queue'[i] = queue'[j]
               PROVE  i = j
    OBVIOUS
  <2>1. i + 1 \in 1..Len(queue) /\ j + 1 \in 1..Len(queue) /\ queue[i + 1] = queue[j + 1]
    BY <1>1, <1>3
  <2>2. i + 1 = j + 1
    BY <2>1 DEF QueueInv
  <2> QED
    BY <2>2, <1>1, <1>3
<1>6. /\ queue' \in Seq(Portfolios) /\ Len(queue') <= QueueCap /\ sch.pc # "off"
      /\ faults' \in 0..MaxFaults
  BY <1>1, <1>3, Bounds DEF TypeOK, QueueInv
<1>7. p \notin working /\ Inflight(p) /\ status[p] = "done"
  BY <1>4 DEF WorkInv, RowsInv, Inflight, Has, TypeOK
<1>8. /\ status' \in [Portfolios -> {"running", "done"}] /\ working' \subseteq working \ {p}
      /\ \A q \in Portfolios \ {p} : status'[q] = status[q]
      /\ status'[p] = "done"
  BY <1>3, <1>7 DEF TypeOK
<1>9. CASE /\ runs' = [runs EXCEPT ![p] = Keep(Ended(runs[p]))]
           /\ left' = IF Newest(p).trigger = "scheduled" THEN left \cup {p} ELSE left
  <2>1. Scheduled(p) => p \in left'
    BY <1>9 DEF Scheduled
  <2>2. left' = left \/ left' = left \cup {p}
    BY <1>9
  <2> QED
    BY <1>3, <1>4, <1>5, <1>6, <1>7, <1>8, <1>9, <2>1, <2>2, GivenUpKeeps
<1>10. CASE runs' = [runs EXCEPT ![p] = Keep(runs[p])] /\ left' = left
  <2>1. runs[p] # Ended(runs[p])
    <3>1. runs[p] \in Seq(Row) /\ Len(runs[p]) > 0 /\ runs[p][Len(runs[p])].status = "queued"
      BY <1>4 DEF Has, Newest, TypeOK
    <3> QED
      BY <3>1, EndedType
  <2> QED
    BY <1>3, <1>4, <1>5, <1>6, <1>7, <1>8, <1>10, <2>1, GivenUpKeeps
<1> QED
  BY <1>3, <1>9, <1>10

LEMMA EndRunKeeps == ASSUME IInv, NEW p \in Portfolios, EndRun(p) PROVE IInv'
<1> USE DEF IInv
<1>1. /\ p \in working /\ working' = working \ {p}
      /\ UNCHANGED <<now, queue, sch, manuals, served, left>>
      /\ \/ /\ status' = [status EXCEPT ![p] = "done"]
            /\ runs' = [runs EXCEPT ![p] = Keep(Ended(runs[p]))] /\ faults' = faults
         \/ /\ faults < MaxFaults /\ faults' = faults + 1
            /\ runs' = [runs EXCEPT ![p] = Keep(runs[p])] /\ status' = status
  BY DEF EndRun
<1>2. Has(p, "running") /\ Inflight(p) /\ ~Scheduled(p)
  BY <1>1 DEF WorkInv, Inflight, Scheduled, Has
<1>3. /\ queue' \in Seq(Portfolios) /\ Len(queue') <= QueueCap
      /\ \A i \in 1..Len(queue') : queue'[i] # p /\ queue'[i] \in Waiting
      /\ \A i, j \in 1..Len(queue') : queue'[i] = queue'[j] => i = j
      /\ sch.pc # "off" /\ faults' \in 0..MaxFaults
  BY <1>1, <1>2, Bounds DEF TypeOK, QueueInv, Waiting, Has
<1>4. CASE /\ status' = [status EXCEPT ![p] = "done"]
           /\ runs' = [runs EXCEPT ![p] = Keep(Ended(runs[p]))]
  <2>1. /\ status' \in [Portfolios -> {"running", "done"}]
        /\ \A q \in Portfolios \ {p} : status'[q] = status[q]
        /\ status'[p] = "done"
    BY <1>4 DEF TypeOK
  <2> QED
    BY <1>1, <1>2, <1>3, <1>4, <2>1, GivenUpKeeps
<1>5. CASE runs' = [runs EXCEPT ![p] = Keep(runs[p])] /\ status' = status
  <2>1. status' \in [Portfolios -> {"running", "done"}]
    BY <1>5 DEF TypeOK
  <2> QED
    BY <1>1, <1>2, <1>3, <1>5, <2>1, GivenUpKeeps
<1> QED
  BY <1>1, <1>4, <1>5

LEMMA BootKeeps == ASSUME IInv, Boot PROVE IInv'
<1> USE DEF IInv
<1>1. /\ sch.pc = "off" /\ status' = [p \in Portfolios |-> "done"]
      /\ runs' = [p \in Portfolios |-> IF Inflight(p) THEN Ended(runs[p]) ELSE runs[p]]
      /\ sch' = IF FiredToday(now) THEN Pass(NextFire(now)) ELSE Return
      /\ left' = {} /\ UNCHANGED <<now, queue, manuals, faults, working, served>>
  BY DEF Boot, AtPC
<1>2. ASSUME NEW p \in Portfolios
      PROVE  /\ runs'[p] \in Seq(Row) /\ Len(runs'[p]) = Len(runs[p])
             /\ \A i \in 1..Len(runs[p]) :
                  /\ runs'[p][i].status = "ended"
                  /\ runs'[p][i].trigger = runs[p][i].trigger /\ runs'[p][i].day = runs[p][i].day
  <2>1. runs[p] \in Seq(Row) /\ Len(runs[p]) \in Nat /\ \A i \in 1..Len(runs[p]) : RowOK(p, i) /\ runs[p][i] \in Row
    BY DEF TypeOK, RowsInv
  <2>2. CASE Inflight(p)
    <3>1. Len(runs[p]) > 0 /\ runs'[p] = Ended(runs[p])
      BY <1>1, <2>2 DEF Inflight, Has
    <3>2. /\ Ended(runs[p]) \in Seq(Row) /\ Len(Ended(runs[p])) = Len(runs[p])
          /\ \A i \in 1..Len(runs[p]) :
               /\ i < Len(runs[p]) => Ended(runs[p])[i] = runs[p][i]
               /\ Ended(runs[p])[i].trigger = runs[p][i].trigger /\ Ended(runs[p])[i].day = runs[p][i].day
          /\ Ended(runs[p])[Len(runs[p])].status = "ended"
      BY <2>1, <3>1, EndedType
    <3>3. \A i \in 1..Len(runs[p]) : Ended(runs[p])[i].status = "ended"
      <4> SUFFICES ASSUME NEW i \in 1..Len(runs[p]) PROVE Ended(runs[p])[i].status = "ended"
        OBVIOUS
      <4>1. CASE i < Len(runs[p])
        BY <2>1, <3>2, <4>1 DEF RowOK
      <4>2. CASE i = Len(runs[p])
        BY <3>2, <4>2
      <4> QED
        BY <2>1, <4>1, <4>2
    <3> QED
      BY <3>1, <3>2, <3>3
  <2>3. CASE ~Inflight(p)
    <3>1. runs'[p] = runs[p]
      BY <1>1, <2>3
    <3>2. \A i \in 1..Len(runs[p]) : runs[p][i].status = "ended"
      <4> SUFFICES ASSUME NEW i \in 1..Len(runs[p]) PROVE runs[p][i].status = "ended"
        OBVIOUS
      <4>1. CASE i < Len(runs[p])
        BY <2>1, <4>1 DEF RowOK
      <4>2. CASE i = Len(runs[p])
        BY <2>1, <2>3, <4>2 DEF Inflight, Has, Newest, Row
      <4> QED
        BY <2>1, <4>1, <4>2
    <3> QED
      BY <2>1, <3>1, <3>2
  <2> QED
    BY <2>2, <2>3
<1>3. now \in Instants /\ now \in Nat /\ NextFire(now) \in Instants \cup {Never}
  BY Bounds, NextFireType DEF TypeOK
<1>4. sch' \in SchState /\ sch'.pc # "off" /\ sch'.ids = {}
  BY <1>1, <1>3, ReturnType, PassType
<1>5. TypeOK'
  <2>1. runs' \in [Portfolios -> Seq(Row)]
    BY <1>1, <1>2
  <2>2. status' \in [Portfolios -> {"running", "done"}]
    BY <1>1
  <2> QED
    BY <1>1, <1>4, <2>1, <2>2 DEF TypeOK
<1>6. QueueInv'
  <2>1. queue' = <<>>
    BY <1>1 DEF QueueInv
  <2> QED
    BY <1>4, <2>1 DEF QueueInv
<1>7. RowsInv'
  <2> SUFFICES ASSUME NEW q \in Portfolios
               PROVE  /\ \A i \in 1..Len(runs'[q]) : RowOK(q, i)'
                      /\ status'[q] = "running" => Has(q, "running")'
                      /\ \A e \in served[q] : e <= Day(now)
    BY <1>1 DEF RowsInv
  <2>1. /\ \A i \in 1..Len(runs[q]) : RowOK(q, i)
        /\ \A e \in served[q] : e <= Day(now)
    BY DEF RowsInv
  <2>2. status'[q] = "done"
    BY <1>1
  <2>3. \A i \in 1..Len(runs'[q]) : RowOK(q, i)'
    BY <1>1, <1>2, <2>1 DEF RowOK
  <2> QED
    BY <2>1, <2>2, <2>3
<1>8. \A q \in Portfolios : ~Scheduled(q)'
  <2> SUFFICES ASSUME NEW q \in Portfolios, Scheduled(q)' PROVE FALSE
    OBVIOUS
  <2>1. Len(runs'[q]) \in 1..Len(runs[q])
    BY <1>2 DEF Scheduled, Has
  <2> QED
    BY <1>2, <2>1 DEF Scheduled, Has, Newest
<1>9. ClaimedInv'
  BY <1>4 DEF ClaimedInv
<1>10. OnceInv'
  <2> SUFFICES ASSUME manuals < Retention, NEW q \in Portfolios
               PROVE  Day(now) \in served[q] => Remembered(q)'
    BY <1>1, <1>4, <1>8 DEF OnceInv
  <2>1. Day(now) \in served[q] => Remembered(q)
    BY DEF OnceInv
  <2>2. Remembered(q) => Remembered(q)'
    BY <1>1, <1>2 DEF Remembered
  <2> QED
    BY <2>1, <2>2
<1>11. SleepInv'
  <2>1. CASE FiredToday(now)
    BY <1>1, <1>3, <2>1, PassType, AwakeOK
  <2>2. CASE ~FiredToday(now)
    <3>1. sch'.fire = NextFire(now)
      BY <1>1, <1>3, <2>2, ReturnType
    <3>2. now \notin Fires
      BY <1>3, <2>2 DEF FiredToday
    <3> QED
      BY <1>1, <1>3, <3>1, <3>2, NextFireType DEF SleepInv
  <2> QED
    BY <2>1, <2>2
<1>12. WorkInv'
  <2>1. working' = {}
    BY <1>1 DEF QueueInv
  <2> QED
    BY <2>1 DEF WorkInv
<1> QED
  BY <1>5, <1>6, <1>7, <1>9, <1>10, <1>11, <1>12

LEMMA TickKeeps == ASSUME IInv, Tick PROVE IInv'
<1> USE DEF IInv
<1>1. /\ now < 2 * LastDay + 1 /\ now' = now + 1
      /\ UNCHANGED <<status, runs, queue, sch, manuals, faults, working, served, left>>
  BY DEF Tick
<1>2. now \in Instants /\ now' \in Instants /\ now \in Nat
  BY <1>1, Bounds DEF TypeOK, Instants
<1>3. Day(now) \in Nat /\ Day(now') \in Nat /\ Day(now') >= Day(now)
  BY <1>1, <1>2, DayType
<1>4. \A q \in Portfolios : \A e \in served[q] : e \in Nat /\ e <= Day(now)
  BY Bounds DEF RowsInv, TypeOK
<1>5. \A q \in Portfolios : Scheduled(q)' = Scheduled(q) /\ \A st : Has(q, st)' = Has(q, st)
  BY <1>1 DEF Scheduled, Has, Newest
<1>6. TypeOK'
  BY <1>1, <1>2 DEF TypeOK
<1>7. QueueInv' /\ ClaimedInv' /\ WorkInv'
  BY <1>1, <1>5 DEF QueueInv, ClaimedInv, WorkInv, Waiting, TypeOK, SchState
<1>8. RowsInv'
  BY <1>1, <1>3, <1>4, <1>5 DEF RowsInv, RowOK
<1>9. OnceInv'
  <2> SUFFICES ASSUME manuals < Retention, NEW q \in Portfolios
               PROVE  /\ Day(now') \in served[q] => Remembered(q)'
                      /\ q \in sch.ids \/ Scheduled(q)' => Day(now') \notin served[q]
    BY <1>1 DEF OnceInv
  <2>1. Day(now') \in served[q] => Day(now') = Day(now)
    BY <1>3, <1>4
  <2>2. Day(now') = Day(now) /\ Remembered(q) => Remembered(q)'
    BY <1>1 DEF Remembered
  <2> QED
    BY <1>5, <2>1, <2>2 DEF OnceInv
<1>10. SleepInv'
  <2> SUFFICES ASSUME sch.pc = "sleep"
               PROVE  /\ \A f \in Fires : f > now' => sch.fire <= f
                      /\ ~(now' \in Fires /\ sch.fire > now')
    BY <1>1 DEF SleepInv
  <2>1. \A f \in Fires : f \in Nat /\ (f > now => sch.fire <= f)
    BY FireTypes, Bounds DEF SleepInv
  <2>2. sch.fire \in Nat
    BY Bounds DEF TypeOK, SchState
  <2> QED
    BY <1>1, <1>2, <2>1, <2>2
<1> QED
  BY <1>6, <1>7, <1>8, <1>9, <1>10

-----------------------------------------------------------------------------

LEMMA InitIInv == ASSUME Init PROVE IInv
<1>1. /\ now = 2 /\ now \in Instants /\ sch = [Return EXCEPT !.pc = "off"]
      /\ \A p \in Portfolios : runs[p] = <<>> /\ Len(runs[p]) = 0 /\ status[p] = "done" /\ served[p] = {}
      /\ queue = <<>> /\ working = {} /\ manuals = 0 /\ faults = 0 /\ left = {}
  BY Bounds DEF Init, Instants
<1>2. sch \in SchState /\ sch.pc = "off" /\ sch.ids = {}
  BY <1>1, ReturnType
<1>3. TypeOK
  <2>1. runs \in [Portfolios -> Seq(Row)] /\ served \in [Portfolios -> SUBSET Days]
        /\ status \in [Portfolios -> {"running", "done"}]
    BY DEF Init
  <2>2. queue \in Seq(Portfolios) /\ Len(queue) <= QueueCap
    BY <1>1, Bounds
  <2> QED
    BY <1>1, <1>2, <2>1, <2>2, Bounds DEF TypeOK
<1>4. QueueInv /\ WorkInv /\ RowsInv
  BY <1>1 DEF QueueInv, WorkInv, RowsInv
<1>5. ClaimedInv /\ SleepInv /\ OnceInv
  BY <1>1, <1>2 DEF ClaimedInv, SleepInv, OnceInv, Scheduled, Has
<1> QED
  BY <1>3, <1>4, <1>5 DEF IInv

LEMMA NextIInv == ASSUME IInv, [Next]_vars PROVE IInv'
<1>1. CASE SchedulerStep
  BY <1>1, FireKeeps, ClaimKeeps, ClaimFailsKeeps, SubmitClaimedKeeps, BatchDoneKeeps, RetryKeeps
  DEF SchedulerStep
<1>2. CASE WorkerStep
  BY <1>2, StartRunKeeps, FailRunKeeps, EndRunKeeps DEF WorkerStep, TakeTask
<1>3. CASE Crash \/ Boot \/ Tick
  BY <1>3, CrashKeeps, BootKeeps, TickKeeps
<1>4. CASE \E p \in Portfolios : ManualRun(p)
  BY <1>4, ManualRunKeeps
<1>5. CASE UNCHANGED vars
  <2>1. /\ UNCHANGED <<now, status, runs, queue, working, served, sch, manuals, faults, left>>
        /\ manuals' \in 0..MaxManual /\ manuals' >= manuals /\ faults' \in 0..MaxFaults
        /\ left' \subseteq Portfolios /\ sch' \in SchState /\ (sch'.pc = "off" => queue' = <<>> /\ working' = {})
    BY <1>5, Bounds DEF vars, IInv, TypeOK, QueueInv
  <2>2. \A q \in Portfolios : Scheduled(q)' = Scheduled(q)
    BY <2>1 DEF Scheduled, Has, Newest
  <2>3. SleepInv'
    BY <2>1, <2>2 DEF IInv, SleepInv
  <2> QED
    BY <2>1, <2>3, SchStepKeeps
<1> QED
  BY <1>1, <1>2, <1>3, <1>4, <1>5 DEF Next

\* The inductive invariant holds in every state.
THEOREM Invariance == Spec => []IInv
BY InitIInv, NextIInv, PTL DEF Spec

\* Type correctness; the channel never holds more than its capacity.
THEOREM TypeCorrect == Spec => []TypeOK
<1>1. IInv => TypeOK
  BY DEF IInv
<1> QED
  BY <1>1, Invariance, PTL

\* dispatchDue leaves no portfolio without its run of the day but for the
\* reasons DailyRunServed lists.
THEOREM DailyRunServedHolds == Spec => []DailyRunServed
<1>1. IInv => DailyRunServed
  BY DEF IInv, SleepInv, DailyRunServed, Scheduled, Inflight
<1> QED
  BY <1>1, Invariance, PTL

\* ClaimDue keeps a portfolio from a second scheduled run on the same day, as
\* long as there are fewer manual runs than rows that PruneRuns keeps.
THEOREM OncePerDayHolds == Spec => OncePerDay
<1>1. IInv /\ [Next]_vars =>
        [\A p \in Portfolios : Starts(p) /\ manuals < Retention => Day(now) \notin served[p]]_vars
  BY DEF IInv, OnceInv, Starts
<1> QED
  BY <1>1, Invariance, PTL DEF Spec, OncePerDay
=============================================================================
