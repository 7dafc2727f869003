---------------------------- MODULE AlertsProofs ----------------------------
(***************************************************************************)
(* The dedup of alert e-mails and the unsubscribe link, for any number of   *)
(* alerts, recipients and notifications, any calendar, and lists that name  *)
(* an address any number of times.                                          *)
(***************************************************************************)
EXTENDS Alerts, TLAPS

-----------------------------------------------------------------------------
(* Types. *)

LEMMA Bounds ==
    LastDay \in Nat /\ MaxRuns \in Nat /\ MaxEdits \in Nat /\ MaxFaults \in Nat /\ LastDay >= 1
BY AlertsAssumption

LEMMA BodyType ==
    ASSUME NEW b \in Bodies
    PROVE  b.rcpts \in Lists /\ b.freq \in Frequencies \cup {"none"}
BY AlertsAssumption

LEMMA NoListType == NoList \in Lists /\ Listed(NoList) = {} /\ \A r \in Recipients : NoList[r] = 0
BY DEF NoList, Lists, Listed

LEMMA QuietType ==
    /\ Quiet \in NotifierState /\ Quiet.pc = "idle" /\ Ahead(Quiet) = {} /\ Quiet.todo = {}
    /\ \A a \in Ids : ~Quiet.list[a].exists
    /\ NoRow \in RowState /\ NoEdit \in EditorState /\ NoUnsub \in UnsubState
<1>1. NoRow \in RowState /\ ~NoRow.exists
  BY Bounds, NoListType DEF NoRow, RowState, Frequencies
<1>2. [a \in Ids |-> NoRow] \in [Ids -> RowState]
  BY <1>1
<1>3. Quiet \in NotifierState
  BY <1>2, Bounds, NoListType DEF Quiet, NotifierState
<1>4. \A a \in Ids : Quiet.list[a] = NoRow
  BY DEF Quiet
<1>5. Ahead(Quiet) = {} /\ Quiet.pc = "idle" /\ Quiet.todo = {}
  BY DEF Quiet, Ahead
<1>6. NoEdit \in EditorState /\ NoUnsub \in UnsubState
  BY DEF NoEdit, EditorState, NoUnsub, UnsubState
<1> QED
  BY <1>1, <1>3, <1>4, <1>5, <1>6

\* What a notification has to mail, and for which day.
LEMMA AheadType ==
    ASSUME TypeOK, NotifierInv, NEW n \in Notifiers
    PROVE  /\ notifier[n] \in NotifierState /\ Ahead(notifier[n]) \subseteq Due
           /\ notifier[n].pc \in {"next", "send"} => notifier[n].now \in Days /\ notifier[n].now <= day
           /\ notifier[n].pc \notin {"next", "send"} => Ahead(notifier[n]) = {}
<1>1. notifier[n] \in NotifierState /\ day \in Days
  BY DEF TypeOK
<1>2. Ahead(notifier[n]) \subseteq Due
  BY <1>1 DEF NotifierInv, Ahead, NotifierState, Due
<1>3. notifier[n].pc \in {"next", "send"} => notifier[n].now \in Days /\ notifier[n].now <= day
  BY <1>1, Bounds DEF NotifierInv, Days
<1>4. notifier[n].pc \notin {"next", "send"} => Ahead(notifier[n]) = {}
  BY <1>1 DEF NotifierInv, Ahead, NotifierState
<1> QED
  BY <1>1, <1>2, <1>3, <1>4

LEMMA RowType ==
    ASSUME TypeOK, NEW a \in Ids
    PROVE  /\ rows[a] \in RowState /\ rows[a].exists \in BOOLEAN /\ rows[a].last \in 0..LastDay
           /\ rows[a].rcpts \in Lists /\ rows[a].last \in Nat
BY Bounds DEF TypeOK, RowState

-----------------------------------------------------------------------------
(* Notifications. *)

\* A step of one notification that mails and marks nothing.
LEMMA NotifierStepKeeps ==
    ASSUME IInv, NEW n \in Notifiers, NEW x \in NotifierState,
           notifier' = [notifier EXCEPT ![n] = x],
           UNCHANGED <<day, portfolio, rows, fresh, editor, unsub, edits, mails, out, excused>>,
           runs' \in 0..MaxRuns, faults' \in 0..MaxFaults,
           notifier[n].pc # "send",
           x.pc \in {"idle", "list", "load"} => x.todo = {},
           x.pc \in {"next", "send"} => /\ x.now = notifier[n].now /\ x.run = notifier[n].run
                                           /\ notifier[n].pc \in {"next", "send"},
           x.pc = "send" => x.cur \in Ids /\ \A t \in x.todo : t.id # x.cur,
           x.todo \subseteq notifier[n].todo,
           Ahead(x) \subseteq Ahead(notifier[n]),
           \A a \in fresh : ~x.list[a].exists,
           x.pc = "load" => x.list = rows
    PROVE  IInv'
<1> USE DEF IInv
<1>1. notifier'[n] = x /\ \A m \in Notifiers \ {n} : notifier'[m] = notifier[m]
  BY DEF TypeOK
<1>2. TypeOK'
  BY DEF TypeOK
<1>3. \A m \in Notifiers : Ahead(notifier'[m]) \subseteq Ahead(notifier[m])
  BY <1>1
<1>4. Ahead(x) # {} => x.now = notifier[n].now /\ x.run = notifier[n].run
  BY DEF Ahead, NotifierState
<1>5. \A m \in Notifiers : Ahead(notifier'[m]) # {} =>
         notifier'[m].now = notifier[m].now /\ notifier'[m].run = notifier[m].run
  BY <1>1, <1>4
<1>6. NotifierInv'
  BY <1>1 DEF NotifierInv
<1>7. FreshInv'
  BY <1>1, <1>3 DEF FreshInv
<1>8. AloneInv'
  BY <1>3, <1>5 DEF AloneInv
<1>9. AheadInv'
  BY <1>3, <1>5 DEF AheadInv
<1>10. MarkedInv'
  BY <1>1 DEF MarkedInv
<1>11. ClockInv' /\ EditInv' /\ MailedOncePerDay' /\ UnsubscribedStaysOut'
  BY DEF ClockInv, EditInv, MailedOncePerDay, UnsubscribedStaysOut
<1> QED
  BY <1>2, <1>6, <1>7, <1>8, <1>9, <1>10, <1>11

\* A notification that mails nothing more is over.
LEMMA QuietKeeps ==
    ASSUME IInv, NEW n \in Notifiers, notifier' = [notifier EXCEPT ![n] = Quiet],
           UNCHANGED <<day, portfolio, rows, fresh, editor, unsub, edits, mails, out, excused, runs>>,
           faults' \in 0..MaxFaults, notifier[n].pc # "send"
    PROVE  IInv'
<1>1. runs' \in 0..MaxRuns /\ fresh \subseteq Ids
  BY DEF IInv, TypeOK
<1>2. /\ Quiet \in NotifierState /\ Quiet.pc = "idle" /\ Ahead(Quiet) = {} /\ Quiet.todo = {}
      /\ \A a \in fresh : ~Quiet.list[a].exists
  BY <1>1, QuietType
<1> QED
  BY <1>1, <1>2, NotifierStepKeeps

\* A fault stays within its bound.
LEMMA FaultType == ASSUME TypeOK, Fault \/ NoFault PROVE faults' \in 0..MaxFaults
BY Bounds DEF TypeOK, Fault, NoFault

LEMMA RunCompletesKeeps == ASSUME IInv, NEW n \in Notifiers, RunCompletes(n) PROVE IInv'
<1> DEFINE x == [notifier[n] EXCEPT !.pc = "list", !.run = runs + 1]
<1>1. notifier[n] \in NotifierState /\ notifier[n].pc = "idle" /\ notifier[n].todo = {}
  BY AheadType DEF IInv, RunCompletes, NotifierInv
<1>2. notifier' = [notifier EXCEPT ![n] = x]
  BY <1>1 DEF RunCompletes, IInv, TypeOK
<1>3. x \in NotifierState /\ x.pc = "list" /\ x.todo = {} /\ x.list = notifier[n].list
  <2>1. runs + 1 \in 0..MaxRuns
    BY Bounds DEF RunCompletes, IInv, TypeOK
  <2> QED
    BY <1>1, <2>1 DEF NotifierState
<1>4. Ahead(x) = {}
  BY <1>3 DEF Ahead
<1>5. /\ UNCHANGED <<day, portfolio, rows, fresh, editor, unsub, edits, mails, out, excused, faults>>
      /\ runs' \in 0..MaxRuns /\ faults' \in 0..MaxFaults
  BY Bounds DEF RunCompletes, handlers, history, IInv, TypeOK
<1>6. \A a \in fresh : ~x.list[a].exists
  BY <1>3 DEF IInv, FreshInv
<1> HIDE DEF x
<1> QED
  BY <1>1, <1>2, <1>3, <1>4, <1>5, <1>6, NotifierStepKeeps

LEMMA ListAlertsKeeps == ASSUME IInv, NEW n \in Notifiers, ListAlerts(n) PROVE IInv'
<1>1. /\ UNCHANGED <<day, portfolio, rows, fresh, editor, unsub, edits, mails, out, excused, runs>>
      /\ notifier[n].pc = "list" /\ faults' \in 0..MaxFaults
  BY FaultType DEF ListAlerts, handlers, history, IInv
<1>2. CASE notifier' = [notifier EXCEPT ![n] = Quiet]
  BY <1>1, <1>2, QuietKeeps
<1>3. CASE notifier' = [notifier EXCEPT ![n] = [@ EXCEPT !.pc = "load", !.list = rows]]
  <2> DEFINE x == [notifier[n] EXCEPT !.pc = "load", !.list = rows]
  <2>1. notifier[n] \in NotifierState /\ notifier[n].todo = {} /\ rows \in [Ids -> RowState]
    BY <1>1, AheadType DEF IInv, NotifierInv, TypeOK
  <2>2. x \in NotifierState /\ x.pc = "load" /\ x.todo = {} /\ x.list = rows
    BY <2>1 DEF NotifierState
  <2>3. Ahead(x) = {}
    BY <2>2 DEF Ahead
  <2>4. \A a \in fresh : ~x.list[a].exists
    BY <2>2 DEF IInv, FreshInv
  <2>5. runs' \in 0..MaxRuns /\ notifier' = [notifier EXCEPT ![n] = x]
    BY <1>1, <1>3 DEF IInv, TypeOK
  <2> HIDE DEF x
  <2> QED
    BY <1>1, <2>2, <2>3, <2>4, <2>5, NotifierStepKeeps
<1> QED
  BY <1>2, <1>3 DEF ListAlerts

LEMMA NextAlertKeeps == ASSUME IInv, NEW n \in Notifiers, NextAlert(n) PROVE IInv'
<1>1. /\ UNCHANGED <<day, portfolio, rows, fresh, editor, unsub, edits, mails, out, excused, runs, faults>>
      /\ notifier[n].pc = "next" /\ faults' \in 0..MaxFaults /\ runs' \in 0..MaxRuns
  BY DEF NextAlert, handlers, history, IInv, TypeOK
<1>2. CASE notifier' = [notifier EXCEPT ![n] = Quiet]
  BY <1>1, <1>2, QuietKeeps
<1>3. ASSUME NEW a \in notifier[n].todo,
             notifier' = [notifier EXCEPT ![n].pc = "send", ![n].cur = a.id,
                                          ![n].left = a.rcpts, ![n].todo = @ \ {a}]
      PROVE  IInv'
  <2> DEFINE x == [notifier[n] EXCEPT !.pc = "send", !.cur = a.id, !.left = a.rcpts, !.todo = @ \ {a}]
  <2>1. notifier[n] \in NotifierState /\ notifier[n].todo \subseteq Due /\ a \in Due
    BY AheadType DEF IInv, NotifierState
  <2>2. a.id \in Ids /\ a.rcpts \in Lists /\ a = [id |-> a.id, rcpts |-> a.rcpts]
    BY <2>1 DEF Due
  <2>3. notifier' = [notifier EXCEPT ![n] = x]
    BY <1>3 DEF IInv, TypeOK
  <2>4. /\ x \in NotifierState /\ x.pc = "send" /\ x.cur = a.id /\ x.left = a.rcpts
        /\ x.todo = notifier[n].todo \ {a} /\ x.list = notifier[n].list /\ x.now = notifier[n].now
        /\ x.run = notifier[n].run
    BY <2>1, <2>2 DEF NotifierState
  <2> HIDE DEF x
  <2>5. Ahead(x) \subseteq Ahead(notifier[n])
    BY <2>2, <2>4 DEF Ahead
  <2>7. \A t \in x.todo : t.id # x.cur
    BY <2>4 DEF IInv, NotifierInv
  <2>6. \A b \in fresh : ~x.list[b].exists
    BY <2>4 DEF IInv, FreshInv
  <2> QED
    BY <1>1, <2>2, <2>3, <2>4, <2>5, <2>6, <2>7, NotifierStepKeeps
<1> QED
  BY <1>2, <1>3 DEF NextAlert

\* The alerts that are due are mailed by nobody else, or excused, and have not
\* been mailed today.
LEMMA LoadDueKeeps ==
    ASSUME IInv, NEW n \in Notifiers, notifier[n].pc = "load", NEW due \in SUBSET Ids,
           \A a \in due : notifier[n].list[a].exists /\ IsDue(notifier[n].list[a], day),
           notifier' = [notifier EXCEPT ![n] = [Quiet EXCEPT !.pc = "next", !.now = day,
                !.run = notifier[n].run, !.todo = {[id |-> a, rcpts |-> notifier[n].list[a].rcpts] : a \in due}]],
           excused' = excused \cup {<<a, day>> : a \in {b \in due : \E m \in Notifiers \ {n} : InProgress(m)}},
           UNCHANGED <<day, portfolio, rows, fresh, editor, unsub, edits, mails, out, runs>>,
           faults' \in 0..MaxFaults
    PROVE  IInv'
<1> USE DEF IInv
<1> DEFINE todo == {[id |-> a, rcpts |-> notifier[n].list[a].rcpts] : a \in due}
           x == [Quiet EXCEPT !.pc = "next", !.now = day, !.run = notifier[n].run, !.todo = todo]
<1>1. /\ notifier[n] \in NotifierState /\ day \in Days /\ day \in Nat /\ day >= 1 /\ day \in 0..LastDay
      /\ \A a \in Ids : notifier[n].list[a] \in RowState
  BY AheadType, Bounds DEF TypeOK, Days, NotifierState
<1>2. todo \subseteq Due
  BY <1>1 DEF RowState, Due
<1>3. /\ x \in NotifierState /\ x.pc = "next" /\ x.now = day /\ x.todo = todo
      /\ \A a \in Ids : ~x.list[a].exists
  <2> HIDE DEF todo
  <2>1. x.list = Quiet.list /\ x \in NotifierState /\ x.pc = "next" /\ x.now = day /\ x.todo = todo
    BY <1>1, <1>2, QuietType DEF NotifierState
  <2> QED
    BY <2>1, QuietType
<1>4. Ahead(x) = todo
  BY <1>3 DEF Ahead
<1>5. notifier'[n] = x /\ \A m \in Notifiers \ {n} : notifier'[m] = notifier[m]
  BY DEF TypeOK
<1>6. \A t \in todo : t.id \in due /\ t.rcpts = notifier[n].list[t.id].rcpts
  OBVIOUS
<1>7. \A t, u \in todo : t.id = u.id => t = u
  OBVIOUS
<1>8. excused \subseteq excused' /\ excused' \subseteq Ids \X (0..LastDay)
  BY <1>1 DEF TypeOK
<1>9. \A m \in Notifiers \ {n} : Ahead(notifier[m]) # {} => \A a \in due : <<a, day>> \in excused'
  <2> SUFFICES ASSUME NEW m \in Notifiers \ {n}, Ahead(notifier[m]) # {}, NEW a \in due
               PROVE  <<a, day>> \in excused'
    OBVIOUS
  <2>1. InProgress(m)
    BY AheadType DEF InProgress
  <2> QED
    BY <2>1
<1> HIDE DEF todo, x
<1>10. TypeOK'
  <2>1. notifier' = [notifier EXCEPT ![n] = x]
    BY DEF x, todo
  <2> QED
    BY <1>3, <1>8, <2>1 DEF TypeOK
<1>11. NotifierInv'
  <2>1. day \in 1..day
    BY <1>1
  <2>2. ASSUME NEW m \in Notifiers
        PROVE  /\ notifier'[m].pc \in {"idle", "list", "load"} => notifier'[m].todo = {}
               /\ notifier'[m].pc \in {"next", "send"} => notifier'[m].now \in 1..day
               /\ notifier'[m].pc = "send" =>
                     notifier'[m].cur \in Ids /\ \A t \in notifier'[m].todo : t.id # notifier'[m].cur
               /\ \A t, u \in notifier'[m].todo : t.id = u.id => t = u
    <3>1. CASE m = n
      <4>1. notifier'[m] = x /\ notifier'[m].todo = todo
        BY <1>3, <1>5, <3>1
      <4>2. notifier'[m].pc = "next" /\ notifier'[m].now = day
        BY <1>3, <4>1
      <4>3. \A t, u \in notifier'[m].todo : t.id = u.id => t = u
        BY <1>7, <4>1
      <4> QED
        BY <2>1, <4>2, <4>3
    <3>2. CASE m # n
      BY <1>5, <3>2 DEF NotifierInv
    <3> QED
      BY <3>1, <3>2
  <2> QED
    BY <2>2 DEF NotifierInv
<1>12. FreshInv'
  <2>1. \A a \in fresh : a \notin due
    BY DEF FreshInv
  <2>2. fresh \subseteq Ids
    BY DEF TypeOK
  <2>3. ASSUME NEW a \in fresh, NEW m \in Notifiers
        PROVE  ~notifier'[m].list[a].exists /\ \A t \in Ahead(notifier'[m]) : t.id # a
    <3>1. CASE m = n
      <4>1. notifier'[m] = x /\ Ahead(notifier'[m]) = todo
        BY <1>4, <1>5, <3>1
      <4>2. ~x.list[a].exists
        BY <1>3, <2>2
      <4>3. \A t \in todo : t.id # a
        BY <1>6, <2>1
      <4> QED
        BY <4>1, <4>2, <4>3
    <3>2. CASE m # n
      BY <1>5, <3>2 DEF FreshInv
    <3> QED
      BY <3>1, <3>2
  <2> QED
    BY <2>3 DEF FreshInv
<1>13. AloneInv'
  <2> SUFFICES ASSUME NEW k \in Notifiers, NEW m \in Notifiers,
                      NEW t \in Ahead(notifier'[k]), NEW u \in Ahead(notifier'[m]),
                      k # m, t.id = u.id, notifier'[k].now = notifier'[m].now
               PROVE  <<t.id, notifier'[k].now>> \in excused'
    BY DEF AloneInv
  <2>1. CASE k # n /\ m # n
    BY <1>5, <1>8, <2>1 DEF AloneInv
  <2>2. CASE k = n
    BY <1>3, <1>4, <1>5, <1>6, <1>9, <2>2
  <2>3. CASE m = n
    BY <1>3, <1>4, <1>5, <1>6, <1>9, <2>3
  <2> QED
    BY <2>1, <2>2, <2>3
<1>14. AheadInv'
  <2> SUFFICES ASSUME NEW m \in Notifiers, NEW t \in Ahead(notifier'[m]), NEW r \in Recipients
               PROVE  \/ mails[<<t.id, r, notifier'[m].now>>] \subseteq {notifier'[m].run}
                      \/ <<t.id, notifier'[m].now>> \in excused'
    BY DEF AheadInv
  <2>1. CASE m # n
    BY <1>5, <1>8, <2>1 DEF AheadInv
  <2>2. CASE m = n
    <3> DEFINE a == t.id
    <3>1. t \in todo /\ a \in due /\ notifier'[m].now = day /\ a \in Ids
      BY <1>2, <1>3, <1>4, <1>5, <1>6, <2>2 DEF Due
    <3>3. notifier[n].list[a].exists /\ notifier[n].list[a].last # day
      BY <1>1, <3>1 DEF IsDue
    <3>4. CASE \E m1 \in Notifiers : notifier[m1].pc = "send"
      <4>1. PICK m1 \in Notifiers : notifier[m1].pc = "send"
        BY <3>4
      <4>2. m1 # n /\ Ahead(notifier[m1]) # {}
        BY <4>1 DEF Ahead
      <4> QED
        BY <1>9, <3>1, <4>2
    <3>5. CASE ~ \E m1 \in Notifiers : notifier[m1].pc = "send"
      <4>1. ~(mails[<<a, r, day>>] # {} /\ <<a, day>> \notin excused)
        BY <3>1, <3>3, <3>5 DEF MarkedInv
      <4> QED
        BY <1>8, <3>1, <4>1
    <3> QED
      BY <3>4, <3>5
  <2> QED
    BY <2>1, <2>2
<1>15. MarkedInv'
  BY <1>3, <1>5, <1>8 DEF MarkedInv
<1>16. ClockInv' /\ EditInv' /\ UnsubscribedStaysOut'
  BY DEF ClockInv, EditInv, UnsubscribedStaysOut
<1>17. MailedOncePerDay'
  BY <1>8 DEF MailedOncePerDay
<1> QED
  BY <1>10, <1>11, <1>12, <1>13, <1>14, <1>15, <1>16, <1>17

LEMMA LoadPortfolioKeeps == ASSUME IInv, NEW n \in Notifiers, LoadPortfolio(n) PROVE IInv'
<1>1. /\ UNCHANGED <<day, portfolio, rows, fresh, editor, unsub, edits, mails, out, runs>>
      /\ notifier[n].pc = "load" /\ faults' \in 0..MaxFaults
  BY FaultType DEF LoadPortfolio, handlers, IInv
<1>2. CASE notifier' = [notifier EXCEPT ![n] = Quiet] /\ UNCHANGED excused
  BY <1>1, <1>2, QuietKeeps
<1>3. CASE ~(notifier' = [notifier EXCEPT ![n] = Quiet] /\ UNCHANGED excused)
  <2> DEFINE due == {a \in Ids : notifier[n].list[a].exists /\ IsDue(notifier[n].list[a], day)}
  <2>1. /\ notifier' = [notifier EXCEPT ![n] = [Quiet EXCEPT !.pc = "next", !.now = day,
                !.run = notifier[n].run, !.todo = {[id |-> a, rcpts |-> notifier[n].list[a].rcpts] : a \in due}]]
        /\ excused' = excused \cup {<<a, day>> : a \in {b \in due : \E m \in Notifiers \ {n} : InProgress(m)}}
    BY <1>3 DEF LoadPortfolio
  <2>2. due \in SUBSET Ids /\ \A a \in due : notifier[n].list[a].exists /\ IsDue(notifier[n].list[a], day)
    OBVIOUS
  <2> HIDE DEF due
  <2> QED
    BY <1>1, <2>1, <2>2, LoadDueKeeps
<1> QED
  BY <1>2, <1>3

\* One recipient.
LEMMA SendKeeps == ASSUME IInv, NEW n \in Notifiers, NEW r \in Recipients, Send(n, r) PROVE IInv'
<1> USE DEF IInv
<1> DEFINE a == notifier[n].cur
           x == [notifier[n] EXCEPT !.left[r] = @ - 1]
           mine == [id |-> a, rcpts |-> notifier[n].left]
<1>1. /\ notifier[n].pc = "send" /\ notifier[n].left[r] > 0
      /\ notifier' = [notifier EXCEPT ![n].left[r] = @ - 1]
      /\ UNCHANGED <<day, portfolio, rows, fresh, editor, unsub, edits, out, runs>>
      /\ faults' \in 0..MaxFaults
      /\ \/ mails' = mails /\ excused' = excused
         \/ /\ mails' = [mails EXCEPT ![<<a, r, day>>] = @ \cup {notifier[n].run}]
            /\ excused' = excused \cup IF day # notifier[n].now THEN {<<a, day>>} ELSE {}
  BY FaultType DEF Send, handlers
<1>2. /\ notifier[n] \in NotifierState /\ a \in Ids /\ day \in Nat /\ day \in 0..LastDay /\ notifier[n].run \in 0..MaxRuns
      /\ <<a, r, day>> \in Mails /\ mails \in [Mails -> SUBSET (0..MaxRuns)] /\ day \in Days
  BY <1>1, AheadType, Bounds DEF NotifierInv, NotifierState, TypeOK, Mails, Days
<1>3. notifier' = [notifier EXCEPT ![n] = x]
  BY <1>1 DEF TypeOK
<1>4. /\ x \in NotifierState /\ x.pc = "send" /\ x.cur = a /\ x.now = notifier[n].now /\ x.run = notifier[n].run
      /\ x.todo = notifier[n].todo /\ x.list = notifier[n].list
  BY <1>1, <1>2 DEF NotifierState, Lists
<1>5. mine \in Ahead(notifier[n]) /\ mine.id = a
  BY <1>1 DEF Ahead
<1> HIDE DEF x, mine
<1>6. notifier'[n] = x /\ \A m \in Notifiers \ {n} : notifier'[m] = notifier[m]
  BY <1>3 DEF TypeOK
<1>7. \A t \in Ahead(x) : \E u \in Ahead(notifier[n]) : t.id = u.id
  <2>1. Ahead(x) = notifier[n].todo \cup {[id |-> a, rcpts |-> x.left]}
    BY <1>4 DEF Ahead
  <2>2. notifier[n].todo \subseteq Ahead(notifier[n])
    BY DEF Ahead
  <2> QED
    BY <1>5, <2>1, <2>2
<1>8. /\ mails' \in [Mails -> SUBSET (0..MaxRuns)]
      /\ excused \subseteq excused' /\ excused' \subseteq Ids \X (0..LastDay)
      /\ \A y \in Mails : \/ mails'[y] = mails[y]
                         \/ /\ y = <<a, r, day>> /\ mails'[y] = mails[y] \cup {notifier[n].run}
                            /\ notifier[n].now = day \/ <<a, day>> \in excused'
  BY <1>1, <1>2 DEF TypeOK
<1>9. TypeOK'
  BY <1>1, <1>3, <1>4, <1>8 DEF TypeOK
<1>10. NotifierInv'
  BY <1>1, <1>4, <1>6 DEF NotifierInv
<1>11. FreshInv'
  <2>1. \A m \in Notifiers : \A b \in fresh : ~notifier'[m].list[b].exists /\ \A t \in Ahead(notifier'[m]) : t.id # b
    BY <1>4, <1>6, <1>7 DEF FreshInv
  <2>2. a \notin fresh
    BY <1>5 DEF FreshInv
  <2>3. \A b \in fresh, q \in Recipients, e \in Days : mails'[<<b, q, e>>] = mails[<<b, q, e>>]
    BY <1>8, <2>2 DEF TypeOK, Mails
  <2>4. \A b \in fresh, q \in Recipients, e \in Days : mails'[<<b, q, e>>] = {}
    <3>1. \A b \in fresh, q \in Recipients, e \in Days : mails[<<b, q, e>>] = {}
      BY DEF FreshInv
    <3> QED
      BY <2>3, <3>1, ZenonT(60)
  <2> QED
    BY <1>1, <2>1, <2>4 DEF FreshInv
<1>12. AloneInv'
  <2> SUFFICES ASSUME NEW k \in Notifiers, NEW m \in Notifiers,
                      NEW t \in Ahead(notifier'[k]), NEW u \in Ahead(notifier'[m]),
                      k # m, t.id = u.id, notifier'[k].now = notifier'[m].now
               PROVE  <<t.id, notifier'[k].now>> \in excused'
    BY <1>1 DEF AloneInv
  <2>1. \E v \in Ahead(notifier[k]) : v.id = t.id /\ notifier'[k].now = notifier[k].now
    BY <1>4, <1>6, <1>7
  <2>2. \E v \in Ahead(notifier[m]) : v.id = u.id /\ notifier'[m].now = notifier[m].now
    BY <1>4, <1>6, <1>7
  <2> QED
    BY <1>8, <2>1, <2>2 DEF AloneInv
<1>13. AheadInv'
  <2> SUFFICES ASSUME NEW m \in Notifiers, NEW t \in Ahead(notifier'[m]), NEW q \in Recipients
               PROVE  \/ mails'[<<t.id, q, notifier'[m].now>>] \subseteq {notifier'[m].run}
                      \/ <<t.id, notifier'[m].now>> \in excused'
    BY DEF AheadInv
  <2>1. PICK u \in Ahead(notifier[m]) : t.id = u.id
    BY <1>6, <1>7
  <2>2. notifier'[m].now = notifier[m].now /\ notifier'[m].run = notifier[m].run
    BY <1>4, <1>6
  <2>3. u \in Due /\ notifier[m].now \in Days
    BY AheadType
  <2>4. <<u.id, q, notifier[m].now>> \in Mails
    BY <2>1, <2>3 DEF Mails, Due
  <2>5. mails[<<u.id, q, notifier[m].now>>] \subseteq {notifier[m].run} \/ <<u.id, notifier[m].now>> \in excused
    BY <2>1 DEF AheadInv
  <2>6. CASE mails'[<<u.id, q, notifier[m].now>>] = mails[<<u.id, q, notifier[m].now>>]
    BY <1>8, <2>1, <2>2, <2>5, <2>6
  <2>7. CASE mails'[<<u.id, q, notifier[m].now>>] # mails[<<u.id, q, notifier[m].now>>]
    <3>1. /\ u.id = a /\ q = r /\ notifier[m].now = day
          /\ mails'[<<u.id, q, notifier[m].now>>] = mails[<<u.id, q, notifier[m].now>>] \cup {notifier[n].run}
          /\ notifier[n].now = day \/ <<a, day>> \in excused'
      BY <1>8, <2>4, <2>7
    <3>2. CASE m = n
      BY <1>8, <2>1, <2>2, <2>5, <3>1, <3>2
    <3>3. CASE m # n
      BY <1>5, <1>8, <2>1, <2>2, <3>1, <3>3 DEF AloneInv
    <3> QED
      BY <3>2, <3>3
  <2> QED
    BY <2>6, <2>7
<1>14. MarkedInv'
  <2> SUFFICES ASSUME NEW b \in Ids, NEW q \in Recipients, mails'[<<b, q, day>>] # {}, <<b, day>> \notin excused'
               PROVE  \/ \E m \in Notifiers :
                           notifier'[m].pc = "send" /\ notifier'[m].cur = b /\ notifier'[m].now = day
                      \/ /\ rows[b].exists => rows[b].last = day
                         /\ \A m \in Notifiers : notifier'[m].pc = "load" /\ notifier'[m].list[b].exists =>
                               notifier'[m].list[b].last = day
    BY <1>1 DEF MarkedInv
  <2>1. <<b, q, day>> \in Mails
    BY <1>2 DEF Mails
  <2>2. CASE mails'[<<b, q, day>>] # mails[<<b, q, day>>]
    <3>1. b = a /\ notifier[n].now = day
      BY <1>8, <2>1, <2>2
    <3> QED
      BY <1>4, <1>6, <3>1
  <2>3. CASE mails'[<<b, q, day>>] = mails[<<b, q, day>>]
    <3>1. mails[<<b, q, day>>] # {} /\ <<b, day>> \notin excused
      BY <1>8, <2>3
    <3>2. CASE \E m \in Notifiers : notifier[m].pc = "send" /\ notifier[m].cur = b /\ notifier[m].now = day
      BY <1>4, <1>6, <3>2
    <3>3. CASE /\ rows[b].exists => rows[b].last = day
               /\ \A m \in Notifiers : notifier[m].pc = "load" /\ notifier[m].list[b].exists =>
                     notifier[m].list[b].last = day
      BY <1>4, <1>6, <3>3
    <3> QED
      BY <3>1, <3>2, <3>3 DEF MarkedInv
  <2> QED
    BY <2>2, <2>3
<1>15. ClockInv'
  <2>1. \A b \in Ids, q \in Recipients, e \in Days : e > day => mails'[<<b, q, e>>] = {}
    <3> SUFFICES ASSUME NEW b \in Ids, NEW q \in Recipients, NEW e \in Days, e > day
                 PROVE  mails'[<<b, q, e>>] = {}
      OBVIOUS
    <3>1. <<b, q, e>> \in Mails /\ e # day
      BY <1>2 DEF Mails, Days
    <3>2. <<b, q, e>> # <<a, r, day>>
      BY <3>1
    <3> QED
      BY <1>8, <3>1, <3>2 DEF ClockInv
  <2> QED
    BY <1>1, <2>1 DEF ClockInv
<1>16. MailedOncePerDay'
  <2> SUFFICES ASSUME NEW b \in Ids, NEW q \in Recipients, NEW e \in Days, <<b, e>> \notin excused'
               PROVE  \A y, z \in mails'[<<b, q, e>>] : y = z
    BY DEF MailedOncePerDay
  <2>1. <<b, q, e>> \in Mails /\ <<b, e>> \notin excused
    BY <1>8 DEF Mails
  <2>2. CASE mails'[<<b, q, e>>] = mails[<<b, q, e>>]
    BY <2>1, <2>2 DEF MailedOncePerDay
  <2>3. CASE mails'[<<b, q, e>>] # mails[<<b, q, e>>]
    <3>1. /\ b = a /\ q = r /\ e = day /\ notifier[n].now = day
          /\ mails'[<<b, q, e>>] = mails[<<b, q, e>>] \cup {notifier[n].run}
      BY <1>8, <2>1, <2>3
    <3>2. mails[<<b, q, e>>] \subseteq {notifier[n].run}
      BY <1>5, <2>1, <3>1 DEF AheadInv
    <3> QED
      BY <3>1, <3>2
  <2> QED
    BY <2>2, <2>3
<1>17. EditInv' /\ UnsubscribedStaysOut'
  BY <1>1 DEF EditInv, UnsubscribedStaysOut
<1> QED
  BY <1>9, <1>10, <1>11, <1>12, <1>13, <1>14, <1>15, <1>16, <1>17

\* UPDATE ... SET last_sent_at.
LEMMA MarkKeeps == ASSUME IInv, NEW n \in Notifiers, Mark(n) PROVE IInv'
<1> USE DEF IInv
<1> DEFINE a == notifier[n].cur
           d == notifier[n].now
           both == {<<a, d>>, <<a, rows[a].last>>}
           x == [notifier[n] EXCEPT !.pc = "next", !.cur = "none"]
<1>1. /\ notifier[n].pc = "send" /\ notifier[n].left = NoList
      /\ notifier' = [notifier EXCEPT ![n].pc = "next", ![n].cur = "none"]
      /\ UNCHANGED <<day, portfolio, fresh, editor, unsub, edits, mails, out, runs>>
      /\ faults' \in 0..MaxFaults
      /\ \/ rows' = [rows EXCEPT ![a].last = IF rows[a].exists THEN d ELSE @] /\ excused' = excused \cup IF Overlapped(n) THEN both ELSE {}
         \/ rows' = rows /\ excused' = excused \cup both
  BY FaultType DEF Mark, MarkSent, handlers
<1>2. /\ notifier[n] \in NotifierState /\ a \in Ids /\ d \in Days /\ d <= day /\ day \in Nat /\ d \in Nat
      /\ d \in 0..LastDay /\ day \in Days
  BY <1>1, AheadType, Bounds DEF NotifierInv, TypeOK, Days
<1>3. rows[a] \in RowState /\ rows[a].last \in 0..LastDay /\ rows[a].last \in Nat /\ rows[a].last <= day
  BY <1>2, RowType DEF ClockInv
<1>4. notifier' = [notifier EXCEPT ![n] = x]
  BY <1>1 DEF TypeOK
<1>5. /\ x \in NotifierState /\ x.pc = "next" /\ x.now = d /\ x.run = notifier[n].run /\ x.todo = notifier[n].todo
      /\ x.list = notifier[n].list
  BY <1>2 DEF NotifierState
<1>6. Ahead(x) \subseteq Ahead(notifier[n])
  BY <1>5 DEF Ahead
<1> HIDE DEF x
<1>7. notifier'[n] = x /\ \A m \in Notifiers \ {n} : notifier'[m] = notifier[m]
  BY <1>4 DEF TypeOK
<1>8. excused \subseteq excused' /\ excused' \subseteq Ids \X (0..LastDay)
  BY <1>1, <1>2, <1>3 DEF TypeOK
<1>9. /\ rows' \in [Ids -> RowState]
      /\ \A b \in Ids : rows'[b].exists = rows[b].exists /\ rows'[b].rcpts = rows[b].rcpts
      /\ \A b \in Ids : rows'[b].last = rows[b].last \/ (b = a /\ rows'[b].last = d /\ rows[b].exists)
  <2>1. CASE rows' = rows
    BY <2>1 DEF TypeOK
  <2>2. CASE rows' = [rows EXCEPT ![a].last = IF rows[a].exists THEN d ELSE @]
    <3> DEFINE y == [rows[a] EXCEPT !.last = IF rows[a].exists THEN d ELSE rows[a].last]
    <3>1. rows' = [rows EXCEPT ![a] = y]
      BY <2>2 DEF TypeOK
    <3>2. /\ y \in RowState /\ y.exists = rows[a].exists /\ y.rcpts = rows[a].rcpts
          /\ y.last = rows[a].last \/ (y.last = d /\ rows[a].exists)
      BY <1>2, <1>3 DEF RowState
    <3> HIDE DEF y
    <3> QED
      BY <3>1, <3>2 DEF TypeOK
  <2> QED
    BY <1>1, <2>1, <2>2
<1>10. TypeOK'
  BY <1>1, <1>4, <1>5, <1>8, <1>9, ZenonT(60) DEF TypeOK
<1>11. NotifierInv'
  <2> SUFFICES ASSUME NEW m \in Notifiers
               PROVE  /\ notifier'[m].pc \in {"idle", "list", "load"} => notifier'[m].todo = {}
                      /\ notifier'[m].pc \in {"next", "send"} => notifier'[m].now \in 1..day
                      /\ notifier'[m].pc = "send" =>
                            notifier'[m].cur \in Ids /\ \A t \in notifier'[m].todo : t.id # notifier'[m].cur
                      /\ \A t, u \in notifier'[m].todo : t.id = u.id => t = u
    BY <1>1 DEF NotifierInv
  <2>1. CASE m = n
    BY <1>1, <1>5, <1>7, <2>1, ZenonT(60) DEF NotifierInv
  <2>2. CASE m # n
    BY <1>7, <2>2 DEF NotifierInv
  <2> QED
    BY <2>1, <2>2
<1>12. FreshInv'
  <2>1. fresh \subseteq Ids
    BY DEF TypeOK
  <2>2. \A m \in Notifiers : \A b \in fresh : ~notifier'[m].list[b].exists /\ \A t \in Ahead(notifier'[m]) : t.id # b
    BY <1>5, <1>6, <1>7 DEF FreshInv
  <2>3. \A b \in fresh : ~rows'[b].exists
    BY <1>9, <2>1 DEF FreshInv
  <2>4. \A b \in fresh : /\ \A r \in Recipients : <<b, r>> \notin out /\ \A e \in Days : mails[<<b, r, e>>] = {}
                         /\ editor.pc = "write" => editor.id # b
                         /\ unsub.pc # "idle" => unsub.id # b
    BY DEF FreshInv
  <2>5. ASSUME NEW b \in fresh
        PROVE  /\ ~rows'[b].exists
               /\ \A m \in Notifiers : ~notifier'[m].list[b].exists /\ \A t \in Ahead(notifier'[m]) : t.id # b
               /\ \A r \in Recipients : <<b, r>> \notin out' /\ \A e \in Days : mails'[<<b, r, e>>] = {}
               /\ editor'.pc = "write" => editor'.id # b
               /\ unsub'.pc # "idle" => unsub'.id # b
    BY <1>1, <2>2, <2>3, <2>4, Zenon
  <2> QED
    BY <1>1, <2>5 DEF FreshInv
<1>13. \A m \in Notifiers : /\ Ahead(notifier'[m]) \subseteq Ahead(notifier[m])
                            /\ notifier'[m].now = notifier[m].now /\ notifier'[m].run = notifier[m].run
  BY <1>5, <1>6, <1>7
<1>14. AloneInv'
  BY <1>8, <1>13 DEF AloneInv
<1>15. AheadInv'
  BY <1>1, <1>8, <1>13 DEF AheadInv
<1>16. ClockInv'
  <2>1. \A b \in Ids : rows'[b].last <= day
    BY <1>2, <1>9 DEF ClockInv
  <2> QED
    BY <1>1, <2>1 DEF ClockInv
<1>17. MailedOncePerDay' /\ UnsubscribedStaysOut' /\ EditInv'
  BY <1>1, <1>8, <1>9 DEF MailedOncePerDay, UnsubscribedStaysOut, EditInv
<1>18. MarkedInv'
  <2> SUFFICES ASSUME NEW b \in Ids, NEW q \in Recipients, mails[<<b, q, day>>] # {}, <<b, day>> \notin excused'
               PROVE  \/ \E m \in Notifiers :
                           notifier'[m].pc = "send" /\ notifier'[m].cur = b /\ notifier'[m].now = day
                      \/ /\ rows'[b].exists => rows'[b].last = day
                         /\ \A m \in Notifiers : notifier'[m].pc = "load" /\ notifier'[m].list[b].exists =>
                               notifier'[m].list[b].last = day
    BY <1>1 DEF MarkedInv
  <2>0. <<b, day>> \notin excused
    BY <1>8
  <2>1. CASE \E m \in Notifiers \ {n} : notifier[m].pc = "send" /\ notifier[m].cur = b /\ notifier[m].now = day
    BY <1>7, <2>1
  <2>2. CASE b = a /\ d = day
    <3>1. /\ rows' = [rows EXCEPT ![a].last = IF rows[a].exists THEN d ELSE @] /\ ~Overlapped(n)
      BY <1>1, <2>2
    <3>2. rows'[b].exists => rows'[b].last = day
      BY <1>2, <1>3, <2>2, <3>1 DEF TypeOK, RowState
    <3>3. \A m \in Notifiers \ {n} : notifier'[m].pc # "load"
      BY <1>7, <3>1 DEF Overlapped, InProgress
    <3>4. \A m \in Notifiers : notifier'[m].pc # "load"
      BY <1>5, <1>7, <3>3
    <3> QED
      BY <3>2, <3>4
  <2>3. CASE /\ ~(b = a /\ d = day)
             /\ ~ \E m \in Notifiers \ {n} : notifier[m].pc = "send" /\ notifier[m].cur = b /\ notifier[m].now = day
    <3>1. /\ rows[b].exists => rows[b].last = day
          /\ \A m \in Notifiers : notifier[m].pc = "load" /\ notifier[m].list[b].exists =>
                notifier[m].list[b].last = day
      BY <2>0, <2>3 DEF MarkedInv
    <3>2. \A m \in Notifiers : notifier'[m].pc = "load" /\ notifier'[m].list[b].exists =>
                notifier'[m].list[b].last = day
      BY <1>5, <1>7, <3>1
    <3>3. rows'[b].exists => rows'[b].last = day
      <4> SUFFICES ASSUME rows'[b].exists, rows'[b].last # day PROVE FALSE
        OBVIOUS
      <4>1. rows[b].last = day /\ b = a
        BY <1>9, <3>1
      <4>2. d # day /\ rows[a].last > d
        BY <1>2, <1>3, <2>3, <4>1
      <4>3. <<b, day>> \in excused'
        BY <1>1, <4>1, <4>2 DEF Overlapped
      <4> QED
        BY <4>3
    <3> QED
      BY <3>2, <3>3
  <2> QED
    BY <2>1, <2>2, <2>3, SMTT(30)
<1> QED
  BY <1>10, <1>11, <1>12, <1>14, <1>15, <1>16, <1>17, <1>18

-----------------------------------------------------------------------------
(* The clock and the process. *)

LEMMA MidnightKeeps == ASSUME IInv, Midnight PROVE IInv'
<1> USE DEF IInv
<1>1. /\ day < LastDay /\ day' = day + 1
      /\ UNCHANGED <<portfolio, rows, fresh, notifier, editor, unsub, edits, mails, out, excused, runs, faults>>
  BY DEF Midnight, handlers, history
<1>2. day \in Nat /\ day' \in Nat /\ day' \in Days /\ day >= 1 /\ LastDay \in Nat
  BY <1>1, Bounds DEF TypeOK, Days
<1>3. TypeOK'
  BY <1>1, <1>2 DEF TypeOK
<1>4. NotifierInv'
  <2>1. \A m \in Notifiers : notifier[m].now \in 1..day => notifier[m].now \in 1..(day + 1)
    BY <1>2
  <2> QED
    BY <1>1, <2>1 DEF NotifierInv
<1>5. FreshInv' /\ AloneInv' /\ AheadInv' /\ EditInv' /\ MailedOncePerDay' /\ UnsubscribedStaysOut'
  BY <1>1 DEF FreshInv, AloneInv, AheadInv, EditInv, MailedOncePerDay, UnsubscribedStaysOut
<1>6. ClockInv'
  <2>1. \A b \in Ids : rows[b].last <= day + 1
    BY <1>2, RowType DEF ClockInv
  <2>2. \A e \in Days : e > day + 1 => e > day
    BY <1>2 DEF Days
  <2>3. \A b \in Ids, q \in Recipients, e \in Days : e > day + 1 => mails[<<b, q, e>>] = {}
    BY <2>2 DEF ClockInv
  <2> QED
    BY <1>1, <2>1, <2>3 DEF ClockInv
<1>7. MarkedInv'
  <2>1. \A b \in Ids, q \in Recipients : mails[<<b, q, day'>>] = {}
    <3>1. day' > day
      BY <1>1, <1>2
    <3> QED
      BY <1>2, <3>1 DEF ClockInv
  <2> QED
    BY <1>1, <2>1 DEF MarkedInv
<1> QED
  BY <1>3, <1>4, <1>5, <1>6, <1>7

LEMMA RestartKeeps == ASSUME IInv, Restart PROVE IInv'
<1> USE DEF IInv
<1>1. /\ notifier' = [n \in Notifiers |-> Quiet] /\ editor' = NoEdit /\ unsub' = NoUnsub
      /\ excused' = excused \cup {<<notifier[n].cur, notifier[n].now>> :
                                    n \in {m \in Notifiers : notifier[m].pc = "send"}}
      /\ UNCHANGED <<day, portfolio, rows, fresh, edits, mails, out, runs>>
      /\ faults' \in 0..MaxFaults
  BY FaultType DEF Restart
<1>2. \A n \in Notifiers : notifier'[n] = Quiet
  BY <1>1
<1>3. excused \subseteq excused' /\ excused' \subseteq Ids \X (0..LastDay)
  <2>1. \A n \in Notifiers : notifier[n].pc = "send" => notifier[n].cur \in Ids /\ notifier[n].now \in 0..LastDay
    BY AheadType DEF NotifierInv, NotifierState
  <2> QED
    BY <1>1, <2>1 DEF TypeOK
<1>4. TypeOK'
  BY <1>1, <1>3, QuietType DEF TypeOK
<1>5. NotifierInv' /\ AloneInv' /\ AheadInv'
  BY <1>2, QuietType DEF NotifierInv, AloneInv, AheadInv
<1>6. FreshInv'
  <2>1. fresh \subseteq Ids
    BY DEF TypeOK
  <2> QED
    BY <1>1, <1>2, <2>1, QuietType DEF FreshInv, NoEdit, NoUnsub
<1>7. MarkedInv'
  <2>1. \A n \in Notifiers : notifier[n].pc = "send" => <<notifier[n].cur, notifier[n].now>> \in excused'
    BY <1>1
  <2> QED
    BY <1>1, <1>2, <1>3, <2>1, QuietType DEF MarkedInv
<1>8. ClockInv' /\ EditInv' /\ MailedOncePerDay' /\ UnsubscribedStaysOut'
  BY <1>1, <1>3 DEF ClockInv, EditInv, NoEdit, MailedOncePerDay, UnsubscribedStaysOut
<1> QED
  BY <1>4, <1>5, <1>6, <1>7, <1>8

-----------------------------------------------------------------------------
(* The handlers. *)

\* A handler marks no row; a row that appears was fresh.
LEMMA HandlerKeeps ==
    ASSUME IInv, UNCHANGED <<day, notifier, mails, excused, runs>>,
           TypeOK', fresh' \subseteq fresh,
           \A a \in Ids : rows'[a].last = 0 \/ rows'[a].last = rows[a].last,
           \A a \in Ids : rows'[a].exists =>
                a \in fresh \/ (rows[a].exists /\ rows'[a].last = rows[a].last),
           \A a \in fresh' :
                /\ ~rows'[a].exists
                /\ \A r \in Recipients : <<a, r>> \notin out'
                /\ editor'.pc = "write" => editor'.id # a
                /\ unsub'.pc # "idle" => unsub'.id # a,
           EditInv', UnsubscribedStaysOut'
    PROVE  IInv'
<1> USE DEF IInv
<1>1. NotifierInv' /\ AloneInv' /\ AheadInv' /\ MailedOncePerDay'
  BY DEF NotifierInv, AloneInv, AheadInv, MailedOncePerDay
<1>2. FreshInv'
  BY DEF FreshInv
<1>3. day \in Nat /\ day \in Days
  BY Bounds DEF TypeOK, Days
<1>4. ClockInv'
  BY <1>3 DEF ClockInv
<1>5. \A a \in fresh, r \in Recipients : mails[<<a, r, day>>] = {}
  BY <1>3, ZenonT(60) DEF FreshInv
<1>6. MarkedInv'
  BY <1>5 DEF MarkedInv
<1> QED
  BY <1>1, <1>2, <1>4, <1>6

\* What a handler does not touch.
LEMMA FreshKnown ==
    ASSUME IInv
    PROVE  \A a \in fresh :
              /\ ~rows[a].exists
              /\ \A r \in Recipients : <<a, r>> \notin out
              /\ editor.pc = "write" => editor.id # a
              /\ unsub.pc # "idle" => unsub.id # a
BY DEF IInv, FreshInv

LEMMA CreateKeeps ==
    ASSUME IInv, NEW a \in Ids, NEW b \in Bodies, Create(a, b)
    PROVE  IInv'
<1> DEFINE y == [exists |-> TRUE, freq |-> b.freq, rcpts |-> b.rcpts, last |-> 0]
<1>1. /\ a \in fresh /\ fresh' = fresh \ {a} /\ rows' = [rows EXCEPT ![a] = y]
      /\ UNCHANGED <<day, portfolio, notifier, editor, unsub, edits, mails, out, excused, runs, faults>>
  BY DEF Create, handlers, history
<1>2. y \in RowState /\ y.last = 0
  BY Bounds, BodyType DEF RowState, Create
<1> HIDE DEF y
<1>3. TypeOK'
  BY <1>1, <1>2 DEF IInv, TypeOK
<1>4. rows'[a] = y /\ \A c \in Ids \ {a} : rows'[c] = rows[c]
  BY <1>1 DEF IInv, TypeOK
<1>5. fresh \subseteq Ids
  BY DEF IInv, TypeOK
<1>6. EditInv'
  BY <1>1 DEF IInv, EditInv
<1>7. UnsubscribedStaysOut'
  BY <1>1, <1>4, FreshKnown DEF IInv, UnsubscribedStaysOut
<1> QED
  BY <1>1, <1>2, <1>3, <1>4, <1>5, <1>6, <1>7, FreshKnown, HandlerKeeps

LEMMA UpdateGetKeeps ==
    ASSUME IInv, NEW a \in Ids, NEW b \in Bodies, UpdateGet(a, b)
    PROVE  IInv'
<1>1. /\ edits < MaxEdits /\ edits' = edits + 1 /\ rows[a].exists
      /\ editor' = [pc |-> "write", id |-> a, freq |-> IF b.freq = "none" THEN rows[a].freq ELSE b.freq,
                    rcpts |-> IF b.rcpts = NoList THEN rows[a].rcpts ELSE b.rcpts,
                    put |-> Listed(b.rcpts), raced |-> FALSE]
      /\ UNCHANGED <<day, portfolio, rows, fresh, notifier, unsub, mails, out, excused, runs, faults>>
  BY DEF UpdateGet, history
<1>2. edits' \in 0..MaxEdits /\ rows[a].freq \in Frequencies /\ rows[a].rcpts \in Lists
  BY <1>1, Bounds DEF IInv, TypeOK, RowState
<1>3. editor' \in EditorState
  <2>1. Listed(b.rcpts) \subseteq Recipients
    BY DEF Listed
  <2> QED
    BY <1>1, <1>2, <2>1, BodyType DEF EditorState
<1>4. TypeOK'
  BY <1>1, <1>2, <1>3 DEF IInv, TypeOK
<1>5. EditInv'
  BY <1>1, <1>2 DEF IInv, EditInv, UnsubscribedStaysOut, Listed
<1>6. UnsubscribedStaysOut'
  BY <1>1 DEF IInv, UnsubscribedStaysOut
<1>7. editor'.id = a /\ a \notin fresh
  BY <1>1, FreshKnown
<1> QED
  BY <1>1, <1>4, <1>5, <1>6, <1>7, FreshKnown, HandlerKeeps

LEMMA UpdateWriteKeeps == ASSUME IInv, UpdateWrite PROVE IInv'
<1> DEFINE a == editor.id
           back == IF editor.raced THEN Listed(editor.rcpts) ELSE editor.put
<1>1. /\ editor.pc = "write" /\ rows' = Update(a, editor.freq, editor.rcpts)
      /\ out' = out \ {<<a, r>> : r \in back} /\ editor' = NoEdit
      /\ UNCHANGED <<day, portfolio, fresh, notifier, unsub, mails, excused, runs, edits, faults>>
  BY DEF UpdateWrite
<1>2. editor'.pc = "idle" /\ editor' \in EditorState /\ out' \subseteq out
  BY <1>1, QuietType DEF NoEdit
<1>3. EditInv'
  BY <1>2 DEF EditInv
<1>4. CASE rows' = rows
  <2>1. TypeOK'
    BY <1>1, <1>2, <1>4 DEF IInv, TypeOK
  <2>2. UnsubscribedStaysOut'
    BY <1>2, <1>4 DEF IInv, UnsubscribedStaysOut
  <2> QED
    BY <1>1, <1>2, <1>3, <1>4, <2>1, <2>2, FreshKnown, HandlerKeeps
<1>5. CASE a \in Ids /\ rows' = [rows EXCEPT ![a].freq = editor.freq, ![a].rcpts = editor.rcpts] /\ editor.freq \in Frequencies
  <2> DEFINE y == [rows[a] EXCEPT !.freq = editor.freq, !.rcpts = editor.rcpts]
  <2>1. rows[a] \in RowState /\ editor \in EditorState /\ editor.rcpts \in Lists
    BY <1>1, <1>5 DEF IInv, TypeOK, EditorState, NoEdit
  <2>2. y \in RowState /\ y.exists = rows[a].exists /\ y.last = rows[a].last /\ y.rcpts = editor.rcpts
    BY <1>5, <2>1 DEF RowState
  <2>3. rows' = [rows EXCEPT ![a] = y]
    BY <1>5 DEF IInv, TypeOK
  <2> HIDE DEF y
  <2>4. rows'[a] = y /\ \A b \in Ids \ {a} : rows'[b] = rows[b]
    BY <1>5, <2>3 DEF IInv, TypeOK
  <2>5. TypeOK'
    BY <1>1, <1>2, <1>5, <2>2, <2>3 DEF IInv, TypeOK
  <2>6. UnsubscribedStaysOut'
    <3> SUFFICES ASSUME NEW b \in Ids, NEW r \in Recipients, <<b, r>> \in out' PROVE rows'[b].rcpts[r] = 0
      BY DEF UnsubscribedStaysOut
    <3>1. <<b, r>> \in out
      BY <1>2
    <3>2. CASE b # a
      BY <2>4, <3>1, <3>2 DEF IInv, UnsubscribedStaysOut
    <3>3. CASE b = a
      <4>1. r \notin back
        BY <1>1, <3>3
      <4>4. editor.rcpts[r] \in Nat /\ (r \notin Listed(editor.rcpts) => editor.rcpts[r] = 0)
        BY <2>1 DEF Lists, Listed
      <4>2. CASE editor.raced
        BY <2>2, <2>4, <3>3, <4>1, <4>2, <4>4
      <4>3. CASE ~editor.raced
        BY <1>1, <2>2, <2>4, <3>1, <3>3, <4>1, <4>3, <4>4 DEF IInv, EditInv
      <4> QED
        BY <4>2, <4>3
    <3> QED
      BY <3>2, <3>3
  <2>7. \A b \in Ids : rows'[b].exists = rows[b].exists /\ rows'[b].last = rows[b].last
    BY <1>5, <2>2, <2>4
  <2>8. fresh \subseteq Ids
    BY DEF IInv, TypeOK
  <2> QED
    BY <1>1, <1>2, <1>3, <2>5, <2>6, <2>7, <2>8, FreshKnown, HandlerKeeps
<1> QED
  <2>1. a \in Ids /\ editor.freq \in Frequencies
    BY <1>1 DEF IInv, TypeOK, EditorState, NoEdit
  <2> QED
    BY <1>1, <1>4, <1>5, <2>1 DEF Update

LEMMA DeleteKeeps == ASSUME IInv, NEW a \in Ids, Delete(a) PROVE IInv'
<1>1. /\ rows' = [rows EXCEPT ![a] = NoRow]
      /\ UNCHANGED <<day, portfolio, fresh, notifier, editor, unsub, edits, mails, out, excused, runs, faults>>
  BY DEF Delete, handlers, history
<1>2. NoRow \in RowState /\ ~NoRow.exists /\ NoRow.last = 0 /\ \A q \in Recipients : NoRow.rcpts[q] = 0
  BY QuietType, NoListType DEF NoRow
<1>3. rows'[a] = NoRow /\ \A b \in Ids \ {a} : rows'[b] = rows[b]
  BY <1>1 DEF IInv, TypeOK
<1>4. TypeOK'
  BY <1>1, <1>2 DEF IInv, TypeOK
<1>5. EditInv' /\ UnsubscribedStaysOut' /\ fresh \subseteq Ids
  BY <1>1, <1>2, <1>3 DEF IInv, EditInv, UnsubscribedStaysOut, TypeOK
<1> QED
  BY <1>1, <1>2, <1>3, <1>4, <1>5, FreshKnown, HandlerKeeps

LEMMA DeletePortfolioKeeps == ASSUME IInv, DeletePortfolio PROVE IInv'
<1>1. /\ rows' = [a \in Ids |-> NoRow] /\ portfolio' = FALSE
      /\ UNCHANGED <<day, fresh, notifier, editor, unsub, edits, mails, out, excused, runs, faults>>
  BY DEF DeletePortfolio, handlers, history
<1>2. NoRow \in RowState /\ ~NoRow.exists /\ NoRow.last = 0 /\ \A q \in Recipients : NoRow.rcpts[q] = 0
  BY QuietType, NoListType DEF NoRow
<1>3. TypeOK'
  BY <1>1, <1>2 DEF IInv, TypeOK
<1>4. EditInv' /\ UnsubscribedStaysOut' /\ fresh \subseteq Ids
  BY <1>1, <1>2 DEF IInv, EditInv, UnsubscribedStaysOut, TypeOK
<1> QED
  BY <1>1, <1>2, <1>3, <1>4, FreshKnown, HandlerKeeps

LEMMA UnsubscribeKeeps == ASSUME IInv, NEW a \in Ids, NEW r \in Recipients, Unsubscribe(a, r) PROVE IInv'
<1>1. /\ rows[a].exists /\ unsub' = [pc |-> "remove", id |-> a, rcpt |-> r]
      /\ UNCHANGED <<day, portfolio, rows, fresh, notifier, editor, edits, mails, out, excused, runs, faults>>
  BY DEF Unsubscribe, history
<1>2. unsub' \in UnsubState /\ unsub'.id = a /\ a \notin fresh
  BY <1>1, FreshKnown DEF UnsubState
<1>3. TypeOK'
  BY <1>1, <1>2 DEF IInv, TypeOK
<1>4. EditInv' /\ UnsubscribedStaysOut'
  BY <1>1 DEF IInv, EditInv, UnsubscribedStaysOut
<1> QED
  BY <1>1, <1>2, <1>3, <1>4, FreshKnown, HandlerKeeps

LEMMA RemoveRecipientKeeps == ASSUME IInv, RemoveRecipient PROVE IInv'
<1> DEFINE a == unsub.id
           r == unsub.rcpt
<1>1. /\ unsub.pc = "remove" /\ faults' \in 0..MaxFaults
      /\ UNCHANGED <<day, portfolio, fresh, notifier, edits, mails, excused, runs>>
  BY FaultType DEF RemoveRecipient, IInv
<1>2. a \in Ids /\ r \in Recipients /\ unsub = [pc |-> "remove", id |-> a, rcpt |-> r]
  BY <1>1 DEF IInv, TypeOK, UnsubState, NoUnsub
<1>3. CASE unsub' = NoUnsub /\ UNCHANGED <<rows, out, editor>>
  <2>1. TypeOK' /\ unsub'.pc = "idle"
    BY <1>1, <1>3, QuietType DEF IInv, TypeOK, NoUnsub
  <2>2. EditInv' /\ UnsubscribedStaysOut'
    BY <1>3 DEF IInv, EditInv, UnsubscribedStaysOut
  <2> QED
    BY <1>1, <1>3, <2>1, <2>2, FreshKnown, HandlerKeeps
<1>4. CASE /\ rows[a].exists
           /\ rows' = [rows EXCEPT ![a].rcpts = ArrayRemove(@, r)]
           /\ unsub' = [unsub EXCEPT !.pc = "purge"]
           /\ out' = out \cup {<<a, r>>}
           /\ editor' = [editor EXCEPT !.raced = @ \/ (editor.pc = "write" /\ editor.id = a)]
  <2> DEFINE y == [rows[a] EXCEPT !.rcpts = [rows[a].rcpts EXCEPT ![r] = 0]]
  <2>1. rows[a] \in RowState /\ editor \in EditorState
    BY <1>2 DEF IInv, TypeOK
  <2>2. y \in RowState /\ y.exists = rows[a].exists /\ y.last = rows[a].last /\ y.rcpts = [rows[a].rcpts EXCEPT ![r] = 0]
        /\ y.rcpts[r] = 0 /\ \A q \in Recipients : rows[a].rcpts[q] = 0 => y.rcpts[q] = 0
    BY <1>2, <2>1 DEF RowState, Lists
  <2>3. rows' = [rows EXCEPT ![a] = y]
    BY <1>2, <1>4 DEF IInv, TypeOK, ArrayRemove
  <2> HIDE DEF y
  <2>4. rows'[a] = y /\ \A b \in Ids \ {a} : rows'[b] = rows[b]
    BY <1>2, <2>3 DEF IInv, TypeOK
  <2>5. unsub' \in UnsubState /\ unsub'.id = a
    BY <1>2, <1>4 DEF UnsubState
  <2>8. UnsubscribedStaysOut'
    <3> SUFFICES ASSUME NEW b \in Ids, NEW q \in Recipients, <<b, q>> \in out' PROVE rows'[b].rcpts[q] = 0
      BY DEF UnsubscribedStaysOut
    <3>1. CASE <<b, q>> \in out
      <4>1. rows[b].rcpts[q] = 0
        BY <3>1 DEF IInv, UnsubscribedStaysOut
      <4> QED
        BY <2>2, <2>4, <4>1
    <3>2. CASE <<b, q>> = <<a, r>>
      BY <2>2, <2>4, <3>2
    <3> QED
      BY <1>4, <3>1, <3>2
  <2>6. CASE editor = NoEdit
    <3>1. editor' = NoEdit
      BY <1>4, <2>6 DEF NoEdit
    <3>2. editor' \in EditorState /\ editor'.pc = "idle"
      BY <3>1, QuietType DEF NoEdit
    <3>3. TypeOK'
      BY <1>1, <1>2, <1>4, <2>2, <2>3, <2>5, <3>2 DEF IInv, TypeOK
    <3>4. EditInv'
      BY <3>2 DEF EditInv
    <3>5. UnsubscribedStaysOut'
      BY <2>8
    <3>6. \A b \in Ids : rows'[b].exists = rows[b].exists /\ rows'[b].last = rows[b].last
      BY <2>2, <2>4
    <3>7. fresh \subseteq Ids /\ a \notin fresh
      BY <1>1, FreshKnown DEF IInv, TypeOK
    <3> QED
      BY <1>1, <1>4, <2>5, <3>2, <3>3, <3>4, <3>5, <3>6, <3>7, FreshKnown, HandlerKeeps
  <2>7. CASE editor # NoEdit
    <3>1. /\ editor.pc = "write" /\ editor.id \in Ids /\ editor.raced \in BOOLEAN
          /\ editor \in [pc : {"write"}, id : Ids, freq : Frequencies,
                         rcpts : Lists, put : SUBSET Recipients, raced : BOOLEAN]
      BY <2>1, <2>7 DEF EditorState
    <3>2. /\ editor' \in [pc : {"write"}, id : Ids, freq : Frequencies,
                          rcpts : Lists, put : SUBSET Recipients, raced : BOOLEAN]
          /\ editor'.id = editor.id /\ editor'.rcpts = editor.rcpts /\ editor'.put = editor.put
          /\ editor'.raced = (editor.raced \/ editor.id = a)
      BY <1>4, <3>1
    <3>3. TypeOK'
      BY <1>1, <1>2, <1>4, <2>2, <2>3, <2>5, <3>2 DEF IInv, TypeOK, EditorState
    <3>4. EditInv'
      BY <1>4, <3>1, <3>2 DEF IInv, EditInv
    <3>5. UnsubscribedStaysOut'
      BY <2>8
    <3>6. \A b \in Ids : rows'[b].exists = rows[b].exists /\ rows'[b].last = rows[b].last
      BY <2>2, <2>4
    <3>7. fresh \subseteq Ids /\ a \notin fresh /\ editor.id \notin fresh
      BY <1>1, <3>1, FreshKnown DEF IInv, TypeOK
    <3> QED
      BY <1>1, <1>4, <2>5, <3>2, <3>3, <3>4, <3>5, <3>6, <3>7, FreshKnown, HandlerKeeps
  <2> QED
    BY <2>6, <2>7
<1> QED
  BY <1>3, <1>4 DEF RemoveRecipient

LEMMA PurgeKeeps == ASSUME IInv, Purge PROVE IInv'
<1>1. /\ unsub.pc = "purge" /\ faults' \in 0..MaxFaults /\ unsub' = NoUnsub
      /\ rows' = rows \/ rows' = PurgeEmpty(unsub.id)
      /\ UNCHANGED <<day, portfolio, fresh, notifier, editor, edits, mails, out, excused, runs>>
  BY FaultType DEF Purge, IInv
<1>2. unsub.id \in Ids /\ unsub'.pc = "idle" /\ unsub' \in UnsubState
  BY <1>1, QuietType DEF IInv, TypeOK, UnsubState, NoUnsub
<1>3. rows' = rows \/ rows' = [rows EXCEPT ![unsub.id] = NoRow]
  BY <1>1 DEF PurgeEmpty
<1>4. NoRow \in RowState /\ ~NoRow.exists /\ NoRow.last = 0 /\ \A q \in Recipients : NoRow.rcpts[q] = 0
  BY QuietType, NoListType DEF NoRow
<1>5. rows' \in [Ids -> RowState] /\ \A b \in Ids : rows'[b] = rows[b] \/ rows'[b] = NoRow
  BY <1>2, <1>3, <1>4 DEF IInv, TypeOK
<1>6. TypeOK'
  BY <1>1, <1>2, <1>5 DEF IInv, TypeOK
<1>7. EditInv' /\ UnsubscribedStaysOut' /\ fresh \subseteq Ids
  BY <1>1, <1>4, <1>5 DEF IInv, EditInv, UnsubscribedStaysOut, TypeOK
<1> QED
  BY <1>1, <1>2, <1>4, <1>5, <1>6, <1>7, FreshKnown, HandlerKeeps

-----------------------------------------------------------------------------
(* The theorems. *)

LEMMA InitEstablishes == Init => IInv
<1> SUFFICES ASSUME Init PROVE IInv
  OBVIOUS
<1>1. /\ day = 1 /\ rows = [a \in Ids |-> NoRow] /\ notifier = [n \in Notifiers |-> Quiet]
      /\ editor = NoEdit /\ unsub = NoUnsub /\ mails = [m \in Mails |-> {}] /\ out = {} /\ excused = {}
      /\ fresh = Ids /\ portfolio = TRUE /\ runs = 0 /\ edits = 0 /\ faults = 0
  BY DEF Init
<1>2. day \in Days /\ mails \in [Mails -> SUBSET (0..MaxRuns)] /\ \A a \in Ids, r \in Recipients, d \in Days : mails[<<a, r, d>>] = {}
  BY <1>1, Bounds DEF Days, Mails
<1>3. \A a \in Ids : rows[a] = NoRow
  BY <1>1
<1>4. NoRow \in RowState /\ ~NoRow.exists /\ NoRow.last = 0 /\ \A q \in Recipients : NoRow.rcpts[q] = 0
  BY QuietType, NoListType DEF NoRow
<1>5. \A n \in Notifiers : notifier[n] = Quiet
  BY <1>1
<1>6. TypeOK
  BY <1>1, <1>2, <1>4, Bounds, QuietType DEF TypeOK
<1>7. NotifierInv /\ AloneInv /\ AheadInv
  BY <1>5, QuietType DEF NotifierInv, AloneInv, AheadInv
<1>8. FreshInv
  BY <1>1, <1>2, <1>3, <1>4, <1>5, QuietType DEF FreshInv, NoEdit, NoUnsub
<1>9. MarkedInv /\ MailedOncePerDay
  BY <1>2, Zenon DEF MarkedInv, MailedOncePerDay
<1>11. ClockInv
  <2>1. \A a \in Ids : rows[a].last = 0
    BY <1>3, <1>4
  <2>2. day = 1
    BY <1>1
  <2>3. ASSUME NEW a \in Ids PROVE rows[a].last <= day
    BY <2>1, <2>2
  <2> QED
    BY <1>2, <2>3, Zenon DEF ClockInv
<1>10. EditInv /\ UnsubscribedStaysOut
  BY <1>1 DEF EditInv, NoEdit, UnsubscribedStaysOut
<1> QED
  BY <1>6, <1>7, <1>8, <1>9, <1>10, <1>11 DEF IInv

LEMMA NextKeeps == IInv /\ [Next]_vars => IInv'
<1> SUFFICES ASSUME IInv, [Next]_vars PROVE IInv'
  OBVIOUS
<1>1. CASE \E n \in Notifiers : RunCompletes(n) \/ NotifierStep(n)
  BY <1>1, RunCompletesKeeps, ListAlertsKeeps, LoadPortfolioKeeps, NextAlertKeeps, MarkKeeps, SendKeeps
     DEF NotifierStep
<1>2. CASE Handlers
  BY <1>2, CreateKeeps, UpdateGetKeeps, UnsubscribeKeeps, DeleteKeeps, UpdateWriteKeeps,
     DeletePortfolioKeeps, RemoveRecipientKeeps, PurgeKeeps DEF Handlers
<1>3. CASE Midnight \/ Restart
  BY <1>3, MidnightKeeps, RestartKeeps
<1>4. CASE UNCHANGED vars
  BY <1>4 DEF vars, IInv, TypeOK, NotifierInv, FreshInv, AloneInv, AheadInv, MarkedInv, ClockInv, EditInv,
              MailedOncePerDay, UnsubscribedStaysOut
<1> QED
  BY <1>1, <1>2, <1>3, <1>4 DEF Next

\* The inductive invariant of the alerts holds in every state of every behaviour.
THEOREM Invariance == Spec => []IInv
BY InitEstablishes, NextKeeps, PTL DEF Spec

\* Every variable keeps its type.
THEOREM TypeCorrect == Spec => []TypeOK
<1>1. IInv => TypeOK
  BY DEF IInv
<1> QED
  BY <1>1, Invariance, PTL

\* However many scheduled runs complete on a New York day, and whatever happens to
\* the alert meanwhile, isDue and MarkSent let one of them mail the alert's list,
\* unless the mark was lost, two notifications overlapped, or one was still mailing
\* after midnight.
THEOREM MailedOncePerDayHolds == Spec => []MailedOncePerDay
<1>1. IInv => MailedOncePerDay
  BY DEF IInv
<1> QED
  BY <1>1, Invariance, PTL

\* Whoever followed the unsubscribe link stays out of the alert until an update
\* names the address, or writes back what it read before.
THEOREM UnsubscribedStaysOutHolds == Spec => []UnsubscribedStaysOut
<1>1. IInv => UnsubscribedStaysOut
  BY DEF IInv
<1> QED
  BY <1>1, Invariance, PTL
=============================================================================
