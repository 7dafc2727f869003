------------------------------- MODULE Alerts -------------------------------
(***************************************************************************)
(* Alert e-mails of one portfolio (alert/): what NotifyRunComplete does    *)
(* after a scheduled run, statement by statement, against the handlers     *)
(* that create, update and delete alerts and the unsubscribe link of the   *)
(* mails. Times are days in New York, the zone of the cadence checks.      *)
(***************************************************************************)
EXTENDS Naturals

CONSTANTS Ids,          \* alert ids, each inserted at most once
          Recipients,
          Notifiers,    \* workers that may be in NotifyRunComplete
          LastDay,      \* bound on the clock
          TradingDays, WeekEnds, MonthEnds,  \* the market calendar
          FireDays,     \* days the strategy's schedule fires
          Bodies,       \* the bodies that POST and PATCH requests carry
          MaxRuns,      \* bound: scheduled runs that complete
          MaxEdits,     \* bound: updates
          MaxFaults     \* bound: errors and restarts

Days == 1..LastDay
Frequencies == {"scheduled_run", "daily", "weekly", "monthly"}

(* The column recipients text[]: nobody removes repetitions, and the order *)
(* is of no consequence, so a list is how often each address occurs.       *)
Lists == [Recipients -> Nat]
NoList == [r \in Recipients |-> 0]
Listed(rs) == {r \in Recipients : rs[r] > 0}

ASSUME AlertsAssumption ==
    /\ {LastDay, MaxRuns, MaxEdits, MaxFaults} \subseteq Nat /\ LastDay > 0
    /\ Bodies \subseteq [freq : Frequencies \cup {"none"}, rcpts : Lists]
    /\ TradingDays \subseteq Days /\ WeekEnds \subseteq TradingDays
    /\ MonthEnds \subseteq TradingDays /\ FireDays \subseteq TradingDays

VARIABLES
    day,
    portfolio,   \* whether the portfolio exists
    rows,        \* table portfolio_alerts; last is last_sent_at, 0 for NULL
    fresh,       \* ids not inserted yet
    notifier, editor, unsub,
    mails,       \* history: for each alert, recipient and day, the runs whose
                 \* notification mailed then
    out,         \* history: unsubscribed and not put back on purpose
    excused,     \* history: alert and day whose mark was lost, raced or late
    runs, edits, faults

vars == <<day, portfolio, rows, fresh, notifier, editor, unsub, mails, out,
          excused, runs, edits, faults>>

NoRow == [exists |-> FALSE, freq |-> "daily", rcpts |-> NoList, last |-> 0]
Quiet == [pc |-> "idle", run |-> 0, list |-> [a \in Ids |-> NoRow], now |-> 0, todo |-> {},
          cur |-> "none", left |-> NoList]
NoEdit == [pc |-> "idle", id |-> "none", freq |-> "none", rcpts |-> NoList, put |-> {},
           raced |-> FALSE]
NoUnsub == [pc |-> "idle", id |-> "none", rcpt |-> "none"]

RowState == [exists : BOOLEAN, freq : Frequencies, rcpts : Lists, last : 0..LastDay]
Due == [id : Ids, rcpts : Lists]
NotifierState == [pc : {"idle", "list", "load", "next", "send"}, run : 0..MaxRuns,
                  list : [Ids -> RowState], now : 0..LastDay, todo : SUBSET Due,
                  cur : Ids \cup {"none"}, left : Lists]
EditorState == {NoEdit} \cup [pc : {"write"}, id : Ids, freq : Frequencies,
                               rcpts : Lists, put : SUBSET Recipients, raced : BOOLEAN]
UnsubState == {NoUnsub} \cup [pc : {"remove", "purge"}, id : Ids, rcpt : Recipients]
Mails == Ids \X Recipients \X Days

Init ==
    /\ day = 1 /\ portfolio = TRUE
    /\ rows = [a \in Ids |-> NoRow]
    /\ fresh = Ids
    /\ notifier = [n \in Notifiers |-> Quiet]
    /\ editor = NoEdit /\ unsub = NoUnsub
    /\ mails = [m \in Mails |-> {}]
    /\ out = {} /\ excused = {}
    /\ runs = 0 /\ edits = 0 /\ faults = 0

Fault == faults < MaxFaults /\ faults' = faults + 1
NoFault == UNCHANGED faults

history == <<mails, out, excused>>
handlers == <<editor, unsub, edits>>

Midnight ==
    /\ day < LastDay /\ day' = day + 1
    /\ UNCHANGED <<portfolio, rows, fresh, notifier, handlers, history, runs, faults>>

-----------------------------------------------------------------------------
(* NotifyRunComplete.                                                      *)

FiresOn(freq, d) ==
    CASE freq = "scheduled_run" -> d \in FireDays
      [] freq = "daily" -> d \in TradingDays
      [] freq = "weekly" -> d \in WeekEnds
      [] freq = "monthly" -> d \in MonthEnds

IsDue_Always(a, now) == FiresOn(a.freq, now)

(* The cadence, and no send on this New York day yet.                      *)
IsDue(a, now) == FiresOn(a.freq, now) /\ (a.last = 0 \/ now > a.last)

(* A scheduled run has been recorded; the worker calls the notifier.       *)
RunCompletes(n) ==
    /\ runs < MaxRuns /\ notifier[n].pc = "idle"
    /\ runs' = runs + 1
    /\ notifier' = [notifier EXCEPT ![n].pc = "list", ![n].run = runs + 1]
    /\ UNCHANGED <<day, portfolio, rows, fresh, handlers, history, faults>>

ListAlerts(n) ==
    /\ notifier[n].pc = "list"
    /\ \/ /\ NoFault
          /\ notifier' = [notifier EXCEPT ![n] =
                IF \A a \in Ids : ~rows[a].exists THEN Quiet
                ELSE [@ EXCEPT !.pc = "load", !.list = rows]]
       \/ Fault /\ notifier' = [notifier EXCEPT ![n] = Quiet]
    /\ UNCHANGED <<day, portfolio, rows, fresh, handlers, history, runs>>

InProgress(n) == notifier[n].pc \notin {"idle", "list"}

(* now is taken and the portfolio loaded; the alerts that are due follow   *)
(* from the rows as they were listed. Notifications that overlap, each     *)
(* with its own copy of the rows, are beyond the dedup.                    *)
LoadPortfolio(n) ==
    LET listed == notifier[n].list
        due == {a \in Ids : listed[a].exists /\ IsDue(listed[a], day)} IN
    /\ notifier[n].pc = "load"
    /\ \/ /\ NoFault /\ portfolio
          /\ notifier' = [notifier EXCEPT ![n] = [Quiet EXCEPT !.pc = "next", !.now = day,
                !.run = notifier[n].run, !.todo = {[id |-> a, rcpts |-> listed[a].rcpts] : a \in due}]]
          /\ excused' = excused \cup
                {<<a, day>> : a \in {b \in due : \E m \in Notifiers \ {n} : InProgress(m)}}
       \/ /\ NoFault /\ ~portfolio /\ UNCHANGED excused
          /\ notifier' = [notifier EXCEPT ![n] = Quiet]
       \/ /\ Fault /\ UNCHANGED excused
          /\ notifier' = [notifier EXCEPT ![n] = Quiet]
    /\ UNCHANGED <<day, portfolio, rows, fresh, handlers, mails, out, runs>>

(* The loop over the alerts: sendOne for one that is due, or the end.      *)
NextAlert(n) ==
    /\ notifier[n].pc = "next"
    /\ \/ \E a \in notifier[n].todo :
            notifier' = [notifier EXCEPT ![n].pc = "send", ![n].cur = a.id,
                                         ![n].left = a.rcpts, ![n].todo = @ \ {a}]
       \/ /\ notifier[n].todo = {}
          /\ notifier' = [notifier EXCEPT ![n] = Quiet]
    /\ UNCHANGED <<day, portfolio, rows, fresh, handlers, history, runs, faults>>

(* One element of a.Recipients in sendOne, at whatever day the loop has    *)
(* come to; the mark will name the day on which it began. The mail service *)
(* may refuse; the error is logged and the loop goes on.                   *)
Send(n, r) ==
    LET a == notifier[n].cur IN
    /\ notifier[n].pc = "send" /\ notifier[n].left[r] > 0
    /\ notifier' = [notifier EXCEPT ![n].left[r] = @ - 1]
    /\ \/ /\ NoFault
          /\ mails' = [mails EXCEPT ![<<a, r, day>>] = @ \cup {notifier[n].run}]
          /\ excused' = excused \cup IF day # notifier[n].now THEN {<<a, day>>} ELSE {}
       \/ Fault /\ UNCHANGED <<mails, excused>>
    /\ UNCHANGED <<day, portfolio, rows, fresh, handlers, out, runs>>

MarkSent_UTCDate(a, now) ==
    rows' = [rows EXCEPT ![a].last = IF rows[a].exists THEN now + 1 ELSE @]

(* UPDATE ... SET last_sent_at WHERE id: nothing if the alert is gone.     *)
MarkSent(a, now) ==
    rows' = [rows EXCEPT ![a].last = IF rows[a].exists THEN now ELSE @]

(* Another notification has listed the alert before this mark, or one of   *)
(* a later day has marked it: what they mail is beyond the dedup.          *)
Overlapped(n) ==
    \/ \E m \in Notifiers \ {n} : InProgress(m)
    \/ rows[notifier[n].cur].last > notifier[n].now

(* MarkSent after the last recipient, whatever the sends came to.          *)
Mark(n) ==
    LET a == notifier[n].cur
        both == {<<a, notifier[n].now>>, <<a, rows[a].last>>} IN
    /\ notifier[n].pc = "send" /\ notifier[n].left = NoList
    /\ notifier' = [notifier EXCEPT ![n].pc = "next", ![n].cur = "none"]
    /\ \/ /\ NoFault /\ MarkSent(a, notifier[n].now)
          /\ excused' = excused \cup IF Overlapped(n) THEN both ELSE {}
       \/ Fault /\ UNCHANGED rows /\ excused' = excused \cup both
    /\ UNCHANGED <<day, portfolio, fresh, handlers, mails, out, runs>>

-----------------------------------------------------------------------------
(* The handlers of alert/handler.go.                                       *)

(* POST: a frequency of the list and at least one recipient; the foreign   *)
(* key refuses an alert of a deleted portfolio.                            *)
Create(a, b) ==
    /\ a \in fresh /\ b.freq \in Frequencies /\ b.rcpts # NoList
    /\ portfolio
    /\ fresh' = fresh \ {a}
    /\ rows' = [rows EXCEPT ![a] = [exists |-> TRUE, freq |-> b.freq, rcpts |-> b.rcpts, last |-> 0]]
    /\ UNCHANGED <<day, portfolio, notifier, handlers, history, runs, faults>>

(* PATCH reads the alert; what the body leaves out ("none", NoList) is    *)
(* filled in from what was read.                                           *)
UpdateGet(a, b) ==
    /\ edits < MaxEdits /\ edits' = edits + 1
    /\ editor.pc = "idle" /\ portfolio /\ rows[a].exists
    /\ editor' = [pc |-> "write", id |-> a,
                  freq |-> IF b.freq = "none" THEN rows[a].freq ELSE b.freq,
                  rcpts |-> IF b.rcpts = NoList THEN rows[a].rcpts ELSE b.rcpts,
                  put |-> Listed(b.rcpts), raced |-> FALSE]
    /\ UNCHANGED <<day, portfolio, rows, fresh, notifier, unsub, history, runs, faults>>

(* UPDATE ... WHERE id; no row is an error 500.                            *)
Update(a, f, rs) ==
    IF rows[a].exists THEN [rows EXCEPT ![a].freq = f, ![a].rcpts = rs] ELSE rows

UpdateWrite ==
    LET a == editor.id
        back == IF editor.raced THEN Listed(editor.rcpts) ELSE editor.put IN
    /\ editor.pc = "write"
    /\ rows' = Update(a, editor.freq, editor.rcpts)
    /\ out' = out \ {<<a, r>> : r \in back}
    /\ editor' = NoEdit
    /\ UNCHANGED <<day, portfolio, fresh, notifier, unsub, mails, excused,
                   runs, edits, faults>>

Delete(a) ==
    /\ rows[a].exists /\ portfolio
    /\ rows' = [rows EXCEPT ![a] = NoRow]
    /\ UNCHANGED <<day, portfolio, fresh, notifier, handlers, history, runs, faults>>

(* DELETE of the portfolio, with ON DELETE CASCADE.                        *)
DeletePortfolio ==
    /\ portfolio /\ portfolio' = FALSE
    /\ rows' = [a \in Ids |-> NoRow]
    /\ UNCHANGED <<day, fresh, notifier, handlers, history, runs, faults>>

(* The tokens that verify: the HMAC is over the alert and the recipient of *)
(* the mail that carries it, and does not expire.                          *)
Token(a, r) == \E d \in Days : mails[<<a, r, d>>] # {}

(* The link of a mail. An alert that is gone is answered as unsubscribed.  *)
Unsubscribe(a, r) ==
    /\ unsub.pc = "idle" /\ rows[a].exists /\ Token(a, r)
    /\ unsub' = [pc |-> "remove", id |-> a, rcpt |-> r]
    /\ UNCHANGED <<day, portfolio, rows, fresh, notifier, editor, edits, history, runs, faults>>

ArrayRemove_First(rs, r) == [rs EXCEPT ![r] = IF @ = 0 THEN 0 ELSE @ - 1]

(* array_remove(recipients, r): every occurrence.                          *)
ArrayRemove(rs, r) == [rs EXCEPT ![r] = 0]

RemoveRecipient ==
    LET a == unsub.id IN
    /\ unsub.pc = "remove"
    /\ \/ /\ NoFault /\ rows[a].exists
          /\ rows' = [rows EXCEPT ![a].rcpts = ArrayRemove(@, unsub.rcpt)]
          /\ unsub' = [unsub EXCEPT !.pc = "purge"]
          /\ out' = out \cup {<<a, unsub.rcpt>>}
          /\ editor' = [editor EXCEPT !.raced = @ \/ (editor.pc = "write" /\ editor.id = a)]
       \/ /\ NoFault /\ ~rows[a].exists
          /\ unsub' = NoUnsub /\ UNCHANGED <<rows, out, editor>>
       \/ Fault /\ unsub' = NoUnsub /\ UNCHANGED <<rows, out, editor>>
    /\ UNCHANGED <<day, portfolio, fresh, notifier, edits, mails, excused, runs>>

(* DELETE ... WHERE id AND array_length(recipients, 1) IS NULL             *)
PurgeEmpty(a) ==
    IF rows[a].exists /\ rows[a].rcpts = NoList THEN [rows EXCEPT ![a] = NoRow] ELSE rows

Purge ==
    /\ unsub.pc = "purge"
    /\ \/ NoFault /\ rows' = PurgeEmpty(unsub.id)
       \/ Fault /\ UNCHANGED rows
    /\ unsub' = NoUnsub
    /\ UNCHANGED <<day, portfolio, fresh, notifier, editor, edits, mails, out, excused,
                   runs>>

-----------------------------------------------------------------------------
(* The process dies: requests and notifications in progress are gone.      *)
Restart ==
    /\ Fault
    /\ notifier' = [n \in Notifiers |-> Quiet]
    /\ editor' = NoEdit /\ unsub' = NoUnsub
    /\ excused' = excused \cup
          {<<notifier[n].cur, notifier[n].now>> :
              n \in {m \in Notifiers : notifier[m].pc = "send"}}
    /\ UNCHANGED <<day, portfolio, rows, fresh, edits, mails, out, runs>>

NotifierStep(n) ==
    \/ ListAlerts(n) \/ LoadPortfolio(n) \/ NextAlert(n) \/ Mark(n)
    \/ \E r \in Recipients : Send(n, r)

Handlers ==
    \/ \E a \in Ids, b \in Bodies : Create(a, b) \/ UpdateGet(a, b)
    \/ \E a \in Ids, r \in Recipients : Unsubscribe(a, r)
    \/ \E a \in Ids : Delete(a)
    \/ UpdateWrite \/ DeletePortfolio \/ RemoveRecipient \/ Purge

Next ==
    \/ \E n \in Notifiers : RunCompletes(n) \/ NotifierStep(n)
    \/ Handlers \/ Midnight \/ Restart

Spec == Init /\ [][Next]_vars

-----------------------------------------------------------------------------
(* The type invariant.                                                     *)
TypeOK ==
    /\ day \in Days /\ portfolio \in BOOLEAN
    /\ rows \in [Ids -> RowState] /\ fresh \subseteq Ids
    /\ notifier \in [Notifiers -> NotifierState]
    /\ editor \in EditorState /\ unsub \in UnsubState
    /\ mails \in [Mails -> SUBSET (0..MaxRuns)]
    /\ out \subseteq Ids \X Recipients /\ excused \subseteq Ids \X (0..LastDay)
    /\ runs \in 0..MaxRuns /\ edits \in 0..MaxEdits /\ faults \in 0..MaxFaults

(* However many scheduled runs complete on one New York day, only one of   *)
(* them has an alert mailed to an address that day (as often as the alert  *)
(* lists it), unless the record of the first was lost (an error, a crash), *)
(* the two notifications overlapped, or one began the day before and was   *)
(* still mailing after midnight.                                           *)
MailedOncePerDay ==
    \A a \in Ids, r \in Recipients, d \in Days :
        <<a, d>> \in excused \/ \A x, y \in mails[<<a, r, d>>] : x = y

(* Whoever followed the unsubscribe link is not a recipient any more,      *)
(* unless an update names the address again or read the alert before and   *)
(* wrote it after.                                                         *)
UnsubscribedStaysOut ==
    \A a \in Ids, r \in Recipients : <<a, r>> \in out => rows[a].rcpts[r] = 0

-----------------------------------------------------------------------------
(* The inductive invariant behind the two properties.                      *)

(* What a notification has still to mail.                                  *)
Ahead(x) == x.todo \cup IF x.pc = "send" THEN {[id |-> x.cur, rcpts |-> x.left]} ELSE {}

(* A notification has each alert to mail at most once, for a day that has  *)
(* begun.                                                                  *)
NotifierInv ==
    \A n \in Notifiers :
        /\ notifier[n].pc \in {"idle", "list", "load"} => notifier[n].todo = {}
        /\ notifier[n].pc \in {"next", "send"} => notifier[n].now \in 1..day
        /\ notifier[n].pc = "send" =>
              notifier[n].cur \in Ids /\ \A t \in notifier[n].todo : t.id # notifier[n].cur
        /\ \A t, u \in notifier[n].todo : t.id = u.id => t = u

(* Nothing knows an alert that is not inserted yet.                        *)
FreshInv ==
    \A a \in fresh :
        /\ ~rows[a].exists
        /\ \A n \in Notifiers : ~notifier[n].list[a].exists /\ \A t \in Ahead(notifier[n]) : t.id # a
        /\ \A r \in Recipients : <<a, r>> \notin out /\ \A d \in Days : mails[<<a, r, d>>] = {}
        /\ editor.pc = "write" => editor.id # a
        /\ unsub.pc # "idle" => unsub.id # a

(* Two notifications that have one alert to mail for one day are excused.  *)
AloneInv ==
    \A n, m \in Notifiers : \A t \in Ahead(notifier[n]), u \in Ahead(notifier[m]) :
        n # m /\ t.id = u.id /\ notifier[n].now = notifier[m].now =>
            <<t.id, notifier[n].now>> \in excused

(* What is still to be mailed has not been mailed by another notification. *)
AheadInv ==
    \A n \in Notifiers : \A t \in Ahead(notifier[n]), r \in Recipients :
        \/ mails[<<t.id, r, notifier[n].now>>] \subseteq {notifier[n].run}
        \/ <<t.id, notifier[n].now>> \in excused

(* What was mailed today is about to be marked, or is marked in the row    *)
(* and in every copy of it that will be tested.                            *)
MarkedInv ==
    \A a \in Ids, r \in Recipients :
        mails[<<a, r, day>>] # {} /\ <<a, day>> \notin excused =>
            \/ \E n \in Notifiers :
                  notifier[n].pc = "send" /\ notifier[n].cur = a /\ notifier[n].now = day
            \/ /\ rows[a].exists => rows[a].last = day
               /\ \A n \in Notifiers : notifier[n].pc = "load" /\ notifier[n].list[a].exists =>
                     notifier[n].list[a].last = day

(* No day has mails or marks before it begins.                             *)
ClockInv ==
    /\ \A a \in Ids : rows[a].last <= day
    /\ \A a \in Ids, r \in Recipients, d \in Days : d > day => mails[<<a, r, d>>] = {}

(* An update that no unsubscription has raced puts back whom it names.     *)
EditInv ==
    editor.pc = "write" /\ ~editor.raced =>
        \A r \in Listed(editor.rcpts) : r \in editor.put \/ <<editor.id, r>> \notin out

IInv == TypeOK /\ NotifierInv /\ FreshInv /\ AloneInv /\ AheadInv /\ MarkedInv /\ ClockInv
             /\ EditInv /\ MailedOncePerDay /\ UnsubscribedStaysOut
=============================================================================
