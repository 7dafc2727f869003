----------------------------- MODULE ProgressHub -----------------------------
(***************************************************************************)
(* Live progress of one run: the hub's broadcaster (a ring of the latest    *)
(* messages and the channels of its subscribers, under one mutex), the run  *)
(* that publishes into it, and the HTTP streams that read the run's row,    *)
(* subscribe, and forward events until the run ends.                        *)
(*                                                                         *)
(* The n-th progress message is the number n.  Looking the broadcaster up   *)
(* and locking it is one step: one that is found just before the cleanup    *)
(* behaves as if it had been locked before it.                              *)
(***************************************************************************)
EXTENDS Integers, Sequences

CONSTANTS
    Subs,           \* HTTP streams
    BufSize,        \* bufSize
    ChanCap,        \* subChanCap
    MaxMsgs,        \* bound: progress messages of the run
    QueueFull,      \* whether Submit may find the dispatcher's channel full
    RowFails,       \* whether a statement that ends the row may fail, or commit
                    \* and report an error
    SlowHandler     \* whether a handler may take longer than the drain window

\* subscribe sends the whole ring into a new channel under the mutex: it must fit.
ASSUME HubAssumption ==
    /\ BufSize \in Nat \ {0} /\ ChanCap \in Nat /\ BufSize <= ChanCap
    /\ MaxMsgs \in Nat
    /\ QueueFull \in BOOLEAN /\ RowFails \in BOOLEAN /\ SlowHandler \in BOOLEAN

VARIABLES
    row,            \* backtest_runs.status of the run
    exec,           \* where the run is between Submit and the end of orchestrator.Run
    sent,           \* progress messages published so far
    hub,            \* the broadcaster of the run in Hub.runs
    sub             \* the streams

vars == <<row, exec, sent, hub, sub>>

Ended    == {"success", "failed"}
Progress(n)  == [kind |-> "progress", n |-> n]
Terminal(st) == [kind |-> st, n |-> 0]
Events   == [kind : {"progress"} \cup Ended, n : 0..MaxMsgs]
Slots    == 0..(BufSize - 1)

NoBroadcaster == [exists |-> FALSE, buf |-> [i \in Slots |-> 0], head |-> 0, count |-> 0,
                  subs |-> {}, terminal |-> "none"]
IdleSub  == [pc |-> "idle", ch |-> <<>>, open |-> FALSE, got |-> <<>>, cut |-> FALSE]

HubState == [exists : BOOLEAN, buf : [Slots -> 0..MaxMsgs], head : Slots,
             count : 0..BufSize, subs : SUBSET Subs, terminal : {"none"} \cup Ended]
SubState == [pc : {"idle", "told", "checked", "stream", "done"}, ch : Seq(Events),
             open : BOOLEAN, got : Seq(Events), cut : BOOLEAN]

TypeOK ==
    /\ row \in {"queued", "running"} \cup Ended
    /\ exec \in [pc : {"submit", "queue", "run", "fail", "complete", "drain", "over"},
                 result : {"none"} \cup Ended]
    /\ sent \in 0..MaxMsgs
    /\ hub \in HubState
    /\ sub \in [Subs -> SubState]
    /\ \A s \in Subs : Len(sub[s].ch) <= ChanCap

-----------------------------------------------------------------------------
(* The broadcaster. *)

Full(s) == Len(sub[s].ch) >= ChanCap

\* Mutant: the head does not wrap around.
Push_NoWrap(n) ==
    [hub EXCEPT !.exists = TRUE,
                !.buf[(hub.head + hub.count) % BufSize] = n,
                !.count = IF @ < BufSize THEN @ + 1 ELSE @,
                !.head  = IF hub.count < BufSize THEN @ ELSE @ + 1]

\* publish, the ring.
Push(n) ==
    [hub EXCEPT !.exists = TRUE,
                !.buf[(hub.head + hub.count) % BufSize] = n,
                !.count = IF @ < BufSize THEN @ + 1 ELSE @,
                !.head  = IF hub.count < BufSize THEN @ ELSE (@ + 1) % BufSize]

\* Mutant: a channel that is full is closed and stays subscribed.
Alive_All == hub.subs

\* publish keeps the subscribers whose channel had room.
Alive == {s \in hub.subs : ~Full(s)}

\* publish, the subscribers: a channel without room is closed.
FanOut(e) ==
    [s \in Subs |->
        IF s \notin hub.subs THEN sub[s]
        ELSE IF Full(s) THEN [sub[s] EXCEPT !.open = FALSE, !.cut = TRUE]
        ELSE [sub[s] EXCEPT !.ch = Append(@, e)]]

Latest == hub.buf[(hub.head + hub.count - 1) % BufSize]

\* The ring from its oldest to its newest message.
Replay == [i \in 1..hub.count |-> Progress(hub.buf[(hub.head + i - 1) % BufSize])]

\* complete: the terminal event is not sent into a full channel, every channel
\* is closed.
Finish(st) ==
    [s \in Subs |->
        IF s \notin hub.subs THEN sub[s]
        ELSE [sub[s] EXCEPT !.open = FALSE,
                            !.ch = IF Full(s) THEN @ ELSE Append(@, Terminal(st))]]

-----------------------------------------------------------------------------
(* The run. *)

RunAt(pc) == exec.pc = pc
RunTo(pc, result) == exec' = [pc |-> pc, result |-> result]

\* Dispatcher.Submit has inserted the row; the send succeeds, or UpdateRunFailed
\* fails the row, if it can, and nobody will ever call Complete for it.
Enqueue ==
    /\ RunAt("submit")
    /\ \/ RunTo("queue", "none") /\ UNCHANGED row
       \/ /\ QueueFull /\ RunTo("over", "none")
          /\ row' = "failed" \/ (RowFails /\ UNCHANGED row)
    /\ UNCHANGED <<sent, hub, sub>>

\* MarkRunningTx.
Start ==
    /\ RunAt("queue")
    /\ RunTo("run", "none")
    /\ row' = "running"
    /\ UNCHANGED <<sent, hub, sub>>

\* LineWriter.Write on a progress line of the strategy's stdout.
Publish ==
    /\ RunAt("run")
    /\ sent < MaxMsgs
    /\ sent' = sent + 1
    /\ hub' = [Push(sent + 1) EXCEPT !.subs = Alive]
    /\ sub' = FanOut(Progress(sent + 1))
    /\ UNCHANGED <<row, exec>>

\* Mutant: the hub is told of the success before the row is written.
MarkReady_HubFirst ==
    /\ RunAt("run")
    /\ RunTo("complete", "success")
    /\ UNCHANGED <<row, sent, hub, sub>>

\* MarkReadyTx.  A commit whose acknowledgement is lost is an error to the
\* orchestrator.
MarkReady ==
    /\ RunAt("run")
    /\ row' = "success"
    /\ RunTo("complete", "success") \/ (RowFails /\ RunTo("fail", "none"))
    /\ UNCHANGED <<sent, hub, sub>>

\* An error of any step of orchestrator.Run.
RunFails ==
    /\ RunAt("run") \/ RunAt("queue")
    /\ RunTo("fail", "none")
    /\ UNCHANGED <<row, sent, hub, sub>>

\* MarkFailedTx, whose error fail drops.
MarkFailed ==
    /\ RunAt("fail")
    /\ row' = "failed" \/ (RowFails /\ UNCHANGED row)
    /\ RunTo("complete", "failed")
    /\ UNCHANGED <<sent, hub, sub>>

\* Mutant: complete leaves the channels open.
Complete_LeavesOpen ==
    /\ RunAt("complete")
    /\ RunTo("drain", exec.result)
    /\ hub' = [hub EXCEPT !.exists = TRUE, !.terminal = exec.result, !.subs = {}]
    /\ UNCHANGED <<row, sent, sub>>

Complete ==
    /\ RunAt("complete")
    /\ RunTo("drain", exec.result)
    /\ hub' = [hub EXCEPT !.exists = TRUE, !.terminal = exec.result, !.subs = {}]
    /\ sub' = Finish(exec.result)
    /\ UNCHANGED <<row, sent>>

\* Ten seconds later.  A handler that read the row before it ended has
\* subscribed by then, unless SlowHandler says otherwise.
Cleanup ==
    /\ RunAt("drain")
    /\ SlowHandler \/ \A s \in Subs : sub[s].pc # "checked"
    /\ RunTo("over", exec.result)
    /\ hub' = NoBroadcaster
    /\ UNCHANGED <<row, sent, sub>>

-----------------------------------------------------------------------------
(* The streams: Handler.StreamRunProgress. *)

\* The row is read; a run that has ended is reported from it.
Open(s) ==
    /\ sub[s].pc = "idle"
    /\ sub' = [sub EXCEPT ![s] = IF row \in Ended
                                 THEN [@ EXCEPT !.pc = "told", !.got = <<Terminal(row)>>]
                                 ELSE [@ EXCEPT !.pc = "checked"]]
    /\ UNCHANGED <<row, exec, sent, hub>>

\* Mutant: the channel is registered without the messages of the ring.
Subscribe_NoReplay(s) ==
    /\ sub[s].pc = "checked"
    /\ hub' = [hub EXCEPT !.exists = TRUE, !.subs = @ \cup {s}]
    /\ sub' = [sub EXCEPT ![s] = [@ EXCEPT !.pc = "stream", !.open = TRUE]]
    /\ UNCHANGED <<row, exec, sent>>

\* Hub.Subscribe: the terminal event in a closed channel, or the ring and then
\* what is published from now on.
Subscribe(s) ==
    /\ sub[s].pc = "checked"
    /\ IF hub.terminal # "none"
       THEN /\ sub' = [sub EXCEPT ![s] = [@ EXCEPT !.pc = "stream",
                                                   !.ch = <<Terminal(hub.terminal)>>]]
            /\ UNCHANGED hub
       ELSE /\ sub' = [sub EXCEPT ![s] = [@ EXCEPT !.pc = "stream", !.open = TRUE,
                                                   !.ch = Replay]]
            /\ hub' = [hub EXCEPT !.exists = TRUE, !.subs = @ \cup {s}]
    /\ UNCHANGED <<row, exec, sent>>

\* The stream returns; the deferred unsub closes a channel that is still
\* registered, and only that.
Return(s, got, cut) ==
    /\ sub' = [sub EXCEPT ![s] = [@ EXCEPT !.pc = "done", !.ch = <<>>, !.open = FALSE,
                                           !.got = got, !.cut = cut]]
    /\ hub' = [hub EXCEPT !.subs = @ \ {s}]

\* streamProgressEvents, one receive.
Receive(s) ==
    /\ sub[s].pc = "stream"
    /\ \/ /\ sub[s].ch # <<>>
          /\ LET e == Head(sub[s].ch) IN
             IF e.kind = "progress"
             THEN /\ sub' = [sub EXCEPT ![s].ch = Tail(@), ![s].got = Append(@, e)]
                  /\ UNCHANGED hub
             ELSE Return(s, Append(sub[s].got, e), sub[s].cut)
       \/ /\ sub[s].ch = <<>> /\ ~sub[s].open
          /\ Return(s, sub[s].got, sub[s].cut)
    /\ UNCHANGED <<row, exec, sent>>

\* The request's context is cancelled.
Disconnect(s) ==
    /\ sub[s].pc = "stream"
    /\ Return(s, sub[s].got, TRUE)
    /\ UNCHANGED <<row, exec, sent>>

-----------------------------------------------------------------------------

Init ==
    /\ row = "queued"
    /\ exec = [pc |-> "submit", result |-> "none"]
    /\ sent = 0
    /\ hub = NoBroadcaster
    /\ sub = [s \in Subs |-> IdleSub]

RunStep == Enqueue \/ Start \/ MarkReady \/ RunFails \/ MarkFailed \/ Complete \/ Cleanup

Next ==
    \/ RunStep \/ Publish
    \/ \E s \in Subs : Open(s) \/ Subscribe(s) \/ Receive(s) \/ Disconnect(s)

Spec == Init /\ [][Next]_vars

\* The run goes on (its runner has a timeout) and every stream that can read
\* does; nobody has to open a stream, to publish or to leave.
FairSpec ==
    /\ Spec
    /\ WF_vars(RunStep)
    /\ \A s \in Subs : WF_vars(Subscribe(s)) /\ WF_vars(Receive(s))

-----------------------------------------------------------------------------
(* Correctness. *)

Seen(s) == sub[s].got \o sub[s].ch

\* Consecutive messages, with at most one terminal event, which is the last.
WithoutGaps(q) ==
    \A i \in 1..(Len(q) - 1) :
        /\ q[i].kind = "progress"
        /\ q[i + 1].kind = "progress" => q[i + 1].n = q[i].n + 1

\* The replay of the ring and the live messages join without a gap, a repetition
\* or a message out of order, whenever the stream subscribed, and nothing follows
\* the terminal event; a stream that is still subscribed has everything up to the
\* last message.  Hub.Latest, which the run's representation shows, is the newest
\* of the ring.
NoGaps ==
    /\ hub.count > 0 /\ exec.pc # "over" => Latest = sent
    /\ \A s \in Subs :
        /\ WithoutGaps(Seen(s))
        /\ s \in hub.subs /\ exec.pc # "over" /\ sent > 0 =>
             Seen(s) # <<>> /\ Seen(s)[Len(Seen(s))] = Progress(sent)

\* publish, complete and unsub agree on who closes a channel: a subscribed
\* channel is open, so no send and no close panics, and the channel of a stream
\* that is no longer subscribed is closed, so that the stream will return.
ClosedExactlyOnce ==
    \A s \in Subs : s \in hub.subs <=> sub[s].open

Reports(s, st) == \E i \in 1..Len(Seen(s)) : Seen(s)[i].kind = st

\* A success that the hub reports is in the table, and stays there: the row is
\* written before the hub is told.  A success that StreamRunProgress read in the
\* table is there too, unless the run has ended as failed since: a MarkReadyTx
\* that commits and reports an error is followed by MarkFailedTx.
SuccessIsRecorded ==
    \A s \in Subs : Reports(s, "success") =>
        \/ row = "success"
        \/ sub[s].pc = "told" /\ exec.result = "failed"

\* The run was not rejected, its row says how it ended, and no handler is still
\* about to subscribe when the drain window is over.
Orderly ==
    /\ exec.pc = "over" => exec.result # "none" /\ \A s \in Subs : sub[s].pc # "checked"
    /\ exec.result # "none" => row = exec.result

Opened(s) == sub[s].pc \in {"checked", "stream"}

\* Every opened stream of an orderly run ends, whenever it subscribed: it is told
\* of the end, finds its channel closed, or is told by the broadcaster that
\* outlives the run for the drain window.
StreamEnds == []Orderly => \A s \in Subs : Opened(s) ~> (sub[s].pc = "done")

-----------------------------------------------------------------------------
(***************************************************************************)
(* The inductive invariant behind the properties above.                     *)
(***************************************************************************)

\* The row follows the run until it ends; once the result is known it never changes.
RunInv ==
    /\ exec.pc \in {"submit", "queue", "run"} => row \notin Ended /\ exec.result = "none"
    /\ exec.pc = "fail" => exec.result = "none"
    /\ exec.pc \in {"submit", "queue"} => sent = 0
    /\ exec.pc \in {"complete", "drain"} => exec.result \in Ended
    /\ exec.result = "success" => row = "success"

\* The broadcaster knows the end for the drain window, and nobody is subscribed then.
HubInv ==
    /\ exec.pc = "drain" => hub.terminal = exec.result /\ hub.subs = {}
    /\ exec.pc # "drain" => hub.terminal = "none"

\* The ring holds the latest messages in order, all of them while they fit.
RingInv ==
    /\ hub.count = IF exec.pc = "over" THEN 0
                   ELSE IF sent < BufSize THEN sent ELSE BufSize
    /\ \A i \in 1..hub.count :
         hub.buf[(hub.head + i - 1) % BufSize] = sent - hub.count + i

\* A stream that is not subscribed yet has seen nothing; one that is has seen
\* everything since the start of its replay.
StreamOK(s) ==
    /\ sub[s].pc \in {"idle", "checked"} => sub[s].got = <<>> /\ sub[s].ch = <<>>
    /\ s \in hub.subs => sub[s].pc = "stream"
    /\ WithoutGaps(Seen(s))
    /\ s \in hub.subs =>
         IF exec.pc = "over" \/ sent = 0 THEN Seen(s) = <<>>
         ELSE Seen(s) # <<>> /\ Seen(s)[Len(Seen(s))] = Progress(sent)

StreamInv == \A s \in Subs : StreamOK(s)

\* The hub reports only the success of a run that is over with it.
Justified(pc) ==
    \/ exec.result = "success"
    \/ pc = "told" /\ (row = "success" \/ exec.result = "failed")

SuccessInv ==
    \A s \in Subs : \A i \in 1..Len(Seen(s)) :
        Seen(s)[i].kind = "success" => Justified(sub[s].pc)

IInv == TypeOK /\ RunInv /\ HubInv /\ RingInv /\ StreamInv /\ ClosedExactlyOnce
             /\ SuccessInv
=============================================================================
