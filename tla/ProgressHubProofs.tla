------------------------- MODULE ProgressHubProofs -------------------------
(***************************************************************************)
(* What a stream of a run's progress shows, for any number of streams and   *)
(* messages and any sizes of the ring and of the channels that subscribe    *)
(* can rely on.                                                             *)
(***************************************************************************)
EXTENDS ProgressHub, TLAPS

-----------------------------------------------------------------------------
(* Arithmetic of the ring. *)

\* One turn around the ring at most.
LEMMA Wrap ==
    ASSUME NEW h \in Slots, NEW k \in 0..BufSize
    PROVE  (h + k) % BufSize = IF h + k < BufSize THEN h + k ELSE h + k - BufSize
<1> USE HubAssumption DEF Slots
<1>1. BufSize \in Nat \ {0} /\ h \in Nat /\ k \in Nat /\ h < BufSize /\ k <= BufSize
  OBVIOUS
<1>2. CASE h + k < BufSize
  BY <1>1, <1>2
<1>3. CASE h + k >= BufSize
  <2> DEFINE x == h + k - BufSize
  <2>1. x \in Nat /\ x < BufSize /\ h + k = x + BufSize
    BY <1>1, <1>3
  <2>2. (x + BufSize) % BufSize = x
    BY <1>1, <2>1
  <2> QED
    BY <2>1, <2>2, <1>3
<1> QED
  BY <1>1, <1>2, <1>3

-----------------------------------------------------------------------------
(* Sequences of events. *)

\* A received event moves from the channel to what the client got.
LEMMA ReceiveKeepsSeen ==
    ASSUME NEW got \in Seq(Events), NEW ch \in Seq(Events), ch # <<>>
    PROVE  /\ Append(got, Head(ch)) \in Seq(Events) /\ Tail(ch) \in Seq(Events)
           /\ Append(got, Head(ch)) \o Tail(ch) = got \o ch
<1>1. Append(got, Head(ch)) \in Seq(Events) /\ Tail(ch) \in Seq(Events) /\ got \o ch \in Seq(Events)
  OBVIOUS
<1>2. Len(Append(got, Head(ch)) \o Tail(ch)) = Len(got \o ch)
  BY <1>1
<1>3. \A i \in 1..Len(got \o ch) : (Append(got, Head(ch)) \o Tail(ch))[i] = (got \o ch)[i]
  BY <1>1
<1> QED
  BY <1>1, <1>2, <1>3

\* Sending appends to what the client will have seen.
LEMMA SendAppends ==
    ASSUME NEW got \in Seq(Events), NEW ch \in Seq(Events), NEW e \in Events
    PROVE  got \o Append(ch, e) = Append(got \o ch, e)
<1>1. got \o Append(ch, e) \in Seq(Events) /\ Append(got \o ch, e) \in Seq(Events)
  OBVIOUS
<1>2. Len(got \o Append(ch, e)) = Len(Append(got \o ch, e))
  OBVIOUS
<1>3. \A i \in 1..Len(got \o Append(ch, e)) :
         (got \o Append(ch, e))[i] = Append(got \o ch, e)[i]
  OBVIOUS
<1> QED
  BY <1>1, <1>2, <1>3

\* What the client got is the first of what it sees.
LEMMA GotFirst ==
    ASSUME NEW got \in Seq(Events), NEW ch \in Seq(Events)
    PROVE  /\ Len(got) <= Len(got \o ch) /\ \A i \in 1..Len(got) : got[i] = (got \o ch)[i]
           /\ ch # <<>> => /\ Len(Append(got, Head(ch))) <= Len(got \o ch)
                           /\ \A i \in 1..Len(Append(got, Head(ch))) :
                                Append(got, Head(ch))[i] = (got \o ch)[i]
<1>1. Len(got) \in Nat /\ Len(ch) \in Nat /\ Len(got \o ch) = Len(got) + Len(ch)
  OBVIOUS
<1>2. \A i \in 1..Len(got) : got[i] = (got \o ch)[i]
  OBVIOUS
<1>3. ASSUME ch # <<>>
      PROVE  /\ Len(Append(got, Head(ch))) <= Len(got \o ch)
             /\ \A i \in 1..Len(Append(got, Head(ch))) : Append(got, Head(ch))[i] = (got \o ch)[i]
  <2>1. Len(ch) >= 1 /\ Head(ch) = ch[1] /\ Len(Append(got, Head(ch))) = Len(got) + 1
    BY <1>3
  <2>2. (got \o ch)[Len(got) + 1] = ch[1]
    BY <1>1, <2>1
  <2> QED
    BY <1>1, <1>2, <2>1, <2>2
<1> QED
  BY <1>1, <1>2, <1>3

LEMMA ConcatEmpty ==
    ASSUME NEW q \in Seq(Events)
    PROVE  q \o <<>> = q /\ <<>> \o q = q
<1>1. <<>> \in Seq(Events) /\ q \o <<>> \in Seq(Events) /\ <<>> \o q \in Seq(Events)
  OBVIOUS
<1>2. Len(q \o <<>>) = Len(q) /\ Len(<<>> \o q) = Len(q)
  OBVIOUS
<1>3. \A i \in 1..Len(q) : (q \o <<>>)[i] = q[i] /\ (<<>> \o q)[i] = q[i]
  OBVIOUS
<1> QED
  BY <1>1, <1>2, <1>3

\* What a stream may see next.
Follows(q, e) ==
    q # <<>> => /\ q[Len(q)].kind = "progress"
                /\ e.kind = "progress" => e.n = q[Len(q)].n + 1

LEMMA AppendWithoutGaps ==
    ASSUME NEW q \in Seq(Events), NEW e \in Events, WithoutGaps(q), Follows(q, e)
    PROVE  /\ WithoutGaps(Append(q, e)) /\ Append(q, e) # <<>>
           /\ Append(q, e)[Len(Append(q, e))] = e
           /\ \A i \in 1..Len(Append(q, e)) : Append(q, e)[i] = e \/ \E j \in 1..Len(q) : Append(q, e)[i] = q[j]
<1>1. Append(q, e) \in Seq(Events) /\ Len(Append(q, e)) = Len(q) + 1 /\ Len(q) \in Nat
  OBVIOUS
<1>2. \A i \in 1..Len(q) : Append(q, e)[i] = q[i]
  OBVIOUS
<1>3. Append(q, e)[Len(q) + 1] = e
  OBVIOUS
<1>4. WithoutGaps(Append(q, e))
  <2> SUFFICES ASSUME NEW i \in 1..Len(q)
               PROVE  /\ Append(q, e)[i].kind = "progress"
                      /\ Append(q, e)[i + 1].kind = "progress" =>
                           Append(q, e)[i + 1].n = Append(q, e)[i].n + 1
    BY <1>1 DEF WithoutGaps
  <2>1. CASE i < Len(q)
    BY <1>1, <1>2, <2>1 DEF WithoutGaps
  <2>2. CASE i = Len(q)
    BY <1>1, <1>2, <1>3, <2>2 DEF Follows
  <2> QED
    BY <1>1, <2>1, <2>2
<1>5. \A i \in 1..(Len(q) + 1) : i \in 1..Len(q) \/ i = Len(q) + 1
  BY <1>1
<1> QED
  BY <1>1, <1>2, <1>3, <1>4, <1>5

\* A stream that has nothing, or only the first of what it had.
LEMMA PrefixWithoutGaps ==
    ASSUME NEW q \in Seq(Events), NEW r \in Seq(Events), WithoutGaps(q), Len(r) <= Len(q),
           \A i \in 1..Len(r) : r[i] = q[i]
    PROVE  WithoutGaps(r)
<1> SUFFICES ASSUME NEW i \in 1..(Len(r) - 1)
             PROVE  /\ r[i].kind = "progress"
                    /\ r[i + 1].kind = "progress" => r[i + 1].n = r[i].n + 1
  BY DEF WithoutGaps
<1>1. Len(r) \in Nat /\ Len(q) \in Nat
  OBVIOUS
<1>2. i \in 1..Len(r) /\ i + 1 \in 1..Len(r) /\ i \in 1..(Len(q) - 1)
  BY <1>1
<1>3. r[i] = q[i] /\ r[i + 1] = q[i + 1]
  BY <1>2
<1> QED
  BY <1>2, <1>3 DEF WithoutGaps

LEMMA SeenType ==
    ASSUME TypeOK, NEW s \in Subs
    PROVE  /\ sub[s] \in SubState /\ Len(sub[s].ch) <= ChanCap
           /\ sub[s].got \in Seq(Events) /\ sub[s].ch \in Seq(Events) /\ Seen(s) \in Seq(Events)
BY DEF TypeOK, Seen, SubState

\* Records of streams and of the broadcaster, field by field.
LEMMA SubCut ==
    ASSUME NEW x \in SubState, NEW y, y = [x EXCEPT !.open = FALSE, !.cut = TRUE]
    PROVE  /\ y \in SubState /\ y.open = FALSE
           /\ y.pc = x.pc /\ y.ch = x.ch /\ y.got = x.got
BY DEF SubState

LEMMA HubRecord ==
    ASSUME NEW exists \in BOOLEAN, NEW buf \in [Slots -> 0..MaxMsgs], NEW head \in Slots,
           NEW count \in 0..BufSize, NEW subs \in SUBSET Subs, NEW terminal \in {"none"} \cup Ended
    PROVE  [exists |-> exists, buf |-> buf, head |-> head, count |-> count, subs |-> subs,
            terminal |-> terminal] \in HubState
BY DEF HubState

-----------------------------------------------------------------------------
(* The run. *)

\* A step of the run that the broadcaster does not take part in.
LEMMA RunStepKeeps ==
    ASSUME IInv, TypeOK', RunInv', UNCHANGED <<sent, hub, sub>>,
           exec.pc # "drain", exec'.pc # "drain",
           exec'.pc = "over" => exec.pc = "submit",
           exec.result = "none", row = "success" => row' = "success" \/ exec'.result = "failed",
           exec.pc # "over"
    PROVE  IInv'
<1> USE DEF IInv
<1>1. HubInv'
  BY DEF HubInv
<1>2. RingInv'
  BY HubAssumption DEF RingInv, RunInv
<1>3. StreamInv'
  <2> SUFFICES ASSUME NEW s \in Subs PROVE StreamOK(s)'
    BY DEF StreamInv
  <2>1. StreamOK(s) /\ Seen(s)' = Seen(s)
    BY DEF StreamInv, Seen
  <2>2. CASE exec'.pc # "over"
    BY <2>1, <2>2 DEF StreamOK
  <2>3. CASE exec'.pc = "over"
    BY <2>1, <2>3 DEF StreamOK, RunInv
  <2> QED
    BY <2>2, <2>3
<1>4. ClosedExactlyOnce'
  BY DEF ClosedExactlyOnce
<1>5. SuccessInv'
  BY DEF SuccessInv, Justified, Seen
<1> QED
  BY <1>1, <1>2, <1>3, <1>4, <1>5

\* Submit's send, MarkRunningTx and the end of the row.
LEMMA EnqueueKeeps == ASSUME IInv, Enqueue PROVE IInv'
<1>1. TypeOK'
  BY DEF IInv, TypeOK, Enqueue, RunAt, RunTo, Ended
<1>2. RunInv'
  BY DEF IInv, RunInv, Enqueue, RunAt, RunTo, Ended
<1> QED
  BY <1>1, <1>2, RunStepKeeps DEF IInv, RunInv, Enqueue, RunAt, RunTo, Ended

LEMMA StartKeeps == ASSUME IInv, Start PROVE IInv'
<1>1. TypeOK'
  BY DEF IInv, TypeOK, Start, RunAt, RunTo, Ended
<1>2. RunInv'
  BY DEF IInv, RunInv, Start, RunAt, RunTo, Ended
<1> QED
  BY <1>1, <1>2, RunStepKeeps DEF IInv, RunInv, Start, RunAt, RunTo, Ended

LEMMA MarkReadyKeeps == ASSUME IInv, MarkReady PROVE IInv'
<1>1. TypeOK'
  BY DEF IInv, TypeOK, MarkReady, RunAt, RunTo, Ended
<1>2. RunInv'
  BY DEF IInv, RunInv, MarkReady, RunAt, RunTo, Ended
<1> QED
  BY <1>1, <1>2, RunStepKeeps DEF IInv, RunInv, MarkReady, RunAt, RunTo, Ended

LEMMA RunFailsKeeps == ASSUME IInv, RunFails PROVE IInv'
<1>1. TypeOK'
  BY DEF IInv, TypeOK, RunFails, RunAt, RunTo, Ended
<1>2. RunInv'
  BY DEF IInv, RunInv, RunFails, RunAt, RunTo, Ended
<1> QED
  BY <1>1, <1>2, RunStepKeeps DEF IInv, RunInv, RunFails, RunAt, RunTo, Ended

LEMMA MarkFailedKeeps == ASSUME IInv, MarkFailed PROVE IInv'
<1>1. TypeOK'
  BY DEF IInv, TypeOK, MarkFailed, RunAt, RunTo, Ended
<1>2. RunInv'
  BY DEF IInv, RunInv, MarkFailed, RunAt, RunTo, Ended
<1> QED
  BY <1>1, <1>2, RunStepKeeps DEF IInv, RunInv, MarkFailed, RunAt, RunTo, Ended

\* The ring after a push: the new message is the last, and the oldest goes when
\* there is no room.
LEMMA PushKeepsRing ==
    ASSUME TypeOK, RingInv, exec.pc = "run", exec' = exec, sent < MaxMsgs, sent' = sent + 1,
           hub'.buf = Push(sent + 1).buf, hub'.head = Push(sent + 1).head,
           hub'.count = Push(sent + 1).count
    PROVE  RingInv' /\ hub'.buf \in [Slots -> 0..MaxMsgs] /\ hub'.head \in Slots /\ hub'.count \in 0..BufSize
<1> DEFINE h == hub.head
           k == hub.count
           at(x) == (h + x) % BufSize
<1>1. /\ h \in Slots /\ k \in 0..BufSize /\ BufSize \in Nat \ {0} /\ sent \in Nat /\ MaxMsgs \in Nat
      /\ hub.buf \in [Slots -> 0..MaxMsgs] /\ h \in Nat /\ h < BufSize /\ k \in Nat /\ k <= BufSize
  BY HubAssumption DEF TypeOK, HubState, Slots
<1>2. \A x \in 0..BufSize : at(x) = IF h + x < BufSize THEN h + x ELSE h + x - BufSize
  BY <1>1, Wrap
<1>3. \A x \in 0..BufSize : at(x) \in Slots
  <2> SUFFICES ASSUME NEW x \in 0..BufSize PROVE at(x) \in Slots
    OBVIOUS
  <2>1. at(x) = IF h + x < BufSize THEN h + x ELSE h + x - BufSize
    BY <1>2
  <2> HIDE DEF at
  <2> QED
    BY <1>1, <2>1 DEF Slots
<1>4. /\ hub'.buf = [hub.buf EXCEPT ![at(k)] = sent + 1]
      /\ hub'.count = IF k < BufSize THEN k + 1 ELSE k
      /\ hub'.head = IF k < BufSize THEN h ELSE at(1)
  BY DEF Push, TypeOK
<1>5. hub'.buf \in [Slots -> 0..MaxMsgs] /\ hub'.head \in Slots /\ hub'.count \in 0..BufSize
  <2>1. k \in 0..BufSize /\ 1 \in 0..BufSize /\ sent + 1 \in 0..MaxMsgs
    BY <1>1
  <2>2. at(k) \in Slots /\ at(1) \in Slots
    BY <1>3, <2>1
  <2> HIDE DEF at
  <2>3. hub'.buf \in [Slots -> 0..MaxMsgs]
    BY <1>1, <1>4, <2>1, <2>2
  <2>4. hub'.head \in Slots
    BY <1>1, <1>4, <2>2
  <2>5. hub'.count \in 0..BufSize
    BY <1>1, <1>4
  <2> QED
    BY <2>3, <2>4, <2>5
<1>6. k = IF sent < BufSize THEN sent ELSE BufSize
  BY DEF RingInv
<1>7. hub'.count = IF sent + 1 < BufSize THEN sent + 1 ELSE BufSize
  BY <1>1, <1>4, <1>6
<1>8. \A i \in 1..k : hub.buf[at(i - 1)] = sent - k + i
  BY <1>1 DEF RingInv
<1>9. ASSUME NEW i \in 1..hub'.count
      PROVE  hub'.buf[(hub'.head + i - 1) % BufSize] = sent + 1 - hub'.count + i
  <2>1. i \in Nat /\ i >= 1 /\ i <= BufSize
    BY <1>1, <1>4
  <2>2. CASE k < BufSize
    <3>1. (hub'.head + i - 1) % BufSize = at(i - 1) /\ i <= k + 1
      BY <1>1, <1>4, <2>1, <2>2
    <3>2. CASE i = k + 1
      BY <1>1, <1>3, <1>4, <2>2, <3>1, <3>2
    <3>3. CASE i <= k
      <4>1. at(i - 1) # at(k)
        BY <1>1, <1>2, <2>1, <2>2, <3>3
      <4>2. at(i - 1) \in Slots /\ hub'.buf[at(i - 1)] = hub.buf[at(i - 1)]
        BY <1>1, <1>3, <1>4, <2>1, <3>3, <4>1
      <4>3. hub.buf[at(i - 1)] = sent - k + i
        BY <1>8, <2>1, <3>3
      <4>4. hub'.count = k + 1
        BY <1>4, <2>2
      <4> QED
        BY <1>1, <2>1, <3>1, <4>2, <4>3, <4>4
    <3> QED
      BY <1>1, <2>1, <3>1, <3>2, <3>3
  <2>3. CASE k = BufSize
    <3>1. hub'.head = at(1) /\ hub'.count = BufSize /\ at(k) = h
      <4>1. at(k) = IF h + k < BufSize THEN h + k ELSE h + k - BufSize
        BY <1>1, <1>2
      <4> HIDE DEF at
      <4> QED
        BY <1>1, <1>4, <2>3, <4>1
    <3>2. (hub'.head + (i - 1)) % BufSize = at(i)
      <4>1. i - 1 \in 0..BufSize /\ i \in 0..BufSize /\ 1 \in 0..BufSize
        BY <1>1, <2>1
      <4>2. (hub'.head + (i - 1)) % BufSize = IF hub'.head + (i - 1) < BufSize THEN hub'.head + (i - 1)
                                              ELSE hub'.head + (i - 1) - BufSize
        BY <1>5, <4>1, Wrap
      <4>3. at(1) = IF h + 1 < BufSize THEN h + 1 ELSE h + 1 - BufSize
        BY <1>2, <4>1
      <4>4. at(i) = IF h + i < BufSize THEN h + i ELSE h + i - BufSize
        BY <1>2, <4>1
      <4> QED
        BY <1>1, <2>1, <3>1, <4>2, <4>3, <4>4
    <3>3. (hub'.head + i - 1) = hub'.head + (i - 1)
      BY <1>1, <1>5, <2>1 DEF Slots
    <3>4. CASE i = BufSize
      BY <1>1, <1>3, <1>4, <2>3, <3>1, <3>2, <3>3, <3>4
    <3>5. CASE i < BufSize
      <4>0. at(i) = IF h + i < BufSize THEN h + i ELSE h + i - BufSize
        BY <1>1, <1>2, <2>1
      <4> HIDE DEF at
      <4>1. at(i) # at(k) /\ at(i) \in Slots
        <5>1. at(i) # h
          BY <1>1, <2>1, <3>5, <4>0
        <5>2. at(i) \in Slots
          BY <1>3, <2>1
        <5> QED
          BY <3>1, <5>1, <5>2
      <4>2. hub'.buf[at(i)] = hub.buf[at(i)]
        BY <1>1, <1>4, <4>1
      <4>3. i + 1 \in 1..k /\ (i + 1) - 1 = i
        BY <1>1, <2>1, <2>3, <3>5
      <4>4. hub.buf[at(i)] = sent - k + (i + 1)
        BY <1>8, <4>3
      <4> QED
        BY <1>1, <2>1, <2>3, <3>1, <3>2, <3>3, <4>2, <4>4
    <3> QED
      BY <1>1, <2>1, <3>4, <3>5
  <2> QED
    BY <1>1, <2>2, <2>3
<1>10. RingInv'
  <2>1. exec'.pc # "over" /\ (BufSize' = BufSize)
    OBVIOUS
  <2>2. hub'.count = IF exec'.pc = "over" THEN 0
                     ELSE IF sent' < BufSize THEN sent' ELSE BufSize
    BY <1>7, <2>1
  <2>3. ASSUME NEW i \in 1..hub'.count
        PROVE  hub'.buf[(hub'.head + i - 1) % BufSize] = sent' - hub'.count + i
    <3>1. i \in Nat /\ sent \in Nat /\ hub'.count \in Nat
      BY <1>1, <1>5
    <3>2. sent' - hub'.count + i = sent + 1 - hub'.count + i
      BY <3>1
    <3> QED
      BY <1>9, <3>2, Zenon
  <2> QED
    BY <2>2, <2>3 DEF RingInv
<1> QED
  BY <1>5, <1>10

\* A channel with room gets e: what its stream sees grows by e.
LEMMA SentTo ==
    ASSUME TypeOK, NEW s \in Subs, ~Full(s), NEW e \in Events,
           sub'[s].got = sub[s].got, sub'[s].ch = Append(sub[s].ch, e)
    PROVE  /\ Seen(s)' = Append(Seen(s), e)
           /\ sub'[s].ch \in Seq(Events) /\ Len(sub'[s].ch) <= ChanCap
<1>1. sub[s].got \in Seq(Events) /\ sub[s].ch \in Seq(Events)
  BY SeenType
<1>2. Seen(s)' = Append(Seen(s), e)
  <2>1. sub[s].got \o Append(sub[s].ch, e) = Append(sub[s].got \o sub[s].ch, e)
    BY <1>1, SendAppends
  <2> QED
    BY <2>1 DEF Seen
<1>3. Len(sub[s].ch) \in Nat /\ Len(sub[s].ch) < ChanCap /\ ChanCap \in Nat
  BY <1>1, HubAssumption DEF Full
<1> QED
  BY <1>1, <1>2, <1>3

\* publish.
LEMMA PublishKeeps == ASSUME IInv, Publish PROVE IInv'
<1> DEFINE e == Progress(sent + 1)
<1> USE DEF IInv
<1>1. /\ exec.pc = "run" /\ exec' = exec /\ row' = row /\ sent < MaxMsgs /\ sent' = sent + 1
      /\ hub' = [Push(sent + 1) EXCEPT !.subs = Alive] /\ sub' = FanOut(e)
  BY DEF Publish, RunAt
<1>2. sent \in Nat /\ MaxMsgs \in Nat /\ e \in Events /\ sent + 1 \in 0..MaxMsgs
  BY <1>1, HubAssumption DEF TypeOK, Events, Progress
<1>3. /\ hub'.terminal = hub.terminal /\ hub'.subs = Alive
      /\ hub'.buf = Push(sent + 1).buf /\ hub'.head = Push(sent + 1).head
      /\ hub'.count = Push(sent + 1).count
  BY <1>1 DEF Push, TypeOK, HubState
<1>4. RingInv' /\ hub'.buf \in [Slots -> 0..MaxMsgs] /\ hub'.head \in Slots /\ hub'.count \in 0..BufSize
  BY <1>1, <1>3, PushKeepsRing
<1>5. \A s \in Subs :
        /\ s \notin hub.subs => sub'[s] = sub[s] /\ s \notin hub'.subs
        /\ s \in hub.subs /\ Full(s) =>
             sub'[s] = [sub[s] EXCEPT !.open = FALSE, !.cut = TRUE] /\ s \notin hub'.subs
        /\ s \in hub.subs /\ ~Full(s) =>
             sub'[s] = [sub[s] EXCEPT !.ch = Append(sub[s].ch, e)] /\ s \in hub'.subs
  BY <1>1, <1>3 DEF FanOut, Alive
<1>6. ASSUME NEW s \in Subs, s \in hub.subs, ~Full(s)
      PROVE  /\ Seen(s)' = Append(Seen(s), e)
             /\ sub'[s] \in SubState /\ Len(sub'[s].ch) <= ChanCap
             /\ sub'[s].got = sub[s].got /\ sub'[s].pc = sub[s].pc /\ sub'[s].open = sub[s].open
  <2>1. Append(sub[s].ch, e) \in Seq(Events) /\ sub[s] \in SubState
    BY <1>2, SeenType
  <2>2. /\ sub'[s] \in SubState /\ sub'[s].ch = Append(sub[s].ch, e)
        /\ sub'[s].got = sub[s].got /\ sub'[s].pc = sub[s].pc /\ sub'[s].open = sub[s].open
    <3>1. sub'[s] = [sub[s] EXCEPT !.ch = Append(sub[s].ch, e)]
      BY <1>5, <1>6
    <3> DEFINE c == Append(sub[s].ch, e)
    <3>2. c \in Seq(Events)
      BY <2>1
    <3> HIDE DEF c
    <3>3. sub'[s] = [sub[s] EXCEPT !.ch = c]
      BY <3>1 DEF c
    <3>4. /\ sub'[s] \in SubState /\ sub'[s].ch = c
          /\ sub'[s].got = sub[s].got /\ sub'[s].pc = sub[s].pc /\ sub'[s].open = sub[s].open
      BY <2>1, <3>2, <3>3 DEF SubState
    <3> QED
      BY <3>4 DEF c
  <2> QED
    BY <1>2, <1>6, <2>2, SentTo
<1>7. ASSUME NEW s \in Subs, s \notin hub.subs \/ Full(s)
      PROVE  /\ Seen(s)' = Seen(s) /\ sub'[s].ch = sub[s].ch /\ sub'[s].got = sub[s].got
             /\ sub'[s] \in SubState /\ sub'[s].pc = sub[s].pc
             /\ s \notin hub'.subs
  <2>1. /\ sub'[s].ch = sub[s].ch /\ sub'[s].got = sub[s].got /\ sub'[s] \in SubState
        /\ sub'[s].pc = sub[s].pc /\ s \notin hub'.subs
    BY <1>5, <1>7, SeenType, SubCut
  <2> QED
    BY <2>1 DEF Seen
<1>8. TypeOK'
  <2>1. hub' \in HubState
    <3>1. /\ hub' = [exists |-> TRUE, buf |-> hub'.buf, head |-> hub'.head, count |-> hub'.count,
                     subs |-> Alive, terminal |-> hub.terminal]
          /\ Alive \subseteq Subs /\ hub.terminal \in {"none"} \cup Ended
      BY <1>1 DEF Push, TypeOK, HubState, Alive
    <3> QED
      BY <1>4, <3>1, HubRecord
  <2>2. \A s \in Subs : sub'[s] \in SubState /\ Len(sub'[s].ch) <= ChanCap
    BY <1>6, <1>7, SeenType
  <2>3. sub' = [s \in Subs |-> sub'[s]]
    BY <1>1 DEF FanOut
  <2>4. sent' \in 0..MaxMsgs
    BY <1>1, <1>2
  <2>5. sub' \in [Subs -> SubState]
    BY <2>2, <2>3
  <2> QED
    BY <1>1, <2>1, <2>2, <2>4, <2>5 DEF TypeOK
<1>9. RunInv' /\ HubInv'
  BY <1>1, <1>3 DEF RunInv, HubInv
<1>10. ASSUME NEW s \in Subs, s \in hub.subs, ~Full(s)
       PROVE  StreamOK(s)' /\ \A i \in 1..Len(Seen(s)') : Seen(s)'[i].kind = "success" => Justified(sub[s].pc)
  <2>1. StreamOK(s) /\ Seen(s) \in Seq(Events)
    BY SeenType DEF StreamInv
  <2>2. Follows(Seen(s), e)
    BY <1>1, <1>2, <1>10, <2>1 DEF StreamOK, Follows, Progress
  <2>3. /\ WithoutGaps(Append(Seen(s), e)) /\ Append(Seen(s), e) # <<>>
        /\ Append(Seen(s), e)[Len(Append(Seen(s), e))] = e
        /\ \A i \in 1..Len(Append(Seen(s), e)) :
             Append(Seen(s), e)[i] = e \/ \E j \in 1..Len(Seen(s)) : Append(Seen(s), e)[i] = Seen(s)[j]
    BY <1>2, <2>1, <2>2, AppendWithoutGaps DEF StreamOK
  <2>4. StreamOK(s)'
    <3>1. sub'[s].pc = "stream"
      BY <1>6, <1>10, <2>1 DEF StreamOK
    <3>2. WithoutGaps(Seen(s))'
      BY <1>6, <1>10, <2>3 DEF WithoutGaps
    <3>3. (Seen(s) # <<>> /\ Seen(s)[Len(Seen(s))] = Progress(sent))'
      BY <1>1, <1>6, <1>10, <2>3 DEF Progress
    <3>4. ~(exec'.pc = "over" \/ sent' = 0)
      BY <1>1, <1>2
    <3> QED
      BY <3>1, <3>2, <3>3, <3>4 DEF StreamOK
  <2>5. e.kind # "success"
    BY DEF Progress
  <2> QED
    BY <1>6, <1>10, <2>3, <2>4, <2>5 DEF SuccessInv
<1>11. ASSUME NEW s \in Subs, s \notin hub.subs \/ Full(s)
       PROVE  StreamOK(s)' /\ \A i \in 1..Len(Seen(s)') : Seen(s)'[i].kind = "success" => Justified(sub[s].pc)
  BY <1>7, <1>11 DEF StreamInv, StreamOK, SuccessInv, WithoutGaps
<1>12. StreamInv' /\ SuccessInv'
  <2>1. \A s \in Subs : sub'[s].pc = sub[s].pc
    BY <1>6, <1>7
  <2> QED
    BY <1>1, <1>10, <1>11, <2>1 DEF StreamInv, SuccessInv, Justified
<1>13. ClosedExactlyOnce'
  <2> SUFFICES ASSUME NEW s \in Subs PROVE s \in hub'.subs <=> sub'[s].open
    BY DEF ClosedExactlyOnce
  <2>1. s \in hub.subs <=> sub[s].open
    BY DEF ClosedExactlyOnce
  <2>2. CASE s \notin hub.subs
    BY <1>5, <2>1, <2>2
  <2>3. CASE s \in hub.subs /\ Full(s)
    <3>1. sub'[s] = [sub[s] EXCEPT !.open = FALSE, !.cut = TRUE] /\ s \notin hub'.subs
      BY <1>5, <2>3
    <3>2. sub'[s].open = FALSE
      BY <3>1, SeenType, SubCut
    <3> QED
      BY <3>1, <3>2
  <2>4. CASE s \in hub.subs /\ ~Full(s)
    BY <1>5, <1>6, <2>1, <2>4
  <2> QED
    BY <2>2, <2>3, <2>4
<1> QED
  BY <1>4, <1>8, <1>9, <1>12, <1>13

\* complete.
LEMMA CompleteKeeps == ASSUME IInv, Complete PROVE IInv'
<1> DEFINE st == exec.result
           e == Terminal(st)
<1> USE DEF IInv
<1>1. /\ exec.pc = "complete" /\ exec' = [pc |-> "drain", result |-> st] /\ UNCHANGED <<row, sent>>
      /\ hub' = [hub EXCEPT !.exists = TRUE, !.terminal = st, !.subs = {}] /\ sub' = Finish(st)
  BY DEF Complete, RunAt, RunTo
<1>2. st \in Ended /\ e \in Events /\ e.kind = st
  BY <1>1, HubAssumption DEF RunInv, Events, Terminal, TypeOK
<1>3. /\ hub'.terminal = st /\ hub'.subs = {} /\ hub'.buf = hub.buf /\ hub'.head = hub.head
      /\ hub'.count = hub.count /\ hub' \in HubState
  BY <1>1, <1>2 DEF TypeOK, HubState
<1>4. \A s \in Subs :
        /\ s \notin hub.subs => sub'[s] = sub[s]
        /\ s \in hub.subs =>
             sub'[s] = [sub[s] EXCEPT !.open = FALSE,
                                      !.ch = IF Full(s) THEN sub[s].ch ELSE Append(sub[s].ch, e)]
  BY <1>1 DEF Finish
<1>5. ASSUME NEW s \in Subs
      PROVE  /\ sub'[s] \in SubState /\ Len(sub'[s].ch) <= ChanCap /\ ~sub'[s].open
             /\ sub'[s].pc = sub[s].pc /\ sub'[s].got = sub[s].got
             /\ s \in hub.subs /\ ~Full(s) => Seen(s)' = Append(Seen(s), e)
             /\ s \notin hub.subs \/ Full(s) => Seen(s)' = Seen(s) /\ sub'[s].ch = sub[s].ch
  <2> DEFINE c == IF Full(s) THEN sub[s].ch ELSE Append(sub[s].ch, e)
  <2>1. /\ sub[s] \in SubState /\ c \in Seq(Events)
        /\ Len(sub[s].ch) <= ChanCap /\ (s \in hub.subs <=> sub[s].open)
    BY <1>2, SeenType DEF ClosedExactlyOnce
  <2>2. CASE s \notin hub.subs
    BY <1>4, <2>1, <2>2 DEF Seen
  <2>3. CASE s \in hub.subs
    <3>1. sub'[s] = [sub[s] EXCEPT !.open = FALSE, !.ch = c]
      BY <1>4, <2>3
    <3>2. /\ sub'[s] \in SubState /\ ~sub'[s].open /\ sub'[s].ch = c
          /\ sub'[s].pc = sub[s].pc /\ sub'[s].got = sub[s].got
      <4> HIDE DEF c
      <4> QED
        BY <2>1, <3>1 DEF SubState
    <3>3. CASE Full(s)
      BY <2>1, <3>2, <3>3 DEF Seen
    <3>4. CASE ~Full(s)
      BY <1>2, <2>3, <3>2, <3>4, SentTo
    <3> QED
      BY <3>3, <3>4
  <2> QED
    BY <2>2, <2>3
<1>6. TypeOK'
  <2>1. sub' = [s \in Subs |-> sub'[s]]
    BY <1>1 DEF Finish
  <2>2. sub' \in [Subs -> SubState]
    BY <1>5, <2>1
  <2> QED
    BY <1>1, <1>2, <1>3, <1>5, <2>2 DEF TypeOK
<1>7. RunInv' /\ HubInv' /\ RingInv'
  BY <1>1, <1>2, <1>3 DEF RunInv, HubInv, RingInv
<1>8. ClosedExactlyOnce'
  BY <1>3, <1>5 DEF ClosedExactlyOnce
<1>9. ASSUME NEW s \in Subs
      PROVE  StreamOK(s)' /\ \A i \in 1..Len(Seen(s)') : Seen(s)'[i].kind = "success" => Justified(sub[s].pc)
  <2>1. StreamOK(s) /\ Seen(s) \in Seq(Events) /\ s \notin hub'.subs
    BY <1>3, SeenType DEF StreamInv
  <2>2. CASE s \in hub.subs /\ ~Full(s)
    <3>1. Follows(Seen(s), e)
      BY <1>1, <1>2, <2>1, <2>2 DEF StreamOK, Follows, Progress, Ended
    <3>2. /\ WithoutGaps(Append(Seen(s), e))
          /\ \A i \in 1..Len(Append(Seen(s), e)) :
               Append(Seen(s), e)[i] = e \/ \E j \in 1..Len(Seen(s)) : Append(Seen(s), e)[i] = Seen(s)[j]
      BY <1>2, <2>1, <3>1, AppendWithoutGaps DEF StreamOK
    <3>3. e.kind = "success" => Justified(sub[s].pc)
      BY <1>2 DEF Justified
    <3>4. sub'[s].pc = "stream"
      BY <1>5, <2>1, <2>2 DEF StreamOK
    <3>5. WithoutGaps(Seen(s))'
      BY <1>5, <2>2, <3>2 DEF WithoutGaps
    <3>6. StreamOK(s)'
      BY <2>1, <3>4, <3>5 DEF StreamOK
    <3> QED
      BY <1>5, <2>2, <3>2, <3>3, <3>6 DEF SuccessInv
  <2>3. CASE s \notin hub.subs \/ Full(s)
    BY <1>5, <2>1, <2>3 DEF StreamOK, SuccessInv, WithoutGaps
  <2> QED
    BY <2>2, <2>3
<1>10. StreamInv' /\ SuccessInv'
  BY <1>1, <1>5, <1>9 DEF StreamInv, SuccessInv, Justified
<1> QED
  BY <1>6, <1>7, <1>8, <1>10

\* The cleanup finds no subscriber.
LEMMA CleanupKeeps == ASSUME IInv, Cleanup PROVE IInv'
<1> USE DEF IInv
<1>1. /\ exec.pc = "drain" /\ exec' = [pc |-> "over", result |-> exec.result]
      /\ hub' = NoBroadcaster /\ UNCHANGED <<row, sent, sub>> /\ hub.subs = {}
  BY DEF Cleanup, RunAt, RunTo, HubInv
<1>2. hub' \in HubState /\ hub'.subs = {} /\ hub'.terminal = "none" /\ hub'.count = 0
  BY <1>1, HubAssumption DEF NoBroadcaster, HubState, Slots, Ended
<1>3. TypeOK'
  BY <1>1, <1>2 DEF TypeOK
<1>4. RunInv' /\ HubInv' /\ RingInv'
  BY <1>1, <1>2 DEF RunInv, HubInv, RingInv
<1>5. StreamInv' /\ SuccessInv'
  BY <1>1, <1>2 DEF StreamInv, StreamOK, SuccessInv, Justified, Seen
<1>6. ClosedExactlyOnce'
  BY <1>1, <1>2 DEF ClosedExactlyOnce
<1> QED
  BY <1>3, <1>4, <1>5, <1>6

-----------------------------------------------------------------------------
(* The streams. *)

\* A step of one stream, which may register it or take it off the list.
LEMMA StreamStepKeeps ==
    ASSUME IInv, NEW s \in Subs, NEW x \in SubState, sub' = [sub EXCEPT ![s] = x],
           Len(x.ch) <= ChanCap, UNCHANGED <<row, exec, sent>>,
           NEW S \in SUBSET Subs,
           hub' = hub \/ hub' = [hub EXCEPT !.subs = S] \/ hub' = [hub EXCEPT !.exists = TRUE, !.subs = S],
           \A t \in Subs \ {s} : t \in hub'.subs <=> t \in hub.subs,
           s \in hub'.subs <=> x.open,
           exec.pc = "drain" => s \notin hub'.subs,
           StreamOK(s)',
           \A i \in 1..Len(x.got \o x.ch) : (x.got \o x.ch)[i].kind = "success" => Justified(x.pc)
    PROVE  IInv'
<1> USE DEF IInv
<1>1. /\ hub' \in HubState /\ hub'.terminal = hub.terminal /\ hub'.buf = hub.buf
      /\ hub'.head = hub.head /\ hub'.count = hub.count
  BY DEF TypeOK, HubState
<1>2. sub'[s] = x /\ \A t \in Subs \ {s} : sub'[t] = sub[t]
  BY DEF TypeOK
<1>3. TypeOK'
  BY <1>1, <1>2 DEF TypeOK
<1>4. RunInv' /\ RingInv'
  BY <1>1 DEF RunInv, RingInv
<1>5. HubInv'
  BY <1>1, <1>3 DEF HubInv, TypeOK, HubState
<1>6. ASSUME NEW t \in Subs \ {s} PROVE StreamOK(t)'
  <2>1. StreamOK(t) /\ Seen(t)' = Seen(t) /\ sub'[t] = sub[t]
    BY <1>2 DEF StreamInv, Seen
  <2> QED
    BY <2>1 DEF StreamOK, WithoutGaps
<1>7. StreamInv'
  BY <1>6 DEF StreamInv
<1>8. ClosedExactlyOnce'
  BY <1>2 DEF ClosedExactlyOnce
<1>9. SuccessInv'
  <2> SUFFICES ASSUME NEW t \in Subs
               PROVE  \A i \in 1..Len(Seen(t)') : Seen(t)'[i].kind = "success" => Justified(sub'[t].pc)
    BY DEF SuccessInv, Justified
  <2>1. CASE t = s
    BY <1>2, <2>1 DEF Seen
  <2>2. CASE t # s
    BY <1>2, <2>2 DEF Seen, SuccessInv
  <2> QED
    BY <2>1, <2>2
<1> QED
  BY <1>3, <1>4, <1>5, <1>7, <1>8, <1>9

\* One terminal event, or nothing, has no gap.
LEMMA ShortWithoutGaps ==
    ASSUME NEW q \in Seq(Events), Len(q) <= 1
    PROVE  WithoutGaps(q)
BY DEF WithoutGaps

\* StreamRunProgress reads the row.
LEMMA OpenKeeps == ASSUME IInv, NEW s \in Subs, Open(s) PROVE IInv'
<1> USE DEF IInv
<1> DEFINE x == IF row \in Ended
                THEN [sub[s] EXCEPT !.pc = "told", !.got = <<Terminal(row)>>]
                ELSE [sub[s] EXCEPT !.pc = "checked"]
<1>1. /\ sub[s].pc = "idle" /\ sub' = [sub EXCEPT ![s] = x] /\ UNCHANGED <<row, exec, sent, hub>>
      /\ sub[s] \in SubState /\ sub[s].got = <<>> /\ sub[s].ch = <<>> /\ s \notin hub.subs
      /\ ~sub[s].open
  BY SeenType DEF Open, StreamInv, StreamOK, ClosedExactlyOnce
<1>2. row \in Ended => <<Terminal(row)>> \in Seq(Events)
  BY HubAssumption DEF Events, Terminal
<1>3. /\ x \in SubState /\ x.ch = <<>> /\ ~x.open /\ x.pc \in {"told", "checked"}
      /\ x.pc = "told" => row \in Ended /\ x.got = <<Terminal(row)>>
      /\ x.pc = "checked" => x.got = <<>>
  BY <1>1, <1>2 DEF SubState
<1>4. sub'[s] = x
  BY <1>1 DEF TypeOK
<1> HIDE DEF x
<1>5. /\ x.got \in Seq(Events) /\ Len(x.got) <= 1 /\ x.got \o x.ch = x.got
      /\ \A i \in 1..Len(x.got) : x.got[i] = Terminal(row)
  <2>1. x.got \in Seq(Events) /\ x.got \o <<>> = x.got
    BY <1>3, ConcatEmpty DEF SubState
  <2>2. x.got = <<>> \/ x.got = <<Terminal(row)>>
    BY <1>3
  <2>3. Len(x.got) <= 1 /\ \A i \in 1..Len(x.got) : x.got[i] = Terminal(row)
    <3> DEFINE z == Terminal(row)
    <3> HIDE DEF z
    <3>1. CASE x.got = <<>>
      BY <3>1
    <3>2. CASE x.got = <<z>>
      BY <3>2 DEF z
    <3> QED
      BY <2>2, <3>1, <3>2 DEF z
  <2> QED
    BY <1>3, <2>1, <2>3
<1>6. StreamOK(s)'
  <2>1. WithoutGaps(x.got)
    BY <1>5, ShortWithoutGaps
  <2>2. Seen(s)' = x.got
    BY <1>4, <1>5 DEF Seen
  <2>3. WithoutGaps(Seen(s))'
    BY <2>1, <2>2 DEF WithoutGaps
  <2> QED
    BY <1>1, <1>3, <1>4, <2>3 DEF StreamOK
<1>7. \A i \in 1..Len(x.got \o x.ch) : (x.got \o x.ch)[i].kind = "success" => Justified(x.pc)
  <2>1. CASE x.pc = "told"
    BY <1>5, <2>1 DEF Terminal, Justified
  <2>2. CASE x.pc = "checked"
    <3>1. Len(x.got) = 0
      BY <1>3, <2>2
    <3> QED
      BY <1>5, <3>1
  <2> QED
    BY <1>3, <2>1, <2>2
<1>8. Len(x.ch) <= ChanCap
  BY <1>3, HubAssumption
<1>9. hub.subs \in SUBSET Subs /\ hub'.subs = hub.subs
  BY <1>1 DEF TypeOK, HubState
<1> QED
  BY <1>1, <1>3, <1>6, <1>7, <1>8, <1>9, StreamStepKeeps

\* What subscribe sends into a new channel: the latest messages without a gap.
LEMMA ReplayOfRing ==
    ASSUME IInv
    PROVE  /\ Replay \in Seq(Events) /\ Len(Replay) = hub.count /\ hub.count <= ChanCap
           /\ \A i \in 1..hub.count : Replay[i] = Progress(sent - hub.count + i)
           /\ WithoutGaps(Replay)
<1> USE DEF IInv
<1> DEFINE k == hub.count
<1>1. k \in Nat /\ k <= BufSize /\ BufSize \in Nat /\ ChanCap \in Nat /\ k <= ChanCap
  BY HubAssumption DEF TypeOK, HubState
<1>2. sent \in 0..MaxMsgs /\ MaxMsgs \in Nat /\ k <= sent
  BY HubAssumption DEF TypeOK, RingInv
<1>3. Replay = [i \in 1..k |-> Progress(sent - k + i)]
  BY DEF Replay, RingInv
<1>4. \A i \in 1..k : Progress(sent - k + i) \in Events
  BY <1>1, <1>2 DEF Progress, Events
<1>5. Replay \in Seq(Events) /\ Len(Replay) = k
  BY <1>1, <1>3, <1>4
<1>6. WithoutGaps(Replay)
  <2> SUFFICES ASSUME NEW i \in 1..(k - 1)
               PROVE  /\ Replay[i].kind = "progress"
                      /\ Replay[i + 1].kind = "progress" => Replay[i + 1].n = Replay[i].n + 1
    BY <1>5 DEF WithoutGaps
  <2>1. i \in 1..k /\ i + 1 \in 1..k
    BY <1>1
  <2>2. Replay[i] = Progress(sent - k + i) /\ Replay[i + 1] = Progress(sent - k + (i + 1))
    BY <1>3, <2>1
  <2>3. sent - k + (i + 1) = sent - k + i + 1
    BY <1>1, <1>2, <2>1
  <2> QED
    BY <2>2, <2>3 DEF Progress
<1> QED
  BY <1>1, <1>3, <1>5, <1>6

\* Hub.Subscribe.
LEMMA SubscribeKeeps == ASSUME IInv, NEW s \in Subs, Subscribe(s) PROVE IInv'
<1> USE DEF IInv
<1>1. /\ sub[s].pc = "checked" /\ UNCHANGED <<row, exec, sent>>
      /\ sub[s] \in SubState /\ sub[s].got = <<>> /\ sub[s].ch = <<>> /\ s \notin hub.subs
      /\ ~sub[s].open
  BY SeenType DEF Subscribe, StreamInv, StreamOK, ClosedExactlyOnce
<1>2. hub.subs \in SUBSET Subs /\ hub.terminal \in {"none"} \cup Ended
  BY DEF TypeOK, HubState
<1>3. CASE hub.terminal # "none"
  <2> DEFINE c == <<Terminal(hub.terminal)>>
             x == [sub[s] EXCEPT !.pc = "stream", !.ch = c]
  <2>1. c \in Seq(Events) /\ Len(c) = 1 /\ c[1].kind = hub.terminal /\ <<>> \o c = c
    BY <1>2, <1>3, HubAssumption, ConcatEmpty DEF Events, Terminal
  <2>2. sub' = [sub EXCEPT ![s] = x] /\ hub' = hub
    BY <1>3 DEF Subscribe
  <2> HIDE DEF c
  <2>3. x \in SubState /\ x.pc = "stream" /\ x.ch = c /\ x.got = <<>> /\ ~x.open
    BY <1>1, <2>1 DEF SubState
  <2>4. sub'[s] = x
    BY <2>2 DEF TypeOK
  <2> HIDE DEF x
  <2>5. hub.terminal = "success" => Justified(x.pc)
    BY <1>3 DEF HubInv, Justified
  <2>6. StreamOK(s)'
    <3>1. WithoutGaps(c) /\ Seen(s)' = c
      <4>1. WithoutGaps(c)
        <5>1. Len(c) <= 1
          BY <2>1
        <5> QED
          BY <2>1, <5>1, ShortWithoutGaps, Zenon
      <4>2. Seen(s)' = <<>> \o c
        BY <2>3, <2>4 DEF Seen
      <4> QED
        BY <2>1, <4>1, <4>2
    <3>2. WithoutGaps(Seen(s))'
      BY <3>1 DEF WithoutGaps
    <3> QED
      BY <1>1, <2>2, <2>3, <2>4, <3>2 DEF StreamOK
  <2>7. Len(x.ch) <= ChanCap
    <3>1. ChanCap >= 1
      BY HubAssumption
    <3> QED
      BY <2>1, <2>3, <3>1
  <2>8. \A i \in 1..Len(x.got \o x.ch) : (x.got \o x.ch)[i].kind = "success" => Justified(x.pc)
    <3>1. x.got \o x.ch = c
      BY <2>1, <2>3
    <3>2. \A i \in 1..Len(c) : c[i].kind = "success" => Justified(x.pc)
      BY <2>1, <2>5
    <3> QED
      BY <3>1, <3>2
  <2> QED
    BY <1>1, <1>2, <2>2, <2>3, <2>6, <2>7, <2>8, StreamStepKeeps
<1>4. CASE hub.terminal = "none"
  <2> DEFINE c == Replay
             S == hub.subs \cup {s}
             x == [sub[s] EXCEPT !.pc = "stream", !.open = TRUE, !.ch = c]
  <2>1. /\ c \in Seq(Events) /\ Len(c) = hub.count /\ hub.count <= ChanCap /\ WithoutGaps(c)
        /\ \A i \in 1..hub.count : c[i] = Progress(sent - hub.count + i)
    BY ReplayOfRing
  <2>2. sub' = [sub EXCEPT ![s] = x] /\ hub' = [hub EXCEPT !.exists = TRUE, !.subs = S]
    BY <1>4 DEF Subscribe
  <2>3. S \in SUBSET Subs /\ hub'.subs = S /\ s \in S /\ \A t \in Subs \ {s} : t \in S <=> t \in hub.subs
    BY <1>2, <2>2 DEF TypeOK, HubState
  <2> HIDE DEF c, S
  <2>4. x \in SubState /\ x.pc = "stream" /\ x.ch = c /\ x.got = <<>> /\ x.open
    BY <1>1, <2>1 DEF SubState
  <2>5. sub'[s] = x
    BY <2>2 DEF TypeOK
  <2> HIDE DEF x
  <2>6. Seen(s)' = c /\ x.got \o x.ch = c
    <3>1. <<>> \o c = c
      BY <2>1, ConcatEmpty
    <3> QED
      BY <2>4, <2>5, <3>1 DEF Seen
  <2>7. exec.pc # "drain"
    BY <1>4 DEF HubInv, RunInv, Ended
  <2>8. exec.pc = "over" \/ sent = 0 => c = <<>>
    BY <2>1, HubAssumption DEF RingInv
  <2>9. exec.pc # "over" /\ sent # 0 => c # <<>> /\ c[Len(c)] = Progress(sent)
    <3> SUFFICES ASSUME exec.pc # "over", sent # 0 PROVE c # <<>> /\ c[Len(c)] = Progress(sent)
      OBVIOUS
    <3>1. hub.count \in Nat /\ sent \in Nat /\ hub.count >= 1
      BY HubAssumption DEF RingInv, TypeOK, HubState
    <3>2. hub.count \in 1..hub.count /\ sent - hub.count + hub.count = sent
      BY <3>1
    <3>3. c[hub.count] = Progress(sent)
      BY <2>1, <3>2
    <3> QED
      BY <2>1, <3>1, <3>3
  <2>10. StreamOK(s)'
    <3>1. WithoutGaps(Seen(s))'
      BY <2>1, <2>6 DEF WithoutGaps
    <3>2. IF exec'.pc = "over" \/ sent' = 0 THEN Seen(s)' = <<>>
          ELSE Seen(s)' # <<>> /\ Seen(s)'[Len(Seen(s)')] = Progress(sent')
      BY <1>1, <2>6, <2>8, <2>9
    <3> QED
      BY <2>4, <2>5, <3>1, <3>2 DEF StreamOK
  <2>11. \A i \in 1..Len(c) : c[i].kind = "progress"
    <3>1. \A n : Progress(n).kind = "progress"
      BY DEF Progress
    <3> QED
      BY <2>1, <3>1
  <2>12. \A i \in 1..Len(x.got \o x.ch) : (x.got \o x.ch)[i].kind = "success" => Justified(x.pc)
    BY <2>6, <2>11
  <2>13. Len(x.ch) <= ChanCap
    BY <2>1, <2>4
  <2> QED
    BY <1>1, <2>2, <2>3, <2>4, <2>7, <2>10, <2>12, <2>13, StreamStepKeeps
<1> QED
  BY <1>3, <1>4

\* The deferred unsub of a stream that returns with the first of what it saw.
LEMMA ReturnKeeps ==
    ASSUME IInv, NEW s \in Subs, NEW got \in Seq(Events), NEW cut \in BOOLEAN, Return(s, got, cut),
           UNCHANGED <<row, exec, sent>>, sub[s].pc = "stream",
           Len(got) <= Len(Seen(s)), \A i \in 1..Len(got) : got[i] = Seen(s)[i]
    PROVE  IInv'
<1> USE DEF IInv
<1> DEFINE x == [sub[s] EXCEPT !.pc = "done", !.ch = <<>>, !.open = FALSE, !.got = got, !.cut = cut]
           S == hub.subs \ {s}
<1>1. /\ sub' = [sub EXCEPT ![s] = x] /\ hub' = [hub EXCEPT !.subs = S]
      /\ sub[s] \in SubState /\ Seen(s) \in Seq(Events) /\ WithoutGaps(Seen(s))
  BY SeenType DEF Return, StreamInv, StreamOK
<1>2. /\ S \in SUBSET Subs /\ hub'.subs = S /\ s \notin S
      /\ \A t \in Subs \ {s} : t \in S <=> t \in hub.subs
  BY <1>1 DEF TypeOK, HubState
<1>3. x \in SubState /\ x.pc = "done" /\ x.ch = <<>> /\ ~x.open /\ x.got = got
  <2>1. <<>> \in Seq(Events)
    OBVIOUS
  <2> DEFINE empty == <<>>
  <2>2. x = [sub[s] EXCEPT !.pc = "done", !.ch = empty, !.open = FALSE, !.got = got, !.cut = cut]
    OBVIOUS
  <2>3. empty \in Seq(Events)
    BY <2>1
  <2> HIDE DEF x, empty
  <2>4. x \in SubState /\ x.pc = "done" /\ x.ch = empty /\ ~x.open /\ x.got = got
    BY <1>1, <2>2, <2>3 DEF SubState
  <2> QED
    BY <2>4 DEF empty
<1>4. sub'[s] = x
  BY <1>1 DEF TypeOK
<1> HIDE DEF x, S
<1>5. Seen(s)' = got /\ x.got \o x.ch = got
  <2>1. got \o <<>> = got
    BY ConcatEmpty
  <2> QED
    BY <1>3, <1>4, <2>1 DEF Seen
<1>6. WithoutGaps(got)
  BY <1>1, PrefixWithoutGaps
<1>7. StreamOK(s)'
  <2>1. WithoutGaps(Seen(s))'
    BY <1>5, <1>6 DEF WithoutGaps
  <2> QED
    BY <1>2, <1>3, <1>4, <2>1 DEF StreamOK
<1>8. \A i \in 1..Len(x.got \o x.ch) : (x.got \o x.ch)[i].kind = "success" => Justified(x.pc)
  <2> SUFFICES ASSUME NEW i \in 1..Len(got), got[i].kind = "success" PROVE Justified(x.pc)
    BY <1>5
  <2>1. i \in 1..Len(Seen(s)) /\ Seen(s)[i].kind = "success"
    BY <1>1
  <2>2. Justified(sub[s].pc)
    BY <2>1 DEF SuccessInv
  <2> QED
    BY <2>2 DEF Justified
<1>9. Len(x.ch) <= ChanCap
  BY <1>3, HubAssumption
<1> QED
  BY <1>1, <1>2, <1>3, <1>7, <1>8, <1>9, StreamStepKeeps

\* streamProgressEvents.
LEMMA ReceiveKeeps == ASSUME IInv, NEW s \in Subs, Receive(s) PROVE IInv'
<1> USE DEF IInv
<1> DEFINE got == sub[s].got
           ch == sub[s].ch
           e == Head(ch)
<1>1. /\ sub[s].pc = "stream" /\ UNCHANGED <<row, exec, sent>> /\ sub[s] \in SubState
      /\ got \in Seq(Events) /\ ch \in Seq(Events) /\ Seen(s) \in Seq(Events) /\ Len(ch) <= ChanCap
      /\ sub[s].cut \in BOOLEAN /\ Seen(s) = got \o ch
  BY SeenType DEF Receive, Seen, SubState
<1>2. CASE ch = <<>> /\ Return(s, got, sub[s].cut)
  <2>1. Len(got) <= Len(Seen(s)) /\ \A i \in 1..Len(got) : got[i] = Seen(s)[i]
    <3> HIDE DEF IInv
    <3> QED
      BY <1>1, GotFirst, ZenonT(60)
  <2> QED
    BY <1>1, <1>2, <2>1, ReturnKeeps
<1>3. CASE ch # <<>> /\ Return(s, Append(got, e), sub[s].cut)
  <2> DEFINE g == Append(got, e)
  <2>1. g \in Seq(Events) /\ Len(g) <= Len(Seen(s)) /\ \A i \in 1..Len(g) : g[i] = Seen(s)[i]
    <3>1. Append(got, Head(ch)) \in Seq(Events)
      BY <1>1, <1>3, ReceiveKeepsSeen
    <3>2. /\ Len(Append(got, Head(ch))) <= Len(got \o ch)
          /\ \A i \in 1..Len(Append(got, Head(ch))) : Append(got, Head(ch))[i] = (got \o ch)[i]
      BY <1>1, <1>3, GotFirst
    <3> QED
      BY <1>1, <3>1, <3>2, Zenon
  <2> QED
    BY <1>1, <1>3, <2>1, ReturnKeeps
<1>4. CASE /\ ch # <<>> /\ sub' = [sub EXCEPT ![s].ch = Tail(@), ![s].got = Append(@, e)]
           /\ UNCHANGED hub
  <2> DEFINE g == Append(got, e)
             c == Tail(ch)
             x == [sub[s] EXCEPT !.ch = c, !.got = g]
  <2>1. g \in Seq(Events) /\ c \in Seq(Events) /\ g \o c = Seen(s) /\ Len(c) <= ChanCap
    <3>1. g \in Seq(Events) /\ c \in Seq(Events) /\ g \o c = Seen(s)
      BY <1>1, <1>4, ReceiveKeepsSeen
    <3>2. Len(c) <= Len(ch) /\ Len(c) \in Nat /\ Len(ch) \in Nat
      BY <1>1, <1>4
    <3>3. ChanCap \in Nat
      BY HubAssumption
    <3>4. Len(c) <= ChanCap
      <4> HIDE DEF c, ch
      <4> QED
        BY <1>1, <3>2, <3>3
    <3> QED
      BY <3>1, <3>4
  <2>2. sub' = [sub EXCEPT ![s] = x] /\ sub'[s] = x
    BY <1>1, <1>4 DEF TypeOK, SubState
  <2> HIDE DEF g, c
  <2>3. x \in SubState /\ x.pc = "stream" /\ x.ch = c /\ x.got = g /\ x.open = sub[s].open
    BY <1>1, <2>1 DEF SubState
  <2> HIDE DEF x
  <2>4. Seen(s)' = Seen(s) /\ x.got \o x.ch = Seen(s)
    BY <2>1, <2>2, <2>3 DEF Seen
  <2>5. StreamOK(s)'
    <3>1. StreamOK(s)
      BY DEF StreamInv
    <3> QED
      BY <1>1, <1>4, <2>2, <2>3, <2>4, <3>1 DEF StreamOK, WithoutGaps
  <2>6. \A i \in 1..Len(x.got \o x.ch) : (x.got \o x.ch)[i].kind = "success" => Justified(x.pc)
    BY <1>1, <2>3, <2>4 DEF SuccessInv
  <2>7. /\ hub.subs \in SUBSET Subs /\ hub'.subs = hub.subs /\ (s \in hub.subs <=> sub[s].open)
        /\ exec.pc = "drain" => s \notin hub.subs
    BY <1>4 DEF TypeOK, HubState, ClosedExactlyOnce, HubInv
  <2>8. /\ Len(x.ch) <= ChanCap /\ sub' = [sub EXCEPT ![s] = x] /\ hub' = hub /\ UNCHANGED <<row, exec, sent>>
        /\ s \in hub'.subs <=> x.open
        /\ \A t \in Subs \ {s} : t \in hub'.subs <=> t \in hub.subs
        /\ exec.pc = "drain" => s \notin hub'.subs
    BY <1>1, <1>4, <2>1, <2>2, <2>3, <2>7
  <2> HIDE DEF IInv
  <2> QED
    BY <2>3, <2>5, <2>6, <2>7, <2>8, StreamStepKeeps
<1> QED
  BY <1>2, <1>3, <1>4 DEF Receive

\* The request's context is cancelled.
LEMMA DisconnectKeeps == ASSUME IInv, NEW s \in Subs, Disconnect(s) PROVE IInv'
<1>1. /\ sub[s].got \in Seq(Events) /\ sub[s].ch \in Seq(Events) /\ Seen(s) = sub[s].got \o sub[s].ch
  BY SeenType DEF IInv, Seen
<1>2. Len(sub[s].got) <= Len(Seen(s)) /\ \A i \in 1..Len(sub[s].got) : sub[s].got[i] = Seen(s)[i]
  BY <1>1, GotFirst
<1>3. Return(s, sub[s].got, TRUE) /\ UNCHANGED <<row, exec, sent>> /\ sub[s].pc = "stream"
  BY DEF Disconnect
<1> QED
  BY <1>1, <1>2, <1>3, ReturnKeeps

-----------------------------------------------------------------------------
(* The theorems. *)

LEMMA InitEstablishes == Init => IInv
<1> SUFFICES ASSUME Init PROVE IInv
  OBVIOUS
<1> USE DEF Init
<1>1. hub \in HubState /\ hub.subs = {} /\ hub.terminal = "none" /\ hub.count = 0
  BY HubAssumption DEF NoBroadcaster, HubState, Slots
<1>2. /\ IdleSub \in SubState /\ IdleSub.got = <<>> /\ IdleSub.ch = <<>> /\ ~IdleSub.open
      /\ IdleSub.got \o IdleSub.ch = <<>>
  BY DEF IdleSub, SubState
<1> HIDE DEF Init
<1>3. \A s \in Subs : sub[s] = IdleSub
  BY DEF Init
<1>4. \A s \in Subs : Seen(s) = <<>>
  BY <1>2, <1>3 DEF Seen
<1>5. TypeOK
  BY <1>1, <1>2, HubAssumption DEF Init, TypeOK, Ended
<1>6. RunInv /\ HubInv /\ RingInv
  BY <1>1, HubAssumption DEF Init, RunInv, HubInv, RingInv, Ended
<1>7. StreamInv
  <2>1. \A s \in Subs : WithoutGaps(Seen(s))
    <3>1. <<>> \in Seq(Events) /\ Len(<<>>) <= 1
      OBVIOUS
    <3>2. WithoutGaps(<<>>)
      BY <3>1, ShortWithoutGaps, Zenon
    <3> QED
      BY <1>4, <3>2
  <2> QED
    BY <1>1, <1>2, <1>3, <2>1 DEF StreamInv, StreamOK
<1>8. ClosedExactlyOnce /\ SuccessInv
  BY <1>1, <1>2, <1>3, <1>4 DEF ClosedExactlyOnce, SuccessInv
<1> QED
  BY <1>5, <1>6, <1>7, <1>8 DEF IInv

LEMMA NextKeeps == IInv /\ [Next]_vars => IInv'
<1> SUFFICES ASSUME IInv, [Next]_vars PROVE IInv'
  OBVIOUS
<1>1. CASE RunStep
  BY <1>1, EnqueueKeeps, StartKeeps, MarkReadyKeeps, RunFailsKeeps, MarkFailedKeeps,
     CompleteKeeps, CleanupKeeps DEF RunStep
<1>2. CASE Publish
  BY <1>2, PublishKeeps
<1>3. CASE \E s \in Subs : Open(s) \/ Subscribe(s) \/ Receive(s) \/ Disconnect(s)
  BY <1>3, OpenKeeps, SubscribeKeeps, ReceiveKeeps, DisconnectKeeps
<1>4. CASE UNCHANGED vars
  BY <1>4, ZenonT(60) DEF vars, IInv, TypeOK, RunInv, HubInv, RingInv, StreamInv, StreamOK, WithoutGaps, Seen,
              ClosedExactlyOnce, SuccessInv, Justified
<1> QED
  BY <1>1, <1>2, <1>3, <1>4 DEF Next

\* The inductive invariant of the hub holds in every state of every behaviour.
THEOREM Invariance == Spec => []IInv
BY InitEstablishes, NextKeeps, PTL DEF Spec

\* Every variable keeps its type; no channel ever holds more than subChanCap events.
THEOREM TypeCorrect == Spec => []TypeOK
<1>1. IInv => TypeOK
  BY DEF IInv
<1> QED
  BY <1>1, Invariance, PTL

\* Hub.Latest is the newest message.
LEMMA LatestIsSent ==
    ASSUME IInv, hub.count > 0, exec.pc # "over"
    PROVE  Latest = sent
<1>1. hub.count \in Nat /\ sent \in Nat /\ hub.count \in 1..hub.count
  BY DEF IInv, TypeOK, HubState
<1>2. hub.buf[(hub.head + hub.count - 1) % BufSize] = sent - hub.count + hub.count
  BY <1>1 DEF IInv, RingInv
<1> QED
  BY <1>1, <1>2 DEF Latest

\* Whenever a stream subscribed, the replay of the ring and the live messages join
\* without a gap, a repetition or a message out of order, nothing follows the
\* terminal event, and a subscribed stream has everything up to the last message.
THEOREM NoGapsHolds == Spec => []NoGaps
<1>1. IInv => NoGaps
  <2> SUFFICES ASSUME IInv PROVE NoGaps
    OBVIOUS
  <2>1. hub.count > 0 /\ exec.pc # "over" => Latest = sent
    BY LatestIsSent
  <2>2. sent \in Nat /\ \A s \in Subs : StreamOK(s)
    BY DEF IInv, StreamInv, TypeOK
  <2> QED
    BY <2>1, <2>2 DEF NoGaps, StreamOK
<1> QED
  BY <1>1, Invariance, PTL

\* publish, complete and unsub close every channel exactly once: a subscribed
\* channel is open and any other is closed.
THEOREM ClosedExactlyOnceHolds == Spec => []ClosedExactlyOnce
<1>1. IInv => ClosedExactlyOnce
  BY DEF IInv
<1> QED
  BY <1>1, Invariance, PTL

\* The hub reports success only when the run's row says so; a success read in
\* the table may only be undone by a run that then ends as failed.
THEOREM SuccessIsRecordedHolds == Spec => []SuccessIsRecorded
<1>1. IInv => SuccessIsRecorded
  BY DEF IInv, RunInv, SuccessInv, Justified, SuccessIsRecorded, Reports
<1> QED
  BY <1>1, Invariance, PTL
=============================================================================
