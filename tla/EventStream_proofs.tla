------------------------- MODULE EventStream_proofs -------------------------
(* No wake-up is lost and the flip to stopped is not late, for any number   *)
(* of phones and streams and any timers.  Both rest on what a step of any   *)
(* task does to the scoreboard: it announces every visible change, and a    *)
(* change of the age of the clock, other than time, is a visible one.       *)
EXTENDS EventStream, Scoreboard_proofs

Settled(s) == s.announced = Visible(s)

Inv == TypeOK /\ Settled(sb) /\ NoLostWakeup /\ FlipIsDue

\* What a task may make of the scoreboard between two awaits.
Update(s) ==
    /\ s \in ScoreboardState /\ Settled(s)
    /\ s.announced = sb.announced => s.age = sb.age /\ s.running = sb.running

-----------------------------------------------------------------------------
\* A settled state with the same announcement shows the same fields.
LEMMA SameAnnouncement ==
    ASSUME NEW s \in ScoreboardState, NEW t \in ScoreboardState,
           Settled(s), Settled(t), s.announced = t.announced
    PROVE  s.running = t.running /\ s.min = t.min /\ s.sec = t.sec
<1>1. Visible(s) = Visible(t)
  BY DEF Settled
<1>2. Visible(s).running = Visible(t).running
  BY <1>1
<1>3. Visible(s).min = Visible(t).min /\ Visible(s).sec = Visible(t).sec
  BY <1>1
<1> QED
  BY <1>2, <1>3 DEF Visible

\* A refresh, by whichever task, keeps the age of the clock.
LEMMA RefreshUpdates ==
    ASSUME sb \in ScoreboardState, Settled(sb)
    PROVE  Update(RefreshRunning(sb))
<1>1. RefreshRunning(sb) \in ScoreboardState /\ Settled(RefreshRunning(sb))
  BY RefreshType DEF Settled
<1>2. RefreshRunning(sb).age = sb.age
  BY RefreshType
<1> QED
  BY <1>1, <1>2, SameAnnouncement DEF Update

\* A frame that restarts the age of the clock shows a new time.
LEMMA FrameUpdates ==
    ASSUME sb \in ScoreboardState, Settled(sb), NEW min \in Minutes, NEW sec \in Seconds
    PROVE  Update(SetClock(sb, min, sec))
<1> DEFINE s == SetClock(sb, min, sec)
<1>1. s \in ScoreboardState /\ Settled(s) /\ s.min = min /\ s.sec = sec
  BY SetClockType DEF Settled
<1>2. s.age = IF sb.min # min \/ sb.sec # sec THEN 0 ELSE sb.age
  BY SetClockType
<1> HIDE DEF s
<1>3. s.announced = sb.announced => s.running = sb.running /\ s.min = sb.min /\ s.sec = sb.sec
  BY <1>1, SameAnnouncement
<1>4. Update(s)
  BY <1>1, <1>2, <1>3 DEF Update
<1> QED
  BY <1>4 DEF s

\* A command that is published without a refresh keeps the age of the clock.
LEMMA LedUpdates ==
    ASSUME sb \in ScoreboardState, Settled(sb), NEW on \in BOOLEAN
    PROVE  Update(Publish([sb EXCEPT !.led = on]))
<1> DEFINE t == [sb EXCEPT !.led = on]
<1>1. t \in ScoreboardState /\ t.age = sb.age
  BY DEF ScoreboardState
<1>2. Publish(t).age = t.age
  BY <1>1, PublishType
<1> HIDE DEF t
<1>3. Publish(t) \in ScoreboardState /\ Settled(Publish(t))
  BY <1>1, PublishType DEF Settled
<1>4. Update(Publish(t))
  BY <1>1, <1>2, <1>3, SameAnnouncement DEF Update
<1> QED
  BY <1>4 DEF t

-----------------------------------------------------------------------------
\* A change made by another task signals every open stream.
LEMMA CommitStep ==
    ASSUME Inv, NEW s, Update(s), Commit(s)
    PROVE  Inv'
<1>1. TypeOK' /\ Settled(sb)'
  BY DEF Inv, TypeOK, Update, Commit, Signal, Open, timers, Settled, Visible
<1>2. CASE s.announced # sb.announced
  <2>1. signalled' = Open
    BY <1>2 DEF Commit, Signal
  <2>2. NoLostWakeup'
    BY <2>1 DEF NoLostWakeup, Open, Commit
  <2>3. FlipIsDue'
    BY <2>1 DEF FlipIsDue, Open, Commit
  <2> QED
    BY <1>1, <2>2, <2>3 DEF Inv
<1>3. CASE s.announced = sb.announced
  <2>1. signalled' = signalled /\ sb'.announced = sb.announced
        /\ sb'.age = sb.age /\ sb'.running = sb.running
    BY <1>3 DEF Commit, Signal, Update
  <2>2. NoLostWakeup'
    BY <2>1 DEF Inv, NoLostWakeup, Commit
  <2>3. FlipIsDue'
    BY <2>1 DEF Inv, FlipIsDue, Commit, timers
  <2> QED
    BY <1>1, <2>2, <2>3 DEF Inv
<1> QED
  BY <1>2, <1>3

\* A stream that takes a snapshot has what is announced; the others are
\* signalled if its refresh changed that.
LEMMA SnapshotStep ==
    ASSUME Inv, NEW i \in Phones, NEW s, Update(s), WriteSnapshot(i, s),
           \/ signalled' = Signal(s, signalled \ {i})
           \/ signalled' = Signal(s, signalled) \ {i}
    PROVE  Inv'
<1>1. /\ TypeOK' /\ Settled(sb)' /\ body'[i] = s.announced /\ where'[i] = "writing"
      /\ sb' = s
      /\ \A j \in Phones \ {i} : /\ where'[j] = where[j] /\ body'[j] = body[j]
                                 /\ shown'[j] = shown[j] /\ stop'[j] = stop[j]
  <2>1. Visible(s) \in View
    BY DEF Update, Visible, View, ScoreboardState
  <2>2. 0 \in 0..KeepAlive
    BY StreamAssumption
  <2> QED
    BY <2>1, <2>2 DEF Inv, TypeOK, Update, WriteSnapshot, Unwait, Signal, Open, Settled, Visible, Places
<1>2. \A j \in Phones \ {i} :
        \/ where[j] = "none" \/ j \in signalled'
        \/ /\ j \notin signalled
           /\ s.announced = sb.announced /\ s.age = sb.age /\ s.running = sb.running
  BY DEF Signal, Open, Update
<1>3. NoLostWakeup'
  <2> SUFFICES ASSUME NEW j \in Phones, j \notin signalled'
               PROVE  /\ where'[j] \in {"select", "keepalive"} => shown'[j] = {s.announced}
                      /\ where'[j] = "writing" => body'[j] = s.announced
    BY <1>1 DEF NoLostWakeup
  <2>1. CASE j = i
    BY <2>1, <1>1
  <2>2. CASE j # i
    BY <2>2, <1>1, <1>2 DEF Inv, NoLostWakeup
  <2> QED
    BY <2>1, <2>2
<1>4. FlipIsDue'
  <2> SUFFICES ASSUME NEW j \in Phones, where'[j] = "select", s.running = "run"
               PROVE  j \in signalled' \/ stop'[j] <= StoppedAfter - s.age
    BY <1>1 DEF FlipIsDue
  <2>1. j # i
    BY <1>1
  <2> QED
    BY <2>1, <1>1, <1>2 DEF Inv, FlipIsDue
<1> QED
  BY <1>1, <1>3, <1>4 DEF Inv

\* The stop timer that a select starts does not outlast the moment the clock
\* counts as stopped.
LEMMA StopWaitBound ==
    ASSUME NEW s \in ScoreboardState
    PROVE  /\ StopWait(s) \in Nat
           /\ s.running = "run" => StopWait(s) <= StoppedAfter - s.age
BY ScoreboardAssumption, StreamAssumption DEF StopWait, ScoreboardState, Ages

\* A stream that begins to wait has shown what is announced, or has a signal.
LEMMA WaitStep ==
    ASSUME Inv, NEW i \in Phones, Wait(i, sb'), sb' \in ScoreboardState, Settled(sb'),
           sb'.announced = sb.announced, sb'.age = sb.age, sb'.running = sb.running,
           signalled' = signalled, UNCHANGED <<body, alive>>,
           shown' \in [Phones -> SUBSET View],
           \A j \in Phones \ {i} : shown'[j] = shown[j],
           i \in signalled \/ shown'[i] = {sb.announced}
    PROVE  Inv'
<1>1. /\ where'[i] = "select" /\ stop'[i] = StopWait(sb')
      /\ where' \in [Phones -> Places] /\ keep' \in [Phones -> 0..KeepAlive]
      /\ \A j \in Phones \ {i} : where'[j] = where[j] /\ stop'[j] = stop[j]
  BY StreamAssumption DEF Inv, TypeOK, Wait, Places
<1>2. TypeOK' /\ Settled(sb)'
  BY <1>1, StopWaitBound DEF Inv, TypeOK, Wait, Settled, Visible
<1>3. NoLostWakeup'
  BY <1>1 DEF Inv, NoLostWakeup
<1>4. FlipIsDue'
  BY <1>1, StopWaitBound DEF Inv, FlipIsDue
<1> QED
  BY <1>2, <1>3, <1>4 DEF Inv

-----------------------------------------------------------------------------
\* A new stream takes its first snapshot before it waits.
LEMMA OpenStep ==
    ASSUME Inv, NEW i \in Phones, Connect(i) \/ WriteFails(i) \/ KeepAliveDue(i) \/ Disconnect(i)
    PROVE  Inv'
<1>1. Settled(sb)' /\ sb' = sb
  BY DEF Inv, Settled, Visible, Connect, WriteFails, KeepAliveDue, Disconnect
<1>2. TypeOK'
  <2>1. CASE Connect(i)
    BY <1>1, <2>1 DEF Inv, TypeOK, Connect, timers, Places
  <2>2. CASE WriteFails(i)
    BY <1>1, <2>2 DEF Inv, TypeOK, WriteFails, timers, Places
  <2>3. CASE KeepAliveDue(i)
    BY <1>1, <2>3, StreamAssumption DEF Inv, TypeOK, KeepAliveDue, Unwait, Places
  <2>4. CASE Disconnect(i)
    BY <1>1, <2>4 DEF Inv, TypeOK, Disconnect, timers
  <2> QED
    BY <2>1, <2>2, <2>3, <2>4
<1>3. CASE Connect(i)
  BY <1>1, <1>2, <1>3 DEF Inv, TypeOK, NoLostWakeup, FlipIsDue, Connect, timers
<1>4. CASE WriteFails(i)
  BY <1>1, <1>2, <1>4 DEF Inv, TypeOK, NoLostWakeup, FlipIsDue, WriteFails, timers
<1>5. CASE KeepAliveDue(i)
  BY <1>1, <1>2, <1>5 DEF Inv, TypeOK, NoLostWakeup, FlipIsDue, KeepAliveDue, Unwait
<1>6. CASE Disconnect(i)
  BY <1>1, <1>2, <1>6 DEF Inv, TypeOK, NoLostWakeup, FlipIsDue, Disconnect, timers
<1> QED
  BY <1>3, <1>4, <1>5, <1>6

\* The steps of a stream that is open.
LEMMA StreamStep ==
    ASSUME Inv, NEW i \in Phones, FirstSnapshot(i) \/ Changed(i) \/ StopDue(i) \/ WriteEnd(i)
    PROVE  Inv'
<1> DEFINE s == RefreshRunning(sb)
<1>1. Update(s)
  BY RefreshUpdates DEF Inv, TypeOK
<1>2. CASE FirstSnapshot(i) \/ Changed(i)
  <2>1. WriteSnapshot(i, s) /\ signalled' = Signal(s, signalled \ {i})
    BY <1>2 DEF FirstSnapshot, Changed
  <2> QED
    BY <1>1, <2>1, SnapshotStep
<1>3. CASE StopDue(i)
  <2>1. CASE i \in Signal(s, signalled)
    <3>1. WriteSnapshot(i, s) /\ signalled' = Signal(s, signalled) \ {i}
      BY <1>3, <2>1 DEF StopDue
    <3> QED
      BY <1>1, <3>1, SnapshotStep
  <2>2. CASE i \notin Signal(s, signalled)
    <3> HIDE DEF s
    <3>1. /\ where[i] = "select" /\ i \notin signalled /\ sb' = s /\ Wait(i, s)
          /\ signalled' = Signal(s, signalled) \ {i}
          /\ UNCHANGED <<body, shown, alive>>
      BY <1>3, <2>2 DEF StopDue, s
    <3>2. s.announced = sb.announced
      BY <2>2, <3>1 DEF Signal, Open
    <3>3. signalled' = signalled
      BY <3>1, <3>2 DEF Signal
    <3>4. shown'[i] = {sb.announced}
      BY <3>1 DEF Inv, NoLostWakeup
    <3> QED
      BY <1>1, <3>1, <3>2, <3>3, <3>4, WaitStep DEF Inv, TypeOK, Update
  <2> QED
    BY <2>1, <2>2
<1>4. CASE WriteEnd(i)
  <2>1. /\ sb' = sb /\ signalled' = signalled /\ UNCHANGED <<body, alive>> /\ Wait(i, sb')
        /\ where[i] \in {"writing", "keepalive"}
        /\ shown' = IF where[i] = "writing" THEN [shown EXCEPT ![i] = {body[i]}] ELSE shown
    BY <1>4 DEF WriteEnd, Wait
  <2>2. i \in signalled \/ shown'[i] = {sb.announced}
    BY <2>1 DEF Inv, TypeOK, NoLostWakeup
  <2>3. /\ shown' \in [Phones -> SUBSET View]
        /\ \A j \in Phones \ {i} : shown'[j] = shown[j]
    BY <2>1 DEF Inv, TypeOK
  <2> QED
    BY <2>1, <2>2, <2>3, WaitStep DEF Inv, TypeOK
<1> QED
  BY <1>2, <1>3, <1>4

\* Time only passes while no stream is overdue.
LEMMA TickStep ==
    ASSUME Inv, Tick
    PROVE  Inv'
<1>1. /\ sb' \in ScoreboardState /\ Visible(sb') = Visible(sb) /\ sb'.announced = sb.announced
      /\ sb'.running = sb.running /\ sb'.age = Older(sb.age)
  BY ElapseType DEF Inv, TypeOK, Tick, Elapse, ScoreboardState
<1>2. Settled(sb)'
  BY <1>1 DEF Inv, Settled, Visible
<1>3. TypeOK'
  <2>1. \A i \in Phones : Down(keep[i]) \in 0..KeepAlive /\ Down(stop[i]) \in Nat
    BY StreamAssumption DEF Inv, TypeOK, Down
  <2> QED
    BY <1>1, <2>1 DEF Inv, TypeOK, Tick
<1>4. NoLostWakeup'
  BY <1>1 DEF Inv, NoLostWakeup, Tick
<1>5. FlipIsDue'
  <2> SUFFICES ASSUME NEW i \in Phones, where[i] = "select", sb.running = "run", i \notin signalled
               PROVE  Down(stop[i]) <= StoppedAfter - Older(sb.age)
    BY <1>1 DEF FlipIsDue, Tick
  <2>1. stop[i] <= StoppedAfter - sb.age /\ stop[i] # 0
    BY DEF Inv, FlipIsDue, Tick, Ready
  <2>2. stop[i] \in Nat /\ sb.age \in Ages
    BY DEF Inv, TypeOK, ScoreboardState
  <2> QED
    BY <2>1, <2>2, ScoreboardAssumption DEF Down, Older, Ages
<1> QED
  BY <1>2, <1>3, <1>4, <1>5 DEF Inv

\* No stream is open before the first phone comes.
LEMMA InvInit == Init => Inv
<1> SUFFICES ASSUME Init PROVE Inv
  OBVIOUS
<1>1. sb \in ScoreboardState /\ Settled(sb) /\ Visible(sb) \in View
  BY InitType DEF Init, Settled, Visible, View, ScoreboardState
<1>2. TypeOK
  BY <1>1, StreamAssumption DEF Init, TypeOK, Places
<1>3. NoLostWakeup /\ FlipIsDue
  BY DEF Init, NoLostWakeup, FlipIsDue
<1> QED
  BY <1>1, <1>2, <1>3 DEF Inv

\* Every step of the streams, the other tasks, the phones and time.
LEMMA InvStep == Inv /\ [Next]_vars => Inv'
<1> SUFFICES ASSUME Inv, [Next]_vars PROVE Inv'
  OBVIOUS
<1>1. CASE \E i \in Phones : Connect(i) \/ Stream(i) \/ WriteFails(i) \/ Disconnect(i)
  BY <1>1, OpenStep, StreamStep DEF Stream
<1>2. CASE \E min \in Minutes, sec \in Seconds : Frame(min, sec)
  <2>1. PICK min \in Minutes, sec \in Seconds : Commit(SetClock(sb, min, sec))
    BY <1>2 DEF Frame
  <2>2. Update(SetClock(sb, min, sec))
    BY FrameUpdates DEF Inv, TypeOK
  <2> QED
    BY <2>1, <2>2, CommitStep
<1>3. CASE Refresh
  <2>1. Update(RefreshRunning(sb))
    BY RefreshUpdates DEF Inv, TypeOK
  <2> QED
    BY <1>3, <2>1, CommitStep DEF Refresh
<1>4. CASE \E on \in BOOLEAN : SetLed(on)
  <2>1. PICK on \in BOOLEAN : Commit(Publish([sb EXCEPT !.led = on]))
    BY <1>4 DEF SetLed
  <2>2. Update(Publish([sb EXCEPT !.led = on]))
    BY LedUpdates DEF Inv, TypeOK
  <2> QED
    BY <2>1, <2>2, CommitStep
<1>5. CASE Tick
  BY <1>5, TickStep
<1>6. CASE UNCHANGED vars
  BY <1>6 DEF vars, timers, Inv, TypeOK, Settled, Visible, NoLostWakeup, FlipIsDue
<1> QED
  BY <1>1, <1>2, <1>3, <1>4, <1>5, <1>6 DEF Next

\* The streams' state keeps its types.
THEOREM StreamTypes == Spec => []TypeOK
<1>1. Inv => TypeOK
  BY DEF Inv
<1> QED
  BY <1>1, InvInit, InvStep, PTL DEF Spec

\* write_events never waits on a snapshot that is out of date: whatever the
\* order of signals, writes and refreshes, a change after the body was read
\* leaves a signal for the next changed().
THEOREM NoWakeupIsLost == Spec => []NoLostWakeup
<1>1. Inv => NoLostWakeup
  BY DEF Inv
<1> QED
  BY <1>1, InvInit, InvStep, PTL DEF Spec

\* The third arm of select3 is in time: a stream shows a silent clock as stopped
\* when STOPPED_AFTER_MS is over even if no other task refreshes it.
THEOREM FlipIsOnTime == Spec => []FlipIsDue
<1>1. Inv => FlipIsDue
  BY DEF Inv
<1> QED
  BY <1>1, InvInit, InvStep, PTL DEF Spec

-----------------------------------------------------------------------------
(* The refinement of SnapshotFeed, step by step: a phone is sent what was  *)
(* announced when its snapshot was taken, and is shown what it was sent.   *)

\* What SnapshotFeed sees of the stream tasks.
Sending == [i \in Phones |-> IF where[i] = "writing" THEN {body[i]} ELSE {}]

\* All that a step may change of what SnapshotFeed sees.
FeedStep ==
    \/ Feed!Next
    \/ UNCHANGED Feed!vars

\* A step that neither begins nor ends a write is a change of the scoreboard,
\* or nothing.
LEMMA QuietStep ==
    ASSUME Inv, Inv', Sending' = Sending, shown' = shown
    PROVE  FeedStep
<1>1. sb'.announced \in View
  BY DEF Inv, TypeOK, ScoreboardState
<1> QED
  BY <1>1 DEF FeedStep, Feed!Next, Feed!Change, Sending

\* A stream that begins to write has just read what is announced.
LEMMA TakeStep ==
    ASSUME Inv, Inv', NEW i \in Phones, NEW s, where[i] \in {"headers", "select"},
           WriteSnapshot(i, s)
    PROVE  FeedStep
<1>1. sb'.announced \in View /\ body'[i] = sb'.announced
  BY DEF Inv, TypeOK, ScoreboardState, WriteSnapshot, Settled
<1>2. Sending' = [Sending EXCEPT ![i] = {sb'.announced}] /\ Sending[i] = {}
  BY <1>1 DEF Inv, TypeOK, WriteSnapshot, Sending
<1>3. shown' = shown
  BY DEF WriteSnapshot
<1>4. Feed!Take(i)
  BY <1>1, <1>2, <1>3 DEF Feed!Take, Sending
<1> QED
  BY <1>4 DEF FeedStep, Feed!Next

\* The steps of a stream.
LEMMA StreamFeeds ==
    ASSUME Inv, Inv', NEW i \in Phones,
           Connect(i) \/ Stream(i) \/ WriteFails(i) \/ Disconnect(i)
    PROVE  FeedStep
<1> DEFINE s == RefreshRunning(sb)
<1>1. CASE Connect(i) \/ Disconnect(i) \/ KeepAliveDue(i)
  <2>1. Sending' = Sending /\ shown' = shown
    BY <1>1 DEF Connect, Disconnect, KeepAliveDue, Inv, TypeOK, Sending
  <2> QED
    BY <2>1, QuietStep
<1>2. CASE FirstSnapshot(i) \/ Changed(i)
  <2>1. WriteSnapshot(i, s) /\ where[i] \in {"headers", "select"}
    BY <1>2 DEF FirstSnapshot, Changed
  <2> QED
    BY <2>1, TakeStep
<1>3. CASE StopDue(i) /\ i \in Signal(s, signalled)
  <2>1. WriteSnapshot(i, s) /\ where[i] \in {"headers", "select"}
    BY <1>3 DEF StopDue
  <2> QED
    BY <2>1, TakeStep
<1>4. CASE StopDue(i) /\ i \notin Signal(s, signalled)
  <2>1. Sending' = Sending /\ shown' = shown
    BY <1>4 DEF StopDue, Wait, Inv, TypeOK, Sending
  <2> QED
    BY <2>1, QuietStep
<1>5. CASE WriteEnd(i) /\ where[i] = "keepalive"
  <2>1. Sending' = Sending /\ shown' = shown
    BY <1>5 DEF WriteEnd, Wait, Inv, TypeOK, Sending
  <2> QED
    BY <2>1, QuietStep
<1>6. CASE WriteEnd(i) /\ where[i] = "writing"
  <2>1. Sending[i] = {body[i]} /\ Sending' = [Sending EXCEPT ![i] = {}]
    BY <1>6 DEF WriteEnd, Wait, Inv, TypeOK, Sending
  <2>2. shown' = [shown EXCEPT ![i] = Sending[i]] /\ sb'.announced = sb.announced
    BY <1>6, <2>1 DEF WriteEnd
  <2>3. Feed!Show(i)
    BY <2>1, <2>2 DEF Feed!Show, Sending
  <2> QED
    BY <2>3 DEF FeedStep, Feed!Next
<1>7. CASE WriteFails(i)
  <2>1. Sending' = [Sending EXCEPT ![i] = {}]
    BY <1>7 DEF WriteFails, Inv, TypeOK, Sending
  <2>2. shown' = [shown EXCEPT ![i] = {}] /\ sb'.announced = sb.announced
    BY <1>7 DEF WriteFails
  <2>3. Feed!Leave(i)
    BY <2>1, <2>2 DEF Feed!Leave, Sending
  <2> QED
    BY <2>3 DEF FeedStep, Feed!Next
<1>8. WriteEnd(i) => where[i] = "keepalive" \/ where[i] = "writing"
  BY DEF WriteEnd
<1> HIDE DEF s
<1> QED
  BY <1>1, <1>2, <1>3, <1>4, <1>5, <1>6, <1>7, <1>8 DEF Stream

\* The other tasks and time begin and end no write.
LEMMA StepFeeds ==
    ASSUME Inv, Inv', [Next]_vars
    PROVE  FeedStep
<1>1. CASE \E i \in Phones : Connect(i) \/ Stream(i) \/ WriteFails(i) \/ Disconnect(i)
  BY <1>1, StreamFeeds
<1>2. CASE ~ \E i \in Phones : Connect(i) \/ Stream(i) \/ WriteFails(i) \/ Disconnect(i)
  <2>1. UNCHANGED <<where, body, shown>>
    BY <1>2 DEF Next, Frame, Refresh, SetLed, Commit, Tick, vars
  <2>2. Sending' = Sending
    BY <2>1 DEF Sending
  <2> QED
    BY <2>1, <2>2, QuietStep
<1> QED
  BY <1>1, <1>2

\* The streams, with their timers, signals and the Watch, take no step that the
\* feed the phones are promised could not take, for any number of phones.
THEOREM StreamsFollowFeed == Spec => Feed!SafeSpec
<1>1. Init => Feed!Init
  <2> SUFFICES ASSUME Init PROVE Feed!Init
    OBVIOUS
  <2>1. sb.announced \in View
    BY InitType DEF Init, ScoreboardState
  <2> QED
    BY <2>1 DEF Init, Feed!Init, Feed!Nothing
<1>2. Inv /\ Inv' /\ [Next]_vars => [Feed!Next]_(Feed!vars)
  BY StepFeeds DEF FeedStep
<1> QED
  BY <1>1, <1>2, InvInit, InvStep, PTL DEF Spec, Feed!SafeSpec
=============================================================================
