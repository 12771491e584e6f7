------------------------ MODULE BoardControl_proofs ------------------------
(* Invariants of BoardControl, for every capacity, lag, set of commands,   *)
(* set of buttons, missed pulse and reboot.  TypeOK is not inductive: the  *)
(* deltas of a train stay in range only because the pin that is high moves *)
(* the delta towards 0 (PinAgrees), and because the score trains, whose    *)
(* pins would come first, are idle.                                        *)
(*                                                                         *)
(* Two properties are about time: that a clock that counts is reported     *)
(* (CountInv, an invariant over the frames in flight), and that a start    *)
(* never stops a clock (StartInv, over what a repeated start would find).  *)
EXTENDS BoardControl, Scoreboard_proofs, SequenceTheorems

\* The pin that is high is one that the point where board_task awaits explains.
PinAgrees ==
    /\ pc \in {"freeze", "restop"} => pin = "start"
    /\ pc = "train" => \/ pin = "min_inc" /\ pendingMin > 0
                       \/ pin = "min_dec" /\ pendingMin < 0
                       \/ pin = "sec_inc" /\ pendingSec > 0
                       \/ pin = "sec_dec" /\ pendingSec < 0

TypeInv == TypeOK /\ ScoreTrainsIdle /\ PinAgrees

-----------------------------------------------------------------------------
(* The scoreboard and the frames in flight.                                *)

\* Whatever button is pressed, the scoreboard remains one.
LEMMA ReactType ==
    ASSUME NEW b \in Board, NEW button \in Pins, NEW c \in React(b, button)
    PROVE  c \in Board
<1>1. /\ \A x \in Minutes : Raise(x, MaxMin) \in Minutes /\ Lower(x, 0) \in Minutes
      /\ \A x \in Seconds : Raise(x, MaxSec) \in Seconds /\ Lower(x, 0) \in Seconds
      /\ \A x \in Scores : Raise(x, ScoreMax) \in Scores /\ Lower(x, 0) \in Scores
  BY ScoreboardAssumption DEF Minutes, Seconds, Scores, Raise, Lower
<1>2. /\ PeriodMin \in Minutes /\ PeriodSec \in Seconds /\ 0 \in Scores
      /\ "run" \in Run /\ "stop" \in Run
  BY ScoreboardAssumption DEF Minutes, Seconds, Scores, Run
<1>3. CASE button \in {"min_inc", "min_dec", "sec_inc", "sec_dec", "home_inc", "home_dec",
                       "away_inc", "away_dec", "clear", "aux"}
  BY <1>1, <1>2, <1>3 DEF React, Board
<1>4. CASE button \in {"start", "reset"}
  BY <1>2, <1>4 DEF React, Board
<1> QED
  BY <1>3, <1>4 DEF Pins

\* A second of countdown stays on the display and leaves the scores alone.
LEMMA CountDownType ==
    ASSUME NEW b \in Board
    PROVE  /\ CountDown(b) \in Board
           /\ CountDown(b).home = b.home /\ CountDown(b).away = b.away
<1> DEFINE min == IF b.sec > 0 THEN b.min ELSE Lower(b.min, 0)
           sec == IF b.sec > 0 THEN b.sec - 1 ELSE IF b.min > 0 THEN MaxSec ELSE 0
           run == IF TotalSeconds(min, sec) = 0 THEN "stop" ELSE b.run
<1>1. b.min \in Minutes /\ b.sec \in Seconds /\ b.run \in Run
  BY DEF Board
<1>2. min \in Minutes /\ sec \in Seconds
  BY <1>1, ScoreboardAssumption DEF Minutes, Seconds, Lower
<1>3. run \in Run /\ 0 \in 0..(SecondTicks - 1)
  BY <1>1, BoardAssumption DEF Run
<1> HIDE DEF min, sec
<1>4. CountDown(b) = [b EXCEPT !.min = min, !.sec = sec, !.phase = 0, !.run = run]
  BY DEF CountDown, min, sec
<1> HIDE DEF run
<1> QED
  BY <1>2, <1>3, <1>4 DEF Board

\* What the frames in flight become is a sequence of frames.
LEMMA TransmitType ==
    ASSUME NEW w \in Seq(Frame), NEW b, NEW c \in Board, NEW v \in Transmit(w, b, c)
    PROVE  v \in Seq(Frame)
<1> DEFINE new == [min |-> c.min, sec |-> c.sec, lag |-> 0]
<1>1. new \in Frame
  BY BoardAssumption DEF Frame, Board
<1>2. Append(w, new) \in Seq(Frame)
  BY <1>1, AppendProperties
<1>3. Len(w) \in Nat /\ (Len(w) > 0 => [w EXCEPT ![Len(w)] = new] \in Seq(Frame))
  BY <1>1, ExceptSeq, LenProperties
<1>4. v = w \/ v = Append(w, new) \/ (Len(w) > 0 /\ v = [w EXCEPT ![Len(w)] = new])
  BY DEF Transmit
<1> QED
  BY <1>2, <1>3, <1>4

\* The frames grow older together.
LEMMA AgedFrames ==
    ASSUME NEW w \in Seq(Frame), \A i \in 1..Len(w) : w[i].lag < MaxLag
    PROVE  [i \in 1..Len(w) |-> [w[i] EXCEPT !.lag = @ + 1]] \in Seq(Frame)
<1> DEFINE f == [i \in 1..Len(w) |-> [w[i] EXCEPT !.lag = @ + 1]]
<1>1. Len(w) \in Nat /\ \A i \in 1..Len(w) : w[i] \in Frame
  BY LenProperties, ElementOfSeq
<1>2. \A i \in 1..Len(w) : w[i].lag + 1 \in 0..MaxLag
  BY <1>1, BoardAssumption DEF Frame
<1>3. \A i \in 1..Len(w) : [w[i] EXCEPT !.lag = @ + 1] \in Frame
  BY <1>1, <1>2 DEF Frame
<1>4. f \in [1..Len(w) -> Frame]
  BY <1>3
<1> QED
  BY <1>1, <1>4, SeqDef

-----------------------------------------------------------------------------
(* The type invariant.                                                     *)

\* A run state is a wish, and so is the absence of one.
LEMMA WishTypes == Run \subseteq Wish /\ {"run", "stop", "none"} \subseteq Wish
BY DEF Run, Wish

\* Taking a command leaves the channel typed, and yields a command.
LEMMA ReceiveType ==
    ASSUME TypeInv, NEW op, Receive(op)
    PROVE  queue' \in Seq(Command) /\ late' \in BOOLEAN /\ Head(queue) \in Command
BY HeadTailProperties DEF TypeInv, TypeOK, Receive

\* The clamped argument of a set-timer is a time the scoreboard can show.
LEMMA ClampType ==
    ASSUME NEW x \in Nat
    PROVE  Clamp(x, MaxMin) \in Minutes /\ Clamp(x, MaxSec) \in Seconds
BY ScoreboardAssumption DEF Clamp, Minutes, Seconds

\* The deltas of a snapshot span the display at most.
LEMMA SnapshotType ==
    ASSUME TypeInv, NEW min \in Minutes, NEW sec \in Seconds, Snapshot(sb, min, sec)
    PROVE  pendingMin' \in Deltas(MaxMin) /\ pendingSec' \in Deltas(MaxSec) /\ onTrack' \in BOOLEAN
<1>1. sb.min \in Minutes /\ sb.sec \in Seconds
  BY DEF TypeInv, TypeOK, ScoreboardState
<1>2. pendingMin' = min - sb.min /\ pendingSec' = sec - sb.sec /\ onTrack' \in BOOLEAN
  BY DEF Snapshot
<1> QED
  BY <1>1, <1>2, ScoreboardAssumption DEF Deltas, Minutes, Seconds

\* The state at boot is well typed.
LEMMA TypeInit == Init => TypeInv
<1> SUFFICES ASSUME Init PROVE TypeInv
  OBVIOUS
<1>1. sb \in ScoreboardState
  BY InitType DEF Init
<1>2. board \in Board
  BY BoardAssumption DEF Init
<1>3. wire \in Seq(Frame)
  <2>1. [min |-> board.min, sec |-> board.sec, lag |-> 0] \in Frame
    BY <1>2, BoardAssumption DEF Board, Frame
  <2> QED
    BY <2>1, SeqDef DEF Init
<1>4. queue \in Seq(Command)
  BY DEF Init
<1>5. 0 \in Deltas(MaxMin) /\ 0 \in Deltas(MaxSec) /\ 0 \in Minutes /\ 0 \in Seconds /\ 0 \in 0..SteadyCap
  BY ScoreboardAssumption, BoardAssumption DEF Deltas, Minutes, Seconds, SteadyCap
<1> QED
  BY <1>1, <1>2, <1>3, <1>4, <1>5, WishTypes DEF Init, TypeInv, TypeOK, ScoreTrainsIdle, PinAgrees

\* The commands that move neither a train nor the clock.
LEMMA LedStep ==
    ASSUME TypeInv, LedOn \/ LedOff
    PROVE  TypeInv'
<1>1. \A on \in BOOLEAN : Publish([sb EXCEPT !.led = on]) \in ScoreboardState
  <2>1. \A on \in BOOLEAN : [sb EXCEPT !.led = on] \in ScoreboardState
    BY DEF TypeInv, TypeOK, ScoreboardState
  <2> QED
    BY <2>1, PublishType
<1>2. sb' \in ScoreboardState /\ UNCHANGED <<task, board, wire, ghost>>
  BY <1>1 DEF LedOn, LedOff, Led, Receive, ghost
<1>3. queue' \in Seq(Command) /\ late' \in BOOLEAN
  BY ReceiveType DEF LedOn, LedOff, Led
<1> QED
  BY <1>2, <1>3 DEF TypeInv, TypeOK, ScoreTrainsIdle, PinAgrees, task, train, ghost

\* The three start/stop commands remember a wish and raise the start pin at most.
LEMMA StartStopStep ==
    ASSUME TypeInv, Start \/ Stop \/ StartStop
    PROVE  TypeInv'
<1>1. PICK op \in StartOps, want \in Wish : StartStopFor(op, want)
  BY DEF Start, Stop, StartStop, StartOps, Wish, Run
<1>2. sb' \in ScoreboardState
  BY <1>1, AfterRequestType DEF StartStopFor, TypeInv, TypeOK
<1>3. queue' \in Seq(Command) /\ late' \in BOOLEAN
  BY <1>1, ReceiveType DEF StartStopFor
<1>4. /\ pc = "loop" /\ pin = "low"
      /\ UNCHANGED <<target, train, board, wire, drifted, steady, onTrack>>
      /\ \/ pin' = "start" /\ noticed' = FALSE /\ pc' = "command" /\ asked' = want
         \/ pc' \in {"loop", "blink"} /\ UNCHANGED <<pin, noticed, asked>>
  BY <1>1 DEF StartStopFor, Receive, Raised, AfterPulse, TypeInv, TypeOK
<1> QED
  BY <1>2, <1>3, <1>4 DEF TypeInv, TypeOK, ScoreTrainsIdle, PinAgrees, train, Pins

\* A score command, whichever it is, while the score trains are idle.
LEMMA ScoreTyped ==
    ASSUME TypeInv, NEW op, NEW possible \in BOOLEAN, NEW scored, NEW p \in Pins,
           Score(op, possible, scored, p, 0),
           possible => Publish(scored) \in ScoreboardState,
           pendingHomeDec' = 0, pendingAwayDec' = 0
    PROVE  TypeInv'
<1>1. sb' \in ScoreboardState
  BY DEF Score, TypeInv, TypeOK
<1>2. queue' \in Seq(Command) /\ late' \in BOOLEAN
  BY ReceiveType DEF Score
<1>3. /\ pc = "loop" /\ pin = "low"
      /\ UNCHANGED <<target, pendingMin, pendingSec, board, wire, drifted, steady, onTrack, asked>>
      /\ \/ pin' = p /\ noticed' = FALSE /\ pc' = "command"
         \/ pc' \in {"loop", "blink"} /\ UNCHANGED <<pin, noticed>>
  BY DEF Score, Receive, Raised, AfterPulse, TypeInv, TypeOK
<1> QED
  BY <1>1, <1>2, <1>3 DEF TypeInv, TypeOK, ScoreTrainsIdle, PinAgrees, Pins

\* The four score commands, from the shape they share.
LEMMA ScoreStep ==
    ASSUME TypeInv, HomeInc \/ HomeDec \/ AwayInc \/ AwayDec
    PROVE  TypeInv'
<1>1. sb \in ScoreboardState /\ sb.home \in Scores /\ sb.away \in Scores
  BY DEF TypeInv, TypeOK, ScoreboardState
<1>2. pendingHomeDec = 0 /\ pendingAwayDec = 0
  BY DEF TypeInv, ScoreTrainsIdle
<1>3. CASE HomeInc
  <2>1. sb.home < ScoreMax => sb.home + 1 \in Scores
    BY <1>1, ScoreboardAssumption DEF Scores
  <2>2. sb.home < ScoreMax => Publish([sb EXCEPT !.home = @ + 1]) \in ScoreboardState
    BY <1>1, <2>1, PublishType DEF ScoreboardState
  <2>3. /\ Score("HomeInc", sb.home < ScoreMax, [sb EXCEPT !.home = @ + 1], "home_inc", 0)
        /\ pendingHomeDec' = 0 /\ pendingAwayDec' = 0
    BY <1>2, <1>3 DEF HomeInc
  <2>4. "home_inc" \in Pins /\ (sb.home < ScoreMax) \in BOOLEAN
    BY DEF Pins
  <2> QED
    BY <2>2, <2>3, <2>4, ScoreTyped
<1>4. CASE HomeDec
  <2>1. sb.home > 0 => sb.home - 1 \in Scores
    BY <1>1, ScoreboardAssumption DEF Scores
  <2>2. sb.home > 0 => Publish([sb EXCEPT !.home = @ - 1]) \in ScoreboardState
    BY <1>1, <2>1, PublishType DEF ScoreboardState
  <2>3. /\ Score("HomeDec", sb.home > 0, [sb EXCEPT !.home = @ - 1], "home_dec", 0)
        /\ pendingHomeDec' = 0 /\ pendingAwayDec' = 0
    BY <1>2, <1>4 DEF HomeDec
  <2>4. "home_dec" \in Pins /\ (sb.home > 0) \in BOOLEAN
    BY DEF Pins
  <2> QED
    BY <2>2, <2>3, <2>4, ScoreTyped
<1>5. CASE AwayInc
  <2>1. sb.away < ScoreMax => sb.away + 1 \in Scores
    BY <1>1, ScoreboardAssumption DEF Scores
  <2>2. sb.away < ScoreMax => Publish([sb EXCEPT !.away = @ + 1]) \in ScoreboardState
    BY <1>1, <2>1, PublishType DEF ScoreboardState
  <2>3. /\ Score("AwayInc", sb.away < ScoreMax, [sb EXCEPT !.away = @ + 1], "away_inc", 0)
        /\ pendingHomeDec' = 0 /\ pendingAwayDec' = 0
    BY <1>2, <1>5 DEF AwayInc
  <2>4. "away_inc" \in Pins /\ (sb.away < ScoreMax) \in BOOLEAN
    BY DEF Pins
  <2> QED
    BY <2>2, <2>3, <2>4, ScoreTyped
<1>6. CASE AwayDec
  <2>1. sb.away > 0 => sb.away - 1 \in Scores
    BY <1>1, ScoreboardAssumption DEF Scores
  <2>2. sb.away > 0 => Publish([sb EXCEPT !.away = @ - 1]) \in ScoreboardState
    BY <1>1, <2>1, PublishType DEF ScoreboardState
  <2>3. /\ Score("AwayDec", sb.away > 0, [sb EXCEPT !.away = @ - 1], "away_dec", 0)
        /\ pendingHomeDec' = 0 /\ pendingAwayDec' = 0
    BY <1>2, <1>6 DEF AwayDec
  <2>4. "away_dec" \in Pins /\ (sb.away > 0) \in BOOLEAN
    BY DEF Pins
  <2> QED
    BY <2>2, <2>3, <2>4, ScoreTyped
<1> QED
  BY <1>3, <1>4, <1>5, <1>6

\* The commands that touch the timer, or only pulse a pin.
LEMMA ZeroStep ==
    ASSUME TypeInv, ScoresZero
    PROVE  TypeInv'
<1>1. [sb EXCEPT !.home = 0, !.away = 0] \in ScoreboardState
  <2>1. 0 \in Scores
    BY ScoreboardAssumption DEF Scores
  <2> QED
    BY <2>1 DEF TypeInv, TypeOK, ScoreboardState
<1>2. sb' \in ScoreboardState
  BY <1>1, PublishType DEF ScoresZero
<1>3. queue' \in Seq(Command) /\ late' \in BOOLEAN
  BY ReceiveType DEF ScoresZero
<1> QED
  BY <1>2, <1>3 DEF ScoresZero, Receive, Raised, TypeInv, TypeOK, ScoreTrainsIdle, PinAgrees, Pins

\* Reset drops the min/sec train; Aux leaves it alone.
LEMMA ResetAuxStep ==
    ASSUME TypeInv, Reset \/ Aux
    PROVE  TypeInv'
<1>1. sb' \in ScoreboardState
  <2>1. sb \in ScoreboardState /\ (sb' = ForgetPending(sb) \/ sb' = sb)
    BY DEF Reset, Aux, TypeInv, TypeOK
  <2> QED
    BY <2>1, ForgetType
<1>2. queue' \in Seq(Command) /\ late' \in BOOLEAN
  BY ReceiveType DEF Reset, Aux
<1>3. /\ pendingHomeDec' = 0 /\ pendingAwayDec' = 0
      /\ pendingMin' \in {0, pendingMin} /\ pendingSec' \in {0, pendingSec}
      /\ pin' \in {"reset", "aux"} /\ noticed' = FALSE /\ pc' = "command"
      /\ onTrack' \in BOOLEAN
      /\ UNCHANGED <<target, board, wire, drifted, steady, asked>>
  BY DEF Reset, Aux, Receive, Raised, train, TypeInv, TypeOK, ScoreTrainsIdle
<1>4. 0 \in Deltas(MaxMin) /\ 0 \in Deltas(MaxSec)
  BY ScoreboardAssumption DEF Deltas
<1> QED
  BY <1>1, <1>2, <1>3, <1>4 DEF TypeInv, TypeOK, ScoreTrainsIdle, PinAgrees, Pins

\* A set-timer keeps its clamped target, and starts a train or freezes first.
LEMMA SetTimerStep ==
    ASSUME TypeInv, SetTimer
    PROVE  TypeInv'
<1> DEFINE min == Clamp(Head(queue).min, MaxMin)
           sec == Clamp(Head(queue).sec, MaxSec)
<1>1. queue' \in Seq(Command) /\ late' \in BOOLEAN /\ Head(queue) \in Command
  BY ReceiveType DEF SetTimer
<1>2. min \in Minutes /\ sec \in Seconds
  BY <1>1, ClampType DEF Command
<1>3. sb' \in ScoreboardState
  BY AfterRequestType, WishTypes DEF SetTimer, TypeInv, TypeOK
<1> HIDE DEF min, sec
<1>4. /\ pc = "loop" /\ pin = "low"
      /\ target' = [min |-> min, sec |-> sec]
      /\ UNCHANGED <<board, wire, drifted, steady, pendingHomeDec, pendingAwayDec>>
      /\ \/ /\ pin' = "start" /\ noticed' = FALSE /\ pc' = "freeze" /\ asked' = "stop"
            /\ onTrack' = FALSE /\ UNCHANGED <<pendingMin, pendingSec>>
         \/ Snapshot(sb, min, sec) /\ UNCHANGED <<pc, pin, noticed, asked>>
  BY DEF SetTimer, Receive, Raised, min, sec, TypeInv, TypeOK
<1>5. pendingMin' \in Deltas(MaxMin) /\ pendingSec' \in Deltas(MaxSec) /\ onTrack' \in BOOLEAN
  BY <1>2, <1>4, SnapshotType DEF TypeInv, TypeOK
<1>6. target' \in [min : Minutes, sec : Seconds] /\ asked' \in Wish
  BY <1>2, <1>4, WishTypes DEF TypeInv, TypeOK
<1> QED
  BY <1>1, <1>3, <1>4, <1>5, <1>6 DEF TypeInv, TypeOK, ScoreTrainsIdle, PinAgrees, Pins

\* A train raises the pin its deltas call for: never one of the scores.
LEMMA TrainStep ==
    ASSUME TypeInv, Restop \/ TrainPulse
    PROVE  TypeInv'
<1>1. ~ScoresOwed
  BY DEF ScoresOwed, TypeInv, ScoreTrainsIdle
<1>2. sb' \in ScoreboardState
  BY <1>1, AfterRequestType, WishTypes DEF Restop, TrainPulse, TypeInv, TypeOK
<1>3. /\ pc = "loop" /\ queue = <<>> /\ late' = FALSE /\ noticed' = FALSE
      /\ pendingMin # 0 \/ pendingSec # 0
      /\ UNCHANGED <<queue, target, train, board, wire, drifted, onTrack, steady>>
      /\ \/ pc' = "restop" /\ pin' = "start" /\ asked' = "stop"
         \/ pc' = "train" /\ pin' = TrainPin /\ UNCHANGED asked
  BY DEF Restop, TrainPulse, Train, Raised, HasPending, TypeInv, ScoreTrainsIdle
<1>4. pendingMin \in Int /\ pendingSec \in Int
  BY ScoreboardAssumption DEF TypeInv, TypeOK, Deltas
<1>5. \/ TrainPin = "min_inc" /\ pendingMin > 0
      \/ TrainPin = "min_dec" /\ pendingMin < 0
      \/ TrainPin = "sec_inc" /\ pendingSec > 0
      \/ TrainPin = "sec_dec" /\ pendingSec < 0
  BY <1>1, <1>3, <1>4 DEF TrainPin, ScoresOwed, TypeInv, ScoreTrainsIdle
<1> QED
  BY <1>2, <1>3, <1>5, WishTypes DEF TypeInv, TypeOK, ScoreTrainsIdle, PinAgrees, train, Pins

\* A pulse that ends moves the delta of its pin towards 0, or takes a snapshot.
LEMMA PulseEndStep ==
    ASSUME TypeInv, CommandPulseEnd \/ FreezePulseEnd \/ RestopPulseEnd \/ TrainPulseEnd
    PROVE  TypeInv'
<1>1. /\ pin' = "low" /\ late' = FALSE /\ pc' \in {"loop", "blink"}
      /\ drifted' \in BOOLEAN
      /\ UNCHANGED <<sb, queue, noticed, target, board, wire, asked, steady>>
  BY DEF CommandPulseEnd, FreezePulseEnd, RestopPulseEnd, TrainPulseEnd, PulseEnd, AfterPulse,
         TypeInv, TypeOK
<1>2. /\ pendingHomeDec' = 0 /\ pendingAwayDec' = 0
      /\ pendingMin' \in Deltas(MaxMin) /\ pendingSec' \in Deltas(MaxSec)
      /\ onTrack' \in BOOLEAN
  <2>1. CASE CommandPulseEnd \/ RestopPulseEnd
    BY <2>1 DEF CommandPulseEnd, RestopPulseEnd, train, TypeInv, TypeOK, ScoreTrainsIdle
  <2>2. CASE FreezePulseEnd
    <3>1. target.min \in Minutes /\ target.sec \in Seconds
      BY DEF TypeInv, TypeOK
    <3>2. /\ Snapshot(sb, target.min, target.sec)
          /\ UNCHANGED <<pendingHomeDec, pendingAwayDec>>
      BY <2>2 DEF FreezePulseEnd
    <3>3. /\ pendingMin' \in Deltas(MaxMin) /\ pendingSec' \in Deltas(MaxSec)
          /\ onTrack' \in BOOLEAN
      BY <3>1, <3>2, SnapshotType
    <3> QED
      BY <3>2, <3>3 DEF TypeInv, ScoreTrainsIdle
  <2>3. CASE TrainPulseEnd
    <3>1. pendingMin \in Deltas(MaxMin) /\ pendingSec \in Deltas(MaxSec)
      BY DEF TypeInv, TypeOK
    <3>2. \/ pin = "min_inc" /\ pendingMin > 0
          \/ pin = "min_dec" /\ pendingMin < 0
          \/ pin = "sec_inc" /\ pendingSec > 0
          \/ pin = "sec_dec" /\ pendingSec < 0
      BY <2>3 DEF TrainPulseEnd, PulseEnd, TypeInv, PinAgrees
    <3>3. /\ pendingMin' = IF pin = "min_inc" THEN pendingMin - 1
                           ELSE IF pin = "min_dec" THEN pendingMin + 1 ELSE pendingMin
          /\ pendingSec' = IF pin = "sec_inc" THEN pendingSec - 1
                           ELSE IF pin = "sec_dec" THEN pendingSec + 1 ELSE pendingSec
      BY <2>3 DEF TrainPulseEnd
    <3>4. pendingMin' \in Deltas(MaxMin) /\ pendingSec' \in Deltas(MaxSec)
      BY <3>1, <3>2, <3>3, ScoreboardAssumption DEF Deltas
    <3>5. onTrack' \in BOOLEAN /\ pendingHomeDec' = 0 /\ pendingAwayDec' = 0
      BY <2>3, <3>2 DEF TrainPulseEnd, TypeInv, TypeOK, ScoreTrainsIdle
    <3> QED
      BY <3>4, <3>5
  <2> QED
    BY <2>1, <2>2, <2>3
<1> QED
  BY <1>1, <1>2 DEF TypeInv, TypeOK, ScoreTrainsIdle, PinAgrees

\* What the phones, the other tasks, the scoreboard and time do.
LEMMA SurroundingStep ==
    ASSUME TypeInv,
           BlinkEnd \/ (\E c \in Commands : Send(c)) \/ Refresh \/ ReadFrame \/ UNCHANGED vars
    PROVE  TypeInv'
<1>1. CASE BlinkEnd
  BY <1>1 DEF BlinkEnd, TypeInv, TypeOK, ScoreTrainsIdle, PinAgrees, train, ghost
<1>2. CASE \E c \in Commands : Send(c)
  <2>1. PICK c \in Command : Send(c)
    BY <1>2, BoardAssumption
  <2>2. queue' \in Seq(Command)
    BY <2>1, AppendProperties DEF Send, TypeInv, TypeOK
  <2> QED
    BY <2>1, <2>2 DEF Send, TypeInv, TypeOK, ScoreTrainsIdle, PinAgrees, task, train, ghost
<1>3. CASE Refresh
  <2>1. sb' \in ScoreboardState
    BY <1>3, RefreshType DEF Refresh, TypeInv, TypeOK
  <2> QED
    BY <1>3, <2>1 DEF Refresh, TypeInv, TypeOK, ScoreTrainsIdle, PinAgrees, task, train, ghost
<1>4. CASE ReadFrame
  <2>1. wire \in Seq(Frame) /\ wire # <<>> /\ sb \in ScoreboardState
    BY <1>4 DEF ReadFrame, TypeInv, TypeOK
  <2>2. Head(wire) \in Frame /\ Tail(wire) \in Seq(Frame)
    BY <2>1, HeadTailProperties
  <2>3. Head(wire).min \in Minutes /\ Head(wire).sec \in Seconds
    BY <2>2 DEF Frame
  <2>4. sb' \in ScoreboardState /\ wire' \in Seq(Frame)
    BY <1>4, <2>1, <2>2, <2>3, SetClockType DEF ReadFrame
  <2> QED
    BY <1>4, <2>4 DEF ReadFrame, TypeInv, TypeOK, ScoreTrainsIdle, PinAgrees, task, train, ghost
<1>5. CASE UNCHANGED vars
  BY <1>5 DEF vars, TypeInv, TypeOK, ScoreTrainsIdle, PinAgrees, task, train, ghost
<1> QED
  BY <1>1, <1>2, <1>3, <1>4, <1>5

\* The scoreboard, its buttons, time and a reboot keep the types of the display.
LEMMA ScoreboardStep ==
    ASSUME TypeInv, Notice \/ (\E button \in Buttons : Press(button)) \/ Tick \/ Reboot
    PROVE  TypeInv'
<1>1. board \in Board /\ wire \in Seq(Frame) /\ steady \in 0..SteadyCap /\ sb \in ScoreboardState
  BY DEF TypeInv, TypeOK
<1>2. SteadyCap \in Nat
  BY BoardAssumption DEF SteadyCap
<1>3. CASE Notice
  <2>1. board' \in Board
    BY <1>1, <1>3, ReactType DEF Notice, TypeInv, TypeOK
  <2>2. wire' \in Seq(Frame)
    BY <1>1, <1>3, <2>1, TransmitType DEF Notice
  <2>3. steady' \in 0..SteadyCap
    BY <1>1, <1>2, <1>3 DEF Notice
  <2> QED
    BY <1>3, <2>1, <2>2, <2>3 DEF Notice, TypeInv, TypeOK, ScoreTrainsIdle, PinAgrees, train
<1>4. CASE \E button \in Buttons : Press(button)
  <2>1. PICK button \in Pins : Press(button)
    BY <1>4, BoardAssumption
  <2>2. board' \in Board
    BY <1>1, <2>1, ReactType DEF Press
  <2>3. wire' \in Seq(Frame)
    BY <1>1, <2>1, <2>2, TransmitType DEF Press
  <2>4. steady' \in 0..SteadyCap
    BY <1>1, <1>2, <2>1 DEF Press
  <2> QED
    BY <2>1, <2>2, <2>3, <2>4 DEF Press, TypeInv, TypeOK, ScoreTrainsIdle, PinAgrees, task, train
<1>5. CASE Tick
  <2>1. sb' \in ScoreboardState
    BY <1>1, <1>5, ElapseType DEF Tick
  <2>2. board' \in Board
    <3>1. board.phase + 1 < SecondTicks => [board EXCEPT !.phase = @ + 1] \in Board
      <4>1. board.phase \in 0..(SecondTicks - 1)
        BY <1>1 DEF Board
      <4>2. board.phase + 1 < SecondTicks => board.phase + 1 \in 0..(SecondTicks - 1)
        BY <4>1, BoardAssumption
      <4> QED
        BY <1>1, <4>2 DEF Board
    <3> QED
      BY <1>1, <1>5, <3>1, CountDownType DEF Tick
  <2>3. [i \in 1..Len(wire) |-> [wire[i] EXCEPT !.lag = @ + 1]] \in Seq(Frame)
    BY <1>1, <1>5, AgedFrames DEF Tick
  <2>4. wire' \in Seq(Frame)
    BY <1>5, <2>2, <2>3, TransmitType DEF Tick
  <2>5. steady' \in 0..SteadyCap
    BY <1>1, <1>2, <1>5 DEF Tick
  <2>6. late' \in BOOLEAN /\ onTrack' \in BOOLEAN
    BY <1>5 DEF Tick, BoardReady, TypeInv, TypeOK
  <2> QED
    BY <1>5, <2>1, <2>2, <2>4, <2>5, <2>6
       DEF Tick, TypeInv, TypeOK, ScoreTrainsIdle, PinAgrees, task, train
<1>6. CASE Reboot
  <2>1. [min |-> board.min, sec |-> board.sec, lag |-> 0] \in Frame
    BY <1>1, BoardAssumption DEF Board, Frame
  <2>2. wire' \in Seq(Frame)
    BY <1>6, <2>1, SeqDef DEF Reboot
  <2>3. sb' \in ScoreboardState
    BY <1>6, InitType DEF Reboot
  <2>4. 0 \in Deltas(MaxMin) /\ 0 \in Deltas(MaxSec) /\ 0 \in Minutes /\ 0 \in Seconds
    BY ScoreboardAssumption DEF Deltas, Minutes, Seconds
  <2>5. queue' \in Seq(Command)
    BY <1>6 DEF Reboot
  <2>6. /\ target' \in [min : Minutes, sec : Seconds]
        /\ pendingMin' \in Deltas(MaxMin) /\ pendingSec' \in Deltas(MaxSec)
        /\ steady' \in 0..SteadyCap
    BY <1>2, <1>6, <2>4 DEF Reboot
  <2>7. asked' \in Wish /\ drifted' \in BOOLEAN /\ board' \in Board
    BY <1>1, <1>6, WishTypes DEF Reboot
  <2> QED
    BY <1>6, <2>2, <2>3, <2>5, <2>6, <2>7
       DEF Reboot, TypeInv, TypeOK, ScoreTrainsIdle, PinAgrees
<1> QED
  BY <1>3, <1>4, <1>5, <1>6

\* Every step keeps the types and leaves the score trains idle.
LEMMA TypeStep == TypeInv /\ [Next]_vars => TypeInv'
<1> SUFFICES ASSUME TypeInv, [Next]_vars PROVE TypeInv'
  OBVIOUS
<1> QED
  BY LedStep, StartStopStep, ScoreStep, ZeroStep, ResetAuxStep, SetTimerStep, TrainStep,
     PulseEndStep, SurroundingStep, ScoreboardStep
     DEF Next, BoardStep, TakeCommand

\* The types hold, and the task never leaves a pin high that it is not pulsing.
THEOREM TypeCorrect == Spec => [](TypeOK /\ PinAgrees)
<1>1. Init => TypeInv
  BY TypeInit
<1>2. TypeInv /\ [Next]_vars => TypeInv'
  BY TypeStep
<1>3. TypeInv => TypeOK /\ PinAgrees
  BY DEF TypeInv
<1> QED
  BY <1>1, <1>2, <1>3, PTL DEF Spec

\* The trains of score decrements stay idle: whatever the phones send, the
\* branches of board_task that step them are never taken.
THEOREM ScoreTrainsStayIdle == Spec => []ScoreTrainsIdle
<1>1. TypeInv => ScoreTrainsIdle
  BY DEF TypeInv
<1> QED
  BY <1>1, TypeInit, TypeStep, PTL DEF Spec

-----------------------------------------------------------------------------
(* What the phones are told.                                               *)

\* Each operation of ScoreboardState announces what it changed, and every
\* step leaves the state as one of them makes it.
LEMMA AnnouncedCommand ==
    ASSUME TypeInv, AnnouncedIsVisible, TakeCommand
    PROVE  AnnouncedIsVisible'
<1>1. sb \in ScoreboardState /\ sb.announced = Visible(sb)
  BY DEF TypeInv, TypeOK, AnnouncedIsVisible
<1>2. CASE \E s \in ScoreboardState : sb' = Publish(s)
  BY <1>2, PublishType DEF AnnouncedIsVisible
<1>3. CASE \E want \in Wish : sb' = AfterRequest(sb, want)
  BY <1>1, <1>3, AfterRequestType DEF AnnouncedIsVisible
<1>4. CASE sb' = ForgetPending(sb) \/ sb' = sb
  BY <1>1, <1>4, ForgetType DEF AnnouncedIsVisible
<1>5. CASE LedOn \/ LedOff
  <2>1. \A on \in BOOLEAN : [sb EXCEPT !.led = on] \in ScoreboardState
    BY <1>1 DEF ScoreboardState
  <2> QED
    BY <1>2, <1>5, <2>1 DEF LedOn, LedOff, Led
<1>6. CASE HomeInc \/ HomeDec \/ AwayInc \/ AwayDec
  <2>1. sb.home \in Scores /\ sb.away \in Scores
    BY <1>1 DEF ScoreboardState
  <2>2. /\ sb.home < ScoreMax => sb.home + 1 \in Scores
        /\ sb.home > 0 => sb.home - 1 \in Scores
        /\ sb.away < ScoreMax => sb.away + 1 \in Scores
        /\ sb.away > 0 => sb.away - 1 \in Scores
    BY <2>1, ScoreboardAssumption DEF Scores
  <2>3. /\ sb.home < ScoreMax => [sb EXCEPT !.home = @ + 1] \in ScoreboardState
        /\ sb.home > 0 => [sb EXCEPT !.home = @ - 1] \in ScoreboardState
        /\ sb.away < ScoreMax => [sb EXCEPT !.away = @ + 1] \in ScoreboardState
        /\ sb.away > 0 => [sb EXCEPT !.away = @ - 1] \in ScoreboardState
    BY <1>1, <2>2 DEF ScoreboardState
  <2> QED
    BY <1>2, <1>4, <1>6, <2>3 DEF HomeInc, HomeDec, AwayInc, AwayDec, Score
<1>7. CASE ScoresZero
  <2>1. 0 \in Scores
    BY ScoreboardAssumption DEF Scores
  <2>2. [sb EXCEPT !.home = 0, !.away = 0] \in ScoreboardState
    BY <1>1, <2>1 DEF ScoreboardState
  <2> QED
    BY <1>2, <1>7, <2>2 DEF ScoresZero
<1>8. CASE Start \/ Stop \/ StartStop \/ SetTimer
  BY <1>3, <1>8, WishTypes DEF Start, Stop, StartStop, StartStopFor, SetTimer
<1>9. CASE Reset \/ Aux
  BY <1>4, <1>9 DEF Reset, Aux
<1> QED
  BY <1>5, <1>6, <1>7, <1>8, <1>9 DEF TakeCommand

\* Every step leaves the announcement equal to what is visible.
LEMMA AnnouncedStep == TypeInv /\ AnnouncedIsVisible /\ [Next]_vars => AnnouncedIsVisible'
<1> SUFFICES ASSUME TypeInv, AnnouncedIsVisible, [Next]_vars PROVE AnnouncedIsVisible'
  OBVIOUS
<1>1. sb \in ScoreboardState /\ sb.announced = Visible(sb)
  BY DEF TypeInv, TypeOK, AnnouncedIsVisible
<1>2. CASE TakeCommand
  BY <1>2, AnnouncedCommand
<1>3. CASE Restop \/ TrainPulse
  <2>1. sb' = sb \/ sb' = AfterRequest(sb, "stop")
    BY <1>3 DEF Restop, TrainPulse
  <2> QED
    BY <1>1, <2>1, AfterRequestType, WishTypes DEF AnnouncedIsVisible
<1>4. CASE \/ CommandPulseEnd \/ FreezePulseEnd \/ RestopPulseEnd \/ TrainPulseEnd \/ BlinkEnd
           \/ (\E c \in Commands : Send(c)) \/ Notice \/ (\E button \in Buttons : Press(button))
           \/ UNCHANGED vars
  <2>1. sb' = sb
    BY <1>4 DEF CommandPulseEnd, FreezePulseEnd, RestopPulseEnd, TrainPulseEnd, PulseEnd, BlinkEnd,
                Send, Notice, Press, vars
  <2> QED
    BY <1>1, <2>1 DEF AnnouncedIsVisible
<1>5. CASE Refresh
  BY <1>1, <1>5, RefreshType DEF Refresh, AnnouncedIsVisible
<1>6. CASE ReadFrame
  <2>1. Head(wire) \in Frame
    BY <1>6, HeadTailProperties DEF ReadFrame, TypeInv, TypeOK
  <2>2. Head(wire).min \in Minutes /\ Head(wire).sec \in Seconds
    BY <2>1 DEF Frame
  <2> QED
    BY <1>1, <1>6, <2>2, SetClockType DEF ReadFrame, AnnouncedIsVisible
<1>7. CASE Tick \/ Reboot
  BY <1>1, <1>7, ElapseType, InitType DEF Tick, Reboot, AnnouncedIsVisible
<1> QED
  BY <1>2, <1>3, <1>4, <1>5, <1>6, <1>7 DEF Next, BoardStep

\* No path of the firmware leaves a visible change unannounced: whatever the
\* phones, the UART and the scoreboard do, a stream that compares the last
\* announcement with what it sent misses nothing.
THEOREM Announced == Spec => []AnnouncedIsVisible
<1>1. Init => AnnouncedIsVisible
  BY InitType DEF Init, AnnouncedIsVisible
<1> QED
  BY <1>1, TypeInit, TypeStep, AnnouncedStep, PTL DEF Spec

-----------------------------------------------------------------------------
(* Set-timer: the pulses owed and the display add up to the target.        *)

\* Commands: only a set-timer that needs no freeze starts an account, from a
\* snapshot that agrees with the display.
LEMMA TrainAddsUpCommand ==
    ASSUME TypeInv, TrainAddsUp, TakeCommand
    PROVE  TrainAddsUp'
<1>1. pc = "loop" /\ board' = board /\ pc' # "train"
  BY DEF TakeCommand, LedOn, LedOff, Led, Start, Stop, StartStop, StartStopFor, HomeInc, HomeDec,
         AwayInc, AwayDec, Score, ScoresZero, Reset, SetTimer, Aux, Receive, Raised, AfterPulse, task
<1>2. CASE ~SetTimer /\ ~Reset
  <2>1. UNCHANGED <<target, pendingMin, pendingSec, onTrack>>
    BY <1>2 DEF TakeCommand, LedOn, LedOff, Led, Start, Stop, StartStop, StartStopFor, HomeInc,
         HomeDec, AwayInc, AwayDec, Score, ScoresZero, Aux, task, train
  <2> QED
    BY <1>1, <2>1 DEF TrainAddsUp, StepsOwed
<1>3. CASE Reset
  BY <1>3 DEF Reset, TrainAddsUp
<1>4. CASE SetTimer /\ onTrack'
  <2> DEFINE min == Clamp(Head(queue).min, MaxMin)
             sec == Clamp(Head(queue).sec, MaxSec)
  <2>1. Head(queue) \in Command
    BY <1>4, ReceiveType DEF SetTimer
  <2>2. min \in Minutes /\ sec \in Seconds
    BY <2>1, ClampType DEF Command
  <2> HIDE DEF min, sec
  <2>3. target' = [min |-> min, sec |-> sec] /\ Snapshot(sb, min, sec)
    BY <1>4 DEF SetTimer, min, sec
  <2>4. sb.min \in Minutes /\ sb.sec \in Seconds /\ board.min = sb.min /\ board.sec = sb.sec
    BY <1>4, <2>3 DEF Snapshot, SameTime, TypeInv, TypeOK, ScoreboardState
  <2>5. pendingMin' = min - sb.min /\ pendingSec' = sec - sb.sec
    BY <2>3 DEF Snapshot
  <2>6. board.min + pendingMin' = min /\ board.sec + pendingSec' = sec
    BY <2>2, <2>4, <2>5, ScoreboardAssumption DEF Minutes, Seconds
  <2> QED
    BY <1>1, <2>3, <2>6 DEF TrainAddsUp, StepsOwed
<1>5. CASE SetTimer /\ ~onTrack'
  BY <1>5 DEF TrainAddsUp
<1> QED
  BY <1>2, <1>3, <1>4, <1>5

\* Pulses: the reaction to a train pulse and its end each move one side of the
\* account, and a pulse nobody noticed closes it.
LEMMA TrainAddsUpPulse ==
    ASSUME TypeInv, TrainAddsUp,
           \/ Restop \/ TrainPulse \/ BlinkEnd
           \/ CommandPulseEnd \/ FreezePulseEnd \/ RestopPulseEnd \/ TrainPulseEnd
    PROVE  TrainAddsUp'
<1>1. CASE Restop \/ TrainPulse
  <2>1. /\ pc = "loop" /\ noticed' = FALSE
        /\ UNCHANGED <<target, pendingMin, pendingSec, board, onTrack>>
    BY <1>1 DEF Restop, TrainPulse, Train, Raised, train
  <2> QED
    BY <2>1 DEF TrainAddsUp, StepsOwed
<1>2. CASE BlinkEnd \/ CommandPulseEnd \/ RestopPulseEnd
  <2>1. /\ pc # "train" /\ pc' # "train"
        /\ UNCHANGED <<target, pendingMin, pendingSec, board, onTrack>>
    BY <1>2 DEF BlinkEnd, CommandPulseEnd, RestopPulseEnd, PulseEnd, AfterPulse, train, ghost
  <2> QED
    BY <2>1 DEF TrainAddsUp, StepsOwed
<1>3. CASE FreezePulseEnd
  <2>1. /\ target' = target /\ board' = board /\ pc' = "loop"
        /\ Snapshot(sb, target.min, target.sec)
    BY <1>3 DEF FreezePulseEnd, PulseEnd
  <2>2. target.min \in Minutes /\ target.sec \in Seconds /\ sb.min \in Minutes /\ sb.sec \in Seconds
    BY DEF TypeInv, TypeOK, ScoreboardState
  <2>3. onTrack' => board.min = sb.min /\ board.sec = sb.sec
    BY <2>1 DEF Snapshot, SameTime
  <2>4. pendingMin' = target.min - sb.min /\ pendingSec' = target.sec - sb.sec
    BY <2>1 DEF Snapshot
  <2>5. onTrack' => board.min + pendingMin' = target.min /\ board.sec + pendingSec' = target.sec
    BY <2>2, <2>3, <2>4, ScoreboardAssumption DEF Minutes, Seconds
  <2> QED
    BY <2>1, <2>5 DEF TrainAddsUp, StepsOwed
<1>4. CASE TrainPulseEnd
  <2>1. /\ pc = "train" /\ pc' = "loop" /\ UNCHANGED <<target, board>>
        /\ onTrack' => onTrack /\ noticed
    BY <1>4 DEF TrainPulseEnd, PulseEnd
  <2>2. /\ pendingMin' = IF pin = "min_inc" THEN pendingMin - 1
                         ELSE IF pin = "min_dec" THEN pendingMin + 1 ELSE pendingMin
        /\ pendingSec' = IF pin = "sec_inc" THEN pendingSec - 1
                         ELSE IF pin = "sec_dec" THEN pendingSec + 1 ELSE pendingSec
    BY <1>4 DEF TrainPulseEnd
  <2> QED
    BY <2>1, <2>2 DEF TrainAddsUp, StepsOwed
<1> QED
  BY <1>1, <1>2, <1>3, <1>4

\* The scoreboard: a step of the train is possible, since what is owed leads
\* to a time it can show.
LEMMA TrainAddsUpNotice ==
    ASSUME TypeInv, TrainAddsUp, Notice
    PROVE  TrainAddsUp'
<1>1. CASE ~onTrack'
  BY <1>1 DEF TrainAddsUp
<1>2. CASE onTrack' /\ pc # "train"
  <2>1. SameTime(board, board') /\ onTrack /\ UNCHANGED <<target, pc, pendingMin, pendingSec>>
    BY <1>2 DEF Notice, train
  <2> QED
    BY <1>2, <2>1 DEF TrainAddsUp, StepsOwed, SameTime
<1>3. CASE onTrack' /\ pc = "train"
  <2>1. /\ onTrack /\ ~noticed /\ noticed' = TRUE /\ board' \in React(board, pin)
        /\ UNCHANGED <<target, pc, pin, pendingMin, pendingSec>>
    BY <1>3 DEF Notice, train
  <2>2. board.min + pendingMin = target.min /\ board.sec + pendingSec = target.sec
    BY <2>1 DEF TrainAddsUp, StepsOwed
  <2>3. /\ board \in Board /\ board.min \in Minutes /\ board.sec \in Seconds
        /\ target.min \in Minutes /\ target.sec \in Seconds
        /\ pendingMin \in Int /\ pendingSec \in Int
    BY ScoreboardAssumption DEF TypeInv, TypeOK, Board, Deltas
  <2>4. CASE pin = "min_inc" /\ pendingMin > 0
    <3>1. board.min < MaxMin
      BY <2>2, <2>3, <2>4, ScoreboardAssumption DEF Minutes
    <3>2. board' = [board EXCEPT !.min = board.min + 1]
      BY <2>1, <2>4, <3>1 DEF React, Raise
    <3>3. board'.min = board.min + 1 /\ board'.sec = board.sec
      BY <2>3, <3>2 DEF Board
    <3> QED
      BY <1>3, <2>1, <2>2, <2>3, <2>4, <3>3 DEF TrainAddsUp, StepsOwed, Minutes
  <2>5. CASE pin = "min_dec" /\ pendingMin < 0
    <3>1. board.min > 0
      BY <2>2, <2>3, <2>5, ScoreboardAssumption DEF Minutes
    <3>2. board' = [board EXCEPT !.min = board.min - 1]
      BY <2>1, <2>5, <3>1 DEF React, Lower
    <3>3. board'.min = board.min - 1 /\ board'.sec = board.sec
      BY <2>3, <3>2 DEF Board
    <3> QED
      BY <1>3, <2>1, <2>2, <2>3, <2>5, <3>3 DEF TrainAddsUp, StepsOwed, Minutes
  <2>6. CASE pin = "sec_inc" /\ pendingSec > 0
    <3>1. board.sec < MaxSec
      BY <2>2, <2>3, <2>6, ScoreboardAssumption DEF Seconds
    <3>2. board' = [board EXCEPT !.sec = board.sec + 1]
      BY <2>1, <2>6, <3>1 DEF React, Raise
    <3>3. board'.sec = board.sec + 1 /\ board'.min = board.min
      BY <2>3, <3>2 DEF Board
    <3> QED
      BY <1>3, <2>1, <2>2, <2>3, <2>6, <3>3 DEF TrainAddsUp, StepsOwed, Seconds
  <2>7. CASE pin = "sec_dec" /\ pendingSec < 0
    <3>1. board.sec > 0
      BY <2>2, <2>3, <2>7, ScoreboardAssumption DEF Seconds
    <3>2. board' = [board EXCEPT !.sec = board.sec - 1]
      BY <2>1, <2>7, <3>1 DEF React, Lower
    <3>3. board'.sec = board.sec - 1 /\ board'.min = board.min
      BY <2>3, <3>2 DEF Board
    <3> QED
      BY <1>3, <2>1, <2>2, <2>3, <2>7, <3>3 DEF TrainAddsUp, StepsOwed, Seconds
  <2> QED
    BY <1>3, <2>4, <2>5, <2>6, <2>7 DEF TypeInv, PinAgrees
<1> QED
  BY <1>1, <1>2, <1>3

\* Every step keeps the account of the train.
LEMMA TrainAddsUpStep == TypeInv /\ TrainAddsUp /\ [Next]_vars => TrainAddsUp'
<1> SUFFICES ASSUME TypeInv, TrainAddsUp, [Next]_vars PROVE TrainAddsUp'
  OBVIOUS
<1>1. CASE (\E c \in Commands : Send(c)) \/ Refresh \/ ReadFrame \/ UNCHANGED vars
  <2>1. UNCHANGED <<pc, pin, noticed, target, pendingMin, pendingSec, board, onTrack>>
    BY <1>1 DEF Send, Refresh, ReadFrame, vars, task, train, ghost
  <2> QED
    BY <2>1 DEF TrainAddsUp, StepsOwed
<1>2. CASE (\E button \in Buttons : Press(button)) \/ Tick
  <2>1. UNCHANGED <<pc, pin, noticed, target, pendingMin, pendingSec>>
    BY <1>2 DEF Press, Tick, task, train
  <2>2. onTrack' => onTrack /\ SameTime(board, board')
    <3>1. CASE Tick
      BY <3>1 DEF Tick, SameTime, TypeInv, TypeOK, Board, Run
    <3>2. CASE \E button \in Buttons : Press(button)
      BY <3>2 DEF Press
    <3> QED
      BY <1>2, <3>1, <3>2
  <2> QED
    BY <2>1, <2>2 DEF TrainAddsUp, StepsOwed, SameTime
<1>3. CASE Reboot
  BY <1>3 DEF Reboot, TrainAddsUp
<1> QED
  BY <1>1, <1>2, <1>3, TrainAddsUpCommand, TrainAddsUpPulse, TrainAddsUpNotice DEF Next, BoardStep

\* The display plus the pulses owed is the time that was set, through every
\* interleaving of the train with other commands, freezes and frames: the
\* train counts each of its pulses exactly once.
THEOREM TrainCountsItsPulses == Spec => []TrainAddsUp
<1>1. Init => TrainAddsUp
  BY DEF Init, TrainAddsUp
<1> QED
  BY <1>1, TypeInit, TypeStep, TrainAddsUpStep, PTL DEF Spec

-----------------------------------------------------------------------------
(* The scores.  Between the moment a score is counted and the moment the   *)
(* scoreboard notices the pulse the two differ by that pulse; while a      *)
(* clear is under way the scoreboard may show anything.                    *)

Shown(score, inc, dec) ==
    IF pin = inc /\ ~noticed THEN score - 1 ELSE IF pin = dec /\ ~noticed THEN score + 1 ELSE score

MirrorInv ==
    /\ pin = "clear" => sb.home = 0 /\ sb.away = 0
    /\ ~drifted /\ (pin = "clear" => noticed) =>
          /\ board.home = Shown(sb.home, "home_inc", "home_dec")
          /\ board.away = Shown(sb.away, "away_inc", "away_dec")

ScorePins == {"home_inc", "home_dec", "away_inc", "away_dec", "clear"}

\* A step that neither counts a score nor touches a pin of the scores.
LEMMA MirrorUnmoved ==
    ASSUME MirrorInv, drifted' = drifted,
           sb'.home = sb.home, sb'.away = sb.away,
           board'.home = board.home, board'.away = board.away,
           \/ UNCHANGED <<pin, noticed>>
           \/ pin \notin ScorePins /\ pin' \notin ScorePins
    PROVE  MirrorInv'
BY DEF MirrorInv, Shown, ScorePins

\* A command: a score that is counted has its pin raised, so they differ by one pulse.
LEMMA MirrorCommand ==
    ASSUME TypeInv, MirrorInv, TakeCommand
    PROVE  MirrorInv'
<1>1. sb \in ScoreboardState /\ sb.home \in Scores /\ sb.away \in Scores
  BY DEF TypeInv, TypeOK, ScoreboardState
<1>2. /\ pin = "low" /\ board' = board /\ drifted' = drifted
      /\ pendingHomeDec = 0 /\ pendingAwayDec = 0
  BY DEF TakeCommand, LedOn, LedOff, Led, Start, Stop, StartStop, StartStopFor, HomeInc, HomeDec,
         AwayInc, AwayDec, Score, ScoresZero, Reset, SetTimer, Aux, Receive,
         TypeInv, TypeOK, ScoreTrainsIdle
<1>3. CASE \/ LedOn \/ LedOff \/ Start \/ Stop \/ StartStop \/ SetTimer \/ Reset \/ Aux
  <2>1. pin' \notin ScorePins
    BY <1>2, <1>3 DEF LedOn, LedOff, Led, Start, Stop, StartStop, StartStopFor, SetTimer, Reset, Aux,
                Raised, ScorePins, task
  <2>2. sb'.home = sb.home /\ sb'.away = sb.away
    <3>1. CASE LedOn \/ LedOff
      <4>1. PICK on \in BOOLEAN : sb' = Publish([sb EXCEPT !.led = on])
        BY <3>1 DEF LedOn, LedOff, Led
      <4>2. [sb EXCEPT !.led = on] \in ScoreboardState
        BY <1>1 DEF ScoreboardState
      <4>3. [sb EXCEPT !.led = on].home = sb.home /\ [sb EXCEPT !.led = on].away = sb.away
        BY <1>1 DEF ScoreboardState
      <4> QED
        BY <4>1, <4>2, <4>3, PublishType
    <3>2. CASE Start \/ Stop \/ StartStop \/ SetTimer
      <4>1. \E want \in Wish : sb' = AfterRequest(sb, want)
        BY <3>2, WishTypes DEF Start, Stop, StartStop, StartStopFor, SetTimer
      <4> QED
        BY <1>1, <4>1, AfterRequestType
    <3>3. CASE Reset \/ Aux
      BY <1>1, <3>3, ForgetType DEF Reset, Aux
    <3> QED
      BY <1>3, <3>1, <3>2, <3>3
  <2> QED
    BY <1>2, <2>1, <2>2, MirrorUnmoved DEF ScorePins
<1>4. CASE ScoresZero
  <2>1. [sb EXCEPT !.home = 0, !.away = 0] \in ScoreboardState
    <3>1. 0 \in Scores
      BY ScoreboardAssumption DEF Scores
    <3> QED
      BY <1>1, <3>1 DEF ScoreboardState
  <2>2. sb'.home = 0 /\ sb'.away = 0
    <3>1. /\ [sb EXCEPT !.home = 0, !.away = 0].home = 0
          /\ [sb EXCEPT !.home = 0, !.away = 0].away = 0
      BY <1>1 DEF ScoreboardState
    <3> QED
      BY <1>4, <2>1, <3>1, PublishType DEF ScoresZero
  <2>3. pin' = "clear" /\ noticed' = FALSE
    BY <1>4 DEF ScoresZero, Raised
  <2> QED
    BY <2>2, <2>3 DEF MirrorInv
<1>5. CASE HomeInc
  <2> DEFINE scored == [sb EXCEPT !.home = @ + 1]
  <2>1. CASE ~(sb.home < ScoreMax)
    <3>1. UNCHANGED <<sb, pin, noticed>>
      BY <1>5, <2>1 DEF HomeInc, Score
    <3> QED
      BY <1>2, <3>1, MirrorUnmoved
  <2>2. CASE sb.home < ScoreMax
    <3>1. sb.home + 1 \in Scores
      BY <1>1, <2>2, ScoreboardAssumption DEF Scores
    <3>2. scored \in ScoreboardState /\ scored.home = sb.home + 1 /\ scored.away = sb.away
      BY <1>1, <3>1 DEF ScoreboardState
    <3>3. sb' = Publish(scored) /\ pin' = "home_inc" /\ noticed' = FALSE
      BY <1>2, <1>5, <2>2 DEF HomeInc, Score, Raised
    <3> HIDE DEF scored
    <3>4. sb'.home = sb.home + 1 /\ sb'.away = sb.away
      BY <3>2, <3>3, PublishType
    <3>5. sb.home \in Int /\ sb.away \in Int
      BY <1>1, ScoreboardAssumption DEF Scores
    <3> QED
      BY <1>2, <3>3, <3>4, <3>5 DEF MirrorInv, Shown
  <2> QED
    BY <2>1, <2>2
<1>6. CASE HomeDec
  <2> DEFINE scored == [sb EXCEPT !.home = @ - 1]
  <2>1. CASE ~(sb.home > 0)
    <3>1. UNCHANGED <<sb, pin, noticed>>
      BY <1>6, <2>1 DEF HomeDec, Score
    <3> QED
      BY <1>2, <3>1, MirrorUnmoved
  <2>2. CASE sb.home > 0
    <3>1. sb.home - 1 \in Scores
      BY <1>1, <2>2, ScoreboardAssumption DEF Scores
    <3>2. scored \in ScoreboardState /\ scored.home = sb.home - 1 /\ scored.away = sb.away
      BY <1>1, <3>1 DEF ScoreboardState
    <3>3. sb' = Publish(scored) /\ pin' = "home_dec" /\ noticed' = FALSE
      BY <1>2, <1>6, <2>2 DEF HomeDec, Score, Raised
    <3> HIDE DEF scored
    <3>4. sb'.home = sb.home - 1 /\ sb'.away = sb.away
      BY <3>2, <3>3, PublishType
    <3>5. sb.home \in Int /\ sb.away \in Int
      BY <1>1, ScoreboardAssumption DEF Scores
    <3> QED
      BY <1>2, <3>3, <3>4, <3>5 DEF MirrorInv, Shown
  <2> QED
    BY <2>1, <2>2
<1>7. CASE AwayInc
  <2> DEFINE scored == [sb EXCEPT !.away = @ + 1]
  <2>1. CASE ~(sb.away < ScoreMax)
    <3>1. UNCHANGED <<sb, pin, noticed>>
      BY <1>7, <2>1 DEF AwayInc, Score
    <3> QED
      BY <1>2, <3>1, MirrorUnmoved
  <2>2. CASE sb.away < ScoreMax
    <3>1. sb.away + 1 \in Scores
      BY <1>1, <2>2, ScoreboardAssumption DEF Scores
    <3>2. scored \in ScoreboardState /\ scored.away = sb.away + 1 /\ scored.home = sb.home
      BY <1>1, <3>1 DEF ScoreboardState
    <3>3. sb' = Publish(scored) /\ pin' = "away_inc" /\ noticed' = FALSE
      BY <1>2, <1>7, <2>2 DEF AwayInc, Score, Raised
    <3> HIDE DEF scored
    <3>4. sb'.away = sb.away + 1 /\ sb'.home = sb.home
      BY <3>2, <3>3, PublishType
    <3>5. sb.home \in Int /\ sb.away \in Int
      BY <1>1, ScoreboardAssumption DEF Scores
    <3> QED
      BY <1>2, <3>3, <3>4, <3>5 DEF MirrorInv, Shown
  <2> QED
    BY <2>1, <2>2
<1>8. CASE AwayDec
  <2> DEFINE scored == [sb EXCEPT !.away = @ - 1]
  <2>1. CASE ~(sb.away > 0)
    <3>1. UNCHANGED <<sb, pin, noticed>>
      BY <1>8, <2>1 DEF AwayDec, Score
    <3> QED
      BY <1>2, <3>1, MirrorUnmoved
  <2>2. CASE sb.away > 0
    <3>1. sb.away - 1 \in Scores
      BY <1>1, <2>2, ScoreboardAssumption DEF Scores
    <3>2. scored \in ScoreboardState /\ scored.away = sb.away - 1 /\ scored.home = sb.home
      BY <1>1, <3>1 DEF ScoreboardState
    <3>3. sb' = Publish(scored) /\ pin' = "away_dec" /\ noticed' = FALSE
      BY <1>2, <1>8, <2>2 DEF AwayDec, Score, Raised
    <3> HIDE DEF scored
    <3>4. sb'.away = sb.away - 1 /\ sb'.home = sb.home
      BY <3>2, <3>3, PublishType
    <3>5. sb.home \in Int /\ sb.away \in Int
      BY <1>1, ScoreboardAssumption DEF Scores
    <3> QED
      BY <1>2, <3>3, <3>4, <3>5 DEF MirrorInv, Shown
  <2> QED
    BY <2>1, <2>2
<1> QED
  BY <1>3, <1>4, <1>5, <1>6, <1>7, <1>8 DEF TakeCommand

\* The end of a pulse: a pulse of the scores that nobody noticed is a drift.
LEMMA MirrorPulse ==
    ASSUME TypeInv, MirrorInv,
           \/ Restop \/ TrainPulse \/ BlinkEnd
           \/ CommandPulseEnd \/ FreezePulseEnd \/ RestopPulseEnd \/ TrainPulseEnd
    PROVE  MirrorInv'
<1>1. sb \in ScoreboardState
  BY DEF TypeInv, TypeOK
<1>2. CASE Restop \/ TrainPulse
  <2>1. ~ScoresOwed
    BY DEF ScoresOwed, TypeInv, ScoreTrainsIdle
  <2>2. sb' = AfterRequest(sb, "stop") /\ pin \notin ScorePins /\ pin' \notin ScorePins
    BY <1>2, <2>1 DEF Restop, TrainPulse, Train, TrainPin, Raised, ScoresOwed, ScorePins,
                TypeInv, TypeOK
  <2>3. sb'.home = sb.home /\ sb'.away = sb.away
    BY <1>1, <2>2, AfterRequestType, WishTypes
  <2>4. board' = board /\ drifted' = drifted
    BY <1>2 DEF Restop, TrainPulse, Train
  <2> QED
    BY <2>2, <2>3, <2>4, MirrorUnmoved
<1>3. CASE BlinkEnd
  BY <1>3, MirrorUnmoved DEF BlinkEnd, ghost
<1>4. CASE FreezePulseEnd \/ RestopPulseEnd \/ TrainPulseEnd
  <2>1. pin \in {"start", "min_inc", "min_dec", "sec_inc", "sec_dec"}
    BY <1>4 DEF FreezePulseEnd, RestopPulseEnd, TrainPulseEnd, PulseEnd, TypeInv, PinAgrees
  <2>2. pin' = "low" /\ UNCHANGED <<sb, board, drifted>>
    BY <1>4, <2>1 DEF FreezePulseEnd, RestopPulseEnd, TrainPulseEnd, PulseEnd, TypeInv, TypeOK
  <2>3. pin \notin ScorePins /\ pin' \notin ScorePins
    BY <2>1, <2>2 DEF ScorePins
  <2> QED
    BY <2>2, <2>3, MirrorUnmoved
<1>5. CASE CommandPulseEnd
  <2>1. /\ pin' = "low" /\ UNCHANGED <<sb, board, noticed>>
        /\ drifted' = (drifted \/ (~noticed /\ pin \in ScorePins))
    BY <1>5 DEF CommandPulseEnd, PulseEnd, ScorePins
  <2> QED
    BY <2>1 DEF MirrorInv, Shown, ScorePins
<1> QED
  BY <1>2, <1>3, <1>4, <1>5

\* The scoreboard notices a pulse: its scores catch up with the Pico's.
LEMMA MirrorNotice ==
    ASSUME TypeInv, MirrorInv, Notice
    PROVE  MirrorInv'
<1>1. /\ board \in Board /\ sb.home \in Scores /\ sb.away \in Scores
      /\ board.home \in Scores /\ board.away \in Scores
  BY DEF TypeInv, TypeOK, Board, ScoreboardState
<1>2. /\ ~noticed /\ noticed' = TRUE /\ pin # "low" /\ board' \in React(board, pin)
      /\ drifted' = (drifted /\ pin # "clear") /\ UNCHANGED <<sb, pin>>
  BY DEF Notice
<1>3. CASE pin \notin ScorePins
  <2>1. pin \in Pins
    BY <1>2 DEF TypeInv, TypeOK
  <2>2. board'.home = board.home /\ board'.away = board.away
    <3>1. CASE pin \in {"start", "reset"}
      BY <1>1, <1>2, <3>1 DEF React, Board
    <3>2. CASE pin \in {"min_inc", "min_dec", "sec_inc", "sec_dec", "aux"}
      BY <1>1, <1>2, <3>2 DEF React, Board
    <3> QED
      BY <1>3, <2>1, <3>1, <3>2 DEF Pins, ScorePins
  <2>3. drifted' = drifted
    BY <1>2, <1>3 DEF ScorePins, TypeInv, TypeOK
  <2> QED
    BY <1>2, <1>3, <2>2, <2>3, MirrorUnmoved
<1>4. CASE pin = "clear"
  <2>1. board'.home = 0 /\ board'.away = 0
    BY <1>1, <1>2, <1>4 DEF React, Board
  <2> QED
    BY <1>2, <1>4, <2>1 DEF MirrorInv, Shown
<1>5. CASE pin \in {"home_inc", "home_dec", "away_inc", "away_dec"}
  <2>1. CASE drifted
    BY <1>2, <1>5, <2>1 DEF MirrorInv
  <2>2. CASE ~drifted
    <3>1. /\ board.home = Shown(sb.home, "home_inc", "home_dec")
          /\ board.away = Shown(sb.away, "away_inc", "away_dec")
      BY <1>5, <2>2 DEF MirrorInv
    <3>2. /\ board'.home = IF pin = "home_inc" THEN Raise(board.home, ScoreMax)
                           ELSE IF pin = "home_dec" THEN Lower(board.home, 0) ELSE board.home
          /\ board'.away = IF pin = "away_inc" THEN Raise(board.away, ScoreMax)
                           ELSE IF pin = "away_dec" THEN Lower(board.away, 0) ELSE board.away
      BY <1>1, <1>2, <1>5 DEF React, Board
    <3>3. board'.home = sb.home /\ board'.away = sb.away
      BY <1>1, <1>2, <1>5, <3>1, <3>2, ScoreboardAssumption DEF Shown, Raise, Lower, Scores
    <3> QED
      BY <1>2, <1>5, <3>3 DEF MirrorInv, Shown
  <2> QED
    BY <2>1, <2>2
<1> QED
  BY <1>3, <1>4, <1>5 DEF ScorePins

\* Every step keeps the scoreboard's scores and the Pico's one pulse apart at most.
LEMMA MirrorStep == TypeInv /\ MirrorInv /\ [Next]_vars => MirrorInv'
<1> SUFFICES ASSUME TypeInv, MirrorInv, [Next]_vars PROVE MirrorInv'
  OBVIOUS
<1>1. sb \in ScoreboardState /\ wire \in Seq(Frame) /\ board \in Board
  BY DEF TypeInv, TypeOK
<1>2. CASE (\E c \in Commands : Send(c)) \/ UNCHANGED vars
  BY <1>2, MirrorUnmoved DEF Send, vars, task, ghost
<1>3. CASE Refresh \/ ReadFrame
  <2>1. sb'.home = sb.home /\ sb'.away = sb.away
    <3>1. ReadFrame => Head(wire) \in Frame
      BY <1>1, HeadTailProperties DEF ReadFrame
    <3>2. ReadFrame => Head(wire).min \in Minutes /\ Head(wire).sec \in Seconds
      BY <3>1 DEF Frame
    <3> QED
      BY <1>1, <1>3, <3>2, RefreshType, SetClockType DEF Refresh, ReadFrame
  <2> QED
    BY <1>3, <2>1, MirrorUnmoved DEF Refresh, ReadFrame, task, ghost
<1>4. CASE Tick
  <2>1. sb'.home = sb.home /\ sb'.away = sb.away
    BY <1>1, <1>4, ElapseType DEF Tick
  <2>2. board'.home = board.home /\ board'.away = board.away
    <3>1. \/ board' = board \/ board' = [board EXCEPT !.phase = @ + 1] \/ board' = CountDown(board)
      BY <1>4 DEF Tick
    <3>2. /\ CountDown(board).home = board.home /\ CountDown(board).away = board.away
          /\ [board EXCEPT !.phase = @ + 1].home = board.home
          /\ [board EXCEPT !.phase = @ + 1].away = board.away
      BY <1>1, CountDownType DEF Board
    <3> QED
      BY <3>1, <3>2
  <2> QED
    BY <1>4, <2>1, <2>2, MirrorUnmoved DEF Tick, task
<1>5. CASE \E button \in Buttons : Press(button)
  <2>1. /\ UNCHANGED <<sb, pin, noticed>>
        /\ drifted' = (drifted \/ board'.home # board.home \/ board'.away # board.away)
    BY <1>5 DEF Press, task
  <2> QED
    BY <2>1 DEF MirrorInv, Shown
<1>6. CASE Reboot
  <2>1. /\ pin' = "low" /\ sb' = InitScoreboard /\ board' = board
        /\ drifted' = (board.home # 0 \/ board.away # 0)
    BY <1>6 DEF Reboot
  <2> QED
    BY <2>1, InitType DEF MirrorInv, Shown
<1> QED
  BY <1>2, <1>3, <1>4, <1>5, <1>6, MirrorCommand, MirrorPulse, MirrorNotice DEF Next, BoardStep

\* The scoreboard shows the scores the Pico keeps, for every mix of commands
\* and reboots, as long as each pulse is noticed and nobody presses a score
\* button; after a drift, a noticed ScoresZero restores the agreement.
THEOREM ScoresAgree == Spec => []ScoresMirror
<1>1. Init => MirrorInv
  BY InitType DEF Init, MirrorInv, Shown
<1>2. MirrorInv => ScoresMirror
  BY DEF MirrorInv, Shown, ScoresMirror
<1> QED
  BY <1>1, <1>2, TypeInit, TypeStep, MirrorStep, PTL DEF Spec

-----------------------------------------------------------------------------
(* A clock that counts is reported running.  While it counts undisturbed   *)
(* (steady) each second sends one frame, SecondTicks after the one before, *)
(* with a time that differs; so a frame that is read restarts the age of   *)
(* the clock, and the next one is read at most SecondTicks + MaxLag later. *)

Reported == TotalSeconds(sb.min, sb.sec) # 0 => sb.running = "run"

\* The newest of what was sent and read is what the scoreboard shows.
InSync ==
    /\ Len(wire) = 0 => SameTime(board, sb)
    /\ Len(wire) > 0 => SameTime(board, wire[Len(wire)])

\* phase counts the ticks since the last second, if that was a steady one.
LastSecond ==
    Len(wire) > 0 /\ steady > board.phase => wire[Len(wire)].lag = board.phase

\* A frame sent while steady differs from the one before, which is a second
\* older unless the frame was the first.
Spaced ==
    \A i \in 1..(Len(wire) - 1) : wire[i + 1].lag < steady =>
        /\ ~SameTime(wire[i], wire[i + 1])
        /\ steady > wire[i + 1].lag + SecondTicks =>
              wire[i].lag = wire[i + 1].lag + SecondTicks

\* The frame before the oldest in flight is the one that was read.
HeadSpaced ==
    Len(wire) > 0 =>
        /\ wire[1].lag < steady => ~SameTime(sb, wire[1])
        /\ steady > wire[1].lag + SecondTicks =>
              sb.age <= wire[1].lag + SecondTicks /\ Reported

AllRead ==
    Len(wire) = 0 /\ steady > board.phase => sb.age <= board.phase /\ Reported

CountInv == InSync /\ LastSecond /\ Spaced /\ HeadSpaced /\ AllRead

\* What every task but the reader and the clock leaves of the shared clock.
ClockKept ==
    /\ sb'.min = sb.min /\ sb'.sec = sb.sec /\ sb'.age = sb.age
    /\ \/ sb'.running = sb.running
       \/ sb'.running = ClockIsRunning(sb.min, sb.sec, sb.age)

\* A refresh infers the run state from the time and its age.
LEMMA RefreshRuns ==
    ASSUME NEW s \in ScoreboardState
    PROVE  RefreshRunning(s).running = ClockIsRunning(s.min, s.sec, s.age)
<1> DEFINE running == ClockIsRunning(s.min, s.sec, s.age)
           pending == ResolvePendingRunning(s.pending, running, s.pendingAge)
           t == [s EXCEPT !.running = running, !.pending = pending,
                          !.pendingAge = IF pending = "none" THEN 0 ELSE @]
<1> HIDE DEF running, pending
<1>1. t.running = running
  BY DEF ScoreboardState
<1>2. Publish(t).running = t.running
  BY DEF Publish, ScoreboardState
<1>3. RefreshRunning(s) = Publish(t)
  BY DEF RefreshRunning, running, pending
<1> QED
  BY <1>1, <1>2, <1>3 DEF running

\* So does a start/stop request, which leaves the time alone.
LEMMA RequestRuns ==
    ASSUME NEW s \in ScoreboardState, NEW want
    PROVE  /\ AfterRequest(s, want).min = s.min /\ AfterRequest(s, want).sec = s.sec
           /\ AfterRequest(s, want).age = s.age
           /\ AfterRequest(s, want).running = ClockIsRunning(s.min, s.sec, s.age)
<1> DEFINE r == RefreshRunning(s)
           w == IF want = "none" THEN Opposite(Effective(r)) ELSE want
<1>1. /\ r \in ScoreboardState /\ r.min = s.min /\ r.sec = s.sec /\ r.age = s.age
      /\ r.running = ClockIsRunning(s.min, s.sec, s.age)
  BY RefreshType, RefreshRuns
<1>2. AfterRequest(s, want) = r \/ AfterRequest(s, want) = [r EXCEPT !.pending = w, !.pendingAge = 0]
  BY DEF AfterRequest
<1> HIDE DEF r, w
<1> QED
  BY <1>1, <1>2 DEF ScoreboardState

\* And a frame, from the time it shows.
LEMMA SetClockRuns ==
    ASSUME NEW s \in ScoreboardState, NEW min \in Minutes, NEW sec \in Seconds
    PROVE  SetClock(s, min, sec).running
             = ClockIsRunning(min, sec, IF s.min # min \/ s.sec # sec THEN 0 ELSE s.age)
<1> DEFINE t == [s EXCEPT !.age = IF s.min # min \/ s.sec # sec THEN 0 ELSE @,
                          !.min = min, !.sec = sec]
<1>1. 0 \in Ages
  BY ScoreboardAssumption DEF Ages
<1>2. /\ t \in ScoreboardState /\ t.min = min /\ t.sec = sec
      /\ t.age = IF s.min # min \/ s.sec # sec THEN 0 ELSE s.age
  BY <1>1 DEF ScoreboardState
<1> HIDE DEF t
<1>3. SetClock(s, min, sec) = RefreshRunning(t)
  BY DEF SetClock, t
<1> QED
  BY <1>2, <1>3, RefreshRuns

\* board_task and a refresh keep the clock, and do not touch the scoreboard.
LEMMA KeptStep ==
    ASSUME TypeInv, BoardStep \/ Refresh \/ (\E c \in Commands : Send(c)) \/ UNCHANGED vars
    PROVE  ClockKept /\ UNCHANGED <<board, wire, steady>>
<1>1. sb \in ScoreboardState
  BY DEF TypeInv, TypeOK
<1>2. CASE sb' = sb
  <2>1. UNCHANGED <<board, wire, steady>>
    BY <1>2 DEF BoardStep, TakeCommand, LedOn, LedOff, Led, Start, Stop, StartStop, StartStopFor,
         HomeInc, HomeDec, AwayInc, AwayDec, Score, ScoresZero, Reset, SetTimer, Aux, Receive,
         Restop, TrainPulse, Train, CommandPulseEnd, FreezePulseEnd, RestopPulseEnd, TrainPulseEnd,
         PulseEnd, BlinkEnd, Refresh, Send, vars, ghost
  <2> QED
    BY <1>2, <2>1 DEF ClockKept
<1>3. CASE LedOn \/ LedOff
  <2>1. PICK on \in BOOLEAN : sb' = Publish([sb EXCEPT !.led = on])
    BY <1>3 DEF LedOn, LedOff, Led
  <2> QED
    BY <1>1, <1>3, <2>1 DEF LedOn, LedOff, Led, Receive, Publish, ClockKept, ScoreboardState
<1>4. CASE HomeInc \/ HomeDec \/ AwayInc \/ AwayDec \/ ScoresZero
  <2>1. \E h, a : sb' = sb \/ sb' = Publish([sb EXCEPT !.home = h, !.away = a])
                           \/ sb' = Publish([sb EXCEPT !.home = h])
                           \/ sb' = Publish([sb EXCEPT !.away = a])
    BY <1>4 DEF HomeInc, HomeDec, AwayInc, AwayDec, Score, ScoresZero
  <2>2. ClockKept
    BY <1>1, <2>1 DEF Publish, ClockKept, ScoreboardState
  <2> QED
    BY <1>4, <2>2 DEF HomeInc, HomeDec, AwayInc, AwayDec, Score, ScoresZero, Receive
<1>5. CASE Start \/ Stop \/ StartStop \/ SetTimer
  <2>1. \E want : sb' = AfterRequest(sb, want)
    BY <1>5 DEF Start, Stop, StartStop, StartStopFor, SetTimer
  <2>2. ClockKept
    BY <1>1, <2>1, RequestRuns DEF ClockKept
  <2> QED
    BY <1>5, <2>2 DEF Start, Stop, StartStop, StartStopFor, SetTimer, Receive
<1>6. CASE Reset
  BY <1>1, <1>6 DEF Reset, Receive, ForgetPending, ClockKept, ScoreboardState
<1>7. CASE Restop \/ TrainPulse
  <2>1. sb' = sb \/ sb' = AfterRequest(sb, "stop")
    BY <1>7 DEF Restop, TrainPulse
  <2>2. ClockKept
    BY <1>1, <2>1, RequestRuns DEF ClockKept
  <2> QED
    BY <1>7, <2>2 DEF Restop, TrainPulse, Train
<1>8. CASE Refresh
  BY <1>1, <1>8, RefreshType, RefreshRuns DEF Refresh, ClockKept, ghost
<1>9. CASE \/ Aux \/ CommandPulseEnd \/ FreezePulseEnd \/ RestopPulseEnd \/ TrainPulseEnd \/ BlinkEnd
           \/ (\E c \in Commands : Send(c)) \/ UNCHANGED vars
  <2>1. sb' = sb
    BY <1>9 DEF Aux, CommandPulseEnd, FreezePulseEnd, RestopPulseEnd, TrainPulseEnd, PulseEnd,
                BlinkEnd, Send, vars
  <2> QED
    BY <1>2, <2>1
<1> QED
  BY <1>3, <1>4, <1>5, <1>6, <1>7, <1>8, <1>9 DEF BoardStep, TakeCommand

\* A second and the lag of a frame are over before the clock counts as stopped:
\* 1 s and less than 0.5 s against the 2 s of STOPPED_AFTER_MS.
FramesInTime == SecondTicks + MaxLag < StoppedAfter

\* The bounds that the arithmetic below needs.
LEMMA CountTypes ==
    ASSUME TypeInv
    PROVE  /\ Len(wire) \in Nat /\ steady \in Nat /\ steady <= SteadyCap
           /\ board.phase \in Nat /\ board.phase < SecondTicks
           /\ \A i \in 1..Len(wire) : wire[i] \in Frame /\ wire[i].lag \in Nat /\ wire[i].lag <= MaxLag
           /\ sb.age \in Nat /\ sb.min \in Minutes /\ sb.sec \in Seconds
           /\ SecondTicks \in Nat /\ SecondTicks > 0 /\ MaxLag \in Nat /\ StoppedAfter \in Nat
           /\ SteadyCap = SecondTicks + MaxLag + 1
<1>1. wire \in Seq(Frame) /\ board \in Board /\ sb \in ScoreboardState /\ steady \in 0..SteadyCap
  BY DEF TypeInv, TypeOK
<1>2. Len(wire) \in Nat /\ \A i \in 1..Len(wire) : wire[i] \in Frame
  BY <1>1, LenProperties, ElementOfSeq
<1>3. SecondTicks \in Nat /\ SecondTicks > 0 /\ MaxLag \in Nat /\ StoppedAfter \in Nat
  BY BoardAssumption, ScoreboardAssumption
<1>4. board.phase \in 0..(SecondTicks - 1) /\ \A i \in 1..Len(wire) : wire[i].lag \in 0..MaxLag
  BY <1>1, <1>2 DEF Board, Frame
<1>5. sb.age \in 0..StoppedAfter /\ sb.min \in Minutes /\ sb.sec \in Seconds
  BY <1>1 DEF ScoreboardState, Ages
<1> QED
  BY <1>1, <1>2, <1>3, <1>4, <1>5 DEF SteadyCap

\* A refresh in between cannot flip the flag: the age of the clock is too low.
LEMMA ReportKept ==
    ASSUME ClockKept, Reported, sb.age < StoppedAfter
    PROVE  Reported'
BY DEF ClockKept, Reported, ClockIsRunning

\* A step that leaves the frames and the counting alone.
LEMMA CountStill ==
    ASSUME FramesInTime, TypeInv, CountInv, ClockKept, UNCHANGED <<wire, steady>>,
           SameTime(board, board'), board'.phase = board.phase
    PROVE  CountInv'
<1>1. /\ Len(wire) \in Nat /\ board.phase \in Nat /\ board.phase < SecondTicks /\ sb.age \in Nat
      /\ Len(wire) > 0 => wire[1].lag \in Nat /\ wire[1].lag <= MaxLag
      /\ SecondTicks \in Nat /\ MaxLag \in Nat /\ StoppedAfter \in Nat
  BY CountTypes
<1>2. InSync' /\ LastSecond' /\ Spaced'
  BY DEF CountInv, InSync, LastSecond, Spaced, SameTime, ClockKept
<1>3. HeadSpaced'
  <2>1. ASSUME Len(wire) > 0, steady > wire[1].lag + SecondTicks
        PROVE  Reported' /\ sb.age <= wire[1].lag + SecondTicks
    <3>1. Reported /\ sb.age <= wire[1].lag + SecondTicks
      BY <2>1 DEF CountInv, HeadSpaced
    <3>2. sb.age < StoppedAfter
      BY <1>1, <2>1, <3>1 DEF FramesInTime
    <3> QED
      BY <3>1, <3>2, ReportKept
  <2> QED
    BY <2>1 DEF CountInv, HeadSpaced, SameTime, ClockKept
<1>4. AllRead'
  <2>1. ASSUME Len(wire) = 0, steady > board.phase
        PROVE  Reported' /\ sb.age <= board.phase
    <3>1. Reported /\ sb.age <= board.phase
      BY <2>1 DEF CountInv, AllRead
    <3>2. sb.age < StoppedAfter
      BY <1>1, <3>1 DEF FramesInTime
    <3> QED
      BY <3>1, <3>2, ReportKept
  <2> QED
    BY <2>1 DEF AllRead, ClockKept
<1> QED
  BY <1>2, <1>3, <1>4 DEF CountInv

\* When nothing has been counted yet only the newest frame matters.
LEMMA CountAnew ==
    ASSUME TypeInv', InSync', steady' = 0
    PROVE  CountInv'
<1>1. /\ Len(wire') \in Nat /\ board'.phase \in Nat
      /\ \A i \in 1..Len(wire') : wire'[i].lag \in Nat
      /\ SecondTicks \in Nat
  <2>1. wire' \in Seq(Frame) /\ board' \in Board
    BY DEF TypeInv, TypeOK
  <2>2. Len(wire') \in Nat /\ \A i \in 1..Len(wire') : wire'[i] \in Frame
    BY <2>1, LenProperties, ElementOfSeq
  <2> QED
    BY <2>1, <2>2, BoardAssumption DEF Board, Frame
<1>2. ~(steady' > board'.phase) /\ \A i \in 1..Len(wire') : /\ ~(wire'[i].lag < steady')
                                                           /\ ~(steady' > wire'[i].lag + SecondTicks)
  BY <1>1
<1>3. LastSecond' /\ AllRead'
  BY <1>2 DEF LastSecond, AllRead
<1>4. Spaced'
  <2>1. \A i \in 1..(Len(wire') - 1) : i + 1 \in 1..Len(wire')
    BY <1>1
  <2> QED
    BY <1>2, <2>1 DEF Spaced
<1>5. HeadSpaced'
  BY <1>1, <1>2 DEF HeadSpaced
<1> QED
  BY <1>3, <1>4, <1>5 DEF CountInv

\* What the display goes to is the newest frame.
LEMMA SyncStep ==
    ASSUME NEW w \in Seq(Frame), NEW b, NEW c \in Board, NEW v \in Transmit(w, b, c),
           ~SameTime(b, c)
    PROVE  v \in Seq(Frame) /\ Len(v) > 0 /\ SameTime(c, v[Len(v)])
<1> DEFINE new == [min |-> c.min, sec |-> c.sec, lag |-> 0]
<1>1. new \in Frame /\ SameTime(c, new) /\ Len(w) \in Nat
  BY BoardAssumption, LenProperties DEF Frame, Board, SameTime
<1>2. v = Append(w, new) \/ (Len(w) > 0 /\ v = [w EXCEPT ![Len(w)] = new])
  BY DEF Transmit
<1> HIDE DEF new
<1>3. CASE v = Append(w, new)
  BY <1>1, <1>3, AppendProperties
<1>4. CASE Len(w) > 0 /\ v = [w EXCEPT ![Len(w)] = new]
  <2>1. Len(w) \in 1..Len(w)
    BY <1>1, <1>4
  <2>2. v \in Seq(Frame) /\ Len(v) = Len(w) /\ v[Len(w)] = new
    BY <1>1, <1>4, <2>1, ExceptSeq
  <2> QED
    BY <1>1, <1>4, <2>2
<1> QED
  BY <1>2, <1>3, <1>4

\* A button that neither moves the display nor starts or stops the clock leaves
\* the countdown within its second.
LEMMA ReactPhase ==
    ASSUME NEW b \in Board, NEW button \in Pins, NEW c \in React(b, button), c.run = b.run
    PROVE  c.phase = b.phase
<1>1. CASE button = "start"
  BY <1>1 DEF React, Board, Run
<1>2. CASE button = "reset"
  BY <1>2 DEF React, Board
<1>3. CASE button \notin {"start", "reset"}
  BY <1>3 DEF React, Board, Pins
<1> QED
  BY <1>1, <1>2, <1>3

\* The scoreboard reacts to a pulse or a press: it is undisturbed, or the
\* steady time begins anew.
LEMMA CountReact ==
    ASSUME FramesInTime, TypeInv, TypeInv', CountInv, NEW button \in Pins,
           board' \in React(board, button), wire' \in Transmit(wire, board, board'), sb' = sb,
           steady' = IF board'.run = board.run /\ SameTime(board, board') THEN steady ELSE 0
    PROVE  CountInv'
<1>1. board \in Board /\ board' \in Board /\ wire \in Seq(Frame)
  BY DEF TypeInv, TypeOK
<1>2. CASE SameTime(board, board')
  <2>1. wire' = wire
    BY <1>2 DEF Transmit
  <2>2. CASE board'.run = board.run
    <3>1. board'.phase = board.phase
      BY <1>1, <2>2, ReactPhase
    <3>2. ClockKept /\ steady' = steady
      BY <1>2, <2>2 DEF ClockKept
    <3> QED
      BY <1>2, <2>1, <3>1, <3>2, CountStill
  <2>3. CASE board'.run # board.run
    <3>1. InSync'
      BY <1>2, <2>1 DEF CountInv, InSync, SameTime
    <3> QED
      BY <2>3, <3>1, CountAnew
  <2> QED
    BY <2>2, <2>3
<1>3. CASE ~SameTime(board, board')
  <2>1. wire' \in Seq(Frame) /\ Len(wire') > 0 /\ SameTime(board', wire'[Len(wire')])
    BY <1>1, <1>3, SyncStep
  <2>2. Len(wire') # 0
    BY <2>1, LenProperties
  <2>3. InSync'
    BY <2>1, <2>2 DEF InSync
  <2> QED
    BY <1>3, <2>3, CountAnew
<1> QED
  BY <1>2, <1>3

\* read_serial: a frame of a steady second restarts the age of the clock.
LEMMA CountRead ==
    ASSUME FramesInTime, TypeInv, CountInv, ReadFrame
    PROVE  CountInv'
<1> DEFINE h == wire[1]
           n == Len(wire)
           changed == sb.min # h.min \/ sb.sec # h.sec
<1>1. /\ wire \in Seq(Frame) /\ sb \in ScoreboardState /\ wire # <<>>
      /\ UNCHANGED <<board, steady>>
      /\ Head(wire) = h
  BY DEF ReadFrame, TypeInv, TypeOK, ghost
<1>2. /\ n \in Nat /\ n > 0 /\ steady \in Nat /\ steady <= SteadyCap
      /\ board.phase \in Nat /\ board.phase < SecondTicks
      /\ \A i \in 1..n : wire[i] \in Frame /\ wire[i].lag \in Nat /\ wire[i].lag <= MaxLag
      /\ SecondTicks \in Nat /\ SecondTicks > 0 /\ MaxLag \in Nat /\ StoppedAfter \in Nat
  BY <1>1, CountTypes, EmptySeq
<1>3. /\ wire' = Tail(wire) /\ Len(wire') = n - 1
      /\ \A i \in 1..(n - 1) : wire'[i] = wire[i + 1]
  BY <1>1, <1>2, HeadTailProperties DEF ReadFrame
<1>4. h \in Frame /\ h.min \in Minutes /\ h.sec \in Seconds
  <2>1. h \in Frame
    BY <1>2
  <2> QED
    BY <2>1 DEF Frame
<1>5. /\ sb'.min = h.min /\ sb'.sec = h.sec
      /\ sb'.age = IF changed THEN 0 ELSE sb.age
      /\ sb'.running = ClockIsRunning(h.min, h.sec, IF changed THEN 0 ELSE sb.age)
  BY <1>1, <1>4, SetClockType, SetClockRuns DEF ReadFrame
<1>6. ASSUME h.lag < steady
      PROVE  sb'.age = 0 /\ Reported'
  <2>1. changed
    BY <1>2, <1>6 DEF CountInv, HeadSpaced, SameTime
  <2>2. 0 < StoppedAfter
    BY ScoreboardAssumption
  <2> QED
    BY <1>5, <2>1, <2>2 DEF Reported, ClockIsRunning
<1> HIDE DEF changed
<1>7. InSync'
  <2>1. CASE n = 1
    <3>1. SameTime(board, h)
      BY <1>2, <2>1 DEF CountInv, InSync
    <3> QED
      BY <1>1, <1>3, <1>5, <2>1, <3>1 DEF InSync, SameTime
  <2>2. CASE n > 1
    <3>1. wire'[Len(wire')] = wire[n] /\ Len(wire') # 0
      BY <1>2, <1>3, <2>2
    <3>2. SameTime(board, wire[n])
      BY <1>2 DEF CountInv, InSync
    <3> QED
      BY <1>1, <3>1, <3>2 DEF InSync, SameTime
  <2>3. n = 1 \/ n > 1
    <3>1. n \in Nat /\ n > 0
      BY <1>2
    <3> HIDE DEF n
    <3> QED
      BY <3>1
  <2> QED
    BY <2>1, <2>2, <2>3, Zenon
<1>8. LastSecond'
  <2>1. CASE n > 1
    <3>1. wire'[n - 1] = wire[n]
      BY <1>2, <1>3, <2>1
    <3> QED
      BY <1>1, <1>2, <1>3, <2>1, <3>1 DEF CountInv, LastSecond
  <2> QED
    BY <1>2, <1>3, <2>1 DEF LastSecond
<1>9. Spaced'
  <2> SUFFICES ASSUME NEW i \in 1..(Len(wire') - 1), wire'[i + 1].lag < steady
               PROVE  /\ ~SameTime(wire'[i], wire'[i + 1])
                      /\ steady > wire'[i + 1].lag + SecondTicks =>
                            wire'[i].lag = wire'[i + 1].lag + SecondTicks
    BY <1>1 DEF Spaced
  <2>1. i + 1 \in 1..(n - 1) /\ wire'[i] = wire[i + 1] /\ wire'[i + 1] = wire[i + 1 + 1]
    BY <1>2, <1>3
  <2> QED
    BY <2>1 DEF CountInv, Spaced
<1>10. HeadSpaced'
  <2> SUFFICES ASSUME n > 1
               PROVE  /\ wire[2].lag < steady => ~SameTime(h, wire[2])
                      /\ steady > wire[2].lag + SecondTicks =>
                            sb'.age <= wire[2].lag + SecondTicks /\ Reported'
    <3>1. n > 1 => wire'[1] = wire[2]
      BY <1>2, <1>3
    <3> QED
      BY <1>1, <1>2, <1>3, <1>5, <3>1 DEF HeadSpaced, SameTime
  <2>1. 1 \in 1..(n - 1) /\ 1 + 1 = 2 /\ 2 \in 1..n
    BY <1>2
  <2>2. wire[2].lag < steady =>
          /\ ~SameTime(h, wire[2])
          /\ steady > wire[2].lag + SecondTicks => h.lag = wire[2].lag + SecondTicks
    BY <2>1 DEF CountInv, Spaced
  <2>3. ASSUME steady > wire[2].lag + SecondTicks
        PROVE  sb'.age <= wire[2].lag + SecondTicks /\ Reported'
    <3>1. wire[2].lag < steady /\ wire[2].lag \in Nat
      BY <1>2, <2>1, <2>3
    <3>2. h.lag < steady
      BY <2>2, <2>3, <3>1
    <3> QED
      BY <1>2, <1>6, <3>1, <3>2
  <2> QED
    BY <2>2, <2>3
<1>11. AllRead'
  <2> SUFFICES ASSUME n = 1, steady > board.phase
               PROVE  sb'.age <= board.phase /\ Reported'
    BY <1>1, <1>2, <1>3 DEF AllRead
  <2>1. h.lag = board.phase
    BY <1>2 DEF CountInv, LastSecond
  <2> QED
    BY <1>2, <1>6, <2>1
<1> QED
  BY <1>7, <1>8, <1>9, <1>10, <1>11 DEF CountInv

\* A unit of time makes the age one more at most and changes nothing visible.
LEMMA ElapseAges ==
    ASSUME NEW s \in ScoreboardState
    PROVE  /\ Elapse(s).min = s.min /\ Elapse(s).sec = s.sec /\ Elapse(s).running = s.running
           /\ Elapse(s).age \in Nat /\ Elapse(s).age <= s.age + 1
<1>1. s.age \in Nat /\ StoppedAfter \in Nat
  BY ScoreboardAssumption DEF ScoreboardState, Ages
<1>2. Older(s.age) \in Nat /\ Older(s.age) <= s.age + 1
  BY <1>1 DEF Older
<1>3. Elapse(s).age = Older(s.age)
  BY DEF Elapse, ScoreboardState
<1> QED
  BY <1>2, <1>3 DEF Elapse, ScoreboardState

\* A second of a running clock moves the display unless it stops at 0:00.
LEMMA CountDownMoves ==
    ASSUME NEW b \in Board, SameTime(b, CountDown(b))
    PROVE  CountDown(b).run = "stop"
<1> DEFINE min == IF b.sec > 0 THEN b.min ELSE Lower(b.min, 0)
           sec == IF b.sec > 0 THEN b.sec - 1 ELSE IF b.min > 0 THEN MaxSec ELSE 0
           run == IF TotalSeconds(min, sec) = 0 THEN "stop" ELSE b.run
<1>1. b.min \in Nat /\ b.sec \in Nat /\ MaxSec \in Nat
  BY ScoreboardAssumption DEF Board, Minutes, Seconds
<1>2. CountDown(b).min = min /\ CountDown(b).sec = sec /\ CountDown(b).run = run
  <2> HIDE DEF min, sec
  <2>1. CountDown(b) = [b EXCEPT !.min = min, !.sec = sec, !.phase = 0, !.run = run]
    BY DEF CountDown, min, sec
  <2> HIDE DEF run
  <2> QED
    BY <2>1 DEF Board
<1>3. b.min = min /\ b.sec = sec
  BY <1>2 DEF SameTime
<1>4. b.sec = 0 /\ b.min = 0
  BY <1>1, <1>3 DEF Lower
<1>5. min = 0 /\ sec = 0
  BY <1>3, <1>4
<1>6. TotalSeconds(0, 0) = 0
  BY <1>1 DEF TotalSeconds
<1> HIDE DEF min, sec
<1> QED
  BY <1>2, <1>5, <1>6

\* A unit of time: the frames, the phase and the steady time grow together.
LEMMA CountTick ==
    ASSUME FramesInTime, TypeInv, TypeInv', CountInv, Tick
    PROVE  CountInv'
<1> DEFINE w == [i \in 1..Len(wire) |-> [wire[i] EXCEPT !.lag = @ + 1]]
           n == Len(wire)
           c == [min |-> board'.min, sec |-> board'.sec, lag |-> 0]
<1>1. /\ n \in Nat /\ steady \in Nat /\ steady <= SteadyCap
      /\ board.phase \in Nat /\ board.phase < SecondTicks
      /\ \A i \in 1..n : wire[i] \in Frame /\ wire[i].lag \in Nat /\ wire[i].lag < MaxLag
      /\ sb.age \in Nat
      /\ SecondTicks \in Nat /\ SecondTicks > 0 /\ MaxLag \in Nat
      /\ SteadyCap = SecondTicks + MaxLag + 1
  BY CountTypes DEF Tick
<1>2. /\ sb \in ScoreboardState /\ board \in Board /\ board' \in Board /\ wire \in Seq(Frame)
      /\ steady' \in Nat
  BY <1>1 DEF TypeInv, TypeOK
<1>3. /\ sb'.min = sb.min /\ sb'.sec = sb.sec /\ sb'.running = sb.running
      /\ sb'.age \in Nat /\ sb'.age <= sb.age + 1
  BY <1>2, ElapseAges DEF Tick
<1>4. Reported' <=> Reported
  BY <1>3 DEF Reported
<1>5. w \in Seq(Frame) /\ Len(w) = n
  <2>1. w \in Seq(Frame)
    BY <1>1, <1>2, AgedFrames
  <2>2. DOMAIN w = 1..n /\ DOMAIN w = 1..Len(w) /\ Len(w) \in Nat
    BY <2>1, LenProperties
  <2> QED
    BY <1>1, <2>1, <2>2
<1>6. \A i \in 1..n : /\ w[i].lag = wire[i].lag + 1 /\ w[i].min = wire[i].min
                      /\ w[i].sec = wire[i].sec
  BY <1>1 DEF Frame
<1> HIDE DEF w
<1>7. steady' = 0 \/ steady' = steady + 1 \/ (steady' = steady /\ steady = SteadyCap)
  <2>1. steady' = 0 \/ steady' = steady + 1 \/ (steady' = steady /\ ~(steady < SteadyCap))
    BY DEF Tick
  <2>2. steady < SteadyCap \/ steady = SteadyCap
    BY <1>1
  <2> QED
    BY <2>1, <2>2
<1>8. /\ steady' > board.phase + 1 => steady > board.phase
      /\ \A i \in 1..n : w[i].lag < steady' => wire[i].lag < steady
      /\ \A i \in 1..n : steady' > w[i].lag + SecondTicks => steady > wire[i].lag + SecondTicks
  <2>1. steady' > board.phase + 1 => steady > board.phase
    BY <1>1, <1>7
  <2>2. ASSUME NEW i \in 1..n
        PROVE  /\ w[i].lag < steady' => wire[i].lag < steady
               /\ steady' > w[i].lag + SecondTicks => steady > wire[i].lag + SecondTicks
    <3>1. wire[i].lag \in Nat /\ wire[i].lag < MaxLag /\ w[i].lag = wire[i].lag + 1
      BY <1>1, <1>6
    <3> QED
      BY <1>1, <1>7, <3>1
  <2> QED
    BY <2>1, <2>2
<1>9. wire' \in Transmit(w, board, board')
  BY DEF Tick, w
\* What holds of the frames of before, one unit older.
<1>10. \A i \in 1..(n - 1) : w[i + 1].lag < steady' =>
          /\ ~SameTime(w[i], w[i + 1])
          /\ steady' > w[i + 1].lag + SecondTicks => w[i].lag = w[i + 1].lag + SecondTicks
  <2> SUFFICES ASSUME NEW i \in 1..(n - 1), w[i + 1].lag < steady'
               PROVE  /\ ~SameTime(w[i], w[i + 1])
                      /\ steady' > w[i + 1].lag + SecondTicks =>
                            w[i].lag = w[i + 1].lag + SecondTicks
    OBVIOUS
  <2>1. i \in 1..n /\ i + 1 \in 1..n
    BY <1>1
  <2>2. wire[i + 1].lag < steady
    BY <1>8, <2>1
  <2>3. /\ ~SameTime(wire[i], wire[i + 1])
        /\ steady > wire[i + 1].lag + SecondTicks => wire[i].lag = wire[i + 1].lag + SecondTicks
    BY <2>2 DEF CountInv, Spaced
  <2>4. ~SameTime(w[i], w[i + 1])
    BY <1>6, <2>1, <2>3 DEF SameTime
  <2>5. ASSUME steady' > w[i + 1].lag + SecondTicks
        PROVE  w[i].lag = w[i + 1].lag + SecondTicks
    <3>1. wire[i].lag = wire[i + 1].lag + SecondTicks
      BY <1>8, <2>1, <2>3, <2>5
    <3>2. /\ w[i].lag = wire[i].lag + 1 /\ w[i + 1].lag = wire[i + 1].lag + 1
          /\ wire[i].lag \in Nat /\ wire[i + 1].lag \in Nat
      BY <1>1, <1>6, <2>1
    <3> QED
      BY <1>1, <3>1, <3>2
  <2> QED
    BY <2>4, <2>5
<1>11. n > 0 =>
        /\ w[1].lag < steady' => ~SameTime(sb', w[1])
        /\ steady' > w[1].lag + SecondTicks => sb'.age <= w[1].lag + SecondTicks /\ Reported'
  <2> SUFFICES ASSUME n > 0
               PROVE  /\ w[1].lag < steady' => ~SameTime(sb', w[1])
                      /\ steady' > w[1].lag + SecondTicks =>
                            sb'.age <= w[1].lag + SecondTicks /\ Reported'
    OBVIOUS
  <2>1. 1 \in 1..n
    BY <1>1
  <2>2. /\ w[1].lag = wire[1].lag + 1 /\ w[1].min = wire[1].min /\ w[1].sec = wire[1].sec
        /\ wire[1].lag \in Nat
    BY <1>1, <1>6, <2>1
  <2>3. ASSUME w[1].lag < steady' PROVE ~SameTime(sb', w[1])
    <3>1. ~SameTime(sb, wire[1])
      BY <1>8, <2>1, <2>3 DEF CountInv, HeadSpaced
    <3> QED
      BY <1>3, <2>2, <3>1 DEF SameTime
  <2>4. ASSUME steady' > w[1].lag + SecondTicks
        PROVE  sb'.age <= w[1].lag + SecondTicks /\ Reported'
    <3>1. sb.age <= wire[1].lag + SecondTicks /\ Reported
      BY <1>8, <2>1, <2>4 DEF CountInv, HeadSpaced
    <3> QED
      BY <1>1, <1>3, <1>4, <2>2, <3>1
  <2> QED
    BY <2>3, <2>4
<1>12. CASE SameTime(board, board')
  <2>1. wire' = w
    BY <1>9, <1>12 DEF Transmit
  <2>2. Len(wire') = n
    BY <1>5, <2>1
  <2>3. InSync'
    <3>1. CASE n = 0
      BY <1>3, <1>12, <2>2, <3>1 DEF CountInv, InSync, SameTime
    <3>2. CASE n > 0
      <4>1. n \in 1..n
        BY <1>1, <3>2
      <4>2. wire'[n].min = wire[n].min /\ wire'[n].sec = wire[n].sec
        BY <1>6, <2>1, <4>1
      <4>3. SameTime(board, wire[n])
        BY <3>2 DEF CountInv, InSync
      <4> QED
        BY <1>12, <2>2, <3>2, <4>2, <4>3 DEF InSync, SameTime
    <3>3. n = 0 \/ n > 0
      <4>1. n \in Nat
        BY <1>1
      <4> HIDE DEF n
      <4> QED
        BY <4>1
    <3> QED
      BY <3>1, <3>2, <3>3, Zenon
  <2>4. CASE steady' = 0
    BY <2>3, <2>4, CountAnew
  <2>5. CASE steady' # 0
    <3>1. board'.run = "run" /\ board.run # "stop"
      BY <2>5 DEF Tick
    <3>2. board'.phase = board.phase + 1
      <4>1. board' # CountDown(board)
        BY <1>2, <1>12, <3>1, CountDownMoves
      <4>2. board' = [board EXCEPT !.phase = @ + 1]
        BY <3>1, <4>1 DEF Tick
      <4> QED
        BY <1>2, <4>2 DEF Board
    <3>3. LastSecond'
      <4> SUFFICES ASSUME n > 0, steady' > board.phase + 1
                   PROVE  w[n].lag = board.phase + 1
        BY <2>1, <2>2, <3>2 DEF LastSecond
      <4>1. wire[n].lag = board.phase
        BY <1>8 DEF CountInv, LastSecond
      <4>2. n \in 1..n
        BY <1>1
      <4> QED
        BY <1>6, <4>1, <4>2
    <3>4. Spaced'
      BY <1>10, <2>1, <2>2 DEF Spaced
    <3>5. HeadSpaced'
      BY <1>11, <2>1, <2>2 DEF HeadSpaced
    <3>6. AllRead'
      <4> SUFFICES ASSUME n = 0, steady' > board.phase + 1
                   PROVE  sb'.age <= board.phase + 1 /\ Reported'
        BY <2>2, <3>2 DEF AllRead
      <4>1. sb.age <= board.phase /\ Reported
        BY <1>8 DEF CountInv, AllRead
      <4> QED
        BY <1>1, <1>3, <1>4, <4>1
    <3> QED
      BY <2>3, <3>3, <3>4, <3>5, <3>6 DEF CountInv
  <2> QED
    BY <2>4, <2>5
<1>13. CASE ~SameTime(board, board')
  <2>1. board' = CountDown(board) /\ board.phase + 1 = SecondTicks /\ board'.phase = 0
    <3>1. board' = CountDown(board) /\ ~(board.phase + 1 < SecondTicks)
      <4>1. board' # board
        BY <1>13 DEF SameTime
      <4>2. board' # [board EXCEPT !.phase = @ + 1]
        BY <1>2, <1>13 DEF SameTime, Board
      <4> QED
        BY <4>1, <4>2 DEF Tick
    <3>2. CountDown(board).phase = 0
      BY <1>2 DEF CountDown, Board
    <3> QED
      BY <1>1, <3>1, <3>2
  <2>2. c \in Frame
    BY <1>2, BoardAssumption DEF Frame, Board
  <2>3. wire' = Append(w, c)
    <3>1. n > 0 => w[n].lag # 0
      <4> SUFFICES ASSUME n > 0 PROVE w[n].lag # 0
        OBVIOUS
      <4>1. n \in 1..n
        BY <1>1
      <4>2. wire[n].lag \in Nat /\ w[n].lag = wire[n].lag + 1
        BY <1>1, <1>6, <4>1
      <4> QED
        BY <4>2
    <3> QED
      BY <1>5, <1>9, <1>13, <3>1 DEF Transmit
  <2> HIDE DEF c
  <2>4. /\ Len(wire') = n + 1 /\ wire'[n + 1] = c
        /\ \A i \in 1..n : wire'[i] = w[i]
    BY <1>5, <2>2, <2>3, AppendProperties
  <2>5. c.lag = 0 /\ c.min = board'.min /\ c.sec = board'.sec
    BY DEF c
  <2>6. n > 0 => SameTime(board, wire[n]) /\ (steady > board.phase => wire[n].lag = board.phase)
    BY DEF CountInv, InSync, LastSecond
  <2>7. n = 0 => SameTime(board, sb) /\ (steady > board.phase => sb.age <= board.phase /\ Reported)
    BY DEF CountInv, InSync, AllRead
  <2>8. n \in Nat /\ n + 1 > 0 /\ n + 1 # 0
    BY <1>1
  <2>9. InSync' /\ LastSecond' /\ AllRead'
    BY <2>1, <2>4, <2>5, <2>8 DEF InSync, LastSecond, AllRead, SameTime
  <2>10. Spaced'
    <3> SUFFICES ASSUME NEW i \in 1..n, wire'[i + 1].lag < steady'
                 PROVE  /\ ~SameTime(wire'[i], wire'[i + 1])
                        /\ steady' > wire'[i + 1].lag + SecondTicks =>
                              wire'[i].lag = wire'[i + 1].lag + SecondTicks
      BY <2>4, <2>8 DEF Spaced
    <3>1. CASE i < n
      <4>1. i \in 1..(n - 1) /\ i + 1 \in 1..n
        BY <2>8, <3>1
      <4>2. wire'[i] = w[i] /\ wire'[i + 1] = w[i + 1]
        BY <2>4, <4>1
      <4> QED
        BY <1>10, <4>1, <4>2
    <3>2. CASE i = n
      <4>1. n > 0 /\ n \in 1..n
        BY <2>8, <3>2
      <4>2. /\ wire'[i] = w[n] /\ wire'[i + 1] = c
            /\ w[n].lag = wire[n].lag + 1 /\ w[n].min = wire[n].min /\ w[n].sec = wire[n].sec
        BY <1>6, <2>4, <3>2, <4>1
      <4>3. ~SameTime(w[n], c)
        BY <1>13, <2>5, <2>6, <4>1, <4>2 DEF SameTime
      <4>4. ASSUME steady' > c.lag + SecondTicks
            PROVE  w[n].lag = c.lag + SecondTicks
        <5>1. steady > board.phase
          BY <1>1, <1>2, <1>8, <2>1, <2>5, <4>4
        <5> QED
          BY <1>1, <2>1, <2>5, <2>6, <4>1, <4>2, <5>1
      <4> QED
        BY <4>2, <4>3, <4>4
    <3> QED
      BY <2>8, <3>1, <3>2
  <2>11. HeadSpaced'
    <3>1. CASE n > 0
      <4>1. wire'[1] = w[1]
        BY <2>4, <2>8, <3>1
      <4> QED
        BY <1>11, <3>1, <4>1 DEF HeadSpaced
    <3>2. CASE n = 0
      <4>1. wire'[1] = c
        BY <2>4, <3>2
      <4>2. ~SameTime(sb', c)
        BY <1>3, <1>13, <2>5, <2>7, <3>2 DEF SameTime
      <4>3. ASSUME steady' > c.lag + SecondTicks
            PROVE  sb'.age <= c.lag + SecondTicks /\ Reported'
        <5>1. steady > board.phase
          BY <1>1, <1>2, <1>8, <2>1, <2>5, <4>3
        <5>2. sb.age <= board.phase /\ Reported
          BY <2>7, <3>2, <5>1
        <5> QED
          BY <1>1, <1>3, <1>4, <2>1, <2>5, <5>2
      <4> QED
        BY <4>1, <4>2, <4>3 DEF HeadSpaced
    <3> QED
      BY <2>8, <3>1, <3>2
  <2> QED
    BY <2>9, <2>10, <2>11 DEF CountInv
<1> QED
  BY <1>12, <1>13

\* The Pico starts again: only the time on the display is on its way.
LEMMA CountReboot ==
    ASSUME TypeInv', Reboot
    PROVE  CountInv'
<1> DEFINE f == [min |-> board.min, sec |-> board.sec, lag |-> 0]
<1>1. wire' = <<f>> /\ board' = board /\ steady' = 0
  BY DEF Reboot
<1>2. SameTime(board, f)
  BY DEF SameTime
<1> HIDE DEF f
<1>3. InSync'
  BY <1>1, <1>2 DEF InSync, SameTime
<1> QED
  BY <1>1, <1>3, CountAnew

LEMMA CountInit == Init => CountInv
<1> SUFFICES ASSUME Init PROVE CountInv
  OBVIOUS
<1> DEFINE f == [min |-> board.min, sec |-> board.sec, lag |-> 0]
<1>1. wire = <<f>> /\ steady = 0 /\ SameTime(board, f) /\ f.lag = 0
  BY DEF Init, SameTime
<1>2. board.phase \in Nat /\ SecondTicks \in Nat
  BY TypeInit, CountTypes
<1> HIDE DEF f
<1>3. Len(wire) = 1 /\ wire[1] = f
  BY <1>1
<1> QED
  BY <1>1, <1>2, <1>3 DEF CountInv, InSync, LastSecond, Spaced, HeadSpaced, AllRead, SameTime

LEMMA CountStep ==
    ASSUME FramesInTime, TypeInv, TypeInv', CountInv, [Next]_vars
    PROVE  CountInv'
<1>1. CASE BoardStep \/ Refresh \/ (\E c \in Commands : Send(c)) \/ UNCHANGED vars
  <2>1. ClockKept /\ UNCHANGED <<board, wire, steady>>
    BY <1>1, KeptStep
  <2>2. SameTime(board, board') /\ board'.phase = board.phase
    BY <2>1 DEF SameTime
  <2> QED
    BY <2>1, <2>2, CountStill
<1>2. CASE ReadFrame
  BY <1>2, CountRead
<1>3. CASE Notice
  <2>1. pin \in Pins
    BY <1>3 DEF Notice, TypeInv, TypeOK
  <2> QED
    BY <1>3, <2>1, CountReact DEF Notice
<1>4. CASE \E button \in Buttons : Press(button)
  <2>1. PICK button \in Buttons : Press(button)
    BY <1>4
  <2>2. button \in Pins
    BY BoardAssumption
  <2> QED
    BY <2>1, <2>2, CountReact DEF Press
<1>5. CASE Tick
  BY <1>5, CountTick
<1>6. CASE Reboot
  BY <1>6, CountReboot
<1> QED
  BY <1>1, <1>2, <1>3, <1>4, <1>5, <1>6 DEF Next

\* A scoreboard that has counted undisturbed for a second and the lag of a
\* frame is reported running, whatever refreshes and commands come between, as
\* long as that is less than the time after which a still clock is stopped.
THEOREM CountingIsSeen ==
    ASSUME FramesInTime
    PROVE  Spec => []CountingIsReported
<1>1. TypeInv /\ CountInv => CountingIsReported
  <2> SUFFICES ASSUME TypeInv, CountInv, steady = SteadyCap
               PROVE  Reported
    BY DEF CountingIsReported, Reported
  <2>1. /\ Len(wire) \in Nat /\ board.phase \in Nat /\ board.phase < SecondTicks
        /\ SecondTicks \in Nat /\ MaxLag \in Nat /\ SteadyCap = SecondTicks + MaxLag + 1
    BY CountTypes
  <2>2. CASE Len(wire) = 0
    <3>1. steady > board.phase
      BY <2>1
    <3> QED
      BY <2>2, <3>1 DEF CountInv, AllRead
  <2>3. CASE Len(wire) > 0
    <3>1. 1 \in 1..Len(wire)
      BY <2>1, <2>3
    <3>2. wire[1].lag \in Nat /\ wire[1].lag <= MaxLag
      BY <3>1, CountTypes
    <3>3. steady > wire[1].lag + SecondTicks
      BY <2>1, <3>2
    <3> QED
      BY <2>3, <3>3 DEF CountInv, HeadSpaced
  <2> QED
    BY <2>1, <2>2, <2>3
<1>2. TypeInv /\ TypeInv' /\ CountInv /\ [Next]_vars => CountInv'
  BY CountStep
<1> QED
  BY <1>1, <1>2, TypeInit, TypeStep, CountInit, PTL DEF Spec

-----------------------------------------------------------------------------
(* A start never stops the game (README.md:70).  It does with a stop among *)
(* the commands (MCStop), so StartsOnly says what the phones may send and  *)
(* what is pressed by hand: nothing that stops the clock or turns seconds  *)
(* back.  The pulse is over in one unit of time, so a wish is still        *)
(* remembered when the first second that it brought about has been read.   *)

StartCommands == ScoreOps \cup {"Start", "LedOn", "LedOff", "ScoresZero", "Aux"}

AtZero(f) == f.min = 0 /\ f.sec = 0

StartsOnly ==
    /\ \A c \in Commands : c.op \in StartCommands
    /\ Buttons \cap {"start", "reset", "min_dec", "sec_inc", "sec_dec"} = {}
    /\ ~MayReboot
    /\ \A b \in FirstBoards : b.run = "stop" /\ ~AtZero(b)
    /\ MaxSec > 0
    /\ SecondTicks + MaxLag + 1 < StoppedAfter

\* A /start in the next d units of time finds the clock running, whatever else
\* is not read meanwhile.
RunFor(s, d) ==
    \/ s.pending = "run" /\ s.pendingAge + d < StoppedAfter
    \/ s.pending = "none" /\ s.running = "run" /\ ~AtZero(s) /\ s.age + d < StoppedAfter

\* While a start is wished for the time has not changed since, or is younger.
OnlyRun(s) ==
    /\ s.pending \in {"none", "run"}
    /\ s.pending = "run" /\ ~AtZero(s) => s.age = StoppedAfter \/ s.age <= s.pendingAge

\* The same for as long as it takes to read a frame on its way that renews it.
Until(s, w, d) ==
    \/ RunFor(s, d)
    \/ \E j \in 1..Len(w) : w[j].sec # s.sec /\ ~AtZero(w[j]) /\ RunFor(s, MaxLag - w[j].lag)

\* The start pulse is high and the scoreboard has not reacted.
Starting == pin = "start" /\ ~noticed

Quiet ==
    /\ queue \in Seq(Commands)
    /\ pendingMin = 0 /\ pendingSec = 0
    /\ pc \in {"loop", "command", "blink"}
    /\ pin \in {"low", "start", "home_inc", "home_dec", "away_inc", "away_dec", "clear", "aux"}
    /\ pin = "start" => asked = "run"
    /\ board.run = "run" => ~AtZero(board)

\* A start pulse is under way beside a stopped clock only.
Pulsing ==
    Starting => /\ board.run = "stop"
                /\ RunFor(sb, SecondTicks + MaxLag + (IF late THEN 0 ELSE 1))

\* A clock that counts will be seen to count before it is reported stopped.
Awaited == board.run = "run" => Until(sb, wire, SecondTicks - board.phase + MaxLag)

\* 0:00 on its way to the reader: the clock has stopped, and nobody starts it
\* before that is known.
ZeroSeen ==
    \A i \in 1..Len(wire) : AtZero(wire[i]) =>
        /\ board.run = "stop" /\ ~Starting
        /\ Until(sb, wire, MaxLag - wire[i].lag)
        /\ \A j \in 1..Len(wire) : AtZero(wire[j]) => i = j

StartInv == Quiet /\ OnlyRun(sb) /\ Pulsing /\ Awaited /\ ZeroSeen

\* 0:00 is the time of no seconds.
LEMMA ZeroSeconds ==
    ASSUME NEW min \in Nat, NEW sec \in Nat
    PROVE  TotalSeconds(min, sec) = 0 <=> min = 0 /\ sec = 0
<1>1. MaxSec + 1 \in Nat /\ MaxSec + 1 > 0
  BY ScoreboardAssumption
<1> DEFINE m == MaxSec + 1
<1>2. m \in Nat /\ m > 0
  BY <1>1
<1>3. TotalSeconds(min, sec) = min * m + sec
  BY DEF TotalSeconds
<1> HIDE DEF m
<1>4. min # 0 => min * m > 0
  BY <1>2
<1>5. min * m \in Nat /\ (min = 0 => min * m = 0)
  BY <1>2
<1> QED
  BY <1>3, <1>4, <1>5

LEMMA RunForTypes ==
    ASSUME NEW s \in ScoreboardState
    PROVE  /\ s.age \in Nat /\ s.age <= StoppedAfter /\ s.pendingAge \in Nat
           /\ s.pendingAge <= StoppedAfter /\ StoppedAfter \in Nat /\ StoppedAfter > 0
           /\ s.min \in Nat /\ s.sec \in Nat /\ s.pending \in Wish
BY ScoreboardAssumption DEF ScoreboardState, Ages, Minutes, Seconds

\* What holds for a while holds for less.
LEMMA RunForLess ==
    ASSUME NEW s \in ScoreboardState, NEW d \in Nat, NEW e \in Nat, e <= d, RunFor(s, d)
    PROVE  RunFor(s, e)
<1>1. s.age \in Nat /\ s.pendingAge \in Nat /\ StoppedAfter \in Nat
  BY RunForTypes
<1> QED
  BY <1>1 DEF RunFor

\* The fields a refresh writes.
LEMMA RefreshFields ==
    ASSUME NEW s \in ScoreboardState
    PROVE  LET running == ClockIsRunning(s.min, s.sec, s.age)
               pending == ResolvePendingRunning(s.pending, running, s.pendingAge)
           IN  /\ RefreshRunning(s).running = running
               /\ RefreshRunning(s).pending = pending
               /\ RefreshRunning(s).pendingAge = IF pending = "none" THEN 0 ELSE s.pendingAge
               /\ RefreshRunning(s).age = s.age
               /\ RefreshRunning(s).min = s.min /\ RefreshRunning(s).sec = s.sec
<1> DEFINE running == ClockIsRunning(s.min, s.sec, s.age)
           pending == ResolvePendingRunning(s.pending, running, s.pendingAge)
           t == [s EXCEPT !.running = running, !.pending = pending,
                          !.pendingAge = IF pending = "none" THEN 0 ELSE @]
<1> HIDE DEF running, pending
<1>1. /\ t.running = running /\ t.pending = pending /\ t.age = s.age
      /\ t.min = s.min /\ t.sec = s.sec
      /\ t.pendingAge = IF pending = "none" THEN 0 ELSE s.pendingAge
  BY DEF ScoreboardState
<1> HIDE DEF t
<1>2. \A f \in {"running", "pending", "age", "min", "sec", "pendingAge"} : Publish(t)[f] = t[f]
  <2>1. DOMAIN t = DOMAIN s
    BY DEF t
  <2>2. Publish(t) = [t EXCEPT !.announced = Visible(t)]
    BY DEF Publish
  <2> QED
    BY <2>1, <2>2 DEF ScoreboardState
<1>3. RefreshRunning(s) = Publish(t)
  BY DEF RefreshRunning, t, running, pending
<1> QED
  BY <1>1, <1>2, <1>3 DEF running, pending

\* A refresh keeps the promise, by the wish or by what confirms it.
LEMMA RefreshKeepsRun ==
    ASSUME NEW s \in ScoreboardState, OnlyRun(s)
    PROVE  /\ OnlyRun(RefreshRunning(s))
           /\ \A d \in Nat : RunFor(s, d) => RunFor(RefreshRunning(s), d)
           /\ RefreshRunning(s).pending = "none" /\ RefreshRunning(s).running = "stop"
                 => AtZero(s) \/ s.age = StoppedAfter
           /\ RefreshRunning(s).running = "run" => ~AtZero(s) /\ s.age < StoppedAfter
           /\ RefreshRunning(s).running = "run" => RefreshRunning(s).pending = "none"
<1> DEFINE t == RefreshRunning(s)
           running == ClockIsRunning(s.min, s.sec, s.age)
           pending == ResolvePendingRunning(s.pending, running, s.pendingAge)
<1>1. /\ s.age \in Nat /\ s.age <= StoppedAfter /\ s.pendingAge \in Nat
      /\ StoppedAfter \in Nat /\ s.min \in Nat /\ s.sec \in Nat
  BY RunForTypes
<1>2. /\ t.running = running /\ t.pending = pending /\ t.age = s.age
      /\ t.min = s.min /\ t.sec = s.sec
      /\ t.pendingAge = IF pending = "none" THEN 0 ELSE s.pendingAge
  BY RefreshFields
<1>3. running = IF ~AtZero(s) /\ s.age < StoppedAfter THEN "run" ELSE "stop"
  BY <1>1, ZeroSeconds DEF ClockIsRunning, AtZero
<1>4. pending = IF s.pending # running /\ s.pendingAge < StoppedAfter THEN s.pending ELSE "none"
  BY DEF ResolvePendingRunning
<1>5. AtZero(t) <=> AtZero(s)
  BY <1>2 DEF AtZero
<1> HIDE DEF t, running, pending
<1>6. OnlyRun(t)
  BY <1>2, <1>4, <1>5 DEF OnlyRun
<1>7. ASSUME NEW d \in Nat, RunFor(s, d)
      PROVE  RunFor(t, d)
  <2>1. CASE s.pending = "none"
    BY <1>1, <1>2, <1>3, <1>4, <1>5, <1>7, <2>1 DEF RunFor
  <2>2. CASE s.pending = "run" /\ running = "run"
    <3>1. s.age <= s.pendingAge /\ s.pendingAge + d < StoppedAfter
      BY <1>1, <1>3, <1>7, <2>2 DEF OnlyRun, RunFor
    <3>2. t.pending = "none" /\ t.running = "run" /\ ~AtZero(t)
      BY <1>2, <1>3, <1>4, <1>5, <2>2
    <3> QED
      BY <1>1, <1>2, <3>1, <3>2 DEF RunFor
  <2>3. CASE s.pending = "run" /\ running # "run"
    <3>1. s.pendingAge + d < StoppedAfter
      BY <1>7, <2>3 DEF RunFor
    <3>2. s.pendingAge < StoppedAfter
      BY <1>1, <3>1
    <3> QED
      BY <1>2, <1>4, <2>3, <3>1, <3>2 DEF RunFor
  <2> QED
    BY <2>1, <2>2, <2>3 DEF OnlyRun
<1>8. t.running = "run" => ~AtZero(s) /\ s.age < StoppedAfter
  BY <1>2, <1>3
<1>9. t.running = "stop" => AtZero(s) \/ s.age = StoppedAfter
  BY <1>1, <1>2, <1>3
<1>10. t.running = "run" => t.pending = "none"
  BY <1>2, <1>4 DEF OnlyRun
<1> QED
  BY <1>6, <1>7, <1>8, <1>9, <1>10 DEF t

\* A /start is not pulsed while the promise holds, and makes one otherwise.
LEMMA RequestKeepsRun ==
    ASSUME NEW s \in ScoreboardState, OnlyRun(s)
    PROVE  /\ OnlyRun(AfterRequest(s, "run"))
           /\ \A d \in Nat : RunFor(s, d) => RunFor(AfterRequest(s, "run"), d)
           /\ \A d \in Nat : RunFor(s, d) => ~PulseNeeded(s, "run")
           /\ PulseNeeded(s, "run") =>
                 \A d \in Nat : d < StoppedAfter => RunFor(AfterRequest(s, "run"), d)
<1> DEFINE r == RefreshRunning(s)
           t == AfterRequest(s, "run")
           u == [r EXCEPT !.pending = "run", !.pendingAge = 0]
<1>1. /\ r \in ScoreboardState /\ OnlyRun(r)
      /\ \A d \in Nat : RunFor(s, d) => RunFor(r, d)
      /\ r.pending = "none" /\ r.running = "stop" => AtZero(s) \/ s.age = StoppedAfter
      /\ r.min = s.min /\ r.sec = s.sec /\ r.age = s.age
  BY RefreshType, RefreshKeepsRun
<1>2. PulseNeeded(s, "run") <=> Effective(r) # "run"
  BY DEF PulseNeeded, StartStopPulseNeeded
<1>3. t = IF PulseNeeded(s, "run") THEN u ELSE r
  BY DEF AfterRequest
<1>4. \A d \in Nat : RunFor(r, d) => Effective(r) = "run"
  BY DEF RunFor, Effective
<1>5. CASE ~PulseNeeded(s, "run")
  <2>1. t = r
    BY <1>3, <1>5
  <2> HIDE DEF t, r
  <2> QED
    BY <1>1, <1>5, <2>1 DEF t
<1>6. CASE PulseNeeded(s, "run")
  <2>1. t = u
    BY <1>3, <1>6
  <2> HIDE DEF t
  <2>2. r.pending = "none" /\ r.running = "stop"
    <3>1. r.running \in Run
      BY <1>1 DEF ScoreboardState
    <3> HIDE DEF r
    <3> QED
      BY <1>1, <1>2, <1>6, <3>1 DEF OnlyRun, Effective, Run
  <2> HIDE DEF r
  <2>3. /\ u.pending = "run" /\ u.pendingAge = 0 /\ u.age = s.age
        /\ u.min = s.min /\ u.sec = s.sec
    BY <1>1 DEF ScoreboardState
  <2> HIDE DEF u
  <2>4. OnlyRun(u)
    BY <1>1, <2>2, <2>3 DEF OnlyRun, AtZero
  <2>5. \A d \in Nat : ~RunFor(s, d)
    BY <1>1, <1>2, <1>4, <1>6
  <2>6. \A d \in Nat : d < StoppedAfter => RunFor(u, d)
    BY <2>3 DEF RunFor
  <2> QED
    BY <2>1, <2>4, <2>5, <2>6 DEF t
<1> QED
  BY <1>5, <1>6

\* A frame with another time renews the promise, the same frame keeps it.
LEMMA FrameKeepsRun ==
    ASSUME NEW s \in ScoreboardState, OnlyRun(s), NEW f \in Frame
    PROVE  LET t == SetClock(s, f.min, f.sec) IN
           /\ OnlyRun(t)
           /\ ~AtZero(f) /\ ~SameTime(s, f) => \A d \in Nat : d < StoppedAfter => RunFor(t, d)
           /\ SameTime(s, f) => \A d \in Nat : RunFor(s, d) => RunFor(t, d)
<1> DEFINE changed == s.min # f.min \/ s.sec # f.sec
           u == [s EXCEPT !.age = IF changed THEN 0 ELSE @, !.min = f.min, !.sec = f.sec]
           r == RefreshRunning(u)
<1>1. f.min \in Minutes /\ f.sec \in Seconds /\ 0 \in Ages /\ 0 < StoppedAfter
  BY ScoreboardAssumption DEF Frame, Ages
<1>2. /\ u \in ScoreboardState /\ u.min = f.min /\ u.sec = f.sec
      /\ u.age = IF changed THEN 0 ELSE s.age
      /\ u.pending = s.pending /\ u.pendingAge = s.pendingAge /\ u.running = s.running
  BY <1>1 DEF ScoreboardState
<1>3. SetClock(s, f.min, f.sec) = r
  BY DEF SetClock
<1>4. s.age \in Nat /\ s.pendingAge \in Nat /\ StoppedAfter \in Nat
  BY RunForTypes
<1>5. SameTime(s, f) <=> ~changed
  BY DEF SameTime
<1>6. ~changed => (AtZero(u) <=> AtZero(s))
  BY <1>2 DEF AtZero
<1> HIDE DEF u, changed
<1>7. OnlyRun(u)
  BY <1>2, <1>4, <1>6 DEF OnlyRun
<1>8. /\ OnlyRun(r) /\ \A d \in Nat : RunFor(u, d) => RunFor(r, d)
  BY <1>2, <1>7, RefreshKeepsRun
<1>9. ASSUME ~changed, NEW d \in Nat, RunFor(s, d)
      PROVE  RunFor(r, d)
  <2>1. RunFor(u, d)
    BY <1>2, <1>6, <1>9 DEF RunFor
  <2> QED
    BY <1>8, <2>1
<1>10. ASSUME ~AtZero(f), changed, NEW d \in Nat, d < StoppedAfter
       PROVE  RunFor(r, d)
  <2>1. ~AtZero(u) /\ u.age = 0
    BY <1>2, <1>10 DEF AtZero
  <2>2. ClockIsRunning(u.min, u.sec, u.age) = "run"
    <3>1. u.min \in Nat /\ u.sec \in Nat
      BY <1>2, RunForTypes
    <3> QED
      BY <1>1, <2>1, <3>1, ZeroSeconds DEF ClockIsRunning, AtZero
  <2>3. r.running = "run" /\ r.age = 0 /\ r.min = u.min /\ r.sec = u.sec
    BY <1>2, <2>1, <2>2, RefreshFields
  <2>4. r.pending = "none"
    BY <1>2, <1>7, <2>3, RefreshKeepsRun
  <2> QED
    BY <1>10, <2>1, <2>3, <2>4 DEF RunFor, AtZero
<1> HIDE DEF r
<1> QED
  BY <1>3, <1>5, <1>8, <1>9, <1>10

\* A unit of time takes one off the promise.
LEMMA ElapseKeepsRun ==
    ASSUME NEW s \in ScoreboardState, OnlyRun(s)
    PROVE  /\ OnlyRun(Elapse(s))
           /\ \A d \in Nat : RunFor(s, d + 1) => RunFor(Elapse(s), d)
<1>1. /\ s.age \in Nat /\ s.age <= StoppedAfter /\ s.pendingAge \in Nat
      /\ s.pendingAge <= StoppedAfter /\ StoppedAfter \in Nat
  BY RunForTypes
<1> DEFINE t == Elapse(s)
<1>2. /\ t.min = s.min /\ t.sec = s.sec /\ t.running = s.running /\ t.pending = s.pending
      /\ t.age = Older(s.age)
      /\ t.pendingAge = IF s.pending = "none" THEN s.pendingAge ELSE Older(s.pendingAge)
  BY DEF Elapse, ScoreboardState
<1>3. AtZero(t) <=> AtZero(s)
  BY <1>2 DEF AtZero
<1> HIDE DEF t
<1>4. \A a \in 0..StoppedAfter : /\ Older(a) \in Nat /\ Older(a) <= a + 1 /\ Older(a) <= StoppedAfter
                                 /\ a <= Older(a)
                                 /\ Older(a) = a + 1 \/ Older(a) = StoppedAfter
  BY <1>1 DEF Older
<1>5. OnlyRun(t)
  BY <1>1, <1>2, <1>3, <1>4 DEF OnlyRun
<1>6. ASSUME NEW d \in Nat, RunFor(s, d + 1)
      PROVE  RunFor(t, d)
  <2>1. s.age \in 0..StoppedAfter /\ s.pendingAge \in 0..StoppedAfter
    BY <1>1
  <2>2. Older(s.age) <= s.age + 1 /\ Older(s.pendingAge) <= s.pendingAge + 1
        /\ Older(s.age) \in Nat /\ Older(s.pendingAge) \in Nat
    BY <1>4, <2>1
  <2> QED
    BY <1>1, <1>2, <1>3, <1>6, <2>2 DEF RunFor
<1> QED
  BY <1>5, <1>6 DEF t

\* The time a frame may still take.
LEMMA LagLeft ==
    ASSUME NEW w \in Seq(Frame)
    PROVE  /\ Len(w) \in Nat
           /\ \A i \in 1..Len(w) : w[i] \in Frame /\ w[i].lag \in Nat /\ MaxLag - w[i].lag \in Nat
<1>1. Len(w) \in Nat /\ \A i \in 1..Len(w) : w[i] \in Frame
  BY LenProperties, ElementOfSeq
<1>2. \A f \in Frame : f.lag \in Nat /\ MaxLag - f.lag \in Nat
  BY BoardAssumption DEF Frame
<1> QED
  BY <1>1, <1>2

\* What a step leaves of the promise when it changes other fields only.
SameClock(s, t) ==
    /\ t.min = s.min /\ t.sec = s.sec /\ t.age = s.age /\ t.running = s.running
    /\ t.pending = s.pending /\ t.pendingAge = s.pendingAge

\* The promise survives a step that leaves the time.
KeepsRun(s, t) ==
    /\ t.min = s.min /\ t.sec = s.sec
    /\ OnlyRun(t)
    /\ \A d \in Nat : RunFor(s, d) => RunFor(t, d)

LEMMA SameClockKeeps ==
    ASSUME NEW s, NEW t, OnlyRun(s), SameClock(s, t)
    PROVE  KeepsRun(s, t)
BY DEF SameClock, KeepsRun, OnlyRun, RunFor, AtZero

\* So does the promise of the frames on their way.
LEMMA UntilKept ==
    ASSUME NEW s, NEW t, KeepsRun(s, t), NEW w \in Seq(Frame), NEW d \in Nat, Until(s, w, d)
    PROVE  Until(t, w, d)
<1>1. CASE RunFor(s, d)
  BY <1>1 DEF KeepsRun, Until
<1>2. CASE \E j \in 1..Len(w) : w[j].sec # s.sec /\ ~AtZero(w[j]) /\ RunFor(s, MaxLag - w[j].lag)
  <2>1. PICK j \in 1..Len(w) : w[j].sec # s.sec /\ ~AtZero(w[j]) /\ RunFor(s, MaxLag - w[j].lag)
    BY <1>2
  <2>2. MaxLag - w[j].lag \in Nat
    BY LagLeft
  <2> QED
    BY <2>1, <2>2 DEF KeepsRun, Until
<1> QED
  BY <1>1, <1>2 DEF Until

\* As long as it holds a request is not pulsed.
LEMMA UntilNoPulse ==
    ASSUME NEW s \in ScoreboardState, OnlyRun(s), NEW w \in Seq(Frame), NEW d \in Nat, Until(s, w, d)
    PROVE  ~PulseNeeded(s, "run")
<1>1. \A j \in 1..Len(w) : MaxLag - w[j].lag \in Nat
  BY LagLeft
<1> QED
  BY <1>1, RequestKeepsRun DEF Until

\* The invariant of the clock and the frames after a step that moves neither
\* the scoreboard nor a frame and sends no start pulse.
LEMMA StartStill ==
    ASSUME StartsOnly, TypeInv, TypeInv', StartInv, Quiet', KeepsRun(sb, sb'),
           UNCHANGED <<wire, board>>,
           Starting' => Starting /\ late' = late
    PROVE  StartInv'
<1>1. wire \in Seq(Frame) /\ board \in Board
  BY DEF TypeInv, TypeOK
<1>2. Pulsing'
  <2>1. SecondTicks + MaxLag + (IF late THEN 0 ELSE 1) \in Nat
    BY BoardAssumption
  <2> QED
    BY <2>1 DEF StartInv, Pulsing, KeepsRun
<1>3. Awaited'
  <2>1. SecondTicks - board.phase + MaxLag \in Nat
    BY CountTypes
  <2> QED
    BY <1>1, <2>1, UntilKept DEF StartInv, Awaited
<1>4. ZeroSeen'
  <2> SUFFICES ASSUME NEW i \in 1..Len(wire), AtZero(wire[i])
               PROVE  /\ board.run = "stop" /\ ~Starting'
                      /\ Until(sb', wire, MaxLag - wire[i].lag)
                      /\ \A j \in 1..Len(wire) : AtZero(wire[j]) => i = j
    BY DEF ZeroSeen
  <2>1. MaxLag - wire[i].lag \in Nat
    BY <1>1, LagLeft
  <2> QED
    BY <1>1, <2>1, UntilKept DEF StartInv, ZeroSeen
<1> QED
  BY <1>2, <1>3, <1>4 DEF StartInv, KeepsRun

\* Taking a command: one that StartsOnly allows.
LEMMA StartTakes ==
    ASSUME StartsOnly, StartInv, NEW op, Receive(op)
    PROVE  op \in StartCommands /\ queue' \in Seq(Commands)
<1>1. queue \in Seq(Commands) /\ queue # <<>> /\ Head(queue).op = op /\ queue' = Tail(queue)
  BY DEF StartInv, Quiet, Receive
<1>2. Head(queue) \in Commands /\ Tail(queue) \in Seq(Commands)
  BY <1>1, HeadTailProperties
<1> QED
  BY <1>1, <1>2 DEF StartsOnly

\* No stop and no set-timer is taken, and no train is owed.
LEMMA StartNever ==
    ASSUME StartsOnly, TypeInv, StartInv
    PROVE  /\ ~Stop /\ ~StartStop /\ ~Reset /\ ~SetTimer /\ ~Restop /\ ~TrainPulse
           /\ ~FreezePulseEnd /\ ~RestopPulseEnd /\ ~TrainPulseEnd /\ ~Reboot
<1>1. \A op : Receive(op) => op \in StartCommands
  BY StartTakes
<1>2. {"Stop", "StartStop", "Reset", "SetTimer"} \cap StartCommands = {}
  BY DEF StartCommands, ScoreOps
<1>3. ~HasPending
  BY DEF HasPending, TypeInv, TypeOK, ScoreTrainsIdle, StartInv, Quiet
<1>4. pc \in {"loop", "command", "blink"}
  BY DEF StartInv, Quiet
<1>5. ~Stop /\ ~StartStop /\ ~Reset /\ ~SetTimer
  BY <1>1, <1>2 DEF Stop, StartStop, StartStopFor, Reset, SetTimer
<1>6. ~Restop /\ ~TrainPulse
  BY <1>3 DEF Restop, TrainPulse, Train
<1>7. ~FreezePulseEnd /\ ~RestopPulseEnd /\ ~TrainPulseEnd
  BY <1>4 DEF FreezePulseEnd, RestopPulseEnd, TrainPulseEnd, PulseEnd
<1>8. ~Reboot
  BY DEF Reboot, StartsOnly
<1> QED
  BY <1>5, <1>6, <1>7, <1>8

\* board_task takes a command that is not a start, ends a pulse or a blink,
\* and a handler sends a command.
LEMMA StartOther ==
    ASSUME StartsOnly, TypeInv, TypeInv', StartInv,
           \/ LedOn \/ LedOff \/ HomeInc \/ HomeDec \/ AwayInc \/ AwayDec \/ ScoresZero \/ Aux
           \/ CommandPulseEnd \/ BlinkEnd \/ (\E c \in Commands : Send(c)) \/ UNCHANGED vars
    PROVE  StartInv'
<1>1. /\ sb \in ScoreboardState /\ OnlyRun(sb) /\ Quiet
      /\ pendingHomeDec = 0 /\ pendingAwayDec = 0
      /\ pin # "low" <=> pc = "command"
  BY DEF TypeInv, TypeOK, StartInv, Quiet, ScoreTrainsIdle
<1>2. AfterPulse \in {"loop", "blink"}
  BY DEF AfterPulse
<1>3. CASE LedOn \/ LedOff
  <2>1. PICK on \in BOOLEAN : sb' = Publish([sb EXCEPT !.led = on])
    BY <1>3 DEF LedOn, LedOff, Led
  <2>2. SameClock(sb, sb')
    BY <1>1, <2>1 DEF Publish, SameClock, ScoreboardState
  <2>3. UNCHANGED <<task, asked, board, wire>> /\ pc = "loop" /\ queue' \in Seq(Commands)
    BY <1>3, StartTakes DEF LedOn, LedOff, Led, Receive
  <2>4. Quiet' /\ ~Starting'
    BY <1>1, <2>3 DEF Quiet, task, train, Starting
  <2> QED
    BY <1>1, <2>2, <2>3, <2>4, SameClockKeeps, StartStill
<1>4. CASE HomeInc \/ HomeDec \/ AwayInc \/ AwayDec \/ ScoresZero
  <2>1. \E h, a : sb' = sb \/ sb' = Publish([sb EXCEPT !.home = h, !.away = a])
                           \/ sb' = Publish([sb EXCEPT !.home = h])
                           \/ sb' = Publish([sb EXCEPT !.away = a])
    BY <1>4 DEF HomeInc, HomeDec, AwayInc, AwayDec, Score, ScoresZero
  <2>2. SameClock(sb, sb')
    BY <1>1, <2>1 DEF Publish, SameClock, ScoreboardState
  <2>3. /\ UNCHANGED <<asked, board, wire, pendingMin, pendingSec>>
        /\ pc = "loop" /\ queue' \in Seq(Commands)
    BY <1>4, StartTakes DEF HomeInc, HomeDec, AwayInc, AwayDec, Score, ScoresZero, Receive
  <2>4. /\ pc' \in {"loop", "command", "blink"}
        /\ pin' = pin \/ pin' \in {"home_inc", "home_dec", "away_inc", "away_dec", "clear"}
    BY <1>1, <1>2, <1>4, <2>3 DEF HomeInc, HomeDec, AwayInc, AwayDec, Score, ScoresZero, Raised
  <2>5. Quiet' /\ ~Starting'
    BY <1>1, <2>3, <2>4 DEF Quiet, Starting
  <2> QED
    BY <1>1, <2>2, <2>3, <2>5, SameClockKeeps, StartStill
<1>5. CASE Aux
  <2>1. /\ UNCHANGED <<sb, asked, board, wire, pendingMin, pendingSec>>
        /\ pc' = "command" /\ pin' = "aux" /\ queue' \in Seq(Commands)
    BY <1>5, StartTakes DEF Aux, Receive, Raised, train
  <2>2. Quiet' /\ ~Starting' /\ SameClock(sb, sb')
    BY <1>1, <2>1 DEF Quiet, Starting, SameClock
  <2> QED
    BY <1>1, <2>1, <2>2, SameClockKeeps, StartStill
<1>6. CASE CommandPulseEnd
  <2>1. /\ UNCHANGED <<sb, queue, asked, board, wire, pendingMin, pendingSec>>
        /\ pc' \in {"loop", "blink"} /\ pin' = "low"
    BY <1>2, <1>6 DEF CommandPulseEnd, PulseEnd, train
  <2>2. Quiet' /\ ~Starting' /\ SameClock(sb, sb')
    BY <1>1, <2>1 DEF Quiet, Starting, SameClock
  <2> QED
    BY <1>1, <2>1, <2>2, SameClockKeeps, StartStill
<1>7. CASE BlinkEnd
  <2>1. /\ UNCHANGED <<sb, queue, asked, board, wire, pendingMin, pendingSec, pin>>
        /\ pc = "blink" /\ pc' = "loop"
    BY <1>7 DEF BlinkEnd, train, ghost
  <2>2. Quiet' /\ ~Starting' /\ SameClock(sb, sb')
    BY <1>1, <2>1 DEF Quiet, Starting, SameClock
  <2> QED
    BY <1>1, <2>1, <2>2, SameClockKeeps, StartStill
<1>8. CASE (\E c \in Commands : Send(c)) \/ UNCHANGED vars
  <2>1. UNCHANGED <<sb, task, asked, board, wire, late>>
    BY <1>8 DEF Send, vars, ghost
  <2>2. queue' \in Seq(Commands)
    <3>1. \A c \in Commands : Append(queue, c) \in Seq(Commands)
      BY <1>1, AppendProperties DEF Quiet
    <3> QED
      BY <1>1, <1>8, <3>1 DEF Send, vars, Quiet
  <2>3. Quiet' /\ (Starting' <=> Starting) /\ SameClock(sb, sb')
    BY <1>1, <2>1, <2>2 DEF Quiet, Starting, SameClock, task, train
  <2> QED
    BY <1>1, <2>1, <2>3, SameClockKeeps, StartStill
<1> QED
  BY <1>3, <1>4, <1>5, <1>6, <1>7, <1>8

\* heartbeat_task, a status request or an event refreshes.
LEMMA StartRefresh ==
    ASSUME StartsOnly, TypeInv, TypeInv', StartInv, Refresh
    PROVE  StartInv'
<1>1. sb \in ScoreboardState /\ OnlyRun(sb) /\ Quiet
  BY DEF TypeInv, TypeOK, StartInv
<1>2. sb' = RefreshRunning(sb) /\ UNCHANGED <<queue, task, asked, board, wire, late>>
  BY DEF Refresh, ghost
<1>3. KeepsRun(sb, sb')
  BY <1>1, <1>2, RefreshType, RefreshKeepsRun DEF KeepsRun
<1>4. Quiet' /\ (Starting' <=> Starting)
  BY <1>1, <1>2 DEF Quiet, Starting, task, train
<1> QED
  BY <1>2, <1>3, <1>4, StartStill

\* /start: a pulse is sent only beside a stopped clock.
LEMMA StartRequest ==
    ASSUME StartsOnly, TypeInv, TypeInv', StartInv, Start
    PROVE  StartInv'
<1>1. /\ sb \in ScoreboardState /\ OnlyRun(sb) /\ Quiet /\ wire \in Seq(Frame) /\ board \in Board
      /\ pc = "loop" /\ pin = "low"
  BY DEF TypeInv, TypeOK, StartInv, Start, StartStopFor, Receive
<1>2. /\ sb' = AfterRequest(sb, "run") /\ UNCHANGED <<board, wire, pendingMin, pendingSec>>
      /\ queue' \in Seq(Commands) /\ late' = FALSE
  BY StartTakes DEF Start, StartStopFor, Receive, train
<1>3. KeepsRun(sb, sb')
  BY <1>1, <1>2, RequestRuns, RequestKeepsRun DEF KeepsRun
<1>4. CASE ~PulseNeeded(sb, "run")
  <2>1. pc' \in {"loop", "blink"} /\ UNCHANGED <<pin, noticed, asked>>
    BY <1>4 DEF Start, StartStopFor, AfterPulse
  <2>2. Quiet' /\ ~Starting'
    BY <1>1, <1>2, <2>1 DEF Quiet, Starting
  <2> QED
    BY <1>2, <1>3, <2>2, StartStill
<1>5. CASE PulseNeeded(sb, "run")
  <2>1. pc' = "command" /\ pin' = "start" /\ noticed' = FALSE /\ asked' = "run"
    BY <1>5 DEF Start, StartStopFor, Raised
  <2>2. Quiet'
    BY <1>1, <1>2, <2>1 DEF Quiet
  <2>3. board.run = "stop"
    <3>1. SecondTicks - board.phase + MaxLag \in Nat
      BY CountTypes
    <3>2. board.run # "run"
      BY <1>1, <1>5, <3>1, UntilNoPulse DEF StartInv, Awaited
    <3> QED
      BY <1>1, <3>2 DEF Board, Run
  <2>4. \A i \in 1..Len(wire) : ~AtZero(wire[i])
    <3>1. \A i \in 1..Len(wire) : MaxLag - wire[i].lag \in Nat
      BY <1>1, LagLeft
    <3> QED
      BY <1>1, <1>5, <3>1, UntilNoPulse DEF StartInv, ZeroSeen
  <2>5. Pulsing'
    <3>1. SecondTicks + MaxLag + 1 \in Nat /\ SecondTicks + MaxLag + 1 < StoppedAfter
      BY BoardAssumption DEF StartsOnly
    <3>2. RunFor(sb', SecondTicks + MaxLag + 1)
      BY <1>1, <1>2, <1>5, <3>1, RequestKeepsRun
    <3> QED
      BY <1>2, <2>3, <3>2 DEF Pulsing
  <2>6. Awaited' /\ ZeroSeen'
    BY <1>2, <2>3, <2>4 DEF Awaited, ZeroSeen
  <2> QED
    BY <1>3, <2>2, <2>5, <2>6 DEF StartInv, KeepsRun
<1> QED
  BY <1>4, <1>5

\* read_serial: a frame that is not 0:00 renews the promise or changes nothing.
LEMMA UntilRead ==
    ASSUME StartsOnly, NEW s \in ScoreboardState, OnlyRun(s), NEW w \in Seq(Frame), w # <<>>,
           ~AtZero(Head(w)), NEW d \in Nat, d < StoppedAfter, Until(s, w, d)
    PROVE  Until(SetClock(s, Head(w).min, Head(w).sec), Tail(w), d)
<1> DEFINE h == Head(w)
           t == SetClock(s, h.min, h.sec)
           v == Tail(w)
<1>1. /\ Len(w) \in Nat /\ h = w[1] /\ h \in Frame /\ v \in Seq(Frame) /\ Len(v) = Len(w) - 1
      /\ \A i \in 1..Len(v) : v[i] = w[i + 1]
  BY HeadTailProperties, LenProperties
<1> HIDE DEF h, v
<1>2. CASE ~SameTime(s, h)
  BY <1>1, <1>2, FrameKeepsRun DEF Until, h
<1>3. CASE SameTime(s, h)
  <2>1. \A e \in Nat : RunFor(s, e) => RunFor(t, e)
    BY <1>1, <1>3, FrameKeepsRun
  <2>2. t.sec = s.sec
    <3>1. h.min \in Minutes /\ h.sec \in Seconds
      BY <1>1 DEF Frame
    <3> QED
      BY <1>3, <3>1, SetClockType DEF SameTime
  <2> HIDE DEF t
  <2>3. CASE RunFor(s, d)
    BY <2>1, <2>3 DEF Until, t, v, h
  <2>4. CASE \E j \in 1..Len(w) : w[j].sec # s.sec /\ ~AtZero(w[j]) /\ RunFor(s, MaxLag - w[j].lag)
    <3>1. PICK j \in 1..Len(w) : w[j].sec # s.sec /\ ~AtZero(w[j]) /\ RunFor(s, MaxLag - w[j].lag)
      BY <2>4
    <3>2. j # 1
      BY <1>1, <1>3, <3>1 DEF SameTime
    <3>3. j - 1 \in 1..Len(v) /\ v[j - 1] = w[j]
      BY <1>1, <3>2
    <3>4. RunFor(t, MaxLag - w[j].lag)
      BY <2>1, <3>1, LagLeft
    <3>5. Until(t, v, d)
      BY <2>2, <3>1, <3>3, <3>4 DEF Until
    <3> QED
      BY <3>5 DEF t, v, h
  <2> QED
    BY <2>3, <2>4 DEF Until
<1> QED
  BY <1>2, <1>3

LEMMA StartRead ==
    ASSUME StartsOnly, TypeInv, TypeInv', StartInv, ReadFrame
    PROVE  StartInv'
<1> DEFINE h == Head(wire)
           t == SetClock(sb, h.min, h.sec)
<1>1. /\ sb \in ScoreboardState /\ OnlyRun(sb) /\ Quiet /\ wire \in Seq(Frame) /\ wire # <<>>
      /\ board \in Board
      /\ sb' = t /\ wire' = Tail(wire) /\ UNCHANGED <<queue, task, board, late, asked>>
  BY DEF ReadFrame, TypeInv, TypeOK, StartInv, ghost
<1>2. /\ Len(wire) \in Nat /\ Len(wire) > 0 /\ h = wire[1] /\ h \in Frame
      /\ Len(wire') = Len(wire) - 1
      /\ \A i \in 1..Len(wire') : wire'[i] = wire[i + 1]
  BY <1>1, HeadTailProperties, LenProperties, EmptySeq
<1> HIDE DEF h
<1>3. OnlyRun(t)
  BY <1>1, <1>2, FrameKeepsRun
<1>4. Quiet' /\ (Starting' <=> Starting)
  BY <1>1 DEF Quiet, Starting, task, train
<1>5. ASSUME ~AtZero(h), NEW d \in Nat, d < StoppedAfter, Until(sb, wire, d)
      PROVE  Until(sb', wire', d)
  BY <1>1, <1>5, UntilRead DEF h
<1>6. AtZero(h) => board.run = "stop" /\ ~Starting /\ \A i \in 1..Len(wire') : ~AtZero(wire'[i])
  <2>1. 1 \in 1..Len(wire) /\ \A i \in 1..Len(wire') : i + 1 \in 1..Len(wire) /\ i + 1 # 1
    BY <1>2
  <2> QED
    BY <1>2, <2>1 DEF StartInv, ZeroSeen
<1>7. ASSUME ~AtZero(h), NEW d \in Nat, d < StoppedAfter, RunFor(sb, d)
      PROVE  RunFor(t, d)
  BY <1>1, <1>2, <1>7, FrameKeepsRun
<1>8. /\ SecondTicks \in Nat /\ SecondTicks > 0 /\ MaxLag \in Nat /\ StoppedAfter \in Nat
      /\ board.phase \in Nat /\ board.phase < SecondTicks
      /\ SecondTicks + MaxLag + 1 < StoppedAfter
  BY CountTypes DEF StartsOnly
<1> HIDE DEF t
<1>9. Pulsing'
  <2> SUFFICES ASSUME Starting, ~AtZero(h)
               PROVE  RunFor(sb', SecondTicks + MaxLag + (IF late THEN 0 ELSE 1)) /\ board.run = "stop"
    BY <1>1, <1>4, <1>6 DEF Pulsing
  <2> DEFINE d == SecondTicks + MaxLag + (IF late THEN 0 ELSE 1)
  <2>1. d \in Nat /\ d < StoppedAfter
    BY <1>8
  <2>2. RunFor(sb, d) /\ board.run = "stop"
    BY DEF StartInv, Pulsing
  <2> HIDE DEF d
  <2>3. RunFor(sb', d)
    BY <1>1, <1>7, <2>1, <2>2
  <2> QED
    BY <2>2, <2>3 DEF d
<1>10. Awaited'
  <2> DEFINE d == SecondTicks - board.phase + MaxLag
  <2>1. d \in Nat /\ d < StoppedAfter
    BY <1>8
  <2>2. board.run = "run" => Until(sb, wire, d) /\ ~AtZero(h)
    BY <1>6 DEF StartInv, Awaited
  <2> HIDE DEF d
  <2>3. board.run = "run" => Until(sb', wire', d)
    BY <1>5, <2>1, <2>2
  <2> QED
    BY <1>1, <2>3 DEF Awaited, d
<1>11. ZeroSeen'
  <2> SUFFICES ASSUME NEW i \in 1..Len(wire'), AtZero(wire'[i])
               PROVE  /\ board.run = "stop" /\ ~Starting
                      /\ Until(sb', wire', MaxLag - wire'[i].lag)
                      /\ \A j \in 1..Len(wire') : AtZero(wire'[j]) => i = j
    BY <1>1, <1>4 DEF ZeroSeen
  <2>1. i + 1 \in 1..Len(wire) /\ wire'[i] = wire[i + 1]
    BY <1>2
  <2>2. /\ board.run = "stop" /\ ~Starting /\ Until(sb, wire, MaxLag - wire[i + 1].lag)
        /\ \A j \in 1..Len(wire) : AtZero(wire[j]) => i + 1 = j
    BY <2>1 DEF StartInv, ZeroSeen
  <2>3. ~AtZero(h)
    BY <1>6
  <2>4. MaxLag - wire[i + 1].lag \in Nat /\ MaxLag - wire[i + 1].lag < StoppedAfter
    <3>1. wire[i + 1].lag \in Nat /\ MaxLag - wire[i + 1].lag \in Nat
      BY <1>1, <2>1, LagLeft
    <3> QED
      BY <1>8, <3>1
  <2>5. Until(sb', wire', MaxLag - wire'[i].lag)
    BY <1>5, <2>1, <2>2, <2>3, <2>4
  <2>6. \A j \in 1..Len(wire') : AtZero(wire'[j]) => i = j
    <3> SUFFICES ASSUME NEW j \in 1..Len(wire'), AtZero(wire'[j])
                 PROVE  i = j
      OBVIOUS
    <3>1. j + 1 \in 1..Len(wire) /\ wire'[j] = wire[j + 1]
      BY <1>2
    <3>2. i + 1 = j + 1
      BY <2>2, <3>1
    <3> QED
      BY <1>2, <3>2
  <2> QED
    BY <2>2, <2>5, <2>6
<1> QED
  BY <1>1, <1>3, <1>4, <1>9, <1>10, <1>11 DEF StartInv

\* A pulse or press that is neither a start nor moves the display changes
\* nothing of the clock.
LEMMA ReactScores ==
    ASSUME NEW b \in Board,
           NEW button \in {"home_inc", "home_dec", "away_inc", "away_dec", "clear", "aux"},
           NEW c \in React(b, button)
    PROVE  SameTime(b, c) /\ c.run = b.run /\ c.phase = b.phase
<1>1. CASE button \in {"home_inc", "home_dec"}
  BY <1>1 DEF React, Board, SameTime
<1>2. CASE button \in {"away_inc", "away_dec"}
  BY <1>2 DEF React, Board, SameTime
<1>3. CASE button \in {"clear", "aux"}
  BY <1>3 DEF React, Board, SameTime
<1> QED
  BY <1>1, <1>2, <1>3

\* The scoreboard reacts: a start pulse finds it stopped, and starts it.
LEMMA StartNotice ==
    ASSUME StartsOnly, TypeInv, TypeInv', StartInv, Notice
    PROVE  StartInv'
<1>1. /\ sb \in ScoreboardState /\ OnlyRun(sb) /\ Quiet /\ wire \in Seq(Frame)
      /\ board \in Board /\ board' \in Board
  BY DEF TypeInv, TypeOK, StartInv
<1>2. /\ pin # "low" /\ ~noticed /\ noticed' = TRUE
      /\ board' \in React(board, pin) /\ wire' \in Transmit(wire, board, board')
      /\ UNCHANGED <<sb, queue, pc, pin, pendingMin, pendingSec, late, asked>>
  BY DEF Notice, train
<1>3. ~Starting'
  BY <1>2 DEF Starting
<1>4. CASE pin = "start"
  <2>1. Starting
    BY <1>2, <1>4 DEF Starting
  <2>2. board.run = "stop" /\ RunFor(sb, SecondTicks + MaxLag + (IF late THEN 0 ELSE 1))
    BY <2>1 DEF StartInv, Pulsing
  <2>3. \A i \in 1..Len(wire) : ~AtZero(wire[i])
    BY <2>1 DEF StartInv, ZeroSeen
  <2>4. \/ board' = board
        \/ /\ TotalSeconds(board.min, board.sec) # 0
           /\ \E p \in 0..(SecondTicks - 1) : board' = [board EXCEPT !.run = "run", !.phase = p]
    BY <1>2, <1>4, <2>2 DEF React
  <2>5. SameTime(board, board') /\ (board'.run = "run" => ~AtZero(board'))
    <3>1. CASE board' = board
      BY <2>2, <3>1 DEF SameTime
    <3>2. CASE /\ TotalSeconds(board.min, board.sec) # 0
               /\ \E p \in 0..(SecondTicks - 1) : board' = [board EXCEPT !.run = "run", !.phase = p]
      <4>1. board'.min = board.min /\ board'.sec = board.sec
        BY <1>1, <3>2 DEF Board
      <4>2. board.min \in Nat /\ board.sec \in Nat
        BY <1>1, ScoreboardAssumption DEF Board, Minutes, Seconds
      <4> QED
        BY <3>2, <4>1, <4>2, ZeroSeconds DEF SameTime, AtZero
    <3> QED
      BY <2>4, <3>1, <3>2
  <2>6. wire' = wire
    BY <1>2, <2>5 DEF Transmit
  <2>7. Quiet'
    BY <1>1, <1>2, <2>5 DEF Quiet
  <2>8. RunFor(sb, SecondTicks - board'.phase + MaxLag)
    <3>1. /\ board'.phase \in 0..(SecondTicks - 1) /\ SecondTicks \in Nat /\ MaxLag \in Nat
      BY <1>1, BoardAssumption DEF Board
    <3> DEFINE d == SecondTicks + MaxLag + (IF late THEN 0 ELSE 1)
               e == SecondTicks - board'.phase + MaxLag
    <3>2. d \in Nat /\ e \in Nat /\ e <= d
      BY <3>1
    <3>3. RunFor(sb, d)
      BY <2>2
    <3> HIDE DEF d, e
    <3>4. RunFor(sb, e)
      BY <1>1, <3>2, <3>3, RunForLess
    <3> QED
      BY <3>4 DEF e
  <2>9. Awaited' /\ ZeroSeen' /\ Pulsing'
    BY <1>2, <1>3, <2>3, <2>6, <2>8 DEF Awaited, ZeroSeen, Pulsing, Until
  <2> QED
    BY <1>1, <1>2, <2>7, <2>9 DEF StartInv
<1>5. CASE pin # "start"
  <2>1. pin \in {"home_inc", "home_dec", "away_inc", "away_dec", "clear", "aux"}
    BY <1>1, <1>2, <1>5 DEF Quiet
  <2>2. SameTime(board, board') /\ board'.run = board.run /\ board'.phase = board.phase
    BY <1>1, <1>2, <2>1, ReactScores
  <2>3. wire' = wire
    BY <1>2, <2>2 DEF Transmit
  <2>4. Quiet'
    BY <1>1, <1>2, <2>2 DEF Quiet, SameTime, AtZero
  <2>5. Awaited' /\ ZeroSeen' /\ Pulsing'
    BY <1>2, <1>3, <2>2, <2>3 DEF StartInv, Awaited, ZeroSeen, Pulsing
  <2> QED
    BY <1>1, <1>2, <2>4, <2>5 DEF StartInv
<1> QED
  BY <1>4, <1>5

\* The button for minutes leaves the seconds, and never comes to 0:00.
LEMMA ReactMinute ==
    ASSUME NEW b \in Board, NEW c \in React(b, "min_inc")
    PROVE  /\ c.sec = b.sec /\ c.run = b.run /\ c.phase = b.phase
           /\ ~AtZero(b) \/ ~SameTime(b, c) => ~AtZero(c)
<1>1. c = [b EXCEPT !.min = Raise(@, MaxMin)]
  BY DEF React
<1>2. c.sec = b.sec /\ c.run = b.run /\ c.phase = b.phase /\ c.min = Raise(b.min, MaxMin)
  BY <1>1 DEF Board
<1>3. b.min \in Nat /\ MaxMin \in Nat
  BY ScoreboardAssumption DEF Board, Minutes
<1>4. c.min \in Nat /\ (c.min = b.min \/ c.min = b.min + 1)
  BY <1>2, <1>3 DEF Raise
<1> QED
  BY <1>2, <1>3, <1>4 DEF AtZero, SameTime

\* A frame that is added takes nothing from the promise.
LEMMA UntilAppend ==
    ASSUME NEW s, NEW w \in Seq(Frame), NEW f \in Frame, NEW d, Until(s, w, d)
    PROVE  Until(s, Append(w, f), d)
<1> DEFINE v == Append(w, f)
<1>1. Len(w) \in Nat /\ Len(v) = Len(w) + 1 /\ \A j \in 1..Len(w) : v[j] = w[j]
  BY AppendProperties, LenProperties
<1>2. \A j \in 1..Len(w) : j \in 1..Len(v)
  BY <1>1
<1> HIDE DEF v
<1>3. Until(s, v, d)
  BY <1>1, <1>2 DEF Until
<1> QED
  BY <1>3 DEF v

\* Somebody presses a button that leaves the seconds alone.
LEMMA StartPress ==
    ASSUME StartsOnly, TypeInv, TypeInv', StartInv, InSync, NEW button \in Buttons, Press(button)
    PROVE  StartInv'
<1> DEFINE n == Len(wire)
           new == [min |-> board'.min, sec |-> board'.sec, lag |-> 0]
<1>1. /\ sb \in ScoreboardState /\ OnlyRun(sb) /\ Quiet /\ wire \in Seq(Frame)
      /\ board \in Board /\ board' \in Board /\ n \in Nat
  BY LenProperties DEF TypeInv, TypeOK, StartInv
<1>2. /\ board' \in React(board, button) /\ wire' \in Transmit(wire, board, board')
      /\ UNCHANGED <<sb, queue, task, late, asked>>
  BY DEF Press
<1>3. button \in {"min_inc", "home_inc", "home_dec", "away_inc", "away_dec", "clear", "aux"}
  BY BoardAssumption DEF StartsOnly, Pins
<1>4. /\ board'.sec = board.sec /\ board'.run = board.run /\ board'.phase = board.phase
      /\ ~AtZero(board) \/ ~SameTime(board, board') => ~AtZero(board')
  <2>1. CASE button = "min_inc"
    BY <1>1, <1>2, <2>1, ReactMinute
  <2>2. CASE button # "min_inc"
    <3>1. SameTime(board, board') /\ board'.run = board.run /\ board'.phase = board.phase
      BY <1>1, <1>2, <1>3, <2>2, ReactScores
    <3> QED
      BY <3>1 DEF SameTime, AtZero
  <2> QED
    BY <2>1, <2>2
<1>5. Quiet' /\ (Starting' <=> Starting)
  BY <1>1, <1>2, <1>4 DEF Quiet, Starting, task, train
<1>6. Pulsing'
  BY <1>2, <1>4, <1>5 DEF StartInv, Pulsing
\* The new time is on its way, in a frame of its own or in the last one.
<1>7. CASE SameTime(board, board')
  <2>1. wire' = wire
    BY <1>2, <1>7 DEF Transmit
  <2>2. Awaited' /\ ZeroSeen'
    BY <1>2, <1>4, <1>5, <2>1 DEF StartInv, Awaited, ZeroSeen
  <2> QED
    BY <1>1, <1>2, <1>5, <1>6, <2>2 DEF StartInv
<1>8. CASE ~SameTime(board, board')
  <2>1. new \in Frame /\ ~AtZero(new) /\ new.sec = board.sec /\ new.lag = 0
    BY <1>1, <1>4, <1>8, BoardAssumption DEF Frame, Board, AtZero
  <2>2. \/ wire' = Append(wire, new)
        \/ n > 0 /\ wire[n].lag = 0 /\ wire' = [wire EXCEPT ![n] = new]
    BY <1>2, <1>8 DEF Transmit
  <2> HIDE DEF new
  <2>3. \A d \in Nat : Until(sb, wire, d) => Until(sb, wire', d)
    <3>1. CASE wire' = Append(wire, new)
      BY <1>1, <2>1, <3>1, UntilAppend
    <3>2. CASE n > 0 /\ wire[n].lag = 0 /\ wire' = [wire EXCEPT ![n] = new]
      <4>1. n \in 1..n
        BY <1>1, <3>2
      <4>2. wire' \in Seq(Frame) /\ Len(wire') = n
        BY <1>1, <2>1, <3>2, <4>1, ExceptSeq
      <4>3. \A j \in 1..n : j # n => wire'[j] = wire[j]
        BY <1>1, <2>1, <3>2, <4>1, ExceptSeq
      <4>4. wire'[n] = new
        BY <1>1, <2>1, <3>2, <4>1, ExceptSeq
      <4>5. wire[n].sec = new.sec /\ wire[n].lag = new.lag
        BY <2>1, <3>2 DEF InSync, SameTime
      <4> HIDE DEF n
      <4>6. \A j \in 1..n : /\ wire'[j].sec = wire[j].sec /\ wire'[j].lag = wire[j].lag
                            /\ ~AtZero(wire[j]) => ~AtZero(wire'[j])
        BY <2>1, <4>3, <4>4, <4>5
      <4> QED
        BY <4>2, <4>6 DEF Until, n
    <3> QED
      BY <2>2, <3>1, <3>2
  <2>4. \A i \in 1..Len(wire') : AtZero(wire'[i]) => i \in 1..n /\ wire'[i] = wire[i]
    <3>1. CASE wire' = Append(wire, new)
      <4>1. Len(wire') = n + 1 /\ wire'[n + 1] = new /\ \A i \in 1..n : wire'[i] = wire[i]
        BY <1>1, <2>1, <3>1, AppendProperties
      <4>2. \A i \in 1..Len(wire') : i \in 1..n \/ i = n + 1
        BY <1>1, <4>1
      <4> HIDE DEF n
      <4> QED
        BY <2>1, <4>1, <4>2
    <3>2. CASE n > 0 /\ wire[n].lag = 0 /\ wire' = [wire EXCEPT ![n] = new]
      <4>1. n \in 1..n
        BY <1>1, <3>2
      <4>2. /\ Len(wire') = n /\ wire'[n] = new
            /\ \A j \in 1..n : j # n => wire'[j] = wire[j]
        BY <1>1, <2>1, <3>2, <4>1, ExceptSeq
      <4> HIDE DEF n
      <4> QED
        BY <2>1, <4>2
    <3> QED
      BY <2>2, <3>1, <3>2
  <2>5. Awaited'
    <3>1. SecondTicks - board.phase + MaxLag \in Nat
      BY CountTypes
    <3> QED
      BY <1>2, <1>4, <2>3, <3>1 DEF StartInv, Awaited
  <2>6. ZeroSeen'
    <3> SUFFICES ASSUME NEW i \in 1..Len(wire'), AtZero(wire'[i])
                 PROVE  /\ board.run = "stop" /\ ~Starting
                        /\ Until(sb, wire', MaxLag - wire'[i].lag)
                        /\ \A j \in 1..Len(wire') : AtZero(wire'[j]) => i = j
      BY <1>2, <1>4, <1>5 DEF ZeroSeen
    <3>1. i \in 1..n /\ wire'[i] = wire[i]
      BY <2>4
    <3>2. /\ board.run = "stop" /\ ~Starting /\ Until(sb, wire, MaxLag - wire[i].lag)
          /\ \A j \in 1..n : AtZero(wire[j]) => i = j
      BY <3>1 DEF StartInv, ZeroSeen
    <3>3. MaxLag - wire[i].lag \in Nat
      BY <1>1, <3>1, LagLeft
    <3> QED
      BY <2>3, <2>4, <3>1, <3>2, <3>3
  <2> QED
    BY <1>1, <1>2, <1>5, <1>6, <2>5, <2>6 DEF StartInv
<1> QED
  BY <1>7, <1>8

\* A second of a clock that is not at 0:00 moves the seconds.
LEMMA CountDownSeconds ==
    ASSUME MaxSec > 0, NEW b \in Board, ~AtZero(b)
    PROVE  LET c == CountDown(b) IN
           /\ c.sec # b.sec /\ c.phase = 0
           /\ c.run = b.run \/ c.run = "stop"
           /\ AtZero(c) => c.run = "stop"
           /\ c.run = "run" => ~AtZero(c)
<1> DEFINE min == IF b.sec > 0 THEN b.min ELSE Lower(b.min, 0)
           sec == IF b.sec > 0 THEN b.sec - 1 ELSE IF b.min > 0 THEN MaxSec ELSE 0
           run == IF TotalSeconds(min, sec) = 0 THEN "stop" ELSE b.run
           c == CountDown(b)
<1>1. b.min \in Nat /\ b.sec \in Nat /\ MaxSec \in Nat
  BY ScoreboardAssumption DEF Board, Minutes, Seconds
<1>2. c.min = min /\ c.sec = sec /\ c.run = run /\ c.phase = 0
  <2> HIDE DEF min, sec
  <2>1. c = [b EXCEPT !.min = min, !.sec = sec, !.phase = 0, !.run = run]
    BY DEF CountDown, min, sec
  <2> HIDE DEF run, c
  <2> QED
    BY <2>1 DEF Board
<1>3. sec # b.sec
  BY <1>1 DEF AtZero
<1>4. min \in Nat /\ sec \in Nat
  BY <1>1 DEF Lower
<1> HIDE DEF min, sec, c
<1>5. TotalSeconds(min, sec) = 0 <=> AtZero(c)
  BY <1>2, <1>4, ZeroSeconds DEF AtZero
<1> QED
  BY <1>2, <1>3, <1>5 DEF c

\* A unit of time: the frames, the wish and the time are one unit older.
LEMMA StartTick ==
    ASSUME StartsOnly, TypeInv, TypeInv', StartInv, InSync, Tick
    PROVE  StartInv'
<1> DEFINE w == [i \in 1..Len(wire) |-> [wire[i] EXCEPT !.lag = @ + 1]]
           n == Len(wire)
           c == [min |-> board'.min, sec |-> board'.sec, lag |-> 0]
<1>1. /\ n \in Nat /\ sb \in ScoreboardState /\ OnlyRun(sb) /\ Quiet /\ wire \in Seq(Frame)
      /\ board \in Board /\ board' \in Board
      /\ board.phase \in Nat /\ board.phase < SecondTicks
      /\ SecondTicks \in Nat /\ SecondTicks > 0 /\ MaxLag \in Nat /\ StoppedAfter \in Nat
      /\ MaxSec > 0
  BY CountTypes DEF TypeInv, TypeOK, StartInv, StartsOnly
<1>2. /\ ~late /\ sb' = Elapse(sb) /\ late' = BoardReady /\ UNCHANGED <<queue, task, asked>>
      /\ \A i \in 1..n : wire[i].lag < MaxLag
  BY DEF Tick
<1>3. /\ OnlyRun(sb') /\ \A d \in Nat : RunFor(sb, d + 1) => RunFor(sb', d)
      /\ sb'.min = sb.min /\ sb'.sec = sb.sec
  BY <1>1, <1>2, ElapseKeepsRun, ElapseAges
<1>4. w \in Seq(Frame) /\ Len(w) = n
  <2>1. w \in Seq(Frame)
    BY <1>1, <1>2, AgedFrames
  <2>2. DOMAIN w = 1..n /\ DOMAIN w = 1..Len(w) /\ Len(w) \in Nat
    BY <2>1, LenProperties
  <2> QED
    BY <1>1, <2>1, <2>2
<1>5. \A i \in 1..n : /\ w[i].lag = wire[i].lag + 1 /\ wire[i].lag \in Nat
                      /\ w[i].min = wire[i].min /\ w[i].sec = wire[i].sec
                      /\ AtZero(w[i]) <=> AtZero(wire[i])
  BY <1>1, LagLeft DEF Frame, AtZero
<1>6. wire' \in Transmit(w, board, board')
  BY DEF Tick, w
<1> HIDE DEF w
<1>7. \A i \in 1..n : MaxLag - w[i].lag \in Nat /\ MaxLag - wire[i].lag = (MaxLag - w[i].lag) + 1
  <2> SUFFICES ASSUME NEW i \in 1..n
               PROVE  MaxLag - w[i].lag \in Nat /\ MaxLag - wire[i].lag = (MaxLag - w[i].lag) + 1
    OBVIOUS
  <2>1. wire[i].lag \in Nat /\ wire[i].lag < MaxLag /\ w[i].lag = wire[i].lag + 1 /\ MaxLag \in Nat
    BY <1>1, <1>2, <1>5
  <2> QED
    BY <2>1
<1>8. Starting' <=> Starting
  BY <1>2 DEF Starting, task
<1>9. ASSUME NEW d \in Nat, Until(sb, wire, d + 1)
      PROVE  Until(sb', w, d)
  <2>1. CASE RunFor(sb, d + 1)
    BY <1>3, <1>9, <2>1 DEF Until
  <2>2. CASE \E j \in 1..n : wire[j].sec # sb.sec /\ ~AtZero(wire[j]) /\ RunFor(sb, MaxLag - wire[j].lag)
    <3>1. PICK j \in 1..n : wire[j].sec # sb.sec /\ ~AtZero(wire[j]) /\ RunFor(sb, MaxLag - wire[j].lag)
      BY <2>2
    <3>2. MaxLag - w[j].lag \in Nat /\ MaxLag - wire[j].lag = (MaxLag - w[j].lag) + 1
      BY <1>7
    <3>3. RunFor(sb', MaxLag - w[j].lag)
      BY <1>3, <3>1, <3>2
    <3>4. w[j].sec # sb'.sec /\ ~AtZero(w[j])
      BY <1>3, <1>5, <3>1
    <3> QED
      BY <1>4, <3>3, <3>4 DEF Until
  <2> QED
    BY <1>9, <2>1, <2>2 DEF Until
<1>10. Pulsing'
  <2> SUFFICES ASSUME Starting
               PROVE  board'.run = "stop" /\ late' = TRUE /\ RunFor(sb', SecondTicks + MaxLag)
    <3>1. late' = TRUE => SecondTicks + MaxLag + (IF late' THEN 0 ELSE 1) = SecondTicks + MaxLag
      BY <1>1
    <3> QED
      BY <1>8, <3>1 DEF Pulsing
  <2>1. board.run = "stop" /\ RunFor(sb, SecondTicks + MaxLag + 1)
    BY <1>2 DEF StartInv, Pulsing
  <2>2. board' = board
    BY <2>1 DEF Tick
  <2>3. pc # "loop"
    BY DEF Starting, TypeInv, TypeOK
  <2>4. SecondTicks + MaxLag \in Nat
    BY <1>1
  <2> QED
    BY <1>2, <1>3, <2>1, <2>2, <2>3, <2>4 DEF BoardReady
<1>11. CASE SameTime(board, board')
  <2>1. wire' = w
    BY <1>6, <1>11 DEF Transmit
  <2>2. board' # CountDown(board) \/ board.run = "stop"
    <3>1. board.run # "stop" => ~AtZero(board)
      BY <1>1 DEF Quiet, Board, Run
    <3> QED
      BY <1>1, <1>11, <3>1, CountDownSeconds DEF SameTime
  <2>3. board' = board \/ (board.run # "stop" /\ board' = [board EXCEPT !.phase = @ + 1])
    BY <2>2 DEF Tick
  <2>4. board'.run = board.run
    BY <1>1, <2>3 DEF Board
  <2>5. Quiet'
    BY <1>1, <1>2, <1>11, <2>4 DEF Quiet, SameTime, AtZero, task, train
  <2>6. Awaited'
    <3> SUFFICES ASSUME board.run = "run"
                 PROVE  Until(sb', w, SecondTicks - board'.phase + MaxLag)
      BY <2>1, <2>4 DEF Awaited
    <3>1. board' = [board EXCEPT !.phase = @ + 1]
      BY <2>2 DEF Tick
    <3>2. board'.phase = board.phase + 1 /\ board'.phase \in 0..(SecondTicks - 1)
      BY <1>1, <3>1 DEF Board
    <3> DEFINE d == SecondTicks - board'.phase + MaxLag
    <3>3. d \in Nat /\ d + 1 = SecondTicks - board.phase + MaxLag
      <4>1. board'.phase <= SecondTicks - 1 /\ board'.phase \in Nat
        BY <1>1, <3>2
      <4> DEFINE q == board'.phase
                 p == board.phase
      <4>2. /\ q \in Nat /\ q <= SecondTicks - 1 /\ q = p + 1 /\ p \in Nat
            /\ SecondTicks \in Nat /\ MaxLag \in Nat
        BY <1>1, <3>2, <4>1
      <4> HIDE DEF p, q
      <4>3. SecondTicks - q + MaxLag \in Nat /\ SecondTicks - q + MaxLag + 1 = SecondTicks - p + MaxLag
        BY <4>2
      <4> QED
        BY <4>3 DEF p, q
    <3>4. Until(sb, wire, SecondTicks - board.phase + MaxLag)
      BY DEF StartInv, Awaited
    <3> HIDE DEF d
    <3>5. Until(sb', w, d)
      BY <1>9, <3>3, <3>4
    <3> QED
      BY <3>5 DEF d
  <2>7. ZeroSeen'
    <3> SUFFICES ASSUME NEW i \in 1..n, AtZero(w[i])
                 PROVE  /\ board.run = "stop" /\ ~Starting
                        /\ Until(sb', w, MaxLag - w[i].lag)
                        /\ \A j \in 1..n : AtZero(w[j]) => i = j
      BY <1>4, <1>8, <2>1, <2>4 DEF ZeroSeen
    <3>1. AtZero(wire[i])
      BY <1>5
    <3>2. /\ board.run = "stop" /\ ~Starting /\ Until(sb, wire, MaxLag - wire[i].lag)
          /\ \A j \in 1..n : AtZero(wire[j]) => i = j
      BY <3>1 DEF StartInv, ZeroSeen
    <3>3. MaxLag - w[i].lag \in Nat /\ MaxLag - wire[i].lag = (MaxLag - w[i].lag) + 1
      BY <1>7
    <3>4. Until(sb', w, MaxLag - w[i].lag)
      BY <1>9, <3>2, <3>3
    <3> QED
      BY <1>5, <3>2, <3>4
  <2> QED
    BY <1>3, <1>10, <2>5, <2>6, <2>7 DEF StartInv
\* A second ends: no 0:00 was under way, and the new time is.
<1>12. CASE ~SameTime(board, board')
  <2>1. board.run = "run" /\ board' = CountDown(board) /\ board.phase + 1 = SecondTicks
    <3>1. board' # board /\ board' # [board EXCEPT !.phase = @ + 1]
      BY <1>1, <1>12 DEF SameTime, Board
    <3>2. board.run # "stop" /\ board' = CountDown(board) /\ ~(board.phase + 1 < SecondTicks)
      BY <3>1 DEF Tick
    <3> QED
      BY <1>1, <3>2 DEF Board, Run
  <2>2. ~AtZero(board)
    BY <1>1, <2>1 DEF Quiet
  <2>3. /\ board'.sec # board.sec /\ board'.phase = 0
        /\ AtZero(board') => board'.run = "stop"
        /\ board'.run = "run" => ~AtZero(board')
    BY <1>1, <2>1, <2>2, CountDownSeconds
  <2>4. ~Starting /\ \A i \in 1..n : ~AtZero(w[i])
    BY <1>5, <2>1 DEF StartInv, Pulsing, ZeroSeen
  <2>5. c \in Frame /\ c.sec = board'.sec /\ c.lag = 0 /\ (AtZero(c) <=> AtZero(board'))
    BY <1>1, BoardAssumption DEF Frame, Board, AtZero
  <2>6. wire' = Append(w, c)
    <3>1. n > 0 => w[n].lag # 0
      <4> SUFFICES ASSUME n > 0 PROVE w[n].lag # 0
        OBVIOUS
      <4>1. n \in 1..n
        BY <1>1
      <4>2. wire[n].lag \in Nat /\ w[n].lag = wire[n].lag + 1
        BY <1>5, <4>1
      <4> QED
        BY <4>2
    <3> QED
      BY <1>4, <1>6, <1>12, <3>1 DEF Transmit
  <2> HIDE DEF c
  <2>7. /\ wire' \in Seq(Frame) /\ Len(wire') = n + 1 /\ wire'[n + 1] = c
        /\ \A i \in 1..n : wire'[i] = w[i]
    BY <1>4, <2>5, <2>6, AppendProperties
  <2>8. n + 1 \in 1..Len(wire') /\ \A i \in 1..n : i \in 1..Len(wire')
    BY <1>1, <2>7
  <2>9. Until(sb, wire, MaxLag + 1)
    <3>1. SecondTicks - board.phase + MaxLag = MaxLag + 1
      BY <1>1, <2>1
    <3> QED
      BY <2>1, <3>1 DEF StartInv, Awaited
  <2>10. Until(sb', wire', MaxLag)
    <3>1. Until(sb', w, MaxLag)
      BY <1>1, <1>9, <2>9
    <3> QED
      BY <1>4, <2>5, <2>6, <3>1, UntilAppend
  <2>11. Quiet'
    BY <1>1, <1>2, <2>3 DEF Quiet, task, train
  <2>12. Awaited'
    <3> SUFFICES ASSUME board'.run = "run"
                 PROVE  \E j \in 1..Len(wire') : /\ wire'[j].sec # sb'.sec /\ ~AtZero(wire'[j])
                                                 /\ RunFor(sb', MaxLag - wire'[j].lag)
      BY DEF Awaited, Until
    <3>1. CASE RunFor(sb, MaxLag + 1)
      <4>1. RunFor(sb', MaxLag)
        BY <1>1, <1>3, <3>1
      <4>2. CASE sb.sec # c.sec
        <5>1. MaxLag - wire'[n + 1].lag = MaxLag
          BY <1>1, <2>5, <2>7
        <5> QED
          BY <1>3, <2>3, <2>5, <2>7, <2>8, <4>1, <4>2, <5>1
      <4>3. CASE sb.sec = c.sec
        <5>1. n > 0 /\ wire[n].sec = board.sec
          <6>1. n # 0
            BY <2>3, <2>5, <4>3 DEF InSync, SameTime
          <6>2. n > 0
            BY <1>1, <6>1
          <6> QED
            BY <6>2 DEF InSync, SameTime
        <5>2. n \in 1..n
          BY <1>1, <5>1
        <5>3. wire'[n] = w[n] /\ w[n].sec # sb'.sec /\ ~AtZero(w[n])
          BY <1>3, <1>5, <2>3, <2>4, <2>5, <2>7, <4>3, <5>1, <5>2
        <5>4. MaxLag - w[n].lag \in Nat /\ MaxLag - w[n].lag <= MaxLag
          <6>1. MaxLag - w[n].lag \in Nat /\ w[n].lag = wire[n].lag + 1 /\ wire[n].lag \in Nat
            BY <1>5, <1>7, <5>2
          <6> QED
            BY <1>1, <6>1
        <5>5. sb' \in ScoreboardState
          BY DEF TypeInv, TypeOK
        <5>6. RunFor(sb', MaxLag - w[n].lag)
          BY <1>1, <4>1, <5>4, <5>5, RunForLess
        <5> QED
          BY <2>8, <5>2, <5>3, <5>6
      <4> QED
        BY <4>2, <4>3
    <3>2. CASE \E j \in 1..n : wire[j].sec # sb.sec /\ ~AtZero(wire[j]) /\ RunFor(sb, MaxLag - wire[j].lag)
      <4>1. PICK j \in 1..n : wire[j].sec # sb.sec /\ ~AtZero(wire[j]) /\ RunFor(sb, MaxLag - wire[j].lag)
        BY <3>2
      <4>2. MaxLag - w[j].lag \in Nat /\ MaxLag - wire[j].lag = (MaxLag - w[j].lag) + 1
        BY <1>7
      <4>3. RunFor(sb', MaxLag - w[j].lag)
        BY <1>3, <4>1, <4>2
      <4>4. wire'[j] = w[j] /\ w[j].sec # sb'.sec /\ ~AtZero(w[j])
        BY <1>3, <1>5, <2>7, <4>1
      <4> QED
        BY <2>8, <4>3, <4>4
    <3> QED
      BY <2>9, <3>1, <3>2 DEF Until
  <2>13. ZeroSeen'
    <3> SUFFICES ASSUME NEW i \in 1..Len(wire'), AtZero(wire'[i])
                 PROVE  /\ board'.run = "stop" /\ ~Starting'
                        /\ Until(sb', wire', MaxLag - wire'[i].lag)
                        /\ \A j \in 1..Len(wire') : AtZero(wire'[j]) => i = j
      BY DEF ZeroSeen
    <3>1. \A j \in 1..Len(wire') : AtZero(wire'[j]) => j = n + 1
      <4>1. \A j \in 1..Len(wire') : j \in 1..n \/ j = n + 1
        BY <1>1, <2>7
      <4> QED
        BY <2>4, <2>7, <4>1
    <3>2. i = n + 1 /\ wire'[i] = c
      BY <2>7, <3>1
    <3>3. MaxLag - wire'[i].lag = MaxLag
      BY <1>1, <2>5, <3>2
    <3> QED
      BY <1>8, <2>3, <2>4, <2>5, <2>10, <3>1, <3>2, <3>3
  <2> QED
    BY <1>3, <1>10, <2>11, <2>12, <2>13 DEF StartInv
<1> QED
  BY <1>11, <1>12

\* The scoreboard is stopped when the Pico boots.
LEMMA StartInit == StartsOnly /\ Init => StartInv
<1> SUFFICES ASSUME StartsOnly, Init PROVE StartInv
  OBVIOUS
<1> DEFINE f == [min |-> board.min, sec |-> board.sec, lag |-> 0]
<1>1. board.run = "stop" /\ ~AtZero(board)
  BY DEF Init, StartsOnly
<1>2. wire = <<f>> /\ ~AtZero(f)
  BY <1>1 DEF Init, AtZero
<1> HIDE DEF f
<1>3. Len(wire) = 1 /\ wire[1] = f
  BY <1>2
<1>4. ZeroSeen
  BY <1>2, <1>3 DEF ZeroSeen
<1>5. OnlyRun(sb)
  BY DEF Init, InitScoreboard, OnlyRun
<1>6. Quiet /\ Pulsing /\ Awaited
  <2>1. queue = <<>> /\ pin = "low" /\ pc = "loop" /\ pendingMin = 0 /\ pendingSec = 0
    BY DEF Init
  <2>2. queue \in Seq(Commands)
    BY <2>1, EmptySeq
  <2> QED
    BY <1>1, <2>1, <2>2 DEF Quiet, Pulsing, Awaited, Starting
<1> QED
  BY <1>4, <1>5, <1>6 DEF StartInv

\* No step breaks the promise.
LEMMA StartStep ==
    ASSUME StartsOnly, TypeInv, TypeInv', StartInv, InSync, [Next]_vars
    PROVE  StartInv'
<1>1. BoardStep => \/ LedOn \/ LedOff \/ Start \/ HomeInc \/ HomeDec \/ AwayInc \/ AwayDec
                   \/ ScoresZero \/ Aux \/ CommandPulseEnd \/ BlinkEnd
  BY StartNever DEF BoardStep, TakeCommand
<1>2. CASE Start
  BY <1>2, StartRequest
<1>3. CASE Refresh
  BY <1>3, StartRefresh
<1>4. CASE ReadFrame
  BY <1>4, StartRead
<1>5. CASE Notice
  BY <1>5, StartNotice
<1>6. CASE \E button \in Buttons : Press(button)
  BY <1>6, StartPress
<1>7. CASE Tick
  BY <1>7, StartTick
<1>8. CASE \/ LedOn \/ LedOff \/ HomeInc \/ HomeDec \/ AwayInc \/ AwayDec \/ ScoresZero \/ Aux
           \/ CommandPulseEnd \/ BlinkEnd \/ (\E c \in Commands : Send(c)) \/ UNCHANGED vars
  BY <1>8, StartOther
<1> QED
  BY <1>1, <1>2, <1>3, <1>4, <1>5, <1>6, <1>7, <1>8, StartNever DEF Next

\* README.md:70 for starts: a /start, repeated at any time and whatever frames
\* and pulses are late or missed, never stops a clock that counts.
THEOREM StartsNeverInvert ==
    ASSUME StartsOnly
    PROVE  Spec => PulseNeverInverts
<1>1. FramesInTime
  <2>1. SecondTicks \in Nat /\ MaxLag \in Nat /\ StoppedAfter \in Nat
    BY BoardAssumption, ScoreboardAssumption
  <2> QED
    BY <2>1 DEF StartsOnly, FramesInTime
<1>2. TypeInv /\ TypeInv' /\ CountInv /\ StartInv /\ [Next]_vars => CountInv' /\ StartInv'
  BY <1>1, CountStep, StartStep DEF CountInv
<1>3. StartInv => [Toggled /\ asked = board.run => board'.run = asked]_vars
  <2> SUFFICES ASSUME StartInv, Toggled
               PROVE  asked # board.run
    OBVIOUS
  <2>1. asked = "run" /\ board.run = "stop"
    BY DEF StartInv, Quiet, Pulsing, Starting, Toggled
  <2> QED
    BY <2>1
<1>4. Init => StartInv
  BY StartInit
<1> QED
  BY <1>2, <1>3, <1>4, TypeInit, TypeStep, CountInit, PTL DEF Spec, PulseNeverInverts
=============================================================================
