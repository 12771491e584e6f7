---------------------------- MODULE BoardControl ----------------------------
(***************************************************************************)
(* The control path of the hardware build: phones put commands on a        *)
(* channel, board_task turns them into pulses on the pins of an SK2229R    *)
(* scoreboard, and the scoreboard's UART reports the time it displays.     *)
(*                                                                         *)
(* The Embassy executor is cooperative and no task holds the scoreboard    *)
(* mutex across an await, so a step here is what a task does between two   *)
(* awaits.  board_task is a program counter over its awaits:               *)
(*    "loop"     at the top of its loop (possibly blocked in receive)      *)
(*    "command"  pulsing the pin of a command                              *)
(*    "freeze"   pulsing start/stop before a set-timer takes its snapshot  *)
(*    "restop"   pulsing start/stop in the middle of a min/sec train       *)
(*    "train"    pulsing one min/sec (or score) step of a train            *)
(*    "blink"    in blink_onboard                                          *)
(*                                                                         *)
(* The scoreboard itself is not in the repository.  It is modelled by what *)
(* the code and its README expect of it, as loosely as they do: start/stop *)
(* toggles (start at 0:00 does nothing), every button may be pressed by    *)
(* hand, and the displayed time is sampled by frames that arrive late.     *)
(*                                                                         *)
(* Time advances by Tick.  A ready board task acts before the second Tick  *)
(* after it became ready (late), and a frame is delivered at most MaxLag   *)
(* ticks after the time it shows was displayed.                            *)
(***************************************************************************)
EXTENDS Scoreboard, Sequences

CONSTANTS
    ChannelCap,     \* capacity of the command channel (8)
    Commands,       \* the commands phones send
    FirstBoards,    \* what the scoreboard may show and do when the Pico boots
    Buttons,        \* the scoreboard's own buttons somebody may press
    MayMiss,        \* whether the scoreboard may fail to notice a pulse
    MayReboot,      \* whether the Pico may be reset while it runs
    SecondTicks,    \* time units in which a running scoreboard counts one second
    MaxLag,         \* time units a frame may take to be parsed (32-byte DMA reads)
    WireCap         \* bound of the model: times in flight at once

ScoreOps == {"HomeInc", "HomeDec", "AwayInc", "AwayDec"}
StartOps == {"Start", "Stop", "StartStop"}
Ops == ScoreOps \cup StartOps
         \cup {"LedOn", "LedOff", "ScoresZero", "Reset", "SetTimer", "Aux"}

\* min and sec are the raw u8 arguments of SetTimer, 0 in the other commands.
Command == [op : Ops, min : Nat, sec : Nat]

Pins == {"start", "home_inc", "home_dec", "away_inc", "away_dec", "reset",
         "min_inc", "min_dec", "sec_inc", "sec_dec", "clear", "aux"}

\* A displayed time on its way to read_serial, and the ticks since it was shown.
Frame == [min : Minutes, sec : Seconds, lag : 0..MaxLag]

Board == [min : Minutes, sec : Seconds, run : Run, phase : 0..(SecondTicks - 1),
          home : Scores, away : Scores]

ASSUME BoardAssumption ==
    /\ ChannelCap \in Nat \ {0}
    /\ Commands \subseteq Command
    /\ FirstBoards \subseteq Board /\ Buttons \subseteq Pins
    /\ MayMiss \in BOOLEAN /\ MayReboot \in BOOLEAN
    /\ SecondTicks \in Nat \ {0}
    /\ MaxLag \in Nat
    /\ WireCap \in Nat \ {0}

VARIABLES
    sb,         \* SharedScoreboard
    queue,      \* the command channel
    pc,         \* where board_task awaits
    pin,        \* the output that is high, or "low"
    noticed,    \* the scoreboard has reacted to the pulse on pin
    target,     \* the clamped argument of the last SetTimer
    pendingHomeDec, pendingAwayDec, pendingMin, pendingSec,  \* the trains owed
    board,      \* the SK2229R
    wire,       \* displayed times on their way to read_serial
    late        \* a Tick passed since the board task became ready

\* History variables: they record, and no action depends on them.
VARIABLES
    asked,      \* the run state the last start/stop pulse was sent for
    drifted,    \* the scoreboard's scores changed in a way the Pico cannot see
    onTrack,    \* only train pulses moved the display since a fresh snapshot
    steady      \* ticks the scoreboard has counted undisturbed in this boot, capped

train == <<pendingHomeDec, pendingAwayDec, pendingMin, pendingSec>>
task  == <<pc, pin, noticed, target, train>>
ghost == <<asked, drifted, onTrack, steady>>
vars  == <<sb, queue, task, board, wire, late, ghost>>

SteadyCap == SecondTicks + MaxLag + 1

-----------------------------------------------------------------------------
(* The SK2229R.                                                            *)

Lower(x, low)   == IF x > low THEN x - 1 ELSE x
Raise(x, high)  == IF x < high THEN x + 1 ELSE x

\* What the scoreboard may become when a button is pressed.  A start may
\* begin anywhere within a second, and a reset may or may not stop the clock.
React(b, button) ==
    CASE button = "start" ->
           IF b.run = "run" THEN {[b EXCEPT !.run = "stop"]}
           ELSE IF TotalSeconds(b.min, b.sec) = 0 THEN {b}
           ELSE {[b EXCEPT !.run = "run", !.phase = p] : p \in 0..(SecondTicks - 1)}
      [] button = "reset" ->
           {[b EXCEPT !.min = PeriodMin, !.sec = PeriodSec, !.run = r] : r \in {b.run, "stop"}}
      [] button = "min_inc"  -> {[b EXCEPT !.min = Raise(@, MaxMin)]}
      [] button = "min_dec"  -> {[b EXCEPT !.min = Lower(@, 0)]}
      [] button = "sec_inc"  -> {[b EXCEPT !.sec = Raise(@, MaxSec)]}
      [] button = "sec_dec"  -> {[b EXCEPT !.sec = Lower(@, 0)]}
      [] button = "home_inc" -> {[b EXCEPT !.home = Raise(@, ScoreMax)]}
      [] button = "home_dec" -> {[b EXCEPT !.home = Lower(@, 0)]}
      [] button = "away_inc" -> {[b EXCEPT !.away = Raise(@, ScoreMax)]}
      [] button = "away_dec" -> {[b EXCEPT !.away = Lower(@, 0)]}
      [] button = "clear"    -> {[b EXCEPT !.home = 0, !.away = 0]}
      [] button = "aux"      -> {b}

\* One second of a running clock, which stops at 0:00.
CountDown(b) ==
    LET min == IF b.sec > 0 THEN b.min ELSE Lower(b.min, 0)
        sec == IF b.sec > 0 THEN b.sec - 1 ELSE IF b.min > 0 THEN MaxSec ELSE 0
    IN  [b EXCEPT !.min = min, !.sec = sec, !.phase = 0,
                  !.run = IF TotalSeconds(min, sec) = 0 THEN "stop" ELSE @]

SameTime(b, c) == b.min = c.min /\ b.sec = c.sec

(* The frames in flight once the display goes from b to c.  Frames sample  *)
(* the display, so a time it left within the unit may never have been sent.*)
Transmit(w, b, c) ==
    LET new == [min |-> c.min, sec |-> c.sec, lag |-> 0]
        n   == Len(w)
    IN  IF SameTime(b, c) THEN {w}
        ELSE (IF n < WireCap THEN {Append(w, new)} ELSE {})
             \cup (IF n > 0 /\ w[n].lag = 0 THEN {[w EXCEPT ![n] = new]} ELSE {})

-----------------------------------------------------------------------------
(* board_task.                                                             *)

\* Mutation of Clamp: the argument of a set-timer is taken as it comes.
Unclamped(x, high) == x

Clamp(x, high) == IF x > high THEN high ELSE x

HasPending == \/ pendingHomeDec > 0 \/ pendingAwayDec > 0
              \/ pendingMin # 0 \/ pendingSec # 0

\* The board task has something to do: it is not blocked in receive.
BoardReady == pc # "loop" \/ queue # <<>> \/ HasPending

\* blink_onboard returns at once when the LED is held on.
AfterPulse == IF sb.led THEN "loop" ELSE "blink"

\* pin.set_high() and the await of a pulse.
Raised(p, next) == pin' = p /\ noticed' = FALSE /\ pc' = next

\* The board task takes the next command, one of operation op.
Receive(op) ==
    /\ pc = "loop" /\ queue # <<>> /\ Head(queue).op = op
    /\ queue' = Tail(queue)
    /\ late' = FALSE
    /\ UNCHANGED <<board, wire, drifted, steady>>

\* The wait for the radio before the state changes only adds a delay.
Led(op, on) ==
    /\ Receive(op)
    /\ sb' = Publish([sb EXCEPT !.led = on])
    /\ UNCHANGED <<task, asked, onTrack>>

LedOn  == Led("LedOn", TRUE)
LedOff == Led("LedOff", FALSE)

StartStopFor(op, want) ==
    /\ Receive(op)
    /\ sb' = AfterRequest(sb, want)
    /\ IF PulseNeeded(sb, want)
       THEN Raised("start", "command") /\ asked' = want
       ELSE pc' = AfterPulse /\ UNCHANGED <<pin, noticed, asked>>
    /\ UNCHANGED <<target, train, onTrack>>

Start     == StartStopFor("Start", "run")
Stop      == StartStopFor("Stop", "stop")
StartStop == StartStopFor("StartStop", "none")

\* A score command: possible says whether the score may move, scored is the
\* state with it moved, p its pin, and owed the decrements of that side to come.
Score(op, possible, scored, p, owed) ==
    /\ Receive(op)
    /\ IF possible
       THEN /\ sb' = Publish(scored)
            /\ IF owed > 0 THEN pc' = AfterPulse /\ UNCHANGED <<pin, noticed>>
               ELSE Raised(p, "command")
       ELSE UNCHANGED <<sb, pc, pin, noticed>>
    /\ UNCHANGED <<target, pendingMin, pendingSec, asked, onTrack>>

\* Mutation of AwayInc: the pulse goes to the home pin.
AwayIncOnHomePin ==
    /\ Score("AwayInc", sb.away < ScoreMax, [sb EXCEPT !.away = @ + 1], "home_inc", pendingAwayDec)
    /\ UNCHANGED <<pendingHomeDec, pendingAwayDec>>

\* Mutation of HomeDec: the decrement is owed even when it is pulsed at once.
HomeDecOwed ==
    /\ Score("HomeDec", sb.home > 0, [sb EXCEPT !.home = @ - 1], "home_dec", pendingHomeDec)
    /\ pendingHomeDec' = IF sb.home > 0 THEN pendingHomeDec + 1 ELSE pendingHomeDec
    /\ UNCHANGED pendingAwayDec

\* An increment takes back an owed decrement, a decrement joins those owed.
HomeInc ==
    /\ Score("HomeInc", sb.home < ScoreMax, [sb EXCEPT !.home = @ + 1], "home_inc", pendingHomeDec)
    /\ pendingHomeDec' = IF sb.home < ScoreMax /\ pendingHomeDec > 0
                         THEN pendingHomeDec - 1 ELSE pendingHomeDec
    /\ UNCHANGED pendingAwayDec

HomeDec ==
    /\ Score("HomeDec", sb.home > 0, [sb EXCEPT !.home = @ - 1], "home_dec", pendingHomeDec)
    /\ pendingHomeDec' = IF sb.home > 0 /\ pendingHomeDec > 0
                         THEN pendingHomeDec + 1 ELSE pendingHomeDec
    /\ UNCHANGED pendingAwayDec

AwayInc ==
    /\ Score("AwayInc", sb.away < ScoreMax, [sb EXCEPT !.away = @ + 1], "away_inc", pendingAwayDec)
    /\ pendingAwayDec' = IF sb.away < ScoreMax /\ pendingAwayDec > 0
                         THEN pendingAwayDec - 1 ELSE pendingAwayDec
    /\ UNCHANGED pendingHomeDec

AwayDec ==
    /\ Score("AwayDec", sb.away > 0, [sb EXCEPT !.away = @ - 1], "away_dec", pendingAwayDec)
    /\ pendingAwayDec' = IF sb.away > 0 /\ pendingAwayDec > 0
                         THEN pendingAwayDec + 1 ELSE pendingAwayDec
    /\ UNCHANGED pendingHomeDec

ScoresZero ==
    /\ Receive("ScoresZero")
    /\ sb' = Publish([sb EXCEPT !.home = 0, !.away = 0])
    /\ pendingHomeDec' = 0 /\ pendingAwayDec' = 0
    /\ Raised("clear", "command")
    /\ UNCHANGED <<target, pendingMin, pendingSec, asked, onTrack>>

Reset ==
    /\ Receive("Reset")
    /\ sb' = ForgetPending(sb)
    /\ pendingMin' = 0 /\ pendingSec' = 0
    /\ Raised("reset", "command")
    /\ onTrack' = FALSE
    /\ UNCHANGED <<target, pendingHomeDec, pendingAwayDec, asked>>

\* Mutation of Snapshot: the new deltas add to the rest of an unfinished train.
SnapshotAdds(s, min, sec) ==
    /\ pendingMin' = pendingMin + min - s.min
    /\ pendingSec' = pendingSec + sec - s.sec
    /\ onTrack' = (SameTime(s, board) /\ board.run = "stop")

\* The deltas of a set-timer, and whether they start from what is displayed.
Snapshot(s, min, sec) ==
    /\ pendingMin' = min - s.min
    /\ pendingSec' = sec - s.sec
    /\ onTrack' = (SameTime(s, board) /\ board.run = "stop")

SetTimer ==
    /\ Receive("SetTimer")
    /\ LET min == Clamp(Head(queue).min, MaxMin)
           sec == Clamp(Head(queue).sec, MaxSec)
       IN  /\ target' = [min |-> min, sec |-> sec]
           /\ sb' = AfterRequest(sb, "stop")
           /\ IF PulseNeeded(sb, "stop")
              THEN /\ Raised("start", "freeze") /\ asked' = "stop" /\ onTrack' = FALSE
                   /\ UNCHANGED <<pendingMin, pendingSec>>
              ELSE /\ Snapshot(sb, min, sec)
                   /\ UNCHANGED <<pc, pin, noticed, asked>>
    /\ UNCHANGED <<pendingHomeDec, pendingAwayDec>>

Aux ==
    /\ Receive("Aux")
    /\ Raised("aux", "command")
    /\ UNCHANGED <<sb, target, train, asked, onTrack>>

\* try_receive found nothing and a train is owed.
Train ==
    /\ pc = "loop" /\ queue = <<>> /\ HasPending
    /\ late' = FALSE
    /\ UNCHANGED <<queue, target, train, board, wire, drifted, onTrack, steady>>

\* The score trains come first and do not look at the clock.
ScoresOwed == pendingHomeDec > 0 \/ pendingAwayDec > 0

\* Freeze the clock again before the next min/sec pulse.
Restop ==
    /\ Train
    /\ ~ScoresOwed /\ PulseNeeded(sb, "stop")
    /\ sb' = AfterRequest(sb, "stop")
    /\ Raised("start", "restop") /\ asked' = "stop"

TrainPin ==
    IF pendingHomeDec > 0 THEN "home_dec" ELSE IF pendingAwayDec > 0 THEN "away_dec"
    ELSE IF pendingMin > 0 THEN "min_inc" ELSE IF pendingMin < 0 THEN "min_dec"
    ELSE IF pendingSec > 0 THEN "sec_inc" ELSE "sec_dec"

TrainPulse ==
    /\ Train
    /\ ScoresOwed \/ ~PulseNeeded(sb, "stop")
    /\ sb' = IF ScoresOwed THEN sb ELSE AfterRequest(sb, "stop")
    /\ Raised(TrainPin, "train")
    /\ UNCHANGED asked

\* The timer of a pulse fires: the pin goes low and the task runs to its next await.
PulseEnd(at) ==
    /\ pc = at /\ (noticed \/ MayMiss)
    /\ pin' = "low"
    /\ late' = FALSE
    /\ UNCHANGED <<sb, queue, noticed, target, board, wire, asked, steady>>

CommandPulseEnd ==
    /\ PulseEnd("command")
    /\ pc' = AfterPulse
    /\ drifted' = (drifted \/ (~noticed /\ pin \in {"home_inc", "home_dec", "away_inc", "away_dec", "clear"}))
    /\ UNCHANGED <<train, onTrack>>

FreezePulseEnd ==
    /\ PulseEnd("freeze")
    /\ pc' = "loop"
    /\ Snapshot(sb, target.min, target.sec)
    /\ UNCHANGED <<pendingHomeDec, pendingAwayDec, drifted>>

RestopPulseEnd ==
    /\ PulseEnd("restop")
    /\ pc' = "loop"
    /\ UNCHANGED <<train, drifted, onTrack>>

TrainPulseEnd ==
    /\ PulseEnd("train")
    /\ pc' = "loop"
    /\ pendingHomeDec' = IF pin = "home_dec" THEN pendingHomeDec - 1 ELSE pendingHomeDec
    /\ pendingAwayDec' = IF pin = "away_dec" THEN pendingAwayDec - 1 ELSE pendingAwayDec
    /\ pendingMin' = CASE pin = "min_inc" -> pendingMin - 1
                       [] pin = "min_dec" -> pendingMin + 1
                       [] OTHER -> pendingMin
    /\ pendingSec' = CASE pin = "sec_inc" -> pendingSec - 1
                       [] pin = "sec_dec" -> pendingSec + 1
                       [] OTHER -> pendingSec
    /\ drifted' = (drifted \/ pin \in {"home_dec", "away_dec"})
    /\ onTrack' = (onTrack /\ noticed)

BlinkEnd ==
    /\ pc = "blink" /\ pc' = "loop"
    /\ late' = FALSE
    /\ UNCHANGED <<sb, queue, pin, noticed, target, train, board, wire, ghost>>

-----------------------------------------------------------------------------
(* Everything else: HTTP handlers, the other tasks, the scoreboard, time.  *)

\* An HTTP handler's send on the command channel; it waits while it is full.
Send(c) ==
    /\ Len(queue) < ChannelCap
    /\ queue' = Append(queue, c)
    /\ UNCHANGED <<sb, task, board, wire, late, ghost>>

\* heartbeat_task each second, /api/status, an event snapshot, a repeated frame.
Refresh ==
    /\ sb' = RefreshRunning(sb)
    /\ UNCHANGED <<queue, task, board, wire, late, ghost>>

\* read_serial parses the oldest time in flight.
ReadFrame ==
    /\ wire # <<>>
    /\ sb' = SetClock(sb, Head(wire).min, Head(wire).sec)
    /\ wire' = Tail(wire)
    /\ UNCHANGED <<queue, task, board, late, ghost>>

\* The scoreboard reacts to the pulse.
Notice ==
    /\ pin # "low" /\ ~noticed
    /\ noticed' = TRUE
    /\ board' \in React(board, pin)
    /\ wire' \in Transmit(wire, board, board')
    /\ drifted' = (drifted /\ pin # "clear")
    /\ onTrack' = (onTrack /\ board'.run = "stop" /\ (pc = "train" \/ SameTime(board, board')))
    /\ steady' = IF board'.run = board.run /\ SameTime(board, board') THEN steady ELSE 0
    /\ UNCHANGED <<sb, queue, pc, pin, target, train, late, asked>>

\* Somebody presses the scoreboard's own button.
Press(button) ==
    /\ board' \in React(board, button)
    /\ wire' \in Transmit(wire, board, board')
    /\ drifted' = (drifted \/ board'.home # board.home \/ board'.away # board.away)
    /\ onTrack' = (onTrack /\ board'.run = "stop" /\ SameTime(board, board'))
    /\ steady' = IF board'.run = board.run /\ SameTime(board, board') THEN steady ELSE 0
    /\ UNCHANGED <<sb, queue, task, late, asked>>

\* One unit of time.
Tick ==
    /\ ~late
    /\ \A i \in 1..Len(wire) : wire[i].lag < MaxLag
    /\ late' = BoardReady
    /\ sb' = Elapse(sb)
    /\ board' = IF board.run = "stop" THEN board
                ELSE IF board.phase + 1 < SecondTicks THEN [board EXCEPT !.phase = @ + 1]
                ELSE CountDown(board)
    /\ wire' \in Transmit([i \in 1..Len(wire) |-> [wire[i] EXCEPT !.lag = @ + 1]], board, board')
    /\ onTrack' = (onTrack /\ board.run = "stop")
    /\ steady' = IF board'.run = "run" THEN (IF steady < SteadyCap THEN steady + 1 ELSE steady) ELSE 0
    /\ UNCHANGED <<queue, task, asked, drifted>>

\* The Pico starts again (watchdog, OTA reset); the scoreboard keeps its state.
Reboot ==
    /\ MayReboot
    /\ sb' = InitScoreboard
    /\ queue' = <<>>
    /\ pc' = "loop" /\ pin' = "low" /\ noticed' = FALSE
    /\ target' = [min |-> 0, sec |-> 0]
    /\ pendingHomeDec' = 0 /\ pendingAwayDec' = 0 /\ pendingMin' = 0 /\ pendingSec' = 0
    /\ wire' = <<[min |-> board.min, sec |-> board.sec, lag |-> 0]>>
    /\ late' = FALSE
    /\ asked' = "none"
    /\ drifted' = (board.home # 0 \/ board.away # 0)
    /\ onTrack' = FALSE
    /\ steady' = 0
    /\ UNCHANGED board

-----------------------------------------------------------------------------
\* The Pico boots next to a scoreboard that shows some time and scores.
Init ==
    /\ sb = InitScoreboard
    /\ queue = <<>>
    /\ pc = "loop" /\ pin = "low" /\ noticed = FALSE
    /\ target = [min |-> 0, sec |-> 0]
    /\ pendingHomeDec = 0 /\ pendingAwayDec = 0 /\ pendingMin = 0 /\ pendingSec = 0
    /\ board \in FirstBoards
    /\ wire = <<[min |-> board.min, sec |-> board.sec, lag |-> 0]>>
    /\ late = FALSE
    /\ asked = "none"
    /\ drifted = (board.home # 0 \/ board.away # 0)
    /\ onTrack = FALSE
    /\ steady = 0

TakeCommand ==
    \/ LedOn \/ LedOff \/ Start \/ Stop \/ StartStop
    \/ HomeInc \/ HomeDec \/ AwayInc \/ AwayDec \/ ScoresZero
    \/ Reset \/ SetTimer \/ Aux

\* Mutation of BoardStep: the task never wakes from the pulse that freezes the clock.
BoardStepSleeps ==
    \/ TakeCommand
    \/ Restop \/ TrainPulse
    \/ CommandPulseEnd \/ RestopPulseEnd \/ TrainPulseEnd
    \/ BlinkEnd

BoardStep ==
    \/ TakeCommand
    \/ Restop \/ TrainPulse
    \/ CommandPulseEnd \/ FreezePulseEnd \/ RestopPulseEnd \/ TrainPulseEnd
    \/ BlinkEnd

Next ==
    \/ BoardStep
    \/ \E c \in Commands : Send(c)
    \/ Refresh
    \/ ReadFrame
    \/ Notice
    \/ \E button \in Buttons : Press(button)
    \/ Tick
    \/ Reboot

Spec == Init /\ [][Next]_vars

(* The executor runs every ready task, the timers fire, the heartbeat      *)
(* refreshes each second and the scoreboard keeps sending frames.          *)
FairSpec == Spec /\ WF_vars(BoardStep) /\ WF_vars(Notice) /\ WF_vars(ReadFrame)
                 /\ WF_vars(Refresh) /\ WF_vars(Tick)
-----------------------------------------------------------------------------
(* Properties.                                                             *)

Deltas(max) == (0 - max)..max

TypeOK ==
    /\ sb \in ScoreboardState
    /\ queue \in Seq(Command)
    /\ pc \in {"loop", "command", "freeze", "restop", "train", "blink"}
    /\ pin \in Pins \cup {"low"} /\ (pin # "low" <=> pc \in {"command", "freeze", "restop", "train"})
    /\ noticed \in BOOLEAN
    /\ target \in [min : Minutes, sec : Seconds]
    /\ pendingHomeDec \in Nat /\ pendingAwayDec \in Nat
    /\ pendingMin \in Deltas(MaxMin) /\ pendingSec \in Deltas(MaxSec)
    /\ board \in Board
    /\ wire \in Seq(Frame)
    /\ late \in BOOLEAN
    /\ asked \in Wish /\ drifted \in BOOLEAN /\ onTrack \in BOOLEAN
    /\ steady \in 0..SteadyCap

\* Between any two steps the last announcement is what the phones would be
\* sent: no handler, task or request path leaves a visible change unpublished.
AnnouncedIsVisible == sb.announced = Visible(sb)

\* The trains of score decrements are never started: the counters are only
\* raised where they are already positive.
ScoreTrainsIdle == pendingHomeDec = 0 /\ pendingAwayDec = 0

\* Whenever no pulse is under way the scoreboard shows the scores the Pico
\* keeps, unless a press, a missed pulse or a reboot moved them apart; a
\* ScoresZero that the scoreboard notices brings them together again.
ScoresMirror ==
    pin = "low" /\ ~drifted => board.home = sb.home /\ board.away = sb.away

\* A scoreboard that has counted undisturbed for long enough is reported
\* running until the phone shows 0:00: neither the lag of the frames nor a
\* refresh in between makes the flag flap.
CountingIsReported ==
    steady = SteadyCap /\ TotalSeconds(sb.min, sb.sec) # 0 => sb.running = "run"

\* The display and the pulses still owed add up to the time that was set, for
\* as long as only the train has moved the display since a fresh snapshot.
StepsOwed(owed, inc, dec) ==
    IF pc = "train" /\ noticed /\ pin = inc THEN owed - 1
    ELSE IF pc = "train" /\ noticed /\ pin = dec THEN owed + 1 ELSE owed

TrainAddsUp ==
    onTrack => /\ board.min + StepsOwed(pendingMin, "min_inc", "min_dec") = target.min
               /\ board.sec + StepsOwed(pendingSec, "sec_inc", "sec_dec") = target.sec

\* README: "Duplicate /start or /stop before UART confirms ... does not pulse
\* again".  A start/stop pulse sent for a wish never takes a scoreboard that is
\* already in the wanted state out of it.
Toggled == pin = "start" /\ ~noticed /\ noticed'

PulseNeverInverts == [][Toggled /\ asked = board.run => board'.run = asked]_vars

\* A set-timer computes its deltas from the time the scoreboard shows.
TakesSnapshot == FreezePulseEnd \/ (SetTimer /\ ~PulseNeeded(sb, "stop"))

SnapshotIsFresh == [][TakesSnapshot => SameTime(sb, board)]_vars

\* A full command channel is drained: the HTTP handlers blocked in send go on.
ChannelDrains == Len(queue) = ChannelCap ~> Len(queue) < ChannelCap

\* Once the phones are quiet a train of pulses comes to its end, whatever the
\* clock does meanwhile: the freezes in between do not repeat for ever.
TrainFinishes == <>[](queue = <<>>) => []<>~HasPending

\* A scoreboard that stays stopped is eventually reported stopped.
FreezeIsReported ==
    <>[](board.run = "stop" /\ wire = <<>>) => <>[](sb.running = "stop")
=============================================================================
