----------------------------- MODULE Scoreboard -----------------------------
(***************************************************************************)
(* The shared ScoreboardState of src/main.rs and the clock decisions of    *)
(* src/decode.rs, as operators on a record.  The module has no variables:  *)
(* BoardControl and EventStream hold a state sb and update it with these   *)
(* operators.                                                              *)
(*                                                                         *)
(* Time is discrete.  An Instant is kept as its age, a counter the module  *)
(* that owns the clock advances with Elapse.  The code compares ages only  *)
(* with STOPPED_AFTER_MS, so an age saturates at StoppedAfter; the Instant *)
(* None of last_change (age u32::MAX in the code) is that same value.      *)
(***************************************************************************)
EXTENDS Integers

CONSTANTS
    MaxMin,         \* MAX_MINUTES (99)
    MaxSec,         \* MAX_SECONDS (59)
    PeriodMin,      \* PERIOD_MIN, the minutes shown before the first frame
    PeriodSec,      \* PERIOD_SEC
    ScoreMax,       \* SCORE_MAX (99)
    StoppedAfter    \* STOPPED_AFTER_MS, in time units

ASSUME ScoreboardAssumption ==
    /\ MaxMin \in Nat /\ MaxSec \in Nat
    /\ PeriodMin \in 0..MaxMin /\ PeriodSec \in 0..MaxSec
    /\ ScoreMax \in Nat \ {0}
    /\ StoppedAfter \in Nat \ {0}

Minutes == 0..MaxMin
Seconds == 0..MaxSec
Scores  == 0..ScoreMax
Ages    == 0..StoppedAfter

\* A run state; an Option<bool> over it is a member of Wish.
Run  == {"run", "stop"}
Wish == Run \cup {"none"}

Opposite(r) == IF r = "run" THEN "stop" ELSE "run"

\* The fields the phone renders.
View == [min : Minutes, sec : Seconds, running : Run,
         home : Scores, away : Scores, led : BOOLEAN]

ScoreboardState ==
    [min : Minutes, sec : Seconds, running : Run,
     home : Scores, away : Scores, led : BOOLEAN,
     age : Ages, pending : Wish, pendingAge : Ages, announced : View]

-----------------------------------------------------------------------------
(* decode.rs: the run state is inferred, never written.                    *)

TotalSeconds(min, sec) == min * (MaxSec + 1) + sec

\* Mutation of ClockIsRunning: an unchanged time is not a stopped clock.
RunningUnlessZero(min, sec, age) == IF TotalSeconds(min, sec) # 0 THEN "run" ELSE "stop"

ClockIsRunning(min, sec, age) ==
    IF TotalSeconds(min, sec) # 0 /\ age < StoppedAfter THEN "run" ELSE "stop"

\* Mutation of StartStopPulseNeeded: a request is always a toggle.
AlwaysToggle(effective, want) == TRUE

\* want = "none" is the raw toggle of /start-stop: it always pulses.
StartStopPulseNeeded(effective, want) == want # effective

\* Mutation of ResolvePendingRunning: a wish does not outlive a refresh.
ForgetWish(pending, running, pendingAge) == "none"

ResolvePendingRunning(pending, running, pendingAge) ==
    IF pending # running /\ pendingAge < StoppedAfter THEN pending ELSE "none"

-----------------------------------------------------------------------------
(* main.rs, impl ScoreboardState.                                          *)

Visible(s) == [min |-> s.min, sec |-> s.sec, running |-> s.running,
               home |-> s.home, away |-> s.away, led |-> s.led]

\* ScoreboardState::default
InitScoreboard ==
    [min |-> PeriodMin, sec |-> PeriodSec, running |-> "stop",
     home |-> 0, away |-> 0, led |-> FALSE,
     age |-> StoppedAfter, pending |-> "none", pendingAge |-> 0,
     announced |-> [min |-> PeriodMin, sec |-> PeriodSec, running |-> "stop",
                    home |-> 0, away |-> 0, led |-> FALSE]]

\* The EVENTS send that goes with a new announcement is EventStream's.
Publish(s) == [s EXCEPT !.announced = Visible(s)]

\* Mutation of RefreshRunning: the refreshed state is not published.
RefreshSilently(s) ==
    [s EXCEPT !.running = ClockIsRunning(s.min, s.sec, s.age)]

\* pending_at is None exactly when pending_running is: its age is then 0.
RefreshRunning(s) ==
    LET running == ClockIsRunning(s.min, s.sec, s.age)
        pending == ResolvePendingRunning(s.pending, running, s.pendingAge)
    IN  Publish([s EXCEPT !.running = running,
                          !.pending = pending,
                          !.pendingAge = IF pending = "none" THEN 0 ELSE @])

\* Mutation of SetClock: only a new minute counts as a change.
SetClockByMinute(s, min, sec) ==
    RefreshRunning([s EXCEPT !.age = IF s.min # min THEN 0 ELSE @, !.min = min, !.sec = sec])

SetClock(s, min, sec) ==
    RefreshRunning([s EXCEPT
        !.age = IF s.min # min \/ s.sec # sec THEN 0 ELSE @,
        !.min = min,
        !.sec = sec])

\* The run state a request is compared with: what was asked for and is not
\* confirmed yet, or else what the UART shows.
Effective(s) == IF s.pending = "none" THEN s.running ELSE s.pending

(* start_stop_pulse_for(want) refreshes, decides, and remembers the wish:  *)
(* PulseNeeded is its result and AfterRequest the state it leaves.         *)
PulseNeeded(s, want) == StartStopPulseNeeded(Effective(RefreshRunning(s)), want)

AfterRequest(s, want) ==
    LET r == RefreshRunning(s) IN
    IF PulseNeeded(s, want)
    THEN [r EXCEPT !.pending = IF want = "none" THEN Opposite(Effective(r)) ELSE want,
                   !.pendingAge = 0]
    ELSE r

\* The Reset command forgets the wish.
ForgetPending(s) == [s EXCEPT !.pending = "none", !.pendingAge = 0]

\* One unit of time passes.
Older(a) == IF a < StoppedAfter THEN a + 1 ELSE a

Elapse(s) == [s EXCEPT !.age = Older(@),
                       !.pendingAge = IF s.pending = "none" THEN @ ELSE Older(@)]
=============================================================================
