------------------------- MODULE Scoreboard_proofs -------------------------
(* What the operators of Scoreboard return, for every value of the         *)
(* constants.  The proofs of the modules built on them cite these lemmas.  *)
EXTENDS Scoreboard, TLAPS

\* Every run state that decode.rs infers or resolves is one.
LEMMA DecodeType ==
    ASSUME NEW min, NEW sec, NEW age, NEW running \in Run, NEW pending \in Wish, NEW pendingAge
    PROVE  /\ ClockIsRunning(min, sec, age) \in Run
           /\ ResolvePendingRunning(pending, running, pendingAge) \in Wish
           /\ Opposite(running) \in Run
BY DEF ClockIsRunning, ResolvePendingRunning, Opposite, Run, Wish

\* Publishing announces what is visible and changes nothing else.
LEMMA PublishType ==
    ASSUME NEW s \in ScoreboardState
    PROVE  /\ Publish(s) \in ScoreboardState
           /\ Publish(s).announced = Visible(Publish(s))
           /\ Publish(s).home = s.home /\ Publish(s).away = s.away
           /\ Publish(s).min = s.min /\ Publish(s).sec = s.sec /\ Publish(s).age = s.age
BY DEF Publish, Visible, View, ScoreboardState

\* A refresh (heartbeat, status request, frame) infers the run state anew,
\* leaves the time and the scores alone and announces the result.
LEMMA RefreshType ==
    ASSUME NEW s \in ScoreboardState
    PROVE  /\ RefreshRunning(s) \in ScoreboardState
           /\ RefreshRunning(s).announced = Visible(RefreshRunning(s))
           /\ RefreshRunning(s).home = s.home /\ RefreshRunning(s).away = s.away
           /\ RefreshRunning(s).min = s.min /\ RefreshRunning(s).sec = s.sec
           /\ RefreshRunning(s).age = s.age
<1> DEFINE running == ClockIsRunning(s.min, s.sec, s.age)
           pending == ResolvePendingRunning(s.pending, running, s.pendingAge)
           t == [s EXCEPT !.running = running, !.pending = pending,
                          !.pendingAge = IF pending = "none" THEN 0 ELSE @]
<1>1. running \in Run /\ s.pending \in Wish
  BY DecodeType DEF ScoreboardState, Run
<1>2. pending \in Wish
  BY <1>1, DecodeType
<1>3. 0 \in Ages
  BY ScoreboardAssumption DEF Ages
<1> HIDE DEF running, pending
<1>4. t \in ScoreboardState /\ t.home = s.home /\ t.away = s.away
      /\ t.min = s.min /\ t.sec = s.sec /\ t.age = s.age
  BY <1>1, <1>2, <1>3 DEF ScoreboardState
<1> HIDE DEF t
<1>5. RefreshRunning(s) = Publish(t)
  BY DEF RefreshRunning, t, running, pending
<1> QED
  BY <1>4, <1>5, PublishType

\* A frame sets the time it shows, and refreshes.
LEMMA SetClockType ==
    ASSUME NEW s \in ScoreboardState, NEW min \in Minutes, NEW sec \in Seconds
    PROVE  /\ SetClock(s, min, sec) \in ScoreboardState
           /\ SetClock(s, min, sec).announced = Visible(SetClock(s, min, sec))
           /\ SetClock(s, min, sec).home = s.home /\ SetClock(s, min, sec).away = s.away
           /\ SetClock(s, min, sec).min = min /\ SetClock(s, min, sec).sec = sec
           /\ SetClock(s, min, sec).age = IF s.min # min \/ s.sec # sec THEN 0 ELSE s.age
<1> DEFINE t == [s EXCEPT !.age = IF s.min # min \/ s.sec # sec THEN 0 ELSE @,
                          !.min = min, !.sec = sec]
<1>1. 0 \in Ages
  BY ScoreboardAssumption DEF Ages
<1>2. /\ t \in ScoreboardState /\ t.home = s.home /\ t.away = s.away /\ t.min = min /\ t.sec = sec
      /\ t.age = IF s.min # min \/ s.sec # sec THEN 0 ELSE s.age
  BY <1>1 DEF ScoreboardState
<1> HIDE DEF t
<1>3. SetClock(s, min, sec) = RefreshRunning(t)
  BY DEF SetClock, t
<1> QED
  BY <1>2, <1>3, RefreshType

\* A start/stop request remembers a wish only: it writes neither the run
\* state beyond a refresh, nor the time, nor the scores.
LEMMA AfterRequestType ==
    ASSUME NEW s \in ScoreboardState, NEW want \in Wish
    PROVE  /\ AfterRequest(s, want) \in ScoreboardState
           /\ AfterRequest(s, want).announced = Visible(AfterRequest(s, want))
           /\ AfterRequest(s, want).home = s.home /\ AfterRequest(s, want).away = s.away
           /\ AfterRequest(s, want).min = s.min /\ AfterRequest(s, want).sec = s.sec
<1> DEFINE r == RefreshRunning(s)
           w == IF want = "none" THEN Opposite(Effective(r)) ELSE want
<1>1. /\ r \in ScoreboardState /\ r.announced = Visible(r)
      /\ r.home = s.home /\ r.away = s.away /\ r.min = s.min /\ r.sec = s.sec
  BY RefreshType
<1>2. 0 \in Ages
  BY ScoreboardAssumption DEF Ages
<1> HIDE DEF r
<1>3. w \in Wish
  BY <1>1 DEF Effective, Opposite, Wish, Run, ScoreboardState
<1> HIDE DEF w
<1>4. AfterRequest(s, want) = r \/ AfterRequest(s, want) = [r EXCEPT !.pending = w, !.pendingAge = 0]
  BY DEF AfterRequest, r, w
<1> QED
  BY <1>1, <1>2, <1>3, <1>4 DEF ScoreboardState, Visible

\* Forgetting the wish, as Reset does, is invisible.
LEMMA ForgetType ==
    ASSUME NEW s \in ScoreboardState
    PROVE  /\ ForgetPending(s) \in ScoreboardState
           /\ Visible(ForgetPending(s)) = Visible(s)
           /\ ForgetPending(s).announced = s.announced
           /\ ForgetPending(s).home = s.home /\ ForgetPending(s).away = s.away
<1>1. 0 \in Ages /\ "none" \in Wish
  BY ScoreboardAssumption DEF Ages, Wish
<1> QED
  BY <1>1 DEF ForgetPending, ScoreboardState, Visible

\* Growing older is invisible.
LEMMA ElapseType ==
    ASSUME NEW s \in ScoreboardState
    PROVE  /\ Elapse(s) \in ScoreboardState
           /\ Visible(Elapse(s)) = Visible(s)
           /\ Elapse(s).announced = s.announced
           /\ Elapse(s).home = s.home /\ Elapse(s).away = s.away
<1>1. \A a \in Ages : Older(a) \in Ages
  BY ScoreboardAssumption DEF Ages, Older
<1> QED
  BY <1>1 DEF Elapse, ScoreboardState, Visible

\* The default state shows what it has announced.
LEMMA InitType ==
    /\ InitScoreboard \in ScoreboardState
    /\ InitScoreboard.announced = Visible(InitScoreboard)
    /\ InitScoreboard.home = 0 /\ InitScoreboard.away = 0
BY ScoreboardAssumption
   DEF InitScoreboard, ScoreboardState, Visible, View, Minutes, Seconds, Scores, Ages, Run, Wish
=============================================================================
