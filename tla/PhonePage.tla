----------------------------- MODULE PhonePage -----------------------------
(***************************************************************************)
(* index.html in a phone's browser: the score of one team as the page      *)
(* paints it.  A tap is painted at once and posted; until the POST ends    *)
(* the page ignores the scores it is sent (scoreInflight).  Snapshots come *)
(* as events of an EventSource and, while that is not open, from a poll of *)
(* /api/status.  JavaScript runs one callback at a time, so a step is a    *)
(* callback.                                                               *)
(*                                                                         *)
(* The Pico is what the page can tell of it: a POST is answered once its   *)
(* command is on the channel, board_task applies it later, and a stream    *)
(* takes a snapshot after every visible change (SnapshotFeed).  Every      *)
(* request has a connection of its own, so POSTs, polls and the stream     *)
(* overtake one another.                                                   *)
(*                                                                         *)
(* A poll of the fallback is a chain of fetches and timers:                *)
(*    "none"     ended                                                     *)
(*    "asked"    the request is on its way                                 *)
(*    "answer"   the answer is on its way                                  *)
(*    "failed"   the fetch has failed                                      *)
(*    "timer"    350 ms before the next fetch                              *)
(***************************************************************************)
EXTENDS Naturals, Sequences

CONSTANTS
    ScoreMax,
    Posts, Polls,   \* bound of the model: POSTs and polls at once
    ChannelCap,     \* capacity of the command channel
    PipeCap,        \* bound of the model: events under way to the phone
    MaxFaults       \* bound of the model: connections that fail

ASSUME PageAssumption ==
    /\ ScoreMax \in Nat \ {0} /\ ChannelCap \in Nat \ {0} /\ PipeCap \in Nat \ {0}
    /\ MaxFaults \in Nat

VARIABLES
    pico,           \* what the Pico would send: a score and a time
    queue,          \* the command channel
    home,           \* the score the page paints
    scoreInflight,
    post,           \* the POSTs of this page
    readyState,     \* of the EventSource
    unseen, pipe,   \* the stream has something to send; events under way
    fallbackOn,
    chain,          \* the polls of the fallback
    fallbackTimer,  \* the chain whose timer was set last, in a set of at most one
    faults

score    == <<home, scoreInflight, post>>
stream   == <<readyState, unseen, pipe>>
fallback == <<fallbackOn, chain, fallbackTimer>>
vars == <<pico, queue, score, stream, fallback, faults>>

Ops == {"inc", "dec", "zero"}

\* The clock only has to change: two times do.
Snapshot == [score : 0..ScoreMax, time : 0..1]

NoPost == [at |-> "none"]
NoPoll == [at |-> "none"]

\* The score after a tap, on the page and in board_task alike.
Scored(op, n) ==
    CASE op = "inc" -> IF n < ScoreMax THEN n + 1 ELSE n
      [] op = "dec" -> IF n > 0 THEN n - 1 ELSE n
      [] op = "zero" -> 0

-----------------------------------------------------------------------------
(* Score buttons.                                                          *)

\* bindScore does nothing when the score is at its limit.
Tap(k, op) ==
    /\ post[k] = NoPost
    /\ op = "zero" \/ Scored(op, home) # home
    /\ home' = Scored(op, home)
    /\ scoreInflight' = scoreInflight + 1
    /\ post' = [post EXCEPT ![k] = [at |-> "request", op |-> op, prev |-> home]]
    /\ UNCHANGED <<pico, queue, stream, fallback, faults>>

Finished(k) ==
    /\ post' = [post EXCEPT ![k] = NoPost]
    /\ scoreInflight' = IF scoreInflight > 0 THEN scoreInflight - 1 ELSE 0
    /\ UNCHANGED <<pico, queue, stream, fallback, faults>>

PostOk(k) ==
    /\ post[k].at = "reply"
    /\ UNCHANGED home
    /\ Finished(k)

\* What a failed POST paints back.
RolledBack(p) ==
    CASE p.op = "inc" -> Scored("dec", home)
      [] p.op = "dec" -> Scored("inc", home)
      [] p.op = "zero" -> p.prev

\* Mutation of PostFailed: the count is only taken back by a POST that succeeds.
PostFailedCounts(k) ==
    /\ post[k].at = "failed"
    /\ home' = RolledBack(post[k])
    /\ post' = [post EXCEPT ![k] = NoPost]
    /\ UNCHANGED <<pico, queue, scoreInflight, stream, fallback, faults>>

PostFailed(k) ==
    /\ post[k].at = "failed"
    /\ home' = RolledBack(post[k])
    /\ Finished(k)

\* The request reaches the Pico, which answers when its command is queued.
Posted(k) ==
    /\ post[k].at = "request" /\ Len(queue) < ChannelCap
    /\ queue' = Append(queue, post[k].op)
    /\ post' = [post EXCEPT ![k].at = "reply"]
    /\ UNCHANGED <<pico, home, scoreInflight, stream, fallback, faults>>

-----------------------------------------------------------------------------
(* applyStatus and the fallback poll.                                      *)

ApplyStatus(s) == home' = IF scoreInflight = 0 THEN s.score ELSE home

\* The chain goes on as c, and fallbackOn becomes on.
Goes(j, c, on) ==
    /\ chain' = [chain EXCEPT ![j] = c]
    /\ fallbackOn' = on
    /\ fallbackTimer' = IF c.at = "timer" THEN {j} ELSE fallbackTimer \ {j}

stopFallback ==
    /\ fallbackOn' = FALSE
    /\ chain' = [j \in Polls |-> IF j \in fallbackTimer THEN NoPoll ELSE chain[j]]
    /\ fallbackTimer' = {}

\* One poll chain more, even beside one that has not noticed the last stop.
startFallback ==
    IF fallbackOn THEN UNCHANGED fallback
    ELSE \E j \in Polls : chain[j] = NoPoll /\ Goes(j, [at |-> "asked"], TRUE)

\* Mutation of Again: the chain ends beside an open stream and leaves fallbackOn set.
AgainKeepsFlag(j) ==
    IF ~fallbackOn THEN Goes(j, NoPoll, FALSE)
    ELSE IF readyState # "open" THEN Goes(j, [at |-> "timer"], TRUE)
    ELSE Goes(j, NoPoll, TRUE)

\* The finally of a fetch.
Again(j) ==
    IF ~fallbackOn THEN Goes(j, NoPoll, FALSE)
    ELSE IF readyState # "open" THEN Goes(j, [at |-> "timer"], TRUE)
    ELSE Goes(j, NoPoll, FALSE)

\* tick, when the timer fires.
tick(j) ==
    /\ chain[j].at = "timer"
    /\ IF fallbackOn /\ readyState # "open" THEN Goes(j, [at |-> "asked"], TRUE)
       ELSE Goes(j, NoPoll, FALSE)
    /\ UNCHANGED <<pico, queue, score, stream, faults>>

Answer(j) ==
    /\ chain[j].at = "asked"
    /\ Goes(j, [at |-> "answer", status |-> pico], fallbackOn)
    /\ UNCHANGED <<pico, queue, score, stream, faults>>

updateStatus(j) ==
    /\ \/ chain[j].at = "answer" /\ ApplyStatus(chain[j].status)
       \/ chain[j].at = "failed" /\ UNCHANGED home
    /\ Again(j)
    /\ UNCHANGED <<pico, queue, scoreInflight, post, stream, faults>>

-----------------------------------------------------------------------------
(* The EventSource.                                                        *)

Connect ==
    /\ readyState = "connecting"
    /\ readyState' = "open" /\ unseen' = TRUE
    /\ UNCHANGED <<pico, queue, score, pipe, fallback, faults>>

\* 503: the browser gives the stream up for good.
Refused ==
    /\ readyState = "connecting"
    /\ readyState' = "closed"
    /\ startFallback
    /\ UNCHANGED <<pico, queue, score, unseen, pipe, faults>>

\* The stream writes a snapshot; what it had not sent before is in it.
Write ==
    /\ readyState = "open" /\ unseen /\ Len(pipe) < PipeCap
    /\ pipe' = Append(pipe, pico) /\ unseen' = FALSE
    /\ UNCHANGED <<pico, queue, score, readyState, fallback, faults>>

\* The listener of status events.
Status ==
    /\ pipe # <<>>
    /\ ApplyStatus(Head(pipe))
    /\ stopFallback
    /\ pipe' = Tail(pipe)
    /\ UNCHANGED <<pico, queue, scoreInflight, post, readyState, unseen, faults>>

-----------------------------------------------------------------------------
(* Everything else: the Pico, other phones, the network.                   *)

Becomes(p) ==
    /\ pico' = p
    /\ unseen' = (unseen \/ (readyState = "open" /\ p # pico))
    /\ UNCHANGED <<score, readyState, pipe, fallback, faults>>

Apply ==
    /\ queue # <<>>
    /\ queue' = Tail(queue)
    /\ Becomes([pico EXCEPT !.score = Scored(Head(queue), @)])

ClockTicks == Becomes([pico EXCEPT !.time = 1 - @]) /\ UNCHANGED queue

OtherPhone(op) ==
    /\ Len(queue) < ChannelCap
    /\ queue' = Append(queue, op)
    /\ UNCHANGED <<pico, score, stream, fallback, faults>>

\* A connection fails: a POST before or after it reached the Pico, a poll, the
\* stream (with the events under way).  The browser opens the stream again.
PostLost(k) ==
    /\ post[k].at \in {"request", "reply"}
    /\ post' = [post EXCEPT ![k].at = "failed"]
    /\ UNCHANGED <<home, scoreInflight, stream, fallback>>

PollLost(j) ==
    /\ chain[j].at \in {"asked", "answer"}
    /\ chain' = [chain EXCEPT ![j] = [at |-> "failed"]]
    /\ UNCHANGED <<score, stream, fallbackOn, fallbackTimer>>

StreamLost ==
    /\ readyState = "open"
    /\ readyState' = "connecting" /\ unseen' = FALSE /\ pipe' = <<>>
    /\ startFallback
    /\ UNCHANGED score

Fault ==
    /\ faults < MaxFaults /\ faults' = faults + 1
    /\ (\E k \in Posts : PostLost(k)) \/ (\E j \in Polls : PollLost(j)) \/ StreamLost
    /\ UNCHANGED <<pico, queue>>

-----------------------------------------------------------------------------
\* The page is loaded: connectEvents() and startFallback().  Its score is 0
\* until the first snapshot.
Init ==
    /\ pico \in Snapshot
    /\ queue = <<>>
    /\ home = 0 /\ scoreInflight = 0
    /\ post = [k \in Posts |-> NoPost]
    /\ readyState = "connecting" /\ unseen = FALSE /\ pipe = <<>>
    /\ fallbackOn = TRUE
    /\ \E j \in Polls : chain = [i \in Polls |-> IF i = j THEN [at |-> "asked"] ELSE NoPoll]
    /\ fallbackTimer = {}
    /\ faults = 0

Post(k) == PostOk(k) \/ PostFailed(k) \/ Posted(k)
Poll(j) == tick(j) \/ Answer(j) \/ updateStatus(j)
Events  == Connect \/ Refused \/ Write \/ Status

Next ==
    \/ \E k \in Posts, op \in Ops : Tap(k, op)
    \/ \E k \in Posts : Post(k)
    \/ \E j \in Polls : Poll(j)
    \/ Events
    \/ Apply
    \/ ClockTicks
    \/ \E op \in Ops : OtherPhone(op)
    \/ Fault

Spec == Init /\ [][Next]_vars

(* Connections that do not fail make progress, callbacks run, and the Pico *)
(* works off its channel (ChannelDrains of BoardControl).  Nobody has to   *)
(* tap, and the clock need not run.                                        *)
FairSpec ==
    /\ Spec /\ WF_vars(Events) /\ WF_vars(Write) /\ WF_vars(Status) /\ WF_vars(Apply)
    /\ \A k \in Posts : WF_vars(Post(k))
    /\ \A j \in Polls : WF_vars(Poll(j))

-----------------------------------------------------------------------------
(* Properties.                                                             *)

\* A page without an open stream is polling: no order of errors, reconnects,
\* stops and late answers leaves fallbackOn set with no chain to serve it, or
\* the page with neither a stream nor a poll.
NeverUnwatched ==
    readyState # "open" => fallbackOn /\ \E j \in Polls : chain[j] # NoPoll

\* The score the page painted before its POST was answered, rolled back, or
\* took from an answer that others had overtaken does not stay: once the taps
\* have been worked off, the next changes of the clock or the polls of a page
\* that was refused a stream bring the page to the Pico's score.  (A page with
\* a stream beside a stopped clock is sent nothing more and may stay wrong.)
Quiet == queue = <<>> /\ \A k \in Posts : post[k] = NoPost

PageCatchesUp ==
    /\ <>[]Quiet
    /\ \/ <>[](readyState = "closed")
       \/ []<>(pico.time = 0) /\ []<>(pico.time = 1)
    => <>[](home = pico.score)
=============================================================================
