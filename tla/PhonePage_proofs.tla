-------------------------- MODULE PhonePage_proofs --------------------------
(***************************************************************************)
(* A page without an open stream polls, for any number of requests under   *)
(* way and of failed connections.                                          *)
(***************************************************************************)
EXTENDS PhonePage, TLAPS

Polling == \E j \in Polls : chain[j] # NoPoll

\* fallbackOn says both that somebody has to poll and that a chain does; only
\* an event, which an open stream alone brings, stops the fallback from outside.
Watched ==
    /\ chain = [j \in Polls |-> chain[j]]
    /\ readyState # "open" => fallbackOn
    /\ fallbackOn => Polling
    /\ pipe # <<>> => readyState = "open"

-----------------------------------------------------------------------------
\* A chain that goes on keeps the fallback on; one that ends may switch it off
\* beside an open stream.
LEMMA GoesWatched ==
    ASSUME Watched, NEW j \in Polls, NEW c, NEW on \in BOOLEAN,
           Goes(j, c, on),
           on => c # NoPoll,
           readyState' # "open" => on,
           pipe' # <<>> => readyState' = "open"
    PROVE  Watched'
<1>1. chain' = [i \in Polls |-> chain'[i]]
  BY DEF Watched, Goes
<1>2. chain'[j] = c
  BY DEF Watched, Goes
<1>3. fallbackOn' => Polling'
  BY <1>2 DEF Goes, Polling
<1> QED
  BY <1>1, <1>3 DEF Watched, Goes

\* startFallback leaves the fallback on, whoever calls it.
LEMMA StartWatched ==
    ASSUME Watched, startFallback, pipe' # <<>> => readyState' = "open"
    PROVE  Watched'
<1>1. CASE fallbackOn
  BY <1>1 DEF startFallback, fallback, Watched, Polling
<1>2. CASE ~fallbackOn
  <2>1. PICK j \in Polls : Goes(j, [at |-> "asked"], TRUE)
    BY <1>2 DEF startFallback
  <2>2. [at |-> "asked"] # NoPoll
    BY DEF NoPoll
  <2> QED
    BY <2>1, <2>2, GoesWatched
<1> QED
  BY <1>1, <1>2

\* The states of a chain that goes on.
LEMMA LiveChain ==
    /\ [at |-> "asked"] # NoPoll
    /\ [at |-> "timer"] # NoPoll
    /\ [at |-> "failed"] # NoPoll
    /\ \A s : [at |-> "answer", status |-> s] # NoPoll
BY DEF NoPoll

LEMMA WatchedInit == Init => Watched
<1> SUFFICES ASSUME Init PROVE Watched
  OBVIOUS
<1>1. PICK j \in Polls : chain = [i \in Polls |-> IF i = j THEN [at |-> "asked"] ELSE NoPoll]
  BY DEF Init
<1>2. chain[j] # NoPoll /\ chain = [i \in Polls |-> chain[i]]
  BY <1>1, LiveChain
<1> QED
  BY <1>2 DEF Init, Watched, Polling

LEMMA WatchedStep == Watched /\ [Next]_vars => Watched'
<1> SUFFICES ASSUME Watched, [Next]_vars PROVE Watched'
  OBVIOUS
<1>1. ASSUME UNCHANGED <<stream, fallback>> PROVE Watched'
  BY <1>1 DEF stream, fallback, Watched, Polling
<1>2. ASSUME NEW k \in Posts, NEW op \in Ops, Tap(k, op) PROVE Watched'
  BY <1>1, <1>2 DEF Tap
<1>3. ASSUME NEW k \in Posts, Post(k) PROVE Watched'
  BY <1>1, <1>3 DEF Post, PostOk, PostFailed, Posted, Finished
<1>4. ASSUME NEW j \in Polls, Poll(j) PROVE Watched'
  <2>1. UNCHANGED stream
    BY <1>4 DEF Poll, tick, Answer, updateStatus
  <2>2. pipe' # <<>> => readyState' = "open"
    BY <2>1 DEF stream, Watched
  <2>3. CASE tick(j)
    BY <2>1, <2>2, <2>3, GoesWatched, LiveChain DEF tick, stream, Watched
  <2>4. CASE Answer(j)
    <3>1. chain[j].at = "asked" /\ chain[j] # NoPoll
      BY <2>4 DEF Answer, NoPoll
    <3>2. chain' = [chain EXCEPT ![j] = [at |-> "answer", status |-> pico]]
      BY <2>4 DEF Answer, Goes
    <3>3. chain'[j] # NoPoll /\ chain' = [i \in Polls |-> chain'[i]]
      BY <3>2, LiveChain DEF Watched
    <3>4. fallbackOn' = fallbackOn
      BY <2>4 DEF Answer, Goes
    <3> QED
      BY <2>1, <2>2, <3>3, <3>4 DEF Watched, Polling, stream
  <2>5. CASE updateStatus(j)
    BY <2>1, <2>2, <2>5, GoesWatched, LiveChain DEF updateStatus, Again, stream, Watched
  <2> QED
    BY <1>4, <2>3, <2>4, <2>5 DEF Poll
<1>5. CASE Events
  <2>1. CASE Connect
    BY <2>1 DEF Connect, fallback, Watched, Polling
  <2>2. CASE Refused
    BY <2>2, StartWatched DEF Refused, Watched
  <2>3. CASE Write
    BY <2>3 DEF Write, fallback, Watched, Polling
  <2>4. CASE Status
    BY <2>4 DEF Status, stopFallback, Watched
  <2> QED
    BY <1>5, <2>1, <2>2, <2>3, <2>4 DEF Events
<1>6. ASSUME NEW p, Becomes(p) PROVE Watched'
  BY <1>6 DEF Becomes, fallback, Watched, Polling
<1>7. CASE Apply
  BY <1>6, <1>7 DEF Apply
<1>8. CASE ClockTicks
  BY <1>6, <1>8 DEF ClockTicks
<1>9. ASSUME NEW op \in Ops, OtherPhone(op) PROVE Watched'
  BY <1>1, <1>9 DEF OtherPhone
<1>10. CASE Fault
  <2>1. ASSUME NEW k \in Posts, PostLost(k) PROVE Watched'
    BY <1>1, <2>1 DEF PostLost
  <2>2. ASSUME NEW j \in Polls, PollLost(j) PROVE Watched'
    <3>1. chain'[j] # NoPoll /\ chain' = [i \in Polls |-> chain'[i]]
      BY <2>2, LiveChain DEF PollLost, Watched
    <3> QED
      BY <2>2, <3>1 DEF PollLost, stream, Watched, Polling
  <2>3. CASE StreamLost
    BY <2>3, StartWatched DEF StreamLost
  <2> QED
    BY <1>10, <2>1, <2>2, <2>3 DEF Fault
<1>11. CASE UNCHANGED vars
  BY <1>1, <1>11 DEF vars
<1> QED
  BY <1>2, <1>3, <1>4, <1>5, <1>7, <1>8, <1>9, <1>10, <1>11 DEF Next

\* NeverUnwatched of index.html: whatever order errors, reconnects, events and
\* late answers come in, a page without an open stream has a poll under way.
THEOREM PageIsWatched == Spec => []NeverUnwatched
<1>1. Watched => NeverUnwatched
  BY DEF Watched, Polling, NeverUnwatched
<1> QED
  BY <1>1, WatchedInit, WatchedStep, PTL DEF Spec
=============================================================================
