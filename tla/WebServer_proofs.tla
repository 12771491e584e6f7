-------------------------- MODULE WebServer_proofs --------------------------
(***************************************************************************)
(* The LED and the radio under the web tasks, for any number of phones and *)
(* workers and any channel.                                                *)
(***************************************************************************)
EXTENDS WebServer, TLAPS

\* board_task blinks only while the UI has not turned the LED on, and nobody
\* else turns it on: no blink is under way while led is TRUE.
NoBlink ==
    led => call["board"] \notin {"blink_on", "blink_off"} /\ at["board"] # "blink"

\* A call of heartbeat_task that will turn the LED off was decided before
\* led became TRUE, and it is the only one.
Owed == IF call["heartbeat"] = "off" THEN 1 ELSE 0

Darkening ==
    /\ led => darkened + Owed <= 1
    /\ ~led => darkened = 0

LedInv == LedTypeOK /\ NoBlink /\ Darkening

-----------------------------------------------------------------------------
LEMMA LedInvInit == LedInit => LedInv
<1> SUFFICES ASSUME LedInit PROVE LedInv
  OBVIOUS
<1>1. LedTypeOK
  <2> USE DEF LedInit, Tasks, HeartbeatCalls, BoardCalls
  <2>1. /\ call \in [Tasks -> HeartbeatCalls \cup BoardCalls \cup {"none"}]
        /\ call["heartbeat"] = "none" /\ call["board"] = "none"
    OBVIOUS
  <2>2. /\ at \in [Tasks -> {"top", "lit", "rest", "receive", "pulse", "blink"}]
        /\ at["heartbeat"] = "top" /\ at["board"] = "receive"
    OBVIOUS
  <2>3. cmds \in Seq(LedCommands) /\ darkened \in Nat
    OBVIOUS
  <2> QED
    BY <2>1, <2>2, <2>3 DEF LedTypeOK
<1>2. NoBlink /\ Darkening
  BY DEF LedInit, NoBlink, Darkening, Owed
<1> QED
  BY <1>1, <1>2 DEF LedInv

\* A task starts a call of its own; heartbeat_task turns the LED off, and
\* board_task blinks, only beside led FALSE.
LEMMA ProceedStep ==
    ASSUME LedInv,
           NEW t \in Tasks, NEW c,
           call[t] = "none",
           c \in (IF t = "heartbeat" THEN HeartbeatCalls ELSE BoardCalls),
           c \in {"off", "blink_on", "blink_off"} => ~led,
           Call(t, c),
           UNCHANGED <<led, lit, at, darkened>>,
           cmds' \in Seq(LedCommands)
    PROVE  LedInv'
<1> USE DEF LedInv, Tasks, HeartbeatCalls, BoardCalls
<1>1. call' = [call EXCEPT ![t] = c] /\ radio' \in {radio, t} /\ (radio # "none" => radio' = radio)
  BY DEF Call
<1>2. call'[t] = c /\ \A u \in Tasks : u # t => call'[u] = call[u]
  BY <1>1 DEF LedTypeOK
<1>3. LedTypeOK'
  <2>1. call' \in [Tasks -> HeartbeatCalls \cup BoardCalls \cup {"none"}]
    BY <1>1 DEF LedTypeOK
  <2>2. /\ call'["heartbeat"] \in HeartbeatCalls \cup {"none"}
        /\ call'["board"] \in BoardCalls \cup {"none"}
    BY <1>2 DEF LedTypeOK
  <2>3. radio' \in Tasks \cup {"none"}
    BY <1>1 DEF LedTypeOK
  <2>4. radio' # "none" => call'[radio'] # "none"
    BY <1>1, <1>2, <2>3 DEF LedTypeOK
  <2> QED
    BY <2>1, <2>2, <2>3, <2>4 DEF LedTypeOK
<1>4. NoBlink'
  BY <1>2 DEF NoBlink
<1>5. Darkening'
  BY <1>2 DEF Darkening, Owed
<1> QED
  BY <1>3, <1>4, <1>5

\* The chip answers task t's call.
LEMMA AnswerStep ==
    ASSUME LedInv,
           NEW t \in Tasks, NEW next, NEW on \in BOOLEAN,
           next \in (IF t = "heartbeat" THEN {"lit", "rest"} ELSE {"receive", "blink"}),
           call[t] # "none",
           Answer(t, next, on),
           on # led => call[t] \in {"LedOn", "LedOff"} /\ t = "board" /\ next = "receive",
           call[t] = "LedOff" => ~on,
           next = "blink" => call[t] = "blink_on"
    PROVE  LedInv'
<1> USE DEF LedInv, Tasks, HeartbeatCalls, BoardCalls
<1>1. /\ call' = [call EXCEPT ![t] = "none"] /\ at' = [at EXCEPT ![t] = next]
      /\ radio' = "none" /\ led' = on /\ cmds' = cmds /\ lit' = Level(call[t])
  BY DEF Answer
<1>2. call'[t] = "none" /\ at'[t] = next
      /\ \A u \in Tasks : u # t => call'[u] = call[u] /\ at'[u] = at[u]
  BY <1>1 DEF LedTypeOK
<1>3. lit' \in BOOLEAN
  BY <1>1 DEF Level
<1>4. darkened' \in Nat
  BY DEF Answer, LedTypeOK
<1>5. LedTypeOK'
  <2>1. call' \in [Tasks -> HeartbeatCalls \cup BoardCalls \cup {"none"}]
    BY <1>1 DEF LedTypeOK
  <2>2. at' \in [Tasks -> {"top", "lit", "rest", "receive", "pulse", "blink"}]
    BY <1>1 DEF LedTypeOK
  <2>3. /\ call'["heartbeat"] \in HeartbeatCalls \cup {"none"}
        /\ call'["board"] \in BoardCalls \cup {"none"}
        /\ at'["heartbeat"] \in {"top", "lit", "rest"}
        /\ at'["board"] \in {"receive", "pulse", "blink"}
    BY <1>2 DEF LedTypeOK
  <2> QED
    BY <1>1, <1>3, <1>4, <2>1, <2>2, <2>3 DEF LedTypeOK
<1>6. NoBlink'
  BY <1>1, <1>2 DEF NoBlink, LedTypeOK
<1>7. Darkening'
  <2>1. CASE ~(led /\ on)
    BY <1>1, <1>2, <2>1 DEF Answer, Darkening, Owed
  <2>2. CASE led /\ on
    <3>1. CASE Level(call[t])
      BY <1>1, <1>2, <2>2, <3>1 DEF Answer, Darkening, Owed, Level, LedTypeOK
    <3>2. CASE ~Level(call[t])
      <4>1. call[t] = "off" /\ t = "heartbeat"
        BY <2>2, <3>2 DEF Level, NoBlink, LedTypeOK
      <4> QED
        BY <1>1, <1>2, <2>2, <3>2, <4>1 DEF Answer, Darkening, Owed, LedTypeOK
    <3> QED
      BY <3>1, <3>2
  <2> QED
    BY <2>1, <2>2
<1> QED
  BY <1>5, <1>6, <1>7

\* A step that leaves the calls of board_task and the LED alone.
LEMMA PlaceStep ==
    ASSUME LedInv,
           NEW t \in Tasks, NEW next,
           next \in (IF t = "heartbeat" THEN {"top", "rest"} ELSE {"receive", "pulse"}),
           at' = [at EXCEPT ![t] = next],
           UNCHANGED <<led, lit, radio, call, darkened>>,
           cmds' \in Seq(LedCommands)
    PROVE  LedInv'
<1> USE DEF LedInv, Tasks
<1>1. at'[t] = next /\ \A u \in Tasks : u # t => at'[u] = at[u]
  BY DEF LedTypeOK
<1>2. at' \in [Tasks -> {"top", "lit", "rest", "receive", "pulse", "blink"}]
  BY DEF LedTypeOK
<1>3. LedTypeOK'
  BY <1>1, <1>2 DEF LedTypeOK
<1>4. NoBlink' /\ Darkening'
  BY <1>1 DEF NoBlink, Darkening, Owed
<1> QED
  BY <1>3, <1>4

LEMMA HeartbeatKeeps == LedInv /\ HeartbeatStep => LedInv'
<1> SUFFICES ASSUME LedInv, HeartbeatStep PROVE LedInv'
  OBVIOUS
<1> DEFINE t == "heartbeat"
<1>1. t \in Tasks /\ cmds \in Seq(LedCommands) /\ led \in BOOLEAN
  BY DEF LedInv, LedTypeOK, Tasks
<1>2. CASE Lock(t)
  BY <1>1, <1>2 DEF Lock, LedInv, LedTypeOK, NoBlink, Darkening, Owed
<1>3. CASE HeartbeatTop
  BY <1>1, <1>3, ProceedStep DEF HeartbeatTop, Heartbeat, Proceed, HeartbeatCalls
<1>4. CASE Held
  BY <1>1, <1>4, AnswerStep DEF Held
<1>5. CASE Lit
  BY <1>1, <1>5, AnswerStep DEF Lit
<1>6. CASE HeartbeatOff
  <2>1. CASE led
    BY <1>1, <1>6, <2>1, PlaceStep DEF HeartbeatOff
  <2>2. CASE ~led
    BY <1>1, <1>6, <2>2, ProceedStep DEF HeartbeatOff, Heartbeat, HeartbeatCalls
  <2> QED
    BY <2>1, <2>2
<1>7. CASE Off
  BY <1>1, <1>7, AnswerStep DEF Off
<1>8. CASE HeartbeatWakes
  BY <1>1, <1>8, PlaceStep DEF HeartbeatWakes
<1> QED
  BY <1>2, <1>3, <1>4, <1>5, <1>6, <1>7, <1>8 DEF HeartbeatStep

LEMMA BoardKeeps == LedInv /\ BoardStep => LedInv'
<1> SUFFICES ASSUME LedInv, BoardStep PROVE LedInv'
  OBVIOUS
<1> DEFINE t == "board"
<1>1. t \in Tasks /\ t # "heartbeat" /\ cmds \in Seq(LedCommands) /\ led \in BOOLEAN
  BY DEF LedInv, LedTypeOK, Tasks
<1>2. CASE Lock(t)
  BY <1>1, <1>2 DEF Lock, LedInv, LedTypeOK, NoBlink, Darkening, Owed
<1>3. CASE BoardReceive
  <2>1. Tail(cmds) \in Seq(LedCommands) /\ Head(cmds) \in LedCommands
    BY <1>1, <1>3 DEF BoardReceive
  <2>2. CASE Head(cmds) = "Pin"
    BY <1>1, <1>3, <2>1, <2>2, PlaceStep DEF BoardReceive
  <2>3. CASE Head(cmds) # "Pin"
    BY <1>1, <1>3, <2>1, <2>3, ProceedStep DEF BoardReceive, Board, LedCommands, BoardCalls
  <2> QED
    BY <2>2, <2>3
<1>4. CASE LedOn
  BY <1>1, <1>4, AnswerStep DEF LedOn
<1>5. CASE LedOff
  BY <1>1, <1>5, AnswerStep DEF LedOff
<1>6. CASE PulseDone
  <2>1. CASE led
    BY <1>1, <1>6, <2>1, PlaceStep DEF PulseDone
  <2>2. CASE ~led
    BY <1>1, <1>6, <2>2, ProceedStep DEF PulseDone, Board, BoardCalls
  <2> QED
    BY <2>1, <2>2
<1>7. CASE BlinkOn
  BY <1>1, <1>7, AnswerStep DEF BlinkOn
<1>8. CASE BlinkEnd
  <2>1. ~led
    BY <1>8 DEF BlinkEnd, Board, LedInv, NoBlink
  <2> QED
    BY <1>1, <1>8, <2>1, ProceedStep DEF BlinkEnd, Board, Proceed, BoardCalls
<1>9. CASE BlinkOff
  BY <1>1, <1>9, AnswerStep DEF BlinkOff
<1> QED
  BY <1>2, <1>3, <1>4, <1>5, <1>6, <1>7, <1>8, <1>9 DEF BoardStep

LEMMA SendKeeps ==
    ASSUME LedInv, NEW c \in LedCommands, Send(c)
    PROVE  LedInv'
<1>1. cmds' \in Seq(LedCommands)
  BY DEF Send, LedInv, LedTypeOK
<1> QED
  BY <1>1 DEF Send, LedInv, LedTypeOK, NoBlink, Darkening, Owed

LEMMA UnchangedKeeps == LedInv /\ UNCHANGED ledvars => LedInv'
BY DEF ledvars, LedInv, LedTypeOK, NoBlink, Darkening, Owed

LEMMA LedInvStep == LedInv /\ [LedNext]_ledvars => LedInv'
<1> SUFFICES ASSUME LedInv, LedNext PROVE LedInv'
  BY UnchangedKeeps
<1> QED
  BY HeartbeatKeeps, BoardKeeps, SendKeeps DEF LedNext

-----------------------------------------------------------------------------
\* Every connection is at one of its places, and a blocked post is a command.
THEOREM WebTypes == WebSpec => []WebTypeOK
<1>1. WebInit => WebTypeOK
  BY DEF WebInit, LedCommands, WebTypeOK
<1>2. WebTypeOK /\ [WebNext]_vars => WebTypeOK'
  <2> SUFFICES ASSUME WebTypeOK, [WebNext]_vars
               PROVE  WebTypeOK'
    OBVIOUS
  <2>1. CASE UNCHANGED vars
    BY <2>1 DEF vars, webvars, WebTypeOK
  <2>2. CASE (HeartbeatStep \/ BoardStep) /\ UNCHANGED webvars
    BY <2>2 DEF webvars, WebTypeOK
  <2>3. ASSUME NEW p \in Phones, NEW c \in LedCommands, Post(p, c) PROVE WebTypeOK'
    BY <2>3 DEF Post, WebTypeOK
  <2>4. ASSUME NEW p \in Phones, Unblock(p) PROVE WebTypeOK'
    BY <2>4 DEF Unblock, LedCommands, WebTypeOK
  <2>5. ASSUME NEW p \in Phones,
               Accept(p) \/ Get(p) \/ Events(p) \/ Upload(p) \/ Leave(p) \/ Worker(p)
        PROVE  WebTypeOK'
    BY <2>5 DEF Accept, Get, Events, Upload, Leave, Worker, Timeout, Replied, StreamEnds,
                UploadEnds, Move, WebTypeOK
  <2> QED
    BY <2>1, <2>2, <2>3, <2>4, <2>5 DEF WebNext
<1> QED
  BY <1>1, <1>2, PTL DEF WebSpec

\* Every step of a web task is a send to board_task or none of its business:
\* the web server with its tasks is an instance of OnboardLed.
THEOREM WebImplementsLed == WebSpec => LedSpec
<1>1. WebInit => LedInit
  BY DEF WebInit
<1>2. WebTypeOK /\ [WebNext]_vars => [LedNext]_ledvars
  <2> SUFFICES ASSUME WebTypeOK, [WebNext]_vars
               PROVE  [LedNext]_ledvars
    OBVIOUS
  <2>1. CASE UNCHANGED vars
    BY <2>1 DEF vars
  <2>2. CASE (HeartbeatStep \/ BoardStep) /\ UNCHANGED webvars
    BY <2>2 DEF LedNext
  <2>3. ASSUME NEW p \in Phones, NEW c \in LedCommands, Post(p, c) PROVE [LedNext]_ledvars
    BY <2>3 DEF Post, LedNext
  <2>4. ASSUME NEW p \in Phones, Unblock(p) PROVE [LedNext]_ledvars
    BY <2>4 DEF Unblock, LedNext, WebTypeOK
  <2>5. ASSUME NEW p \in Phones,
               Accept(p) \/ Get(p) \/ Events(p) \/ Upload(p) \/ Leave(p) \/ Worker(p)
        PROVE  [LedNext]_ledvars
    BY <2>5 DEF Accept, Get, Events, Upload, Leave, Worker, Timeout, Replied, StreamEnds,
                UploadEnds, Move
  <2> QED
    BY <2>1, <2>2, <2>3, <2>4, <2>5 DEF WebNext
<1> QED
  BY <1>1, <1>2, WebTypes, PTL DEF WebSpec, LedSpec

\* DarkAtMostOnce of the two tasks that drive the LED: the LED that the UI
\* turned on is turned off once at most, by a heartbeat decided before.
THEOREM LedDarkensOnce == LedSpec => []LedTypeOK /\ []DarkAtMostOnce
<1>1. LedInv => LedTypeOK /\ DarkAtMostOnce
  BY DEF LedInv, LedTypeOK, Darkening, Owed, DarkAtMostOnce
<1> QED
  BY <1>1, LedInvInit, LedInvStep, PTL DEF LedSpec

\* DarkAtMostOnce with the web tasks around them.
THEOREM WebDarkensOnce == WebSpec => []DarkAtMostOnce
BY WebImplementsLed, LedDarkensOnce, PTL
=============================================================================
