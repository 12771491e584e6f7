----------------------------- MODULE OnboardLed -----------------------------
(***************************************************************************)
(* The LED of the Pico W hangs on the radio chip (CYW43 gpio 0).  Two      *)
(* tasks drive it, each from what it last read of the shared state:        *)
(* heartbeat_task, which blinks once a second or holds it on, and          *)
(* board_task, for /led/on and /led/off and in blink_onboard.  gpio_set    *)
(* takes the radio's mutex and keeps it until the chip has answered, so    *)
(* what a task decided may be out of date when its turn comes.             *)
(*                                                                         *)
(* A task is in a call of gpio_set, waiting for the mutex or holding it,   *)
(* or between two calls at a place of its own:                             *)
(*    heartbeat  "top" (of its loop), "lit" (the 80 ms), "rest" (a sleep)  *)
(*    board      "receive", "pulse" (of a pin), "blink" (the 50 ms)        *)
(*                                                                         *)
(* lock().await takes a free mutex at once; a task that finds it held      *)
(* waits, and whoever comes first after the release has it.                *)
(***************************************************************************)
EXTENDS Integers, Sequences

CONSTANT ChannelCap     \* capacity of the command channel (8)

ASSUME LedAssumption == ChannelCap \in Nat \ {0}

VARIABLES
    led,        \* ScoreboardState.led: the UI turned the LED on
    lit,        \* the LED
    radio,      \* who holds the radio's mutex
    call,       \* the gpio_set each task is in, or "none"
    at,         \* where a task is between its calls
    cmds        \* the command channel

\* History variable: how often a lit LED was turned off since led is TRUE.
VARIABLE darkened

Tasks == {"heartbeat", "board"}

HeartbeatCalls == {"hold", "on", "off"}
BoardCalls     == {"LedOn", "LedOff", "blink_on", "blink_off"}

\* The level a call sets.
Level(c) == c \notin {"off", "LedOff", "blink_off"}

\* Commands of board_task; "Pin" is any that pulses a pin and then blinks.
LedCommands == {"LedOn", "LedOff", "Pin"}

ledvars == <<led, lit, radio, call, at, cmds, darkened>>

-----------------------------------------------------------------------------
\* Task t starts the call c.
Call(t, c) ==
    /\ call' = [call EXCEPT ![t] = c]
    /\ radio' = IF radio = "none" THEN t ELSE radio

\* A waiting task finds the mutex free.
Lock(t) ==
    /\ call[t] # "none" /\ radio = "none"
    /\ radio' = t
    /\ UNCHANGED <<led, lit, call, at, cmds, darkened>>

\* The chip answers task t, which drops the mutex and is at place next; on is
\* the state's led after that.
Answer(t, next, on) ==
    /\ radio = t /\ radio' = "none"
    /\ lit' = Level(call[t])
    /\ call' = [call EXCEPT ![t] = "none"]
    /\ at' = [at EXCEPT ![t] = next]
    /\ led' = on
    /\ darkened' = IF led /\ on THEN (IF Level(call[t]) THEN darkened ELSE darkened + 1) ELSE 0
    /\ UNCHANGED cmds

\* Task t, between two calls, goes on to the call c.
Proceed(t, c) ==
    /\ Call(t, c)
    /\ UNCHANGED <<led, lit, at, cmds, darkened>>

(* heartbeat_task.                                                         *)

Heartbeat(place) == at["heartbeat"] = place /\ call["heartbeat"] = "none"

HeartbeatTop == Heartbeat("top") /\ Proceed("heartbeat", IF led THEN "hold" ELSE "on")

\* Mutation of Held: an LED that should be on is taken to be on.
HeldAsIs ==
    /\ call["heartbeat"] = "hold" /\ radio = "heartbeat"
    /\ radio' = "none"
    /\ call' = [call EXCEPT !["heartbeat"] = "none"]
    /\ at' = [at EXCEPT !["heartbeat"] = "rest"]
    /\ UNCHANGED <<led, lit, cmds, darkened>>

Held == call["heartbeat"] = "hold" /\ Answer("heartbeat", "rest", led)

\* Mutation of Lit: the guard of the mutex is never dropped.
LitKeepsRadio ==
    /\ call["heartbeat"] = "on" /\ radio = "heartbeat"
    /\ radio' = "guard"
    /\ lit' = TRUE
    /\ call' = [call EXCEPT !["heartbeat"] = "none"]
    /\ at' = [at EXCEPT !["heartbeat"] = "lit"]
    /\ UNCHANGED <<led, cmds, darkened>>

Lit == call["heartbeat"] = "on" /\ Answer("heartbeat", "lit", led)

\* After 80 ms led is read again.
HeartbeatOff ==
    /\ Heartbeat("lit")
    /\ IF led THEN at' = [at EXCEPT !["heartbeat"] = "rest"] /\ UNCHANGED <<radio, call>>
       ELSE Call("heartbeat", "off") /\ UNCHANGED at
    /\ UNCHANGED <<led, lit, cmds, darkened>>

\* Mutation of Off: the loop goes back to the 80 ms.
OffAgain == call["heartbeat"] = "off" /\ Answer("heartbeat", "lit", led)

Off == call["heartbeat"] = "off" /\ Answer("heartbeat", "rest", led)

\* The sleep of 200 or 920 ms ends.
HeartbeatWakes ==
    /\ Heartbeat("rest")
    /\ at' = [at EXCEPT !["heartbeat"] = "top"]
    /\ UNCHANGED <<led, lit, radio, call, cmds, darkened>>

(* board_task.                                                             *)

Board(place) == at["board"] = place /\ call["board"] = "none"

\* The next command: the LED's start with a call, the others with a pulse.
BoardReceive ==
    /\ Board("receive") /\ cmds # <<>>
    /\ cmds' = Tail(cmds)
    /\ IF Head(cmds) = "Pin"
       THEN at' = [at EXCEPT !["board"] = "pulse"] /\ UNCHANGED <<radio, call>>
       ELSE Call("board", Head(cmds)) /\ UNCHANGED at
    /\ UNCHANGED <<led, lit, darkened>>

\* The LED is set first, the shared state after it.
LedOn  == call["board"] = "LedOn"  /\ Answer("board", "receive", TRUE)
LedOff == call["board"] = "LedOff" /\ Answer("board", "receive", FALSE)

\* Mutation of PulseDone: blink_onboard blinks whether or not the LED is held on.
PulseDoneBlinks == Board("pulse") /\ Proceed("board", "blink_on")

\* blink_onboard: nothing while the LED is held on.
PulseDone ==
    /\ Board("pulse")
    /\ IF led THEN at' = [at EXCEPT !["board"] = "receive"] /\ UNCHANGED <<radio, call>>
       ELSE Call("board", "blink_on") /\ UNCHANGED at
    /\ UNCHANGED <<led, lit, cmds, darkened>>

BlinkOn  == call["board"] = "blink_on" /\ Answer("board", "blink", led)
BlinkEnd == Board("blink") /\ Proceed("board", "blink_off")
BlinkOff == call["board"] = "blink_off" /\ Answer("board", "receive", led)

-----------------------------------------------------------------------------
\* A handler's send, while the channel has room.
Send(c) ==
    /\ Len(cmds) < ChannelCap
    /\ cmds' = Append(cmds, c)
    /\ UNCHANGED <<led, lit, radio, call, at, darkened>>

LedInit ==
    /\ led = FALSE /\ lit = FALSE
    /\ radio = "none" /\ call = [t \in Tasks |-> "none"]
    /\ at = [heartbeat |-> "top", board |-> "receive"]
    /\ cmds = <<>>
    /\ darkened = 0

HeartbeatStep ==
    \/ Lock("heartbeat")
    \/ HeartbeatTop \/ Held \/ Lit \/ HeartbeatOff \/ Off \/ HeartbeatWakes

BoardStep ==
    \/ Lock("board")
    \/ BoardReceive \/ LedOn \/ LedOff \/ PulseDone \/ BlinkOn \/ BlinkEnd \/ BlinkOff

LedNext == HeartbeatStep \/ BoardStep \/ \E c \in LedCommands : Send(c)

LedSpec == LedInit /\ [][LedNext]_ledvars

(* Both tasks are polled, timers fire and the chip answers.  A task that   *)
(* waits for the mutex is woken at each release but may find it taken      *)
(* again: the other one always lets go of it to sleep or to receive, and   *)
(* gets no turn in between for ever.                                       *)
LedFairness ==
    /\ WF_ledvars(HeartbeatStep) /\ WF_ledvars(BoardStep)
    /\ \A t \in Tasks : SF_ledvars(Lock(t))

-----------------------------------------------------------------------------
(* Properties.                                                             *)

LedTypeOK ==
    /\ led \in BOOLEAN /\ lit \in BOOLEAN
    /\ radio \in Tasks \cup {"none"}
    /\ call \in [Tasks -> HeartbeatCalls \cup BoardCalls \cup {"none"}]
    /\ call["heartbeat"] \in HeartbeatCalls \cup {"none"}
    /\ call["board"] \in BoardCalls \cup {"none"}
    /\ at \in [Tasks -> {"top", "lit", "rest", "receive", "pulse", "blink"}]
    /\ at["heartbeat"] \in {"top", "lit", "rest"}
    /\ at["board"] \in {"receive", "pulse", "blink"}
    /\ cmds \in Seq(LedCommands)
    /\ darkened \in Nat
    /\ radio # "none" => call[radio] # "none"

\* heartbeat_task may still turn the LED off after /led/on, having decided so
\* before, but it does so once: the LED the UI turned on does not blink.
DarkAtMostOnce == led => darkened <= 1

\* "Solid if the UI turned it on": an LED that stays on in the state is lit for good.
LedSettles == <>[]led => <>[]lit

\* "otherwise a 1 Hz heartbeat": it goes on and off for ever, blinks of
\* board_task and its waits for the radio notwithstanding.
HeartbeatBeats == <>[]~led => []<>lit /\ []<>~lit
=============================================================================
