----------------------------- MODULE EventStream -----------------------------
(***************************************************************************)
(* /api/events: at most MaxStreams phones hold a server-sent event stream. *)
(* A change of the visible scoreboard (ScoreboardState::publish) signals   *)
(* the receivers of the Watch EVENTS, and each stream task waits in a      *)
(* select for its signal, for the keepalive timer, or for the moment an    *)
(* unchanged clock has to be shown stopped.  A Watch of () keeps one bit   *)
(* per receiver, signalled: sending again before it is read adds nothing.  *)
(*                                                                         *)
(* A stream task is a place between two awaits:                            *)
(*    "none"       no stream: the phone is not connected                   *)
(*    "headers"    receiver taken, the response headers are being written  *)
(*    "writing"    a snapshot is being written                             *)
(*    "select"     waiting in select3                                      *)
(*    "keepalive"  a keepalive comment is being written                    *)
(*                                                                         *)
(* Ticks are those of Scoreboard; a stream whose select is ready runs      *)
(* before the next one, while a write may take any time.                   *)
(***************************************************************************)
EXTENDS Scoreboard, FiniteSets

CONSTANTS
    Phones,
    MaxStreams,     \* MAX_EVENT_STREAMS (4)
    KeepAlive,      \* 10 s, in time units
    IdleWait        \* 30 s, the stop timer of a clock that is not running

ASSUME StreamAssumption ==
    /\ MaxStreams \in Nat
    /\ KeepAlive \in Nat \ {0}
    /\ IdleWait \in Nat \ {0}

VARIABLES
    sb,         \* SharedScoreboard
    where,      \* where each stream task awaits
    signalled,  \* the receivers with an unread change
    body,       \* the snapshot a stream writes
    shown,      \* the last snapshot written whole: a set of at most one
    keep, stop, \* what is left of the two timers of the select
    alive       \* the phone still reads its connection

timers == <<keep, stop>>
vars == <<sb, where, signalled, body, shown, timers, alive>>

Places == {"none", "headers", "writing", "select", "keepalive"}

Open == {i \in Phones : where[i] # "none"}

\* Mutation of Signal: every publish signals, whether or not it is a change.
SignalAlways(s, unread) == Open

\* The unread signals after sb becomes s, of those that were unread before.
Signal(s, unread) == IF s.announced # sb.announced THEN Open ELSE unread

\* Mutation of StopWait: the keepalive alone paces a quiet stream.
StopWaitIdle(s) == IdleWait

\* stop_wait: 1 ms, less than a unit, once the time is overdue.
StopWait(s) == IF s.running = "run" THEN StoppedAfter - s.age ELSE IdleWait

\* The top of the loop: two new timers.
Wait(i, s) ==
    /\ where' = [where EXCEPT ![i] = "select"]
    /\ keep' = [keep EXCEPT ![i] = KeepAlive]
    /\ stop' = [stop EXCEPT ![i] = StopWait(s)]

\* The select is left: its timers are dropped.
Unwait(i) == keep' = [keep EXCEPT ![i] = 0] /\ stop' = [stop EXCEPT ![i] = 0]

\* Mutation of WriteSnapshot: the body is read before the run state is refreshed.
WriteStale(i, s) ==
    /\ sb' = s
    /\ body' = [body EXCEPT ![i] = Visible(sb)]
    /\ where' = [where EXCEPT ![i] = "writing"]
    /\ Unwait(i)
    /\ UNCHANGED <<shown, alive>>

\* write_snapshot up to its await: s is the refreshed state.
WriteSnapshot(i, s) ==
    /\ sb' = s
    /\ body' = [body EXCEPT ![i] = Visible(s)]
    /\ where' = [where EXCEPT ![i] = "writing"]
    /\ Unwait(i)
    /\ UNCHANGED <<shown, alive>>

-----------------------------------------------------------------------------
\* EVENTS.receiver(): None, and a 503, when MaxStreams are open.  A new
\* receiver may find a change it has not seen.
Connect(i) ==
    /\ where[i] = "none" /\ Cardinality(Open) < MaxStreams
    /\ where' = [where EXCEPT ![i] = "headers"]
    /\ \E old \in SUBSET {i} : signalled' = signalled \cup old
    /\ alive' = [alive EXCEPT ![i] = TRUE]
    /\ UNCHANGED <<sb, body, shown, timers>>

\* write_events drops the old signal and writes a first snapshot.
FirstSnapshot(i) ==
    /\ where[i] = "headers"
    /\ LET s == RefreshRunning(sb)
       IN  WriteSnapshot(i, s) /\ signalled' = Signal(s, signalled \ {i})

\* The arms of select3, in the order they are polled.
Changed(i) ==
    /\ where[i] = "select" /\ i \in signalled
    /\ LET s == RefreshRunning(sb)
       IN  WriteSnapshot(i, s) /\ signalled' = Signal(s, signalled \ {i})

KeepAliveDue(i) ==
    /\ where[i] = "select" /\ i \notin signalled /\ keep[i] = 0
    /\ where' = [where EXCEPT ![i] = "keepalive"]
    /\ Unwait(i)
    /\ UNCHANGED <<sb, signalled, body, shown, alive>>

\* Mutation of StopDue: the arm waits for somebody else to refresh.
StopDuePasses(i) ==
    /\ where[i] = "select" /\ i \notin signalled /\ keep[i] > 0 /\ stop[i] = 0
    /\ Wait(i, sb)
    /\ UNCHANGED <<sb, signalled, body, shown, alive>>

\* Refresh, and a snapshot if that was a change (its signal is read here).
StopDue(i) ==
    /\ where[i] = "select" /\ i \notin signalled /\ keep[i] > 0 /\ stop[i] = 0
    /\ LET s == RefreshRunning(sb)
       IN  /\ signalled' = Signal(s, signalled) \ {i}
           /\ IF i \in Signal(s, signalled)
              THEN WriteSnapshot(i, s)
              ELSE /\ Wait(i, s) /\ sb' = s
                   /\ UNCHANGED <<body, shown, alive>>

\* Mutation of WriteEnd: signals that came in during the write are dropped.
WriteEndDrops(i) ==
    /\ where[i] \in {"writing", "keepalive"}
    /\ shown' = IF where[i] = "writing" THEN [shown EXCEPT ![i] = {body[i]}] ELSE shown
    /\ Wait(i, sb)
    /\ signalled' = signalled \ {i}
    /\ UNCHANGED <<sb, body, alive>>

\* A write is done (a socket takes some bytes of a phone that is gone, too).
WriteEnd(i) ==
    /\ where[i] \in {"writing", "keepalive"}
    /\ shown' = IF where[i] = "writing" THEN [shown EXCEPT ![i] = {body[i]}] ELSE shown
    /\ Wait(i, sb)
    /\ UNCHANGED <<sb, signalled, body, alive>>

\* A write to a phone that is gone fails: the stream ends, its receiver is dropped.
WriteFails(i) ==
    /\ where[i] \in {"headers", "writing", "keepalive"} /\ ~alive[i]
    /\ where' = [where EXCEPT ![i] = "none"]
    /\ signalled' = signalled \ {i}
    /\ shown' = [shown EXCEPT ![i] = {}]
    /\ UNCHANGED <<sb, body, timers, alive>>

Stream(i) ==
    FirstSnapshot(i) \/ Changed(i) \/ KeepAliveDue(i) \/ StopDue(i) \/ WriteEnd(i)

-----------------------------------------------------------------------------
\* The phone closes the page or walks away.
Disconnect(i) ==
    /\ where[i] # "none" /\ alive[i]
    /\ alive' = [alive EXCEPT ![i] = FALSE]
    /\ UNCHANGED <<sb, where, signalled, body, shown, timers>>

\* Another task leaves the scoreboard in state s.
Commit(s) ==
    /\ sb' = s
    /\ signalled' = Signal(s, signalled)
    /\ UNCHANGED <<where, body, shown, timers, alive>>

\* read_serial, heartbeat_task or another request, and a command of board_task
\* that is published without a refresh.
Frame(min, sec) == Commit(SetClock(sb, min, sec))
Refresh         == Commit(RefreshRunning(sb))
SetLed(on)      == Commit(Publish([sb EXCEPT !.led = on]))

Ready(i) == where[i] = "select" /\ (i \in signalled \/ keep[i] = 0 \/ stop[i] = 0)

Down(x) == IF x > 0 THEN x - 1 ELSE 0

Tick ==
    /\ \A i \in Phones : ~Ready(i)
    /\ sb' = Elapse(sb)
    /\ keep' = [i \in Phones |-> Down(keep[i])]
    /\ stop' = [i \in Phones |-> Down(stop[i])]
    /\ UNCHANGED <<where, signalled, body, shown, alive>>

Init ==
    /\ sb = InitScoreboard
    /\ where = [i \in Phones |-> "none"]
    /\ signalled = {}
    /\ body = [i \in Phones |-> Visible(InitScoreboard)]
    /\ shown = [i \in Phones |-> {}]
    /\ keep = [i \in Phones |-> 0] /\ stop = [i \in Phones |-> 0]
    /\ alive = [i \in Phones |-> FALSE]

Next ==
    \/ \E i \in Phones : Connect(i) \/ Stream(i) \/ WriteFails(i) \/ Disconnect(i)
    \/ \E min \in Minutes, sec \in Seconds : Frame(min, sec)
    \/ Refresh
    \/ \E on \in BOOLEAN : SetLed(on)
    \/ Tick

Spec == Init /\ [][Next]_vars

(* The executor runs every stream that is ready and the timer queue runs.  *)
(* Writes to a phone that is gone do not succeed for ever: its socket      *)
(* buffer fills or the connection times out.  Nothing is assumed of the    *)
(* heartbeat, which the CYW43 may hold up, nor of the scoreboard.          *)
FairSpec ==
    /\ Spec /\ WF_vars(Tick)
    /\ \A i \in Phones : WF_vars(Stream(i)) /\ SF_vars(WriteFails(i))

-----------------------------------------------------------------------------
(* Properties.                                                             *)

TypeOK ==
    /\ sb \in ScoreboardState
    /\ where \in [Phones -> Places]
    /\ signalled \in SUBSET Phones
    /\ body \in [Phones -> View]
    /\ shown \in [Phones -> SUBSET View]
    /\ keep \in [Phones -> 0..KeepAlive]
    /\ stop \in [Phones -> Nat]
    /\ alive \in [Phones -> BOOLEAN]

\* A stream that waits, or will wait, with no unread signal has written or is
\* writing the current snapshot: no change is lost between a read of the
\* scoreboard and the next changed().
NoLostWakeup ==
    \A i \in Phones \ signalled :
        /\ where[i] \in {"select", "keepalive"} => shown[i] = {sb.announced}
        /\ where[i] = "writing" => body[i] = sb.announced

\* A stream that waits while the clock is shown running wakes no later than
\* the moment the clock counts as stopped, with no help from the heartbeat.
FlipIsDue ==
    \A i \in Phones :
        where[i] = "select" /\ sb.running = "run" =>
            i \in signalled \/ stop[i] <= StoppedAfter - sb.age

\* The third arm does not keep a stream from its keepalive: the receiver of a
\* phone that is gone is given back, so MaxStreams phones cannot lock out others.
SlotsAreFreed == \A i \in Phones : ~alive[i] ~> where[i] = "none"

\* The streams implement SnapshotFeed.
Feed == INSTANCE SnapshotFeed WITH
            Snapshots <- View,
            current <- sb.announced,
            sending <- [i \in Phones |-> IF where[i] = "writing" THEN {body[i]} ELSE {}],
            shown <- shown

ImplementsFeed == Feed!Spec

\* README: "One event per visible change."  A snapshot whose own refresh is a
\* change signals the stream that takes it (StopDue reads that signal away,
\* Changed does not) and is sent twice; but once nothing changes the streams
\* come to rest: no stream wakes itself for ever.
EventsSettle ==
    <>[][sb'.announced = sb.announced]_vars => <>[][\A i \in Phones : ~Changed(i)]_vars
=============================================================================
