----------------------------- MODULE WebServer -----------------------------
(***************************************************************************)
(* The pool of web tasks.  Each serves one connection at a time; a phone   *)
(* that connects while all of them are busy is turned away and tries again.*)
(* What a connection asks for decides how long it keeps its worker: a      *)
(* control post waits while the command channel is full, an event stream   *)
(* lasts as long as its phone, an upload as long as it takes, and the      *)
(* timeouts of picoserve and of the socket end the rest.                   *)
(*                                                                         *)
(* The module extends OnboardLed, whose board_task empties the channel: a  *)
(* worker in cmd.send waits for board_task, which may wait for the radio,  *)
(* which heartbeat_task may hold.  A phone has at most one connection:     *)
(*    "out"        none                                                    *)
(*    "open"       a worker has accepted it and reads its request          *)
(*    "blocked"    its post waits in cmd.send                              *)
(*    "stream"     it holds one of the EVENTS receivers                    *)
(*    "abandoned"  so it does, but the phone has walked away               *)
(*    "upload"     it sends an image                                       *)
(*    "replying"   its response is being written, and then it is closed    *)
(* A phone that walks away elsewhere is not told from a slow one.          *)
(***************************************************************************)
EXTENDS OnboardLed, FiniteSets

CONSTANTS
    Phones,
    Workers,        \* WEB_TASK_POOL_SIZE (12)
    MaxStreams      \* MAX_EVENT_STREAMS (4)

ASSUME WebAssumption == Workers \in Nat /\ MaxStreams \in Nat

VARIABLES
    conn,       \* the connection of each phone
    post        \* the command of a post that is blocked

webvars == <<conn, post>>
vars == <<ledvars, webvars>>

In(place) == {p \in Phones : conn[p] = place}

\* HTTP_LIVE, and the receivers that are taken.
Busy    == Phones \ In("out")
Streams == In("stream") \cup In("abandoned")

Move(p, from, to) ==
    /\ conn[p] = from /\ conn' = [conn EXCEPT ![p] = to]
    /\ UNCHANGED <<ledvars, post>>

-----------------------------------------------------------------------------
(* web_task: accept, and picoserve's serve.                                *)

Accept(p) == Cardinality(Busy) < Workers /\ Move(p, "out", "open")

\* The page, a captive probe, /api/status: answered without a wait.
Get(p) == Move(p, "open", "replying")

\* Mutation of Events: every phone that asks has a stream.
EventsAlways(p) == Move(p, "open", "stream")

\* /api/events: 503 when no receiver is left.
Events(p) == Move(p, "open", IF Cardinality(Streams) < MaxStreams THEN "stream" ELSE "replying")

\* /api/ota: refused while OTA_BUSY is set.
Upload(p) == Move(p, "open", IF In("upload") = {} THEN "upload" ELSE "replying")

\* A control post, which is blocked if the channel is full.
Post(p, c) ==
    /\ conn[p] = "open"
    /\ IF Len(cmds) < ChannelCap
       THEN Send(c) /\ conn' = [conn EXCEPT ![p] = "replying"] /\ UNCHANGED post
       ELSE /\ conn' = [conn EXCEPT ![p] = "blocked"] /\ post' = [post EXCEPT ![p] = c]
            /\ UNCHANGED ledvars

\* The channel has room for a blocked post.
Unblock(p) ==
    /\ conn[p] = "blocked"
    /\ Send(post[p])
    /\ conn' = [conn EXCEPT ![p] = "replying"]
    /\ post' = [post EXCEPT ![p] = "Pin"]

\* No request within 2 s, or none whole within 30 s.
Timeout(p) == Move(p, "open", "out")

\* The response is written, or its write fails or times out after 5 s.
Replied(p) == Move(p, "replying", "out")

Leave(p) == Move(p, "stream", "abandoned")

\* A keepalive to a phone that is gone fails, or its socket times out.
StreamEnds(p) == Move(p, "abandoned", "out")

\* The image is written, or the upload fails or stalls.
UploadEnds(p) == Move(p, "upload", "replying")

Worker(p) == Timeout(p) \/ Replied(p) \/ StreamEnds(p) \/ UploadEnds(p)

-----------------------------------------------------------------------------
WebInit ==
    /\ LedInit
    /\ conn = [p \in Phones |-> "out"]
    /\ post = [p \in Phones |-> "Pin"]

WebNext ==
    \/ \E p \in Phones :
         \/ Accept(p) \/ Get(p) \/ Events(p) \/ Upload(p) \/ Leave(p) \/ Worker(p)
         \/ \E c \in LedCommands : Post(p, c)
         \/ Unblock(p)
    \/ (HeartbeatStep \/ BoardStep) /\ UNCHANGED webvars

WebSpec == WebInit /\ [][WebNext]_vars

(* The tasks of OnboardLed run, a worker gets on with its connection, and  *)
(* when the channel has room some blocked post goes through: which one is  *)
(* the executor's choice.  Nothing is assumed of the phones.               *)
FairWebSpec ==
    /\ WebSpec
    /\ LedFairness
    /\ WF_vars(\E p \in Phones : Unblock(p))
    /\ \A p \in Phones : WF_vars(Worker(p))

-----------------------------------------------------------------------------
(* Properties.                                                             *)

\* The types of this module's own variables.
WebTypeOK ==
    /\ conn \in [Phones -> {"out", "open", "blocked", "stream", "abandoned", "upload", "replying"}]
    /\ post \in [Phones -> LedCommands]

\* The comment of MAX_EVENT_STREAMS: it "leaves workers for control posts,
\* captive probes, and OTA".  Whatever streams are held, uploads run and posts
\* wait for, a phone that tries again and again finds a free worker.
WorkersComeFree == []<>(Cardinality(Busy) < Workers)

\* A worker blocked in cmd.send is never part of a circle: board_task gets the
\* radio and comes back to the channel.
ChannelMoves == Len(cmds) = ChannelCap ~> Len(cmds) < ChannelCap
=============================================================================
