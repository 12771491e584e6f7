# ScoreboardCtrl in TLA+

ScoreboardCtrl is the firmware of a Raspberry Pi Pico W that drives an SK2229R
sports scoreboard. Phones join the Pico's Wi-Fi and use a web page; the Pico
presses the scoreboard's buttons through GPIO pins and learns the displayed time
from a UART. This directory models that firmware, model-checks the models with
TLC and proves the properties that matter most with TLAPS.

Paths such as `main.rs:802` below are relative to `src/src/`.

## 1. The system

The firmware is one Embassy executor: cooperative tasks on one core, which can be
interleaved only at an `await`. Nobody holds a lock across an await of its own,
except for the radio. So the unit of interleaving, and of modelling, is *what a
task does between two awaits*.

| component | state | operations | talks to |
|---|---|---|---|
| scoreboard state (`ScoreboardState`, `decode.rs`) | time, inferred run flag, scores, LED, age of the time, wish of the last start/stop, last announcement | `set_clock`, `refresh_running`, `publish`, `start_stop_pulse_for` | every task, under a mutex |
| board task (`board_task`) | its await, four pending trains | 13 commands, a train step per turn, pulses of 50 ms | channel of 8 commands; pins |
| UART reader (`read_serial`) | DMA buffer, packet buffer | resynchronise, parse, `set_clock` | scoreboard state |
| heartbeat and LED (`heartbeat_task`, `blink_onboard`) | the LED on the radio chip | refresh, blink or hold the LED | scoreboard state, radio |
| command routes (`build_app`) | – | send a command (waits while the channel is full) | channel |
| event streams (`EventsService`, `StatusEvents`) | up to 4 receivers of a `Watch`, two timers each | first snapshot, snapshot on change, keepalive, refresh at the 2 s mark | scoreboard state, TCP |
| DHCP server (`dhcp_task`, `slot_for_mac`) | 8 leases and a sequence number | assign, offer, ack, nak | phones over UDP |
| update (`ota.rs`, `main`) | `OTA_BUSY`, `OTA_RESET`, DFU partition, boot magic | upload by sector, mark updated, mark booted, soft reset | bootloader, watchdog |
| bootloader (`bootloader/src/main.rs`) | boot state in flash | swap, revert, jump | both partitions |
| web task pool (`web_task`) | 12 workers, `HTTP_LIVE` | accept, serve, time out | all routes, channel |
| captive portal (`MarkUi`, `AppleProbe`) | `SERVED_UI`, `LAST_UI_MS` | page served, probe answered | phones over HTTP |
| DNS and mDNS (`dns_task`, `mdns_task`) | a receive buffer each | parse the first question, reply | phones over UDP |
| phone page (`index.html`) | painted score, taps in flight, `EventSource`, polling fallback | tap, POST, snapshot, poll | routes and streams |
| simulate build, logging, bench tool, scripts | see section 7 | | |

What makes it hard:

* **The run state is inferred.** Start/stop is a toggle, and the Pico never sees
  whether the clock runs: it calls the clock running if its time changed less than
  2 s ago. Frames arrive up to half a second late. A pulse is sent on that belief,
  corrected by a *wish* that times out. Every start/stop decision races the UART.
* **Trains.** A set-timer becomes up to 158 pulses over seconds, during which other
  commands, further set-timers and the scoreboard's own buttons interfere.
* **Lost wake-ups.** Streams are signalled through one bit per receiver, while each
  is busy writing; a quiet UART wakes nobody when the clock stops.
* **No checksum.** Frames are cut out of a byte stream at a byte that data may contain too.
* **One radio, one channel.** Two tasks wait for the radio's mutex to blink the LED, and every
  web worker may wait for the channel that one of them empties.
* **An optimistic page.** It paints a tap before the Pico has it, and POSTs, polls and events
  overtake one another.
* **Power.** An update may lose power at any sector, and may install an image that hangs.

What makes each component correct: announcements always match the state; scores on
the board equal those on the phone; a request never inverts a clock that is already
as wanted; a train ends, on target; no stream misses a change or holds its slot for
ever; no address is used twice; a whole image always boots and a proven one is
always left; the UART reader finds the frames again; the LED ends as asked; a worker
always comes free; a reply answers its own question; a page ends with the Pico's score.

## 2. Modules

| module | models | source |
|---|---|---|
| `Scoreboard` | the shared state, as operators on a record; no variables | `main.rs:96-281`, `decode.rs` |
| `BoardControl` | commands, `board_task`, frames, time, and the SK2229R | `main.rs:469-566, 753-1185` |
| `UartFraming` | `read_serial` by the byte, on a line that fails | `main.rs:1100-1185`, `decode.rs` |
| `EventStream` | the streams and the `Watch`, around the same state | `main.rs:647-751` |
| `SnapshotFeed` | what the streams promise, abstractly | implemented by `EventStream` |
| `OnboardLed` | the two tasks that drive the LED, around the radio's mutex | `main.rs:759-1090` |
| `WebServer` | the worker pool; extends `OnboardLed`, whose `board_task` empties the channel | `main.rs:90-100, 469-750, 1253-1296` |
| `NameService` | names, questions and replies of DNS and mDNS, as operators | `net_proto.rs:151-331` |
| `CaptiveWindow` | the portal's window, from the page served to the probe | `main.rs:108-110, 345-370` |
| `CaptivePortal` | the buffers of `dns_task` and `mdns_task`; extends `NameService` and `CaptiveWindow` | `net_services.rs:103-276` |
| `PhonePage` | the score on a phone, its stream and its polls | `index.html:310-640` |
| `DhcpPool` | leases, messages, phones | `net_proto.rs:3-149`, `net_services.rs:27-101` |
| `UpdateTrial` | what an update promises, abstractly | implemented by `Ota` |
| `Ota` | upload, reset, bootloader, trial boot | `ota.rs`, `main.rs:1464-1487`, `bootloader/src/main.rs` |
| `MC…` | instances for TLC | |
| `…_proofs` | theorems about the module (`WebServer_proofs` holds those of `OnboardLed` too, `NetServices_proofs` those of `DhcpPool`, `CaptivePortal` and the two modules below it) | |

`BoardControl` and `EventStream` compose with `Scoreboard` by extending it; they
share no other state, since a stream reaches the board task only through the
scoreboard state. Each is the other's environment: `Refresh` in `BoardControl`
stands for a stream, `Frame`, `Refresh` and `SetLed` in `EventStream` for the tasks
that publish.

**Scoreboard.** An `Instant` is kept as an age that `Elapse` advances and that
saturates at `StoppedAfter`, because the code compares it with nothing else.
`running` and `pending_running` are `"run"`, `"stop"` and (for `None`) `"none"`.
`AfterRequest` and `PulseNeeded` are the two results of `start_stop_pulse_for`.

**BoardControl.** `pc` says at which await `board_task` is. An action for a
command runs from `receive` to the next await, so it contains the decision *and*
the pin going high; `…PulseEnd` runs from the pulse's timer to the next await. The
set-timer has one await inside (the freeze), which is why its snapshot may be
taken in `SetTimer` or in `FreezePulseEnd`. Waiting for the radio (LED commands,
`blink_onboard`) is a pure delay. The SK2229R is external and modelled loosely: a
start may begin anywhere within a second, a reset may or may not stop the clock,
a pulse may go unnoticed (`MayMiss`), frames skip short-lived times, and its own
buttons (`Buttons`) may be pressed at any time. `asked`, `drifted`, `onTrack` and
`steady` are history variables; no action depends on them.

**EventStream.** `where` is the await of each stream task; the `Watch<()>` is the
set of receivers with an unread signal. `StopDue` is the third arm of the select,
with its refresh, its `try_changed` and its conditional snapshot. Writes take any
time; they fail only for a phone that is gone.

**UartFraming.** A step is a byte. What the code sees of it is its value; the byte of the
model also knows which byte of which frame it was and whether bytes before it were lost, so that
a property can say what the reader ought to have made of it. A byte may be lost, changed, or
taken along by a failed `rx.read`, which empties both buffers.

**OnboardLed, WebServer.** `gpio_set` is three steps (call, lock, answer), because what a task
decided may be out of date when it gets the radio. A worker is held by what its phone asked for; a
post in `cmd.send` leaves only when `board_task` has received. A step of a web task is a send
or leaves the tasks of `OnboardLed` alone: `WebSpec => LedSpec` is proved.

**CaptiveWindow, NameService, CaptivePortal.** Serving the page and answering the probe are
each one step, as neither awaits in between. A packet is a sequence of cells: a byte of a name, or a
field the code handles as one. The loops of `skip_name` and `qname_matches` are turns (`NextLabel`,
`Hop`) that `Iterate` repeats, a recursive function and no RECURSIVE operator, so that they can be
proved about. `mdns_task` reads each packet over the last one in one buffer; the
packet's length decides what counts. The reference (`Asks`) is the encoding of RFC 1035: where the
labels of a question lie (`Place`) and what lies behind them.

**PhonePage.** A step is a JavaScript callback. The Pico is a channel, a score and a time
that changes; `unseen` is what `SnapshotFeed` promises. Every request has its own connection, so
nothing keeps POSTs, polls and events in order. A connection can fail before or after its
request has reached the Pico.

**DhcpPool.** Every message with a type takes or refreshes a lease, whatever is
answered, as in the code. The network is a set: messages overtake each other, are
lost, and may be handled twice. `since` is the history that says who was served after whom,
`handled` counts the messages of one boot, past the point where `lease_seq` wraps.

**Ota.** A partition is a function from sectors to the image they came from, so a
torn image is one whose sectors differ. Swap and revert of embassy-boot are
external; a power cycle may fall between any two steps. Images may be good, hang
before they start their watchdog (the bootloader has stopped its own), stall in an await, or block
the executor during start-up. `ImplementsTrial` maps this to `UpdateTrial`, which knows no sectors:
the image it keeps is the one last confirmed; the candidate (`Candidate`) is what the boot state
calls for, in `dfu` before the swap is complete and in `active` after it; it is on trial (`OnTrial`)
from the end of the swap until `mark_booted` or the next reset's revert is complete; and nothing runs
(`Running`) while the bootloader is at work.

## 3. Runs

Passing runs and what they show:

| run | instance | properties |
|---|---|---|
| `MCControl` | starts, all score commands and the LED; 4 units per second, frames up to 2 late, a scoreboard button, missed pulses, a score left on the board at boot | `AnnouncedIsVisible`, `CountingIsReported`, `PulseNeverInverts`, `ScoreTrainsIdle`, `ScoresMirror` |
| `MCTimer` | set-timer (out of range, so clamped), stop, start-stop, reset and aux, reboots at any point, fairness | `TypeOK`, `TrainAddsUp`, `ChannelDrains`, `TrainFinishes`, `FreezeIsReported` |
| `MCStreams` | 2 phones, 1 slot, fairness | `NoLostWakeup`, `FlipIsDue`, `SlotsAreFreed`, `ImplementsFeed`, `EventsSettle` |
| `MCUart` | packets of 4 bytes, DMA reads of 3, 2 faults, fairness | `InStep`, `AtMostOneWrongTime`, `TimeGetsThrough` |
| `MCWeb` | 3 phones, 2 workers, 1 stream, a channel of 1, fairness | `DarkAtMostOnce`, `LedSettles`, `HeartbeatBeats`, `ChannelMoves`, `WorkersComeFree` |
| `MCPortal` | 16 packets, a clock that wraps after 6 ticks, a window of 2 | `WindowIsExact`, `MdnsAnswersOurs`, `DnsHijacks` |
| `MCPage` | 1 POST and 2 polls at once, another phone, 2 failed connections, fairness | `NeverUnwatched`, `PageCatchesUp` |
| `MCDhcp` | 3 phones, 2 slots, duplicates, a restart, a number that wraps after 4 messages | `OneLeasePerPhone`, `AddressesDiffer`, `EvictsLeastRecent` |
| `MCOta` | 5 images, 2 sectors, 2 uploads, 3 power cycles | `RunsWholeImage`, `KeepsConfirmed`, `UploadsEnd`, `FrozenTrialReverts`, `ResetReverts`, `ImplementsTrial` |

Runs that show where the documentation promises more than the code does:

| run | property | what happens |
|---|---|---|
| `MCStop` | `PulseNeverInverts` | The last second of a clock ends while `/stop` is being pulsed. Its wish expires 2 s after the request, the UART confirms 2 s after that last frame; a second `/stop` in between pulses the toggle and restarts the clock. README.md:70 says it does not pulse again. |
| `MCSnapshot` | `SnapshotIsFresh` | A set-timer during a train computes its deltas from a time the board has left, so the last pulse is counted twice. README.md:195 speaks of frozen UART time, and the comment at `main.rs:1053` avoids the same thing in the re-stop. |
| `MCOtaStall` | `StalledTrialReverts` | A trial image that hangs in an await before `mark_booted` is kept alive by `watchdog_task` and stays. README.md:168 promises that the watchdog rolls it back. |

**Bounds.** A time unit is 250 ms in `MCControl` and `MCStop` (a second is 4 units,
`StoppedAfter` is 8, a frame is at most 2 late), 500 ms in `MCSnapshot` (2, 4, 1), 1 s in
`MCTimer` (1, 2, 0), and coarse in the streams
(`StoppedAfter` 2, keepalive 3, idle 4: what counts is that they keep the order
2 s < 10 s < 30 s). `SecondTicks + MaxLag + 1 < StoppedAfter` in the run that checks
`CountingIsReported` and `PulseNeverInverts`, as 1 s, a lag below 0.5 s and a pulse of 50 ms
together are below 2 s in the code. The
display goes to 1:01 or 2:01 with periods as
small, which has a minute borrow, 0:00 and both directions of a train. A channel
of 1 is full as easily as one of 8. `WireCap` is the number of times
that can be in flight within `MaxLag`. The LED and the web pool are full with two workers and
one stream as with twelve and four; a third phone has to be turned away.
The packets of `MCUart` are longer than a DMA read, so that one is cut by the other at every
place; its bytes are two that are in range for minute and second, one that is not, and the start.
Its frames carry the start as a data byte as well; two faults put the reader out of step twice.
`MCPage` has one POST at a time (two make the liveness check too large), but the other phone's
commands land between it and its answer, and two polls are enough for a chain that outlives a
stop. One phone more, or a second slot, takes the streams' liveness beyond a few minutes; their
safety is proved for any number. In DHCP, two slots for three phones reach the
eviction that eight reach with nine; `ServedCap` bounds the messages served in one boot, beyond
the wrap of `lease_seq` at `SeqMod`, and `NetCap` those under way. The names of `MCPortal` have one
label and two, its packets include names cut short, names that
point elsewhere and records behind the question. Two sectors are the least that can tear.
`MaxPowerCycles` bounds the power cycles; three allow one in the upload, one in the swap and one in the revert.
`CHECK_DEADLOCK FALSE` is set for `MCOta` and `MCOtaStall` only: a stalled image with no
power cycle left really stops.

**Fairness.** `BoardStep` is weakly fair because Embassy polls every woken task and
timers fire; `Refresh` because `heartbeat_task` loops each second; `ReadFrame` and
`Notice` because the scoreboard repeats its frames and samples its buttons; `Tick`
because time passes. Streams are weakly fair for the same reason, and
`WriteFails` is strongly fair: a write to a phone that is gone succeeds while the
socket buffer has room, but not for ever (`write: 5 s`, and a 60 s socket timeout). In
`EventStream` nothing is assumed of the heartbeat, which the radio can hold up, since
`write_events` says it does not rely on it. In `Ota` the processor and each upload are weakly
fair: reads end by data, end of file or their 30 s timeout. Power cycles are never
assumed. `TrainFinishes` is conditional on the phones being quiet, because commands
take precedence over trains in the code. The radio's `Lock` is strongly fair: a task that waits
is woken at each release and may find the mutex taken again, but the other task sleeps or
receives between its calls. Unblocking *some* post is weakly fair, which one is left open. Of
phones, nothing is assumed. In `UartFraming` the scoreboard keeps sending; in `PhonePage`
a connection that does not fail makes progress (`Write` and `Status` each, so that events
arrive), and `Apply` rests on `ChannelDrains`.

Every property of a passing run has a mutant: an operator next to the definition
it changes (comment "Mutation of …"), a plausible bug that the run detects.

## 4. What is proved

For every value of the constants that satisfies the assumptions
(`…Assumption` in each module), which only give the constants their types, say that the factory
image works, that a frame begins with a start and that no phone has the all-zero hardware address.
Two theorems have a hypothesis of their own, named below: `FramesInTime` and `StartsOnly`. Each
holds in the instance that checks the same property.

* `TypeCorrect`, `ScoreTrainsStayIdle`: `TypeOK` with `PinAgrees`, and `ScoreTrainsIdle`.
  `TypeOK` alone is not inductive. The deltas stay within the display only if a train
  pulse steps a delta towards 0, so `PinAgrees` says that the pin that is high is one
  the deltas call for; and a `Train` step may pick a score pin unless the score trains
  are idle. Together the three are inductive (`TypeStep`).
* `Announced`: `AnnouncedIsVisible`, relative to the types; each operator of
  `Scoreboard` either publishes or leaves the visible fields alone (`Scoreboard_proofs`).
* `TrainCountsItsPulses`: `TrainAddsUp`. The invariant counts a pulse as soon as
  the scoreboard notices it (`StepsOwed`), which is what makes it inductive between
  `Notice` and the end of the pulse.
* `ScoresAgree`: `ScoresMirror` says nothing while a pin is high. Its strengthening
  `MirrorInv` says the board is one step behind on the pin that is high and not
  noticed yet.
* `CountingIsSeen`: `CountingIsReported`, if a second and the lag of a frame together are less
  than `StoppedAfter` (`FramesInTime`; 1 s and less than 0.5 s against 2 s). `CountInv` follows the
  frames in flight: the newest shows what the scoreboard shows (`InSync`), neighbours sent during
  undisturbed counting are a second apart and differ (`Spaced`), so reading the oldest restarts the
  age of the clock (`HeadSpaced`), and with none in flight the age is at most the time since the
  last second (`AllRead`). No refresh in between finds the age at the limit.
* `StartsNeverInvert`: `PulseNeverInverts` where nothing stops the clock but 0:00
  (`StartsOnly`: starts, scores, LED and aux from the phones; by hand no start, reset or button that
  turns the seconds back; no reboot; a scoreboard that is stopped at first, and not at 0:00; and the
  pulse over within the margin too). With stops it is false, as `MCStop` shows, so the hypothesis
  cannot be dropped. The argument is that a repeated `/start` always finds
  either the wish or the run flag: `Awaited` says that beside a clock that counts the wish or the
  flag outlives the next frame, or a frame already in flight renews the flag (`Until`); `OnlyRun`
  that a wish for a start is never taken back while the time stands still; `Pulsing` that a pulse
  starts beside a stopped clock only; and `ZeroSeen` that the end of the game, 0:00, which is
  followed by no further frame, is read before a start is believed unnecessary or needed.
* `StreamTypes`, `NoWakeupIsLost`, `FlipIsOnTime`: the inductive `Inv` of
  `EventStream_proofs` adds that nothing visible is unannounced, and that stop timers
  never outlast the clock: a frame that makes the clock younger changes the announcement
  and therefore signals the stream.
* `StreamsFollowFeed`: every step of the streams is a step of `SnapshotFeed` or a stutter under the
  mapping of `ImplementsFeed` (`Feed!SafeSpec`); the fairness of the feed is left to TLC. A step that
  publishes is a `Change`, one that begins a write a `Take` of what its own refresh has just announced,
  and the end of a write a `Show` or, if it fails, a `Leave`; connecting, keepalives, timers and a
  flip without a change stutter.
* `OtaTypes`, `OnlyWholeImagesRun`, `ConfirmedImageStays`: neither `RunsWholeImage` nor
  `KeepsConfirmed` is inductive. `OneUpload` adds that at most one upload is under way, that
  the sectors it has written are its own, and that it has written only while the boot
  state was `"boot"`; `BootState` says which partition holds the confirmed image in each
  phase of a swap; `BootStage` which phases the processor can be in. The proof rests on
  embassy-boot refusing `write_firmware` in an unconfirmed or updated image (the guard
  `magic = "boot"`), which the code relies on and does not test itself.
* `UpdatesAreTrials`: every step of `Ota` is a step of `UpdateTrial` or a stutter under the mapping of
  `ImplementsTrial` (`Trial!SafeSpec`); that the device always starts something again is left to TLC.
  An upload that is marked updated is a `Stage`; the bootloader ends in a `Start`, a `Try` or a
  `GiveUp`; the `mark_booted` of a trial is a `Confirm`, and every reset a `Reset`; sectors that are written,
  swapped or reverted stutter (`QuietStep`, `BootloaderTries`). It rests on the invariant of the two
  theorems before: without `BootState` a half-swapped partition could be taken for a candidate.
* `NoSecondLease`: `OneLeasePerPhone`, from the types of the pool. The phone's own lease is
  found where it is held, so it is renewed in place, and otherwise nobody's slot is its own.
* `NoSharedAddress`: `AddressesDiffer` is not inductive, since an acknowledgement may be late. The
  invariant says that of a phone that was not evicted in this boot, the address in use
  (`BoundHeld`) and every acknowledgement under way (`GrantsHeld`) name the slot it holds now. Of
  offers and requests nothing need be known: a request is granted only the slot the pool finds.
* `EvictsOldest`: `EvictsLeastRecent`, which says of every step that a lease is taken only from a
  full pool, and of the steps before `lease_seq` wraps that the phone served longest ago loses it.
  `Ordered` ties the numbers of the leases to the history `since`, until the wrap. That the scan of
  the pool finds anything at all is a lemma about the smallest of a set of numbers, from the
  well-foundedness of `<`.
* `FramingTypes`, `ReaderResynchronises`, `OneWrongTimeAtMost`: neither `InStep` nor
  `AtMostOneWrongTime` is inductive. `Phase` says where a reader can stand since it was last
  disturbed: in step (`Synced`), filling up a packet that began at a wrong byte (`Garbled`, at
  most `PACKET_LEN - 1` bytes, and no wrong time so far), or skipping to the next start
  (`Skipping`, at most as many again); hence `Settle`. `Chained` says that the bytes in the DMA
  buffer and on the wire follow each other as sent unless marked `torn`.
* `WebTypes`, `WebImplementsLed`, `WebDarkensOnce`: the web server implements `LedSpec`, so what
  is proved of the LED (`LedDarkensOnce`) holds beside it. `DarkAtMostOnce` needs that no blink of
  `board_task` is under way while the state's `led` is set (`NoBlink`), and that an "off" that
  `heartbeat_task` still owes counts already (`Darkening`).
* `AnswersOurs`, `Hijacks`: `MdnsAnswersOurs` and `DnsHijacks`, for packets, names and buffers of any
  length. The loops are reasoned about by induction for a set of numbers (`Induction`, from the
  smallest number outside it), which needs no operator as a parameter; `IterateDef` derives from it
  that the recursive function of `Iterate` exists and satisfies its equation. `skip_name` has come to
  rest after as many turns as the packet has cells (`NameEndDef`), and at the same cell whether a
  longer packet lies behind or not (`BufferSkipped`). `qname_matches` stays on the way of the
  reference (`OnTheWay`) or is lost for good, and cannot leave it by a pointer if the name ends
  without one (`MatchedName`); conversely it gets through an encoded name within its eight hops
  (`EncodedName`). The invariant (`PortalInv`) says that the buffer begins with the last packet.
* `WindowMeasures`, `PortalMeasures`: `WindowIsExact`, alone and beside the names. While less than a
  period has gone by since the page was served, the time since is the difference of two readings,
  plus a period if the clock wrapped (`WindowInv`); `OnePeriod` says what `%` makes of it.
* `PageIsWatched`: `NeverUnwatched`, from `Watched`: `fallbackOn` implies that a chain polls, and
  events, which alone stop the fallback from outside, come from an open stream only.

Only model-checked: `PulseNeverInverts` for an instance outside `StartsOnly` that satisfies it;
`SlotsAreFreed`, `EventsSettle`, the fairness half of `ImplementsFeed` and of `ImplementsTrial`, and
all other liveness, which is beyond the prover (fairness, `ENABLED`).

## 5. Properties and hazards

`PROJECT.json` lists the hazards of this code at the line where they bite, with the
properties that would notice. Some need a remark, and some observations are not a property of any run.

* `Start` soon after a `Stop` is confirmed by a run flag the UART has not yet dropped;
  the wish is forgotten and the next request is compared with a stale flag. `MCTimer` reaches
  this by a stop and a toggle, and there the report comes right and trains still end; where the
  next request then takes the clock is nothing the passing runs speak of. With starts and stops
  together `PulseNeverInverts` does not hold, for the cause `MCStop` shows with stops alone.
* The re-stop inside a train pulses a toggle on the same lagging belief, and can start a stopped
  clock. `MCTimer` reaches that too, and `TrainFinishes` says that the train ends nevertheless.
* `mark_booted` may fail and is only logged. `KeepsConfirmed` and `ResetReverts` say that the
  confirmed image is safe and comes back; that a good image is given up unasked, none excludes.
* A lease is taken from a phone that still uses it when a ninth arrives; `AddressesDiffer`
  therefore speaks of the phones that were not evicted in this boot, and no property of the others.
* `pending_home_dec` and `pending_away_dec` are raised only where they are positive:
  the score trains are dead code, which `ScoreTrainsStayIdle` proves.
* A reboot beside a clock that counts and shows the period time reports it stopped until its
  next second, so a `/start` in that second stops it. `MCControl` therefore boots beside a
  stopped clock; `FreezeIsReported` and the types are checked with reboots beside any clock.
* A data byte 0x60 can keep the UART reader out of step for as long as that frame is sent
  (`TimeGetsThrough` is about frames without one).
* A phone that is refused a stream polls for ever: a 503 closes an `EventSource` for good, while
  `docs/architecture.html:122` says it reconnects by itself. `PageCatchesUp` covers such a page.
* Beside a stopped clock a page with an open stream is sent nothing more, so a score that a
  late answer painted stays until the next event; `PageCatchesUp` asks for a clock that changes
  or for polls.
* A stream whose own refresh publishes a change is signalled by itself and sends the same
  snapshot twice (README.md:184 says one event per visible change); `EventsSettle` says that it
  ends there.
* The Apple success page is served for 90 s after the page was, to every phone alike, and
  once more when the millisecond clock comes round after 49 days (README.md:201 and
  `docs/architecture.html:146` name no limit; the comment at `main.rs:113` does).
* `mdns_task` answers the first question of a packet only. Of a compressed name, whose pointer may
  lead anywhere in the buffer, `MdnsAnswersOurs` says nothing.
* Once `lease_seq` has wrapped, the phone that was served last looks the least recent and is the
  next to be evicted; it takes 2^32 messages in one boot.
* Hardware builds log one block of bytes every 2 s, not every byte (README.md:70).

## 6. Plan

Done: the modules of section 2 and the proofs of section 4. Next, in this order:

1. `PulseNeverInverts` for scoreboards without lag, where it should hold for starts and stops
   together.
2. `PhonePage` with two POSTs at once and both teams; the page's set-timer.
3. A second-by-second model of the simulate build beside the same routes, if that build
   becomes more than a development aid.

## 7. Not modelled

* The simulate build (a software clock for development; the hardware branches of the same
  functions are what is modelled), and the UART test example, a bench tool with its own `main`.
* The USB logger and its `ENTERBOOTLOADER` matcher, behind a feature flag: they change no state
  that another part reads. Build and flash scripts run at build time.
* The phone page beyond its score, stream and polls: time display, set-timer, LED, sounds, the
  upload dialogue. Its away score is handled as the home score is.
* The bootloader's hand-over of interrupts and its jump.
* Formats (JSON, SSE text, DHCP options, record bytes of DNS) and HTTP parsing.
* embassy, picoserve, embassy-boot, the radio and the browser are external: modelled by what the
  code relies on where that matters.
