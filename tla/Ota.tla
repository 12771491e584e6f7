--------------------------------- MODULE Ota ---------------------------------
(***************************************************************************)
(* Over-the-air update: the /api/ota handler stages an image in the DFU    *)
(* partition and marks it, a soft reset hands over to the bootloader,      *)
(* which swaps DFU and ACTIVE, and the new image runs on trial until it    *)
(* calls mark_booted.  Power may fail between any two steps.               *)
(*                                                                         *)
(* embassy-boot is not in the repository.  It is modelled by what the code *)
(* and README rely on: a swap or a revert goes page by page and resumes    *)
(* after a reset, an unconfirmed trial is reverted by the next boot, and   *)
(* firmware is written only while the running image is confirmed.          *)
(*                                                                         *)
(* A partition is a function from sectors to the image they came from.     *)
(***************************************************************************)
EXTENDS Integers

CONSTANTS
    Images,         \* the images people upload
    Factory,        \* the image flashed by probe, known to work
    Dies,           \* images that hang before they have started their watchdog
    Stalls,         \* images in which start-up awaits something for ever
    Freezes,        \* images in which start-up blocks the executor
    Sectors,        \* length of an image, in ERASE_SIZE chunks
    Requests,       \* HTTP workers that may handle an upload
    MaxPowerCycles  \* bound of the model: power cycles in a behaviour

ASSUME OtaAssumption ==
    /\ Factory \in Images \ (Dies \cup Stalls \cup Freezes)
    /\ Dies \subseteq Images /\ Stalls \subseteq Images /\ Freezes \subseteq Images
    /\ Sectors \in Nat \ {0}
    /\ MaxPowerCycles \in Nat

Content == [1..Sectors -> Images]
Filled(image) == [s \in 1..Sectors |-> image]

VARIABLES
    active, dfu,        \* the two partitions
    magic, progress,    \* BOOTLOADER_STATE: "boot" or "swap", pages swapped and reverted
    stage,              \* what the processor runs
    OTA_BUSY, OTA_RESET,
    upload,             \* for each request, the image and the sectors written so far
    cycles,             \* power cycles so far
    confirmed           \* history: the image that last called mark_booted

flash == <<active, dfu, magic, progress>>
vars  == <<flash, stage, OTA_BUSY, OTA_RESET, upload, cycles, confirmed>>

Idle == [image |-> Factory, offset |-> -1]

Stages == {"reset", "swapping", "reverting",    \* the bootloader
           "starting",                          \* the application, ...
           "dead", "stalled", "frozen",         \* ... hung before the AP is up,
           "serving", "up", "closing"}          \* ... and with HTTP workers

Serves == stage \in {"serving", "up", "closing"}

\* RAM is gone.
ClearRam ==
    /\ stage' = "reset"
    /\ OTA_BUSY' = FALSE /\ OTA_RESET' = FALSE
    /\ upload' = [r \in Requests |-> Idle]

-----------------------------------------------------------------------------
(* The bootloader.                                                         *)

Prepare ==
    /\ stage = "reset"
    /\ stage' = IF magic = "boot" THEN "starting"
                ELSE IF progress < Sectors THEN "swapping" ELSE "reverting"
    /\ UNCHANGED <<flash, OTA_BUSY, OTA_RESET, upload, cycles, confirmed>>

Exchange == active' = dfu /\ dfu' = active

SwapPage ==
    /\ stage = "swapping"
    /\ progress' = progress + 1
    /\ IF progress + 1 = Sectors
       THEN Exchange /\ stage' = "starting"
       ELSE UNCHANGED <<active, dfu, stage>>
    /\ UNCHANGED <<magic, OTA_BUSY, OTA_RESET, upload, cycles, confirmed>>

\* Mutation of RevertPage: the flash does not feed the bootloader's watchdog, which
\* bites before the page is done.
RevertUnfed ==
    /\ stage = "reverting"
    /\ ClearRam
    /\ UNCHANGED <<flash, cycles, confirmed>>

RevertPage ==
    /\ stage = "reverting"
    /\ IF progress + 1 = 2 * Sectors
       THEN Exchange /\ stage' = "starting" /\ magic' = "boot" /\ progress' = 0
       ELSE progress' = progress + 1 /\ UNCHANGED <<active, dfu, magic, stage>>
    /\ UNCHANGED <<OTA_BUSY, OTA_RESET, upload, cycles, confirmed>>

-----------------------------------------------------------------------------
(* main: start-up, mark_booted, the poll for OTA_RESET, the watchdog.      *)

\* Mutation of StartUp: mark_booted comes before the AP and the workers are up.
StartUpMarked ==
    /\ stage = "starting"
    /\ stage' = IF active[1] \in Dies THEN "dead"
                ELSE IF active[1] \in Stalls THEN "stalled"
                ELSE IF active[1] \in Freezes THEN "frozen" ELSE "serving"
    /\ magic' = "boot" /\ progress' = 0 /\ confirmed' = active[1]
    /\ UNCHANGED <<active, dfu, OTA_BUSY, OTA_RESET, upload, cycles>>

\* AP and workers come up, unless this image never gets there.  The bootloader
\* has stopped its own watchdog.
StartUp ==
    /\ stage = "starting"
    /\ stage' = IF active[1] \in Dies THEN "dead"
                ELSE IF active[1] \in Stalls THEN "stalled"
                ELSE IF active[1] \in Freezes THEN "frozen" ELSE "serving"
    /\ UNCHANGED <<flash, OTA_BUSY, OTA_RESET, upload, cycles, confirmed>>

\* mark_booted, 10 ms after the workers are spawned; an error is only logged.
MarkBooted ==
    /\ stage = "serving"
    /\ stage' = "up"
    /\ \/ magic' = "boot" /\ progress' = 0 /\ confirmed' = active[1]
       \/ UNCHANGED <<magic, progress, confirmed>>
    /\ UNCHANGED <<active, dfu, OTA_BUSY, OTA_RESET, upload, cycles>>

\* The poll every 200 ms sees reset_pending(), and 500 ms later resets.
SeeReset ==
    /\ stage = "up" /\ OTA_RESET
    /\ stage' = "closing"
    /\ UNCHANGED <<flash, OTA_BUSY, OTA_RESET, upload, cycles, confirmed>>

SoftReset ==
    /\ stage = "closing"
    /\ ClearRam
    /\ UNCHANGED <<flash, cycles, confirmed>>

\* watchdog_task is a task of its own: only a blocked executor stops it.
WatchdogFires ==
    /\ stage = "frozen"
    /\ ClearRam
    /\ UNCHANGED <<flash, cycles, confirmed>>

PowerCycle ==
    /\ cycles < MaxPowerCycles
    /\ ClearRam
    /\ cycles' = cycles + 1
    /\ UNCHANGED <<flash, confirmed>>

-----------------------------------------------------------------------------
(* The handler of /api/ota.  A request that finds OTA_BUSY set, an empty   *)
(* body or one above ACTIVE_CAPACITY is answered and changes nothing.      *)

\* Mutation of Begin: the flag is not tested.
BeginAnyway(r, image) ==
    /\ Serves /\ upload[r].offset < 0
    /\ OTA_BUSY' = TRUE
    /\ upload' = [upload EXCEPT ![r] = [image |-> image, offset |-> 0]]
    /\ UNCHANGED <<flash, stage, OTA_RESET, cycles, confirmed>>

Begin(r, image) ==
    /\ Serves /\ upload[r].offset < 0
    /\ ~OTA_BUSY /\ OTA_BUSY' = TRUE
    /\ upload' = [upload EXCEPT ![r] = [image |-> image, offset |-> 0]]
    /\ UNCHANGED <<flash, stage, OTA_RESET, cycles, confirmed>>

Working(r) == Serves /\ upload[r].offset >= 0
Ended(r)   == upload' = [upload EXCEPT ![r] = Idle] /\ OTA_BUSY' = FALSE

\* Mutation of WriteFirmware: the library does not look at the boot state.
WriteUnchecked(r) ==
    /\ Working(r) /\ upload[r].offset < Sectors
    /\ dfu' = [dfu EXCEPT ![upload[r].offset + 1] = upload[r].image]
    /\ upload' = [upload EXCEPT ![r].offset = @ + 1]
    /\ UNCHANGED <<active, magic, progress, stage, OTA_BUSY, OTA_RESET, cycles, confirmed>>

\* A chunk was read, and write_firmware takes it.
WriteFirmware(r) ==
    /\ Working(r) /\ upload[r].offset < Sectors
    /\ magic = "boot"
    /\ dfu' = [dfu EXCEPT ![upload[r].offset + 1] = upload[r].image]
    /\ upload' = [upload EXCEPT ![r].offset = @ + 1]
    /\ UNCHANGED <<active, magic, progress, stage, OTA_BUSY, OTA_RESET, cycles, confirmed>>

\* Mutation of Fail: an error return forgets the flag.
FailBusy(r) ==
    /\ Working(r)
    /\ upload' = [upload EXCEPT ![r] = Idle]
    /\ UNCHANGED <<flash, stage, OTA_BUSY, OTA_RESET, cycles, confirmed>>

\* Truncated body, read error or 30 s without a byte, failed or refused flash write.
Fail(r) ==
    /\ Working(r)
    /\ Ended(r)
    /\ UNCHANGED <<flash, stage, OTA_RESET, cycles, confirmed>>

\* Mutation of Finish: a body that ends early is taken for the whole image.
FinishShort(r) ==
    /\ Working(r) /\ magic = "boot" /\ stage # "serving"
    /\ magic' = "swap" /\ progress' = 0
    /\ Ended(r) /\ OTA_RESET' = TRUE
    /\ UNCHANGED <<active, dfu, stage, cycles, confirmed>>

\* mark_updated, and 200 OK.  The 10 ms of main are over long before a whole
\* image is written, so mark_booted has run.
Finish(r) ==
    /\ Working(r) /\ upload[r].offset = Sectors /\ stage # "serving"
    /\ magic' = "swap" /\ progress' = 0
    /\ Ended(r) /\ OTA_RESET' = TRUE
    /\ UNCHANGED <<active, dfu, stage, cycles, confirmed>>

-----------------------------------------------------------------------------
Init ==
    /\ active = Filled(Factory) /\ dfu \in {Filled(image) : image \in Images}
    /\ magic = "boot" /\ progress = 0
    /\ stage = "reset"
    /\ OTA_BUSY = FALSE /\ OTA_RESET = FALSE
    /\ upload = [r \in Requests |-> Idle]
    /\ cycles = 0
    /\ confirmed = Factory

Upload(r) == WriteFirmware(r) \/ Fail(r) \/ Finish(r)

Device ==
    \/ Prepare \/ SwapPage \/ RevertPage
    \/ StartUp \/ MarkBooted \/ SeeReset \/ SoftReset \/ WatchdogFires

Next ==
    \/ Device
    \/ \E r \in Requests : Upload(r) \/ \E image \in Images : Begin(r, image)
    \/ PowerCycle

Spec == Init /\ [][Next]_vars

(* The processor runs, the watchdog fires, and a read of the body ends: by *)
(* data, an end of file or its timeout.  Nobody has to pull the plug.      *)
FairSpec == Spec /\ WF_vars(Device) /\ \A r \in Requests : WF_vars(Upload(r))

-----------------------------------------------------------------------------
(* Properties.                                                             *)

TypeOK ==
    /\ active \in Content /\ dfu \in Content
    /\ magic \in {"boot", "swap"} /\ progress \in 0..(2 * Sectors - 1)
    /\ stage \in Stages
    /\ OTA_BUSY \in BOOLEAN /\ OTA_RESET \in BOOLEAN
    /\ upload \in [Requests -> [image : Images, offset : -1..Sectors]]
    /\ cycles \in 0..MaxPowerCycles
    /\ confirmed \in Images

\* What starts is a whole image, never one that a truncated, concurrent or
\* interrupted upload has left in part.
RunsWholeImage ==
    stage \notin {"reset", "swapping", "reverting"} => \E image \in Images : active = Filled(image)

\* The last image that is known to work stays in one of the partitions, through
\* uploads, trials and power failures: there is always something to go back to.
KeepsConfirmed == Filled(confirmed) \in {active, dfu}

\* The flag is released however an upload ends, and the next one is possible.
UploadsEnd == OTA_BUSY ~> ~OTA_BUSY

\* A trial that blocks the executor is reverted without help.
Reverted == stage \in {"serving", "up"} /\ active = Filled(confirmed)
FrozenTrialReverts == stage = "frozen" ~> Reverted

\* A trial that was not confirmed is reverted by whatever resets the device,
\* however it hung and wherever the revert itself loses power.
ResetReverts == stage = "reset" /\ magic = "swap" /\ progress >= Sectors ~> Reverted

\* The partitions and the boot state implement UpdateTrial: an image is tried only
\* after all of it was staged, once, and beside the confirmed one.
Candidate == IF magic = "boot" THEN {} ELSE IF progress < Sectors THEN {dfu} ELSE {active}
OnTrial   == magic = "swap" /\ progress >= Sectors
Running   == IF stage \in {"reset", "swapping", "reverting"} THEN {} ELSE {active}

Trial == INSTANCE UpdateTrial WITH
             Images <- {Filled(image) : image \in Images}, kept <- Filled(confirmed),
             candidate <- Candidate, onTrial <- OnTrial, runs <- Running

ImplementsTrial == Trial!Spec

\* README: "if it hangs before that, the next watchdog or power-cycle rolls back".
StalledTrialReverts == stage = "stalled" ~> Reverted
=============================================================================
