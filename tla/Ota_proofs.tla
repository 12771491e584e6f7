----------------------------- MODULE Ota_proofs -----------------------------
(***************************************************************************)
(* What an update can never break, for images of any length, any number of *)
(* uploads at once and power cycles at any point.                          *)
(***************************************************************************)
EXTENDS Ota, TLAPS

Whole(partition) == \E image \in Images : partition = Filled(image)

\* The flag admits one upload at a time, to a device that runs: the sectors it
\* has written are its own, and it writes nothing while a swap is due.
OneUpload ==
    /\ \A r \in Requests : upload[r].offset >= 0 => OTA_BUSY /\ Serves
    /\ \A q, r \in Requests : upload[q].offset >= 0 /\ upload[r].offset >= 0 => q = r
    /\ \A r \in Requests : upload[r].offset > 0 =>
          /\ magic = "boot"
          /\ \A s \in 1..upload[r].offset : dfu[s] = upload[r].image

\* What the boot state says of the two partitions.
BootState ==
    /\ magic = "boot" => active = Filled(confirmed) /\ progress = 0
    /\ magic = "swap" /\ progress < Sectors => active = Filled(confirmed) /\ Whole(dfu)
    /\ magic = "swap" /\ progress >= Sectors => dfu = Filled(confirmed) /\ Whole(active)

\* Where the processor can be in each boot state.
BootStage ==
    /\ stage = "swapping" => magic = "swap" /\ progress < Sectors
    /\ stage = "reverting" => magic = "swap" /\ progress >= Sectors
    /\ stage \in {"starting", "dead", "stalled", "frozen", "serving"} => magic = "boot" \/ progress >= Sectors

Inv == TypeOK /\ OneUpload /\ BootState /\ BootStage

-----------------------------------------------------------------------------
\* A partition filled with an image is one, and shows it in its first sector.
LEMMA FilledContent ==
    ASSUME NEW image \in Images
    PROVE  Filled(image) \in Content /\ Filled(image)[1] = image /\ Whole(Filled(image))
BY OtaAssumption DEF Filled, Content, Whole

\* A request that uploads nothing is typed, and so is a progress of no page.
LEMMA IdleType ==
    /\ [r \in Requests |-> Idle] \in [Requests -> [image : Images, offset : -1..Sectors]]
    /\ 0 \in 0..(2 * Sectors - 1)
<1>1. Factory \in Images /\ -1 \in -1..Sectors
  BY OtaAssumption
<1>2. Idle \in [image : Images, offset : -1..Sectors]
  BY <1>1 DEF Idle
<1> QED
  BY <1>2, OtaAssumption

\* The factory image is confirmed when the device leaves the bench.
LEMMA InvInit == Init => Inv
<1> SUFFICES ASSUME Init PROVE Inv
  OBVIOUS
<1>1. Factory \in Images
  BY OtaAssumption
<1>2. TypeOK
  <2>1. active \in Content /\ dfu \in Content
    BY <1>1, FilledContent DEF Init
  <2>2. cycles \in 0..MaxPowerCycles
    BY OtaAssumption DEF Init
  <2> QED
    BY <1>1, <2>1, <2>2, IdleType DEF Init, TypeOK, Stages
<1>3. OneUpload
  BY DEF Init, OneUpload, Idle
<1>4. BootState /\ BootStage
  BY DEF Init, BootState, BootStage
<1> QED
  BY <1>2, <1>3, <1>4 DEF Inv

\* A reset of any kind forgets the uploads and leaves the flash as it is.
LEMMA ResetStep ==
    ASSUME Inv, ClearRam, UNCHANGED <<flash, confirmed>>, cycles' \in 0..MaxPowerCycles
    PROVE  Inv'
<1>1. TypeOK'
  BY IdleType DEF Inv, TypeOK, ClearRam, flash, Stages
<1>2. OneUpload'
  BY DEF ClearRam, OneUpload, Idle
<1>3. BootState' /\ BootStage'
  BY DEF Inv, ClearRam, flash, BootState, BootStage, Whole
<1> QED
  BY <1>1, <1>2, <1>3 DEF Inv

\* The bootloader exchanges the partitions when the last page is done, and a
\* revert brings the confirmed image back.
LEMMA BootloaderStep ==
    ASSUME Inv, Prepare \/ SwapPage \/ RevertPage
    PROVE  Inv'
<1>1. /\ Sectors \in Nat /\ Sectors > 0 /\ progress \in 0..(2 * Sectors - 1)
      /\ magic \in {"boot", "swap"}
  BY OtaAssumption DEF Inv, TypeOK
<1>2. /\ stage \in {"reset", "swapping", "reverting"} /\ UNCHANGED <<upload, OTA_BUSY, OTA_RESET, cycles, confirmed>>
  BY DEF Prepare, SwapPage, RevertPage
<1>3. \A r \in Requests : upload[r].offset \in -1..Sectors /\ ~(upload[r].offset >= 0)
  BY <1>1, <1>2 DEF Inv, TypeOK, OneUpload, Serves
<1>4. OneUpload'
  BY <1>1, <1>2, <1>3 DEF OneUpload
<1>5. CASE Prepare
  <2>1. TypeOK'
    BY <1>5 DEF Inv, TypeOK, Prepare, flash, Stages
  <2>2. BootState'
    BY <1>5 DEF Inv, BootState, Whole, Prepare, flash
  <2>3. BootStage'
    BY <1>1, <1>5 DEF BootStage, Prepare, flash
  <2> QED
    BY <1>4, <2>1, <2>2, <2>3 DEF Inv
<1>6. CASE SwapPage
  <2>1. magic = "swap" /\ progress < Sectors /\ active = Filled(confirmed) /\ Whole(dfu)
    BY <1>6 DEF Inv, BootState, BootStage, SwapPage
  <2>2. confirmed \in Images /\ Whole(active)
    BY <2>1, FilledContent DEF Inv, TypeOK
  <2>3. TypeOK'
    BY <1>1, <1>6, <2>1 DEF Inv, TypeOK, SwapPage, Exchange, Stages
  <2>4. BootState' /\ BootStage'
    BY <1>1, <1>6, <2>1, <2>2 DEF BootState, BootStage, SwapPage, Exchange, Whole
  <2> QED
    BY <1>4, <2>3, <2>4 DEF Inv
<1>7. CASE RevertPage
  <2>1. magic = "swap" /\ progress >= Sectors /\ dfu = Filled(confirmed) /\ Whole(active)
    BY <1>7 DEF Inv, BootState, BootStage, RevertPage
  <2>2. TypeOK'
    BY <1>1, <1>7, <2>1 DEF Inv, TypeOK, RevertPage, Exchange, Stages
  <2>3. BootState' /\ BootStage'
    BY <1>1, <1>7, <2>1 DEF BootState, BootStage, RevertPage, Exchange, Whole
  <2> QED
    BY <1>4, <2>2, <2>3 DEF Inv
<1> QED
  BY <1>5, <1>6, <1>7

\* Start-up, mark_booted and the reset poll: the image that confirms itself is
\* the whole one that runs.
LEMMA MainStep ==
    ASSUME Inv, StartUp \/ MarkBooted \/ SeeReset
    PROVE  Inv'
<1>1. /\ Sectors \in Nat /\ Sectors > 0 /\ progress \in 0..(2 * Sectors - 1)
      /\ magic \in {"boot", "swap"} /\ confirmed \in Images
  BY OtaAssumption DEF Inv, TypeOK
<1>2. CASE StartUp \/ SeeReset
  <2>1. TypeOK'
    BY <1>2 DEF Inv, TypeOK, StartUp, SeeReset, flash, Stages
  <2>2. OneUpload'
    BY <1>2 DEF Inv, OneUpload, StartUp, SeeReset, flash, Serves
  <2>3. BootState' /\ BootStage'
    BY <1>2 DEF Inv, BootState, BootStage, Whole, StartUp, SeeReset, flash
  <2> QED
    BY <2>1, <2>2, <2>3 DEF Inv
<1>3. CASE MarkBooted
  <2>1. magic = "boot" \/ progress >= Sectors
    BY <1>3 DEF Inv, BootStage, MarkBooted
  <2>2. PICK image \in Images : active = Filled(image)
    BY <1>1, <2>1 DEF Inv, BootState, Whole
  <2>3. active[1] \in Images /\ active = Filled(active[1])
    BY <2>2, FilledContent
  <2>4. TypeOK'
    BY <1>1, <1>3, <2>3 DEF Inv, TypeOK, MarkBooted, Stages
  <2>5. OneUpload'
    BY <1>3 DEF Inv, OneUpload, MarkBooted, Serves
  <2>6. BootState' /\ BootStage'
    BY <1>3, <2>3 DEF Inv, BootState, BootStage, Whole, MarkBooted
  <2> QED
    BY <2>4, <2>5, <2>6 DEF Inv
<1> QED
  BY <1>2, <1>3

\* A request that gets the flag is the only one, and has written nothing.
LEMMA BeginStep ==
    ASSUME Inv, NEW r \in Requests, NEW image \in Images, Begin(r, image)
    PROVE  Inv'
<1>1. Sectors \in Nat /\ \A q \in Requests : upload[q].offset \in -1..Sectors /\ ~(upload[q].offset >= 0)
  BY OtaAssumption DEF Inv, TypeOK, OneUpload, Begin
<1>2. /\ \A q \in Requests : q # r => upload'[q] = upload[q]
      /\ upload'[r] = [image |-> image, offset |-> 0]
  BY DEF Inv, TypeOK, Begin
<1>3. TypeOK'
  BY <1>1 DEF Inv, TypeOK, Begin, flash
<1>4. OneUpload'
  BY <1>1, <1>2 DEF OneUpload, Begin, Serves
<1>5. BootState' /\ BootStage'
  BY DEF Inv, BootState, BootStage, Whole, Begin, flash
<1> QED
  BY <1>3, <1>4, <1>5 DEF Inv

\* A sector is written to DFU only while the running image is confirmed.
LEMMA WriteStep ==
    ASSUME Inv, NEW r \in Requests, WriteFirmware(r)
    PROVE  Inv'
<1>1. /\ Sectors \in Nat /\ upload[r].image \in Images /\ upload[r].offset \in 0..(Sectors - 1)
      /\ dfu \in Content /\ magic = "boot"
  BY OtaAssumption DEF Inv, TypeOK, WriteFirmware, Working
<1>2. \A q \in Requests : q # r => ~(upload[q].offset >= 0) /\ upload[q].offset \in -1..Sectors
  BY <1>1 DEF Inv, TypeOK, OneUpload
<1>3. /\ \A q \in Requests : q # r => upload'[q] = upload[q]
      /\ upload'[r].image = upload[r].image /\ upload'[r].offset = upload[r].offset + 1
  BY DEF Inv, TypeOK, WriteFirmware
<1>4. TypeOK'
  <2>1. upload' \in [Requests -> [image : Images, offset : -1..Sectors]]
    BY <1>1 DEF Inv, TypeOK, WriteFirmware
  <2>2. dfu' \in Content
    BY <1>1 DEF WriteFirmware, Content
  <2> QED
    BY <2>1, <2>2 DEF Inv, TypeOK, WriteFirmware
<1>5. OneUpload'
  <2>1. \A s \in 1..upload'[r].offset : dfu'[s] = upload'[r].image
    <3> TAKE s \in 1..upload'[r].offset
    <3>1. s \in 1..Sectors
      BY <1>1, <1>3
    <3>2. CASE s = upload[r].offset + 1
      BY <1>1, <1>3, <3>1, <3>2 DEF WriteFirmware, Content
    <3>3. CASE s # upload[r].offset + 1
      <4>1. s \in 1..upload[r].offset
        BY <1>1, <1>3, <3>3
      <4>2. dfu[s] = upload[r].image
        BY <1>1, <4>1 DEF Inv, OneUpload
      <4>3. dfu'[s] = dfu[s]
        BY <1>1, <3>1, <3>3 DEF WriteFirmware, Content
      <4> QED
        BY <1>3, <4>2, <4>3
    <3> QED
      BY <3>2, <3>3
  <2>2. magic' = "boot" /\ OTA_BUSY' = OTA_BUSY /\ stage' = stage
    BY <1>1 DEF WriteFirmware
  <2>3. OTA_BUSY /\ Serves
    BY <1>1 DEF Inv, OneUpload
  <2> QED
    BY <1>1, <1>2, <1>3, <2>1, <2>2, <2>3 DEF OneUpload, Serves
<1>6. BootState' /\ BootStage'
  BY <1>1 DEF Inv, BootState, BootStage, WriteFirmware
<1> QED
  BY <1>4, <1>5, <1>6 DEF Inv

\* An upload that ends leaves no other under way; one that ends well has
\* written the whole of DFU.
LEMMA EndStep ==
    ASSUME Inv, NEW r \in Requests, Fail(r) \/ Finish(r)
    PROVE  Inv'
<1>1. /\ Sectors \in Nat /\ Sectors > 0 /\ Factory \in Images
      /\ upload[r].image \in Images /\ upload[r].offset \in -1..Sectors /\ upload[r].offset >= 0
  BY OtaAssumption DEF Inv, TypeOK, Fail, Finish, Working
<1>2. /\ \A q \in Requests : q # r => upload'[q] = upload[q]
      /\ upload'[r] = Idle /\ OTA_BUSY' = FALSE
      /\ upload' \in [Requests -> [image : Images, offset : -1..Sectors]]
  BY <1>1 DEF Inv, TypeOK, Fail, Finish, Ended, Idle
<1>3. \A q \in Requests : ~(upload'[q].offset >= 0) /\ ~(upload'[q].offset > 0)
  <2> TAKE q \in Requests
  <2>1. CASE q = r
    BY <1>2, <2>1 DEF Idle
  <2>2. CASE q # r
    BY <1>1, <1>2, <2>2 DEF Inv, TypeOK, OneUpload
  <2> QED
    BY <2>1, <2>2
<1>4. OneUpload'
  BY <1>3 DEF OneUpload
<1>5. CASE Fail(r)
  <2>1. TypeOK'
    BY <1>2, <1>5 DEF Inv, TypeOK, Fail, flash
  <2>2. BootState' /\ BootStage'
    BY <1>5 DEF Inv, BootState, BootStage, Whole, Fail, flash
  <2> QED
    BY <1>4, <2>1, <2>2 DEF Inv
<1>6. CASE Finish(r)
  <2>1. /\ upload[r].offset = Sectors /\ magic = "boot" /\ active = Filled(confirmed)
        /\ stage \in {"up", "closing"}
    BY <1>1, <1>6 DEF Inv, OneUpload, BootState, Finish, Working, Serves
  <2>2. dfu = Filled(upload[r].image)
    BY <1>1, <2>1 DEF Inv, TypeOK, Content, OneUpload, Filled
  <2>3. Whole(dfu)
    BY <1>1, <2>2 DEF Whole
  <2>4. TypeOK'
    BY <1>2, <1>6, IdleType DEF Inv, TypeOK, Finish
  <2>5. BootState' /\ BootStage'
    BY <1>1, <1>6, <2>1, <2>3 DEF BootState, BootStage, Whole, Finish
  <2> QED
    BY <1>4, <2>4, <2>5 DEF Inv
<1> QED
  BY <1>5, <1>6

\* Every step of the device, the uploads and the power switch.
LEMMA InvStep == Inv /\ [Next]_vars => Inv'
<1> SUFFICES ASSUME Inv, [Next]_vars PROVE Inv'
  OBVIOUS
<1>1. CASE Prepare \/ SwapPage \/ RevertPage
  BY <1>1, BootloaderStep
<1>2. CASE StartUp \/ MarkBooted \/ SeeReset
  BY <1>2, MainStep
<1>3. CASE SoftReset \/ WatchdogFires \/ PowerCycle
  <2>1. ClearRam /\ UNCHANGED <<flash, confirmed>> /\ cycles' \in 0..MaxPowerCycles
    BY <1>3, OtaAssumption DEF SoftReset, WatchdogFires, PowerCycle, Inv, TypeOK
  <2> QED
    BY <2>1, ResetStep
<1>4. ASSUME NEW r \in Requests, NEW image \in Images, Begin(r, image) PROVE Inv'
  BY <1>4, BeginStep
<1>5. ASSUME NEW r \in Requests, Upload(r) PROVE Inv'
  BY <1>5, WriteStep, EndStep DEF Upload
<1>6. CASE UNCHANGED vars
  BY <1>6 DEF Inv, TypeOK, OneUpload, BootState, BootStage, Whole, Serves, vars, flash
<1> QED
  BY <1>1, <1>2, <1>3, <1>4, <1>5, <1>6 DEF Next, Device

\* The invariant in every reachable state.
LEMMA AlwaysInv == Spec => []Inv
BY InvInit, InvStep, PTL DEF Spec

\* The partitions, the boot state and the uploads keep their types.
THEOREM OtaTypes == Spec => []TypeOK
<1>1. Inv => TypeOK
  BY DEF Inv
<1> QED
  BY <1>1, AlwaysInv, PTL

\* run_ota marks DFU only when it holds the whole of one body, and the
\* bootloader exchanges partitions only as wholes: what starts is one image.
THEOREM OnlyWholeImagesRun == Spec => []RunsWholeImage
<1>1. Inv => RunsWholeImage
  <2> SUFFICES ASSUME Inv PROVE \E image \in Images : active = Filled(image)
    BY DEF RunsWholeImage
  <2>1. confirmed \in Images /\ magic \in {"boot", "swap"} /\ progress \in 0..(2 * Sectors - 1) /\ Sectors \in Nat
    BY OtaAssumption DEF Inv, TypeOK
  <2>2. progress < Sectors \/ progress >= Sectors
    BY <2>1
  <2> QED
    BY <2>1, <2>2 DEF Inv, BootState, Whole
<1> QED
  BY <1>1, AlwaysInv, PTL

\* From mark_booted on, an image stays in one of the partitions until another
\* one has confirmed itself: uploads and power failures cannot destroy it.
THEOREM ConfirmedImageStays == Spec => []KeepsConfirmed
<1>1. Inv => KeepsConfirmed
  <2> SUFFICES ASSUME Inv PROVE KeepsConfirmed
    OBVIOUS
  <2>1. magic \in {"boot", "swap"} /\ progress \in 0..(2 * Sectors - 1) /\ Sectors \in Nat
    BY OtaAssumption DEF Inv, TypeOK
  <2>2. progress < Sectors \/ progress >= Sectors
    BY <2>1
  <2> QED
    BY <2>1, <2>2 DEF Inv, BootState, KeepsConfirmed
<1> QED
  BY <1>1, AlwaysInv, PTL

-----------------------------------------------------------------------------
(* The update implements UpdateTrial.                                      *)

TrialStep == Trial!Next \/ UNCHANGED Trial!vars

\* Nothing that UpdateTrial speaks of changes.
LEMMA QuietStep ==
    ASSUME Candidate' = Candidate, OnTrial' = OnTrial, Running' = Running, confirmed' = confirmed
    PROVE  TrialStep
BY DEF TrialStep, Trial!vars, Filled

\* The numbers and the boot state, for the steps below.
LEMMA BootTypes ==
    ASSUME Inv
    PROVE  /\ Sectors \in Nat /\ Sectors > 0 /\ progress \in 0..(2 * Sectors - 1)
           /\ magic \in {"boot", "swap"} /\ confirmed \in Images
           /\ OnTrial => dfu = Filled(confirmed) /\ Whole(active) /\ Candidate = {active}
           /\ magic = "swap" /\ ~OnTrial => /\ active = Filled(confirmed) /\ Whole(dfu)
                                            /\ progress < Sectors /\ Candidate = {dfu}
           /\ magic = "boot" => active = Filled(confirmed) /\ Candidate = {} /\ ~OnTrial
BY OtaAssumption DEF Inv, TypeOK, BootState, OnTrial, Candidate

\* Without an image to try the bootloader starts the kept one; the last page of a
\* swap starts the trial, and the last of a revert the kept image again.
LEMMA BootloaderTries ==
    ASSUME Inv, Prepare \/ SwapPage \/ RevertPage
    PROVE  TrialStep
<1>1. CASE Prepare
  <2>1. /\ stage = "reset" /\ UNCHANGED <<active, dfu, magic, progress, confirmed>>
        /\ stage' = IF magic = "boot" THEN "starting"
                    ELSE IF progress < Sectors THEN "swapping" ELSE "reverting"
    BY <1>1 DEF Prepare, flash
  <2>2. Candidate' = Candidate /\ OnTrial' = OnTrial
    BY <2>1 DEF Candidate, OnTrial
  <2>3. CASE magic = "boot"
    <3>1. Running = {} /\ Running' = {Filled(confirmed)} /\ Candidate = {}
      BY <2>1, <2>3, BootTypes DEF Running
    <3>2. Trial!Start
      BY <2>1, <2>2, <3>1 DEF Trial!Start, Filled
    <3> QED
      BY <3>2 DEF TrialStep, Trial!Next
  <2>4. CASE magic # "boot"
    <3>1. Running' = Running
      BY <2>1, <2>4 DEF Running
    <3> QED
      BY <2>1, <2>2, <3>1, QuietStep
  <2> QED
    BY <2>3, <2>4
<1>2. CASE SwapPage
  <2>1. /\ stage = "swapping" /\ magic = "swap" /\ magic' = "swap" /\ progress < Sectors
        /\ progress' = progress + 1 /\ confirmed' = confirmed
    BY <1>2, BootTypes DEF SwapPage, Inv, BootStage
  <2>2. ~OnTrial /\ Candidate = {dfu} /\ Running = {} /\ progress \in Nat /\ Sectors \in Nat
    BY <2>1, BootTypes DEF OnTrial, Running
  <2>3. CASE progress + 1 = Sectors
    <3>1. active' = dfu /\ stage' = "starting"
      BY <1>2, <2>3 DEF SwapPage, Exchange
    <3>2. OnTrial' = TRUE /\ Candidate' = {dfu} /\ Running' = {dfu}
      BY <2>1, <2>2, <2>3, <3>1 DEF OnTrial, Candidate, Running
    <3>3. Trial!Try
      BY <2>1, <2>2, <3>2 DEF Trial!Try, Filled
    <3> QED
      BY <3>3 DEF TrialStep, Trial!Next
  <2>4. CASE progress + 1 # Sectors
    <3>1. UNCHANGED <<active, dfu, stage>>
      BY <1>2, <2>4 DEF SwapPage
    <3>2. Candidate' = Candidate /\ OnTrial' = OnTrial /\ Running' = Running
      BY <2>1, <2>2, <2>4, <3>1 DEF OnTrial, Candidate, Running
    <3> QED
      BY <2>1, <3>2, QuietStep
  <2> QED
    BY <2>3, <2>4
<1>3. CASE RevertPage
  <2>1. /\ stage = "reverting" /\ magic = "swap" /\ progress >= Sectors /\ confirmed' = confirmed
    BY <1>3 DEF RevertPage, Inv, BootStage
  <2>2. /\ OnTrial /\ Candidate = {active} /\ dfu = Filled(confirmed) /\ Running = {}
        /\ progress \in Nat /\ Sectors \in Nat
    BY <2>1, BootTypes DEF OnTrial, Running
  <2>3. CASE progress + 1 = 2 * Sectors
    <3>1. active' = dfu /\ stage' = "starting" /\ magic' = "boot"
      BY <1>3, <2>3 DEF RevertPage, Exchange
    <3>2. OnTrial' = FALSE /\ Candidate' = {} /\ Running' = {Filled(confirmed)}
      BY <2>2, <3>1 DEF OnTrial, Candidate, Running
    <3>3. Trial!GiveUp
      BY <2>1, <2>2, <3>2 DEF Trial!GiveUp, Filled
    <3> QED
      BY <3>3 DEF TrialStep, Trial!Next
  <2>4. CASE progress + 1 # 2 * Sectors
    <3>1. progress' = progress + 1 /\ UNCHANGED <<active, dfu, magic, stage>>
      BY <1>3, <2>4 DEF RevertPage
    <3>2. Candidate' = Candidate /\ OnTrial' = OnTrial /\ Running' = Running
      BY <2>1, <2>2, <3>1 DEF OnTrial, Candidate, Running
    <3> QED
      BY <2>1, <3>2, QuietStep
  <2> QED
    BY <2>3, <2>4
<1> QED
  BY <1>1, <1>2, <1>3

\* What runs on trial and calls mark_booted is kept; where nothing is on trial the
\* call changes nothing.
LEMMA MainTries ==
    ASSUME Inv, StartUp \/ MarkBooted \/ SeeReset
    PROVE  TrialStep
<1>1. CASE StartUp \/ SeeReset
  <2>1. UNCHANGED <<active, dfu, magic, progress, confirmed>> /\ Running' = Running
    BY <1>1 DEF StartUp, SeeReset, flash, Running
  <2>2. Candidate' = Candidate /\ OnTrial' = OnTrial
    BY <2>1 DEF Candidate, OnTrial
  <2> QED
    BY <2>1, <2>2, QuietStep
<1>2. CASE MarkBooted
  <2>1. /\ UNCHANGED <<active, dfu>> /\ Running = {active} /\ Running' = {active}
        /\ magic = "boot" \/ progress >= Sectors
    BY <1>2 DEF MarkBooted, Running, Inv, BootStage
  <2>2. CASE UNCHANGED <<magic, progress, confirmed>>
    <3>1. Candidate' = Candidate /\ OnTrial' = OnTrial
      BY <2>1, <2>2 DEF Candidate, OnTrial
    <3> QED
      BY <2>1, <2>2, <3>1, QuietStep
  <2>3. CASE magic' = "boot" /\ confirmed' = active[1]
    <3>1. Candidate' = {} /\ OnTrial' = FALSE
      BY <2>3 DEF Candidate, OnTrial
    <3>2. CASE magic = "boot"
      <4>1. confirmed' = confirmed
        BY <2>3, <3>2, BootTypes, FilledContent
      <4>2. Candidate = {} /\ OnTrial = FALSE
        BY <3>2 DEF Candidate, OnTrial
      <4> QED
        BY <2>1, <3>1, <4>1, <4>2, QuietStep
    <3>3. CASE magic # "boot"
      <4>1. OnTrial /\ Whole(active) /\ Candidate = {active}
        BY <2>1, <3>3, BootTypes DEF OnTrial
      <4>2. Filled(confirmed)' = active
        <5>1. PICK image \in Images : active = Filled(image)
          BY <4>1 DEF Whole
        <5>2. active[1] = image
          BY <5>1, FilledContent
        <5> QED
          BY <2>3, <5>1, <5>2 DEF Filled
      <4>3. Trial!Confirm
        BY <2>1, <3>1, <4>1, <4>2 DEF Trial!Confirm
      <4> QED
        BY <4>3 DEF TrialStep, Trial!Next
    <3> QED
      BY <3>2, <3>3
  <2> QED
    BY <1>2, <2>2, <2>3 DEF MarkBooted
<1> QED
  BY <1>1, <1>2

\* Every reset is one.
LEMMA ResetTries ==
    ASSUME ClearRam, UNCHANGED <<flash, confirmed>>
    PROVE  TrialStep
<1>1. Running' = {} /\ Candidate' = Candidate /\ OnTrial' = OnTrial /\ confirmed' = confirmed
  BY DEF ClearRam, Running, Candidate, OnTrial, flash
<1>2. Trial!Reset
  BY <1>1 DEF Trial!Reset, Filled
<1> QED
  BY <1>2 DEF TrialStep, Trial!Next

\* An upload stages an image when it is marked; until then it is nobody's.
LEMMA UploadTries ==
    ASSUME Inv, NEW r \in Requests, Upload(r) \/ \E image \in Images : Begin(r, image)
    PROVE  TrialStep
<1>1. CASE Fail(r) \/ \E image \in Images : Begin(r, image)
  <2>1. UNCHANGED <<active, dfu, magic, progress, stage, confirmed>>
    BY <1>1 DEF Fail, Begin, flash
  <2>2. Candidate' = Candidate /\ OnTrial' = OnTrial /\ Running' = Running
    BY <2>1 DEF Candidate, OnTrial, Running
  <2> QED
    BY <2>1, <2>2, QuietStep
<1>2. CASE WriteFirmware(r)
  <2>1. magic = "boot" /\ UNCHANGED <<active, magic, progress, stage, confirmed>>
    BY <1>2 DEF WriteFirmware
  <2>2. Candidate' = Candidate /\ OnTrial' = OnTrial /\ Running' = Running
    BY <2>1 DEF Candidate, OnTrial, Running
  <2> QED
    BY <2>1, <2>2, QuietStep
<1>3. CASE Finish(r)
  <2>1. /\ upload[r].offset = Sectors /\ stage \in {"up", "closing"}
        /\ magic' = "swap" /\ progress' = 0 /\ UNCHANGED <<active, dfu, stage, confirmed>>
    BY <1>3 DEF Finish, Working, Serves
  <2>2. magic = "boot" /\ upload[r].image \in Images
    BY <2>1, BootTypes DEF Inv, TypeOK, OneUpload
  <2>3. dfu = Filled(upload[r].image)
    BY <2>1, BootTypes DEF Inv, TypeOK, Content, OneUpload, Filled
  <2>4. /\ Running = {Filled(confirmed)} /\ Running' = Running
        /\ Candidate = {} /\ Candidate' = {dfu}
        /\ OnTrial = FALSE /\ OnTrial' = FALSE
    BY <2>1, <2>2, BootTypes DEF Running, Candidate, OnTrial
  <2>5. Trial!Stage
    BY <2>1, <2>2, <2>3, <2>4 DEF Trial!Stage, Filled
  <2> QED
    BY <2>5 DEF TrialStep, Trial!Next
<1> QED
  BY <1>1, <1>2, <1>3 DEF Upload

\* The partitions, the boot state and the uploads together keep the promise of
\* UpdateTrial: an image is tried only after all of it was staged, once, and what
\* does not confirm itself gives way to the image that last did.
THEOREM UpdatesAreTrials == Spec => Trial!SafeSpec
<1>1. Init => Trial!Init
  <2> SUFFICES ASSUME Init PROVE Trial!Init
    OBVIOUS
  <2>1. Candidate = {} /\ OnTrial = FALSE /\ Running = {}
    BY DEF Init, Candidate, OnTrial, Running
  <2>2. confirmed \in Images
    BY OtaAssumption DEF Init
  <2> QED
    BY <2>1, <2>2 DEF Trial!Init
<1>2. Inv /\ [Next]_vars => [Trial!Next]_(Trial!vars)
  <2> SUFFICES ASSUME Inv, [Next]_vars PROVE TrialStep
    BY DEF TrialStep
  <2>1. CASE Prepare \/ SwapPage \/ RevertPage
    BY <2>1, BootloaderTries
  <2>2. CASE StartUp \/ MarkBooted \/ SeeReset
    BY <2>2, MainTries
  <2>3. CASE SoftReset \/ WatchdogFires \/ PowerCycle
    BY <2>3, ResetTries DEF SoftReset, WatchdogFires, PowerCycle
  <2>4. ASSUME NEW r \in Requests, Upload(r) \/ \E image \in Images : Begin(r, image)
        PROVE  TrialStep
    BY <2>4, UploadTries
  <2>5. CASE UNCHANGED vars
    <3>1. UNCHANGED <<active, dfu, magic, progress, stage, confirmed>>
      BY <2>5 DEF vars, flash
    <3>2. Candidate' = Candidate /\ OnTrial' = OnTrial /\ Running' = Running
      BY <3>1 DEF Candidate, OnTrial, Running
    <3> QED
      BY <3>1, <3>2, QuietStep
  <2> QED
    BY <2>1, <2>2, <2>3, <2>4, <2>5 DEF Next, Device
<1> QED
  BY <1>1, <1>2, AlwaysInv, PTL DEF Spec, Trial!SafeSpec
=============================================================================
