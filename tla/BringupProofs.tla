---------------------------- MODULE BringupProofs ----------------------------
(* For both drivers in turn on one adapter, any number of attempts and       *)
(* images of any size: what a bring-up promises when it returns, and that no *)
(* attempt spoils the next.                                                  *)
EXTENDS Bringup, TLAPS

USE BringupAssumption DEF Go, Fails, Host

(* The inductive invariant.                                                  *)
IInv == TypeOK /\ Evidence /\ Expected /\ SemReleased /\ CleanRetry /\ Ready

-----------------------------------------------------------------------------
(* The adapter after the accesses whose outcome is not determined            *)

(* A WFSYS reset leaves the MCU off and the semaphore free.                  *)
LEMMA AfterResetFields ==
    ASSUME dev \in Device, NEW d \in AfterReset
    PROVE  d \in Device /\ d.mcu = "off" /\ ~d.sem
<1>1. PICK p \in {dev.patched, FALSE}, r \in {dev.route, FALSE},
           x \in {dev.rxdma, FALSE} :
         d = [dev EXCEPT !.mcu = "off", !.sem = FALSE, !.image = 0,
                         !.flush = TRUE, !.patched = p, !.route = r,
                         !.rxdma = x]
  BY DEF AfterReset
<1>2. p \in BOOLEAN /\ r \in BOOLEAN /\ x \in BOOLEAN
  BY DEF Device
<1> QED
  BY <1>1, <1>2 DEF Device

(* A garbled dma_init touches neither the MCU nor the semaphore.             *)
LEMMA GarbledFields ==
    ASSUME dev \in Device, NEW d \in Garbled
    PROVE  /\ d \in Device
           /\ d.mcu = dev.mcu /\ d.sem = dev.sem /\ d.image = dev.image
<1>1. PICK f \in {TRUE, FALSE}, x \in {dev.rxdma, TRUE} :
         d = [dev EXCEPT !.flush = f, !.rxdma = x]
  BY DEF Garbled
<1>2. x \in BOOLEAN
  BY DEF Device
<1> QED
  BY <1>1, <1>2 DEF Device

(* A restart touches neither the routing nor the semaphore.                  *)
LEMMA AfterRestartFields ==
    ASSUME dev \in Device, NEW d \in AfterRestart
    PROVE  /\ d \in Device
           /\ d.sem = dev.sem /\ d.path = dev.path /\ d.route = dev.route
           /\ d.rxdma = dev.rxdma /\ d.flush = dev.flush
           /\ IF dev.mcu = "off" THEN d.mcu = "off" ELSE d.mcu = "rom"
<1>1. PICK p \in {dev.patched, FALSE} :
         d = [dev EXCEPT !.mcu = IF @ = "off" THEN @ ELSE "rom",
                         !.image = 0, !.patched = p]
  BY DEF AfterRestart
<1>2. p \in BOOLEAN
  BY DEF Device
<1> QED
  BY <1>1, <1>2 DEF Device

-----------------------------------------------------------------------------
(* Each access keeps the invariant                                           *)

(* A new attempt forgets the faults of the last one, and keeps its debts.   *)
LEMMA BeginStep ==
    ASSUME TypeOK, Evidence, Expected, SemReleased, CleanRetry, Ready, Begin
    PROVE  IInv'
<1>1. dev' \in Device
  BY DEF Begin, TypeOK, Device
<1>2. TypeOK'
  <2>1. /\ driver' \in Drivers /\ attempt' \in 0 .. MaxAttempts
        /\ part' \in 0 .. PatchSections + RamRegions
    BY DEF Begin, TypeOK
  <2>2. stage' \in Stages /\ result' \in {"none", "ok", "failed"}
    BY DEF Begin, TypeOK, Stages
  <2>3. /\ giveUp' \in BOOLEAN /\ evt_ep4' \in BOOLEAN
        /\ fault' \in BOOLEAN /\ semLost' \in BOOLEAN
    BY DEF Begin, TypeOK
  <2> QED
    BY <1>1, <2>1, <2>2, <2>3 DEF TypeOK
<1>3. Evidence'
  BY DEF Begin, TypeOK, Device, Evidence, Reachable
<1>4. Expected'
  BY DEF Begin, TypeOK, Device, Expected, Reachable
<1>5. SemReleased' /\ CleanRetry' /\ Ready'
  BY DEF Begin, TypeOK, Device, Evidence, Expected, SemReleased, CleanRetry,
         Ready, Reachable
<1> QED
  BY <1>2, <1>3, <1>4, <1>5 DEF IInv

(* The bus reset changes nothing the MCU keeps.                             *)
LEMMA UsbResetStep ==
    ASSUME TypeOK, Evidence, Expected, SemReleased, CleanRetry,
           Ready, UsbReset
    PROVE  IInv'
<1>1. dev' \in Device
  BY DEF UsbReset, TypeOK, Device
<1>2. TypeOK'
  BY <1>1 DEF UsbReset, TypeOK, Stages
<1>3. Evidence'
  BY DEF UsbReset, TypeOK, Device, Evidence, Reachable
<1>4. Expected'
  BY DEF UsbReset, TypeOK, Device, Expected, Reachable
<1>5. SemReleased' /\ CleanRetry' /\ Ready'
  BY DEF UsbReset, TypeOK, Device, Evidence, Expected, SemReleased,
         CleanRetry, Ready, Reachable
<1> QED
  BY <1>2, <1>3, <1>4, <1>5 DEF IInv

(* Only an MCU with no FW_STATE bit set skips the WFSYS reset.              *)
LEMMA ProbeStep ==
    ASSUME TypeOK, Evidence, Expected, SemReleased, CleanRetry, Ready, Probe
    PROVE  IInv'
<1>1. dev' \in Device
  BY DEF Probe, TypeOK, Device
<1>2. TypeOK'
  BY <1>1 DEF Probe, TypeOK, Stages
<1>3. Evidence'
  BY DEF Probe, TypeOK, Device, Evidence, Reachable
<1>4. Expected'
  BY DEF Probe, TypeOK, Device, Expected, Evidence, Reachable
<1>5. SemReleased' /\ CleanRetry' /\ Ready'
  BY DEF Probe, TypeOK, Device, Evidence, Expected, SemReleased, CleanRetry,
         Ready, Reachable
<1> QED
  BY <1>2, <1>3, <1>4, <1>5 DEF IInv

(* A reset that is seen to end leaves the MCU off and the semaphore free.   *)
LEMMA WfsysResetStep ==
    ASSUME TypeOK, Evidence, Expected, SemReleased, CleanRetry,
           Ready, WfsysReset
    PROVE  IInv'
<1>1. /\ stage = "wfsys"
      /\ driver' = driver /\ attempt' = attempt
      /\ part' = part /\ evt_ep4' = evt_ep4
      /\ \/ /\ dev' \in AfterReset
            /\ semLost' = FALSE /\ Go("power") /\ fault' = fault
         \/ /\ \/ dev' \in AfterReset
               \/ dev' = dev
               \/ dev' = [dev EXCEPT !.flush = TRUE]
            /\ semLost' = (semLost /\ dev'.sem)
            /\ fault' = TRUE
            /\ IF driver = "python" THEN Fails ELSE Go("power")
  BY DEF WfsysReset
<1>2. /\ dev' \in Device
      /\ dev' \in AfterReset => dev'.mcu = "off" /\ ~dev'.sem
      /\ dev' \notin AfterReset => dev'.mcu = dev.mcu /\ dev'.sem = dev.sem
  BY <1>1, AfterResetFields DEF TypeOK, Device
<1>3. TypeOK'
  BY <1>1, <1>2 DEF TypeOK, Stages
<1>4. Evidence'
  BY <1>1, <1>2 DEF TypeOK, Evidence, Reachable
<1>5. Expected'
  BY <1>1, <1>2 DEF TypeOK, Expected, Evidence, Reachable
<1>6. SemReleased' /\ CleanRetry' /\ Ready'
  BY <1>1, <1>2 DEF TypeOK, Evidence, SemReleased, CleanRetry, Ready,
         Reachable
<1> QED
  BY <1>3, <1>4, <1>5, <1>6 DEF IInv

(* An MCU that was off, hence holds no semaphore, comes up in its ROM.      *)
LEMMA PowerOnStep ==
    ASSUME TypeOK, Evidence, Expected, SemReleased, CleanRetry, Ready, PowerOn
    PROVE  IInv'
<1>1. dev' \in Device
  BY DEF PowerOn, Write, TypeOK, Device
<1>2. TypeOK'
  BY <1>1 DEF PowerOn, Write, TypeOK, Stages
<1>3. Evidence'
  BY DEF PowerOn, Write, TypeOK, Device, Evidence, Reachable
<1>4. Expected'
  BY DEF PowerOn, Write, TypeOK, Device, Expected, Evidence, Reachable
<1>5. SemReleased' /\ CleanRetry' /\ Ready'
  BY DEF PowerOn, Write, TypeOK, Device, Evidence, Expected, SemReleased,
         CleanRetry, Ready, Reachable
<1> QED
  BY <1>2, <1>3, <1>4, <1>5 DEF IInv

(* Waiting for FW_PWR_ON changes nothing.                                   *)
LEMMA PollPoweredStep ==
    ASSUME TypeOK, Evidence, Expected, SemReleased, CleanRetry,
           Ready, PollPowered
    PROVE  IInv'
<1>1. dev' \in Device
  BY DEF PollPowered, Look, TypeOK, Device
<1>2. TypeOK'
  BY <1>1 DEF PollPowered, Look, TypeOK, Stages
<1>3. Evidence'
  BY DEF PollPowered, Look, TypeOK, Device, Evidence, Reachable
<1>4. Expected'
  BY DEF PollPowered, Look, TypeOK, Device, Expected, Reachable
<1>5. SemReleased' /\ CleanRetry' /\ Ready'
  BY DEF PollPowered, Look, TypeOK, Device, Evidence, Expected, SemReleased,
         CleanRetry, Ready, Reachable
<1> QED
  BY <1>2, <1>3, <1>4, <1>5 DEF IInv

(* dma_init switches receive on and ends the flush wfsys_reset began.       *)
LEMMA DmaInitStep ==
    ASSUME TypeOK, Evidence, Expected, SemReleased, CleanRetry, Ready, DmaInit
    PROVE  IInv'
<1>1. /\ stage = "dma" /\ driver' = driver
      /\ attempt' = attempt /\ part' = part
      /\ evt_ep4' = evt_ep4 /\ semLost' = semLost
      /\ \/ dev' = AfterDmaInit /\ Go("rxidle") /\ fault' = fault
         \/ /\ \/ dev' = AfterDmaInit \/ dev' = dev \/ dev' \in Garbled
               \/ driver = "python" /\ dev' = [dev EXCEPT !.rxdma = TRUE]
            /\ fault' = TRUE
            /\ IF driver = "python" THEN Fails ELSE Go("rxidle")
  BY DEF DmaInit, Write
<1>2. /\ dev' \in Device
      /\ dev'.mcu = dev.mcu /\ dev'.sem = dev.sem
      /\ dev' = AfterDmaInit => dev'.rxdma /\ ~dev'.flush
  BY <1>1, GarbledFields DEF TypeOK, Device, AfterDmaInit
<1>3. TypeOK'
  BY <1>1, <1>2 DEF TypeOK, Stages
<1>4. Evidence'
  BY <1>1, <1>2 DEF TypeOK, Evidence, Reachable
<1>5. Expected'
  BY <1>1, <1>2 DEF TypeOK, Expected, Evidence, Reachable
<1>6. SemReleased' /\ CleanRetry' /\ Ready'
  BY <1>1, <1>2 DEF TypeOK, Evidence, SemReleased, CleanRetry, Ready,
         Reachable
<1> QED
  BY <1>3, <1>4, <1>5, <1>6 DEF IInv

(* Waiting for receive to idle changes nothing.                             *)
LEMMA RxIdleStep ==
    ASSUME TypeOK, Evidence, Expected, SemReleased, CleanRetry, Ready, RxIdle
    PROVE  IInv'
<1>1. dev' \in Device
  BY DEF RxIdle, Look, TypeOK, Device
<1>2. TypeOK'
  BY <1>1 DEF RxIdle, Look, TypeOK, Stages
<1>3. Evidence'
  BY DEF RxIdle, Look, TypeOK, Device, Evidence, Reachable
<1>4. Expected'
  BY DEF RxIdle, Look, TypeOK, Device, Expected, Reachable
<1>5. SemReleased' /\ CleanRetry' /\ Ready'
  BY DEF RxIdle, Look, TypeOK, Device, Evidence, Expected, SemReleased,
         CleanRetry, Ready, Reachable
<1> QED
  BY <1>2, <1>3, <1>4, <1>5 DEF IInv

(* Receive is off while the routing changes.                                *)
LEMMA RxOffStep ==
    ASSUME TypeOK, Evidence, Expected, SemReleased, CleanRetry, Ready, RxOff
    PROVE  IInv'
<1>1. dev' \in Device
  BY DEF RxOff, Write, TypeOK, Device
<1>2. TypeOK'
  BY <1>1 DEF RxOff, Write, TypeOK, Stages
<1>3. Evidence'
  BY DEF RxOff, Write, TypeOK, Device, Evidence, Reachable
<1>4. Expected'
  BY DEF RxOff, Write, TypeOK, Device, Expected, Reachable
<1>5. SemReleased' /\ CleanRetry' /\ Ready'
  BY DEF RxOff, Write, TypeOK, Device, Evidence, Expected, SemReleased,
         CleanRetry, Ready, Reachable
<1> QED
  BY <1>2, <1>3, <1>4, <1>5 DEF IInv

(* Replies are routed to the packet endpoint.                               *)
LEMMA RouteEventsStep ==
    ASSUME TypeOK, Evidence, Expected, SemReleased, CleanRetry,
           Ready, RouteEvents
    PROVE  IInv'
<1>1. dev' \in Device
  BY DEF RouteEvents, Write, TypeOK, Device
<1>2. TypeOK'
  BY <1>1 DEF RouteEvents, Write, TypeOK, Stages
<1>3. Evidence'
  BY DEF RouteEvents, Write, TypeOK, Device, Evidence, Reachable
<1>4. Expected'
  BY DEF RouteEvents, Write, TypeOK, Device, Expected, Reachable
<1>5. SemReleased' /\ CleanRetry' /\ Ready'
  BY DEF RouteEvents, Write, TypeOK, Device, Evidence, Expected, SemReleased,
         CleanRetry, Ready, Reachable
<1> QED
  BY <1>2, <1>3, <1>4, <1>5 DEF IInv

(* Once receive is back on, the host looks where the replies arrive.        *)
LEMMA RxOnStep ==
    ASSUME TypeOK, Evidence, Expected, SemReleased, CleanRetry, Ready, RxOn
    PROVE  IInv'
<1>1. dev' \in Device
  BY DEF RxOn, TypeOK, Device
<1>2. TypeOK'
  BY <1>1 DEF RxOn, TypeOK, Stages
<1>3. Evidence'
  BY DEF RxOn, TypeOK, Device, Evidence, Reachable
<1>4. Expected'
  BY DEF RxOn, TypeOK, Device, Expected, Reachable
<1>5. SemReleased' /\ CleanRetry' /\ Ready'
  BY DEF RxOn, TypeOK, Device, Evidence, Expected, SemReleased, CleanRetry,
         Ready, Reachable
<1> QED
  BY <1>2, <1>3, <1>4, <1>5 DEF IInv

(* The download path is open before anything is downloaded.                 *)
LEMMA OpenPathStep ==
    ASSUME TypeOK, Evidence, Expected, SemReleased, CleanRetry,
           Ready, OpenPath
    PROVE  IInv'
<1>1. dev' \in Device
  BY DEF OpenPath, Write, TypeOK, Device
<1>2. TypeOK'
  BY <1>1 DEF OpenPath, Write, TypeOK, Stages
<1>3. Evidence'
  BY DEF OpenPath, Write, TypeOK, Device, Evidence, Reachable
<1>4. Expected'
  BY DEF OpenPath, Write, TypeOK, Device, Expected, Reachable
<1>5. SemReleased' /\ CleanRetry' /\ Ready'
  BY DEF OpenPath, Write, TypeOK, Device, Evidence, Expected, SemReleased,
         CleanRetry, Ready, Reachable
<1> QED
  BY <1>2, <1>3, <1>4, <1>5 DEF IInv

(* nic_power_ctrl leaves the MCU in its ROM, the semaphore free.            *)
LEMMA RestartStep ==
    ASSUME TypeOK, Evidence, Expected, SemReleased, CleanRetry, Ready, Restart
    PROVE  IInv'
<1>1. dev' = dev \/ dev' \in AfterRestart
  BY DEF Restart, Write
<1>2. /\ dev' \in Device
      /\ dev'.sem = dev.sem /\ dev'.path = dev.path /\ dev'.route = dev.route
      /\ dev'.rxdma = dev.rxdma /\ dev'.flush = dev.flush
      /\ \/ dev' = dev
         \/ IF dev.mcu = "off" THEN dev'.mcu = "off" ELSE dev'.mcu = "rom"
  BY <1>1, AfterRestartFields DEF TypeOK
<1>3. TypeOK'
  BY <1>2 DEF Restart, Write, TypeOK, Stages
<1>4. Evidence'
  BY <1>2 DEF Restart, Write, TypeOK, Evidence, Reachable
<1>5. Expected'
  BY <1>2 DEF Restart, Write, TypeOK, Expected, Evidence, Reachable
<1>6. SemReleased' /\ CleanRetry' /\ Ready'
  BY <1>2 DEF Restart, Write, TypeOK, Evidence, SemReleased, CleanRetry,
         Ready, Reachable
<1> QED
  BY <1>3, <1>4, <1>5, <1>6 DEF IInv

(* The poll for the ROM only warns.                                         *)
LEMMA PollRomStep ==
    ASSUME TypeOK, Evidence, Expected, SemReleased, CleanRetry, Ready, PollRom
    PROVE  IInv'
<1>1. dev' \in Device
  BY DEF PollRom, Look, TypeOK, Device
<1>2. TypeOK'
  BY <1>1 DEF PollRom, Look, TypeOK, Stages
<1>3. Evidence'
  BY DEF PollRom, Look, TypeOK, Device, Evidence, Reachable
<1>4. Expected'
  BY DEF PollRom, Look, TypeOK, Device, Expected, Reachable
<1>5. SemReleased' /\ CleanRetry' /\ Ready'
  BY DEF PollRom, Look, TypeOK, Device, Evidence, Expected, SemReleased,
         CleanRetry, Ready, Reachable
<1> QED
  BY <1>2, <1>3, <1>4, <1>5 DEF IInv

(* The semaphore is free when bringup asks for it, whatever came before.    *)
LEMMA SemGetStep ==
    ASSUME TypeOK, Evidence, Expected, SemReleased, CleanRetry, Ready, SemGet
    PROVE  IInv'
<1>1. dev' \in Device
  BY DEF SemGet, Command, SemFails, TypeOK, Device
<1>2. TypeOK'
  <2>1. /\ driver' \in Drivers /\ attempt' \in 0 .. MaxAttempts
        /\ part' \in 0 .. PatchSections + RamRegions
    BY DEF SemGet, Command, SemFails, TypeOK
  <2>2. stage' \in Stages /\ result' \in {"none", "ok", "failed"}
    BY DEF SemGet, Command, SemFails, TypeOK, Stages
  <2>3. /\ giveUp' \in BOOLEAN /\ evt_ep4' \in BOOLEAN
        /\ fault' \in BOOLEAN /\ semLost' \in BOOLEAN
    BY DEF SemGet, Command, SemFails, TypeOK
  <2> QED
    BY <1>1, <2>1, <2>2, <2>3 DEF TypeOK
<1>3. Evidence'
  BY DEF SemGet, Command, SemFails, TypeOK, Device, Evidence, Reachable
<1>4. Expected'
  BY DEF SemGet, Command, SemFails, TypeOK, Device, Expected, Evidence,
         Reachable
<1>5. SemReleased' /\ CleanRetry' /\ Ready'
  BY DEF SemGet, Command, SemFails, TypeOK, Device, Evidence, Expected,
         SemReleased, CleanRetry, Ready, Reachable
<1> QED
  BY <1>2, <1>3, <1>4, <1>5 DEF IInv

(* An image that does not parse gives the semaphore back.                   *)
LEMMA PatchRejectedStep ==
    ASSUME TypeOK, Evidence, Expected, SemReleased, CleanRetry,
           Ready, PatchRejected
    PROVE  IInv'
<1>1. dev' \in Device
  BY DEF PatchRejected, Abandon, TypeOK, Device
<1>2. TypeOK'
  BY <1>1 DEF PatchRejected, Abandon, TypeOK, Stages
<1>3. Evidence'
  BY DEF PatchRejected, Abandon, TypeOK, Device, Evidence, Reachable
<1>4. Expected'
  BY DEF PatchRejected, Abandon, TypeOK, Device, Expected, Reachable
<1>5. SemReleased' /\ CleanRetry' /\ Ready'
  BY DEF PatchRejected, Abandon, TypeOK, Device, Evidence, Expected,
         SemReleased, CleanRetry, Ready, Reachable
<1> QED
  BY <1>2, <1>3, <1>4, <1>5 DEF IInv

(* A section that fails gives the semaphore back.                           *)
LEMMA PatchSectionStep ==
    ASSUME TypeOK, Evidence, Expected, SemReleased, CleanRetry,
           Ready, PatchSection
    PROVE  IInv'
<1>1. dev' \in Device
  BY DEF PatchSection, Command, Abandon, TypeOK, Device
<1>2. TypeOK'
  <2>1. /\ driver' \in Drivers /\ attempt' \in 0 .. MaxAttempts
        /\ part' \in 0 .. PatchSections + RamRegions
    BY DEF PatchSection, Command, Abandon, TypeOK, Evidence
  <2>2. stage' \in Stages /\ result' \in {"none", "ok", "failed"}
    BY DEF PatchSection, Command, Abandon, TypeOK, Stages
  <2>3. /\ giveUp' \in BOOLEAN /\ evt_ep4' \in BOOLEAN
        /\ fault' \in BOOLEAN /\ semLost' \in BOOLEAN
    BY DEF PatchSection, Command, Abandon, TypeOK
  <2> QED
    BY <1>1, <2>1, <2>2, <2>3 DEF TypeOK
<1>3. Evidence'
  BY DEF PatchSection, Command, Abandon, TypeOK, Device, Evidence, Expected,
         Reachable
<1>4. Expected'
  BY DEF PatchSection, Command, Abandon, TypeOK, Device, Expected, Reachable
<1>5. SemReleased' /\ CleanRetry' /\ Ready'
  BY DEF PatchSection, Command, Abandon, TypeOK, Device, Evidence, Expected,
         SemReleased, CleanRetry, Ready, Reachable
<1> QED
  BY <1>2, <1>3, <1>4, <1>5 DEF IInv

(* PATCH_FINISH_REQ, answered or not, is followed by the release.           *)
LEMMA StartPatchStep ==
    ASSUME TypeOK, Evidence, Expected, SemReleased, CleanRetry,
           Ready, StartPatch
    PROVE  IInv'
<1>1. dev' \in Device
  BY DEF StartPatch, Command, Abandon, TypeOK, Device
<1>2. TypeOK'
  BY <1>1 DEF StartPatch, Command, Abandon, TypeOK, Stages
<1>3. Evidence'
  BY DEF StartPatch, Command, Abandon, TypeOK, Device, Evidence, Expected,
         Reachable
<1>4. Expected'
  BY DEF StartPatch, Command, Abandon, TypeOK, Device, Expected, Reachable
<1>5. SemReleased' /\ CleanRetry' /\ Ready'
  BY DEF StartPatch, Command, Abandon, TypeOK, Device, Evidence, Expected,
         SemReleased, CleanRetry, Ready, Reachable
<1> QED
  BY <1>2, <1>3, <1>4, <1>5 DEF IInv

(* load_patch succeeds only with the patch applied.                         *)
LEMMA SemReleaseStep ==
    ASSUME TypeOK, Evidence, Expected, SemReleased, CleanRetry,
           Ready, SemRelease
    PROVE  IInv'
<1>1. dev' \in Device
  BY DEF SemRelease, Command, AfterRelease, TypeOK, Device
<1>2. TypeOK'
  <2>1. /\ driver' \in Drivers /\ attempt' \in 0 .. MaxAttempts
        /\ part' \in 0 .. PatchSections + RamRegions
    BY DEF SemRelease, Command, AfterRelease, TypeOK
  <2>2. stage' \in Stages /\ result' \in {"none", "ok", "failed"}
    BY DEF SemRelease, Command, AfterRelease, TypeOK, Stages
  <2>3. /\ giveUp' \in BOOLEAN /\ evt_ep4' \in BOOLEAN
        /\ fault' \in BOOLEAN /\ semLost' \in BOOLEAN
    BY DEF SemRelease, Command, AfterRelease, TypeOK
  <2> QED
    BY <1>1, <2>1, <2>2, <2>3 DEF TypeOK
<1>3. Evidence'
  BY DEF SemRelease, Command, AfterRelease, TypeOK, Device, Evidence,
         Reachable
<1>4. Expected'
  BY DEF SemRelease, Command, AfterRelease, TypeOK, Device, Expected,
         Reachable
<1>5. SemReleased' /\ CleanRetry' /\ Ready'
  BY DEF SemRelease, Command, AfterRelease, TypeOK, Device, Evidence,
         Expected, SemReleased, CleanRetry, Ready, Reachable
<1> QED
  BY <1>2, <1>3, <1>4, <1>5 DEF IInv

(* A RAM image that does not parse ends the attempt.                        *)
LEMMA RamRejectedStep ==
    ASSUME TypeOK, Evidence, Expected, SemReleased, CleanRetry,
           Ready, RamRejected
    PROVE  IInv'
<1>1. dev' \in Device
  BY DEF RamRejected, RamFails, TypeOK, Device
<1>2. TypeOK'
  BY <1>1 DEF RamRejected, RamFails, TypeOK, Stages
<1>3. Evidence'
  BY DEF RamRejected, RamFails, TypeOK, Device, Evidence, Reachable
<1>4. Expected'
  BY DEF RamRejected, RamFails, TypeOK, Device, Expected, Reachable
<1>5. SemReleased' /\ CleanRetry' /\ Ready'
  BY DEF RamRejected, RamFails, TypeOK, Device, Evidence, Expected,
         SemReleased, CleanRetry, Ready, Reachable
<1> QED
  BY <1>2, <1>3, <1>4, <1>5 DEF IInv

(* The last region completes the image of this attempt.                     *)
LEMMA RamRegionStep ==
    ASSUME TypeOK, Evidence, Expected, SemReleased, CleanRetry,
           Ready, RamRegion
    PROVE  IInv'
<1>1. dev' \in Device
  BY DEF RamRegion, Command, RamFails, TypeOK, Device
<1>2. TypeOK'
  <2>1. /\ driver' \in Drivers /\ attempt' \in 0 .. MaxAttempts
        /\ part' \in 0 .. PatchSections + RamRegions
    BY DEF RamRegion, Command, RamFails, TypeOK, Evidence
  <2>2. stage' \in Stages /\ result' \in {"none", "ok", "failed"}
    BY DEF RamRegion, Command, RamFails, TypeOK, Stages
  <2>3. /\ giveUp' \in BOOLEAN /\ evt_ep4' \in BOOLEAN
        /\ fault' \in BOOLEAN /\ semLost' \in BOOLEAN
    BY DEF RamRegion, Command, RamFails, TypeOK
  <2> QED
    BY <1>1, <2>1, <2>2, <2>3 DEF TypeOK
<1>3. Evidence'
  BY DEF RamRegion, Command, RamFails, TypeOK, Device, Evidence, Reachable
<1>4. Expected'
  BY DEF RamRegion, Command, RamFails, TypeOK, Device, Expected, Reachable
<1>5. SemReleased' /\ CleanRetry' /\ Ready'
  BY DEF RamRegion, Command, RamFails, TypeOK, Device, Evidence, Expected,
         SemReleased, CleanRetry, Ready, Reachable
<1> QED
  BY <1>2, <1>3, <1>4, <1>5 DEF IInv

(* The firmware that starts is the image of this attempt.                   *)
LEMMA StartFirmwareStep ==
    ASSUME TypeOK, Evidence, Expected, SemReleased, CleanRetry,
           Ready, StartFirmware
    PROVE  IInv'
<1>1. dev' \in Device
  BY DEF StartFirmware, Command, RamFails, TypeOK, Device
<1>2. TypeOK'
  BY <1>1 DEF StartFirmware, Command, RamFails, TypeOK, Stages
<1>3. Evidence'
  BY DEF StartFirmware, Command, RamFails, TypeOK, Device, Evidence, Reachable
<1>4. Expected'
  BY DEF StartFirmware, Command, RamFails, TypeOK, Device, Expected, Reachable
<1>5. SemReleased' /\ CleanRetry' /\ Ready'
  BY DEF StartFirmware, Command, RamFails, TypeOK, Device, Evidence, Expected,
         SemReleased, CleanRetry, Ready, Reachable
<1> QED
  BY <1>2, <1>3, <1>4, <1>5 DEF IInv

(* N9_RDY is seen on the firmware this attempt started.                     *)
LEMMA PollReadyStep ==
    ASSUME TypeOK, Evidence, Expected, SemReleased, CleanRetry,
           Ready, PollReady
    PROVE  IInv'
<1>1. dev' \in Device
  BY DEF PollReady, Look, TypeOK, Device
<1>2. TypeOK'
  BY <1>1 DEF PollReady, Look, TypeOK, Stages
<1>3. Evidence'
  BY DEF PollReady, Look, TypeOK, Evidence, Reachable
<1>4. Expected'
  BY DEF PollReady, Look, TypeOK, Expected, Reachable
<1>5. SemReleased' /\ CleanRetry' /\ Ready'
  BY DEF PollReady, Look, TypeOK, Device, Evidence, Expected, SemReleased,
         CleanRetry, Ready, Reachable
<1> QED
  BY <1>2, <1>3, <1>4, <1>5 DEF IInv

(* The download path is closed before the first command to it.              *)
LEMMA ClosePathStep ==
    ASSUME TypeOK, Evidence, Expected, SemReleased, CleanRetry,
           Ready, ClosePath
    PROVE  IInv'
<1>1. dev' \in Device
  BY DEF ClosePath, Write, TypeOK, Device
<1>2. TypeOK'
  BY <1>1 DEF ClosePath, Write, TypeOK, Stages
<1>3. Evidence'
  BY DEF ClosePath, Write, TypeOK, Device, Evidence, Reachable
<1>4. Expected'
  BY DEF ClosePath, Write, TypeOK, Device, Expected, Reachable
<1>5. SemReleased' /\ CleanRetry' /\ Ready'
  BY DEF ClosePath, Write, TypeOK, Device, Evidence, Expected, SemReleased,
         CleanRetry, Ready, Reachable
<1> QED
  BY <1>2, <1>3, <1>4, <1>5 DEF IInv

(* An answer to get_nic_capability proves the firmware runs.                *)
LEMMA NicCapabilityStep ==
    ASSUME TypeOK, Evidence, Expected, SemReleased, CleanRetry,
           Ready, NicCapability
    PROVE  IInv'
<1>1. dev' \in Device
  BY DEF NicCapability, Command, RamFails, TypeOK, Device
<1>2. TypeOK'
  BY <1>1 DEF NicCapability, Command, RamFails, TypeOK, Stages
<1>3. Evidence'
  BY DEF NicCapability, Command, RamFails, TypeOK, Device, Evidence, Reachable
<1>4. Expected'
  BY DEF NicCapability, Command, RamFails, TypeOK, Device, Expected, Evidence,
         Reachable
<1>5. SemReleased' /\ CleanRetry' /\ Ready'
  BY DEF NicCapability, Command, RamFails, TypeOK, Device, Evidence, Expected,
         SemReleased, CleanRetry, Ready, Reachable
<1> QED
  BY <1>2, <1>3, <1>4, <1>5 DEF IInv

(* The answer to set_eeprom makes the bring-up ready.                       *)
LEMMA SetEepromStep ==
    ASSUME TypeOK, Evidence, Expected, SemReleased, CleanRetry,
           Ready, SetEeprom
    PROVE  IInv'
<1>1. dev' \in Device
  BY DEF SetEeprom, Command, RamFails, TypeOK, Device
<1>2. TypeOK'
  BY <1>1 DEF SetEeprom, Command, RamFails, TypeOK, Stages
<1>3. Evidence'
  BY DEF SetEeprom, Command, RamFails, TypeOK, Device, Evidence, Reachable
<1>4. Expected'
  BY DEF SetEeprom, Command, RamFails, TypeOK, Device, Expected, Reachable
<1>5. SemReleased' /\ CleanRetry' /\ Ready'
  BY DEF SetEeprom, Command, RamFails, TypeOK, Device, Evidence, Expected,
         SemReleased, CleanRetry, Ready, Reachable
<1> QED
  BY <1>2, <1>3, <1>4, <1>5 DEF IInv

(* The firmware coming up disturbs nothing.                                 *)
LEMMA BootStep ==
    ASSUME TypeOK, Evidence, Expected, SemReleased, CleanRetry, Ready, Boot
    PROVE  IInv'
<1>1. dev' \in Device
  BY DEF Boot, TypeOK, Device
<1>2. TypeOK'
  BY <1>1 DEF Boot, TypeOK, Stages
<1>3. Evidence'
  BY DEF Boot, TypeOK, Device, Evidence, Reachable
<1>4. Expected'
  BY DEF Boot, TypeOK, Device, Expected, Reachable
<1>5. SemReleased' /\ CleanRetry' /\ Ready'
  BY DEF Boot, TypeOK, Device, Evidence, Expected, SemReleased, CleanRetry,
         Ready, Reachable
<1> QED
  BY <1>2, <1>3, <1>4, <1>5 DEF IInv

(* A process that dies leaves its debts to the next one.                    *)
LEMMA ReopenStep ==
    ASSUME TypeOK, Evidence, Expected, SemReleased, CleanRetry, Ready, Reopen
    PROVE  IInv'
<1>1. dev' \in Device
  BY DEF Reopen, TypeOK, Device
<1>2. TypeOK'
  BY <1>1 DEF Reopen, TypeOK, Stages
<1>3. Evidence'
  BY DEF Reopen, TypeOK, Device, Evidence, Reachable
<1>4. Expected'
  BY DEF Reopen, TypeOK, Device, Expected, Reachable
<1>5. SemReleased' /\ CleanRetry' /\ Ready'
  BY DEF Reopen, TypeOK, Device, Evidence, Expected, SemReleased, CleanRetry,
         Ready, Reachable
<1> QED
  BY <1>2, <1>3, <1>4, <1>5 DEF IInv

(* A replugged adapter owes nothing.                                        *)
LEMMA ReplugStep ==
    ASSUME TypeOK, Evidence, Expected, SemReleased, CleanRetry, Ready, Replug
    PROVE  IInv'
<1>1. dev' \in Device
  BY DEF Replug, Plugged, TypeOK, Device
<1>2. TypeOK'
  BY <1>1 DEF Replug, Plugged, TypeOK, Stages
<1>3. Evidence'
  BY DEF Replug, Plugged, TypeOK, Device, Evidence, Reachable
<1>4. Expected'
  BY DEF Replug, Plugged, TypeOK, Device, Expected, Reachable
<1>5. SemReleased' /\ CleanRetry' /\ Ready'
  BY DEF Replug, Plugged, TypeOK, Device, Evidence, Expected, SemReleased,
         CleanRetry, Ready, Reachable
<1> QED
  BY <1>2, <1>3, <1>4, <1>5 DEF IInv

-----------------------------------------------------------------------------
(* A fresh adapter and host satisfy the invariant.                           *)
LEMMA InitIInv == Init => IInv
<1> SUFFICES ASSUME Init PROVE IInv
  OBVIOUS
<1>1. dev \in Device /\ ~dev.sem
  BY DEF Init, Plugged, Device
<1>2. TypeOK
  <2>1. /\ driver \in Drivers /\ attempt \in 0 .. MaxAttempts
        /\ part \in 0 .. PatchSections + RamRegions
    BY DEF Init
  <2>2. stage \in Stages /\ result \in {"none", "ok", "failed"}
    BY DEF Init, Stages
  <2> QED
    BY <1>1, <2>1, <2>2 DEF Init, TypeOK
<1>3. Evidence /\ Expected /\ SemReleased /\ CleanRetry /\ Ready
  BY <1>1 DEF Init, Evidence, Expected, SemReleased, CleanRetry, Ready
<1> QED
  BY <1>2, <1>3 DEF IInv

(* Every step keeps it.                                                      *)
LEMMA NextIInv == IInv /\ [Next]_vars => IInv'
<1> SUFFICES ASSUME IInv, [Next]_vars PROVE IInv'
  OBVIOUS
<1> USE DEF IInv
<1>1. CASE UNCHANGED vars
  BY <1>1 DEF vars, TypeOK, Evidence, Expected, SemReleased, CleanRetry,
     Ready, Reachable
<1>2. CASE Prepare
  BY <1>2, UsbResetStep, ProbeStep, WfsysResetStep, PowerOnStep,
     PollPoweredStep, DmaInitStep, RxIdleStep, RxOffStep, RouteEventsStep,
     RxOnStep, OpenPathStep, RestartStep, PollRomStep DEF Prepare
<1>3. CASE LoadPatch
  BY <1>3, SemGetStep, PatchRejectedStep, PatchSectionStep, StartPatchStep,
     SemReleaseStep DEF LoadPatch
<1>4. CASE LoadRam
  BY <1>4, RamRejectedStep, RamRegionStep, StartFirmwareStep DEF LoadRam
<1>5. CASE Finish
  BY <1>5, PollReadyStep, ClosePathStep, NicCapabilityStep, SetEepromStep
     DEF Finish
<1> QED
  BY <1>1, <1>2, <1>3, <1>4, <1>5, BeginStep, BootStep, ReopenStep,
     ReplugStep DEF Next

(* The invariant holds throughout.                                           *)
THEOREM BringupInvariant == Spec => []IInv
  BY InitIInv, NextIInv, PTL DEF Spec

(* Every variable of the bring-up, host and adapter, keeps its type.         *)
THEOREM BringupTypes == Spec => []TypeOK
<1>1. IInv => TypeOK
  BY DEF IInv
<1> QED
  BY <1>1, BringupInvariant, PTL

(* A bring-up that returns success left this attempt's firmware running,     *)
(* patched and reachable (bringup, mt7921_bringup).                          *)
THEOREM SuccessIsReady == Spec => []Ready
<1>1. IInv => Ready
  BY DEF IInv
<1> QED
  BY <1>1, BringupInvariant, PTL

(* Nothing an earlier attempt or a killed process left on the adapter makes  *)
(* a bring-up fail: a failure is due to a fault of its own attempt.          *)
THEOREM RetriesAreClean == Spec => []CleanRetry
<1>1. IInv => CleanRetry
  BY DEF IInv
<1> QED
  BY <1>1, BringupInvariant, PTL

(* load_patch returns the patch semaphore on every path, unless a semaphore  *)
(* command was lost or the process died holding it.                          *)
THEOREM SemaphoreReturned == Spec => []SemReleased
<1>1. IInv => SemReleased
  BY DEF IInv
<1> QED
  BY <1>1, BringupInvariant, PTL

(* Firmware is sent only to an MCU in its ROM with the download path open.   *)
THEOREM DownloadsToRom == Spec => []DownloadToRom
<1>1. IInv => DownloadToRom
  <2>1. IInv => driver \in {"python", "c"}
    BY DEF IInv, TypeOK
  <2> QED
    BY <2>1 DEF IInv, Evidence, Expected, DownloadToRom
<1> QED
  BY <1>1, BringupInvariant, PTL

-----------------------------------------------------------------------------
(* Bring-up implements BootService                                           *)

Firmware == IF dev.mcu = "running" THEN dev.image ELSE 0

(* The strengthening the refinement needs: firmware that has been started    *)
(* but does not answer yet is that of a bring-up of this adapter.            *)
Started ==
    /\ stage # "idle" => attempt > 0
    /\ dev.mcu = "booting" => dev.image \in 1 .. attempt

(* Inside a bring-up, what an access can do to the firmware, as those who    *)
(* see only whether it runs see it: leave it alone or stop it.               *)
Access ==
    /\ stage # "idle" /\ attempt' = attempt
    /\ Firmware' \in {Firmware, 0}
    /\ dev'.mcu = "booting" =>
          \/ dev.mcu = "booting" /\ dev'.image = dev.image
          \/ dev'.image = attempt
    /\ stage' = "idle" => result' = "failed"

(* Every access before the download is one.                                  *)
LEMMA PrepareAccess ==
    ASSUME TypeOK, Prepare
    PROVE  Access
<1>1. dev.mcu \in {"off", "rom", "booting", "running"}
  BY DEF TypeOK, Device
<1>2. CASE UsbReset \/ Probe
  BY <1>1, <1>2 DEF UsbReset, Probe, Access, Firmware
<1>3. CASE PollPowered \/ RxIdle \/ PollRom
  BY <1>1, <1>3 DEF PollPowered, RxIdle, PollRom, Look, Access, Firmware
<1>4. CASE WfsysReset
  <2>1. \A d \in AfterReset : d.mcu = "off"
    BY AfterResetFields DEF TypeOK
  <2>2. dev' = dev \/ dev'.mcu = "off" \/ dev' = [dev EXCEPT !.flush = TRUE]
    BY <1>4, <2>1 DEF WfsysReset
  <2> QED
    BY <1>1, <1>4, <2>2 DEF WfsysReset, Access, Firmware, TypeOK, Device
<1>5. CASE PowerOn \/ RxOff \/ RouteEvents \/ OpenPath
  BY <1>1, <1>5
     DEF PowerOn, RxOff, RouteEvents, OpenPath, Write, Access, Firmware,
         TypeOK, Device
<1>6. CASE DmaInit
  <2>1. \A d \in Garbled : d.mcu = dev.mcu /\ d.image = dev.image
    BY GarbledFields DEF TypeOK
  <2> QED
    BY <1>1, <1>6, <2>1
       DEF DmaInit, Write, AfterDmaInit, Access, Firmware, TypeOK, Device
<1>7. CASE RxOn
  BY <1>1, <1>7 DEF RxOn, Access, Firmware, TypeOK, Device
<1>8. CASE Restart
  <2>1. \A d \in AfterRestart : d.mcu \in {"off", "rom"}
    BY AfterRestartFields DEF TypeOK
  <2> QED
    BY <1>1, <1>8, <2>1 DEF Restart, Write, Access, Firmware
<1> QED
  BY <1>2, <1>3, <1>4, <1>5, <1>6, <1>7, <1>8 DEF Prepare

(* And every one of the download.                                            *)
LEMMA LoadAccess ==
    ASSUME TypeOK, Evidence, LoadPatch \/ LoadRam
    PROVE  Access
<1>1. dev.mcu \in {"off", "rom", "booting", "running"}
  BY DEF TypeOK, Device
<1>2. CASE SemGet
  BY <1>1, <1>2 DEF SemGet, SemFails, Command, Access, Firmware, TypeOK, Device
<1>3. CASE PatchRejected \/ RamRejected
  BY <1>1, <1>3 DEF PatchRejected, RamRejected, RamFails, Abandon, Access, Firmware
<1>4. CASE PatchSection
  BY <1>1, <1>4 DEF PatchSection, Command, Abandon, Access, Firmware
<1>5. CASE StartPatch
  BY <1>1, <1>5 DEF StartPatch, Command, Abandon, Access, Firmware, TypeOK, Device
<1>6. CASE SemRelease
  BY <1>1, <1>6
     DEF SemRelease, Command, AfterRelease, Access, Firmware, TypeOK, Device
<1>7. CASE RamRegion
  BY <1>1, <1>7 DEF RamRegion, Command, RamFails, Access, Firmware, TypeOK, Device
<1>8. CASE StartFirmware
  BY <1>1, <1>8
     DEF StartFirmware, Command, RamFails, Access, Firmware, TypeOK, Device, Evidence
<1> QED
  BY <1>2, <1>3, <1>4, <1>5, <1>6, <1>7, <1>8 DEF LoadPatch, LoadRam

(* And those after it, but for the success itself.                           *)
LEMMA FinishAccess ==
    ASSUME TypeOK, Finish
    PROVE  \/ Access
           \/ /\ stage = "eeprom" /\ stage' = "idle" /\ result' = "ok"
              /\ UNCHANGED <<attempt, dev>>
<1>1. dev.mcu \in {"off", "rom", "booting", "running"}
  BY DEF TypeOK, Device
<1>2. CASE PollReady
  BY <1>1, <1>2 DEF PollReady, Look, Access, Firmware
<1>3. CASE ClosePath
  BY <1>1, <1>3 DEF ClosePath, Write, Access, Firmware, TypeOK, Device
<1>4. CASE NicCapability
  BY <1>1, <1>4 DEF NicCapability, Command, RamFails, Access, Firmware
<1>5. CASE SetEeprom
  BY <1>1, <1>5 DEF SetEeprom, Command, RamFails, Access, Firmware
<1> QED
  BY <1>2, <1>3, <1>4, <1>5 DEF Finish

(* Started is inductive relative to the invariant.                           *)
LEMMA StartedStep ==
    ASSUME TypeOK, Evidence, Started, [Next]_vars
    PROVE  Started'
<1>1. attempt \in Nat
  BY DEF TypeOK
<1>2. ASSUME Access
      PROVE  Started'
  BY <1>1, <1>2 DEF Access, Started
<1>3. CASE Begin
  BY <1>1, <1>3 DEF Begin, Started
<1>4. CASE Prepare \/ LoadPatch \/ LoadRam
  BY <1>2, <1>4, PrepareAccess, LoadAccess
<1>5. CASE Finish
  BY <1>2, <1>5, FinishAccess DEF Started
<1>6. CASE Boot
  BY <1>6 DEF Boot, Started, TypeOK, Device
<1>7. CASE Reopen
  BY <1>7 DEF Reopen, Started
<1>8. CASE Replug
  BY <1>8 DEF Replug, Plugged, Started
<1>9. CASE UNCHANGED vars
  BY <1>9 DEF vars, Started
<1> QED
  BY <1>3, <1>4, <1>5, <1>6, <1>7, <1>8, <1>9 DEF Next

(* Every step of a bring-up is a step of the service, or none.               *)
LEMMA ServiceStep ==
    ASSUME TypeOK, Evidence, Started, [Next]_vars
    PROVE  [Service!Next]_(Service!bootVars)
<1> DEFINE Session == IF stage = "idle" THEN result ELSE "trying"
           Same == UNCHANGED <<attempt, Session, Firmware>>
<1>a. SUFFICES Service!Next \/ Same
  BY DEF Service!bootVars, Firmware
<1>b. result \in {"none", "ok", "failed"} /\ attempt \in Nat
  BY DEF TypeOK
<1>1. CASE Begin
  <2>1. Service!Try
    BY <1>1, <1>b DEF Begin, Service!Try, Firmware
  <2> QED
    BY <2>1 DEF Service!Next
<1>2. ASSUME Access
      PROVE  Service!Next \/ Same
  <2>1. CASE stage' = "idle"
    <3>1. Service!Fail
      BY <1>2, <2>1 DEF Access, Service!Fail, Firmware
    <3> QED
      BY <3>1 DEF Service!Next
  <2>2. CASE stage' # "idle" /\ Firmware' = Firmware
    BY <1>2, <2>2 DEF Access
  <2>3. CASE stage' # "idle" /\ Firmware' = 0
    <3>1. Service!Stop
      BY <1>2, <2>3 DEF Access, Service!Stop, Firmware
    <3> QED
      BY <3>1 DEF Service!Next
  <2> QED
    BY <1>2, <2>1, <2>2, <2>3 DEF Access
<1>3. CASE Prepare \/ LoadPatch \/ LoadRam
  BY <1>2, <1>3, PrepareAccess, LoadAccess
<1>4. CASE Finish
  <2>1. CASE Access
    BY <1>2, <2>1
  <2>2. CASE /\ stage = "eeprom" /\ stage' = "idle" /\ result' = "ok"
             /\ UNCHANGED <<attempt, dev>>
    <3>1. Service!Succeed
      BY <2>2 DEF Evidence, Service!Succeed
    <3> QED
      BY <3>1 DEF Service!Next
  <2> QED
    BY <1>4, <2>1, <2>2, FinishAccess
<1>5. CASE Boot
  <2>1. Service!Start
    BY <1>5 DEF Boot, Started, Service!Start, TypeOK, Device
  <2> QED
    BY <2>1 DEF Service!Next
<1>6. CASE Reopen
  <2>1. Service!Reopen
    BY <1>6 DEF Reopen, Service!Reopen
  <2> QED
    BY <2>1 DEF Service!Next
<1>7. CASE Replug
  <2>1. Service!Replug
    BY <1>7 DEF Replug, Plugged, Service!Replug
  <2> QED
    BY <2>1 DEF Service!Next
<1>8. CASE UNCHANGED vars
  BY <1>8 DEF vars, Firmware
<1> QED
  BY <1>1, <1>3, <1>4, <1>5, <1>6, <1>7, <1>8 DEF Next

(* Whatever fails on the way, and whoever dies: firmware that runs is        *)
(* stopped by a bring-up or by unplugging and by nothing else, and success   *)
(* is this bring-up's own firmware running (bringup, mt7921_bringup). Those  *)
(* for whom bring-up is one step may take it for that.                       *)
THEOREM ServiceImplemented == Spec => ImplementsService
<1>1. Init => Service!Init
  BY DEF Init, Plugged, Service!Init
<1>2. Init => Started
  BY DEF Init, Plugged, Started
<1>3. IInv /\ Started /\ [Next]_vars => Started'
  BY StartedStep DEF IInv
<1>4. IInv /\ Started /\ [Next]_vars => [Service!Next]_(Service!bootVars)
  BY ServiceStep DEF IInv
<1> QED
  BY <1>1, <1>2, <1>3, <1>4, BringupInvariant, PTL
     DEF Spec, ImplementsService, Service!Spec
=============================================================================
