------------------------------ MODULE Bringup ------------------------------
(***************************************************************************)
(* From an open USB device to running firmware: Mt7921uDevice.bringup of   *)
(* mt7921u.py ("python") and mt7921_bringup of c/mt7921_dev.c ("c"), with  *)
(* load_patch, load_ram and the waits they make, the MCU they drive, and   *)
(* the process that may die and be started again on the same adapter at    *)
(* any point, with the same driver or the other.                           *)
(*                                                                         *)
(* A stage is the next access bringup makes. Python raises on an access    *)
(* that fails and so abandons the attempt there; the C register helpers    *)
(* return nothing (a failed read reads as all ones), so the C attempt      *)
(* carries on after a failed read or write and only stops where it tests   *)
(* a result.                                                               *)
(***************************************************************************)
EXTENDS Integers

CONSTANTS
    Drivers,        \* the drivers in use: "python", "c" or both
    MaxAttempts,    \* bound: bring-ups in a behaviour
    PatchSections,  \* sections of the ROM patch image
    RamRegions      \* downloadable regions of the RAM image

ASSUME BringupAssumption ==
    /\ Drivers \subseteq {"python", "c"}
    /\ MaxAttempts \in Nat
    /\ PatchSections \in Nat \ {0}
    /\ RamRegions \in Nat \ {0}

VARIABLES
    driver,     \* the driver of the process that has the device open
    stage,      \* "idle", or the next access of the bring-up under way
    result,     \* what the last bring-up returned: "none", "ok", "failed"
    attempt,    \* how many have been started
    part,       \* sections or regions already sent by load_patch, load_ram
    giveUp,     \* load_patch is releasing the semaphore on its way to failing
    evt_ep4,    \* the host expects replies on the packet endpoint
    dev,        \* the adapter
    fault,      \* history: the USB or the MCU let this attempt down
    semLost     \* history: a semaphore command failed, or its process died

vars == <<driver, stage, result, attempt, part, giveUp, evt_ep4, dev, fault,
          semLost>>

Stages ==
    {"idle", "reset", "probe", "wfsys", "power", "powered", "dma", "rxidle",
     "rxoff", "route", "rxon", "open", "restart", "pollrom", "semget",
     "patch", "finish", "release", "ram", "start", "pollready", "close",
     "caps", "eeprom"}

(* The MCU: FW_STATE 0; PWR_ON, which accepts a download; started but not   *)
(* yet answering; N9_RDY. image is the attempt whose RAM image it holds.    *)
Device ==
    [mcu : {"off", "rom", "booting", "running"},
     patched : BOOLEAN, sem : BOOLEAN, image : Nat,
     path : BOOLEAN,     \* MT_FW_DL_EN
     route : BOOLEAN,    \* USB_RXEVT_EP4_EN
     rxdma : BOOLEAN,    \* RX_DMA_EN
     flush : BOOLEAN]    \* MT_WL_RX_FLUSH

Plugged == [mcu |-> "off", patched |-> FALSE, sem |-> FALSE, image |-> 0,
            path |-> FALSE, route |-> FALSE, rxdma |-> FALSE,
            flush |-> FALSE]

Init ==
    /\ driver \in Drivers
    /\ stage = "idle"
    /\ result = "none"
    /\ attempt = 0
    /\ part = 0
    /\ giveUp = FALSE
    /\ evt_ep4 = FALSE
    /\ dev = Plugged
    /\ fault = FALSE
    /\ semLost = FALSE

-----------------------------------------------------------------------------
(* How an access ends                                                       *)

Go(to) == stage' = to /\ UNCHANGED <<result, giveUp>>
Fails == stage' = "idle" /\ result' = "failed" /\ giveUp' = FALSE

Host == <<driver, attempt, part, evt_ep4, semLost>>

(* A read, or a poll that may read what it wants to see: sees says whether  *)
(* the device shows it, strict whether bringup stops when it does not.      *)
(* ones: all-ones satisfies the poll, so in C a failed read does.           *)
Look(at, to, sees, strict, ones) ==
    /\ stage = at
    /\ UNCHANGED <<dev, Host>>
    /\ \/ sees /\ Go(to) /\ UNCHANGED fault
       \/ /\ fault' = TRUE             \* the MCU was too slow to show it
          /\ IF strict THEN Fails ELSE Go(to)
       \/ /\ fault' = TRUE             \* the read itself failed
          /\ IF driver = "c" /\ (ones \/ ~strict) THEN Go(to) ELSE Fails

(* A register write (mostly read-modify-write) that leaves the device in    *)
(* one of the states ds. One that fails may have taken effect.              *)
Write(at, to, ds) ==
    /\ stage = at
    /\ UNCHANGED Host
    /\ \/ dev' \in ds /\ Go(to) /\ UNCHANGED fault
       \/ /\ dev' \in ds \cup {dev}
          /\ fault' = TRUE
          /\ IF driver = "python" THEN Fails ELSE Go(to)

(* mcu_wait reads the endpoint evt_ep4 names; the device must route replies *)
(* there, and its receive path must be on.                                  *)
Reachable == evt_ep4 = dev.route /\ dev.rxdma /\ ~dev.flush

(* A command that waits for a reply: the MCU takes it only if takes holds,  *)
(* and the host sees the reply only if it is reachable. done is what the    *)
(* host does next on success, lost on failure.                              *)
Command(takes, after, done, lost) ==
    \/ /\ takes /\ Reachable
       /\ dev' = after
       /\ done
       /\ UNCHANGED fault
    \/ /\ ~(takes /\ Reachable)
       /\ dev' = IF takes THEN after ELSE dev
       /\ lost
       /\ UNCHANGED fault
    \/ /\ dev' \in {dev} \cup (IF takes THEN {after} ELSE {})
       /\ lost
       /\ fault' = TRUE

-----------------------------------------------------------------------------
(* bringup, up to the download                                              *)

Begin ==
    /\ stage = "idle"
    /\ attempt < MaxAttempts
    /\ attempt' = attempt + 1
    /\ stage' = "reset"
    /\ result' = "none"
    /\ fault' = FALSE
    /\ UNCHANGED <<driver, part, giveUp, evt_ep4, dev, semLost>>

(* dev.reset(): the USB bus reset; an error is logged and ignored.          *)
UsbReset ==
    /\ stage = "reset"
    /\ Go("probe")
    /\ UNCHANGED <<Host, dev, fault>>

(* Faulty variant: only firmware that runs is reset.                        *)
ProbeRunningOnly ==
    /\ stage = "probe"
    /\ UNCHANGED <<Host, dev>>
    /\ \/ /\ Go(IF dev.mcu # "running" THEN "power" ELSE "wfsys")
          /\ UNCHANGED fault
       \/ /\ fault' = TRUE
          /\ IF driver = "python" THEN Fails ELSE Go("wfsys")

(* Faulty variant: firmware that runs already is taken over.                *)
ProbeTakesOver ==
    /\ stage = "probe"
    /\ UNCHANGED <<Host, dev>>
    /\ \/ /\ Go(CASE dev.mcu = "off" -> "power"
                  [] dev.mcu = "running" -> "caps"
                  [] OTHER -> "wfsys")
          /\ UNCHANGED fault
       \/ /\ fault' = TRUE
          /\ IF driver = "python" THEN Fails ELSE Go("wfsys")

(* Any retained FW_STATE bit calls for a WFSYS reset; a failed read is all  *)
(* ones in C and so does too.                                               *)
Probe ==
    /\ stage = "probe"
    /\ UNCHANGED <<Host, dev>>
    /\ \/ /\ Go(IF dev.mcu = "off" THEN "power" ELSE "wfsys")
          /\ UNCHANGED fault
       \/ /\ fault' = TRUE
          /\ IF driver = "python" THEN Fails ELSE Go("wfsys")

(* wait_udma_idle flushes the receive path; the reset stops the MCU and     *)
(* frees the patch semaphore. The ROM may keep an applied patch, the WFDMA  *)
(* registers may or may not be cleared. C ignores a reset that times out.   *)
AfterReset ==
    {[dev EXCEPT !.mcu = "off", !.sem = FALSE, !.image = 0, !.flush = TRUE,
                 !.patched = p, !.route = r, !.rxdma = x] :
        p \in {dev.patched, FALSE}, r \in {dev.route, FALSE},
        x \in {dev.rxdma, FALSE}}

WfsysReset ==
    /\ stage = "wfsys"
    /\ UNCHANGED <<driver, attempt, part, evt_ep4>>
    /\ \/ /\ dev' \in AfterReset
          /\ semLost' = FALSE
          /\ Go("power")
          /\ UNCHANGED fault
       \/ /\ dev' \in AfterReset \cup {dev, [dev EXCEPT !.flush = TRUE]}
          /\ semLost' = (semLost /\ dev'.sem)
          /\ fault' = TRUE
          /\ IF driver = "python" THEN Fails ELSE Go("power")

PowerOn ==
    Write("power", "powered",
          {[dev EXCEPT !.mcu = IF @ = "off" THEN "rom" ELSE @]})

PollPowered == Look("powered", "dma", dev.mcu # "off", TRUE, TRUE)

(* wfdma_init enables RX DMA, the rest of dma_init ends the flush. A Python *)
(* bring-up may fail between the two. A C read-modify-write of WLCFG_0      *)
(* whose read failed sets the flush bit again.                              *)
AfterDmaInit == [dev EXCEPT !.rxdma = TRUE, !.flush = FALSE]

Garbled == {[dev EXCEPT !.flush = f, !.rxdma = x] :
              f \in {TRUE, FALSE}, x \in {dev.rxdma, TRUE}}

DmaInit ==
    \/ Write("dma", "rxidle", {AfterDmaInit})
    \/ /\ stage = "dma"
       /\ \/ driver = "c" /\ dev' \in Garbled /\ Go("rxidle")
          \/ driver = "python" /\ dev' = [dev EXCEPT !.rxdma = TRUE] /\ Fails
       /\ fault' = TRUE
       /\ UNCHANGED Host

(* dma_rx_evt_ep4: wait until receive is idle, switch it off, route the     *)
(* replies, switch it on.                                                   *)
RxIdle == Look("rxidle", "rxoff", TRUE, TRUE, FALSE)
RxOff == Write("rxoff", "route", {[dev EXCEPT !.rxdma = FALSE]})
RouteEvents == Write("route", "rxon", {[dev EXCEPT !.route = TRUE]})

RxOn ==
    /\ stage = "rxon"
    /\ UNCHANGED <<driver, attempt, part, semLost>>
    /\ \/ /\ dev' = [dev EXCEPT !.rxdma = TRUE]
          /\ evt_ep4' = TRUE
          /\ Go("open")
          /\ UNCHANGED fault
       \/ /\ dev' \in {dev, [dev EXCEPT !.rxdma = TRUE]}
          /\ fault' = TRUE
          /\ IF driver = "python"
             THEN Fails /\ UNCHANGED evt_ep4
             ELSE evt_ep4' = TRUE /\ Go("open")

(* Faulty variant: the download path is not opened.                         *)
OpenPathForgotten == Write("open", "restart", {dev})

OpenPath == Write("open", "restart", {[dev EXCEPT !.path = TRUE]})

(* nic_power_ctrl(1) is not answered: the MCU restarts in its ROM, and may  *)
(* or may not keep an applied patch.                                        *)
AfterRestart ==
    {[dev EXCEPT !.mcu = IF @ = "off" THEN @ ELSE "rom", !.image = 0,
                 !.patched = p] : p \in {dev.patched, FALSE}}

Restart == Write("restart", "pollrom", AfterRestart)

PollRom == Look("pollrom", "semget", dev.mcu = "rom", FALSE, FALSE)

-----------------------------------------------------------------------------
(* load_patch                                                               *)

SemFails == /\ Fails /\ semLost' = TRUE
            /\ UNCHANGED <<driver, attempt, part, evt_ep4>>

SemGet ==
    /\ stage = "semget"
    /\ \/ /\ dev.patched                   \* PATCH_IS_DL
          /\ Command(dev.mcu \in {"rom", "running"}, dev,
                     Go("ram") /\ part' = 0
                        /\ UNCHANGED <<driver, attempt, evt_ep4, semLost>>,
                     SemFails)
       \/ /\ ~dev.patched /\ dev.sem       \* PATCH_NOT_DL_SEM_FAIL
          /\ Command(dev.mcu = "rom", dev, Fails /\ UNCHANGED Host, SemFails)
       \/ /\ ~dev.patched /\ ~dev.sem      \* PATCH_NOT_DL_SEM_SUCCESS
          /\ Command(dev.mcu = "rom", [dev EXCEPT !.sem = TRUE],
                     Go("patch") /\ part' = 0
                        /\ UNCHANGED <<driver, attempt, evt_ep4, semLost>>,
                     SemFails)

(* Every failure from here on goes through the release.                     *)
Abandon == /\ stage' = "release" /\ giveUp' = TRUE
           /\ UNCHANGED <<result, Host>>

(* Faulty variant: a bad image skips the release.                           *)
PatchRejectedAtOnce ==
    /\ stage = "patch"
    /\ Fails /\ UNCHANGED Host
    /\ fault' = TRUE
    /\ UNCHANGED dev

(* The image does not parse, or a section is not PATCH_SEC_TYPE_INFO.       *)
PatchRejected ==
    /\ stage = "patch"
    /\ Abandon
    /\ fault' = TRUE
    /\ UNCHANGED dev

(* init_download, then the chunks of one section.                           *)
PatchSection ==
    /\ stage = "patch"
    /\ Command(dev.mcu = "rom" /\ dev.path, dev,
               /\ part' = part + 1
               /\ Go(IF part' = PatchSections THEN "finish" ELSE "patch")
               /\ UNCHANGED <<driver, attempt, evt_ep4, semLost>>,
               Abandon)

StartPatch ==
    /\ stage = "finish"
    /\ Command(dev.mcu = "rom", [dev EXCEPT !.patched = TRUE],
               Go("release") /\ UNCHANGED Host, Abandon)

(* A release that reports anything but success is only a warning. One that  *)
(* gets no reply raises in Python, and is ignored in C.                     *)
AfterRelease ==
    IF giveUp THEN Fails ELSE Go("ram")

SemRelease ==
    /\ stage = "release"
    /\ UNCHANGED <<driver, attempt, evt_ep4>>
    /\ part' = 0
    /\ Command(dev.mcu = "rom", [dev EXCEPT !.sem = FALSE],
               AfterRelease /\ UNCHANGED semLost,
               /\ IF driver = "python" THEN Fails ELSE AfterRelease
               /\ semLost' = TRUE)

-----------------------------------------------------------------------------
(* load_ram, and the rest of bringup                                        *)

RamFails == Fails /\ UNCHANGED Host

RamRejected ==
    /\ stage = "ram"
    /\ RamFails
    /\ fault' = TRUE
    /\ UNCHANGED dev

RamRegion ==
    /\ stage = "ram"
    /\ Command(dev.mcu = "rom" /\ dev.path,
               [dev EXCEPT !.image = IF part + 1 = RamRegions THEN attempt
                                     ELSE @],
               /\ part' = part + 1
               /\ Go(IF part' = RamRegions THEN "start" ELSE "ram")
               /\ UNCHANGED <<driver, attempt, evt_ep4, semLost>>,
               RamFails)

StartFirmware ==
    /\ stage = "start"
    /\ Command(dev.mcu = "rom", [dev EXCEPT !.mcu = "booting"],
               Go("pollready") /\ UNCHANGED Host, RamFails)

PollReady == Look("pollready", "close", dev.mcu = "running", TRUE, TRUE)

(* Faulty variant: the download path stays open.                            *)
ClosePathForgotten == Write("close", "caps", {dev})

ClosePath == Write("close", "caps", {[dev EXCEPT !.path = FALSE]})

(* get_nic_capability and set_eeprom: only running firmware answers.        *)
NicCapability ==
    /\ stage = "caps"
    /\ Command(dev.mcu = "running", dev,
               Go("eeprom") /\ UNCHANGED Host, RamFails)

SetEeprom ==
    /\ stage = "eeprom"
    /\ Command(dev.mcu = "running", dev,
               /\ stage' = "idle" /\ result' = "ok"
               /\ UNCHANGED <<giveUp, Host>>,
               RamFails)

-----------------------------------------------------------------------------
(* The started firmware comes up in its own time.                           *)
Boot ==
    /\ dev.mcu = "booting"
    /\ dev' = [dev EXCEPT !.mcu = "running"]
    /\ UNCHANGED <<driver, stage, result, attempt, part, giveUp, evt_ep4,
                   fault, semLost>>

(* The process dies, or closes the device, and another opens it: the host's *)
(* state is new, the adapter keeps its own.                                 *)
Reopen ==
    /\ driver' \in Drivers
    /\ stage' = "idle"
    /\ result' = "none"
    /\ giveUp' = FALSE
    /\ evt_ep4' = FALSE
    /\ semLost' = (semLost \/ dev.sem)
    /\ UNCHANGED <<attempt, part, dev, fault>>

(* Unplugged and plugged in again, then opened.                             *)
Replug ==
    /\ driver' \in Drivers
    /\ stage' = "idle"
    /\ result' = "none"
    /\ giveUp' = FALSE
    /\ evt_ep4' = FALSE
    /\ semLost' = FALSE
    /\ dev' = Plugged
    /\ UNCHANGED <<attempt, part, fault>>

Prepare == UsbReset \/ Probe \/ WfsysReset \/ PowerOn \/ PollPowered
           \/ DmaInit \/ RxIdle \/ RxOff \/ RouteEvents \/ RxOn \/ OpenPath
           \/ Restart \/ PollRom

LoadPatch == SemGet \/ PatchRejected \/ PatchSection \/ StartPatch
             \/ SemRelease

LoadRam == RamRejected \/ RamRegion \/ StartFirmware

Finish == PollReady \/ ClosePath \/ NicCapability \/ SetEeprom

Next == Begin \/ Prepare \/ LoadPatch \/ LoadRam \/ Finish
        \/ Boot \/ Reopen \/ Replug

Spec == Init /\ [][Next]_vars

-----------------------------------------------------------------------------
TypeOK ==
    /\ driver \in Drivers
    /\ stage \in Stages
    /\ result \in {"none", "ok", "failed"}
    /\ attempt \in 0 .. MaxAttempts
    /\ part \in 0 .. PatchSections + RamRegions
    /\ giveUp \in BOOLEAN
    /\ evt_ep4 \in BOOLEAN
    /\ dev \in Device
    /\ fault \in BOOLEAN
    /\ semLost \in BOOLEAN

(* A bring-up that reports success leaves the firmware it downloaded itself *)
(* running, patched, the semaphore free unless a release was lost, replies  *)
(* arriving where the host waits for them, and (in Python, where a failed   *)
(* write raises) the download path closed.                                  *)
Ready ==
    result = "ok" =>
        /\ dev.mcu = "running" /\ dev.patched
        /\ dev.image = attempt
        /\ dev.sem => semLost
        /\ Reachable
        /\ driver = "python" => ~dev.path

(* No attempt, however it ended, makes a later one fail: bring-up fails     *)
(* only if a transfer, the image or the MCU let this very attempt down. The *)
(* semaphore, the routing, the flush bit, a half-applied patch or a running *)
(* firmware left by an earlier attempt or a killed process never do.        *)
CleanRetry == result = "failed" => fault

(* Outside load_patch the semaphore is held only if a semaphore command was *)
(* itself lost, or the process that held it died.                           *)
SemReleased ==
    dev.sem => semLost \/ stage \in {"patch", "finish", "release"}

(* Firmware is sent only to an MCU sitting in its ROM with the download     *)
(* path open: never into firmware that an earlier session left running.     *)
(* (C keeps going after a failed write, so only while nothing failed.)      *)
DownloadToRom ==
    stage \in {"patch", "finish", "ram", "start"} =>
        \/ dev.mcu = "rom" /\ dev.path
        \/ driver = "c" /\ fault

(* Access by access, bring-up is the service its callers take it for: only  *)
(* a bring-up or unplugging stops firmware, and success is its own firmware *)
(* running.                                                                 *)
Service == INSTANCE BootService WITH
    tries <- attempt,
    session <- IF stage = "idle" THEN result ELSE "trying",
    firmware <- IF dev.mcu = "running" THEN dev.image ELSE 0

ImplementsService == Service!Spec

(* Why they hold. What the adapter owes to the accesses already made, per   *)
(* stage. The first part holds whatever failed on the way: replies are      *)
(* evidence, and the stages after load_ram are reached by replies only.     *)
Evidence ==
    /\ stage # "idle" => result = "none"
    /\ stage = "patch" => part < PatchSections
    /\ stage = "ram" => part < RamRegions
    /\ dev.mcu = "off" => ~dev.sem
    /\ stage = "ram" => dev.patched
    /\ stage = "ram" /\ part > 0 => dev.mcu = "rom"
    /\ stage = "release" /\ ~giveUp => dev.patched
    /\ giveUp => stage = "release"
    /\ giveUp => fault
    /\ stage = "start" => dev.mcu = "rom" /\ dev.image = attempt /\ dev.patched
    /\ stage \in {"pollready", "close", "caps", "eeprom"} =>
          /\ dev.mcu \in {"booting", "running"}
          /\ dev.image = attempt /\ dev.patched
    /\ stage = "eeprom" => dev.mcu = "running" /\ Reachable

(* The rest holds as long as every write took effect, which Python knows.   *)
Expected ==
    driver = "python" \/ ~fault =>
        /\ stage = "power" => dev.mcu = "off"
        /\ stage \in {"powered", "dma", "rxidle", "rxoff", "route", "rxon",
                      "open", "restart", "pollrom", "semget", "patch",
                      "finish", "release", "ram"} => dev.mcu = "rom"
        /\ stage \in {"powered", "dma", "rxidle", "rxoff", "route", "rxon",
                      "open", "restart", "pollrom", "semget"} => ~dev.sem
        /\ stage \in {"rxidle", "rxoff", "route", "rxon"} => ~dev.flush
        /\ stage = "rxon" => dev.route
        /\ stage \in {"open", "restart", "pollrom", "semget", "patch",
                      "finish", "release", "ram", "start", "pollready",
                      "close", "caps", "eeprom"} => evt_ep4 /\ Reachable
        /\ stage \in {"restart", "pollrom", "semget", "patch", "finish",
                      "release", "ram", "start", "pollready"} => dev.path
        /\ stage \in {"close", "caps"} => dev.mcu = "running"
        /\ stage \in {"caps", "eeprom"} => ~dev.path
=============================================================================
