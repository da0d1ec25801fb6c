----------------------------- MODULE RadioProbe -----------------------------
(***************************************************************************)
(* c/mt76_radio_probe.c: one run of the program on one adapter, using the  *)
(* library modelled in Experiment. The run brings the adapter up, listens  *)
(* (and, with --transmit, sends) for a dwell, with --g5-cycle listens      *)
(* twice more around the Group-5 bit, and cleans up. SIGINT or SIGTERM may *)
(* arrive at any point after the handlers are installed, any operation may *)
(* fail, and the adapter may be in any state an earlier run left it in.    *)
(***************************************************************************)
EXTENDS Experiment

CONSTANTS
    DwellTicks, \* --seconds, in units of Tick
    Lead        \* 200 ms: time before the first write of a dwell

(* An adapter may hold MaxTx writes of an earlier run.                      *)
ASSUME ProbeAssumption ==
    /\ DwellTicks \in Nat
    /\ Lead \in Nat
    /\ MaxTx <= MaxAir

VARIABLES
    args,       \* what main accepted from the command line
    pc,         \* the next thing main or dwell does
    phase,      \* which dwell is, or was last, under way
    stopping,   \* the flag the signal handler sets
    result,     \* main's result, in the end the exit code
    reload,     \* main's reload
    bad,        \* dwell's result is -1
    afterOk,    \* dwell's second counter sample was read
    left,       \* time until the end of the dwell
    pause,      \* time until next_tx
    submitted   \* writes the adapter accepted: dwell's sent

flow == <<args, pc, phase, stopping, result, reload>>
dwelling == <<bad, afterOk, left, pause, submitted>>
vars == <<libVars, flow, dwelling>>

(* Faulty variant: --g5-cycle is accepted together with --transmit.         *)
ArgsLoose == {a \in [count : 0 .. MaxTx, cycle : BOOLEAN,
                     chan : Channels \ {"5GHz:36@80"}, rate : Rates] :
                /\ a.cycle => dev.chip = "mt7921"
                /\ Described(a.rate) /\ a.chan \in Allowed(a.rate)}

(* The command lines main accepts. --pcap and --mib are not told apart: a   *)
(* run without them is one in which the steps that serve them succeed.      *)
Args == {a \in [count : 0 .. MaxTx, cycle : BOOLEAN,
                chan : Channels \ {"5GHz:36@80"}, rate : Rates] :
           /\ a.cycle => dev.chip = "mt7921" /\ a.count = 0
           /\ IF a.count > 0
              THEN Described(a.rate) /\ a.chan \in Allowed(a.rate)
              ELSE a.rate = "ofdm6"}  \* the default; nothing reads it

Dwell == {"mib", "loop", "read", "sample", "end"}
Points == {"open", "bringup", "monitor", "tune", "prepare", "begin",
           "guarded", "restore", "alive", "again", "remonitor", "retune",
           "realive", "finish", "exited"} \cup Dwell

ProbeInit ==
    /\ Opened
    /\ hw \in {h \in Adapter : h.g5was = h.g5}
    /\ burst \in 0 .. MaxTx
    /\ args \in Args
    /\ pc = "open"
    /\ phase = "baseline"
    /\ stopping = FALSE
    /\ result = 1
    /\ reload = FALSE
    /\ bad = FALSE
    /\ afterOk = FALSE
    /\ left = 0
    /\ pause = 0
    /\ submitted = 0

-----------------------------------------------------------------------------
(* Where main goes next. Every failure goes to cleanup, whose first step is *)
(* the Group-5 restore, with the result it has.                             *)

To(p) == pc' = p /\ UNCHANGED <<args, phase, stopping, result, reload>>
Enter(d) == /\ pc' = "mib"
            /\ phase' = d
            /\ UNCHANGED <<args, stopping, result, reload>>
Failed == pc' = "restore" /\ UNCHANGED <<args, phase, stopping, result, reload>>
Done == /\ pc' = "restore"
        /\ result' = 0
        /\ UNCHANGED <<args, phase, stopping, reload>>
FailsAt(p) == /\ pc' = p
              /\ result' = 1
              /\ UNCHANGED <<args, phase, stopping, reload>>

Quietly == UNCHANGED libVars

(* Setup                                                                    *)

OpenPcap ==
    /\ pc = "open"
    /\ \/ To("bringup")
       \/ Failed
    /\ Quietly /\ UNCHANGED dwelling

FirstBringup ==
    /\ pc = "bringup"
    /\ \/ BringupOk /\ To("monitor")
       \/ BringupFails /\ Failed
    /\ UNCHANGED dwelling

(* mt7921_set_monitor_mode, mt7921_set_sniffer: commands, which the         *)
(* firmware answers only if it is up.                                       *)
Monitor ==
    /\ pc = "monitor"
    /\ \/ hw.up /\ To("tune")
       \/ Failed
    /\ Quietly /\ UNCHANGED dwelling

FirstTune ==
    /\ pc = "tune"
    /\ \/ TuneFails(args.chan) /\ Failed
       \/ /\ TuneOk(args.chan)
          /\ \/ stopping /\ Failed
             \/ ~stopping /\ args.count = 0 /\ Enter("baseline")
             \/ /\ ~stopping /\ args.count > 0
                /\ pc' = "prepare"
                /\ reload' = TRUE
                /\ UNCHANGED <<args, phase, stopping, result>>
    /\ UNCHANGED dwelling

Prepare ==
    /\ pc = "prepare"
    /\ \/ PrepareOk(args.rate) /\ Enter("baseline")
       \/ PrepareFails(args.rate) /\ Failed
    /\ UNCHANGED dwelling

-----------------------------------------------------------------------------
(* dwell                                                                    *)

(* The counter baseline; a failure returns before the loop. Only the        *)
(* baseline dwell is given a count.                                         *)
Mib ==
    /\ pc = "mib"
    /\ Quietly
    /\ \/ /\ To("loop")
          /\ left' = DwellTicks
          /\ pause' = Lead
          /\ bad' = FALSE
          /\ UNCHANGED <<afterOk, submitted>>
       \/ Failed /\ UNCHANGED dwelling

Wanted == IF phase = "baseline" THEN args.count - submitted ELSE 0
Due == ~stopping /\ left > 0 /\ Wanted > 0 /\ pause = 0

(* Faulty variant: only a signal ends the loop.                             *)
LoopEndsOnSignal ==
    /\ pc = "loop"
    /\ stopping
    /\ To("sample")
    /\ Quietly /\ UNCHANGED dwelling

LoopEnds ==
    /\ pc = "loop"
    /\ (stopping \/ left = 0)
    /\ To("sample")
    /\ Quietly /\ UNCHANGED dwelling

NothingDue ==
    /\ pc = "loop"
    /\ ~stopping /\ left > 0 /\ ~Due
    /\ To("read")
    /\ Quietly /\ UNCHANGED dwelling

(* A write the library refuses, or that fails, ends the dwell.              *)
Send ==
    /\ pc = "loop"
    /\ Due
    /\ \/ /\ Transmit(args.rate)
          /\ \/ /\ To("read")
                /\ submitted' = submitted + 1
                /\ pause' = Spacing
                /\ UNCHANGED <<bad, afterOk, left>>
             \/ /\ To("sample")
                /\ bad' = TRUE
                /\ UNCHANGED <<afterOk, left, pause, submitted>>
       \/ /\ ~Permitted(args.rate)
          /\ To("sample")
          /\ bad' = TRUE
          /\ Quietly /\ UNCHANGED <<afterOk, left, pause, submitted>>

(* mt7921_rx_read: a signal breaks off the loop, a timeout or a transfer of *)
(* whatever kind continues it, an error of the read or of the capture file  *)
(* ends it.                                                                 *)
Read ==
    /\ pc = "read"
    /\ Quietly
    /\ \/ stopping /\ To("sample") /\ UNCHANGED dwelling
       \/ ~stopping /\ To("loop") /\ UNCHANGED dwelling
       \/ /\ ~stopping /\ To("sample")
          /\ bad' = TRUE
          /\ UNCHANGED <<afterOk, left, pause, submitted>>

Sample ==
    /\ pc = "sample"
    /\ To("end")
    /\ afterOk' \in BOOLEAN
    /\ Quietly /\ UNCHANGED <<bad, left, pause, submitted>>

Acceptable == \/ stopping /\ ~bad
              \/ ~bad /\ afterOk /\ Wanted = 0

EndDwell ==
    /\ pc = "end"
    /\ \/ ~Acceptable /\ Failed
       \/ /\ Acceptable
          /\ CASE phase = "enabled" -> To("guarded")
               [] phase = "baseline" /\ args.cycle /\ ~stopping -> To("begin")
               [] OTHER -> Done
    /\ Quietly /\ UNCHANGED dwelling

(* Around the dwell with the bit set                                        *)

Begin ==
    /\ pc = "begin"
    /\ \/ G5BeginOk /\ Enter("enabled")
       \/ G5BeginFails /\ Failed
    /\ UNCHANGED dwelling

Guarded ==
    /\ pc = "guarded"
    /\ \/ G5RestoreOk /\ (IF stopping THEN Done ELSE Enter("restored"))
       \/ G5RestoreFails /\ Failed
    /\ UNCHANGED dwelling

-----------------------------------------------------------------------------
(* cleanup                                                                  *)

Restore ==
    /\ pc = "restore"
    /\ \/ G5RestoreOk /\ To("alive")
       \/ G5RestoreFails /\ FailsAt("alive")
    /\ UNCHANGED dwelling

(* Faulty variant: only a table write calls for a reload.                   *)
AfterAliveDirtyOnly == IF dev.dirty THEN "again" ELSE "finish"

AfterAlive == IF reload \/ dev.dirty THEN "again" ELSE "finish"

Alive ==
    /\ pc = "alive"
    /\ \/ To(AfterAlive)
       \/ FailsAt(AfterAlive)
    /\ Quietly /\ UNCHANGED dwelling

Again ==
    /\ pc = "again"
    /\ \/ BringupOk /\ To("remonitor")
       \/ BringupFails /\ FailsAt("finish")
    /\ UNCHANGED dwelling

Remonitor ==
    /\ pc = "remonitor"
    /\ \/ hw.up /\ To("retune")
       \/ FailsAt("finish")
    /\ Quietly /\ UNCHANGED dwelling

Retune ==
    /\ pc = "retune"
    /\ \/ TuneOk(args.chan) /\ To("realive")
       \/ TuneFails(args.chan) /\ FailsAt("finish")
    /\ UNCHANGED dwelling

Realive ==
    /\ pc = "realive"
    /\ \/ To("finish")
       \/ FailsAt("finish")
    /\ Quietly /\ UNCHANGED dwelling

(* Faulty variant: a signal hides a failure.                                *)
FinishCancelled ==
    /\ pc = "finish"
    /\ pc' = "exited"
    /\ result' = IF stopping THEN 130 ELSE result
    /\ Quietly /\ UNCHANGED <<args, phase, stopping, reload, dwelling>>

(* Flush the capture file, decide the exit code, close the device.          *)
Finish ==
    /\ pc = "finish"
    /\ pc' = "exited"
    /\ \/ result' = IF stopping /\ result = 0 THEN 130 ELSE result
       \/ result' = 1
    /\ Quietly /\ UNCHANGED <<args, phase, stopping, reload, dwelling>>

-----------------------------------------------------------------------------
Step ==
    \/ OpenPcap \/ FirstBringup \/ Monitor \/ FirstTune \/ Prepare
    \/ Mib \/ LoopEnds \/ NothingDue \/ Send \/ Read \/ Sample \/ EndDwell
    \/ Begin \/ Guarded
    \/ Restore \/ Alive \/ Again \/ Remonitor \/ Retune \/ Realive \/ Finish

Signal ==
    /\ pc # "exited"
    /\ ~stopping
    /\ stopping' = TRUE
    /\ Quietly
    /\ UNCHANGED <<args, pc, phase, result, reload, dwelling>>

Elapse ==
    /\ pc # "exited"
    /\ (left > 0 \/ pause > 0 \/ quiet < Spacing \/ dev.since < Spacing)
    /\ left' = IF left > 0 THEN left - 1 ELSE 0
    /\ pause' = IF pause > 0 THEN pause - 1 ELSE 0
    /\ Later
    /\ UNCHANGED <<flow, bad, afterOk, submitted>>

ProbeNext == Step \/ Signal \/ Elapse

ProbeSpec == ProbeInit /\ [][ProbeNext]_vars

(* Every library call returns: its transfers have timeouts and its polls    *)
(* are bounded. The clock advances.                                         *)
FairProbe == ProbeSpec /\ WF_vars(Step) /\ WF_vars(Elapse)

-----------------------------------------------------------------------------
(* Properties                                                               *)

ProbeTypeOK ==
    /\ TypeOK
    /\ args \in Args
    /\ pc \in Points
    /\ phase \in {"baseline", "enabled", "restored"}
    /\ stopping \in BOOLEAN
    /\ result \in {0, 1, 130}
    /\ reload \in BOOLEAN
    /\ bad \in BOOLEAN
    /\ afterOk \in BOOLEAN
    /\ left \in 0 .. DwellTicks
    /\ pause \in Nat
    /\ submitted \in 0 .. args.count

(* docs/C_PARITY.md and c/README.md: the program restores Group-5 and       *)
(* reloads the firmware on normal and signal exits. An exit code that does  *)
(* not report a failure is a promise about the adapter it leaves behind.    *)
CleanExit ==
    pc = "exited" /\ result # 1 =>
        /\ hw.up /\ hw.table = {} /\ burst = 0
        /\ ~hw.g5 /\ ~guard.active
        /\ dev.tuned /\ hw.chan = args.chan

(* On every exit, failed ones included, a bring-up came after the last      *)
(* write to the air or to the rate table.                                   *)
ReloadTried == pc = "exited" => dev.count = 0 /\ dev.rates = {}

(* Exit code 0 means nobody asked to stop and every frame was written.      *)
ExitCode ==
    pc = "exited" =>
        /\ result = 0 => ~stopping /\ submitted = args.count
        /\ result = 130 => stopping

(* What the exit code says is so, of the run and of the adapter.            *)
HonestExit == CleanExit /\ ExitCode

(* The program is one of the callers Experiment is written for. It keeps    *)
(* mt7921_radio.h's rule on the guard, "Do not reuse an active guard or     *)
(* reset firmware during its lifetime", through failed restores and the     *)
(* reload of cleanup, and it leaves alone an adapter it failed to bring up. *)
CarefulCaller == [][Next]_libVars

(* A run ends, with or without a signal.                                    *)
Terminates == <>(pc = "exited")
=============================================================================
