-------------------------- MODULE RadioProbeProofs --------------------------
(***************************************************************************)
(* The experimental transmit library and the radio probe program that uses *)
(* it, for every limit, spacing, dwell and adapter.                        *)
(*                                                                         *)
(* First the library under any caller (Spec of Experiment): what the host  *)
(* believes of the adapter is so, the reload mark and the Group-5 guard    *)
(* are honest, writes are paced, and, for a caller that gives up on a      *)
(* failed bring-up, the limit holds per boot of the firmware. One          *)
(* inductive invariant carries all of them, since Counted and Paced need   *)
(* the type invariant and nothing needs the history beyond them.           *)
(*                                                                         *)
(* Then the program (ProbeSpec of RadioProbe), on an adapter that an       *)
(* earlier run may have left with a modified table: it keeps the rules of  *)
(* the library, which brings the library's invariant to bear on it, and    *)
(* what its exit code says of the run and of the adapter is so.            *)
(***************************************************************************)
EXTENDS RadioProbe, TLAPS

-----------------------------------------------------------------------------
(* The library.                                                             *)

(* The host's counter is the number of writes of this boot, as long as the  *)
(* last bring-up succeeded.                                                 *)
Counted ==
    /\ ready => burst = dev.count
    /\ Caller = "careful" => burst <= MaxTx

(* The host's clock of the last write is the real one once it has written;  *)
(* before that the bring-up's own delay has passed.                         *)
Paced == IF dev.count = 0 THEN quiet = Spacing ELSE dev.since <= quiet

(* What every library operation keeps, and the part of it that is also so   *)
(* of an adapter whose rate table an earlier program has modified.          *)
Sound ==
    /\ TypeOK
    /\ Counted
    /\ Paced
    /\ Believed
    /\ GuardHonest

IInv == Sound /\ ReloadOwed

(* The ends of the ranges, and one step within them.                        *)
LEMMA Ranges ==
    /\ 0 \in 0 .. MaxAir
    /\ 0 \in Counts /\ 0 \in Times /\ Spacing \in Times
    /\ \A c \in Counts : c < MaxTx => c + 1 \in Counts
    /\ \A t \in Times : t < Spacing => t + 1 \in Times
    /\ \A t \in Times : t \in Nat /\ (~(t < Spacing) => t = Spacing)
    /\ \A c \in Counts : c \in Nat /\ c <= MaxTx
BY ExperimentAssumption DEF ExperimentAssumption, Counts, Times

USE ExperimentAssumption DEF ExperimentAssumption

(* The state just after the device was opened satisfies the invariant.      *)
LEMMA InitIInv == Init => IInv
<1> SUFFICES ASSUME Init PROVE IInv
    OBVIOUS
<1> USE DEF Init, Opened
<1>1. dev \in Host
  <2>1. PICK chip \in Chips :
           dev = [chip |-> chip, tuned |-> FALSE, chan |-> "2.4GHz:6",
                  rates |-> {}, count |-> 0, since |-> Spacing,
                  dirty |-> FALSE]
      OBVIOUS
  <2> QED BY <2>1, Ranges DEF Host, Channels
<1>2. guard \in Guard /\ hw \in Adapter
    BY DEF Guard, Adapter
<1>3. ready \in BOOLEAN /\ burst \in 0 .. MaxAir /\ quiet \in Times
    BY Ranges
<1>4. Counted /\ Paced
    BY DEF Counted, Paced
<1>5. Believed /\ ReloadOwed /\ GuardHonest
    BY DEF Believed, ReloadOwed, GuardHonest
<1> QED BY <1>1, <1>2, <1>3, <1>4, <1>5 DEF IInv, Sound, TypeOK

(* A bring-up, whichever way it ends, clears the host's transmit state and  *)
(* never leaves a table without the reload mark.                            *)
LEMMA BringupStep ==
    ASSUME Sound, Bringup
    PROVE  Sound' /\ (ReloadOwed => ReloadOwed')
<1> USE DEF Sound
<1>1. CASE BringupOk
  <2> USE <1>1 DEF BringupOk, Cleared
  <2>1. dev' \in Host
      BY Ranges DEF TypeOK, Host
  <2>2. hw' \in Adapter
      BY DEF Adapter, Restarted
  <2>3. TypeOK'
      BY <2>1, <2>2, Ranges DEF TypeOK
  <2>4. dev'.count = 0 /\ ~dev'.tuned /\ dev'.rates = {}
      BY DEF TypeOK, Host
  <2>5. Counted' /\ Paced'
      BY <2>4 DEF Counted, Paced
  <2>6. Believed' /\ (ReloadOwed => ReloadOwed') /\ GuardHonest'
      BY <2>4 DEF Bringup, Believed, ReloadOwed, GuardHonest, Restarted
  <2> QED BY <2>3, <2>5, <2>6
<1>2. CASE BringupFails
  <2>1. dev' = Cleared(dev) /\ ~ready' /\ quiet' = Spacing /\ guard' = guard
      BY <1>2 DEF BringupFails
  <2>2. \/ (\E up \in BOOLEAN : hw' = Restarted(up)) /\ burst' = 0
        \/ hw' = hw /\ burst' = burst
      BY <1>2 DEF BringupFails
  <2>3. dev' \in Host
      BY <2>1, Ranges DEF TypeOK, Host, Cleared
  <2>4. \A up \in BOOLEAN : Restarted(up) \in Adapter
      BY DEF Adapter, Restarted
  <2>5. TypeOK'
    <3>1. hw' \in Adapter /\ burst' \in 0 .. MaxAir
        BY <2>2, <2>4, Ranges DEF TypeOK
    <3>2. ready' \in BOOLEAN
        BY <1>2 DEF BringupFails
    <3> QED BY <2>1, <2>3, <3>1, <3>2, Ranges DEF TypeOK
  <2>6. dev'.count = 0 /\ ~dev'.tuned /\ dev'.rates = {}
        /\ dev'.dirty = dev.dirty
      BY <2>1 DEF TypeOK, Host, Cleared
  <2>7. Counted'
    <3>1. burst' = 0 \/ burst' = burst
        BY <2>2
    <3>2. MaxTx \in Nat /\ (Caller = "careful" => burst <= MaxTx)
        BY DEF Counted
    <3>3. Caller = "careful" => burst' <= MaxTx
        BY <3>1, <3>2
    <3> QED BY <2>1, <3>3 DEF Counted
  <2>8. Paced'
      BY <2>1, <2>6 DEF Paced
  <2>9. Believed' /\ (ReloadOwed => ReloadOwed')
      BY <2>2, <2>6 DEF Believed, ReloadOwed, Restarted
  <2>10. GuardHonest'
    <3>1. ~guard'.active
        BY <2>1 DEF Bringup
    <3>2. hw'.g5 = hw'.g5was
      <4>1. ~guard.active /\ hw.g5 = hw.g5was
          BY DEF Bringup, GuardHonest
      <4>2. \A up \in BOOLEAN : Restarted(up).g5 = Restarted(up).g5was
          BY DEF Restarted
      <4> QED BY <2>2, <4>1, <4>2
    <3> QED BY <3>1, <3>2 DEF GuardHonest
  <2> QED BY <2>5, <2>7, <2>8, <2>9, <2>10
<1> QED BY <1>1, <1>2 DEF Bringup

(* A tune moves the receiver and the host's record of it together.          *)
LEMMA TuneStep ==
    ASSUME Sound, NEW ch \in Channels, TuneOk(ch) \/ TuneFails(ch)
    PROVE  Sound' /\ (ReloadOwed => ReloadOwed')
<1> USE DEF Sound, TuneOk, TuneFails
<1>1. dev' \in Host /\ hw' \in Adapter
    BY DEF TypeOK, Host, Adapter
<1>2. TypeOK'
    BY <1>1 DEF TypeOK
<1>3. /\ dev'.count = dev.count /\ dev'.since = dev.since
      /\ dev'.rates = dev.rates /\ dev'.dirty = dev.dirty
      /\ dev'.tuned => TuneOk(ch)
    BY DEF TypeOK, Host
<1>4. hw'.table = hw.table /\ hw'.g5 = hw.g5 /\ hw'.g5was = hw.g5was
    BY DEF TypeOK, Adapter
<1>5. TuneOk(ch) => hw'.up /\ hw'.chan = dev'.chan
    BY DEF TypeOK, Host, Adapter
<1>6. Counted' /\ Paced'
    BY <1>3 DEF Counted, Paced
<1>7. Believed' /\ (ReloadOwed => ReloadOwed') /\ GuardHonest'
    BY <1>3, <1>4, <1>5 DEF Believed, ReloadOwed, GuardHonest
<1> QED BY <1>2, <1>6, <1>7

(* The reload mark is up before a table entry can be there, and the entry   *)
(* is there before the host uses it.                                        *)
LEMMA PrepareStep ==
    ASSUME Sound, NEW rate \in Rates, PrepareOk(rate) \/ PrepareFails(rate)
    PROVE  Sound' /\ (ReloadOwed => ReloadOwed')
<1> USE DEF Sound
<1> DEFINE Loaded == [hw EXCEPT !.table = @ \cup {rate}]
           Marked == [dev EXCEPT !.dirty = TRUE]
           Usable == [dev EXCEPT !.dirty = TRUE, !.rates = @ \cup {rate}]
<1>0. /\ \/ dev' = dev /\ hw' = hw
         \/ dev' = Usable /\ hw' = Loaded
         \/ dev' = Marked /\ hw' \in {hw, Loaded}
      /\ UNCHANGED <<guard, ready, burst, quiet>>
    BY DEF PrepareOk, PrepareFails
<1>a. Usable \in Host /\ Marked \in Host
    BY DEF TypeOK, Host
<1>b. Loaded \in Adapter
    BY DEF TypeOK, Adapter
<1>c. /\ Usable.count = dev.count /\ Usable.since = dev.since
      /\ Usable.tuned = dev.tuned /\ Usable.chan = dev.chan
      /\ Usable.dirty /\ Usable.rates = dev.rates \cup {rate}
    BY DEF TypeOK, Host
<1>d. /\ Marked.count = dev.count /\ Marked.since = dev.since
      /\ Marked.tuned = dev.tuned /\ Marked.chan = dev.chan
      /\ Marked.dirty /\ Marked.rates = dev.rates
    BY DEF TypeOK, Host
<1>e. /\ Loaded.up = hw.up /\ Loaded.chan = hw.chan
      /\ Loaded.g5 = hw.g5 /\ Loaded.g5was = hw.g5was
      /\ Loaded.table = hw.table \cup {rate}
    BY DEF TypeOK, Adapter
<1> HIDE DEF Loaded, Marked, Usable
<1>1. dev' \in Host /\ hw' \in Adapter
    BY <1>0, <1>a, <1>b DEF TypeOK
<1>2. TypeOK'
    BY <1>0, <1>1 DEF TypeOK
<1>3. /\ dev'.count = dev.count /\ dev'.since = dev.since
      /\ dev'.tuned = dev.tuned /\ dev'.chan = dev.chan
      /\ dev'.dirty \/ (dev' = dev /\ hw' = hw)
  <2>1. CASE dev' = dev /\ hw' = hw
      BY <2>1
  <2>2. CASE dev' = Usable
      BY <2>2, <1>c
  <2>3. CASE dev' = Marked
      BY <2>3, <1>d
  <2> QED BY <1>0, <2>1, <2>2, <2>3
<1>4. /\ hw'.up = hw.up /\ hw'.chan = hw.chan
      /\ hw'.g5 = hw.g5 /\ hw'.g5was = hw.g5was
      /\ dev'.rates \subseteq hw'.table
    BY <1>0, <1>c, <1>d, <1>e DEF Believed
<1>5. Counted' /\ Paced'
    BY <1>0, <1>3 DEF Counted, Paced
<1>6. Believed' /\ (ReloadOwed => ReloadOwed') /\ GuardHonest'
    BY <1>0, <1>3, <1>4 DEF Believed, ReloadOwed, GuardHonest
<1> QED BY <1>2, <1>5, <1>6

(* A write is counted on both sides; the limit needs the caller's care.     *)
LEMMA TransmitStep ==
    ASSUME Sound, NEW rate \in Rates, Transmit(rate),
           Caller = "careful" => ready
    PROVE  Sound' /\ (ReloadOwed => ReloadOwed')
<1> USE DEF Sound, Transmit
<1>1. /\ dev.count \in Counts /\ dev.count < MaxTx
      /\ burst \in Nat /\ burst + 1 \in 0 .. MaxAir
    BY DEF TypeOK, Host, Permitted
<1>2. dev' \in Host
    BY <1>1, Ranges DEF TypeOK, Host
<1>3. TypeOK'
    BY <1>1, <1>2, Ranges DEF TypeOK
<1>4. /\ dev'.count = dev.count + 1 /\ dev'.since = 0
      /\ dev'.tuned = dev.tuned /\ dev'.chan = dev.chan
      /\ dev'.rates = dev.rates /\ dev'.dirty = dev.dirty
    BY DEF TypeOK, Host
<1>5. Counted'
    BY <1>1, <1>4, Ranges DEF Counted
<1>6. Paced'
    BY <1>1, <1>4, Ranges DEF Paced
<1>7. Believed' /\ (ReloadOwed => ReloadOwed') /\ GuardHonest'
    BY <1>4 DEF Believed, ReloadOwed, GuardHonest
<1> QED BY <1>3, <1>5, <1>6, <1>7

(* The guard becomes active before the bit can change, and inactive only    *)
(* once the bit is back.                                                    *)
LEMMA GuardStep ==
    ASSUME Sound, G5BeginOk \/ G5BeginFails \/ G5RestoreOk \/ G5RestoreFails
    PROVE  Sound' /\ (ReloadOwed => ReloadOwed')
<1> USE DEF Sound, G5BeginOk, G5BeginFails, G5RestoreOk, G5RestoreFails
<1>1. guard' \in Guard
  <2>1. hw.g5 \in BOOLEAN
      BY DEF TypeOK, Adapter
  <2>2. guard' \in {guard, [active |-> TRUE, saved |-> hw.g5],
                    [guard EXCEPT !.active = FALSE]}
      OBVIOUS
  <2>3. /\ guard \in Guard
        /\ [active |-> TRUE, saved |-> hw.g5] \in Guard
        /\ [guard EXCEPT !.active = FALSE] \in Guard
      BY <2>1 DEF TypeOK, Guard
  <2> QED BY <2>2, <2>3
<1>2. hw' \in Adapter
  <2>1. guard.saved \in BOOLEAN
      BY DEF TypeOK, Guard
  <2>2. hw' \in {hw, [hw EXCEPT !.g5 = TRUE], [hw EXCEPT !.g5 = guard.saved]}
      OBVIOUS
  <2> QED BY <2>1, <2>2 DEF TypeOK, Adapter
<1>3. TypeOK'
    BY <1>1, <1>2 DEF TypeOK
<1>4. /\ hw'.up = hw.up /\ hw'.chan = hw.chan /\ hw'.table = hw.table
      /\ hw'.g5was = hw.g5was
    BY DEF TypeOK, Adapter
<1>5. Counted' /\ Paced' /\ Believed' /\ (ReloadOwed => ReloadOwed')
    BY <1>4 DEF Counted, Paced, Believed, ReloadOwed
<1>6. GuardHonest'
    BY DEF TypeOK, Adapter, Guard, GuardHonest
<1> QED BY <1>3, <1>5, <1>6

(* Time passes for the host's clock and for the real one alike.             *)
LEMMA TickStep ==
    ASSUME Sound, Later
    PROVE  Sound' /\ (ReloadOwed => ReloadOwed')
<1> USE DEF Sound, Later
<1>1. dev.since \in Times /\ quiet \in Times /\ dev \in Host
    BY DEF TypeOK, Host
<1>2. dev'.since = IF dev.since < Spacing THEN dev.since + 1 ELSE dev.since
    BY <1>1 DEF Host
<1>3. dev' \in Host /\ quiet' \in Times
    BY <1>1, Ranges DEF Host
<1>4. TypeOK'
    BY <1>3 DEF TypeOK
<1>5. /\ dev'.count = dev.count /\ dev'.dirty = dev.dirty
      /\ dev'.tuned = dev.tuned /\ dev'.chan = dev.chan
      /\ dev'.rates = dev.rates
    BY <1>1 DEF Host
<1>6. Paced'
    BY <1>1, <1>2, <1>5, Ranges DEF Paced
<1>7. Counted' /\ Believed' /\ (ReloadOwed => ReloadOwed') /\ GuardHonest'
    BY <1>5 DEF Counted, Believed, ReloadOwed, GuardHonest
<1> QED BY <1>4, <1>6, <1>7

(* The conjunction is inductive over the whole library.                     *)
THEOREM LibraryInvariant == Spec => []IInv
<1>1. IInv /\ [Next]_libVars => IInv'
  <2> SUFFICES ASSUME IInv, [Next]_libVars PROVE IInv'
      OBVIOUS
  <2>1. CASE Bringup
      BY <2>1, BringupStep DEF IInv
  <2>2. ASSUME NEW ch \in Channels, NEW rate \in Rates, Use(ch, rate)
        PROVE  IInv'
      BY <2>2, TuneStep, PrepareStep, TransmitStep, GuardStep DEF Use, IInv
  <2>3. CASE G5RestoreOk \/ G5RestoreFails
      BY <2>3, GuardStep DEF IInv
  <2>4. CASE Tick
      BY <2>4, TickStep DEF Tick, IInv
  <2>5. CASE UNCHANGED libVars
      BY <2>5 DEF libVars, IInv, Sound, TypeOK, Counted, Paced, Believed,
         ReloadOwed, GuardHonest
  <2> QED BY <2>1, <2>2, <2>3, <2>4, <2>5 DEF Next
<1> QED BY InitIInv, <1>1, PTL DEF Spec

(* mt7921_radio.h: at most MaxTx writes per boot, for a caller that does    *)
(* not go on with a device it failed to bring up. Without that condition    *)
(* TLC finds a counterexample.                                              *)
THEOREM LimitPerBoot ==
    ASSUME Caller = "careful"
    PROVE  Spec => []BootLimit
<1>1. IInv => BootLimit
    BY DEF IInv, Sound, Counted, BootLimit
<1> QED BY <1>1, LibraryInvariant, PTL

(* The host's tuned state and rate table are those of the adapter.          *)
THEOREM BeliefsHold == Spec => []Believed
<1>1. IInv => Believed
    BY DEF IInv, Sound
<1> QED BY <1>1, LibraryInvariant, PTL

(* A modified table in the firmware is always marked for a reload.          *)
THEOREM ReloadIsOwed == Spec => []ReloadOwed
<1>1. IInv => ReloadOwed
    BY DEF IInv, Sound
<1> QED BY <1>1, LibraryInvariant, PTL

(* An inactive guard means the Group-5 bit is as it was found.              *)
THEOREM GuardIsHonest == Spec => []GuardHonest
<1>1. IInv => GuardHonest
    BY DEF IInv, Sound
<1> QED BY <1>1, LibraryInvariant, PTL

(* Writes are Spacing apart and go out only on a channel, and from a rate   *)
(* table, that the adapter really has.                                      *)
THEOREM WritesPacedAndPlaced == Spec => PacedAndPlaced
<1> DEFINE A == \A rate \in Rates : Transmit(rate) =>
                    /\ quiet = Spacing
                    /\ hw.up /\ hw.chan \in Allowed(rate)
                    /\ dev.chip = "mt7925" => rate \in hw.table
<1>1. IInv => A
  <2> SUFFICES ASSUME IInv, NEW rate \in Rates, Transmit(rate)
               PROVE  /\ quiet = Spacing
                      /\ hw.up /\ hw.chan \in Allowed(rate)
                      /\ dev.chip = "mt7925" => rate \in hw.table
      OBVIOUS
  <2>1. quiet = Spacing
    <3>1. dev.since \in Times /\ dev.count \in Counts /\ quiet \in Times
        BY DEF IInv, Sound, TypeOK, Host
    <3>2. Paced /\ (dev.count > 0 => dev.since >= Spacing)
        BY DEF IInv, Sound, Transmit, Permitted
    <3> QED BY <3>1, <3>2 DEF Paced, Times, Counts
  <2>2. hw.up /\ hw.chan \in Allowed(rate)
      BY DEF IInv, Sound, Believed, Transmit, Permitted
  <2>3. dev.chip = "mt7925" => rate \in hw.table
      BY DEF IInv, Sound, Believed, Transmit, Permitted
  <2> QED BY <2>1, <2>2, <2>3
<1> QED BY <1>1, LibraryInvariant, PTL DEF PacedAndPlaced

-----------------------------------------------------------------------------
(* The inductive invariant, by where the program is.                        *)

Setup == {"open", "bringup"}
OnChannel == {"prepare", "begin", "guarded"} \cup Dwell
Rebooted == {"remonitor", "retune"}
Back == {"realive", "finish", "exited"}
Cleanup == {"restore", "alive", "again"} \cup Rebooted \cup Back

(* The library's invariant, and, from the first bring-up on, its reload     *)
(* mark and a Group-5 default that is off.                                  *)
Library ==
    /\ Sound
    /\ ready => ReloadOwed /\ ~hw.g5was

Places ==
    /\ args \in Args
    /\ pc \in Points
    /\ phase \in {"baseline", "enabled", "restored"}
    /\ stopping \in BOOLEAN
    /\ result \in {0, 1, 130}
    /\ reload \in BOOLEAN
    /\ bad \in BOOLEAN
    /\ afterOk \in BOOLEAN
    /\ left \in 0 .. DwellTicks
    /\ pause \in Nat
    /\ submitted \in 0 .. args.count

(* An operation that needs the firmware comes after a bring-up that         *)
(* succeeded, and a dwell on the channel of the run.                        *)
Up ==
    /\ pc \in {"monitor", "tune"} \cup OnChannel \cup Rebooted => ready
    /\ pc \in OnChannel => dev.tuned /\ dev.chan = args.chan

(* The guard is used only by runs that do not write, so that a restore that *)
(* failed is not followed by a bring-up.                                    *)
Owner ==
    /\ guard.active =>
          args.cycle /\ pc \notin {"again", "realive", "monitor", "tune",
                                   "prepare"} \cup Setup \cup Rebooted
    /\ dev.chip = "mt7921" => ~dev.dirty
    /\ reload => args.count > 0
    /\ pc = "again" => reload \/ dev.dirty
    /\ pc = "prepare" => args.count > 0
    /\ pc \in {"begin", "guarded"} \/ phase # "baseline" => args.cycle

(* Writes are owed a reload, and it has been tried once cleanup is past it. *)
HostClear == dev.count = 0 /\ dev.rates = {}
Loaded ==
    /\ ~reload \/ pc \in Rebooted \cup Back => HostClear
    /\ pc \in OnChannel /\ args.count > 0 => reload

(* What result says so far.                                                 *)
Outcome ==
    /\ pc \notin Cleanup => result = 1
    /\ result = 130 => pc = "exited" /\ stopping
    /\ result = 0 => stopping \/ submitted = args.count
    /\ result = 0 /\ pc = "exited" => ~stopping
    /\ result # 1 =>
          /\ pc \in {"restore", "alive"} \cup Back =>
                ready /\ dev.tuned /\ dev.chan = args.chan
          /\ pc # "restore" => ~guard.active
          /\ pc \in Rebooted \cup Back =>
                ready /\ hw.table = {} /\ burst = 0 /\ ~hw.g5

Flow == Places /\ Up /\ Owner /\ Loaded /\ Outcome

ProbeInv == Library /\ Flow
-----------------------------------------------------------------------------
(* What the program sees of each library operation.                         *)

Kept == /\ dev'.chip = dev.chip
        /\ UNCHANGED <<ready, burst>>

(* A bring-up clears what the host counts; if it succeeds, the table is clean. *)
LEMMA BringupSeen ==
    ASSUME TypeOK, BringupOk \/ BringupFails
    PROVE  /\ dev'.chip = dev.chip
           /\ dev'.dirty => dev.dirty
           /\ HostClear'
           /\ UNCHANGED guard
           /\ BringupOk => /\ ready' /\ burst' = 0 /\ hw'.up
                           /\ hw'.table = {} /\ ~hw'.g5 /\ ~hw'.g5was
           /\ ~BringupOk => ~ready'
<1>1. dev' \in {[Cleared(dev) EXCEPT !.dirty = FALSE], Cleared(dev)}
    BY DEF BringupOk, BringupFails
<1>2. /\ dev'.chip = dev.chip /\ (dev'.dirty => dev.dirty)
      /\ dev'.count = 0 /\ dev'.rates = {}
    BY <1>1 DEF TypeOK, Host, Cleared
<1>3. UNCHANGED guard
    BY DEF BringupOk, BringupFails
<1>4. BringupOk => /\ ready' /\ burst' = 0 /\ hw'.up
                   /\ hw'.table = {} /\ ~hw'.g5 /\ ~hw'.g5was
    BY DEF BringupOk, Restarted
<1>5. ~BringupOk => ~ready'
    BY DEF BringupFails
<1> QED BY <1>2, <1>3, <1>4, <1>5 DEF HostClear

(* Tuning leaves the rate table and the guard as they are.                  *)
LEMMA TuneSeen ==
    ASSUME TypeOK, NEW ch \in Channels, TuneOk(ch) \/ TuneFails(ch)
    PROVE  /\ Kept /\ UNCHANGED guard
           /\ dev'.dirty = dev.dirty
           /\ HostClear => HostClear'
           /\ hw'.table = hw.table /\ hw'.g5 = hw.g5 /\ hw'.g5was = hw.g5was
           /\ TuneOk(ch) => dev'.tuned /\ dev'.chan = ch
<1> USE DEF TuneOk, TuneFails
<1>1. /\ dev'.chip = dev.chip /\ dev'.dirty = dev.dirty
      /\ dev'.count = dev.count /\ dev'.rates = dev.rates
    BY DEF TypeOK, Host
<1>2. hw'.table = hw.table /\ hw'.g5 = hw.g5 /\ hw'.g5was = hw.g5was
    BY DEF TypeOK, Adapter
<1>3. TuneOk(ch) => dev'.tuned /\ dev'.chan = ch
    BY DEF TypeOK, Host
<1> QED BY <1>1, <1>2, <1>3 DEF Kept, HostClear

(* Preparing a rate leaves the channel and the guard as they are.           *)
LEMMA PrepareSeen ==
    ASSUME TypeOK, NEW rate \in Rates, PrepareOk(rate) \/ PrepareFails(rate)
    PROVE  /\ Kept /\ UNCHANGED guard
           /\ dev'.tuned = dev.tuned /\ dev'.chan = dev.chan
           /\ dev.chip = "mt7921" => dev'.dirty = dev.dirty
           /\ hw'.g5was = hw.g5was
<1> USE DEF PrepareOk, PrepareFails
<1>1. dev' \in {dev, [dev EXCEPT !.dirty = TRUE],
                [dev EXCEPT !.dirty = TRUE, !.rates = @ \cup {rate}]}
    OBVIOUS
<1>2. /\ dev'.chip = dev.chip /\ dev'.tuned = dev.tuned
      /\ dev'.chan = dev.chan
    BY <1>1 DEF TypeOK, Host
<1>3. dev.chip = "mt7921" => dev' = dev
    OBVIOUS
<1>4. hw' \in {hw, [hw EXCEPT !.table = @ \cup {rate}]}
    OBVIOUS
<1>5. hw'.g5was = hw.g5was
    BY <1>4 DEF TypeOK, Adapter
<1> QED BY <1>2, <1>3, <1>5 DEF Kept

(* A write leaves the guard, the adapter and the channel as they are.       *)
LEMMA TransmitSeen ==
    ASSUME TypeOK, NEW rate \in Rates, Transmit(rate)
    PROVE  /\ dev'.chip = dev.chip /\ dev'.dirty = dev.dirty
           /\ dev'.tuned = dev.tuned /\ dev'.chan = dev.chan
           /\ UNCHANGED <<guard, hw, ready>>
BY DEF TypeOK, Host, Transmit

(* The guard leaves the rate table as it is, and is inactive once restored. *)
LEMMA GuardSeen ==
    ASSUME TypeOK, G5BeginOk \/ G5BeginFails \/ G5RestoreOk \/ G5RestoreFails
    PROVE  /\ Kept /\ UNCHANGED dev
           /\ hw'.table = hw.table /\ hw'.g5was = hw.g5was
           /\ G5RestoreOk => ~guard'.active
           /\ G5RestoreOk \/ G5RestoreFails => (guard'.active => guard.active)
<1> USE DEF G5BeginOk, G5BeginFails, G5RestoreOk, G5RestoreFails
<1>1. hw' \in {hw, [hw EXCEPT !.g5 = TRUE], [hw EXCEPT !.g5 = guard.saved]}
    OBVIOUS
<1>2. hw'.table = hw.table /\ hw'.g5was = hw.g5was
    BY <1>1 DEF TypeOK, Adapter
<1>3. Kept /\ UNCHANGED dev
    BY DEF Kept
<1>4. G5RestoreOk => ~guard'.active
    BY DEF TypeOK, Guard
<1>5. G5RestoreOk \/ G5RestoreFails => (guard'.active => guard.active)
    BY DEF TypeOK, Guard
<1> QED BY <1>2, <1>3, <1>4, <1>5

(* Time passing changes the clocks only.                                    *)
LEMMA LaterSeen ==
    ASSUME TypeOK, Later
    PROVE  /\ dev'.chip = dev.chip /\ dev'.dirty = dev.dirty
           /\ dev'.tuned = dev.tuned /\ dev'.chan = dev.chan
           /\ dev'.count = dev.count /\ dev'.rates = dev.rates
           /\ UNCHANGED <<guard, hw, ready, burst>>
           /\ Tick \/ UNCHANGED libVars
<1>1. /\ dev'.chip = dev.chip /\ dev'.dirty = dev.dirty
      /\ dev'.tuned = dev.tuned /\ dev'.chan = dev.chan
      /\ dev'.count = dev.count /\ dev'.rates = dev.rates
    BY DEF TypeOK, Host, Later
<1>2. UNCHANGED <<guard, hw, ready, burst>>
    BY DEF Later
<1>3. CASE ~(quiet < Spacing \/ dev.since < Spacing)
    <2>1. quiet' = quiet
        BY <1>3 DEF Later
    <2>2. dev' = [dev EXCEPT !.since = dev.since]
        BY <1>3 DEF Later
    <2>3. dev' = dev
        BY <2>2 DEF TypeOK, Host
    <2> QED BY <1>1, <1>2, <2>1, <2>3 DEF libVars
<1> QED BY <1>1, <1>2, <1>3 DEF Tick

-----------------------------------------------------------------------------
(* The program keeps the library's rules.                                   *)

(* What the parser of the command line lets through.                        *)
LEMMA ArgsAccepted ==
    ASSUME args \in Args
    PROVE  /\ args.chan \in Channels /\ args.rate \in Rates
           /\ args.count \in 0 .. MaxTx /\ args.cycle \in BOOLEAN
           /\ args.cycle => dev.chip = "mt7921" /\ args.count = 0
BY DEF Args

(* Every step of the program is a step of the library.                      *)
LEMMA Careful ==
    ASSUME ProbeInv, [ProbeNext]_vars
    PROVE  [Next]_libVars
<1>1. /\ args.chan \in Channels /\ args.rate \in Rates
      /\ args.cycle => dev.chip = "mt7921" /\ args.count = 0
    BY ArgsAccepted DEF ProbeInv, Flow, Places
<1>2. /\ pc \in {"bringup", "again"} => ~guard.active
      /\ pc \in {"tune", "prepare", "loop", "begin", "retune"} => ready
    BY <1>1 DEF ProbeInv, Flow, Up, Owner, Setup, Rebooted, OnChannel, Dwell
<1>3. ASSUME BringupOk \/ BringupFails, pc \in {"bringup", "again"}
      PROVE  Next
    BY <1>2, <1>3 DEF Next, Bringup
<1>4. ASSUME pc \in {"tune", "prepare", "loop", "begin", "retune"},
             \/ TuneOk(args.chan) \/ TuneFails(args.chan)
             \/ PrepareOk(args.rate) \/ PrepareFails(args.rate)
             \/ Transmit(args.rate) \/ G5BeginOk \/ G5BeginFails
      PROVE  Next
    BY <1>1, <1>2, <1>4 DEF Next, Use
<1>5. CASE UNCHANGED libVars
    BY <1>5
<1>6. CASE FirstBringup \/ Again
    BY <1>3, <1>6 DEF FirstBringup, Again
<1>7. CASE FirstTune
    BY <1>4, <1>7 DEF FirstTune
<1>8. CASE Prepare
    BY <1>4, <1>8 DEF Prepare
<1>9. CASE Send
    BY <1>4, <1>5, <1>9 DEF Send, Quietly
<1>10. CASE Begin
    BY <1>4, <1>10 DEF Begin
<1>11. CASE Guarded \/ Restore
    BY <1>11 DEF Guarded, Restore, Next
<1>12. CASE Retune
    BY <1>4, <1>12 DEF Retune
<1>13. CASE \/ OpenPcap \/ Monitor \/ Mib \/ LoopEnds \/ NothingDue \/ Read
            \/ Sample \/ EndDwell \/ Alive \/ Remonitor \/ Realive \/ Finish
            \/ Signal
    BY <1>5, <1>13 DEF OpenPcap, Monitor, Mib, LoopEnds, NothingDue, Read,
       Sample, EndDwell, Alive, Remonitor, Realive, Finish, Signal, Quietly
<1>14. CASE Elapse
    <2>1. Tick \/ UNCHANGED libVars
        BY <1>14, LaterSeen DEF Elapse, ProbeInv, Library, Sound
    <2> QED BY <2>1 DEF Next
<1>15. CASE UNCHANGED vars
    BY <1>5, <1>15 DEF vars
<1> QED BY <1>6, <1>7, <1>8, <1>9, <1>10, <1>11, <1>12, <1>13, <1>14, <1>15
        DEF ProbeNext, Step

(* So the library's own steps keep the library's invariant, also on an      *)
(* adapter that came with another program's rate table.                     *)
LEMMA LibraryStep ==
    ASSUME Library, [Next]_libVars
    PROVE  Library'
<1>1. Sound /\ TypeOK /\ (ready => ReloadOwed /\ ~hw.g5was)
    BY DEF Library, Sound
<1>2. ASSUME Sound', ReloadOwed => ReloadOwed', ready' = ready,
             hw'.g5was = hw.g5was
      PROVE  Library'
    BY <1>1, <1>2 DEF Library
<1>3. CASE Bringup
    <2>1. Sound'
        BY <1>1, <1>3, BringupStep
    <2>2. /\ BringupOk => ready' /\ hw'.table = {} /\ ~hw'.g5was
          /\ ~BringupOk => ~ready'
        BY <1>1, <1>3, BringupSeen DEF Bringup
    <2> QED BY <2>1, <2>2 DEF Library, ReloadOwed
<1>4. ASSUME NEW ch \in Channels, NEW rate \in Rates, Use(ch, rate)
      PROVE  Library'
    <2>1. CASE TuneOk(ch) \/ TuneFails(ch)
        BY <1>1, <1>2, <2>1, TuneStep, TuneSeen DEF Kept
    <2>2. CASE PrepareOk(rate) \/ PrepareFails(rate)
        BY <1>1, <1>2, <2>2, PrepareStep, PrepareSeen DEF Kept
    <2>3. CASE Transmit(rate)
        BY <1>1, <1>2, <1>4, <2>3, TransmitStep, TransmitSeen DEF Use
    <2>4. CASE G5BeginOk \/ G5BeginFails
        BY <1>1, <1>2, <2>4, GuardStep, GuardSeen DEF Kept
    <2> QED BY <1>4, <2>1, <2>2, <2>3, <2>4 DEF Use
<1>5. CASE G5RestoreOk \/ G5RestoreFails
    BY <1>1, <1>2, <1>5, GuardStep, GuardSeen DEF Kept
<1>6. CASE Tick
    BY <1>1, <1>2, <1>6, TickStep, LaterSeen DEF Tick
<1>7. CASE UNCHANGED libVars
    BY <1>1, <1>7 DEF libVars, Library, Sound, TypeOK, Counted, Paced,
       Believed, GuardHonest, ReloadOwed
<1> QED BY <1>3, <1>4, <1>5, <1>6, <1>7 DEF Next
-----------------------------------------------------------------------------
(* The flow of the program, action by action.                               *)

(* No operation changes the chip.                                           *)
LEMMA ChipKept ==
    ASSUME TypeOK, [Next]_libVars
    PROVE  dev'.chip = dev.chip
<1>1. CASE Bringup BY <1>1, BringupSeen DEF Bringup
<1>2. ASSUME NEW ch \in Channels, NEW rate \in Rates, Use(ch, rate)
      PROVE  dev'.chip = dev.chip
    BY <1>2, TuneSeen, PrepareSeen, TransmitSeen, GuardSeen DEF Use, Kept
<1>3. CASE G5RestoreOk \/ G5RestoreFails BY <1>3, GuardSeen DEF Kept
<1>4. CASE Tick BY <1>4, LaterSeen DEF Tick
<1>5. CASE UNCHANGED libVars BY <1>5 DEF libVars
<1> QED BY <1>1, <1>2, <1>3, <1>4, <1>5 DEF Next

(* Every step keeps the types of the program.                               *)
LEMMA PlacesStep ==
    ASSUME ProbeInv, [ProbeNext]_vars
    PROVE  Places' /\ args' = args
<1>1. dev'.chip = dev.chip
    BY Careful, ChipKept DEF ProbeInv, Library, Sound
<1>2. args' \in Args' <=> args' \in Args
    BY <1>1 DEF Args, Described
<1>3. /\ args.count \in Nat /\ DwellTicks \in Nat /\ Lead \in Nat
      /\ Spacing \in Nat
    BY ArgsAccepted, ProbeAssumption, ExperimentAssumption
       DEF ProbeInv, Flow, Places
<1>4. Places
    BY DEF ProbeInv, Flow
<1> USE <1>2, <1>4 DEF Places, Points, Dwell
<1>5. ASSUME pc' \in Points, UNCHANGED <<args, phase, stopping, reload>>,
             result' \in {result, 0, 1}, UNCHANGED dwelling
      PROVE  Places' /\ args' = args
    BY <1>5 DEF dwelling
<1> USE DEF To, Enter, Failed, Done, FailsAt
<1>6. CASE \/ OpenPcap \/ FirstBringup \/ Monitor \/ Restore \/ Alive \/ Again
           \/ Remonitor \/ Retune \/ Realive \/ LoopEnds \/ NothingDue
           \/ (Guarded /\ phase' = phase)
    BY <1>5, <1>6 DEF OpenPcap, FirstBringup, Monitor, Restore, Alive, Again,
       Remonitor, Retune, Realive, LoopEnds, NothingDue, AfterAlive, Guarded
<1>7. CASE FirstTune
    <2>1. /\ pc' \in {"restore", "mib", "prepare"}
          /\ phase' \in {phase, "baseline"} /\ reload' \in {reload, TRUE}
        BY <1>7 DEF FirstTune
    <2>2. UNCHANGED <<args, stopping, result, dwelling>>
        BY <1>7 DEF FirstTune
    <2> QED BY <2>1, <2>2 DEF dwelling
<1>8. CASE Prepare
    BY <1>8 DEF Prepare, dwelling
<1>9. CASE Mib
    <2>1. /\ pc' \in {"loop", "restore"}
          /\ left' \in {left, DwellTicks} /\ pause' \in {pause, Lead}
          /\ bad' \in {bad, FALSE}
        BY <1>9 DEF Mib, dwelling
    <2>2. UNCHANGED <<args, phase, stopping, result, reload, afterOk,
                      submitted>>
        BY <1>9 DEF Mib, dwelling
    <2>3. left' \in 0 .. DwellTicks /\ pause' \in Nat
        BY <1>3, <2>1
    <2>4. bad' \in BOOLEAN
        BY <2>1
    <2> QED BY <2>1, <2>2, <2>3, <2>4
<1>10. CASE Send
    <2>1. UNCHANGED <<args, phase, stopping, result, reload, afterOk, left>>
        BY <1>10 DEF Send
    <2>2. pc' \in {"read", "sample"} /\ bad' \in BOOLEAN
        BY <1>10 DEF Send
    <2>3. pause' \in Nat
        BY <1>3, <1>10 DEF Send
    <2>4. submitted' \in 0 .. args.count
        <3>1. submitted < args.count
            BY <1>3, <1>10 DEF Send, Due, Wanted
        <3>2. submitted' \in {submitted, submitted + 1}
            BY <1>10 DEF Send
        <3> QED BY <1>3, <3>1, <3>2
    <2> QED BY <2>1, <2>2, <2>3, <2>4
<1>11. CASE Read
    <2>1. pc' \in {"sample", "loop"} /\ bad' \in {bad, TRUE}
        BY <1>11 DEF Read, dwelling
    <2>2. UNCHANGED <<args, phase, stopping, result, reload, afterOk, left,
                      pause, submitted>>
        BY <1>11 DEF Read, dwelling
    <2> QED BY <2>1, <2>2
<1>12. CASE Sample
    BY <1>12 DEF Sample
<1>13. CASE EndDwell
    <2>1. pc' \in {"restore", "guarded", "begin"}
        BY <1>13 DEF EndDwell
    <2>2. /\ UNCHANGED <<args, phase, stopping, reload, dwelling>>
          /\ result' \in {result, 0}
        BY <1>13 DEF EndDwell
    <2> QED BY <2>1, <2>2, <1>5
<1>14. CASE Begin
    BY <1>14 DEF Begin, dwelling
<1>15. CASE Guarded
    BY <1>15 DEF Guarded, dwelling
<1>16. CASE Finish
    BY <1>16 DEF Finish, dwelling
<1>17. CASE Signal
    BY <1>17 DEF Signal, dwelling
<1>18. CASE Elapse
    <2>1. left' \in 0 .. DwellTicks /\ pause' \in Nat
        BY <1>3, <1>18 DEF Elapse
    <2> QED BY <2>1, <1>18 DEF Elapse, flow
<1>19. CASE UNCHANGED vars
    BY <1>19 DEF vars, flow, dwelling
<1> QED BY <1>6, <1>7, <1>8, <1>9, <1>10, <1>11, <1>12, <1>13, <1>14, <1>15,
           <1>16, <1>17, <1>18, <1>19 DEF ProbeNext, Step

(* What a step must keep, besides the places, and the names of the places.  *)
Moves == Up /\ Owner /\ Loaded /\ Outcome

(* The facts that every step below starts from.                             *)
LEMMA MovesNow ==
    ASSUME ProbeInv
    PROVE  /\ Moves /\ TypeOK /\ Library
           /\ args.chan \in Channels /\ args.rate \in Rates
           /\ args.count \in Nat
           /\ args.cycle => dev.chip = "mt7921" /\ args.count = 0
           /\ submitted \in 0 .. args.count /\ result \in {0, 1, 130}
<1>1. args \in Args /\ submitted \in 0 .. args.count /\ result \in {0, 1, 130}
    BY DEF ProbeInv, Flow, Places
<1>2. /\ args.chan \in Channels /\ args.rate \in Rates
      /\ args.count \in 0 .. MaxTx
      /\ args.cycle => dev.chip = "mt7921" /\ args.count = 0
    BY <1>1, ArgsAccepted
<1>3. args.count \in Nat
    BY <1>2, ExperimentAssumption
<1>4. Moves /\ TypeOK /\ Library
    BY DEF ProbeInv, Flow, Moves, Library, Sound
<1> QED BY <1>1, <1>2, <1>3, <1>4

(* Opening the file, the bring-up and the monitor mode.                     *)
LEMMA SetupFlow ==
    ASSUME ProbeInv, OpenPcap \/ FirstBringup \/ Monitor
    PROVE  Moves'
<1>1. /\ Moves /\ TypeOK
      /\ args.cycle => dev.chip = "mt7921" /\ args.count = 0
    BY MovesNow
<1> USE <1>1 DEF Moves, Up, Owner, Loaded, Outcome, Setup, OnChannel, Dwell,
                 Rebooted, Back, Cleanup, To, Failed
<1>2. /\ UNCHANGED <<args, phase, stopping, result, reload, submitted>>
      /\ pc \in {"open", "bringup", "monitor"}
    BY DEF OpenPcap, FirstBringup, Monitor, dwelling
<1>3. CASE OpenPcap \/ Monitor
    <2>1. UNCHANGED <<dev, guard, hw, ready, burst>>
        BY <1>3 DEF OpenPcap, Monitor, Quietly, libVars
    <2>2. \/ pc = "open" /\ pc' = "bringup"
          \/ pc = "monitor" /\ pc' = "tune"
          \/ pc' = "restore"
        <3> HIDE DEF Moves, Up, Owner, Loaded, Outcome
        <3>1. CASE OpenPcap BY <3>1 DEF OpenPcap
        <3>2. CASE Monitor BY <3>2 DEF Monitor
        <3> QED BY <1>3, <3>1, <3>2
    <2>3. HostClear' <=> HostClear
        BY <2>1 DEF HostClear
    <2> QED BY <1>2, <2>1, <2>2, <2>3
<1>4. CASE FirstBringup
    <2>1. /\ dev'.chip = dev.chip /\ (dev'.dirty => dev.dirty) /\ HostClear'
          /\ UNCHANGED guard
          /\ BringupOk => ready'
        BY <1>4, BringupSeen DEF FirstBringup
    <2>2. \/ BringupOk /\ pc' = "monitor"
          \/ pc' = "restore"
        BY <1>4 DEF FirstBringup
    <2> QED BY <1>2, <1>4, <2>1, <2>2 DEF FirstBringup
<1> QED BY <1>3, <1>4

(* The first tuning.                                                        *)
LEMMA TuneFlow ==
    ASSUME ProbeInv, FirstTune
    PROVE  Moves'
<1>1. /\ Moves /\ TypeOK /\ args.chan \in Channels
      /\ args.count \in Nat
      /\ args.cycle => dev.chip = "mt7921" /\ args.count = 0
    BY MovesNow
<1>2. TuneOk(args.chan) \/ TuneFails(args.chan)
    BY DEF FirstTune
<1>3. /\ UNCHANGED <<ready, burst, guard>> /\ dev'.chip = dev.chip
      /\ dev'.dirty = dev.dirty /\ (HostClear => HostClear')
      /\ TuneOk(args.chan) => dev'.tuned /\ dev'.chan = args.chan
    BY <1>1, <1>2, TuneSeen DEF Kept
<1>4. /\ UNCHANGED <<args, stopping, result, submitted>>
      /\ pc = "tune"
    BY DEF FirstTune, Failed, Enter, dwelling
<1>5. \/ pc' = "restore" /\ UNCHANGED <<phase, reload>>
      \/ /\ TuneOk(args.chan) /\ args.count = 0
         /\ pc' = "mib" /\ phase' = "baseline" /\ reload' = reload
      \/ /\ TuneOk(args.chan) /\ args.count > 0
         /\ pc' = "prepare" /\ phase' = phase /\ reload'
    BY DEF FirstTune, Failed, Enter
<1> USE DEF Moves, Up, Owner, Loaded, Outcome, Setup, OnChannel, Dwell,
            Rebooted, Back, Cleanup
<1> QED BY <1>1, <1>3, <1>4, <1>5

(* Preparing the rate, after which a reload is owed.                        *)
LEMMA PrepareFlow ==
    ASSUME ProbeInv, Prepare
    PROVE  Moves'
<1>1. /\ Moves /\ TypeOK /\ args.rate \in Rates
    BY MovesNow
<1>2. PrepareOk(args.rate) \/ PrepareFails(args.rate)
    BY DEF Prepare
<1>3. /\ UNCHANGED <<ready, burst, guard>> /\ dev'.chip = dev.chip
      /\ dev'.tuned = dev.tuned /\ dev'.chan = dev.chan
      /\ dev.chip = "mt7921" => dev'.dirty = dev.dirty
    BY <1>1, <1>2, PrepareSeen DEF Kept
<1>4. /\ UNCHANGED <<args, stopping, result, submitted, reload>>
      /\ pc = "prepare"
      /\ \/ pc' = "mib" /\ phase' = "baseline"
         \/ pc' = "restore" /\ phase' = phase
    BY DEF Prepare, Failed, Enter, dwelling
<1> USE DEF Moves, Up, Owner, Loaded, Outcome, Setup, OnChannel, Dwell,
            Rebooted, Back, Cleanup
<1> QED BY <1>1, <1>3, <1>4

(* The steps of a dwell that only read.                                     *)
LEMMA DwellFlow ==
    ASSUME ProbeInv, Mib \/ LoopEnds \/ NothingDue \/ Read \/ Sample
    PROVE  Moves'
<1>1. Moves
    BY MovesNow
<1>2. /\ UNCHANGED <<args, phase, stopping, result, reload, submitted,
                     dev, guard, hw, ready, burst>>
      /\ pc \in Dwell /\ pc' \in Dwell \cup {"restore"}
    BY DEF Mib, LoopEnds, NothingDue, Read, Sample, To, Failed, Dwell,
           Quietly, libVars, dwelling
<1>3. HostClear' <=> HostClear
    BY <1>2 DEF HostClear
<1> USE DEF Moves, Up, Owner, Loaded, Outcome, Setup, OnChannel, Dwell,
            Rebooted, Back, Cleanup
<1> QED BY <1>1, <1>2, <1>3

(* A write.                                                                 *)
LEMMA SendFlow ==
    ASSUME ProbeInv, Send
    PROVE  Moves'
<1>1. /\ Moves /\ TypeOK /\ args.rate \in Rates /\ args.count \in Nat
      /\ submitted \in 0 .. args.count
    BY MovesNow
<1>2. /\ UNCHANGED <<args, phase, stopping, result, reload>>
      /\ pc = "loop" /\ pc' \in {"read", "sample"}
      /\ Transmit(args.rate) \/ UNCHANGED libVars
    BY DEF Send, To, Quietly
<1>3. args.count > 0
    BY <1>1 DEF Send, Due, Wanted
<1>4. /\ dev'.chip = dev.chip /\ dev'.dirty = dev.dirty
      /\ dev'.tuned = dev.tuned /\ dev'.chan = dev.chan
      /\ UNCHANGED <<guard, hw, ready>>
    BY <1>1, <1>2, TransmitSeen DEF libVars
<1> USE DEF Moves, Up, Owner, Loaded, Outcome, Setup, OnChannel, Dwell,
            Rebooted, Back, Cleanup
<1> QED BY <1>1, <1>2, <1>3, <1>4

(* The end of a dwell.                                                      *)
LEMMA EndFlow ==
    ASSUME ProbeInv, EndDwell
    PROVE  Moves'
<1>1. /\ Moves /\ args.count \in Nat
      /\ args.cycle => dev.chip = "mt7921" /\ args.count = 0
      /\ submitted \in 0 .. args.count
    BY MovesNow
<1>2. /\ UNCHANGED <<args, phase, stopping, reload, submitted,
                     dev, guard, hw, ready, burst>>
      /\ pc = "end"
    BY DEF EndDwell, Failed, To, Done, Quietly, libVars, dwelling
<1>3. \/ pc' = "restore" /\ result' = result
      \/ pc' = "restore" /\ result' = 0 /\ Acceptable
      \/ pc' = "guarded" /\ result' = result /\ phase = "enabled"
      \/ pc' = "begin" /\ result' = result /\ args.cycle
    BY DEF EndDwell, Failed, To, Done
<1>4. Acceptable => stopping \/ submitted = args.count
    <2>1. phase # "baseline" => args.count = 0
        BY <1>1 DEF Moves, Owner
    <2> QED BY <1>1, <2>1 DEF Acceptable, Wanted
<1>5. HostClear' <=> HostClear
    BY <1>2 DEF HostClear
<1> USE DEF Moves, Up, Owner, Loaded, Outcome, Setup, OnChannel, Dwell,
            Rebooted, Back, Cleanup
<1> QED BY <1>1, <1>2, <1>3, <1>4, <1>5

(* The Group-5 cycle and its restore.                                       *)
LEMMA GuardFlow ==
    ASSUME ProbeInv, Begin \/ Guarded \/ Restore
    PROVE  Moves'
<1>1. /\ Moves /\ TypeOK /\ args.count \in Nat
      /\ args.cycle => dev.chip = "mt7921" /\ args.count = 0
      /\ submitted \in 0 .. args.count /\ result \in {0, 1, 130}
    BY MovesNow
<1>2. G5BeginOk \/ G5BeginFails \/ G5RestoreOk \/ G5RestoreFails
    BY DEF Begin, Guarded, Restore
<1>3. /\ UNCHANGED <<dev, ready, burst>> /\ hw'.table = hw.table
      /\ G5RestoreOk => ~guard'.active
      /\ G5RestoreOk \/ G5RestoreFails => (guard'.active => guard.active)
    BY <1>1, <1>2, GuardSeen DEF Kept
<1>4. HostClear' <=> HostClear
    BY <1>3 DEF HostClear
<1>5. UNCHANGED <<args, stopping, reload, submitted>>
    BY DEF Begin, Guarded, Restore, Enter, To, Failed, Done, FailsAt, dwelling
<1> USE DEF Moves, Up, Owner, Loaded, Outcome, Setup, OnChannel, Dwell,
            Rebooted, Back, Cleanup
<1>6. CASE Begin
    <2>1. /\ pc = "begin" /\ result' = result
          /\ \/ pc' = "mib" /\ phase' = "enabled"
             \/ pc' = "restore" /\ phase' = phase
        BY <1>6 DEF Begin, Enter, Failed
    <2> QED BY <1>1, <1>3, <1>4, <1>5, <2>1
<1>7. CASE Guarded
    <2>1. /\ pc = "guarded"
          /\ G5RestoreOk \/ G5RestoreFails
          /\ \/ pc' = "restore" /\ phase' = phase /\ result' = result
             \/ pc' = "restore" /\ phase' = phase /\ result' = 0
             \/ pc' = "mib" /\ phase' = "restored" /\ result' = result
        BY <1>7 DEF Guarded, Enter, Failed, Done
    <2>2. submitted = args.count
        BY <1>1, <2>1
    <2> QED BY <1>1, <1>3, <1>4, <1>5, <2>1, <2>2
<1>8. CASE Restore
    <2>1. /\ pc = "restore" /\ pc' = "alive" /\ phase' = phase
          /\ G5RestoreOk \/ G5RestoreFails
          /\ (G5RestoreOk /\ result' = result) \/ result' = 1
        BY <1>8 DEF Restore, To, FailsAt
    <2> QED BY <1>1, <1>3, <1>4, <1>5, <2>1
<1> QED BY <1>6, <1>7, <1>8
(* Cleanup after the guard: whether a reload is due, and the reload.        *)
LEMMA AliveFlow ==
    ASSUME ProbeInv, Alive
    PROVE  Moves'
<1>1. /\ Moves /\ Library /\ args.count \in Nat
      /\ args.cycle => dev.chip = "mt7921" /\ args.count = 0
      /\ result \in {0, 1, 130}
    BY MovesNow
<1>2. /\ UNCHANGED <<args, phase, stopping, reload, submitted,
                     dev, guard, hw, ready, burst>>
      /\ pc = "alive" /\ pc' = AfterAlive /\ result' \in {result, 1}
    BY DEF Alive, To, FailsAt, Quietly, libVars, dwelling
<1>3. \/ pc' = "again" /\ (reload \/ dev.dirty)
      \/ pc' = "finish" /\ ~reload /\ ~dev.dirty
    BY <1>2 DEF AfterAlive
<1>4. HostClear' <=> HostClear
    BY <1>2 DEF HostClear
<1>5. ASSUME result # 1, ~reload, ~dev.dirty
      PROVE  hw.table = {} /\ burst = 0 /\ ~hw.g5
    <2>1. ready /\ ~guard.active /\ HostClear
        BY <1>1, <1>2, <1>5 DEF Moves, Outcome, Loaded
    <2>2. hw.table = {}
        BY <1>1, <1>5, <2>1 DEF Library, ReloadOwed
    <2>3. burst = 0
        BY <1>1, <2>1 DEF Library, Sound, Counted, HostClear
    <2>4. ~hw.g5
        BY <1>1, <2>1 DEF Library, Sound, GuardHonest
    <2> QED BY <2>2, <2>3, <2>4
<1>6. guard.active => ~reload /\ ~dev.dirty
    BY <1>1 DEF Moves, Owner
<1> USE DEF Moves, Up, Owner, Loaded, Outcome, Setup, OnChannel, Dwell,
            Rebooted, Back, Cleanup
<1>7. CASE pc' = "again"
    BY <1>1, <1>2, <1>3, <1>4, <1>6, <1>7
<1>8. CASE pc' = "finish"
    BY <1>1, <1>2, <1>3, <1>4, <1>5, <1>8
<1> QED BY <1>3, <1>7, <1>8

(* The bring-up of the cleanup.                                             *)
LEMMA AgainFlow ==
    ASSUME ProbeInv, Again
    PROVE  Moves'
<1>1. Moves /\ TypeOK
    BY MovesNow
<1>2. /\ dev'.chip = dev.chip /\ (dev'.dirty => dev.dirty) /\ HostClear'
      /\ UNCHANGED guard
      /\ BringupOk => ready' /\ burst' = 0 /\ hw'.table = {} /\ ~hw'.g5
    BY <1>1, BringupSeen DEF Again
<1>3. /\ UNCHANGED <<args, phase, stopping, reload, submitted>>
      /\ pc = "again"
      /\ \/ BringupOk /\ pc' = "remonitor" /\ result' = result
         \/ pc' = "finish" /\ result' = 1
    BY DEF Again, To, FailsAt, dwelling
<1> USE DEF Moves, Up, Owner, Loaded, Outcome, Setup, OnChannel, Dwell,
            Rebooted, Back, Cleanup
<1> QED BY <1>1, <1>2, <1>3

(* What the cleanup does after its bring-up.                                *)
LEMMA RetuneFlow ==
    ASSUME ProbeInv, Remonitor \/ Retune \/ Realive
    PROVE  Moves'
<1>1. /\ Moves /\ TypeOK /\ args.chan \in Channels
    BY MovesNow
<1>2. /\ UNCHANGED <<args, phase, stopping, reload, submitted>>
      /\ \/ pc' = "finish" /\ result' = 1
         \/ pc = "remonitor" /\ pc' = "retune" /\ result' = result
         \/ /\ pc = "retune" /\ pc' = "realive" /\ result' = result
            /\ TuneOk(args.chan)
         \/ pc = "realive" /\ pc' = "finish" /\ result' = result
      /\ pc \in {"remonitor", "retune", "realive"}
    BY DEF Remonitor, Retune, Realive, To, FailsAt, dwelling
<1>3. /\ UNCHANGED <<ready, burst, guard>> /\ dev'.chip = dev.chip
      /\ dev'.dirty = dev.dirty /\ (HostClear => HostClear')
      /\ hw'.table = hw.table /\ hw'.g5 = hw.g5
      /\ pc = "retune" /\ TuneOk(args.chan) =>
            dev'.tuned /\ dev'.chan = args.chan
      /\ pc # "retune" => dev' = dev
    <2>1. CASE Retune
        BY <1>1, <2>1, TuneSeen DEF Retune, Kept
    <2>2. CASE Remonitor \/ Realive
        BY <2>2 DEF Remonitor, Realive, Quietly, libVars, HostClear
    <2> QED BY <2>1, <2>2
<1> USE DEF Moves, Up, Owner, Loaded, Outcome, Setup, OnChannel, Dwell,
            Rebooted, Back, Cleanup
<1>4. Up' BY <1>1, <1>2, <1>3
<1>5. Owner' BY <1>1, <1>2, <1>3
<1>6. Loaded' BY <1>1, <1>2, <1>3
<1>7. Outcome'
    <2>1. CASE pc' = "finish" /\ result' = 1 BY <1>1, <1>2, <1>3, <2>1
    <2>2. CASE pc = "remonitor" /\ pc' = "retune" BY <1>1, <1>2, <1>3, <2>2
    <2>3. CASE pc = "retune" /\ pc' = "realive" BY <1>1, <1>2, <1>3, <2>3
    <2>4. CASE pc = "realive" /\ pc' = "finish" BY <1>1, <1>2, <1>3, <2>4
    <2> QED BY <1>2, <2>1, <2>2, <2>3, <2>4
<1> HIDE DEF Up, Owner, Loaded, Outcome
<1> QED BY <1>4, <1>5, <1>6, <1>7

(* The exit code.                                                           *)
LEMMA FinishFlow ==
    ASSUME ProbeInv, Finish
    PROVE  Moves'
<1>1. Moves /\ result \in {0, 1, 130}
    BY MovesNow
<1>2. /\ UNCHANGED <<args, phase, stopping, reload, submitted,
                     dev, guard, hw, ready, burst>>
      /\ pc = "finish" /\ pc' = "exited"
    BY DEF Finish, Quietly, libVars, dwelling
<1>3. \/ stopping /\ result = 0 /\ result' = 130
      \/ ~(stopping /\ result = 0) /\ result' = result
      \/ result' = 1
    BY DEF Finish
<1>4. HostClear' <=> HostClear
    BY <1>2 DEF HostClear
<1> USE DEF Moves, Up, Owner, Loaded, Outcome, Setup, OnChannel, Dwell,
            Rebooted, Back, Cleanup
<1> QED BY <1>1, <1>2, <1>3, <1>4

(* A signal, and time, at any point of the run.                             *)
LEMMA AroundFlow ==
    ASSUME ProbeInv, Signal \/ Elapse \/ UNCHANGED vars
    PROVE  Moves'
<1>1. Moves /\ TypeOK
    BY MovesNow
<1>2. /\ UNCHANGED <<args, pc, phase, result, reload, submitted>>
      /\ \/ stopping' = stopping
         \/ pc # "exited" /\ stopping'
    BY DEF Signal, Elapse, vars, flow, dwelling
<1>3. /\ dev'.chip = dev.chip /\ dev'.dirty = dev.dirty
      /\ dev'.tuned = dev.tuned /\ dev'.chan = dev.chan
      /\ dev'.count = dev.count /\ dev'.rates = dev.rates
      /\ UNCHANGED <<guard, hw, ready, burst>>
    <2>1. CASE Elapse BY <1>1, <2>1, LaterSeen DEF Elapse
    <2>2. CASE Signal \/ UNCHANGED vars
        BY <2>2 DEF Signal, Quietly, libVars, vars
    <2> QED BY <2>1, <2>2
<1>4. HostClear' <=> HostClear
    BY <1>3 DEF HostClear
<1> USE DEF Moves, Up, Owner, Loaded, Outcome, Setup, OnChannel, Dwell,
            Rebooted, Back, Cleanup
<1> QED BY <1>1, <1>2, <1>3, <1>4

-----------------------------------------------------------------------------
(* The program begins in the invariant, on whatever adapter an earlier run left. *)
LEMMA Base ==
    ASSUME ProbeInit
    PROVE  ProbeInv
<1> USE DEF ProbeInit, Opened
<1>1. MaxTx \in Nat /\ MaxAir \in Nat /\ MaxTx <= MaxAir /\ DwellTicks \in Nat
    BY ExperimentAssumption, ProbeAssumption
<1>2. PICK chip \in Chips :
         dev = [chip |-> chip, tuned |-> FALSE, chan |-> "2.4GHz:6",
                rates |-> {}, count |-> 0, since |-> Spacing,
                dirty |-> FALSE]
    OBVIOUS
<1>3. /\ guard = [active |-> FALSE, saved |-> FALSE] /\ ~ready
      /\ quiet = Spacing /\ hw \in Adapter /\ hw.g5was = hw.g5
      /\ burst \in 0 .. MaxTx
    OBVIOUS
<1>4. /\ dev \in Host /\ ~dev.tuned /\ dev.rates = {} /\ dev.count = 0
      /\ ~dev.dirty
    BY <1>2, Ranges DEF Host, Channels
<1>5. TypeOK
    <2>1. burst \in 0 .. MaxAir
        BY <1>1, <1>3
    <2>2. ready \in BOOLEAN /\ guard \in Guard
        BY DEF Guard
    <2> QED BY <1>3, <1>4, <2>1, <2>2, Ranges DEF TypeOK
<1>6. Library
    BY <1>1, <1>3, <1>4, <1>5
       DEF Library, Sound, Counted, Paced, Believed, GuardHonest
<1>7. Places
    <2>1. 0 \in 0 .. args.count /\ 0 \in 0 .. DwellTicks
        BY <1>1, ArgsAccepted, ExperimentAssumption
    <2> QED BY <2>1 DEF Places, Points
<1>8. Up /\ Owner /\ Loaded /\ Outcome
    BY <1>3, <1>4 DEF Up, Owner, Loaded, Outcome, HostClear, Setup, OnChannel,
       Dwell, Rebooted, Back, Cleanup
<1> QED BY <1>6, <1>7, <1>8 DEF ProbeInv, Flow

(* Every step keeps the invariant.                                          *)
LEMMA InductiveStep ==
    ASSUME ProbeInv, [ProbeNext]_vars
    PROVE  ProbeInv'
<1>1. Library'
    BY Careful, LibraryStep DEF ProbeInv
<1>2. Places'
    BY PlacesStep
<1>3. Moves'
    BY SetupFlow, TuneFlow, PrepareFlow, DwellFlow, SendFlow, EndFlow,
       GuardFlow, AliveFlow, AgainFlow, RetuneFlow, FinishFlow, AroundFlow
       DEF ProbeNext, Step
<1> QED BY <1>1, <1>2, <1>3 DEF ProbeInv, Flow, Moves

(* The run, from an adapter in any state and through any failure and        *)
(* signal, keeps what its exit code rests on.                               *)
THEOREM ProbeInvariant == ProbeSpec => []ProbeInv
<1>1. ProbeInit => ProbeInv
    BY Base
<1>2. ProbeInv /\ [ProbeNext]_vars => ProbeInv'
    BY InductiveStep
<1> QED BY <1>1, <1>2, PTL DEF ProbeSpec

(* The program implements the careful caller the library was proved for:    *)
(* each of its steps is a step of the library or leaves it alone.           *)
THEOREM ProgramIsCareful == ProbeSpec => CarefulCaller
<1>1. ProbeInv /\ [ProbeNext]_vars => [Next]_libVars
    BY Careful
<1> QED BY <1>1, ProbeInvariant, PTL DEF ProbeSpec, CarefulCaller

(* On every exit a bring-up came after the last write.                      *)
THEOREM ReloadIsTried == ProbeSpec => []ReloadTried
<1>1. ProbeInv => ReloadTried
    BY DEF ProbeInv, Flow, Loaded, HostClear, Back, ReloadTried
<1> QED BY <1>1, ProbeInvariant, PTL

(* An exit code that reports no failure is right about the writes, the      *)
(* signal and the adapter it leaves behind.                                 *)
THEOREM ExitIsHonest == ProbeSpec => []HonestExit
<1>1. ProbeInv => HonestExit
    <2> SUFFICES ASSUME ProbeInv, pc = "exited", result # 1
                 PROVE  /\ hw.up /\ hw.table = {} /\ burst = 0
                        /\ ~hw.g5 /\ ~guard.active
                        /\ dev.tuned /\ hw.chan = args.chan
                        /\ result = 0 => ~stopping /\ submitted = args.count
                        /\ result = 130 => stopping
        BY DEF HonestExit, CleanExit, ExitCode
    <2>1. /\ ready /\ dev.tuned /\ dev.chan = args.chan /\ ~guard.active
          /\ hw.table = {} /\ burst = 0 /\ ~hw.g5
          /\ result = 0 => ~stopping /\ submitted = args.count
          /\ result = 130 => stopping
        BY DEF ProbeInv, Flow, Outcome, Back
    <2>2. hw.up /\ hw.chan = dev.chan
        BY <2>1 DEF ProbeInv, Library, Sound, Believed
    <2> QED BY <2>1, <2>2
<1> QED BY <1>1, ProbeInvariant, PTL
=============================================================================
