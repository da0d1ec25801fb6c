----------------------------- MODULE Experiment -----------------------------
(***************************************************************************)
(* The C library's experimental transmit path and Group-5 guard            *)
(* (c/mt7921_radio.c) with the two operations of c/mt7921_dev.c they       *)
(* depend on, mt7921_bringup and mt7921_tune, called in any order by one   *)
(* owner of the device. Each operation returns 0 or an error, and the      *)
(* error may come before or after the adapter was touched.                 *)
(*                                                                         *)
(* mt7921_bringup is one step here; module Bringup is the same function    *)
(* access by access. What this module takes from it: a bring-up that       *)
(* succeeds has started new firmware, and one that fails may have left     *)
(* the old firmware, the new one or none running.                          *)
(***************************************************************************)
EXTENDS Integers

CONSTANTS
    Chips,      \* the adapters in use: "mt7921", "mt7925" or both
    Caller,     \* "careful": after a failed bring-up, only brings up again
    MaxTx,      \* 60 in the code
    Spacing,    \* 50 ms, in units of Tick
    MaxAir      \* bound: writes explored in one boot of the firmware

ASSUME ExperimentAssumption ==
    /\ Chips \subseteq {"mt7921", "mt7925"}
    /\ Caller \in {"careful", "any"}
    /\ MaxTx \in Nat
    /\ Spacing \in Nat \ {0}
    /\ MaxAir \in Nat

VARIABLES
    dev,    \* mt7921_dev_t: what the host believes
    guard,  \* mt_g5_guard_t
    hw,     \* the adapter
    ready,  \* the last bring-up returned 0
    burst,  \* history: writes since the firmware last started
    quiet   \* history: time since the last write, up to Spacing

libVars == <<dev, guard, hw, ready, burst, quiet>>

Rates == {"cck1", "ofdm6", "ofdm54"}

(* What mt7921_tune was last told: two channels a rate may use, one where   *)
(* none may, and one 80 MHz wide.                                           *)
Channels == {"2.4GHz:6", "5GHz:36", "6GHz:37", "5GHz:36@80"}

Allowed(rate) == IF rate = "cck1" THEN {"2.4GHz:6"} ELSE {"5GHz:36"}

(* The rates mt_probe_txwi has a descriptor for on this chip.               *)
Described(rate) == IF dev.chip = "mt7921" THEN rate # "ofdm54" ELSE rate # "cck1"

(* since is the time since experimental_last_tx_us, saturating at Spacing;  *)
(* rates is experimental_rates. table holds the fixed-rate entries present  *)
(* in the firmware, chan the channel its receiver is on.                    *)
Counts == 0 .. MaxTx
Times == 0 .. Spacing
Host == [chip : Chips, tuned : BOOLEAN, chan : Channels,
         rates : SUBSET Rates, count : Counts, since : Times, dirty : BOOLEAN]
Guard == [active : BOOLEAN, saved : BOOLEAN]
Adapter == [up : BOOLEAN, chan : Channels \cup {"none"},
            table : SUBSET Rates, g5 : BOOLEAN, g5was : BOOLEAN]

(* mt7921_dev_open clears the host's structure and identifies the chip.     *)
Opened ==
    /\ dev \in {[chip |-> chip, tuned |-> FALSE, chan |-> "2.4GHz:6",
                 rates |-> {}, count |-> 0, since |-> Spacing,
                 dirty |-> FALSE] : chip \in Chips}
    /\ guard = [active |-> FALSE, saved |-> FALSE]
    /\ ready = FALSE
    /\ quiet = Spacing

Init ==
    /\ Opened
    /\ \E bit \in BOOLEAN, up \in BOOLEAN :
           hw = [up |-> up, chan |-> "none", table |-> {}, g5 |-> bit,
                 g5was |-> bit]
    /\ burst = 0

-----------------------------------------------------------------------------
(* mt7921_bringup clears the transmit state before it touches the adapter,  *)
(* and sleeps 500 ms after the USB reset. dirty is cleared only at the end. *)

(* Faulty variant: the loaded rates survive a bring-up.                     *)
ClearedButRates(d) == [d EXCEPT !.tuned = FALSE, !.count = 0,
                                 !.since = Spacing]

Cleared(d) == [d EXCEPT !.tuned = FALSE, !.rates = {}, !.count = 0,
                        !.since = Spacing]

(* New firmware: no tables, no channel, and the Group-5 bit at its default. *)
Restarted(up) == [up |-> up, chan |-> "none", table |-> {}, g5 |-> FALSE,
                  g5was |-> FALSE]

BringupOk ==
    /\ dev' = [Cleared(dev) EXCEPT !.dirty = FALSE]
    /\ hw' = Restarted(TRUE)
    /\ ready' = TRUE
    /\ burst' = 0
    /\ quiet' = Spacing
    /\ UNCHANGED guard

BringupFails ==
    /\ dev' = Cleared(dev)
    /\ \/ (\E up \in BOOLEAN : hw' = Restarted(up)) /\ burst' = 0
       \/ UNCHANGED <<hw, burst>>
    /\ ready' = FALSE
    /\ quiet' = Spacing
    /\ UNCHANGED guard

-----------------------------------------------------------------------------
(* mt7921_tune: tuned is false until every command has been answered. A     *)
(* command whose reply was lost may have moved the receiver.                *)

TuneOk(ch) ==
    /\ hw.up
    /\ dev' = [dev EXCEPT !.tuned = TRUE, !.chan = ch]
    /\ hw' = [hw EXCEPT !.chan = ch]
    /\ UNCHANGED <<guard, ready, burst, quiet>>

TuneFails(ch) ==
    /\ dev' = [dev EXCEPT !.tuned = FALSE]
    /\ \/ UNCHANGED hw
       \/ hw.up /\ hw' = [hw EXCEPT !.chan = ch]
    /\ UNCHANGED <<guard, ready, burst, quiet>>

-----------------------------------------------------------------------------
(* mt_probe_prepare and mt_probe_rate_table: the MT7921 has no table to     *)
(* load. On the MT7925 the reload mark is set before the first write, and   *)
(* the rate is usable only once the busy bit was seen to clear.             *)

PrepareOk(rate) ==
    /\ dev.tuned
    /\ Described(rate)
    /\ IF dev.chip = "mt7921" THEN UNCHANGED <<dev, hw>>
       ELSE /\ dev' = [dev EXCEPT !.dirty = TRUE,
                                  !.rates = @ \cup {rate}]
            /\ hw' = [hw EXCEPT !.table = @ \cup {rate}]
    /\ UNCHANGED <<guard, ready, burst, quiet>>

(* Faulty variant: the reload mark is set only on success.                  *)
PrepareMarksLate(rate) ==
    /\ \/ UNCHANGED <<dev, hw>>
       \/ /\ dev.tuned /\ Described(rate) /\ dev.chip = "mt7925"
          /\ UNCHANGED dev
          /\ hw' = [hw EXCEPT !.table = @ \cup {rate}]
    /\ UNCHANGED <<guard, ready, burst, quiet>>

(* Refused, or one of the register accesses or the poll failed.             *)
PrepareFails(rate) ==
    /\ \/ /\ ~(dev.tuned /\ Described(rate))
          /\ UNCHANGED <<dev, hw>>
       \/ /\ dev.tuned /\ Described(rate) /\ dev.chip = "mt7925"
          /\ dev' = [dev EXCEPT !.dirty = TRUE]
          /\ \/ UNCHANGED hw
             \/ hw' = [hw EXCEPT !.table = @ \cup {rate}]
    /\ UNCHANGED <<guard, ready, burst, quiet>>

-----------------------------------------------------------------------------
(* mt_probe_transmit: the checks, in one conjunction, then the write. The   *)
(* attempt is counted before the write, so one that fails is counted too.   *)

(* Faulty variant: no spacing.                                              *)
PermittedAtOnce(rate) ==
    /\ dev.tuned
    /\ dev.count < MaxTx
    /\ dev.chan \in Allowed(rate)
    /\ Described(rate)
    /\ dev.chip = "mt7925" => rate \in dev.rates

Permitted(rate) ==
    /\ dev.tuned
    /\ dev.count < MaxTx
    /\ dev.chan \in Allowed(rate)
    /\ Described(rate)
    /\ dev.chip = "mt7925" => rate \in dev.rates
    /\ dev.count > 0 => dev.since >= Spacing

(* Faulty variant: a write that fails is not counted.                       *)
TransmitCountsSuccess(rate) ==
    /\ burst < MaxAir
    /\ Permitted(rate)
    /\ dev' \in {[dev EXCEPT !.count = @ + 1, !.since = 0],
                 [dev EXCEPT !.since = 0]}
    /\ burst' = burst + 1
    /\ quiet' = 0
    /\ UNCHANGED <<guard, hw, ready>>

Transmit(rate) ==
    /\ burst < MaxAir
    /\ Permitted(rate)
    /\ dev' = [dev EXCEPT !.count = @ + 1, !.since = 0]
    /\ burst' = burst + 1
    /\ quiet' = 0
    /\ UNCHANGED <<guard, hw, ready>>

-----------------------------------------------------------------------------
(* mt_g5_begin and mt_g5_restore. g5was is the bit as it was before any     *)
(* guard was begun on this firmware. A write or a read-back that fails may  *)
(* have reached the register.                                               *)

G5BeginOk ==
    /\ dev.chip = "mt7921"
    /\ ~guard.active
    /\ guard' = [active |-> TRUE, saved |-> hw.g5]
    /\ hw' = [hw EXCEPT !.g5 = TRUE]
    /\ UNCHANGED <<dev, ready, burst, quiet>>

G5BeginFails ==
    /\ \/ UNCHANGED <<guard, hw>>   \* refused, or the first read failed
       \/ /\ dev.chip = "mt7921"
          /\ ~guard.active
          /\ guard' = [active |-> TRUE, saved |-> hw.g5]
          /\ \/ UNCHANGED hw
             \/ hw' = [hw EXCEPT !.g5 = TRUE]
    /\ UNCHANGED <<dev, ready, burst, quiet>>

G5RestoreOk ==
    /\ IF guard.active
       THEN /\ guard' = [guard EXCEPT !.active = FALSE]
            /\ hw' = [hw EXCEPT !.g5 = guard.saved]
       ELSE UNCHANGED <<guard, hw>>
    /\ UNCHANGED <<dev, ready, burst, quiet>>

(* Faulty variant: a failed restore forgets the guard.                      *)
G5RestoreForgets ==
    /\ guard.active
    /\ guard' = [guard EXCEPT !.active = FALSE]
    /\ UNCHANGED <<hw, dev, ready, burst, quiet>>

G5RestoreFails ==
    /\ guard.active
    /\ \/ UNCHANGED hw
       \/ hw' = [hw EXCEPT !.g5 = guard.saved]
    /\ UNCHANGED <<dev, guard, ready, burst, quiet>>

Later ==
    /\ quiet' = IF quiet < Spacing THEN quiet + 1 ELSE quiet
    /\ dev' = [dev EXCEPT !.since = IF @ < Spacing THEN @ + 1 ELSE @]
    /\ UNCHANGED <<guard, hw, ready, burst>>

Tick == (quiet < Spacing \/ dev.since < Spacing) /\ Later

-----------------------------------------------------------------------------
(* Any caller that keeps the header's rule on guards: no bring-up while one *)
(* is active. A careful caller also gives up on a device it failed to       *)
(* bring up, as every program of the repository does.                       *)

Bringup == ~guard.active /\ (BringupOk \/ BringupFails)

Use(ch, rate) ==
    /\ Caller = "careful" => ready
    /\ \/ TuneOk(ch) \/ TuneFails(ch)
       \/ PrepareOk(rate) \/ PrepareFails(rate)
       \/ Transmit(rate)
       \/ G5BeginOk \/ G5BeginFails

Next ==
    \/ Bringup
    \/ \E ch \in Channels, rate \in Rates : Use(ch, rate)
    \/ G5RestoreOk \/ G5RestoreFails
    \/ Tick

Spec == Init /\ [][Next]_libVars

-----------------------------------------------------------------------------
(* Properties                                                               *)

TypeOK ==
    /\ dev \in Host
    /\ guard \in Guard
    /\ hw \in Adapter
    /\ ready \in BOOLEAN
    /\ burst \in 0 .. MaxAir
    /\ quiet \in Times

(* mt7921_radio.h on mt_probe_transmit: "<=60 attempted writes per boot".   *)
(* The count is in the host, the boot is in the adapter: they must not come *)
(* apart when a bring-up, which clears the count, fails.                    *)
BootLimit == burst <= MaxTx

(* What the host believes of the adapter when it lets a frame out: that the *)
(* receiver is on the channel it was tuned to, and that the firmware still  *)
(* holds the rates it loaded. Both are lost with the firmware.              *)
Believed ==
    /\ dev.tuned => hw.up /\ hw.chan = dev.chan
    /\ dev.rates \subseteq hw.table

(* As long as the firmware may hold a modified rate table, the reload mark  *)
(* stands, through failed table writes and failed bring-ups.                *)
ReloadOwed == hw.table # {} => dev.dirty

(* An inactive guard means the Group-5 bit is as it was found, whatever     *)
(* begin or restore failed in between; an active one knows what it was.     *)
GuardHonest ==
    IF guard.active THEN guard.saved = hw.g5was ELSE hw.g5 = hw.g5was

(* Two writes to the air are Spacing apart, across bring-ups too, and every *)
(* one is on a channel, and from a rate table, that the firmware has.       *)
PacedAndPlaced ==
    [][\A rate \in Rates : Transmit(rate) =>
           /\ quiet = Spacing
           /\ hw.up /\ hw.chan \in Allowed(rate)
           /\ dev.chip = "mt7925" => rate \in hw.table]_libVars
=============================================================================
