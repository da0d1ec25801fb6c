-------------------------- MODULE StimulusScripts ----------------------------
(***************************************************************************)
(* The research programs in which frames sent by one radio are a stimulus  *)
(* for what another one is made to do: its detectors, its diagnostics, its *)
(* radio test mode, its channel. Radio 1 is the MT7961, radio 2 the        *)
(* MT7925. All but the last group insist on the acknowledgement of         *)
(* experimental transmission.                                              *)
(***************************************************************************)
EXTENDS ScriptSteps

(* A burst: the rate, the frames, what the receiver made of them.           *)
Burst == <<At(2, Write("rate")), At(2, Transmit), Read>>

-----------------------------------------------------------------------------
(* Radar detector of the receiver off, on, off; each time four frames. Once *)
(* both are reloaded the detector is looked at again, outside any try.      *)
RddPhase(do) == do \o <<At(2, Transmit), Read>>

RddStimulus == Asks({"transmit"}, Program(
    <<Outside(<<Require("transmit")>>),
      Try(BootBoth \o <<At(2, Write("rate"))>>
          \o RddPhase(<<Undo("rdd"), Read, MustBeOff("rdd")>>)
          \o RddPhase(<<Arm("rdd"), Read, MustBeOn("rdd")>>)
          \o RddPhase(<<Undo("rdd"), Read, MustBeOff("rdd")>>) \o BothAfter, "error_type"),
      FinallyTry(<<Read, Undo("rdd"), Read>>, "stop_error_type")>>
    \o ReloadBoth
    \o <<If({"alive_1"}, Finally(<<StillOn("rdd", "rdd_on"), Mark("looked")>>))>>,
    {"error_type", "rdd_on"}, AllAlive \cup {"looked"}))

(* The histogram of the transmitter runs with and without its own frames.   *)
(* It stops by itself; its registers are masked back one by one.            *)
HistogramPhase(send) ==
    AllAt(2, <<Read, Mark("activated"), Arm("histogram")>> \o send
             \o <<Read, MustBeOff("histogram")>>)

NoiseSelfTx == Asks({"transmit", "activate_noise_histogram", "consuming"}, Program(
    <<Outside(<<Require("transmit"), Require("activate_noise_histogram"), Require("consuming")>>),
      Try(BootBoth \o AllAt(2, <<Read, Save("histogram"), Save("reset"),
                                 MustBeOff("histogram"), MustBeOff("reset"), Write("rate")>>)
          \o HistogramPhase(<<>>) \o HistogramPhase(<<Transmit>>) \o HistogramPhase(<<>>)
          \o BothAfter, "error_type"),
      If({"activated"}, FinallyTry(
          AllAt(2, <<Restore("histogram"), MustBeOff("histogram")>>), "not_restored")),
      If({"activated"}, FinallyTry(
          AllAt(2, <<Restore("reset"), MustBeOff("reset")>>), "not_restored"))>> \o ReloadBoth,
    {"error_type", "not_restored"}, AllAlive))

-----------------------------------------------------------------------------
(* Diagnostics of the receiver, with more of its pipeline switched on at    *)
(* each stage. Every setting has an attempted of its own, marked before its *)
(* first write, and a try of its own on the way back.                       *)
StopIcs == <<Undo("ics"), Restore("ics"), StillOn("ics", "ics_not_restored")>>
Observe == <<At(2, Transmit), Read>>

(* The vector reports: quiesce stops what rxv_started started, resuming the *)
(* receiver also takes the report bit back.                                 *)
StartRxv == <<Mark("rxv_attempted"), Read, Write("rxv_report"), Read, Write("rxv_start"), Read>>
Quiesce == <<Read, Clear("rxv_start"), Read>>
ResumeRx == <<Read, Clear("rxv_report"), Read>>
RestoreRxv == Quiesce \o ResumeRx
              \o <<StillOn("rxv_start", "start_not_restored"),
                   StillOn("rxv_report", "report_not_restored")>>
RxvLeft == {"ics_not_restored", "start_not_restored", "report_not_restored"}

(* A field of the receive MAC: on is the value other than its normal one.   *)
FieldPhase(dma, rxv, field) ==
    AllIf({"rf_dma"}, dma) \o AllIf({"rxv"}, rxv) \o <<Mark("field_attempted"), Read>>
    \o field \o Observe \o <<Read>>

LegacyPrxv2 == Asks({"activate_rmac_candidate", "transmit"}, Flags({"rf_dma", "rxv"}, Program(
    <<Outside(<<Require("activate_rmac_candidate"), Require("transmit")>>),
      Try(BootBoth
          \o <<Read, If({"rf_dma"}, MustBeOff("dma")), If({"rxv"}, Read),
               If({"rxv"}, MustBeOff("rxv_start")), If({"rxv"}, MustBeOff("rxv_report")),
               Save("field"), MustBeOff("field"), Save("ics"), MustBeOff("ics"),
               At(2, Write("rate")), Mark("attempted"), Arm("ics")>>
          \o FieldPhase(<<>>, <<>>, ClearBits("field")) \o <<Test>>
          \o FieldPhase(<<Mark("dma_attempted"), Write("dma"), Read>>, StartRxv, SetBits("field"))
          \o FieldPhase(<<Clear("dma"), Read>>, Quiesce \o ResumeRx, ClearBits("field")),
          "error_type"),
      If({"dma_attempted"}, FinallyTry(
          <<Clear("dma"), Read, StillOn("dma", "dma_not_restored")>>, "dma_restore_error_type")),
      If({"rxv_attempted"}, FinallyTry(RestoreRxv, "rxv_restore_error_type")),
      If({"field_attempted"}, FinallyTry(
          <<Read, Restore("field"), MustBeOff("field")>>, "field_restore_error_type")),
      If({"attempted"}, FinallyTry(StopIcs, "restore_error_type"))>> \o ReloadBoth,
    {"error_type", "dma_restore_error_type", "rxv_restore_error_type",
     "field_restore_error_type", "restore_error_type", "dma_not_restored"} \cup RxvLeft,
    BothAlive)))

(* The five stages on their own. A last look at the receiver counts as a    *)
(* part of its reload.                                                      *)
LegacyRxvControl == Asks({"activate_normal_rxv", "transmit"}, Program(
    <<Outside(<<Require("activate_normal_rxv"), Require("transmit")>>),
      Try(BootBoth
          \o <<Read, MustBeOff("rxv_start"), MustBeOff("rxv_report"), Save("ics"),
               MustBeOff("ics"), At(2, Write("rate")), Mark("attempted"), Arm("ics"), Read>>
          \o Observe \o <<Test>> \o StartRxv \o Observe \o Quiesce \o Observe
          \o ResumeRx \o Observe, "error_type"),
      If({"rxv_attempted"}, FinallyTry(RestoreRxv, "rxv_restore_error_type")),
      If({"attempted"}, FinallyTry(StopIcs, "restore_error_type")),
      FinallyTry(<<Boot, Alive("alive_1"), Read>>, "lost_1"),
      FinallyTry(<<At(2, Boot), At(2, Alive("alive_2"))>>, "lost_2")>>,
    {"error_type", "rxv_restore_error_type", "restore_error_type", "lost_1", "lost_2"}
    \cup RxvLeft, BothAlive))

-----------------------------------------------------------------------------
(* The radio test mode of the receiver. It is left by new firmware only.    *)

RxvLog == Asks({"transmit"},
    Flags({"rearm_he", "match_ta", "clean_start", "clean_prepare"}, Program(
    <<Outside(<<Require("transmit"), If({"rearm_he", "match_ta"}, Reject),
                If({"clean_start"}, Require("match_ta")),
                If({"clean_start", "clean_prepare"}, Reject)>>),
      Try(BootBoth \o Burst \o <<Test>> \o AllIf({"rearm_he"}, Burst \o <<Test>>)
          \o <<If({"clean_start"}, Boot), If({"clean_prepare"}, Boot),
               Arm("rf_mode"), Undo("rf_rx"), Ask, If({"match_ta"}, Arm("match")),
               Arm("rf_rx"), Read>> \o Burst \o <<Read, Undo("rf_rx"), Read>>
          \o AllIf({"match_ta"}, <<Arm("match"), Read, Arm("rf_rx"), Read>> \o Burst
                                 \o <<Undo("rf_rx"), Read>>)
          \o AllIf({"rearm_he"}, <<Ask, Read, Arm("rf_rx")>> \o Burst \o <<Undo("rf_rx"), Read>>)
          \o BothAfter, "error_type"),
      FinallyTry(<<Undo("rf_rx")>>, "stop_error_type")>> \o ReloadBoth,
    {"error_type"}, BothAlive)))

TestmodeReceiver == Asks({"transmit"}, Flags({"verify_monitor_control"}, Program(
    <<Outside(<<Require("transmit")>> \o BootBoth),
      Try(<<At(2, Write("rate"))>>
          \o AllIf({"verify_monitor_control"}, <<At(2, Transmit), Read>>)
          \o <<Arm("rf_mode"), Undo("rf_rx"), Arm("rf_rx"), Read, At(2, Transmit), Read,
               Undo("rf_rx"), Read, Read>> \o BothAfter, "error_type")>> \o ReloadBoth,
    {"error_type"}, BothAlive)))

(* Here the MT7961 sends, from its test mode: between its start and its     *)
(* stop nothing may come that leaves it sending. Cleanup reloads one after  *)
(* the other, with no try around it.                                        *)
TestmodeTx == Asks({"transmit"}, Program(
    <<Outside(<<Require("transmit")>>),
      Try(BootBoth \o <<Arm("rf_mode"), Read, Ask, Read, Test, Mark("ready")>>, "error_type"),
      Unless({"error_type"}, Body(<<Arm("rf_tx")>>)),
      If({"ready"}, InnerFinallyTry(<<Undo("rf_tx")>>, "error_type")),
      If({"ready"}, Unless({"error_type"}, Try(<<Read, Read>> \o BothAfter, "error_type"))),
      FinallyTry(<<Undo("rf_tx")>>, "cleanup_stop_error_type"),
      Finally(<<Boot, Alive("alive_1"), At(2, Boot), At(2, Alive("alive_2"))>>)>>,
    {"error_type"}, BothAlive))

-----------------------------------------------------------------------------
(* Fixed-rate suites from either radio, one capture on each. Only the       *)
(* transmitter is reloaded, the receiver if its reports or its width were   *)
(* changed.                                                                 *)
SendPhase == <<If({"mt7925"}, At(2, Write("rate"))), If({"mt7925"}, At(2, Transmit)),
               Unless({"mt7925"}, Transmit), Read>>
Wide == {"g5", "bandwidth"}

PhyTx == Asks({"transmit"}, Flags({"mt7925", "g5", "cycle", "bandwidth"}, Program(
    <<Outside(<<Require("transmit"), If({"g5"}, Require("mt7925")), If({"cycle"}, Require("g5")),
                If({"bandwidth"}, Require("mt7925")), If({"cycle", "bandwidth"}, Reject)>>
              \o BootBoth),
      Try(<<If({"g5"}, Save("g5")), If({"g5"}, Mark("g5_read"))>>
          \o AllIf({"g5"}, <<If({"cycle"}, MustBeOff("g5")), Unless({"cycle"}, Write("g5")),
                             Unless({"cycle"}, MustBeOn("g5"))>>)
          \o <<Test>> \o AllIf({"cycle"}, ClearBits("g5")) \o SendPhase
          \o AllIf({"cycle"}, SetBits("g5")) \o SendPhase
          \o AllIf({"cycle"}, ClearBits("g5")) \o SendPhase \o BothAfter, "error_type"),
      If({"g5_read"}, FinallyTry(<<Restore("g5"), StillOn("g5", "g5_not_restored"),
                                   Mark("g5_restored")>>, "g5_restore_error_type")),
      If({"mt7925"}, FinallyTry(<<At(2, Boot), At(2, Alive("reloaded"))>>, "cleanup_error_type")),
      Unless({"mt7925"}, FinallyTry(<<Boot, Alive("reloaded")>>, "cleanup_error_type")),
      If({"g5"}, FinallyTry(<<Boot, Alive("receiver_alive")>>, "cleanup_receiver_error_type")),
      If({"bandwidth"}, Unless({"g5"}, FinallyTry(<<Boot, Alive("receiver_alive")>>,
                                                  "cleanup_receiver_error_type"))),
      Unless({"g5"}, Finally(<<Mark("g5_restored")>>)),
      Unless(Wide, Finally(<<Mark("receiver_alive")>>))>>,
    {"error_type", "g5_not_restored"},
    {"reloaded", "after_1", "after_2", "g5_restored", "receiver_alive"})))

(* The observer is tuned away from the transmitter; at the end one try puts *)
(* all of it back.                                                          *)
ChannelGeometry == Asks({"transmit"}, Flags({"mt7925"}, Program(
    <<Outside(<<Require("transmit")>> \o BootBoth),
      Try(<<If({"mt7925"}, At(2, Write("rate"))), Ask, At(2, Ask),
            If({"mt7925"}, At(2, Transmit)), Unless({"mt7925"}, Transmit), Read>>
          \o BothAfter \o <<Test>>, "error"),
      FinallyTry(<<If({"mt7925"}, At(2, Boot)), Ask, At(2, Ask), Alive("alive_1"),
                   At(2, Alive("alive_2"))>>, "cleanup_error")>>,
    {"error", "cleanup_error"}, BothAlive)))

-----------------------------------------------------------------------------
(* A capture that stops at a USB error makes the exit code 1. Programs with *)
(* no cleanup leave nothing on; whether the radios still answer is reported *)
(* only.                                                                    *)
Captures == <<Found("usb_errors_1"), At(2, Found("usb_errors_2")), Read>>
UsbErrors == {"usb_errors_1", "usb_errors_2"}

(* One frame at a time while both capture; nothing received is an exit code *)
(* of its own. Only the transmitter is reloaded.                            *)
Mt7925Tx == Asks({"transmit", "valid"}, Program(
    <<Outside(<<Require("transmit"), Require("valid")>> \o BootBoth),
      Try(<<At(2, Write("rate")), Test, At(2, Transmit)>> \o Captures \o <<Found("heard")>>
          \o BothAfter, "error"),
      FinallyTry(<<At(2, Boot), At(2, Alive("reloaded"))>>, "cleanup_error")>>,
    {"error", "cleanup_error"} \cup UsbErrors, {"reloaded", "heard", "after_1", "after_2"}))

TxPower == Asks({"transmit"}, Unjudged(Program(
    <<Outside(<<Require("transmit")>> \o BootBoth \o <<Test, Transmit>> \o Captures
              \o BothAfter)>>, UsbErrors, {})))

(* Sending is optional here.                                                *)
DualRadio == Flags({"send", "transmit"}, Unjudged(Program(
    <<Outside(<<If({"send"}, Require("transmit"))>> \o BootBoth
              \o <<Test, If({"send"}, Transmit)>> \o Captures \o BothAfter)>>, UsbErrors, {})))

(* One of the radios is tuned away and back between two captures.           *)
ClockRetune == Flags({"mt7925"}, Unjudged(Program(
    <<Outside(BootBoth \o Captures \o <<If({"mt7925"}, At(2, Read)), Unless({"mt7925"}, Read)>>
              \o Captures \o BothAfter)>>, UsbErrors, {})))

DeliveryEvidence == Unjudged(Program(
    <<Outside(BootBoth \o Captures \o BothAfter)>>, UsbErrors, {}))
=============================================================================
