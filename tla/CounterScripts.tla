--------------------------- MODULE CounterScripts ---------------------------
(***************************************************************************)
(* The research programs and scripts that read the counters of a receiver: *)
(* noise and power histograms, MIB counters, statistics commands, radar    *)
(* detection. Most must start a measurement before there is a counter.     *)
(***************************************************************************)
EXTENDS ScriptSteps

(* Every selector on new firmware; the test mode ends with the reload. Only *)
(* errors of the command channel become a row, every other one ends the     *)
(* program after the reload.                                                *)
StationTestmode == Flags({"test_mode"}, Rows(2, Program(
    <<Outside(<<Boot>>),
      TryOnly(<<If({"test_mode"}, Arm("test_mode")), Ask, Test>>, {"mcu"}, "error_type"),
      Finally(<<Boot, Alive("cleanup_reload_alive")>>)>>,
    {}, {"cleanup_reload_alive"})))

(* Two of the five categories: the reload after one is the start of the next.*)
RxStatQuery == Program(
    <<Outside(<<Boot>>),
      TryOnly(<<Ask, Test>>, {"mcu"}, "error_type"),
      Finally(<<Boot, Alive("cleanup_alive")>>),
      Outside(<<Mark("next_category")>>),
      TryOnly(<<Ask, Test>>, {"mcu"}, "error_type"),
      If({"next_category"}, Finally(<<Boot, Alive("cleanup_alive_next")>>))>>,
    {}, {"cleanup_alive", "cleanup_alive_next"})

(* Reads only, and no cleanup: the measurement is never switched on.        *)
IpiProbe == Flags({"enable"}, Program(
    <<Outside(<<If({"enable"}, Require("not_implemented")), Boot, Ask, Ask, Found("found")>>)>>,
    {}, {"found"}))

(* A command that stays silent or is refused is a step of the result, and   *)
(* the next is sent all the same. Nothing takes the measurement down: the   *)
(* next program starts with new firmware.                                   *)
IpiHist == Flags({"rdd"}, Leaves({"rdd", "ipi"}, Program(
    <<Outside(<<Boot>>),
      If({"rdd"}, TryOnly(<<Arm("rdd")>>, Driver, "silent_step")),
      TryOnly(<<Arm("ipi")>>, Driver, "silent_step"),
      TryOnly(<<Ask>>, Driver, "silent_step"),
      Outside(<<Test, Found("sampling")>>),
      If({"rdd"}, TryOnly(<<Undo("rdd")>>, Driver, "silent_step"))>>,
    {}, {"sampling"})))

(* With --rf-rx the histogram is started in the RF test mode.               *)
IpiCompact == Flags({"rf_rx", "registers"}, Rows(2, Program(
    <<Try(<<Boot, If({"rf_rx"}, Arm("rf_mode")), If({"rf_rx"}, Arm("rf_rx")),
            If({"registers"}, Read), Arm("ipi"), Test, If({"registers"}, Read), Ask, Test,
            If({"registers"}, Read), Alive("alive_after")>>, "error_type"),
      Finally(<<Boot, Alive("cleanup_reload_alive")>>)>>,
    {"error_type"}, {"cleanup_reload_alive"})))

(* The register is put back only if it was written; the reload follows      *)
(* whatever becomes of that, and its errors are not caught.                 *)
IpiRegister == Flags({"rf_rx", "direct_init"}, Program(
    <<Try(<<Boot, If({"rf_rx"}, Arm("rf_mode")), If({"rf_rx"}, Arm("rf_rx")),
            Save("control"), Read, Arm("ipi"), Test, Read,
            If({"direct_init"}, Read), If({"direct_init"}, Mark("wrote")),
            If({"direct_init"}, Write("control")), If({"direct_init"}, Read),
            Read, Ask, Test, Alive("alive_after")>>, "error_type"),
      FinallyTry(<<If({"wrote"}, Restore("control")), If({"wrote"}, Ask)>>,
                 "restore_error_type"),
      Lastly(<<Boot, Alive("cleanup_reload_alive")>>)>>,
    {"error_type"}, {"cleanup_reload_alive"}))

(* A request that fails is a counter without a value; what counts in the    *)
(* end is that some counter moved between two passes over those that        *)
(* answered.                                                                *)
Sampled == TryOnly(<<Ask>>, Driver, "missing")

UniMib == Program(
    <<Outside(<<Boot>>), Sampled, Sampled, Sampled, Outside(<<Test, Found("moved")>>)>>,
    {}, {"moved"})

(* With --json the exit code is 0 whatever was found.                       *)
MibSweep == Flags({"json"}, Program(
    <<Outside(<<Boot>>), Sampled, Sampled, Outside(<<Ask>>), Sampled,
      Outside(<<If({"json"}, Mark("accepted")), Unless({"json"}, Found("accepted"))>>)>>,
    {}, {"accepted"}))

(* The commands under test are sent only if the controls showed that an     *)
(* answer can be told from a refusal.                                       *)
McuCommand == Program(
    <<Outside(<<Boot>>), Sampled, Outside(<<Test, Found("calibrated")>>),
      If({"calibrated"}, Sampled), Outside(<<Test>>)>>,
    {}, {"calibrated"})

McuStats == Program(
    <<Outside(<<Boot>>), Sampled, Sampled, Sampled, Outside(<<Test>>), Sampled,
      Outside(<<Test, Found("moved")>>)>>,
    {}, {"moved"})

(* A window with a USB error in it makes the exit code nonzero.             *)
MibCharacterize == Program(
    <<Outside(<<Boot, Ask>>), Sampled, Outside(<<Found("usb_errors"), Test>>), Sampled,
      Unless({"usb_errors"}, Outside(<<Ask, Found("usb_errors"), Test>>)), Sampled>>,
    {"usb_errors"}, {})

(* The histogram of the noise: reset, on, off, with the two registers       *)
(* checked after each write. They must be at rest before, and each is put   *)
(* back in a try of its own.                                                *)
ResetHist == <<Clear("reset")>> \o <<Write("reset")>> \o ClearBits("reset")

NoiseHist7925 == Asks({"enable_histogram"},
  Flags({"mib_crosscheck", "consuming", "compare_views"}, Program(
    <<Outside(<<Require("enable_histogram"), If({"mib_crosscheck"}, Require("consuming")), Test>>),
      Try(<<Boot, Read, Test, Read, Save("hist"), Save("reset"),
            MustBeOff("hist"), MustBeOff("reset"), Read, Mark("wrote")>>
          \o ResetHist \o <<If({"mib_crosscheck"}, Read)>> \o SetBits("hist")
          \o <<If({"compare_views"}, Read)>> \o ClearBits("hist")
          \o <<If({"mib_crosscheck"}, Read), Read, Alive("alive_after")>>, "error_type"),
      If({"wrote"}, FinallyTry(<<Restore("hist"), MustBeOff("hist")>>, "not_restored")),
      If({"wrote"}, FinallyTry(<<Restore("reset"), MustBeOff("reset")>>, "not_restored")),
      FinallyTry(<<Boot, Alive("cleanup_reload_alive")>>, "cleanup_error_type")>>,
    {"error_type", "not_restored"}, AliveTwice)))

(* The firmware's own measurement of both histograms, which ends with an    *)
(* event. The code and the command table must be the pinned ones.           *)
NoiseEvent == Asks({"activate_noise_histogram"}, Program(
    <<Outside(<<Require("activate_noise_histogram"), Test>>),
      Try(<<Boot, Read, Test, Save("hist"), Save("reset"),
            MustBeOff("hist"), MustBeOff("reset"), Mark("activated"),
            Arm("hist"), Read, Alive("alive_after")>>, "error_type"),
      If({"activated"}, FinallyTry(<<Restore("hist"), MustBeOff("hist")>>, "not_restored")),
      If({"activated"}, FinallyTry(<<Restore("reset"), MustBeOff("reset")>>, "not_restored")),
      FinallyTry(<<Boot, Alive("cleanup_reload_alive")>>, "cleanup_error_type")>>,
    {"error_type", "not_restored"}, AliveTwice))

(* The histogram of the older chip, with a third register for its options,  *)
(* and with --stimulus while radio 2 transmits. It is stopped first, then   *)
(* each register is put back whatever happened to the others.               *)
LegacyNoiseHist == Asks({"enable_histogram"},
  Flags({"stimulus", "transmit", "channel_36", "cca_crosscheck"}, Program(
    <<Outside(<<Require("enable_histogram"),
                If({"stimulus"}, Require("transmit")), If({"stimulus"}, Require("channel_36"))>>),
      Try(<<Boot, If({"stimulus"}, At(2, Boot)), If({"stimulus"}, At(2, Write("rate"))),
            Save("hist"), Save("reset"), Save("options"), MustBeOff("hist"), MustBeOff("reset"),
            Read, If({"stimulus"}, At(2, Transmit)), Read, If({"stimulus"}, Test), Mark("wrote")>>
          \o ClearBits("hist") \o ResetHist \o <<Read>> \o SetBits("options")
          \o <<If({"cca_crosscheck"}, Read)>> \o SetBits("hist")
          \o <<Ask, If({"stimulus"}, At(2, Transmit)), Read>> \o ClearBits("hist")
          \o <<If({"cca_crosscheck"}, Read), Read, If({"stimulus"}, Test)>>, "error_type"),
      If({"wrote"}, FinallyTry(ClearBits("hist"), "stop_error_type")),
      If({"wrote"}, FinallyTry(<<Restore("options"), Read>>, "not_restored")),
      If({"wrote"}, FinallyTry(<<Restore("reset"), MustBeOff("reset")>>, "not_restored")),
      If({"wrote"}, FinallyTry(<<Restore("hist"), MustBeOff("hist")>>, "not_restored")),
      FinallyTry(<<Boot, Alive("cleanup_reload_alive")>>, "cleanup_error_type"),
      If({"stimulus"}, FinallyTry(<<At(2, Boot), At(2, Alive("tx_alive"))>>, "tx_lost")),
      Unless({"stimulus"}, Outside(<<Mark("tx_alive")>>))>>,
    {"error_type", "stop_error_type", "not_restored"}, {"cleanup_reload_alive", "tx_alive"})))

(* The RF test mode: selected, its receiver stopped, set up and started.    *)
(* Stopping the receiver does not leave the mode.                           *)
RfReceive == <<Arm("rf_mode"), Undo("rf_rx"), Arm("rf_rx")>>

LegacyRxStats == Flags({"rf"}, Rows(2, Program(
    <<Try(<<Boot>> \o AllIf({"rf"}, RfReceive) \o <<If({"rf"}, Read), Read,
            If({"rf"}, Read), If({"rf"}, Undo("rf_rx")), If({"rf"}, Read),
            Alive("alive_after")>>, "error_type"),
      Finally(<<Boot, Alive("cleanup_reload_alive")>>)>>,
    {"error_type"}, {"cleanup_reload_alive"})))

(* A counter the firmware does not give away is noted in its row, and the   *)
(* program goes on.                                                         *)
PhyStats == Flags({"registers"}, Program(
    <<Try(<<Boot, If({"registers"}, Read), Ask, Read, Ask>> \o RfReceive
          \o <<If({"registers"}, Read), Ask, Read, Undo("rf_rx"), Ask, Alive("alive_after")>>,
          "error_type"),
      FinallyTry(<<Undo("rf_rx")>>, "stop_error_type"),
      FinallyTry(<<Boot, Alive("cleanup_reload_alive")>>, "cleanup_error_type")>>,
    {"error_type"}, {"cleanup_reload_alive"}))

CfoCrosscheck == Program(
    <<Try(<<Boot, Read, Test>> \o RfReceive
          \o <<Read, Test, Undo("rf_rx"), Read, Test, Alive("alive_after")>>, "error_type"),
      FinallyTry(<<Undo("rf_rx")>>, "stop_error_type"),
      Lastly(<<Boot, Alive("cleanup_reload_alive")>>)>>,
    {"error_type"}, {"cleanup_reload_alive"})

(* The stop is tried only if the mode may have been entered; any error of   *)
(* the run or of its cleanup makes the exit code 1.                         *)
SignalFieldCrosscheck == Program(
    <<Outside(<<Test>>),
      Try(<<Boot, Read, Mark("rf_attempted")>> \o RfReceive
          \o <<Read, Read, Undo("rf_rx"), Read, Read>>, "error_type"),
      If({"rf_attempted"}, FinallyTry(<<Undo("rf_rx")>>, "stop_error_type")),
      FinallyTry(<<Boot, Alive("cleanup_reload_alive")>>, "cleanup_error_type")>>,
    {"error_type", "stop_error_type", "cleanup_error_type"}, {"cleanup_reload_alive"})

(* Radar detection is started only after a stop the firmware reported as    *)
(* carried out, and stopped and reloaded whatever happens.                  *)
RddReceive == Asks({"enable_passive_detector"}, Flags({"state", "registers"}, Program(
    <<Outside(<<Require("enable_passive_detector")>>),
      Try(<<Boot>> \o AllIf({"state"}, <<Read>>) \o AllIf({"registers"}, <<Read>>)
          \o <<Undo("rdd"), Read, Test, Arm("rdd"), Read, If({"state"}, Read), Read,
                If({"registers"}, Read), Alive("alive_after")>>, "error_type"),
      FinallyTry(<<Undo("rdd"), Read, If({"state"}, Read)>>, "stop_error_type"),
      FinallyTry(<<Boot, Alive("cleanup_reload_alive"), If({"state"}, Read)>>,
                 "cleanup_error_type")>>,
    {"error_type"}, AliveTwice)))

(* The older chip shows in its memory whether the detector runs: it must    *)
(* not run before the start, nor after the reload.                          *)
LegacyRddState == Asks({"enable_passive_detector"}, Program(
    <<Outside(<<Require("enable_passive_detector")>>),
      Try(<<Boot, Read, Undo("rdd"), Read, Read, MustBeOff("rdd"), Arm("rdd"), Read, Read,
            Undo("rdd"), Read, Alive("alive_after")>>, "error_type"),
      FinallyTry(<<Read, Undo("rdd"), Read>>, "stop_error_type"),
      FinallyTry(<<Boot, Alive("cleanup_reload_alive"), Read, Mark("state_read"),
                   StillOn("rdd", "still_enabled")>>, "cleanup_error_type")>>,
    {"error_type", "still_enabled"}, AliveTwice \cup {"state_read"}))

(* The group 5 bit is put back and set in turns for each of two targets,    *)
(* and put back after each. There is no reload. Whether the bit went back   *)
(* is read and kept with the result, but the exit code counts only the      *)
(* windows in which a read failed.                                          *)
RxVectorCycle ==
    <<If({"g5_cycle"}, Restore("group5")), Test, If({"g5_cycle"}, Ask),
      If({"g5_cycle"}, Write("group5")), Test, If({"g5_cycle"}, Ask),
      If({"g5_cycle"}, Restore("group5")), Test, If({"g5_cycle"}, Ask)>>
RxVectorBack == <<Restore("group5"), StillOn("group5", "register_not_restored")>>

RxVector == Flags({"g5_cycle", "two_targets"}, Overlooks({"group5"}, Program(
    <<Outside(<<Boot, Ask, If({"g5_cycle"}, Save("group5"))>>),
      Body(RxVectorCycle),
      If({"g5_cycle"}, Finally(RxVectorBack)),
      If({"two_targets"}, Outside(<<Ask, If({"g5_cycle"}, Save("group5")), Mark("second")>>)),
      If({"second"}, Body(RxVectorCycle)),
      If({"g5_cycle", "second"}, Finally(RxVectorBack)),
      Outside(<<Found("usb_errors")>>)>>,
    {"usb_errors"}, {})))

(* The Windows check of one radio, here on one of its three channels. Each  *)
(* query has a try of its own within the body; the frames go out only with  *)
(* the acknowledgement, on a channel tuned before the counter bits were     *)
(* set.                                                                     *)
SingleRadio == Flags({"transmit"}, Program(
    <<Try(<<Boot, Read, Ask>>, "error"),
      Unless({"error"}, Try(<<Read>>, "noise_error")),
      Unless({"error"}, Try(<<Read>>, "power_error")),
      Unless({"error"}, Try(
          <<Ask, Save("counter"), Mark("original"), Read, Ask, Write("counter"), Read, Ask,
            Restore("counter"), Read, Ask>>
          \o AllIf({"transmit"}, <<Transmit, Ask>>), "error")),
      If({"original"}, FinallyTry(<<Restore("counter"), StillOn("counter", "not_restored")>>,
                                  "restore_error")),
      FinallyTry(<<Boot, Alive("cleanup_reload_alive"), Ask>>, "cleanup_error")>>,
    {"error", "restore_error", "cleanup_error", "not_restored"}, {"cleanup_reload_alive"}))
=============================================================================
