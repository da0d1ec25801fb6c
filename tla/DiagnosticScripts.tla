-------------------------- MODULE DiagnosticScripts --------------------------
(***************************************************************************)
(* The research programs that switch on a diagnostic of the receiver: in-  *)
(* band spectrum (ICS), on-chip capture (ICAP), channel state (CSI),       *)
(* receive-vector reports. Some have a second adapter (radio 2) transmit.  *)
(***************************************************************************)
EXTENDS ScriptSteps

(* One mode after the other, each on new firmware.                          *)
IcapStatus == Rows(3, Program(
    <<Outside(<<Boot>>),
      TryOnly(<<Arm("mode"), Ask>>, Driver, "error_type"),
      Finally(<<Boot, Alive("cleanup_reload_alive")>>)>>,
    {"error_type"}, {"cleanup_reload_alive"}))

(* Receive setup and channel are part of the mode. Errors that are not the  *)
(* driver's end the program after its cleanup.                              *)
IcapCapture == Flags({"prepare_rx", "retrieve"}, Program(
    <<Outside(<<Boot>>),
      TryOnly(<<If({"prepare_rx"}, Arm("rx")), Arm("mode"), Ask, Arm("capture"), Ask,
                Found("completed"), If({"retrieve", "completed"}, Ask)>>,
              Driver, "error_type"),
      Block(1, 1, <<Undo("capture"), Ask>>, Driver, "stop_error_type"),
      Finally(<<Boot, Alive("cleanup_reload_alive")>>)>>,
    {"error_type"}, {"cleanup_reload_alive"}))

IcsTrace == Program(Reading(<<Read>>), {"error_type"}, AliveTwice)

(* Off, on, off, with the two mask registers read before and put back after.*)
RmacIcs == Asks({"activate_rmac_ics"}, Program(
    <<Outside(<<Require("activate_rmac_ics")>>),
      Try(<<Boot, Read, Save("ics"), MustBeOff("ics"), Read, Mark("attempted"),
            Arm("ics"), Read, Undo("ics"), Read>>, "error_type"),
      If({"attempted"}, FinallyTry(
          <<Undo("ics"), Restore("ics"), StillOn("ics", "not_restored")>>,
          "restore_error_type")),
      FinallyTry(<<Boot, Alive("cleanup_reload_alive"), Ask>>, "cleanup_error_type")>>,
    {"error_type", "restore_error_type", "cleanup_error_type", "not_restored"},
    {"cleanup_reload_alive"}))

(* The start command sets the capture triggers and the masks: one step for  *)
(* each, the stop likewise. The cleanup tries the command, then the         *)
(* registers one by one, then new firmware.                                 *)
IcsControl == Asks({"activate_phy_ics"}, Program(
    <<Outside(<<Require("activate_phy_ics")>>),
      Try(<<Boot, Read, MustBeOff("triggers"), Save("masks"), MustBeOff("masks"), Read,
            Mark("attempted"), Arm("triggers"), Arm("masks"), Read>>, "error_type"),
      If({"attempted"}, FinallyTry(
          <<Undo("triggers"), Undo("masks"), Read>>, "stop_error_type")),
      If({"attempted"}, FinallyTry(
          <<Clear("triggers"), StillOn("triggers", "not_cleared"),
            Restore("masks"), StillOn("masks", "not_restored"), Read>>,
          "restore_error_type")),
      FinallyTry(<<Boot, Alive("cleanup_reload_alive"), Read>>, "cleanup_error_type")>>,
    {"error_type", "stop_error_type", "restore_error_type", "cleanup_error_type",
     "not_cleared", "not_restored"},
    {"cleanup_reload_alive"}))

(* Reports off, on, off; with start_control also the start bit, which is    *)
(* read back after each write and cleared first when anything fails.        *)
StartBit(do) == AllIf({"start_control"}, do)

RxvReport == Asks({"enable_reporting"}, Flags({"start_control"}, Program(
    <<Outside(<<Require("enable_reporting")>>),
      Try(<<Boot,
            If({"start_control"}, Read), If({"start_control"}, MustBeOff("start")),
            If({"start_control"}, Mark("restore_start")),
            Undo("reports"), Test>> \o StartBit(ClearBits("start"))
          \o <<Read, Arm("reports"), Test>> \o StartBit(ClearBits("start"))
          \o <<Read>> \o StartBit(SetBits("start"))
          \o <<Read>> \o StartBit(ClearBits("start"))
          \o <<Read, Undo("reports"), Test>> \o StartBit(ClearBits("start"))
          \o <<Read>>, "error_type"),
      If({"restore_start"}, FinallyTry(ClearBits("start"), "restore_start_error_type")),
      FinallyTry(<<Undo("reports"), Test>>, "cleanup_off_error_type"),
      FinallyTry(<<Boot, Alive("cleanup_reload_alive"), Ask>>, "cleanup_error_type")>>,
    {"error_type", "restore_start_error_type"}, {"cleanup_reload_alive"})))

(* --enable-group5 also sets the report bit, which is put back with the     *)
(* masks.                                                                   *)
LegacyRestore == <<Undo("ics"), Restore("ics"), StillOn("ics", "ics_not_restored"),
                   Restore("group5"), StillOn("group5", "group5_not_restored")>>
LegacyLeft == {"ics_not_restored", "group5_not_restored"}

LegacyIcs == Asks({"activate_legacy_rmac_ics"}, Flags({"enable_group5"}, Program(
    <<Outside(<<Require("activate_legacy_rmac_ics")>>),
      Try(<<Boot, Read, Save("ics"), Save("group5"), MustBeOff("ics"), Read,
            If({"enable_group5"}, Mark("attempted")), If({"enable_group5"}, Write("group5")),
            Read, Mark("attempted"), Arm("ics"), Read, Undo("ics"), Read>>, "error_type"),
      If({"attempted"}, FinallyTry(LegacyRestore, "restore_error_type")),
      FinallyTry(<<Boot, Alive("cleanup_reload_alive"), Ask>>, "cleanup_error_type")>>,
    {"error_type", "restore_error_type", "cleanup_error_type"} \cup LegacyLeft,
    {"cleanup_reload_alive"})))

(* One loop sends the prepared frames from radio 2 and reads both.          *)
OwnAcquire == <<Read, At(2, Transmit), Read>>

LegacyIcsOwn == Asks({"activate_legacy_rmac_ics", "transmit"},
  Flags({"enable_phy_counters", "enable_group5"}, Program(
    <<Outside(<<Require("activate_legacy_rmac_ics"), Require("transmit")>>),
      Try(BootBoth \o <<Read, Save("ics"), Save("group5"), MustBeOff("ics"), Read,
            If({"enable_phy_counters"}, MustBeOff("counters")),
            If({"enable_phy_counters"}, Mark("counter_attempted")),
            If({"enable_phy_counters"}, Clear("counters")),
            If({"enable_phy_counters"}, Write("counters")),
            If({"enable_phy_counters"}, MustBeOn("counters")),
            If({"enable_group5"}, Mark("attempted")), If({"enable_group5"}, Write("group5")),
            At(2, Read), At(2, Write("rate"))>>
          \o OwnAcquire \o <<Mark("attempted"), Arm("ics")>>
          \o OwnAcquire \o <<Read, Undo("ics")>> \o OwnAcquire \o <<Read>>, "error_type"),
      If({"counter_attempted"}, FinallyTry(
          <<Clear("counters"), StillOn("counters", "counter_not_restored")>>,
          "counter_restore_error_type")),
      If({"attempted"}, FinallyTry(LegacyRestore, "restore_error_type"))>> \o ReloadBoth,
    {"error_type", "counter_restore_error_type", "restore_error_type",
     "counter_not_restored"} \cup LegacyLeft, BothAlive)))

(* The RF test mode is entered only after four frames have been received in *)
(* the normal one. Only new firmware leaves it again.                       *)
RfCollect == <<Read, At(2, Transmit), Read, Undo("rf_rx"), Read>>

LegacyIcsRf == Asks({"activate_rf_ics", "transmit"}, Program(
    <<Outside(<<Require("activate_rf_ics"), Require("transmit")>>),
      Try(BootBoth \o <<Read, Save("ics"), Save("group5"), MustBeOff("ics"),
                        At(2, Read), At(2, Write("rate"))>>
          \o OwnAcquire
          \o <<Test, Mark("rf_attempted"), Arm("rf_mode"), Mark("attempted"), Arm("ics"),
               Arm("rf_rx"), Read>> \o RfCollect \o <<Read, Read>>, "error_type"),
      If({"rf_attempted"}, FinallyTry(<<Undo("rf_rx")>>, "rf_stop_error_type")),
      If({"attempted"}, FinallyTry(LegacyRestore, "restore_error_type"))>> \o ReloadBoth,
    {"error_type", "rf_stop_error_type", "restore_error_type"} \cup LegacyLeft, BothAlive))

(* ICS is switched on again at every stage of the RF mode and read back.    *)
StageIcs == <<Mark("attempted"), Arm("ics"), Read, MustBeOn("ics")>> \o OwnAcquire

LegacyIcsStage == Asks({"activate_rf_stages", "transmit"}, Program(
    <<Outside(<<Require("activate_rf_stages"), Require("transmit")>>),
      Try(BootBoth \o <<Read, Save("ics"), Save("group5"), MustBeOff("ics"),
                        At(2, Read), At(2, Write("rate"))>>
          \o StageIcs \o <<Test, Mark("rf_attempted"), Arm("rf_mode")>>
          \o StageIcs \o <<Undo("rf_rx")>> \o StageIcs
          \o <<Arm("rf_rx")>> \o StageIcs \o <<Undo("rf_rx")>> \o StageIcs, "error_type"),
      If({"rf_attempted"}, FinallyTry(<<Undo("rf_rx")>>, "rf_stop_error_type")),
      If({"attempted"}, FinallyTry(LegacyRestore, "restore_error_type"))>> \o ReloadBoth,
    {"error_type", "rf_stop_error_type", "restore_error_type"} \cup LegacyLeft, BothAlive))

(* The transmitter's ICS: radio 2 sends and is diagnosed, radio 1 receives. *)
TmacAcquire == <<Read, At(2, Write("rate")), At(2, Transmit), Read>>
TmacRestore == <<At(2, Restore("ics")), At(2, StillOn("ics", "not_restored"))>>

TmacIcs == Asks({"activate_tmac_ics", "transmit"}, Program(
    <<Outside(<<Require("activate_tmac_ics"), Require("transmit")>>),
      Try(BootBoth \o <<At(2, Read), At(2, Save("ics")), At(2, MustBeOff("ics")),
                        At(2, Write("rate")), At(2, Read)>>
          \o TmacAcquire \o <<At(2, Ask), Mark("attempted"), At(2, Arm("ics"))>>
          \o TmacAcquire \o <<At(2, Ask), At(2, Undo("ics"))>>
          \o TmacAcquire \o <<At(2, Ask)>>, "error_type"),
      If({"attempted"}, FinallyTry(<<At(2, Undo("ics"))>> \o TmacRestore,
                                   "restore_error_type"))>> \o ReloadBoth,
    {"error_type", "restore_error_type", "not_restored"}, BothAlive))

(* The same with the filter of the diagnostic off, on, off.                 *)
TmacIcsFilter == Asks({"activate_tmac_filter", "transmit"}, Program(
    <<Outside(<<Require("activate_tmac_filter"), Require("transmit")>>),
      Try(BootBoth \o <<At(2, Read), At(2, Save("ics")), At(2, Save("filter")),
                        At(2, MustBeOff("ics")), At(2, MustBeOff("filter")), At(2, Write("rate")),
                        At(2, Read),
                        Mark("attempted"), At(2, Arm("ics"))>>
          \o TmacAcquire \o <<At(2, Ask), At(2, Arm("filter"))>>
          \o TmacAcquire \o <<At(2, Ask), At(2, Undo("filter"))>>
          \o TmacAcquire \o <<At(2, Ask)>>, "error_type"),
      If({"attempted"}, FinallyTry(
          <<At(2, Undo("filter")), At(2, Undo("ics")), At(2, Restore("filter")),
            At(2, StillOn("filter", "filter_not_restored")), Mark("filter_restored")>>
          \o TmacRestore, "restore_error_type"))>> \o ReloadBoth,
    {"error_type", "restore_error_type", "not_restored", "filter_not_restored"},
    BothAlive \cup {"filter_restored"}))

(* Channel state reports off, on, off. The cleanup reloads the firmware     *)
(* whether or not the last stop was sent; if that fails the program ends.   *)
CsiControl == Flags({"selection", "chains"}, Program(
    <<Try(<<Boot, Read, Undo("csi"), Read,
            If({"selection"}, Arm("selector")), If({"chains"}, Arm("chains")),
            Arm("csi"), Read, Undo("csi"), Read>>, "error_type"),
      FinallyTry(<<Undo("csi")>>, "cleanup_stop_error_type"),
      Finally(<<Boot, Alive("cleanup_reload_alive"), Read>>)>>,
    {"error_type"}, {"cleanup_reload_alive"}))

(* Every command must be acknowledged once, or the program stops.           *)
CsiFilter == Program(
    <<Try(<<Boot, Undo("csi"), Read, Arm("selector"), Read, Arm("csi"), Read, Found("selected"),
            If({"selected"}, Arm("filter")), If({"selected"}, Read),
            If({"selected"}, Undo("filter")), If({"selected"}, Read),
            If({"selected"}, Arm("filter")), If({"selected"}, Read),
            If({"selected"}, Arm("csi")), If({"selected"}, Read), Undo("csi"), Read>>,
          "error_type"),
      FinallyTry(<<If({"selected"}, Undo("filter")), Undo("csi")>>, "cleanup_stop_error_type"),
      Finally(<<Boot, Alive("cleanup_reload_alive")>>)>>,
    {"error_type"}, {"cleanup_reload_alive"})

CsiInputTrace == Program(
    Reading(<<Read, Found("matches")>>), {"error_type"}, AliveTwice \cup {"matches"})
=============================================================================
