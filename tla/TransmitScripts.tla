-------------------------- MODULE TransmitScripts --------------------------
(***************************************************************************)
(* The research programs in which radio 2 sends frames of its own making   *)
(* and radio 1 receives them. All of them insist on the acknowledgement of *)
(* experimental transmission, and start and reload both radios.            *)
(***************************************************************************)
EXTENDS ScriptSteps

(* program_rate, and a frame whose reception is awaited.                    *)
ProgramRate == <<At(2, Write("rate"))>>
SendAndReceive == <<At(2, Transmit), Read>>

(* Faulty variant: the acknowledgement is not asked for.                    *)
TwoRadiosUnasked(asks, prepare, phases, back) ==
    <<Try(BootBoth \o prepare \o phases, "error_type")>> \o back \o ReloadBoth

(* Faulty variant: the registers are read once they have been changed.      *)
TwoRadiosPreparedLate(asks, prepare, phases, back) ==
    <<Outside([i \in DOMAIN asks |-> Require(asks[i])]),
      Try(BootBoth \o phases \o prepare, "error_type")>> \o back \o ReloadBoth

(* The loop every program of this module has: its own preparation and       *)
(* phases, and its own steps back before the reload of both radios.         *)
TwoRadios(asks, prepare, phases, back) ==
    <<Outside([i \in DOMAIN asks |-> Require(asks[i])]),
      Try(BootBoth \o prepare \o phases, "error_type")>> \o back \o ReloadBoth

-----------------------------------------------------------------------------
(* Frames at fixed rates; what differs is what they show of the reception.  *)

(* Either chip transmits: only the newer one has a rate table.              *)
DataFrame == Asks({"transmit"}, Flags({"mt7925_transmits"}, Program(
    TwoRadios(<<"transmit">>, AllIf({"mt7925_transmits"}, ProgramRate),
               SendAndReceive \o SendAndReceive \o BothAfter, <<>>),
    {"error_type"}, AllAlive)))

(* Its counters are cleared by reading: that too has to be acknowledged.    *)
TxAirtime == Asks({"transmit", "consuming"}, Program(
    TwoRadios(<<"transmit", "consuming">>, ProgramRate,
               <<At(2, Read)>> \o SendAndReceive \o <<At(2, Read)>> \o BothAfter, <<>>),
    {"error_type"}, AllAlive))

TxPowerOffset == Asks({"transmit"}, Program(
    TwoRadios(<<"transmit">>, ProgramRate, SendAndReceive \o SendAndReceive \o BothAfter, <<>>),
    {"error_type"}, AllAlive))

MacFcsBatch == Asks({"transmit"}, Program(
    TwoRadios(<<"transmit">>, <<Read>>,
               ProgramRate \o <<Read>> \o SendAndReceive \o <<Read, Read>> \o BothAfter, <<>>),
    {"error_type"}, AllAlive))

EvmCnStimulus == Asks({"transmit"}, Program(
    TwoRadios(<<"transmit">>, <<Read>>,
               ProgramRate \o <<Read>> \o SendAndReceive \o <<Read>> \o BothAfter, <<>>),
    {"error_type"}, AllAlive))

(* Without its prerequisite, receipts in the first phase, nothing more is   *)
(* sent. The exit code leaves out whether the radios answered before.       *)
WidebandAcquire == <<Read, At(2, Transmit), Read>>

WidebandSignal == Asks({"transmit"}, Program(
    TwoRadios(<<"transmit">>, <<Read>> \o ProgramRate,
               <<At(2, Test)>> \o WidebandAcquire \o <<Test>> \o WidebandAcquire, <<>>),
    {"error_type"}, BothAlive))

ProgramHeRate == ProgramRate \o <<At(2, Read)>>
HeDcmSpatial == Asks({"transmit"}, Program(
    TwoRadios(<<"transmit">>, <<>>,
               ProgramHeRate \o WidebandAcquire \o <<Test>> \o ProgramHeRate \o WidebandAcquire,
               <<>>),
    {"error_type"}, BothAlive))

-----------------------------------------------------------------------------
(* A counter or a filter of the receiver is opened for the frames.          *)

(* The counter bits: cleared, set and read back.                            *)
EnableCounter == <<Clear("counter"), Write("counter"), MustBeOn("counter")>>
RestoreCounter == <<Restore("counter"), StillOn("counter", "counter_not_restored"),
                    Mark("counter_restored")>>

NormalPhyCounter == Asks({"transmit", "enable_counters"}, Program(
    TwoRadios(<<"transmit", "enable_counters">>, ProgramRate \o <<Save("counter"), Read>>,
               SendAndReceive \o <<Test, Mark("wrote")>> \o EnableCounter
               \o SendAndReceive \o <<Test, Restore("counter"), MustBeOff("counter")>>
               \o SendAndReceive \o <<Test>> \o BothAfter,
               <<If({"wrote"}, FinallyTry(RestoreCounter, "restore_error_type")),
                 Unless({"wrote"}, FinallyTry(<<Mark("counter_restored")>>, ""))>>),
    {"error_type", "counter_not_restored"}, BothAlive \cup {"counter_restored"}))

(* Frames with a wrong checksum pass only through an opened filter. What    *)
(* was read first is what cleanup goes by: nothing else tells it whether    *)
(* the filter, or the counter, was touched.                                 *)
OpenFilter == <<Arm("filter"), MustBeOn("filter")>>

WidthError == Asks({"transmit", "enable_error_capture", "enable_counters"},
  Flags({"frequency"}, Program(
    TwoRadios(<<"transmit", "enable_error_capture", "enable_counters">>,
               <<Save("filter"), Mark("filter_read")>> \o OpenFilter
               \o <<Save("counter"), Mark("counter_read")>> \o EnableCounter,
               AllIf({"frequency"}, <<Ask>> \o OpenFilter \o <<MustBeOn("counter")>>)
               \o ProgramRate \o <<Read>> \o SendAndReceive \o <<Read>> \o BothAfter,
               <<If({"counter_read"}, FinallyTry(RestoreCounter, "counter_restore_error_type")),
                 If({"filter_read"}, FinallyTry(
                     <<Undo("filter"), StillOn("filter", "filter_not_restored"),
                       Mark("filter_restored")>>, "restore_error_type"))>>),
    {"error_type", "counter_not_restored", "filter_not_restored"},
    AllAlive \cup {"counter_restored", "filter_restored"})))

(* configure() sets the drop bits of the sniffer and of the filter for each *)
(* phase, and is the way back as well.                                      *)
ErrorFrame == Asks({"transmit", "enable_error_capture", "enable_counters"}, Program(
    TwoRadios(<<"transmit", "enable_error_capture", "enable_counters">>,
               <<Save("filter"), Mark("filter_read"), Save("counter"), Mark("wrote_counter")>>
               \o EnableCounter,
               <<Undo("filter"), MustBeOff("filter")>> \o ProgramRate \o SendAndReceive
               \o OpenFilter \o ProgramRate \o SendAndReceive \o <<Read>> \o BothAfter,
               <<If({"filter_read"}, FinallyTry(
                     <<Undo("filter"), MustBeOff("filter"), Mark("filter_restored")>>,
                     "rfcr_restore_error_type")),
                 If({"wrote_counter"}, FinallyTry(RestoreCounter, "counter_restore_error_type"))>>),
    {"error_type", "counter_not_restored"},
    AllAlive \cup {"counter_restored", "filter_restored"}))

(* Two filters are opened for control frames; each is put back in a try of  *)
(* its own.                                                                 *)
ControlFrame == Asks({"transmit", "open_control_filters"}, Flags({"mt7925_transmits"}, Program(
    TwoRadios(<<"transmit", "open_control_filters">>,
               <<Save("control_a"), Save("control_b"), Mark("wrote")>>
               \o SetBits("control_a") \o SetBits("control_b")
               \o AllIf({"mt7925_transmits"}, ProgramRate),
               SendAndReceive \o SendAndReceive \o BothAfter,
               <<If({"wrote"}, FinallyTry(<<Restore("control_a"), MustBeOff("control_a")>>,
                                          "not_restored")),
                 If({"wrote"}, FinallyTry(<<Restore("control_b"), MustBeOff("control_b")>>,
                                          "not_restored"))>>),
    {"error_type", "not_restored"}, AllAlive)))
=============================================================================
