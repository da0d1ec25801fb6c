---------------------------- MODULE QueryScripts ----------------------------
(***************************************************************************)
(* The research programs that only ask: firmware queries, tables in the    *)
(* memory of the adapter, registers. They differ in what they insist on    *)
(* before, in what they do when a query fails, and in what they take the   *)
(* reload at the end to have shown.                                        *)
(***************************************************************************)
EXTENDS ScriptSteps

(* One adapter after the other.                                             *)
TxPowerInfo == Apart(2, Program(Reading(<<Read>>), {"error_type"}, AliveTwice))

(* After an error the adapter is asked once more whether it answers, which  *)
(* is noted in place of the answer that is missing.                         *)
NoiseAverage == Apart(2, Program(
    <<Outside(<<Test>>),
      Try(<<Boot, Read, Alive("alive_after")>>, "error_type"),
      Handler("error_type", <<Alive("alive_after")>>),
      FinallyTry(<<Boot, Alive("cleanup_reload_alive")>>, "cleanup_error_type")>>,
    {"error_type"}, AliveTwice))

(* The only thing sent is the stop of a detector nobody started.            *)
RddStop == Program(Reading(<<Undo("rdd"), Read, Undo("rdd"), Read>>), {"error_type"}, AliveTwice)

RttCapability == Program(Reading(<<Read, Ask, Read>>), {"error_type"}, AliveTwice)

(* The live firmware must be the pinned one; every sample must agree with   *)
(* the registers read before and after it.                                  *)
TxpowerRegister == Program(
    <<Outside(<<Test>>)>> \o Reading(<<Read, Test, Read, Found("samples_match")>>),
    {"error_type"}, AliveTwice \cup {"samples_match"})

Mt7925PhyCompare == Program(
    <<Outside(<<Test>>)>> \o Reading(<<Read, Test, Read>>), {"error_type"}, AliveTwice)

SnifferTrace == Program(
    Reading(<<Read, Test, Found("code_matches")>>), {"error_type"},
    AliveTwice \cup {"code_matches"})

UniDispatch == Program(
    <<Outside(<<Test>>)>> \o Reading(<<Read, Test, Read, Test>>), {"error_type"}, AliveTwice)

(* The exit codes of the next six leave out whether the adapter answered    *)
(* before the reload.                                                       *)
SpatialReuse == Program(Reading(<<Test, Read>>), {"error_type"}, {"cleanup_reload_alive"})
LegacySpatialReuse == Program(Reading(<<Test, Read>>), {"error_type"}, {"cleanup_reload_alive"})
EdccaQuery == Flags({"registers"}, Program(
    <<Outside(<<Test>>)>>
      \o Reading(<<If({"registers"}, Read), Test, Read, If({"registers"}, Read)>>),
    {"error_type"}, {"cleanup_reload_alive"}))
SrRmac == Program(Reading(<<Test, Read, Read, Ask>>), {"error_type"}, {"cleanup_reload_alive"})
BandTimeout == Program(Reading(<<Read, Test, Ask, Read, Test>>), {"error_type"},
                       {"cleanup_reload_alive"})
EvmCn == Program(Reading(<<Test, Read, Read, Read>>), {"error_type"}, {"cleanup_reload_alive"})

(* In the next three nothing catches an error of the reload: the program    *)
(* ends with a traceback and without its result.                            *)
Beamforming == Flags({"registers"}, Program(
    <<Outside(<<Test>>),
      Try(<<Boot, If({"registers"}, Read), Ask, Read, If({"registers"}, Read),
            Alive("alive_after")>>, "error_type"),
      Finally(<<Boot, Alive("cleanup_reload_alive"), If({"registers"}, Read)>>)>>,
    {"error_type"}, {"cleanup_reload_alive"}))

(* Reading these counters clears them, which the user must acknowledge.     *)
(* main() of these two and of the next returns nothing: the exit code is 0  *)
(* whatever the result says.                                                *)
Subchannel == Unjudged(Flags({"consuming", "controls", "width"}, Program(
    <<Outside(<<Require("consuming")>>),
      Try(<<Boot, Read, If({"controls"}, Read), Read, Test, If({"width"}, Read),
            Alive("alive_after")>>, "error_type"),
      Finally(<<Boot, Alive("cleanup_reload_alive")>>)>>, {}, {})))

MibOwnership == Unjudged(Flags({"consuming"}, Program(
    <<Outside(<<Require("consuming")>>),
      Try(<<Boot, Read, Test, Read, Read, Test, Alive("alive_after")>>, "error_type"),
      Finally(<<Boot, Alive("cleanup_reload_alive")>>)>>, {}, {})))

Thermal == Unjudged(Program(Reading(<<Test, Ask, Test>>), {}, {}))

(* A query can stall the command path: long plans need the flag, the        *)
(* cleanup asks another query, and a reload after which the pools cannot be *)
(* read counts as one that failed.                                          *)
DiagnosticStats == Flags({"long_plan", "allow_command_stall"}, Program(
    <<Outside(<<If({"long_plan"}, Require("allow_command_stall")), Test>>),
      Try(<<Boot, Read, Test, Read, Ask, Read, Test>>, "error_type"),
      FinallyTry(<<Ask, Test>>, "thermal_command_error_type"),
      FinallyTry(<<Read>>, "pool_count_read_failed"),
      FinallyTry(<<Boot, Alive("cleanup_reload_alive"), Read>>, "reload_failed")>>,
    {"error_type", "thermal_command_error_type", "reload_failed"}, {"cleanup_reload_alive"}))

LinkQuality == Program(
    <<Outside(<<Test>>),
      Try(<<Boot, Read, Read, Ask, Read, Test>>, "error_type"),
      FinallyTry(<<Ask, Test>>, "thermal_error_type"),
      FinallyTry(<<Boot, Alive("cleanup_reload_alive"), Read>>, "reload_failed")>>,
    {"error_type", "thermal_error_type", "reload_failed"}, {"cleanup_reload_alive"})
=============================================================================
