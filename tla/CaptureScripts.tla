--------------------------- MODULE CaptureScripts ----------------------------
(***************************************************************************)
(* The programs of scripts/ and examples/ that start one adapter and only  *)
(* receive, on one channel or on one after the other, and the one that     *)
(* sends a few probe requests. They have no cleanup: nothing they do       *)
(* outlives the next start of the adapter. valid is a command line whose   *)
(* channels, widths and times are accepted.                                *)
(***************************************************************************)
EXTENDS ScriptSteps

(* A timeout or a USB error while receiving is counted and the loop goes on. *)
Receive == <<Ask, Found("received")>>

HardwareSmoke == Program(
    <<Try(<<Boot>> \o Receive, "error")>>, {"error"}, {"received"})

(* The status register must say that the firmware runs; with --rx frames    *)
(* are received as well, and an error there is the result.                  *)
FirmwareBoot == Flags({"rx"}, Program(
    <<Try(<<Boot, Ask, Found("n9_ready")>> \o AllIf({"rx"}, Receive), "error")>>,
    {"error"}, {"n9_ready"}))

(* A census of the candidates, then retunes to and fro between the busiest  *)
(* two, each dwell drained. USB errors are in the result only.              *)
RetuneDrops == Asks({"valid"}, Program(
    <<Outside(<<Require("valid"), Boot>> \o Receive \o <<Ask>> \o Receive \o <<Ask>> \o Receive
              \o <<Ask, Test>>)>>, {}, {}))

Scan == Asks({"valid"}, Program(
    <<Outside(<<Require("valid"), Boot>> \o Receive \o Receive)>>, {}, {}))

SniffToPcap == Asks({"valid"}, Program(
    <<Outside(<<Require("valid"), Boot, Ask>> \o Receive)>>, {}, {}))

(* The channel and the width are checked before the firmware is loaded. A   *)
(* sweep that finds no access point of the network fails, a watch never.    *)
RoamWatch == Asks({"valid"}, Flags({"find"}, Program(
    <<Outside(<<Require("valid"), Boot>> \o AllIf({"find"}, <<Ask>>) \o Receive
              \o <<Unless({"find"}, Mark("received"))>>)>>, {}, {"received"})))

WidthProbe == Program(<<Outside(<<Boot>> \o Receive)>>, {}, {})

(* A failed write is reported, and all that counts is whether the adapter   *)
(* still answers.                                                           *)
InjectDemo == Asks({"transmit"}, Program(
    <<Outside(<<Require("transmit"), Boot, Ask>> \o Receive),
      Try(<<Transmit>>, "failed"),
      Outside(<<Alive("alive")>> \o AllIf({"alive"}, Receive))>>,
    {}, {"alive"}))
=============================================================================
