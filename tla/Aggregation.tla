---------------------------- MODULE Aggregation ----------------------------
(***************************************************************************)
(* AggregationTracker of rxd.py: frames that the hardware took out of one  *)
(* A-MPDU arrive as transfers of their own, and the tracker puts them      *)
(* together again by transmitter and time, so that airtime is billed with  *)
(* one preamble. A frame here is a record [id, ampdu, addr, ts, air]: its  *)
(* number, whether it is flagged as aggregated, its transmitter and        *)
(* timestamp (None if it shows none), and its own airtime as far as known. *)
(* Times are in microseconds of the chip's free-running counter.           *)
(***************************************************************************)
EXTENDS Integers, Sequences

CONSTANTS
    None,
    Slack       \* SLACK_US: 24 in the code

ASSUME AggregationAssumption == Slack \in Nat

(* AggregationTracker.__init__: out is what feed and flush have returned,   *)
(* and so completed is its length.                                          *)
Fresh == [current |-> <<>>, ts |-> None, addr |-> None, air |-> 0,
          out |-> <<>>]

(* _close, which is also flush.                                             *)
Close(t) ==
    IF t.current = <<>> THEN t
    ELSE [t EXCEPT !.out = Append(@, t.current), !.current = <<>>]

(* Faulty variant: the transmitter is not compared.                         *)
ContiguousAnyone(t, f) ==
    /\ t.current # <<>>
    /\ f.addr # None
    /\ t.ts # None
    /\ f.ts - t.ts \in 0 .. t.air + Slack

(* f continues the open aggregate. The timestamps are compared as they are, *)
(* not modulo their wrap.                                                   *)
Contiguous(t, f) ==
    /\ t.current # <<>>
    /\ f.addr # None /\ f.addr = t.addr
    /\ t.ts # None
    /\ f.ts - t.ts \in 0 .. t.air + Slack

(* A frame that is not aggregated, or not stamped, is returned at once.     *)
Single(t, f) == [Close(t) EXCEPT !.out = Append(@, <<f.id>>)]

Join(t, f) ==
    IF Contiguous(t, f) THEN [t EXCEPT !.current = Append(@, f.id)]
    ELSE [Close(t) EXCEPT !.current = <<f.id>>]

(* feed, with _reset_last on both of its paths.                             *)
Feed(t, f) ==
    [(IF ~f.ampdu \/ f.ts = None THEN Single(t, f) ELSE Join(t, f))
        EXCEPT !.ts = f.ts, !.addr = f.addr, !.air = f.air]
=============================================================================
