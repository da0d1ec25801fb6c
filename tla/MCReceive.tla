----------------------------- MODULE MCReceive ------------------------------
(* A record, and a dwell after the least of the records: neither looks into *)
(* the other.                                                               *)
(*                                                                          *)
(* Every sum of groups is a multiple of 8 (16 for connac3): lengths on such *)
(* sums and just below them, up to a record with every group and a few      *)
(* bytes of frame, and zero. Connac3 asks for 4 bytes of group 2 and steps  *)
(* over 16, and connac2 for 28 of the 72 of group 5, so lengths in between. *)
EXTENDS RxRecord, MCSurvey

MCLens == {0, 23, 24, 31, 32, 36, 40, 47, 48, 56, 60, 64, 72, 80, 84, 95, 96,
           104, 143, 144, 150, 191, 192, 200}
MCPads == {0, 3}

LeastRecord == chip = "mt7921" /\ len = 0 /\ dma = 0 /\ mask = {} /\ pad = 0 /\ ~normal

ReceiveInit ==
    /\ RecordInit /\ Init
    /\ LeastRecord \/ (asked = {} /\ dropped = 0)

ReceiveNext ==
    \/ RecordNext /\ UNCHANGED vars
    \/ LeastRecord /\ pos = Unread /\ Next /\ UNCHANGED recordVars

ReceiveSpec == ReceiveInit /\ [][ReceiveNext]_<<recordVars, vars>>
=============================================================================
