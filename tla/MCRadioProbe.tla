---------------------------- MODULE MCRadioProbe ----------------------------
(* RadioProbe with dwells long enough for every write and for the clock to  *)
(* run out before the last one.                                             *)
EXTENDS RadioProbe
=============================================================================
