------------------------------ MODULE MCSurvey ------------------------------
(* A-MPDUs of two stations and single frames, and A-MPDUs of which the      *)
(* descriptor leaves out the timestamp, or the transmitter and the rate.    *)
(* Both counters start where they wrap during the dwell.                    *)
EXTENDS Survey

Kind(ampdu, addr, stamped, rated) ==
    [ampdu |-> ampdu, addr |-> addr, stamped |-> stamped, rated |-> rated]

MCKinds ==
    {Kind(TRUE, "a", TRUE, TRUE), Kind(TRUE, "b", TRUE, TRUE),
     Kind(FALSE, "a", TRUE, TRUE), Kind(TRUE, "a", FALSE, TRUE),
     Kind(TRUE, None, TRUE, FALSE)}
MCStarts == {60}
=============================================================================
