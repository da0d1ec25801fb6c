--------------------------- MODULE MCDualCapture ---------------------------
(* A client with a link address, "c" and "l", and an access point "x". The *)
(* client's association request names both addresses; later frames show    *)
(* one of them.                                                             *)
EXTENDS DualCapture

Frame(tx, kind, seen) == [on |-> TRUE, tx |-> tx, kind |-> kind, seen |-> seen]

MCStation == {"c", "l"}
MCFrames ==
    {Frame({"c", "l"}, "event", {"c", "x"}),
     Frame({"x"}, "event", {"x", "l"}),
     Frame({"l"}, "data", {"l", "x"}),
     [Frame({"x"}, "event", {"x", "l"}) EXCEPT !.on = FALSE]}
=============================================================================
