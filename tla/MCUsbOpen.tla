------------------------------ MODULE MCUsbOpen ------------------------------
(* Five adapters for two ports: one of each family; one that shows the id  *)
(* of the first but has other silicon; one of the second with two          *)
(* interfaces that qualify; and one that SUPPORTED_DEVICES lacks. NBulkIn  *)
(* and NBulkOut are smaller than 2 and 6, which changes no comparison.     *)
EXTENDS UsbOpen, TLC

CONSTANTS c1, c2, u1, u2, u3, u4, u5, p1, p2, legacy, other, foreign

Out == [bulk |-> TRUE, in |-> FALSE]
In == [bulk |-> TRUE, in |-> TRUE]
Interrupt == [bulk |-> FALSE, in |-> TRUE]

Bluetooth == [wifi |-> FALSE, eps |-> <<Interrupt, In, Out>>]
Wifi == [wifi |-> TRUE, eps |-> <<Out, In, Interrupt, Out>>]
Vendor == [wifi |-> TRUE, eps |-> <<Interrupt, Out>>]

MCDesc ==
    u1 :> [id |-> legacy, chipid |-> "7961", intfs |-> <<Bluetooth, Vendor, Wifi>>]
 @@ u2 :> [id |-> legacy, chipid |-> "6639", intfs |-> <<Wifi>>]
 @@ u3 :> [id |-> other, chipid |-> "7925", intfs |-> <<Wifi>>]
 @@ u4 :> [id |-> other, chipid |-> "7925", intfs |-> <<Wifi, Vendor, Wifi>>]
 @@ u5 :> [id |-> foreign, chipid |-> "7961", intfs |-> <<Wifi>>]

MCSupported == legacy :> "mt7921" @@ other :> "mt7925"
MCChipIds == "mt7921" :> {"7961"} @@ "mt7925" :> {"7925"}

Job(kind, id, addr) == [kind |-> kind, cls |-> "mt7921", id |-> id, addr |-> addr]

\* Two radios by port and by id; open_device beside a C program; and the
\* class itself beside a C program that names a model.
MCJobs ==
    {c1 :> Job("radio", None, p1) @@ c2 :> Job("radio", id, None) : id \in {legacy, other}}
    \cup {c1 :> Job("open_device", None, None) @@ c2 :> Job("C", None, None),
          c1 :> Job("Mt7921u", None, None) @@ c2 :> Job("C", legacy, None)}

MCEnvs == {[id |-> None, addr |-> None], [id |-> legacy, addr |-> None],
           [id |-> None, addr |-> p2], [id |-> foreign, addr |-> None]}
=============================================================================
