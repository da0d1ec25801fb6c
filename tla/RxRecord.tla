------------------------------ MODULE RxRecord ------------------------------
(***************************************************************************)
(* One USB transfer given to both receive decoders: decode of rxd.py (or   *)
(* of rxd_connac3.py, for the MT7925) and mt7921_rxd_decode of             *)
(* c/mt7921_rxd.c (mt7921_rxd_decode_connac3), as tests/test_c_parity.py   *)
(* gives them the same bytes. The fixed descriptor says which optional     *)
(* groups follow; each decoder walks them in the order 4, 1, 2, 3, 5 and   *)
(* what is left after the last one is the 802.11 frame. A step takes both  *)
(* decoders past the next group. Lengths are the program's, in bytes; what *)
(* the bytes say is left out, and where a decoder took a field from is     *)
(* kept instead.                                                           *)
(***************************************************************************)
EXTENDS Integers

CONSTANTS
    Chips,  \* the adapters: "mt7921" (connac2), "mt7925" (connac3)
    Lens,   \* how long a transfer may be, and what its length word may say
    Pads    \* MT_RXD2_NORMAL_HDR_OFFSET, in words of two bytes

ASSUME RecordAssumption ==
    /\ Chips \subseteq {"mt7921", "mt7925"}
    /\ Lens \subseteq Nat
    /\ Pads \subseteq Nat

VARIABLES
    chip,       \* whose descriptor it is
    len,        \* length of the transfer
    dma,        \* the length word of the descriptor: MT_RXD0_LENGTH
    mask,       \* the groups that the descriptor announces
    pad,        \* MT_RXD2_NORMAL_HDR_OFFSET
    normal,     \* a frame, and neither error bit of RXD2 is set
    pos,        \* the next thing both decoders come to
    py,         \* Python: [on, off, at, frame]
    c           \* C: [on, off, at, frame]

input == <<chip, len, dma, mask, pad, normal>>
recordVars == <<input, pos, py, c>>

RxGroups == 1 .. 5
Connac2 == chip = "mt7921"

(* MT_RXD: the fixed words and the optional groups, in bytes.               *)
Fixed == IF Connac2 THEN 24 ELSE 32
Size == [g \in RxGroups |->
            CASE g \in {1, 4} -> 16
              [] g \in {2, 3} -> IF Connac2 THEN 8 ELSE 16
              [] g = 5 -> IF Connac2 THEN 72 ELSE 96]

(* What Python reports from: connac2 takes RCPI from word 6 of group 5, and *)
(* connac3 steps over group 5.                                              *)
Reported == IF Connac2 THEN {2, 3, 4, 5} ELSE {2, 3, 4}

(* The bytes that Python's check asks for, and those it then unpacks.       *)
Asked == [g \in Reported |->
            CASE g = 4 -> 16
              [] g = 2 -> IF Connac2 THEN 8 ELSE 4
              [] g = 3 -> Size[3]
              [] g = 5 -> 24 + 4]
Unpacked == [g \in Reported |->
               CASE g = 4 -> IF Connac2 THEN 4 ELSE 16
                 [] g = 2 -> 4
                 [] g = 3 -> Size[3]
                 [] g = 5 -> 24 + 4]

Unread == -1
Nowhere == [g \in RxGroups |-> Unread]
NoFrame == [from |-> Unread, to |-> Unread]
Least(a, b) == IF a <= b THEN a ELSE b

(* mt7921_rxd_groups looks no further than the shorter of the two lengths.  *)
Bound == Least(dma, len)

(* Faulty variant: group 5 alone is walked.                                 *)
CStartsLoose == len >= Fixed /\ normal /\ dma >= Fixed

(* The checks before the walk. Only Python's dict is returned without them. *)
CStarts == /\ len >= Fixed /\ normal
           /\ dma >= Fixed
           /\ 5 \in mask => 3 \in mask
PyStarts == len >= Fixed /\ normal

RecordInit ==
    /\ chip \in Chips
    /\ len \in Lens
    /\ dma \in Lens
    /\ mask \in SUBSET RxGroups
    /\ pad \in Pads
    /\ normal \in BOOLEAN
    /\ pos = 4
    /\ py = [on |-> PyStarts, off |-> Fixed, at |-> Nowhere, frame |-> NoFrame]
    /\ c = [on |-> CStarts, off |-> Fixed, at |-> Nowhere, frame |-> NoFrame]

-----------------------------------------------------------------------------
(* Python: a group that is not whole is stepped over without being          *)
(* reported, except group 4, which ends the decoding with what there is.    *)
(* Group 5 is looked at only inside group 3.                                *)
PySees(g) == py.on /\ g \in mask /\ (g = 5 => 3 \in mask)

PyHas(g) == g \in Reported /\ py.off + Asked[g] <= len

PyGroup(g) ==
    \/ ~PySees(g) /\ UNCHANGED py
    \/ /\ PySees(g) /\ g = 4 /\ ~PyHas(4)
       /\ py' = [py EXCEPT !.on = FALSE]
    \/ /\ PySees(g) /\ (g = 4 => PyHas(4))
       /\ py' = [py EXCEPT !.off = @ + Size[g],
                           !.at[g] = IF PyHas(g) THEN py.off ELSE @]

(* C: a group that does not fit rejects the record. The test is written     *)
(* without a sum, because the lengths are unsigned.                         *)

CSees(g) == c.on /\ g \in mask

(* Faulty variant: the transfer's length counts, not the record's.          *)
CFitsTransfer(g) == c.off <= len /\ Size[g] <= len - c.off

CFits(g) == c.off <= Bound /\ Size[g] <= Bound - c.off

CGroup(g) ==
    \/ ~CSees(g) /\ UNCHANGED c
    \/ /\ CSees(g) /\ ~CFits(g)
       /\ c' = [c EXCEPT !.on = FALSE]
    \/ /\ CSees(g) /\ CFits(g)
       /\ c' = [c EXCEPT !.off = @ + Size[g], !.at[g] = c.off]

Walk(g, next) ==
    /\ pos = g
    /\ pos' = next
    /\ PyGroup(g)
    /\ CGroup(g)
    /\ UNCHANGED input

(* Where the frame ends: at the record's end, not at the transfer's.        *)
PyEnd == IF dma # 0 THEN Least(dma, len) ELSE len
CEnd == IF dma > 0 /\ dma < len THEN dma ELSE len

FrameOf(d, end) ==
    IF d.on /\ d.off + 2 * pad < end
    THEN [from |-> d.off + 2 * pad, to |-> end]
    ELSE NoFrame

Slice ==
    /\ pos = 0
    /\ pos' = Unread
    /\ py' = [py EXCEPT !.frame = FrameOf(py, PyEnd)]
    /\ c' = [c EXCEPT !.frame = FrameOf(c, CEnd)]
    /\ UNCHANGED input

RecordNext ==
    \/ Walk(4, 1) \/ Walk(1, 2) \/ Walk(2, 3) \/ Walk(3, 5) \/ Walk(5, 0)
    \/ Slice

RecordSpec == RecordInit /\ [][RecordNext]_recordVars

-----------------------------------------------------------------------------
(* Properties                                                               *)

Decoder == [on : BOOLEAN, off : Nat, at : [RxGroups -> Nat \cup {Unread}],
            frame : [from : Nat \cup {Unread}, to : Nat \cup {Unread}]]

RecordTypes ==
    /\ chip \in Chips
    /\ len \in Lens /\ dma \in Lens
    /\ mask \in SUBSET RxGroups
    /\ pad \in Pads
    /\ normal \in BOOLEAN
    /\ pos \in RxGroups \cup {0, Unread}
    /\ py \in Decoder
    /\ c \in Decoder
    /\ \A g \in RxGroups :
          /\ py.at[g] # Unread => g \in mask
          /\ c.at[g] # Unread => g \in mask

(* Neither decoder touches a byte it was not given. C stays inside the      *)
(* record and the transfer, whichever is shorter ("observes both USB and    *)
(* declared DMA bounds"); a Python unpack beyond the transfer would be an   *)
(* exception that no receive loop handles.                                  *)
InBounds ==
    /\ \A g \in Reported :
          py.at[g] # Unread => py.at[g] + Unpacked[g] <= len
    /\ \A g \in RxGroups :
          c.at[g] # Unread => c.at[g] + Size[g] <= dma /\ c.at[g] + Size[g] <= len
    /\ c.frame # NoFrame =>
          c.frame.from >= c.off /\ c.frame.from < c.frame.to
          /\ c.frame.to <= dma /\ c.frame.to <= len

(* docs/C_PARITY.md: both are given the same bytes, and "invalid inputs may *)
(* be rejected more strictly in C". So whatever C accepts, Python reports   *)
(* too, from the same places and with the same frame.                       *)
Stricter ==
    pos = Unread /\ c.on =>
        /\ py.on
        /\ py.frame = c.frame
        /\ \A g \in Reported : py.at[g] = c.at[g]
=============================================================================
