---------------------------- MODULE ReceiveProofs ---------------------------
(***************************************************************************)
(* What is received: the two decoders of a record, and what the occupancy  *)
(* survey makes of the frames they give.                                   *)
(*                                                                         *)
(* First RxRecord, for transfers and length words of every length: neither *)
(* decoder leaves the bytes it was given, and Python reports whatever C    *)
(* accepts. The argument is that, as long as C has not rejected the        *)
(* record, both are at the same offset and have taken the same fields.     *)
(*                                                                         *)
(* Then Survey, for any air, queue and width of the two counters: the      *)
(* frames billed are frames of the counter's interval, each is billed      *)
(* once, in order, and with the subframes of its own PPDU.                 *)
(***************************************************************************)
EXTENDS RxRecord, Survey, FiniteSetTheorems, WellFoundedInduction, SequenceTheorems, TLAPS

(* No frame before Slice.                                                   *)
FramesLast ==
    pos # Unread => py.frame = NoFrame /\ c.frame = NoFrame

(* What C has accepted so far, Python has too, at the same offset.          *)
Lockstep ==
    c.on =>
        /\ CStarts
        /\ py.on
        /\ c.off = py.off
        /\ c.off <= Bound
        /\ \A g \in Reported : py.at[g] = c.at[g]

RecordInvariant == RecordTypes /\ InBounds /\ FramesLast /\ Lockstep
                   /\ (pos = Unread => (c.on => py.frame = c.frame))

-----------------------------------------------------------------------------
(* Sizes                                                                    *)

(* Python asks for no more of a group than the group has, and takes no more *)
(* than it asked for.                                                       *)
LEMMA SizeFacts ==
    /\ Fixed \in Nat
    /\ \A g \in RxGroups : Size[g] \in Nat
    /\ Reported \subseteq RxGroups
    /\ \A g \in Reported : /\ Asked[g] \in Nat /\ Unpacked[g] \in Nat
                           /\ Unpacked[g] <= Asked[g]
                           /\ Asked[g] <= Size[g]
    /\ Asked[4] = Size[4]
<1>1. ASSUME NEW g \in RxGroups
      PROVE  Size[g] = CASE g \in {1, 4} -> 16
                         [] g \in {2, 3} -> IF Connac2 THEN 8 ELSE 16
                         [] g = 5 -> IF Connac2 THEN 72 ELSE 96
    BY DEF Size, RxGroups
<1>2. ASSUME NEW g \in Reported
      PROVE  /\ g \in {2, 3, 4, 5}
             /\ Asked[g] = CASE g = 4 -> 16
                             [] g = 2 -> IF Connac2 THEN 8 ELSE 4
                             [] g = 3 -> Size[3]
                             [] g = 5 -> 24 + 4
             /\ Unpacked[g] = CASE g = 4 -> IF Connac2 THEN 4 ELSE 16
                                [] g = 2 -> 4
                                [] g = 3 -> Size[3]
                                [] g = 5 -> 24 + 4
    BY DEF Asked, Unpacked, Reported
<1>3. Size[1] = 16 /\ Size[4] = 16
    BY <1>1 DEF RxGroups
<1>4. Size[2] = Size[3] /\ Size[3] = IF Connac2 THEN 8 ELSE 16
    BY <1>1 DEF RxGroups
<1>5. Size[5] = IF Connac2 THEN 72 ELSE 96
    BY <1>1 DEF RxGroups
<1>6. \A g \in RxGroups : Size[g] \in Nat
    BY <1>3, <1>4, <1>5 DEF RxGroups
<1>7. ASSUME NEW g \in Reported
      PROVE  /\ Asked[g] \in Nat /\ Unpacked[g] \in Nat
             /\ Unpacked[g] <= Asked[g]
             /\ Asked[g] <= Size[g]
    <2>1. CASE g = 2
        BY <1>2, <1>4, <2>1
    <2>2. CASE g = 3
        BY <1>2, <1>4, <2>2
    <2>3. CASE g = 4
        BY <1>2, <1>3, <2>3
    <2>4. CASE g = 5
        BY <1>2, <1>5, <2>4
    <2> QED
        BY <1>2, <2>1, <2>2, <2>3, <2>4
<1>8. 4 \in Reported
    BY DEF Reported
<1>9. Asked[4] = Size[4]
    BY <1>2, <1>3, <1>8
<1> QED
    BY <1>6, <1>7, <1>9 DEF Fixed, Reported, RxGroups

(* Unread of it changes with the walk.                                        *)
LEMMA SizesStay ==
    ASSUME UNCHANGED chip
    PROVE  /\ Fixed' = Fixed /\ Size' = Size /\ Reported' = Reported
           /\ Asked' = Asked /\ Unpacked' = Unpacked
<1>1. Connac2' = Connac2
    BY DEF Connac2
<1>2. Fixed' = Fixed /\ Size' = Size /\ Reported' = Reported
    BY <1>1 DEF Fixed, Size, Reported
<1> QED
    BY <1>1, <1>2 DEF Asked, Unpacked

(* The record's bound is both lengths' bound.                               *)
LEMMA BoundFacts ==
    ASSUME len \in Nat, dma \in Nat
    PROVE  Bound \in Nat /\ Bound <= len /\ Bound <= dma
BY DEF Bound, Least

-----------------------------------------------------------------------------
(* Steps                                                                    *)

(* Before the first group, everything holds.                                *)
LEMMA InitRecord == RecordInit => RecordInvariant
<1> SUFFICES ASSUME RecordInit PROVE RecordInvariant
    OBVIOUS
<1> USE SizeFacts
<1>1. Nowhere \in [RxGroups -> Nat \cup {Unread}]
    BY DEF Nowhere
<1>2. py \in Decoder /\ c \in Decoder
    BY <1>1 DEF RecordInit, Decoder, NoFrame, CStarts, PyStarts
<1>3. RecordTypes
    BY <1>2 DEF RecordInit, RecordTypes, Nowhere, RxGroups
<1>4. InBounds
    BY DEF RecordInit, InBounds, Nowhere
<1>5. Lockstep
    BY RecordAssumption DEF RecordInit, Lockstep, CStarts, PyStarts, Bound, Least, Nowhere
<1> QED
    BY <1>3, <1>4, <1>5 DEF RecordInvariant, FramesLast, RecordInit, RxGroups, Unread

(* A group moves each decoder within its bounds, and both alike.            *)
LEMMA WalkRecord ==
    ASSUME RecordInvariant,
           NEW g \in RxGroups, NEW next \in RxGroups \cup {0},
           Walk(g, next)
    PROVE  RecordInvariant'
<1> USE SizeFacts
<1> USE DEF input
<1>1. len \in Nat /\ dma \in Nat /\ Bound \in Nat /\ Bound <= len /\ Bound <= dma
    BY RecordAssumption, BoundFacts DEF RecordInvariant, RecordTypes
<1>2. UNCHANGED input /\ pos = g /\ pos' = next /\ next # Unread /\ g # Unread
    BY DEF Walk, Unread, RxGroups
<1>3. /\ Bound' = Bound /\ CStarts' = CStarts
      /\ Size' = Size /\ Reported' = Reported /\ Unpacked' = Unpacked
    BY <1>2, SizesStay DEF Bound, CStarts
<1>4. py \in Decoder /\ c \in Decoder /\ g \in RxGroups
    BY DEF RecordInvariant, RecordTypes
<1>5. /\ py' \in Decoder
      /\ \A h \in RxGroups : py'.at[h] # Unread => h \in mask
      /\ \A h \in Reported : py'.at[h] # Unread => py'.at[h] + Unpacked[h] <= len
      /\ py'.frame = py.frame
      /\ PySees(g) /\ (g = 4 => PyHas(4)) =>
            /\ py'.on /\ py'.off = py.off + Size[g]
            /\ py'.at = [py.at EXCEPT ![g] = IF PyHas(g) THEN py.off ELSE @]
      /\ ~PySees(g) => py' = py
    <2>1. CASE ~PySees(g) /\ UNCHANGED py
        BY <1>4, <2>1 DEF RecordInvariant, RecordTypes, InBounds
    <2>2. CASE PySees(g) /\ g = 4 /\ ~PyHas(4)
               /\ py' = [py EXCEPT !.on = FALSE]
        <3>1. py'.at = py.at /\ py'.frame = py.frame
            BY <1>4, <2>2 DEF Decoder
        <3>2. py' \in Decoder
            BY <1>4, <2>2 DEF Decoder
        <3> QED
            BY <2>2, <3>1, <3>2 DEF RecordInvariant, RecordTypes, InBounds
    <2>3. CASE /\ PySees(g) /\ (g = 4 => PyHas(4))
               /\ py' = [py EXCEPT !.off = @ + Size[g],
                                   !.at[g] = IF PyHas(g) THEN py.off ELSE @]
        <3>1. /\ py'.at = [py.at EXCEPT ![g] = IF PyHas(g) THEN py.off ELSE @]
              /\ py'.off = py.off + Size[g]
              /\ py'.on = py.on /\ py'.frame = py.frame
            BY <1>4, <2>3 DEF Decoder
        <3>2. py.at \in [RxGroups -> Nat \cup {Unread}] /\ py.off \in Nat
            BY <1>4 DEF Decoder
        <3>3. py'.at \in [RxGroups -> Nat \cup {Unread}] /\ py'.off \in Nat
            BY <3>1, <3>2
        <3>4. py' \in Decoder
            <4>1. py' = [on |-> py.on, off |-> py.off + Size[g],
                         at |-> py'.at, frame |-> py.frame]
                BY <1>4, <2>3 DEF Decoder
            <4>2. py.on \in BOOLEAN
                  /\ py.frame \in [from : Nat \cup {Unread}, to : Nat \cup {Unread}]
                BY <1>4 DEF Decoder
            <4> QED
                BY <3>1, <3>3, <4>1, <4>2 DEF Decoder
        <3>5. ASSUME NEW h \in RxGroups, py'.at[h] # Unread PROVE h \in mask
            BY <2>3, <3>1, <3>2, <3>5 DEF RecordInvariant, RecordTypes, PySees
        <3>6. ASSUME NEW h \in Reported, py'.at[h] # Unread
              PROVE  py'.at[h] + Unpacked[h] <= len
            <4>1. CASE h = g /\ PyHas(g)
                <5>1. py'.at[h] = py.off
                    BY <3>1, <3>2, <4>1
                <5> QED
                    BY <1>1, <3>2, <4>1, <5>1 DEF PyHas
            <4>2. CASE h # g \/ ~PyHas(g)
                <5>1. py'.at[h] = py.at[h]
                    BY <3>1, <3>2, <4>2
                <5> QED
                    BY <3>6, <5>1 DEF RecordInvariant, InBounds
            <4> QED
                BY <4>1, <4>2
        <3>7. py.on
            BY <2>3 DEF PySees
        <3> QED
            BY <2>3, <3>1, <3>4, <3>5, <3>6, <3>7
    <2> QED
        BY <2>1, <2>2, <2>3 DEF Walk, PyGroup
<1>6. /\ c' \in Decoder
      /\ \A h \in RxGroups : c'.at[h] # Unread => h \in mask
      /\ \A h \in RxGroups : c'.at[h] # Unread => c'.at[h] + Size[h] <= Bound
      /\ c'.frame = c.frame
      /\ c'.on => \/ ~CSees(g) /\ c' = c
                  \/ /\ CSees(g) /\ CFits(g)
                     /\ c'.off = c.off + Size[g] /\ c'.off <= Bound
                     /\ c'.at = [c.at EXCEPT ![g] = c.off]
    <2>0. \A h \in RxGroups : c.at[h] # Unread => c.at[h] + Size[h] <= Bound
        <3>1. \A h \in RxGroups : c.at[h] \in Nat \cup {Unread}
            BY <1>4 DEF Decoder
        <3> QED
            BY <1>1, <3>1 DEF RecordInvariant, InBounds, Bound, Least
    <2>1. CASE ~CSees(g) /\ UNCHANGED c
        BY <1>4, <2>0, <2>1 DEF RecordInvariant, RecordTypes
    <2>2. CASE CSees(g) /\ ~CFits(g) /\ c' = [c EXCEPT !.on = FALSE]
        <3>1. c'.at = c.at /\ c'.frame = c.frame /\ ~c'.on
            BY <1>4, <2>2 DEF Decoder
        <3>2. c' \in Decoder
            BY <1>4, <2>2 DEF Decoder
        <3> QED
            BY <2>0, <3>1, <3>2 DEF RecordInvariant, RecordTypes
    <2>3. CASE /\ CSees(g) /\ CFits(g)
               /\ c' = [c EXCEPT !.off = @ + Size[g], !.at[g] = c.off]
        <3>1. /\ c'.at = [c.at EXCEPT ![g] = c.off]
              /\ c'.off = c.off + Size[g]
              /\ c'.frame = c.frame
            BY <1>4, <2>3 DEF Decoder
        <3>2. c.at \in [RxGroups -> Nat \cup {Unread}] /\ c.off \in Nat
            BY <1>4 DEF Decoder
        <3>3. c' \in Decoder
            <4>1. c' = [on |-> c.on, off |-> c.off + Size[g],
                        at |-> c'.at, frame |-> c.frame]
                BY <1>4, <2>3 DEF Decoder
            <4>2. c'.at \in [RxGroups -> Nat \cup {Unread}] /\ c.off + Size[g] \in Nat
                BY <3>1, <3>2
            <4>3. c.on \in BOOLEAN
                  /\ c.frame \in [from : Nat \cup {Unread}, to : Nat \cup {Unread}]
                BY <1>4 DEF Decoder
            <4> QED
                BY <4>1, <4>2, <4>3 DEF Decoder
        <3>4. c.off + Size[g] <= Bound
            BY <1>1, <2>3, <3>2 DEF CFits
        <3>5. ASSUME NEW h \in RxGroups, c'.at[h] # Unread
              PROVE  h \in mask /\ c'.at[h] + Size[h] <= Bound
            <4>1. CASE h = g
                BY <2>3, <3>1, <3>2, <3>4, <4>1 DEF CSees
            <4>2. CASE h # g
                BY <2>0, <3>1, <3>2, <3>5, <4>2 DEF RecordInvariant, RecordTypes
            <4> QED
                BY <4>1, <4>2
        <3> QED
            BY <2>3, <3>1, <3>3, <3>4, <3>5
    <2> QED
        BY <2>1, <2>2, <2>3 DEF Walk, CGroup
<1>7. py.frame = NoFrame /\ c.frame = NoFrame
    BY <1>2 DEF RecordInvariant, FramesLast
<1>8. RecordTypes'
    BY <1>2, <1>5, <1>6 DEF RecordInvariant, RecordTypes
<1>9. InBounds'
    <2>1. ASSUME NEW h \in RxGroups, c'.at[h] # Unread
          PROVE  c'.at[h] + Size[h] <= dma /\ c'.at[h] + Size[h] <= len
        <3>1. c'.at[h] \in Nat
            BY <1>6, <2>1 DEF Decoder
        <3> QED
            BY <1>1, <1>6, <2>1, <3>1
    <2> QED
        BY <1>2, <1>3, <1>5, <1>6, <1>7, <2>1 DEF InBounds
<1>10. Lockstep'
    <2> SUFFICES ASSUME c'.on
                 PROVE  /\ CStarts
                        /\ py'.on
                        /\ c'.off = py'.off
                        /\ c'.off <= Bound
                        /\ \A h \in Reported : py'.at[h] = c'.at[h]
        BY <1>2, <1>3 DEF Lockstep
    <2>1. CASE ~CSees(g) /\ c' = c
        <3>1. c.on /\ g \notin mask
            BY <2>1 DEF CSees
        <3>2. ~PySees(g)
            BY <3>1 DEF PySees
        <3> QED
            BY <1>5, <2>1, <3>2 DEF RecordInvariant, Lockstep
    <2>2. CASE /\ CSees(g) /\ CFits(g)
               /\ c'.off = c.off + Size[g] /\ c'.off <= Bound
               /\ c'.at = [c.at EXCEPT ![g] = c.off]
        <3>1. /\ c.on /\ g \in mask /\ CStarts /\ py.on /\ c.off = py.off
              /\ \A h \in Reported : py.at[h] = c.at[h]
            BY <2>2 DEF CSees, RecordInvariant, Lockstep
        <3>2. PySees(g)
            BY <3>1 DEF PySees, CStarts
        <3>3. c.off \in Nat /\ c.off + Size[g] <= len
            BY <1>1, <1>4, <2>2 DEF Decoder, CFits
        <3>4. g \in Reported => PyHas(g)
            BY <1>1, <3>1, <3>3 DEF PyHas
        <3>5. g = 4 => PyHas(4)
            BY <3>4 DEF Reported
        <3>6. /\ py'.on /\ py'.off = py.off + Size[g]
              /\ py'.at = [py.at EXCEPT ![g] = IF PyHas(g) THEN py.off ELSE @]
            BY <1>5, <3>2, <3>5
        <3>7. ASSUME NEW h \in Reported PROVE py'.at[h] = c'.at[h]
            <4>1. py.at \in [RxGroups -> Nat \cup {Unread}]
                  /\ c.at \in [RxGroups -> Nat \cup {Unread}] /\ h \in RxGroups
                BY <1>4 DEF Decoder
            <4>2. CASE h = g
                BY <2>2, <3>1, <3>4, <3>6, <4>1, <4>2
            <4>3. CASE h # g
                BY <2>2, <3>1, <3>6, <4>1, <4>3
            <4> QED
                BY <4>2, <4>3
        <3> QED
            BY <2>2, <3>1, <3>6, <3>7
    <2> QED
        BY <1>6, <2>1, <2>2
<1> QED
    BY <1>2, <1>5, <1>6, <1>7, <1>8, <1>9, <1>10
    DEF RecordInvariant, FramesLast

(* The two ways to write the end of the frame agree on accepted records.    *)
LEMMA SliceRecord == RecordInvariant /\ Slice => RecordInvariant'
<1> SUFFICES ASSUME RecordInvariant, Slice PROVE RecordInvariant'
    OBVIOUS
<1> USE SizeFacts
<1> USE DEF input
<1>1. len \in Nat /\ dma \in Nat /\ Bound \in Nat /\ Bound <= len /\ Bound <= dma
      /\ pad \in Nat
    BY RecordAssumption, BoundFacts DEF RecordInvariant, RecordTypes
<1>2. UNCHANGED input /\ pos = 0 /\ pos' = Unread
    BY DEF Slice
<1>3. /\ Bound' = Bound /\ CStarts' = CStarts
      /\ Size' = Size /\ Reported' = Reported /\ Unpacked' = Unpacked
    BY <1>2, SizesStay DEF Bound, CStarts
<1>4. py \in Decoder /\ c \in Decoder
    BY DEF RecordInvariant, RecordTypes
<1>5. PyEnd \in Nat /\ CEnd \in Nat /\ CEnd <= len
    BY <1>1 DEF PyEnd, CEnd, Least
<1>6. /\ py' = [py EXCEPT !.frame = FrameOf(py, PyEnd)]
      /\ c' = [c EXCEPT !.frame = FrameOf(c, CEnd)]
    BY DEF Slice
<1>7. /\ py'.on = py.on /\ py'.off = py.off /\ py'.at = py.at
      /\ py'.frame = FrameOf(py, PyEnd)
      /\ c'.on = c.on /\ c'.off = c.off /\ c'.at = c.at
      /\ c'.frame = FrameOf(c, CEnd)
    BY <1>4, <1>6 DEF Decoder
<1>8. /\ FrameOf(py, PyEnd) \in [from : Nat \cup {Unread}, to : Nat \cup {Unread}]
      /\ FrameOf(c, CEnd) \in [from : Nat \cup {Unread}, to : Nat \cup {Unread}]
    BY <1>1, <1>4, <1>5 DEF FrameOf, NoFrame, Decoder
<1>9. py' \in Decoder /\ c' \in Decoder
    BY <1>4, <1>6, <1>8 DEF Decoder
<1>10. c.on => py.on /\ py.off = c.off /\ PyEnd = CEnd /\ CEnd = Bound
    BY <1>1 DEF RecordInvariant, Lockstep, CStarts, PyEnd, CEnd, Bound, Least, Fixed
<1>11. c.on => py'.frame = c'.frame
    BY <1>7, <1>10 DEF FrameOf
<1>12. RecordTypes'
    BY <1>2, <1>7, <1>9 DEF RecordInvariant, RecordTypes
<1>13. InBounds'
    <2>1. ASSUME c'.frame # NoFrame
          PROVE  /\ c'.frame.from >= c'.off /\ c'.frame.from < c'.frame.to
                 /\ c'.frame.to <= dma /\ c'.frame.to <= len
        <3>1. /\ c.on /\ c.off + 2 * pad < CEnd
              /\ c'.frame = [from |-> c.off + 2 * pad, to |-> CEnd]
            BY <1>7, <2>1 DEF FrameOf
        <3>2. c.off \in Nat
            BY <1>4 DEF Decoder
        <3> QED
            BY <1>1, <1>5, <1>7, <1>10, <3>1, <3>2
    <2> QED
        BY <1>2, <1>3, <1>7, <2>1 DEF RecordInvariant, InBounds
<1>14. Lockstep'
    BY <1>2, <1>3, <1>7 DEF RecordInvariant, Lockstep
<1> QED
    BY <1>2, <1>7, <1>11, <1>12, <1>13, <1>14 DEF RecordInvariant, FramesLast

(* Nothing changes when nothing happens.                                    *)
LEMMA StutterRecord == RecordInvariant /\ UNCHANGED recordVars => RecordInvariant'
<1> SUFFICES ASSUME RecordInvariant, UNCHANGED recordVars PROVE RecordInvariant'
    OBVIOUS
<1>1. /\ UNCHANGED <<input, pos, py, c>>
      /\ Fixed' = Fixed /\ Size' = Size /\ Reported' = Reported
      /\ Unpacked' = Unpacked
    BY SizesStay DEF recordVars, input
<1> QED
    BY <1>1 DEF RecordInvariant, RecordTypes, InBounds, FramesLast, Lockstep, input,
                Bound, CStarts

-----------------------------------------------------------------------------
(* Theorems                                                                 *)

(* The inductive invariant holds throughout.                                *)
THEOREM RecordSafe == RecordSpec => []RecordInvariant
<1>1. RecordInvariant /\ [RecordNext]_recordVars => RecordInvariant'
    <2> SUFFICES ASSUME RecordInvariant, [RecordNext]_recordVars PROVE RecordInvariant'
        OBVIOUS
    <2>1. CASE Walk(4, 1)
        BY <2>1, WalkRecord DEF RxGroups
    <2>2. CASE Walk(1, 2)
        BY <2>2, WalkRecord DEF RxGroups
    <2>3. CASE Walk(2, 3)
        BY <2>3, WalkRecord DEF RxGroups
    <2>4. CASE Walk(3, 5)
        BY <2>4, WalkRecord DEF RxGroups
    <2>5. CASE Walk(5, 0)
        BY <2>5, WalkRecord DEF RxGroups
    <2>6. CASE Slice
        BY <2>6, SliceRecord
    <2>7. CASE UNCHANGED recordVars
        BY <2>7, StutterRecord
    <2> QED
        BY <2>1, <2>2, <2>3, <2>4, <2>5, <2>6, <2>7 DEF RecordNext
<1> QED
    BY <1>1, InitRecord, PTL DEF RecordSpec

(* Neither decoder reads outside the bytes it was given, whatever the two   *)
(* lengths are.                                                             *)
THEOREM RecordInBounds == RecordSpec => []InBounds
<1>1. RecordInvariant => InBounds
    BY DEF RecordInvariant
<1> QED
    BY <1>1, RecordSafe, PTL

(* Whatever C accepts, Python decodes to the same frame and fields.         *)
THEOREM RecordStricter == RecordSpec => []Stricter
<1>1. RecordInvariant => Stricter
    BY DEF RecordInvariant, Lockstep, Stricter
<1> QED
    BY <1>1, RecordSafe, PTL

-----------------------------------------------------------------------------
(* FlattenSeq                                                               *)

(* A nonempty set of natural numbers has a least member.                     *)
LEMMA LeastNatural ==
    ASSUME NEW S \in SUBSET Nat, S # {}
    PROVE  \E m \in S : \A n \in S : m <= n
<1> DEFINE Below == OpToRel(<, Nat)
<1>1. IsWellFoundedOn(Below, Nat)
  BY NatLessThanWellFounded
<1>2. PICK m \in S : \A n \in S : <<n, m>> \notin Below
  <2> HIDE DEF Below
  <2> QED
    BY <1>1, WFMin
<1>3. \A n \in S : <<n, m>> \in Below <=> n < m
  BY DEF OpToRel
<1> HIDE DEF Below
<1>4. \A n \in S : ~(n < m)
  BY <1>2, <1>3
<1> QED
  BY <1>4

(* g lists the first Len(g) prefixes of s, flattened.                        *)
Flattens(g, s, n) ==
    \A i \in 1 .. n : g[i] = IF i = 1 THEN s[i] ELSE g[i - 1] \o s[i]

(* There is such a list for every sequence of sequences.                     *)
LEMMA FlattensExists ==
    ASSUME NEW X, NEW s \in Seq(Seq(X)), NEW n \in 1 .. Len(s)
    PROVE  \E g \in [1 .. n -> Seq(X)] : Flattens(g, s, n)
<1> DEFINE Bad == {k \in 1 .. n : ~\E g \in [1 .. k -> Seq(X)] : Flattens(g, s, k)}
<1>0. n \in Nat /\ n >= 1 /\ \A i \in 1 .. n : s[i] \in Seq(X)
  OBVIOUS
<1>1. ASSUME Bad # {} PROVE FALSE
  <2>1. PICK k \in Bad : \A j \in Bad : k <= j
    <3>1. Bad \in SUBSET Nat
      BY <1>0
    <3> HIDE DEF Bad
    <3> QED
      BY <1>1, <3>1, LeastNatural
  <2>2. k \in 1 .. n /\ ~\E g \in [1 .. k -> Seq(X)] : Flattens(g, s, k)
    OBVIOUS
  <2>3. CASE k = 1
    <3> DEFINE g == [i \in 1 .. 1 |-> s[i]]
    <3>1. g \in [1 .. 1 -> Seq(X)] /\ Flattens(g, s, 1)
      BY <1>0 DEF Flattens
    <3> QED
      BY <2>2, <2>3, <3>1
  <2>4. CASE k # 1
    <3>1. k - 1 \in 1 .. n /\ k - 1 \notin Bad
      <4>1. k \in 1 .. n
        BY <2>2
      <4>2. k - 1 \in 1 .. n /\ ~(k <= k - 1)
        BY <1>0, <2>4, <4>1
      <4> HIDE DEF Bad
      <4> QED
        BY <2>1, <4>2
    <3>2. PICK g \in [1 .. (k - 1) -> Seq(X)] : Flattens(g, s, k - 1)
      BY <3>1
    <3> DEFINE h == [i \in 1 .. k |-> IF i = k THEN g[k - 1] \o s[k] ELSE g[i]]
    <3>3. g[k - 1] \in Seq(X) /\ s[k] \in Seq(X)
      BY <1>0, <2>2, <2>4, <3>1
    <3>4. h \in [1 .. k -> Seq(X)]
      <4>1. g[k - 1] \o s[k] \in Seq(X)
        BY <3>3
      <4>2. \A i \in 1 .. k : i # k => i \in 1 .. (k - 1)
        BY <2>2
      <4> QED
        BY <4>1, <4>2
    <3>5. Flattens(h, s, k)
      <4>1. ASSUME NEW i \in 1 .. k
            PROVE  h[i] = IF i = 1 THEN s[i] ELSE h[i - 1] \o s[i]
        <5>1. CASE i = k
          <6>1. k \in 1 .. k /\ k - 1 \in 1 .. k /\ k - 1 # k
            BY <1>0, <2>2, <2>4
          <6>2. h[k] = g[k - 1] \o s[k] /\ h[k - 1] = g[k - 1]
            BY <6>1
          <6> HIDE DEF h
          <6> QED
            BY <5>1, <6>2, <2>4
        <5>2. CASE i # k
          <6>1. i \in 1 .. (k - 1) /\ h[i] = g[i]
            BY <5>2, <2>2
          <6>2. i # 1 => i - 1 \in 1 .. k /\ i - 1 # k /\ h[i - 1] = g[i - 1]
            BY <5>2, <2>2
          <6> HIDE DEF h
          <6> QED
            BY <6>1, <6>2, <3>2 DEF Flattens
        <5> QED
          BY <5>1, <5>2
      <4> QED
        BY <4>1 DEF Flattens
    <3> HIDE DEF h
    <3> QED
      BY <2>2, <3>4, <3>5
  <2> QED
    BY <2>3, <2>4
<1>2. n \in 1 .. n
  BY <1>0
<1> QED
  BY <1>1, <1>2

(* There is only one.                                                        *)
LEMMA FlattensOnce ==
    ASSUME NEW s, NEW n \in Nat, NEW g, NEW h, Flattens(g, s, n), Flattens(h, s, n)
    PROVE  \A i \in 1 .. n : g[i] = h[i]
<1> DEFINE Bad == {k \in 1 .. n : g[k] # h[k]}
<1>1. ASSUME Bad # {} PROVE FALSE
  <2>1. PICK k \in Bad : \A j \in Bad : k <= j
    <3>1. Bad \in SUBSET Nat
      OBVIOUS
    <3> HIDE DEF Bad
    <3> QED
      BY <1>1, <3>1, LeastNatural
  <2>2. k \in 1 .. n /\ g[k] # h[k]
    OBVIOUS
  <2>3. k # 1
    BY <2>2 DEF Flattens
  <2>4. k - 1 \in 1 .. n /\ ~(k <= k - 1)
    BY <2>2, <2>3
  <2>5. g[k - 1] = h[k - 1]
    <3>1. k - 1 \notin Bad
      <4> HIDE DEF Bad
      <4> QED
        BY <2>1, <2>4
    <3> QED
      BY <2>4, <3>1
  <2> QED
    BY <2>2, <2>3, <2>5 DEF Flattens
<1> QED
  BY <1>1

(* FlattenSeq is the last of them.                                           *)
LEMMA FlattenIsLast ==
    ASSUME NEW X, NEW s \in Seq(Seq(X)), s # <<>>
    PROVE  \E g \in [1 .. Len(s) -> Seq(X)] :
               Flattens(g, s, Len(s)) /\ FlattenSeq(s) = g[Len(s)]
<1> DEFINE n == Len(s)
           Whole1(g) == g = [i \in 1 .. n |-> IF i = 1 THEN s[i] ELSE g[i - 1] \o s[i]]
           f == CHOOSE g : Whole1(g)
<1>1. n \in Nat /\ n # 0
  OBVIOUS
<1>2. PICK g \in [1 .. n -> Seq(X)] : Flattens(g, s, n)
  BY <1>1, FlattensExists
<1>3. Whole1(g)
  BY <1>2 DEF Flattens
<1>4. Whole1(f)
  BY <1>3
<1>5. FlattenSeq(s) = f[n]
  BY <1>1 DEF FlattenSeq
<1> HIDE DEF f
<1>6. Flattens(f, s, n)
  <2>1. ASSUME NEW i \in 1 .. n
        PROVE  f[i] = IF i = 1 THEN s[i] ELSE f[i - 1] \o s[i]
    BY <1>4
  <2> HIDE DEF n
  <2> QED
    BY <2>1 DEF Flattens
<1>7. \A i \in 1 .. n : f[i] = g[i]
  BY <1>1, <1>2, <1>6, FlattensOnce
<1>8. f[n] = g[n]
  BY <1>1, <1>7
<1> QED
  BY <1>2, <1>5, <1>8

(* One more sequence is flattened to the end of what there is.               *)
LEMMA FlattenAppend ==
    ASSUME NEW X, NEW s \in Seq(Seq(X)), NEW x \in Seq(X)
    PROVE  /\ FlattenSeq(s) \in Seq(X)
           /\ FlattenSeq(Append(s, x)) = FlattenSeq(s) \o x
<1> DEFINE k == Len(s)
           t == Append(s, x)
<1>1. /\ k \in Nat /\ Len(t) = k + 1 /\ t \in Seq(Seq(X)) /\ t # <<>>
      /\ t[k + 1] = x /\ \A i \in 1 .. k : t[i] = s[i]
  BY AppendProperties
<1>2. PICK h \in [1 .. (k + 1) -> Seq(X)] :
          Flattens(h, t, k + 1) /\ FlattenSeq(t) = h[k + 1]
  <2>1. \E h \in [1 .. Len(t) -> Seq(X)] :
            Flattens(h, t, Len(t)) /\ FlattenSeq(t) = h[Len(t)]
    <3> HIDE DEF t
    <3> QED
      BY <1>1, FlattenIsLast
  <2> QED
    BY <1>1, <2>1
<1> HIDE DEF t
<1>3. CASE s = <<>>
  <2>1. k = 0 /\ FlattenSeq(s) = <<>>
    BY <1>3 DEF FlattenSeq
  <2>2. h[1] = x
    BY <1>1, <1>2, <2>1 DEF Flattens
  <2>3. <<>> \o x = x
    BY ConcatEmptySeq
  <2> QED
    BY <1>2, <2>1, <2>2, <2>3 DEF t
<1>4. CASE s # <<>>
  <2>1. PICK g \in [1 .. k -> Seq(X)] : Flattens(g, s, k) /\ FlattenSeq(s) = g[k]
    BY <1>4, FlattenIsLast
  <2>2. k >= 1
    BY <1>4
  <2> HIDE DEF k
  <2>3. Flattens(h, s, k)
    <3>1. \A i \in 1 .. k : i \in 1 .. (k + 1)
      BY <1>1
    <3> QED
      BY <1>1, <1>2, <3>1 DEF Flattens
  <2>4. g[k] = h[k] /\ g[k] \in Seq(X)
    <3>1. k \in 1 .. k
      BY <1>1, <2>2
    <3>2. k \in Nat /\ Flattens(g, s, k)
      BY <1>1, <2>1
    <3>3. \A i \in 1 .. k : g[i] = h[i]
      BY <2>3, <3>2, FlattensOnce, SMTT(60)
    <3> QED
      BY <2>1, <3>1, <3>3
  <2>5. h[k + 1] = h[k] \o t[k + 1]
    <3>1. k + 1 \in 1 .. (k + 1) /\ k + 1 # 1 /\ (k + 1) - 1 = k
      BY <1>1, <2>2
    <3>2. h[k + 1] = IF k + 1 = 1 THEN t[k + 1] ELSE h[(k + 1) - 1] \o t[k + 1]
      BY <1>2, <3>1 DEF Flattens
    <3> QED
      BY <3>1, <3>2
  <2> QED
    BY <1>1, <1>2, <2>1, <2>4, <2>5 DEF t
<1> QED
  BY <1>3, <1>4

-----------------------------------------------------------------------------
(* The inductive invariant                                                  *)

Sub == [kind : Kinds, at : Nat, air : Airs, ppdu : Nat, got : BOOLEAN]
Packet == [frame : Nat, cmd : {0} \cup Reads, value : {None} \cup 0 .. CntMod - 1]
Sample == [frames : Nat, busy : Nat]
Tracker == [current : Seq(Nat), ts : {None} \cup 0 .. TsMod - 1,
            addr : {None} \cup {k.addr : k \in Kinds},
            air : {0} \cup Airs, out : Seq(Seq(Nat))]
Places == {<<"ask", 1>>, <<"wait", 1>>, <<"loop", 0>>, <<"ask", 2>>, <<"wait", 2>>,
           <<"done", 0>>}

Types ==
    /\ air \in Seq(Sub) /\ Len(air) <= MaxFrames
    /\ busy \in Nat
    /\ rx \in Seq(Packet) /\ Len(rx) <= Depth
    /\ asked \in SUBSET ({0} \cup Reads)
    /\ pc \in Places
    /\ value \in [Reads -> {None} \cup 0 .. CntMod - 1]
    /\ dropped \in Nat /\ errors \in Nat
    /\ tracker \in Tracker
    /\ fed \in Seq(Nat)
    /\ seen \in [Reads -> {None} \cup Sample]

(* Subframe j was sent before subframe i.                                    *)
Before(j, i) ==
    /\ air[j].at + air[j].air <= air[i].at
    /\ air[j].ppdu <= air[i].ppdu
    /\ air[j].ppdu = air[i].ppdu =>
          /\ air[j].kind = air[i].kind /\ air[i].kind.ampdu
          /\ i = j + 1 => air[i].at <= air[j].at + air[j].air + Slack
    /\ air[j].ppdu # air[i].ppdu /\ air[j].kind.addr = air[i].kind.addr =>
          air[j].at + air[j].air + Slack < air[i].at

AirOrder == \A i \in 1 .. Len(air) : \A j \in 1 .. i - 1 : Before(j, i)

(* The dwell is shorter than a cycle of the timestamp.                       *)
AirSpan ==
    \E m \in {0} \cup Airs :
        \A i \in 1 .. Len(air) : \A j \in 1 .. i :
            air[i].at - air[j].at <= Len(air) * (m + Gap)

(* So much busy time is between any two samples.                             *)
BusySpan ==
    \E m \in {0} \cup Airs, b \in 0 .. busy :
        /\ busy - b <= Len(air) * m
        /\ \A n \in Reads : seen[n] # None => seen[n].busy \in b .. busy

(* The firmware has not been asked for this sample.                          *)
Unasked(n) ==
    /\ n \notin asked /\ seen[n] = None /\ value[n] = None
    /\ \A k \in 1 .. Len(rx) : rx[k].cmd # n

Steps ==
    /\ pc = <<"ask", 1>> => Unasked(1)
    /\ pc \in {<<"ask", 1>>, <<"wait", 1>>, <<"loop", 0>>, <<"ask", 2>>} => Unasked(2)
    /\ pc \in {<<"ask", 1>>, <<"wait", 1>>} => fed = <<>> /\ value[1] = None
    /\ pc = <<"wait", 2>> => value[2] = None

(* Frames come in the order of the air.                                      *)
FramesOrder ==
    /\ \A k \in 1 .. Len(rx) : rx[k].frame # 0 =>
          /\ rx[k].cmd = 0
          /\ rx[k].frame <= Len(air) /\ air[rx[k].frame].got
          /\ \A j \in 1 .. k - 1 : rx[j].frame < rx[k].frame
          /\ \A i \in 1 .. Len(fed) : fed[i] < rx[k].frame
    /\ \A i \in 1 .. Len(fed) :
          /\ fed[i] \in 1 .. Len(air) /\ air[fed[i]].got
          /\ \A h \in 1 .. i - 1 : fed[h] < fed[i]

(* A reply is in the queue where its sample was taken.                       *)
ReplyPlace ==
    \A n \in Reads : \A k \in 1 .. Len(rx) : rx[k].cmd = n =>
        /\ n \notin asked /\ value[n] = None /\ seen[n] # None
        /\ rx[k].value = seen[n].busy % CntMod
        /\ \A j \in 1 .. Len(rx) : rx[j].cmd = n => j = k
        /\ \A j \in k + 1 .. Len(rx) :
              rx[j].frame # 0 => rx[j].frame > seen[n].frames
        /\ \A i \in seen[n].frames + 1 .. Len(air) : air[i].got =>
              \E j \in k + 1 .. Len(rx) : rx[j].frame = i

(* What a read has returned is its sample, and what was in front of it is     *)
(* gone.                                                                     *)
ValueSays ==
    \A n \in Reads :
        /\ n \in asked => seen[n] = None /\ value[n] = None
        /\ seen[n] # None => seen[n].frames <= Len(air)
        /\ value[n] # None =>
              /\ seen[n] # None /\ value[n] = seen[n].busy % CntMod
              /\ \A k \in 1 .. Len(rx) :
                    rx[k].frame # 0 => rx[k].frame > seen[n].frames

Between ==
    /\ value[1] # None => \A i \in 1 .. Len(fed) : fed[i] > seen[1].frames
    /\ seen[2] # None => \A i \in 1 .. Len(fed) : fed[i] <= seen[2].frames
    /\ value[1] # None /\ seen[2] # None => seen[1].busy <= seen[2].busy

(* Frames since the first sample that are neither billed nor to come.        *)
Lost == {i \in seen[1].frames + 1 .. Len(air) :
            /\ air[i].got /\ i \notin ToSet(fed)
            /\ \A k \in 1 .. Len(rx) : rx[k].frame # i}

Losses ==
    value[1] # None => Cardinality(Lost) <= dropped + errors

(* What the tracker remembers is the last frame.                             *)
Remembers ==
    /\ fed # <<>> =>
          LET d == Decoded(fed[Len(fed)])
          IN /\ tracker.ts = d.ts /\ tracker.addr = d.addr /\ tracker.air = d.air
             /\ pc = <<"loop", 0>> /\ d.ampdu /\ d.ts # None => tracker.current # <<>>
    /\ tracker.current # <<>> =>
          /\ pc = <<"loop", 0>> /\ fed # <<>>
          /\ tracker.current[Len(tracker.current)] = fed[Len(fed)]
    /\ FlattenSeq(tracker.out) \o tracker.current = fed
    /\ \A a \in ToSet(tracker.out) \cup {tracker.current} : ToSet(a) \subseteq 1 .. Len(air)

IInv ==
    /\ Types /\ AirOrder /\ AirSpan /\ BusySpan /\ Steps /\ FramesOrder
    /\ ReplyPlace /\ ValueSays /\ Between /\ Losses /\ Remembers /\ Ppdus

-----------------------------------------------------------------------------
(* What the steps do to the sequences                                       *)

(* A subframe that may follow those that are on the air.                     *)
Follows(e) ==
    air # <<>> =>
        LET last == air[Len(air)]
            over == last.at + last.air
        IN \/ /\ last.kind.ampdu /\ e.kind = last.kind /\ e.ppdu = last.ppdu
              /\ over <= e.at /\ e.at <= over + Slack
           \/ /\ e.ppdu = last.ppdu + 1
              /\ \/ e.at = over /\ Free(e.kind.addr, over)
                 \/ e.at = over + Gap

(* Air puts one subframe on the air, and perhaps one packet in the queue.    *)
LEMMA AirSends ==
    ASSUME Types, Air
    PROVE  \E e \in Sub :
               /\ air' = Append(air, e) /\ Len(air) < MaxFrames
               /\ busy' = busy + e.air /\ Follows(e)
               /\ e.got => /\ Len(rx) < Depth
                           /\ rx' = Append(rx, [frame |-> Len(air) + 1, cmd |-> 0,
                                                value |-> None])
               /\ ~e.got => rx' = rx
               /\ UNCHANGED <<asked, pc, value, dropped, errors, tracker, fed, seen>>
<1> DEFINE Result ==
           \E e \in Sub :
               /\ air' = Append(air, e) /\ Len(air) < MaxFrames
               /\ busy' = busy + e.air /\ Follows(e)
               /\ e.got => /\ Len(rx) < Depth
                           /\ rx' = Append(rx, [frame |-> Len(air) + 1, cmd |-> 0,
                                                value |-> None])
               /\ ~e.got => rx' = rx
               /\ UNCHANGED <<asked, pc, value, dropped, errors, tracker, fed, seen>>
<1>1. ASSUME NEW kind \in Kinds, NEW at \in Nat, NEW long \in Airs, NEW ppdu \in Nat,
             NEW got \in BOOLEAN, Send(kind, at, long, ppdu, got),
             got => Len(rx) < Depth, Len(air) < MaxFrames,
             Follows([kind |-> kind, at |-> at, air |-> long, ppdu |-> ppdu, got |-> got])
      PROVE  Result
  <2> DEFINE e == [kind |-> kind, at |-> at, air |-> long, ppdu |-> ppdu, got |-> got]
  <2>1. e \in Sub /\ e.air = long /\ e.got = got
    BY DEF Sub
  <2>2. air \in Seq(Sub) /\ air' = Append(air, e) /\ Follows(e)
    BY <1>1 DEF Send, Types
  <2>3. Len(air') = Len(air) + 1
    BY <2>1, <2>2
  <2> HIDE DEF e
  <2> QED
    BY <1>1, <2>1, <2>2, <2>3 DEF Send
<1> HIDE DEF Result
<1>2. PICK long \in Airs, got \in BOOLEAN :
          /\ got => Len(rx) < Depth
          /\ Len(air) < MaxFrames
          /\ \/ /\ air = <<>>
                /\ \E kind \in Kinds, at \in Starts : Send(kind, at, long, 1, got)
             \/ /\ air # <<>>
                /\ LET last == air[Len(air)]
                       over == last.at + last.air
                   IN \/ /\ last.kind.ampdu
                         /\ \E late \in {0, Slack} :
                               Send(last.kind, over + late, long, last.ppdu, got)
                      \/ \E kind \in Kinds :
                            Send(kind,
                                 IF Free(kind.addr, over) THEN over ELSE over + Gap,
                                 long, last.ppdu + 1, got)
  BY DEF Air
<1>3. CASE air = <<>>
  <2>1. PICK kind \in Kinds, at \in Starts : Send(kind, at, long, 1, got)
    BY <1>2, <1>3
  <2>2. at \in Nat /\ 1 \in Nat
    BY SurveyAssumption
  <2>3. Follows([kind |-> kind, at |-> at, air |-> long, ppdu |-> 1, got |-> got])
    BY <1>3 DEF Follows
  <2> QED
    BY <1>1, <1>2, <2>1, <2>2, <2>3 DEF Result
<1>4. CASE air # <<>>
  <2> DEFINE last == air[Len(air)]
             over == last.at + last.air
  <2>1. last \in Sub /\ over \in Nat
    <3>1. air \in Seq(Sub) /\ Len(air) \in 1 .. Len(air)
      BY <1>4 DEF Types
    <3>2. last \in Sub
      BY <3>1
    <3>3. last.at \in Nat /\ last.air \in Nat
      BY <3>2, SurveyAssumption DEF Sub
    <3> HIDE DEF last
    <3> QED
      BY <3>2, <3>3
  <2>2. last.kind \in Kinds /\ last.ppdu \in Nat /\ last.ppdu + 1 \in Nat
    BY <2>1 DEF Sub
  <2>3. CASE last.kind.ampdu /\ \E late \in {0, Slack} :
                 Send(last.kind, over + late, long, last.ppdu, got)
    <3>1. PICK late \in {0, Slack} :
                 Send(last.kind, over + late, long, last.ppdu, got)
      BY <2>3
    <3>2. over + late \in Nat /\ over <= over + late /\ over + late <= over + Slack
      BY <2>1, AggregationAssumption
    <3>3. Follows([kind |-> last.kind, at |-> over + late, air |-> long,
                   ppdu |-> last.ppdu, got |-> got])
      BY <1>4, <2>3, <3>2 DEF Follows
    <3> HIDE DEF last, over
    <3> QED
      BY <1>1, <1>2, <2>2, <3>1, <3>2, <3>3 DEF Result
  <2>4. CASE \E kind \in Kinds :
                 Send(kind, IF Free(kind.addr, over) THEN over ELSE over + Gap,
                      long, last.ppdu + 1, got)
    <3>1. PICK kind \in Kinds :
                 Send(kind, IF Free(kind.addr, over) THEN over ELSE over + Gap,
                      long, last.ppdu + 1, got)
      BY <2>4
    <3> DEFINE at == IF Free(kind.addr, over) THEN over ELSE over + Gap
    <3>2. at \in Nat
      BY <2>1, SurveyAssumption
    <3>3. Follows([kind |-> kind, at |-> at, air |-> long,
                   ppdu |-> last.ppdu + 1, got |-> got])
      BY <1>4 DEF Follows
    <3>4. Send(kind, at, long, last.ppdu + 1, got)
      BY <3>1
    <3> HIDE DEF last, over, at
    <3> QED
      BY <1>1, <1>2, <2>2, <3>2, <3>3, <3>4 DEF Result
  <2> QED
    BY <1>2, <1>4, <2>3, <2>4
<1> QED
  BY <1>3, <1>4 DEF Result

(* Answer takes one sample and puts its reply at the end of the queue.       *)
LEMMA AnswerSends ==
    ASSUME Types, Answer
    PROVE  \E n \in {0} \cup Reads :
               /\ n \in asked /\ asked' = asked \ {n}
               /\ Len(rx) < Depth
               /\ rx' = Append(rx, [frame |-> 0, cmd |-> n, value |-> busy % CntMod])
               /\ \A i \in Reads : seen'[i] = IF i = n
                                              THEN [frames |-> Len(air), busy |-> busy]
                                              ELSE seen[i]
               /\ seen' \in [Reads -> {None} \cup Sample]
               /\ busy % CntMod \in 0 .. CntMod - 1
               /\ UNCHANGED <<world, pc, value, dropped, errors, tracker, fed>>
<1>1. PICK n \in asked :
          /\ rx' = Append(rx, [frame |-> 0, cmd |-> n, value |-> busy % CntMod])
          /\ asked' = asked \ {n}
          /\ seen' = [i \in Reads |->
                         IF i = n THEN [frames |-> Len(air), busy |-> busy]
                         ELSE seen[i]]
  BY DEF Answer
<1>2. n \in {0} \cup Reads
  BY DEF Types
<1>3. [frames |-> Len(air), busy |-> busy] \in Sample
  BY DEF Types, Sample
<1>4. \A i \in Reads : seen[i] \in {None} \cup Sample
  BY DEF Types
<1>5. busy % CntMod \in 0 .. CntMod - 1
  BY SurveyAssumption DEF Types
<1> QED
  BY <1>1, <1>2, <1>3, <1>4, <1>5 DEF Answer, Types

(* Taking the packet in front moves the others up.                           *)
LEMMA TailMoves ==
    ASSUME NEW X, NEW q \in Seq(X), q # <<>>
    PROVE  /\ Head(q) = q[1] /\ q[1] \in X /\ 1 \in 1 .. Len(q)
           /\ Tail(q) \in Seq(X) /\ Len(Tail(q)) = Len(q) - 1
           /\ \A k \in 1 .. Len(Tail(q)) :
                 /\ k + 1 \in 1 .. Len(q) /\ Tail(q)[k] = q[k + 1]
           /\ \A k \in 1 .. Len(q) : k = 1 \/ k - 1 \in 1 .. Len(Tail(q))
  OBVIOUS

(* Appending leaves the others where they are.                               *)
LEMMA AppendKeeps ==
    ASSUME NEW X, NEW q \in Seq(X), NEW e \in X
    PROVE  /\ Append(q, e) \in Seq(X) /\ Len(Append(q, e)) = Len(q) + 1
           /\ Append(q, e)[Len(q) + 1] = e /\ Len(q) + 1 \in 1 .. Len(q) + 1
           /\ \A k \in 1 .. Len(q) : k \in 1 .. Len(q) + 1 /\ Append(q, e)[k] = q[k]
           /\ \A k \in 1 .. Len(q) + 1 : k \in 1 .. Len(q) \/ k = Len(q) + 1
  OBVIOUS

-----------------------------------------------------------------------------
(* The tracker                                                              *)

Frame == [id : Nat, ampdu : BOOLEAN, addr : {None} \cup {k.addr : k \in Kinds},
          ts : {None} \cup 0 .. TsMod - 1, air : {0} \cup Airs]

(* What the decoder makes of a subframe has its type.                        *)
LEMMA DecodedType ==
    ASSUME Types, NEW i \in 1 .. Len(air)
    PROVE  /\ air[i] \in Sub
           /\ Decoded(i) \in Frame /\ Decoded(i).id = i
           /\ Decoded(i).ampdu = air[i].kind.ampdu
           /\ Decoded(i).addr = air[i].kind.addr
           /\ Decoded(i).ts = IF air[i].kind.stamped THEN air[i].at % TsMod ELSE None
           /\ Decoded(i).air = IF air[i].kind.rated THEN air[i].air ELSE 0
<1>1. air[i] \in Sub
  BY DEF Types
<1>2. /\ air[i].kind \in Kinds /\ air[i].at \in Nat /\ air[i].air \in Airs
      /\ air[i].kind.ampdu \in BOOLEAN
  BY <1>1, SurveyAssumption DEF Sub
<1>3. air[i].at % TsMod \in 0 .. TsMod - 1
  BY <1>2, SurveyAssumption
<1>4. Decoded(i) =
        [id |-> i, ampdu |-> air[i].kind.ampdu, addr |-> air[i].kind.addr,
         ts |-> IF air[i].kind.stamped THEN air[i].at % TsMod ELSE None,
         air |-> IF air[i].kind.rated THEN air[i].air ELSE 0]
  BY DEF Decoded
<1> QED
  BY <1>1, <1>2, <1>3, <1>4 DEF Frame

(* A record of the tracker's five fields is known by them.                   *)
LEMMA FiveFields ==
    ASSUME NEW A, NEW B, NEW C, NEW D, NEW F,
           NEW t \in [current : A, ts : B, addr : C, air : D, out : F]
    PROVE  t = [current |-> t.current, ts |-> t.ts, addr |-> t.addr,
                air |-> t.air, out |-> t.out]
  OBVIOUS

(* Setting current leaves the rest.                                          *)
LEMMA CurrentSet ==
    ASSUME NEW A, NEW B, NEW C, NEW D, NEW F,
           NEW t \in [current : A, ts : B, addr : C, air : D, out : F],
           NEW x \in A
    PROVE  [t EXCEPT !.current = x] =
               [current |-> x, ts |-> t.ts, addr |-> t.addr,
                air |-> t.air, out |-> t.out]
<1> DEFINE r == [t EXCEPT !.current = x]
<1>1. r \in [current : A, ts : B, addr : C, air : D, out : F]
  OBVIOUS
<1>2. r.current = x /\ r.ts = t.ts /\ r.addr = t.addr /\ r.air = t.air /\ r.out = t.out
  OBVIOUS
<1>3. r = [current |-> r.current, ts |-> r.ts, addr |-> r.addr, air |-> r.air,
           out |-> r.out]
  <2> HIDE DEF r
  <2> QED
    BY <1>1, FiveFields
<1> HIDE DEF r
<1>4. r = [current |-> x, ts |-> t.ts, addr |-> t.addr,
           air |-> t.air, out |-> t.out]
  BY <1>2, <1>3
<1> QED
  BY <1>4 DEF r

(* Setting out leaves the rest.                                              *)
LEMMA OutSet ==
    ASSUME NEW A, NEW B, NEW C, NEW D, NEW F,
           NEW t \in [current : A, ts : B, addr : C, air : D, out : F],
           NEW x \in F
    PROVE  [t EXCEPT !.out = x] =
               [current |-> t.current, ts |-> t.ts, addr |-> t.addr,
                air |-> t.air, out |-> x]
<1> DEFINE r == [t EXCEPT !.out = x]
<1>1. r \in [current : A, ts : B, addr : C, air : D, out : F]
  OBVIOUS
<1>2. r.current = t.current /\ r.ts = t.ts /\ r.addr = t.addr /\ r.air = t.air /\ r.out = x
  OBVIOUS
<1>3. r = [current |-> r.current, ts |-> r.ts, addr |-> r.addr, air |-> r.air,
           out |-> r.out]
  <2> HIDE DEF r
  <2> QED
    BY <1>1, FiveFields
<1> HIDE DEF r
<1>4. r = [current |-> t.current, ts |-> t.ts, addr |-> t.addr,
           air |-> t.air, out |-> x]
  BY <1>2, <1>3
<1> QED
  BY <1>4 DEF r

(* The same for a tracker.                                                  *)
LEMMA TrackerSet ==
    ASSUME NEW t \in Tracker
    PROVE  /\ \A x \in Seq(Nat) :
                 [t EXCEPT !.current = x] =
                     [current |-> x, ts |-> t.ts, addr |-> t.addr,
                      air |-> t.air, out |-> t.out]
           /\ \A x \in Seq(Seq(Nat)) :
                 [t EXCEPT !.out = x] =
                     [current |-> t.current, ts |-> t.ts, addr |-> t.addr,
                      air |-> t.air, out |-> x]
<1> DEFINE A == Seq(Nat)
           B == {None} \cup 0 .. TsMod - 1
           C == {None} \cup {k.addr : k \in Kinds}
           D == {0} \cup Airs
           F == Seq(Seq(Nat))
<1>1. t \in [current : A, ts : B, addr : C, air : D, out : F]
  BY DEF Tracker
<1> HIDE DEF A, B, C, D, F
<1>2. \A x \in A : [t EXCEPT !.current = x] =
                      [current |-> x, ts |-> t.ts, addr |-> t.addr,
                       air |-> t.air, out |-> t.out]
  BY <1>1, CurrentSet
<1>3. \A x \in F : [t EXCEPT !.out = x] =
                      [current |-> t.current, ts |-> t.ts, addr |-> t.addr,
                       air |-> t.air, out |-> x]
  BY <1>1, OutSet
<1> QED
  BY <1>2, <1>3 DEF A, F

(* Close moves the open aggregate to what is returned.                       *)
LEMMA CloseMoves ==
    ASSUME NEW t \in Tracker
    PROVE  /\ Close(t) \in Tracker
           /\ Close(t).current = <<>>
           /\ Close(t).ts = t.ts /\ Close(t).addr = t.addr /\ Close(t).air = t.air
           /\ Close(t).out = IF t.current = <<>> THEN t.out
                             ELSE Append(t.out, t.current)
<1>1. CASE t.current = <<>>
  BY <1>1 DEF Close
<1>2. CASE t.current # <<>>
  <2>1. Close(t) = [t EXCEPT !.out = Append(t.out, t.current), !.current = <<>>]
    BY <1>2 DEF Close
  <2>2. Append(t.out, t.current) \in Seq(Seq(Nat))
    BY DEF Tracker
  <2>3. Close(t) = [current |-> <<>>, ts |-> t.ts, addr |-> t.addr, air |-> t.air,
                    out |-> Append(t.out, t.current)]
    BY <2>1 DEF Tracker
  <2> QED
    BY <1>2, <2>2, <2>3 DEF Tracker
<1> QED
  BY <1>1, <1>2

(* Feed either continues the open aggregate or closes it, and then opens one  *)
(* with f or returns f alone; it remembers f.                                *)
LEMMA FeedCases ==
    ASSUME NEW t \in Tracker, NEW f \in Frame
    PROVE  /\ Feed(t, f) \in Tracker
           /\ Feed(t, f).ts = f.ts /\ Feed(t, f).addr = f.addr
           /\ Feed(t, f).air = f.air
           /\ \/ /\ f.ampdu /\ f.ts # None /\ Contiguous(t, f)
                 /\ Feed(t, f).current = Append(t.current, f.id)
                 /\ Feed(t, f).out = t.out
              \/ /\ f.ampdu /\ f.ts # None /\ ~Contiguous(t, f)
                 /\ Feed(t, f).current = <<f.id>>
                 /\ Feed(t, f).out = Close(t).out
              \/ /\ ~f.ampdu \/ f.ts = None
                 /\ Feed(t, f).current = <<>>
                 /\ Feed(t, f).out = Append(Close(t).out, <<f.id>>)
<1> DEFINE cl == Close(t)
           Holds(u) == [current |-> u.current, ts |-> f.ts, addr |-> f.addr,
                        air |-> f.air, out |-> u.out]
<1>1. /\ cl \in Tracker /\ cl.current = <<>>
  BY CloseMoves
<1>2. /\ f.id \in Nat /\ f.ts \in {None} \cup 0 .. TsMod - 1
      /\ f.addr \in {None} \cup {k.addr : k \in Kinds} /\ f.air \in {0} \cup Airs
  BY DEF Frame
<1>3. ASSUME NEW u \in Tracker
      PROVE  /\ [u EXCEPT !.ts = f.ts, !.addr = f.addr, !.air = f.air] = Holds(u)
             /\ Holds(u) \in Tracker
  <2>1. [u EXCEPT !.ts = f.ts, !.addr = f.addr, !.air = f.air] = Holds(u)
    <3> DEFINE A == Seq(Nat)
               B == {None} \cup 0 .. TsMod - 1
               C == {None} \cup {k.addr : k \in Kinds}
               D == {0} \cup Airs
               F == Seq(Seq(Nat))
               r == [u EXCEPT !.ts = f.ts, !.addr = f.addr, !.air = f.air]
    <3>1. /\ u \in [current : A, ts : B, addr : C, air : D, out : F]
          /\ f.ts \in B /\ f.addr \in C /\ f.air \in D
      BY <1>2 DEF Tracker
    <3> HIDE DEF A, B, C, D, F
    <3>2. r \in [current : A, ts : B, addr : C, air : D, out : F]
      BY <3>1
    <3>3. /\ r.current = u.current /\ r.ts = f.ts /\ r.addr = f.addr
          /\ r.air = f.air /\ r.out = u.out
      BY <3>1
    <3> HIDE DEF r
    <3>4. r = [current |-> r.current, ts |-> r.ts, addr |-> r.addr,
               air |-> r.air, out |-> r.out]
      BY <3>2, FiveFields
    <3>5. r = Holds(u)
      BY <3>3, <3>4
    <3> QED
      BY <3>5 DEF r
  <2>2. u.current \in Seq(Nat) /\ u.out \in Seq(Seq(Nat))
    BY DEF Tracker
  <2> QED
    BY <1>2, <2>1, <2>2 DEF Tracker
<1> HIDE DEF cl
<1>4. CASE ~f.ampdu \/ f.ts = None
  <2> DEFINE u == [cl EXCEPT !.out = Append(@, <<f.id>>)]
  <2>1. Append(cl.out, <<f.id>>) \in Seq(Seq(Nat))
    <3>1. <<f.id>> \in Seq(Nat) /\ cl.out \in Seq(Seq(Nat))
      BY <1>1, <1>2 DEF Tracker
    <3> QED
      BY <3>1
  <2>2. u = [current |-> cl.current, ts |-> cl.ts, addr |-> cl.addr, air |-> cl.air,
             out |-> Append(cl.out, <<f.id>>)]
    BY <1>1, <2>1, TrackerSet
  <2>3. u \in Tracker /\ u.current = <<>> /\ u.out = Append(cl.out, <<f.id>>)
    BY <1>1, <2>1, <2>2 DEF Tracker
  <2>4. Feed(t, f) = [u EXCEPT !.ts = f.ts, !.addr = f.addr, !.air = f.air]
    BY <1>4 DEF Feed, Single, cl
  <2> HIDE DEF u
  <2>5. Feed(t, f) = Holds(u) /\ Holds(u) \in Tracker
    BY <1>3, <2>3, <2>4
  <2> QED
    BY <1>4, <2>3, <2>5 DEF cl
<1>5. CASE f.ampdu /\ f.ts # None /\ Contiguous(t, f)
  <2> DEFINE u == [t EXCEPT !.current = Append(@, f.id)]
  <2>1. Append(t.current, f.id) \in Seq(Nat)
    BY <1>2 DEF Tracker
  <2>2. u = [current |-> Append(t.current, f.id), ts |-> t.ts, addr |-> t.addr,
             air |-> t.air, out |-> t.out]
    BY <2>1, TrackerSet
  <2>3. u \in Tracker /\ u.current = Append(t.current, f.id) /\ u.out = t.out
    BY <2>1, <2>2 DEF Tracker
  <2>4. Feed(t, f) = [u EXCEPT !.ts = f.ts, !.addr = f.addr, !.air = f.air]
    BY <1>5 DEF Feed, Join
  <2> HIDE DEF u
  <2>5. Feed(t, f) = Holds(u) /\ Holds(u) \in Tracker
    BY <1>3, <2>3, <2>4
  <2> QED
    BY <1>5, <2>3, <2>5
<1>6. CASE f.ampdu /\ f.ts # None /\ ~Contiguous(t, f)
  <2> DEFINE u == [cl EXCEPT !.current = <<f.id>>]
  <2>1. <<f.id>> \in Seq(Nat)
    BY <1>2
  <2>2. u = [current |-> <<f.id>>, ts |-> cl.ts, addr |-> cl.addr, air |-> cl.air,
             out |-> cl.out]
    BY <1>1, <2>1, TrackerSet
  <2>3. u \in Tracker /\ u.current = <<f.id>> /\ u.out = cl.out
    BY <1>1, <2>1, <2>2 DEF Tracker
  <2>4. Feed(t, f) = [u EXCEPT !.ts = f.ts, !.addr = f.addr, !.air = f.air]
    BY <1>6 DEF Feed, Join, cl
  <2> HIDE DEF u
  <2>5. Feed(t, f) = Holds(u) /\ Holds(u) \in Tracker
    BY <1>3, <2>3, <2>4
  <2> QED
    BY <1>6, <2>3, <2>5 DEF cl
<1> QED
  BY <1>4, <1>5, <1>6

-----------------------------------------------------------------------------
(* Types                                                                    *)

(* The initial states have the types.                                        *)
LEMMA TypesInit ==
    ASSUME Init
    PROVE  Types
<1>1. Fresh \in Tracker
  <2>1. <<>> \in Seq(Nat) /\ <<>> \in Seq(Seq(Nat)) /\ 0 \in {0} \cup Airs
    OBVIOUS
  <2> QED
    BY <2>1 DEF Fresh, Tracker
<1>2. /\ <<>> \in Seq(Sub) /\ <<>> \in Seq(Packet) /\ <<>> \in Seq(Nat)
      /\ Len(air) = 0 /\ Len(rx) = 0
  BY DEF Init
<1>3. busy \in Nat /\ MaxFrames >= 0 /\ Depth >= 0
  BY SurveyAssumption DEF Init
<1>4. /\ value \in [Reads -> {None} \cup 0 .. CntMod - 1]
      /\ seen \in [Reads -> {None} \cup Sample]
  BY DEF Init
<1> QED
  BY <1>1, <1>2, <1>3, <1>4 DEF Init, Types, Places

(* The frame in front is one that the tracker can be given.                  *)
LEMMA HeadFrame ==
    ASSUME Types, FramesOrder, rx # <<>>, Head(rx).frame # 0
    PROVE  /\ Head(rx).frame \in 1 .. Len(air)
           /\ Decoded(Head(rx).frame) \in Frame
<1>1. Head(rx) = rx[1] /\ rx[1] \in Packet /\ 1 \in 1 .. Len(rx)
  BY TailMoves DEF Types
<1>2. rx[1].frame \in Nat
  BY <1>1 DEF Packet
<1>3. rx[1].frame <= Len(air)
  BY <1>1 DEF FramesOrder
<1>4. Head(rx).frame \in 1 .. Len(air)
  BY <1>1, <1>2, <1>3 DEF Types
<1> QED
  BY <1>4, DecodedType

(* Every step keeps the types.                                               *)
LEMMA TypesNext ==
    ASSUME Types, FramesOrder, [Next]_vars
    PROVE  Types'
<1>1. CASE Air
  <2>1. PICK e \in Sub :
               /\ air' = Append(air, e) /\ Len(air) < MaxFrames
               /\ busy' = busy + e.air
               /\ e.got => /\ Len(rx) < Depth
                           /\ rx' = Append(rx, [frame |-> Len(air) + 1, cmd |-> 0,
                                                value |-> None])
               /\ ~e.got => rx' = rx
               /\ UNCHANGED <<asked, pc, value, dropped, errors, tracker, fed, seen>>
    BY <1>1, AirSends
  <2>2. air' \in Seq(Sub) /\ Len(air') <= MaxFrames
    BY <2>1, SurveyAssumption DEF Types
  <2>3. busy' \in Nat
    <3>1. busy \in Nat /\ e.air \in Nat
      BY SurveyAssumption DEF Types, Sub
    <3> QED
      BY <2>1, <3>1
  <2>4. rx' \in Seq(Packet) /\ Len(rx') <= Depth
    <3>1. [frame |-> Len(air) + 1, cmd |-> 0, value |-> None] \in Packet
      BY DEF Packet, Types
    <3>2. rx \in Seq(Packet) /\ Len(rx) <= Depth /\ Depth \in Nat
      BY SurveyAssumption DEF Types
    <3>3. CASE e.got
      BY <2>1, <3>1, <3>2, <3>3, AppendKeeps
    <3>4. CASE ~e.got
      BY <2>1, <3>2, <3>4
    <3> QED
      BY <3>3, <3>4
  <2> QED
    BY <2>1, <2>2, <2>3, <2>4 DEF Types
<1>2. CASE Answer
  <2>1. PICK n \in {0} \cup Reads :
               /\ n \in asked /\ asked' = asked \ {n}
               /\ Len(rx) < Depth
               /\ rx' = Append(rx, [frame |-> 0, cmd |-> n, value |-> busy % CntMod])
               /\ seen' \in [Reads -> {None} \cup Sample]
               /\ busy % CntMod \in 0 .. CntMod - 1
               /\ UNCHANGED <<world, pc, value, dropped, errors, tracker, fed>>
    BY <1>2, AnswerSends
  <2>2. rx' \in Seq(Packet) /\ Len(rx') <= Depth
    <3>1. [frame |-> 0, cmd |-> n, value |-> busy % CntMod] \in Packet
      BY <2>1 DEF Packet
    <3> QED
      BY <2>1, <3>1, AppendKeeps, SurveyAssumption DEF Types
  <2> QED
    BY <2>1, <2>2 DEF Types, world
<1>3. ASSUME NEW n \in Reads, Ask(n)
      PROVE  Types'
  BY <1>3 DEF Ask, Types, Places, Reads, world
<1>4. ASSUME NEW n \in Reads, Wait(n)
      PROVE  Types'
  <2>1. /\ Head(rx) \in Packet /\ Tail(rx) \in Seq(Packet) /\ Len(Tail(rx)) <= Depth
    BY <1>4, TailMoves, SurveyAssumption DEF Types, Wait
  <2>2. value' \in [Reads -> {None} \cup 0 .. CntMod - 1]
    BY <1>4, <2>1 DEF Types, Wait, Packet
  <2>3. pc' \in Places
    BY <1>4 DEF Types, Wait, After, Places, Reads
  <2>4. dropped' \in Nat
    BY <1>4 DEF Types, Wait
  <2> QED
    BY <1>4, <2>1, <2>2, <2>3, <2>4 DEF Types, Wait, world
<1>5. ASSUME NEW n \in Reads, GiveUp(n)
      PROVE  Types'
  BY <1>5 DEF GiveUp, Types, Places, Reads, After, world
<1>6. CASE ReadPacket
  <2>1. /\ Head(rx) \in Packet /\ Tail(rx) \in Seq(Packet) /\ Len(Tail(rx)) <= Depth
    BY <1>6, TailMoves, SurveyAssumption DEF Types, ReadPacket
  <2>2. tracker' \in Tracker
    BY <1>6, HeadFrame, FeedCases DEF ReadPacket, Types
  <2>3. fed' \in Seq(Nat)
    <3>1. fed \in Seq(Nat) /\ Head(rx).frame \in Nat
      BY <2>1 DEF Types, Packet
    <3>2. fed' = Append(fed, Head(rx).frame) \/ fed' = fed
      BY <1>6 DEF ReadPacket
    <3> QED
      BY <3>1, <3>2
  <2> QED
    BY <1>6, <2>1, <2>2, <2>3 DEF ReadPacket, Types, world
<1>7. CASE ReadError
  <2>1. /\ Tail(rx) \in Seq(Packet) /\ Len(Tail(rx)) <= Depth
    BY <1>7, TailMoves, SurveyAssumption DEF Types, ReadError
  <2> QED
    BY <1>7, <2>1 DEF ReadError, Types, world
<1>8. CASE EndLoop
  <2>1. tracker' \in Tracker
    BY <1>8, CloseMoves DEF EndLoop, Types
  <2>2. pc' \in Places
    BY <1>8 DEF EndLoop, Places
  <2> QED
    BY <1>8, <2>1, <2>2 DEF EndLoop, Types, world
<1>9. CASE UNCHANGED vars
  BY <1>9 DEF vars, world, Types
<1> QED
  BY <1>1, <1>2, <1>3, <1>4, <1>5, <1>6, <1>7, <1>8, <1>9 DEF Next

-----------------------------------------------------------------------------
(* The air                                                                  *)

(* Only Air changes the air.                                                 *)
LEMMA AirStays ==
    ASSUME [Next]_vars, ~Air
    PROVE  air' = air /\ busy' = busy
  BY DEF Next, vars, world, Answer, Ask, Wait, GiveUp, ReadPacket, ReadError, EndLoop

(* What may follow comes after all that is on the air.                       *)
LEMMA FollowsAll ==
    ASSUME Types, AirOrder, NEW e \in Sub, Follows(e), NEW j \in 1 .. Len(air)
    PROVE  /\ air[j].at + air[j].air <= e.at
           /\ air[j].ppdu <= e.ppdu
           /\ air[j].ppdu = e.ppdu =>
                 /\ air[j].kind = e.kind /\ e.kind.ampdu
                 /\ Len(air) + 1 = j + 1 => e.at <= air[j].at + air[j].air + Slack
           /\ air[j].ppdu # e.ppdu /\ air[j].kind.addr = e.kind.addr =>
                 air[j].at + air[j].air + Slack < e.at
<1> DEFINE L == Len(air)
           a == air[j]
           z == air[L]
           over == z.at + z.air
<1>1. L \in 1 .. L /\ air # <<>> /\ j <= L
  BY DEF Types
<1>2. a \in Sub /\ z \in Sub
  BY <1>1 DEF Types
<1> DEFINE aAt == a.at
           aAir == a.air
           zAt == z.at
           zAir == z.air
           at == e.at
           aAddr == a.kind.addr
           zAddr == z.kind.addr
           addr == e.kind.addr
<1>3. /\ aAt \in Nat /\ aAir \in Nat /\ a.ppdu \in Nat
      /\ zAt \in Nat /\ zAir \in Nat /\ z.ppdu \in Nat
      /\ at \in Nat /\ e.ppdu \in Nat /\ Slack \in Nat /\ Gap \in Nat
      /\ Gap > Slack
  <2>1. /\ a.at \in Nat /\ a.air \in Airs /\ a.ppdu \in Nat
        /\ z.at \in Nat /\ z.air \in Airs /\ z.ppdu \in Nat
        /\ e.at \in Nat /\ e.ppdu \in Nat
    BY <1>2 DEF Sub
  <2> HIDE DEF a, z
  <2> QED
    BY <2>1, SurveyAssumption, AggregationAssumption
<1>4. \/ /\ z.kind.ampdu /\ e.kind = z.kind /\ e.ppdu = z.ppdu
         /\ zAt + zAir <= at /\ at <= zAt + zAir + Slack
      \/ /\ e.ppdu = z.ppdu + 1
         /\ \/ at = zAt + zAir /\ Free(addr, zAt + zAir)
            \/ at = zAt + zAir + Gap
  BY <1>1 DEF Follows
<1>9. Free(addr, zAt + zAir) /\ aAddr = addr => aAt + aAir + Gap <= zAt + zAir
  BY DEF Free, Types
<1>5. SUFFICES /\ aAt + aAir <= at /\ a.ppdu <= e.ppdu
               /\ a.ppdu = e.ppdu =>
                     /\ a.kind = e.kind /\ e.kind.ampdu
                     /\ L = j => at <= aAt + aAir + Slack
               /\ a.ppdu # e.ppdu /\ aAddr = addr => aAt + aAir + Slack < at
  BY <1>1
<1>6. CASE j = L
  <2>1. a = z
    BY <1>6
  <2>2. aAt = zAt /\ aAir = zAir /\ aAddr = zAddr
    BY <2>1
  <2> HIDE DEF a, z, L, aAt, aAir, zAt, zAir, at, aAddr, zAddr, addr
  <2>3. CASE e.ppdu = z.ppdu + 1
    <3>1. a.ppdu # e.ppdu /\ a.ppdu <= e.ppdu
      BY <1>3, <2>1, <2>3
    <3>2. aAt + aAir <= at /\ (aAddr = addr => aAt + aAir + Slack < at)
      BY <1>3, <1>4, <1>9, <2>2, <2>3
    <3> QED
      BY <3>1, <3>2
  <2>4. CASE z.kind.ampdu /\ e.kind = z.kind /\ e.ppdu = z.ppdu
    <3>1. aAt + aAir <= at /\ at <= aAt + aAir + Slack
      BY <1>3, <1>4, <2>2, <2>4
    <3> QED
      BY <1>3, <2>1, <2>4, <3>1
  <2> QED
    BY <1>4, <2>3, <2>4
<1>7. CASE j # L
  <2>1. j \in 1 .. L - 1
    BY <1>1, <1>7
  <2>2. Before(j, L)
    BY <1>1, <2>1 DEF AirOrder
  <2>3. /\ aAt + aAir <= zAt /\ a.ppdu <= z.ppdu
        /\ a.ppdu = z.ppdu => a.kind = z.kind /\ z.kind.ampdu
        /\ a.ppdu # z.ppdu /\ aAddr = zAddr => aAt + aAir + Slack < zAt
    BY <2>2 DEF Before
  <2>4. e.kind = z.kind => addr = zAddr
    OBVIOUS
  <2> HIDE DEF a, z, L, aAt, aAir, zAt, zAir, at, aAddr, zAddr, addr
  <2>5. CASE z.kind.ampdu /\ e.kind = z.kind /\ e.ppdu = z.ppdu
    <3>1. zAt + zAir <= at
      BY <1>3, <1>4, <2>5
    <3>2. aAt + aAir <= at /\ (aAt + aAir + Slack < zAt => aAt + aAir + Slack < at)
      BY <1>3, <2>3, <3>1
    <3> QED
      BY <1>7, <2>3, <2>4, <2>5, <3>2
  <2>6. CASE /\ e.ppdu = z.ppdu + 1
             /\ \/ at = zAt + zAir /\ Free(addr, zAt + zAir)
                \/ at = zAt + zAir + Gap
    <3>1. a.ppdu <= e.ppdu /\ a.ppdu # e.ppdu
      BY <1>3, <2>3, <2>6
    <3>2. aAt + aAir <= at /\ (aAddr = addr => aAt + aAir + Slack < at)
      BY <1>3, <1>9, <2>3, <2>6
    <3> QED
      BY <1>7, <3>1, <3>2
  <2> QED
    BY <1>4, <2>5, <2>6
<1> QED
  BY <1>6, <1>7

(* Every step keeps the order of the air.                                    *)
LEMMA AirOrderNext ==
    ASSUME Types, AirOrder, [Next]_vars
    PROVE  AirOrder'
<1>1. CASE Air
  <2>1. PICK e \in Sub : air' = Append(air, e) /\ Follows(e)
    BY <1>1, AirSends
  <2>2. air \in Seq(Sub) /\ Len(air) \in Nat
    BY DEF Types
  <2>3. /\ Len(air') = Len(air) + 1 /\ air'[Len(air) + 1] = e
        /\ \A k \in 1 .. Len(air) : air'[k] = air[k]
    BY <2>1, <2>2, AppendKeeps
  <2>4. ASSUME NEW i \in 1 .. Len(air'), NEW j \in 1 .. i - 1
        PROVE  Before(j, i)'
    <3>1. j \in 1 .. Len(air) /\ air'[j] = air[j]
      BY <2>2, <2>3
    <3>2. CASE i = Len(air) + 1
      <4>1. air'[i] = e
        BY <2>3, <3>2
      <4> QED
        BY <2>1, <3>1, <3>2, <4>1, FollowsAll DEF Before
    <3>3. CASE i # Len(air) + 1
      <4>1. i \in 1 .. Len(air) /\ air'[i] = air[i]
        BY <2>2, <2>3, <3>3
      <4> QED
        BY <3>1, <4>1 DEF AirOrder, Before
    <3> QED
      BY <3>2, <3>3
  <2> QED
    BY <2>4 DEF AirOrder
<1>2. CASE ~Air
  BY <1>2, AirStays DEF AirOrder, Before
<1> QED
  BY <1>1, <1>2

(* L steps of at most x and one of d are L + 1 steps of at most y.           *)
LEMMA OneMore ==
    ASSUME NEW L \in Nat, NEW x \in Nat, NEW d \in Nat, NEW y \in Nat, x <= y, d <= y
    PROVE  (L * x) + d <= (L + 1) * y /\ L * x <= (L + 1) * y
           /\ L * x \in Nat /\ (L + 1) * y \in Nat
<1>1. L * x \in Nat /\ L * y \in Nat /\ (L + 1) * y \in Nat
  BY SMT
<1>2. (L + 1) * y = (L * y) + y
  BY SMT
<1>3. L * x <= L * y
  <2>1. y - x \in Nat /\ L * (y - x) \in Nat
    BY SMT
  <2>2. L * y = (L * x) + (L * (y - x))
    BY SMT
  <2> QED
    BY <1>1, <2>1, <2>2
<1> QED
  BY <1>1, <1>2, <1>3

(* The greater of two airtimes.                                              *)
LEMMA Greater ==
    ASSUME NEW m \in {0} \cup Airs, NEW d \in {0} \cup Airs
    PROVE  \E y \in {0} \cup Airs : m <= y /\ d <= y /\ m \in Nat /\ d \in Nat /\ y \in Nat
<1>1. m \in Nat /\ d \in Nat
  BY SurveyAssumption
<1>2. m <= d \/ d <= m
  BY <1>1
<1> QED
  BY <1>1, <1>2

(* Every step keeps the time between two subframes below a cycle.            *)
LEMMA AirSpanNext ==
    ASSUME Types, AirSpan, [Next]_vars
    PROVE  AirSpan'
<1>1. CASE Air
  <2>1. PICK e \in Sub : air' = Append(air, e) /\ Follows(e)
    BY <1>1, AirSends
  <2>2. air \in Seq(Sub) /\ Len(air) \in Nat
    BY DEF Types
  <2>3. /\ Len(air') = Len(air) + 1 /\ air'[Len(air) + 1] = e
        /\ \A k \in 1 .. Len(air) : air'[k] = air[k] /\ air[k] \in Sub
    BY <2>1, <2>2, AppendKeeps
  <2>4. PICK m \in {0} \cup Airs :
            \A i \in 1 .. Len(air) : \A j \in 1 .. i :
                air[i].at - air[j].at <= Len(air) * (m + Gap)
    BY DEF AirSpan
  <2>5. e.at \in Nat /\ Gap \in Nat /\ Slack \in Nat
    BY SurveyAssumption, AggregationAssumption DEF Sub
  <2>6. CASE air = <<>>
    <3>1. ASSUME NEW i \in 1 .. Len(air'), NEW j \in 1 .. i
          PROVE  air'[i].at - air'[j].at <= Len(air') * (0 + Gap)
      <4>1. Len(air) = 0 /\ i = 1 /\ j = 1
        BY <2>3, <2>6
      <4>2. air'[i].at - air'[j].at = 0 /\ Len(air') = 1
        BY <2>3, <2>5, <4>1
      <4> QED
        BY <2>5, <4>2
    <3> QED
      BY <3>1 DEF AirSpan
  <2>7. CASE air # <<>>
    <3> DEFINE L == Len(air)
               z == air[L]
    <3>1. L \in 1 .. L /\ z \in Sub
      BY <2>2, <2>3, <2>7
    <3>2. /\ z.air \in {0} \cup Airs /\ z.air \in Nat /\ z.at \in Nat
          /\ Gap > Slack
      BY <3>1, SurveyAssumption DEF Sub
    <3>3. PICK y \in {0} \cup Airs : /\ m <= y /\ z.air <= y
                                     /\ m \in Nat /\ y \in Nat
      BY <3>2, Greater
    <3>4. e.at <= z.at + (z.air + Gap)
      <4>1. \/ e.at <= z.at + z.air + Slack
            \/ e.at = z.at + z.air + Gap
            \/ e.at = z.at + z.air
        BY <2>1, <2>7 DEF Follows
      <4> HIDE DEF z
      <4> QED
        BY <2>5, <3>2, <4>1
    <3>5. /\ (L * (m + Gap)) + (z.air + Gap) <= (L + 1) * (y + Gap)
          /\ L * (m + Gap) <= (L + 1) * (y + Gap)
          /\ L * (m + Gap) \in Nat /\ (L + 1) * (y + Gap) \in Nat
      <4>1. /\ m + Gap \in Nat /\ z.air + Gap \in Nat /\ y + Gap \in Nat /\ L \in Nat
            /\ m + Gap <= y + Gap /\ z.air + Gap <= y + Gap
        <5> DEFINE za == z.air
        <5>1. za \in Nat /\ za <= y /\ L \in Nat
          BY <2>2, <3>2, <3>3
        <5> HIDE DEF za, z, L
        <5>2. /\ m + Gap \in Nat /\ za + Gap \in Nat /\ y + Gap \in Nat
              /\ m + Gap <= y + Gap /\ za + Gap <= y + Gap
          BY <2>5, <3>3, <5>1
        <5> QED
          BY <5>1, <5>2 DEF za
      <4> HIDE DEF z, L
      <4> QED
        BY <4>1, OneMore
    <3> DEFINE B == L * (m + Gap)
               C == (L + 1) * (y + Gap)
    <3>6. ASSUME NEW i \in 1 .. Len(air'), NEW j \in 1 .. i
          PROVE  air'[i].at - air'[j].at <= Len(air') * (y + Gap)
      <4>1. i \in 1 .. L \/ i = L + 1
        BY <2>2, <2>3
      <4>2. Len(air') * (y + Gap) = C
        BY <2>3
      <4>3. CASE i \in 1 .. L
        <5>1. j \in 1 .. L /\ air[i].at - air[j].at <= B
          BY <2>4, <4>3
        <5>2. /\ air'[i] = air[i] /\ air'[j] = air[j]
              /\ air[i].at \in Nat /\ air[j].at \in Nat
          BY <2>3, <4>3, <5>1 DEF Sub
        <5> HIDE DEF B, C
        <5>3. air[i].at - air[j].at <= C
          BY <3>5, <5>1, <5>2 DEF B, C
        <5> QED
          BY <4>2, <5>2, <5>3
      <4>4. CASE i = L + 1 /\ j = L + 1
        <5>1. air'[i].at - air'[j].at = 0
          BY <2>3, <2>5, <4>4
        <5> HIDE DEF C
        <5> QED
          BY <3>5, <4>2, <5>1 DEF C
      <4>5. CASE i = L + 1 /\ j \in 1 .. L
        <5>1. z.at - air[j].at <= B
          BY <2>4, <3>1, <4>5
        <5>2. air'[i] = e /\ air'[j] = air[j] /\ air[j].at \in Nat
          BY <2>3, <4>5 DEF Sub
        <5> DEFINE aj == air[j].at
                   ea == e.at
                   za == z.air
                   zt == z.at
        <5>3. /\ zt - aj <= B /\ aj \in Nat /\ ea \in Nat /\ za \in Nat /\ zt \in Nat
              /\ ea <= zt + (za + Gap) /\ B \in Nat /\ C \in Nat /\ B + (za + Gap) <= C
          BY <2>5, <3>2, <3>4, <3>5, <5>1, <5>2
        <5> HIDE DEF B, C, z, aj, ea, za, zt
        <5>4. ea - aj <= C
          BY <2>5, <5>3
        <5> QED
          BY <4>2, <5>2, <5>4 DEF ea, aj
      <4> QED
        BY <4>1, <4>3, <4>4, <4>5, <2>2
    <3> HIDE DEF B, C, L, z
    <3> QED
      BY <3>3, <3>6 DEF AirSpan
  <2> QED
    BY <2>6, <2>7
<1>2. CASE ~Air
  BY <1>2, AirStays DEF AirSpan
<1> QED
  BY <1>1, <1>2

(* Samples change only when the firmware answers.                            *)
LEMMA SeenStays ==
    ASSUME [Next]_vars, ~Answer
    PROVE  seen' = seen
  BY DEF Next, vars, world, Air, Send, Ask, Wait, GiveUp, ReadPacket, ReadError, EndLoop

(* Every step keeps the busy time between two samples below a cycle.         *)
LEMMA BusySpanNext ==
    ASSUME Types, BusySpan, [Next]_vars
    PROVE  BusySpan'
<1>1. PICK m \in {0} \cup Airs, b \in 0 .. busy :
          /\ busy - b <= Len(air) * m
          /\ \A n \in Reads : seen[n] # None => seen[n].busy \in b .. busy
  BY DEF BusySpan
<1>2. busy \in Nat /\ b \in Nat /\ Len(air) \in Nat /\ air \in Seq(Sub)
  BY DEF Types
<1>3. CASE Air
  <2>1. PICK e \in Sub : air' = Append(air, e) /\ busy' = busy + e.air /\ seen' = seen
    BY <1>3, AirSends
  <2>2. Len(air') = Len(air) + 1
    BY <1>2, <2>1, AppendKeeps
  <2>3. e.air \in {0} \cup Airs /\ e.air \in Nat
    BY SurveyAssumption DEF Sub
  <2>4. PICK y \in {0} \cup Airs : m <= y /\ e.air <= y /\ m \in Nat /\ y \in Nat
    BY <2>3, Greater
  <2>5. /\ (Len(air) * m) + e.air <= (Len(air) + 1) * y
        /\ Len(air) * m \in Nat /\ (Len(air) + 1) * y \in Nat
    BY <1>2, <2>3, <2>4, OneMore
  <2>6. busy' - b <= Len(air') * y /\ b \in 0 .. busy'
    <3> DEFINE B == Len(air) * m
               C == (Len(air) + 1) * y
    <3>1. B \in Nat /\ C \in Nat /\ B + e.air <= C /\ busy - b <= B
      BY <1>1, <2>5
    <3>2. Len(air') * y = C
      BY <2>2
    <3> HIDE DEF B, C
    <3> QED
      BY <1>2, <2>1, <2>3, <3>1, <3>2
  <2>7. ASSUME NEW n \in Reads, seen'[n] # None
        PROVE  seen'[n].busy \in b .. busy'
    <3>1. seen[n].busy \in b .. busy /\ seen'[n] = seen[n]
      BY <1>1, <2>1, <2>7
    <3> QED
      BY <1>2, <2>1, <2>3, <3>1
  <2> QED
    BY <2>6, <2>7, <2>4 DEF BusySpan
<1>4. CASE Answer
  <2>1. PICK n \in {0} \cup Reads :
            /\ \A i \in Reads : seen'[i] = IF i = n
                                           THEN [frames |-> Len(air), busy |-> busy]
                                           ELSE seen[i]
            /\ UNCHANGED world
    BY <1>4, AnswerSends
  <2>2. \A i \in Reads : seen'[i] # None => seen'[i].busy \in b .. busy
    BY <1>1, <1>2, <2>1
  <2> QED
    BY <1>1, <2>1, <2>2 DEF BusySpan, world
<1>5. CASE ~Air /\ ~Answer
  BY <1>1, <1>5, AirStays, SeenStays DEF BusySpan
<1> QED
  BY <1>3, <1>4, <1>5

-----------------------------------------------------------------------------
(* The queue                                                                *)

(* What Air does, position by position.                                      *)
LEMMA AirEffect ==
    ASSUME Types, Air
    PROVE  /\ Len(air') = Len(air) + 1 /\ Len(air) \in Nat
           /\ \A k \in 1 .. Len(air) : air'[k] = air[k]
           /\ \/ /\ Len(rx') = Len(rx) + 1
                 /\ rx'[Len(rx) + 1] = [frame |-> Len(air) + 1, cmd |-> 0, value |-> None]
                 /\ air'[Len(air) + 1].got
                 /\ \A k \in 1 .. Len(rx) : rx'[k] = rx[k]
              \/ rx' = rx /\ ~air'[Len(air) + 1].got
           /\ UNCHANGED <<asked, pc, value, dropped, errors, tracker, fed, seen>>
<1>1. PICK e \in Sub :
               /\ air' = Append(air, e)
               /\ e.got => rx' = Append(rx, [frame |-> Len(air) + 1, cmd |-> 0,
                                             value |-> None])
               /\ ~e.got => rx' = rx
               /\ UNCHANGED <<asked, pc, value, dropped, errors, tracker, fed, seen>>
  BY AirSends
<1>2. air \in Seq(Sub) /\ Len(air) \in Nat /\ rx \in Seq(Packet)
  BY DEF Types
<1>3. /\ Len(air') = Len(air) + 1 /\ air'[Len(air) + 1] = e
      /\ \A k \in 1 .. Len(air) : air'[k] = air[k]
  BY <1>1, <1>2, AppendKeeps
<1>4. CASE e.got
  <2>1. [frame |-> Len(air) + 1, cmd |-> 0, value |-> None] \in Packet
    BY <1>2 DEF Packet
  <2>2. /\ Len(rx') = Len(rx) + 1
        /\ rx'[Len(rx) + 1] = [frame |-> Len(air) + 1, cmd |-> 0, value |-> None]
        /\ \A k \in 1 .. Len(rx) : rx'[k] = rx[k]
    BY <1>1, <1>2, <1>4, <2>1, AppendKeeps
  <2> QED
    BY <1>1, <1>2, <1>3, <1>4, <2>2
<1>5. CASE ~e.got
  BY <1>1, <1>2, <1>3, <1>5
<1> QED
  BY <1>4, <1>5

(* What Answer does, position by position.                                   *)
LEMMA AnswerEffect ==
    ASSUME Types, Answer
    PROVE  \E n \in {0} \cup Reads :
               /\ n \in asked /\ asked' = asked \ {n}
               /\ Len(rx') = Len(rx) + 1
               /\ rx'[Len(rx) + 1] = [frame |-> 0, cmd |-> n, value |-> busy % CntMod]
               /\ \A k \in 1 .. Len(rx) : rx'[k] = rx[k]
               /\ \A i \in Reads : seen'[i] = IF i = n
                                              THEN [frames |-> Len(air), busy |-> busy]
                                              ELSE seen[i]
               /\ UNCHANGED <<air, busy, pc, value, dropped, errors, tracker, fed>>
<1>1. PICK n \in {0} \cup Reads :
               /\ n \in asked /\ asked' = asked \ {n}
               /\ rx' = Append(rx, [frame |-> 0, cmd |-> n, value |-> busy % CntMod])
               /\ \A i \in Reads : seen'[i] = IF i = n
                                              THEN [frames |-> Len(air), busy |-> busy]
                                              ELSE seen[i]
               /\ busy % CntMod \in 0 .. CntMod - 1
               /\ UNCHANGED <<world, pc, value, dropped, errors, tracker, fed>>
  BY AnswerSends
<1>2. [frame |-> 0, cmd |-> n, value |-> busy % CntMod] \in Packet
  BY <1>1 DEF Packet
<1>3. rx \in Seq(Packet)
  BY DEF Types
<1>4. /\ Len(rx') = Len(rx) + 1
      /\ rx'[Len(rx) + 1] = [frame |-> 0, cmd |-> n, value |-> busy % CntMod]
      /\ \A k \in 1 .. Len(rx) : rx'[k] = rx[k]
  BY <1>1, <1>2, <1>3, AppendKeeps
<1> QED
  BY <1>1, <1>4 DEF world

(* The steps that take the packet in front.                                  *)
Takes == (\E n \in Reads : Wait(n)) \/ ReadPacket \/ ReadError

(* What they do, position by position.                                       *)
LEMMA TakeEffect ==
    ASSUME Types, Takes
    PROVE  /\ rx # <<>> /\ Len(rx) \in Nat \ {0} /\ Head(rx) = rx[1] /\ rx[1] \in Packet
           /\ rx' = Tail(rx) /\ Len(rx') = Len(rx) - 1
           /\ \A k \in 1 .. Len(rx') : k + 1 \in 1 .. Len(rx) /\ rx'[k] = rx[k + 1]
           /\ UNCHANGED <<air, busy, asked, seen>>
<1>1. rx # <<>> /\ rx' = Tail(rx) /\ UNCHANGED <<air, busy, asked, seen>>
  BY DEF Takes, Wait, ReadPacket, ReadError, world
<1>2. rx \in Seq(Packet)
  BY DEF Types
<1> QED
  BY <1>1, <1>2, TailMoves

(* The others leave the queue, the air and the samples alone.                *)
LEMMA OtherEffect ==
    ASSUME [Next]_vars, ~Air, ~Answer, ~Takes
    PROVE  UNCHANGED <<air, busy, rx, seen, value, fed, errors>>
  BY DEF Next, vars, world, Takes, Ask, GiveUp, EndLoop

(* A read that the firmware has not been asked for stays so until Ask.       *)
LEMMA UnaskedNext ==
    ASSUME Types, [Next]_vars, NEW n \in Reads, Unasked(n), ~Ask(n)
    PROVE  Unasked(n)'
<1>1. /\ n \notin asked /\ seen[n] = None /\ value[n] = None
      /\ \A k \in 1 .. Len(rx) : rx[k].cmd # n
  BY DEF Unasked
<1>2. Len(rx) \in Nat /\ n # 0
  BY DEF Types, Reads
<1>3. CASE Air
  <2>1. \A k \in 1 .. Len(rx') : rx'[k].cmd # n
    <3>1. ASSUME NEW k \in 1 .. Len(rx')
          PROVE  rx'[k].cmd # n
      BY <1>1, <1>2, <1>3, AirEffect
    <3> QED
      BY <3>1
  <2> QED
    BY <1>1, <1>3, <2>1, AirEffect DEF Unasked
<1>4. CASE Answer
  <2>1. PICK i \in {0} \cup Reads :
               /\ i \in asked /\ asked' = asked \ {i}
               /\ Len(rx') = Len(rx) + 1
               /\ rx'[Len(rx) + 1] = [frame |-> 0, cmd |-> i, value |-> busy % CntMod]
               /\ \A k \in 1 .. Len(rx) : rx'[k] = rx[k]
               /\ \A r \in Reads : seen'[r] = IF r = i
                                              THEN [frames |-> Len(air), busy |-> busy]
                                              ELSE seen[r]
               /\ UNCHANGED <<air, busy, pc, value, dropped, errors, tracker, fed>>
    BY <1>4, AnswerEffect
  <2>2. i # n
    BY <1>1, <2>1
  <2>3. \A k \in 1 .. Len(rx') : rx'[k].cmd # n
    <3>1. ASSUME NEW k \in 1 .. Len(rx')
          PROVE  rx'[k].cmd # n
      <4>1. k \in 1 .. Len(rx) \/ k = Len(rx) + 1
        BY <1>2, <2>1
      <4> QED
        BY <1>1, <2>1, <2>2, <4>1
    <3> QED
      BY <3>1
  <2> QED
    BY <1>1, <2>1, <2>2, <2>3 DEF Unasked
<1>5. CASE Takes
  <2>1. \A k \in 1 .. Len(rx') : rx'[k].cmd # n
    BY <1>1, <1>5, TakeEffect
  <2>2. value'[n] = None
    <3>1. Head(rx).cmd # n
      BY <1>1, <1>2, <1>5, TakeEffect
    <3> QED
      BY <1>1, <1>5, <3>1 DEF Takes, Wait, ReadPacket, ReadError, Types
  <2> QED
    BY <1>1, <1>5, <2>1, <2>2, TakeEffect DEF Unasked
<1>6. CASE ~Air /\ ~Answer /\ ~Takes
  <2>1. UNCHANGED <<rx, seen, value>>
    BY <1>6, OtherEffect
  <2>2. n \notin asked'
    BY <1>1, <1>6 DEF Next, vars, Takes, Ask, GiveUp, EndLoop
  <2> QED
    BY <1>1, <2>1, <2>2 DEF Unasked
<1> QED
  BY <1>3, <1>4, <1>5, <1>6

(* Where dwell goes, and what it makes known on the way.                     *)
LEMMA PcMoves ==
    ASSUME Types, [Next]_vars
    PROVE  \/ /\ pc' = pc /\ value' = value
              /\ fed' = fed \/ pc = <<"loop", 0>>
           \/ \E n \in Reads :
                 /\ Ask(n) /\ pc = <<"ask", n>> /\ pc' = <<"wait", n>>
                 /\ value' = value /\ fed' = fed
           \/ \E n \in Reads :
                 /\ pc = <<"wait", n>> /\ pc' = After(n) /\ fed' = fed
                 /\ \A i \in Reads \ {n} : value'[i] = value[i]
           \/ /\ pc = <<"loop", 0>> /\ pc' = <<"ask", 2>>
              /\ value' = value /\ fed' = fed
<1>1. CASE Air
  BY <1>1, AirEffect
<1>2. CASE Answer
  BY <1>2 DEF Answer
<1>3. CASE \E n \in Reads : Ask(n)
  BY <1>3 DEF Ask
<1>4. ASSUME NEW n \in Reads, Wait(n)
      PROVE  \/ pc' = pc /\ value' = value /\ fed' = fed
             \/ /\ pc = <<"wait", n>> /\ pc' = After(n) /\ fed' = fed
                /\ \A i \in Reads \ {n} : value'[i] = value[i]
  BY <1>4 DEF Wait, Types
<1>5. CASE \E n \in Reads : GiveUp(n)
  BY <1>5 DEF GiveUp
<1>6. CASE ReadPacket
  BY <1>6 DEF ReadPacket
<1>7. CASE ReadError
  BY <1>7 DEF ReadError
<1>8. CASE EndLoop
  BY <1>8 DEF EndLoop
<1>9. CASE UNCHANGED vars
  BY <1>9 DEF vars
<1> QED
  BY <1>1, <1>2, <1>3, <1>4, <1>5, <1>6, <1>7, <1>8, <1>9 DEF Next

(* Every step keeps what is known by the place in dwell.                     *)
LEMMA StepsNext ==
    ASSUME Types, Steps, [Next]_vars
    PROVE  Steps'
<1> DEFINE Early == {<<"ask", 1>>, <<"wait", 1>>, <<"loop", 0>>, <<"ask", 2>>}
<1>1. CASE /\ pc' = pc /\ value' = value
           /\ fed' = fed \/ pc = <<"loop", 0>>
  <2>1. \A n \in Reads : ~Ask(n)
    BY <1>1 DEF Ask
  <2>2. pc' = <<"ask", 1>> => Unasked(1)'
    BY <1>1, <2>1, UnaskedNext DEF Steps, Reads
  <2>3. pc' \in Early => Unasked(2)'
    BY <1>1, <2>1, UnaskedNext DEF Steps, Reads
  <2> QED
    BY <1>1, <2>2, <2>3 DEF Steps
<1>2. ASSUME NEW n \in Reads, Ask(n), pc = <<"ask", n>>, pc' = <<"wait", n>>,
             value' = value, fed' = fed
      PROVE  Steps'
  <2>1. CASE n = 1
    <3>1. Unasked(1) /\ Unasked(2) /\ fed = <<>> /\ ~Ask(2)
      BY <1>2, <2>1 DEF Steps, Ask
    <3>2. Unasked(2)'
      BY <3>1, UnaskedNext DEF Reads
    <3> QED
      BY <1>2, <2>1, <3>1, <3>2 DEF Steps, Unasked
  <2>2. CASE n = 2
    <3>1. value[2] = None
      BY <1>2, <2>2 DEF Steps, Unasked
    <3> QED
      BY <1>2, <2>2, <3>1 DEF Steps
  <2> QED
    BY <2>1, <2>2 DEF Reads
<1>3. ASSUME NEW n \in Reads, pc = <<"wait", n>>, pc' = After(n), fed' = fed,
             \A i \in Reads \ {n} : value'[i] = value[i]
      PROVE  Steps'
  <2>1. CASE n = 1
    <3>1. pc' = <<"loop", 0>> /\ Unasked(2) /\ ~Ask(2)
      BY <1>3, <2>1 DEF After, Steps, Ask
    <3>2. Unasked(2)'
      BY <3>1, UnaskedNext DEF Reads
    <3> QED
      BY <3>1, <3>2 DEF Steps
  <2>2. CASE n = 2
    <3>1. pc' = <<"done", 0>>
      BY <1>3, <2>2 DEF After
    <3> QED
      BY <3>1 DEF Steps
  <2> QED
    BY <2>1, <2>2 DEF Reads
<1>4. CASE /\ pc = <<"loop", 0>> /\ pc' = <<"ask", 2>>
           /\ value' = value /\ fed' = fed
  <2>1. Unasked(2) /\ ~Ask(2)
    BY <1>4 DEF Steps, Ask
  <2>2. Unasked(2)'
    BY <2>1, UnaskedNext DEF Reads
  <2> QED
    BY <1>4, <2>2 DEF Steps
<1> QED
  BY <1>1, <1>2, <1>3, <1>4, PcMoves

(* The frames billed grow only by the one in front of the queue.             *)
LEMMA FedEffect ==
    ASSUME Types, Takes
    PROVE  \/ fed' = fed
           \/ /\ rx[1].frame # 0 /\ rx[1].frame \in Nat /\ pc = <<"loop", 0>>
              /\ Len(fed') = Len(fed) + 1 /\ Len(fed) \in Nat
              /\ fed'[Len(fed) + 1] = rx[1].frame
              /\ \A i \in 1 .. Len(fed) : fed'[i] = fed[i]
<1>1. Head(rx) = rx[1] /\ rx[1].frame \in Nat
  BY TakeEffect DEF Packet
<1>2. \/ fed' = fed
      \/ fed' = Append(fed, rx[1].frame) /\ rx[1].frame # 0 /\ pc = <<"loop", 0>>
  BY <1>1 DEF Takes, Wait, ReadPacket, ReadError
<1>3. fed \in Seq(Nat)
  BY DEF Types
<1> QED
  BY <1>1, <1>2, <1>3, AppendKeeps

(* Every step keeps the frames in the order of the air.                      *)
LEMMA FramesOrderNext ==
    ASSUME Types, FramesOrder, [Next]_vars
    PROVE  FramesOrder'
<1>0. Len(air) \in Nat /\ Len(rx) \in Nat /\ Len(fed) \in Nat
  BY DEF Types
<1> DEFINE Queued(k) ==
               /\ rx[k].cmd = 0
               /\ rx[k].frame <= Len(air) /\ air[rx[k].frame].got
               /\ \A j \in 1 .. k - 1 : rx[j].frame < rx[k].frame
               /\ \A i \in 1 .. Len(fed) : fed[i] < rx[k].frame
           Billed(i) ==
               /\ fed[i] \in 1 .. Len(air) /\ air[fed[i]].got
               /\ \A h \in 1 .. i - 1 : fed[h] < fed[i]
<1>1. /\ \A k \in 1 .. Len(rx) : rx[k].frame # 0 => Queued(k)
      /\ \A i \in 1 .. Len(fed) : Billed(i)
  BY DEF FramesOrder
<1>2. \A k \in 1 .. Len(rx) : rx[k].frame \in Nat
  <2>1. \A k \in 1 .. Len(rx) : rx[k] \in Packet
    BY DEF Types
  <2> QED
    BY <2>1 DEF Packet
<1>3. SUFFICES /\ \A k \in 1 .. Len(rx') : rx'[k].frame # 0 => Queued(k)'
               /\ \A i \in 1 .. Len(fed') : Billed(i)'
  BY DEF FramesOrder
<1>4. CASE Air
  <2>1. /\ Len(air') = Len(air) + 1 /\ fed' = fed
        /\ \A k \in 1 .. Len(air) : air'[k] = air[k]
    BY <1>4, AirEffect
  <2>2. ASSUME NEW i \in 1 .. Len(fed')
        PROVE  Billed(i)'
    BY <1>0, <1>1, <2>1
  <2>3. ASSUME NEW k \in 1 .. Len(rx), rx[k].frame # 0, rx'[k] = rx[k],
               \A j \in 1 .. k - 1 : rx'[j] = rx[j]
        PROVE  Queued(k)'
    <3>1. Queued(k) /\ rx[k].frame \in 1 .. Len(air)
      BY <1>0, <1>1, <1>2, <2>3
    <3> QED
      BY <1>0, <2>1, <2>3, <3>1
  <2>4. CASE rx' = rx
    <3>1. ASSUME NEW k \in 1 .. Len(rx'), rx'[k].frame # 0
          PROVE  Queued(k)'
      <4>1. k \in 1 .. Len(rx) /\ rx[k].frame # 0
        BY <2>4, <3>1
      <4> HIDE DEF Queued
      <4> QED
        BY <2>3, <2>4, <4>1
    <3> QED
      BY <2>2, <3>1
  <2>5. CASE /\ Len(rx') = Len(rx) + 1
             /\ rx'[Len(rx) + 1] = [frame |-> Len(air) + 1, cmd |-> 0, value |-> None]
             /\ air'[Len(air) + 1].got
             /\ \A k \in 1 .. Len(rx) : rx'[k] = rx[k]
    <3>1. ASSUME NEW k \in 1 .. Len(rx'), rx'[k].frame # 0
          PROVE  Queued(k)'
      <4>1. CASE k \in 1 .. Len(rx)
        <5>1. rx'[k] = rx[k] /\ rx[k].frame # 0 /\ \A j \in 1 .. k - 1 : rx'[j] = rx[j]
          BY <1>0, <2>5, <3>1, <4>1
        <5> HIDE DEF Queued
        <5> QED
          BY <2>3, <4>1, <5>1
      <4>2. CASE k = Len(rx) + 1
        <5>1. rx'[k].frame = Len(air) + 1 /\ rx'[k].cmd = 0
          BY <2>5, <4>2
        <5>2. ASSUME NEW j \in 1 .. k - 1
              PROVE  rx'[j].frame < rx'[k].frame
          <6>1. j \in 1 .. Len(rx) /\ rx'[j] = rx[j] /\ rx[j].frame \in Nat
            BY <1>0, <1>2, <2>5, <4>2
          <6>2. rx[j].frame = 0 \/ rx[j].frame <= Len(air)
            BY <1>1, <6>1
          <6> QED
            BY <1>0, <5>1, <6>1, <6>2
        <5>3. \A i \in 1 .. Len(fed') : fed'[i] < rx'[k].frame
          BY <1>0, <1>1, <2>1, <5>1
        <5> QED
          BY <1>0, <2>1, <2>5, <5>1, <5>2, <5>3
      <4> QED
        BY <1>0, <2>5, <4>1, <4>2
    <3> QED
      BY <2>2, <3>1
  <2> QED
    BY <1>4, <2>4, <2>5, AirEffect
<1>5. CASE Answer
  <2>1. PICK n \in {0} \cup Reads :
               /\ Len(rx') = Len(rx) + 1
               /\ rx'[Len(rx) + 1] = [frame |-> 0, cmd |-> n, value |-> busy % CntMod]
               /\ \A k \in 1 .. Len(rx) : rx'[k] = rx[k]
               /\ air' = air /\ fed' = fed
    BY <1>5, AnswerEffect
  <2>2. ASSUME NEW k \in 1 .. Len(rx'), rx'[k].frame # 0
        PROVE  Queued(k)'
    <3>1. k \in 1 .. Len(rx)
      <4>1. k = Len(rx) + 1 => rx'[k].frame = 0
        BY <2>1
      <4> QED
        BY <1>0, <2>1, <2>2, <4>1
    <3>2. rx'[k] = rx[k] /\ \A j \in 1 .. k - 1 : rx'[j] = rx[j]
      BY <1>0, <2>1, <3>1
    <3>3. Queued(k)
      BY <1>1, <2>2, <3>1, <3>2
    <3> QED
      BY <1>0, <2>1, <3>2, <3>3
  <2> QED
    BY <1>1, <2>1, <2>2
<1>6. CASE Takes
  <2>1. /\ Len(rx) \in Nat \ {0} /\ rx[1] \in Packet
        /\ Len(rx') = Len(rx) - 1 /\ air' = air
        /\ \A k \in 1 .. Len(rx') : k + 1 \in 1 .. Len(rx) /\ rx'[k] = rx[k + 1]
    BY <1>6, TakeEffect
  <2>2. ASSUME NEW k \in 1 .. Len(rx'), rx'[k].frame # 0
        PROVE  /\ rx'[k].cmd = 0
               /\ rx'[k].frame <= Len(air') /\ air'[rx'[k].frame].got
               /\ \A j \in 1 .. k - 1 : rx'[j].frame < rx'[k].frame
               /\ \A i \in 1 .. Len(fed) : fed[i] < rx'[k].frame
               /\ rx[1].frame < rx'[k].frame
    <3>1. k + 1 \in 1 .. Len(rx) /\ rx'[k] = rx[k + 1] /\ Queued(k + 1)
      BY <1>1, <2>1, <2>2
    <3>2. ASSUME NEW j \in 1 .. k - 1
          PROVE  rx'[j].frame < rx'[k].frame
      <4>1. j + 1 \in 1 .. (k + 1) - 1 /\ j \in 1 .. Len(rx') /\ rx'[j] = rx[j + 1]
        BY <1>0, <2>1
      <4> QED
        BY <3>1, <4>1
    <3>3. 1 \in 1 .. (k + 1) - 1
      BY <1>0, <2>1
    <3> QED
      BY <2>1, <3>1, <3>2, <3>3
  <2>3. CASE fed' = fed
    BY <1>1, <2>1, <2>2, <2>3
  <2>4. CASE /\ rx[1].frame # 0 /\ rx[1].frame \in Nat
             /\ Len(fed') = Len(fed) + 1
             /\ fed'[Len(fed) + 1] = rx[1].frame
             /\ \A i \in 1 .. Len(fed) : fed'[i] = fed[i]
    <3>1. Queued(1) /\ 1 \in 1 .. Len(rx)
      BY <1>1, <2>1, <2>4
    <3>2. ASSUME NEW i \in 1 .. Len(fed')
          PROVE  Billed(i)'
      <4>1. CASE i \in 1 .. Len(fed)
        <5>1. fed'[i] = fed[i] /\ \A h \in 1 .. i - 1 : fed'[h] = fed[h]
          BY <1>0, <2>4, <4>1
        <5> QED
          BY <1>1, <2>1, <4>1, <5>1
      <4>2. CASE i = Len(fed) + 1
        <5>1. fed'[i] = rx[1].frame /\ \A h \in 1 .. i - 1 : fed'[h] = fed[h]
          BY <1>0, <2>4, <4>2
        <5>2. \A h \in 1 .. i - 1 : fed[h] < rx[1].frame
          BY <1>0, <3>1, <4>2
        <5>3. rx[1].frame \in 1 .. Len(air) /\ air[rx[1].frame].got
          BY <1>0, <2>4, <3>1
        <5> QED
          BY <2>1, <5>1, <5>2, <5>3
      <4> QED
        BY <1>0, <2>4, <4>1, <4>2
    <3>3. ASSUME NEW k \in 1 .. Len(rx'), rx'[k].frame # 0
          PROVE  \A i \in 1 .. Len(fed') : fed'[i] < rx'[k].frame
      <4>1. ASSUME NEW i \in 1 .. Len(fed')
            PROVE  fed'[i] < rx'[k].frame
        <5>1. i \in 1 .. Len(fed) \/ i = Len(fed) + 1
          BY <1>0, <2>4
        <5> QED
          BY <2>2, <2>4, <3>3, <5>1
      <4> QED
        BY <4>1
    <3> QED
      BY <2>2, <3>2, <3>3
  <2> QED
    BY <1>6, <2>3, <2>4, FedEffect
<1>7. CASE ~Air /\ ~Answer /\ ~Takes
  <2>1. UNCHANGED <<air, rx, fed>>
    BY <1>7, OtherEffect
  <2> QED
    BY <1>1, <2>1
<1> QED
  BY <1>4, <1>5, <1>6, <1>7

(* A read is given what its reply says, while dwell waits for it.            *)
LEMMA ValueEffect ==
    ASSUME Types, Takes, NEW n \in Reads
    PROVE  \/ value'[n] = value[n]
           \/ /\ rx[1].cmd = n /\ value'[n] = rx[1].value
              /\ pc = <<"wait", n>> /\ fed' = fed /\ dropped' = dropped
<1>1. Head(rx) = rx[1]
  BY TakeEffect
<1> QED
  BY <1>1 DEF Takes, Wait, ReadPacket, ReadError, Types

(* A sample that was taken is a record.                                      *)
LEMMA SeenType ==
    ASSUME Types, NEW n \in Reads, seen[n] # None
    PROVE  seen[n] \in Sample /\ seen[n].frames \in Nat /\ seen[n].busy \in Nat
  BY DEF Types, Sample

(* Every step keeps the replies in their places.                             *)
LEMMA ReplyPlaceNext ==
    ASSUME Types, Steps, FramesOrder, ReplyPlace, ValueSays, [Next]_vars
    PROVE  ReplyPlace'
<1>0. Len(air) \in Nat /\ Len(rx) \in Nat
  BY DEF Types
<1> DEFINE Placed(n, k) ==
               /\ n \notin asked /\ value[n] = None /\ seen[n] # None
               /\ rx[k].value = seen[n].busy % CntMod
               /\ \A j \in 1 .. Len(rx) : rx[j].cmd = n => j = k
               /\ \A j \in k + 1 .. Len(rx) :
                     rx[j].frame # 0 => rx[j].frame > seen[n].frames
               /\ \A i \in seen[n].frames + 1 .. Len(air) : air[i].got =>
                     \E j \in k + 1 .. Len(rx) : rx[j].frame = i
<1>1. ASSUME NEW n \in Reads, NEW k \in 1 .. Len(rx), rx[k].cmd = n
      PROVE  Placed(n, k) /\ seen[n].frames \in Nat /\ seen[n].frames <= Len(air)
  <2>1. Placed(n, k)
    BY <1>1 DEF ReplyPlace
  <2> QED
    BY <2>1, SeenType DEF ValueSays
<1>2. SUFFICES ASSUME NEW n \in Reads, NEW k \in 1 .. Len(rx'), rx'[k].cmd = n
               PROVE  Placed(n, k)'
  BY DEF ReplyPlace
<1>3. n # 0
  BY DEF Reads
<1>4. CASE Air
  <2>1. /\ Len(air') = Len(air) + 1
        /\ \A i \in 1 .. Len(air) : air'[i] = air[i]
        /\ UNCHANGED <<asked, value, seen>>
    BY <1>4, AirEffect
  <2>2. CASE rx' = rx /\ ~air'[Len(air) + 1].got
    <3>1. Placed(n, k) /\ seen[n].frames \in Nat
      BY <1>1, <1>2, <2>2
    <3>2. ASSUME NEW i \in seen[n].frames + 1 .. Len(air'), air'[i].got
          PROVE  \E j \in k + 1 .. Len(rx) : rx[j].frame = i
      <4>1. i \in seen[n].frames + 1 .. Len(air) /\ i \in 1 .. Len(air)
        BY <1>0, <2>1, <2>2, <3>1, <3>2
      <4> QED
        BY <2>1, <3>1, <3>2, <4>1
    <3> QED
      BY <2>1, <2>2, <3>1, <3>2
  <2>3. CASE /\ Len(rx') = Len(rx) + 1
             /\ rx'[Len(rx) + 1] = [frame |-> Len(air) + 1, cmd |-> 0, value |-> None]
             /\ \A j \in 1 .. Len(rx) : rx'[j] = rx[j]
    <3>1. k \in 1 .. Len(rx) /\ rx'[k] = rx[k]
      <4>1. k # Len(rx) + 1
        BY <1>2, <1>3, <2>3
      <4> QED
        BY <1>0, <2>3, <4>1
    <3>2. Placed(n, k) /\ seen[n].frames \in Nat /\ seen[n].frames <= Len(air)
      BY <1>1, <1>2, <3>1
    <3>3. ASSUME NEW j \in 1 .. Len(rx'), rx'[j].cmd = n
          PROVE  j = k
      <4>1. j \in 1 .. Len(rx)
        BY <1>0, <1>3, <2>3, <3>3
      <4> QED
        BY <2>3, <3>2, <3>3, <4>1
    <3>4. ASSUME NEW j \in k + 1 .. Len(rx'), rx'[j].frame # 0
          PROVE  rx'[j].frame > seen[n].frames
      <4>1. j \in k + 1 .. Len(rx) \/ j = Len(rx) + 1
        BY <1>0, <2>3, <3>1
      <4>2. j \in k + 1 .. Len(rx) => rx'[j] = rx[j]
        BY <1>0, <2>3, <3>1
      <4>3. CASE j = Len(rx) + 1
        BY <1>0, <2>3, <3>2, <4>3
      <4>4. CASE j \in k + 1 .. Len(rx)
        BY <3>2, <3>4, <4>2, <4>4
      <4> QED
        BY <4>1, <4>3, <4>4
    <3>5. ASSUME NEW i \in seen[n].frames + 1 .. Len(air'), air'[i].got
          PROVE  \E j \in k + 1 .. Len(rx') : rx'[j].frame = i
      <4>1. CASE i = Len(air) + 1
        <5>1. Len(rx) + 1 \in k + 1 .. Len(rx')
          BY <1>0, <2>3, <3>1
        <5> QED
          BY <2>3, <4>1, <5>1
      <4>2. CASE i # Len(air) + 1
        <5>1. i \in seen[n].frames + 1 .. Len(air) /\ i \in 1 .. Len(air)
          BY <1>0, <2>1, <3>2, <4>2
        <5>2. PICK j \in k + 1 .. Len(rx) : rx[j].frame = i
          BY <2>1, <3>2, <3>5, <5>1
        <5>3. j \in k + 1 .. Len(rx') /\ rx'[j] = rx[j]
          BY <1>0, <2>3, <3>1
        <5> QED
          BY <5>2, <5>3
      <4> QED
        BY <4>1, <4>2
    <3> QED
      BY <2>1, <3>1, <3>2, <3>3, <3>4, <3>5
  <2> QED
    BY <1>4, <2>2, <2>3, AirEffect
<1>5. CASE Answer
  <2>1. PICK m \in {0} \cup Reads :
               /\ m \in asked /\ asked' = asked \ {m}
               /\ Len(rx') = Len(rx) + 1
               /\ rx'[Len(rx) + 1] = [frame |-> 0, cmd |-> m, value |-> busy % CntMod]
               /\ \A j \in 1 .. Len(rx) : rx'[j] = rx[j]
               /\ \A i \in Reads : seen'[i] = IF i = m
                                              THEN [frames |-> Len(air), busy |-> busy]
                                              ELSE seen[i]
               /\ UNCHANGED <<air, value>>
    BY <1>5, AnswerEffect
  <2>2. CASE k = Len(rx) + 1
    <3>1. n = m /\ rx'[k].value = busy % CntMod
      BY <1>2, <2>1, <2>2
    <3>2. value[n] = None
      BY <2>1, <3>1 DEF ValueSays
    <3>3. seen'[n].frames = Len(air) /\ seen'[n].busy = busy /\ seen'[n] # None
      <4>1. [frames |-> Len(air), busy |-> busy] \in [frames : Nat, busy : Nat]
        BY DEF Types
      <4>2. [frames |-> Len(air), busy |-> busy] # None
        BY <4>1, SurveyAssumption
      <4> QED
        BY <2>1, <3>1, <4>2
    <3>4. ASSUME NEW j \in 1 .. Len(rx'), rx'[j].cmd = n
          PROVE  j = k
      <4>1. j \in 1 .. Len(rx) => rx[j].cmd = n
        BY <2>1, <3>4
      <4>2. j \notin 1 .. Len(rx)
        BY <1>1, <2>1, <3>1, <4>1
      <4> QED
        BY <1>0, <2>1, <2>2, <4>2
    <3>5. k + 1 > Len(rx') /\ Len(air) + 1 > Len(air)
      BY <1>0, <2>1, <2>2
    <3>6. \A j \in k + 1 .. Len(rx') : FALSE
      BY <1>0, <2>1, <2>2, <3>5
    <3>7. \A i \in Len(air) + 1 .. Len(air) : FALSE
      BY <1>0, <3>5
    <3> QED
      BY <2>1, <3>1, <3>2, <3>3, <3>4, <3>6, <3>7
  <2>3. CASE k # Len(rx) + 1
    <3>1. k \in 1 .. Len(rx) /\ rx'[k] = rx[k]
      BY <1>0, <2>1, <2>3
    <3>2. Placed(n, k) /\ n # m /\ seen'[n] = seen[n]
      BY <1>1, <1>2, <2>1, <3>1
    <3>3. ASSUME NEW j \in 1 .. Len(rx'), rx'[j].cmd = n
          PROVE  j = k
      <4>1. j \in 1 .. Len(rx)
        BY <1>0, <2>1, <3>2, <3>3
      <4> QED
        BY <2>1, <3>2, <3>3, <4>1
    <3>4. ASSUME NEW j \in k + 1 .. Len(rx'), rx'[j].frame # 0
          PROVE  rx'[j].frame > seen[n].frames
      <4>1. j # Len(rx) + 1
        BY <2>1, <3>4
      <4>2. j \in k + 1 .. Len(rx) /\ rx'[j] = rx[j]
        BY <1>0, <2>1, <3>1, <4>1
      <4> QED
        BY <3>2, <3>4, <4>2
    <3>5. \A j \in k + 1 .. Len(rx) : j \in k + 1 .. Len(rx') /\ rx'[j] = rx[j]
      BY <1>0, <2>1, <3>1
    <3> QED
      BY <2>1, <3>1, <3>2, <3>3, <3>4, <3>5
  <2> QED
    BY <2>2, <2>3
<1>6. CASE Takes
  <2>1. /\ Len(rx') = Len(rx) - 1 /\ Len(rx) \in Nat \ {0}
        /\ \A j \in 1 .. Len(rx') : j + 1 \in 1 .. Len(rx) /\ rx'[j] = rx[j + 1]
        /\ UNCHANGED <<air, asked, seen>>
    BY <1>6, TakeEffect
  <2>2. k + 1 \in 1 .. Len(rx) /\ rx'[k] = rx[k + 1]
    BY <2>1
  <2>3. Placed(n, k + 1) /\ seen[n].frames \in Nat
    BY <1>1, <1>2, <2>2
  <2>4. value'[n] = None
    <3>1. rx[1].cmd # n
      BY <2>1, <2>2, <2>3
    <3> QED
      BY <1>6, <2>3, <3>1, ValueEffect
  <2>5. ASSUME NEW j \in 1 .. Len(rx'), rx'[j].cmd = n
        PROVE  j = k
    <3>1. j + 1 = k + 1
      BY <2>1, <2>3, <2>5
    <3> QED
      BY <2>1, <3>1
  <2>6. \A j \in k + 1 .. Len(rx') :
            j \in 1 .. Len(rx') /\ j + 1 \in (k + 1) + 1 .. Len(rx) /\ rx'[j] = rx[j + 1]
    BY <2>1
  <2>7. ASSUME NEW i \in seen[n].frames + 1 .. Len(air), air[i].got
        PROVE  \E j \in k + 1 .. Len(rx') : rx'[j].frame = i
    <3>1. PICK j \in (k + 1) + 1 .. Len(rx) : rx[j].frame = i
      BY <2>3, <2>7
    <3>2. j - 1 \in k + 1 .. Len(rx') /\ (j - 1) + 1 = j
      BY <2>1
    <3>3. rx'[j - 1] = rx[j]
      BY <2>6, <3>2
    <3> QED
      BY <3>1, <3>2, <3>3
  <2>8. ASSUME NEW j \in k + 1 .. Len(rx'), rx'[j].frame # 0
        PROVE  rx'[j].frame > seen[n].frames
    BY <2>3, <2>6, <2>8
  <2>9. n \notin asked' /\ seen' = seen /\ air' = air /\ seen[n] # None
        /\ rx'[k].value = seen[n].busy % CntMod
    BY <2>1, <2>2, <2>3
  <2> QED
    BY <2>4, <2>5, <2>7, <2>8, <2>9
<1>7. CASE ~Air /\ ~Answer /\ ~Takes
  <2>1. UNCHANGED <<air, rx, seen, value>>
    BY <1>7, OtherEffect
  <2>2. Placed(n, k)
    BY <1>1, <1>2, <2>1
  <2>3. n \notin asked'
    <3>1. asked' = asked \/ \E m \in Reads : Ask(m) /\ asked' = asked \cup {m}
      BY <1>7 DEF Next, vars, Takes, Ask, GiveUp, EndLoop
    <3>2. ASSUME NEW m \in Reads, Ask(m), n = m
          PROVE  FALSE
      <4>1. Unasked(m)
        BY <3>2 DEF Ask, Steps, Reads
      <4> QED
        BY <1>2, <2>1, <3>2, <4>1 DEF Unasked
    <3> QED
      BY <2>2, <3>1, <3>2
  <2> QED
    BY <2>1, <2>2, <2>3
<1> QED
  BY <1>4, <1>5, <1>6, <1>7

(* Every step keeps what is known of the reads that have returned.           *)
LEMMA ValueSaysNext ==
    ASSUME Types, Steps, FramesOrder, ReplyPlace, ValueSays, [Next]_vars
    PROVE  ValueSays'
<1>0. Len(air) \in Nat /\ Len(rx) \in Nat
  BY DEF Types
<1> DEFINE Held(n) ==
               /\ n \in asked => seen[n] = None /\ value[n] = None
               /\ seen[n] # None => seen[n].frames <= Len(air)
               /\ value[n] # None =>
                     /\ seen[n] # None /\ value[n] = seen[n].busy % CntMod
                     /\ \A k \in 1 .. Len(rx) :
                           rx[k].frame # 0 => rx[k].frame > seen[n].frames
<1>1. SUFFICES ASSUME NEW n \in Reads
               PROVE  Held(n)'
  BY DEF ValueSays
<1>2. Held(n) /\ (seen[n] # None => seen[n].frames \in Nat)
  BY SeenType DEF ValueSays
<1>3. CASE Air
  <2>1. /\ Len(air') = Len(air) + 1
        /\ UNCHANGED <<asked, value, seen>>
    BY <1>3, AirEffect
  <2>2. ASSUME NEW k \in 1 .. Len(rx'), rx'[k].frame # 0, value[n] # None
        PROVE  rx'[k].frame > seen[n].frames
    <3>1. \/ k \in 1 .. Len(rx) /\ rx'[k] = rx[k]
          \/ rx'[k].frame = Len(air) + 1
      BY <1>0, <1>3, AirEffect
    <3> QED
      BY <1>0, <1>2, <2>2, <3>1
  <2> QED
    BY <1>0, <1>2, <2>1, <2>2
<1>4. CASE Answer
  <2>1. PICK m \in {0} \cup Reads :
               /\ m \in asked /\ asked' = asked \ {m}
               /\ Len(rx') = Len(rx) + 1
               /\ rx'[Len(rx) + 1] = [frame |-> 0, cmd |-> m, value |-> busy % CntMod]
               /\ \A j \in 1 .. Len(rx) : rx'[j] = rx[j]
               /\ \A i \in Reads : seen'[i] = IF i = m
                                              THEN [frames |-> Len(air), busy |-> busy]
                                              ELSE seen[i]
               /\ UNCHANGED <<air, value>>
    BY <1>4, AnswerEffect
  <2>2. CASE n = m
    <3>1. value[n] = None /\ n \notin asked' /\ seen'[n].frames = Len(air)
      BY <1>2, <2>1, <2>2
    <3> QED
      BY <1>0, <2>1, <3>1
  <2>3. CASE n # m
    <3>1. ASSUME NEW k \in 1 .. Len(rx'), rx'[k].frame # 0, value[n] # None
          PROVE  rx'[k].frame > seen[n].frames
      <4>1. k \in 1 .. Len(rx) /\ rx'[k] = rx[k]
        BY <1>0, <2>1, <3>1
      <4> QED
        BY <1>2, <3>1, <4>1
    <3> QED
      BY <1>2, <2>1, <2>3, <3>1
  <2> QED
    BY <2>2, <2>3
<1>5. CASE Takes
  <2>1. /\ Len(rx') = Len(rx) - 1 /\ Len(rx) \in Nat \ {0}
        /\ \A j \in 1 .. Len(rx') : j + 1 \in 1 .. Len(rx) /\ rx'[j] = rx[j + 1]
        /\ UNCHANGED <<air, asked, seen>>
    BY <1>5, TakeEffect
  <2>2. CASE value'[n] = value[n]
    BY <1>2, <2>1, <2>2
  <2>3. CASE rx[1].cmd = n /\ value'[n] = rx[1].value
    <3>1. 1 \in 1 .. Len(rx)
      BY <2>1
    <3>2. /\ n \notin asked /\ seen[n] # None
          /\ rx[1].value = seen[n].busy % CntMod
          /\ \A j \in 1 + 1 .. Len(rx) :
                rx[j].frame # 0 => rx[j].frame > seen[n].frames
      BY <2>3, <3>1 DEF ReplyPlace
    <3>3. \A j \in 1 .. Len(rx') : j + 1 \in 1 + 1 .. Len(rx)
      BY <2>1
    <3> QED
      BY <1>2, <2>1, <2>3, <3>2, <3>3
  <2> QED
    BY <1>5, <2>2, <2>3, ValueEffect
<1>6. CASE ~Air /\ ~Answer /\ ~Takes
  <2>1. UNCHANGED <<air, rx, seen, value>>
    BY <1>6, OtherEffect
  <2>2. n \in asked' => n \in asked \/ Ask(n)
    BY <1>6 DEF Next, vars, Takes, Ask, GiveUp, EndLoop
  <2>3. Ask(n) => Unasked(n)
    BY DEF Ask, Steps, Reads
  <2> QED
    BY <1>2, <2>1, <2>2, <2>3 DEF Unasked
<1> QED
  BY <1>3, <1>4, <1>5, <1>6

(* Every step keeps the frames billed between the two samples, and those in   *)
(* order.                                                                    *)
LEMMA BetweenNext ==
    ASSUME Types, BusySpan, Steps, FramesOrder, ValueSays, Between, [Next]_vars
    PROVE  Between'
<1>0. /\ Len(air) \in Nat /\ Len(rx) \in Nat /\ Len(fed) \in Nat /\ busy \in Nat
      /\ 1 \in Reads /\ 2 \in Reads
  BY DEF Types, Reads
<1>1. CASE Air
  BY <1>1, AirEffect DEF Between
<1>2. CASE Answer
  <2>1. PICK m \in {0} \cup Reads :
               /\ m \in asked
               /\ \A i \in Reads : seen'[i] = IF i = m
                                              THEN [frames |-> Len(air), busy |-> busy]
                                              ELSE seen[i]
               /\ UNCHANGED <<value, fed>>
    BY <1>2, AnswerEffect
  <2>2. value[1] # None => seen'[1] = seen[1] /\ seen[1] # None
    BY <1>0, <2>1 DEF ValueSays
  <2>3. CASE m # 2
    <3>1. seen'[2] = seen[2]
      BY <1>0, <2>1, <2>3
    <3> QED
      BY <2>1, <2>2, <3>1 DEF Between
  <2>4. CASE m = 2
    <3>1. seen'[2].frames = Len(air) /\ seen'[2].busy = busy
      BY <1>0, <2>1, <2>4
    <3>2. \A i \in 1 .. Len(fed) : fed[i] <= Len(air)
      BY <1>0 DEF FramesOrder
    <3>3. value[1] # None => seen[1].busy <= busy
      <4>1. \A n \in Reads : seen[n] # None => seen[n].busy <= busy
        BY <1>0 DEF BusySpan
      <4> QED
        BY <1>0, <2>2, <4>1
    <3> QED
      BY <2>1, <2>2, <3>1, <3>2, <3>3 DEF Between
  <2> QED
    BY <2>3, <2>4
<1>3. CASE Takes
  <2>1. seen' = seen /\ Len(rx) \in Nat \ {0} /\ 1 \in 1 .. Len(rx)
    BY <1>3, TakeEffect
  <2>2. \/ value'[1] = value[1]
        \/ pc = <<"wait", 1>> /\ fed' = fed
    BY <1>0, <1>3, ValueEffect
  <2>3. pc = <<"wait", 1>> => Unasked(2) /\ fed = <<>>
    BY DEF Steps
  <2>4. ASSUME value'[1] # None, NEW i \in 1 .. Len(fed')
        PROVE  fed'[i] > seen[1].frames
    <3>1. CASE pc = <<"wait", 1>> /\ fed' = fed
      BY <2>3, <2>4, <3>1
    <3>2. CASE value[1] # None /\ fed' = fed
      BY <2>4, <3>2 DEF Between
    <3>3. CASE /\ value[1] # None /\ rx[1].frame # 0
               /\ Len(fed') = Len(fed) + 1
               /\ fed'[Len(fed) + 1] = rx[1].frame
               /\ \A j \in 1 .. Len(fed) : fed'[j] = fed[j]
      <4>1. rx[1].frame > seen[1].frames
        BY <1>0, <2>1, <3>3 DEF ValueSays
      <4>2. i \in 1 .. Len(fed) \/ i = Len(fed) + 1
        BY <1>0, <3>3
      <4> QED
        BY <3>3, <4>1, <4>2 DEF Between
    <3> QED
      BY <1>3, <2>2, <2>4, <3>1, <3>2, <3>3, FedEffect
  <2>5. ASSUME seen[2] # None
        PROVE  fed' = fed
    <3>1. pc # <<"loop", 0>>
      BY <2>5 DEF Steps, Unasked
    <3> QED
      BY <1>3, <3>1, FedEffect
  <2>6. ASSUME value'[1] # None, seen[2] # None
        PROVE  seen[1].busy <= seen[2].busy
    <3>1. pc # <<"wait", 1>>
      BY <2>3, <2>6 DEF Unasked
    <3> QED
      BY <2>2, <2>6, <3>1 DEF Between
  <2> QED
    BY <2>1, <2>4, <2>5, <2>6 DEF Between
<1>4. CASE ~Air /\ ~Answer /\ ~Takes
  BY <1>4, OtherEffect DEF Between
<1> QED
  BY <1>1, <1>2, <1>3, <1>4

(* ToSet of a sequence is what is at its positions.                          *)
LEMMA InToSet ==
    ASSUME NEW X, NEW s \in Seq(X)
    PROVE  \A x : x \in ToSet(s) <=> \E i \in 1 .. Len(s) : s[i] = x
  BY DEF ToSet

(* A subset of a finite set, and of one element more.                        *)
LEMMA OneLarger ==
    ASSUME NEW S, NEW T, NEW x, IsFiniteSet(T), S \subseteq T \cup {x}
    PROVE  /\ IsFiniteSet(S) /\ Cardinality(S) \in Nat /\ Cardinality(T) \in Nat
           /\ Cardinality(S) <= Cardinality(T) + 1
           /\ S \subseteq T => Cardinality(S) <= Cardinality(T)
<1>1. /\ IsFiniteSet(T \cup {x}) /\ Cardinality(T) \in Nat
      /\ Cardinality(T \cup {x}) <= Cardinality(T) + 1
  <2>1. /\ IsFiniteSet(T \cup {x})
        /\ Cardinality(T \cup {x}) = IF x \in T THEN Cardinality(T)
                                     ELSE Cardinality(T) + 1
    BY FS_AddElement
  <2>2. Cardinality(T) \in Nat
    BY FS_CardinalityType
  <2> QED
    BY <2>1, <2>2
<1>2. /\ IsFiniteSet(S) /\ Cardinality(S) <= Cardinality(T \cup {x})
  BY <1>1, FS_Subset
<1>3. Cardinality(S) \in Nat /\ Cardinality(T \cup {x}) \in Nat
  BY <1>1, <1>2, FS_CardinalityType
<1>4. S \subseteq T => Cardinality(S) <= Cardinality(T)
  BY FS_Subset
<1> QED
  BY <1>1, <1>2, <1>3, <1>4

(* There are finitely many of them.                                          *)
LEMMA LostFinite ==
    ASSUME Types, seen[1] # None
    PROVE  /\ IsFiniteSet(Lost) /\ Cardinality(Lost) \in Nat
           /\ \A i \in Lost : i \in Nat /\ i # 0
<1>1. seen[1].frames \in Nat /\ Len(air) \in Nat
  BY SeenType DEF Types, Reads
<1>2. /\ IsFiniteSet(seen[1].frames + 1 .. Len(air))
      /\ Lost \in SUBSET (seen[1].frames + 1 .. Len(air))
  <2>1. seen[1].frames + 1 \in Int /\ Len(air) \in Int
    BY <1>1
  <2>2. Lost \subseteq seen[1].frames + 1 .. Len(air)
    BY DEF Lost
  <2> QED
    BY <2>1, <2>2, FS_Interval
<1>3. IsFiniteSet(Lost)
  BY <1>2, FS_Subset
<1> QED
  BY <1>1, <1>2, <1>3, FS_CardinalityType

(* A frame is lost when it was before, or when it is taken and not billed.   *)
LEMMA LostNext ==
    ASSUME Types, FramesOrder, ValueSays, [Next]_vars, value[1] # None
    PROVE  /\ seen'[1] = seen[1]
           /\ ~Takes => Lost' \subseteq Lost
           /\ Takes => Lost' \subseteq Lost \cup {rx[1].frame}
           /\ Takes /\ fed' # fed => Lost' \subseteq Lost
<1>0. /\ Len(air) \in Nat /\ Len(rx) \in Nat /\ fed \in Seq(Nat) /\ 1 \in Reads
      /\ seen[1] # None /\ 1 \notin asked
  BY DEF Types, Reads, ValueSays
<1>1. seen[1].frames \in Nat /\ seen[1].frames <= Len(air)
  BY <1>0, SeenType DEF ValueSays
<1>2. CASE Air
  <2>1. /\ Len(air') = Len(air) + 1
        /\ \A k \in 1 .. Len(air) : air'[k] = air[k]
        /\ fed' = fed /\ seen' = seen
    BY <1>2, AirEffect
  <2>2. ASSUME NEW i \in Lost'
        PROVE  i \in Lost
    <3>1. /\ i \in seen[1].frames + 1 .. Len(air) + 1 /\ air'[i].got
          /\ i \notin ToSet(fed)
          /\ \A k \in 1 .. Len(rx') : rx'[k].frame # i
      BY <2>1, <2>2 DEF Lost
    <3>2. i # Len(air) + 1
      <4>1. CASE rx' = rx /\ ~air'[Len(air) + 1].got
        BY <3>1, <4>1
      <4>2. CASE /\ Len(rx') = Len(rx) + 1
                 /\ rx'[Len(rx) + 1].frame = Len(air) + 1
        BY <1>0, <3>1, <4>2
      <4> QED
        BY <1>2, <4>1, <4>2, AirEffect
    <3>3. i \in seen[1].frames + 1 .. Len(air) /\ i \in 1 .. Len(air)
      BY <1>0, <1>1, <3>1, <3>2
    <3>4. \A k \in 1 .. Len(rx) : k \in 1 .. Len(rx') /\ rx'[k] = rx[k]
      BY <1>0, <1>2, AirEffect
    <3> QED
      BY <2>1, <3>1, <3>3, <3>4 DEF Lost
  <2>3. ~Takes
    <3>1. Takes => air' = air
      BY TakeEffect
    <3> QED
      BY <1>0, <2>1, <3>1
  <2> QED
    BY <2>1, <2>2, <2>3
<1>3. CASE Answer
  <2>1. PICK n \in {0} \cup Reads :
               /\ n \in asked
               /\ Len(rx') = Len(rx) + 1
               /\ \A k \in 1 .. Len(rx) : rx'[k] = rx[k]
               /\ \A i \in Reads : seen'[i] = IF i = n
                                              THEN [frames |-> Len(air), busy |-> busy]
                                              ELSE seen[i]
               /\ UNCHANGED <<air, fed>>
    BY <1>3, AnswerEffect
  <2>2. seen'[1] = seen[1]
    BY <1>0, <2>1
  <2>3. \A k \in 1 .. Len(rx) : k \in 1 .. Len(rx') /\ rx'[k] = rx[k]
    BY <1>0, <2>1
  <2>4. Lost' \subseteq Lost
    BY <2>1, <2>2, <2>3 DEF Lost
  <2>5. ~Takes
    <3>1. Takes => Len(rx') = Len(rx) - 1
      BY TakeEffect
    <3> QED
      BY <1>0, <2>1, <3>1
  <2> QED
    BY <2>2, <2>4, <2>5
<1>4. CASE Takes
  <2>1. /\ Len(rx) \in Nat \ {0} /\ Len(rx') = Len(rx) - 1
        /\ \A k \in 1 .. Len(rx') : rx'[k] = rx[k + 1]
        /\ UNCHANGED <<air, seen>>
    BY <1>4, TakeEffect
  <2>2. ASSUME NEW i, \A k \in 1 .. Len(rx') : rx'[k].frame # i, i # rx[1].frame
        PROVE  \A k \in 1 .. Len(rx) : rx[k].frame # i
    <3>1. ASSUME NEW k \in 1 .. Len(rx)
          PROVE  rx[k].frame # i
      <4>1. CASE k = 1
        BY <2>2, <4>1
      <4>2. CASE k # 1
        <5>1. k - 1 \in 1 .. Len(rx') /\ (k - 1) + 1 = k
          BY <2>1, <4>2
        <5>2. rx'[k - 1] = rx[k]
          BY <2>1, <5>1
        <5> QED
          BY <2>2, <5>1, <5>2
      <4> QED
        BY <4>1, <4>2
    <3> QED
      BY <3>1
  <2>3. CASE fed' = fed
    BY <1>4, <2>1, <2>2, <2>3 DEF Lost
  <2>4. CASE /\ Len(fed') = Len(fed) + 1 /\ Len(fed) \in Nat
             /\ fed'[Len(fed) + 1] = rx[1].frame
             /\ \A i \in 1 .. Len(fed) : fed'[i] = fed[i]
             /\ rx[1].frame \in Nat
    <3>1. fed' \in Seq(Nat)
      <4>1. fed' = fed \/ fed' = Append(fed, rx[1].frame)
        BY <1>4, TakeEffect DEF Takes, Wait, ReadPacket, ReadError
      <4> QED
        BY <1>0, <2>4, <4>1
    <3>2. ASSUME NEW i \in Lost'
          PROVE  i \in Lost
      <4>1. /\ i \in seen[1].frames + 1 .. Len(air) /\ air[i].got
            /\ i \notin ToSet(fed')
            /\ \A k \in 1 .. Len(rx') : rx'[k].frame # i
        BY <2>1, <3>2 DEF Lost
      <4>2. \A k \in 1 .. Len(fed') : fed'[k] # i
        BY <3>1, <4>1, InToSet
      <4>3. i # rx[1].frame
        BY <2>4, <4>2
      <4>4. i \notin ToSet(fed)
        <5>1. \A k \in 1 .. Len(fed) : k \in 1 .. Len(fed') /\ fed'[k] = fed[k]
          BY <2>4
        <5>2. \A k \in 1 .. Len(fed) : fed[k] # i
          BY <4>2, <5>1
        <5> QED
          BY <1>0, <5>2, InToSet
      <4> QED
        BY <2>2, <4>1, <4>3, <4>4 DEF Lost
    <3> QED
      BY <1>4, <2>1, <3>2
  <2> QED
    BY <1>4, <2>3, <2>4, FedEffect
<1>5. CASE ~Air /\ ~Answer /\ ~Takes
  <2>1. UNCHANGED <<air, rx, seen, fed>>
    BY <1>5, OtherEffect
  <2> QED
    BY <1>5, <2>1 DEF Lost
<1> QED
  BY <1>2, <1>3, <1>4, <1>5

(* Every step keeps the losses reported.                                     *)
LEMMA LossesNext ==
    ASSUME Types, Types', Steps, FramesOrder, ReplyPlace, ValueSays, ValueSays', Losses,
           [Next]_vars
    PROVE  Losses'
<1>0. 1 \in Reads /\ dropped \in Nat /\ errors \in Nat /\ dropped' \in Nat /\ errors' \in Nat
  BY DEF Types, Reads
<1>1. SUFFICES ASSUME value'[1] # None
               PROVE  Cardinality(Lost') <= dropped' + errors'
  BY DEF Losses
<1>2. CASE value[1] = None
  <2>1. Takes
    <3>1. CASE Air
      BY <1>1, <1>2, <3>1, AirEffect
    <3>2. CASE Answer
      BY <1>1, <1>2, <3>2 DEF Answer
    <3> QED
      BY <1>1, <1>2, <3>1, <3>2, OtherEffect
  <2>2. /\ Len(rx) \in Nat \ {0} /\ Len(rx') = Len(rx) - 1
        /\ \A k \in 1 .. Len(rx') : rx'[k] = rx[k + 1]
        /\ UNCHANGED <<air, seen>>
    BY <2>1, TakeEffect
  <2>3. rx[1].cmd = 1 /\ 1 \in 1 .. Len(rx)
    BY <1>0, <1>1, <1>2, <2>1, <2>2, ValueEffect
  <2>4. \A i \in seen[1].frames + 1 .. Len(air) : air[i].got =>
            \E j \in 1 + 1 .. Len(rx) : rx[j].frame = i
    BY <1>0, <2>3 DEF ReplyPlace
  <2>5. Lost' = {}
    <3>1. ASSUME NEW i \in Lost'
          PROVE  FALSE
      <4>1. /\ i \in seen[1].frames + 1 .. Len(air) /\ air[i].got
            /\ \A k \in 1 .. Len(rx') : rx'[k].frame # i
        BY <2>2, <3>1 DEF Lost
      <4>2. PICK j \in 1 + 1 .. Len(rx) : rx[j].frame = i
        BY <2>4, <4>1
      <4>3. j - 1 \in 1 .. Len(rx') /\ (j - 1) + 1 = j
        BY <2>2
      <4>4. rx'[j - 1] = rx[j]
        BY <2>2, <4>3
      <4> QED
        BY <4>1, <4>2, <4>3, <4>4
    <3> QED
      BY <3>1
  <2>6. Cardinality(Lost') = 0
    BY <2>5, FS_EmptySet
  <2>7. dropped' + errors' >= 0
    <3>1. dropped' \in Nat /\ errors' \in Nat
      BY <1>0
    <3>2. ASSUME NEW a \in Nat, NEW b \in Nat
          PROVE  a + b >= 0
      OBVIOUS
    <3> QED
      BY <3>1, <3>2
  <2> QED
    BY <2>6, <2>7
<1>3. CASE value[1] # None
  <2> DEFINE old == Lost
             new == Lost'
  <2>1. /\ IsFiniteSet(old) /\ Cardinality(old) \in Nat
        /\ Cardinality(old) <= dropped + errors
        /\ \A i \in new : i # 0
    <3>1. seen[1] # None /\ seen'[1] # None
      BY <1>0, <1>1, <1>3 DEF ValueSays
    <3>2. \A i \in Lost' : i # 0
      <4>1. seen'[1].frames \in Nat
        BY <1>0, <1>3, <3>1, LostNext, SeenType
      <4> QED
        BY <4>1 DEF Lost, Types
    <3> QED
      BY <1>3, <3>1, <3>2, LostFinite DEF Losses
  <2>2. /\ ~Takes => new \subseteq old
        /\ Takes => new \subseteq old \cup {rx[1].frame}
        /\ Takes /\ fed' # fed => new \subseteq old
    BY <1>3, LostNext
  <2> HIDE DEF old, new
  <2>3. new \subseteq old => Cardinality(new) <= Cardinality(old) /\ Cardinality(new) \in Nat
    BY <2>1, OneLarger
  <2>4. new \subseteq old \cup {rx[1].frame} =>
            Cardinality(new) <= Cardinality(old) + 1 /\ Cardinality(new) \in Nat
    BY <2>1, OneLarger
  <2>5. \/ new \subseteq old /\ dropped' = dropped /\ errors' = errors
        \/ /\ new \subseteq old \cup {rx[1].frame}
           /\ \/ dropped' = dropped + 1 /\ errors' = errors
              \/ dropped' = dropped /\ errors' = errors + 1
    <3>1. CASE ~Takes
      <4>1. dropped' = dropped /\ errors' = errors
        <5>1. ~Ask(1)
          BY <1>3 DEF Ask, Steps, Unasked
        <5>2. CASE Air
          BY <5>2, AirEffect
        <5>3. CASE Answer
          BY <5>3 DEF Answer
        <5>4. CASE ~Air /\ ~Answer
          BY <3>1, <5>1, <5>4 DEF Next, vars, Takes, Ask, GiveUp, EndLoop, Reads
        <5> QED
          BY <5>2, <5>3, <5>4
      <4> QED
        BY <2>2, <3>1, <4>1
    <3>2. CASE Takes
      <4>1. Head(rx) = rx[1] /\ 1 \in 1 .. Len(rx)
        BY <3>2, TakeEffect
      <4>2. rx[1].frame = 0 => new \subseteq old
        BY <2>1, <2>2, <3>2
      <4>3. ASSUME NEW n \in Reads, Wait(n)
            PROVE  \/ dropped' = dropped /\ errors' = errors /\ rx[1].frame = 0
                   \/ dropped' = dropped + 1 /\ errors' = errors
        <5>1. Head(rx).cmd = n => rx[1].frame = 0
          BY <4>1 DEF FramesOrder, Reads
        <5> QED
          BY <4>1, <4>3, <5>1 DEF Wait
      <4>4. CASE ReadPacket
        <5>1. dropped' = dropped /\ errors' = errors
          BY <4>4 DEF ReadPacket
        <5>2. rx[1].frame # 0 => fed' # fed
          <6>1. rx[1].frame # 0 => fed' = Append(fed, rx[1].frame)
            BY <4>1, <4>4 DEF ReadPacket
          <6>2. fed \in Seq(Nat) /\ rx[1].frame \in Nat
            BY <3>2, TakeEffect DEF Types, Packet
          <6>3. Append(fed, rx[1].frame) # fed
            <7>1. Len(Append(fed, rx[1].frame)) = Len(fed) + 1 /\ Len(fed) \in Nat
              BY <6>2
            <7> QED
              BY <7>1
          <6> QED
            BY <6>1, <6>3
        <5> QED
          BY <2>2, <3>2, <4>2, <5>1, <5>2
      <4>5. CASE ReadError
        <5>1. dropped' = dropped /\ errors' = errors + 1
          BY <4>5 DEF ReadError
        <5> QED
          BY <2>2, <3>2, <5>1
      <4> QED
        BY <2>2, <3>2, <4>2, <4>3, <4>4, <4>5 DEF Takes
    <3> QED
      BY <3>1, <3>2
  <2>6. Cardinality(new) <= dropped' + errors'
    BY <1>0, <2>1, <2>3, <2>4, <2>5
  <2> QED
    BY <2>6 DEF new
<1> QED
  BY <1>2, <1>3

-----------------------------------------------------------------------------
(* The aggregates                                                           *)

(* Close returns what was open: flattened, nothing is lost or moved.         *)
LEMMA CloseFlattens ==
    ASSUME NEW t \in Tracker
    PROVE  /\ FlattenSeq(Close(t).out) = FlattenSeq(t.out) \o t.current
           /\ FlattenSeq(Close(t).out) \in Seq(Nat)
<1>1. t.out \in Seq(Seq(Nat)) /\ t.current \in Seq(Nat)
  BY DEF Tracker
<1>2. FlattenSeq(t.out) \in Seq(Nat)
  BY <1>1, FlattenAppend
<1>3. CASE t.current = <<>>
  <2>1. Close(t).out = t.out
    BY <1>3, CloseMoves
  <2>2. FlattenSeq(t.out) \o <<>> = FlattenSeq(t.out)
    BY <1>2, ConcatEmptySeq
  <2> QED
    BY <1>2, <1>3, <2>1, <2>2
<1>4. CASE t.current # <<>>
  <2>1. Close(t).out = Append(t.out, t.current)
    BY <1>4, CloseMoves
  <2>2. FlattenSeq(Append(t.out, t.current)) = FlattenSeq(t.out) \o t.current
    BY <1>1, FlattenAppend
  <2>3. FlattenSeq(t.out) \o t.current \in Seq(Nat)
    BY <1>1, <1>2, ConcatProperties
  <2> QED
    BY <2>1, <2>2, <2>3
<1> QED
  BY <1>3, <1>4

(* Feed adds the frame at the end.                                           *)
LEMMA FeedFlattens ==
    ASSUME NEW t \in Tracker, NEW f \in Frame
    PROVE  FlattenSeq(Feed(t, f).out) \o Feed(t, f).current
               = Append(FlattenSeq(t.out) \o t.current, f.id)
<1> DEFINE u == Feed(t, f)
           cl == Close(t)
           all == FlattenSeq(t.out) \o t.current
<1>1. /\ t.out \in Seq(Seq(Nat)) /\ t.current \in Seq(Nat) /\ f.id \in Nat
      /\ <<f.id>> \in Seq(Nat)
  <2>1. f.id \in Nat
    BY DEF Frame
  <2> QED
    BY <2>1 DEF Tracker
<1>2. FlattenSeq(t.out) \in Seq(Nat)
  BY <1>1, FlattenAppend
<1>3. FlattenSeq(cl.out) = all /\ all \in Seq(Nat)
  BY CloseFlattens
<1>4. Append(all, f.id) = all \o <<f.id>>
  BY <1>1, <1>3, AppendIsConcat
<1>5. CASE u.current = Append(t.current, f.id) /\ u.out = t.out
  <2>1. Append(t.current, f.id) = t.current \o <<f.id>>
    BY <1>1, AppendIsConcat
  <2>2. FlattenSeq(t.out) \o (t.current \o <<f.id>>) = all \o <<f.id>>
    <3> DEFINE p == FlattenSeq(t.out)
               q == t.current
               r == <<f.id>>
    <3>1. p \in Seq(Nat) /\ q \in Seq(Nat) /\ r \in Seq(Nat)
      BY <1>1, <1>2
    <3> HIDE DEF p, q, r
    <3>2. \A x \in Seq(Nat) : \A y \in Seq(Nat) : \A z \in Seq(Nat) :
              (x \o y) \o z = x \o (y \o z)
      BY ConcatAssociative, SMTT(60)
    <3>3. (p \o q) \o r = p \o (q \o r)
      BY <3>1, <3>2
    <3> QED
      BY <3>3 DEF p, q, r
  <2> HIDE DEF all, u
  <2>3. FlattenSeq(u.out) \o u.current = Append(all, f.id)
    BY <1>4, <1>5, <2>1, <2>2
  <2> QED
    BY <2>3 DEF all, u
<1>6. CASE u.current = <<f.id>> /\ u.out = cl.out
  <2> HIDE DEF all, u, cl
  <2>1. FlattenSeq(u.out) \o u.current = Append(all, f.id)
    BY <1>3, <1>4, <1>6
  <2> QED
    BY <2>1 DEF all, u
<1>7. CASE u.current = <<>> /\ u.out = Append(cl.out, <<f.id>>)
  <2>1. cl.out \in Seq(Seq(Nat))
    BY CloseMoves DEF Tracker
  <2> HIDE DEF all, u, cl
  <2>2. FlattenSeq(u.out) = all \o <<f.id>>
    BY <1>1, <1>3, <1>7, <2>1, FlattenAppend
  <2>3. all \o <<f.id>> \in Seq(Nat)
    BY <1>1, <1>3, ConcatProperties
  <2>4. FlattenSeq(u.out) \o u.current = all \o <<f.id>>
    BY <1>7, <2>2, <2>3, ConcatEmptySeq
  <2>5. FlattenSeq(u.out) \o u.current = Append(all, f.id)
    BY <1>4, <2>4
  <2> QED
    BY <2>5 DEF all, u
<1> QED
  BY <1>5, <1>6, <1>7, FeedCases

(* The aggregates returned and the open one.                                 *)
GroupsOf(t) == ToSet(t.out) \cup {t.current}

(* What a sequence has, and what one has that is a member longer.            *)
LEMMA ToSetAppend ==
    ASSUME NEW X, NEW s \in Seq(X), NEW x \in X
    PROVE  ToSet(Append(s, x)) = ToSet(s) \cup {x}
<1>1. Append(s, x) \in Seq(X)
  OBVIOUS
<1>2. ASSUME NEW y
      PROVE  y \in ToSet(Append(s, x)) <=> y \in ToSet(s) \cup {x}
  <2>1. y \in ToSet(Append(s, x)) <=> \E i \in 1 .. Len(Append(s, x)) : Append(s, x)[i] = y
    BY <1>1, InToSet
  <2>2. y \in ToSet(s) <=> \E i \in 1 .. Len(s) : s[i] = y
    BY InToSet
  <2>3. (\E i \in 1 .. Len(Append(s, x)) : Append(s, x)[i] = y)
            <=> (\E i \in 1 .. Len(s) : s[i] = y) \/ y = x
    BY AppendKeeps
  <2> QED
    BY <2>1, <2>2, <2>3
<1> QED
  BY <1>2

(* What Close does to the aggregates.                                        *)
LEMMA CloseGroups ==
    ASSUME NEW t \in Tracker
    PROVE  /\ \A b \in ToSet(Close(t).out) : b \in GroupsOf(t)
           /\ \A a \in GroupsOf(t) : a = <<>> \/ a \in ToSet(Close(t).out)
<1>1. t.out \in Seq(Seq(Nat)) /\ t.current \in Seq(Nat)
  BY DEF Tracker
<1>2. ToSet(Append(t.out, t.current)) = ToSet(t.out) \cup {t.current}
  BY <1>1, ToSetAppend
<1> QED
  BY <1>2, CloseMoves DEF GroupsOf

(* What Feed does to the aggregates.                                         *)
LEMMA FeedGroups ==
    ASSUME NEW t \in Tracker, NEW f \in Frame
    PROVE  /\ \A b \in GroupsOf(Feed(t, f)) :
                 \/ b \in GroupsOf(t) \/ b = <<>> \/ b = <<f.id>>
                 \/ f.ts # None /\ Contiguous(t, f) /\ b = Append(t.current, f.id)
           /\ \A a \in GroupsOf(t) : a = <<>> \/
                 \E b \in GroupsOf(Feed(t, f)) : ToSet(a) \subseteq ToSet(b)
           /\ f.ampdu /\ f.ts # None /\ Contiguous(t, f) =>
                 Append(t.current, f.id) \in GroupsOf(Feed(t, f))
<1> DEFINE u == Feed(t, f)
           cl == Close(t)
<1>1. /\ t.current \in Seq(Nat) /\ f.id \in Nat /\ <<f.id>> \in Seq(Nat)
      /\ cl.out \in Seq(Seq(Nat))
  <2>1. f.id \in Nat /\ cl \in Tracker
    BY CloseMoves DEF Frame
  <2> QED
    BY <2>1 DEF Tracker
<1>2. /\ \A b \in ToSet(cl.out) : b \in GroupsOf(t)
      /\ \A a \in GroupsOf(t) : a = <<>> \/ a \in ToSet(cl.out)
  BY CloseGroups
<1>3. ToSet(t.current) \subseteq ToSet(Append(t.current, f.id))
  <2> DEFINE q == t.current
             i == f.id
  <2>1. q \in Seq(Nat) /\ i \in Nat
    BY <1>1
  <2> HIDE DEF q, i
  <2>2. ToSet(q) \subseteq ToSet(Append(q, i))
    BY <2>1, ToSetAppend
  <2> QED
    BY <2>2 DEF q, i
<1>4. ToSet(Append(cl.out, <<f.id>>)) = ToSet(cl.out) \cup {<<f.id>>}
  <2> DEFINE q == cl.out
             g == <<f.id>>
             X == Seq(Nat)
  <2>1. q \in Seq(X) /\ g \in X
    BY <1>1
  <2> HIDE DEF q, g, X
  <2>2. ToSet(Append(q, g)) = ToSet(q) \cup {g}
    BY <2>1, ToSetAppend
  <2> QED
    BY <2>2 DEF q, g
<1> HIDE DEF u, cl
<1>5. CASE /\ f.ampdu /\ f.ts # None /\ Contiguous(t, f)
           /\ u.current = Append(t.current, f.id) /\ u.out = t.out
  BY <1>3, <1>5 DEF GroupsOf, u
<1>6. CASE /\ f.ampdu /\ f.ts # None /\ ~Contiguous(t, f)
           /\ u.current = <<f.id>> /\ u.out = cl.out
  BY <1>2, <1>6 DEF GroupsOf, u
<1>7. CASE /\ ~f.ampdu \/ f.ts = None
           /\ u.current = <<>> /\ u.out = Append(cl.out, <<f.id>>)
  BY <1>2, <1>4, <1>7 DEF GroupsOf, u
<1> QED
  BY <1>5, <1>6, <1>7, FeedCases DEF u, cl

(* The groups of the properties are those.                                   *)
LEMMA GroupsAre ==
    ASSUME Types
    PROVE  ToSet(Groups) = GroupsOf(tracker)
<1>1. tracker.out \in Seq(Seq(Nat)) /\ tracker.current \in Seq(Nat)
  BY DEF Types, Tracker
<1> QED
  BY <1>1, ToSetAppend DEF Groups, GroupsOf

-----------------------------------------------------------------------------
(* Times                                                                    *)

(* Quotient and remainder rebuild the number.                                *)
LEMMA Divided ==
    ASSUME NEW K \in Nat \ {0}, NEW a \in Nat
    PROVE  /\ a % K \in 0 .. K - 1 /\ a \div K \in Nat /\ K * (a \div K) \in Nat
           /\ a = (K * (a \div K)) + (a % K)
  BY SMT

(* A product grows with its factors.                                         *)
LEMMA ProductGrows ==
    ASSUME NEW L \in Nat, NEW M \in Nat, NEW x \in Nat, NEW y \in Nat, L <= M, x <= y
    PROVE  L * x <= M * y /\ L * x \in Nat /\ M * y \in Nat
<1>1. L * x \in Nat /\ L * y \in Nat /\ M * y \in Nat
  BY SMT
<1>2. L * x <= L * y
  <2>1. L * (y - x) \in Nat /\ L * y = (L * x) + (L * (y - x))
    BY SMT
  <2> QED
    BY <1>1, <2>1
<1>3. L * y <= M * y
  <2>1. (M - L) * y \in Nat /\ M * y = (L * y) + ((M - L) * y)
    BY SMT
  <2> QED
    BY <1>1, <2>1
<1> QED
  BY <1>1, <1>2, <1>3

(* A multiple of K that is less than 2K and more than -K is 0 or K.          *)
LEMMA NearMultiple ==
    ASSUME NEW K \in Nat \ {0}, NEW q \in Int, K * q < K + K, K * q > -K
    PROVE  q = 0 \/ q = 1
<1>1. ASSUME q >= 2 PROVE FALSE
  <2>1. K * q = K + K + (K * (q - 2))
    BY SMT
  <2>2. K * (q - 2) >= 0
    BY <1>1, SMT
  <2>3. K * q \in Int /\ K * (q - 2) \in Int
    BY SMT
  <2> QED
    BY <2>1, <2>2, <2>3
<1>2. ASSUME q <= -1 PROVE FALSE
  <2>1. K * q = (-K) - (K * ((-1) - q))
    BY SMT
  <2>2. K * ((-1) - q) >= 0
    BY <1>2, SMT
  <2>3. K * q \in Int /\ K * ((-1) - q) \in Int
    BY SMT
  <2> QED
    BY <2>1, <2>2, <2>3
<1> QED
  BY <1>1, <1>2

(* Between two readings of a counter less than a cycle apart, it has wrapped  *)
(* at most once.                                                             *)
LEMMA OneWrap ==
    ASSUME NEW K \in Nat \ {0}, NEW a \in Nat, NEW b \in Nat, a <= b, b - a < K
    PROVE  \/ (b % K) - (a % K) = b - a
           \/ /\ (b % K) - (a % K) = (b - a) - K
              /\ a \div K # b \div K
<1> DEFINE qa == a \div K
           qb == b \div K
           ra == a % K
           rb == b % K
<1>1. /\ ra \in 0 .. K - 1 /\ qa \in Nat /\ K * qa \in Nat /\ a = (K * qa) + ra
      /\ rb \in 0 .. K - 1 /\ qb \in Nat /\ K * qb \in Nat /\ b = (K * qb) + rb
  BY Divided
<1> HIDE DEF qa, qb, ra, rb
<1>2. K * (qb - qa) = (K * qb) - (K * qa)
  BY <1>1, SMT
<1>3. K * (qb - qa) = ((b - a) - rb) + ra /\ qb - qa \in Int
  <2> DEFINE x == K * qa
             y == K * qb
  <2>1. x \in Nat /\ y \in Nat /\ a = x + ra /\ b = y + rb /\ K * (qb - qa) = y - x
    BY <1>1, <1>2
  <2> HIDE DEF x, y
  <2> QED
    BY <1>1, <2>1
<1>4. qb - qa = 0 \/ qb - qa = 1
  <2> DEFINE q == qb - qa
  <2>1. q \in Int /\ K * q = ((b - a) - rb) + ra
    BY <1>3
  <2> HIDE DEF q
  <2>2. K * q < K + K /\ K * q > -K
    BY <1>1, <2>1
  <2>3. q = 0 \/ q = 1
    BY <2>1, <2>2, NearMultiple
  <2> QED
    BY <2>3 DEF q
<1>5. CASE qb - qa = 0
  <2>1. ((b - a) - rb) + ra = 0
    BY <1>3, <1>5
  <2>2. rb - ra = b - a
    BY <1>1, <2>1
  <2> QED
    BY <2>2 DEF ra, rb
<1>6. CASE qb - qa = 1
  <2>1. ((b - a) - rb) + ra = K
    BY <1>3, <1>6
  <2>2. rb - ra = (b - a) - K /\ qa # qb
    BY <1>1, <1>6, <2>1
  <2> QED
    BY <2>2 DEF ra, rb, qa, qb
<1> QED
  BY <1>4, <1>5, <1>6

(* Two subframes of the dwell are less than a cycle of the timestamp apart.  *)
LEMMA TimeApart ==
    ASSUME Types, AirOrder, AirSpan, NEW i \in 1 .. Len(air), NEW j \in 1 .. i - 1
    PROVE  /\ j \in 1 .. Len(air) /\ air[i] \in Sub /\ air[j] \in Sub
           /\ air[i].at \in Nat /\ air[j].at \in Nat
           /\ air[j].air \in Airs /\ air[j].air \in Nat
           /\ air[j].at + air[j].air <= air[i].at
           /\ air[i].at - air[j].at < TsMod
<1>1. Len(air) \in Nat /\ Len(air) <= MaxFrames /\ MaxFrames \in Nat /\ Gap \in Nat
  BY SurveyAssumption DEF Types
<1>2. j \in 1 .. Len(air) /\ j \in 1 .. i /\ air[i] \in Sub /\ air[j] \in Sub
  BY <1>1 DEF Types
<1>3. /\ air[i].at \in Nat /\ air[j].at \in Nat
      /\ air[j].air \in Airs /\ air[j].air \in Nat /\ air[j].air # 0
  BY <1>2, SurveyAssumption DEF Sub
<1>4. air[j].at + air[j].air <= air[i].at
  BY DEF AirOrder, Before
<1>5. PICK m \in {0} \cup Airs : air[i].at - air[j].at <= Len(air) * (m + Gap)
  BY <1>2 DEF AirSpan
<1>6. PICK y \in {0} \cup Airs : /\ m <= y /\ air[j].air <= y
                                 /\ m \in Nat /\ y \in Nat
  BY <1>3, Greater
<1>7. y \in Airs
  BY <1>3, <1>6
<1>8. MaxFrames * (y + Gap) < TsMod /\ TsMod \in Nat
  BY <1>7, SurveyAssumption
<1>9. /\ Len(air) * (m + Gap) <= MaxFrames * (y + Gap)
      /\ Len(air) * (m + Gap) \in Nat /\ MaxFrames * (y + Gap) \in Nat
  <2>1. m + Gap \in Nat /\ y + Gap \in Nat /\ m + Gap <= y + Gap
    BY <1>1, <1>6
  <2> QED
    BY <1>1, <2>1, ProductGrows
<1>10. air[i].at - air[j].at < TsMod
  <2> DEFINE d == air[i].at - air[j].at
             B == Len(air) * (m + Gap)
             C == MaxFrames * (y + Gap)
  <2>1. d \in Int /\ B \in Nat /\ C \in Nat /\ d <= B /\ B <= C /\ C < TsMod
    BY <1>3, <1>5, <1>8, <1>9
  <2> HIDE DEF d, B, C
  <2>2. d < TsMod
    BY <1>8, <2>1
  <2> QED
    BY <2>2 DEF d
<1> QED
  BY <1>2, <1>3, <1>4, <1>10

(* What the tracker remembers of subframe j.                                 *)
LastIs(j) ==
    /\ tracker.ts = Decoded(j).ts /\ tracker.addr = Decoded(j).addr
    /\ tracker.air = Decoded(j).air

(* A frame that continues the open aggregate is of the last one's PPDU.      *)
LEMMA ContiguousSame ==
    ASSUME Types, AirOrder, AirSpan, NEW i \in 1 .. Len(air), NEW j \in 1 .. i - 1,
           LastIs(j), Contiguous(tracker, Decoded(i)), Decoded(i).ts # None
    PROVE  air[i].ppdu = air[j].ppdu
<1>1. /\ j \in 1 .. Len(air) /\ air[i].at \in Nat /\ air[j].at \in Nat
      /\ air[j].air \in Nat /\ air[j].at + air[j].air <= air[i].at
      /\ air[i].at - air[j].at < TsMod
  BY TimeApart
<1>2. /\ Decoded(i).addr = air[i].kind.addr /\ Decoded(j).addr = air[j].kind.addr
      /\ Decoded(i).ts = air[i].at % TsMod
      /\ Decoded(j).ts # None => Decoded(j).ts = air[j].at % TsMod
      /\ Decoded(j).air \in {0, air[j].air}
  BY <1>1, DecodedType
<1>3. /\ air[i].kind.addr = air[j].kind.addr
      /\ (air[i].at % TsMod) - (air[j].at % TsMod) \in 0 .. Decoded(j).air + Slack
  BY <1>2 DEF Contiguous, LastIs
<1>4. ASSUME air[i].ppdu # air[j].ppdu PROVE FALSE
  <2>1. air[j].at + air[j].air + Slack < air[i].at
    BY <1>3, <1>4 DEF AirOrder, Before
  <2> DEFINE a == air[j].at
             b == air[i].at
             d == Decoded(j).air
             r == (b % TsMod) - (a % TsMod)
  <2>2. /\ a \in Nat /\ b \in Nat /\ d \in Nat /\ Slack \in Nat /\ TsMod \in Nat \ {0}
        /\ a <= b /\ b - a < TsMod /\ r \in 0 .. d + Slack /\ a + d + Slack < b
    <3>1. a + air[j].air + Slack < b /\ a <= b
      BY <1>1, <2>1
    <3>2. a \in Nat /\ b \in Nat /\ b - a < TsMod /\ Slack \in Nat /\ TsMod \in Nat \ {0}
      BY <1>1, SurveyAssumption, AggregationAssumption
    <3>3. r \in 0 .. d + Slack
      BY <1>3
    <3>4. (d = 0 \/ d = air[j].air) /\ air[j].air \in Nat
      BY <1>1, <1>2
    <3> DEFINE e == air[j].air
    <3> HIDE DEF a, b, d, r, e
    <3>5. e \in Nat /\ (d = 0 \/ d = e) /\ a + e + Slack < b
      BY <3>1, <3>4 DEF e
    <3>6. d \in Nat /\ a + d + Slack < b
      BY <3>2, <3>5
    <3> QED
      BY <3>1, <3>2, <3>3, <3>6
  <2> HIDE DEF a, b, d
  <2>3. r = b - a \/ r = (b - a) - TsMod
    BY <2>2, OneWrap
  <2> HIDE DEF r
  <2> QED
    BY <2>2, <2>3
<1> QED
  BY <1>4

(* The next subframe of a PPDU continues it, unless the timestamp wrapped.   *)
LEMMA SameContiguous ==
    ASSUME Types, AirOrder, AirSpan, NEW i \in 1 .. Len(air), NEW j \in 1 .. i - 1, i = j + 1,
           LastIs(j), air[i].ppdu = air[j].ppdu, tracker.current # <<>>,
           air[j].kind.addr # None, air[j].kind.stamped, air[j].kind.rated,
           air[i].at \div TsMod = air[j].at \div TsMod
    PROVE  /\ Decoded(i).ampdu /\ Decoded(i).ts # None
           /\ Contiguous(tracker, Decoded(i))
<1>1. /\ j \in 1 .. Len(air) /\ air[i].at \in Nat /\ air[j].at \in Nat
      /\ air[j].air \in Nat /\ air[j].at + air[j].air <= air[i].at
      /\ air[i].at - air[j].at < TsMod
  BY TimeApart
<1>2. /\ air[i].kind = air[j].kind /\ air[i].kind.ampdu
      /\ air[i].at <= air[j].at + air[j].air + Slack
  BY DEF AirOrder, Before
<1>3. /\ Decoded(i).addr = air[i].kind.addr /\ Decoded(j).addr = air[j].kind.addr
      /\ Decoded(i).ts = air[i].at % TsMod /\ Decoded(j).ts = air[j].at % TsMod
      /\ Decoded(j).air = air[j].air /\ Decoded(i).ampdu
  BY <1>1, <1>2, DecodedType
<1>4. Decoded(i).ts # None /\ Decoded(j).ts # None
  <2>1. air[i].at % TsMod \in Nat /\ air[j].at % TsMod \in Nat
    BY <1>1, SurveyAssumption
  <2> QED
    BY <1>3, <2>1, SurveyAssumption
<1>5. (air[i].at % TsMod) - (air[j].at % TsMod) \in 0 .. air[j].air + Slack
  <2> DEFINE a == air[j].at
             b == air[i].at
             d == air[j].air
             r == (b % TsMod) - (a % TsMod)
  <2>1. /\ a \in Nat /\ b \in Nat /\ d \in Nat /\ Slack \in Nat /\ TsMod \in Nat \ {0}
        /\ a + d <= b /\ b - a < TsMod /\ b <= a + d + Slack
        /\ a \div TsMod = b \div TsMod
    BY <1>1, <1>2, SurveyAssumption, AggregationAssumption
  <2> HIDE DEF a, b, d
  <2>2. a <= b
    BY <2>1
  <2>3. r = b - a
    BY <2>1, <2>2, OneWrap
  <2> HIDE DEF r
  <2>4. r \in 0 .. d + Slack
    BY <2>1, <2>3
  <2> QED
    BY <2>4 DEF r, d, a, b
<1> QED
  BY <1>2, <1>3, <1>4, <1>5 DEF Contiguous, LastIs

-----------------------------------------------------------------------------
(* The tracker's steps                                                      *)

(* A subframe that was sent stays as it was.                                 *)
LEMMA SentStays ==
    ASSUME Types, [Next]_vars, NEW i \in 1 .. Len(air)
    PROVE  i \in 1 .. Len(air') /\ air'[i] = air[i] /\ Decoded(i)' = Decoded(i)
<1>1. Len(air) \in Nat
  BY DEF Types
<1>2. i \in 1 .. Len(air') /\ air'[i] = air[i]
  BY <1>1, AirEffect, AirStays
<1> QED
  BY <1>2 DEF Decoded

(* The loop's step that feeds.                                               *)
Feeds == ReadPacket /\ Head(rx).frame # 0

(* What it does.                                                             *)
LEMMA FeedEffect ==
    ASSUME Types, FramesOrder, Feeds
    PROVE  \E h \in 1 .. Len(air) :
               /\ Decoded(h) \in Frame /\ Decoded(h).id = h
               /\ tracker' = Feed(tracker, Decoded(h))
               /\ fed' = Append(fed, h) /\ Len(fed') = Len(fed) + 1
               /\ fed'[Len(fed) + 1] = h
               /\ \A i \in 1 .. Len(fed) : fed'[i] = fed[i] /\ fed[i] \in 1 .. h - 1
               /\ pc = <<"loop", 0>> /\ UNCHANGED <<air, pc>>
<1> DEFINE h == Head(rx).frame
<1>1. rx # <<>> /\ h # 0 /\ tracker' = Feed(tracker, Decoded(h)) /\ fed' = Append(fed, h)
      /\ pc = <<"loop", 0>> /\ UNCHANGED <<air, pc>>
  BY DEF Feeds, ReadPacket, world
<1>2. h \in 1 .. Len(air)
  BY <1>1, HeadFrame
<1>3. Decoded(h) \in Frame /\ Decoded(h).id = h
  BY <1>2, DecodedType
<1>4. fed \in Seq(Nat) /\ h \in Nat
  BY <1>2 DEF Types
<1>5. /\ Len(fed') = Len(fed) + 1 /\ fed'[Len(fed) + 1] = h
      /\ \A i \in 1 .. Len(fed) : fed'[i] = fed[i]
  BY <1>1, <1>4, AppendKeeps
<1>6. \A i \in 1 .. Len(fed) : fed[i] \in 1 .. h - 1
  <2>1. h = rx[1].frame /\ 1 \in 1 .. Len(rx)
    BY <1>1, TailMoves DEF Types
  <2>2. \A i \in 1 .. Len(fed) : fed[i] \in 1 .. Len(air) /\ fed[i] < rx[1].frame
    BY <1>1, <2>1 DEF FramesOrder
  <2> HIDE DEF h
  <2> QED
    BY <1>4, <2>1, <2>2
<1> HIDE DEF h
<1> QED
  BY <1>1, <1>2, <1>3, <1>5, <1>6

(* The others leave tracker and billed frames alone, but for EndLoop.        *)
LEMMA TrackerStays ==
    ASSUME [Next]_vars, ~Feeds
    PROVE  /\ fed' = fed
           /\ IF EndLoop THEN tracker' = Close(tracker) ELSE tracker' = tracker
<1>1. CASE EndLoop
  BY <1>1 DEF EndLoop
<1>2. CASE ~EndLoop
  <2>1. CASE Air
    BY <1>2, <2>1 DEF Air, Send
  <2>2. CASE Answer
    BY <1>2, <2>2 DEF Answer
  <2>3. CASE ~Air /\ ~Answer
    BY <1>2, <2>3 DEF Next, vars, Ask, Wait, GiveUp, ReadPacket, ReadError, Feeds
  <2> QED
    BY <2>1, <2>2, <2>3
<1> QED
  BY <1>1, <1>2

(* dwell enters the loop with nothing billed.                                *)
LEMMA LoopStarts ==
    ASSUME Types, Steps, [Next]_vars, pc' = <<"loop", 0>>
    PROVE  ~EndLoop /\ (pc = <<"loop", 0>> \/ fed = <<>>)
<1>1. ~EndLoop
  BY DEF EndLoop
<1>2. pc = <<"loop", 0>> \/ pc = <<"wait", 1>>
  <2>1. CASE pc' = pc
    BY <2>1
  <2>2. CASE \E n \in Reads : pc = <<"wait", n>> /\ pc' = After(n)
    BY <2>2 DEF After, Reads
  <2> QED
    BY <2>1, <2>2, PcMoves
<1> QED
  BY <1>1, <1>2 DEF Steps

(* Only EndLoop leaves the loop.                                             *)
LEMMA LoopEnds ==
    ASSUME Types, [Next]_vars, pc = <<"loop", 0>>, ~EndLoop
    PROVE  pc' = <<"loop", 0>>
<1>1. CASE Air
  BY <1>1 DEF Air, Send
<1>2. CASE Answer
  BY <1>2 DEF Answer
<1>3. CASE ~Air /\ ~Answer
  BY <1>3 DEF Next, vars, Ask, Wait, GiveUp, ReadPacket, ReadError, Reads
<1> QED
  BY <1>1, <1>2, <1>3

(* Every step keeps what the tracker remembers.                              *)
LEMMA RemembersNext ==
    ASSUME Types, Steps, FramesOrder, Remembers, [Next]_vars
    PROVE  Remembers'
<1>0. /\ tracker \in Tracker /\ fed \in Seq(Nat) /\ Len(fed) \in Nat
      /\ tracker.current \in Seq(Nat)
  BY DEF Types, Tracker
<1>1. CASE Feeds
  <2>1. PICK h \in 1 .. Len(air) :
               /\ Decoded(h) \in Frame /\ Decoded(h).id = h
               /\ tracker' = Feed(tracker, Decoded(h))
               /\ fed' = Append(fed, h) /\ Len(fed') = Len(fed) + 1
               /\ fed'[Len(fed) + 1] = h
               /\ pc = <<"loop", 0>> /\ UNCHANGED <<air, pc>>
    BY <1>1, FeedEffect
  <2> DEFINE f == Decoded(h)
             u == Feed(tracker, f)
  <2>2. /\ u.ts = f.ts /\ u.addr = f.addr /\ u.air = f.air
        /\ \/ /\ f.ampdu /\ f.ts # None
              /\ u.current = Append(tracker.current, h)
           \/ u.current = <<h>>
           \/ /\ ~f.ampdu \/ f.ts = None
              /\ u.current = <<>>
    <3>1. f \in Frame /\ f.id = h
      BY <2>1
    <3> HIDE DEF f
    <3> QED
      BY <1>0, <3>1, FeedCases
  <2>3. FlattenSeq(u.out) \o u.current = Append(fed, h)
    BY <1>0, <2>1, FeedFlattens DEF Remembers
  <2>4. /\ u.current # <<>> => u.current[Len(u.current)] = h
        /\ f.ampdu /\ f.ts # None => u.current # <<>>
    <3> HIDE DEF f, u
    <3>1. CASE u.current = Append(tracker.current, h)
      <4> DEFINE q == tracker.current
      <4>1. h \in Nat /\ q \in Seq(Nat) /\ u.current = Append(q, h)
        BY <1>0, <3>1 DEF Types
      <4> HIDE DEF q
      <4>2. /\ Append(q, h) # <<>> /\ Len(Append(q, h)) = Len(q) + 1
            /\ Append(q, h)[Len(q) + 1] = h
        BY <4>1, AppendProperties
      <4> QED
        BY <4>1, <4>2
    <3>2. CASE u.current = <<h>>
      BY <3>2
    <3>3. CASE (~f.ampdu \/ f.ts = None) /\ u.current = <<>>
      BY <3>3
    <3> QED
      BY <2>2, <3>1, <3>2, <3>3
  <2>5. \A b \in ToSet(u.out) \cup {u.current} : ToSet(b) \subseteq 1 .. Len(air)
    <3>1. ASSUME NEW b \in GroupsOf(u)
          PROVE  ToSet(b) \subseteq 1 .. Len(air)
      <4>1. \/ b \in GroupsOf(tracker) \/ b = <<>> \/ b = <<h>>
            \/ b = Append(tracker.current, h)
        BY <1>0, <2>1, <3>1, FeedGroups
      <4>2. ToSet(<<>>) = {} /\ ToSet(<<h>>) = {h}
        BY DEF ToSet
      <4>3. ToSet(Append(tracker.current, h)) = ToSet(tracker.current) \cup {h}
        <5> DEFINE q == tracker.current
        <5>1. q \in Seq(Nat) /\ h \in Nat
          BY <1>0 DEF Types
        <5> HIDE DEF q
        <5>2. ToSet(Append(q, h)) = ToSet(q) \cup {h}
          BY <5>1, ToSetAppend
        <5> QED
          BY <5>2 DEF q
      <4> QED
        BY <4>1, <4>2, <4>3 DEF Remembers, GroupsOf
    <3> HIDE DEF u
    <3> QED
      BY <3>1 DEF GroupsOf
  <2> HIDE DEF u
  <2>6. tracker' = u /\ fed' # <<>> /\ fed'[Len(fed')] = h
    <3>1. Len(fed') # 0
      BY <1>0, <2>1
    <3>2. fed' # <<>>
      BY <3>1
    <3> QED
      BY <2>1, <3>2 DEF u
  <2>7. Decoded(fed[Len(fed)])' = f
    BY <2>1, <2>6 DEF Decoded
  <2> HIDE DEF f
  <2> QED
    BY <2>1, <2>2, <2>3, <2>4, <2>5, <2>6, <2>7 DEF Remembers
<1>2. CASE EndLoop
  <2>1. /\ tracker' = Close(tracker) /\ fed' = fed /\ pc' # <<"loop", 0>> /\ air' = air
    BY <1>2 DEF EndLoop, world
  <2>2. /\ tracker'.current = <<>> /\ tracker'.ts = tracker.ts
        /\ tracker'.addr = tracker.addr /\ tracker'.air = tracker.air
    BY <1>0, <2>1, CloseMoves
  <2>3. FlattenSeq(tracker'.out) \o tracker'.current = fed
    <3>1. FlattenSeq(tracker'.out) = fed
      BY <1>0, <2>1, CloseFlattens DEF Remembers
    <3> QED
      BY <1>0, <2>2, <3>1, ConcatEmptySeq
  <2>4. \A a \in ToSet(tracker'.out) \cup {tracker'.current} :
            ToSet(a) \subseteq 1 .. Len(air)
    <3>1. ToSet(<<>>) = {}
      BY DEF ToSet
    <3> QED
      BY <1>0, <2>1, <2>2, <3>1, CloseGroups DEF GroupsOf, Remembers
  <2>5. \A i : Decoded(i)' = Decoded(i)
    BY <2>1 DEF Decoded
  <2> QED
    BY <2>1, <2>2, <2>3, <2>4, <2>5 DEF Remembers
<1>3. CASE ~Feeds /\ ~EndLoop
  <2>1. tracker' = tracker /\ fed' = fed
    BY <1>3, TrackerStays
  <2>2. fed # <<>> => Decoded(fed[Len(fed)])' = Decoded(fed[Len(fed)])
    <3>1. fed # <<>> => Len(fed) \in 1 .. Len(fed)
      BY <1>0
    <3>2. CASE fed # <<>>
      <4>1. PICK k \in 1 .. Len(air) : k = fed[Len(fed)]
        BY <3>1, <3>2 DEF FramesOrder
      <4>2. Decoded(k)' = Decoded(k)
        BY SentStays
      <4>3. Decoded(fed[Len(fed)])' = Decoded(k)'
        BY <2>1, <4>1 DEF Decoded
      <4> QED
        BY <4>1, <4>2, <4>3
    <3> QED
      BY <3>2
  <2>3. pc' = <<"loop", 0>> => pc = <<"loop", 0>> \/ fed = <<>>
    BY LoopStarts
  <2>4. pc = <<"loop", 0>> => pc' = <<"loop", 0>>
    BY <1>3, LoopEnds
  <2>5. \A i \in 1 .. Len(air) : i \in 1 .. Len(air')
    BY SentStays
  <2> QED
    BY <2>1, <2>2, <2>3, <2>4, <2>5 DEF Remembers
<1> QED
  BY <1>1, <1>2, <1>3

-----------------------------------------------------------------------------
(* Aggregates and PPDUs                                                     *)

(* The tracker remembers the last frame billed, and ends its open aggregate  *)
(* with it.                                                                  *)
LEMMA LastRemembered ==
    ASSUME Types, FramesOrder, Remembers, fed # <<>>
    PROVE  /\ Len(fed) \in 1 .. Len(fed) /\ fed[Len(fed)] \in 1 .. Len(air)
           /\ LastIs(fed[Len(fed)])
           /\ tracker.current # <<>> => fed[Len(fed)] \in ToSet(tracker.current)
<1>1. fed \in Seq(Nat) /\ Len(fed) \in 1 .. Len(fed) /\ tracker.current \in Seq(Nat)
  BY DEF Types, Tracker
<1>2. fed[Len(fed)] \in 1 .. Len(air) /\ LastIs(fed[Len(fed)])
  BY <1>1 DEF FramesOrder, Remembers, LastIs
<1>3. ASSUME tracker.current # <<>>
      PROVE  fed[Len(fed)] \in ToSet(tracker.current)
  <2> DEFINE q == tracker.current
  <2>1. q \in Seq(Nat) /\ q # <<>> /\ q[Len(q)] = fed[Len(fed)]
    BY <1>1, <1>3 DEF Remembers
  <2> HIDE DEF q
  <2>2. Len(q) \in 1 .. Len(q)
    BY <2>1
  <2>3. fed[Len(fed)] \in ToSet(q)
    BY <2>1, <2>2, InToSet
  <2> QED
    BY <2>3 DEF q
<1> QED
  BY <1>1, <1>2, <1>3

(* Appended, the frame is in the aggregate with what was there.              *)
LEMMA OpenWith ==
    ASSUME Types, NEW h \in Nat
    PROVE  ToSet(Append(tracker.current, h)) = ToSet(tracker.current) \cup {h}
<1> DEFINE q == tracker.current
<1>1. q \in Seq(Nat)
  BY DEF Types, Tracker
<1> HIDE DEF q
<1>2. ToSet(Append(q, h)) = ToSet(q) \cup {h}
  BY <1>1, ToSetAppend
<1> QED
  BY <1>2 DEF q

(* Every step keeps PPDUs apart.                                             *)
LEMMA NeverMergedNext ==
    ASSUME Types, Types', AirOrder, AirSpan, FramesOrder, Remembers, NeverMerged, [Next]_vars
    PROVE  NeverMerged'
<1>0. tracker \in Tracker
  BY DEF Types
<1>1. \A a \in GroupsOf(tracker) : \A i, j \in ToSet(a) : air[i].ppdu = air[j].ppdu
  BY GroupsAre DEF NeverMerged
<1>2. ToSet(Groups)' = GroupsOf(tracker')
  <2>1. tracker'.out \in Seq(Seq(Nat)) /\ tracker'.current \in Seq(Nat)
    BY DEF Types, Tracker
  <2> QED
    BY <2>1, ToSetAppend DEF Groups, GroupsOf
<1>3. SUFFICES ASSUME NEW b \in GroupsOf(tracker'), NEW i \in ToSet(b), NEW j \in ToSet(b)
               PROVE  air'[i].ppdu = air'[j].ppdu
  BY <1>2 DEF NeverMerged
<1>4. ToSet(<<>>) = {} /\ \A h : ToSet(<<h>>) = {h}
  BY DEF ToSet
<1>5. CASE Feeds
  <2>1. PICK h \in 1 .. Len(air) :
               /\ Decoded(h) \in Frame /\ Decoded(h).id = h
               /\ tracker' = Feed(tracker, Decoded(h))
               /\ \A k \in 1 .. Len(fed) : fed[k] \in 1 .. h - 1
               /\ UNCHANGED air
    BY <1>5, FeedEffect
  <2>2. \/ b \in GroupsOf(tracker) \/ b = <<>> \/ b = <<h>>
        \/ /\ Decoded(h).ts # None /\ Contiguous(tracker, Decoded(h))
           /\ b = Append(tracker.current, h)
    <3> DEFINE f == Decoded(h)
    <3>1. f \in Frame /\ f.id = h /\ b \in GroupsOf(Feed(tracker, f))
      BY <2>1
    <3> HIDE DEF f
    <3>2. \/ b \in GroupsOf(tracker) \/ b = <<>> \/ b = <<h>>
          \/ f.ts # None /\ Contiguous(tracker, f) /\ b = Append(tracker.current, h)
      BY <1>0, <3>1, FeedGroups
    <3> QED
      BY <3>2 DEF f
  <2>3. CASE b \in GroupsOf(tracker) \/ b = <<>> \/ b = <<h>>
    BY <1>1, <1>4, <2>1, <2>3
  <2>4. CASE /\ Decoded(h).ts # None /\ Contiguous(tracker, Decoded(h))
             /\ b = Append(tracker.current, h)
    <3>1. tracker.current # <<>> /\ fed # <<>>
      BY <2>4 DEF Contiguous, Remembers
    <3>2. PICK l \in 1 .. Len(air) :
              l \in 1 .. h - 1 /\ LastIs(l) /\ l \in ToSet(tracker.current)
      BY <2>1, <3>1, LastRemembered
    <3>3. air[h].ppdu = air[l].ppdu
      BY <2>4, <3>2, ContiguousSame
    <3>4. ToSet(b) = ToSet(tracker.current) \cup {h} /\ tracker.current \in GroupsOf(tracker)
      <4>1. h \in Nat
        BY DEF Types
      <4> QED
        BY <2>4, <4>1, OpenWith DEF GroupsOf
    <3>5. \A k \in ToSet(b) : air[k].ppdu = air[l].ppdu
      BY <1>1, <3>2, <3>3, <3>4
    <3> QED
      BY <2>1, <3>5
  <2> QED
    BY <2>2, <2>3, <2>4
<1>6. CASE EndLoop
  <2>1. tracker' = Close(tracker) /\ air' = air
    BY <1>6 DEF EndLoop, world
  <2>2. b \in GroupsOf(tracker) \/ b = <<>>
    BY <1>0, <2>1, CloseMoves, CloseGroups DEF GroupsOf
  <2> QED
    BY <1>1, <1>4, <2>1, <2>2
<1>7. CASE ~Feeds /\ ~EndLoop
  <2>1. tracker' = tracker
    BY <1>7, TrackerStays
  <2>2. i \in 1 .. Len(air) /\ j \in 1 .. Len(air)
    BY <2>1 DEF Remembers, GroupsOf
  <2>3. air'[i] = air[i] /\ air'[j] = air[j]
    BY <2>2, SentStays
  <2> QED
    BY <1>1, <2>1, <2>3
<1> QED
  BY <1>5, <1>6, <1>7

(* Subframes in a row that Whole is about.                                   *)
Chained(i, j) ==
    /\ j = i + 1 /\ air[i].ppdu = air[j].ppdu
    /\ air[i].kind.addr # None /\ air[i].kind.stamped /\ air[i].kind.rated
    /\ air[i].at \div TsMod = air[j].at \div TsMod

(* Every step keeps PPDUs whole.                                             *)
LEMMA WholeNext ==
    ASSUME Types, Types', AirOrder, AirSpan, FramesOrder, Remembers, Whole, [Next]_vars
    PROVE  Whole'
<1>0. tracker \in Tracker /\ Len(fed) \in Nat
  BY DEF Types
<1>1. \A n \in 2 .. Len(fed) : Chained(fed[n - 1], fed[n]) =>
          \E a \in GroupsOf(tracker) : {fed[n - 1], fed[n]} \subseteq ToSet(a)
  BY GroupsAre DEF Whole, Chained
<1>2. ToSet(Groups)' = GroupsOf(tracker')
  <2>1. tracker'.out \in Seq(Seq(Nat)) /\ tracker'.current \in Seq(Nat)
    BY DEF Types, Tracker
  <2> QED
    BY <2>1, ToSetAppend DEF Groups, GroupsOf
<1>3. SUFFICES ASSUME NEW n \in 2 .. Len(fed'), NEW i, NEW j, i = fed'[n - 1], j = fed'[n],
                      Chained(i, j)'
               PROVE  \E a \in GroupsOf(tracker') : {i, j} \subseteq ToSet(a)
  BY <1>2 DEF Whole, Chained
<1>4. ToSet(<<>>) = {}
  BY DEF ToSet
<1>5. CASE Feeds
  <2>1. PICK h \in 1 .. Len(air) :
               /\ Decoded(h) \in Frame /\ Decoded(h).id = h
               /\ tracker' = Feed(tracker, Decoded(h))
               /\ Len(fed') = Len(fed) + 1 /\ fed'[Len(fed) + 1] = h
               /\ \A k \in 1 .. Len(fed) : fed'[k] = fed[k] /\ fed[k] \in 1 .. h - 1
               /\ pc = <<"loop", 0>> /\ UNCHANGED air
    BY <1>5, FeedEffect
  <2> DEFINE f == Decoded(h)
  <2>2. f \in Frame /\ f.id = h /\ tracker' = Feed(tracker, f)
    BY <2>1
  <2>3. Chained(i, j)
    BY <1>3, <2>1 DEF Chained
  <2>4. CASE n \in 2 .. Len(fed)
    <3>1. i = fed[n - 1] /\ j = fed[n]
      <4>1. n - 1 \in 1 .. Len(fed) /\ n \in 1 .. Len(fed)
        BY <1>0, <2>4
      <4> QED
        BY <1>3, <2>1, <4>1
    <3>2. PICK a \in GroupsOf(tracker) : {i, j} \subseteq ToSet(a)
      BY <1>1, <2>3, <2>4, <3>1
    <3>3. a # <<>>
      BY <1>4, <3>2
    <3> HIDE DEF f
    <3>4. \E b \in GroupsOf(Feed(tracker, f)) : ToSet(a) \subseteq ToSet(b)
      BY <1>0, <2>2, <3>3, FeedGroups
    <3> QED
      BY <2>2, <3>2, <3>4
  <2>5. CASE n = Len(fed) + 1
    <3>1. fed # <<>> /\ i = fed[Len(fed)] /\ j = h /\ Len(fed) \in 1 .. Len(fed)
      <4>1. Len(fed) \in 1 .. Len(fed) /\ n - 1 = Len(fed)
        BY <1>0, <2>5
      <4>2. fed # <<>>
        BY <4>1
      <4> QED
        BY <1>3, <2>1, <2>5, <4>1, <4>2
    <3>2. PICK l \in 1 .. Len(air) :
              /\ l = i /\ l \in 1 .. h - 1 /\ LastIs(l)
              /\ tracker.current # <<>> => l \in ToSet(tracker.current)
      BY <2>1, <3>1, LastRemembered
    <3>3. /\ h = l + 1 /\ air[h].ppdu = air[l].ppdu
          /\ air[l].kind.addr # None /\ air[l].kind.stamped /\ air[l].kind.rated
          /\ air[h].at \div TsMod = air[l].at \div TsMod
      BY <2>3, <3>1, <3>2 DEF Chained
    <3>4. air[l].kind = air[h].kind /\ air[h].kind.ampdu
      BY <3>2, <3>3 DEF AirOrder, Before
    <3>5. Decoded(l).ampdu /\ Decoded(l).ts # None
      <4>1. air[l].at % TsMod \in Nat
        <5>1. air[l].at \in Nat
          BY <3>2, TimeApart
        <5> QED
          BY <5>1, SurveyAssumption
      <4> QED
        BY <3>3, <3>4, <4>1, DecodedType, SurveyAssumption
    <3>6. tracker.current # <<>>
      BY <2>1, <3>1, <3>2, <3>5 DEF Remembers
    <3>7. f.ampdu /\ f.ts # None /\ Contiguous(tracker, f)
      BY <3>2, <3>3, <3>6, SameContiguous
    <3> HIDE DEF f
    <3>8. Append(tracker.current, h) \in GroupsOf(tracker')
      BY <1>0, <2>2, <3>7, FeedGroups
    <3>9. {i, j} \subseteq ToSet(Append(tracker.current, h))
      <4>1. h \in Nat
        BY DEF Types
      <4> QED
        BY <3>1, <3>2, <3>6, <4>1, OpenWith
    <3> QED
      BY <3>8, <3>9
  <2> QED
    BY <1>0, <2>1, <2>4, <2>5
<1>6. CASE ~Feeds
  <2>1. fed' = fed
    BY <1>6, TrackerStays
  <2>2. i \in 1 .. Len(air) /\ j \in 1 .. Len(air)
    <3>1. n - 1 \in 1 .. Len(fed) /\ n \in 1 .. Len(fed)
      BY <1>0, <2>1
    <3> QED
      BY <1>3, <2>1, <3>1 DEF FramesOrder
  <2>3. air'[i] = air[i] /\ air'[j] = air[j]
    BY <2>2, SentStays
  <2>4. Chained(i, j)
    BY <1>3, <2>3 DEF Chained
  <2>5. PICK a \in GroupsOf(tracker) : {i, j} \subseteq ToSet(a)
    BY <1>1, <1>3, <2>1, <2>4
  <2>6. CASE EndLoop
    <3>1. a # <<>> /\ tracker' = Close(tracker)
      BY <1>4, <1>6, <2>5, <2>6, TrackerStays
    <3>2. a \in GroupsOf(tracker')
      BY <1>0, <3>1, CloseGroups DEF GroupsOf
    <3> QED
      BY <2>5, <3>2
  <2>7. CASE ~EndLoop
    BY <1>6, <2>5, <2>7, TrackerStays
  <2> QED
    BY <2>6, <2>7
<1> QED
  BY <1>5, <1>6

-----------------------------------------------------------------------------
(* The invariant                                                            *)

(* A dwell begins with it.                                                   *)
LEMMA InitInv ==
    ASSUME Init
    PROVE  IInv
<1>1. Types
  BY TypesInit
<1>2. air = <<>> /\ rx = <<>> /\ fed = <<>> /\ Len(air) = 0 /\ Len(rx) = 0 /\ Len(fed) = 0
  BY DEF Init
<1>3. \A n \in Reads : value[n] = None /\ seen[n] = None
  BY DEF Init
<1>4. AirOrder /\ FramesOrder /\ ReplyPlace
  BY <1>2 DEF AirOrder, FramesOrder, ReplyPlace
<1>5. AirSpan
  BY <1>2 DEF AirSpan
<1>6. BusySpan
  <2>1. busy \in 0 .. busy /\ busy - busy <= Len(air) * 0
    BY <1>1, <1>2 DEF Types
  <2> QED
    BY <1>3, <2>1 DEF BusySpan
<1>7. Steps
  BY <1>2, <1>3 DEF Init, Steps, Unasked, Reads
<1>8. ValueSays /\ Between /\ Losses
  BY <1>2, <1>3 DEF ValueSays, Between, Losses, Reads
<1>9. tracker.current = <<>> /\ tracker.out = <<>>
  BY DEF Init, Fresh
<1>10. ToSet(<<>>) = {}
  BY DEF ToSet
<1>11. Remembers
  <2>1. FlattenSeq(<<>>) = <<>>
    BY DEF FlattenSeq
  <2>2. <<>> \o <<>> = <<>>
    OBVIOUS
  <2>3. FlattenSeq(tracker.out) \o tracker.current = fed
    BY <1>2, <1>9, <2>1, <2>2
  <2> QED
    BY <1>2, <1>9, <1>10, <2>3 DEF Remembers
<1>12. Ppdus
  <2>1. ToSet(Groups) = GroupsOf(tracker)
    BY <1>1, GroupsAre
  <2>2. \A a \in GroupsOf(tracker) : a = <<>>
    BY <1>9, <1>10 DEF GroupsOf
  <2>3. NeverMerged
    BY <1>10, <2>1, <2>2 DEF NeverMerged
  <2>4. Whole
    BY <1>2 DEF Whole
  <2> QED
    BY <2>3, <2>4 DEF Ppdus
<1> QED
  BY <1>1, <1>4, <1>5, <1>6, <1>7, <1>8, <1>11, <1>12 DEF IInv

(* Every step keeps it.                                                      *)
LEMMA NextInv ==
    ASSUME IInv, [Next]_vars
    PROVE  IInv'
<1>1. /\ Types /\ AirOrder /\ AirSpan /\ BusySpan /\ Steps /\ FramesOrder
      /\ ReplyPlace /\ ValueSays /\ Between /\ Losses /\ Remembers
      /\ NeverMerged /\ Whole
  BY DEF IInv, Ppdus
<1>2. Types'
  BY <1>1, TypesNext
<1>3. AirOrder' /\ AirSpan' /\ BusySpan'
  BY <1>1, AirOrderNext, AirSpanNext, BusySpanNext
<1>4. Steps' /\ FramesOrder'
  BY <1>1, StepsNext, FramesOrderNext
<1>5. ReplyPlace' /\ ValueSays' /\ Between'
  BY <1>1, ReplyPlaceNext, ValueSaysNext, BetweenNext
<1>6. Losses'
  BY <1>1, <1>2, <1>5, LossesNext
<1>7. Remembers'
  BY <1>1, RemembersNext
<1>8. Ppdus'
  BY <1>1, <1>2, NeverMergedNext, WholeNext DEF Ppdus
<1> QED
  BY <1>2, <1>3, <1>4, <1>5, <1>6, <1>7, <1>8 DEF IInv

(* The strengthened invariant holds in every dwell.                          *)
THEOREM DwellInvariant == Spec => []IInv
<1>1. Init => IInv
  BY InitInv
<1>2. IInv /\ [Next]_vars => IInv'
  BY NextInv
<1> QED
  BY <1>1, <1>2, PTL DEF Spec

(* The variables have their types: no read returns more than a 32-bit        *)
(* counter shows.                                                            *)
THEOREM TypesHold == Spec => []TypeOK
<1>1. ASSUME IInv PROVE TypeOK
  <2>1. Types
    BY <1>1 DEF IInv
  <2>2. pc[1] \in {"ask", "wait", "loop", "done"} /\ pc[2] \in 0 .. 2
    BY <2>1 DEF Types, Places
  <2>3. tracker.air \in {0} \cup Airs /\ tracker.ts \in {None} \cup 0 .. TsMod - 1
    BY <2>1 DEF Types, Tracker
  <2> QED
    BY <2>1, <2>2, <2>3 DEF Types, TypeOK
<1> QED
  BY <1>1, DwellInvariant, PTL

(* The frames billed are frames of the counter's own interval, and those     *)
(* missing are reported.                                                     *)
LEMMA InvBracketed ==
    ASSUME IInv
    PROVE  Bracketed
<1>1. Types /\ FramesOrder /\ ValueSays /\ Between /\ Losses
  BY DEF IInv
<1>2. SUFFICES ASSUME pc = <<"done", 0>>, value[1] # None, value[2] # None
               PROVE  LET window == {i \in seen[1].frames + 1 .. seen[2].frames : air[i].got}
                          billed == ToSet(fed)
                      IN /\ billed \subseteq window
                         /\ Cardinality(window \ billed) <= dropped + errors
  BY DEF Bracketed, Known
<1> DEFINE window == {i \in seen[1].frames + 1 .. seen[2].frames : air[i].got}
           billed == ToSet(fed)
<1>3. /\ seen[1] # None /\ seen[2] # None
      /\ seen[1].frames \in Nat /\ seen[2].frames \in Nat /\ seen[2].frames <= Len(air)
      /\ Len(air) \in Nat
  <2>1. 1 \in Reads /\ 2 \in Reads
    BY DEF Reads
  <2>2. seen[1] # None /\ seen[2] # None
    BY <1>1, <1>2, <2>1 DEF ValueSays
  <2> QED
    BY <1>1, <2>1, <2>2, SeenType DEF ValueSays, Types
<1>4. billed \subseteq window
  <2>1. ASSUME NEW x \in billed
        PROVE  x \in window
    <3>1. PICK i \in 1 .. Len(fed) : fed[i] = x
      BY <1>1, <2>1, InToSet DEF Types
    <3>2. x \in 1 .. Len(air) /\ air[x].got
      BY <1>1, <3>1 DEF FramesOrder
    <3>3. x > seen[1].frames /\ x <= seen[2].frames
      BY <1>1, <1>2, <1>3, <3>1 DEF Between
    <3> QED
      BY <1>3, <3>2, <3>3
  <2> QED
    BY <2>1
<1>5. window \ billed \subseteq Lost
  <2>1. ASSUME NEW i \in window \ billed
        PROVE  i \in Lost
    <3>1. /\ i \in seen[1].frames + 1 .. seen[2].frames /\ air[i].got
          /\ i \notin ToSet(fed)
      BY <2>1
    <3>2. i \in seen[1].frames + 1 .. Len(air) /\ i # 0
      BY <1>3, <3>1
    <3>3. ASSUME NEW k \in 1 .. Len(rx), rx[k].frame = i
          PROVE  FALSE
      <4>1. rx[k].frame > seen[2].frames
        BY <1>1, <1>2, <3>2, <3>3 DEF ValueSays, Reads
      <4> QED
        BY <1>3, <3>1, <3>3, <4>1
    <3> QED
      BY <3>1, <3>2, <3>3 DEF Lost
  <2> QED
    BY <2>1
<1>6. Cardinality(window \ billed) <= dropped + errors
  <2>1. /\ IsFiniteSet(Lost) /\ Cardinality(Lost) \in Nat
        /\ Cardinality(Lost) <= dropped + errors
    BY <1>1, <1>2, <1>3, LostFinite DEF Losses
  <2>2. /\ IsFiniteSet(window \ billed)
        /\ Cardinality(window \ billed) <= Cardinality(Lost)
    BY <1>5, <2>1, FS_Subset
  <2>3. Cardinality(window \ billed) \in Nat
    BY <2>2, FS_CardinalityType
  <2>4. dropped \in Nat /\ errors \in Nat
    BY <1>1 DEF Types
  <2> HIDE DEF window, billed
  <2> QED
    BY <2>1, <2>2, <2>3, <2>4
<1> QED
  BY <1>4, <1>6

(* The difference of two readings less than a cycle apart, modulo the cycle,  *)
(* is the true difference.                                                   *)
LEMMA DifferenceIsTrue ==
    ASSUME NEW K \in Nat \ {0}, NEW a \in Nat, NEW b \in Nat, a <= b, b - a < K
    PROVE  ((b % K) - (a % K)) % K = b - a
<1> DEFINE r == (b % K) - (a % K)
           d == b - a
<1>1. d \in 0 .. K - 1 /\ K \in Nat \ {0}
  OBVIOUS
<1>2. r = d \/ r = d - K
  BY OneWrap
<1> HIDE DEF r, d
<1>3. d % K = d
  BY <1>1, SMT
<1>4. (d - K) % K = d
  BY <1>1, SMT
<1>5. r % K = d
  BY <1>2, <1>3, <1>4
<1> QED
  BY <1>5 DEF r, d

(* busy_us is the busy time between the samples.                             *)
LEMMA InvOccupancy ==
    ASSUME IInv
    PROVE  Occupancy
<1>1. Types /\ BusySpan /\ ValueSays /\ Between
  BY DEF IInv
<1>2. SUFFICES ASSUME value[1] # None, value[2] # None
               PROVE  Busy = seen[2].busy - seen[1].busy
  BY DEF Occupancy, Known
<1>3. /\ seen[1] # None /\ seen[2] # None
      /\ value[1] = seen[1].busy % CntMod /\ value[2] = seen[2].busy % CntMod
      /\ seen[1].busy \in Nat /\ seen[2].busy \in Nat
  <2>1. 1 \in Reads /\ 2 \in Reads
    BY DEF Reads
  <2>2. /\ seen[1] # None /\ seen[2] # None
        /\ value[1] = seen[1].busy % CntMod /\ value[2] = seen[2].busy % CntMod
    BY <1>1, <1>2, <2>1 DEF ValueSays
  <2> QED
    BY <1>1, <2>1, <2>2, SeenType
<1>4. seen[1].busy <= seen[2].busy
  BY <1>1, <1>2, <1>3 DEF Between
<1>5. seen[2].busy - seen[1].busy < CntMod
  <2>1. PICK m \in {0} \cup Airs, b \in 0 .. busy :
            /\ busy - b <= Len(air) * m
            /\ seen[1].busy \in b .. busy /\ seen[2].busy \in b .. busy
    BY <1>1, <1>3 DEF BusySpan, Reads
  <2>2. busy \in Nat /\ Len(air) \in Nat /\ Len(air) <= MaxFrames /\ MaxFrames \in Nat
    BY <1>1, SurveyAssumption DEF Types
  <2>3. m \in Nat /\ CntMod \in Nat \ {0}
    BY SurveyAssumption
  <2>4. MaxFrames * m < CntMod
    <3>1. CASE m = 0
      <4>1. MaxFrames * 0 = 0
        BY <2>2, SMT
      <4> QED
        BY <2>3, <3>1, <4>1
    <3>2. CASE m # 0
      BY <3>2, SurveyAssumption
    <3> QED
      BY <3>1, <3>2
  <2>5. /\ Len(air) * m <= MaxFrames * m
        /\ Len(air) * m \in Nat /\ MaxFrames * m \in Nat
    BY <2>2, <2>3, ProductGrows
  <2> DEFINE x == seen[1].busy
             y == seen[2].busy
             B == Len(air) * m
             C == MaxFrames * m
  <2>6. /\ x \in b .. busy /\ y \in b .. busy /\ busy - b <= B /\ B <= C /\ C < CntMod
        /\ B \in Nat /\ C \in Nat /\ b \in 0 .. busy /\ busy \in Nat /\ CntMod \in Nat
    BY <2>1, <2>2, <2>3, <2>4, <2>5
  <2> HIDE DEF x, y, B, C
  <2>7. y - x < CntMod
    BY <2>6
  <2> QED
    BY <2>7 DEF x, y
<1>6. CntMod \in Nat \ {0}
  BY SurveyAssumption
<1> DEFINE x == seen[1].busy
           y == seen[2].busy
<1>7. x \in Nat /\ y \in Nat /\ x <= y /\ y - x < CntMod
  BY <1>3, <1>4, <1>5
<1>8. Busy = ((y % CntMod) - (x % CntMod)) % CntMod
  BY <1>3 DEF Busy
<1> HIDE DEF x, y
<1>9. Busy = y - x
  BY <1>6, <1>7, <1>8, DifferenceIsTrue
<1> QED
  BY <1>9 DEF x, y

(* What mib_survey.py reports as undecoded residual is busy time less airtime *)
(* of one and the same interval: the frames billed lie between the samples,  *)
(* those missing are reported, and the difference of the counters is the     *)
(* busy time, wrapped or not.                                                *)
THEOREM OneInterval == Spec => []SameInterval
<1>1. IInv => SameInterval
  BY InvBracketed, InvOccupancy DEF SameInterval
<1> QED
  BY <1>1, DwellInvariant, PTL

(* AggregationTracker bills every frame exactly once and in order, and after  *)
(* the flush none is left behind.                                            *)
THEOREM BilledOnce == Spec => []Conserved
<1>1. ASSUME IInv PROVE Conserved
  <2>1. Types /\ Remembers
    BY <1>1 DEF IInv
  <2>2. tracker.out \in Seq(Seq(Nat)) /\ tracker.current \in Seq(Nat)
    BY <2>1 DEF Types, Tracker
  <2>3. FlattenSeq(Groups) = FlattenSeq(tracker.out) \o tracker.current
    BY <2>2, FlattenAppend DEF Groups
  <2>4. pc[1] = "done" => tracker.current = <<>>
    <3>1. tracker.current # <<>> => pc = <<"loop", 0>>
      BY <2>1 DEF Remembers
    <3>2. pc = <<"loop", 0>> => pc[1] = "loop"
      OBVIOUS
    <3> QED
      BY <3>1, <3>2
  <2> QED
    BY <2>1, <2>3, <2>4 DEF Conserved, Remembers
<1> QED
  BY <1>1, DwellInvariant, PTL

(* Aggregates are PPDUs: never two in one, and never one in two where the    *)
(* descriptors say enough and the timestamp does not wrap.                   *)
THEOREM AggregatesArePpdus == Spec => []Ppdus
<1>1. IInv => Ppdus
  BY DEF IInv
<1> QED
  BY <1>1, DwellInvariant, PTL

=============================================================================
