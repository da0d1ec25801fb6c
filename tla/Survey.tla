------------------------------- MODULE Survey -------------------------------
(***************************************************************************)
(* One dwell of scripts/mib_survey.py: how much of the time that a channel *)
(* was busy did the decoder see? The firmware's counter of busy time is    *)
(* read before and after a loop that reads frames, and the frames' airtime *)
(* is taken from the counter's difference. Both come over one endpoint in  *)
(* the order they happened, and both read commands discard the frames that *)
(* are in front of their reply.                                            *)
(*                                                                         *)
(* External: the air (PPDUs of stations, of which the radio may miss any   *)
(* subframe), the firmware, and the endpoint's queue.                      *)
(***************************************************************************)
EXTENDS Aggregation, FiniteSets, SequencesExt

CONSTANTS
    Kinds,      \* PPDUs: [ampdu, addr, stamped, rated]
    Airs,       \* airtimes of a subframe
    Gap,        \* silence between two PPDUs of one station
    TsMod,      \* 2^32: where the timestamp wraps
    CntMod,     \* COUNTER32_MODULUS
    Starts,     \* what the two counters may stand at when the dwell begins
    MaxFrames,  \* bound: subframes on the air
    Depth       \* bound: packets in the endpoint's queue

ASSUME SurveyAssumption ==
    /\ None \notin Nat \cup [frames : Nat, busy : Nat]
    /\ \A k \in Kinds : k.ampdu \in BOOLEAN
    /\ Airs \subseteq Nat \ {0}
    \* "1000 us and up against sub-30 us within", and SLACK_US is 24.
    /\ Gap \in Nat /\ Gap > Slack
    /\ TsMod \in Nat \ {0} /\ CntMod \in Nat \ {0}
    /\ Starts \subseteq Nat
    /\ MaxFrames \in Nat /\ Depth \in Nat
    \* A dwell is shorter than a cycle of either counter (71 minutes).
    /\ \A a \in Airs : /\ MaxFrames * (a + Gap) < TsMod
                        /\ MaxFrames * a < CntMod

VARIABLES
    air,        \* history: the subframes, as they were sent
    busy,       \* the busy time so far; the counter shows it mod CntMod
    rx,         \* the endpoint: [frame, cmd, value], one of the first two 0
    asked,      \* read commands the firmware has not handled
    pc,         \* what dwell does: <<"ask", n>>, <<"wait", n>>, <<"loop", 0>>
    value,      \* what each of the reads returned
    dropped,    \* mcu_wait_dropped_frames, less dropped_before
    errors,     \* usb_errors
    tracker,    \* aggregates
    fed,        \* history: the frames given to the tracker
    seen        \* history: [frames, busy] when the firmware took a sample

world == <<air, busy>>
vars == <<air, busy, rx, asked, pc, value, dropped, errors, tracker, fed, seen>>

Reads == {1, 2}     \* read_cca before the loop and after it

Init ==
    /\ air = <<>>
    /\ busy \in Starts
    /\ rx = <<>>
    /\ asked \in SUBSET {0}        \* an earlier command whose reply is late
    /\ pc = <<"ask", 1>>
    /\ value = [n \in Reads |-> None]
    /\ dropped \in {0, 1}          \* by the commands before
    /\ errors = 0
    /\ tracker = Fresh
    /\ fed = <<>>
    /\ seen = [n \in Reads |-> None]

-----------------------------------------------------------------------------
(* The air. A subframe follows its predecessor in the same PPDU when that   *)
(* one's airtime is over, give or take; another station may start at once,  *)
(* a station that was on the air before only Gap after it was.              *)

Send(kind, at, long, ppdu, got) ==
    /\ air' = Append(air, [kind |-> kind, at |-> at, air |-> long,
                           ppdu |-> ppdu, got |-> got])
    /\ busy' = busy + long
    /\ rx' = IF got THEN Append(rx, [frame |-> Len(air'), cmd |-> 0,
                                     value |-> None])
             ELSE rx
    /\ UNCHANGED <<asked, pc, value, dropped, errors, tracker, fed, seen>>

Free(addr, at) ==
    \A j \in DOMAIN air :
        air[j].kind.addr = addr => air[j].at + air[j].air + Gap <= at

Air ==
    /\ Len(air) < MaxFrames
    /\ pc # <<"done", 0>>
    /\ \E long \in Airs, got \in BOOLEAN :
          /\ got => Len(rx) < Depth
          /\ \/ /\ air = <<>>
                /\ \E kind \in Kinds, at \in Starts :
                      Send(kind, at, long, 1, got)
             \/ /\ air # <<>>
                /\ LET last == air[Len(air)]
                       over == last.at + last.air
                   IN \/ /\ last.kind.ampdu
                         /\ \E late \in {0, Slack} :
                               Send(last.kind, over + late, long, last.ppdu, got)
                      \/ \E kind \in Kinds :
                            Send(kind,
                                 IF Free(kind.addr, over) THEN over ELSE over + Gap,
                                 long, last.ppdu + 1, got)

(* The firmware handles a read: the sample is taken now, the reply queued   *)
(* behind the frames that are already there.                                *)
Answer ==
    /\ Len(rx) < Depth
    /\ \E n \in asked :
          /\ rx' = Append(rx, [frame |-> 0, cmd |-> n, value |-> busy % CntMod])
          /\ asked' = asked \ {n}
          /\ seen' = [i \in Reads |->
                         IF i = n THEN [frames |-> Len(air), busy |-> busy]
                         ELSE seen[i]]
    /\ UNCHANGED <<world, pc, value, dropped, errors, tracker, fed>>

-----------------------------------------------------------------------------
(* read_cca. The reads of mcu_counters are before the first and after the   *)
(* last of these, and the dwell makes nothing of what they return.          *)

After(n) == IF n = 1 THEN <<"loop", 0>> ELSE <<"done", 0>>

(* dropped_before is taken just before the first read_cca.                  *)
Ask(n) ==
    /\ pc = <<"ask", n>>
    /\ pc' = <<"wait", n>>
    /\ asked' = asked \cup {n}
    /\ dropped' = IF n = 1 THEN 0 ELSE dropped
    /\ UNCHANGED <<world, rx, value, errors, tracker, fed, seen>>

(* Faulty variant: dropped is computed before the second read.              *)
WaitUncounted(n) ==
    /\ pc = <<"wait", n>>
    /\ rx # <<>>
    /\ rx' = Tail(rx)
    /\ IF Head(rx).cmd = n
       THEN /\ value' = [value EXCEPT ![n] = Head(rx).value]
            /\ pc' = After(n)
            /\ UNCHANGED dropped
       ELSE /\ dropped' = IF n = 1 /\ Head(rx).frame # 0 THEN dropped + 1
                          ELSE dropped
            /\ UNCHANGED <<pc, value>>
    /\ UNCHANGED <<world, asked, errors, tracker, fed, seen>>

(* mcu_wait discards what is not the reply; frames it counts.               *)
Wait(n) ==
    /\ pc = <<"wait", n>>
    /\ rx # <<>>
    /\ rx' = Tail(rx)
    /\ IF Head(rx).cmd = n
       THEN /\ value' = [value EXCEPT ![n] = Head(rx).value]
            /\ pc' = After(n)
            /\ UNCHANGED dropped
       ELSE /\ dropped' = IF Head(rx).frame # 0 THEN dropped + 1 ELSE dropped
            /\ UNCHANGED <<pc, value>>
    /\ UNCHANGED <<world, asked, errors, tracker, fed, seen>>

(* The read or the wait timed out, or failed: None.                         *)
GiveUp(n) ==
    /\ pc = <<"wait", n>>
    /\ pc' = After(n)
    /\ UNCHANGED <<world, rx, asked, value, dropped, errors, tracker, fed, seen>>

-----------------------------------------------------------------------------
(* The loop                                                                 *)

(* What the decoder makes of a subframe.                                    *)
Decoded(i) ==
    LET f == air[i]
    IN [id |-> i, ampdu |-> f.kind.ampdu, addr |-> f.kind.addr,
        ts |-> IF f.kind.stamped THEN f.at % TsMod ELSE None,
        air |-> IF f.kind.rated THEN f.air ELSE 0]

(* A late reply decodes to no frame.                                        *)
ReadPacket ==
    /\ pc = <<"loop", 0>>
    /\ rx # <<>>
    /\ rx' = Tail(rx)
    /\ IF Head(rx).frame # 0
       THEN /\ tracker' = Feed(tracker, Decoded(Head(rx).frame))
            /\ fed' = Append(fed, Head(rx).frame)
       ELSE UNCHANGED <<tracker, fed>>
    /\ UNCHANGED <<world, asked, pc, value, dropped, errors, seen>>

(* A transfer that fails may be lost.                                       *)
ReadError ==
    /\ pc = <<"loop", 0>>
    /\ errors' = errors + 1
    /\ rx # <<>> /\ rx' = Tail(rx)
    /\ UNCHANGED <<world, asked, pc, value, dropped, tracker, fed, seen>>

(* Faulty variant: the last aggregate is not flushed.                       *)
EndLoopUnflushed ==
    /\ pc = <<"loop", 0>>
    /\ pc' = <<"ask", 2>>
    /\ tracker' = [tracker EXCEPT !.current = <<>>]
    /\ UNCHANGED <<world, rx, asked, value, dropped, errors, fed, seen>>

(* The dwell is over: flush.                                                *)
EndLoop ==
    /\ pc = <<"loop", 0>>
    /\ pc' = <<"ask", 2>>
    /\ tracker' = Close(tracker)
    /\ UNCHANGED <<world, rx, asked, value, dropped, errors, fed, seen>>

Next ==
    \/ Air \/ Answer
    \/ \E n \in Reads : Ask(n) \/ Wait(n) \/ GiveUp(n)
    \/ ReadPacket \/ ReadError \/ EndLoop

Spec == Init /\ [][Next]_vars

-----------------------------------------------------------------------------
(* What dwell reports                                                       *)

Known == value[1] # None /\ value[2] # None

(* busy_us                                                                  *)
Busy == (value[2] - value[1]) % CntMod

-----------------------------------------------------------------------------
(* Properties                                                               *)

TypeOK ==
    /\ Len(air) <= MaxFrames /\ Len(rx) <= Depth
    /\ asked \subseteq {0} \cup Reads
    /\ pc[1] \in {"ask", "wait", "loop", "done"} /\ pc[2] \in 0 .. 2
    /\ \A n \in Reads : value[n] \in {None} \cup 0 .. CntMod - 1
    /\ dropped \in Nat /\ errors \in Nat
    /\ tracker.air \in {0} \cup Airs
    /\ tracker.ts \in {None} \cup 0 .. TsMod - 1

(* The frames whose airtime is taken from the busy time are frames of the   *)
(* counter's own interval: none from before it (of the channel tuned to     *)
(* last, say), none from after it, and those missing are reported as        *)
(* dropped or as errors.                                                    *)
Bracketed ==
    pc = <<"done", 0>> /\ Known =>
        LET window == {i \in seen[1].frames + 1 .. seen[2].frames : air[i].got}
            billed == ToSet(fed)
        IN /\ billed \subseteq window
           /\ Cardinality(window \ billed) <= dropped + errors

(* The frames reported as dropped by the two reads are frames of the        *)
(* counter's interval, as the warning in the result says. The first read    *)
(* discards frames from before its sample too, so this does not hold.       *)
DroppedInside ==
    pc = <<"done", 0>> /\ Known =>
        dropped <= Cardinality({i \in seen[1].frames + 1 .. seen[2].frames :
                                  air[i].got /\ i \notin ToSet(fed)})

(* busy_us is the busy time between the two samples, also when the counter  *)
(* wraps between them.                                                      *)
Occupancy ==
    pc = <<"done", 0>> /\ Known =>
        Busy = seen[2].busy - seen[1].busy

(* What the script reports as the undecoded residual is busy time and       *)
(* airtime of one interval.                                                 *)
SameInterval == Bracketed /\ Occupancy

Groups == Append(tracker.out, tracker.current)

(* Every frame is billed exactly once, in the order it was received.        *)
Conserved ==
    /\ FlattenSeq(Groups) = fed
    /\ pc[1] = "done" => tracker.current = <<>>

(* An aggregate never spans two PPDUs: no preamble is left out.             *)
NeverMerged ==
    \A a \in ToSet(Groups) : \A i, j \in ToSet(a) : air[i].ppdu = air[j].ppdu

(* Two subframes in a row of one A-MPDU are never charged two preambles,    *)
(* unless the descriptor left out what the tracker needs or the timestamp   *)
(* wrapped between them.                                                    *)
Whole ==
    \A n \in 2 .. Len(fed) :
        LET i == fed[n - 1]
            j == fed[n]
            kind == air[i].kind
        IN /\ j = i + 1 /\ air[i].ppdu = air[j].ppdu
           /\ kind.addr # None /\ kind.stamped /\ kind.rated
           /\ air[i].at \div TsMod = air[j].at \div TsMod
           => \E a \in ToSet(Groups) : {i, j} \subseteq ToSet(a)

(* Aggregates are the PPDUs that were on the air, as far as the code can     *)
(* tell: neither merged nor split.                                          *)
Ppdus == NeverMerged /\ Whole
=============================================================================
