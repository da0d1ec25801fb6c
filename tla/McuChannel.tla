----------------------------- MODULE McuChannel -----------------------------
(***************************************************************************)
(* The host's MCU command channel: mcu_send/mcu_cmd_word/mcu_uni and       *)
(* mcu_wait of mt7921u.py (driver = "python") and of c/mt7921_mcu.c        *)
(* (driver = "c"), the firmware that answers, and the capture loop that    *)
(* reads the same bulk IN endpoint.                                        *)
(*                                                                         *)
(* With MT_WFDMA_HOST_CONFIG_USB_RXEVT_EP4_EN set, command replies share   *)
(* the endpoint with received 802.11 frames, transmit status and           *)
(* unsolicited events. A reply is recognised by a 4-bit sequence that      *)
(* skips 0 and therefore repeats every SeqMod - 1 commands; commands sent  *)
(* without waiting use up sequences too. The command number (id) below is  *)
(* a history variable: the code only ever sees the sequence.               *)
(***************************************************************************)
EXTENDS Integers, Sequences, FiniteSets

CONSTANTS
    SeqMod,      \* 16 in the code: msg_seq is masked with 0xF
    MaxSends,    \* bound: commands sent in a behaviour
    RxDepth,     \* bound: packets the endpoint holds
    CounterMod   \* width of the counters (uint32_t in C)

ASSUME SeqModAssumption == SeqMod \in Nat /\ SeqMod > 1
ASSUME BoundAssumption ==
    /\ MaxSends \in Nat
    /\ RxDepth \in Nat
    /\ CounterMod \in Nat \ {0}

VARIABLES
    driver,     \* "python" or "c"
    msg_seq,    \* the last sequence used
    sent,       \* how many commands have been numbered
    phase,      \* "idle", or where mcu_wait is: "check" its deadline, "read"
    call,       \* the command mcu_wait is (or was last) waiting for
    elapsed,    \* time in this wait, in units of the command's timeout
    outcome,    \* how the last wait ended
    answer,     \* the id of the command whose reply was accepted
    owed,       \* commands the firmware has and may still answer
    rx,         \* the bulk IN endpoint, oldest packet first
    counter,    \* dropped_frames, stale_events, other_packets
    unclaimed   \* packets the device put on the endpoint, less those handed to
                \* the capture loop, accepted as a reply or lost with a command

hostVars == <<driver, msg_seq, sent, phase, call, elapsed, outcome, answer>>
vars == <<driver, msg_seq, sent, phase, call, elapsed, outcome, answer,
          owed, rx, counter, unclaimed>>

-----------------------------------------------------------------------------
(* Packets. Only what mcu_wait tells apart is kept: the packet type, the    *)
(* NORMAL_MCU flag, a length below MCU_RXD_LEN, and the byte at the         *)
(* sequence offset, which in a frame is payload and can be anything.        *)

Seqs == 0 .. SeqMod - 1
Ids == 0 .. MaxSends

Packet == [type : {"normal", "rx_event", "status"}, mcu_flag : BOOLEAN,
           short : BOOLEAN, seq : Seqs, id : Ids]

Category == {"frame", "event", "other"}

(* A frame carries PKT_TYPE_NORMAL, or PKT_TYPE_RX_EVENT with the flag set. *)
IsFrame(p) == p.type = "normal" \/ (p.type = "rx_event" /\ p.mcu_flag)

CategoryOf(p) == IF IsFrame(p) THEN "frame"
                 ELSE IF p.type = "rx_event" THEN "event" ELSE "other"

(* What the device itself put there, whatever the host makes of it.         *)
Frames == [type : {"normal"}, mcu_flag : {FALSE}, short : {FALSE},
           seq : Seqs, id : {0}]
          \cup [type : {"rx_event"}, mcu_flag : {TRUE}, short : {FALSE},
                seq : Seqs, id : {0}]
Status == [type |-> "status", mcu_flag |-> FALSE, short |-> FALSE,
           seq |-> 0, id |-> 0]
Event(s, i) == [type |-> "rx_event", mcu_flag |-> FALSE, short |-> FALSE,
                seq |-> s, id |-> i]
Short == [type |-> "status", mcu_flag |-> FALSE, short |-> TRUE,
          seq |-> 0, id |-> 0]

Inc(f, c) == [f EXCEPT ![c] = (@ + 1) % CounterMod]
Dec(f, c) == [f EXCEPT ![c] = (@ + CounterMod - 1) % CounterMod]

-----------------------------------------------------------------------------
Init ==
    /\ driver \in {"python", "c"}
    /\ msg_seq = 0
    /\ sent = 0
    /\ phase = "idle"
    /\ call = [id |-> 0, seq |-> 0]
    /\ elapsed = 0
    /\ outcome = "none"
    /\ answer = 0
    /\ owed = {}
    /\ rx = <<>>
    /\ counter = [c \in Category |-> 0]
    /\ unclaimed = [c \in Category |-> 0]

(* Faulty variant: the sequence is not masked.                              *)
NextSeqUnmasked(s) == s + 1

(* Faulty variant: 0 is not skipped.                                        *)
NextSeqNoSkip(s) == (s + 1) % SeqMod

(* _next_seq: advance, and skip 0, which marks events nobody asked for.     *)
NextSeq(s) == LET n == (s + 1) % SeqMod
              IN  IF n = 0 THEN (n + 1) % SeqMod ELSE n

(* Every send path numbers the command before it touches the endpoint, so   *)
(* the sequence is used up even when the bulk write then fails.             *)
Number ==
    /\ phase = "idle"
    /\ sent < MaxSends
    /\ msg_seq' = NextSeq(msg_seq)
    /\ sent' = sent + 1
    /\ UNCHANGED driver

(* wait=False: firmware chunks, nic_power_ctrl, the MT7921's set_rxfilter.  *)
(* The firmware may answer all the same.                                    *)
SendNoWait ==
    /\ Number
    /\ owed' = owed \cup {[id |-> sent', seq |-> msg_seq']}
    /\ UNCHANGED <<phase, call, elapsed, outcome, answer, rx, counter, unclaimed>>

SendAndWait ==
    /\ Number
    /\ owed' = owed \cup {[id |-> sent', seq |-> msg_seq']}
    /\ call' = [id |-> sent', seq |-> msg_seq']
    /\ phase' = "check"
    /\ elapsed' = 0
    /\ outcome' = "none"
    /\ answer' = 0
    /\ UNCHANGED <<rx, counter, unclaimed>>

(* bulk_out raises or returns an error: the command never left the host.    *)
SendFails ==
    /\ Number
    /\ UNCHANGED <<phase, call, elapsed, outcome, answer, owed, rx, counter, unclaimed>>

-----------------------------------------------------------------------------
(* mcu_wait                                                                 *)

Deadline == 4     \* the deadline is four timeouts after the wait began

Fail ==
    /\ phase' = "idle"
    /\ outcome' = "error"
    /\ UNCHANGED <<driver, msg_seq, sent, call, elapsed, answer>>

(* Faulty variant: no deadline.                                             *)
BeginReadForever ==
    /\ phase = "check"
    /\ phase' = "read"
    /\ UNCHANGED <<driver, msg_seq, sent, call, elapsed, outcome, answer, owed,
                   rx, counter, unclaimed>>

(* The loop condition: start another read, or give up.                      *)
BeginRead ==
    /\ phase = "check"
    /\ elapsed < Deadline
    /\ phase' = "read"
    /\ UNCHANGED <<driver, msg_seq, sent, call, elapsed, outcome, answer, owed,
                   rx, counter, unclaimed>>

GiveUp ==
    /\ phase = "check"
    /\ ~(elapsed < Deadline)
    /\ Fail
    /\ UNCHANGED <<owed, rx, counter, unclaimed>>

(* A packet arrived in time: pkt is what bulk_in returned.                  *)
pkt == Head(rx)

Reading ==
    /\ phase = "read"
    /\ rx # <<>>
    /\ rx' = Tail(rx)

(* Faulty variant: the NORMAL_MCU flag is not looked at.                    *)
IsEventAnyFlag(p) == ~p.short /\ p.type = "rx_event"

IsEvent(p) == ~p.short /\ p.type = "rx_event" /\ ~IsFrame(p)

(* Faulty variant: any answered command will do.                            *)
MatchesAnyCommand(p) == p.seq # 0

Matches(p) == p.seq = call.seq

LoopAgain ==
    /\ phase' = "check"
    /\ UNCHANGED <<driver, msg_seq, sent, call, elapsed, outcome, answer>>

SkipShort ==
    /\ Reading
    /\ pkt.short
    /\ LoopAgain
    /\ UNCHANGED <<owed, counter, unclaimed>>

(* Faulty variant: a flagged frame is counted as another packet.            *)
DropByType ==
    /\ Reading
    /\ ~pkt.short /\ ~IsEvent(pkt)
    /\ counter' = Inc(counter, IF pkt.type = "normal" THEN "frame" ELSE "other")
    /\ LoopAgain
    /\ UNCHANGED <<owed, unclaimed>>

(* A frame or status packet read on the way to the reply is lost to the     *)
(* capture and counted.                                                     *)
DropPacket ==
    /\ Reading
    /\ ~pkt.short /\ ~IsEvent(pkt)
    /\ counter' = Inc(counter, IF IsFrame(pkt) THEN "frame" ELSE "other")
    /\ LoopAgain
    /\ UNCHANGED <<owed, unclaimed>>

SkipStale ==
    /\ Reading
    /\ IsEvent(pkt) /\ ~Matches(pkt)
    /\ counter' = Inc(counter, "event")
    /\ LoopAgain
    /\ UNCHANGED <<owed, unclaimed>>

Accept ==
    /\ Reading
    /\ IsEvent(pkt) /\ Matches(pkt)
    /\ unclaimed' = Dec(unclaimed, "event")
    /\ phase' = "idle"
    /\ outcome' = "ok"
    /\ answer' = pkt.id
    /\ UNCHANGED <<driver, msg_seq, sent, call, elapsed, owed, counter>>

(* C only: a reply longer than the caller's buffer is refused, and gone.    *)
RejectTruncated ==
    /\ driver = "c"
    /\ Reading
    /\ IsEvent(pkt) /\ Matches(pkt)
    /\ unclaimed' = Dec(unclaimed, "event")
    /\ Fail
    /\ UNCHANGED <<owed, counter>>

(* Nothing came within one timeout: Python raises McuError at once, C       *)
(* sleeps and tries again until the deadline.                               *)
ReadTimeout ==
    /\ phase = "read"
    /\ rx = <<>>
    /\ \/ driver = "python" /\ Fail
       \/ /\ driver = "c"
          /\ phase' = "check"
          /\ elapsed' = IF elapsed < Deadline THEN elapsed + 1 ELSE elapsed
          /\ UNCHANGED <<driver, msg_seq, sent, call, outcome, answer>>
    /\ UNCHANGED <<owed, rx, counter, unclaimed>>

(* Stall, unplug: both drivers give up on the command.                      *)
ReadError ==
    /\ phase = "read"
    /\ Fail
    /\ UNCHANGED <<owed, rx, counter, unclaimed>>

(* A frame longer than the 4096 bytes a wait reads (the capture reads 8192) *)
(* overruns the transfer: frame and command are lost together.              *)
Overrun ==
    /\ Reading
    /\ ~pkt.short /\ IsFrame(pkt)
    /\ unclaimed' = Dec(unclaimed, "frame")
    /\ Fail
    /\ UNCHANGED <<owed, counter>>

Tick ==
    /\ phase # "idle"
    /\ elapsed < Deadline
    /\ elapsed' = elapsed + 1
    /\ UNCHANGED <<driver, msg_seq, sent, phase, call, outcome, answer, owed,
                   rx, counter, unclaimed>>

-----------------------------------------------------------------------------
(* The capture loop: rx_read between commands, one packet at a time. An     *)
(* event it reads is handed to decode() and goes no further.                *)
Capture ==
    /\ phase = "idle"
    /\ rx # <<>>
    /\ rx' = Tail(rx)
    /\ unclaimed' = IF Head(rx).short THEN unclaimed
                    ELSE Dec(unclaimed, CategoryOf(Head(rx)))
    /\ UNCHANGED <<hostVars, owed, counter>>

(* The device: replies in any order and arbitrarily late, or never; frames, *)
(* transmit status and unsolicited events at any time.                      *)
Put(p) ==
    /\ Len(rx) < RxDepth
    /\ rx' = Append(rx, p)
    /\ unclaimed' = IF p.short THEN unclaimed ELSE Inc(unclaimed, CategoryOf(p))

Reply ==
    \E c \in owed :
        /\ Put(Event(c.seq, c.id))
        /\ owed' = owed \ {c}
        /\ UNCHANGED <<hostVars, counter>>

Unsolicited ==
    /\ Put(Event(0, 0))
    /\ UNCHANGED <<hostVars, owed, counter>>

Receive ==
    /\ \E p \in Frames : Put(p)
    /\ UNCHANGED <<hostVars, owed, counter>>

OtherPacket ==
    /\ Put(Status) \/ Put(Short)
    /\ UNCHANGED <<hostVars, owed, counter>>

-----------------------------------------------------------------------------
Wait == BeginRead \/ GiveUp \/ SkipShort \/ DropPacket \/ SkipStale
        \/ Accept \/ RejectTruncated \/ ReadTimeout \/ ReadError \/ Overrun

Device == Reply \/ Unsolicited \/ Receive \/ OtherPacket

Next == \/ SendNoWait \/ SendAndWait \/ SendFails
        \/ Wait \/ Tick \/ Capture \/ Device

Spec == Init /\ [][Next]_vars

(* The host thread runs and time passes; the device owes nothing.           *)
FairSpec == Spec /\ WF_vars(Wait) /\ WF_vars(Tick)

-----------------------------------------------------------------------------
Call == [id : Ids, seq : Seqs]

(* The types of the state.                                                  *)
TypeOK ==
    /\ driver \in {"python", "c"}
    /\ msg_seq \in Seqs
    /\ sent \in Ids
    /\ phase \in {"idle", "check", "read"}
    /\ call \in Call
    /\ elapsed \in 0 .. Deadline
    /\ outcome \in {"none", "ok", "error"}
    /\ answer \in Ids
    /\ owed \subseteq Call
    /\ rx \in Seq(Packet)
    /\ counter \in [Category -> 0 .. CounterMod - 1]
    /\ unclaimed \in [Category -> 0 .. CounterMod - 1]

(* The reply mcu_wait accepted answers the command it waited for, unless    *)
(* it belongs to a command at least SeqMod - 1 sends earlier. In particular *)
(* no unsolicited event and no received frame, whatever its bytes, is ever  *)
(* taken for a reply.                                                       *)
Attributed ==
    outcome = "ok" =>
        \/ answer = call.id
        \/ answer \in Ids \ {0} /\ call.id - answer >= SeqMod - 1

(* The sequence the i-th command is given.                                  *)
SeqOf(i) == IF i = 0 THEN 0 ELSE 1 + ((i - 1) % (SeqMod - 1))

(* The strengthening that makes Attributed inductive: every sequence in     *)
(* flight (owed by the firmware, queued on the endpoint, or awaited) is the *)
(* one its command was numbered with, and events nobody asked for carry 0.  *)
Numbered ==
    /\ msg_seq = SeqOf(sent)
    /\ call.id \in 0 .. sent
    /\ call.seq = SeqOf(call.id)
    /\ phase # "idle" => call.id = sent /\ sent > 0
    /\ \A c \in owed : c.id \in 1 .. sent /\ c.seq = SeqOf(c.id)
    /\ \A i \in 1 .. Len(rx) :
          IsEvent(rx[i]) => \/ rx[i].id = 0 /\ rx[i].seq = 0
                           \/ /\ rx[i].id \in 1 .. sent
                              /\ rx[i].seq = SeqOf(rx[i].id)

(* The packets of a queue that the counters would count in a category.      *)
Hits(q, c) == {i \in 1 .. Len(q) : ~q[i].short /\ CategoryOf(q[i]) = c}

InRx(c) == Cardinality(Hits(rx, c))

(* No packet disappears uncounted: every frame, event and status packet the *)
(* device delivered is still queued, was handed to the capture loop (or     *)
(* accepted as a reply), is in the drop counter of its own category, or     *)
(* went with a read that failed, and its command with it.                   *)
Accounted ==
    \A c \in Category :
        unclaimed[c] = (counter[c] + InRx(c)) % CounterMod

(* The channel is the service its callers take it for: every command is     *)
(* answered at most once, and what a call returns is the answer to its own  *)
(* command, or to one a whole turn of the sequence older, or an error.      *)
Service == INSTANCE CommandService WITH
    Turn <- SeqMod - 1,
    waiting <- IF phase = "idle" THEN 0 ELSE call.id,
    open <- {c.id : c \in owed},
    arriving <- {rx[i].id : i \in {i \in 1 .. Len(rx) : IsEvent(rx[i])}} \ {0}

ImplementsService == Service!Spec

(* However busy the channel, and whatever the device leaves unanswered, a   *)
(* wait comes to an end.                                                    *)
WaitEnds == phase # "idle" ~> phase = "idle"
=============================================================================
