-------------------------- MODULE McuChannelProofs --------------------------
(* For every sequence width, queue depth and number of commands: the types   *)
(* hold, and a reply that mcu_wait accepts answers the awaited command or    *)
(* one at least a full turn of the sequence earlier.                         *)
EXTENDS McuChannel, FiniteSetTheorems, TLAPS

-----------------------------------------------------------------------------
(* Facts about % on the naturals that the sequence-number and counter proofs *)
(* rest on. K is any positive modulus.                                       *)

(* A residue lies below the modulus: every masked counter of the driver      *)
(* (msg_seq, the drop counters) stays within its width.                      *)
LEMMA ModRange ==
    ASSUME NEW K \in Nat \ {0}, NEW a \in Nat
    PROVE  a % K \in 0 .. K - 1
  BY SMT

(* Masking leaves a value below the modulus alone.                           *)
LEMMA ModSmall ==
    ASSUME NEW K \in Nat \ {0}, NEW a \in Nat, a < K
    PROVE  a % K = a
  BY SMT

(* A counter that reaches its modulus wraps to 0.                            *)
LEMMA ModSelf ==
    ASSUME NEW K \in Nat \ {0}
    PROVE  K % K = 0
  BY SMT

(* Quotient and remainder rebuild the number.                                *)
LEMMA ModDiv ==
    ASSUME NEW K \in Nat \ {0}, NEW a \in Nat
    PROVE  /\ a \div K \in Nat
           /\ a = (K * (a \div K)) + (a % K)
  BY SMT

(* The remainder in such a decomposition is the residue.                     *)
LEMMA ModUnique ==
    ASSUME NEW K \in Nat \ {0}, NEW q \in Nat, NEW r \in 0 .. K - 1
    PROVE  ((K * q) + r) % K = r
  BY SMT

(* A positive multiple of K is at least K.                                   *)
LEMMA MulAtLeast ==
    ASSUME NEW K \in Nat \ {0}, NEW x \in Int, x >= 1
    PROVE  K * x >= K
  BY SMT

(* A multiple of K by a number below 1 is not positive.                      *)
LEMMA MulAtMost ==
    ASSUME NEW K \in Nat \ {0}, NEW x \in Int, x <= 0
    PROVE  K * x <= 0
  BY SMT

(* Counting on by one: the residue grows by one or wraps, as _next_seq does. *)
LEMMA ModSucc ==
    ASSUME NEW K \in Nat \ {0}, NEW a \in Nat
    PROVE  (a + 1) % K = IF a % K = K - 1 THEN 0 ELSE (a % K) + 1
<1> DEFINE q == a \div K
           r == a % K
<1>1. a = (K * q) + r /\ q \in Nat /\ r \in 0 .. K - 1
  BY ModDiv, ModRange
<1> HIDE DEF q, r
<1>2. CASE r = K - 1
  <2>1. a + 1 = (K * (q + 1)) + 0
    BY <1>1, <1>2
  <2>2. (a + 1) % K = 0
    BY <2>1, <1>1, ModUnique
  <2> QED
    BY <2>2, <1>2 DEF r
<1>3. CASE r # K - 1
  <2>1. a + 1 = (K * q) + (r + 1) /\ r + 1 \in 0 .. K - 1
    BY <1>1, <1>3
  <2>2. (a + 1) % K = r + 1
    BY <2>1, <1>1, ModUnique
  <2> QED
    BY <2>2, <1>3 DEF r
<1> QED
  BY <1>2, <1>3

(* Two numbers with the same residue are a whole modulus apart: the sequence *)
(* of one command is used again only after a full turn.                      *)
LEMMA ModGap ==
    ASSUME NEW K \in Nat \ {0}, NEW a \in Nat, NEW b \in Nat,
           a < b, a % K = b % K
    PROVE  b - a >= K
<1> DEFINE q == (b \div K) - (a \div K)
<1>1. /\ a = (K * (a \div K)) + (a % K) /\ a \div K \in Nat
      /\ b = (K * (b \div K)) + (b % K) /\ b \div K \in Nat
  BY ModDiv
<1>2. q \in Int /\ b - a = K * q
  <2>1. ASSUME NEW x \in Nat, NEW y \in Nat
        PROVE  (K * y) - (K * x) = K * (y - x)
    BY SMT
  <2>2. b - a = (K * (b \div K)) - (K * (a \div K))
    <3>1. ASSUME NEW u \in Int, NEW v \in Int, NEW r \in Int,
                 a = u + r, b = v + r
          PROVE  b - a = v - u
      BY <3>1
    <3>2. K * (a \div K) \in Int /\ K * (b \div K) \in Int /\ a % K \in Int
      BY <1>1, ModRange
    <3> QED
      BY <1>1, <3>1, <3>2
  <2> QED
    BY <1>1, <2>1, <2>2
<1> HIDE DEF q
<1>3. q >= 1
  BY <1>2, MulAtMost
<1> QED
  BY <1>2, <1>3, MulAtLeast

(* A whole modulus more leaves the residue alone.                            *)
LEMMA ModShift ==
    ASSUME NEW K \in Nat \ {0}, NEW a \in Nat
    PROVE  (a + K) % K = a % K
<1>1. /\ a = (K * (a \div K)) + (a % K) /\ a \div K \in Nat
      /\ a % K \in 0 .. K - 1
  BY ModDiv, ModRange
<1>2. ASSUME NEW q \in Nat, NEW r \in 0 .. K - 1, a = (K * q) + r
      PROVE  (a + K) % K = r
  <2>1. a + K = (K * (q + 1)) + r /\ q + 1 \in Nat
    BY <1>2
  <2>2. ((K * (q + 1)) + r) % K = r
    BY <2>1, ModUnique
  <2> QED
    BY <2>1, <2>2
<1> QED
  BY <1>1, <1>2

(* Counting one more on a wrapped counter: Inc on a residue.                 *)
LEMMA ModInc ==
    ASSUME NEW K \in Nat \ {0}, NEW a \in Nat
    PROVE  ((a % K) + 1) % K = (a + 1) % K
<1>1. a % K \in 0 .. K - 1
  BY ModRange
<1>2. (a + 1) % K = IF a % K = K - 1 THEN 0 ELSE (a % K) + 1
  BY ModSucc
<1>3. CASE a % K = K - 1
  BY <1>2, <1>3, ModSelf
<1>4. CASE a % K # K - 1
  <2>1. ASSUME NEW r \in 0 .. K - 1, r # K - 1
        PROVE  (r + 1) % K = r + 1
    BY <2>1, ModSmall
  <2> QED
    BY <1>1, <1>2, <1>4, <2>1
<1> QED
  BY <1>3, <1>4

(* Taking one away again: Dec on the residue of a number above 0.            *)
LEMMA ModDec ==
    ASSUME NEW K \in Nat \ {0}, NEW a \in Nat
    PROVE  (((a + 1) % K) + K - 1) % K = a % K
<1>1. a % K \in 0 .. K - 1
  BY ModRange
<1>2. (a + 1) % K = IF a % K = K - 1 THEN 0 ELSE (a % K) + 1
  BY ModSucc
<1>3. CASE a % K = K - 1
  <2>1. (0 + K - 1) % K = K - 1
    BY ModSmall
  <2> QED
    BY <1>2, <1>3, <2>1
<1>4. CASE a % K # K - 1
  <2>1. ASSUME NEW r \in 0 .. K - 1
        PROVE  ((r + 1) + K - 1) % K = r
    <3>1. (r + 1) + K - 1 = r + K
      OBVIOUS
    <3> QED
      BY <3>1, ModShift, ModSmall
  <2> QED
    BY <1>1, <1>2, <1>4, <2>1
<1> QED
  BY <1>3, <1>4

(* Moving one from a queue of n into a wrapped counter of c keeps their sum. *)
LEMMA ModMove ==
    ASSUME NEW K \in Nat \ {0}, NEW c \in 0 .. K - 1, NEW n \in Nat
    PROVE  (((c + 1) % K) + n) % K = (c + (n + 1)) % K
<1>1. CASE c = K - 1
  <2>1. (c + 1) % K = 0
    BY <1>1, ModSelf
  <2>2. c + (n + 1) = n + K
    BY <1>1
  <2>3. (n + K) % K = n % K
    BY ModShift
  <2>4. 0 + n = n
    OBVIOUS
  <2> QED
    BY <2>1, <2>2, <2>3, <2>4
<1>2. CASE c # K - 1
  <2>1. (c + 1) % K = c + 1
    BY <1>2, ModSmall
  <2>2. (c + 1) + n = c + (n + 1)
    OBVIOUS
  <2> QED
    BY <2>1, <2>2
<1> QED
  BY <1>1, <1>2

-----------------------------------------------------------------------------
(* The constants                                                            *)

USE SeqModAssumption, BoundAssumption

-----------------------------------------------------------------------------
(* Sequences                                                                *)

(* _next_seq counts up and returns to 1, never to 0.                        *)
LEMMA NextSeqValue ==
    ASSUME NEW s \in Seqs
    PROVE  NextSeq(s) = IF s = SeqMod - 1 THEN 1 ELSE s + 1
<1>1. CASE s = SeqMod - 1
  <2>1. (s + 1) % SeqMod = 0
    BY <1>1, ModSelf
  <2>2. (0 + 1) % SeqMod = 1
    BY ModSmall
  <2> QED
    BY <1>1, <2>1, <2>2 DEF NextSeq
<1>2. CASE s # SeqMod - 1
  <2>1. (s + 1) % SeqMod = s + 1 /\ s + 1 # 0
    BY <1>2, ModSmall DEF Seqs
  <2> QED
    BY <1>2, <2>1 DEF NextSeq
<1> QED
  BY <1>1, <1>2

(* The sequence of a numbered command is in range and is not 0.             *)
LEMMA SeqOfRange ==
    ASSUME NEW i \in Nat
    PROVE  /\ SeqOf(i) \in Seqs
           /\ i > 0 => SeqOf(i) # 0
<1>1. CASE i = 0
  BY <1>1 DEF SeqOf, Seqs
<1>2. CASE i > 0
  <2>1. (i - 1) % (SeqMod - 1) \in 0 .. (SeqMod - 1) - 1
    BY <1>2, ModRange
  <2> QED
    BY <1>2, <2>1 DEF SeqOf, Seqs
<1> QED
  BY <1>1, <1>2

(* Advancing msg_seq is numbering the next command.                         *)
LEMMA NextSeqOf ==
    ASSUME NEW i \in Nat
    PROVE  NextSeq(SeqOf(i)) = SeqOf(i + 1)
<1>1. CASE i = 0
  <2>1. 0 % (SeqMod - 1) = 0
    BY ModSmall
  <2>2. SeqOf(i) = 0 /\ SeqOf(i + 1) = 1
    BY <1>1, <2>1 DEF SeqOf
  <2> QED
    BY <2>2, NextSeqValue DEF Seqs
<1>2. CASE i > 0
  <2> DEFINE r == (i - 1) % (SeqMod - 1)
  <2>1. r \in 0 .. (SeqMod - 1) - 1
    BY <1>2, ModRange
  <2>2. ((i - 1) + 1) % (SeqMod - 1)
          = IF r = (SeqMod - 1) - 1 THEN 0 ELSE r + 1
    <3>1. ASSUME NEW K \in Nat \ {0}, NEW a \in Nat
          PROVE  (a + 1) % K = IF a % K = K - 1 THEN 0 ELSE (a % K) + 1
      BY ModSucc
    <3>2. SeqMod - 1 \in Nat \ {0} /\ i - 1 \in Nat
      BY <1>2
    <3> QED
      BY <3>1, <3>2
  <2>3. SeqOf(i) = 1 + r /\ SeqOf(i + 1) = 1 + (i % (SeqMod - 1))
    BY <1>2 DEF SeqOf
  <2> HIDE DEF r
  <2>4. SeqOf(i + 1) = 1 + (IF r = (SeqMod - 1) - 1 THEN 0 ELSE r + 1)
    BY <1>2, <2>2, <2>3
  <2>5. NextSeq(1 + r) = IF 1 + r = SeqMod - 1 THEN 1 ELSE (1 + r) + 1
    BY <2>1, NextSeqValue DEF Seqs
  <2> QED
    BY <2>1, <2>3, <2>4, <2>5
<1> QED
  BY <1>1, <1>2

(* Two commands share a sequence only a full turn apart.                    *)
LEMMA SeqOfGap ==
    ASSUME NEW i \in Nat, NEW j \in Nat, 0 < i, i < j, SeqOf(i) = SeqOf(j)
    PROVE  j - i >= SeqMod - 1
<1>1. (i - 1) % (SeqMod - 1) = (j - 1) % (SeqMod - 1)
  <2>1. /\ (i - 1) % (SeqMod - 1) \in Int
        /\ (j - 1) % (SeqMod - 1) \in Int
    BY ModRange
  <2> QED
    BY <2>1 DEF SeqOf
<1>2. ASSUME NEW K \in Nat \ {0}, NEW a \in Nat, NEW b \in Nat,
             K = SeqMod - 1, a = i - 1, b = j - 1
      PROVE  j - i >= SeqMod - 1
  <2>1. a % K = b % K /\ a < b
    BY <1>1, <1>2
  <2>2. b - a >= K
    BY <2>1, ModGap
  <2> QED
    BY <1>2, <2>2
<1>3. SeqMod - 1 \in Nat \ {0} /\ i - 1 \in Nat /\ j - 1 \in Nat
  OBVIOUS
<1> QED
  BY <1>2, <1>3

-----------------------------------------------------------------------------
(* Counters                                                                 *)

CounterType == [Category -> 0 .. CounterMod - 1]

(* Counting a packet keeps every counter within its width.                  *)
LEMMA IncType ==
    ASSUME NEW f \in CounterType, NEW c \in Category
    PROVE  Inc(f, c) \in CounterType
<1>1. f[c] + 1 \in Nat
  BY DEF CounterType
<1>2. (f[c] + 1) % CounterMod \in 0 .. CounterMod - 1
  BY <1>1, ModRange
<1> QED
  BY <1>2 DEF Inc, CounterType

(* So does claiming one.                                                    *)
LEMMA DecType ==
    ASSUME NEW f \in CounterType, NEW c \in Category
    PROVE  Dec(f, c) \in CounterType
<1>1. f[c] + CounterMod - 1 \in Nat
  BY DEF CounterType
<1>2. (f[c] + CounterMod - 1) % CounterMod \in 0 .. CounterMod - 1
  BY <1>1, ModRange
<1> QED
  BY <1>2 DEF Dec, CounterType

(* The packets the device can deliver.                                      *)
LEMMA PacketsDelivered ==
    /\ Frames \subseteq Packet
    /\ Status \in Packet
    /\ Short \in Packet
    /\ \A s \in Seqs, i \in Ids : Event(s, i) \in Packet
<1>1. 0 \in Seqs /\ 0 \in Ids
  BY DEF Seqs, Ids
<1>2. Frames \subseteq Packet
  BY <1>1 DEF Frames, Packet
<1>3. Status \in Packet /\ Short \in Packet
  BY <1>1 DEF Status, Short, Packet
<1>4. \A s \in Seqs, i \in Ids : Event(s, i) \in Packet
  BY DEF Event, Packet
<1> QED
  BY <1>2, <1>3, <1>4

-----------------------------------------------------------------------------
(* Type correctness                                                         *)

(* What a Put leaves behind is well typed.                                  *)
LEMMA PutType ==
    ASSUME TypeOK, NEW p \in Packet, Put(p)
    PROVE  rx' \in Seq(Packet) /\ unclaimed' \in CounterType
<1>1. rx' \in Seq(Packet)
  BY DEF TypeOK, Put
<1>2. CategoryOf(p) \in Category
  BY DEF CategoryOf, Category
<1>3. unclaimed \in CounterType
  BY DEF TypeOK, CounterType
<1> QED
  BY <1>1, <1>2, <1>3, IncType DEF Put

(* What reading one packet leaves behind is well typed.                     *)
LEMMA TailType ==
    ASSUME TypeOK, rx # <<>>
    PROVE  Head(rx) \in Packet /\ Tail(rx) \in Seq(Packet)
  BY DEF TypeOK

(* TypeOK is inductive.                                                     *)
LEMMA TypeStep ==
    ASSUME TypeOK, [Next]_vars
    PROVE  TypeOK'
<1> DEFINE CatOK == /\ counter \in CounterType
                    /\ unclaimed \in CounterType
<1>0. CatOK
  BY DEF TypeOK, CounterType
<1>a. "frame" \in Category /\ "event" \in Category /\ "other" \in Category
  BY DEF Category
<1>1. ASSUME Number
      PROVE  msg_seq' \in Seqs /\ sent' \in Ids
  <2>1. msg_seq' = IF msg_seq = SeqMod - 1 THEN 1 ELSE msg_seq + 1
    BY <1>1, NextSeqValue DEF Number, TypeOK
  <2> QED
    BY <1>1, <2>1 DEF Number, TypeOK, Seqs, Ids
<1>2. CASE SendNoWait
  BY <1>1, <1>2 DEF SendNoWait, Number, TypeOK, Call
<1>3. CASE SendAndWait
  BY <1>1, <1>3 DEF SendAndWait, Number, TypeOK, Call, Deadline, Ids
<1>4. CASE SendFails
  BY <1>1, <1>4 DEF SendFails, Number, TypeOK
<1>5. CASE BeginRead
  BY <1>5 DEF BeginRead, TypeOK
<1>6. CASE GiveUp
  BY <1>6 DEF GiveUp, Fail, TypeOK
<1>7. CASE SkipShort
  BY <1>7, TailType DEF SkipShort, Reading, LoopAgain, TypeOK
<1>8. CASE DropPacket
  <2>1. counter' \in CounterType
    BY <1>0, <1>a, <1>8, IncType DEF DropPacket
  <2> QED
    BY <1>8, <2>1, TailType
       DEF DropPacket, Reading, LoopAgain, TypeOK, CounterType
<1>9. CASE SkipStale
  <2>1. counter' \in CounterType
    BY <1>0, <1>a, <1>9, IncType DEF SkipStale
  <2> QED
    BY <1>9, <2>1, TailType
       DEF SkipStale, Reading, LoopAgain, TypeOK, CounterType
<1>10. CASE Accept
  <2>1. unclaimed' \in CounterType
    BY <1>0, <1>a, <1>10, DecType DEF Accept
  <2>2. answer' \in Ids
    BY <1>10, TailType DEF Accept, Reading, pkt, Packet
  <2> QED
    BY <1>10, <2>1, <2>2, TailType DEF Accept, Reading, TypeOK, CounterType
<1>11. CASE RejectTruncated
  <2>1. unclaimed' \in CounterType
    BY <1>0, <1>a, <1>11, DecType DEF RejectTruncated
  <2> QED
    BY <1>11, <2>1, TailType
       DEF RejectTruncated, Reading, Fail, TypeOK, CounterType
<1>12. CASE ReadTimeout
  BY <1>12 DEF ReadTimeout, Fail, TypeOK, Deadline
<1>13. CASE ReadError
  BY <1>13 DEF ReadError, Fail, TypeOK
<1>14. CASE Tick
  BY <1>14 DEF Tick, TypeOK, Deadline
<1>15. CASE Capture
  <2>1. CategoryOf(Head(rx)) \in Category
    BY DEF CategoryOf, Category
  <2>2. unclaimed' \in CounterType
    BY <1>0, <1>15, <2>1, DecType DEF Capture
  <2> QED
    BY <1>15, <2>2, TailType DEF Capture, hostVars, TypeOK, CounterType
<1>16. CASE Reply
  <2>1. PICK c \in owed : Put(Event(c.seq, c.id)) /\ owed' = owed \ {c}
    BY <1>16 DEF Reply
  <2>2. Event(c.seq, c.id) \in Packet
    BY <2>1, PacketsDelivered DEF TypeOK, Call
  <2>3. rx' \in Seq(Packet) /\ unclaimed' \in CounterType
    BY <2>1, <2>2, PutType
  <2> QED
    BY <1>16, <2>1, <2>3 DEF Reply, hostVars, TypeOK, CounterType
<1>17. CASE Unsolicited
  <2>1. Event(0, 0) \in Packet
    BY PacketsDelivered DEF Seqs, Ids
  <2>2. rx' \in Seq(Packet) /\ unclaimed' \in CounterType
    BY <1>17, <2>1, PutType DEF Unsolicited
  <2> QED
    BY <1>17, <2>2 DEF Unsolicited, hostVars, TypeOK, CounterType
<1>18. CASE Receive
  <2>1. rx' \in Seq(Packet) /\ unclaimed' \in CounterType
    BY <1>18, PacketsDelivered, PutType DEF Receive
  <2> QED
    BY <1>18, <2>1 DEF Receive, hostVars, TypeOK, CounterType
<1>19. CASE OtherPacket
  <2>1. rx' \in Seq(Packet) /\ unclaimed' \in CounterType
    BY <1>19, PacketsDelivered, PutType DEF OtherPacket
  <2> QED
    BY <1>19, <2>1 DEF OtherPacket, hostVars, TypeOK, CounterType
<1>20. CASE Overrun
  <2>1. unclaimed' \in CounterType
    BY <1>0, <1>a, <1>20, DecType DEF Overrun
  <2> QED
    BY <1>20, <2>1, TailType DEF Overrun, Reading, Fail, TypeOK, CounterType
<1>21. CASE UNCHANGED vars
  BY <1>21 DEF vars, TypeOK
<1> QED
  BY <1>2, <1>3, <1>4, <1>5, <1>6, <1>7, <1>8, <1>9, <1>10, <1>11, <1>12,
     <1>13, <1>14, <1>15, <1>16, <1>17, <1>18, <1>19, <1>20, <1>21
     DEF Next, Wait, Device

(* The types hold in every state, whatever the constants.                   *)
THEOREM TypeCorrect == Spec => []TypeOK
<1>1. Init => TypeOK
  BY ModSmall DEF Init, TypeOK, Seqs, Ids, Call, Category, Deadline, Packet
<1>2. TypeOK /\ [Next]_vars => TypeOK'
  BY TypeStep
<1> QED
  BY <1>1, <1>2, PTL DEF Spec

-----------------------------------------------------------------------------
(* Attribution                                                              *)

(* Numbered looks at the queue only through its events.                     *)
Genuine(p, n) ==
    IsEvent(p) => \/ p.id = 0 /\ p.seq = 0
                  \/ p.id \in 1 .. n /\ p.seq = SeqOf(p.id)

RxGenuine == \A i \in 1 .. Len(rx) : Genuine(rx[i], sent)

(* Reading a packet leaves the rest of the queue as it was.                 *)
LEMMA TailGenuine ==
    ASSUME TypeOK, RxGenuine, rx # <<>>, rx' = Tail(rx), sent' = sent
    PROVE  RxGenuine'
<1>1. /\ rx \in Seq(Packet) /\ Len(rx') = Len(rx) - 1
      /\ \A i \in 1 .. Len(rx') : i + 1 \in 1 .. Len(rx) /\ rx'[i] = rx[i + 1]
  BY DEF TypeOK
<1> QED
  BY <1>1 DEF RxGenuine, Genuine, IsEvent, IsFrame

(* Delivering a genuine packet keeps the queue genuine.                     *)
LEMMA PutGenuine ==
    ASSUME TypeOK, RxGenuine, NEW p \in Packet, Put(p), Genuine(p, sent),
           sent' = sent
    PROVE  RxGenuine'
<1>1. /\ rx \in Seq(Packet) /\ rx' = Append(rx, p)
      /\ Len(rx') = Len(rx) + 1
      /\ \A i \in 1 .. Len(rx') :
            rx'[i] = IF i <= Len(rx) THEN rx[i] ELSE p
  BY DEF TypeOK, Put
<1>2. SUFFICES ASSUME NEW i \in 1 .. Len(rx')
               PROVE  Genuine(rx'[i], sent)
  BY DEF RxGenuine, Genuine, IsEvent, IsFrame
<1>3. CASE i <= Len(rx)
  <2>1. i \in 1 .. Len(rx) /\ rx'[i] = rx[i]
    BY <1>1, <1>3
  <2>2. Genuine(rx[i], sent)
    BY <2>1 DEF RxGenuine
  <2> QED
    BY <2>1, <2>2
<1>4. CASE ~(i <= Len(rx))
  BY <1>1, <1>4
<1> QED
  BY <1>3, <1>4

(* Numbering one more command keeps what is in flight genuine.              *)
LEMMA SendGenuine ==
    ASSUME TypeOK, Numbered, Number, rx' = rx
    PROVE  /\ RxGenuine'
           /\ msg_seq' = SeqOf(sent')
           /\ \A c \in owed : c.id \in 1 .. sent' /\ c.seq = SeqOf(c.id)
           /\ call.id \in 0 .. sent'
           /\ sent' \in Nat /\ sent' > 0
<1>1. sent \in Nat /\ sent' = sent + 1
  BY DEF TypeOK, Ids, Number
<1>2. msg_seq' = SeqOf(sent')
  BY <1>1, NextSeqOf DEF Number, Numbered
<1>3. RxGenuine
  BY DEF Numbered, RxGenuine, Genuine
<1>4. RxGenuine'
  BY <1>1, <1>3 DEF RxGenuine, Genuine, IsEvent, IsFrame
<1> QED
  BY <1>1, <1>2, <1>4 DEF Numbered

(* Numbered is inductive relative to the types.                             *)
LEMMA NumberedStep ==
    ASSUME TypeOK, Numbered, [Next]_vars
    PROVE  Numbered'
<1> DEFINE Parts == /\ msg_seq = SeqOf(sent)
                    /\ call.id \in 0 .. sent
                    /\ call.seq = SeqOf(call.id)
                    /\ phase # "idle" => call.id = sent /\ sent > 0
                    /\ \A c \in owed : c.id \in 1 .. sent /\ c.seq = SeqOf(c.id)
<1>0. Parts /\ RxGenuine
  BY DEF Numbered, RxGenuine, Genuine
<1> SUFFICES Parts' /\ RxGenuine'
  BY DEF Numbered, RxGenuine, Genuine
<1>1. CASE SendNoWait
  <2>1. Number /\ rx' = rx
    BY <1>1 DEF SendNoWait
  <2> QED
    BY <1>0, <1>1, <2>1, SendGenuine DEF SendNoWait, Number
<1>2. CASE SendAndWait
  <2>1. Number /\ rx' = rx
    BY <1>2 DEF SendAndWait
  <2>2. call'.id = sent' /\ call'.seq = msg_seq'
    BY <1>2 DEF SendAndWait
  <2> QED
    BY <1>0, <1>2, <2>1, <2>2, SendGenuine DEF SendAndWait
<1>3. CASE SendFails
  <2>1. Number /\ rx' = rx
    BY <1>3 DEF SendFails
  <2> QED
    BY <1>0, <1>3, <2>1, SendGenuine DEF SendFails, Number
<1>4. ASSUME Reading, msg_seq' = msg_seq, sent' = sent, call' = call,
             phase' \in {"idle", "check"}, owed' = owed
      PROVE  Parts' /\ RxGenuine'
  <2>1. RxGenuine'
    BY <1>0, <1>4, TailGenuine DEF Reading
  <2> QED
    BY <1>0, <1>4, <2>1 DEF Reading
<1>5. ASSUME msg_seq' = msg_seq, sent' = sent, call' = call, owed' = owed,
             rx' = rx, phase' = "idle" \/ phase # "idle"
      PROVE  Parts' /\ RxGenuine'
  BY <1>0, <1>5 DEF RxGenuine, Genuine, IsEvent, IsFrame
<1>6. ASSUME msg_seq' = msg_seq, sent' = sent, call' = call, phase' = phase,
             NEW p \in Packet, Put(p), Genuine(p, sent), owed' \subseteq owed
      PROVE  Parts' /\ RxGenuine'
  <2>1. RxGenuine'
    BY <1>0, <1>6, PutGenuine
  <2> QED
    BY <1>0, <1>6, <2>1
<1>7. CASE BeginRead
  BY <1>5, <1>7 DEF BeginRead
<1>8. CASE GiveUp
  BY <1>5, <1>8 DEF GiveUp, Fail
<1>9. CASE SkipShort
  BY <1>4, <1>9 DEF SkipShort, LoopAgain
<1>10. CASE DropPacket
  BY <1>4, <1>10 DEF DropPacket, LoopAgain
<1>11. CASE SkipStale
  BY <1>4, <1>11 DEF SkipStale, LoopAgain
<1>12. CASE Accept
  BY <1>4, <1>12 DEF Accept
<1>13. CASE RejectTruncated
  BY <1>4, <1>13 DEF RejectTruncated, Fail
<1>14. CASE ReadTimeout
  BY <1>5, <1>14 DEF ReadTimeout, Fail
<1>15. CASE ReadError
  BY <1>5, <1>15 DEF ReadError, Fail
<1>16. CASE Tick
  BY <1>5, <1>16 DEF Tick
<1>17. CASE Capture
  <2>1. RxGenuine'
    BY <1>0, <1>17, TailGenuine DEF Capture, hostVars
  <2> QED
    BY <1>0, <1>17, <2>1 DEF Capture, hostVars
<1>18. CASE Reply
  <2>1. PICK c \in owed : Put(Event(c.seq, c.id)) /\ owed' = owed \ {c}
    BY <1>18 DEF Reply
  <2>2. Event(c.seq, c.id) \in Packet
    BY <2>1, PacketsDelivered DEF TypeOK, Call
  <2>3. Genuine(Event(c.seq, c.id), sent)
    BY <1>0, <2>1 DEF Genuine, Event
  <2> QED
    BY <1>6, <1>18, <2>1, <2>2, <2>3 DEF Reply, hostVars
<1>19. CASE Unsolicited
  <2>1. Event(0, 0) \in Packet
    BY PacketsDelivered DEF Seqs, Ids
  <2>2. Genuine(Event(0, 0), sent)
    BY DEF Genuine, Event
  <2> QED
    BY <1>6, <1>19, <2>1, <2>2 DEF Unsolicited, hostVars
<1>20. CASE Receive
  <2>1. PICK p \in Frames : Put(p)
    BY <1>20 DEF Receive
  <2>2. p \in Packet /\ Genuine(p, sent)
    BY <2>1, PacketsDelivered DEF Genuine, IsEvent, IsFrame, Frames
  <2> QED
    BY <1>6, <1>20, <2>1, <2>2 DEF Receive, hostVars
<1>21. CASE OtherPacket
  <2>1. PICK p \in {Status, Short} : Put(p)
    BY <1>21 DEF OtherPacket
  <2>2. p \in Packet /\ Genuine(p, sent)
    <3>1. p \in Packet
      BY <2>1, PacketsDelivered
    <3>2. p.type = "status"
      BY <2>1 DEF Status, Short
    <3> QED
      BY <3>1, <3>2 DEF Genuine, IsEvent
  <2> QED
    BY <1>6, <1>21, <2>1, <2>2 DEF OtherPacket, hostVars
<1>22. CASE Overrun
  BY <1>4, <1>22 DEF Overrun, Fail
<1>23. CASE UNCHANGED vars
  BY <1>5, <1>23 DEF vars
<1> QED
  BY <1>1, <1>2, <1>3, <1>7, <1>8, <1>9, <1>10, <1>11, <1>12, <1>13, <1>14,
     <1>15, <1>16, <1>17, <1>18, <1>19, <1>20, <1>21, <1>22, <1>23
     DEF Next, Wait, Device

(* Every sequence in flight is the one its command was numbered with.       *)
THEOREM SequencesNumbered == Spec => []Numbered
<1>1. Init => Numbered
  BY DEF Init, Numbered, SeqOf
<1>2. TypeOK /\ Numbered /\ [Next]_vars => Numbered'
  BY NumberedStep
<1> QED
  BY <1>1, <1>2, TypeCorrect, PTL DEF Spec

(* A wait that ends well ended with the reply to its own command, or with   *)
(* one a full turn of the sequence older; never with an unsolicited event   *)
(* or a received frame (mcu_wait's sequence check and _next_seq's skip).    *)
THEOREM RepliesAttributed == Spec => []Attributed
<1>1. Init => Attributed
  BY DEF Init, Attributed
<1>2. TypeOK /\ Numbered /\ Attributed /\ [Next]_vars => Attributed'
  <2> SUFFICES ASSUME TypeOK, Numbered, Attributed, [Next]_vars
               PROVE  Attributed'
    OBVIOUS
  <2>1. CASE Accept
    <3>1. /\ pkt \in Packet /\ IsEvent(pkt) /\ pkt.seq = call.seq
          /\ answer' = pkt.id /\ call' = call /\ outcome' = "ok"
      BY <2>1, TailType DEF Accept, Reading, Matches, pkt
    <3>2. /\ call.id = sent /\ sent > 0 /\ call.seq = SeqOf(sent)
          /\ sent \in Nat
      BY <2>1 DEF Accept, Reading, Numbered, TypeOK, Ids
    <3>3. \/ pkt.id = 0 /\ pkt.seq = 0
          \/ pkt.id \in 1 .. sent /\ pkt.seq = SeqOf(pkt.id)
      <4>1. rx \in Seq(Packet) /\ rx # <<>>
        BY <2>1 DEF Accept, Reading, TypeOK
      <4>2. 1 \in 1 .. Len(rx) /\ pkt = rx[1]
        BY <4>1 DEF pkt
      <4> QED
        BY <3>1, <4>2 DEF Numbered
    <3>4. pkt.id \in 1 .. sent /\ SeqOf(pkt.id) = SeqOf(sent)
      BY <3>1, <3>2, <3>3, SeqOfRange
    <3>5. pkt.id = sent \/ sent - pkt.id >= SeqMod - 1
      BY <3>2, <3>4, SeqOfGap
    <3> QED
      BY <3>1, <3>2, <3>4, <3>5 DEF Attributed, Packet
  <2>2. CASE ~Accept
    <3>1. outcome' = "ok" => UNCHANGED <<outcome, answer, call>>
      BY <2>2 DEF Next, Wait, Device, SendNoWait, SendAndWait, SendFails,
         BeginRead, GiveUp, SkipShort, DropPacket, SkipStale,
         RejectTruncated, ReadTimeout, ReadError, Overrun, Tick, Capture, Reply,
         Unsolicited, Receive, OtherPacket, LoopAgain, Fail, hostVars, vars
    <3> QED
      BY <3>1 DEF Attributed
  <2> QED
    BY <2>1, <2>2
<1> QED
  BY <1>1, <1>2, TypeCorrect, SequencesNumbered, PTL DEF Spec

-----------------------------------------------------------------------------
(* Accounting                                                               *)

Packets == Seq(Packet)

(* Whether a packet of the queue is one the counters would count under c.   *)
Counts(p, c) == ~p.short /\ CategoryOf(p) = c

(* A queue is finite, so what it holds of a category can be counted.        *)
LEMMA HitsFinite ==
    ASSUME NEW q \in Packets, NEW c
    PROVE  IsFiniteSet(Hits(q, c)) /\ Cardinality(Hits(q, c)) \in Nat
<1>1. Len(q) \in Nat /\ Hits(q, c) \in SUBSET (1 .. Len(q))
  BY DEF Hits, Packets
<1>2. IsFiniteSet(1 .. Len(q))
  BY <1>1, FS_Interval
<1>3. IsFiniteSet(Hits(q, c))
  BY <1>1, <1>2, FS_Subset
<1> QED
  BY <1>3, FS_CardinalityType

(* A packet put at the end adds itself and nothing else.                    *)
LEMMA HitsAppend ==
    ASSUME NEW q \in Packets, NEW p \in Packet, NEW c
    PROVE  Cardinality(Hits(Append(q, p), c))
             = Cardinality(Hits(q, c)) + (IF Counts(p, c) THEN 1 ELSE 0)
<1> DEFINE n == Len(q)
           r == Append(q, p)
<1>1. /\ n \in Nat /\ Len(r) = n + 1 /\ r[n + 1] = p
      /\ \A i \in 1 .. n : r[i] = q[i]
  BY DEF Packets
<1>2. Hits(r, c) = Hits(q, c) \cup (IF Counts(p, c) THEN {n + 1} ELSE {})
  <2> HIDE DEF r
  <2>1. \A i \in 1 .. n : i \in Hits(r, c) <=> i \in Hits(q, c)
    BY <1>1 DEF Hits
  <2>2. n + 1 \in Hits(r, c) <=> Counts(p, c)
    BY <1>1 DEF Hits, Counts
  <2>3. Hits(r, c) \subseteq 1 .. n + 1 /\ Hits(q, c) \subseteq 1 .. n
    BY <1>1 DEF Hits
  <2>4. \A i \in 1 .. n + 1 : i \in 1 .. n \/ i = n + 1
    BY <1>1
  <2> QED
    BY <2>1, <2>2, <2>3, <2>4
<1>3. n + 1 \notin Hits(q, c)
  BY <1>1 DEF Hits
<1>4. IsFiniteSet(Hits(q, c)) /\ Cardinality(Hits(q, c)) \in Nat
  BY HitsFinite
<1>5. CASE Counts(p, c)
  <2>1. Hits(r, c) = Hits(q, c) \cup {n + 1}
    BY <1>2, <1>5
  <2>2. Cardinality(Hits(q, c) \cup {n + 1}) = Cardinality(Hits(q, c)) + 1
    BY <1>3, <1>4, FS_AddElement
  <2> QED
    BY <1>5, <2>1, <2>2
<1>6. CASE ~Counts(p, c)
  BY <1>2, <1>4, <1>6
<1> QED
  BY <1>5, <1>6

(* A packet taken from the front takes itself away and nothing else.        *)
LEMMA HitsTail ==
    ASSUME NEW q \in Packets, q # <<>>, NEW c
    PROVE  Cardinality(Hits(q, c))
             = Cardinality(Hits(Tail(q), c)) + (IF Counts(Head(q), c) THEN 1 ELSE 0)
<1> DEFINE n == Len(q)
           r == Tail(q)
           H == Hits(r, c)
           K == Hits(q, c) \ {1}
<1>1. /\ n \in Nat /\ n >= 1 /\ Len(r) = n - 1 /\ q[1] = Head(q)
      /\ \A i \in 1 .. n - 1 : r[i] = q[i + 1]
      /\ r \in Packets
  BY DEF Packets
<1>2. IsFiniteSet(H) /\ Cardinality(H) \in Nat
  BY <1>1, HitsFinite
<1>3. ExistsBijection(H, K)
  <2> HIDE DEF r
  <2>1. \A i \in H : i \in 1 .. n - 1 /\ i + 1 \in K
    BY <1>1 DEF Hits
  <2>2. \A j \in K : j \in 2 .. n /\ j - 1 \in H
    BY <1>1 DEF Hits
  <2> DEFINE f == [i \in H |-> i + 1]
  <2>3. f \in [H -> K]
    BY <2>1
  <2>4. \A a, b \in H : f[a] = f[b] => a = b
    BY <2>1
  <2>5. \A j \in K : \E i \in H : f[i] = j
    <3>1. TAKE j \in K
    <3>2. j - 1 \in H /\ f[j - 1] = j
      BY <2>2
    <3> QED
      BY <3>2
  <2> HIDE DEF f, H, K
  <2>6. f \in Bijection(H, K)
    BY <2>3, <2>4, <2>5 DEF Bijection, Injection, Surjection, IsInjective
  <2> QED
    BY <2>6 DEF ExistsBijection
<1>4. IsFiniteSet(K) /\ Cardinality(K) = Cardinality(H)
  <2> HIDE DEF H, K
  <2> QED
    BY <1>2, <1>3, FS_Bijection
<1>5. IsFiniteSet(Hits(q, c)) /\ Cardinality(Hits(q, c)) \in Nat
  BY HitsFinite
<1>6. 1 \in Hits(q, c) <=> Counts(Head(q), c)
  BY <1>1 DEF Hits, Counts
<1>7. Cardinality(K) = IF 1 \in Hits(q, c) THEN Cardinality(Hits(q, c)) - 1
                                           ELSE Cardinality(Hits(q, c))
  BY <1>5, FS_RemoveElement
<1> HIDE DEF H, K
<1>8. Cardinality(Hits(q, c)) = Cardinality(H) + (IF Counts(Head(q), c) THEN 1 ELSE 0)
  BY <1>2, <1>4, <1>5, <1>6, <1>7
<1> QED
  BY <1>8 DEF H

(* A packet counts under its own category and no other, unless it is short. *)
LEMMA CountsOnce ==
    ASSUME NEW p \in Packet, NEW c \in Category
    PROVE  /\ CategoryOf(p) \in Category
           /\ Counts(p, c) <=> ~p.short /\ c = CategoryOf(p)
  BY DEF Counts, CategoryOf, Category

(* The device delivers a packet: it is unclaimed and queued.                *)
LEMMA PutAccounted ==
    ASSUME TypeOK, Accounted, NEW p \in Packet, Put(p), counter' = counter
    PROVE  Accounted'
<1>1. /\ rx \in Packets /\ counter \in CounterType /\ unclaimed \in CounterType
      /\ rx' = Append(rx, p)
  BY DEF TypeOK, Packets, CounterType, Put
<1>2. SUFFICES ASSUME NEW c \in Category
               PROVE  unclaimed'[c]
                        = (counter[c] + Cardinality(Hits(Append(rx, p), c))) % CounterMod
  BY <1>1 DEF Accounted, InRx
<1> DEFINE n == Cardinality(Hits(rx, c))
<1>3. /\ n \in Nat /\ unclaimed[c] = (counter[c] + n) % CounterMod
      /\ counter[c] \in 0 .. CounterMod - 1
  BY <1>1, HitsFinite DEF Accounted, InRx, CounterType
<1>4. Cardinality(Hits(Append(rx, p), c)) = n + (IF Counts(p, c) THEN 1 ELSE 0)
  BY <1>1, HitsAppend
<1> HIDE DEF n
<1>5. CASE Counts(p, c)
  <2>1. unclaimed'[c] = (unclaimed[c] + 1) % CounterMod
    BY <1>1, <1>5, CountsOnce DEF Put, Inc, CounterType
  <2>2. counter[c] + n \in Nat /\ (counter[c] + n) + 1 = counter[c] + (n + 1)
    BY <1>3
  <2>3. (((counter[c] + n) % CounterMod) + 1) % CounterMod
          = ((counter[c] + n) + 1) % CounterMod
    BY <2>2, ModInc
  <2> QED
    BY <1>3, <1>4, <1>5, <2>1, <2>2, <2>3
<1>6. CASE ~Counts(p, c)
  <2>1. unclaimed'[c] = unclaimed[c]
    BY <1>1, <1>6, CountsOnce DEF Put, Inc, CounterType
  <2> QED
    BY <1>3, <1>4, <1>6, <2>1
<1> QED
  BY <1>5, <1>6

(* A wait reads a packet and counts it under the packet's category.         *)
LEMMA DropAccounted ==
    ASSUME TypeOK, Accounted, rx # <<>>, rx' = Tail(rx), ~Head(rx).short,
           counter' = Inc(counter, CategoryOf(Head(rx))), unclaimed' = unclaimed
    PROVE  Accounted'
<1>1. /\ rx \in Packets /\ counter \in CounterType
      /\ Head(rx) \in Packet /\ Tail(rx) \in Packets
  BY TailType DEF TypeOK, Packets, CounterType
<1>2. SUFFICES ASSUME NEW c \in Category
               PROVE  unclaimed[c]
                        = (counter'[c] + Cardinality(Hits(Tail(rx), c))) % CounterMod
  BY DEF Accounted, InRx
<1> DEFINE n == Cardinality(Hits(Tail(rx), c))
<1>3. /\ unclaimed[c] = (counter[c] + Cardinality(Hits(rx, c))) % CounterMod
      /\ counter[c] \in 0 .. CounterMod - 1
  BY <1>1 DEF Accounted, InRx, CounterType
<1>4. n \in Nat
  BY <1>1, HitsFinite
<1>5. Cardinality(Hits(rx, c)) = n + (IF Counts(Head(rx), c) THEN 1 ELSE 0)
  BY <1>1, HitsTail
<1> HIDE DEF n
<1>6. CASE Counts(Head(rx), c)
  <2>1. counter'[c] = (counter[c] + 1) % CounterMod
    BY <1>1, <1>6, CountsOnce DEF Inc, CounterType
  <2>2. (((counter[c] + 1) % CounterMod) + n) % CounterMod
          = (counter[c] + (n + 1)) % CounterMod
    BY <1>3, <1>4, ModMove
  <2> QED
    BY <1>3, <1>5, <1>6, <2>1, <2>2 DEF n
<1>7. CASE ~Counts(Head(rx), c)
  <2>1. counter'[c] = counter[c]
    BY <1>1, <1>7, CountsOnce DEF Inc, CounterType
  <2> QED
    BY <1>3, <1>4, <1>5, <1>7, <2>1 DEF n
<1> QED
  BY <1>6, <1>7

(* A packet is read by the capture loop, accepted, or lost with its command.*)
LEMMA ClaimAccounted ==
    ASSUME TypeOK, Accounted, rx # <<>>, rx' = Tail(rx), ~Head(rx).short,
           unclaimed' = Dec(unclaimed, CategoryOf(Head(rx))), counter' = counter
    PROVE  Accounted'
<1>1. /\ rx \in Packets /\ counter \in CounterType /\ unclaimed \in CounterType
      /\ Head(rx) \in Packet /\ Tail(rx) \in Packets
  BY TailType DEF TypeOK, Packets, CounterType
<1>2. SUFFICES ASSUME NEW c \in Category
               PROVE  unclaimed'[c]
                        = (counter[c] + Cardinality(Hits(Tail(rx), c))) % CounterMod
  BY DEF Accounted, InRx
<1> DEFINE n == Cardinality(Hits(Tail(rx), c))
<1>3. /\ unclaimed[c] = (counter[c] + Cardinality(Hits(rx, c))) % CounterMod
      /\ counter[c] \in 0 .. CounterMod - 1
  BY <1>1 DEF Accounted, InRx, CounterType
<1>4. n \in Nat
  BY <1>1, HitsFinite
<1>5. Cardinality(Hits(rx, c)) = n + (IF Counts(Head(rx), c) THEN 1 ELSE 0)
  BY <1>1, HitsTail
<1> HIDE DEF n
<1>6. CASE Counts(Head(rx), c)
  <2>1. unclaimed'[c] = (unclaimed[c] + CounterMod - 1) % CounterMod
    BY <1>1, <1>6, CountsOnce DEF Dec, CounterType
  <2>2. counter[c] + n \in Nat /\ counter[c] + (n + 1) = (counter[c] + n) + 1
    BY <1>3, <1>4
  <2>3. unclaimed[c] = ((counter[c] + n) + 1) % CounterMod
    BY <1>3, <1>5, <1>6, <2>2
  <2>4. ((((counter[c] + n) + 1) % CounterMod) + CounterMod - 1) % CounterMod
          = (counter[c] + n) % CounterMod
    BY <2>2, ModDec
  <2> QED
    BY <2>1, <2>3, <2>4 DEF n
<1>7. CASE ~Counts(Head(rx), c)
  <2>1. unclaimed'[c] = unclaimed[c]
    BY <1>1, <1>7, CountsOnce DEF Dec, CounterType
  <2> QED
    BY <1>3, <1>4, <1>5, <1>7, <2>1 DEF n
<1> QED
  BY <1>6, <1>7

(* A packet too short to classify is in no category.                        *)
LEMMA ShortAccounted ==
    ASSUME TypeOK, Accounted, rx # <<>>, rx' = Tail(rx), Head(rx).short,
           UNCHANGED <<counter, unclaimed>>
    PROVE  Accounted'
<1>1. rx \in Packets /\ Tail(rx) \in Packets
  BY TailType DEF TypeOK, Packets
<1>2. SUFFICES ASSUME NEW c \in Category
               PROVE  unclaimed[c]
                        = (counter[c] + Cardinality(Hits(Tail(rx), c))) % CounterMod
  BY DEF Accounted, InRx
<1>3. ~Counts(Head(rx), c)
  BY DEF Counts
<1>4. Cardinality(Hits(rx, c)) = Cardinality(Hits(Tail(rx), c)) + 0
  BY <1>1, <1>3, HitsTail
<1>5. Cardinality(Hits(Tail(rx), c)) \in Nat
  BY <1>1, HitsFinite
<1> QED
  BY <1>4, <1>5 DEF Accounted, InRx

(* Every way a packet can leave the endpoint, and every way one can arrive, *)
(* keeps the books.                                                         *)
LEMMA AccountedStep ==
    ASSUME TypeOK, Accounted, [Next]_vars
    PROVE  Accounted'
<1>1. ASSUME rx' = rx, counter' = counter, unclaimed' = unclaimed
      PROVE  Accounted'
  BY <1>1 DEF Accounted, InRx
<1>2. ASSUME rx # <<>>
      PROVE  Head(rx) \in Packet /\ pkt = Head(rx)
  BY <1>2, TailType DEF pkt
<1>3. CASE SendNoWait \/ SendAndWait \/ SendFails
  BY <1>1, <1>3 DEF SendNoWait, SendAndWait, SendFails
<1>4. CASE BeginRead \/ GiveUp \/ ReadTimeout \/ ReadError \/ Tick
  BY <1>1, <1>4 DEF BeginRead, GiveUp, ReadTimeout, ReadError, Tick
<1>5. CASE SkipShort
  BY <1>2, <1>5, ShortAccounted DEF SkipShort, Reading
<1>6. CASE DropPacket
  <2>1. CategoryOf(pkt) = IF IsFrame(pkt) THEN "frame" ELSE "other"
    BY <1>6 DEF DropPacket, IsEvent, CategoryOf
  <2> QED
    BY <1>2, <1>6, <2>1, DropAccounted DEF DropPacket, Reading
<1>7. CASE SkipStale
  <2>1. CategoryOf(pkt) = "event" /\ ~pkt.short
    BY <1>7 DEF SkipStale, IsEvent, CategoryOf
  <2> QED
    BY <1>2, <1>7, <2>1, DropAccounted DEF SkipStale, Reading
<1>8. CASE Accept
  <2>1. CategoryOf(pkt) = "event" /\ ~pkt.short
    BY <1>8 DEF Accept, IsEvent, CategoryOf
  <2> QED
    BY <1>2, <1>8, <2>1, ClaimAccounted DEF Accept, Reading
<1>9. CASE RejectTruncated
  <2>1. CategoryOf(pkt) = "event" /\ ~pkt.short
    BY <1>9 DEF RejectTruncated, IsEvent, CategoryOf
  <2> QED
    BY <1>2, <1>9, <2>1, ClaimAccounted DEF RejectTruncated, Reading
<1>10. CASE Overrun
  <2>1. CategoryOf(pkt) = "frame" /\ ~pkt.short
    BY <1>10 DEF Overrun, CategoryOf
  <2> QED
    BY <1>2, <1>10, <2>1, ClaimAccounted DEF Overrun, Reading
<1>11. CASE Capture
  BY <1>2, <1>11, ShortAccounted, ClaimAccounted DEF Capture
<1>12. CASE Device
  <2>1. ASSUME NEW p \in Packet, Put(p), counter' = counter
        PROVE  Accounted'
    BY <2>1, PutAccounted
  <2>2. counter' = counter /\ \E p \in Packet : Put(p)
    <3>1. CASE Reply
      <4>1. PICK c \in owed : Put(Event(c.seq, c.id))
        BY <3>1 DEF Reply
      <4>2. Event(c.seq, c.id) \in Packet
        BY <4>1, PacketsDelivered DEF TypeOK, Call
      <4> QED
        BY <3>1, <4>1, <4>2 DEF Reply
    <3>2. CASE Unsolicited
      <4>1. Event(0, 0) \in Packet
        BY PacketsDelivered DEF Seqs, Ids
      <4> QED
        BY <3>2, <4>1 DEF Unsolicited
    <3>3. CASE Receive
      BY <3>3, PacketsDelivered DEF Receive
    <3>4. CASE OtherPacket
      BY <3>4, PacketsDelivered DEF OtherPacket
    <3> QED
      BY <1>12, <3>1, <3>2, <3>3, <3>4 DEF Device
  <2> QED
    BY <2>1, <2>2
<1>13. CASE UNCHANGED vars
  BY <1>1, <1>13 DEF vars
<1> QED
  BY <1>3, <1>4, <1>5, <1>6, <1>7, <1>8, <1>9, <1>10, <1>11, <1>12, <1>13
     DEF Next, Wait

(* No packet disappears uncounted: with drop counters of any width, what    *)
(* the device delivered is queued, claimed, counted under its own category  *)
(* or lost with a read that failed (mcu_wait and the capture's rx_read).    *)
THEOREM PacketsAccounted == Spec => []Accounted
<1>1. Init => Accounted
  <2> SUFFICES ASSUME Init, NEW c \in Category
               PROVE  unclaimed[c] = (counter[c] + InRx(c)) % CounterMod
    BY DEF Accounted
  <2>1. Hits(rx, c) = {}
    BY DEF Init, Hits
  <2>2. InRx(c) = 0
    BY <2>1, FS_EmptySet DEF InRx
  <2>3. 0 % CounterMod = 0
    BY ModSmall
  <2> QED
    BY <2>2, <2>3 DEF Init
<1>2. TypeOK /\ Accounted /\ [Next]_vars => Accounted'
  BY AccountedStep
<1> QED
  BY <1>1, <1>2, TypeCorrect, PTL DEF Spec

-----------------------------------------------------------------------------
(* The channel implements CommandService                                    *)

(* What CommandService's variables stand for here.                          *)
Open == {c.id : c \in owed}
EventsIn == {i \in 1 .. Len(rx) : IsEvent(rx[i])}
Arriving == {rx[i].id : i \in EventsIn} \ {0}

(* The strengthening the refinement needs: a command is in flight once. It  *)
(* is owed an answer or its answer is queued, not both, and no answer is    *)
(* queued twice; else reading one would not take it out of Arriving.        *)
Once ==
    /\ \A c, d \in owed : c.id = d.id => c = d
    /\ \A i, j \in EventsIn : rx[i].id = rx[j].id => i = j \/ rx[i].id = 0
    /\ \A i \in EventsIn, c \in owed : rx[i].id # c.id

(* A new command's number is on nothing that is in flight.                  *)
LEMMA SendOnce ==
    ASSUME TypeOK, Numbered, Once, Number, rx' = rx,
           owed' \in {owed, owed \cup {[id |-> sent', seq |-> msg_seq']}}
    PROVE  Once'
<1>1. sent \in Nat /\ sent' = sent + 1
  BY DEF TypeOK, Ids, Number
<1>2. \A c \in owed : c.id # sent'
  BY <1>1 DEF Numbered
<1>3. EventsIn' = EventsIn
  BY DEF EventsIn, IsEvent, IsFrame
<1>4. \A i \in EventsIn : rx[i].id # sent'
  BY <1>1 DEF EventsIn, Numbered
<1>5. CASE owed' = owed
  BY <1>3, <1>5 DEF Once
<1>6. CASE owed' = owed \cup {[id |-> sent', seq |-> msg_seq']}
  <2>1. \A c, d \in owed' : c.id = d.id => c = d
    BY <1>2, <1>6 DEF Once
  <2>2. \A i \in EventsIn, c \in owed' : rx[i].id # c.id
    BY <1>4, <1>6 DEF Once
  <2> QED
    BY <1>3, <2>1, <2>2 DEF Once
<1> QED
  BY <1>5, <1>6

(* Reading a packet takes its command, if it is an answer, out of Arriving, *)
(* and changes nothing else there.                                          *)
LEMMA TailArriving ==
    ASSUME TypeOK, Once, rx # <<>>, rx' = Tail(rx), owed' = owed
    PROVE  /\ Once'
           /\ Arriving' = IF IsEvent(pkt) THEN Arriving \ {pkt.id} ELSE Arriving
           /\ IsEvent(pkt) /\ pkt.id # 0 => pkt.id \in Arriving
<1>1. /\ rx \in Seq(Packet) /\ Len(rx) \in Nat /\ Len(rx) >= 1
      /\ Len(rx') = Len(rx) - 1 /\ pkt = rx[1]
      /\ \A i \in 1 .. Len(rx') : i + 1 \in 1 .. Len(rx) /\ rx'[i] = rx[i + 1]
  BY DEF TypeOK, pkt
<1>2. \A i \in EventsIn' :
          i \in Nat /\ i + 1 # 1 /\ i + 1 \in EventsIn /\ rx'[i] = rx[i + 1]
  <2>1. SUFFICES ASSUME NEW i \in EventsIn'
                 PROVE  /\ i \in Nat /\ i + 1 # 1
                        /\ i + 1 \in EventsIn /\ rx'[i] = rx[i + 1]
    OBVIOUS
  <2>2. i \in 1 .. Len(rx') /\ IsEvent(rx'[i])
    BY <2>1 DEF EventsIn, IsEvent, IsFrame
  <2> QED
    BY <1>1, <2>2 DEF EventsIn, IsEvent, IsFrame
<1>3. \A j \in EventsIn : j # 1 => j - 1 \in EventsIn' /\ rx'[j - 1] = rx[j]
  <2>1. SUFFICES ASSUME NEW j \in EventsIn, j # 1
                 PROVE  j - 1 \in EventsIn' /\ rx'[j - 1] = rx[j]
    OBVIOUS
  <2>2. j \in 2 .. Len(rx) /\ IsEvent(rx[j])
    BY <1>1, <2>1 DEF EventsIn
  <2>3. j - 1 \in 1 .. Len(rx') /\ rx'[j - 1] = rx[(j - 1) + 1] /\ (j - 1) + 1 = j
    BY <1>1, <2>2
  <2> QED
    BY <2>2, <2>3 DEF EventsIn, IsEvent, IsFrame
<1>4. 1 \in EventsIn <=> IsEvent(pkt)
  BY <1>1 DEF EventsIn
<1>6. Once'
  <2>1. ASSUME NEW i \in EventsIn', NEW j \in EventsIn', rx'[i].id = rx'[j].id
        PROVE  i = j \/ rx'[i].id = 0
    <3>1. /\ i \in Nat /\ i + 1 \in EventsIn /\ rx'[i] = rx[i + 1]
          /\ j \in Nat /\ j + 1 \in EventsIn /\ rx'[j] = rx[j + 1]
      BY <1>2, <2>1
    <3>2. i + 1 = j + 1 \/ rx[i + 1].id = 0
      BY <2>1, <3>1 DEF Once
    <3>3. i + 1 = j + 1 => i = j
      BY <3>1
    <3> QED
      BY <3>1, <3>2, <3>3
  <2>2. ASSUME NEW i \in EventsIn', NEW c \in owed
        PROVE  rx'[i].id # c.id
    <3>1. i + 1 \in EventsIn /\ rx'[i] = rx[i + 1]
      BY <1>2, <2>2
    <3> QED
      BY <3>1 DEF Once
  <2> QED
    BY <2>1, <2>2 DEF Once
<1>7. \A x : x \in Arriving' <=> x # 0 /\ \E j \in EventsIn : j # 1 /\ x = rx[j].id
  <2>1. Arriving' = {rx'[i].id : i \in EventsIn'} \ {0}
    BY DEF Arriving
  <2>2. ASSUME NEW x, x \in Arriving'
        PROVE  x # 0 /\ \E j \in EventsIn : j # 1 /\ x = rx[j].id
    <3>1. PICK i \in EventsIn' : x = rx'[i].id
      BY <2>1, <2>2
    <3>2. i + 1 # 1 /\ i + 1 \in EventsIn /\ x = rx[i + 1].id
      BY <1>2, <3>1
    <3> QED
      BY <2>1, <2>2, <3>2
  <2>3. ASSUME NEW x, x # 0, NEW j \in EventsIn, j # 1, x = rx[j].id
        PROVE  x \in Arriving'
    BY <1>3, <2>1, <2>3
  <2> QED
    BY <2>2, <2>3
<1>8. \A x : x \in Arriving <=> x # 0 /\ \E j \in EventsIn : x = rx[j].id
  BY DEF Arriving
<1>9. CASE IsEvent(pkt)
  <2>1. \A j \in EventsIn : j # 1 => rx[j].id # pkt.id \/ rx[j].id = 0
    BY <1>1, <1>4, <1>9 DEF Once
  <2>2. \A x : x \in Arriving' <=> x \in Arriving /\ x # pkt.id
    BY <1>1, <1>7, <1>8, <2>1
  <2>3. Arriving' = Arriving \ {pkt.id}
    BY <2>2
  <2> QED
    BY <1>1, <1>4, <1>6, <1>9, <1>8, <2>3
<1>10. CASE ~IsEvent(pkt)
  <2>1. \A x : x \in Arriving' <=> x \in Arriving
    BY <1>4, <1>7, <1>10, <1>8
  <2>2. Arriving' = Arriving
    BY <2>1
  <2> QED
    BY <1>6, <1>10, <2>2
<1> QED
  BY <1>9, <1>10

(* A packet that arrives adds its command, if it is an answer, to Arriving. *)
LEMMA PutArriving ==
    ASSUME TypeOK, NEW p \in Packet, Put(p)
    PROVE  /\ EventsIn' = EventsIn \cup (IF IsEvent(p) THEN {Len(rx) + 1} ELSE {})
           /\ \A i \in EventsIn : rx'[i] = rx[i] /\ i # Len(rx) + 1
           /\ rx'[Len(rx) + 1] = p
           /\ Arriving' = Arriving \cup (IF IsEvent(p) THEN {p.id} \ {0} ELSE {})
<1>1. /\ Len(rx) \in Nat /\ Len(rx') = Len(rx) + 1
      /\ \A i \in 1 .. Len(rx) : rx'[i] = rx[i]
      /\ rx'[Len(rx) + 1] = p
  BY DEF TypeOK, Put
<1>2. \A i \in 1 .. Len(rx') : i \in 1 .. Len(rx) \/ i = Len(rx) + 1
  BY <1>1
<1>3. \A i : i \in EventsIn' <=> i \in EventsIn \/ (IsEvent(p) /\ i = Len(rx) + 1)
  <2>1. \A i \in 1 .. Len(rx) : i \in EventsIn' <=> i \in EventsIn
    BY <1>1 DEF EventsIn, IsEvent, IsFrame
  <2>2. Len(rx) + 1 \in EventsIn' <=> IsEvent(p)
    BY <1>1 DEF EventsIn, IsEvent, IsFrame
  <2>3. EventsIn' \subseteq 1 .. Len(rx') /\ EventsIn \subseteq 1 .. Len(rx)
    BY DEF EventsIn
  <2> QED
    BY <1>1, <1>2, <2>1, <2>2, <2>3
<1>4. \A i \in EventsIn : rx'[i] = rx[i] /\ i # Len(rx) + 1
  BY <1>1 DEF EventsIn
<1>5. \A x : x \in Arriving' <=> x \in Arriving \/ (IsEvent(p) /\ x = p.id /\ x # 0)
  BY <1>1, <1>3, <1>4 DEF Arriving
<1> QED
  BY <1>1, <1>3, <1>4, <1>5

(* Once is inductive relative to the types and the numbering.               *)
LEMMA OnceStep ==
    ASSUME TypeOK, Numbered, Once, [Next]_vars
    PROVE  Once'
<1>1. ASSUME rx' = rx, owed' = owed
      PROVE  Once'
  <2>1. EventsIn' = EventsIn
    BY <1>1 DEF EventsIn, IsEvent, IsFrame
  <2> QED
    BY <1>1, <2>1 DEF Once
<1>2. CASE SendNoWait \/ SendAndWait \/ SendFails
  BY <1>2, SendOnce DEF SendNoWait, SendAndWait, SendFails
<1>3. CASE BeginRead \/ GiveUp \/ ReadTimeout \/ ReadError \/ Tick
  BY <1>1, <1>3 DEF BeginRead, GiveUp, ReadTimeout, ReadError, Tick
<1>4. CASE SkipShort \/ DropPacket \/ SkipStale \/ Accept \/ RejectTruncated \/ Overrun
  BY <1>4, TailArriving
     DEF SkipShort, DropPacket, SkipStale, Accept, RejectTruncated, Overrun, Reading
<1>5. CASE Capture
  BY <1>5, TailArriving DEF Capture
<1>6. CASE Reply
  <2>1. PICK c \in owed : Put(Event(c.seq, c.id)) /\ owed' = owed \ {c}
    BY <1>6 DEF Reply
  <2> DEFINE p == Event(c.seq, c.id)
             n == Len(rx) + 1
  <2>2. p \in Packet /\ p.id = c.id /\ IsEvent(p)
    BY <2>1, PacketsDelivered DEF TypeOK, Call, Event, IsEvent, IsFrame
  <2>3. /\ EventsIn' = EventsIn \cup {n} /\ rx'[n].id = c.id
        /\ \A i \in EventsIn : rx'[i] = rx[i]
    BY <2>1, <2>2, PutArriving
  <2> HIDE DEF n, p
  <2>4. \A d \in owed' : d \in owed /\ d.id # c.id
    BY <2>1 DEF Once
  <2>5. \A i, j \in EventsIn' : rx'[i].id = rx'[j].id => i = j \/ rx'[i].id = 0
    BY <2>1, <2>3 DEF Once
  <2>6. \A i \in EventsIn', d \in owed' : rx'[i].id # d.id
    BY <2>3, <2>4 DEF Once
  <2> QED
    BY <2>4, <2>5, <2>6 DEF Once
<1>7. ASSUME NEW p \in Packet, Put(p), IsEvent(p) => p.id = 0, owed' = owed
      PROVE  Once'
  <2>1. /\ EventsIn' = EventsIn \cup (IF IsEvent(p) THEN {Len(rx) + 1} ELSE {})
        /\ \A i \in EventsIn : rx'[i] = rx[i]
        /\ rx'[Len(rx) + 1] = p
    BY <1>7, PutArriving
  <2>2. \A i, j \in EventsIn' : rx'[i].id = rx'[j].id => i = j \/ rx'[i].id = 0
    BY <1>7, <2>1 DEF Once
  <2>3. \A d \in owed : d.id # 0
    BY DEF Numbered
  <2>4. \A i \in EventsIn', d \in owed : rx'[i].id # d.id
    BY <1>7, <2>1, <2>3 DEF Once
  <2> QED
    BY <1>7, <2>2, <2>4 DEF Once
<1>8. CASE Unsolicited
  <2>1. Event(0, 0) \in Packet /\ Event(0, 0).id = 0
    BY PacketsDelivered DEF Seqs, Ids, Event
  <2> QED
    BY <1>7, <1>8, <2>1 DEF Unsolicited
<1>9. CASE Receive
  <2>1. PICK p \in Frames : Put(p)
    BY <1>9 DEF Receive
  <2>2. p \in Packet /\ p.id = 0
    BY <2>1, PacketsDelivered DEF Frames
  <2> QED
    BY <1>7, <1>9, <2>1, <2>2 DEF Receive
<1>10. CASE OtherPacket
  <2>1. PICK p \in {Status, Short} : Put(p)
    BY <1>10 DEF OtherPacket
  <2>2. p \in Packet /\ p.id = 0
    <3>1. p \in Packet
      BY <2>1, PacketsDelivered
    <3>2. p.id = 0
      BY <2>1 DEF Status, Short
    <3> QED
      BY <3>1, <3>2
  <2> QED
    BY <1>7, <1>10, <2>1, <2>2 DEF OtherPacket
<1>11. CASE UNCHANGED vars
  BY <1>1, <1>11 DEF vars
<1> QED
  BY <1>2, <1>3, <1>4, <1>5, <1>6, <1>8, <1>9, <1>10, <1>11 DEF Next, Wait, Device

(* Every step of the channel is a step of the service, or none.             *)
LEMMA ServiceStep ==
    ASSUME TypeOK, Numbered, Once, Attributed', [Next]_vars
    PROVE  [Service!Next]_(Service!serviceVars)
<1> DEFINE Waiting == IF phase = "idle" THEN 0 ELSE call.id
           Same == UNCHANGED <<sent, Waiting, Open, Arriving, outcome, answer>>
<1>a. SUFFICES Service!Next \/ Same
  BY DEF Service!serviceVars, Open, Arriving, EventsIn
<1>b. ASSUME rx' = rx
      PROVE  Arriving' = Arriving
  BY <1>b DEF Arriving, EventsIn, IsEvent, IsFrame
<1>c. ASSUME owed' = owed
      PROVE  Open' = Open
  BY <1>c DEF Open
<1>d. /\ phase # "idle" => Waiting = sent /\ Waiting # 0
      /\ sent \in Nat
  BY DEF Numbered, TypeOK, Ids
<1>e. ASSUME owed' = owed \cup {[id |-> sent', seq |-> msg_seq']}
      PROVE  Open' = Open \cup {sent'}
  <2>1. ASSUME NEW r, owed' = owed \cup {r}
        PROVE  Open' = Open \cup {r.id}
    BY <2>1 DEF Open
  <2>2. [id |-> sent', seq |-> msg_seq'].id = sent'
    OBVIOUS
  <2> QED
    BY ONLY <1>e, <2>1, <2>2, Zenon
<1>1. CASE SendNoWait
  <2>1. Service!Send
    BY <1>1, <1>b, <1>e
       DEF SendNoWait, Number, Service!Send, Service!Issue, Open, Arriving, EventsIn
  <2> QED
    BY <2>1 DEF Service!Next
<1>2. CASE SendAndWait
  <2>1. Service!Call
    BY <1>2, <1>b, <1>e
       DEF SendAndWait, Number, Service!Call, Service!Issue, Open, Arriving, EventsIn
  <2> QED
    BY <2>1 DEF Service!Next
<1>3. CASE SendFails
  <2>1. Service!Send
    BY <1>3, <1>b, <1>c
       DEF SendFails, Number, Service!Send, Service!Issue, Open, Arriving, EventsIn
  <2> QED
    BY <2>1 DEF Service!Next
<1>4. CASE BeginRead \/ Tick
  BY <1>4, <1>b, <1>c DEF BeginRead, Tick
<1>5. ASSUME phase # "idle", Fail, owed' = owed, rx' = rx
      PROVE  Service!Next
  <2>1. Service!Fail
    BY <1>5, <1>b, <1>c, <1>d DEF Fail, Service!Fail, Open, Arriving, EventsIn
  <2> QED
    BY <2>1 DEF Service!Next
<1>6. CASE GiveUp
  BY <1>5, <1>6 DEF GiveUp
<1>7. CASE ReadTimeout
  <2>1. CASE Fail
    BY <1>5, <1>7, <2>1 DEF ReadTimeout
  <2>2. CASE ~Fail
    BY <1>7, <1>b, <1>c, <2>2 DEF ReadTimeout
  <2> QED
    BY <2>1, <2>2
<1>8. CASE ReadError
  BY <1>5, <1>8 DEF ReadError
<1>9. CASE SkipShort \/ DropPacket
  BY <1>9, <1>c, TailArriving DEF SkipShort, DropPacket, Reading, LoopAgain, IsEvent
<1>10. ASSUME rx # <<>>, rx' = Tail(rx), UNCHANGED <<sent, Waiting, outcome, answer, owed>>
       PROVE  Service!Next \/ Same
  <2>1. CASE IsEvent(pkt) /\ pkt.id # 0
    <3>1. pkt.id \in Arriving /\ Arriving' = Arriving \ {pkt.id}
      BY <1>10, <2>1, TailArriving
    <3>2. Service!Lose
      BY <1>10, <1>c, <3>1 DEF Service!Lose, Open, Arriving, EventsIn
    <3> QED
      BY <3>2 DEF Service!Next
  <2>2. CASE ~(IsEvent(pkt) /\ pkt.id # 0)
    <3>1. Arriving' = Arriving
      BY <1>10, <2>2, TailArriving DEF Arriving
    <3> QED
      BY <1>10, <1>c, <3>1
  <2> QED
    BY <2>1, <2>2
<1>11. CASE SkipStale
  BY <1>10, <1>11 DEF SkipStale, Reading, LoopAgain
<1>12. CASE Capture
  BY <1>10, <1>12 DEF Capture, hostVars
<1>13. ASSUME Reading, IsEvent(pkt), Matches(pkt)
       PROVE  pkt.id \in 1 .. sent
  <2>1. call.seq = SeqOf(sent) /\ sent > 0
    BY <1>13, <1>d DEF Reading, Numbered
  <2>2. pkt.seq # 0
    BY <1>13, <1>d, <2>1, SeqOfRange DEF Matches
  <2>3. rx \in Seq(Packet) /\ rx # <<>> /\ 1 \in 1 .. Len(rx) /\ pkt = rx[1]
    BY <1>13 DEF Reading, TypeOK, pkt
  <2> QED
    BY <1>13, <2>2, <2>3 DEF Numbered
<1>14. CASE Accept
  <2>1. pkt.id \in 1 .. sent
    BY <1>13, <1>14 DEF Accept
  <2>2. pkt.id \in Arriving /\ Arriving' = Arriving \ {pkt.id}
    BY <1>14, <2>1, TailArriving DEF Accept, Reading
  <2>3. pkt.id = Waiting \/ Waiting - pkt.id >= SeqMod - 1
    BY <1>14 DEF Accept, Reading, Attributed
  <2>4. Service!Return
    BY <1>14, <1>c, <1>d, <2>2, <2>3
       DEF Accept, Reading, Service!Return, Open, Arriving, EventsIn
  <2> QED
    BY <2>4 DEF Service!Next
<1>15. CASE RejectTruncated
  <2>1. pkt.id \in 1 .. sent
    BY <1>13, <1>15 DEF RejectTruncated
  <2>2. pkt.id \in Arriving /\ Arriving' = Arriving \ {pkt.id}
    BY <1>15, <2>1, TailArriving DEF RejectTruncated, Reading
  <2>3. Service!Fail
    BY <1>15, <1>c, <1>d, <2>2
       DEF RejectTruncated, Reading, Fail, Service!Fail, Open, Arriving, EventsIn
  <2> QED
    BY <2>3 DEF Service!Next
<1>16. CASE Overrun
  <2>1. Arriving' = Arriving
    BY <1>16, TailArriving DEF Overrun, Reading, IsEvent
  <2>2. Service!Fail
    BY <1>16, <1>c, <1>d, <2>1
       DEF Overrun, Reading, Fail, Service!Fail, Open, Arriving, EventsIn
  <2> QED
    BY <2>2 DEF Service!Next
<1>17. CASE Reply
  <2>1. PICK c \in owed : Put(Event(c.seq, c.id)) /\ owed' = owed \ {c}
    BY <1>17 DEF Reply
  <2>2. Event(c.seq, c.id) \in Packet /\ IsEvent(Event(c.seq, c.id))
    BY <2>1, PacketsDelivered DEF TypeOK, Call, Event, IsEvent, IsFrame
  <2>3. Event(c.seq, c.id).id = c.id /\ c.id # 0
    BY <2>1 DEF Event, Numbered
  <2>4. Arriving' = Arriving \cup {c.id}
    BY <2>1, <2>2, <2>3, PutArriving
  <2>5. c.id \in Open /\ Open' = Open \ {c.id}
    BY <2>1 DEF Open, Once
  <2>6. Service!Answer
    BY <1>17, <2>4, <2>5
       DEF Reply, hostVars, Service!Answer, Open, Arriving, EventsIn
  <2> QED
    BY <2>6 DEF Service!Next
<1>18. ASSUME NEW p \in Packet, Put(p), IsEvent(p) => p.id = 0,
              UNCHANGED <<hostVars, owed>>
       PROVE  Same
  <2>1. Arriving' = Arriving
    BY <1>18, PutArriving
  <2> QED
    BY <1>18, <1>c, <2>1 DEF hostVars
<1>19. CASE Unsolicited
  <2>1. Event(0, 0) \in Packet /\ Event(0, 0).id = 0
    BY PacketsDelivered DEF Seqs, Ids, Event
  <2> QED
    BY <1>18, <1>19, <2>1 DEF Unsolicited
<1>20. CASE Receive
  <2>1. PICK p \in Frames : Put(p)
    BY <1>20 DEF Receive
  <2>2. p \in Packet /\ p.id = 0
    BY <2>1, PacketsDelivered DEF Frames
  <2> QED
    BY <1>18, <1>20, <2>1, <2>2 DEF Receive
<1>21. CASE OtherPacket
  <2>1. PICK p \in {Status, Short} : Put(p)
    BY <1>21 DEF OtherPacket
  <2>2. p \in Packet /\ p.id = 0
    <3>1. p \in Packet
      BY <2>1, PacketsDelivered
    <3>2. p.id = 0
      BY <2>1 DEF Status, Short
    <3> QED
      BY <3>1, <3>2
  <2> QED
    BY <1>18, <1>21, <2>1, <2>2 DEF OtherPacket
<1>22. CASE UNCHANGED vars
  BY <1>22, <1>b, <1>c DEF vars
<1> QED
  BY <1>1, <1>2, <1>3, <1>4, <1>6, <1>7, <1>8, <1>9, <1>11, <1>12, <1>14, <1>15,
     <1>16, <1>17, <1>19, <1>20, <1>21, <1>22 DEF Next, Wait, Device

(* Whatever the width of the sequence and the depth of the queue, the       *)
(* channel keeps the promise its callers rely on: every command is answered *)
(* at most once, and a call returns its own answer, a full turn older one,  *)
(* or an error (mcu_send with mcu_wait, in both drivers).                   *)
THEOREM ServiceImplemented == Spec => ImplementsService
<1>1. Init => Service!Init
  BY DEF Init, Service!Init
<1>2. Init => Once
  BY DEF Init, Once, EventsIn
<1>3. TypeOK /\ Numbered /\ Once /\ [Next]_vars => Once'
  BY OnceStep
<1>4. TypeOK /\ Numbered /\ Once /\ Attributed' /\ [Next]_vars
        => [Service!Next]_(Service!serviceVars)
  BY ServiceStep
<1> QED
  BY <1>1, <1>2, <1>3, <1>4, TypeCorrect, SequencesNumbered, RepliesAttributed, PTL
     DEF Spec, ImplementsService, Service!Spec
=============================================================================
