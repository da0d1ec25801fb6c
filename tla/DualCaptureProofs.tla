------------------------- MODULE DualCaptureProofs -------------------------
(***************************************************************************)
(* What dual_capture reports is right for any number of radios, any frames *)
(* and any duration: the client's identity is learned once and from one    *)
(* station, no event precedes the identity that explains it, and the       *)
(* shared window is of radios that listened.                               *)
(***************************************************************************)
EXTENDS DualCapture, FiniteSetTheorems, WellFoundedInduction, TLAPS

-----------------------------------------------------------------------------
(* The operators of the community modules the model is built from.          *)

(* A nonempty set of natural numbers has a least member, and Min is it.     *)
LEMMA LeastOfNaturals ==
    ASSUME NEW S \in SUBSET Nat, S # {}
    PROVE  Min(S) \in S /\ \A n \in S : Min(S) <= n
<1> DEFINE Below == OpToRel(<, Nat)
<1>1. IsWellFoundedOn(Below, Nat)
    BY NatLessThanWellFounded
<1>2. PICK m \in S : \A n \in S : <<n, m>> \notin Below
    <2> HIDE DEF Below
    <2> QED BY <1>1, WFMin
<1>3. \A n \in S : <<n, m>> \in Below <=> n < m
    BY DEF OpToRel
<1> HIDE DEF Below
<1>4. \A n \in S : ~(n < m)
    BY <1>2, <1>3
<1>5. m \in S /\ \A n \in S : m <= n
    BY <1>4
<1> QED BY <1>5 DEF Min

(* A nonempty set of numbers up to a bound has a greatest, and Max is it.   *)
LEMMA GreatestOfBounded ==
    ASSUME NEW b \in Nat, NEW S \in SUBSET (0 .. b), S # {}
    PROVE  Max(S) \in S /\ \A n \in S : n <= Max(S)
<1> DEFINE Gaps == {b - n : n \in S}
<1>1. Gaps \in SUBSET Nat /\ Gaps # {}
    <2>1. \A n \in S : b - n \in Nat
        OBVIOUS
    <2>2. PICK n \in S : TRUE
        OBVIOUS
    <2>3. b - n \in Gaps
        BY <2>2
    <2> QED BY <2>1, <2>3
<1>2. Min(Gaps) \in Gaps /\ \A g \in Gaps : Min(Gaps) <= g
    <2> HIDE DEF Gaps
    <2> QED BY <1>1, LeastOfNaturals
<1>3. PICK m \in S : Min(Gaps) = b - m
    BY <1>2
<1>4. \A n \in S : b - m <= b - n
    BY <1>2, <1>3
<1>5. m \in S /\ \A n \in S : m >= n
    BY <1>4
<1> QED BY <1>5 DEF Max

(* SetToSeq lists each member of a finite set once.                         *)
LEMMA ListsEachOnce ==
    ASSUME NEW S, IsFiniteSet(S)
    PROVE  /\ SetToSeq(S) \in Seq(S)
           /\ \A i, j \in DOMAIN SetToSeq(S) :
                 SetToSeq(S)[i] = SetToSeq(S)[j] => i = j
           /\ \A x \in S : \E i \in DOMAIN SetToSeq(S) : SetToSeq(S)[i] = x
           /\ SetToSeq(S) = <<>> <=> S = {}
<1> DEFINE n == Cardinality(S)
           s == SetToSeq(S)
<1>1. n \in Nat /\ ExistsBijection(1 .. n, S)
    BY FS_CardinalityType
<1> HIDE DEF n
<1>2. s \in [1 .. n -> S] /\ IsInjective(s)
    BY <1>1 DEF ExistsBijection, Bijection, Injection, SetToSeq, n
<1>3. s \in Injection(1 .. n, S)
    BY <1>2 DEF Injection
<1>4. Cardinality(1 .. n) = n /\ IsFiniteSet(1 .. n)
    BY <1>1, FS_Interval
<1>5. s \in Surjection(1 .. n, S)
    BY <1>3, <1>4, FS_Injection DEF n
<1> HIDE DEF s
<1>6. s \in Seq(S) /\ DOMAIN s = 1 .. n
    BY <1>1, <1>2
<1>7. \A i, j \in DOMAIN s : s[i] = s[j] => i = j
    BY <1>2 DEF IsInjective
<1>8. \A x \in S : \E i \in DOMAIN s : s[i] = x
    BY <1>5, <1>6 DEF Surjection
<1>9. s = <<>> <=> S = {}
    BY <1>6, <1>8, <1>1
<1> QED BY <1>6, <1>7, <1>8, <1>9 DEF s

-----------------------------------------------------------------------------
(* The inductive invariant.                                                 *)

Addresses == (UNION {f.tx : f \in Frames}) \cup Given
Sets == (SUBSET Addresses) \cup {f.seen : f \in Frames}

Typed ==
    /\ TypeOK
    /\ learned \in Seq([at : Nat, address : Addresses])
    /\ events \in Seq([at : Nat, radio : Radios, seen : Sets])
    /\ todo \in [Radios -> Seq(Addresses)]
    /\ at \in [Radios -> Nat]

(* Nothing was learned, or stamped, later than now.                         *)
Past ==
    /\ \A i \in DOMAIN learned : learned[i].at <= now
    /\ Given \subseteq client_addresses

(* What a thread between two locked steps knows is still so: the addresses  *)
(* it announces are the client's, and the frame it reports shows one.       *)
Announces(r) ==
    /\ pc[r] \in {"announce", "announcing"} =>
          /\ todo[r] # <<>>
          /\ \A i \in DOMAIN todo[r] : todo[r][i] \in client_addresses
    /\ pc[r] = "announcing" => Head(todo[r]) \in KnownBy(at[r])
Reports(r) ==
    /\ pc[r] = "stamp" => hand[r].seen \cap client_addresses # {}
    /\ pc[r] = "add" => hand[r].seen \cap KnownBy(at[r]) # {}
InHand == \A r \in Radios : Announces(r) /\ (Given # {} => Reports(r))

(* A thread is ready before it has a deadline, its deadline is a full       *)
(* duration later, it stops by itself only after it, and it stops once.     *)
Unready == {"boot", "raised", "done"}
Life(r) ==
    /\ ready_at[r] <= now
    /\ pc[r] \in {"boot", "deadline"} => now <= BootBy
    /\ pc[r] \notin Unready => ready_at[r] # None
    /\ pc[r] \notin Unready \cup {"deadline"} =>
          deadline[r] >= ready_at[r] + Duration
    /\ pc[r] = "stop" => now >= deadline[r]
    /\ pc[r] = "done" => /\ stopped_at[r] # None
                         /\ ready_at[r] <= stopped_at[r]
    /\ pc[r] = "done" /\ ~error[r] =>
          /\ ready_at[r] # None
          /\ stopped_at[r] >= ready_at[r] + Duration
Lives == \A r \in Radios : Life(r)

IInv ==
    /\ Typed /\ Past
    /\ Identity /\ InHand /\ EventsAfterIdentity
    /\ Lives
-----------------------------------------------------------------------------
(* What a step leaves alone.                                                *)

(* A thread's step takes no time and touches no other thread.               *)
LEMMA Alone ==
    ASSUME Typed, NEW r \in Radios, Thread(r)
    PROVE  /\ now' = now
           /\ \A q \in Radios \ {r} :
                 /\ pc'[q] = pc[q]
                 /\ hand'[q] = hand[q] /\ todo'[q] = todo[q] /\ at'[q] = at[q]
                 /\ ready_at'[q] = ready_at[q] /\ stopped_at'[q] = stopped_at[q]
                 /\ error'[q] = error[q] /\ deadline'[q] = deadline[q]
<1> USE DEF Typed, TypeOK, From, Goto, shared, handling, span
<1>1. CASE Boot(r) BY <1>1 DEF Boot
<1>2. CASE SetDeadline(r) BY <1>2 DEF SetDeadline
<1>3. CASE Loop(r) BY <1>3 DEF Loop
<1>4. CASE Read(r) BY <1>4 DEF Read
<1>5. CASE Stop(r) BY <1>5 DEF Stop
<1>6. CASE Raised(r) BY <1>6 DEF Raised
<1>7. CASE Learn(r) BY <1>7 DEF Learn
<1>8. CASE Announce(r) BY <1>8 DEF Announce
<1>9. CASE Announcing(r) BY <1>9 DEF Announcing
<1>10. CASE Sort(r) BY <1>10 DEF Sort
<1>11. CASE Data(r) BY <1>11 DEF Data
<1>12. CASE Match(r) BY <1>12 DEF Match
<1>13. CASE Stamp(r) BY <1>13 DEF Stamp
<1>14. CASE Add(r) BY <1>14 DEF Add
<1> QED BY <1>1, <1>2, <1>3, <1>4, <1>5, <1>6, <1>7, <1>8, <1>9, <1>10,
           <1>11, <1>12, <1>13, <1>14 DEF Thread

(* Learning: what Timeline.learn adds, and that it is all new.              *)
LEMMA LearnGains ==
    ASSUME Typed, NEW r \in Radios, Learn(r)
    PROVE  \E new \in Seq(NewAddresses(hand[r].tx)) :
              /\ \A i, j \in DOMAIN new : new[i] = new[j] => i = j
              /\ \A x \in NewAddresses(hand[r].tx) :
                    \E i \in DOMAIN new : new[i] = x
              /\ new = <<>> <=> NewAddresses(hand[r].tx) = {}
              /\ learned' = learned \o [i \in DOMAIN new |->
                                          [at |-> now, address |-> new[i]]]
              /\ todo' = [todo EXCEPT ![r] = new]
<1> DEFINE gained == NewAddresses(hand[r].tx)
           new == SetToSeq(gained)
<1>1. hand[r] \in Frames
    BY DEF Typed, TypeOK
<1>2. gained \in SUBSET hand[r].tx
    BY DEF NewAddresses
<1>3. IsFiniteSet(gained)
    BY <1>1, <1>2, RunAssumption, FS_Subset
<1>4. /\ new \in Seq(gained)
      /\ \A i, j \in DOMAIN new : new[i] = new[j] => i = j
      /\ \A x \in gained : \E i \in DOMAIN new : new[i] = x
      /\ new = <<>> <=> gained = {}
    <2> HIDE DEF gained
    <2> QED BY <1>3, ListsEachOnce
<1>5. /\ learned' = learned \o [i \in DOMAIN new |->
                                  [at |-> now, address |-> new[i]]]
      /\ todo' = [todo EXCEPT ![r] = new]
    BY DEF Learn
<1> HIDE DEF new
<1> QED BY <1>4, <1>5

(* An entry of learned is an earlier one, or the new address it stands for. *)
LEMMA Entries ==
    ASSUME Typed, NEW S \in SUBSET Addresses, NEW new \in Seq(S),
           learned' = learned \o [i \in DOMAIN new |->
                                    [at |-> now, address |-> new[i]]]
    PROVE  /\ Len(learned) \in Nat /\ Len(new) \in Nat
           /\ DOMAIN learned = 1 .. Len(learned)
           /\ DOMAIN learned' = 1 .. Len(learned) + Len(new)
           /\ \A i \in DOMAIN learned : learned'[i] = learned[i]
           /\ \A i \in 1 .. Len(new) :
                 /\ learned'[Len(learned) + i].at = now
                 /\ learned'[Len(learned) + i].address = new[i]
           /\ learned' \in Seq([at : Nat, address : Addresses])
<1> DEFINE more == [i \in DOMAIN new |-> [at |-> now, address |-> new[i]]]
<1>1. now \in Nat
    BY CaptureAssumption DEF Typed, TypeOK
<1>2. \A i \in DOMAIN new : new[i] \in S
    OBVIOUS
<1>3. DOMAIN new = 1 .. Len(new) /\ Len(new) \in Nat
    OBVIOUS
<1>4. \A i \in DOMAIN new : more[i] \in [at : Nat, address : Addresses]
    BY <1>1, <1>2
<1>5. more \in Seq([at : Nat, address : Addresses]) /\ Len(more) = Len(new)
    BY <1>3, <1>4
<1>6. /\ learned \in Seq([at : Nat, address : Addresses])
      /\ Len(learned) \in Nat /\ DOMAIN learned = 1 .. Len(learned)
    BY DEF Typed
<1>7. \A i \in 1 .. Len(new) : more[i].at = now /\ more[i].address = new[i]
    BY <1>3
<1>8. learned' = learned \o more
    OBVIOUS
<1> HIDE DEF more
<1>9. /\ learned' \in Seq([at : Nat, address : Addresses])
      /\ DOMAIN learned' = 1 .. Len(learned) + Len(new)
    <2> DEFINE Entry == [at : Nat, address : Addresses]
    <2> HIDE DEF Entry
    <2>1. learned \in Seq(Entry) /\ more \in Seq(Entry)
        BY <1>5, <1>6 DEF Entry
    <2>2. /\ learned \o more \in Seq(Entry)
          /\ Len(learned \o more) = Len(learned) + Len(more)
        BY <2>1
    <2>3. DOMAIN (learned \o more) = 1 .. Len(learned \o more)
        BY <2>2
    <2> QED BY <2>2, <2>3, <1>5, <1>8 DEF Entry
<1>10. \A i \in DOMAIN learned : learned'[i] = learned[i]
    BY <1>3, <1>5, <1>6, <1>8
<1>11. \A i \in 1 .. Len(new) : learned'[Len(learned) + i] = more[i]
    BY <1>3, <1>5, <1>6, <1>8
<1> QED BY <1>3, <1>6, <1>7, <1>9, <1>10, <1>11
-----------------------------------------------------------------------------
(* Types, and the life of a thread.                                         *)

(* A step of a thread keeps the types.                                      *)
LEMMA TypedThread ==
    ASSUME Typed, Lives, InHand, NEW r \in Radios, Thread(r)
    PROVE  Typed'
<1> DEFINE Event == [at : Nat, radio : Radios, seen : Sets]
<1>1. now \in Nat /\ at[r] \in Nat /\ hand[r] \in Frames
    BY CaptureAssumption DEF Typed, TypeOK
<1>2. Life(r) /\ Announces(r)
    BY DEF Lives, InHand
<1> USE DEF From, Goto, shared, handling, span, Stages, None
<1>3. CASE Boot(r)
    <2>1. now \in 0 .. BootBy
        BY <1>1, <1>2, <1>3, CaptureAssumption DEF Life, Boot
    <2> QED BY <1>3, <2>1 DEF Boot, Typed, TypeOK
<1>4. CASE SetDeadline(r)
    <2>1. now + Duration \in 0 .. BootBy + Duration
        BY <1>1, <1>2, <1>4, CaptureAssumption DEF Life, SetDeadline
    <2> QED BY <1>4, <2>1 DEF SetDeadline, Typed, TypeOK
<1>5. CASE Loop(r)
    BY <1>5 DEF Loop, Typed, TypeOK
<1>6. CASE Read(r)
    <2>1. heard' \in [Radios -> 0 .. MaxFrames]
        <3>1. heard \in [Radios -> 0 .. MaxFrames] /\ MaxFrames \in Nat
            BY CaptureAssumption DEF Typed, TypeOK
        <3>2. CASE heard' = heard BY <3>1, <3>2
        <3>3. CASE /\ heard[r] < MaxFrames
                   /\ heard' = [heard EXCEPT ![r] = heard[r] + 1]
            <4>1. heard[r] + 1 \in 0 .. MaxFrames BY <3>1, <3>3
            <4> QED BY <3>1, <3>3, <4>1
        <3> QED BY <1>6, <3>2, <3>3 DEF Read
    <2>2. pc' \in [Radios -> Stages] /\ hand' \in [Radios -> Frames]
        <3>1. pc \in [Radios -> Stages] /\ hand \in [Radios -> Frames]
            BY DEF Typed, TypeOK
        <3> QED BY <1>6, <3>1 DEF Read
    <2>3. UNCHANGED <<now, shared, todo, at, span>>
        BY <1>6 DEF Read
    <2> QED BY <2>1, <2>2, <2>3 DEF Typed, TypeOK
<1>7. CASE Stop(r)
    BY <1>7 DEF Stop, Typed, TypeOK
<1>8. CASE Raised(r)
    BY <1>8 DEF Raised, Typed, TypeOK
<1>9. CASE Learn(r)
    <2> DEFINE S == NewAddresses(hand[r].tx)
    <2>1. S \in SUBSET Addresses
        BY <1>1 DEF NewAddresses, Addresses
    <2>2. PICK new \in Seq(S) :
              /\ learned' = learned \o [i \in DOMAIN new |->
                                          [at |-> now, address |-> new[i]]]
              /\ todo' = [todo EXCEPT ![r] = new]
        BY <1>9, LearnGains
    <2>3. learned' \in Seq([at : Nat, address : Addresses])
        <3> HIDE DEF S
        <3> QED BY <2>1, <2>2, Entries
    <2>4. new \in Seq(Addresses)
        <3> HIDE DEF S
        <3> QED BY <2>1, <2>2
    <2>5. todo' \in [Radios -> Seq(Addresses)]
        BY <2>2, <2>4 DEF Typed
    <2>6. client_addresses' \subseteq Addresses
        BY <2>1, <1>9 DEF Learn, Typed, TypeOK, Addresses
    <2>7. /\ pc' \in [Radios -> Stages]
          /\ UNCHANGED <<now, events, hand, at, span, heard>>
        BY <1>9 DEF Learn, Typed, TypeOK
    <2> QED BY <2>3, <2>5, <2>6, <2>7 DEF Typed, TypeOK, Addresses
<1>10. CASE Announce(r)
    BY <1>1, <1>10 DEF Announce, Typed, TypeOK
<1>11. CASE Announcing(r)
    <2> DEFINE new == [at |-> at[r], radio |-> r, seen |-> {Head(todo[r])}]
    <2>1. todo[r] \in Seq(Addresses) /\ todo[r] # <<>>
        BY <1>2, <1>11 DEF Announcing, Announces, Typed
    <2>2. Head(todo[r]) \in Addresses /\ Tail(todo[r]) \in Seq(Addresses)
        BY <2>1
    <2>3. new \in Event
        BY <1>1, <2>2 DEF Sets
    <2>4. events' = Append(events, new) /\ events \in Seq(Event)
        BY <1>11 DEF Announcing, Typed
    <2>5. events' \in Seq(Event)
        <3> HIDE DEF new, Event
        <3> QED BY <2>3, <2>4
    <2>6. todo' \in [Radios -> Seq(Addresses)]
        BY <2>2, <1>11 DEF Announcing, Typed
    <2>7. /\ pc' \in [Radios -> Stages]
          /\ UNCHANGED <<now, client_addresses, learned, hand, at, span, heard>>
        BY <1>11 DEF Announcing, Typed, TypeOK
    <2> QED BY <2>5, <2>6, <2>7 DEF Typed, TypeOK
<1>12. CASE Sort(r)
    BY <1>12 DEF Sort, Typed, TypeOK
<1>13. CASE Data(r)
    BY <1>13 DEF Data, Typed, TypeOK
<1>14. CASE Match(r)
    BY <1>14 DEF Match, Typed, TypeOK
<1>15. CASE Stamp(r)
    BY <1>1, <1>15 DEF Stamp, Typed, TypeOK
<1>16. CASE Add(r)
    <2> DEFINE new == [at |-> at[r], radio |-> r, seen |-> hand[r].seen]
    <2>1. new \in Event
        BY <1>1 DEF Sets
    <2>2. events' = Append(events, new) /\ events \in Seq(Event)
        BY <1>16 DEF Add, Typed
    <2>3. events' \in Seq(Event)
        <3> HIDE DEF new, Event
        <3> QED BY <2>1, <2>2
    <2>4. /\ pc' \in [Radios -> Stages]
          /\ UNCHANGED <<now, client_addresses, learned, handling, span, heard>>
        BY <1>16 DEF Add, Typed, TypeOK
    <2> QED BY <2>3, <2>4 DEF Typed, TypeOK
<1> QED BY <1>3, <1>4, <1>5, <1>6, <1>7, <1>8, <1>9, <1>10, <1>11, <1>12,
           <1>13, <1>14, <1>15, <1>16 DEF Thread

(* A step of a thread keeps what its place says of its radio.               *)
LEMMA LifeThread ==
    ASSUME Typed, Lives, NEW r \in Radios, Thread(r)
    PROVE  Lives'
<1>1. \A q \in Radios \ {r} : Life(q)'
    BY Alone DEF Lives, Life
<1> SUFFICES Life(r)'
    BY <1>1 DEF Lives
<1> DEFINE Inside == {"loop", "read", "learn", "announce", "announcing", "sort",
                       "data", "match", "stamp", "add"}
<1>2. /\ now \in Nat /\ deadline[r] \in Nat /\ Duration \in Nat
      /\ ready_at[r] \in Nat \cup {None} /\ stopped_at[r] \in Nat \cup {None}
      /\ r \in DOMAIN pc /\ r \in DOMAIN ready_at /\ r \in DOMAIN stopped_at
      /\ r \in DOMAIN error /\ r \in DOMAIN deadline
    BY CaptureAssumption DEF Typed, TypeOK
<1>3. Life(r)
    BY DEF Lives
<1> USE DEF Life, Unready, From, Goto, shared, handling, None
<1>4. ASSUME pc[r] \in Inside, pc'[r] \in Inside \cup {"raised"},
             UNCHANGED <<now, span>>
      PROVE  Life(r)'
    BY <1>3, <1>4 DEF span
<1>5. CASE Boot(r) BY <1>2, <1>3, <1>5 DEF Boot
<1>6. CASE SetDeadline(r) BY <1>2, <1>3, <1>6 DEF SetDeadline
<1>7. CASE Loop(r)
    <2>1. CASE now < deadline[r] BY <2>1, <1>2, <1>4, <1>7 DEF Loop
    <2>2. CASE ~(now < deadline[r])
        <3>1. now >= deadline[r] /\ pc'[r] = "stop" /\ UNCHANGED <<now, span>>
            BY <2>2, <1>2, <1>7 DEF Loop
        <3> QED BY <3>1, <1>3, <1>7 DEF Loop, span
    <2> QED BY <2>1, <2>2
<1>8. CASE Read(r)
    <2>1. /\ pc[r] = "read" /\ pc'[r] \in {"loop", "learn", "raised"}
          /\ UNCHANGED <<now, span>>
        BY <1>2, <1>8 DEF Read
    <2> QED BY <2>1, <1>4
<1>9. CASE Stop(r) BY <1>2, <1>3, <1>9 DEF Stop
<1>10. CASE Raised(r) BY <1>2, <1>3, <1>10 DEF Raised
<1>11. CASE Learn(r) BY <1>2, <1>4, <1>11 DEF Learn
<1>12. CASE Announce(r) BY <1>2, <1>4, <1>12 DEF Announce
<1>13. CASE Announcing(r) BY <1>2, <1>4, <1>13 DEF Announcing
<1>14. CASE Sort(r)
    <2>1. /\ pc[r] = "sort" /\ pc'[r] \in {"data", "match", "loop"}
          /\ UNCHANGED <<now, span>>
        BY <1>2, <1>14 DEF Sort
    <2> QED BY <2>1, <1>4
<1>15. CASE Data(r) BY <1>2, <1>4, <1>15 DEF Data
<1>16. CASE Match(r) BY <1>2, <1>4, <1>16 DEF Match
<1>17. CASE Stamp(r) BY <1>2, <1>4, <1>17 DEF Stamp
<1>18. CASE Add(r) BY <1>2, <1>4, <1>18 DEF Add
<1> QED BY <1>5, <1>6, <1>7, <1>8, <1>9, <1>10, <1>11, <1>12, <1>13, <1>14,
           <1>15, <1>16, <1>17, <1>18 DEF Thread

(* The passing of a second keeps the invariant.                             *)
LEMMA ElapseStep ==
    ASSUME Typed, Past, Lives, InHand, Identity, EventsAfterIdentity, Elapse
    PROVE  IInv'
<1>1. /\ now \in Nat /\ now' = now + 1 /\ now' \in 0 .. BootBy + Duration
      /\ \A r \in Radios : pc[r] \in {"boot", "deadline"} => now' <= BootBy
    BY CaptureAssumption DEF Elapse, Booting, Typed, TypeOK
<1>2. UNCHANGED <<shared, pc, handling, span, heard>>
    BY DEF Elapse
<1>3. Typed'
    BY <1>1, <1>2 DEF Typed, TypeOK, shared, handling, span
<1>4. Past'
    <2>1. \A i \in DOMAIN learned : learned[i].at \in Nat
        <3> DEFINE Entry == [at : Nat, address : Addresses]
        <3>1. \A i \in DOMAIN learned : learned[i] \in Entry
            <4>1. learned \in Seq(Entry) BY DEF Typed
            <4> HIDE DEF Entry
            <4> QED BY <4>1
        <3> QED BY <3>1
    <2> QED BY <1>1, <1>2, <2>1 DEF Past, shared
<1>5. Identity' /\ EventsAfterIdentity' /\ InHand'
    BY <1>2 DEF Identity, LearnedOnce, OneStation, EventsAfterIdentity, InHand,
                Announces, Reports, KnownBy, shared, handling
<1>6. Lives'
    <2>1. \A r \in Radios : deadline[r] \in Int /\ ready_at[r] \in Int
        BY CaptureAssumption DEF Typed, TypeOK, None
    <2> QED BY <1>1, <1>2, <2>1 DEF Lives, Life, Unready, span
<1> QED BY <1>3, <1>4, <1>5, <1>6 DEF IInv
-----------------------------------------------------------------------------
(* The identity of the client.                                              *)

(* Only Learn touches the identity, and only the three of _handle that add  *)
(* or announce touch the events or what a thread has to announce.           *)
LEMMA IdentityOnlyByLearn ==
    ASSUME NEW r \in Radios, Thread(r), ~Learn(r)
    PROVE  UNCHANGED <<client_addresses, learned>>
BY DEF Thread, Boot, SetDeadline, Loop, Read, Stop, Raised, Announce,
       Announcing, Sort, Data, Match, Stamp, Add, shared

(* What an entry of the shared list of addresses is made of.                *)
LEMMA EntryTypes ==
    ASSUME Typed
    PROVE  /\ DOMAIN learned = 1 .. Len(learned) /\ Len(learned) \in Nat
           /\ \A i \in DOMAIN learned : /\ learned[i].at \in Nat
                                        /\ learned[i].address \in Addresses
<1> DEFINE Entry == [at : Nat, address : Addresses]
<1>1. learned \in Seq(Entry)
    BY DEF Typed
<1>2. \A i \in DOMAIN learned : learned[i] \in Entry
    <2> HIDE DEF Entry
    <2> QED BY <1>1
<1> QED BY <1>1, <1>2

(* A thread adds to the list at its end, and what was known by a time stays known. *)
LEMMA GrowsThread ==
    ASSUME Typed, Past, Identity, NEW r \in Radios, Thread(r)
    PROVE  /\ Past' /\ Identity'
           /\ client_addresses \subseteq client_addresses'
           /\ \A t \in Nat : KnownBy(t) \subseteq KnownBy(t)'
<1>1. now' = now
    BY Alone
<1>2. CASE ~Learn(r)
    <2>1. UNCHANGED <<client_addresses, learned>>
        BY <1>2, IdentityOnlyByLearn
    <2> QED BY <1>1, <2>1 DEF Past, Identity, LearnedOnce, OneStation, KnownBy
<1>3. CASE Learn(r)
    <2> DEFINE S == NewAddresses(hand[r].tx)
               n == Len(learned)
    <2>1. hand[r] \in Frames /\ client_addresses' = client_addresses \cup S
        BY <1>3 DEF Learn, Typed, TypeOK
    <2>2. S \in SUBSET Addresses /\ S \cap client_addresses = {}
        BY <2>1 DEF NewAddresses, Addresses
    <2>3. Given # {} => S \subseteq Station
        <3> SUFFICES ASSUME Given # {}, S # {} PROVE S \subseteq Station
            OBVIOUS
        <3>1. /\ hand[r].tx \cap client_addresses # {}
              /\ S \subseteq hand[r].tx
            BY DEF NewAddresses
        <3>2. hand[r].tx \cap Station # {}
            BY <3>1 DEF Identity, OneStation
        <3> QED BY <2>1, <3>1, <3>2, CaptureAssumption
    <2> HIDE DEF S
    <2>4. PICK new \in Seq(S) :
              /\ \A i, j \in DOMAIN new : new[i] = new[j] => i = j
              /\ \A x \in S : \E i \in DOMAIN new : new[i] = x
              /\ learned' = learned \o [i \in DOMAIN new |->
                                          [at |-> now, address |-> new[i]]]
        BY <1>3, LearnGains DEF S
    <2>5. /\ n \in Nat /\ Len(new) \in Nat /\ DOMAIN learned = 1 .. n
          /\ DOMAIN learned' = 1 .. n + Len(new)
          /\ \A i \in DOMAIN learned : learned'[i] = learned[i]
          /\ \A i \in 1 .. Len(new) : /\ learned'[n + i].at = now
                                      /\ learned'[n + i].address = new[i]
        BY <2>2, <2>4, Entries
    <2>6. DOMAIN new = 1 .. Len(new) /\ \A i \in 1 .. Len(new) : new[i] \in S
        BY <2>4
    <2> HIDE DEF n
    <2>7. ASSUME NEW i \in DOMAIN learned'
          PROVE  \/ i \in DOMAIN learned
                 \/ i - n \in 1 .. Len(new) /\ i = n + (i - n)
        BY <2>5
    <2>8. \A i \in DOMAIN learned' : i \notin DOMAIN learned =>
              /\ i - n \in 1 .. Len(new) /\ i > n
              /\ learned'[i].at = now /\ learned'[i].address = new[i - n]
        BY <2>5, <2>7
    <2>9. \A i \in DOMAIN learned : /\ learned[i].at \in Nat
                                    /\ learned[i].at <= now
                                    /\ learned[i].address \in client_addresses
        BY EntryTypes DEF Past, Identity, LearnedOnce
    <2>10. now \in Nat
        BY CaptureAssumption DEF Typed, TypeOK
    <2>11. Past'
        BY <1>1, <2>1, <2>5, <2>8, <2>9, <2>10 DEF Past
    <2>12. \A i, j \in DOMAIN learned' :
              i < j => /\ learned'[i].address # learned'[j].address
                       /\ learned'[i].at <= learned'[j].at
        <3> SUFFICES ASSUME NEW i \in DOMAIN learned', NEW j \in DOMAIN learned',
                            i < j
                     PROVE  /\ learned'[i].address # learned'[j].address
                            /\ learned'[i].at <= learned'[j].at
            OBVIOUS
        <3>1. CASE j \in DOMAIN learned
            BY <2>5, <3>1 DEF Identity, LearnedOnce
        <3>2. CASE i \in DOMAIN learned /\ j \notin DOMAIN learned
            BY <2>2, <2>5, <2>6, <2>8, <2>9, <3>2
        <3>3. CASE i \notin DOMAIN learned /\ j \notin DOMAIN learned
            <4>1. i - n \in DOMAIN new /\ j - n \in DOMAIN new
                BY <2>6, <2>8, <3>3
            <4>2. i - n # j - n
                BY <2>5
            <4> QED BY <2>4, <2>8, <2>10, <3>3, <4>1, <4>2
        <3>4. j \notin DOMAIN learned \/ i \in DOMAIN learned
            BY <2>5
        <3> QED BY <3>1, <3>2, <3>3
    <2>13. {learned'[i].address : i \in DOMAIN learned'}
              = {learned[i].address : i \in DOMAIN learned} \cup S
        <3>1. ASSUME NEW i \in DOMAIN learned'
              PROVE  learned'[i].address \in
                        {learned[k].address : k \in DOMAIN learned} \cup S
            BY <2>5, <2>6, <2>8
        <3>2. ASSUME NEW i \in DOMAIN learned
              PROVE  \E k \in DOMAIN learned' :
                        learned'[k].address = learned[i].address
            BY <2>5
        <3>3. ASSUME NEW x \in S
              PROVE  \E k \in DOMAIN learned' : learned'[k].address = x
            <4>1. PICK i \in 1 .. Len(new) : new[i] = x
                BY <2>4, <2>6
            <4>2. n + i \in DOMAIN learned'
                BY <2>5
            <4> QED BY <2>5, <4>1, <4>2
        <3> QED BY <3>1, <3>2, <3>3
    <2>14. Identity'
        <3>1. {learned'[i].address : i \in DOMAIN learned'}
                 = client_addresses' \ Given
            BY <2>1, <2>2, <2>13 DEF Past, Identity, LearnedOnce
        <3>2. OneStation'
            BY <2>1, <2>3 DEF Identity, OneStation
        <3> QED BY <2>12, <3>1, <3>2 DEF Identity, LearnedOnce
    <2>15. ASSUME NEW t \in Nat
           PROVE  KnownBy(t) \subseteq KnownBy(t)'
        BY <2>5 DEF KnownBy
    <2> QED BY <2>1, <2>11, <2>14, <2>15
<1> QED BY <1>2, <1>3

(* What belongs to the client is known by any stamp not before now.         *)
LEMMA KnownNow ==
    ASSUME Typed, Past, Identity, NEW x \in client_addresses
    PROVE  x \in KnownBy(now)
<1>1. CASE x \in Given
    BY <1>1 DEF KnownBy
<1>2. CASE x \notin Given
    <2>1. PICK i \in DOMAIN learned : learned[i].address = x
        BY <1>2 DEF Identity, LearnedOnce
    <2> QED BY <2>1 DEF KnownBy, Past
<1> QED BY <1>1, <1>2
-----------------------------------------------------------------------------
(* What a thread has in hand, and what it adds to the log.                  *)

(* An event joins the log only if it was in the hand of the thread.         *)
LEMMA EventsOnlyByTwo ==
    ASSUME NEW r \in Radios, Thread(r), ~Announcing(r), ~Add(r)
    PROVE  UNCHANGED events
BY DEF Thread, Boot, SetDeadline, Loop, Read, Stop, Raised, Learn, Announce,
       Sort, Data, Match, Stamp, shared

(* A thread writes an event only of addresses that were known when it happened. *)
LEMMA EventsThread ==
    ASSUME Typed, Past, Identity, InHand, EventsAfterIdentity,
           NEW r \in Radios, Thread(r)
    PROVE  EventsAfterIdentity'
<1> DEFINE Known(t) == Given \cup {learned'[i].address :
                          i \in {j \in DOMAIN learned' : learned'[j].at <= t}}
<1>0. \A t \in Nat : KnownBy(t) \subseteq Known(t)
    BY GrowsThread DEF KnownBy
<1> SUFFICES ASSUME Given # {}
             PROVE  \A i \in DOMAIN events' :
                       events'[i].seen \cap Known(events'[i].at) # {}
    BY DEF EventsAfterIdentity, KnownBy
<1> HIDE DEF Known
<1> DEFINE Event == [at : Nat, radio : Radios, seen : Sets]
<1>1. events \in Seq(Event)
    BY DEF Typed
<1>2. \A i \in DOMAIN events : events[i].at \in Nat
    <2>1. \A i \in DOMAIN events : events[i] \in Event
        <3> HIDE DEF Event
        <3> QED BY <1>1
    <2> QED BY <2>1
<1>3. \A i \in DOMAIN events :
         events[i].seen \cap Known(events[i].at) # {}
    BY <1>0, <1>2 DEF EventsAfterIdentity
<1>4. Announces(r) /\ Reports(r) /\ at[r] \in Nat
    BY DEF InHand, Typed
<1>5. ASSUME NEW e, events' = Append(events, e),
             e.seen \cap Known(e.at) # {}
      PROVE  \A i \in DOMAIN events' :
                events'[i].seen \cap Known(events'[i].at) # {}
    <2> HIDE DEF Event
    <2>1. \A i \in DOMAIN events' : \/ i \in DOMAIN events
                                       /\ events'[i] = events[i]
                                    \/ events'[i] = e
        BY <1>1, <1>5
    <2> QED BY <1>3, <1>5, <2>1
<1>6. CASE Announcing(r)
    <2> DEFINE e == [at |-> at[r], radio |-> r, seen |-> {Head(todo[r])}]
    <2>1. Head(todo[r]) \in Known(at[r])
        BY <1>0, <1>4, <1>6 DEF Announces, Announcing, From
    <2>2. events' = Append(events, e) /\ e.seen \cap Known(e.at) # {}
        BY <1>6, <2>1 DEF Announcing
    <2> HIDE DEF e
    <2> QED BY <1>5, <2>2
<1>7. CASE Add(r)
    <2> DEFINE e == [at |-> at[r], radio |-> r, seen |-> hand[r].seen]
    <2>1. hand[r].seen \cap Known(at[r]) # {}
        BY <1>0, <1>4, <1>7 DEF Reports, Add, From
    <2>2. events' = Append(events, e) /\ e.seen \cap Known(e.at) # {}
        BY <1>7, <2>1 DEF Add
    <2> HIDE DEF e
    <2> QED BY <1>5, <2>2
<1>8. CASE ~Announcing(r) /\ ~Add(r)
    BY <1>3, <1>8, EventsOnlyByTwo
<1> QED BY <1>6, <1>7, <1>8

(* What a thread has read of the list stays within what is known.           *)
LEMMA InHandThread ==
    ASSUME Typed, Past, Identity, InHand, NEW r \in Radios, Thread(r)
    PROVE  InHand'
<1> DEFINE Known(t) == Given \cup {learned'[i].address :
                          i \in {j \in DOMAIN learned' : learned'[j].at <= t}}
<1>1. /\ client_addresses \subseteq client_addresses'
      /\ \A t \in Nat : KnownBy(t) \subseteq Known(t)
    BY GrowsThread DEF KnownBy
<1>2. \A q \in Radios : at[q] \in Nat
    BY DEF Typed
<1>3. \A q \in Radios \ {r} : Announces(q)' /\ (Given # {} => Reports(q)')
    <2>1. ASSUME NEW q \in Radios \ {r}
          PROVE  Announces(q)' /\ (Given # {} => Reports(q)')
        <3>1. /\ Announces(q) /\ (Given # {} => Reports(q))
              /\ KnownBy(at[q]) \subseteq Known(at[q])
            BY <1>1, <1>2 DEF InHand
        <3>2. /\ pc'[q] = pc[q] /\ hand'[q] = hand[q]
              /\ todo'[q] = todo[q] /\ at'[q] = at[q]
            BY Alone
        <3>3. Announces(q)'
            <4>1. pc[q] = "announcing" => Head(todo[q]) \in Known(at[q])
                BY <3>1 DEF Announces
            <4> QED BY <1>1, <3>1, <3>2, <4>1 DEF Announces, KnownBy
        <3>4. Given # {} => Reports(q)'
            <4>1. Given # {} /\ pc[q] = "add" =>
                     hand[q].seen \cap Known(at[q]) # {}
                BY <3>1 DEF Reports
            <4> QED BY <1>1, <3>1, <3>2, <4>1 DEF Reports, KnownBy
        <3> QED BY <3>3, <3>4
    <2> QED BY <2>1
<1>4. /\ r \in DOMAIN pc /\ r \in DOMAIN at /\ r \in DOMAIN todo
      /\ todo[r] \in Seq(Addresses) /\ now \in Nat
    BY CaptureAssumption DEF Typed, TypeOK
<1>5. Announces(r) /\ (Given # {} => Reports(r))
    BY DEF InHand
<1> SUFFICES Announces(r)' /\ (Given # {} => Reports(r)')
    BY <1>3 DEF InHand
<1> USE DEF Announces, Reports, From, Goto, shared, handling, span
<1>6. ASSUME pc'[r] \notin {"announce", "announcing", "stamp", "add"}
      PROVE  Announces(r)' /\ Reports(r)'
    BY <1>6
<1>7. CASE Boot(r) BY <1>4, <1>6, <1>7 DEF Boot
<1>8. CASE SetDeadline(r) BY <1>4, <1>6, <1>8 DEF SetDeadline
<1>9. CASE Loop(r)
    <2>1. pc'[r] \in {"read", "stop"} BY <1>4, <1>9 DEF Loop
    <2> QED BY <2>1, <1>6
<1>10. CASE Read(r)
    <2>1. pc'[r] \in {"loop", "raised", "learn"} BY <1>4, <1>10 DEF Read
    <2> QED BY <2>1, <1>6
<1>11. CASE Stop(r) BY <1>4, <1>6, <1>11 DEF Stop
<1>12. CASE Raised(r) BY <1>4, <1>6, <1>12 DEF Raised
<1>13. CASE Learn(r)
    <2> DEFINE S == NewAddresses(hand[r].tx)
    <2>1. PICK new \in Seq(S) : /\ new = <<>> <=> S = {}
                                /\ todo' = [todo EXCEPT ![r] = new]
        BY <1>13, LearnGains
    <2>2. /\ client_addresses' = client_addresses \cup S
          /\ pc'[r] = IF Identify /\ S # {} THEN "announce" ELSE "sort"
        BY <1>4, <1>13 DEF Learn
    <2> HIDE DEF S
    <2>3. todo'[r] = new /\ \A i \in DOMAIN new : new[i] \in S
        BY <1>4, <2>1
    <2> QED BY <2>1, <2>2, <2>3
<1>14. CASE Announce(r)
    <2>1. /\ pc[r] = "announce" /\ pc'[r] = "announcing" /\ at'[r] = now
          /\ UNCHANGED <<client_addresses, learned, todo>>
        BY <1>4, <1>14 DEF Announce
    <2>2. Head(todo[r]) \in client_addresses
        BY <1>4, <1>5, <2>1
    <2>3. Head(todo[r]) \in KnownBy(now)
        BY <2>2, KnownNow
    <2>4. Head(todo[r]) \in Known(now)
        BY <1>1, <1>4, <2>3
    <2> QED BY <1>5, <2>1, <2>4 DEF KnownBy
<1>15. CASE Announcing(r)
    <2>1. /\ pc[r] = "announcing" /\ todo'[r] = Tail(todo[r])
          /\ pc'[r] = IF Len(todo[r]) > 1 THEN "announce" ELSE "sort"
          /\ UNCHANGED client_addresses
        BY <1>4, <1>15 DEF Announcing
    <2>2. CASE Len(todo[r]) > 1
        <3>1. /\ Tail(todo[r]) # <<>>
              /\ \A i \in DOMAIN Tail(todo[r]) :
                    /\ i + 1 \in DOMAIN todo[r]
                    /\ Tail(todo[r])[i] = todo[r][i + 1]
            <4> DEFINE n == Len(todo[r])
                       rest == Tail(todo[r])
            <4>1. /\ n \in Nat /\ DOMAIN todo[r] = 1 .. n /\ n > 1
                  /\ rest \in Seq(Addresses) /\ Len(rest) = n - 1
                BY <1>4, <2>2
            <4>2. \A i \in 1 .. n - 1 : rest[i] = todo[r][i + 1]
                BY <1>4, <2>2
            <4> HIDE DEF n, rest
            <4>3. DOMAIN rest = 1 .. n - 1 /\ Len(rest) # 0
                BY <4>1
            <4>4. rest # <<>>
                <5>1. Len(<<>>) = 0
                    OBVIOUS
                <5> QED BY <4>3, <5>1
            <4>5. \A i \in 1 .. n - 1 : i + 1 \in DOMAIN todo[r]
                BY <4>1
            <4> QED BY <4>2, <4>3, <4>4, <4>5 DEF rest
        <3>2. pc'[r] = "announce"
            BY <2>1, <2>2
        <3> QED BY <1>5, <2>1, <3>1, <3>2
    <2>3. CASE ~(Len(todo[r]) > 1)
        BY <2>1, <2>3, <1>6
    <2> QED BY <2>2, <2>3
<1>16. CASE Sort(r)
    <2>1. pc'[r] \in {"data", "match", "loop"} BY <1>4, <1>16 DEF Sort
    <2> QED BY <2>1, <1>6
<1>17. CASE Data(r) BY <1>4, <1>6, <1>17 DEF Data
<1>18. CASE Match(r)
    <2>1. /\ pc'[r] = IF Recognised(hand[r].seen) THEN "stamp" ELSE "loop"
          /\ UNCHANGED <<client_addresses, hand>>
        BY <1>4, <1>18 DEF Match
    <2>2. CASE Recognised(hand[r].seen)
        BY <2>1, <2>2 DEF Recognised, Past
    <2>3. CASE ~Recognised(hand[r].seen)
        BY <1>6, <2>1, <2>3
    <2> QED BY <2>2, <2>3
<1>19. CASE Stamp(r)
    <2>1. /\ pc[r] = "stamp" /\ pc'[r] = "add" /\ at'[r] = now
          /\ UNCHANGED <<client_addresses, learned, hand>>
        BY <1>4, <1>19 DEF Stamp
    <2>2. CASE Given # {}
        <3>1. PICK x \in client_addresses : x \in hand[r].seen
            BY <1>5, <2>1, <2>2
        <3>2. x \in KnownBy(now)
            BY KnownNow
        <3>3. x \in Known(now)
            BY <1>1, <1>4, <3>2
        <3> QED BY <2>1, <3>1, <3>3 DEF KnownBy
    <2> QED BY <2>1, <2>2
<1>20. CASE Add(r) BY <1>4, <1>6, <1>20 DEF Add
<1> QED BY <1>7, <1>8, <1>9, <1>10, <1>11, <1>12, <1>13, <1>14, <1>15,
           <1>16, <1>17, <1>18, <1>19, <1>20 DEF Thread
-----------------------------------------------------------------------------
(* The invariant of the capture.                                            *)

(* The capture begins in the invariant.                                     *)
LEMMA Base ==
    ASSUME Init
    PROVE  IInv
<1> USE DEF Init, None
<1>1. Typed
    <2>1. (CHOOSE f \in Frames : TRUE) \in Frames
        BY RunAssumption
    <2>2. hand \in [Radios -> Frames]
        BY <2>1
    <2>3. /\ learned \in Seq([at : Nat, address : Addresses])
          /\ events \in Seq([at : Nat, radio : Radios, seen : Sets])
        OBVIOUS
    <2>4. todo \in [Radios -> Seq(Addresses)] /\ at \in [Radios -> Nat]
        OBVIOUS
    <2>5. TypeOK
        <3>1. 0 \in 0 .. BootBy + Duration /\ 0 \in 0 .. MaxFrames
            BY CaptureAssumption
        <3>2. pc \in [Radios -> Stages] /\ error \in [Radios -> BOOLEAN]
            BY DEF Stages
        <3>3. /\ ready_at \in [Radios -> 0 .. BootBy \cup {None}]
              /\ stopped_at \in [Radios -> 0 .. BootBy + Duration \cup {None}]
              /\ deadline \in [Radios -> 0 .. BootBy + Duration]
              /\ heard \in [Radios -> 0 .. MaxFrames]
            BY <3>1
        <3>4. /\ now \in 0 .. BootBy + Duration
              /\ client_addresses = Given
            BY <3>1
        <3> HIDE DEF Init, None
        <3> QED BY <2>2, <3>2, <3>3, <3>4 DEF TypeOK
    <2> QED BY <2>3, <2>4, <2>5 DEF Typed
<1>2. Past /\ Identity
    BY CaptureAssumption DEF Past, Identity, LearnedOnce, OneStation
<1>3. InHand /\ EventsAfterIdentity
    BY DEF InHand, Announces, Reports, EventsAfterIdentity
<1>4. Lives
    BY CaptureAssumption DEF Lives, Life, Unready
<1> QED BY <1>1, <1>2, <1>3, <1>4 DEF IInv

(* Every step keeps the invariant.                                          *)
LEMMA InductiveStep ==
    ASSUME IInv, [Next]_vars
    PROVE  IInv'
<1>1. ASSUME NEW r \in Radios, Thread(r)
      PROVE  IInv'
    BY <1>1, TypedThread, LifeThread, GrowsThread, InHandThread, EventsThread
       DEF IInv
<1>2. CASE Elapse
    BY <1>2, ElapseStep DEF IInv
<1>3. CASE UNCHANGED vars
    <2> USE <1>3 DEF vars, shared, handling, span
    <2>1. Typed' /\ Past'
        BY DEF IInv, Typed, TypeOK, Past
    <2>2. Identity' /\ EventsAfterIdentity'
        BY DEF IInv, Identity, LearnedOnce, OneStation, EventsAfterIdentity,
               KnownBy
    <2>3. InHand'
        BY DEF IInv, InHand, Announces, Reports, KnownBy
    <2>4. Lives'
        BY DEF IInv, Lives, Life
    <2> QED BY <2>1, <2>2, <2>3, <2>4 DEF IInv
<1> QED BY <1>1, <1>2, <1>3 DEF Next

(* Whatever the threads do between two locked steps, the capture keeps what *)
(* each of its properties rests on.                                         *)
THEOREM CaptureInvariant == Spec => []IInv
<1>1. Init => IInv
    BY Base
<1>2. IInv /\ [Next]_vars => IInv'
    BY InductiveStep
<1> QED BY <1>1, <1>2, PTL DEF Spec

(* The client's identity is learned once, in the order of time, and only    *)
(* from frames of the client, with any number of radios and addresses.      *)
THEOREM IdentityIsTheClients == Spec => []Identity
<1>1. IInv => Identity
    BY DEF IInv
<1> QED BY <1>1, CaptureInvariant, PTL

(* No event of the merged log is stamped before the address it shows        *)
(* belonged to the client, though stamp and append are two steps.           *)
THEOREM EventsFollowIdentity == Spec => []EventsAfterIdentity
<1>1. IInv => EventsAfterIdentity
    BY DEF IInv
<1> QED BY <1>1, CaptureInvariant, PTL

(* The times the window is made of are there, and bounded.                  *)
LEMMA WindowTimes ==
    ASSUME Typed
    PROVE  /\ Times(ready_at) \in SUBSET (0 .. BootBy)
           /\ Times(stopped_at) \in SUBSET Nat
           /\ \A r \in Starters : ready_at[r] \in Times(ready_at)
           /\ \A r \in Stoppers : stopped_at[r] \in Times(stopped_at)
BY CaptureAssumption DEF Typed, TypeOK, Times, Starters, Stoppers, None

(* A radio that did not fail listened for the whole duration.               *)
LEMMA FullDwellHolds ==
    ASSUME IInv
    PROVE  FullDwell
<1> SUFFICES ASSUME Joined PROVE
        /\ \A r \in Radios : ~error[r] =>
              stopped_at[r] - ready_at[r] >= Duration
        /\ (\A r \in Radios : ~error[r]) =>
              WindowTo - WindowFrom >= Duration - (WindowFrom
                                                   - Min(Times(ready_at)))
    BY DEF FullDwell
<1>1. \A r \in Radios : /\ stopped_at[r] \in Nat
                        /\ ready_at[r] \in Nat \cup {None}
                        /\ ~error[r] =>
                              /\ ready_at[r] # None
                              /\ stopped_at[r] >= ready_at[r] + Duration
    BY CaptureAssumption DEF IInv, Lives, Life, Joined, Typed, TypeOK, None
<1>2. Duration \in Nat
    BY CaptureAssumption
<1>3. \A r \in Radios : ~error[r] => stopped_at[r] - ready_at[r] >= Duration
    BY <1>1, <1>2 DEF None
<1>4. ASSUME \A r \in Radios : ~error[r]
      PROVE  WindowTo - WindowFrom
                >= Duration - (WindowFrom - Min(Times(ready_at)))
    <2> DEFINE readies == Times(ready_at)
               stops == Times(stopped_at)
    <2>1. PICK r \in Radios : TRUE
        BY RunAssumption
    <2>2. /\ readies \in SUBSET (0 .. BootBy) /\ readies # {}
          /\ stops \in SUBSET Nat /\ stops # {}
        BY <1>1, <1>4, <2>1, WindowTimes DEF IInv, Starters, Stoppers, None
    <2>3. \A q \in Radios : ready_at[q] \in readies
        BY <1>1, <1>4, WindowTimes DEF IInv, Starters
    <2>4. PICK s \in Radios : Min(stops) = stopped_at[s]
        <3>1. Min(stops) \in stops
            <4> HIDE DEF stops
            <4> QED BY <2>2, LeastOfNaturals
        <3> QED BY <3>1 DEF Times
    <2> HIDE DEF readies, stops
    <2>5. /\ readies \in SUBSET Nat
          /\ Min(readies) \in readies /\ \A n \in readies : Min(readies) <= n
        BY <2>2, LeastOfNaturals
    <2>6. Max(readies) \in readies
        BY <2>2, CaptureAssumption, GreatestOfBounded
    <2>7. Min(stops) >= Min(readies) + Duration
        <3>1. Min(readies) <= ready_at[s] /\ Min(readies) \in Nat
            BY <2>3, <2>5
        <3> QED BY <1>1, <1>2, <1>4, <2>4, <3>1 DEF None
    <2>8. /\ Min(stops) \in Nat /\ Min(readies) \in Nat /\ Max(readies) \in Nat
        BY <1>1, <2>4, <2>5, <2>6
    <2> QED BY <1>2, <2>7, <2>8 DEF WindowTo, WindowFrom, readies, stops
<1> QED BY <1>3, <1>4

(* The shared window lies in the time of every radio that became ready.     *)
LEMMA WindowSharedHolds ==
    ASSUME IInv
    PROVE  WindowShared
<1> SUFFICES ASSUME Joined, HasWindow, NEW r \in Starters
             PROVE  ready_at[r] <= WindowFrom /\ WindowTo <= stopped_at[r]
    BY DEF WindowShared
<1>1. r \in Stoppers
    BY DEF IInv, Lives, Life, Joined, Starters, Stoppers
<1>2. /\ ready_at[r] \in Times(ready_at) /\ stopped_at[r] \in Times(stopped_at)
      /\ Times(ready_at) \in SUBSET (0 .. BootBy)
      /\ Times(stopped_at) \in SUBSET Nat
    BY <1>1, WindowTimes DEF IInv
<1>3. ready_at[r] <= Max(Times(ready_at))
    BY <1>2, CaptureAssumption, GreatestOfBounded
<1>4. Min(Times(stopped_at)) <= stopped_at[r]
    BY <1>2, LeastOfNaturals
<1> QED BY <1>3, <1>4 DEF WindowFrom, WindowTo

(* A radio that did not fail listened for the whole duration whatever the   *)
(* others did, and the shared window lies in the time of every radio that   *)
(* became ready.                                                            *)
THEOREM EveryRadioListens == Spec => []Listening
<1>1. IInv => Listening
    BY FullDwellHolds, WindowSharedHolds DEF Listening
<1> QED BY <1>1, CaptureInvariant, PTL
=============================================================================
