---------------------------- MODULE DualCapture ----------------------------
(***************************************************************************)
(* scripts/dual_capture.py: one thread per adapter (Radio.run), the        *)
(* Timeline they share, and the shared_window main reports once it has     *)
(* joined them. A body under `with self.lock` is one step; everything      *)
(* between two such bodies interleaves, and time passes between any two    *)
(* steps. Frames are what _handle tells apart: whether they are on the     *)
(* radio's channel, the addresses of the station that sent them, whether   *)
(* they are data or a management event, and the addresses they involve.    *)
(***************************************************************************)
EXTENDS Integers, FiniteSets, Sequences, FiniteSetsExt, SequencesExt

CONSTANTS
    Radios,     \* the adapters, one thread each
    Given,      \* {the --client address}, or {} without the option
    Station,    \* every address of the station that has it
    Frames,     \* what the radios may hear
    Identify,   \* --identify
    Duration,   \* --duration
    BootBy,     \* bound: the time by which every radio is ready or failed
    MaxFrames   \* bound: frames a radio hears

ASSUME CaptureAssumption ==
    /\ Given \subseteq Station
    /\ \A f \in Frames :      \* rxd.station_addresses names one station
          f.tx \cap Station # {} => f.tx \subseteq Station
    /\ Identify \in BOOLEAN
    /\ Duration \in Nat \ {0}
    /\ BootBy \in Nat
    /\ MaxFrames \in Nat

(* main wants two radios at least; a frame names finitely many             *)
(* addresses.                                                               *)
ASSUME RunAssumption ==
    /\ Radios # {}
    /\ Frames # {}
    /\ \A f \in Frames : IsFiniteSet(f.tx)

VARIABLES
    now,        \* time.monotonic() - timeline.start
    client_addresses,
    learned,    \* [at, address], in list order
    events,     \* [at, radio, seen] in list order
    pc,         \* where each thread is
    hand,       \* the frame a thread is handling
    todo,       \* learned addresses a thread has still to announce
    at,         \* the stamp a thread took for the event it will add
    ready_at, stopped_at, error, deadline,
    heard       \* frames a radio has been given

shared == <<client_addresses, learned, events>>
handling == <<hand, todo, at>>
span == <<ready_at, stopped_at, error, deadline>>
vars == <<now, shared, pc, handling, span, heard>>

None == -1
Stages == {"boot", "deadline", "loop", "read", "learn", "announce",
           "announcing", "sort", "data", "match", "stamp", "add",
           "stop", "raised", "done"}

Init ==
    /\ now = 0
    /\ client_addresses = Given
    /\ learned = <<>>
    /\ events = <<>>
    /\ pc = [r \in Radios |-> "boot"]
    /\ hand \in [Radios -> {CHOOSE f \in Frames : TRUE}]
    /\ todo = [r \in Radios |-> <<>>]
    /\ at = [r \in Radios |-> 0]
    /\ ready_at = [r \in Radios |-> None]
    /\ stopped_at = [r \in Radios |-> None]
    /\ error = [r \in Radios |-> FALSE]
    /\ deadline = [r \in Radios |-> 0]
    /\ heard = [r \in Radios |-> 0]

Goto(r, stage) == pc' = [pc EXCEPT ![r] = stage]
From(r, stage, to) == pc[r] = stage /\ Goto(r, to)

-----------------------------------------------------------------------------
(* Radio.run and _run                                                       *)

(* Opening, the width check, the firmware, bring-up and tune: any of them   *)
(* may raise, and the last thing before the loop is the ready stamp.        *)
Boot(r) ==
    /\ \/ /\ From(r, "boot", "deadline")
          /\ ready_at' = [ready_at EXCEPT ![r] = now]
       \/ /\ From(r, "boot", "raised")
          /\ UNCHANGED ready_at
    /\ UNCHANGED <<now, shared, handling, stopped_at, error, deadline, heard>>

SetDeadline(r) ==
    /\ From(r, "deadline", "loop")
    /\ deadline' = [deadline EXCEPT ![r] = now + Duration]
    /\ UNCHANGED <<now, shared, handling, ready_at, stopped_at, error, heard>>

(* Faulty variant: the deadline is not looked at.                           *)
LoopForever(r) ==
    /\ From(r, "loop", "read")
    /\ UNCHANGED <<now, shared, handling, span, heard>>

(* Faulty variant: the loop ends one unit early.                            *)
LoopShort(r) ==
    /\ pc[r] = "loop"
    /\ Goto(r, IF now + 1 < deadline[r] THEN "read" ELSE "stop")
    /\ UNCHANGED <<now, shared, handling, span, heard>>

Loop(r) ==
    /\ pc[r] = "loop"
    /\ Goto(r, IF now < deadline[r] THEN "read" ELSE "stop")
    /\ UNCHANGED <<now, shared, handling, span, heard>>

(* rx_read and decode: nothing usable (a timeout, a USB error, a transfer   *)
(* without a frame), a frame, or an exception nobody in the loop handles.   *)
(* A frame of another channel is only counted.                              *)
Read(r) ==
    /\ \/ From(r, "read", "loop") /\ UNCHANGED <<hand, heard>>
       \/ From(r, "read", "raised") /\ UNCHANGED <<hand, heard>>
       \/ /\ heard[r] < MaxFrames
          /\ heard' = [heard EXCEPT ![r] = @ + 1]
          /\ \E f \in Frames :
                /\ hand' = [hand EXCEPT ![r] = f]
                /\ From(r, "read", IF f.on THEN "learn" ELSE "loop")
    /\ UNCHANGED <<now, shared, todo, at, span>>

Stop(r) ==
    /\ From(r, "stop", "done")
    /\ stopped_at' = [stopped_at EXCEPT ![r] = now]
    /\ UNCHANGED <<now, shared, handling, ready_at, error, deadline, heard>>

(* The handler in run, after the device was closed.                         *)
Raised(r) ==
    /\ From(r, "raised", "done")
    /\ error' = [error EXCEPT ![r] = TRUE]
    /\ stopped_at' = [stopped_at EXCEPT ![r] = now]
    /\ UNCHANGED <<now, shared, handling, ready_at, deadline, heard>>

-----------------------------------------------------------------------------
(* Timeline                                                                 *)

(* Faulty variant: no filter.                                               *)
RecognisedAll(S) == TRUE

Recognised(S) == client_addresses = {} \/ S \cap client_addresses # {}

(* Faulty variant: any station's addresses are learned.                     *)
NewAddressesOfAnyone(tx) ==
    IF client_addresses = {} THEN {} ELSE tx \ client_addresses

(* The addresses of a frame's transmitter that are new, if it is the client.*)
NewAddresses(tx) == IF tx \cap client_addresses = {} THEN {}
                    ELSE tx \ client_addresses

(* Timeline.learn, stamps included, is one locked step.                     *)
Learn(r) ==
    LET gained == NewAddresses(hand[r].tx)
        new == SetToSeq(gained)
    IN
    /\ From(r, "learn",
            IF Identify /\ gained # {} THEN "announce" ELSE "sort")
    /\ client_addresses' = client_addresses \cup gained
    /\ learned' = learned \o [i \in DOMAIN new |->
                                [at |-> now, address |-> new[i]]]
    /\ todo' = [todo EXCEPT ![r] = new]
    /\ UNCHANGED <<now, events, hand, at, span, heard>>

(* _handle: with --identify, one event for each address, stamped and then   *)
(* added.                                                                   *)
Announce(r) ==
    /\ From(r, "announce", "announcing")
    /\ at' = [at EXCEPT ![r] = now]
    /\ UNCHANGED <<now, shared, hand, todo, span, heard>>

Announcing(r) ==
    /\ From(r, "announcing", IF Len(todo[r]) > 1 THEN "announce" ELSE "sort")
    /\ events' = Append(events, [at |-> at[r], radio |-> r,
                                 seen |-> {Head(todo[r])}])
    /\ todo' = [todo EXCEPT ![r] = Tail(@)]
    /\ UNCHANGED <<now, client_addresses, learned, hand, at, span, heard>>

Sort(r) ==
    /\ pc[r] = "sort"
    /\ Goto(r, CASE hand[r].kind = "data" -> "data"
                 [] hand[r].kind = "event" -> "match"
                 [] OTHER -> "loop")
    /\ UNCHANGED <<now, shared, handling, span, heard>>

(* matches_client under the lock, then client_addresses again without it;   *)
(* both only decide whether a counter advances, and no counter is kept.     *)
Data(r) ==
    /\ From(r, "data", "loop")
    /\ UNCHANGED <<now, shared, handling, span, heard>>

Match(r) ==
    /\ From(r, "match", IF Recognised(hand[r].seen) THEN "stamp" ELSE "loop")
    /\ UNCHANGED <<now, shared, handling, span, heard>>

Stamp(r) ==
    /\ From(r, "stamp", "add")
    /\ at' = [at EXCEPT ![r] = now]
    /\ UNCHANGED <<now, shared, hand, todo, span, heard>>

Add(r) ==
    /\ From(r, "add", "loop")
    /\ events' = Append(events, [at |-> at[r], radio |-> r,
                                 seen |-> hand[r].seen])
    /\ UNCHANGED <<now, client_addresses, learned, handling, span, heard>>

-----------------------------------------------------------------------------
Thread(r) ==
    \/ Boot(r) \/ SetDeadline(r) \/ Loop(r) \/ Read(r) \/ Stop(r) \/ Raised(r)
    \/ Learn(r) \/ Announce(r) \/ Announcing(r) \/ Sort(r)
    \/ Data(r) \/ Match(r) \/ Stamp(r) \/ Add(r)

(* Boots end by BootBy, so the last deadline is at BootBy + Duration.       *)
Booting == \E r \in Radios : pc[r] \in {"boot", "deadline"}
Elapse ==
    /\ now < IF Booting THEN BootBy ELSE BootBy + Duration
    /\ now' = now + 1
    /\ UNCHANGED <<shared, pc, handling, span, heard>>

Next == (\E r \in Radios : Thread(r)) \/ Elapse

Spec == Init /\ [][Next]_vars

(* Each thread is scheduled (every read has a timeout), and time passes.    *)
FairSpec == Spec /\ WF_vars(Elapse) /\ \A r \in Radios : WF_vars(Thread(r))

Joined == \A r \in Radios : pc[r] = "done"

(* shared_window: None, or when it starts and ends.                         *)
Times(f) == {f[r] : r \in {q \in Radios : f[q] # None}}
Starters == {r \in Radios : ready_at[r] # None}
Stoppers == {r \in Radios : stopped_at[r] # None}
HasWindow == Cardinality(Starters) > 1 /\ Cardinality(Stoppers) > 1

WindowFrom == Max(Times(ready_at))
WindowTo == Min(Times(stopped_at))

-----------------------------------------------------------------------------
(* Properties                                                               *)

TypeOK ==
    /\ now \in 0 .. BootBy + Duration
    /\ client_addresses \subseteq (UNION {f.tx : f \in Frames}) \cup Given
    /\ pc \in [Radios -> Stages]
    /\ hand \in [Radios -> Frames]
    /\ ready_at \in [Radios -> 0 .. BootBy \cup {None}]
    /\ stopped_at \in [Radios -> 0 .. BootBy + Duration \cup {None}]
    /\ error \in [Radios -> BOOLEAN]
    /\ deadline \in [Radios -> 0 .. BootBy + Duration]
    /\ heard \in [Radios -> 0 .. MaxFrames]

(* Both radios may hear the frame that introduces an address: it is learned *)
(* once, the record is in the order of time, and it is exactly what the set *)
(* has gained.                                                              *)
LearnedOnce ==
    /\ \A i, j \in DOMAIN learned :
          i < j => /\ learned[i].address # learned[j].address
                   /\ learned[i].at <= learned[j].at
    /\ {learned[i].address : i \in DOMAIN learned} = client_addresses \ Given

(* Timeline.learn: an AP's addresses cannot join the client's identity,     *)
(* whichever radio heard what first.                                        *)
OneStation == Given # {} => client_addresses \subseteq Station

(* The client's identity, which never shrinks: learned once, of one station. *)
Identity == LearnedOnce /\ OneStation

(* An event is reported because of an address that belonged to the client   *)
(* by the event's own time stamp, so the merged log never shows the client  *)
(* under an address before the time it was learned at.                      *)
KnownBy(t) == Given \cup {learned[i].address :
                            i \in {j \in DOMAIN learned : learned[j].at <= t}}
EventsAfterIdentity ==
    Given # {} => \A i \in DOMAIN events :
                     events[i].seen \cap KnownBy(events[i].at) # {}

(* "a failed radio must not take the other one down": whatever becomes of   *)
(* the others, a radio that did not fail listened for the full duration,    *)
(* and the shared window is at least that, less the startup gap.            *)
FullDwell ==
    Joined =>
        /\ \A r \in Radios :
              ~error[r] => stopped_at[r] - ready_at[r] >= Duration
        /\ (\A r \in Radios : ~error[r]) =>
              WindowTo - WindowFrom >= Duration - (WindowFrom
                                                   - Min(Times(ready_at)))

(* shared_window: "when every radio was listening at once".                 *)
WindowShared ==
    Joined /\ HasWindow =>
        \A r \in Starters : ready_at[r] <= WindowFrom
                            /\ WindowTo <= stopped_at[r]

(* What each radio was given, and what they are said to have had together.  *)
Listening == FullDwell /\ WindowShared

(* shared_window's docstring: "Radios that never became ready are excluded  *)
(* and counted." So the window ends when the first radio that had become    *)
(* ready stopped.                                                           *)
NeverReadyExcluded ==
    Joined /\ HasWindow =>
        WindowTo = Min({stopped_at[r] : r \in Starters})

(* Every thread ends, so that join returns and the result is printed.       *)
AllJoin == <>Joined
=============================================================================
