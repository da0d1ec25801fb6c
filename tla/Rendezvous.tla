----------------------------- MODULE Rendezvous -----------------------------
(***************************************************************************)
(* Measurements on two radios at once: research/cross_measure.py ("cross", *)
(* a thread per radio, one of them the sender, and main that joins them),  *)
(* and mt7925_mib_perturb.py ("perturb") and mt7925_mib_crosscheck.py      *)
(* ("crosscheck"), where main drives the second radio itself, through a    *)
(* list of phases with a new receiver thread each.                         *)
(*                                                                         *)
(* The radios meet at a threading.Barrier, used once: every one of them    *)
(* has read its first counter when the first listens or sends. A thread    *)
(* that fails breaks the barrier, a wait has a timeout, and main joins     *)
(* threads that may be stuck. Any call may fail, and main be interrupted.  *)
(*                                                                         *)
(* Thread w > 0 is a receiver (with "perturb" and "crosscheck" that of     *)
(* phase w); 0 is the other side of the barrier: the sender thread of      *)
(* "cross", main itself in the others. How long a step takes is left open, *)
(* so a timeout may strike any wait.                                       *)
(***************************************************************************)
EXTENDS Integers, Sequences, FiniteSets

CONSTANTS
    Plans,      \* what the command lines make of it: see Plan
    Burst,      \* frames asked for in an active phase
    MaxThreads  \* bound: receivers of a plan

ASSUME RendezvousAssumption == Burst \in Nat \ {0} /\ MaxThreads \in Nat

VARIABLES
    plan,       \* the command line of this run
    phase,      \* the phase main is in, or left the loop in
    main,       \* where main is
    at,         \* where each thread is
    gate,       \* the barrier of each phase: "closed", "open" or "broken"
    failures,   \* something was reported
    left,       \* frames the burst has still to send
    sent,       \* frames that were sent
    code,       \* how main ended
    sampled,    \* history: threads that have read their first counter
    overlap     \* history: main used an adapter while a thread might use it

vars == <<plan, phase, main, at, gate, failures, left, sent, code, sampled, overlap>>

(* receivers: how many "cross" has. Each phase has a target (a channel) and *)
(* is active, when a burst is sent in it, or not.                           *)
Plan(prog, receivers, phases) ==
    [prog |-> prog, receivers |-> receivers, phases |-> phases]

(* "cross" has one phase, "crosscheck" never sends.                          *)
ASSUME PlansAssumption ==
    \A p \in Plans :
        /\ p.prog \in {"cross", "perturb", "crosscheck"}
        /\ p.receivers \in Nat
        /\ Len(p.phases) \in Nat \ {0}
        /\ \A i \in 1 .. Len(p.phases) : p.phases[i].active \in BOOLEAN
        /\ p.prog = "cross" => Len(p.phases) = 1
        /\ p.prog = "crosscheck" => \A i \in 1 .. Len(p.phases) : ~p.phases[i].active

Crossed == plan.prog = "cross"
LastPhase == Len(plan.phases)
Receivers == 1 .. IF Crossed THEN plan.receivers ELSE LastPhase
Threads == {0} \cup Receivers

(* The phase a receiver belongs to, and the threads that meet in one.       *)
PhaseOf(w) == IF Crossed THEN 1 ELSE w
Heard(p) == {w \in Receivers : PhaseOf(w) = p}
Active(p) == plan.phases[p].active
Parties(p) == Heard(p) \cup (IF Crossed /\ ~Active(p) THEN {} ELSE {0})
GateOf(t) == IF t = 0 THEN phase ELSE PhaseOf(t)

Live(t) == at[t] \notin {"none", "done", "failed"}
Crowded == \E w \in Receivers : Live(w)

Init ==
    /\ plan \in Plans
    /\ phase = 1
    /\ main = "start"
    /\ at = [t \in Threads |-> "none"]
    /\ gate = [p \in 1 .. LastPhase |-> "closed"]
    /\ failures = FALSE
    /\ left = 0
    /\ sent = 0
    /\ code = "none"
    /\ sampled = {}
    /\ overlap = FALSE

-----------------------------------------------------------------------------
(* What becomes of a thread                                                 *)

To(t, place) == at' = [at EXCEPT ![t] = place]
Broken(t) == gate' = [gate EXCEPT ![GateOf(t)] = "broken"]

(* Faulty variant: a thread that dies says nothing.                         *)
FailSilently(t) ==
    /\ To(t, "failed")
    /\ Broken(t)
    /\ UNCHANGED <<main, failures, code>>

(* A thread that fails is reported and breaks its barrier, whether or not   *)
(* anyone waits there.                                                      *)
Fail(t) ==
    /\ To(t, "failed")
    /\ Broken(t)
    /\ failures' = TRUE
    /\ UNCHANGED <<main, code>>

(* An exception or an interrupt in main: the adapters are closed on the way *)
(* out, and the threads live on.                                            *)
Raise ==
    /\ main' = IF Crossed THEN "exited" ELSE "leave"
    /\ code' = "raised"
    /\ at' = IF Crossed THEN at ELSE [at EXCEPT ![0] = "none"]
    /\ UNCHANGED <<gate, failures>>

(* Without a rendezvous main reports it and gives the thread a second.      *)
GiveUp ==
    /\ main' = "giveup"
    /\ To(0, "none")
    /\ failures' = TRUE
    /\ UNCHANGED code

Lost(t) == IF t = 0 /\ ~Crossed THEN Raise ELSE Fail(t)
Moved(t, place) == To(t, place) /\ UNCHANGED <<main, gate, failures, code>>

-----------------------------------------------------------------------------
(* One side of the barrier                                                  *)

(* Only "cross" opens and boots the adapters in their threads.              *)
Setup(t) ==
    /\ at[t] = "setup"
    /\ Moved(t, "sample") \/ Lost(t)
    /\ UNCHANGED <<plan, phase, left, sent, sampled, overlap>>

Sample(t) ==
    /\ at[t] = "sample"
    /\ \/ Moved(t, "arrive") /\ sampled' = sampled \cup {t}
       \/ Lost(t) /\ UNCHANGED sampled
    /\ UNCHANGED <<plan, phase, left, sent, overlap>>

(* Barrier.wait: the last to arrive lets everyone go.                       *)
Arrive(t) ==
    /\ at[t] = "arrive"
    /\ gate[GateOf(t)] # "broken"
    /\ To(t, "waiting")
    /\ gate' = IF \A u \in Parties(GateOf(t)) \ {t} : at[u] = "waiting"
               THEN [gate EXCEPT ![GateOf(t)] = "open"] ELSE gate
    /\ UNCHANGED <<plan, phase, main, failures, left, sent, code, sampled, overlap>>

Released(t) ==
    /\ at[t] = "waiting"
    /\ gate[GateOf(t)] = "open"
    /\ Moved(t, IF t = 0 THEN "burst" ELSE "dwell")
    /\ left' = IF t # 0 THEN left ELSE IF Active(phase) THEN Burst ELSE 0
    /\ UNCHANGED <<plan, phase, sent, sampled, overlap>>

(* A thread that was let go, but looks only after another one has failed,   *)
(* finds the barrier broken too.                                            *)
FindsBroken(t) ==
    /\ at[t] \in {"arrive", "waiting"}
    /\ gate[GateOf(t)] = "broken"
    /\ IF t = 0 /\ ~Crossed THEN GiveUp /\ UNCHANGED gate ELSE Fail(t)
    /\ UNCHANGED <<plan, phase, left, sent, sampled, overlap>>

(* Faulty variant: waits without a timeout.                                 *)
WaitsForever(t) == FALSE /\ UNCHANGED vars

(* Faulty variant: a sender that waited long enough sends.                  *)
TimesOutAndSends(t) ==
    /\ at[t] = "waiting"
    /\ gate[GateOf(t)] = "closed"
    /\ IF t = 0 THEN Moved(0, "burst") /\ left' = Burst
       ELSE Fail(t) /\ UNCHANGED left
    /\ UNCHANGED <<plan, phase, sent, sampled, overlap>>

TimesOut(t) ==
    /\ at[t] = "waiting"
    /\ gate[GateOf(t)] = "closed"
    /\ IF t = 0 /\ ~Crossed THEN GiveUp /\ Broken(0) ELSE Fail(t)
    /\ UNCHANGED <<plan, phase, left, sent, sampled, overlap>>

(* A receiver's dwell ends by the clock, whatever its reads return; a dwell *)
(* with transport errors is reported as failed after its second sample.     *)
Dwell(w) ==
    /\ w # 0
    /\ \/ at[w] = "dwell" /\ (Moved(w, "after") \/ Fail(w))
       \/ at[w] = "after" /\ (Moved(w, "done") \/ Fail(w))
    /\ UNCHANGED <<plan, phase, left, sent, sampled, overlap>>

(* The burst: a write that fails ends it.                                   *)
SendFrame ==
    /\ at[0] = "burst"
    /\ left > 0
    /\ left' = left - 1
    /\ sent' = sent + 1
    /\ UNCHANGED <<plan, phase, main, at, gate, failures, code, sampled, overlap>>

BurstEnds ==
    /\ at[0] = "burst"
    /\ Moved(0, "after")
    /\ UNCHANGED <<plan, phase, left, sent, sampled, overlap>>

(* The sender of "cross" fails on a burst cut short; main reads its own     *)
(* counters and goes on to wait for the receiver.                           *)
AfterBurst ==
    /\ at[0] = "after"
    /\ IF Crossed
       THEN \/ sent = Burst /\ Moved(0, "done")
            \/ Fail(0)
       ELSE \/ /\ main' = "join"
               /\ To(0, "none")
               /\ UNCHANGED <<gate, failures, code>>
            \/ Raise
    /\ UNCHANGED <<plan, phase, left, sent, sampled, overlap>>

Thread(t) ==
    \/ Setup(t) \/ Sample(t) \/ Arrive(t) \/ Released(t) \/ FindsBroken(t)
    \/ TimesOut(t) \/ Dwell(t)
    \/ t = 0 /\ (SendFrame \/ BurstEnds \/ AfterBurst)

-----------------------------------------------------------------------------
(* main                                                                     *)

StartThreads ==
    /\ main = "start"
    /\ Crossed
    /\ main' = "join"
    /\ at' = [t \in Threads |-> IF t \in Parties(1) THEN "setup" ELSE "none"]
    /\ UNCHANGED <<plan, phase, gate, failures, left, sent, code, sampled, overlap>>

(* "crosscheck" tunes both adapters for every phase.                        *)
BeginPhase ==
    /\ main = "start"
    /\ ~Crossed
    /\ overlap' = (overlap \/ (plan.prog = "crosscheck" /\ Crowded))
    /\ main' = "drive"
    /\ at' = [at EXCEPT ![0] = "sample", ![phase] = "sample"]
    /\ UNCHANGED <<plan, phase, gate, failures, left, sent, code, sampled>>

(* The loop over phases goes on at p, or is over.                           *)
Continue(p) ==
    /\ phase' = IF p <= LastPhase THEN p ELSE phase
    /\ main' = IF p <= LastPhase THEN "start" ELSE "leave"

(* break: "perturb" leaves its loop; "crosscheck" has left only the inner   *)
(* one, over repeats, and goes on with the next target.                     *)
Break ==
    IF plan.prog = "perturb" THEN Continue(LastPhase + 1)
    ELSE \E p \in phase + 1 .. LastPhase + 1 :
            /\ p <= LastPhase => plan.phases[p].target # plan.phases[phase].target
            /\ \A q \in phase + 1 .. p - 1 :
                  plan.phases[q].target = plan.phases[phase].target
            /\ Continue(p)

GiveUpEnds ==
    /\ main = "giveup"
    /\ Break
    /\ UNCHANGED <<plan, at, gate, failures, left, sent, code, sampled, overlap>>

JoinPhase ==
    /\ main = "join"
    /\ ~Crossed
    /\ IF Live(phase) THEN failures' = TRUE /\ Break    \* the join timed out
       ELSE UNCHANGED failures /\ Continue(phase + 1)
    /\ UNCHANGED <<plan, at, gate, left, sent, code, sampled, overlap>>

Asked == Burst * Cardinality({p \in 1 .. LastPhase : Active(p)})

(* Leaving the with statement closes both adapters. Only "perturb" looks at *)
(* how many frames were sent.                                               *)
Leave ==
    /\ main = "leave"
    /\ main' = "exited"
    /\ overlap' = (overlap \/ Crowded)
    /\ code' = IF code = "raised" THEN "raised"
               ELSE IF failures \/ (plan.prog = "perturb" /\ sent # Asked) THEN "2"
               ELSE "0"
    /\ UNCHANGED <<plan, phase, at, gate, failures, left, sent, sampled>>

(* "cross" joins without a timeout; 1 is two radios that disagree.          *)
JoinAll ==
    /\ main = "join"
    /\ Crossed
    /\ \A t \in Threads : ~Live(t)
    /\ main' = "exited"
    /\ IF failures THEN code' = "2" ELSE code' \in {"0", "1"}
    /\ UNCHANGED <<plan, phase, at, gate, failures, left, sent, sampled, overlap>>

Interrupt ==
    /\ main \notin {"leave", "exited"}
    /\ Raise
    /\ UNCHANGED <<plan, phase, left, sent, sampled, overlap>>

Main == StartThreads \/ BeginPhase \/ GiveUpEnds \/ JoinPhase \/ Leave \/ JoinAll

Next == (\E t \in Threads : Thread(t)) \/ Main \/ Interrupt

(* Threads are scheduled and every call they make comes back: transfers and *)
(* waits have timeouts, dwells and bursts a length.                         *)
Spec == /\ Init /\ [][Next]_vars
        /\ WF_vars(Main)
        /\ \A t \in 0 .. MaxThreads : WF_vars(t \in Threads /\ Thread(t))

-----------------------------------------------------------------------------
(* cross_measure.py on the rendezvous: "Every radio waits here until all of *)
(* them are tuned, counters sampled, and about to listen". No frame leaves  *)
(* before the counters of every receiver that is to hear it were read, and  *)
(* none into the interval of another phase.                                 *)
BurstHeard ==
    [][SendFrame =>
        /\ Heard(phase) \subseteq sampled
        /\ \A w \in Receivers : Live(w) => PhaseOf(w) = phase]_vars

(* A run that does not report a failure has done what it was asked to: no   *)
(* receiver failed or was left behind, in any phase, every frame of every   *)
(* burst was sent, and no adapter was tuned or closed under a thread that   *)
(* used it.                                                                 *)
Conclusive ==
    code \in {"0", "1"} =>
        /\ \A w \in Receivers : at[w] = "done"
        /\ sent = Asked
        /\ ~overlap

(* The process ends, its threads with it (they are not daemons), whichever  *)
(* of them fails and wherever main is interrupted.                          *)
Ends == <>(main = "exited" /\ \A t \in Threads : ~Live(t))
=============================================================================
