-------------------------- MODULE RendezvousProofs --------------------------
(* For any list of phases and any number of receivers: a run of one of the  *)
(* two-radio programs that reports no failure has done what it was asked    *)
(* to, and no frame leaves before every receiver that is to hear it has     *)
(* read its first counter.                                                  *)
EXTENDS Rendezvous, FiniteSetTheorems, TLAPS

USE RendezvousAssumption, PlansAssumption

-----------------------------------------------------------------------------
(* The inductive invariant                                                  *)

Places == {"none", "setup", "sample", "arrive", "waiting", "dwell", "burst",
           "after", "done", "failed"}

TypeOK ==
    /\ plan \in Plans
    /\ phase \in 1 .. LastPhase
    /\ main \in {"start", "drive", "giveup", "join", "leave", "exited"}
    /\ at \in [Threads -> Places]
    /\ gate \in [1 .. LastPhase -> {"closed", "open", "broken"}]
    /\ failures \in BOOLEAN
    /\ left \in Nat
    /\ sent \in Nat
    /\ code \in {"none", "raised", "0", "1", "2"}
    /\ sampled \subseteq Threads
    /\ overlap \in BOOLEAN

(* Who is past the sampling has sampled, and so has everyone behind a       *)
(* barrier that was opened.                                                 *)
Sampled ==
    /\ \A w \in Receivers :
          at[w] \in {"arrive", "waiting", "dwell", "after", "done"} => w \in sampled
    /\ \A p \in 1 .. LastPhase : gate[p] = "open" => Heard(p) \subseteq sampled
    /\ at[0] = "burst" => Heard(phase) \subseteq sampled

(* A thread that failed has said so.                                        *)
Reported == \A t \in Threads : at[t] = "failed" => failures

(* "cross": main starts the threads, waits for all of them, and closes      *)
(* nothing under them.                                                      *)
Joined ==
    Crossed =>
        /\ phase = 1
        /\ main \in {"start", "join", "exited"}
        /\ main # "exited" => code = "none"
        /\ ~overlap
        /\ main = "join" => \A t \in Parties(1) : at[t] # "none"
        /\ ~Active(1) => at[0] = "none" /\ sent = 0
        /\ at[0] = "done" => sent = Burst

(* The others: main is the other side of the barrier, phase after phase, and*)
(* while nothing has failed leaves no receiver behind.                      *)
Driven ==
    ~Crossed =>
        /\ at[0] \in {"none", "sample", "arrive", "waiting", "burst", "after"}
        /\ at[0] # "none" => main = "drive"
        /\ main \notin {"leave", "exited"} => code = "none"
        /\ main = "leave" => code \in {"none", "raised"}
        /\ main = "giveup" => failures
        /\ main = "start" => at[phase] = "none"
        /\ main \in {"drive", "join"} => at[phase] # "none"
        /\ \A w \in Receivers : w > phase => at[w] = "none"
        /\ ~failures /\ code # "raised" =>
              \A w \in Receivers :
                  w < phase \/ main \in {"leave", "exited"} => at[w] = "done"
        /\ plan.prog = "perturb" /\ main \in {"start", "drive", "join"} =>
              \A w \in Receivers : w < phase => ~Live(w)
        /\ plan.prog = "crosscheck" => left = 0 /\ sent = 0
        /\ overlap => failures \/ code = "raised"

(* What an exit code that reports no failure says.                          *)
Settled ==
    code \in {"0", "1"} => main = "exited" /\ ~Live(0) /\ ~failures

Base == TypeOK /\ Sampled /\ Reported /\ Joined /\ Driven
IInv == Base /\ Settled /\ Conclusive

-----------------------------------------------------------------------------
(* The plan and what is read off it                                         *)

(* A plan has phases, and "cross" has one.                                  *)
LEMMA PlanShape ==
    ASSUME plan \in Plans
    PROVE  /\ LastPhase \in Nat \ {0}
           /\ \A p \in 1 .. LastPhase : Active(p) \in BOOLEAN
           /\ Crossed => LastPhase = 1
           /\ plan.prog = "crosscheck" => \A p \in 1 .. LastPhase : ~Active(p)
           /\ ~Crossed => plan.prog \in {"perturb", "crosscheck"}
           /\ plan.receivers \in Nat
  BY DEF LastPhase, Active, Crossed

(* Receivers are numbered from 1; without "cross" one for each phase.       *)
LEMMA ThreadShape ==
    ASSUME plan \in Plans
    PROVE  /\ Receivers \subseteq Nat \ {0}
           /\ Threads = {0} \cup Receivers
           /\ 0 \in Threads /\ 0 \notin Receivers
           /\ Crossed => \A w \in Receivers : PhaseOf(w) = 1
           /\ ~Crossed => Receivers = 1 .. LastPhase /\ \A w : PhaseOf(w) = w
           /\ \A p : Heard(p) \subseteq Receivers
           /\ Crossed => Heard(1) = Receivers
           /\ ~Crossed => \A p \in 1 .. LastPhase : Heard(p) = {p}
           /\ \A p : Parties(p) = Heard(p) \cup (IF Crossed /\ ~Active(p) THEN {} ELSE {0})
<1>1. LastPhase \in Nat /\ plan.receivers \in Nat
  BY PlanShape
<1>2. Receivers = IF Crossed THEN 1 .. plan.receivers ELSE 1 .. LastPhase
  BY DEF Receivers
<1> QED
  BY <1>1, <1>2 DEF Threads, PhaseOf, Heard, Parties

(* The plan is fixed for a run.                                             *)
LEMMA PlanFixed ==
    ASSUME plan' = plan
    PROVE  /\ Threads' = Threads /\ Receivers' = Receivers
           /\ LastPhase' = LastPhase /\ Crossed' = Crossed /\ Asked' = Asked
           /\ \A p : Heard(p)' = Heard(p)
           /\ \A p : Parties(p)' = Parties(p)
           /\ \A p : Active(p)' = Active(p)
           /\ \A p : PhaseOf(p)' = PhaseOf(p)
  BY DEF Threads, Receivers, LastPhase, Crossed, Asked, Heard, Parties, Active, PhaseOf

-----------------------------------------------------------------------------
(* How a thread moves, and what keeps the invariant                         *)

(* A thread goes on: one that was running runs elsewhere or is done.        *)
Goes(t, place) ==
    /\ Live(t)
    /\ place \in Places \ {"none", "failed"}
    /\ at' = [at EXCEPT ![t] = place]
    /\ UNCHANGED <<plan, phase, main, failures, sent, code, overlap>>

(* Going on keeps the invariant if no one passes the sampling unsampled.    *)
LEMMA GoesBase ==
    ASSUME Base, NEW t \in Threads, NEW place, Goes(t, place),
           gate' \in [1 .. LastPhase -> {"closed", "open", "broken"}],
           sampled \subseteq sampled', sampled' \subseteq Threads,
           left' \in Nat, plan.prog = "crosscheck" => left' = 0,
           t # 0 /\ place \in {"arrive", "waiting", "dwell", "after", "done"}
               => t \in sampled',
           t = 0 /\ place = "burst" => Heard(phase) \subseteq sampled',
           \A p \in 1 .. LastPhase : gate'[p] = "open" => Heard(p) \subseteq sampled',
           t = 0 /\ ~Crossed => place \in {"sample", "arrive", "waiting", "burst", "after"},
           t = 0 /\ Crossed /\ place = "done" => sent = Burst
    PROVE  Base'
<1>1. plan' = plan /\ plan \in Plans /\ at[t] \notin {"none", "done", "failed"}
  BY DEF Goes, Live, Base, TypeOK
<1> USE <1>1, PlanFixed, ThreadShape DEF Base
<1>2. /\ at \in [Threads -> Places] /\ at'[t] = place
      /\ \A u \in Threads \ {t} : at'[u] = at[u]
  BY DEF TypeOK, Goes
<1>3. TypeOK'
  BY DEF TypeOK, Goes
<1>4. Sampled'
  BY <1>2, PlanShape DEF TypeOK, Sampled, Goes
<1>5. Reported'
  BY <1>2 DEF Reported, Goes
<1>6. Joined'
  <2> SUFFICES ASSUME Crossed PROVE Joined'
    BY DEF Joined
  <2>1. 1 \in 1 .. LastPhase /\ Parties(1) \subseteq Threads
    BY PlanShape
  <2>2. \A u \in Parties(1) : at[u] # "none" => at'[u] # "none"
    BY <1>2, <2>1 DEF Goes
  <2>3. ~Active(1) /\ at[0] = "none" => t # 0 /\ at'[0] = at[0]
    BY <1>1, <1>2
  <2>4. at'[0] = "done" => t = 0 \/ at[0] = "done"
    BY <1>2
  <2> QED
    BY <1>2, <2>2, <2>3, <2>4 DEF Joined, Goes
<1>7. Driven'
  BY <1>2 DEF Driven, Live, Goes
<1> QED
  BY <1>3, <1>4, <1>5, <1>6, <1>7

(* A failing thread: a receiver, or the sender of "cross".                  *)
LEMMA FailBase ==
    ASSUME Base, NEW t \in Threads, Live(t), Fail(t), t = 0 => Crossed,
           UNCHANGED <<plan, phase, left, sent, sampled, overlap>>
    PROVE  Base'
<1>1. plan' = plan /\ plan \in Plans /\ at[t] \notin {"none", "done", "failed"}
  BY DEF Live, Base, TypeOK
<1> USE <1>1, PlanFixed, ThreadShape DEF Base
<1>2. /\ at \in [Threads -> Places] /\ at'[t] = "failed"
      /\ \A u \in Threads \ {t} : at'[u] = at[u]
      /\ failures' = TRUE /\ main' = main /\ code' = code
  BY DEF TypeOK, Fail, To
<1>3. /\ gate' \in [1 .. LastPhase -> {"closed", "open", "broken"}]
      /\ \A p \in 1 .. LastPhase : gate'[p] = "open" => gate[p] = "open"
  BY DEF TypeOK, Fail, Broken
<1>4. TypeOK'
  BY <1>2, <1>3 DEF TypeOK, Fail, To, Places
<1>5. Sampled'
  BY <1>2, <1>3, PlanShape DEF TypeOK, Sampled
<1>6. Reported'
  BY <1>2 DEF Reported
<1>7. Joined'
  <2> SUFFICES ASSUME Crossed PROVE Joined'
    BY DEF Joined
  <2>1. 1 \in 1 .. LastPhase /\ Parties(1) \subseteq Threads
    BY PlanShape
  <2>2. \A u \in Parties(1) : at[u] # "none" => at'[u] # "none"
    BY <1>2, <2>1
  <2>3. ~Active(1) /\ at[0] = "none" => t # 0 /\ at'[0] = at[0]
    BY <1>1, <1>2
  <2>4. at'[0] = "done" => t = 0 \/ at[0] = "done"
    BY <1>2
  <2> QED
    BY <1>2, <2>2, <2>3, <2>4 DEF Joined
<1>8. Driven'
  <2> SUFFICES ASSUME ~Crossed PROVE Driven'
    BY DEF Driven
  <2>1. t # 0 /\ t \in Receivers /\ at'[0] = at[0]
    BY <1>2
  <2>2. phase \in Receivers /\ \A w \in Receivers : at[w] = "none" => at'[w] = "none"
    BY <1>1, <1>2 DEF TypeOK
  <2>3. at[phase] # "none" => at'[phase] # "none"
    BY <1>2, <2>2
  <2>4. \A w \in Receivers : ~Live(w) => ~(Live(w)')
    BY <1>2 DEF Live
  <2> QED
    BY <1>2, <2>1, <2>2, <2>3, <2>4 DEF Driven
<1> QED
  BY <1>4, <1>5, <1>6, <1>7, <1>8

(* An exception or an interrupt in main, before it has left.                *)
LEMMA RaiseBase ==
    ASSUME Base, Raise, main \notin {"leave", "exited"},
           UNCHANGED <<plan, phase, left, sent, sampled, overlap>>
    PROVE  Base' /\ code' = "raised"
<1>1. plan' = plan /\ plan \in Plans
  BY DEF Base, TypeOK
<1> USE <1>1, PlanFixed, ThreadShape DEF Base
<1>2. /\ at \in [Threads -> Places] /\ at' \in [Threads -> Places]
      /\ Crossed => at' = at
      /\ ~Crossed => at'[0] = "none"
      /\ \A w \in Receivers : at'[w] = at[w]
      /\ code' = "raised" /\ gate' = gate /\ failures' = failures
      /\ main' = IF Crossed THEN "exited" ELSE "leave"
  BY DEF TypeOK, Raise, Places
<1>3. TypeOK'
  BY <1>2 DEF TypeOK
<1>4. Sampled'
  BY <1>2, PlanShape DEF TypeOK, Sampled
<1>5. Reported'
  BY <1>2 DEF Reported
<1>6. Joined'
  BY <1>2, PlanShape DEF Joined
<1>7. Driven'
  BY <1>2 DEF Driven, Live
<1> QED
  BY <1>2, <1>3, <1>4, <1>5, <1>6, <1>7

(* A barrier that is broken, or breaks, when main waits there itself.       *)
LEMMA GiveUpBase ==
    ASSUME Base, ~Crossed, Live(0), GiveUp, gate' = gate \/ Broken(0),
           UNCHANGED <<plan, phase, left, sent, sampled, overlap>>
    PROVE  Base'
<1>1. plan' = plan /\ plan \in Plans
  BY DEF Base, TypeOK
<1> USE <1>1, PlanFixed, ThreadShape DEF Base
<1>2. /\ at \in [Threads -> Places] /\ at' \in [Threads -> Places]
      /\ at'[0] = "none" /\ \A w \in Receivers : at'[w] = at[w]
      /\ failures' = TRUE /\ main' = "giveup" /\ code' = code
  BY DEF TypeOK, GiveUp, To, Places
<1>3. /\ gate' \in [1 .. LastPhase -> {"closed", "open", "broken"}]
      /\ \A p \in 1 .. LastPhase : gate'[p] = "open" => gate[p] = "open"
  BY DEF TypeOK, Broken
<1>4. TypeOK'
  BY <1>2, <1>3 DEF TypeOK
<1>5. Sampled'
  BY <1>2, <1>3, PlanShape DEF TypeOK, Sampled
<1>6. Reported'
  BY <1>2 DEF Reported
<1>7. Joined'
  BY DEF Joined
<1>8. Driven'
  BY <1>2 DEF Driven, Live
<1> QED
  BY <1>4, <1>5, <1>6, <1>7, <1>8

(* Either way a call that fails ends.                                       *)
LEMMA LostBase ==
    ASSUME Base, NEW t \in Threads, Live(t), Lost(t),
           UNCHANGED <<plan, phase, left, sent, sampled, overlap>>
    PROVE  Base' /\ code' \in {code, "raised"}
<1>1. CASE t = 0 /\ ~Crossed
  <2>1. main \notin {"leave", "exited"}
    BY <1>1 DEF Base, Driven, Live
  <2> QED
    BY <1>1, <2>1, RaiseBase DEF Lost
<1>2. CASE ~(t = 0 /\ ~Crossed)
  BY <1>2, FailBase DEF Lost, Fail
<1> QED
  BY <1>1, <1>2

-----------------------------------------------------------------------------
(* Each step of a thread                                                    *)

(* The burst and its end, and a dwell and its second sample.                *)
LEMMA RunStep ==
    ASSUME Base, NEW t \in Threads,
           Setup(t) \/ Sample(t) \/ Dwell(t) \/ (t = 0 /\ (BurstEnds \/ AfterBurst))
    PROVE  Base' /\ code' \in {code, "raised"}
<1>1. plan \in Plans /\ sampled \subseteq Threads /\ left \in Nat
  BY DEF Base, TypeOK
<1>2. ASSUME NEW place \in Places \ {"none", "failed"}, Live(t), Moved(t, place),
             UNCHANGED <<plan, phase, left, sent, overlap>>,
             sampled' = sampled \/ sampled' = sampled \cup {t},
             t # 0 => place \notin {"waiting", "burst"},
             t # 0 /\ place \in {"arrive", "dwell", "after", "done"} => t \in sampled',
             t = 0 => place \in {"sample", "arrive", "after"}
                      \/ (Crossed /\ place = "done" /\ sent = Burst)
      PROVE  Base' /\ code' = code
  <2>1. Goes(t, place) /\ gate' = gate
    BY <1>2 DEF Goes, Moved, To
  <2>2. gate \in [1 .. LastPhase -> {"closed", "open", "broken"}]
    BY DEF Base, TypeOK
  <2>3. plan.prog = "crosscheck" => left = 0
    BY DEF Base, Driven, Crossed
  <2>4. \A p \in 1 .. LastPhase : gate[p] = "open" => Heard(p) \subseteq sampled'
    BY <1>2 DEF Base, Sampled
  <2> QED
    BY <1>1, <1>2, <2>1, <2>2, <2>3, <2>4, GoesBase DEF Moved
<1>3. CASE Setup(t)
  <2>1. Live(t)
    BY <1>3 DEF Setup, Live
  <2> QED
    BY <1>2, <1>3, <2>1, LostBase DEF Setup, Places
<1>4. CASE Sample(t)
  <2>1. Live(t)
    BY <1>4 DEF Sample, Live
  <2> QED
    BY <1>2, <1>4, <2>1, LostBase DEF Sample, Places
<1>5. CASE Dwell(t)
  <2>1. Live(t) /\ t # 0
    BY <1>5 DEF Dwell, Live
  <2>2. t \in sampled
    BY <1>1, <1>5, <2>1, ThreadShape DEF Dwell, Base, Sampled
  <2>3. Fail(t) => Base' /\ code' = code
    BY <1>5, <2>1, FailBase DEF Dwell, Fail
  <2> QED
    BY <1>2, <1>5, <2>1, <2>2, <2>3 DEF Dwell, Places
<1>6. CASE t = 0 /\ BurstEnds
  <2>1. Live(t)
    BY <1>6 DEF BurstEnds, Live
  <2> QED
    BY <1>2, <1>6, <2>1 DEF BurstEnds, Places
<1>7. CASE t = 0 /\ AfterBurst /\ Crossed
  <2>1. Live(t)
    BY <1>7 DEF AfterBurst, Live
  <2>2. Fail(t) => Base' /\ code' = code
    BY <1>7, <2>1, FailBase DEF AfterBurst, Fail
  <2> QED
    BY <1>2, <1>7, <2>1, <2>2 DEF AfterBurst, Places
<1>8. CASE t = 0 /\ AfterBurst /\ ~Crossed
  <2>1. Live(0) /\ main = "drive"
    BY <1>8 DEF AfterBurst, Live, Base, Driven
  <2>2. Raise => Base' /\ code' = "raised"
    BY <1>8, <2>1, RaiseBase DEF AfterBurst
  <2>3. ASSUME main' = "join", To(0, "none"), UNCHANGED <<gate, failures, code>>
        PROVE  Base'
    <3> USE <1>1, PlanFixed, ThreadShape DEF Base
    <3>1. plan' = plan /\ UNCHANGED <<phase, left, sent, sampled, overlap>>
      BY <1>8 DEF AfterBurst
    <3>2. /\ at' \in [Threads -> Places] /\ at'[0] = "none"
          /\ \A w \in Receivers : at'[w] = at[w]
      BY <2>3 DEF To, TypeOK, Places
    <3>3. TypeOK'
      BY <2>3, <3>1, <3>2 DEF TypeOK
    <3>4. Sampled'
      BY <2>3, <3>1, <3>2, PlanShape DEF TypeOK, Sampled
    <3>5. Reported'
      BY <2>3, <3>1, <3>2 DEF Reported
    <3>6. Joined'
      BY <1>8, <3>1 DEF Joined
    <3>7. Driven'
      <4>1. phase \in Receivers /\ \A w \in Receivers : ~Live(w) => ~(Live(w)')
        BY <1>8, <3>2 DEF TypeOK, Live
      <4> QED
        BY <1>8, <2>1, <2>3, <3>1, <3>2, <4>1 DEF Driven
    <3> QED
      BY <3>3, <3>4, <3>5, <3>6, <3>7
  <2> QED
    BY <1>8, <2>2, <2>3 DEF AfterBurst
<1> QED
  BY <1>3, <1>4, <1>5, <1>6, <1>7, <1>8

(* The barrier. The last to arrive opens it: everyone else has sampled.     *)
LEMMA BarrierStep ==
    ASSUME Base, NEW t \in Threads,
           Arrive(t) \/ Released(t) \/ FindsBroken(t) \/ TimesOut(t)
    PROVE  Base' /\ code' = code
<1>1. plan \in Plans /\ sampled \subseteq Threads /\ left \in Nat /\ Live(t)
  BY DEF Base, TypeOK, Live, Arrive, Released, FindsBroken, TimesOut
<1>2. /\ gate \in [1 .. LastPhase -> {"closed", "open", "broken"}]
      /\ plan.prog = "crosscheck" => left = 0
      /\ \A p \in 1 .. LastPhase : gate[p] = "open" => Heard(p) \subseteq sampled
      /\ t # 0 => (at[t] \in {"arrive", "waiting"} => t \in sampled)
      /\ GateOf(t) \in 1 .. LastPhase
  <2>1. GateOf(t) \in 1 .. LastPhase
    BY <1>1, ThreadShape, PlanShape DEF GateOf, Base, TypeOK
  <2> QED
    BY <1>1, <2>1, ThreadShape DEF Base, TypeOK, Driven, Sampled, Crossed
<1>3. CASE Arrive(t)
  <2>1. Goes(t, "waiting") /\ left' = left /\ sampled' = sampled
    BY <1>1, <1>3 DEF Arrive, Goes, To, Places
  <2>2. ASSUME \A u \in Parties(GateOf(t)) \ {t} : at[u] = "waiting"
        PROVE  Heard(GateOf(t)) \subseteq sampled
    <3>1. SUFFICES ASSUME NEW w \in Heard(GateOf(t)) PROVE w \in sampled
      OBVIOUS
    <3>2. w \in Receivers /\ w \in Parties(GateOf(t))
      BY <1>1, <3>1, ThreadShape
    <3>3. at[w] \in {"arrive", "waiting"}
      BY <1>3, <2>2, <3>2 DEF Arrive
    <3> QED
      BY <3>2, <3>3 DEF Base, Sampled
  <2>3. \A p \in 1 .. LastPhase : gate'[p] = "open" => Heard(p) \subseteq sampled
    BY <1>2, <1>3, <2>2 DEF Arrive
  <2>4. gate' \in [1 .. LastPhase -> {"closed", "open", "broken"}]
    BY <1>2, <1>3 DEF Arrive
  <2>5. t # 0 => t \in sampled
    BY <1>2, <1>3 DEF Arrive
  <2> QED
    BY <1>1, <1>2, <2>1, <2>3, <2>4, <2>5, GoesBase DEF Goes
<1>4. CASE Released(t)
  <2> DEFINE place == IF t = 0 THEN "burst" ELSE "dwell"
  <2>1. Goes(t, place) /\ sampled' = sampled /\ gate' = gate
    BY <1>1, <1>4 DEF Released, Goes, Moved, To, Places
  <2>2. left' \in Nat /\ (plan.prog = "crosscheck" => left' = 0)
    <3>1. plan.prog = "crosscheck" => ~Active(phase)
      BY <1>1, PlanShape DEF Base, TypeOK
    <3> QED
      BY <1>1, <1>2, <1>4, <3>1 DEF Released
  <2>3. t = 0 => Heard(phase) \subseteq sampled
    BY <1>2, <1>4 DEF Released, GateOf
  <2>4. t # 0 => t \in sampled
    BY <1>2, <1>4 DEF Released
  <2> QED
    BY <1>1, <1>2, <2>1, <2>2, <2>3, <2>4, GoesBase DEF Goes
<1>5. CASE FindsBroken(t)
  <2>1. CASE t = 0 /\ ~Crossed
    BY <1>1, <1>5, <2>1, GiveUpBase DEF FindsBroken, GiveUp
  <2>2. CASE ~(t = 0 /\ ~Crossed)
    BY <1>1, <1>5, <2>2, FailBase DEF FindsBroken, Fail
  <2> QED
    BY <2>1, <2>2
<1>6. CASE TimesOut(t)
  <2>1. CASE t = 0 /\ ~Crossed
    BY <1>1, <1>6, <2>1, GiveUpBase DEF TimesOut, GiveUp
  <2>2. CASE ~(t = 0 /\ ~Crossed)
    BY <1>1, <1>6, <2>2, FailBase DEF TimesOut, Fail
  <2> QED
    BY <2>1, <2>2
<1> QED
  BY <1>3, <1>4, <1>5, <1>6

(* One frame of the burst.                                                  *)
LEMMA SendFrameStep ==
    ASSUME Base, SendFrame
    PROVE  Base' /\ code' = code
<1>1. plan' = plan /\ plan \in Plans
  BY DEF Base, TypeOK, SendFrame
<1> USE <1>1, PlanFixed, ThreadShape DEF Base
<1>2. TypeOK'
  BY DEF TypeOK, SendFrame
<1>3. Sampled' /\ Reported'
  BY PlanShape DEF TypeOK, Sampled, Reported, SendFrame
<1>4. Joined'
  <2> SUFFICES ASSUME Crossed PROVE Joined'
    BY DEF Joined
  <2>1. at' = at /\ at[0] = "burst" /\ Active(1)' = Active(1)
    BY DEF SendFrame
  <2>2. UNCHANGED <<phase, main, code, overlap>>
    BY DEF SendFrame
  <2> QED
    BY <2>1, <2>2 DEF Joined
<1>5. Driven'
  BY DEF Driven, Live, SendFrame
<1> QED
  BY <1>2, <1>3, <1>4, <1>5 DEF SendFrame

(* So every step of a thread keeps the invariant, and none of them decides  *)
(* how the run ends but by an exception in main.                            *)
LEMMA ThreadStep ==
    ASSUME Base, NEW t \in Threads, Thread(t)
    PROVE  Base' /\ code' \in {code, "raised"}
  BY RunStep, BarrierStep, SendFrameStep DEF Thread

-----------------------------------------------------------------------------
(* Each step of main                                                        *)

(* "cross": a thread for each radio that takes part.                        *)
LEMMA StartThreadsStep ==
    ASSUME Base, StartThreads
    PROVE  Base' /\ code' = code
<1>1. /\ plan' = plan /\ plan \in Plans /\ Crossed /\ main = "start" /\ main' = "join"
      /\ UNCHANGED <<phase, gate, failures, left, sent, code, sampled, overlap>>
  BY DEF Base, TypeOK, StartThreads
<1> USE <1>1, PlanFixed, ThreadShape DEF Base
<1>2. /\ at' \in [Threads -> Places]
      /\ \A t \in Threads : at'[t] = IF t \in Parties(1) THEN "setup" ELSE "none"
  BY DEF StartThreads, Places
<1>3. TypeOK'
  BY <1>2 DEF TypeOK
<1>4. Sampled'
  BY <1>2, PlanShape DEF TypeOK, Sampled
<1>5. Reported'
  BY <1>2 DEF Reported
<1>6. Joined'
  <2>1. Parties(1) \subseteq Threads /\ (~Active(1) => 0 \notin Parties(1))
    OBVIOUS
  <2>2. Active(1)' = Active(1) /\ Parties(1)' = Parties(1)
    OBVIOUS
  <2> QED
    BY <1>2, <2>1, <2>2 DEF Joined
<1>7. Driven'
  BY DEF Driven
<1> QED
  BY <1>3, <1>4, <1>5, <1>6, <1>7

(* A phase: a new receiver thread, and main goes to the barrier itself.     *)
LEMMA BeginPhaseStep ==
    ASSUME Base, BeginPhase
    PROVE  Base' /\ code' = code
<1>1. /\ plan' = plan /\ plan \in Plans /\ ~Crossed /\ main = "start" /\ main' = "drive"
      /\ UNCHANGED <<phase, gate, failures, left, sent, code, sampled>>
  BY DEF Base, TypeOK, BeginPhase
<1> USE <1>1, PlanFixed, ThreadShape DEF Base
<1>2. phase \in Receivers
  BY DEF TypeOK
<1>3. /\ at' \in [Threads -> Places] /\ at'[0] = "sample" /\ at'[phase] = "sample"
      /\ \A w \in Receivers \ {phase} : at'[w] = at[w]
  BY <1>2 DEF TypeOK, BeginPhase, Places
<1>4. TypeOK'
  BY <1>3 DEF TypeOK, BeginPhase, Crowded
<1>5. Sampled'
  BY <1>3, PlanShape DEF TypeOK, Sampled
<1>6. Reported'
  BY <1>3 DEF Reported
<1>7. Joined'
  BY DEF Joined
<1>8. Driven'
  <2>1. code = "none"
    BY DEF Driven
  <2>2. ASSUME ~failures
        PROVE  ~Crowded
    <3>1. \A w \in Receivers : w < phase => ~Live(w)
      BY <2>1, <2>2 DEF Driven, Live
    <3>2. \A w \in Receivers : w > phase => ~Live(w)
      BY DEF Driven, Live
    <3>3. ~Live(phase)
      BY DEF Driven, Live
    <3>4. \A w \in Receivers : w < phase \/ w = phase \/ w > phase
      BY <1>2
    <3> QED
      BY <3>1, <3>2, <3>3, <3>4 DEF Crowded
  <2>3. overlap' => failures
    BY <2>1, <2>2 DEF Driven, BeginPhase
  <2>4. \A w \in Receivers : w < phase \/ w > phase => at'[w] = at[w]
    BY <1>2, <1>3
  <2> QED
    BY <1>2, <1>3, <2>1, <2>3, <2>4 DEF Driven, Live
<1> QED
  BY <1>4, <1>5, <1>6, <1>7, <1>8

(* What the loop over phases needs to go on at p, or to be left.            *)
LEMMA ContinueBase ==
    ASSUME Base, ~Crossed, main \in {"giveup", "join"}, NEW p \in Nat, p > phase,
           p <= LastPhase + 1, Continue(p), failures' \in BOOLEAN,
           failures => failures',
           ~failures' => p = phase + 1 /\ at[phase] = "done",
           plan.prog = "perturb" /\ p <= LastPhase =>
               main = "join" /\ p = phase + 1 /\ ~Live(phase),
           UNCHANGED <<plan, at, gate, left, sent, code, sampled, overlap>>
    PROVE  Base'
<1>1. plan' = plan /\ plan \in Plans /\ phase \in 1 .. LastPhase /\ LastPhase \in Nat
  BY PlanShape DEF Base, TypeOK
<1> USE <1>1, PlanFixed, ThreadShape DEF Base
<1>2. /\ phase' \in 1 .. LastPhase /\ phase' >= phase
      /\ \/ p <= LastPhase /\ phase' = p /\ main' = "start"
         \/ p = LastPhase + 1 /\ phase' = phase /\ main' = "leave"
  BY DEF Continue
<1>3. TypeOK'
  BY <1>2 DEF TypeOK
<1>4. at[0] = "none" /\ code = "none"
  BY DEF Driven
<1>5. Sampled' /\ Reported'
  BY <1>4, PlanShape DEF TypeOK, Sampled, Reported
<1>6. Joined'
  BY DEF Joined
<1>7. Driven'
  <2>1. \A w \in Receivers : w > phase => at[w] = "none"
    BY DEF Driven
  <2>2. \A w \in Receivers : w > phase' => at[w] = "none"
    BY <1>2, <2>1
  <2>3. main' = "start" => at[phase'] = "none"
    BY <1>2, <2>1
  <2>4. ~failures' =>
           \A w \in Receivers : w < phase' \/ main' \in {"leave", "exited"} => at[w] = "done"
    <3> SUFFICES ASSUME ~failures', NEW w \in Receivers,
                        w < phase' \/ main' \in {"leave", "exited"}
                 PROVE  at[w] = "done"
      OBVIOUS
    <3>1. ~failures /\ p = phase + 1 /\ at[phase] = "done"
      OBVIOUS
    <3>2. w < phase \/ w = phase
      BY <1>2, <3>1
    <3> QED
      BY <1>4, <3>1, <3>2 DEF Driven
  <2>5. plan.prog = "perturb" /\ main' = "start" =>
           \A w \in Receivers : w < phase' => ~Live(w)
    <3> SUFFICES ASSUME plan.prog = "perturb", main' = "start",
                        NEW w \in Receivers, w < phase'
                 PROVE  ~Live(w)
      OBVIOUS
    <3>1. main = "join" /\ p = phase + 1 /\ ~Live(phase) /\ phase' = p
      BY <1>2
    <3>2. w < phase \/ w = phase
      BY <3>1
    <3>3. main = "join" => \A u \in Receivers : u < phase => ~Live(u)
      BY DEF Driven
    <3> QED
      BY <3>1, <3>2, <3>3
  <2>6. overlap => failures'
    BY <1>4 DEF Driven
  <2> QED
    BY <1>2, <1>4, <2>2, <2>3, <2>4, <2>5, <2>6 DEF Driven, Live
<1> QED
  BY <1>3, <1>5, <1>6, <1>7

(* break leaves the loop, or goes on with a later target: both only after a *)
(* failure.                                                                 *)
LEMMA BreakBase ==
    ASSUME Base, ~Crossed, main \in {"giveup", "join"}, Break, failures' = TRUE,
           UNCHANGED <<plan, at, gate, left, sent, code, sampled, overlap>>
    PROVE  Base'
<1>1. LastPhase \in Nat /\ phase \in 1 .. LastPhase
  BY PlanShape DEF Base, TypeOK
<1>2. CASE plan.prog = "perturb"
  <2>1. Continue(LastPhase + 1)
    BY <1>2 DEF Break
  <2> QED
    BY <1>1, <2>1, ContinueBase
<1>3. CASE plan.prog # "perturb"
  <2>1. PICK p \in phase + 1 .. LastPhase + 1 : Continue(p)
    BY <1>3 DEF Break
  <2>2. p \in Nat /\ p > phase /\ p <= LastPhase + 1
    BY <1>1, <2>1
  <2> QED
    BY <1>3, <2>1, <2>2, ContinueBase
<1> QED
  BY <1>2, <1>3

(* The end of a phase: its receiver is done, has failed, or is left behind. *)
LEMMA JoinPhaseStep ==
    ASSUME Base, JoinPhase
    PROVE  Base' /\ code' = code
<1>1. /\ plan \in Plans /\ ~Crossed /\ main = "join" /\ code' = code
      /\ UNCHANGED <<plan, at, gate, left, sent, code, sampled, overlap>>
  BY DEF Base, TypeOK, JoinPhase
<1>2. CASE Live(phase)
  BY <1>1, <1>2, BreakBase DEF JoinPhase
<1>3. CASE ~Live(phase)
  <2>1. failures' = failures /\ Continue(phase + 1)
    BY <1>3 DEF JoinPhase
  <2>2. LastPhase \in Nat /\ phase \in 1 .. LastPhase /\ phase \in Threads
    BY <1>1, PlanShape, ThreadShape DEF Base, TypeOK
  <2>3. at[phase] # "none"
    BY <1>1 DEF Base, Driven
  <2>4. ~failures => at[phase] = "done"
    BY <1>3, <2>2, <2>3 DEF Base, Reported, Live
  <2>5. failures \in BOOLEAN
    BY DEF Base, TypeOK
  <2> QED
    BY <1>1, <1>3, <2>1, <2>2, <2>4, <2>5, ContinueBase
<1> QED
  BY <1>2, <1>3

(* Main gives the thread a second and breaks out of the loop.               *)
LEMMA GiveUpEndsStep ==
    ASSUME Base, GiveUpEnds
    PROVE  Base' /\ code' = code
<1>1. ~Crossed
  BY DEF Base, Joined, GiveUpEnds
<1>2. failures = TRUE
  BY <1>1 DEF Base, TypeOK, Driven, GiveUpEnds
<1> QED
  BY <1>1, <1>2, BreakBase DEF GiveUpEnds

(* Closing the adapters: while nothing has failed no receiver is left.      *)
LEMMA LeaveStep ==
    ASSUME Base, Leave
    PROVE  /\ Base'
           /\ code' \in {"0", "1"} => Settled' /\ Conclusive'
<1>1. /\ plan' = plan /\ plan \in Plans /\ main = "leave" /\ main' = "exited"
      /\ UNCHANGED <<phase, at, gate, failures, left, sent, sampled>>
      /\ overlap' = (overlap \/ Crowded)
      /\ code \in {"none", "raised"}
  BY DEF Base, TypeOK, Leave, Joined, Driven
<1> USE <1>1, PlanFixed, ThreadShape DEF Base
<1>2. ~Crossed
  BY DEF Joined
<1>3. /\ code' \in {"raised", "2", "0"}
      /\ code' = "0" => code = "none" /\ ~failures /\ (plan.prog = "perturb" => sent = Asked)
      /\ code' = "raised" <=> code = "raised"
  BY <1>1 DEF Leave
<1>4. ~failures /\ code # "raised" => \A w \in Receivers : at[w] = "done"
  BY <1>2 DEF Driven
<1>5. overlap' => failures \/ code = "raised"
  BY <1>2, <1>4 DEF Driven, Crowded, Live
<1>6. TypeOK'
  BY <1>3 DEF TypeOK, Crowded
<1>7. Sampled' /\ Reported'
  BY PlanShape DEF TypeOK, Sampled, Reported
<1>8. Joined'
  BY <1>2 DEF Joined
<1>9. Driven'
  BY <1>2, <1>3, <1>4, <1>5 DEF Driven, Live
<1>10. ASSUME code' \in {"0", "1"}
       PROVE  Settled' /\ Conclusive'
  <2>1. code = "none" /\ ~failures /\ (plan.prog = "perturb" => sent = Asked)
    BY <1>3, <1>10
  <2>2. at[0] = "none"
    BY <1>2 DEF Driven
  <2>3. sent = Asked
    <3>1. CASE plan.prog = "perturb"
      BY <2>1, <3>1
    <3>2. CASE plan.prog = "crosscheck"
      <4>1. {p \in 1 .. LastPhase : Active(p)} = {}
        BY <3>2, PlanShape
      <4>2. Asked = Burst * 0 /\ sent = 0
        BY <1>2, <3>2, <4>1, FS_EmptySet DEF Asked, Driven
      <4> QED
        BY <4>2
    <3> QED
      BY <1>2, <3>1, <3>2, PlanShape
  <2>4. ~overlap'
    BY <1>5, <2>1
  <2> QED
    BY <1>4, <2>1, <2>2, <2>3, <2>4 DEF Settled, Conclusive, Live
<1> QED
  BY <1>6, <1>7, <1>8, <1>9, <1>10

(* "cross" ends when every thread has, and asks whether any failed.         *)
LEMMA JoinAllStep ==
    ASSUME Base, JoinAll
    PROVE  /\ Base'
           /\ code' \in {"0", "1"} => Settled' /\ Conclusive'
<1>1. /\ plan' = plan /\ plan \in Plans /\ Crossed /\ main = "join" /\ main' = "exited"
      /\ UNCHANGED <<phase, at, gate, failures, left, sent, sampled, overlap>>
      /\ \A t \in Threads : at[t] \in {"none", "done", "failed"}
  BY DEF Base, TypeOK, JoinAll, Live
<1> USE <1>1, PlanFixed, ThreadShape DEF Base
<1>2. code' \in {"0", "1", "2"} /\ (code' # "2" => ~failures)
  BY DEF JoinAll
<1>3. TypeOK'
  BY <1>2 DEF TypeOK
<1>4. Sampled' /\ Reported'
  BY PlanShape DEF TypeOK, Sampled, Reported
<1>5. Joined'
  <2>1. Active(1)' = Active(1)
    OBVIOUS
  <2> QED
    BY <2>1 DEF Joined
<1>6. Driven'
  BY DEF Driven
<1>7. ASSUME code' \in {"0", "1"}
      PROVE  Settled' /\ Conclusive'
  <2>1. ~failures /\ \A t \in Parties(1) : at[t] = "done"
    <3>1. ~failures
      BY <1>2, <1>7
    <3>2. Parties(1) \subseteq Threads /\ \A t \in Parties(1) : at[t] # "none"
      BY DEF Joined
    <3> QED
      BY <3>1, <3>2 DEF Reported
  <2>2. \A w \in Receivers : at[w] = "done"
    BY <2>1
  <2>3. sent = Asked
    <3>1. CASE Active(1)
      <4>1. at[0] = "done" /\ sent = Burst
        BY <2>1, <3>1 DEF Joined
      <4>2. {p \in 1 .. LastPhase : Active(p)} = {1}
        BY <3>1, PlanShape
      <4>3. Cardinality({p \in 1 .. LastPhase : Active(p)}) = 1
        BY <4>2, FS_Singleton
      <4> QED
        BY <4>1, <4>3 DEF Asked
    <3>2. CASE ~Active(1)
      <4>1. sent = 0
        BY <3>2 DEF Joined
      <4>2. {p \in 1 .. LastPhase : Active(p)} = {}
        BY <3>2, PlanShape
      <4>3. Cardinality({p \in 1 .. LastPhase : Active(p)}) = 0
        BY <4>2, FS_EmptySet
      <4> QED
        BY <4>1, <4>3 DEF Asked
    <3> QED
      BY <3>1, <3>2
  <2>4. ~overlap
    BY DEF Joined
  <2> QED
    BY <2>1, <2>2, <2>3, <2>4 DEF Settled, Conclusive, Live
<1> QED
  BY <1>3, <1>4, <1>5, <1>6, <1>7

-----------------------------------------------------------------------------
(* The run                                                                  *)

(* A run that has reported success is over: nothing moves any more.         *)
LEMMA Over ==
    ASSUME Base, Settled, Conclusive, code \in {"0", "1"}
    PROVE  ~Next
<1>1. plan \in Plans
  BY DEF Base, TypeOK
<1>2. main = "exited" /\ \A t \in Threads : ~Live(t)
  BY <1>1, ThreadShape DEF Settled, Conclusive, Live
<1>3. ASSUME NEW t \in Threads, Thread(t)
      PROVE  Live(t) \/ Live(0)
  BY <1>3 DEF Thread, Setup, Sample, Arrive, Released, FindsBroken, TimesOut,
     Dwell, SendFrame, BurstEnds, AfterBurst, Live
<1>4. 0 \in Threads
  BY <1>1, ThreadShape
<1>5. ~Main /\ ~Interrupt
  BY <1>2 DEF Main, StartThreads, BeginPhase, GiveUpEnds, JoinPhase, Leave, JoinAll,
     Interrupt
<1> QED
  BY <1>2, <1>3, <1>4, <1>5 DEF Next

(* The invariant holds at the start.                                        *)
LEMMA InitIInv == Init => IInv
<1> SUFFICES ASSUME Init PROVE IInv
  OBVIOUS
<1>1. plan \in Plans
  BY DEF Init
<1> USE <1>1, PlanShape, ThreadShape
<1>2. TypeOK
  BY DEF Init, TypeOK, Places
<1>3. Sampled /\ Reported /\ Joined /\ Driven /\ Settled /\ Conclusive
  BY DEF Init, Sampled, Reported, Joined, Driven, Settled, Conclusive, Live
<1> QED
  BY <1>2, <1>3 DEF IInv, Base

(* And every step keeps it.                                                 *)
LEMMA NextIInv == IInv /\ [Next]_vars => IInv'
<1> SUFFICES ASSUME IInv, [Next]_vars PROVE IInv'
  OBVIOUS
<1>1. CASE UNCHANGED vars
  BY <1>1 DEF vars, IInv, Base, TypeOK, Sampled, Reported, Joined, Driven, Settled,
     Conclusive, Live, Threads, Receivers, LastPhase, Crossed, Asked, Heard, Parties,
     Active, PhaseOf
<1>2. CASE Next
  <2>1. Base /\ code \notin {"0", "1"}
    BY <1>2, Over DEF IInv
  <2>2. Base' /\ (code' \in {"0", "1"} => Settled' /\ Conclusive')
    <3>1. CASE \E t \in Threads : Thread(t)
      BY <2>1, <3>1, ThreadStep
    <3>2. CASE StartThreads \/ BeginPhase \/ GiveUpEnds \/ JoinPhase
      BY <2>1, <3>2, StartThreadsStep, BeginPhaseStep, GiveUpEndsStep, JoinPhaseStep
    <3>3. CASE Leave \/ JoinAll
      BY <2>1, <3>3, LeaveStep, JoinAllStep
    <3>4. CASE Interrupt
      BY <2>1, <3>4, RaiseBase DEF Interrupt
    <3> QED
      BY <1>2, <3>1, <3>2, <3>3, <3>4 DEF Next, Main
  <2>3. code' \notin {"0", "1"} => Settled' /\ Conclusive'
    BY DEF Settled, Conclusive
  <2> QED
    BY <2>2, <2>3 DEF IInv
<1> QED
  BY <1>1, <1>2

(* The invariant of the two-radio programs.                                 *)
THEOREM RendezvousInvariant == Spec => []IInv
  BY InitIInv, NextIInv, PTL DEF Spec

(* However many radios and phases: a run that reports no failure had every  *)
(* receiver of every phase finish, sent every frame it was asked for, and   *)
(* used no adapter under a thread that was still using it (main of          *)
(* cross_measure.py, mt7925_mib_perturb.py and mt7925_mib_crosscheck.py).   *)
THEOREM SuccessIsConclusive == Spec => []Conclusive
<1>1. IInv => Conclusive
  BY DEF IInv
<1> QED
  BY <1>1, RendezvousInvariant, PTL

(* No frame leaves before every receiver that is to hear it has read its    *)
(* first counter, and none into the interval of another phase: what the     *)
(* barrier of the two-radio programs is there for.                          *)
THEOREM BurstsAreHeard == Spec => BurstHeard
<1>1. IInv /\ [Next]_vars =>
        [SendFrame =>
            /\ Heard(phase) \subseteq sampled
            /\ \A w \in Receivers : Live(w) => PhaseOf(w) = phase]_vars
  <2> SUFFICES ASSUME Base, SendFrame
               PROVE  /\ Heard(phase) \subseteq sampled
                      /\ \A w \in Receivers : Live(w) => PhaseOf(w) = phase
    BY DEF IInv
  <2>1. plan \in Plans /\ at[0] = "burst" /\ left > 0 /\ phase \in Nat
    BY PlanShape DEF SendFrame, Base, TypeOK
  <2>2. Heard(phase) \subseteq sampled
    BY <2>1 DEF Base, Sampled
  <2>3. CASE Crossed
    BY <2>1, <2>2, <2>3, ThreadShape DEF Base, Joined
  <2>4. CASE ~Crossed
    <3>1. plan.prog = "perturb" /\ main = "drive"
      BY <2>1, <2>4, PlanShape DEF Base, Driven
    <3>2. \A w \in Receivers : PhaseOf(w) = w /\ w \in Nat
      BY <2>1, <2>4, ThreadShape
    <3>3. \A w \in Receivers : w < phase \/ w > phase => ~Live(w)
      BY <2>4, <3>1 DEF Base, Driven, Live
    <3> QED
      BY <2>1, <2>2, <3>2, <3>3
  <2> QED
    BY <2>3, <2>4
<1> QED
  BY <1>1, RendezvousInvariant, PTL DEF Spec, BurstHeard
=============================================================================
