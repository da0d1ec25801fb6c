---------------------------- MODULE BootService -----------------------------
(***************************************************************************)
(* What a bring-up promises to those for whom it is one step (Experiment,  *)
(* RadioProbe, Scripts): firmware that runs is stopped by a bring-up or by *)
(* unplugging the adapter and by nothing else, not by the death of the     *)
(* process; a bring-up that reports success has its own firmware running;  *)
(* and one that fails promises nothing: the old firmware may run on, none  *)
(* may run, or what it loaded may still come up. Bringup implements it.    *)
(***************************************************************************)
EXTENDS Integers

VARIABLES
    tries,      \* bring-ups begun so far
    session,    \* "none", "trying", or how the last one ended: "ok", "failed"
    firmware    \* the bring-up whose firmware runs, or 0

bootVars == <<tries, session, firmware>>

Init ==
    /\ tries = 0
    /\ session = "none"
    /\ firmware = 0

Try ==
    /\ session # "trying"
    /\ tries' = tries + 1
    /\ session' = "trying"
    /\ UNCHANGED firmware

Stop ==
    /\ session = "trying"
    /\ firmware' = 0
    /\ UNCHANGED <<tries, session>>

(* What has been loaded starts in its own time, even after its bring-up     *)
(* gave up.                                                                 *)
Start ==
    /\ firmware = 0
    /\ firmware' \in 1 .. tries
    /\ UNCHANGED <<tries, session>>

Succeed ==
    /\ session = "trying"
    /\ firmware = tries
    /\ session' = "ok"
    /\ UNCHANGED <<tries, firmware>>

Fail ==
    /\ session = "trying"
    /\ session' = "failed"
    /\ firmware' \in {firmware, 0}
    /\ UNCHANGED tries

(* The process ends, and another opens the adapter.                         *)
Reopen ==
    /\ session' = "none"
    /\ UNCHANGED <<tries, firmware>>

Replug ==
    /\ session' = "none"
    /\ firmware' = 0
    /\ UNCHANGED tries

Next == Try \/ Stop \/ Start \/ Succeed \/ Fail \/ Reopen \/ Replug

Spec == Init /\ [][Next]_bootVars
=============================================================================
