---------------------------- MODULE MCRendezvous ----------------------------
(* Rendezvous with two receivers and a sender, or none; a burst between two *)
(* baselines; and two targets, one of them measured twice.                  *)
EXTENDS Rendezvous

Passive(target) == [target |-> target, active |-> FALSE]
Noisy(target) == [target |-> target, active |-> TRUE]

MCPlans ==
    {Plan("cross", 2, <<Passive(1)>>),
     Plan("cross", 1, <<Noisy(1)>>),
     Plan("cross", 2, <<Noisy(1)>>),
     Plan("perturb", 0, <<Passive(1), Noisy(1), Passive(1), Noisy(1), Passive(1)>>),
     Plan("crosscheck", 0, <<Passive(1), Passive(1), Passive(2)>>)}
=============================================================================
