---------------------------- MODULE MCExperiment ----------------------------
(* Experiment with a limit of two writes per boot and a spacing of two.     *)
EXTENDS Experiment
=============================================================================
