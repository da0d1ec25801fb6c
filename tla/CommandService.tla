--------------------------- MODULE CommandService ---------------------------
(***************************************************************************)
(* What the command channel promises to those who use it, without packets, *)
(* sequences or timeouts: a command may be answered once, late or never,   *)
(* its answer may be lost, and a call returns the answer to its own        *)
(* command, an error, or the answer to a command at least Turn older. The  *)
(* last is the price of a numbering that repeats. McuChannel implements it.*)
(***************************************************************************)
EXTENDS Integers

CONSTANT Turn       \* commands after which the numbering repeats

VARIABLES
    sent,       \* commands numbered so far
    waiting,    \* the command a call waits for, or 0
    open,       \* commands that have reached the firmware and have no answer
    arriving,   \* commands whose answers have been given and not been read
    outcome,    \* how the last call ended
    answer      \* the command whose answer it returned

serviceVars == <<sent, waiting, open, arriving, outcome, answer>>

Init ==
    /\ sent = 0
    /\ waiting = 0
    /\ open = {}
    /\ arriving = {}
    /\ outcome = "none"
    /\ answer = 0

(* The next command; it may fail to leave the host.                         *)
Issue ==
    /\ waiting = 0
    /\ sent' = sent + 1
    /\ open' \in {open, open \cup {sent'}}
    /\ UNCHANGED arriving

Send == Issue /\ UNCHANGED <<waiting, outcome, answer>>

Call ==
    /\ Issue
    /\ waiting' = sent'
    /\ outcome' = "none"
    /\ answer' = 0

(* Each command is answered once.                                           *)
Answer ==
    \E i \in open :
        /\ open' = open \ {i}
        /\ arriving' = arriving \cup {i}
        /\ UNCHANGED <<sent, waiting, outcome, answer>>

(* An answer nobody waits for is read and thrown away.                      *)
Lose ==
    \E i \in arriving :
        /\ arriving' = arriving \ {i}
        /\ UNCHANGED <<sent, waiting, open, outcome, answer>>

Return ==
    /\ waiting # 0
    /\ \E i \in arriving :
           /\ i = waiting \/ waiting - i >= Turn
           /\ answer' = i
           /\ arriving' = arriving \ {i}
    /\ waiting' = 0
    /\ outcome' = "ok"
    /\ UNCHANGED <<sent, open>>

Fail ==
    /\ waiting # 0
    /\ waiting' = 0
    /\ outcome' = "error"
    /\ \/ UNCHANGED arriving
       \/ \E i \in arriving : arriving' = arriving \ {i}
    /\ UNCHANGED <<sent, open, answer>>

Next == Send \/ Call \/ Answer \/ Lose \/ Return \/ Fail

Spec == Init /\ [][Next]_serviceVars
=============================================================================
