----------------------------- MODULE ScriptRules -----------------------------
(***************************************************************************)
(* The rules the programs of Scripts are written by: what must come before *)
(* a step that changes an adapter, and what must come after it, for the    *)
(* program to be safe wherever it fails. They speak of the text of one     *)
(* program c only. ScriptsProofs proves that a program that keeps them is  *)
(* guarded, cleans up and exits honestly.                                  *)
(***************************************************************************)
EXTENDS Scripts

Setters == {"alive", "found", "stillon", "mark"}
Droppers == {"alive", "found", "stillon", "forget"}

(* Keys that steps set or remove, and keys that note a caught exception.    *)
(* What is none of them is a flag, and stays as the command line has it.    *)
IsSet(c, k) == \E p \in PositionsOf(c) : StepOf(c, p).op \in Setters /\ StepOf(c, p).key = k
IsDropped(c, k) ==
    \E p \in PositionsOf(c) : StepOf(c, p).op \in Droppers /\ StepOf(c, p).key = k
IsCaught(c, k) == \E b \in DOMAIN c.blocks : c.blocks[b].catch # {} /\ c.blocks[b].key = k
Fixed(c, k) == ~IsSet(c, k) /\ ~IsDropped(c, k) /\ ~IsCaught(c, k)

Wants(c, p) == StepOf(c, p).has \cup BlockOf(c, p).has
Bars(c, p) == StepOf(c, p).lacks \cup BlockOf(c, p).lacks
Raises(c, p) ==
    StepOf(c, p).raises \cup
    {e \in {"other"} : StepOf(c, p).op \in {"restore", "mustbeoff", "mustbeon"}}

SameRadio(c, p, q) == c.apart \/ StepOf(c, p).on = StepOf(c, q).on
SameSetting(c, p, q) == SameRadio(c, p, q) /\ StepOf(c, p).arg = StepOf(c, q).arg

WellFormed(c) ==
    /\ DOMAIN c.blocks = 1..Len(c.blocks) /\ Len(c.blocks) \in Nat
    /\ \A b \in DOMAIN c.blocks :
         /\ DOMAIN c.blocks[b].do = 1..Len(c.blocks[b].do)
         /\ Len(c.blocks[b].do) \in Nat \ {0}
         /\ c.blocks[b].level \in Nat
         /\ c.blocks[b].escapes \in Nat
         /\ c.blocks[b].catch \subseteq Exception
         /\ c.blocks[b].catch # {} => ~IsDropped(c, c.blocks[b].key)
    /\ \A p \in PositionsOf(c) :
         /\ StepOf(c, p).raises \subseteq Exception
         /\ StepOf(c, p).op = "arm" => StepOf(c, p).arg # ""
    /\ c.rows \in Nat \ {0}

-----------------------------------------------------------------------------
(* Whoever reaches p in its turn has passed m: the flags that p depends on  *)
(* include those of m, and an exception at m would have kept the program    *)
(* from p.                                                                  *)
Holdup(c, m, p) ==
    \/ m[1] = p[1]
    \/ BlockOf(c, m).catch = {}
    \/ BlockOf(c, m).key \in BlockOf(c, p).lacks /\ ~IsSet(c, BlockOf(c, m).key)

Leads(c, m, p) ==
    /\ Precedes(m, p)
    /\ Holdup(c, m, p)
    /\ \A k \in Wants(c, m) : Fixed(c, k) /\ k \in Wants(c, p)
    /\ \A k \in Bars(c, m) : Fixed(c, k) /\ k \in Bars(c, p)

(* k is set whenever p is reached in its turn, and will not be removed.     *)
Given(c, p, k) ==
    /\ ~IsDropped(c, k)
    /\ \/ k \in Wants(c, p)
       \/ \E m \in PositionsOf(c) :
            StepOf(c, m).op = "require" /\ StepOf(c, m).key = k /\ Leads(c, m, p)

(* What lets p run lets q run as well.                                      *)
Follows(c, p, q) ==
    /\ \A k \in Wants(c, q) : Given(c, p, k)
    /\ \A k \in Bars(c, q) : Fixed(c, k) /\ k \in Bars(c, p)

(* m starts the adapter p is about, and no later start of it can have       *)
(* failed.                                                                  *)
Starts(c, m, p) ==
    /\ StepOf(c, m).op = "boot" /\ SameRadio(c, m, p) /\ Leads(c, m, p)
    /\ \A x \in PositionsOf(c) :
         /\ StepOf(c, x).op = "boot" /\ SameRadio(c, x, m)
         /\ Precedes(m, x) /\ Precedes(x, p)
         => Holdup(c, x, p)

(* Before a change or a frame: a start, and all that the program insists on.*)
GuardsFirst(c) ==
    \A p \in PositionsOf(c) : StepOf(c, p).op \in {"arm", "transmit"} =>
        /\ BlockOf(c, p).level = 0
        /\ \E m \in PositionsOf(c) : Starts(c, m, p)
        /\ \A k \in c.asks : Given(c, p, k)
        /\ StepOf(c, p).op = "transmit" => Given(c, p, "transmit")

-----------------------------------------------------------------------------
(* An attempt to undo what p switched on, as the first step of a cleanup.   *)
Undoes(c, q, p) ==
    \/ StepOf(c, q).op = "boot" /\ SameRadio(c, q, p)
    \/ StepOf(c, q).op = "undo" /\ SameSetting(c, q, p)
    \/ /\ StepOf(c, q).op = "restore" /\ SameSetting(c, q, p)
       /\ \E m \in PositionsOf(c) :
            StepOf(c, m).op = "save" /\ SameSetting(c, m, p) /\ Leads(c, m, p)

(* What escapes from block b does not pass over a block of this level,      *)
(* unless it is an interrupt of a cleanup.                                  *)
Lets(c, b, level) ==
    \/ c.blocks[b].escapes < level
    \/ /\ c.blocks[b].escapes \in 1..2
       /\ \A i \in DOMAIN c.blocks[b].do : Raises(c, <<b, i>>) \subseteq c.blocks[b].catch

UndoesAll(c) ==
    \A p \in PositionsOf(c) :
        StepOf(c, p).op = "arm" /\ StepOf(c, p).arg \notin c.leaves =>
            /\ BlockOf(c, p).level = 0
            /\ \E q \in PositionsOf(c) :
                 /\ Undoes(c, q, p) /\ Follows(c, p, q)
                 /\ p[1] < q[1] /\ q[2] = 1
                 /\ BlockOf(c, q).escapes \in 1..2
                 /\ \A b \in p[1]..(q[1] - 1) : Lets(c, b, BlockOf(c, q).level)

-----------------------------------------------------------------------------
(* A value is saved before the setting is first switched on.                *)
SavesFirst(c) ==
    \A p \in PositionsOf(c) :
      StepOf(c, p).op = "save" /\ StepOf(c, p).arg \notin c.overlooks =>
        /\ BlockOf(c, p).level = 0
        /\ \E m \in PositionsOf(c) :
             /\ Starts(c, m, p)
             /\ \A x \in PositionsOf(c) :
                  StepOf(c, x).op = "arm" /\ SameSetting(c, x, p) =>
                      ~(Precedes(m, x) /\ Precedes(x, p))

(* Two steps of which no run takes both.                                    *)
Contrary(c, x, y) ==
    \E k \in (Wants(c, x) \cap Bars(c, y)) \cup (Bars(c, x) \cap Wants(c, y)) : Fixed(c, k)

(* The exit code depends on the answer at a, and nothing else can give it.  *)
Vouches(c, a) ==
    /\ StepOf(c, a).op = "alive"
    /\ StepOf(c, a).key \in c.need \ c.flags
    /\ ~IsCaught(c, StepOf(c, a).key)
    /\ \A x \in PositionsOf(c) :
         x # a /\ StepOf(c, x).op \in Setters /\ StepOf(c, x).key = StepOf(c, a).key =>
             Contrary(c, x, a)

(* Nothing but a failure comes between q and the answer at a.               *)
AnsweredBy(c, q, a) ==
    /\ a[1] = q[1] /\ q[2] < a[2]
    /\ Vouches(c, a)
    /\ \A k \in StepOf(c, a).has : Fixed(c, k) /\ k \in Wants(c, q)
    /\ \A k \in StepOf(c, a).lacks : Fixed(c, k) /\ k \in Bars(c, q)

(* A failure of q shows in the exit code: it ends the program, is noted     *)
(* under a key that counts, or leaves out an answer that counts.            *)
Shows(c, q) ==
    \/ BlockOf(c, q).catch = {}
    \/ BlockOf(c, q).key \in c.bad
    \/ \E a \in PositionsOf(c) : AnsweredBy(c, q, a)

(* A start of the adapter after p that does not fail unseen.                *)
Reloads(c, p) ==
    \E q \in PositionsOf(c) :
        /\ Precedes(p, q) /\ Follows(c, p, q) /\ Shows(c, q)
        /\ StepOf(c, q).op = "boot" /\ SameRadio(c, q, p)

(* New firmware follows every change, and every start that fails unseen. A  *)
(* write that puts a setting back is not enough: it may not have taken.     *)
ShowsAll(c) ==
    \A p \in PositionsOf(c) :
        /\ StepOf(c, p).op = "arm" /\ StepOf(c, p).arg \notin Excused(c) => Reloads(c, p)
        /\ /\ StepOf(c, p).op = "boot"
           /\ \E x \in PositionsOf(c) : StepOf(c, x).arg \notin Excused(c) \cup {""}
           => Shows(c, p) \/ Reloads(c, p)

(* After a start in a cleanup: an answer that counts.                       *)
AsksAll(c) ==
    c.judged => \A p \in PositionsOf(c) :
        StepOf(c, p).op = "boot" /\ BlockOf(c, p).level > 0 =>
            \E a \in PositionsOf(c) : SameRadio(c, a, p) /\ AnsweredBy(c, p, a)

-----------------------------------------------------------------------------
Rules(c) ==
    WellFormed(c) /\ GuardsFirst(c) /\ UndoesAll(c) /\ SavesFirst(c) /\ ShowsAll(c) /\ AsksAll(c)

Disciplined == {n \in DOMAIN Programs : Rules(Programs[n])}

(* Every program that runs keeps the rules.                                 *)
KeepsRules == prog \in Disciplined
=============================================================================
