----------------------------- MODULE ScriptsProofs ----------------------------
(***************************************************************************)
(* That a program which keeps the rules of ScriptRules is guarded, cleans  *)
(* up after itself and exits honestly, whatever fails and wherever.        *)
(***************************************************************************)
EXTENDS ScriptRules, WellFoundedInduction, TLAPS

-----------------------------------------------------------------------------
(* The order of the positions, and the step that is next.                   *)

(* Where a block and a step of it may be.                                   *)
Places == (Nat \ {0}) \X (Nat \ {0})

(* End is not a place of the text.                                          *)
LEMMA EndIsNoPlace == End \notin Places
  BY DEF End, Places

(* Precedes is a total order, End the greatest.                             *)
LEMMA OrderOfPlaces ==
  ASSUME NEW p \in Places \cup {End}, NEW q \in Places \cup {End}, NEW x \in Places \cup {End}
  PROVE  /\ ~Precedes(p, p)
         /\ Precedes(p, q) => ~Precedes(q, p)
         /\ Precedes(p, q) \/ p = q \/ Precedes(q, p)
         /\ Precedes(p, q) /\ Precedes(q, x) => Precedes(p, x)
  BY DEF Places, End, Precedes

(* A nonempty set of natural numbers has a least member.                    *)
LEMMA LeastNatural ==
  ASSUME NEW S \in SUBSET Nat, S # {}
  PROVE  \E n \in S : \A m \in S : n <= m
  <1> DEFINE Below == OpToRel(<, Nat)
  <1>1. IsWellFoundedOn(Below, Nat)
    BY NatLessThanWellFounded
  <1>2. PICK n \in S : \A m \in S : <<m, n>> \notin Below
    <2> HIDE DEF Below
    <2> QED BY <1>1, WFMin
  <1>3. \A m \in S : <<m, n>> \in Below <=> m < n
    BY DEF OpToRel
  <1> HIDE DEF Below
  <1>4. ASSUME NEW m \in S PROVE n <= m
    <2>1. n \in Nat /\ m \in Nat /\ ~(m < n)
      BY <1>2, <1>3
    <2> QED BY <2>1
  <1> QED BY <1>4

(* A nonempty set of places has a first one.                                *)
LEMMA LeastPlace ==
  ASSUME NEW S \in SUBSET Places, S # {}
  PROVE  \E p \in S : \A q \in S : ~Precedes(q, p)
  <1>1. PICK b \in {p[1] : p \in S} : \A d \in {p[1] : p \in S} : b <= d
    <2>1. {p[1] : p \in S} \in SUBSET Nat /\ {p[1] : p \in S} # {}
      BY DEF Places
    <2> QED BY <2>1, LeastNatural
  <1> DEFINE T == {p \in S : p[1] = b}
  <1>2. PICK i \in {p[2] : p \in T} : \A j \in {p[2] : p \in T} : i <= j
    <2>1. {p[2] : p \in T} \in SUBSET Nat /\ {p[2] : p \in T} # {}
      BY DEF Places
    <2> QED BY <2>1, LeastNatural
  <1>3. PICK p \in T : p[2] = i
    OBVIOUS
  <1>4. ASSUME NEW q \in S PROVE ~Precedes(q, p)
    <2>1. b <= q[1] /\ (q[1] = b => i <= q[2])
      BY <1>1, <1>2
    <2>2. p \in Places /\ q \in Places
      OBVIOUS
    <2>3. p # End
      BY <2>2, EndIsNoPlace
    <2> QED BY <1>3, <2>1, <2>2, <2>3 DEF Precedes, Places
  <1> QED BY <1>3, <1>4

(* A position lies within its block, and its block within the program.      *)
LEMMA PositionsArePlaces ==
  ASSUME NEW c, WellFormed(c), NEW p \in PositionsOf(c)
  PROVE  /\ p \in Places /\ p # End
         /\ p[1] \in 1..Len(c.blocks)
         /\ p[2] \in 1..Len(c.blocks[p[1]].do)
  <1>1. PICK b \in DOMAIN c.blocks : p \in {b} \X DOMAIN c.blocks[b].do
    BY DEF PositionsOf
  <1>2. p = <<b, p[2]>> /\ p[1] = b /\ p[2] \in DOMAIN c.blocks[b].do
    BY <1>1
  <1>3. b \in 1..Len(c.blocks) /\ Len(c.blocks) \in Nat
        /\ DOMAIN c.blocks[b].do = 1..Len(c.blocks[b].do) /\ Len(c.blocks[b].do) \in Nat
    BY <1>1 DEF WellFormed
  <1>4. p \in Places
    BY <1>2, <1>3 DEF Places
  <1> QED BY <1>2, <1>3, <1>4, EndIsNoPlace

(* Block and step within the lengths are a position.                        *)
LEMMA FirstOfBlock ==
  ASSUME NEW c, WellFormed(c), NEW b \in 1..Len(c.blocks), NEW i \in 1..Len(c.blocks[b].do)
  PROVE  <<b, i>> \in PositionsOf(c)
  <1>1. b \in DOMAIN c.blocks /\ i \in DOMAIN c.blocks[b].do
    BY DEF WellFormed
  <1> QED BY <1>1 DEF PositionsOf

(* NextFrom is the first position from start on that can be taken, or End.  *)
LEMMA NextFromIsLeast ==
  ASSUME WellFormed(code), NEW start, NEW inside, NEW r, NEW l, NEW o
  PROVE  LET q == NextFrom(start, inside, r, l, o) IN
         /\ q \in Positions \cup {End}
         /\ q \in Positions => Takes(q, inside, r, l, o) /\ ~Precedes(q, start)
         /\ \A x \in Positions :
              Takes(x, inside, r, l, o) /\ ~Precedes(x, start) => ~Precedes(x, q)
  <1> DEFINE ahead == {p \in Positions : ~Precedes(p, start) /\ Takes(p, inside, r, l, o)}
  <1>1. \A p \in Positions : p \in Places /\ p # End
    BY PositionsArePlaces DEF Positions
  <1>2. \E p \in ahead \cup {End} : \A q \in ahead : ~Precedes(q, p)
    <2>1. CASE ahead = {}
      BY <2>1
    <2>2. CASE ahead # {}
      BY <2>2, <1>1, LeastPlace
    <2> QED BY <2>1, <2>2
  <1> DEFINE q == CHOOSE p \in ahead \cup {End} : \A x \in ahead : ~Precedes(x, p)
  <1>3. q \in ahead \cup {End} /\ \A x \in ahead : ~Precedes(x, q)
    BY <1>2
  <1>4. NextFrom(start, inside, r, l, o) = q
    BY DEF NextFrom
  <1>5. End \notin Positions
    BY <1>1
  <1> HIDE DEF q
  <1> QED BY <1>3, <1>4, <1>5

(* Nothing lies between a position and the one after it.                    *)
LEMMA AfterIsNext ==
  ASSUME WellFormed(code), NEW p \in Positions, NEW x \in Positions
  PROVE  Precedes(x, After(p)) <=> ~Precedes(p, x)
  <1> DEFINE d == Len(BlockAt(p).do)
             n == Len(Blocks)
  <1>1. p \in Places /\ p # End /\ p[1] \in 1..n /\ p[2] \in 1..d
    BY PositionsArePlaces DEF Positions, BlockAt, BlockOf, Blocks
  <1>2. x \in Places /\ x # End /\ x[1] \in 1..n /\ x[2] \in 1..Len(BlockAt(x).do)
    BY PositionsArePlaces DEF Positions, BlockAt, BlockOf, Blocks
  <1>3. n \in Nat /\ d \in Nat
    BY <1>1 DEF WellFormed, BlockAt, BlockOf, Blocks
  <1>4. x[1] = p[1] => x[2] <= d
    BY <1>2, <1>3 DEF BlockAt, BlockOf
  <1>5. CASE p[2] < d
    <2>1. After(p) = <<p[1], p[2] + 1>>
      BY <1>5 DEF After
    <2> HIDE DEF d, n
    <2> QED BY <2>1, <1>1, <1>2, <1>3, <1>4, <1>5 DEF Precedes, Places, End
  <1>6. CASE p[2] >= d /\ p[1] < n
    <2>1. After(p) = <<p[1] + 1, 1>>
      BY <1>1, <1>3, <1>6 DEF After
    <2> HIDE DEF d, n
    <2> QED BY <2>1, <1>1, <1>2, <1>3, <1>4, <1>6 DEF Precedes, Places, End
  <1>7. CASE p[2] >= d /\ p[1] >= n
    <2>1. After(p) = End
      BY <1>1, <1>3, <1>7 DEF After
    <2> HIDE DEF d, n
    <2> QED BY <2>1, <1>1, <1>2, <1>3, <1>4, <1>7 DEF Precedes, Places, End
  <1> HIDE DEF d, n
  <1> QED BY <1>1, <1>3, <1>5, <1>6, <1>7

(* After the last step of a block comes the next block.                     *)
LEMMA RestIsNextBlock ==
  ASSUME WellFormed(code), NEW p \in Positions, NEW x \in Positions
  PROVE  Precedes(x, After(<<p[1], Len(BlockAt(p).do)>>)) <=> x[1] <= p[1]
  <1> DEFINE y == <<p[1], Len(BlockAt(p).do)>>
  <1>1. p[1] \in 1..Len(code.blocks)
    BY PositionsArePlaces DEF Positions
  <1>2. Len(code.blocks[p[1]].do) \in Nat \ {0}
    BY <1>1 DEF WellFormed
  <1>3. y \in Positions
    BY <1>1, <1>2, FirstOfBlock DEF Positions, BlockAt, BlockOf
  <1> HIDE DEF y
  <1>4. x \in Places /\ x # End /\ x[2] \in 1..Len(BlockAt(x).do) /\ y \in Places /\ y # End
    BY <1>3, PositionsArePlaces DEF Positions, BlockAt, BlockOf
  <1>5. y[1] = p[1] /\ (x[1] = p[1] => x[2] <= y[2])
    BY <1>4 DEF BlockAt, BlockOf, y
  <1>6. ~Precedes(y, x) <=> x[1] <= p[1]
    BY <1>4, <1>5 DEF Precedes, Places, End
  <1> HIDE DEF y
  <1> QED BY <1>3, <1>6, AfterIsNext DEF y

-----------------------------------------------------------------------------
(* What a step does to the control: it goes on, or an exception leaves the  *)
(* block. Nothing that could have been taken is skipped.                    *)

(* The adapter and the setting that the step at p is about.                 *)
RadioOf(p) == IF code.apart THEN row ELSE StepAt(p).on
SettingOf(p) == <<RadioOf(p), StepAt(p).arg>>

(* Control is where the guards let it be.                                   *)
ControlOK ==
    /\ code = Programs[prog]
    /\ row \in 1..code.rows
    /\ passed \in Nat
    /\ at \in Positions \cup {End}
    /\ exit \in {0, 1} => at = End
    /\ exit = 0 => raised = None /\ row = code.rows /\ ~failed /\ ~RowFailed
    /\ at \in Positions =>
         /\ raised = None \/ BlockAt(at).level > passed
         /\ Holds(StepAt(at), out)
         /\ \A k \in BlockAt(at).has : IsDropped(code, k) \/ k \in out
         /\ \A k \in BlockAt(at).lacks : IsSet(code, k) \/ k \notin out

(* What changes only at the end of a row.                                   *)
SameRun == UNCHANGED <<prog, code, row, failed, exit>>

(* Keys come and go only with the steps that set and remove them.           *)
KeysOf(o) ==
    /\ \A k \in o : k \in out \/ (Current.op \in Setters /\ k = Current.key)
    /\ \A k \in out : k \in o \/ (Current.op \in Droppers /\ k = Current.key)

(* The next step that can be taken is next.                                 *)
WentOn ==
    /\ Running /\ SameRun
    /\ UNCHANGED <<raised, passed, late>>
    /\ at' \in Positions \cup {End}
    /\ at' \in Positions => Precedes(at, at') /\ Takes(at', at[1], raised, passed, out')
    /\ \A x \in Positions :
         Precedes(at, x) /\ Precedes(x, at') => ~Takes(x, at[1], raised, passed, out')
    /\ KeysOf(out')

(* An exception is noted under the key of the block that catches it,        *)
Caught ==
    /\ BlockAt(at).catch # {}
    /\ out' = out \cup {BlockAt(at).key}
    /\ raised' = raised
    /\ passed' = passed

(* or passes over blocks up to the level that the block says.               *)
Escaped ==
    /\ out' = out
    /\ raised' # None
    /\ passed' = BlockAt(at).escapes

(* The next step that can be taken after the block is next.                 *)
Threw ==
    /\ Running /\ SameRun
    /\ Caught \/ Escaped
    /\ \/ late' = late /\ (Raises(code, at) \subseteq BlockAt(at).catch => Caught)
       \/ Escaped /\ late' = (late \/ BlockAt(at).escapes \in 1..2)
    /\ at' \in Positions \cup {End}
    /\ at' \in Positions => at'[1] > at[1] /\ Takes(at', at[1], raised', passed', out')
    /\ \A x \in Positions :
         x[1] > at[1] /\ Precedes(x, at') => ~Takes(x, at[1], raised', passed', out')

(* A program that runs is at a step.                                        *)
LEMMA RunningAtPosition ==
  ASSUME ControlOK, Running
  PROVE  at \in Positions /\ exit = NoExit
  BY DEF ControlOK, Running

(* A step that succeeds goes on.                                            *)
LEMMA ProceedGoesOn ==
  ASSUME ControlOK, WellFormed(code), Running, NEW o, KeysOf(o), Proceed(o)
  PROVE  WentOn
  <1> DEFINE q == NextFrom(After(at), at[1], raised, passed, o)
  <1>1. at \in Positions
    BY RunningAtPosition
  <1>2. /\ at' = q /\ out' = o /\ raised' = raised /\ passed' = passed /\ late' = late
        /\ UNCHANGED <<prog, code, row, failed, exit>>
    BY DEF Proceed, Continue
  <1>3. /\ q \in Positions \cup {End}
        /\ q \in Positions => Takes(q, at[1], raised, passed, o) /\ ~Precedes(q, After(at))
        /\ \A x \in Positions :
             Takes(x, at[1], raised, passed, o) /\ ~Precedes(x, After(at)) => ~Precedes(x, q)
    BY NextFromIsLeast
  <1> HIDE DEF q
  <1>4. \A x \in Positions : Precedes(x, After(at)) <=> ~Precedes(at, x)
    BY <1>1, AfterIsNext
  <1> QED BY <1>2, <1>3, <1>4 DEF WentOn, SameRun

(* An exception throws; only an interrupt of a cleanup makes it late.       *)
LEMMA RaiseThrows ==
  ASSUME ControlOK, WellFormed(code), Running, NEW e, Raise(e),
         \/ e \in Raises(code, at) /\ late' = late
         \/ e = "interrupt" /\ late' = (late \/ BlockAt(at).escapes \in 1..2)
  PROVE  Threw
  <1> DEFINE rest == After(<<at[1], Len(BlockAt(at).do)>>)
             q == NextFrom(rest, at[1], raised', passed', out')
  <1>1. at \in Positions
    BY RunningAtPosition
  <1>2. at[1] \in DOMAIN code.blocks /\ BlockAt(at) = code.blocks[at[1]]
    BY <1>1, PositionsArePlaces DEF Positions, WellFormed, BlockAt, BlockOf
  <1>3. BlockAt(at).catch \subseteq Exception
    BY <1>2 DEF WellFormed
  <1>4. Raises(code, at) \subseteq Exception
    BY <1>1 DEF WellFormed, Raises, Positions, Exception
  <1>5. e # None /\ (e = "interrupt" => e \notin BlockAt(at).catch)
    BY <1>3, <1>4 DEF Exception, None
  <1>6. at' = q /\ SameRun
    <2>1. CASE e \in BlockAt(at).catch
      BY <2>1 DEF Raise, Continue, SameRun
    <2>2. CASE e \notin BlockAt(at).catch
      BY <2>2 DEF Raise, Continue, SameRun
    <2> QED BY <2>1, <2>2
  <1>7. /\ e \in BlockAt(at).catch => Caught
        /\ e \notin BlockAt(at).catch => Escaped
    BY <1>5 DEF Raise, Continue, Caught, Escaped
  <1>8. /\ q \in Positions \cup {End}
        /\ q \in Positions => Takes(q, at[1], raised', passed', out') /\ ~Precedes(q, rest)
        /\ \A x \in Positions :
             Takes(x, at[1], raised', passed', out') /\ ~Precedes(x, rest) => ~Precedes(x, q)
    BY NextFromIsLeast
  <1>9. \A x \in Positions : Precedes(x, rest) <=> x[1] <= at[1]
    BY <1>1, RestIsNextBlock
  <1>10. \A x \in Positions : x[1] \in Nat /\ at[1] \in Nat
    BY <1>1, PositionsArePlaces DEF Positions, Places
  <1> HIDE DEF q, rest
  <1>11. \A x \in Positions : ~Precedes(x, rest) <=> x[1] > at[1]
    BY <1>9, <1>10
  <1> QED BY <1>5, <1>6, <1>7, <1>8, <1>11 DEF Threw

(* The steps by what they do to the adapters.                               *)
LooksOnly ==
    /\ UNCHANGED Adapter
    /\ \/ Threw /\ late' = (late \/ BlockAt(at).escapes \in 1..2)
       \/ /\ Current.op \in {"ask", "stillon", "mustbeoff", "mustbeon", "found", "mark",
                             "forget", "require", "transmit"}
          /\ Threw \/ (WentOn /\ (Current.op = "require" => Current.key \in out))
(* A start takes everything off the adapter, or fails with it unknown.      *)
Boots ==
    /\ Current.op = "boot"
    /\ used' = used \cup {Radio}
    /\ owed' = {s \in owed : s[1] # Radio}
    /\ \/ WentOn /\ on' = {s \in on : s[1] # Radio} /\ mine' = mine \cup {Radio}
       \/ Threw /\ on' \in {on, {s \in on : s[1] # Radio}} /\ mine' = mine \ {Radio}
    /\ silent' = IF BlockAt(at).level = 0 THEN silent ELSE silent \cup {Radio}
    /\ saved' = saved
(* A setting may be switched on, even if the step then fails.               *)
SwitchesOn ==
    /\ Current.op = "arm"
    /\ WentOn \/ Threw
    /\ on' \in {on, on \cup {Setting}}
    /\ owed' = owed \cup {Setting}
    /\ UNCHANGED <<used, mine, saved, silent>>
(* An undo may fail unseen.                                                 *)
SwitchesOff ==
    /\ Current.op = "undo"
    /\ WentOn \/ Threw
    /\ on' \in {on, on \ {Setting}}
    /\ owed' = owed \ {Setting}
    /\ UNCHANGED <<used, mine, saved, silent>>
(* A value is read, to be put back later.                                   *)
Saves ==
    /\ Current.op = "save"
    /\ \/ /\ WentOn
          /\ saved' = (saved \ {<<Setting, TRUE>>, <<Setting, FALSE>>})
                        \cup {<<Setting, Setting \in on>>}
       \/ Threw /\ saved' = saved
    /\ UNCHANGED <<used, mine, on, owed, silent>>
(* A saved value goes back or not; without one nothing does.                *)
PutsBack ==
    /\ Current.op = "restore"
    /\ \/ \E was \in BOOLEAN :
            /\ <<Setting, was>> \in saved
            /\ on' \in {on, IF was THEN on \cup {Setting} ELSE on \ {Setting}}
            /\ owed' = owed \ {Setting}
            /\ WentOn \/ Threw
       \/ /\ \A was \in BOOLEAN : <<Setting, was>> \notin saved
          /\ Threw
          /\ UNCHANGED <<on, owed>>
    /\ UNCHANGED <<used, mine, saved, silent>>
(* An adapter is asked whether it answers; its silence is no exception.     *)
AsksAlive ==
    /\ Current.op = "alive"
    /\ WentOn
    /\ \/ Current.key \in out' /\ silent' = silent \ {Radio}
       \/ Current.key \notin out' /\ silent' = silent
    /\ UNCHANGED <<used, mine, on, owed, saved>>

(* A step of a running program.                                             *)
Stepped == LooksOnly \/ Boots \/ SwitchesOn \/ SwitchesOff \/ Saves \/ PutsBack \/ AsksAlive

(* Every action but Refused and Ended is one of the seven kinds.            *)
LEMMA OneStep ==
  ASSUME ControlOK, WellFormed(code), Next
  PROVE  Refused \/ Ended \/ (Running /\ Stepped)
  <1>1. ASSUME Running, Proceed(out) PROVE WentOn
    BY <1>1, ProceedGoesOn DEF KeysOf
  <1>2. ASSUME Running, Fails PROVE Threw
    BY <1>2, RaiseThrows DEF Fails, Raises, Current, StepAt
  <1>3. ASSUME Running, Raise("other"), late' = late,
               Current.op \in {"restore", "mustbeoff", "mustbeon"}
        PROVE  Threw
    BY <1>3, RaiseThrows DEF Raises, Current, StepAt
  <1>4. ASSUME Running, Current.op \in Setters, Proceed(out \cup {Current.key}) PROVE WentOn
    <2>1. KeysOf(out \cup {Current.key})
      BY <1>4 DEF KeysOf
    <2> QED BY <1>4, <2>1, ProceedGoesOn
  <1>5. ASSUME Running, Current.op \in Droppers, Proceed(out \ {Current.key}) PROVE WentOn
    <2>1. KeysOf(out \ {Current.key})
      BY <1>5 DEF KeysOf
    <2> QED BY <1>5, <2>1, ProceedGoesOn
  <1>6. CASE Interrupted
    <2>1. Threw
      BY <1>6, RaiseThrows DEF Interrupted
    <2> QED BY <2>1, <1>6 DEF Interrupted, Stepped, LooksOnly
  <1>7. CASE Asked \/ Transmitted
    BY <1>7, <1>1, <1>2 DEF Asked, Transmitted, Is, Stepped, LooksOnly
  <1>8. CASE BroughtUp
    BY <1>8, <1>1, <1>2 DEF BroughtUp, Is, Stepped, Boots
  <1>9. CASE SwitchedOn
    BY <1>9, <1>1, <1>2 DEF SwitchedOn, Is, Stepped, SwitchesOn
  <1>10. CASE SwitchedOff
    BY <1>10, <1>1, <1>2 DEF SwitchedOff, Is, Stepped, SwitchesOff
  <1>11. CASE Saved
    BY <1>11, <1>1, <1>2 DEF Saved, Is, Stepped, Saves
  <1>12. CASE Restored
    <2>1. Running /\ Current.op = "restore"
      BY <1>12 DEF Restored, Is
    <2>2. CASE \A was \in BOOLEAN : <<Setting, was>> \notin saved
      BY <1>12, <2>1, <2>2, <1>3 DEF Restored, Stepped, PutsBack
    <2>3. CASE \E was \in BOOLEAN : <<Setting, was>> \in saved
      BY <1>12, <2>1, <2>3, <1>1, <1>2 DEF Restored, Stepped, PutsBack
    <2> QED BY <2>2, <2>3
  <1>13. CASE Looked
    <2>1. CASE Is("stillon")
      <3>1. Proceed(out \cup {Current.key}) \/ Proceed(out \ {Current.key})
        BY <1>13, <2>1 DEF Looked, Is
      <3> QED BY <1>13, <2>1, <3>1, <1>4, <1>5 DEF Looked, Is, Setters, Droppers, Stepped, LooksOnly
    <2>2. CASE ~Is("stillon")
      BY <1>13, <2>2, <1>1 DEF Looked, Is, Stepped, LooksOnly
    <2> QED BY <2>1, <2>2
  <1>14. CASE LookFailed
    BY <1>14, <1>2, <1>3 DEF LookFailed, Is, Stepped, LooksOnly
  <1>15. CASE Answered
    <2>1. Running /\ Current.op = "alive"
      BY <1>15 DEF Answered, Is
    <2>2. CASE Proceed(out \cup {Current.key}) /\ silent' = silent \ {Radio}
      <3>1. Current.key \in out'
        BY <2>2 DEF Proceed, Continue
      <3> QED BY <1>15, <2>1, <2>2, <3>1, <1>4 DEF Answered, Setters, Stepped, AsksAlive
    <2>3. CASE Proceed(out \ {Current.key}) /\ silent' = silent
      <3>1. Current.key \notin out'
        BY <2>3 DEF Proceed, Continue
      <3> QED BY <1>15, <2>1, <2>3, <3>1, <1>5 DEF Answered, Droppers, Stepped, AsksAlive
    <2> QED BY <1>15, <2>2, <2>3 DEF Answered
  <1>16. CASE Noted
    BY <1>16, <1>1, <1>4, <1>5 DEF Noted, Is, Setters, Droppers, Stepped, LooksOnly
  <1> QED BY <1>6, <1>7, <1>8, <1>9, <1>10, <1>11, <1>12, <1>13, <1>14, <1>15, <1>16
          DEF Next

(* A row starts at the first step that can be taken.                        *)
LEMMA StartsAt ==
  ASSUME WellFormed(code), NEW o
  PROVE  /\ Start(o) \in Positions \cup {End}
         /\ Start(o) \in Positions => Takes(Start(o), 0, None, 0, o)
         /\ \A x \in Positions : Precedes(x, Start(o)) => ~Takes(x, 0, None, 0, o)
  <1>1. \A x \in Positions : ~Precedes(x, <<1, 1>>)
    BY PositionsArePlaces DEF Positions, Places, Precedes, End
  <1>2. Start(o) = NextFrom(<<1, 1>>, 0, None, 0, o)
    BY DEF Start
  <1> DEFINE q == NextFrom(<<1, 1>>, 0, None, 0, o)
  <1>3. /\ q \in Positions \cup {End}
        /\ q \in Positions => Takes(q, 0, None, 0, o) /\ ~Precedes(q, <<1, 1>>)
        /\ \A x \in Positions :
             Takes(x, 0, None, 0, o) /\ ~Precedes(x, <<1, 1>>) => ~Precedes(x, q)
    BY NextFromIsLeast
  <1> HIDE DEF q
  <1> QED BY <1>1, <1>2, <1>3 DEF q

(* What lies before the start of a row has a guard that fails.              *)
LEMMA StartIsOK ==
  ASSUME WellFormed(code), NEW q, NEW o, q = Start(o)
  PROVE  /\ q \in Positions \cup {End}
         /\ q \in Positions =>
              /\ BlockAt(q).level \in Nat
              /\ Holds(StepAt(q), o)
              /\ \A k \in BlockAt(q).has : k \in o
              /\ \A k \in BlockAt(q).lacks : k \notin o
         /\ \A x \in Positions : Precedes(x, q) =>
              \/ \E k \in Wants(code, x) : k \notin o
              \/ \E k \in Bars(code, x) : k \in o
  <1>1. ASSUME NEW x \in Positions
        PROVE  /\ x[1] # 0 /\ x[1] \in DOMAIN code.blocks
               /\ BlockAt(x) = code.blocks[x[1]]
    BY PositionsArePlaces DEF Positions, Places, BlockAt, BlockOf, WellFormed
  <1>2. ASSUME q \in Positions
        PROVE  /\ BlockAt(q).level \in Nat
               /\ Holds(StepAt(q), o)
               /\ \A k \in BlockAt(q).has : k \in o
               /\ \A k \in BlockAt(q).lacks : k \notin o
    <2>1. Takes(q, 0, None, 0, o) /\ q[1] # 0
      BY <1>1, <1>2, StartsAt
    <2>2. BlockAt(q).level \in Nat
      BY <1>1, <1>2 DEF WellFormed
    <2> QED BY <2>1, <2>2 DEF Takes, Holds
  <1>3. ASSUME NEW x \in Positions, Precedes(x, q)
        PROVE  \/ \E k \in Wants(code, x) : k \notin o
               \/ \E k \in Bars(code, x) : k \in o
    <2>1. ~Takes(x, 0, None, 0, o) /\ x[1] # 0
      BY <1>1, <1>3, StartsAt
    <2> QED BY <2>1 DEF Takes, Holds, Wants, Bars, StepAt, BlockAt
  <1> QED BY <1>2, <1>3, StartsAt

(* Control is right at first.                                               *)
LEMMA ControlInit ==
  ASSUME Init, WellFormed(code)
  PROVE  ControlOK
  <1>1. at = Start(out) /\ at \in Positions \cup {End}
    BY StartIsOK DEF Init
  <1>2. row \in 1..code.rows
    <2>1. code.rows \in Nat \ {0}
      BY DEF WellFormed
    <2> QED BY <2>1 DEF Init
  <1>3. passed = 0 /\ raised = None /\ exit = NoExit /\ code = Programs[prog]
    BY DEF Init
  <1> QED BY <1>1, <1>2, <1>3, StartIsOK DEF ControlOK, NoExit

(* A step keeps control right.                                              *)
LEMMA ControlStep ==
  ASSUME ControlOK, WellFormed(code), Running, WentOn \/ Threw
  PROVE  ControlOK'
  <1>1. at \in Positions /\ exit = NoExit
    BY RunningAtPosition
  <1>2. UNCHANGED <<prog, code, row, failed, exit>> /\ at' \in Positions \cup {End}
    BY DEF WentOn, Threw, SameRun
  <1>3. passed' \in Nat
    <2>1. BlockAt(at).escapes \in Nat
      BY <1>1, PositionsArePlaces DEF Positions, BlockAt, BlockOf, WellFormed
    <2> QED BY <2>1 DEF WentOn, Threw, Caught, Escaped, ControlOK
  <1>4. ASSUME at' \in Positions
        PROVE  /\ raised' = None \/ BlockAt(at').level > passed'
               /\ Holds(StepAt(at'), out')
               /\ at'[1] # at[1] => Holds(BlockAt(at'), out')
               /\ at'[1] = at[1] => WentOn
    <2>1. Takes(at', at[1], raised', passed', out')
      BY <1>4 DEF WentOn, Threw
    <2>2. at'[1] = at[1] => WentOn
      <3>1. at'[1] \in Nat /\ at[1] \in Nat
        BY <1>1, <1>4, PositionsArePlaces DEF Positions, Places
      <3> QED BY <3>1, <1>4 DEF Threw
    <2> QED BY <2>1, <2>2 DEF Takes
  <1>5. ASSUME at' \in Positions
        PROVE  /\ \A k \in BlockAt(at').has : IsDropped(code, k) \/ k \in out'
               /\ \A k \in BlockAt(at').lacks : IsSet(code, k) \/ k \notin out'
    <2>1. CASE at'[1] # at[1]
      BY <1>4, <1>5, <2>1 DEF Holds
    <2>2. CASE at'[1] = at[1]
      <3>1. BlockAt(at') = BlockAt(at)
        BY <2>2 DEF BlockAt, BlockOf
      <3>2. KeysOf(out')
        BY <1>4, <1>5, <2>2 DEF WentOn
      <3>3. /\ \A k \in out' : k \in out \/ IsSet(code, k)
            /\ \A k \in out : k \in out' \/ IsDropped(code, k)
        BY <3>2, <1>1 DEF KeysOf, IsSet, IsDropped, Current, StepAt, Positions
      <3> QED BY <3>1, <3>3, <1>1 DEF ControlOK
    <2> QED BY <2>1, <2>2
  <1>6. code' = Programs[prog'] /\ row' \in 1..code'.rows
    BY <1>2 DEF ControlOK
  <1>7. exit' = NoExit
    BY <1>1, <1>2
  <1>8. /\ Positions' = Positions
        /\ \A p : BlockAt(p)' = BlockOf(code, p)
        /\ \A p : StepAt(p)' = StepOf(code, p)
    BY <1>2 DEF Positions, BlockAt, StepAt
  <1> QED BY <1>2, <1>3, <1>4, <1>5, <1>6, <1>7, <1>8 DEF ControlOK, NoExit, BlockAt, StepAt

(* The end of a row that is not the last one.                               *)
NewRow ==
    /\ Ended /\ raised = None /\ row < code.rows
    /\ row' = row + 1
    /\ failed' = (failed \/ RowFailed)
    /\ out' = out \cap code.flags
    /\ at' = Start(out')
    /\ mine' = {} /\ saved' = {}
    /\ exit' = exit

(* The end of the program.                                                  *)
TheEnd ==
    /\ Ended
    /\ exit' = IF raised = None /\ ~failed /\ ~RowFailed THEN 0 ELSE 1
    /\ exit' = 0 => row = code.rows
    /\ UNCHANGED <<row, at, failed, out, mine, saved>>

(* At the end of a row either another one starts or the program exits.      *)
LEMMA EndedCases ==
  ASSUME ControlOK, Ended
  PROVE  /\ NewRow \/ TheEnd
         /\ at = End /\ exit = NoExit
         /\ UNCHANGED <<prog, code, raised, passed, late, used, on, owed, silent>>
  BY DEF Ended, NewRow, TheEnd

(* Every action keeps control right.                                        *)
LEMMA ControlNext ==
  ASSUME ControlOK, WellFormed(code), Next
  PROVE  ControlOK'
  <1>1. CASE Refused
    BY <1>1 DEF Refused, ControlOK, Is, BlockAt, StepAt, Positions, RowFailed
  <1>2. CASE TheEnd
    <2>1. UNCHANGED <<prog, code, raised, passed, row, at, failed, out>>
      BY <1>2, EndedCases DEF TheEnd
    <2>2. at = End /\ (exit' = 0 => raised = None /\ row = code.rows /\ ~failed /\ ~RowFailed)
      BY <1>2, EndedCases DEF TheEnd
    <2>3. End \notin Positions
      BY PositionsArePlaces DEF Positions
    <2> QED BY <2>1, <2>2, <2>3 DEF ControlOK, BlockAt, StepAt, Positions, RowFailed
  <1>3. CASE NewRow
    <2>1. code' = code /\ prog' = prog /\ raised' = None /\ passed' = passed /\ exit' = NoExit
      BY <1>3, EndedCases DEF NewRow
    <2>2. row' \in 1..code.rows
      <3>1. code.rows \in Nat /\ row \in 1..code.rows /\ row' = row + 1 /\ row < code.rows
        BY <1>3 DEF NewRow, ControlOK, WellFormed
      <3> QED BY <3>1
    <2>3. at' = Start(out')
      BY <1>3 DEF NewRow
    <2>4. /\ at' \in Positions \cup {End}
          /\ at' \in Positions =>
               /\ Holds(StepAt(at'), out')
               /\ \A k \in BlockAt(at').has : k \in out'
               /\ \A k \in BlockAt(at').lacks : k \notin out'
      BY <2>3, StartIsOK
    <2> QED BY <2>1, <2>2, <2>4 DEF ControlOK, BlockAt, StepAt, Positions, NoExit
  <1>4. CASE Running /\ Stepped
    <2>1. WentOn \/ Threw
      BY <1>4 DEF Stepped, LooksOnly, Boots, SwitchesOn, SwitchesOff, Saves, PutsBack, AsksAlive
    <2> QED BY <1>4, <2>1, ControlStep
  <1> QED BY <1>1, <1>2, <1>3, <1>4, OneStep, EndedCases

-----------------------------------------------------------------------------
(* What has been passed in its turn.                                        *)

(* The guards of p are flags, and hold.                                     *)
Known(p) ==
    /\ \A k \in Wants(code, p) : Fixed(code, k) /\ k \in out
    /\ \A k \in Bars(code, p) : Fixed(code, k) /\ k \notin out

(* No exception in the block of m was caught since.                         *)
Unhurt(m) == m[1] = at[1] \/ BlockAt(m).catch = {} \/ BlockAt(m).key \notin out

(* The step at m has been taken in its turn, as its flags let it.           *)
Left(m) == Precedes(m, at) /\ Known(m) /\ Unhurt(m)
(* No exception propagates.                                                 *)
InTurn == at \in Positions /\ raised = None

(* What is not dropped stays, what is new is set or caught.                 *)
LEMMA KeysChange ==
  ASSUME ControlOK, WellFormed(code), Running, WentOn \/ Threw
  PROVE  /\ \A k : k \in out /\ ~IsDropped(code, k) => k \in out'
         /\ \A k : k \in out' /\ k \notin out => IsSet(code, k) \/ IsCaught(code, k)
         /\ \A k : Fixed(code, k) => (k \in out' <=> k \in out)
  <1>1. at \in Positions
    BY RunningAtPosition
  <1>2. at[1] \in DOMAIN code.blocks
    BY <1>1, PositionsArePlaces DEF Positions, WellFormed
  <1>3. CASE WentOn
    BY <1>1, <1>3 DEF WentOn, KeysOf, IsSet, IsDropped, Fixed, Current, StepAt, Positions
  <1>4. CASE Threw
    BY <1>2, <1>4 DEF Threw, Caught, Escaped, IsCaught, Fixed, BlockAt, BlockOf
  <1> QED BY <1>3, <1>4

(* If no exception of x's block has been caught, none had been before.      *)
LEMMA UnhurtBefore ==
  ASSUME ControlOK, WellFormed(code), Running, WentOn \/ Threw, InTurn',
         NEW x \in Positions, Unhurt(x)'
  PROVE  /\ Precedes(x, at) => Unhurt(x)
         /\ x[1] = at[1] => ~Threw
  <1>1. /\ at \in Positions /\ at' \in Positions /\ raised' = None /\ code' = code
        /\ at'[1] \in Nat /\ at[1] \in Nat /\ x[1] \in Nat /\ x[1] \in DOMAIN code.blocks
        /\ x # End
    BY RunningAtPosition, PositionsArePlaces
       DEF InTurn, WentOn, Threw, SameRun, Positions, Places, WellFormed
  <1>2. at'[1] >= at[1] /\ (Threw => at'[1] > at[1])
    <2>1. WentOn => Precedes(at, at')
      BY <1>1 DEF WentOn
    <2>2. at' # End
      BY <1>1, PositionsArePlaces DEF Positions
    <2> QED BY <1>1, <2>1, <2>2 DEF Threw, Precedes
  <1>3. x[1] = at'[1] \/ BlockAt(x).catch = {} \/ BlockAt(x).key \notin out'
    BY <1>1 DEF Unhurt, BlockAt
  <1>4. BlockAt(x).catch # {} /\ BlockAt(x).key \in out => BlockAt(x).key \in out'
    BY <1>1, KeysChange DEF WellFormed, BlockAt, BlockOf
  <1>5. Precedes(x, at) => x[1] <= at[1]
    <2>1. at # End
      BY <1>1, PositionsArePlaces DEF Positions
    <2> QED BY <1>1, <2>1 DEF Precedes
  <1>6. ASSUME Threw, x[1] = at[1] PROVE FALSE
    <2>1. Caught
      BY <1>1, <1>6 DEF Threw, Escaped
    <2> QED BY <1>1, <1>2, <1>3, <1>6, <2>1 DEF Caught, BlockAt, BlockOf
  <1> QED BY <1>1, <1>2, <1>3, <1>4, <1>5, <1>6 DEF Unhurt

(* Nothing is skipped that could have been taken.                           *)
LEMMA LeftBefore ==
  ASSUME ControlOK, WellFormed(code), Running, WentOn \/ Threw, InTurn',
         NEW m \in Positions, Left(m)'
  PROVE  /\ Left(m) \/ (m = at /\ ~Threw)
         /\ InTurn
  <1>1. /\ at \in Positions /\ at' \in Positions /\ raised' = None /\ raised = None
        /\ code' = code /\ InTurn
    BY RunningAtPosition DEF InTurn, WentOn, Threw, SameRun, Caught, Escaped, Positions
  <1>2. m \in Places /\ at \in Places /\ at' \in Places /\ m # End /\ at # End /\ at' # End
    BY <1>1, PositionsArePlaces DEF Positions
  <1>3. Precedes(m, at') /\ Unhurt(m)'
    BY DEF Left
  <1>4. Known(m)
    BY <1>1, KeysChange DEF Left, Known
  <1>5. Holds(BlockAt(m), out') /\ Holds(StepAt(m), out')
    BY <1>1 DEF Left, Known, Holds, Wants, Bars, BlockAt, StepAt
  <1>6. Precedes(m, at) => Left(m)
    BY <1>3, <1>4, UnhurtBefore DEF Left
  <1>7. m[1] = at[1] => ~Threw
    BY <1>3, UnhurtBefore
  <1>8. ASSUME Precedes(at, m) PROVE FALSE
    <2>1. CASE Threw
      <3>1. m[1] > at[1]
        BY <1>2, <1>7, <1>8, <2>1 DEF Precedes, Places
      <3>2. ~Takes(m, at[1], raised', passed', out')
        BY <1>3, <2>1, <3>1 DEF Threw
      <3> QED BY <1>1, <1>5, <3>2 DEF Takes
    <2>2. CASE WentOn
      <3>1. ~Takes(m, at[1], raised, passed, out')
        BY <1>3, <1>8, <2>2 DEF WentOn
      <3> QED BY <1>1, <1>5, <3>1 DEF Takes
    <2> QED BY <2>1, <2>2
  <1>9. Precedes(m, at) \/ m = at
    BY <1>2, <1>8, OrderOfPlaces
  <1> QED BY <1>1, <1>6, <1>7, <1>9

(* At the start of a row nothing has been passed.                           *)
LEMMA NothingLeftAtStart ==
  ASSUME WellFormed(code), code' = code, at' = Start(out'), NEW m \in Positions
  PROVE  ~Left(m)'
  <1>1. Precedes(m, at') =>
              \/ \E k \in Wants(code, m) : k \notin out'
              \/ \E k \in Bars(code, m) : k \in out'
    BY StartIsOK
  <1> QED BY <1>1 DEF Left, Known

(* Nor at the start of a run.                                               *)
LEMMA NothingLeftInitially ==
  ASSUME WellFormed(code), at = Start(out), NEW m \in Positions
  PROVE  ~Left(m)
  BY StartIsOK DEF Left, Known

(* A require that was passed held, and a save that was passed has saved.    *)
PassedOK == InTurn => \A m \in Positions : Left(m) =>
    /\ StepAt(m).op = "require" /\ ~IsDropped(code, StepAt(m).key) => StepAt(m).key \in out
    /\ StepAt(m).op = "save" => \E was \in BOOLEAN : <<SettingOf(m), was>> \in saved

(* The program does not overlook the setting.                               *)
Watched(s) == s[2] \notin code.overlooks

(* The adapter of a boot that has been passed runs its firmware, and what   *)
(* is on there has been switched on since, or is of the settings that the   *)
(* program overlooks and may have put back on.                              *)
StartedOK == InTurn => \A m \in Positions :
    /\ StepAt(m).op = "boot" /\ Left(m)
    /\ \A x \in Positions :
         /\ StepAt(x).op = "boot" /\ SameRadio(code, x, m)
         /\ Precedes(m, x) /\ Precedes(x, at)
         => Unhurt(x)
    => /\ RadioOf(m) \in mine
       /\ \A s \in on : s[1] = RadioOf(m) /\ Watched(s) =>
            \E x \in Positions : /\ StepAt(x).op = "arm" /\ SettingOf(x) = s
                                 /\ Precedes(m, x) /\ Precedes(x, at)

(* What was saved was off, unless the program overlooks the setting.        *)
SavedOK == \A e \in saved : Watched(e[1]) => e[2] = FALSE

(* What is put back and not overlooked was off.                             *)
LEMMA PutBackIsOff ==
  ASSUME SavedOK, PutsBack, NEW s \in on', Watched(s)
  PROVE  s \in on
  <1>1. CASE UNCHANGED on
    BY <1>1
  <1>2. CASE ~UNCHANGED on
    <2>1. PICK was \in BOOLEAN :
             /\ <<Setting, was>> \in saved
             /\ on' \in {on, IF was THEN on \cup {Setting} ELSE on \ {Setting}}
      BY <1>2 DEF PutsBack
    <2>2. Watched(Setting) => was = FALSE
      BY <2>1 DEF SavedOK
    <2>3. CASE s = Setting
      BY <2>1, <2>2, <2>3
    <2>4. CASE s # Setting
      BY <2>1, <2>4
    <2> QED BY <2>3, <2>4
  <1> QED BY <1>1, <1>2

(* A block of level 0 runs only while no exception propagates.              *)
LEMMA InTurnAtLevel0 ==
  ASSUME ControlOK, at \in Positions, BlockAt(at).level = 0
  PROVE  InTurn
  BY DEF ControlOK, InTurn

(* Whoever is at p was not thrown over what Holdup names.                   *)
LEMMA HoldupIsUnhurt ==
  ASSUME ControlOK, at \in Positions, NEW m \in Positions, Holdup(code, m, at)
  PROVE  Unhurt(m)
  BY DEF Holdup, Unhurt, ControlOK, BlockAt

(* What leads to the step at hand has been passed.                          *)
LEMMA LeadsIsLeft ==
  ASSUME ControlOK, at \in Positions, NEW m \in Positions, Leads(code, m, at)
  PROVE  Left(m)
  <1>1. Unhurt(m) /\ Precedes(m, at)
    BY HoldupIsUnhurt DEF Leads
  <1>2. \A k \in Wants(code, at) : Fixed(code, k) => k \in out
    BY DEF ControlOK, Wants, Fixed, Holds, BlockAt, StepAt
  <1>3. \A k \in Bars(code, at) : Fixed(code, k) => k \notin out
    BY DEF ControlOK, Bars, Fixed, Holds, BlockAt, StepAt
  <1>4. Known(m)
    BY <1>2, <1>3 DEF Leads, Known
  <1> QED BY <1>1, <1>4 DEF Left

(* What is given at the step at hand holds.                                 *)
LEMMA GivenHolds ==
  ASSUME ControlOK, InTurn, PassedOK, NEW k, Given(code, at, k)
  PROVE  k \in out
  <1>1. CASE k \in Wants(code, at)
    BY <1>1 DEF Given, InTurn, ControlOK, Wants, Holds, BlockAt, StepAt
  <1>2. CASE k \notin Wants(code, at)
    <2>1. PICK m \in Positions : StepAt(m).op = "require" /\ StepAt(m).key = k /\ Leads(code, m, at)
      BY <1>2 DEF Given, StepAt, Positions
    <2>2. Left(m)
      BY <2>1, LeadsIsLeft DEF InTurn
    <2> QED BY <2>1, <2>2 DEF PassedOK, Given
  <1> QED BY <1>1, <1>2

(* The adapter of a step with a start before it runs its firmware.          *)
LEMMA StartedBefore ==
  ASSUME ControlOK, InTurn, StartedOK, NEW m \in Positions, Starts(code, m, at)
  PROVE  /\ RadioOf(m) = RadioOf(at) /\ RadioOf(at) \in mine
         /\ \A s \in on : s[1] = RadioOf(at) /\ Watched(s) =>
              \E x \in Positions : /\ StepAt(x).op = "arm" /\ SettingOf(x) = s
                                   /\ Precedes(m, x) /\ Precedes(x, at)
  <1>1. StepAt(m).op = "boot" /\ Left(m)
    BY LeadsIsLeft DEF Starts, InTurn, StepAt
  <1>2. RadioOf(m) = RadioOf(at)
    BY DEF Starts, SameRadio, RadioOf, StepAt
  <1>3. \A x \in Positions :
         /\ StepAt(x).op = "boot" /\ SameRadio(code, x, m)
         /\ Precedes(m, x) /\ Precedes(x, at)
         => Unhurt(x)
    BY HoldupIsUnhurt DEF Starts, InTurn, StepAt, Positions
  <1> QED BY <1>1, <1>2, <1>3 DEF StartedOK

(* The rule about starts and flags guards every change and frame.           *)
LEMMA GuardedFromStarts ==
  ASSUME ControlOK, WellFormed(code), GuardsFirst(code), PassedOK, StartedOK
  PROVE  Guarded
  <1> SUFFICES ASSUME Running, Current.op \in {"arm", "transmit"}
               PROVE  /\ Radio \in mine
                      /\ code.asks \subseteq out
                      /\ Current.op = "transmit" => "transmit" \in out
    BY DEF Guarded
  <1>1. at \in Positions
    BY RunningAtPosition
  <1>2. /\ BlockOf(code, at).level = 0
        /\ \E m \in PositionsOf(code) : Starts(code, m, at)
        /\ \A k \in code.asks : Given(code, at, k)
        /\ StepOf(code, at).op = "transmit" => Given(code, at, "transmit")
    BY <1>1 DEF GuardsFirst, Positions, Current, StepAt
  <1>3. InTurn
    BY <1>1, <1>2, InTurnAtLevel0 DEF BlockAt
  <1>4. PICK m \in Positions : Starts(code, m, at)
    BY <1>2 DEF Positions
  <1>5. Radio = RadioOf(at)
    BY DEF Radio, RadioOf, Current
  <1> QED BY <1>2, <1>3, <1>4, <1>5, StartedBefore, GivenHolds DEF Current, StepAt

(* A step changes neither the text nor what it means.                       *)
LEMMA SameText ==
  ASSUME SameRun, NEW m
  PROVE  /\ Positions' = Positions /\ StepAt(m)' = StepAt(m) /\ BlockAt(m)' = BlockAt(m)
         /\ RadioOf(m)' = RadioOf(m) /\ SettingOf(m)' = SettingOf(m)
  BY DEF SameRun, Positions, StepAt, BlockAt, RadioOf, SettingOf

(* Each kind of step goes on or throws.                                     *)
LEMMA SteppedMoves ==
  ASSUME Running, Stepped
  PROVE  (WentOn \/ Threw) /\ SameRun
  BY DEF Stepped, LooksOnly, Boots, SwitchesOn, SwitchesOff, Saves, PutsBack, AsksAlive,
         WentOn, Threw

(* The current step, adapter and setting are those of at.                   *)
LEMMA CurrentIsAt ==
  ASSUME TRUE
  PROVE  Current = StepAt(at) /\ Radio = RadioOf(at) /\ Setting = SettingOf(at)
  BY DEF Current, Radio, RadioOf, Setting, SettingOf

(* Pairs with different first components differ.                            *)
LEMMA PairsDiffer ==
  ASSUME NEW s, NEW t, NEW a, NEW b, s # t
  PROVE  <<s, a>> # <<t, b>>
  OBVIOUS

(* A save replaces what was saved of its setting, and nothing else.         *)
LEMMA SavesReplaces ==
  ASSUME Saves
  PROVE  \/ Threw /\ saved' = saved
         \/ /\ WentOn
            /\ \E b \in BOOLEAN :
                 /\ b = (Setting \in on)
                 /\ <<Setting, b>> \in saved'
                 /\ \A e \in saved' : e \in saved \/ e = <<Setting, b>>
                 /\ \A s, c : s # Setting /\ <<s, c>> \in saved => <<s, c>> \in saved'
  <1> DEFINE b == Setting \in on
  <1>1. b \in BOOLEAN
    OBVIOUS
  <1>2. b = (Setting \in on)
    OBVIOUS
  <1>3. ASSUME saved' = (saved \ {<<Setting, TRUE>>, <<Setting, FALSE>>}) \cup {<<Setting, b>>}
        PROVE  /\ <<Setting, b>> \in saved'
               /\ \A e \in saved' : e \in saved \/ e = <<Setting, b>>
               /\ \A s, c : s # Setting /\ <<s, c>> \in saved => <<s, c>> \in saved'
    <2> HIDE DEF b
    <2>1. ASSUME NEW s, NEW c, s # Setting, <<s, c>> \in saved
          PROVE  <<s, c>> \in saved'
      <3>1. <<s, c>> # <<Setting, TRUE>> /\ <<s, c>> # <<Setting, FALSE>>
        BY <2>1, PairsDiffer
      <3> QED BY <1>3, <2>1, <3>1, Zenon
    <2>2. <<Setting, b>> \in saved'
      BY <1>3, Zenon
    <2>3. ASSUME NEW e \in saved' PROVE e \in saved \/ e = <<Setting, b>>
      BY <1>3, Zenon
    <2> QED BY <2>1, <2>2, <2>3, Zenon
  <1>4. \/ WentOn /\ saved' = (saved \ {<<Setting, TRUE>>, <<Setting, FALSE>>})
                               \cup {<<Setting, b>>}
        \/ Threw /\ saved' = saved
    BY Zenon DEF Saves
  <1> HIDE DEF b
  <1> QED BY <1>1, <1>2, <1>3, <1>4, Zenon

(* What has been saved stays saved, if perhaps with another value.          *)
LEMMA SavedChange ==
  ASSUME Running, Stepped, NEW s, NEW was \in BOOLEAN, <<s, was>> \in saved
  PROVE  \E now \in BOOLEAN : <<s, now>> \in saved'
  <1>1. CASE saved' = saved
    BY <1>1
  <1>2. CASE Saves /\ saved' # saved
    <2>1. PICK b \in BOOLEAN :
                 /\ <<Setting, b>> \in saved'
                 /\ \A t, c : t # Setting /\ <<t, c>> \in saved => <<t, c>> \in saved'
      BY <1>2, SavesReplaces
    <2>2. CASE s = Setting
      BY <2>1, <2>2
    <2>3. CASE s # Setting
      BY <2>1, <2>3
    <2> QED BY <2>2, <2>3
  <1> QED BY <1>1, <1>2 DEF Stepped, LooksOnly, Boots, SwitchesOn, SwitchesOff, PutsBack,
                            AsksAlive, Adapter

(* A step keeps what has been passed.                                       *)
LEMMA PassedStep ==
  ASSUME ControlOK, WellFormed(code), PassedOK, Running, Stepped
  PROVE  PassedOK'
  <1>1. (WentOn \/ Threw) /\ SameRun
    BY SteppedMoves
  <1>2. Positions' = Positions
    BY <1>1, SameText
  <1> SUFFICES ASSUME InTurn', NEW m \in Positions, Left(m)'
               PROVE  /\ StepAt(m).op = "require" /\ ~IsDropped(code, StepAt(m).key)
                         => StepAt(m).key \in out'
                      /\ StepAt(m).op = "save" =>
                           \E was \in BOOLEAN : <<SettingOf(m), was>> \in saved'
    BY <1>1, <1>2, SameText DEF PassedOK, SameRun
  <1>3. InTurn /\ (Left(m) \/ (m = at /\ ~Threw))
    BY <1>1, LeftBefore
  <1>4. ASSUME StepAt(m).op = "require", ~IsDropped(code, StepAt(m).key)
        PROVE  StepAt(m).key \in out'
    <2>1. CASE Left(m)
      BY <1>1, <1>3, <1>4, <2>1, KeysChange DEF PassedOK
    <2>2. CASE m = at /\ ~Threw
      <3>1. Current.key \in out
        BY <1>4, <2>2, CurrentIsAt DEF Stepped, LooksOnly, Boots, SwitchesOn, SwitchesOff,
           Saves, PutsBack, AsksAlive
      <3> QED BY <1>1, <1>4, <2>2, <3>1, CurrentIsAt, KeysChange
    <2> QED BY <1>3, <2>1, <2>2
  <1>5. ASSUME StepAt(m).op = "save"
        PROVE  \E was \in BOOLEAN : <<SettingOf(m), was>> \in saved'
    <2>1. CASE Left(m)
      BY <1>3, <1>5, <2>1, SavedChange DEF PassedOK
    <2>2. CASE m = at /\ ~Threw
      <3>1. Saves
        BY <1>5, <2>2, CurrentIsAt DEF Stepped, LooksOnly, Boots, SwitchesOn, SwitchesOff,
           PutsBack, AsksAlive
      <3>2. \E b \in BOOLEAN : <<Setting, b>> \in saved'
        BY <2>2, <3>1, SavesReplaces
      <3> QED BY <2>2, <3>2, CurrentIsAt
    <2> QED BY <1>3, <2>1, <2>2
  <1> QED BY <1>4, <1>5

(* A step leaves alone what it is not about.                                *)
LEMMA StartedStep ==
  ASSUME ControlOK, WellFormed(code), StartedOK, SavedOK, Running, Stepped
  PROVE  StartedOK'
  <1>1. (WentOn \/ Threw) /\ SameRun
    BY SteppedMoves
  <1>2. Positions' = Positions /\ code' = code
    BY <1>1, SameText DEF SameRun
  <1> SUFFICES ASSUME InTurn', NEW m \in Positions, StepAt(m).op = "boot", Left(m)',
                      \A x \in Positions :
                         /\ StepAt(x).op = "boot" /\ SameRadio(code, x, m)
                         /\ Precedes(m, x) /\ Precedes(x, at')
                         => Unhurt(x)'
               PROVE  /\ RadioOf(m) \in mine'
                      /\ \A s \in on' : s[1] = RadioOf(m) /\ Watched(s) =>
                           \E x \in Positions : /\ StepAt(x).op = "arm" /\ SettingOf(x) = s
                                                /\ Precedes(m, x) /\ Precedes(x, at')
    BY <1>1, <1>2, SameText DEF StartedOK, Watched
  <1>3. InTurn /\ (Left(m) \/ (m = at /\ ~Threw))
    BY <1>1, LeftBefore
  <1>4. at \in Positions /\ at' \in Positions /\ Precedes(at, at')
    <2>1. at \in Positions /\ at' \in Positions
      BY <1>2, <1>3 DEF InTurn
    <2>2. at # End /\ at \in Places /\ at' \in Places
      BY <2>1, PositionsArePlaces DEF Positions
    <2> QED BY <1>1, <2>1, <2>2 DEF WentOn, Threw, Precedes
  <1>5. \A x \in Positions : Precedes(x, at) => Precedes(x, at')
    BY <1>4, PositionsArePlaces, OrderOfPlaces DEF Positions
  <1>6. \A x \in Positions :
         /\ StepAt(x).op = "boot" /\ SameRadio(code, x, m)
         /\ Precedes(m, x) /\ Precedes(x, at)
         => Unhurt(x)
    BY <1>1, <1>5, UnhurtBefore
  <1>7. CASE Boots /\ Radio = RadioOf(m)
    <2>1. ~Threw
      <3>1. CASE m = at
        BY <1>3, <3>1, PositionsArePlaces, OrderOfPlaces DEF Left, Positions
      <3>2. CASE m # at
        <4>1. Precedes(m, at) /\ StepAt(at).op = "boot" /\ SameRadio(code, at, m)
          BY <1>3, <1>7, <3>2, CurrentIsAt DEF Left, Boots, SameRadio, RadioOf, StepAt
        <4> QED BY <1>1, <1>4, <4>1, UnhurtBefore
      <3> QED BY <3>1, <3>2
    <2> QED BY <1>7, <2>1 DEF Boots
  <1>8. CASE ~(Boots /\ Radio = RadioOf(m))
    <2>1. Left(m)
      <3>1. ASSUME m = at, ~Threw PROVE FALSE
        BY <1>8, <3>1, CurrentIsAt DEF Stepped, LooksOnly, SwitchesOn, SwitchesOff,
           Saves, PutsBack, AsksAlive
      <3> QED BY <1>3, <3>1
    <2>2. /\ RadioOf(m) \in mine
          /\ \A s \in on : s[1] = RadioOf(m) /\ Watched(s) =>
               \E x \in Positions : /\ StepAt(x).op = "arm" /\ SettingOf(x) = s
                                    /\ Precedes(m, x) /\ Precedes(x, at)
      BY <1>3, <1>6, <2>1 DEF StartedOK
    <2>3. RadioOf(m) \in mine'
      BY <1>8, <2>2 DEF Stepped, LooksOnly, Boots, SwitchesOn, SwitchesOff, Saves, PutsBack,
         AsksAlive, Adapter
    <2>4. ASSUME NEW s \in on', Watched(s) PROVE s \in on \/ (SwitchesOn /\ s = Setting)
      <3>1. CASE SwitchesOn
        BY <2>4, <3>1 DEF SwitchesOn
      <3>2. CASE PutsBack
        BY <2>4, <3>2, PutBackIsOff
      <3>3. CASE LooksOnly \/ Boots \/ SwitchesOff \/ Saves \/ AsksAlive
        BY <2>4, <3>3 DEF LooksOnly, Boots, SwitchesOff, Saves, AsksAlive, Adapter
      <3> QED BY <3>1, <3>2, <3>3 DEF Stepped
    <2>5. ASSUME NEW s \in on', s[1] = RadioOf(m), Watched(s)
          PROVE  \E x \in Positions : /\ StepAt(x).op = "arm" /\ SettingOf(x) = s
                                      /\ Precedes(m, x) /\ Precedes(x, at')
      <3>1. CASE s \in on
        BY <1>5, <2>2, <2>5, <3>1
      <3>2. CASE SwitchesOn /\ s = Setting
        BY <1>4, <2>1, <3>2, CurrentIsAt DEF SwitchesOn, Left
      <3> QED BY <2>4, <2>5, <3>1, <3>2
    <2> QED BY <2>3, <2>5
  <1> QED BY <1>7, <1>8

(* A step saves only what is off.                                           *)
LEMMA SavedStep ==
  ASSUME ControlOK, WellFormed(code), SavesFirst(code), StartedOK, SavedOK, Running, Stepped
  PROVE  SavedOK'
  <1> SUFFICES ASSUME NEW e \in saved', Watched(e[1])
               PROVE  e[2] = FALSE
    <2>1. code' = code
      BY SteppedMoves DEF SameRun
    <2> QED BY <2>1 DEF SavedOK, Watched
  <1>1. CASE e \in saved
    BY <1>1 DEF SavedOK
  <1>2. CASE e \notin saved
    <2>1. Saves
      BY <1>2 DEF Stepped, LooksOnly, Boots, SwitchesOn, SwitchesOff, PutsBack, AsksAlive, Adapter
    <2>2. PICK b \in BOOLEAN : b = (Setting \in on) /\ e = <<Setting, b>>
      BY <1>2, <2>1, SavesReplaces
    <2>3. Setting[2] \notin code.overlooks
      BY <2>2 DEF Watched
    <2>4. at \in Positions /\ StepAt(at).op = "save" /\ StepAt(at).arg \notin code.overlooks
      BY <2>1, <2>3, RunningAtPosition, CurrentIsAt DEF Saves, Setting
    <2>5. PICK m \in Positions :
             /\ BlockAt(at).level = 0 /\ Starts(code, m, at)
             /\ \A x \in Positions :
                  StepAt(x).op = "arm" /\ SameSetting(code, x, at) =>
                      ~(Precedes(m, x) /\ Precedes(x, at))
      BY <2>4 DEF SavesFirst, Positions, StepAt, BlockAt
    <2>6. InTurn
      BY <2>4, <2>5, InTurnAtLevel0
    <2>7. ASSUME NEW x \in Positions, SettingOf(x) = Setting
          PROVE  SameSetting(code, x, at)
      BY <2>7, CurrentIsAt DEF SettingOf, RadioOf, SameSetting, SameRadio, StepAt
    <2>8. ASSUME Setting \in on PROVE FALSE
      <3>1. Setting[1] = RadioOf(at) /\ Watched(Setting)
        BY <2>3, CurrentIsAt DEF SettingOf, Watched
      <3>2. PICK x \in Positions : /\ StepAt(x).op = "arm" /\ SettingOf(x) = Setting
                                   /\ Precedes(m, x) /\ Precedes(x, at)
        BY <2>5, <2>6, <2>8, <3>1, StartedBefore
      <3> QED BY <2>5, <2>7, <3>2
    <2> QED BY <2>2, <2>8
  <1> QED BY <1>1, <1>2

-----------------------------------------------------------------------------
(* What is owed will be undone.                                             *)

(* The guards of q hold, and will hold when its turn comes.                 *)
Steady(q) ==
    /\ \A k \in Wants(code, q) : ~IsDropped(code, k) /\ k \in out
    /\ \A k \in Bars(code, q) : Fixed(code, k) /\ k \notin out

(* q is at hand or yet to come.                                             *)
Ahead(q) == q = at \/ Precedes(at, q)

(* q tries to undo s.                                                       *)
Cleans(q, s) ==
    \/ StepAt(q).op = "boot" /\ RadioOf(q) = s[1]
    \/ StepAt(q).op = "undo" /\ SettingOf(q) = s
    \/ /\ StepAt(q).op = "restore" /\ SettingOf(q) = s
       /\ \E was \in BOOLEAN : <<s, was>> \in saved

(* No exception, wherever it is thrown from here on, passes over q.         *)
Reached(q) ==
    /\ Ahead(q) /\ Steady(q) /\ q[2] = 1
    /\ raised = None \/ BlockAt(q).level > passed
    /\ BlockAt(q).escapes \in 1..2
    /\ \A b \in at[1]..(q[1] - 1) : Lets(code, b, BlockAt(q).level)

(* A cleanup that will be reached tries to undo s.                          *)
Promised(s) == at \in Positions /\ \E q \in Positions : Cleans(q, s) /\ Reached(q)

(* What this run switched on is left on by design, or promised.             *)
OwedOK == \A s \in owed : s[2] \in code.leaves \/ late \/ Promised(s)

(* Steady guards stay so.                                                   *)
LEMMA SteadyStays ==
  ASSUME ControlOK, WellFormed(code), Running, WentOn \/ Threw, NEW q \in Positions, Steady(q)
  PROVE  Steady(q)' /\ Holds(BlockAt(q), out') /\ Holds(StepAt(q), out')
  <1>1. code' = code
    BY DEF WentOn, Threw, SameRun
  <1>2. /\ \A k \in Wants(code, q) : ~IsDropped(code, k) /\ k \in out'
        /\ \A k \in Bars(code, q) : Fixed(code, k) /\ k \notin out'
    BY KeysChange DEF Steady
  <1> QED BY <1>1, <1>2 DEF Steady, Holds, Wants, Bars, StepAt, BlockAt

(* A step that can be taken is not passed over.                             *)
LEMMA NotPassedOver ==
  ASSUME ControlOK, WellFormed(code), Running, WentOn \/ Threw, NEW q \in Positions,
         Precedes(at, q), Threw => q[1] > at[1],
         Takes(q, at[1], raised', passed', out')
  PROVE  at' \in Positions /\ Ahead(q)'
  <1>1. ~Precedes(q, at')
    BY DEF WentOn, Threw
  <1>2. at' \in Positions \cup {End} /\ code' = code
    BY DEF WentOn, Threw, SameRun
  <1>3. q \in Places /\ q # End /\ (at' \in Positions => at' \in Places)
    BY PositionsArePlaces DEF Positions
  <1>4. at' # End
    BY <1>1, <1>3 DEF Precedes
  <1> QED BY <1>1, <1>2, <1>3, <1>4, OrderOfPlaces DEF Ahead

(* A cleanup that will be reached comes nearer.                             *)
LEMMA ReachedStep ==
  ASSUME ControlOK, WellFormed(code), Running, WentOn \/ Threw, NEW q \in Positions,
         Reached(q), q # at, ~late'
  PROVE  at' \in Positions /\ Reached(q)'
  <1>1. /\ at \in Positions /\ code' = code /\ SameRun
        /\ at[1] \in Nat /\ at[2] \in Nat /\ q[1] \in Nat /\ q[2] \in Nat /\ at # End /\ q # End
        /\ at[2] > 0
        /\ at \in Places /\ at = <<at[1], at[2]>> /\ at[2] \in DOMAIN code.blocks[at[1]].do
        /\ at[1] \in 1..Len(code.blocks)
    <2>1. at \in Positions /\ code' = code /\ SameRun
      BY RunningAtPosition DEF WentOn, Threw, SameRun
    <2>2. at \in Places /\ at # End /\ q \in Places /\ q # End
          /\ at[1] \in 1..Len(code.blocks) /\ at[2] \in 1..Len(code.blocks[at[1]].do)
      BY <2>1, PositionsArePlaces DEF Positions
    <2>3. at[1] \in Nat /\ at[2] \in Nat /\ q[1] \in Nat /\ q[2] \in Nat /\ at[2] > 0
          /\ at = <<at[1], at[2]>>
      BY <2>2 DEF Places
    <2>4. at[2] \in DOMAIN code.blocks[at[1]].do
      BY <2>2 DEF WellFormed
    <2> QED BY <2>1, <2>2, <2>3, <2>4
  <1>2. Precedes(at, q) /\ q[1] > at[1]
    BY <1>1 DEF Reached, Ahead, Precedes
  <1>3. Lets(code, at[1], BlockAt(q).level)
    <2>1. at[1] \in at[1]..(q[1] - 1)
      BY <1>1, <1>2
    <2> QED BY <2>1 DEF Reached
  <1>4. raised' = None \/ BlockAt(q).level > passed'
    <2>1. CASE WentOn \/ (Threw /\ Caught)
      BY <2>1 DEF WentOn, Caught, Reached
    <2>2. CASE Threw /\ Escaped /\ ~Caught
      <3>1. ~(BlockAt(at).escapes \in 1..2) \/ ~(Raises(code, at) \subseteq BlockAt(at).catch)
        BY <2>2 DEF Threw
      <3>2. code.blocks[at[1]].escapes < BlockAt(q).level
        BY <1>1, <1>3, <3>1, <2>2 DEF Lets, BlockAt, BlockOf, Threw
      <3>3. BlockAt(q).level \in Nat /\ BlockAt(at).escapes \in Nat
        BY <1>1, PositionsArePlaces DEF WellFormed, BlockAt, BlockOf, Positions
      <3> QED BY <2>2, <3>2, <3>3 DEF Escaped, BlockAt, BlockOf
    <2> QED BY <2>1, <2>2 DEF Threw
  <1>5. Steady(q)' /\ Holds(BlockAt(q), out') /\ Holds(StepAt(q), out')
    BY SteadyStays DEF Reached
  <1>6. at' \in Positions /\ Ahead(q)'
    <2>1. Takes(q, at[1], raised', passed', out')
      BY <1>4, <1>5 DEF Takes
    <2> QED BY <1>2, <2>1, NotPassedOver
  <1>7. at'[1] \in Nat /\ at'[1] >= at[1]
    <2>1. at' \in Places /\ at' # End /\ (WentOn => Precedes(at, at'))
      BY <1>6, PositionsArePlaces DEF Positions, WentOn
    <2> QED BY <1>1, <1>6, <2>1 DEF Threw, Precedes, Places
  <1>8. \A b \in at'[1]..(q[1] - 1) : Lets(code, b, BlockAt(q).level)
    BY <1>1, <1>7 DEF Reached
  <1> QED BY <1>1, <1>4, <1>5, <1>6, <1>8 DEF Reached, BlockAt

(* A promise of cleanup is kept or fulfilled.                               *)
LEMMA PromisedStep ==
  ASSUME ControlOK, WellFormed(code), Running, Stepped, NEW s, Promised(s), ~late',
         s \in owed',
         (s \in owed \/ SwitchesOn)
  PROVE  Promised(s)'
  <1>1. (WentOn \/ Threw) /\ SameRun /\ Positions' = Positions
    BY SteppedMoves, SameText
  <1>2. PICK q \in Positions : Cleans(q, s) /\ Reached(q)
    BY DEF Promised
  <1>3. q # at
    <2>1. ASSUME q = at PROVE FALSE
      <3>1. Cleans(at, s) /\ BlockAt(at).escapes \in 1..2
        BY <1>2, <2>1 DEF Reached
      <3>2. ~LooksOnly
        <4>1. ~(late' = (late \/ BlockAt(at).escapes \in 1..2))
          BY <3>1
        <4> QED BY <3>1, <4>1, CurrentIsAt DEF LooksOnly, Cleans
      <3>3. ~SwitchesOn /\ ~Saves /\ ~AsksAlive
        BY <3>1, CurrentIsAt DEF Cleans, SwitchesOn, Saves, AsksAlive
      <3>4. ~Boots
        BY <3>1, CurrentIsAt DEF Boots, Cleans
      <3>5. ~SwitchesOff
        BY <3>1, CurrentIsAt DEF SwitchesOff, Cleans
      <3>6. ~PutsBack
        BY <3>1, <3>3, CurrentIsAt DEF PutsBack, Cleans
      <3> QED BY <3>2, <3>3, <3>4, <3>5, <3>6 DEF Stepped
    <2> QED BY <2>1
  <1>4. at' \in Positions /\ Reached(q)'
    BY <1>1, <1>2, <1>3, ReachedStep
  <1>5. Cleans(q, s)'
    BY <1>1, <1>2, SameText, SavedChange DEF Cleans
  <1> QED BY <1>1, <1>4, <1>5 DEF Promised

(* At a switch its cleanup is promised.                                     *)
LEMMA SwitchIsPromised ==
  ASSUME ControlOK, WellFormed(code), UndoesAll(code), PassedOK, at \in Positions,
         StepAt(at).op = "arm", StepAt(at).arg \notin code.leaves
  PROVE  Promised(SettingOf(at))
  <1>1. BlockOf(code, at).level = 0
    BY DEF UndoesAll, Positions, StepAt
  <1>2. PICK q \in Positions :
                 /\ Undoes(code, q, at) /\ Follows(code, at, q)
                 /\ at[1] < q[1] /\ q[2] = 1
                 /\ BlockOf(code, q).escapes \in 1..2
                 /\ \A b \in at[1]..(q[1] - 1) : Lets(code, b, BlockOf(code, q).level)
    BY DEF UndoesAll, Positions, StepAt
  <1>3. InTurn
    BY <1>1, InTurnAtLevel0 DEF BlockAt
  <1>4. Steady(q)
    <2>1. \A k \in Bars(code, at) : Fixed(code, k) => k \notin out
      BY DEF ControlOK, Bars, Fixed, Holds, BlockAt, StepAt
    <2>2. \A k \in Wants(code, q) : ~IsDropped(code, k) /\ k \in out
      BY <1>2, <1>3, GivenHolds DEF Follows, Given
    <2> QED BY <1>2, <2>1, <2>2 DEF Follows, Steady
  <1>5. Ahead(q)
    BY <1>2, PositionsArePlaces DEF Ahead, Precedes, Positions
  <1>6. Cleans(q, SettingOf(at))
    <2>1. SameRadio(code, q, at) => RadioOf(q) = RadioOf(at)
      BY DEF SameRadio, RadioOf, StepAt
    <2>2. SameSetting(code, q, at) => SettingOf(q) = SettingOf(at)
      BY <2>1 DEF SameSetting, SettingOf, StepAt
    <2>3. SettingOf(at)[1] = RadioOf(at)
      BY DEF SettingOf
    <2>4. ASSUME NEW m \in Positions, StepAt(m).op = "save", SameSetting(code, m, at),
                 Leads(code, m, at)
          PROVE  \E was \in BOOLEAN : <<SettingOf(at), was>> \in saved
      <3>1. Left(m)
        BY <2>4, LeadsIsLeft
      <3>2. SettingOf(m) = SettingOf(at)
        BY <2>4 DEF SameSetting, SameRadio, SettingOf, RadioOf, StepAt
      <3> QED BY <1>3, <2>4, <3>1, <3>2 DEF PassedOK
    <2> QED BY <1>2, <2>1, <2>2, <2>3, <2>4 DEF Undoes, Cleans, StepAt, Positions
  <1> QED BY <1>2, <1>3, <1>4, <1>5, <1>6 DEF Promised, Reached, InTurn, BlockAt

(* A step keeps what is owed promised.                                      *)
LEMMA OwedStep ==
  ASSUME ControlOK, WellFormed(code), UndoesAll(code), PassedOK, OwedOK, Running, Stepped
  PROVE  OwedOK'
  <1>1. (WentOn \/ Threw) /\ SameRun
    BY SteppedMoves
  <1>2. late => late'
    BY <1>1 DEF WentOn, Threw
  <1> SUFFICES ASSUME NEW s \in owed', s[2] \notin code.leaves, ~late'
               PROVE  Promised(s)'
    BY <1>1 DEF OwedOK, SameRun
  <1>3. CASE s \in owed
    BY <1>2, <1>3, PromisedStep DEF OwedOK
  <1>4. CASE s \notin owed
    <2>1. SwitchesOn /\ s = Setting
      BY <1>4 DEF Stepped, LooksOnly, Boots, SwitchesOn, SwitchesOff, Saves, PutsBack,
                  AsksAlive, Adapter
    <2>2. Setting[2] = Current.arg
      BY DEF Setting
    <2>3. Promised(s)
      BY <2>1, <2>2, CurrentIsAt, RunningAtPosition, SwitchIsPromised DEF SwitchesOn
    <2> QED BY <2>1, <2>3, PromisedStep
  <1> QED BY <1>3, <1>4

-----------------------------------------------------------------------------
(* What is on will be taken off, or the exit code tells.                    *)

(* The flags that p depends on let it run.                                  *)
Free(p) ==
    /\ \A k \in Wants(code, p) : Fixed(code, k) => k \in out
    /\ \A k \in Bars(code, p) : Fixed(code, k) => k \notin out

(* An answer that counts and is still to be asked for has not been given.   *)
UniqueOK ==
    at \in Positions => \A a \in Positions :
        Vouches(code, a) /\ Ahead(a) /\ Free(a) => StepAt(a).key \notin out

(* A key that counts is missing, and every step that would set it has       *)
(* passed or cannot run.                                                    *)
Lost(k) ==
    /\ k \in code.need /\ k \notin out /\ ~IsCaught(code, k)
    /\ \A x \in Positions : StepAt(x).op \in Setters /\ StepAt(x).key = k =>
         Precedes(x, at) \/ ~Free(x)

(* The exit code will not be 0.                                             *)
Doomed ==
    \/ failed
    \/ raised # None
    \/ \E k \in code.bad : k \in out /\ ~IsDropped(code, k)
    \/ \E k \in code.need : Lost(k)

(* If q succeeds, s is off: it starts new firmware. Of nothing else is that *)
(* known.                                                                   *)
TakesOff(q, s) == StepAt(q).op = "boot" /\ RadioOf(q) = s[1]

(* A step to come takes s off, or its failure shows.                        *)
Prospect(s) ==
    at \in Positions /\ \E q \in Positions :
        Ahead(q) /\ TakesOff(q, s) /\ Steady(q) /\ Shows(code, q)

(* What is on of an adapter in use is excused, goes, or it shows.           *)
OnOK ==
    \A s \in on : s[1] \in used /\ s[2] \notin Excused(code) => Doomed \/ Prospect(s)

(* Adapter r is asked for an answer that counts before the block ends.      *)
Asking(r) ==
    at \in Positions /\ \E a \in Positions :
        /\ a[1] = at[1] /\ Ahead(a) /\ RadioOf(a) = r
        /\ Vouches(code, a) /\ Free(a)
        /\ Holds(StepAt(a), out)
        /\ \A k \in StepAt(a).has \cup StepAt(a).lacks : Fixed(code, k)

(* A reload that is not answered for will be asked about, or it shows.      *)
SilentOK == code.judged => \A r \in silent : Doomed \/ Asking(r)

(* What is on and not overlooked is a setting of some step.                 *)
KnownOK ==
    \A s \in on : Watched(s) => s[2] # "" /\ \E x \in Positions : StepAt(x).arg = s[2]

(* Control never goes back, and an exception leaves the whole block.        *)
LEMMA MovesOn ==
  ASSUME ControlOK, WellFormed(code), Running, WentOn \/ Threw
  PROVE  /\ at \in Positions /\ Precedes(at, at')
         /\ \A x \in Positions : Precedes(x, at) => Precedes(x, at')
         /\ Threw => \A x \in Positions : x[1] = at[1] => Precedes(x, at')
         /\ \A x \in Positions : Ahead(x)' => Precedes(at, x)
  <1>1. at \in Positions /\ at' \in Positions \cup {End} /\ code' = code
    BY RunningAtPosition DEF WentOn, Threw, SameRun
  <1>2. \A x \in Positions : x \in Places /\ x # End
    BY PositionsArePlaces DEF Positions
  <1>3. Precedes(at, at')
    BY <1>1, <1>2 DEF WentOn, Threw, Precedes, Places
  <1>4. \A x \in Positions : Precedes(x, at) => Precedes(x, at')
    BY <1>1, <1>2, <1>3, OrderOfPlaces
  <1>5. ASSUME Threw, NEW x \in Positions, x[1] = at[1] PROVE Precedes(x, at')
    BY <1>1, <1>2, <1>5 DEF Threw, Precedes, Places
  <1>6. ASSUME NEW x \in Positions, x = at' \/ Precedes(at', x) PROVE Precedes(at, x)
    BY <1>1, <1>2, <1>3, <1>6, OrderOfPlaces
  <1> QED BY <1>1, <1>3, <1>4, <1>5, <1>6 DEF Ahead

(* The flags of the step at hand let it run.                                *)
LEMMA AtIsFree ==
  ASSUME ControlOK, at \in Positions
  PROVE  Free(at)
  BY DEF ControlOK, Free, Wants, Bars, Fixed, Holds, BlockAt, StepAt

(* Flags do not change.                                                     *)
LEMMA FreeStays ==
  ASSUME ControlOK, WellFormed(code), Running, WentOn \/ Threw, NEW p
  PROVE  Free(p)' <=> Free(p)
  BY KeysChange DEF Free, WentOn, Threw, SameRun

(* Of two contrary steps one cannot run.                                    *)
LEMMA ContraryIsNotFree ==
  ASSUME NEW x, NEW y, Contrary(code, x, y), Free(y)
  PROVE  ~Free(x)
  BY DEF Contrary, Free

(* What a step can put into out.                                            *)
LEMMA NewKeys ==
  ASSUME ControlOK, WellFormed(code), Running, WentOn \/ Threw, NEW k, ~IsCaught(code, k),
         k \notin out, k \in out'
  PROVE  WentOn /\ ~Threw /\ at \in Positions /\ StepAt(at).op \in Setters /\ StepAt(at).key = k
  <1>1. at \in Positions
    BY RunningAtPosition
  <1>2. at[1] \in DOMAIN code.blocks
    BY <1>1, PositionsArePlaces DEF Positions, WellFormed
  <1>3. ~Threw
    BY <1>2 DEF Threw, Caught, Escaped, IsCaught, BlockAt, BlockOf
  <1> QED BY <1>1, <1>3, CurrentIsAt DEF WentOn, KeysOf

(* A step keeps an answer that is still to come ungiven.                    *)
LEMMA UniqueStep ==
  ASSUME ControlOK, WellFormed(code), UniqueOK, Running, WentOn \/ Threw
  PROVE  UniqueOK'
  <1>1. SameRun /\ code' = code
    BY DEF WentOn, Threw, SameRun
  <1>2. at \in Positions
    BY RunningAtPosition
  <1> SUFFICES ASSUME NEW a \in Positions, Vouches(code, a), Ahead(a)', Free(a)'
               PROVE  StepAt(a).key \notin out'
    BY <1>1, SameText DEF UniqueOK
  <1>3. Precedes(at, a) /\ Free(a)
    BY MovesOn, FreeStays
  <1>4. StepAt(a).key \notin out /\ ~IsCaught(code, StepAt(a).key)
    BY <1>2, <1>3 DEF UniqueOK, Ahead, Vouches, StepAt
  <1>5. ASSUME StepAt(a).key \in out' PROVE FALSE
    <2>1. StepAt(at).op \in Setters /\ StepAt(at).key = StepAt(a).key
      BY <1>4, <1>5, NewKeys
    <2>2. at # a
      BY <1>2, <1>3, PositionsArePlaces, OrderOfPlaces DEF Positions
    <2>3. Contrary(code, at, a)
      BY <1>2, <2>1, <2>2 DEF Vouches, StepAt, Positions
    <2> QED BY <1>2, <1>3, <2>3, ContraryIsNotFree, AtIsFree
  <1> QED BY <1>5

(* An answer that counts and has been passed over is lost.                  *)
LEMMA AnswerIsLost ==
  ASSUME ControlOK, WellFormed(code), Running, WentOn \/ Threw,
         NEW a \in Positions, Vouches(code, a), Free(a),
         Precedes(a, at'), StepAt(a).key \notin out'
  PROVE  Doomed'
  <1>1. code' = code /\ SameRun
    BY DEF WentOn, Threw, SameRun
  <1>2. /\ StepAt(a).key \in code.need /\ ~IsCaught(code, StepAt(a).key)
        /\ \A x \in Positions :
             x # a /\ StepAt(x).op \in Setters /\ StepAt(x).key = StepAt(a).key =>
                 Contrary(code, x, a)
    BY DEF Vouches, StepAt, Positions
  <1>3. \A x \in Positions :
             StepAt(x).op \in Setters /\ StepAt(x).key = StepAt(a).key =>
                 Precedes(x, at') \/ ~Free(x)'
    BY <1>2, ContraryIsNotFree, FreeStays
  <1>4. Lost(StepAt(a).key)'
    BY <1>1, <1>2, <1>3, SameText DEF Lost
  <1> QED BY <1>1, <1>2, <1>4, SameText DEF Doomed

(* An exception before an answer that counts shows.                         *)
LEMMA ThrewBeforeAnswer ==
  ASSUME ControlOK, WellFormed(code), UniqueOK, Running, Threw,
         NEW a \in Positions, a[1] = at[1], Ahead(a), Vouches(code, a), Free(a)
  PROVE  Doomed'
  <1>1. Precedes(a, at') /\ at \in Positions
    BY MovesOn
  <1>2. StepAt(a).key \notin out
    BY <1>1 DEF UniqueOK
  <1>3. StepAt(a).key \notin out'
    <2>1. ~IsCaught(code, StepAt(a).key)
      BY DEF Vouches, StepAt
    <2> QED BY <1>2, <2>1, NewKeys
  <1> QED BY <1>1, <1>3, AnswerIsLost

(* An exception at a step that shows its failure shows.                     *)
LEMMA ThrewUnseen ==
  ASSUME ControlOK, WellFormed(code), UniqueOK, Running, Threw,
         NEW q \in Positions, q[1] = at[1], Ahead(q), Free(q), Shows(code, q)
  PROVE  Doomed'
  <1>1. at \in Positions /\ code' = code /\ SameRun
    BY RunningAtPosition DEF Threw, SameRun
  <1>2. BlockAt(q) = BlockAt(at) /\ BlockOf(code, q) = BlockAt(at)
    BY DEF BlockAt, BlockOf
  <1>3. CASE Escaped
    BY <1>3 DEF Escaped, Doomed
  <1>4. CASE BlockOf(code, q).catch = {}
    BY <1>2, <1>3, <1>4 DEF Threw, Caught
  <1>5. CASE BlockOf(code, q).key \in code.bad /\ Caught
    <2>1. ~IsDropped(code, BlockAt(at).key)
      <3>1. at[1] \in DOMAIN code.blocks
        BY <1>1, PositionsArePlaces DEF Positions, WellFormed
      <3> QED BY <1>5, <3>1 DEF WellFormed, Caught, BlockAt, BlockOf
    <2> QED BY <1>1, <1>2, <1>5, <2>1 DEF Caught, Doomed
  <1>6. ASSUME NEW a \in Positions, AnsweredBy(code, q, a) PROVE Doomed'
    <2>1. a[1] = at[1] /\ Vouches(code, a) /\ q[2] < a[2]
      BY <1>6 DEF AnsweredBy
    <2>2. Ahead(a)
      <3>1. a \in Places /\ q \in Places /\ at \in Places /\ q # End
        BY <1>1, PositionsArePlaces DEF Positions
      <3>2. Precedes(q, a)
        BY <2>1, <3>1 DEF Precedes
      <3> QED BY <3>1, <3>2, OrderOfPlaces DEF Ahead
    <2>3. Free(a)
      BY <1>2, <1>6, <2>1 DEF AnsweredBy, Free, Wants, Bars, StepAt, BlockOf
    <2> QED BY <2>1, <2>2, <2>3, ThrewBeforeAnswer
  <1> QED BY <1>3, <1>4, <1>5, <1>6 DEF Shows, Threw, Positions

(* Once the exit code will not be 0, it will not.                           *)
LEMMA DoomedStays ==
  ASSUME ControlOK, WellFormed(code), Running, WentOn \/ Threw, Doomed
  PROVE  Doomed'
  <1>1. code' = code /\ SameRun
    BY DEF WentOn, Threw, SameRun
  <1>2. CASE failed
    BY <1>1, <1>2 DEF SameRun, Doomed
  <1>3. CASE raised # None
    BY <1>3 DEF WentOn, Threw, Caught, Escaped, Doomed
  <1>4. ASSUME NEW k \in code.bad, k \in out, ~IsDropped(code, k) PROVE Doomed'
    BY <1>1, <1>4, KeysChange DEF Doomed
  <1>5. ASSUME NEW k \in code.need, Lost(k) PROVE Doomed'
    <2>1. k \notin out /\ ~IsCaught(code, k)
      BY <1>5 DEF Lost
    <2>2. k \notin out'
      <3>1. ASSUME k \in out' PROVE FALSE
        <4>1. at \in Positions /\ StepAt(at).op \in Setters /\ StepAt(at).key = k
          BY <2>1, <3>1, NewKeys
        <4>2. ~Precedes(at, at)
          BY <4>1, PositionsArePlaces, OrderOfPlaces DEF Positions
        <4> QED BY <1>5, <4>1, <4>2, AtIsFree DEF Lost
      <3> QED BY <3>1
    <2>3. \A x \in Positions : StepAt(x).op \in Setters /\ StepAt(x).key = k =>
            Precedes(x, at') \/ ~Free(x)'
      BY <1>5, MovesOn, FreeStays DEF Lost
    <2>4. Lost(k)'
      BY <1>1, <1>5, <2>1, <2>2, <2>3, SameText DEF Lost
    <2> QED BY <1>1, <2>4 DEF Doomed
  <1> QED BY <1>2, <1>3, <1>4, <1>5 DEF Doomed

(* At the end of a row it is not.                                           *)
LEMMA DoomedFails ==
  ASSUME Doomed, at = End, WellFormed(code)
  PROVE  failed \/ raised # None \/ RowFailed
  BY DEF Doomed, Lost, RowFailed

(* Only a switch turns a setting on that is not overlooked.                 *)
LEMMA OnGrows ==
  ASSUME SavedOK, Stepped, NEW s \in on', Watched(s)
  PROVE  s \in on \/ (SwitchesOn /\ s = Setting)
  <1>1. CASE SwitchesOn
    BY <1>1 DEF SwitchesOn
  <1>2. CASE PutsBack
    BY <1>2, PutBackIsOff
  <1>3. CASE LooksOnly \/ Boots \/ SwitchesOff \/ Saves \/ AsksAlive
    BY <1>3 DEF LooksOnly, Boots, SwitchesOff, Saves, AsksAlive, Adapter
  <1> QED BY <1>1, <1>2, <1>3 DEF Stepped

(* A step keeps what is on known.                                           *)
LEMMA KnownStep ==
  ASSUME ControlOK, WellFormed(code), SavedOK, KnownOK, Running, Stepped
  PROVE  KnownOK'
  <1>1. SameRun
    BY SteppedMoves
  <1>2. at \in Positions
    BY RunningAtPosition
  <1> SUFFICES ASSUME NEW s \in on', Watched(s)
               PROVE  s[2] # "" /\ \E x \in Positions : StepAt(x).arg = s[2]
    BY <1>1, SameText DEF KnownOK, Watched, SameRun
  <1>3. CASE s \in on
    BY <1>3 DEF KnownOK
  <1>4. CASE SwitchesOn /\ s = Setting
    <2>1. s[2] = StepAt(at).arg /\ StepAt(at).op = "arm"
      BY <1>4, CurrentIsAt DEF Setting, SwitchesOn
    <2> QED BY <1>2, <2>1 DEF WellFormed, StepAt, Positions
  <1> QED BY <1>3, <1>4, OnGrows

(* What follows the step at hand is steady.                                 *)
LEMMA FollowsIsSteady ==
  ASSUME ControlOK, InTurn, PassedOK, NEW q \in Positions, Follows(code, at, q)
  PROVE  Steady(q)
  <1>1. \A k \in Bars(code, at) : Fixed(code, k) => k \notin out
    BY DEF InTurn, ControlOK, Bars, Fixed, Holds, BlockAt, StepAt
  <1>2. \A k \in Wants(code, q) : ~IsDropped(code, k) /\ k \in out
    BY GivenHolds DEF Follows, Given
  <1> QED BY <1>1, <1>2 DEF Follows, Steady

(* What is steady is free.                                                  *)
LEMMA SteadyIsFree ==
  ASSUME NEW q, Steady(q)
  PROVE  Free(q)
  BY DEF Steady, Free

(* A later step that takes s off is still ahead, or a failure shows.        *)
LEMMA ProspectStays ==
  ASSUME ControlOK, WellFormed(code), UniqueOK, Running, WentOn \/ Threw,
         NEW s, NEW q \in Positions,
         Precedes(at, q), TakesOff(q, s), Steady(q), Shows(code, q)
  PROVE  (Doomed \/ Prospect(s))'
  <1>1. code' = code /\ SameRun /\ at \in Positions
    BY RunningAtPosition DEF WentOn, Threw, SameRun
  <1>2. CASE raised' # None
    BY <1>2 DEF Doomed
  <1>3. CASE Threw /\ q[1] = at[1]
    BY <1>3, ThrewUnseen, SteadyIsFree DEF Ahead
  <1>4. CASE raised' = None /\ (Threw => q[1] # at[1])
    <2>1. Threw => q[1] > at[1]
      <3>1. q \in Places /\ at \in Places /\ q # End /\ at # End
        BY <1>1, PositionsArePlaces DEF Positions
      <3> QED BY <1>4, <3>1 DEF Precedes, Places
    <2>2. Steady(q)' /\ Takes(q, at[1], raised', passed', out')
      BY <1>4, SteadyStays DEF Takes
    <2>3. at' \in Positions /\ Ahead(q)'
      BY <2>1, <2>2, NotPassedOver
    <2>4. TakesOff(q, s)'
      BY <1>1, SameText DEF TakesOff
    <2> QED BY <1>1, <2>2, <2>3, <2>4, SameText DEF Prospect
  <1> QED BY <1>2, <1>3, <1>4

(* A step keeps what is on in prospect of being taken off, or it shows.     *)
LEMMA OnStep ==
  ASSUME ControlOK, WellFormed(code), GuardsFirst(code), ShowsAll(code), PassedOK, SavedOK,
         KnownOK, UniqueOK, OnOK, Running, Stepped
  PROVE  OnOK'
  <1>1. (WentOn \/ Threw) /\ SameRun /\ code' = code
    BY SteppedMoves DEF SameRun
  <1>2. at \in Positions /\ Free(at)
    BY RunningAtPosition, AtIsFree
  <1> SUFFICES ASSUME NEW s \in on', s[1] \in used', s[2] \notin Excused(code), ~Doomed'
               PROVE  Prospect(s)'
    BY <1>1 DEF OnOK
  <1>0. Watched(s)
    BY DEF Excused, Watched
  <1>3. ~Doomed
    BY <1>1, DoomedStays
  <1>4. InTurn
    BY <1>2, <1>3 DEF Doomed, InTurn
  <1>5. ASSUME s \in on, s[1] \in used PROVE Prospect(s)'
    <2>1. PICK q \in Positions : Ahead(q) /\ TakesOff(q, s) /\ Steady(q) /\ Shows(code, q)
      BY <1>3, <1>5 DEF OnOK, Prospect
    <2>2. CASE Precedes(at, q)
      BY <1>1, <2>1, <2>2, ProspectStays
    <2>3. CASE q = at
      <3>1. ~Threw
        BY <1>2, <2>1, <2>3, ThrewUnseen
      <3>2. TakesOff(at, s)
        BY <2>1, <2>3
      <3>3. Boots
        BY <3>1, <3>2, CurrentIsAt DEF Stepped, LooksOnly, SwitchesOn, SwitchesOff, Saves,
                                       PutsBack, AsksAlive, TakesOff
      <3> QED BY <1>1, <3>1, <3>2, <3>3, CurrentIsAt DEF Boots, TakesOff
    <2> QED BY <2>1, <2>2, <2>3 DEF Ahead
  <1>6. CASE SwitchesOn /\ s = Setting
    <2>1. StepAt(at).op = "arm" /\ StepAt(at).arg \notin Excused(code) /\ s[1] = RadioOf(at)
      BY <1>6, CurrentIsAt DEF SwitchesOn, Setting
    <2>2. PICK q \in Positions :
             /\ Precedes(at, q) /\ Follows(code, at, q) /\ Shows(code, q)
             /\ StepAt(q).op = "boot" /\ SameRadio(code, q, at)
      BY <1>2, <2>1 DEF ShowsAll, Reloads, Positions, StepAt
    <2>3. TakesOff(q, s)
      BY <2>1, <2>2 DEF TakesOff, SameRadio, RadioOf, StepAt
    <2> QED BY <1>1, <1>4, <2>2, <2>3, FollowsIsSteady, ProspectStays
  <1>7. CASE s \in on /\ s[1] \notin used
    <2>1. Boots /\ s[1] = Radio
      BY <1>7 DEF Stepped, LooksOnly, Boots, SwitchesOn, SwitchesOff, Saves, PutsBack,
                  AsksAlive, Adapter
    <2>2. Threw /\ StepAt(at).op = "boot" /\ s[1] = RadioOf(at)
      BY <2>1, CurrentIsAt DEF Boots
    <2>3. \E x \in PositionsOf(code) : StepOf(code, x).arg \notin Excused(code) \cup {""}
      BY <1>0, <1>7 DEF KnownOK, StepAt, Positions
    <2>4. ~Shows(code, at)
      BY <1>2, <2>2, ThrewUnseen DEF Ahead
    <2>5. PICK q \in Positions :
             /\ Precedes(at, q) /\ Follows(code, at, q) /\ Shows(code, q)
             /\ StepAt(q).op = "boot" /\ SameRadio(code, q, at)
      BY <1>2, <2>2, <2>3, <2>4 DEF ShowsAll, Reloads, Positions, StepAt
    <2>6. TakesOff(q, s)
      BY <2>2, <2>5 DEF TakesOff, SameRadio, RadioOf, StepAt
    <2> QED BY <1>1, <1>4, <2>5, <2>6, FollowsIsSteady, ProspectStays
  <1> QED BY <1>0, <1>5, <1>6, <1>7, OnGrows

(* An answer still to be asked for is ahead, or a failure shows.            *)
LEMMA AskingStays ==
  ASSUME ControlOK, WellFormed(code), UniqueOK, Running, WentOn \/ Threw, ~Doomed',
         NEW r, NEW a \in Positions,
         a[1] = at[1], Precedes(at, a), RadioOf(a) = r, Vouches(code, a), Free(a),
         Holds(StepAt(a), out), \A k \in StepAt(a).has \cup StepAt(a).lacks : Fixed(code, k)
  PROVE  Asking(r)'
  <1>1. code' = code /\ SameRun /\ at \in Positions
    BY RunningAtPosition DEF WentOn, Threw, SameRun
  <1>2. ~Threw
    BY ThrewBeforeAnswer DEF Ahead
  <1>3. Holds(StepAt(a), out')
    BY KeysChange DEF Holds
  <1>4. Takes(a, at[1], raised', passed', out')
    BY <1>3 DEF Takes, Doomed
  <1>5. at' \in Positions /\ Ahead(a)'
    BY <1>2, <1>4, NotPassedOver
  <1>6. at'[1] = a[1]
    <2>1. at \in Places /\ at' \in Places /\ a \in Places /\ at # End /\ at' # End
          /\ a # End
      BY <1>1, <1>5, PositionsArePlaces DEF Positions
    <2>2. Precedes(at, at')
      BY MovesOn
    <2> QED BY <1>5, <2>1, <2>2 DEF Ahead, Precedes, Places
  <1>7. Free(a)'
    BY FreeStays
  <1> QED BY <1>1, <1>3, <1>5, <1>6, <1>7, SameText DEF Asking

(* A step keeps an unanswered reload to be asked about, or it shows.        *)
LEMMA SilentStep ==
  ASSUME ControlOK, WellFormed(code), AsksAll(code), UniqueOK, SilentOK, Running, Stepped
  PROVE  SilentOK'
  <1>1. (WentOn \/ Threw) /\ SameRun /\ code' = code
    BY SteppedMoves DEF SameRun
  <1>2. at \in Positions /\ Free(at) /\ Holds(StepAt(at), out)
    BY RunningAtPosition, AtIsFree DEF ControlOK
  <1> SUFFICES ASSUME code.judged, NEW r \in silent', ~Doomed'
               PROVE  Asking(r)'
    BY <1>1 DEF SilentOK
  <1>3. ~Doomed
    BY <1>1, DoomedStays
  <1>4. CASE Boots /\ r = Radio /\ BlockAt(at).level # 0
    <2>1. BlockOf(code, at).level > 0 /\ StepOf(code, at).op = "boot"
      <3>1. BlockAt(at).level \in Nat
        BY <1>2, PositionsArePlaces DEF Positions, WellFormed, BlockAt, BlockOf
      <3> QED BY <1>4, <3>1, CurrentIsAt DEF Boots, BlockAt, StepAt
    <2>2. PICK a \in Positions : SameRadio(code, a, at) /\ AnsweredBy(code, at, a)
      BY <1>2, <2>1 DEF AsksAll, Positions
    <2>3. RadioOf(a) = r
      BY <1>4, <2>2, CurrentIsAt DEF SameRadio, RadioOf, StepAt
    <2>4. a[1] = at[1] /\ Vouches(code, a) /\ at[2] < a[2]
      BY <2>2 DEF AnsweredBy
    <2>5. Precedes(at, a)
      BY <1>2, <2>4, PositionsArePlaces DEF Positions, Precedes
    <2>6. BlockAt(a) = BlockAt(at) /\ BlockOf(code, a) = BlockOf(code, at)
      BY <2>4 DEF BlockAt, BlockOf
    <2>7. Free(a)
      BY <1>2, <2>2, <2>6 DEF AnsweredBy, Free, Wants, Bars, StepAt
    <2>8. Holds(StepAt(a), out) /\ \A k \in StepAt(a).has \cup StepAt(a).lacks : Fixed(code, k)
      BY <1>2, <2>2 DEF AnsweredBy, Free, Holds, StepAt
    <2> QED BY <1>1, <2>3, <2>4, <2>5, <2>7, <2>8, AskingStays
  <1>5. CASE r \in silent
    <2>1. PICK a \in Positions :
             /\ a[1] = at[1] /\ Ahead(a) /\ RadioOf(a) = r
             /\ Vouches(code, a) /\ Free(a)
             /\ Holds(StepAt(a), out)
             /\ \A k \in StepAt(a).has \cup StepAt(a).lacks : Fixed(code, k)
      BY <1>1, <1>3, <1>5 DEF SilentOK, Asking
    <2>2. CASE Precedes(at, a)
      BY <1>1, <2>1, <2>2, AskingStays
    <2>3. CASE a = at
      <3>1. ~Threw
        BY <2>1, ThrewBeforeAnswer
      <3>2. StepAt(at).op = "alive"
        BY <2>1, <2>3 DEF Vouches, StepAt
      <3>3. AsksAlive
        BY <3>1, <3>2, CurrentIsAt DEF Stepped, LooksOnly, Boots, SwitchesOn, SwitchesOff,
                                       Saves, PutsBack
      <3>4. r = Radio
        BY <2>1, <2>3, CurrentIsAt
      <3>5. StepAt(a).key \notin out'
        BY <2>3, <3>3, <3>4, CurrentIsAt DEF AsksAlive
      <3>6. Precedes(a, at')
        BY <1>1, <2>3, MovesOn
      <3> QED BY <1>1, <2>1, <3>5, <3>6, AnswerIsLost
    <2> QED BY <2>1, <2>2, <2>3 DEF Ahead
  <1>6. r \in silent \/ (Boots /\ r = Radio /\ BlockAt(at).level # 0)
    BY DEF Stepped, LooksOnly, Boots, SwitchesOn, SwitchesOff, Saves, PutsBack, AsksAlive, Adapter
  <1> QED BY <1>4, <1>5, <1>6

-----------------------------------------------------------------------------
(* The invariant, over the steps, the rows and the end of a run.            *)

(* The inductive invariant.                                                 *)
IInv ==
    /\ ControlOK
    /\ PassedOK /\ StartedOK /\ SavedOK
    /\ OwedOK
    /\ KnownOK /\ UniqueOK /\ OnOK /\ SilentOK

(* Every step keeps the invariant.                                          *)
LEMMA StepKeepsIInv ==
  ASSUME Rules(code), IInv, Running, Stepped
  PROVE  IInv'
  <1> USE DEF Rules
  <1>1. WentOn \/ Threw
    BY SteppedMoves
  <1>2. ControlOK'
    BY <1>1, ControlStep DEF IInv
  <1>3. PassedOK' /\ StartedOK' /\ SavedOK'
    BY PassedStep, StartedStep, SavedStep DEF IInv
  <1>4. OwedOK'
    BY OwedStep DEF IInv
  <1>5. KnownOK' /\ UniqueOK' /\ OnOK' /\ SilentOK'
    BY <1>1, KnownStep, UniqueStep, OnStep, SilentStep DEF IInv
  <1> QED BY <1>2, <1>3, <1>4, <1>5 DEF IInv

(* At the start of a row no answer that counts has been given.              *)
LEMMA NothingAnswered ==
  ASSUME NEW a \in Positions, Vouches(code, a), out \subseteq code.flags
  PROVE  StepAt(a).key \notin out
  BY DEF Vouches, StepAt

(* The invariant holds at first, whatever earlier runs left on.             *)
LEMMA InitGivesIInv ==
  ASSUME Rules(code), Init
  PROVE  IInv
  <1> USE DEF Rules
  <1>1. ControlOK
    BY ControlInit
  <1>2. at = Start(out) /\ out \subseteq code.flags
    BY DEF Init
  <1>3. \A m \in Positions : ~Left(m)
    BY <1>2, NothingLeftInitially
  <1>4. PassedOK /\ StartedOK
    BY <1>3 DEF PassedOK, StartedOK
  <1>5. SavedOK /\ OwedOK /\ OnOK /\ SilentOK
    BY DEF Init, SavedOK, OwedOK, OnOK, SilentOK
  <1>6. UniqueOK
    BY <1>2, NothingAnswered DEF UniqueOK
  <1>7. KnownOK
    <2> SUFFICES ASSUME NEW s \in Settings
                 PROVE  s[2] # "" /\ \E x \in Positions : StepAt(x).arg = s[2]
      BY DEF Init, KnownOK
    <2>1. s[2] # "" /\ s[2] \in {t.arg : t \in Steps}
      BY DEF Settings
    <2>2. PICK x \in Positions : s[2] = StepAt(x).arg
      BY <2>1 DEF Steps
    <2> QED BY <2>1, <2>2
  <1> QED BY <1>1, <1>4, <1>5, <1>6, <1>7 DEF IInv

(* A new row keeps the invariant.                                           *)
LEMMA NewRowKeepsIInv ==
  ASSUME Rules(code), IInv, NewRow, ControlOK'
  PROVE  IInv'
  <1> USE DEF Rules
  <1>1. /\ UNCHANGED <<prog, code, raised, passed, late, used, on, owed, silent>>
        /\ at = End /\ raised = None
    BY EndedCases DEF NewRow, IInv
  <1>2. /\ at' = Start(out') /\ out' = out \cap code.flags /\ saved' = {}
        /\ failed' = (failed \/ RowFailed)
    BY DEF NewRow
  <1>3. at \notin Positions
    BY <1>1, PositionsArePlaces DEF Positions
  <1>4. Positions' = Positions /\ \A m : StepAt(m)' = StepAt(m)
    BY <1>1 DEF Positions, StepAt
  <1>5. PassedOK' /\ StartedOK'
    <2>1. \A m \in Positions : ~Left(m)'
      BY <1>1, <1>2, NothingLeftAtStart
    <2> QED BY <1>4, <2>1 DEF PassedOK, StartedOK
  <1>6. SavedOK'
    BY <1>2 DEF SavedOK
  <1>7. OwedOK'
    BY <1>1, <1>3 DEF IInv, OwedOK, Promised
  <1>8. Doomed => Doomed'
    BY <1>1, <1>2, DoomedFails DEF Doomed
  <1>9. OnOK' /\ SilentOK'
    BY <1>1, <1>3, <1>8 DEF IInv, OnOK, SilentOK, Prospect, Asking
  <1>10. KnownOK'
    BY <1>1, <1>4 DEF IInv, KnownOK, Watched
  <1>11. UniqueOK'
    <2>1. \A a \in Positions : Vouches(code, a) => StepAt(a).key \notin out'
      BY <1>2 DEF Vouches, StepAt
    <2> QED BY <1>1, <1>4, <2>1 DEF UniqueOK
  <1> QED BY <1>5, <1>6, <1>7, <1>9, <1>10, <1>11 DEF IInv

(* Nothing but the exit code and what goes with it.                         *)
Rests ==
    /\ ControlOK'
    /\ UNCHANGED <<prog, code, row, at, raised, passed, failed, late, out, Adapter>>

(* So does what changes the exit code alone.                                *)
LEMMA RestKeepsIInv ==
  ASSUME IInv, Rests
  PROVE  IInv'
  <1>1. UNCHANGED <<prog, code, row, at, raised, passed, failed, late, out,
                    used, mine, on, owed, saved, silent>>
    BY DEF Rests, Adapter
  <1>2. /\ Positions' = Positions
        /\ \A m : StepAt(m)' = StepAt(m) /\ BlockAt(m)' = BlockAt(m)
        /\ \A m : RadioOf(m)' = RadioOf(m) /\ SettingOf(m)' = SettingOf(m)
    BY <1>1 DEF Positions, StepAt, BlockAt, RadioOf, SettingOf
  <1>3. /\ \A m : Left(m)' = Left(m) /\ Unhurt(m)' = Unhurt(m)
        /\ \A m : Ahead(m)' = Ahead(m) /\ Steady(m)' = Steady(m) /\ Free(m)' = Free(m)
    BY <1>1, <1>2 DEF Left, Known, Unhurt, Ahead, Steady, Free
  <1>4. PassedOK' /\ StartedOK' /\ SavedOK'
    BY <1>1, <1>2, <1>3 DEF IInv, PassedOK, StartedOK, SavedOK, InTurn,
                                    Watched
  <1>5. OwedOK'
    <2>1. \A q, s : Cleans(q, s)' = Cleans(q, s)
      BY <1>1, <1>2 DEF Cleans
    <2>2. \A q : Reached(q)' = Reached(q)
      BY <1>1, <1>2, <1>3 DEF Reached
    <2> QED BY <1>1, <1>2, <2>1, <2>2 DEF IInv, OwedOK, Promised
  <1>6. KnownOK' /\ UniqueOK'
    BY <1>1, <1>2, <1>3 DEF IInv, KnownOK, UniqueOK, Watched
  <1>7. Doomed => Doomed'
    BY <1>1, <1>2, <1>3 DEF Doomed, Lost
  <1>8. OnOK'
    BY <1>1, <1>2, <1>3, <1>7 DEF IInv, OnOK, Prospect, TakesOff
  <1>9. SilentOK'
    BY <1>1, <1>2, <1>3, <1>7 DEF IInv, SilentOK, Asking
  <1> QED BY <1>4, <1>5, <1>6, <1>8, <1>9 DEF IInv, Rests

(* Every action keeps the invariant.                                        *)
LEMMA NextKeepsIInv ==
  ASSUME Rules(code), IInv, [Next]_vars
  PROVE  IInv' /\ code' = code /\ prog' = prog
  <1>1. CASE UNCHANGED vars
    <2>1. UNCHANGED <<prog, code, row, at, raised, passed, failed, exit, late, out, Adapter>>
      BY <1>1 DEF vars, control, Adapter
    <2>2. ControlOK'
      BY <2>1 DEF IInv, ControlOK, Positions, BlockAt, StepAt, RowFailed
    <2> QED BY <2>1, <2>2, RestKeepsIInv DEF Rests
  <1>2. CASE Next
    <2>1. ControlOK'
      BY <1>2, ControlNext DEF IInv, Rules
    <2>2. CASE Refused
      BY <2>1, <2>2, RestKeepsIInv DEF Refused, Rests
    <2>3. CASE Running /\ Stepped
      BY <2>3, StepKeepsIInv, SteppedMoves DEF SameRun
    <2>4. CASE Ended
      <3>1. NewRow \/ TheEnd
        BY <2>4, EndedCases DEF IInv
      <3>2. UNCHANGED <<prog, code, raised, passed, late, used, on, owed, silent>>
        BY <2>4, EndedCases DEF IInv
      <3>3. CASE NewRow
        BY <2>1, <3>2, <3>3, NewRowKeepsIInv
      <3>4. CASE TheEnd
        BY <2>1, <3>2, <3>4, RestKeepsIInv DEF TheEnd, Rests, Adapter
      <3> QED BY <3>1, <3>3, <3>4
    <2> QED BY <1>2, <2>2, <2>3, <2>4, OneStep DEF IInv, Rules
  <1> QED BY <1>1, <1>2

(* What the invariant gives.                                                *)
LEMMA IInvGuards ==
  ASSUME Rules(code), IInv
  PROVE  Guarded
  BY GuardedFromStarts DEF IInv, Rules

(* At the end nothing can be promised any more: CleanedUp.                  *)
LEMMA IInvCleans ==
  ASSUME Rules(code), IInv
  PROVE  CleanedUp
  <1> SUFFICES ASSUME exit \in {0, 1}, ~late, NEW s \in owed
               PROVE  s[2] \in code.leaves
    BY DEF CleanedUp, Owed
  <1>1. at = End
    BY DEF IInv, ControlOK
  <1>2. at \notin Positions
    BY <1>1, PositionsArePlaces DEF Positions, Rules
  <1> QED BY <1>2 DEF IInv, OwedOK, Promised

(* At the end nothing is in prospect any more: HonestExit.                  *)
LEMMA IInvIsHonest ==
  ASSUME Rules(code), IInv
  PROVE  HonestExit
  <1> SUFFICES ASSUME exit = 0
               PROVE  LeftOn \subseteq Excused(code) /\ (code.judged => silent = {})
    BY DEF HonestExit
  <1>1. at = End /\ raised = None /\ ~failed /\ ~RowFailed
    BY DEF IInv, ControlOK
  <1>2. at \notin Positions
    BY <1>1, PositionsArePlaces DEF Positions, Rules
  <1>3. ~Doomed
    BY <1>1, DoomedFails DEF Rules
  <1>4. LeftOn \subseteq Excused(code)
    BY <1>2, <1>3 DEF IInv, OnOK, Prospect, LeftOn
  <1>5. code.judged => silent = {}
    BY <1>2, <1>3 DEF IInv, SilentOK, Asking
  <1> QED BY <1>4, <1>5

-----------------------------------------------------------------------------
(* The programs themselves are data. That each keeps the rules is a fact    *)
(* about its text which TLC evaluates; what follows from the rules is       *)
(* proved here for every text, every failure and every interrupt.           *)

(* No step changes the program.                                             *)
LEMMA TextStays ==
  ASSUME [Next]_vars
  PROVE  prog' = prog /\ code' = code
  <1>1. ASSUME NEW o, Proceed(o) PROVE prog' = prog /\ code' = code
    BY <1>1 DEF Proceed, Continue
  <1>2. ASSUME NEW e, Raise(e) PROVE prog' = prog /\ code' = code
    <2>1. CASE e \in BlockAt(at).catch
      BY <1>2, <2>1 DEF Raise, Continue
    <2>2. CASE e \notin BlockAt(at).catch
      BY <1>2, <2>2 DEF Raise, Continue
    <2> QED BY <2>1, <2>2
  <1>3. ASSUME Fails PROVE prog' = prog /\ code' = code
    BY <1>2, <1>3 DEF Fails
  <1>4. CASE Interrupted \/ Asked \/ BroughtUp \/ SwitchedOn \/ SwitchedOff
    BY <1>1, <1>2, <1>3, <1>4 DEF Interrupted, Asked, BroughtUp, SwitchedOn, SwitchedOff
  <1>5. CASE Saved \/ Restored
    BY <1>1, <1>2, <1>3, <1>5 DEF Saved, Restored
  <1>6. CASE Looked \/ LookFailed \/ Answered \/ Noted \/ Transmitted
    BY <1>1, <1>2, <1>3, <1>6 DEF Looked, LookFailed, Answered, Noted, Transmitted
  <1>7. CASE Refused \/ Ended
    BY <1>7 DEF Refused, Ended
  <1>8. CASE UNCHANGED vars
    BY <1>8 DEF vars, control
  <1> QED BY <1>4, <1>5, <1>6, <1>7, <1>8 DEF Next

(* What is invariant of every program.                                      *)
Safe == KeepsRules => Rules(code) /\ IInv

(* A program that keeps the rules keeps the invariant, in every run.        *)
THEOREM SafeAlways == Spec => []Safe
  <1>1. Init => Safe
    BY InitGivesIInv DEF Safe, KeepsRules, Disciplined, Init
  <1>2. Safe /\ [Next]_vars => Safe'
    <2> SUFFICES ASSUME Safe, [Next]_vars, KeepsRules'
                 PROVE  Rules(code)' /\ IInv'
      BY DEF Safe
    <2>1. prog' = prog /\ code' = code
      BY TextStays
    <2>2. Rules(code) /\ IInv
      BY <2>1 DEF Safe, KeepsRules
    <2> QED BY <2>1, <2>2, NextKeepsIInv
  <1> QED BY <1>1, <1>2, PTL DEF Spec

(* Whatever fails, a program that keeps the rules changes an adapter, and   *)
(* sends a frame, only on firmware it has started and with every flag it    *)
(* insists on.                                                              *)
THEOREM ProgramsAreGuarded == Spec => [](KeepsRules => Guarded)
  <1>1. Safe => (KeepsRules => Guarded)
    BY IInvGuards DEF Safe
  <1> QED BY <1>1, SafeAlways, PTL

(* However a program that keeps the rules ends, but for an interrupt of its *)
(* cleanup, it has tried to undo everything it switched on.                 *)
THEOREM ProgramsCleanUp == Spec => [](KeepsRules => CleanedUp)
  <1>1. Safe => (KeepsRules => CleanedUp)
    BY IInvCleans DEF Safe
  <1> QED BY <1>1, SafeAlways, PTL

(* Exit code 0 of a program that keeps the rules means that nothing is left *)
(* on but by design, and that no adapter it reloaded stays unanswered.      *)
THEOREM ProgramsExitHonestly == Spec => [](KeepsRules => HonestExit)
  <1>1. Safe => (KeepsRules => HonestExit)
    BY IInvIsHonest DEF Safe
  <1> QED BY <1>1, SafeAlways, PTL
=============================================================================
