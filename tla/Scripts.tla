------------------------------- MODULE Scripts -------------------------------
(***************************************************************************)
(* One run of one of the programs of research/, scripts/ and examples/ on  *)
(* one or two adapters. Any access may fail, and the user may interrupt at *)
(* any step. The adapters are as an earlier run left them, killed or not.  *)
(* Programs gives the programs in the words of ScriptSteps.                *)
(***************************************************************************)
EXTENDS ScriptSteps

CONSTANTS Programs      \* name -> program

VARIABLES
    prog,       \* the name of the program
    code,       \* its blocks, exit code and flags
    out,        \* flags given, keys of the result and local flags that are set
    row,        \* which row of the result
    at,         \* <<block, step>> that is next
    raised,     \* the exception that is propagating, or None
    passed,     \* the level up to which it passes over blocks
    failed,     \* an earlier row makes the exit code 1
    exit,       \* the exit code, NoExit while running
    late,       \* an interrupt arrived while cleanup was under way
    used,       \* adapters this run has begun to start
    mine,       \* adapters whose firmware this row of this run has started
    on,         \* settings an adapter has on
    owed,       \* settings this run switched on and has not tried to undo since
    saved,      \* registers whose original value has been read
    silent      \* adapters whose cleanup reload has not been answered for

control == <<prog, code, row, at, raised, passed, failed, exit, late>>
vars == <<control, out, used, mine, on, owed, saved, silent>>

None == "none"
NoExit == -1
End == <<0, 0>>

(* A position is a block and a step of it; End comes after all of them.      *)
BlockOf(c, p) == c.blocks[p[1]]
StepOf(c, p) == BlockOf(c, p).do[p[2]]
PositionsOf(c) == UNION {{b} \X DOMAIN c.blocks[b].do : b \in DOMAIN c.blocks}

Precedes(p, q) ==
    p # End /\ (q = End \/ p[1] < q[1] \/ (p[1] = q[1] /\ p[2] < q[2]))

Blocks == code.blocks
BlockAt(p) == BlockOf(code, p)
StepAt(p) == StepOf(code, p)
Positions == PositionsOf(code)
Steps == {StepAt(p) : p \in Positions}
Settings ==
    (IF code.apart THEN 1..code.rows ELSE {s.on : s \in Steps})
        \X ({s.arg : s \in Steps} \ {""})

-----------------------------------------------------------------------------
(* Control: which step is next                                              *)

Holds(x, o) == x.has \subseteq o /\ x.lacks \cap o = {}

(* Steps follow each other, and blocks. A step is next if no exception      *)
(* passes over its block, if the condition of its block holds when that is  *)
(* entered, and if its own holds.                                           *)
After(p) == IF p[2] < Len(BlockAt(p).do) THEN <<p[1], p[2] + 1>>
            ELSE IF p[1] < Len(Blocks) THEN <<p[1] + 1, 1>>
            ELSE End

Takes(p, inside, r, l, o) ==
    /\ r = None \/ BlockAt(p).level > l
    /\ p[1] = inside \/ Holds(BlockAt(p), o)
    /\ Holds(StepAt(p), o)

NextFrom(start, inside, r, l, o) ==
    LET ahead == {p \in Positions : ~Precedes(p, start) /\ Takes(p, inside, r, l, o)}
    IN CHOOSE p \in ahead \cup {End} : \A q \in ahead : ~Precedes(q, p)

Continue(start, r, l, o) ==
    /\ at' = NextFrom(start, at[1], r, l, o)
    /\ out' = o
    /\ raised' = r
    /\ passed' = l
    /\ UNCHANGED <<prog, code, row, failed, exit>>

Proceed(o) == Continue(After(at), raised, passed, o) /\ UNCHANGED late

(* An exception leaves the block, caught or not.                            *)
Raise(e) ==
    LET b == BlockAt(at)
        rest == After(<<at[1], Len(b.do)>>)
    IN IF e \in b.catch
         THEN Continue(rest, raised, passed, out \cup {b.key})
         ELSE Continue(rest, e, b.escapes, out)

Running == exit = NoExit /\ at # End
Current == StepAt(at)
Is(op) == Running /\ Current.op = op
Radio == IF code.apart THEN row ELSE Current.on
Setting == <<Radio, Current.arg>>

-----------------------------------------------------------------------------
Start(o) == NextFrom(<<1, 1>>, 0, None, 0, o)

Init ==
    /\ prog \in DOMAIN Programs
    /\ code = Programs[prog]
    /\ out \in SUBSET code.flags
    /\ row = 1
    /\ at = Start(out)
    /\ raised = None
    /\ passed = 0
    /\ failed = FALSE
    /\ exit = NoExit
    /\ late = FALSE
    /\ used = {}
    /\ mine = {}
    /\ on \in {{}, Settings}
    /\ owed = {}
    /\ saved = {}
    /\ silent = {}

Adapter == <<used, mine, on, owed, saved, silent>>

Fails == (\E e \in Current.raises : Raise(e)) /\ UNCHANGED late

Interrupted ==
    /\ Running
    /\ Raise("interrupt")
    /\ late' = (late \/ BlockAt(at).escapes \in 1..2)
    /\ UNCHANGED Adapter

(* Reads, judgements and everything else that leaves the adapter as it was. *)
Asked ==
    /\ Is("ask")
    /\ Proceed(out) \/ Fails
    /\ UNCHANGED Adapter

(* bringup: what a failed one left running is not known. In a cleanup, only *)
(* an answer tells whether the new firmware runs.                           *)
BroughtUp ==
    /\ Is("boot")
    /\ used' = used \cup {Radio}
    /\ owed' = {s \in owed : s[1] # Radio}
    /\ \/ /\ on' = {s \in on : s[1] # Radio}
          /\ mine' = mine \cup {Radio}
          /\ Proceed(out)
       \/ /\ on' \in {on, {s \in on : s[1] # Radio}}
          /\ mine' = mine \ {Radio}
          /\ Fails
    /\ silent' = IF BlockAt(at).level = 0 THEN silent ELSE silent \cup {Radio}
    /\ UNCHANGED saved

(* A command or a register write: whether it returns or raises, the setting *)
(* may have changed or not.                                                 *)
SwitchedOn ==
    /\ Is("arm")
    /\ on' \in {on, on \cup {Setting}}
    /\ owed' = owed \cup {Setting}
    /\ Proceed(out) \/ Fails
    /\ UNCHANGED <<used, mine, saved, silent>>

SwitchedOff ==
    /\ Is("undo")
    /\ on' \in {on, on \ {Setting}}
    /\ owed' = owed \ {Setting}
    /\ Proceed(out) \/ Fails
    /\ UNCHANGED <<used, mine, saved, silent>>

Saved ==
    /\ Is("save")
    /\ \/ /\ saved' = (saved \ {<<Setting, TRUE>>, <<Setting, FALSE>>})
                        \cup {<<Setting, Setting \in on>>}
          /\ Proceed(out)
       \/ Fails /\ UNCHANGED saved
    /\ UNCHANGED <<used, mine, on, owed, silent>>

(* The value that was read is written back, whatever it was, and the write  *)
(* takes or not; without a value the program has nothing to write and says  *)
(* so.                                                                      *)
Restored ==
    /\ Is("restore")
    /\ \/ \E was \in BOOLEAN :
            /\ <<Setting, was>> \in saved
            /\ on' \in {on, IF was THEN on \cup {Setting} ELSE on \ {Setting}}
            /\ owed' = owed \ {Setting}
            /\ Proceed(out) \/ Fails
       \/ /\ \A was \in BOOLEAN : <<Setting, was>> \notin saved
          /\ Raise("other")
          /\ UNCHANGED <<late, on, owed>>
    /\ UNCHANGED <<used, mine, saved, silent>>

(* The setting is read: reported, or insisted on.                           *)
Looked ==
    /\ \/ /\ Is("stillon")
          /\ Proceed(IF Setting \in on THEN out \cup {Current.key} ELSE out \ {Current.key})
       \/ Is("mustbeoff") /\ Setting \notin on /\ Proceed(out)
       \/ Is("mustbeon") /\ Setting \in on /\ Proceed(out)
    /\ UNCHANGED Adapter

LookFailed ==
    /\ \/ Is("stillon") /\ Fails
       \/ Is("mustbeoff") /\ (Fails \/ (Setting \in on /\ Raise("other") /\ UNCHANGED late))
       \/ Is("mustbeon") /\ (Fails \/ (Setting \notin on /\ Raise("other") /\ UNCHANGED late))
    /\ UNCHANGED Adapter

Answered ==
    /\ Is("alive")
    /\ \/ Proceed(out \cup {Current.key}) /\ silent' = silent \ {Radio}
       \/ Proceed(out \ {Current.key}) /\ UNCHANGED silent
    /\ UNCHANGED <<used, mine, on, owed, saved>>

Noted ==
    /\ \/ Is("found") /\ Proceed(out \cup {Current.key})
       \/ Is("found") /\ Proceed(out \ {Current.key})
       \/ Is("mark") /\ Proceed(out \cup {Current.key})
       \/ Is("forget") /\ Proceed(out \ {Current.key})
       \/ Is("require") /\ Current.key \in out /\ Proceed(out)
    /\ UNCHANGED Adapter

Refused ==
    /\ Is("require")
    /\ Current.key \notin out
    /\ exit' = 2
    /\ UNCHANGED <<prog, code, row, at, raised, passed, failed, late, out, Adapter>>

Transmitted ==
    /\ Is("transmit")
    /\ Proceed(out) \/ Fails
    /\ UNCHANGED Adapter

(* The end of a row: the traceback of an exception nobody caught, the next  *)
(* row, or the exit code over all of them.                                  *)
RowFailed == out \cap code.bad # {} \/ ~(code.need \subseteq out)

Ended ==
    /\ exit = NoExit
    /\ at = End
    /\ \/ /\ raised # None
          /\ exit' = 1
          /\ UNCHANGED <<row, at, failed, out, mine, saved>>
       \/ /\ raised = None
          /\ row = code.rows
          /\ exit' = IF failed \/ RowFailed THEN 1 ELSE 0
          /\ UNCHANGED <<row, at, failed, out, mine, saved>>
       \/ /\ raised = None
          /\ row < code.rows
          /\ row' = row + 1
          /\ failed' = (failed \/ RowFailed)
          /\ out' = out \cap code.flags
          /\ at' = Start(out')
          /\ mine' = {}
          /\ saved' = {}
          /\ UNCHANGED exit
    /\ UNCHANGED <<prog, code, raised, passed, late, used, on, owed, silent>>

Next ==
    \/ Interrupted \/ Asked \/ BroughtUp \/ SwitchedOn \/ SwitchedOff
    \/ Saved \/ Restored \/ Looked \/ LookFailed \/ Answered
    \/ Noted \/ Refused \/ Transmitted \/ Ended

Spec == Init /\ [][Next]_vars

-----------------------------------------------------------------------------
LeftOn == {s[2] : s \in {s \in on : s[1] \in used}}
Owed == {s[2] : s \in owed}
Excused(c) == c.leaves \cup c.overlooks

(* Exit code 0 means that whatever the program, or one before it, switched  *)
(* on is off again on every adapter, although no write need have taken, but *)
(* for what it leaves on by design or overlooks, and that every adapter it  *)
(* reloaded in its cleanup has answered since.                              *)
HonestExit ==
    exit = 0 => /\ LeftOn \subseteq Excused(code)
                /\ code.judged => silent = {}

(* The same without the exception, as rx_vector_probe says of itself: what  *)
(* it changes it "then restores".                                           *)
ZeroMeansRestored == exit = 0 => LeftOn \subseteq code.leaves

(* However the program ends, unless the user interrupts its cleanup, it has *)
(* tried to undo everything it switched on: no step that fails, and no      *)
(* first cleanup that fails, keeps it from that.                            *)
CleanedUp == exit \in {0, 1} /\ ~late => Owed \subseteq code.leaves

(* A setting is switched on, by a command or a register, and a frame sent   *)
(* only on firmware this run has started and with the flags the program     *)
(* insists on, a frame never without the acknowledgement of experimental    *)
(* transmission.                                                            *)
Guarded ==
    Running /\ Current.op \in {"arm", "transmit"} =>
        /\ Radio \in mine
        /\ code.asks \subseteq out
        /\ Current.op = "transmit" => "transmit" \in out
=============================================================================
