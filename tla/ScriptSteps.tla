----------------------------- MODULE ScriptSteps -----------------------------
(***************************************************************************)
(* The words in which the programs of research/, scripts/ and examples/    *)
(* are written down: the calls they make on an adapter, and the            *)
(* try/except/finally around them. A program is a sequence of blocks, a    *)
(* block a sequence of steps. Scripts runs them.                           *)
(***************************************************************************)
EXTENDS Integers, Sequences, FiniteSets

(* What a step may raise: "mcu" is McuError or another RuntimeError of the  *)
(* driver, "usb" a USBError, "other" every further Exception, mostly the    *)
(* ValueError of a program; KeyboardInterrupt is no Exception.              *)
Driver == {"mcu", "usb"}
Exception == {"mcu", "usb", "other"}

(* has and lacks guard a step or a block: flags of the command line and     *)
(* keys of the result that must, or must not, be there.                     *)
Step(op, arg, key, raises) ==
    [op |-> op, on |-> 1, arg |-> arg, key |-> key, raises |-> raises,
     has |-> {}, lacks |-> {}]

If(keys, s) == [s EXCEPT !.has = keys]          \* a step or a block: if <keys>:
Unless(keys, s) == [s EXCEPT !.lacks = keys]    \* if not <keys>:
At(radio, s) == [s EXCEPT !.on = radio]         \* on another adapter

(* bringup, in most programs followed by set_monitor_mode, set_sniffer and  *)
(* tune: new firmware, with every setting and register at its default.      *)
Boot == Step("boot", "", "", Exception)
(* An access, or a bounded series of reads, that changes nothing. Read also *)
(* judges what came back, Test judges values already read.                  *)
Ask == Step("ask", "", "", Driver)
Read == Step("ask", "", "", Exception)
Test == Step("ask", "", "", {"other"})
(* dev.alive(), which never raises; the key is set if it answered.          *)
Alive(key) == Step("alive", "", key, {})
(* An assignment, and a comparison whose outcome the run does not control.  *)
Mark(key) == Step("mark", "", key, {})
Forget(key) == Step("forget", "", key, {})
Found(key) == Step("found", "", key, {})
(* parser.error unless the flag was given.                                  *)
Require(flag) == Step("require", "", flag, {})
Reject == Require("accepted")                   \* parser.error, under its condition
(* A command that switches a setting on or off: the firmware may ignore it, *)
(* and one that failed may have reached it.                                 *)
Arm(f) == Step("arm", f, "", Driver)
Undo(f) == Step("undo", f, "", Driver)
(* The bits of a register are set or cleared. That the write returned does  *)
(* not mean that it took: a masked register reads as before, and a bit that *)
(* was cleared has been seen set (rxv_report_probe). Only a look can tell.  *)
Write(f) == Arm(f)
Clear(f) == Undo(f)
(* The original value of a register is read, and put back by a write of the *)
(* same kind.                                                               *)
Save(f) == Step("save", f, "", Exception)
Restore(f) == Step("restore", f, "", Driver)
(* The setting is read: the key is set if it is still on; or the step       *)
(* raises unless it is off, or on.                                          *)
StillOn(f, key) == Step("stillon", f, key, Driver)
MustBeOff(f) == Step("mustbeoff", f, "", Driver)
MustBeOn(f) == Step("mustbeon", f, "", Driver)
(* A frame, or a burst of frames, to the transmit endpoint.                 *)
Transmit == Step("transmit", "", "", Driver)

(* Several steps: the same condition or adapter for each, and the usual     *)
(* pairs of a change and the look at what became of it.                     *)
AllIf(keys, do) == [i \in DOMAIN do |-> If(keys \cup do[i].has, do[i])]
AllAt(radio, do) == [i \in DOMAIN do |-> At(radio, do[i])]
SetBits(f) == <<Write(f), MustBeOn(f)>>
ClearBits(f) == <<Clear(f), MustBeOff(f)>>

-----------------------------------------------------------------------------
(* Blocks. Level 0 is the body of a try statement and the code around it,   *)
(* level 1 its finally clause, level 2 that of the statement around it. An  *)
(* exception that a block does not catch passes over the blocks up to the   *)
(* level escapes; one that it catches is noted under key.                   *)
Block(level, escapes, do, catch, key) ==
    [level |-> level, escapes |-> escapes, do |-> do, catch |-> catch, key |-> key,
     has |-> {}, lacks |-> {}]

(* A try without except, a clause of one, a finally inside the body.        *)
Body(do) == Block(0, 0, do, {}, "")
Handler(key, do) == If({key}, Body(do))
InnerFinally(do) == Block(1, 0, do, {}, "")
InnerFinallyTry(do, key) == Block(1, 0, do, Exception, key)

Outside(do) == Block(0, 9, do, {}, "")
Try(do, key) == Block(0, 0, do, Exception, key)
TryOnly(do, catch, key) == Block(0, 0, do, catch, key)
Finally(do) == Block(1, 1, do, {}, "")
FinallyTry(do, key) == Block(1, 1, do, Exception, key)
Lastly(do) == Block(2, 2, do, {}, "")

(* Both adapters are started, and both are reloaded whatever happens to the *)
(* first.                                                                   *)
BootBoth == <<Boot, At(2, Boot)>>

(* Faulty variant: one try around both reloads.                             *)
ReloadBothTogether ==
    <<FinallyTry(<<Boot, Alive("alive_1"), At(2, Boot), At(2, Alive("alive_2"))>>, "lost_1")>>
ReloadBoth ==
    <<FinallyTry(<<Boot, Alive("alive_1")>>, "lost_1"),
      FinallyTry(<<At(2, Boot), At(2, Alive("alive_2"))>>, "lost_2")>>
BothAfter == <<Alive("after_1"), At(2, Alive("after_2"))>>
BothAlive == {"alive_1", "alive_2"}
AllAlive == BothAlive \cup {"after_1", "after_2"}

(* Most programs that only ask: new firmware, the reads, new firmware again. *)
Reading(do) ==
    <<Try(<<Boot>> \o do \o <<Alive("alive_after")>>, "error_type"),
      FinallyTry(<<Boot, Alive("cleanup_reload_alive")>>, "cleanup_error_type")>>

(* Faulty variant: only the answer before the cleanup counts.               *)
AliveOnce == {"alive_after"}
AliveTwice == {"alive_after", "cleanup_reload_alive"}

(* Exit code 0: no row of the result has a key of bad, each has all of      *)
(* need. Keys that neither exit code nor control looks at are left out.     *)
Program(blocks, bad, need) ==
    [blocks |-> blocks, bad |-> bad, need |-> need, rows |-> 1,
     judged |-> TRUE, apart |-> FALSE, flags |-> {}, asks |-> {}, leaves |-> {},
     overlooks |-> {}]

Rows(n, p) == [p EXCEPT !.rows = n]             \* one row of the result after the other
Apart(n, p) == [p EXCEPT !.rows = n, !.apart = TRUE]    \* each row on another adapter
Flags(fs, p) == [p EXCEPT !.flags = fs]         \* flags of its command line
Asks(fs, p) == [p EXCEPT !.asks = fs, !.flags = @ \cup fs]  \* flags it insists on
Unjudged(p) == [p EXCEPT !.judged = FALSE]      \* its exit code says nothing
Leaves(fs, p) == [p EXCEPT !.leaves = fs]       \* settings it does not undo
(* Settings it puts back with no reload after, and of which the exit code   *)
(* does not say whether they are off.                                       *)
Overlooks(fs, p) == [p EXCEPT !.overlooks = fs]
=============================================================================
