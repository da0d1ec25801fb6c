# TLA+ models of mt76-usb-macos

This directory holds a specification of the parts of the driver, and of the programs that use
it, in which state, order and failure matter. The modules are translated from the source
(`file:line` below is under `src/`), model-checked with TLC on small instances and, where
marked, proved with TLAPS for every value of their constants.

## The system

| Component | State it keeps | Operations | Hard behaviour |
|---|---|---|---|
| MCU command channel (`mt7921u.py` 752-940, `c/mt7921_mcu.c`) | last sequence, drop counters, which endpoint replies use | `mcu_send`, `mcu_cmd_word`, `mcu_uni`, `mcu_wait` | replies share one endpoint with frames and events, come late, out of order or never; a 4-bit sequence repeats |
| Bring-up (`mt7921u.py` 1236-1410, `c/mt7921_dev.c`, `c/mt7921_mcu.c`) | little in the host; much in the adapter (firmware, patch, semaphore, DMA routing) | `bringup`, `load_patch`, `load_ram`, `wfsys_reset`, `dma_init` | any access may fail; the process may die anywhere and be started again on the same adapter; C ignores failures Python raises |
| Transmit library (`c/mt7921_radio.c`) | tuned channel, loaded rates, count and time of writes, reload mark, Group-5 guard | `mt7921_tune`, `mt_probe_prepare`, `mt_probe_transmit`, `mt_g5_begin/restore` | host belief against adapter truth; a failed write may have taken effect |
| Radio probe (`c/mt76_radio_probe.c`) | control flow, exit code | `main`, `dwell` | signals between any two steps, cleanup that fails half way |
| Dual capture (`scripts/dual_capture.py`) | shared timeline, client identity, per-radio window | `Radio.run`, `Timeline.learn/add`, `shared_window` | threads, a lock, one radio failing while the other runs |
| Two-radio measurements (`research/cross_measure.py`, `mt7925_mib_perturb.py`, `mt7925_mib_crosscheck.py`) | a barrier, a list of failures, counters | a thread per radio or per phase | a thread that dies before, at or after the barrier; joins that time out |
| Research probes (`research/*_probe.py` and others), measurement scripts, examples | control flow, settings and registers of the adapter, result keys | start, query, switch on, restore, transmit, reload | any call fails, the user interrupts, cleanup fails half way |
| USB discovery and open (`mt7921u.py` 223-545, `c/mt7921_usb.c`) | claimed interface, the port and id an object was made for | `open_device`, `open_device_at`, `open`, `close`, `mt7921_usb_open` | two enumerations with a replug in between, several names for one adapter, failure after the claim |
| Receive descriptors (`rxd.py`, `rxd_connac3.py`, `c/mt7921_rxd*.c`) | none | `decode` | lengths and optional groups |
| Aggregation and occupancy survey (`rxd.py` 1451-1577, `scripts/mib_survey.py`) | open aggregate, last frame, counter samples | `AggregationTracker.feed/flush`, `dwell` | missed subframes, a wrapping timestamp, a counter sampled while frames arrive |
| MT7925 class (`mt7925u.py`) | inherits the first two | capability and efuse commands, tune | |
| 802.11 parsing, PHY rates (`rxd.py`), counter windows (`c/mt7921_radio.c` 29-112), offline analysis | none | pure functions | |

How they interact. A program opens one adapter (USB open), brings it up (which uses the
register helpers and the command channel), sets monitor mode and tunes (commands), and then
alternates between reading frames and sending commands. Commands and frames share the bulk
IN endpoint once bring-up has routed replies there. The C transmit library sits beside the
command channel on the same device structure and is used by one program. The dual capture and
the two-radio measurements run one such sequence per adapter in threads, which share a timeline
or a barrier. What a program leaves on an adapter meets the next one: no process owns it.

The models are layered the same way. `McuChannel` and `Bringup` go down to the single transfer;
`CommandService` and `BootService` are what they promise, and they are shown to implement it.
`Experiment`, `RadioProbe`, `Scripts` and `Rendezvous` are written on top of those promises: a
bring-up is one step in them, and a command succeeds or fails.

`PROJECT.json` lists every component with its status, and every hazard with the properties
that would catch it.

## Modules

| Module | Models | Properties | Proved in |
|---|---|---|---|
| `McuChannel` | command channel of both drivers, firmware, capture loop | `TypeOK`, `Numbered`, `Attributed`, `Accounted`, `WaitEnds`, `ImplementsService` | `McuChannelProofs` |
| `CommandService` | what the channel promises | implemented by `McuChannel` | - |
| `Bringup` | bring-up access by access, both drivers, process death | `TypeOK`, `Ready`, `CleanRetry`, `SemReleased`, `DownloadToRom`, `ImplementsService` | `BringupProofs` |
| `BootService` | what a bring-up promises | implemented by `Bringup` | - |
| `Experiment` | transmit library and Group-5 guard | `BootLimit`, `Believed`, `ReloadOwed`, `GuardHonest`, `PacedAndPlaced` | `RadioProbeProofs` |
| `RadioProbe` (extends `Experiment`) | one run of the program | `HonestExit` (`CleanExit`, `ExitCode`), `ReloadTried`, `CarefulCaller`, `Terminates` | `RadioProbeProofs` |
| `DualCapture` | capture threads and timeline | `Identity` (`LearnedOnce`, `OneStation`), `EventsAfterIdentity`, `Listening` (`FullDwell`, `WindowShared`), `AllJoin`, `NeverReadyExcluded` | `DualCaptureProofs` |
| `Rendezvous` | three programs that measure with two radios | `Conclusive`, `BurstHeard`, `Ends` | `RendezvousProofs` |
| `ScriptSteps`, `Scripts` | the words programs are written in, and one run of a program | `HonestExit`, `CleanedUp`, `Guarded`, `ZeroMeansRestored` | `ScriptsProofs` |
| `ScriptRules` (extends `Scripts`) | the order the programs keep around what changes an adapter | `KeepsRules` (`WellFormed`, `GuardsFirst`, `UndoesAll`, `SavesFirst`, `ShowsAll`, `AsksAll`) | (by `Scripts`) |
| `DiagnosticScripts`, `QueryScripts`, `CounterScripts`, `TransmitScripts`, `StimulusScripts`, `CaptureScripts` | 90 programs in those words | (by `Scripts`) | - |
| `UsbOpen` | finding, claiming and closing an adapter, both drivers, over a changing bus | `RightAdapter` (`AsAsked`, `SamePort`, `KnownSilicon`), `RadiosApart`, `HeldExactly` (`CanGiveBack`, `SameChoice`), `AbsentIsAbsent` | `UsbOpenProofs` |
| `RxRecord` | both decoders on one transfer | `InBounds`, `Stricter` | `ReceiveProofs` |
| `Aggregation`, `Survey` (extends it) | the tracker; one dwell around it | `SameInterval` (`Bracketed`, `Occupancy`), `Conserved`, `Ppdus` (`NeverMerged`, `Whole`), `DroppedInside` | `ReceiveProofs` |

A name in parentheses is a conjunct of the property before it. Each `MC*` module instantiates
one of them; the `.cfg` files give the constants. Operators whose comment begins "Faulty variant"
are not part of the model: each changes one definition the way a plausible bug would, and a
property is kept only if such a change violates it. Every `TypeOK` follows from an inductive
invariant that is proved; that of `McuChannel` is also checked by its run.

### McuChannel and CommandService

One variable per field that matters: `msg_seq`, the phase of `mcu_wait`, the command it waits
for, and the drop counters. `rx` is the endpoint, `owed` what the firmware may still answer.
The number of a command (`id`) is a history variable that the code never sees; `Attributed`
is about it: an accepted reply carries the number of the command waited for, or of one at
least `SeqMod - 1` commands older. That exception is real: fifteen commands later the
sequence repeats, and a reply delayed that long would be accepted. `Capture` is the capture
loop between commands, which takes whatever packet is first, stale replies included.
`unclaimed` is history: packets of each kind the device delivered, less those the capture or an
accepted reply took; `Accounted` compares it with the counters and what is still queued.

`driver` selects what happens on a read timeout (Python raises, C tries again until the
deadline) and on a reply longer than the caller's buffer (refused in C only). A frame longer than
the 4096 bytes a wait reads takes the command with it (`Overrun`), in both. Not in the model: the bytes of a command and the MT7925's second test for a frame in C
(`c/mt7921_mcu.c:287`).

`CommandService` has no packets, sequences or timeouts: commands are open, their answers arrive
and are returned or lost, once. `McuChannel` implements it with the sequence read as the
command it numbers (`ImplementsService`): this adds to `Attributed` that an answer is returned or
thrown away once and never comes back, and that a call which failed has taken at most one answer
with it. All this of a queue of packets whose replies are matched by a number that repeats.

### Bringup and BootService

A stage is the next access `bringup` makes; the actions follow the code line by line. Each
access may succeed, fail without effect, or fail after taking effect. In Python a failure
raises and ends the attempt; in C a failed read reads as all ones and a failed write is
ignored, so the attempt goes on and only ends where the code tests a result. `dev` is the
adapter: the MCU (`off`, `rom`, `booting`, `running`), whether the patch is applied, who holds
the semaphore, whose image is loaded, the download path, reply routing, receive DMA and the
flush bit. `Reopen` is a process that dies at any point, or closes the device, followed by
another; `Replug` also resets the adapter. Either driver may be the next one (`driver` is
chosen anew), so what one leaves on the adapter meets the other.

What the code says of the adapter only indirectly is an external assumption: a WFSYS reset
stops the MCU and frees the patch semaphore; the ROM may or may not keep an applied patch
over it; `nic_power_ctrl` puts a running MCU back into its ROM; firmware answers commands
only when it runs and replies arrive only where the routing sends them. The extra register
reads made for logging are folded into the access before them. A process killed between
asserting and releasing the WFSYS reset is not modelled (what the silicon does then is not
known from the code). A failed read inside a read-modify-write is modelled where it changes
what matters here (the flush bit and receive DMA, `Garbled`).

`BootService` is the bring-up the other modules use, as one step: success has this attempt's
firmware running; failure may leave the old firmware running, none, or what it had loaded and
started, which may come up after the attempt gave up. `Bringup` implements it, for both drivers and
across deaths of the process. Writing it down corrected `Experiment`, in which a failed bring-up
had been one of the first two only.

### Experiment

Both chips of `Chips` are explored; the chip of the adapter is `dev.chip`. Only the MT7925 has
rate tables to prepare, only the MT7921 the Group-5 bit. The host's `mt7921_dev_t` and guard
stand beside the adapter's truth: `hw.table` the fixed-rate entries the firmware holds, `hw.chan`
where its receiver is, `hw.g5` the register bit. Every operation has an Ok and a Fails action; a
Fails action may have reached the adapter. Bring-up is the step of `BootService`. New firmware
has no tables, no channel and the default Group-5 bit. `burst` and `quiet` are history: writes
since the firmware started, and time since the last one.

`Caller = "careful"` is a caller that does nothing but bring up again after a bring-up failed,
as every program of the repository does; `"any"` is any caller that respects the header's rule
on guards. Time between the USB reset and the end of bring-up is taken as at least the
spacing (the code sleeps 500 ms twice; a signal may cut one short, but the one program with a
signal handler does not transmit after it reloads).

### RadioProbe

`pc` names the next library call of `main` or `dwell`; `Signal` may come at any point;
`Elapse` is the clock. The initial states are all adapters an earlier run, killed anywhere,
may have left. `CarefulCaller` says that every step of the program is a step of `Experiment`
with a careful caller, or none: the properties of `Experiment` hold for the program, and the
program never brings up with a guard active, through failed restores included. `--pcap` and
`--mib` are not told apart: a run without them is one in which the steps that serve them
succeed. Frame accounting inside the read loop is not modelled. A signal during setup ends with
exit code 1, not 130, as in the code. `Finish` decides the exit code, prints and closes in one
step: a signal after the decision changes nothing.

### DualCapture

One thread per radio. A body under `with self.lock` is one step, everything else interleaves,
and time may pass between any two steps. A frame is what `_handle` tells apart. Counters are
not kept, so the unlocked second look at `client_addresses` (`dual_capture.py:218`) decides
nothing in the model. `CaptureAssumption` states what `learn` requires of its caller: the
transmitter addresses of one frame belong to one station. `Listening` is what the result is
worth: a radio that did not fail was listening for the whole duration it reports, and the shared
window lies inside the time of every radio that became ready (with two radios; with three see
Findings).

### Rendezvous

The three programs differ in who runs what: `cross_measure.py` starts a thread per radio, one of
them the sender, and joins them all; the other two start one receiver thread per phase and drive the second
radio from `main`. Thread 0 is the other side of the barrier in each of them. `threading.Barrier`
is modelled from its documentation: the last to arrive opens it, an `abort` or a timeout breaks
it, and a thread that was let go but has not looked yet finds it broken if another one failed
meanwhile. Durations are open, so a timeout may strike any wait; threads are not daemons, so
the process lives until the last one ends (`Ends`). The counters a thread reads may be missing
without failing the run. `overlap` is history: `main` tunes or closes an adapter while a thread
may be using it. That does happen: after a missed rendezvous or a stuck thread `main` goes on, in
`mt7925_mib_crosscheck.py` even to the next target, since its `break` leaves the inner loop only
(line 110). `Conclusive` says that no such run ends with exit code 0.

### ScriptSteps, Scripts, ScriptRules and the programs

The research programs, measurement scripts and examples are alike: each starts an adapter or
two, asks, switches on or writes something, may transmit, puts back and reloads, and every one
has its own nesting of `try`, `except` and `finally`, its own flags and its own rule for the exit
code. They are therefore data: `ScriptSteps` has a word for each kind of call and each kind of
block, a program is a sequence of blocks, and `Scripts` is the interpreter. Six modules hold the
programs; `MCScripts` names all 90.

- Blocks. Level 0 is the body of a try and the code around it, level 1 its `finally`, level 2 the
  `finally` around that. An exception a block does not catch passes over the blocks up to the
  level it `escapes` to, and is lost if none remains; one that it catches is noted under `key`,
  and the next block runs.
- Steps. A step may raise the kinds of exception the call can raise in the program. A command or
  a register write that fails may have reached the adapter, and one that returns may not have
  taken: `SwitchedOn`, `SwitchedOff` and `Restored` leave the setting as it was or change it, both
  ways when they return and when they raise. The repository has seen this: a masked write that
  reads back zero (`research/README.md:35`), a bit that was still set after it was cleared twice
  (`docs/BAND_CONFIG_MEASUREMENTS.md:214`, `research/rxv_report_probe.py:11`). So only a look
  (`MustBeOff`, `MustBeOn`, `StillOn`) or new firmware tells what is on. A comparison whose
  outcome the run does not control may come out either way (`Found`). The user may interrupt at any step; `late`
  records an interrupt that hits the cleanup itself, which no program defends against.
- Adapters. `Init` lets settings be on from an earlier run. A bring-up puts everything back;
  one that fails may have left it, and then only an answer shows that the firmware runs.
- One command that sets two settings is one step for each (`IcsControl`), so that an interrupt
  may also come between them.
- Exit codes. 1 stands for every nonzero code. Result keys that neither the exit code nor the
  control flow looks at are left out.
- Rows. A program that repeats its body per adapter (`Apart`), or per mode or sample (`Rows`),
  does it twice or three times.
- Next step. `NextFrom` says it in one sentence: the first position, from a given one on, that no
  exception passes over, whose block may be entered and whose own condition holds.
- Left out: opening adapters, loading images and parsing arguments before the first step, except
  the flags that guard a transmission or choose a path.

`HonestExit` is about exit code 0, `CleanedUp` about any exit: whatever was switched on has
been tried to put back, by a restore or a reload, unless the user interrupted the cleanup.
`leaves` names what a program leaves on by design, `overlooks` what it puts back without a reload
and without judging what became of it: the group 5 bit of `rx_vector_probe.py`, the only one.
`HonestExit` excepts both, `ZeroMeansRestored` only the first, and `rx_vector_probe` violates it
(see Findings); in its program the loop over targets has two rounds, since the second saves what
the first may have left on. `Guarded` is about the moments at which
something is switched on or sent.

`ScriptRules` says why the programs are like that: what the text of one has to look like around a
step that changes an adapter. It knows nothing of runs.

| Rule | Asks of the text |
|---|---|
| `WellFormed` | blocks and steps are there; a caught exception is not forgotten |
| `GuardsFirst` | a start comes before each change and each frame, no exception leads from a failed start to it, and the flags it needs are tested first |
| `UndoesAll` | a cleanup comes after each change, begins with an attempt to undo it, and is passed over by nothing but an interrupt of a cleanup |
| `SavesFirst` | a register is saved after a start and before it is first written, unless the program overlooks it |
| `ShowsAll` | a reload comes after each change, and after each start that may fail unseen, and does not fail unseen itself: it ends the program, is noted under a key that makes the exit code 1, or leaves out an answer that has to be there for 0. A write that puts the setting back does not count: it may not have taken |
| `AsksAll` | a reload in a cleanup is followed by the question whether the firmware answers |

A rule talks of the flags a step tests only as far as they are fixed by the command line
(`Fixed`) or known to be set (`Given`): "before" in a text means before in a run only if what lets
the later step run lets the earlier one run too (`Leads`, `Follows`). `KeepsRules`: the program
that runs keeps all of them. It is what the theorems about programs assume, and the run
`scripts` finds it true of each of the 90, next to the three properties themselves.

### RxRecord

One transfer, given to the Python and to the C decoder of a chip (`chip`, one of `Chips`). The
fixed descriptor is reduced to what steers the walk: the announced groups, the length word, the
header padding and whether it is a frame. Each step passes one group in both decoders; `at`
records the offset a group was read from, `frame` the slice that is left. `Stricter` is the
sentence of `docs/C_PARITY.md:56`: C may reject more, but what it accepts Python reports from
the same bytes. What the words of a group mean is not modelled.

### Aggregation and Survey

`Aggregation` is the tracker as operators on a record: `Feed` is `feed`, `Close` is `_close` and
`flush`; an aggregate is the sequence of its frames' numbers. `Survey` is one `dwell` of
`mib_survey.py` around it. The air is external: subframes of PPDUs that follow each other at
once, stations that take turns, a gap before a station sends again that was on the air before,
and a radio that misses any of them. `SurveyAssumption` holds what the code relies on: that gap
is longer than the slack of the tracker (its comment measures 1000 us against 30), and a dwell
is shorter than a cycle of either counter. A station that came back sooner, another one's short
frame in between, would be merged. `seen` records, for the properties only, how much had been sent when the
firmware took a sample. `Bracketed` is what makes the residual the script reports meaningful:
the frames billed lie between the two samples, and what is missing there is in
`frames_dropped_by_mcu_reads` or `usb_errors`. `Whole` excepts what the code cannot do: an
A-MPDU over the wrap of the timestamp is split, since `feed` compares timestamps as they are.
The reads of `mcu_counters` before the first sample are in the initial states (drops already
counted, a late reply of theirs). The register path, and a failed transfer that loses nothing
(it only raises the error count), are left out.

### UsbOpen

`OpenDevice`, `ResolveRadios` and `OpenDeviceAt` choose an adapter; `Enumerate`, `Misfit`,
`Claim`, `ClaimFails`, `ReadChip`, `OtherChip` and `ReadFails` are the steps of `Mt7921u.open`;
the actions that begin with C are `mt7921_usb_open`, interface by interface. `Find` is one
enumeration: the bus may change between any two steps. `obj` is the device object, with the id
and port it will look for again; `holds` is what the operating system has given to a caller.
An adapter that is plugged in again counts as another one. What the model shows beside its
properties, none of which contradicts a document:

- a chip id that cannot be read leaves the interface claimed and `open` raising; inside `with`,
  `__exit__` is not called, so the claim lasts until the object is closed or collected
  (`ReadFails`; `CanGiveBack` says that a `close()` would release it);
- `open_device` with an id that is attached but not in `SUPPORTED_DEVICES` raises `KeyError`,
  where `Mt7921u.open` and C refuse with a message (second disjunct of `OpenDevice`);
- a radio of `dual_capture` named by id is looked up by port alone afterwards: replaced there
  by another model, it captures with that (`AsAsked` promises the port only);
- C passes over an interface that it cannot open, so it may accept a layout that Python calls
  ambiguous (`SameChoice` holds when nothing was passed over), reads no chip id when it opens
  and does not look at `MT76_USB_ADDR`.

## Runs

| Run | Bounds | Shows |
|---|---|---|
| `mcu` | both drivers, sequence space of 3 (cycle of 2), 3 commands, 2 packets queued, counters mod 2 | numbering and attribution past the point where the sequence wraps; accounting across counter wrap; waits end; the channel implements `CommandService` |
| `bringup` | 3 attempts by either driver, 2 patch sections, 2 RAM regions | a clean run after two spoiled ones, of the same or the other driver; first and later sections; bring-up implements `BootService` |
| `experiment` | both chips, careful caller, limit 2, spacing 2 ticks, 3 writes explored per boot | limit and pacing with one write beyond the limit possible if the code allowed it |
| `probe` | both chips, limit 2, dwell of 4 ticks, first write after 1 | every path of `main`, dwells that finish and dwells that run out of time; the program is a careful caller |
| `dual` | 2 radios that boot by 1, duration 1, 2 frames each, a two-link client and an access point | learning and event order, windows, termination |
| `rendezvous` | `cross_measure` with 1 receiver and a sender, with 2, and with 2 and no sender; `perturb` with its five phases; `crosscheck` with two targets, one twice; bursts of 2 | what an exit code of 0 means, that nothing is sent to nobody, that the process ends |
| `scripts` | 90 programs, repetitions cut to two or three, each on an adapter with nothing or everything switched on before | what exit code 0 promises though no write need have taken, what is put back, what is sent when; that each text keeps the rules |
| `usb_open` | 2 callers, 5 adapters of 2 models and a foreign one, 2 ports, 3 plugs, endpoints 1 and 2 for 2 and 6 | what is opened, held and refused |
| `receive` | a record: both chips, all 32 group sets, 24 lengths on and around the group boundaries up to a full record, two paddings. A dwell: 3 subframes of 2 stations in 5 kinds, 2 packets queued, counter and timestamp that wrap in the dwell. The dwell runs after one of the records; neither looks at the other's variables | bounds and agreement of the two decoders; the interval of the billed frames, and the grouping |
| `scripts_unjudged` | `rx_vector_probe` | violated: see Findings |
| `dual_never_ready` | 3 radios, boots end by 2, duration 2, no frames | violated: see Findings |
| `survey_dropped` | 2 subframes | violated: see Findings |

The bounds are enough because each hazard needs few of each thing: one wrap of the sequence,
one failure after one success, two radios for a race and a third for a window the failed one is
not part of, one break out of a loop that leaves another round to come. A program of `scripts`
is explored completely: only its loops are cut. Deadlock checking is off where the system stops
by design: a program that exited, threads that ended, a dwell that is over.

### Fairness

`McuChannel`: the host thread keeps running and time advances; nothing is assumed of the
device, which may stay silent or flood the endpoint. `RadioProbe`: every library call returns
(each transfer has a timeout, each poll a bound) and time advances; signals are not fair.
`DualCapture`: every thread is scheduled and every read has a timeout; time advances. Boots
end by `BootBy`, because all their polls and waits are bounded. `Rendezvous`: `main` and every
thread are scheduled and each call comes back (transfers and barrier waits have timeouts, dwells
and bursts a length); no failure and no interrupt is assumed to happen.

## Proofs

Proved for every value of the constants, from the named assumptions in the modules:

- `McuChannelProofs`: `TypeCorrect`, `SequencesNumbered`, `RepliesAttributed`. `Attributed` alone is
  not inductive: it has to know that every sequence in flight is the one its command was
  numbered with, which is `Numbered`. Acceptance then gives two commands with equal sequence,
  and a lemma on the modulus turns that into a distance of at least `SeqMod - 1`.
  `PacketsAccounted` adds the queue: each packet that leaves it is one that a counter or the
  capture saw. `ServiceImplemented` maps every step to one of `CommandService` or a stutter.
- `BringupProofs`: `BringupInvariant` and from it `Ready`, `CleanRetry`, `SemReleased`,
  `DownloadToRom`. The invariant is `TypeOK`, `Evidence` and `Expected`. `Evidence` is what
  holds whatever failed, because each late stage is reached only by a reply from the MCU;
  `Expected` is what holds as long as every write took effect, which the Python driver knows
  and the C driver does not. That split is why `Ready` holds in C, which ignores failed writes.
  `ServiceImplemented` adds `Started` (firmware is started only inside an attempt) and maps each
  access to a step of `BootService` or a stutter.
- `RadioProbeProofs`, first part: `LibraryInvariant` (an inductive invariant that adds to the
  properties of `Experiment` how `count` bounds `burst` and how `since` relates to `quiet`) and
  from it `LimitPerBoot` (assuming a careful caller), `BeliefsHold`, `ReloadIsOwed`,
  `GuardIsHonest` and the action property `WritesPacedAndPlaced`.
- `RadioProbeProofs`, second part: `ProbeInvariant`, and from it `ProgramIsCareful` (every step of
  the program is one of `Experiment` with a careful caller), `ReloadIsTried`, `ExitIsHonest`.
  The program starts on adapters that need not satisfy the library's invariant: an earlier run
  may have left a rate table that nobody marked. So that invariant is split into `Sound`, which
  holds from the start, and `ReloadOwed`, which holds from the first bring-up on. `Flow` says
  of each place of the program what is armed, tuned, loaded and owed there.
- `ReceiveProofs`, first part: `RecordSafe`, and from it `RecordInBounds`, `RecordStricter`, for
  lengths of every size. The invariant adds `Lockstep`: as long as C has not rejected the record,
  both decoders are at one offset within both lengths and have taken the same fields.
- `RendezvousProofs`: `RendezvousInvariant`, and from it `BurstsAreHeard` and
  `SuccessIsConclusive`, for any plan of phases and any number of receivers. The key is `Sampled`:
  who has passed the sampling is in `sampled`, and behind an open barrier so is everyone it was
  for, hence whoever sends knows that the others have read their counters. `Joined` and `Driven`
  say where the threads are while `main` is in its loop, for the two shapes of program.
  `PlansAssumption` says what the programs make of a command line: `cross` has one phase,
  `crosscheck` sends in none.
- `DualCaptureProofs`: `CaptureInvariant`, and from it `IdentityIsTheClients`,
  `EventsFollowIdentity`, `EveryRadioListens`, for any number of radios. The list of learned
  addresses grows only at its end and its times never decrease, so what was known by a time
  (`KnownBy`) never shrinks; a thread between two steps holds a subset of what is known now. For
  the windows, the least and greatest of a set of times are taken from the well-foundedness of
  the naturals. `RunAssumption`: there is a radio and a frame, and a frame names finitely many
  addresses.
- `UsbOpenProofs`: `OpenInvariant`, and from it `AdapterIsRight`, `RadiosStayApart`, `HoldsExactly`,
  `AbsenceIsReal`, for any bus, any number of adapters and programs. The invariant is one
  formula per program and kind of program (`OneInv`); `Suits` says that an adapter answers what
  the object and the environment ask, and stays true as adapters come and go because an adapter
  keeps the port it was plugged in at. What one program does leaves the formulas of the others
  alone (`Frame`). For C, the interfaces that passed are described as a set with at most one
  member, never counted. `UsbOpenAssumption`: descriptors are sequences of interfaces, every
  supported model has a class with chip ids, the command line and the environment name ports, and
  `--radio` gives an id or a port; `NoneAssumption`: the value that stands for nothing is no object.
- `ReceiveProofs`, second part: `DwellInvariant`, and from it `TypesHold`, `OneInterval`, `BilledOnce`,
  `AggregatesArePpdus`, for any traffic. The invariant orders the subframes on the air
  (`AirOrder`), the frames in the queue, and both against the samples (`Between`); `Losses`
  accounts for each frame of the interval that was not billed; `Remembers` which subframe the
  tracker's last timestamp and airtime belong to. That timestamps compared without their wrap
  still never merge two PPDUs is `DifferenceIsTrue`: a difference of remainders that lies in
  the window is the true difference, as long as the dwell is shorter than a cycle. What
  `FlattenSeq` returns when an aggregate is appended or extended is proved through the least
  index at which two sequences would differ, since no induction principle can be used here.
- `ScriptsProofs`: `SafeAlways`, and from it `ProgramsAreGuarded`, `ProgramsCleanUp`,
  `ProgramsExitHonestly`, for any list of programs: whatever program runs, if its text keeps the
  rules, the property holds, on any number of adapters and rows and whichever step fails or is
  interrupted. The argument has four parts.
  Control: every action is one of seven kinds that go on or throw (`WentOn`, `Threw`), and in
  both cases nothing between the old and the new position could have been taken; so what leads to
  a step has been passed (`PassedOK`), and an adapter that was started before a step and has
  nothing switched on since is clean (`StartedOK`). `Guarded` follows from that.
  Cleaning up: at a switch its cleanup lies ahead, cannot be passed over and keeps its condition;
  every step preserves that or reaches it (`OwedOK`, with `Reached` and `Promised`). A restore puts
  back what was saved, so it has to be known that what was saved was off (`SavedOK`).
  Exit code: nothing is known of a write that puts a setting back, so a setting that is on is
  either one whose adapter will be started anew, which will not fail unseen (`Prospect`), or the exit code is already bound not to be 0 (`Doomed`), and then it stays so
  (`DoomedStays`). A missing answer dooms only if no other step can give it, which is `UniqueOK`.
  The same for adapters whose reload has not been answered for (`SilentOK`, `Asking`).

Strengthenings were first checked by TLC as invariants of the component's run. One attempt failed
for a good reason: in an earlier `Survey` a station waited for the gap only when nobody else had
sent since, and `NeverMerged` could not be proved, because it was false for airtimes below the
slack. The run had used longer ones.

Model-checked only: the liveness properties `WaitEnds`, `Terminates`, `AllJoin`, `Ends` (liveness
and ENABLED are out of the prover's reach), and `KeepsRules`, a fact about a finite list of texts.
Both together reach further than the run: a program that repeats its body per row keeps the rules
for any number of rows, since these look at the text of one row, so that for it the theorem covers
the repetitions that the run cuts.

## Findings

1. `NeverReadyExcluded`. `shared_window` takes the end over every `stopped_at`
   (`scripts/dual_capture.py:259`), including the stamp of radios that failed before they
   were ready; its docstring says they are excluded. It takes three radios to see it.
2. `DroppedInside`. `dwell` starts counting dropped frames before its first counter read
   (`scripts/mib_survey.py:182`), so the frames that read discards ahead of its own reply, sent
   before the counter was sampled, are reported as lying inside the counter's interval
   (`scripts/mib_survey.py:294`). The count is thereby too high, never too low.

3. `ZeroMeansRestored`. `rx_vector_probe.py --g5-cycle` writes the original value back after
   each target, reads it again into `restored_register` (line 292) and leaves that out of its
   exit code (line 298); no reload follows. Where the write did not take, it exits with 0 and
   group 5 left on. Its docstring says that it "then restores it" (line 7),
   `docs/C_PARITY.md:15` has "saved bit/readback, restore on failure as well as success" for the
   same cycle, and `mt_g5_restore` in C does fail when the readback differs
   (`c/mt7921_radio.c:135`). The next start clears the bit. Every other program
   reloads after what it changes and does not leave on by design (`ShowsAll`).

What the models show beside their properties, and no document denies:

- `mt7921_bringup` zeroes the transmit count (`c/mt7921_dev.c:154`) before the firmware has
  restarted. With `Caller = "any"`, `BootLimit` is violated: a caller that tunes again after a
  failed bring-up that left the old firmware up gets another allowance in the same boot. No
  program here does, and under that discipline the limit is proved.
- `cross_measure.py:226` accepts a burst exactly as long as the dwell; with the time each write
  takes, its tail may fall after the receivers' windows.
- `ipi_hist_cmd.py` is the one program that exits with 0 and leaves settings on by design, which
  the next start clears (`Leaves`); a user who interrupts a cleanup stops it in every program.
- The queue of frames from before a retune that `roam_watch.py:106` filters out holds only what
  arrived during the commands: each reply of the tune was waited for on the same endpoint, and
  the wait drains what is in front of it.

## Not modelled, and why

- Byte layouts of commands, descriptors and frames, 802.11 parsing and PHY rates: pure functions
  of bytes, which the repository's golden, parity and fuzz tests pin.
- `center_channel` and the counter arithmetic of `c/mt7921_radio.c`: a table lookup and a subtraction.
- Offline analysis (`research/control_frames.py`, `csi_correlation.py`, `tx_timing_analysis.py`
  and others that read recorded files), firmware triage, documentation checks, evidence files.
- `c/mt7921_smoke.c`, a plan runner over modelled calls; `scripts/c_radio_pair.py`, whose only
  subject are deadlines between two processes; `research/windows/qualify.py`, which runs programs
  of `Scripts` one after the other and starts the firmware again after one that failed.
- `mib_survey.py`'s register path and its loop over targets; what `roam_watch` and `scan` conclude.
- Real time is counted in ticks or left open; the duration of transfers is bounded by their
  timeouts only.

## Plan

Done: command channel, bring-up and the services they implement; transmit library and the program
that uses it; dual capture, rendezvous; opening of adapters; the receive walk and the survey; the
programs that drive an adapter and the rules they keep; the theorems of every component.
Next:

1. Action properties from the invariants there are: the order of steps in `UsbOpen`, the
   capture's list that only grows.
2. `RadioPair`: two probe processes under `scripts/c_radio_pair.py`.
