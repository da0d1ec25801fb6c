------------------------------- MODULE UsbOpen -------------------------------
(***************************************************************************)
(* How a program comes to hold an adapter: find_supported_devices,         *)
(* open_device, open_device_at and Mt7921u.open of mt7921u.py, the         *)
(* inventory step of scripts/dual_capture.py, and mt7921_usb_open of       *)
(* c/mt7921_usb.c. Each of them enumerates the bus once or twice and acts  *)
(* on what it found later, while adapters come and go and other programs   *)
(* claim the same interfaces.                                              *)
(*                                                                         *)
(* External: the bus (a port has at most one adapter, an adapter that is   *)
(* plugged in again counts as another one), the descriptors, and the       *)
(* operating system, which gives an interface to one program at a time.    *)
(* Interfaces have their first alternate setting only.                     *)
(***************************************************************************)
EXTENDS Integers, FiniteSets, Sequences

CONSTANTS
    None,
    Unit,       \* adapters
    Port,       \* "bus:address"
    Caller,     \* programs, or threads of one, that open an adapter
    Desc,       \* Unit -> [id, chipid, intfs]; an interface is [wifi, eps],
                \* an endpoint [bulk, in]
    Supported,  \* SUPPORTED_DEVICES: USB id -> family of chips
    ChipIds,    \* CHIP_IDS: family -> chip ids its class drives
    NBulkIn, NBulkOut,
    Jobs,       \* Caller -> [kind, cls, id, addr]: what the programs ask for
    Envs,       \* [id, addr]: MT76_USB_ID and MT76_USB_ADDR
    MaxPlugs    \* bound: how many adapters are ever plugged in

Kind == {"Mt7921u", "open_device", "radio", "C"}

ASSUME UsbOpenAssumption ==
    /\ NBulkIn \in Nat /\ NBulkOut \in Nat /\ MaxPlugs \in Nat
    /\ IsFiniteSet(Unit)
    /\ None \notin Unit \cup Port \cup DOMAIN Supported
    /\ \A i \in DOMAIN Supported : Supported[i] \in DOMAIN ChipIds
    /\ \A u \in Unit : Desc[u].intfs \in Seq([wifi : BOOLEAN,
                                  eps : Seq([bulk : BOOLEAN, in : BOOLEAN])])
    /\ \A e \in Envs : e.addr \in Port \cup {None}
    /\ \A j \in Jobs, c \in Caller :
        /\ j[c].kind \in Kind
        /\ j[c].addr \in Port \cup {None}
        /\ j[c].kind = "Mt7921u" => j[c].cls \in DOMAIN ChipIds
        \* parse_radio: a selector is a USB id or a port.
        /\ j[c].kind = "radio" => None \in {j[c].id, j[c].addr}

VARIABLES
    bus,        \* unit -> [port, on]: where it was plugged in, if it still is
    env,        \* the environment, which does not change
    job,
    pc,
    absent,     \* whether the last attempt found no adapter at all
    obj,        \* the device object: [cls, usb_id, address], or None
    target,     \* the adapter the last enumeration chose
    dev,        \* self.dev
    walk,       \* C: [next, qualifying, skipped] over the interfaces
    holds,      \* caller -> {<<unit, interface>>}; 0 is the device itself
    picked      \* history: [id, port] of the adapter an object was made for

asking == <<env, job>>
python == <<obj, dev, picked>>
vars == <<bus, asking, pc, absent, python, target, walk, holds>>

Family == DOMAIN ChipIds
Intf(u) == DOMAIN Desc[u].intfs
Attached(u) == bus[u].on
Known(u) == Desc[u].id \in DOMAIN Supported
Class(u) == Supported[Desc[u].id]

Fresh == [next |-> 1, qualifying |-> 0, skipped |-> {}]

Init ==
    /\ bus = [u \in Unit |-> [port |-> None, on |-> FALSE]]
    /\ env \in Envs
    /\ job \in Jobs
    /\ pc = [c \in Caller |-> IF job[c].kind = "Mt7921u" THEN "built" ELSE "new"]
    /\ absent = [c \in Caller |-> FALSE]
    /\ obj = [c \in Caller |-> IF job[c].kind = "Mt7921u"
                THEN [cls |-> job[c].cls, usb_id |-> job[c].id,
                      address |-> job[c].addr]
                ELSE None]
    /\ target = [c \in Caller |-> None]
    /\ dev = [c \in Caller |-> None]
    /\ walk = [c \in Caller |-> Fresh]
    /\ holds = [c \in Caller |-> {}]
    /\ picked = [c \in Caller |-> None]

-----------------------------------------------------------------------------
(* The bus.                                                                 *)

Plug(u, p) ==
    /\ bus[u].port = None
    /\ Cardinality({v \in Unit : bus[v].port # None}) < MaxPlugs
    /\ \A v \in Unit : Attached(v) => bus[v].port # p
    /\ bus' = [bus EXCEPT ![u] = [port |-> p, on |-> TRUE]]
    /\ UNCHANGED <<asking, pc, absent, python, target, walk, holds>>

Unplug(u) ==
    /\ Attached(u)
    /\ bus' = [bus EXCEPT ![u].on = FALSE]
    /\ UNCHANGED <<asking, pc, absent, python, target, walk, holds>>

Held(u, i) == \E c \in Caller : <<u, i>> \in holds[c]

-----------------------------------------------------------------------------
(* Enumeration.                                                             *)

\* Faulty variant: the environment overrides what was given.
OrEnvFirst(given, default) == IF default # None THEN default ELSE given

Or(given, default) == IF given # None THEN given ELSE default

Find(usb_id, address) ==
    {u \in Unit :
        /\ Attached(u)
        /\ IF usb_id # None THEN Desc[u].id = usb_id ELSE Known(u)
        /\ address # None => bus[u].port = address}

FindSupported(usb_id, address) == Find(Or(usb_id, env.id), Or(address, env.addr))

Inventoried == {u \in Unit : Attached(u) /\ Known(u)}

\* An attempt that ends here, in an exception or an error code; the caller
\* may try again from `at`.
Refuse(c, at, found) ==
    /\ pc' = [pc EXCEPT ![c] = at]
    /\ absent' = [absent EXCEPT ![c] = found = {}]
    /\ target' = [target EXCEPT ![c] = None]

-----------------------------------------------------------------------------
(* open_device: choose an adapter, and make an object of its class that     *)
(* will find it again. An id that SUPPORTED_DEVICES lacks is a KeyError.    *)

\* Faulty variant: the object remembers the model only.
ObjectForId(u) == [cls |-> Class(u), usb_id |-> Desc[u].id, address |-> None]

ObjectFor(u) == [cls |-> Class(u), usb_id |-> Desc[u].id, address |-> bus[u].port]

Make(c, u) ==
    /\ obj' = [obj EXCEPT ![c] = ObjectFor(u)]
    /\ picked' = [picked EXCEPT ![c] = [id |-> Desc[u].id, port |-> bus[u].port]]
    /\ pc' = [pc EXCEPT ![c] = "built"]
    /\ UNCHANGED <<absent, target, dev>>

OpenDevice(c) ==
    /\ job[c].kind = "open_device" /\ pc[c] = "new"
    /\ LET found == FindSupported(job[c].id, job[c].addr) IN
       \/ /\ Cardinality(found) # 1
          /\ Refuse(c, "new", found)
          /\ UNCHANGED python
       \/ \E u \in found :
            /\ found = {u} /\ ~Known(u)
            /\ Refuse(c, "new", found)
            /\ UNCHANGED python
       \/ \E u \in found :
            /\ found = {u} /\ Known(u)
            /\ Make(c, u)
    /\ UNCHANGED <<bus, asking, walk, holds>>

-----------------------------------------------------------------------------
(* dual_capture: main resolves the selectors of all radios against one      *)
(* inventory, each of them a USB id or a port; then every radio's thread    *)
(* calls open_device_at, which does not look at the environment.            *)

Radios == {c \in Caller : job[c].kind = "radio"}
Matches(c) == {u \in Inventoried : \/ Desc[u].id = job[c].id
                                  \/ bus[u].port = job[c].addr}
SameAdapter(c, d) == Matches(c) = Matches(d)
SameSelector(c, d) == <<job[c].id, job[c].addr>> = <<job[d].id, job[d].addr>>

\* Faulty variant: selectors are compared as they are written.
ResolvableBySelector ==
    /\ \A c \in Radios : Cardinality(Matches(c)) = 1
    /\ \A c, d \in Radios : c # d => ~SameSelector(c, d)

Resolvable ==
    /\ \A c \in Radios : Cardinality(Matches(c)) = 1
    /\ \A c, d \in Radios : c # d => ~SameAdapter(c, d)

PortOf(c) == bus[CHOOSE u \in Matches(c) : TRUE].port

ResolveRadios ==
    /\ Radios # {}
    /\ \A c \in Radios : pc[c] = "new"
    /\ IF Resolvable
       THEN /\ pc' = [c \in Caller |-> IF c \in Radios THEN "named" ELSE pc[c]]
            /\ obj' = [c \in Caller |->
                        IF c \in Radios
                        THEN [cls |-> None, usb_id |-> None, address |-> PortOf(c)]
                        ELSE obj[c]]
            /\ UNCHANGED absent
       ELSE /\ pc' = [c \in Caller |-> IF c \in Radios THEN "out" ELSE pc[c]]
            /\ UNCHANGED <<obj, absent>>
    /\ UNCHANGED <<bus, asking, target, dev, walk, holds, picked>>

OpenDeviceAt(c) ==
    /\ pc[c] = "named"
    /\ LET found == {u \in Inventoried : bus[u].port = obj[c].address} IN
       \/ /\ found = {}
          /\ Refuse(c, "out", found)
          /\ UNCHANGED python
       \/ \E u \in found : Make(c, u)
    /\ UNCHANGED <<bus, asking, walk, holds>>

-----------------------------------------------------------------------------
(* Mt7921u.open.                                                            *)

Bulk(intf, in) == SelectSeq(intf.eps, LAMBDA ep : ep.bulk /\ ep.in = in)
Qualifies(intf) ==
    /\ intf.wifi
    /\ Len(Bulk(intf, TRUE)) >= NBulkIn
    /\ Len(Bulk(intf, FALSE)) >= NBulkOut
Candidates(u) == {i \in Intf(u) : Qualifies(Desc[u].intfs[i])}

Enumerate(c) ==
    /\ pc[c] = "built"
    /\ LET found == FindSupported(obj[c].usb_id, obj[c].address) IN
       \/ /\ Cardinality(found) # 1
          /\ Refuse(c, "built", found)
       \/ \E u \in found :
            /\ found = {u}
            /\ target' = [target EXCEPT ![c] = u]
            /\ pc' = [pc EXCEPT ![c] = "listed"]
            /\ UNCHANGED absent
    /\ UNCHANGED <<bus, asking, python, walk, holds>>

\* layout_from_pyusb and the check of the family.
Fits(c) ==
    LET u == target[c] IN
    /\ Known(u) /\ Cardinality(Candidates(u)) = 1
    /\ Class(u) = obj[c].cls

Misfit(c) ==
    /\ pc[c] = "listed"
    /\ ~Attached(target[c]) \/ ~Fits(c)
    /\ Refuse(c, "built", {target[c]})
    /\ UNCHANGED <<bus, asking, python, walk, holds>>

Claim(c) ==
    LET u == target[c] IN
    /\ pc[c] = "listed" /\ Attached(u) /\ Fits(c)
    /\ \E i \in Candidates(u) :
        /\ ~Held(u, i)
        /\ holds' = [holds EXCEPT ![c] = {<<u, i>>}]
    /\ dev' = [dev EXCEPT ![c] = u]
    /\ pc' = [pc EXCEPT ![c] = "claimed"]
    /\ UNCHANGED <<bus, asking, absent, obj, picked, target, walk>>

\* Another program has the interface, or the operating system refuses it.
ClaimFails(c) ==
    /\ pc[c] = "listed" /\ Attached(target[c]) /\ Fits(c)
    /\ Refuse(c, "built", {target[c]})
    /\ UNCHANGED <<bus, asking, python, walk, holds>>

Release(c) ==
    /\ holds' = [holds EXCEPT ![c] = {}]
    /\ dev' = [dev EXCEPT ![c] = None]

DrivesChip(c) == Desc[dev[c]].chipid \in ChipIds[obj[c].cls]

ReadChip(c) ==
    /\ pc[c] = "claimed" /\ Attached(dev[c]) /\ DrivesChip(c)
    /\ pc' = [pc EXCEPT ![c] = "open"]
    /\ UNCHANGED <<bus, asking, absent, python, target, walk, holds>>

OtherChip(c) ==
    /\ pc[c] = "claimed" /\ Attached(dev[c]) /\ ~DrivesChip(c)
    /\ Release(c)
    /\ Refuse(c, "built", {dev[c]})
    /\ UNCHANGED <<bus, asking, obj, picked, walk>>

\* Ten transfers in a row fail: _vendor raises, and nothing is released.
ReadFails(c) ==
    /\ pc[c] = "claimed"
    /\ Refuse(c, "built", {dev[c]})
    /\ UNCHANGED <<bus, asking, python, walk, holds>>

Close(c) ==
    /\ pc[c] \in {"open", "built"} /\ dev[c] # None
    /\ Release(c)
    /\ pc' = [pc EXCEPT ![c] = "built"]
    /\ target' = [target EXCEPT ![c] = None]
    /\ UNCHANGED <<bus, asking, absent, obj, picked, walk>>

-----------------------------------------------------------------------------
(* mt7921_usb_open.                                                         *)

CFind(c) ==
    /\ job[c].kind = "C" /\ pc[c] = "new"
    /\ LET usb_id == Or(job[c].id, env.id)
           found == {u \in Inventoried : usb_id # None => Desc[u].id = usb_id} IN
       \/ /\ Cardinality(found) # 1
          /\ Refuse(c, "new", found)
       \/ \E u \in found :
            /\ found = {u}
            /\ target' = [target EXCEPT ![c] = u]
            /\ pc' = [pc EXCEPT ![c] = "chosen"]
            /\ UNCHANGED absent
    /\ UNCHANGED <<bus, asking, python, walk, holds>>

\* memset, then USBDeviceOpen or USBDeviceOpenSeize.
COpen(c) ==
    /\ pc[c] = "chosen" /\ Attached(target[c]) /\ ~Held(target[c], 0)
    /\ holds' = [holds EXCEPT ![c] = {<<target[c], 0>>}]
    /\ walk' = [walk EXCEPT ![c] = Fresh]
    /\ pc' = [pc EXCEPT ![c] = "walk"]
    /\ UNCHANGED <<bus, asking, absent, python, target>>

COpenFails(c) ==
    /\ pc[c] = "chosen"
    /\ Refuse(c, "new", {target[c]})
    /\ UNCHANGED <<bus, asking, python, walk, holds>>

Walking(c) == pc[c] = "walk" /\ walk[c].next \in Intf(target[c])
Here(c) == Desc[target[c]].intfs[walk[c].next]

\* Not ff/ff/ff: released without having been opened.
CPass(c) ==
    /\ Walking(c) /\ ~Here(c).wifi
    /\ walk' = [walk EXCEPT ![c].next = @ + 1]
    /\ UNCHANGED <<bus, asking, pc, absent, python, target, holds>>

\* Neither opened nor seized: the walk goes on without it.
CSkip(c) ==
    /\ Walking(c) /\ Here(c).wifi
    /\ walk' = [walk EXCEPT ![c].next = @ + 1, ![c].skipped = @ \cup {walk[c].next}]
    /\ UNCHANGED <<bus, asking, pc, absent, python, target, holds>>

\* Kept when it is the first that qualifies, closed again otherwise.
Kept(c) == {p \in holds[c] : p[2] # 0}

CTake(c) ==
    LET i == walk[c].next IN
    /\ Walking(c) /\ Here(c).wifi
    /\ Attached(target[c]) /\ ~Held(target[c], i)
    /\ walk' = [walk EXCEPT ![c].next = @ + 1,
                            ![c].qualifying = @ + (IF Qualifies(Here(c)) THEN 1 ELSE 0)]
    /\ holds' = IF Qualifies(Here(c)) /\ Kept(c) = {}
                THEN [holds EXCEPT ![c] = @ \cup {<<target[c], i>>}]
                ELSE holds
    /\ UNCHANGED <<bus, asking, pc, absent, python, target>>

\* Faulty variant: the first interface that qualifies is taken.
AcceptedFirst(c) == walk[c].qualifying >= 1 /\ Kept(c) # {}

Accepted(c) == walk[c].qualifying = 1 /\ Kept(c) # {}

Walked(c) == pc[c] = "walk" /\ walk[c].next \notin Intf(target[c])

CDone(c) ==
    /\ Walked(c) /\ Accepted(c)
    /\ pc' = [pc EXCEPT ![c] = "open"]
    /\ UNCHANGED <<bus, asking, absent, python, target, walk, holds>>

CRefuse(c) ==
    /\ Walked(c) /\ ~Accepted(c)
    /\ holds' = [holds EXCEPT ![c] = {}]
    /\ Refuse(c, "new", {target[c]})
    /\ walk' = [walk EXCEPT ![c] = Fresh]
    /\ UNCHANGED <<bus, asking, python>>

CClose(c) ==
    /\ job[c].kind = "C" /\ pc[c] = "open"
    /\ holds' = [holds EXCEPT ![c] = {}]
    /\ pc' = [pc EXCEPT ![c] = "new"]
    /\ target' = [target EXCEPT ![c] = None]
    /\ walk' = [walk EXCEPT ![c] = Fresh]
    /\ UNCHANGED <<bus, asking, absent, python>>

-----------------------------------------------------------------------------
Py(c) ==
    \/ OpenDevice(c) \/ OpenDeviceAt(c) \/ Enumerate(c)
    \/ Misfit(c) \/ Claim(c) \/ ClaimFails(c)
    \/ ReadChip(c) \/ OtherChip(c) \/ ReadFails(c) \/ Close(c)

C(c) ==
    \/ CFind(c) \/ COpen(c) \/ COpenFails(c)
    \/ CPass(c) \/ CSkip(c) \/ CTake(c)
    \/ CDone(c) \/ CRefuse(c) \/ CClose(c)

Next ==
    \/ \E u \in Unit : Unplug(u) \/ \E p \in Port : Plug(u, p)
    \/ ResolveRadios
    \/ \E c \in Caller : Py(c) \/ C(c)

Spec == Init /\ [][Next]_vars

-----------------------------------------------------------------------------
Pc == {"new", "named", "built", "listed", "claimed", "open",
       "chosen", "walk", "out"}
Ids == {Desc[u].id : u \in Unit} \cup {e.id : e \in Envs}
        \cup {j[c].id : j \in Jobs, c \in Caller}
Ports == Port \cup {None}

Object == [cls : Family \cup {None}, usb_id : Ids \cup {None}, address : Ports]
Adapter == [id : Ids, port : Ports]
Interface == UNION {{u} \X ({0} \cup Intf(u)) : u \in Unit}

ASSUME NoneAssumption == None \notin Object \cup Adapter

\* Types; a walk counts an interface of its adapter at most once.
TypeOK ==
    /\ bus \in [Unit -> [port : Ports, on : BOOLEAN]]
    /\ env \in Envs /\ job \in Jobs
    /\ pc \in [Caller -> Pc]
    /\ absent \in [Caller -> BOOLEAN]
    /\ obj \in [Caller -> Object \cup {None}]
    /\ target \in [Caller -> Unit \cup {None}]
    /\ dev \in [Caller -> Unit \cup {None}]
    /\ walk \in [Caller -> [next : Nat, qualifying : Nat, skipped : SUBSET Nat]]
    /\ holds \in [Caller -> SUBSET Interface]
    /\ picked \in [Caller -> Adapter \cup {None}]
    /\ \A c \in Caller :
        /\ walk[c].qualifying < walk[c].next
        /\ walk[c].skipped \subseteq 1..(walk[c].next - 1)

Opened(c) == IF job[c].kind = "C" THEN target[c] ELSE dev[c]

\* Whatever was plugged, unplugged or exported in the meantime, the adapter
\* a caller holds open is one it asked for: by its own id and port, or else
\* by those of the environment; a C program by id (it knows no port); a radio
\* of dual_capture at the port its selector stood for in the inventory. A
\* radio named by model may so find another model there.
AsAsked ==
    \A c \in Caller : pc[c] = "open" =>
        LET u == Opened(c) IN
        IF job[c].kind = "radio"
        THEN /\ bus[u].port = obj[c].address
             /\ job[c].addr \in {None, bus[u].port}
        ELSE /\ Or(job[c].id, env.id) \in {None, Desc[u].id}
             /\ job[c].kind = "C" \/ Or(job[c].addr, env.addr) \in {None, bus[u].port}

\* An object made for one adapter reopens the same port and model, never
\* what has been plugged in since, elsewhere or of another model
\* (open_device: "reopens the same port rather than whichever it finds").
SamePort ==
    \A c \in Caller : dev[c] # None /\ picked[c] # None =>
        picked[c] = [id |-> Desc[dev[c]].id, port |-> bus[dev[c]].port]

\* No class is used on silicon it does not know, whichever USB id it shows
\* and whatever was there when the class was chosen.
KnownSilicon ==
    \A c \in Caller : dev[c] # None /\ pc[c] = "open" =>
        /\ Class(dev[c]) = obj[c].cls
        /\ Desc[dev[c]].chipid \in ChipIds[obj[c].cls]

\* The adapter that is driven is the one that was asked for and chosen, and
\* of the kind its class knows.
RightAdapter == AsAsked /\ SamePort /\ KnownSilicon

\* Two radios of one capture never go for one adapter, however each of them
\* was named.
RadiosApart ==
    \A c, d \in Radios : c # d /\ pc[c] # "new" /\ pc[c] # "out" =>
        /\ obj[d] # None => obj[c].address # obj[d].address
        /\ dev[c] # None => dev[c] # dev[d]

\* Nothing is held that cannot be given back: Python holds an interface
\* exactly while close() would release it, and that is the only one that
\* qualifies; C holds nothing once mt7921_usb_open has failed, and the
\* device with one qualifying interface of it once it has succeeded.
CanGiveBack ==
    \A c \in Caller :
        IF job[c].kind = "C"
        THEN /\ pc[c] \in {"new", "chosen"} => holds[c] = {}
             /\ pc[c] = "open" =>
                \E i \in Candidates(target[c]) :
                    holds[c] = {<<target[c], 0>>, <<target[c], i>>}
        ELSE holds[c] = IF dev[c] = None THEN {}
                        ELSE {<<dev[c], i>> : i \in Candidates(dev[c])}

\* Unless it had to pass over an interface, C opens only where Python finds
\* the layout unambiguous, and then holds the same interface.
SameChoice ==
    \A c \in Caller :
        job[c].kind = "C" /\ pc[c] = "open" /\ walk[c].skipped = {} =>
            {p[2] : p \in Kept(c)} = Candidates(target[c])

\* What a caller holds is what it opened, no more and no less.
HeldExactly == CanGiveBack /\ SameChoice

\* A radio is told that its adapter is not there only when no adapter of
\* its model is at its port: what the environment names does not matter.
AbsentIsAbsent ==
    [][\A c \in Radios : absent'[c] /\ ~absent[c] =>
        ~\E u \in Inventoried :
            /\ bus[u].port = obj[c].address
            /\ picked[c] # None => Desc[u].id = picked[c].id]_vars
=============================================================================
