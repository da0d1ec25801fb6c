---------------------------- MODULE UsbOpenProofs ----------------------------
(* For any number of adapters, ports and programs, and whatever is plugged   *)
(* in, unplugged or claimed between two steps: what is opened is what was    *)
(* asked for, and what is held can be given back.                            *)
EXTENDS UsbOpen, FiniteSetTheorems, TLAPS

USE UsbOpenAssumption, NoneAssumption

-----------------------------------------------------------------------------
(* The inductive invariant                                                  *)

Kinded(c, k) == job[c].kind = k
PyPc == {"built", "listed", "claimed", "open"}

(* A port keeps the adapter it had, and two attached adapters do not share   *)
(* one.                                                                      *)
Bus ==
    /\ \A u \in Unit : Attached(u) => bus[u].port \in Port
    /\ \A u, v \in Unit : Attached(u) /\ Attached(v) /\ bus[u].port = bus[v].port => u = v

(* An object that open_device or open_device_at made names an adapter by     *)
(* model and port, so that neither is taken from the environment again.      *)
Made(c) ==
    /\ obj[c] \in [cls : Family, usb_id : DOMAIN Supported, address : Port]
    /\ picked[c] = [id |-> obj[c].usb_id, port |-> obj[c].address]
    /\ picked[c] # None

(* Where each kind of program can be, and what object it then has.           *)
CProgram(c) ==
    Kinded(c, "C") =>
        /\ pc[c] \in {"new", "chosen", "walk", "open"}
        /\ obj[c] = None /\ dev[c] = None /\ picked[c] = None

ClassItself(c) ==
    Kinded(c, "Mt7921u") =>
        /\ pc[c] \in PyPc
        /\ obj[c] = [cls |-> job[c].cls, usb_id |-> job[c].id, address |-> job[c].addr]
        /\ picked[c] = None

ByOpenDevice(c) ==
    Kinded(c, "open_device") =>
        /\ pc[c] \in {"new"} \cup PyPc
        /\ pc[c] = "new" => picked[c] = None /\ dev[c] = None
        /\ pc[c] # "new" =>
            /\ Made(c)
            /\ Or(job[c].id, env.id) \in {None, obj[c].usb_id}
            /\ Or(job[c].addr, env.addr) \in {None, obj[c].address}

ByRadio(c) ==
    Kinded(c, "radio") =>
        /\ pc[c] \in {"new", "out", "named"} \cup PyPc
        /\ pc[c] = "new" => obj[c] = None
        /\ pc[c] \in {"named"} \cup PyPc => obj[c] # None
        /\ pc[c] \in PyPc => Made(c)
        /\ pc[c] \notin PyPc => picked[c] = None /\ dev[c] = None
        /\ obj[c] # None =>
            /\ obj[c].address \in Port
            /\ job[c].addr \in {None, obj[c].address}

(* u answers to what c's object, with the environment, asks for.             *)
Suits(c, u) ==
    /\ u \in Unit /\ bus[u].port \in Port
    /\ Or(obj[c].usb_id, env.id) \in {None, Desc[u].id}
    /\ Or(obj[c].address, env.addr) \in {None, bus[u].port}

Chosen(c) ==
    /\ pc[c] \in {"listed", "claimed"} => Suits(c, target[c])
    /\ pc[c] \in {"chosen", "walk", "open"} /\ Kinded(c, "C") =>
        /\ target[c] \in Unit
        /\ Or(job[c].id, env.id) \in {None, Desc[target[c]].id}

(* What Python has claimed, also after a chip id that could not be read.     *)
Driven(c) ==
    /\ dev[c] # None =>
        /\ Suits(c, dev[c])
        /\ Known(dev[c]) /\ Class(dev[c]) = obj[c].cls
        /\ pc[c] \in PyPc
    /\ pc[c] \in {"claimed", "open"} /\ ~Kinded(c, "C") => dev[c] # None
    /\ pc[c] = "open" /\ ~Kinded(c, "C") => DrivesChip(c)
    /\ ~Kinded(c, "C") =>
        holds[c] = IF dev[c] = None THEN {} ELSE {<<dev[c], i>> : i \in Candidates(dev[c])}

(* The interfaces that C has found to qualify so far.                        *)
Passed(c) == {i \in Candidates(target[c]) :
                i < walk[c].next /\ i \notin walk[c].skipped}

Walks(c) ==
    /\ walk[c].next \in 1 .. Len(Desc[target[c]].intfs) + 1
    /\ walk[c].qualifying = 0 =>
        Passed(c) = {} /\ holds[c] = {<<target[c], 0>>}
    /\ walk[c].qualifying = 1 =>
        \E i \in Candidates(target[c]) :
            Passed(c) = {i} /\ holds[c] = {<<target[c], 0>>, <<target[c], i>>}
    /\ walk[c].qualifying > 1 =>
        \E i \in Candidates(target[c]) :
            holds[c] = {<<target[c], 0>>, <<target[c], i>>}

Walk(c) ==
    Kinded(c, "C") =>
        /\ pc[c] \in {"new", "chosen"} => holds[c] = {}
        /\ pc[c] \in {"walk", "open"} => Walks(c)
        /\ pc[c] = "open" => /\ walk[c].next \notin Intf(target[c])
                             /\ walk[c].qualifying = 1

OneInv(c) ==
    /\ CProgram(c) /\ ClassItself(c) /\ ByOpenDevice(c) /\ ByRadio(c)
    /\ Chosen(c) /\ Driven(c) /\ Walk(c)

(* The radios of one capture were given different ports.                     *)
Apart ==
    \A c, d \in Radios :
        c # d /\ obj[c] # None /\ obj[d] # None => obj[c].address # obj[d].address

IInv == TypeOK /\ Bus /\ Apart /\ \A c \in Caller : OneInv(c)

-----------------------------------------------------------------------------
(* The operators                                                            *)

(* None is no adapter, no port and no model of SUPPORTED_DEVICES.            *)
LEMMA NotNone ==
    /\ \A u \in Unit : u # None
    /\ \A p \in Port : p # None
    /\ \A i \in DOMAIN Supported : i # None /\ Supported[i] \in Family
  BY DEF Family

(* What is given is not taken from the environment.                          *)
LEMMA OrGiven ==
    ASSUME NEW given, NEW default
    PROVE  /\ given # None => Or(given, default) = given
           /\ given = None => Or(given, default) = default
  BY DEF Or

(* An interface of an adapter is one of its first Len.                       *)
LEMMA Interfaces ==
    ASSUME NEW u \in Unit
    PROVE  /\ Len(Desc[u].intfs) \in Nat
           /\ Intf(u) = 1 .. Len(Desc[u].intfs)
           /\ Candidates(u) \subseteq Intf(u)
           /\ \A i \in Candidates(u) : i \in Nat /\ i # 0 /\ Desc[u].intfs[i].wifi
<1>1. Len(Desc[u].intfs) \in Nat /\ Intf(u) = 1 .. Len(Desc[u].intfs)
  BY DEF Intf
<1>2. Candidates(u) \subseteq Intf(u)
  BY Zenon DEF Candidates
<1>3. \A i \in Candidates(u) : Desc[u].intfs[i].wifi
  BY Zenon DEF Candidates, Qualifies
<1>4. \A i \in Intf(u) : i \in Nat /\ i # 0
  BY <1>1
<1> QED
  BY <1>1, <1>2, <1>3, <1>4, Zenon

(* The layout is unambiguous: there is one interface to claim.               *)
LEMMA OneCandidate ==
    ASSUME NEW u \in Unit, Cardinality(Candidates(u)) = 1
    PROVE  \E i \in Intf(u) : Candidates(u) = {i}
<1>1. IsFiniteSet(Candidates(u))
  <2>1. IsFiniteSet(1 .. Len(Desc[u].intfs))
    BY Interfaces, FS_Interval
  <2>2. Candidates(u) \subseteq 1 .. Len(Desc[u].intfs)
    BY Interfaces
  <2> QED
    BY <2>1, <2>2, FS_Subset
<1>2. \E i : Candidates(u) = {i}
  BY <1>1, FS_Singleton
<1> QED
  BY <1>2, Interfaces

(* Exactly one entry of the inventory matches.                               *)
LEMMA OneMatch ==
    ASSUME NEW c \in Caller, Cardinality(Matches(c)) = 1
    PROVE  \E u \in Inventoried : Matches(c) = {u} /\ PortOf(c) = bus[u].port
<1>1. Matches(c) \subseteq Inventoried /\ Inventoried \subseteq Unit
  BY DEF Matches, Inventoried
<1>2. IsFiniteSet(Matches(c))
  BY <1>1, FS_Subset
<1>3. \E u : Matches(c) = {u}
  BY <1>2, FS_Singleton
<1> QED
  BY <1>1, <1>3 DEF PortOf

-----------------------------------------------------------------------------
(* Initially                                                                *)

(* The bus and the programs begin in the invariant.                         *)
LEMMA InitInv == Init => IInv
<1> SUFFICES ASSUME Init PROVE IInv
  OBVIOUS
<1>1. job \in Jobs /\ env \in Envs
  BY DEF Init
<1>2. \A c \in Caller : /\ job[c].kind \in Kind
                        /\ job[c].addr \in Ports
                        /\ Kinded(c, "Mt7921u") => job[c].cls \in Family
                        /\ job[c].id \in Ids
  BY <1>1 DEF Ports, Family, Kinded, Ids
<1>3. obj \in [Caller -> Object \cup {None}]
  <2>1. ASSUME NEW c \in Caller, Kinded(c, "Mt7921u")
        PROVE  [cls |-> job[c].cls, usb_id |-> job[c].id, address |-> job[c].addr]
                    \in Object
    BY <2>1, <1>2 DEF Object
  <2>2. obj = [c \in Caller |-> IF Kinded(c, "Mt7921u")
                THEN [cls |-> job[c].cls, usb_id |-> job[c].id,
                      address |-> job[c].addr]
                ELSE None]
    BY DEF Init, Kinded
  <2> QED
    BY <2>1, <2>2
<1>4. TypeOK
  <2>1. walk \in [Caller -> [next : Nat, qualifying : Nat, skipped : SUBSET Nat]]
    BY DEF Init, Fresh
  <2>2. bus \in [Unit -> [port : Ports, on : BOOLEAN]]
    BY DEF Init, Ports
  <2>3. pc \in [Caller -> Pc]
    BY DEF Init, Pc
  <2>4. \A c \in Caller : walk[c].qualifying < walk[c].next
                          /\ walk[c].skipped \subseteq 1..(walk[c].next - 1)
    BY DEF Init, Fresh
  <2> QED
    BY <1>1, <1>3, <2>1, <2>2, <2>3, <2>4 DEF Init, TypeOK
<1>5. Bus
  BY DEF Init, Bus, Attached
<1>6. Apart
  BY DEF Init, Apart, Radios
<1>7. ASSUME NEW c \in Caller PROVE OneInv(c)
  <2>1. /\ pc[c] = IF Kinded(c, "Mt7921u") THEN "built" ELSE "new"
        /\ target[c] = None /\ dev[c] = None /\ picked[c] = None /\ holds[c] = {}
        /\ obj[c] = IF Kinded(c, "Mt7921u")
                    THEN [cls |-> job[c].cls, usb_id |-> job[c].id,
                          address |-> job[c].addr]
                    ELSE None
    BY DEF Init, Kinded
  <2>2. CProgram(c) /\ ClassItself(c) /\ ByOpenDevice(c) /\ ByRadio(c)
    BY <2>1 DEF CProgram, ClassItself, ByOpenDevice, ByRadio, PyPc, Kinded
  <2>3. Chosen(c) /\ Driven(c) /\ Walk(c)
    BY <2>1 DEF Chosen, Driven, Walk, PyPc, Kinded
  <2> QED
    BY <2>2, <2>3 DEF OneInv
<1> QED
  BY <1>4, <1>5, <1>6, <1>7 DEF IInv

-----------------------------------------------------------------------------
(* What a step leaves alone                                                 *)

PortsKept == \A u \in Unit : bus[u].port \in Port => bus'[u].port = bus[u].port

Same(c) ==
    /\ pc'[c] = pc[c] /\ obj'[c] = obj[c] /\ target'[c] = target[c]
    /\ dev'[c] = dev[c] /\ walk'[c] = walk[c] /\ holds'[c] = holds[c]
    /\ picked'[c] = picked[c]

(* An adapter that was found at a port stays the one that was found there,   *)
(* plugged in or not.                                                        *)
LEMMA SuitsStays ==
    ASSUME NEW c \in Caller, NEW u \in Unit, Suits(c, u),
           PortsKept, env' = env, obj'[c] = obj[c]
    PROVE  Suits(c, u)'
  BY DEF Suits, PortsKept

(* What another program does, or the user with the adapters, changes nothing *)
(* of what this one knows.                                                   *)
LEMMA Frame ==
    ASSUME NEW c \in Caller, OneInv(c), Same(c), PortsKept, UNCHANGED asking
    PROVE  OneInv(c)'
<1>1. env' = env /\ job' = job
  BY DEF asking
<1>2. CProgram(c)' /\ ClassItself(c)' /\ ByOpenDevice(c)' /\ ByRadio(c)'
  BY <1>1 DEF OneInv, Same, CProgram, ClassItself, ByOpenDevice, ByRadio, Made, Kinded
<1>3. Chosen(c)'
  <2>1. ASSUME pc[c] \in {"listed", "claimed"}
        PROVE  Suits(c, target[c])'
    <3>1. Suits(c, target[c]) /\ target[c] \in Unit
      BY <2>1 DEF OneInv, Chosen, Suits
    <3>2. ASSUME NEW u, u = target[c] PROVE Suits(c, u)'
      BY <3>1, <3>2, <1>1, SuitsStays DEF Same
    <3> QED
      BY <3>2 DEF Suits, Same
  <2> QED
    BY <2>1, <1>1 DEF OneInv, Chosen, Same, Kinded
<1>4. Driven(c)'
  BY <1>1, SuitsStays DEF OneInv, Driven, Same, Kinded, DrivesChip, Suits, PortsKept
<1>5. Walk(c)'
  BY <1>1 DEF OneInv, Walk, Same, Kinded, Walks, Passed
<1> QED
  BY <1>2, <1>3, <1>4, <1>5 DEF OneInv

(* Where a program is tells whether it is the C one.                         *)
LEMMA KindOfPlace ==
    ASSUME IInv, NEW c \in Caller
    PROVE  /\ job[c].kind \in Kind
           /\ pc[c] \in {"chosen", "walk"} => Kinded(c, "C")
           /\ pc[c] \in {"named", "out", "built", "listed", "claimed"} => ~Kinded(c, "C")
           /\ pc[c] \in {"named", "out"} => Kinded(c, "radio")
<1>1. OneInv(c) /\ job[c].kind \in Kind
  BY DEF IInv, TypeOK
<1>2. CProgram(c) /\ ClassItself(c) /\ ByOpenDevice(c) /\ ByRadio(c)
  BY <1>1 DEF OneInv
<1> QED
  BY <1>1, <1>2 DEF CProgram, ClassItself, ByOpenDevice, ByRadio, Kinded, Kind, PyPc

-----------------------------------------------------------------------------
(* Types                                                                    *)

(* A refusal keeps the types.                                               *)
LEMMA RefuseTypes ==
    ASSUME TypeOK, NEW c \in Caller, NEW at \in Pc, NEW found, Refuse(c, at, found)
    PROVE  /\ pc' \in [Caller -> Pc]
           /\ absent' \in [Caller -> BOOLEAN]
           /\ target' \in [Caller -> Unit \cup {None}]
  BY DEF Refuse, TypeOK

(* The object made for an adapter is of the types.                          *)
LEMMA MakeTypes ==
    ASSUME TypeOK, NEW c \in Caller, NEW u \in Unit, Known(u), Make(c, u)
    PROVE  /\ pc' \in [Caller -> Pc]
           /\ obj' \in [Caller -> Object \cup {None}]
           /\ picked' \in [Caller -> Adapter \cup {None}]
           /\ absent' = absent /\ target' = target /\ dev' = dev
<1>1. Class(u) \in Family /\ Desc[u].id \in Ids /\ bus[u].port \in Ports
  <2>1. Class(u) \in Family
    BY NotNone DEF Class, Known
  <2>2. Desc[u].id \in Ids
    BY DEF Ids
  <2>3. bus[u].port \in Ports
    BY DEF TypeOK
  <2> QED
    BY <2>1, <2>2, <2>3
<1>2. ObjectFor(u) \in Object
  BY <1>1 DEF ObjectFor, Object
<1>3. [id |-> Desc[u].id, port |-> bus[u].port] \in Adapter
  BY <1>1 DEF Adapter
<1> QED
  BY <1>2, <1>3 DEF Make, TypeOK, Pc

(* A step of a Python program keeps the types.                              *)
LEMMA PyTypes ==
    ASSUME IInv, NEW c \in Caller, Py(c)
    PROVE  TypeOK'
<1> USE DEF TypeOK
<1>0. TypeOK /\ OneInv(c)
  BY DEF IInv
<1>1. CASE OpenDevice(c)
  <2> DEFINE found == FindSupported(job[c].id, job[c].addr)
  <2>1. CASE Refuse(c, "new", found) /\ UNCHANGED python
    <3>1. "new" \in Pc
      BY DEF Pc
    <3> QED
      BY <1>0, <1>1, <2>1, <3>1, RefuseTypes DEF OpenDevice, python, asking
  <2>2. ASSUME NEW u \in found, Known(u), Make(c, u)
        PROVE  TypeOK'
    <3>1. u \in Unit
      BY <2>2 DEF FindSupported, Find
    <3> QED
      BY <1>0, <1>1, <2>2, <3>1, MakeTypes DEF OpenDevice, asking
  <2> QED
    BY <1>1, <2>1, <2>2 DEF OpenDevice
<1>2. CASE OpenDeviceAt(c)
  <2> DEFINE found == {u \in Inventoried : bus[u].port = obj[c].address}
  <2>1. CASE Refuse(c, "out", found) /\ UNCHANGED python
    <3>1. "out" \in Pc
      BY DEF Pc
    <3> QED
      BY <1>0, <1>2, <2>1, <3>1, RefuseTypes DEF OpenDeviceAt, python, asking
  <2>2. ASSUME NEW u \in found, Make(c, u)
        PROVE  TypeOK'
    <3>1. u \in Unit /\ Known(u)
      BY <2>2 DEF Inventoried
    <3> QED
      BY <1>0, <1>2, <2>2, <3>1, MakeTypes DEF OpenDeviceAt, asking
  <2> QED
    BY <1>2, <2>1, <2>2 DEF OpenDeviceAt
<1>3. CASE Enumerate(c)
  <2> DEFINE found == FindSupported(obj[c].usb_id, obj[c].address)
  <2>1. CASE Refuse(c, "built", found)
    <3>1. "built" \in Pc
      BY DEF Pc
    <3> QED
      BY <1>0, <1>3, <2>1, <3>1, RefuseTypes DEF Enumerate, python, asking
  <2>2. ASSUME NEW u \in found,
               target' = [target EXCEPT ![c] = u],
               pc' = [pc EXCEPT ![c] = "listed"],
               UNCHANGED absent
        PROVE  TypeOK'
    <3>1. u \in Unit
      BY <2>2 DEF FindSupported, Find
    <3> QED
      BY <1>0, <1>3, <2>2, <3>1 DEF Enumerate, python, asking, Pc
  <2> QED
    BY <1>3, <2>1, <2>2 DEF Enumerate
<1>4. CASE Misfit(c) \/ ClaimFails(c) \/ ReadFails(c)
  <2>1. \E u : Refuse(c, "built", {u})
    BY <1>4 DEF Misfit, ClaimFails, ReadFails
  <2>2. UNCHANGED <<bus, asking, python, walk, holds>>
    BY <1>4 DEF Misfit, ClaimFails, ReadFails
  <2>3. "built" \in Pc
    BY DEF Pc
  <2> QED
    BY <1>0, <2>1, <2>2, <2>3, RefuseTypes DEF python, asking
<1>5. CASE Claim(c)
  <2>1. target[c] \in Unit
    BY <1>0, <1>5 DEF Claim, OneInv, Chosen, Suits
  <2>2. PICK i \in Candidates(target[c]) :
            holds' = [holds EXCEPT ![c] = {<<target[c], i>>}]
    BY <1>5 DEF Claim
  <2>3. {<<target[c], i>>} \in SUBSET Interface
    BY <2>1, <2>2, Interfaces DEF Interface
  <2> QED
    BY <1>0, <1>5, <2>1, <2>2, <2>3 DEF Claim, asking, Pc
<1>6. CASE ReadChip(c)
  BY <1>0, <1>6 DEF ReadChip, python, asking, Pc
<1>7. CASE OtherChip(c)
  <2>1. "built" \in Pc
    BY DEF Pc
  <2> QED
    BY <1>0, <1>7, <2>1, RefuseTypes DEF OtherChip, Release, asking
<1>8. CASE Close(c)
  BY <1>0, <1>8 DEF Close, Release, asking, Pc
<1> QED
  BY <1>1, <1>2, <1>3, <1>4, <1>5, <1>6, <1>7, <1>8 DEF Py

(* One step of the walk, as a record.                                        *)
LEMMA WalkSteps ==
    ASSUME TypeOK, NEW c \in Caller, CPass(c) \/ CSkip(c) \/ CTake(c)
    PROVE  LET n == walk[c].next
               q == walk[c].qualifying
               s == walk[c].skipped
           IN \E w \in {[next |-> n + 1, qualifying |-> q, skipped |-> s],
                        [next |-> n + 1, qualifying |-> q, skipped |-> s \cup {n}],
                        [next |-> n + 1, qualifying |-> q + 1, skipped |-> s]} :
                 walk' = [walk EXCEPT ![c] = w]
<1> DEFINE n == walk[c].next
           q == walk[c].qualifying
           s == walk[c].skipped
           Step(m, k, t) == [next |-> m, qualifying |-> k, skipped |-> t]
<1>1. DOMAIN walk = Caller /\ walk[c] = Step(n, q, s) /\ q + 0 = q
  BY DEF TypeOK
<1> HIDE DEF n, q, s
<1>2. CASE CPass(c)
  <2>1. walk' = [walk EXCEPT ![c] = [walk[c] EXCEPT !.next = n + 1]]
    BY <1>2 DEF CPass, n, q, s
  <2>2. [walk[c] EXCEPT !.next = n + 1] = Step(n + 1, q, s)
    BY <1>1
  <2> QED
    BY <2>1, <2>2 DEF n, q, s
<1>3. CASE CSkip(c)
  <2>1. walk' = [walk EXCEPT ![c] = [walk[c] EXCEPT !.next = n + 1,
                                                    !.skipped = s \cup {n}]]
    BY <1>3 DEF CSkip, n, q, s
  <2>2. ASSUME NEW w, w = [walk[c] EXCEPT !.next = n + 1, !.skipped = s \cup {n}]
        PROVE  w = Step(n + 1, q, s \cup {n})
    <3>1. w.next = n + 1 /\ w.qualifying = q /\ w.skipped = s \cup {n}
      BY <1>1, <2>2
    <3>2. w = Step(w.next, w.qualifying, w.skipped)
      BY <1>1, <2>2
    <3> QED
      BY <3>1, <3>2
  <2> QED
    BY <2>1, <2>2 DEF n, q, s
<1>4. CASE CTake(c)
  <2> DEFINE k == q + (IF Qualifies(Here(c)) THEN 1 ELSE 0)
  <2>1. walk' = [walk EXCEPT ![c] = [walk[c] EXCEPT !.next = n + 1, !.qualifying = k]]
    BY <1>4 DEF CTake, n, q, s
  <2>2. k \in {q, q + 1}
    BY <1>1
  <2>3. ASSUME NEW w, w = [walk[c] EXCEPT !.next = n + 1, !.qualifying = k]
        PROVE  w = Step(n + 1, k, s)
    <3>1. w.next = n + 1 /\ w.qualifying = k /\ w.skipped = s
      BY <1>1, <2>3
    <3>2. w = Step(w.next, w.qualifying, w.skipped)
      BY <1>1, <2>3
    <3> QED
      BY <3>1, <3>2
  <2> QED
    BY <2>1, <2>2, <2>3 DEF n, q, s
<1> QED
  BY <1>2, <1>3, <1>4 DEF n, q, s

(* A step of a C program keeps the types.                                   *)
LEMMA CTypes ==
    ASSUME IInv, NEW c \in Caller, C(c)
    PROVE  TypeOK'
<1> USE DEF TypeOK
<1>0. TypeOK /\ OneInv(c)
  BY DEF IInv
<1>1. CASE CFind(c)
  <2> DEFINE usb_id == Or(job[c].id, env.id)
             found == {u \in Inventoried : usb_id # None => Desc[u].id = usb_id}
  <2>1. CASE Refuse(c, "new", found)
    <3>1. "new" \in Pc
      BY DEF Pc
    <3> QED
      BY <1>0, <1>1, <2>1, <3>1, RefuseTypes DEF CFind, python, asking
  <2>2. ASSUME NEW u \in found,
               target' = [target EXCEPT ![c] = u],
               pc' = [pc EXCEPT ![c] = "chosen"],
               UNCHANGED absent
        PROVE  TypeOK'
    <3>1. u \in Unit
      BY <2>2 DEF Inventoried
    <3> QED
      BY <1>0, <1>1, <2>2, <3>1 DEF CFind, python, asking, Pc
  <2> QED
    BY <1>1, <2>1, <2>2 DEF CFind
<1>2. CASE COpen(c)
  <2>1. target[c] \in Unit /\ Kinded(c, "C")
    BY <1>0, <1>2, KindOfPlace DEF COpen, OneInv, Chosen
  <2>2. {<<target[c], 0>>} \in SUBSET Interface
    BY <2>1 DEF Interface
  <2>3. Fresh \in [next : Nat, qualifying : Nat, skipped : SUBSET Nat]
        /\ Fresh.qualifying < Fresh.next
        /\ Fresh.skipped \subseteq 1 .. (Fresh.next - 1)
    BY DEF Fresh
  <2>4. walk' = [walk EXCEPT ![c] = Fresh]
        /\ holds' = [holds EXCEPT ![c] = {<<target[c], 0>>}]
        /\ pc' = [pc EXCEPT ![c] = "walk"]
    BY <1>2 DEF COpen
  <2> QED
    BY <1>0, <1>2, <2>2, <2>3, <2>4 DEF COpen, python, asking, Pc
<1>3. CASE COpenFails(c)
  <2>1. "new" \in Pc
    BY DEF Pc
  <2> QED
    BY <1>0, <1>3, <2>1, RefuseTypes DEF COpenFails, python, asking
<1>4. CASE CPass(c) \/ CSkip(c) \/ CTake(c)
  <2>1. walk[c].next \in Nat /\ walk[c].qualifying \in Nat /\ walk[c].skipped \in SUBSET Nat
        /\ walk[c].qualifying < walk[c].next
        /\ walk[c].skipped \subseteq 1 .. (walk[c].next - 1)
    BY <1>0
  <2>2. /\ walk' \in [Caller -> [next : Nat, qualifying : Nat, skipped : SUBSET Nat]]
        /\ walk'[c].qualifying < walk'[c].next
        /\ walk'[c].skipped \subseteq 1 .. (walk'[c].next - 1)
    <3> DEFINE n == walk[c].next
               q == walk[c].qualifying
               s == walk[c].skipped
    <3>1. PICK w : /\ walk' = [walk EXCEPT ![c] = w]
                   /\ w \in {[next |-> n + 1, qualifying |-> q, skipped |-> s],
                             [next |-> n + 1, qualifying |-> q, skipped |-> s \cup {n}],
                             [next |-> n + 1, qualifying |-> q + 1, skipped |-> s]}
      BY <1>0, <1>4, <2>1, WalkSteps
    <3>2. n \in Nat /\ q \in Nat /\ q < n /\ s \subseteq 1 .. n - 1 /\ 1 <= n
      BY <2>1
    <3> HIDE DEF n, q, s
    <3>3. s \cup {n} \subseteq 1 .. (n + 1) - 1 /\ s \subseteq 1 .. (n + 1) - 1
      BY <3>2
    <3>4. /\ w \in [next : Nat, qualifying : Nat, skipped : SUBSET Nat]
          /\ w.qualifying < w.next
          /\ w.skipped \subseteq 1 .. (w.next - 1)
      <4>1. /\ n + 1 \in Nat /\ q + 1 \in Nat /\ q < n + 1 /\ q + 1 < n + 1
            /\ s \subseteq Nat /\ s \cup {n} \subseteq Nat
        <5>1. n + 1 \in Nat /\ q + 1 \in Nat /\ q < n + 1 /\ q + 1 < n + 1
          BY <3>2
        <5>2. s \subseteq Nat
          BY <3>2
        <5> QED
          BY <5>1, <5>2, <3>2
      <4>2. CASE w = [next |-> n + 1, qualifying |-> q, skipped |-> s]
        BY <4>1, <4>2, <3>2, <3>3
      <4>3. CASE w = [next |-> n + 1, qualifying |-> q, skipped |-> s \cup {n}]
        BY <4>1, <4>3, <3>2, <3>3
      <4>4. CASE w = [next |-> n + 1, qualifying |-> q + 1, skipped |-> s]
        BY <4>1, <4>4, <3>2, <3>3
      <4> QED
        BY <3>1, <4>2, <4>3, <4>4
    <3> QED
      BY <1>0, <3>1, <3>4
  <2>3. \A d \in Caller : d # c => walk'[d] = walk[d]
    BY <1>0, <1>4 DEF CPass, CSkip, CTake
  <2>4. holds' \in [Caller -> SUBSET Interface]
    <3>1. target[c] \in Unit /\ Kinded(c, "C")
      BY <1>0, <1>4, KindOfPlace DEF CPass, CSkip, CTake, Walking, OneInv, Chosen
    <3>2. <<target[c], walk[c].next>> \in Interface
      BY <1>4, <3>1, Interfaces DEF CPass, CSkip, CTake, Walking, Interface
    <3>3. holds' \in {holds, [holds EXCEPT ![c] = @ \cup {<<target[c], walk[c].next>>}]}
      BY <1>4 DEF CPass, CSkip, CTake
    <3>4. holds \in [Caller -> SUBSET Interface]
      BY <1>0
    <3>5. holds[c] \cup {<<target[c], walk[c].next>>} \in SUBSET Interface
      BY <3>2, <3>4
    <3> QED
      BY <3>3, <3>4, <3>5
  <2>5. UNCHANGED <<bus, asking, pc, absent, python, target>>
    BY <1>4 DEF CPass, CSkip, CTake
  <2> QED
    BY <1>0, <2>2, <2>3, <2>4, <2>5 DEF python, asking
<1>5. CASE CDone(c)
  BY <1>0, <1>5 DEF CDone, python, asking, Pc
<1>6. CASE CRefuse(c) \/ CClose(c)
  <2>1. /\ Fresh \in [next : Nat, qualifying : Nat, skipped : SUBSET Nat]
        /\ Fresh.qualifying < Fresh.next
        /\ Fresh.skipped \subseteq 1 .. (Fresh.next - 1)
    BY DEF Fresh
  <2>2. walk' = [walk EXCEPT ![c] = Fresh] /\ holds' = [holds EXCEPT ![c] = {}]
        /\ UNCHANGED <<bus, asking, python>>
    BY <1>6 DEF CRefuse, CClose
  <2>3. "new" \in Pc
    BY DEF Pc
  <2>4. /\ pc' \in [Caller -> Pc]
        /\ absent' \in [Caller -> BOOLEAN]
        /\ target' \in [Caller -> Unit \cup {None}]
    <3>1. CASE CRefuse(c)
      BY <1>0, <3>1, <2>3, RefuseTypes DEF CRefuse
    <3>2. CASE CClose(c)
      BY <1>0, <3>2, <2>3 DEF CClose
    <3> QED
      BY <1>6, <3>1, <3>2
  <2> QED
    BY <1>0, <2>1, <2>2, <2>4 DEF python, asking
<1> QED
  BY <1>1, <1>2, <1>3, <1>4, <1>5, <1>6 DEF C

-----------------------------------------------------------------------------
(* One program's step                                                       *)

(* It leaves the adapters, the environment and the other programs alone.     *)
LEMMA OnlyOwn ==
    ASSUME TypeOK, NEW c \in Caller, Py(c) \/ C(c)
    PROVE  /\ UNCHANGED <<bus, asking>> /\ PortsKept
           /\ \A d \in Caller : d # c => Same(d)
<1> USE DEF TypeOK, Same, python
<1>0. ASSUME UNCHANGED bus PROVE PortsKept
  BY <1>0 DEF PortsKept
<1>1. CASE OpenDevice(c)
  BY <1>0, <1>1 DEF OpenDevice, Refuse, Make
<1>2. CASE OpenDeviceAt(c)
  BY <1>0, <1>2 DEF OpenDeviceAt, Refuse, Make
<1>3. CASE Enumerate(c)
  BY <1>0, <1>3 DEF Enumerate, Refuse
<1>4. CASE Misfit(c) \/ ClaimFails(c) \/ ReadFails(c)
  BY <1>0, <1>4 DEF Misfit, ClaimFails, ReadFails, Refuse
<1>5. CASE Claim(c)
  BY <1>0, <1>5 DEF Claim
<1>6. CASE ReadChip(c)
  BY <1>0, <1>6 DEF ReadChip
<1>7. CASE OtherChip(c)
  BY <1>0, <1>7 DEF OtherChip, Refuse, Release
<1>8. CASE Close(c)
  BY <1>0, <1>8 DEF Close, Release
<1>9. CASE CFind(c)
  BY <1>0, <1>9 DEF CFind, Refuse
<1>10. CASE COpen(c)
  BY <1>0, <1>10 DEF COpen
<1>11. CASE COpenFails(c)
  BY <1>0, <1>11 DEF COpenFails, Refuse
<1>12. CASE CPass(c) \/ CSkip(c) \/ CTake(c)
  BY <1>0, <1>12 DEF CPass, CSkip, CTake
<1>13. CASE CDone(c)
  BY <1>0, <1>13 DEF CDone
<1>14. CASE CRefuse(c)
  BY <1>0, <1>14 DEF CRefuse, Refuse
<1>15. CASE CClose(c)
  BY <1>0, <1>15 DEF CClose
<1> QED
  BY <1>1, <1>2, <1>3, <1>4, <1>5, <1>6, <1>7, <1>8, <1>9, <1>10, <1>11, <1>12,
     <1>13, <1>14, <1>15 DEF Py, C

(* Enumeration, the claim or the chip id refuses the object: it may be       *)
(* opened again, and what it had claimed stays claimed.                      *)
LEMMA BackToBuilt ==
    ASSUME IInv, NEW c \in Caller, NEW found, pc[c] \in PyPc, ~Kinded(c, "C"),
           Refuse(c, "built", found),
           UNCHANGED <<bus, asking, python, walk, holds>>
    PROVE  OneInv(c)'
<1>1. TypeOK /\ OneInv(c)
  BY DEF IInv
<1>2. /\ pc'[c] = "built" /\ env' = env /\ job' = job /\ obj' = obj /\ dev' = dev
      /\ picked' = picked /\ holds' = holds /\ bus' = bus
  BY <1>1 DEF TypeOK, Refuse, python, asking
<1>3. CProgram(c)' /\ ClassItself(c)' /\ ByOpenDevice(c)' /\ ByRadio(c)'
  BY <1>1, <1>2 DEF OneInv, CProgram, ClassItself, ByOpenDevice, ByRadio, Kinded,
                    Made, PyPc
<1>4. Chosen(c)' /\ Walk(c)'
  BY <1>2 DEF Chosen, Walk, Kinded
<1>5. Driven(c)'
  BY <1>1, <1>2 DEF OneInv, Driven, Kinded, Suits, PyPc
<1> QED
  BY <1>3, <1>4, <1>5 DEF OneInv

(* An object is made for an adapter that is there and known: it names the    *)
(* adapter by model and port, as the caller or the environment did.          *)
LEMMA ObjectMade ==
    ASSUME IInv, NEW c \in Caller, NEW u \in Inventoried, Make(c, u),
           dev[c] = None, ~Kinded(c, "C"), ~Kinded(c, "Mt7921u"),
           UNCHANGED <<bus, asking, walk, holds>>,
           Kinded(c, "open_device") =>
               /\ Or(job[c].id, env.id) \in {None, Desc[u].id}
               /\ Or(job[c].addr, env.addr) \in {None, bus[u].port},
           Kinded(c, "radio") => job[c].addr \in {None, bus[u].port}
    PROVE  OneInv(c)'
<1>1. TypeOK /\ Bus /\ OneInv(c)
  BY DEF IInv
<1>2. u \in Unit /\ Attached(u) /\ Known(u)
  BY DEF Inventoried
<1>3. /\ pc'[c] = "built" /\ env' = env /\ job' = job /\ dev' = dev
      /\ obj'[c] = [cls |-> Class(u), usb_id |-> Desc[u].id, address |-> bus[u].port]
      /\ picked'[c] = [id |-> Desc[u].id, port |-> bus[u].port]
      /\ holds' = holds /\ bus' = bus
  BY <1>1 DEF TypeOK, Make, asking, ObjectFor
<1>4. Class(u) \in Family /\ Desc[u].id \in DOMAIN Supported /\ bus[u].port \in Port
  BY <1>1, <1>2, NotNone DEF Known, Class, Bus
<1>5. obj'[c] # None /\ picked'[c] # None
  <2>1. Desc[u].id \in Ids /\ Port \subseteq Ports
    BY <1>2 DEF Ids, Ports
  <2>2. obj'[c] \in Object
    BY <1>3, <1>4, <2>1 DEF Object
  <2>3. picked'[c] \in Adapter
    BY <1>3, <1>4, <2>1 DEF Adapter
  <2> QED
    BY <2>2, <2>3
<1>6. Made(c)'
  BY <1>3, <1>4, <1>5 DEF Made
<1>7. CProgram(c)' /\ ClassItself(c)' /\ ByOpenDevice(c)' /\ ByRadio(c)'
  BY <1>3, <1>4, <1>5, <1>6
     DEF CProgram, ClassItself, ByOpenDevice, ByRadio, Kinded, PyPc
<1>8. Chosen(c)' /\ Walk(c)'
  BY <1>3 DEF Chosen, Walk, Kinded
<1>9. Driven(c)'
  BY <1>1, <1>3 DEF OneInv, Driven, Kinded
<1> QED
  BY <1>7, <1>8, <1>9 DEF OneInv

(* open_device keeps what is said of its caller.                            *)
LEMMA OpenDeviceOne ==
    ASSUME IInv, NEW c \in Caller, OpenDevice(c)
    PROVE  OneInv(c)'
<1> DEFINE found == FindSupported(job[c].id, job[c].addr)
<1>1. TypeOK /\ Bus /\ OneInv(c) /\ Kinded(c, "open_device") /\ pc[c] = "new"
  BY DEF IInv, OpenDevice, Kinded
<1>2. UNCHANGED <<bus, asking, walk, holds>>
  BY DEF OpenDevice
<1>3. CASE Refuse(c, "new", found) /\ UNCHANGED python
  <2>2. /\ pc'[c] = "new" /\ env' = env /\ job' = job /\ obj' = obj /\ dev' = dev
        /\ picked' = picked /\ holds' = holds
    BY <1>1, <1>2, <1>3 DEF TypeOK, Refuse, python, asking
  <2>3. CProgram(c)' /\ ClassItself(c)' /\ ByOpenDevice(c)' /\ ByRadio(c)'
    BY <1>1, <2>2 DEF OneInv, CProgram, ClassItself, ByOpenDevice, ByRadio, Kinded, PyPc
  <2>4. Chosen(c)' /\ Walk(c)'
    BY <1>1, <2>2 DEF Chosen, Walk, Kinded
  <2>5. Driven(c)'
    BY <1>1, <2>2 DEF OneInv, ByOpenDevice, Driven, Kinded
  <2> QED
    BY <2>3, <2>4, <2>5 DEF OneInv
<1>4. ASSUME NEW u \in found, Known(u), Make(c, u)
      PROVE  OneInv(c)'
  <2>1. u \in Inventoried
    BY <1>4 DEF FindSupported, Find, Inventoried
  <2>2. dev[c] = None
    BY <1>1 DEF OneInv, ByOpenDevice
  <2>3. /\ Or(job[c].id, env.id) \in {None, Desc[u].id}
        /\ Or(job[c].addr, env.addr) \in {None, bus[u].port}
    BY <1>4 DEF FindSupported, Find
  <2> QED
    BY <1>1, <1>2, <1>4, <2>1, <2>2, <2>3, ObjectMade DEF Kinded
<1> QED
  BY <1>3, <1>4 DEF OpenDevice

(* open_device_at keeps what is said of its caller.                         *)
LEMMA OpenDeviceAtOne ==
    ASSUME IInv, NEW c \in Caller, OpenDeviceAt(c)
    PROVE  OneInv(c)'
<1> DEFINE found == {u \in Inventoried : bus[u].port = obj[c].address}
<1>1. TypeOK /\ Bus /\ OneInv(c) /\ Kinded(c, "radio") /\ pc[c] = "named"
  BY KindOfPlace DEF IInv, OpenDeviceAt
<1>2. UNCHANGED <<bus, asking, walk, holds>>
  BY DEF OpenDeviceAt
<1>3. CASE Refuse(c, "out", found) /\ UNCHANGED python
  <2>2. /\ pc'[c] = "out" /\ env' = env /\ job' = job /\ obj' = obj /\ dev' = dev
        /\ picked' = picked /\ holds' = holds
    BY <1>1, <1>2, <1>3 DEF TypeOK, Refuse, python, asking
  <2>3. CProgram(c)' /\ ClassItself(c)' /\ ByOpenDevice(c)' /\ ByRadio(c)'
    BY <1>1, <2>2 DEF OneInv, CProgram, ClassItself, ByOpenDevice, ByRadio, Kinded, PyPc
  <2>4. Chosen(c)' /\ Walk(c)'
    BY <1>1, <2>2 DEF Chosen, Walk, Kinded
  <2>5. Driven(c)'
    BY <1>1, <2>2 DEF OneInv, ByRadio, Driven, Kinded, PyPc
  <2> QED
    BY <2>3, <2>4, <2>5 DEF OneInv
<1>4. ASSUME NEW u \in found, Make(c, u)
      PROVE  OneInv(c)'
  <2>1. dev[c] = None /\ job[c].addr \in {None, obj[c].address}
    BY <1>1 DEF OneInv, ByRadio, PyPc
  <2>2. u \in Inventoried /\ bus[u].port = obj[c].address
    BY <1>4
  <2> QED
    BY <1>1, <1>2, <1>4, <2>1, <2>2, ObjectMade DEF Kinded
<1> QED
  BY <1>3, <1>4 DEF OpenDeviceAt

(* The enumeration of open() keeps what is said of its caller.              *)
LEMMA EnumerateOne ==
    ASSUME IInv, NEW c \in Caller, Enumerate(c)
    PROVE  OneInv(c)'
<1> DEFINE found == FindSupported(obj[c].usb_id, obj[c].address)
<1>1. TypeOK /\ Bus /\ OneInv(c) /\ ~Kinded(c, "C") /\ pc[c] = "built" /\ pc[c] \in PyPc
  BY KindOfPlace DEF IInv, Enumerate, PyPc
<1>2. UNCHANGED <<bus, asking, python, walk, holds>>
  BY DEF Enumerate
<1>3. CASE Refuse(c, "built", found)
  BY <1>1, <1>2, <1>3, BackToBuilt
<1>4. ASSUME NEW u \in found,
             target' = [target EXCEPT ![c] = u],
             pc' = [pc EXCEPT ![c] = "listed"]
      PROVE  OneInv(c)'
  <2>1. /\ pc'[c] = "listed" /\ target'[c] = u /\ env' = env /\ job' = job /\ obj' = obj
        /\ dev' = dev /\ picked' = picked /\ holds' = holds /\ bus' = bus
    BY <1>1, <1>2, <1>4 DEF TypeOK, python, asking
  <2>2. Suits(c, u)
    BY <1>1, <1>4 DEF Suits, FindSupported, Find, Bus
  <2>3. CProgram(c)' /\ ClassItself(c)' /\ ByOpenDevice(c)' /\ ByRadio(c)'
    BY <1>1, <2>1 DEF OneInv, CProgram, ClassItself, ByOpenDevice, ByRadio, Kinded,
                      Made, PyPc
  <2>4. Chosen(c)' /\ Walk(c)'
    BY <1>1, <2>1, <2>2 DEF Chosen, Walk, Kinded, Suits
  <2>5. Driven(c)'
    BY <1>1, <2>1 DEF OneInv, Driven, Kinded, Suits, PyPc
  <2> QED
    BY <2>3, <2>4, <2>5 DEF OneInv
<1> QED
  BY <1>3, <1>4 DEF Enumerate

(* open() that raises keeps what is said of its caller.                     *)
LEMMA RefusalOne ==
    ASSUME IInv, NEW c \in Caller, Misfit(c) \/ ClaimFails(c) \/ ReadFails(c)
    PROVE  OneInv(c)'
<1>1. pc[c] \in PyPc /\ ~Kinded(c, "C")
  BY KindOfPlace DEF Misfit, ClaimFails, ReadFails, PyPc
<1>2. \E u : Refuse(c, "built", {u})
  BY DEF Misfit, ClaimFails, ReadFails
<1>3. UNCHANGED <<bus, asking, python, walk, holds>>
  BY DEF Misfit, ClaimFails, ReadFails
<1> QED
  BY <1>1, <1>2, <1>3, BackToBuilt

(* The claim keeps what is said of its caller.                              *)
LEMMA ClaimOne ==
    ASSUME IInv, NEW c \in Caller, Claim(c)
    PROVE  OneInv(c)'
<1> DEFINE u == target[c]
<1>1. TypeOK /\ OneInv(c) /\ ~Kinded(c, "C") /\ pc[c] = "listed" /\ pc[c] \in PyPc
  BY KindOfPlace DEF IInv, Claim, PyPc
<1>2. Suits(c, u) /\ u \in Unit /\ Known(u) /\ Class(u) = obj[c].cls
  BY <1>1 DEF OneInv, Chosen, Suits, Claim, Fits
<1>3. PICK i \in Candidates(u) : holds' = [holds EXCEPT ![c] = {<<u, i>>}]
  BY DEF Claim
<1>4. Candidates(u) = {i}
  <2>1. Cardinality(Candidates(u)) = 1
    BY DEF Claim, Fits
  <2> QED
    BY <1>2, <1>3, <2>1, OneCandidate
<1>5. /\ pc'[c] = "claimed" /\ target' = target /\ dev'[c] = u /\ env' = env /\ job' = job
      /\ obj' = obj /\ picked' = picked /\ holds'[c] = {<<u, i>>} /\ bus' = bus
  BY <1>1, <1>3 DEF TypeOK, asking, Claim
<1>6. CProgram(c)' /\ ClassItself(c)' /\ ByOpenDevice(c)' /\ ByRadio(c)'
  BY <1>1, <1>5 DEF OneInv, CProgram, ClassItself, ByOpenDevice, ByRadio, Kinded,
                    Made, PyPc
<1>7. Chosen(c)' /\ Walk(c)'
  BY <1>1, <1>2, <1>5 DEF Chosen, Walk, Kinded, Suits
<1>8. Driven(c)'
  <2>1. {<<u, j>> : j \in Candidates(u)} = {<<u, i>>}
    BY <1>4
  <2>2. u # None
    BY <1>2, NotNone
  <2> HIDE DEF u
  <2>3. holds'[c] = IF dev'[c] = None THEN {} ELSE {<<dev'[c], j>> : j \in Candidates(dev'[c])}
    BY <1>5, <2>1, <2>2
  <2>4. Suits(c, dev[c])'
    BY <1>2, <1>5 DEF Suits
  <2> QED
    BY <1>1, <1>2, <1>5, <2>2, <2>3, <2>4 DEF Driven, Kinded, PyPc, Suits
<1> QED
  BY <1>6, <1>7, <1>8 DEF OneInv

(* Reading the chip id keeps what is said of its caller.                    *)
LEMMA ReadChipOne ==
    ASSUME IInv, NEW c \in Caller, ReadChip(c)
    PROVE  OneInv(c)'
<1>1. TypeOK /\ OneInv(c) /\ ~Kinded(c, "C") /\ pc[c] = "claimed" /\ DrivesChip(c)
  BY KindOfPlace DEF IInv, ReadChip, PyPc
<1>2. /\ pc'[c] = "open" /\ target' = target /\ env' = env /\ job' = job /\ obj' = obj
      /\ dev' = dev /\ picked' = picked /\ holds' = holds /\ bus' = bus
  BY <1>1 DEF TypeOK, python, asking, ReadChip
<1>3. CProgram(c)' /\ ClassItself(c)' /\ ByOpenDevice(c)' /\ ByRadio(c)'
  BY <1>1, <1>2 DEF OneInv, CProgram, ClassItself, ByOpenDevice, ByRadio, Kinded,
                    Made, PyPc
<1>4. Chosen(c)' /\ Walk(c)'
  BY <1>1, <1>2 DEF Chosen, Walk, Kinded
<1>5. Driven(c)'
  BY <1>1, <1>2 DEF OneInv, Driven, Kinded, Suits, PyPc, DrivesChip
<1> QED
  BY <1>3, <1>4, <1>5 DEF OneInv

(* Close, and the wrong chip, keep what is said of their caller.            *)
LEMMA ReleaseOne ==
    ASSUME IInv, NEW c \in Caller, OtherChip(c) \/ Close(c)
    PROVE  OneInv(c)'
<1>1. TypeOK /\ OneInv(c)
  BY DEF IInv
<1>2. ~Kinded(c, "C") /\ pc[c] \in PyPc
  BY <1>1, KindOfPlace DEF OtherChip, Close, OneInv, CProgram, PyPc
<1>3. /\ pc'[c] = "built" /\ target'[c] = None /\ env' = env /\ job' = job /\ obj' = obj
      /\ dev'[c] = None /\ picked' = picked /\ holds'[c] = {} /\ bus' = bus
  BY <1>1 DEF TypeOK, asking, OtherChip, Close, Release, Refuse
<1>4. CProgram(c)' /\ ClassItself(c)' /\ ByOpenDevice(c)' /\ ByRadio(c)'
  BY <1>1, <1>2, <1>3 DEF OneInv, CProgram, ClassItself, ByOpenDevice, ByRadio, Kinded,
                          Made, PyPc
<1>5. Chosen(c)' /\ Walk(c)' /\ Driven(c)'
  BY <1>2, <1>3 DEF Chosen, Walk, Driven, Kinded
<1> QED
  BY <1>4, <1>5 DEF OneInv

(* mt7921_usb_open keeps no object.                                          *)
LEMMA CKeepsNone ==
    ASSUME IInv, NEW c \in Caller, Kinded(c, "C"), UNCHANGED <<asking, python>>,
           pc'[c] \in {"new", "chosen", "walk", "open"}
    PROVE  CProgram(c)' /\ ClassItself(c)' /\ ByOpenDevice(c)' /\ ByRadio(c)' /\ Driven(c)'
<1>1. job' = job /\ env' = env /\ obj' = obj /\ dev' = dev /\ picked' = picked
  BY DEF asking, python
<1>2. obj[c] = None /\ dev[c] = None /\ picked[c] = None
  BY DEF IInv, OneInv, CProgram
<1>3. job[c].kind = "C"
  BY DEF Kinded
<1> QED
  BY <1>1, <1>2, <1>3
     DEF CProgram, ClassItself, ByOpenDevice, ByRadio, Driven, Kinded

(* The enumeration in C keeps what is said of its caller.                   *)
LEMMA CFindOne ==
    ASSUME IInv, NEW c \in Caller, CFind(c)
    PROVE  OneInv(c)'
<1> DEFINE usb_id == Or(job[c].id, env.id)
           found == {u \in Inventoried : usb_id # None => Desc[u].id = usb_id}
<1>1. TypeOK /\ OneInv(c) /\ Kinded(c, "C") /\ pc[c] = "new" /\ holds[c] = {}
  BY DEF IInv, CFind, Kinded, OneInv, Walk
<1>2. /\ UNCHANGED <<asking, python>> /\ holds' = holds /\ walk' = walk
      /\ job' = job /\ env' = env
  BY DEF CFind, asking
<1>3. CASE Refuse(c, "new", found)
  <2>1. pc'[c] = "new"
    BY <1>1, <1>3 DEF TypeOK, Refuse
  <2>2. Chosen(c)' /\ Walk(c)'
    BY <1>1, <1>2, <2>1 DEF Chosen, Walk
  <2> QED
    BY <1>1, <1>2, <2>1, <2>2, CKeepsNone DEF OneInv
<1>4. ASSUME NEW u \in found,
             target' = [target EXCEPT ![c] = u],
             pc' = [pc EXCEPT ![c] = "chosen"]
      PROVE  OneInv(c)'
  <2>1. pc'[c] = "chosen" /\ target'[c] = u /\ u \in Unit
        /\ Or(job[c].id, env.id) \in {None, Desc[u].id}
    BY <1>1, <1>4 DEF TypeOK, Inventoried
  <2>2. Chosen(c)' /\ Walk(c)'
    BY <1>1, <1>2, <2>1 DEF Chosen, Walk
  <2> QED
    BY <1>1, <1>2, <2>1, <2>2, CKeepsNone DEF OneInv
<1> QED
  BY <1>3, <1>4 DEF CFind

(* The open in C keeps what is said of its caller.                          *)
LEMMA COpenOne ==
    ASSUME IInv, NEW c \in Caller, COpen(c)
    PROVE  OneInv(c)'
<1>1. TypeOK /\ OneInv(c) /\ Kinded(c, "C") /\ pc[c] = "chosen"
  BY KindOfPlace DEF IInv, COpen
<1>2. UNCHANGED <<asking, python>> /\ target' = target /\ job' = job /\ env' = env
  BY DEF COpen, asking
<1>3. pc'[c] = "walk" /\ holds'[c] = {<<target[c], 0>>} /\ walk'[c] = Fresh
  BY <1>1 DEF TypeOK, COpen
<1>4. target[c] \in Unit /\ Or(job[c].id, env.id) \in {None, Desc[target[c]].id}
  BY <1>1 DEF OneInv, Chosen
<1>5. Walks(c)'
  <2>1. \A i \in Candidates(target[c]) : i \in Nat /\ ~(i < 1)
    BY <1>4, Interfaces
  <2>2. Passed(c)' = {}
    BY <1>2, <1>3, <2>1 DEF Passed, Fresh
  <2>3. walk'[c].next = 1 /\ walk'[c].qualifying = 0
    BY <1>3 DEF Fresh
  <2>4. 1 \in 1 .. Len(Desc[target[c]].intfs) + 1
    BY <1>4, Interfaces
  <2> QED
    BY <1>2, <1>3, <2>2, <2>3, <2>4 DEF Walks
<1>6. Chosen(c)' /\ Walk(c)'
  BY <1>2, <1>3, <1>4, <1>5 DEF Chosen, Walk, Kinded
<1> QED
  BY <1>1, <1>2, <1>3, <1>6, CKeepsNone DEF OneInv

(* The failures and the close in C keep what is said of their caller.       *)
LEMMA CEndsOne ==
    ASSUME IInv, NEW c \in Caller, COpenFails(c) \/ CRefuse(c) \/ CClose(c)
    PROVE  OneInv(c)'
<1>1. TypeOK /\ OneInv(c) /\ Kinded(c, "C")
  BY KindOfPlace DEF IInv, COpenFails, CRefuse, CClose, Walked, Kinded
<1>2. UNCHANGED <<asking, python>> /\ job' = job /\ env' = env
  BY DEF COpenFails, CRefuse, CClose, asking
<1>3. pc'[c] = "new"
  BY <1>1 DEF TypeOK, COpenFails, CRefuse, CClose, Refuse
<1>4. holds'[c] = {}
  BY <1>1 DEF TypeOK, COpenFails, CRefuse, CClose, OneInv, Walk
<1>5. Chosen(c)' /\ Walk(c)'
  BY <1>3, <1>4 DEF Chosen, Walk
<1> QED
  BY <1>1, <1>2, <1>3, <1>5, CKeepsNone DEF OneInv

(* A step of the walk: past an interface of another kind, past one that      *)
(* cannot be opened, or past one that is looked at and perhaps kept.         *)
LEMMA CWalkOne ==
    ASSUME IInv, NEW c \in Caller, CPass(c) \/ CSkip(c) \/ CTake(c)
    PROVE  OneInv(c)'
<1> DEFINE t == target[c]
           n == walk[c].next
           q == walk[c].qualifying
<1>1. TypeOK /\ OneInv(c) /\ Kinded(c, "C") /\ pc[c] = "walk" /\ n \in Intf(t)
  BY KindOfPlace DEF IInv, CPass, CSkip, CTake, Walking
<1>2. /\ UNCHANGED <<asking, python>> /\ job' = job /\ env' = env
      /\ target' = target /\ pc' = pc
  BY DEF CPass, CSkip, CTake, asking
<1>3. t \in Unit /\ Or(job[c].id, env.id) \in {None, Desc[t].id} /\ Walks(c)
  BY <1>1 DEF OneInv, Chosen, Walk
<1>4. /\ n \in Nat /\ q \in Nat /\ n # 0
      /\ n + 1 \in 1 .. Len(Desc[t].intfs) + 1
      /\ \A i \in Candidates(t) : i \in Nat /\ i # 0
      /\ \A i \in Candidates(t) : i < n + 1 <=> i < n \/ i = n
      /\ ~(n < n)
  BY <1>1, <1>3, Interfaces DEF TypeOK
<1>5. Walks(c)'
  <2>1. CASE CPass(c)
    <3>1. walk'[c].next = n + 1 /\ walk'[c].qualifying = q
          /\ walk'[c].skipped = walk[c].skipped /\ holds' = holds
      BY <1>1, <2>1 DEF CPass, TypeOK
    <3>2. n \notin Candidates(t)
      BY <2>1, <1>3, Interfaces DEF CPass, Here
    <3>3. Passed(c)' = Passed(c)
      BY <1>2, <1>4, <3>1, <3>2 DEF Passed
    <3> QED
      BY <1>2, <1>3, <1>4, <3>1, <3>3 DEF Walks
  <2>2. CASE CSkip(c)
    <3>1. walk'[c].next = n + 1 /\ walk'[c].qualifying = q
          /\ walk'[c].skipped = walk[c].skipped \cup {n} /\ holds' = holds
      BY <1>1, <2>2 DEF CSkip, TypeOK
    <3>2. Passed(c)' = Passed(c)
      BY <1>2, <1>4, <3>1 DEF Passed
    <3> QED
      BY <1>2, <1>3, <1>4, <3>1, <3>2 DEF Walks
  <2>3. CASE CTake(c)
    <3>1. walk'[c].next = n + 1 /\ walk'[c].skipped = walk[c].skipped
          /\ walk'[c].qualifying = q + (IF Qualifies(Here(c)) THEN 1 ELSE 0)
      BY <1>1, <2>3 DEF CTake, TypeOK
    <3>2. n \in Candidates(t) <=> Qualifies(Here(c))
      BY <1>1 DEF Candidates, Here
    <3>3. n \notin walk[c].skipped
      BY <1>1, <1>4 DEF TypeOK
    <3>4. CASE ~Qualifies(Here(c))
      <4>1. holds' = holds /\ walk'[c].qualifying = q
        BY <2>3, <3>1, <3>4, <1>4 DEF CTake
      <4>2. Passed(c)' = Passed(c)
        BY <1>2, <1>4, <3>1, <3>2, <3>4 DEF Passed
      <4> QED
        BY <1>2, <1>3, <1>4, <3>1, <4>1, <4>2 DEF Walks
    <3>5. CASE Qualifies(Here(c))
      <4>1. walk'[c].qualifying = q + 1
        BY <3>1, <3>5
      <4>2. Passed(c)' = Passed(c) \cup {n}
        BY <1>2, <1>4, <3>1, <3>2, <3>3, <3>5 DEF Passed
      <4>3. CASE q = 0
        <5>1. Passed(c) = {} /\ holds[c] = {<<t, 0>>}
          BY <1>3, <4>3 DEF Walks
        <5>2. Kept(c) = {}
          BY <5>1 DEF Kept
        <5>3. holds'[c] = {<<t, 0>>, <<t, n>>}
          BY <1>1, <2>3, <3>5, <5>1, <5>2 DEF CTake, TypeOK
        <5>4. Passed(c)' = {n} /\ n \in Candidates(t) /\ walk'[c].qualifying = 1
          BY <4>1, <4>2, <4>3, <5>1, <3>2, <3>5
        <5> QED
          BY <1>2, <1>4, <3>1, <5>3, <5>4 DEF Walks
      <4>4. CASE q # 0
        <5>1. PICK i \in Candidates(t) : holds[c] = {<<t, 0>>, <<t, i>>}
          <6>1. q = 1 \/ q > 1
            BY <1>4, <4>4
          <6> QED
            BY <1>3, <6>1 DEF Walks
        <5>2. <<t, i>> \in Kept(c)
          <6>1. i # 0
            BY <1>4, <5>1
          <6> QED
            BY <5>1, <6>1 DEF Kept
        <5>3. holds' = holds
          BY <2>3, <5>2 DEF CTake
        <5>4. walk'[c].qualifying > 1 /\ walk'[c].qualifying # 0 /\ walk'[c].qualifying # 1
          BY <4>1, <4>4, <1>4
        <5> QED
          BY <1>2, <1>4, <3>1, <5>1, <5>3, <5>4 DEF Walks
      <4> QED
        BY <4>3, <4>4
    <3> QED
      BY <3>4, <3>5
  <2> QED
    BY <2>1, <2>2, <2>3
<1>6. Chosen(c)' /\ Walk(c)'
  BY <1>1, <1>2, <1>3, <1>5 DEF Chosen, Walk, Kinded
<1> QED
  BY <1>1, <1>2, <1>6, CKeepsNone DEF OneInv

(* The end of the walk in C keeps what is said of its caller.               *)
LEMMA CDoneOne ==
    ASSUME IInv, NEW c \in Caller, CDone(c)
    PROVE  OneInv(c)'
<1>1. TypeOK /\ OneInv(c) /\ Kinded(c, "C") /\ pc[c] = "walk"
  BY KindOfPlace DEF IInv, CDone, Walked
<1>2. /\ UNCHANGED <<asking, python>> /\ job' = job /\ env' = env
      /\ target' = target /\ walk' = walk /\ holds' = holds /\ pc'[c] = "open"
  BY <1>1 DEF CDone, asking, TypeOK
<1>3. Walks(c)'
  BY <1>1, <1>2 DEF OneInv, Walk, Walks, Passed
<1>4. walk[c].next \notin Intf(target[c]) /\ walk[c].qualifying = 1
  BY DEF CDone, Walked, Accepted
<1>5. Chosen(c)' /\ Walk(c)'
  BY <1>1, <1>2, <1>3, <1>4 DEF OneInv, Chosen, Walk, Kinded
<1> QED
  BY <1>1, <1>2, <1>5, CKeepsNone DEF OneInv

(* Whoever moves, every program's part of the invariant holds afterwards.    *)
LEMMA CallerStep ==
    ASSUME IInv, NEW c \in Caller, Py(c) \/ C(c)
    PROVE  \A d \in Caller : OneInv(d)'
<1>1. OneInv(c)'
  BY OpenDeviceOne, OpenDeviceAtOne, EnumerateOne, RefusalOne, ClaimOne, ReadChipOne,
     ReleaseOne, CFindOne, COpenOne, CEndsOne, CWalkOne, CDoneOne DEF Py, C
<1>2. UNCHANGED asking /\ PortsKept /\ \A d \in Caller : d # c => Same(d)
  BY OnlyOwn DEF IInv
<1>3. ASSUME NEW d \in Caller, d # c PROVE OneInv(d)'
  BY <1>2, <1>3, Frame DEF IInv
<1> QED
  BY <1>1, <1>3

-----------------------------------------------------------------------------
(* The steps of no program, or of several at once                           *)

(* Adapters come and go.                                                     *)
LEMMA BusStep ==
    ASSUME IInv,
           \E u \in Unit : Unplug(u) \/ \E p \in Port : Plug(u, p)
    PROVE  IInv'
<1>1. TypeOK /\ Bus /\ Apart
  BY DEF IInv
<1>2. UNCHANGED <<asking, pc, absent, python, target, walk, holds>>
  BY DEF Unplug, Plug
<1>3. PICK u \in Unit : Unplug(u) \/ \E p \in Port : Plug(u, p)
  OBVIOUS
<1>4. bus' \in [Unit -> [port : Ports, on : BOOLEAN]] /\ PortsKept /\ Bus'
  <2>1. CASE Unplug(u)
    <3>1. bus' = [bus EXCEPT ![u].on = FALSE]
      BY <2>1 DEF Unplug
    <3>2. bus' \in [Unit -> [port : Ports, on : BOOLEAN]]
      <4>1. bus[u] \in [port : Ports, on : BOOLEAN]
        BY <1>1 DEF TypeOK
      <4>2. [bus[u] EXCEPT !.on = FALSE] \in [port : Ports, on : BOOLEAN]
        BY <4>1
      <4>3. bus' = [bus EXCEPT ![u] = [bus[u] EXCEPT !.on = FALSE]]
        BY <3>1
      <4> QED
        BY <1>1, <4>2, <4>3 DEF TypeOK
    <3>3. /\ \A v \in Unit : bus'[v].port = bus[v].port
          /\ \A v \in Unit : bus'[v].on => bus[v].on
      <4>1. \A v \in Unit : bus[v] \in [port : Ports, on : BOOLEAN]
        BY <1>1 DEF TypeOK
      <4>2. \A v \in Unit : v # u => bus'[v] = bus[v]
        BY <1>1, <3>1 DEF TypeOK
      <4>3. bus'[u] = [bus[u] EXCEPT !.on = FALSE]
        BY <1>1, <3>1 DEF TypeOK
      <4>4. bus'[u].port = bus[u].port /\ bus'[u].on = FALSE
        BY <4>1, <4>3
      <4> QED
        BY <4>2, <4>4
    <3> QED
      BY <1>1, <3>2, <3>3 DEF PortsKept, Bus, Attached
  <2>2. ASSUME NEW p \in Port, Plug(u, p)
        PROVE  bus' \in [Unit -> [port : Ports, on : BOOLEAN]] /\ PortsKept /\ Bus'
    <3>1. /\ bus' = [bus EXCEPT ![u] = [port |-> p, on |-> TRUE]]
          /\ bus[u].port = None
          /\ \A v \in Unit : bus[v].on => bus[v].port # p
      BY <2>2 DEF Plug, Attached
    <3>2. bus' \in [Unit -> [port : Ports, on : BOOLEAN]]
      BY <1>1, <3>1 DEF TypeOK, Ports
    <3>3. /\ bus'[u].port = p /\ bus'[u].on
          /\ \A v \in Unit : v # u => bus'[v] = bus[v]
      BY <1>1, <3>1 DEF TypeOK
    <3>4. PortsKept
      BY <3>1, <3>3, NotNone DEF PortsKept
    <3> QED
      BY <1>1, <3>1, <3>2, <3>3, <3>4 DEF Bus, Attached
  <2> QED
    BY <1>3, <2>1, <2>2
<1>5. TypeOK'
  BY <1>1, <1>2, <1>4 DEF TypeOK, asking, python
<1>6. ASSUME NEW c \in Caller PROVE OneInv(c)'
  <2>1. Same(c)
    BY <1>2 DEF Same, python
  <2> QED
    BY <1>2, <1>4, <2>1, Frame DEF IInv
<1>7. Apart'
  BY <1>1, <1>2 DEF Apart, Radios, asking, python
<1> QED
  BY <1>4, <1>5, <1>6, <1>7 DEF IInv

(* The entry that a selector stands for is attached, at a port of its own;   *)
(* a selector that is a port stands for that port.                           *)
LEMMA PortMeant ==
    ASSUME IInv, NEW c \in Radios, Cardinality(Matches(c)) = 1
    PROVE  \E u \in Unit :
               /\ Matches(c) = {u} /\ Attached(u) /\ PortOf(c) = bus[u].port
               /\ PortOf(c) \in Port
               /\ job[c].addr \in {None, PortOf(c)}
<1>1. c \in Caller /\ job[c].kind = "radio" /\ job \in Jobs
  BY DEF Radios, IInv, TypeOK
<1>2. PICK u \in Inventoried : Matches(c) = {u} /\ PortOf(c) = bus[u].port
  BY <1>1, OneMatch
<1>3. u \in Unit /\ Attached(u) /\ Desc[u].id # None
  BY <1>2, NotNone DEF Inventoried, Known
<1>4. bus[u].port \in Port
  BY <1>3 DEF IInv, Bus
<1>5. job[c].addr \in {None, bus[u].port}
  <2>1. Desc[u].id = job[c].id \/ bus[u].port = job[c].addr
    BY <1>2 DEF Matches
  <2>2. job[c].id = None \/ job[c].addr = None
    BY <1>1
  <2> QED
    BY <1>3, <2>1, <2>2
<1> QED
  BY <1>2, <1>3, <1>4, <1>5

(* main gives every radio its port, or none of them.                         *)
LEMMA ResolveStep ==
    ASSUME IInv, ResolveRadios
    PROVE  IInv'
<1>1. TypeOK /\ Bus /\ Apart
  BY DEF IInv
<1>2. /\ UNCHANGED <<bus, asking, target, dev, walk, holds, picked, absent>>
      /\ job' = job /\ env' = env /\ bus' = bus
  BY DEF ResolveRadios, asking
<1>3. Radios \subseteq Caller /\ Radios' = Radios /\ PortsKept
  BY <1>2 DEF Radios, PortsKept
<1>4. \A c \in Radios : /\ pc[c] = "new" /\ obj[c] = None /\ picked[c] = None
                        /\ dev[c] = None /\ Kinded(c, "radio") /\ OneInv(c)
  BY <1>3 DEF ResolveRadios, IInv, OneInv, ByRadio, Kinded, Radios, PyPc
<1>5. CASE ~Resolvable
  <2>1. /\ obj' = obj
        /\ pc' = [c \in Caller |-> IF c \in Radios THEN "out" ELSE pc[c]]
    BY <1>5 DEF ResolveRadios
  <2>2. TypeOK'
    <3>1. pc' \in [Caller -> Pc]
      BY <1>1, <2>1 DEF TypeOK, Pc
    <3> QED
      BY <1>1, <1>2, <2>1, <3>1 DEF TypeOK
  <2>3. ASSUME NEW c \in Caller PROVE OneInv(c)'
    <3>1. CASE c \in Radios
      <4>1. pc'[c] = "out"
        BY <2>1, <3>1
      <4>2. CProgram(c)' /\ ClassItself(c)' /\ ByOpenDevice(c)' /\ ByRadio(c)'
        BY <1>2, <1>4, <2>1, <3>1, <4>1
           DEF CProgram, ClassItself, ByOpenDevice, ByRadio, Kinded, PyPc
      <4>3. Chosen(c)' /\ Walk(c)'
        BY <1>2, <1>4, <3>1, <4>1 DEF Chosen, Walk, Kinded
      <4>4. Driven(c)'
        BY <1>2, <1>4, <3>1, <4>1 DEF OneInv, Driven, Kinded
      <4> QED
        BY <4>2, <4>3, <4>4 DEF OneInv
    <3>2. CASE c \notin Radios
      <4>1. Same(c)
        BY <1>2, <2>1, <3>2 DEF Same
      <4> QED
        BY <1>2, <1>3, <4>1, Frame DEF IInv
    <3> QED
      BY <3>1, <3>2
  <2>4. Apart' /\ Bus'
    BY <1>1, <1>2, <1>3, <2>1 DEF Apart, Bus, Attached
  <2> QED
    BY <2>2, <2>3, <2>4 DEF IInv
<1>6. CASE Resolvable
  <2> DEFINE Named(c) == [cls |-> None, usb_id |-> None, address |-> PortOf(c)]
  <2>1. /\ pc' = [c \in Caller |-> IF c \in Radios THEN "named" ELSE pc[c]]
        /\ obj' = [c \in Caller |-> IF c \in Radios THEN Named(c) ELSE obj[c]]
    BY <1>6 DEF ResolveRadios
  <2>2. \A c \in Radios :
            \E u \in Unit :
               /\ Matches(c) = {u} /\ Attached(u) /\ PortOf(c) = bus[u].port
               /\ PortOf(c) \in Port
               /\ job[c].addr \in {None, PortOf(c)}
    BY <1>6, PortMeant DEF Resolvable
  <2>3. \A c \in Radios : Named(c) \in Object /\ Named(c) # None
    BY <2>2 DEF Object, Ports
  <2>4. \A c \in Radios : Named(c).address = PortOf(c)
    OBVIOUS
  <2> HIDE DEF Named
  <2>5. TypeOK'
    <3>1. pc' \in [Caller -> Pc]
      BY <1>1, <2>1 DEF TypeOK, Pc
    <3>2. obj' \in [Caller -> Object \cup {None}]
      BY <1>1, <2>1, <2>3 DEF TypeOK
    <3> QED
      BY <1>1, <1>2, <3>1, <3>2 DEF TypeOK
  <2>6. ASSUME NEW c \in Caller PROVE OneInv(c)'
    <3>1. CASE c \in Radios
      <4>1. pc'[c] = "named" /\ obj'[c] = Named(c)
        BY <2>1, <3>1
      <4>2. CProgram(c)' /\ ClassItself(c)' /\ ByOpenDevice(c)' /\ ByRadio(c)'
        BY <1>2, <1>4, <2>2, <2>3, <2>4, <3>1, <4>1
           DEF CProgram, ClassItself, ByOpenDevice, ByRadio, Kinded, PyPc
      <4>3. Chosen(c)' /\ Walk(c)'
        BY <1>2, <1>4, <3>1, <4>1 DEF Chosen, Walk, Kinded
      <4>4. Driven(c)'
        BY <1>2, <1>4, <3>1, <4>1 DEF OneInv, Driven, Kinded
      <4> QED
        BY <4>2, <4>3, <4>4 DEF OneInv
    <3>2. CASE c \notin Radios
      <4>1. Same(c)
        BY <1>2, <2>1, <3>2 DEF Same
      <4> QED
        BY <1>2, <1>3, <4>1, Frame DEF IInv
    <3> QED
      BY <3>1, <3>2
  <2>7. Apart'
    <3>1. ASSUME NEW c \in Radios, NEW d \in Radios, c # d
          PROVE  PortOf(c) # PortOf(d)
      <4>1. Matches(c) # Matches(d)
        BY <1>6, <3>1 DEF Resolvable, SameAdapter
      <4>2. PICK u \in Unit : Matches(c) = {u} /\ Attached(u) /\ PortOf(c) = bus[u].port
        BY <2>2
      <4>3. PICK v \in Unit : Matches(d) = {v} /\ Attached(v) /\ PortOf(d) = bus[v].port
        BY <2>2
      <4> QED
        BY <1>1, <4>1, <4>2, <4>3 DEF Bus
    <3> QED
      BY <1>3, <2>1, <2>4, <3>1 DEF Apart
  <2>8. Bus'
    BY <1>1, <1>2 DEF Bus, Attached
  <2> QED
    BY <2>5, <2>6, <2>7, <2>8 DEF IInv
<1> QED
  BY <1>5, <1>6

(* The object that replaces a radio's port names the same port.              *)
LEMMA ApartStep ==
    ASSUME IInv, NEW c \in Caller, Py(c) \/ C(c)
    PROVE  Apart'
<1>1. TypeOK /\ Apart /\ OneInv(c)
  BY DEF IInv
<1>2. UNCHANGED asking /\ \A d \in Caller : d # c => obj'[d] = obj[d]
  BY <1>1, OnlyOwn DEF Same
<1>3. Radios' = Radios /\ Radios \subseteq Caller
  BY <1>2 DEF Radios, asking
<1>4. ASSUME c \in Radios, obj'[c] # obj[c]
      PROVE  obj[c] # None /\ obj'[c].address = obj[c].address
  <2>1. Kinded(c, "radio")
    BY <1>4 DEF Radios, Kinded
  <2>2. ~OpenDevice(c)
    BY <2>1 DEF OpenDevice, Kinded
  <2>3. CASE OpenDeviceAt(c)
    <3>1. PICK u \in Inventoried : bus[u].port = obj[c].address /\ Make(c, u)
      BY <1>4, <2>3 DEF OpenDeviceAt, python
    <3>2. obj'[c].address = bus[u].port
      BY <1>1, <3>1 DEF Make, ObjectFor, TypeOK
    <3>3. obj[c] # None
      BY <1>1, <2>1, <2>3 DEF OneInv, ByRadio, OpenDeviceAt
    <3> QED
      BY <3>1, <3>2, <3>3
  <2>4. CASE ~OpenDeviceAt(c)
    BY <1>4, <2>2, <2>4
       DEF Py, C, Enumerate, Misfit, Claim, ClaimFails, ReadChip, OtherChip, ReadFails,
           Close, CFind, COpen, COpenFails, CPass, CSkip, CTake, CDone, CRefuse, CClose,
           python
  <2> QED
    BY <2>3, <2>4
<1> QED
  BY <1>1, <1>2, <1>3, <1>4 DEF Apart

-----------------------------------------------------------------------------
(* The theorems                                                             *)

(* Every step of any program, and of the bus, keeps the invariant.          *)
LEMMA NextInv ==
    ASSUME IInv, [Next]_vars
    PROVE  IInv'
<1>1. CASE UNCHANGED vars
  <2>1. /\ UNCHANGED <<bus, asking, pc, absent, python, target, walk, holds>>
        /\ Radios' = Radios /\ PortsKept
    BY <1>1 DEF vars, Radios, asking, PortsKept
  <2>2. TypeOK'
    BY <2>1 DEF IInv, TypeOK, asking, python
  <2>3. Bus' /\ Apart'
    BY <2>1 DEF IInv, Bus, Apart, Attached, python
  <2>4. ASSUME NEW c \in Caller PROVE OneInv(c)'
    <3>1. Same(c)
      BY <2>1 DEF Same, python
    <3> QED
      BY <2>1, <3>1, Frame DEF IInv
  <2> QED
    BY <2>2, <2>3, <2>4 DEF IInv
<1>2. CASE \E u \in Unit : Unplug(u) \/ \E p \in Port : Plug(u, p)
  BY <1>2, BusStep
<1>3. CASE ResolveRadios
  BY <1>3, ResolveStep
<1>4. ASSUME NEW c \in Caller, Py(c) \/ C(c) PROVE IInv'
  <2>1. TypeOK'
    BY <1>4, PyTypes, CTypes
  <2>2. \A d \in Caller : OneInv(d)'
    BY <1>4, CallerStep
  <2>3. Bus'
    <3>1. bus' = bus
      BY <1>4, OnlyOwn DEF IInv
    <3> QED
      BY <3>1 DEF IInv, Bus, Attached
  <2>4. Apart'
    BY <1>4, ApartStep
  <2> QED
    BY <2>1, <2>2, <2>3, <2>4 DEF IInv
<1> QED
  BY <1>1, <1>2, <1>3, <1>4 DEF Next

(* The inductive invariant of opening: what is known of an adapter between   *)
(* the enumeration that found it and its release, by kind of program.        *)
THEOREM OpenInvariant == Spec => []IInv
<1>1. Init => IInv
  BY InitInv
<1>2. IInv /\ [Next]_vars => IInv'
  BY NextInv
<1> QED
  BY <1>1, <1>2, PTL DEF Spec

(* Whatever is plugged in and out between the enumerations, the adapter that *)
(* is driven is the one that was asked for and chosen, and its silicon one   *)
(* that the class knows (open_device, open_device_at, Mt7921u.open and       *)
(* mt7921_usb_open).                                                         *)
THEOREM AdapterIsRight == Spec => []RightAdapter
<1>1. ASSUME IInv PROVE RightAdapter
  <2> USE <1>1
  <2>1. ASSUME NEW c \in Caller PROVE OneInv(c) /\ TypeOK /\ job[c].kind \in Kind
    BY DEF IInv, TypeOK
  <2>2. ASSUME NEW c \in Caller, pc[c] = "open", Kinded(c, "radio")
        PROVE  /\ bus[Opened(c)].port = obj[c].address
               /\ job[c].addr \in {None, bus[Opened(c)].port}
    <3>1. Made(c) /\ obj[c] # None /\ job[c].addr \in {None, obj[c].address}
      BY <2>1, <2>2 DEF OneInv, ByRadio, PyPc
    <3>2. Suits(c, dev[c]) /\ Opened(c) = dev[c]
      BY <2>1, <2>2 DEF OneInv, Driven, Kinded, Opened
    <3> QED
      BY <3>1, <3>2, NotNone, OrGiven DEF Suits, Made
  <2>3. ASSUME NEW c \in Caller, pc[c] = "open", ~Kinded(c, "radio")
        PROVE  LET u == Opened(c) IN
               /\ Or(job[c].id, env.id) \in {None, Desc[u].id}
               /\ job[c].kind = "C" \/ Or(job[c].addr, env.addr) \in {None, bus[u].port}
    <3>1. CASE Kinded(c, "C")
      BY <2>1, <2>3, <3>1 DEF OneInv, Chosen, Opened, Kinded
    <3>2. CASE ~Kinded(c, "C")
      <4>1. Suits(c, dev[c]) /\ Opened(c) = dev[c]
        BY <2>1, <2>3, <3>2 DEF OneInv, Driven, Kinded, Opened
      <4>2. CASE Kinded(c, "Mt7921u")
        <5>1. obj[c].usb_id = job[c].id /\ obj[c].address = job[c].addr
          <6>1. OneInv(c)
            BY <2>1
          <6>2. obj[c] = [cls |-> job[c].cls, usb_id |-> job[c].id,
                          address |-> job[c].addr]
            BY <4>2, <6>1 DEF OneInv, ClassItself
          <6> QED
            BY <6>2
        <5> QED
          BY <4>1, <5>1 DEF Suits
      <4>3. CASE Kinded(c, "open_device")
        <5>1. /\ Made(c)
              /\ Or(job[c].id, env.id) \in {None, obj[c].usb_id}
              /\ Or(job[c].addr, env.addr) \in {None, obj[c].address}
          BY <2>1, <2>3, <4>3 DEF OneInv, ByOpenDevice
        <5>2. obj[c].usb_id = Desc[dev[c]].id /\ obj[c].address = bus[dev[c]].port
          BY <4>1, <5>1, NotNone, OrGiven DEF Suits, Made
        <5> QED
          BY <4>1, <5>1, <5>2
      <4> QED
        BY <2>1, <2>3, <3>2, <4>2, <4>3 DEF Kinded, Kind
    <3> QED
      BY <3>1, <3>2
  <2>4. AsAsked
    BY <2>2, <2>3 DEF AsAsked, Kinded
  <2>5. SamePort
    <3>1. ASSUME NEW c \in Caller, dev[c] # None, picked[c] # None
          PROVE  picked[c] = [id |-> Desc[dev[c]].id, port |-> bus[dev[c]].port]
      <4>1. Suits(c, dev[c]) /\ pc[c] \in PyPc
        BY <2>1, <3>1 DEF OneInv, Driven
      <4>2. Made(c)
        BY <2>1, <3>1, <4>1 DEF OneInv, CProgram, ClassItself, ByOpenDevice, ByRadio,
                                Kinded, Kind, PyPc
      <4>3. obj[c].usb_id = Desc[dev[c]].id /\ obj[c].address = bus[dev[c]].port
        BY <4>1, <4>2, NotNone, OrGiven DEF Suits, Made
      <4> QED
        BY <4>2, <4>3 DEF Made
    <3> QED
      BY <3>1 DEF SamePort
  <2>6. KnownSilicon
    <3>1. ASSUME NEW c \in Caller, dev[c] # None, pc[c] = "open"
          PROVE  Class(dev[c]) = obj[c].cls /\ DrivesChip(c)
      <4>1. ~Kinded(c, "C")
        BY <2>1, <3>1 DEF OneInv, CProgram
      <4> QED
        BY <2>1, <3>1, <4>1 DEF OneInv, Driven
    <3> QED
      BY <3>1 DEF KnownSilicon, DrivesChip
  <2> QED
    BY <2>4, <2>5, <2>6 DEF RightAdapter
<1> QED
  BY <1>1, OpenInvariant, PTL

(* However the radios of a capture were named, no two of them go for one     *)
(* adapter (dual_capture's main compares what the selectors resolve to).     *)
THEOREM RadiosStayApart == Spec => []RadiosApart
<1>1. ASSUME IInv PROVE RadiosApart
  <2> SUFFICES ASSUME NEW c \in Radios, NEW d \in Radios, c # d,
                      pc[c] # "new", pc[c] # "out"
               PROVE  /\ obj[d] # None => obj[c].address # obj[d].address
                      /\ dev[c] # None => dev[c] # dev[d]
    BY DEF RadiosApart
  <2>1. /\ c \in Caller /\ d \in Caller /\ Kinded(c, "radio") /\ Kinded(d, "radio")
        /\ OneInv(c) /\ OneInv(d) /\ Apart
    BY <1>1 DEF Radios, Kinded, IInv
  <2>2. obj[c] # None
    BY <2>1 DEF OneInv, ByRadio
  <2>3. obj[d] # None => obj[c].address # obj[d].address
    BY <2>1, <2>2 DEF Apart
  <2>4. ASSUME NEW e \in {c, d}, dev[e] # None
        PROVE  obj[e] # None /\ bus[dev[e]].port = obj[e].address
    <3>1. OneInv(e) /\ Kinded(e, "radio")
      BY <2>1, <2>4
    <3>2. Suits(e, dev[e]) /\ pc[e] \in PyPc
      BY <2>4, <3>1 DEF OneInv, Driven
    <3>3. Made(e) /\ obj[e] # None
      BY <3>1, <3>2 DEF OneInv, ByRadio
    <3> QED
      BY <3>2, <3>3, NotNone, OrGiven DEF Suits, Made
  <2>5. dev[c] # None => dev[c] # dev[d]
    BY <2>3, <2>4
  <2> QED
    BY <2>3, <2>5
<1> QED
  BY <1>1, OpenInvariant, PTL

(* Python holds an interface exactly while close would release it; C holds   *)
(* nothing once it has failed, and the device with one interface, the one    *)
(* Python would find, once it has succeeded.                                 *)
THEOREM HoldsExactly == Spec => []HeldExactly
<1>1. ASSUME IInv PROVE HeldExactly
  <2> USE <1>1
  <2>1. CanGiveBack
    <3>1. ASSUME NEW c \in Caller, Kinded(c, "C"), pc[c] = "open"
          PROVE  \E i \in Candidates(target[c]) :
                    holds[c] = {<<target[c], 0>>, <<target[c], i>>}
      BY <3>1 DEF IInv, OneInv, Walk, Walks
    <3>2. ASSUME NEW c \in Caller, Kinded(c, "C"), pc[c] \in {"new", "chosen"}
          PROVE  holds[c] = {}
      BY <3>2 DEF IInv, OneInv, Walk
    <3>3. ASSUME NEW c \in Caller, ~Kinded(c, "C")
          PROVE  holds[c] = IF dev[c] = None THEN {}
                            ELSE {<<dev[c], i>> : i \in Candidates(dev[c])}
      BY <3>3 DEF IInv, OneInv, Driven
    <3> QED
      BY <3>1, <3>2, <3>3 DEF CanGiveBack, Kinded
  <2>2. SameChoice
    <3> SUFFICES ASSUME NEW c \in Caller, Kinded(c, "C"), pc[c] = "open",
                        walk[c].skipped = {}
                 PROVE  {p[2] : p \in Kept(c)} = Candidates(target[c])
      BY DEF SameChoice, Kinded
    <3> DEFINE t == target[c]
    <3>1. /\ t \in Unit /\ Walks(c)
          /\ walk[c].next \notin Intf(t) /\ walk[c].qualifying = 1
      BY DEF IInv, OneInv, Chosen, Walk
    <3>2. PICK i \in Candidates(t) : Passed(c) = {i} /\ holds[c] = {<<t, 0>>, <<t, i>>}
      BY <3>1 DEF Walks
    <3>3. \A j \in Candidates(t) : j < walk[c].next
      <4>1. walk[c].next \in 1 .. Len(Desc[t].intfs) + 1
        BY <3>1 DEF Walks
      <4>2. walk[c].next \notin 1 .. Len(Desc[t].intfs) /\ Len(Desc[t].intfs) \in Nat
        BY <3>1, Interfaces
      <4>3. \A j \in Candidates(t) : j \in 1 .. Len(Desc[t].intfs)
        BY <3>1, Interfaces
      <4> HIDE DEF t
      <4> QED
        BY <4>1, <4>2, <4>3
    <3>4. Candidates(t) = {i}
      BY <3>2, <3>3 DEF Passed
    <3>5. Kept(c) = {<<t, i>>}
      <4>1. i # 0
        BY <3>1, <3>2, Interfaces
      <4>2. Kept(c) = {p \in {<<t, 0>>, <<t, i>>} : p[2] # 0}
        BY <3>2 DEF Kept
      <4> QED
        BY <4>1, <4>2
    <3> QED
      BY <3>4, <3>5
  <2> QED
    BY <2>1, <2>2 DEF HeldExactly
<1> QED
  BY <1>1, OpenInvariant, PTL

(* A radio is told that its adapter is not there only when no adapter of its *)
(* model is at its port, whatever the environment names (open_device_at,     *)
(* find_supported_devices).                                                  *)
THEOREM AbsenceIsReal == Spec => AbsentIsAbsent
<1> DEFINE Gone(c) == ~\E u \in Inventoried :
                          /\ bus[u].port = obj[c].address
                          /\ picked[c] # None => Desc[u].id = picked[c].id
           Step == \A c \in Radios : absent'[c] /\ ~absent[c] => Gone(c)
<1>1. ASSUME IInv, [Next]_vars PROVE [Step]_vars
  <2> SUFFICES ASSUME NEW c \in Radios, absent'[c], ~absent[c]
               PROVE  Gone(c)
    OBVIOUS
  <2> HIDE DEF Step
  <2>1. c \in Caller /\ Kinded(c, "radio") /\ TypeOK /\ OneInv(c)
    BY <1>1 DEF Radios, Kinded, IInv
  <2>2. absent'[c] # absent[c]
    OBVIOUS
  <2>3. Py(c) \/ C(c)
    <3>1. CASE UNCHANGED absent
      BY <3>1, <2>2
    <3>2. ASSUME NEW d \in Caller, Py(d) \/ C(d), d # c
          PROVE  absent'[c] = absent[c]
      BY <2>1, <3>2
         DEF Py, C, OpenDevice, OpenDeviceAt, Enumerate, Misfit, Claim, ClaimFails,
             ReadChip, OtherChip, ReadFails, Close, CFind, COpen, COpenFails, CPass,
             CSkip, CTake, CDone, CRefuse, CClose, Refuse, Make, TypeOK
    <3>3. \/ UNCHANGED absent
          \/ \E d \in Caller : Py(d) \/ C(d)
      BY <1>1 DEF Next, Unplug, Plug, ResolveRadios, vars
    <3> QED
      BY <2>2, <3>1, <3>2, <3>3
  <2>4. CASE OpenDeviceAt(c)
    <3>1. PICK found : /\ found = {u \in Inventoried : bus[u].port = obj[c].address}
                       /\ Refuse(c, "out", found)
      BY <2>2, <2>4 DEF OpenDeviceAt, Make
    <3>2. found = {}
      BY <2>1, <3>1 DEF Refuse, TypeOK
    <3> QED
      BY <3>1, <3>2
  <2>5. CASE Enumerate(c)
    <3> DEFINE found == FindSupported(obj[c].usb_id, obj[c].address)
    <3>1. Refuse(c, "built", found)
      BY <2>2, <2>5 DEF Enumerate
    <3>2. found = {}
      BY <2>1, <3>1 DEF Refuse, TypeOK
    <3>3. Made(c)
      BY <2>1, <2>5 DEF OneInv, ByRadio, Enumerate, PyPc
    <3>4. /\ Or(obj[c].usb_id, env.id) = picked[c].id
          /\ Or(obj[c].address, env.addr) = obj[c].address
          /\ picked[c].id # None /\ obj[c].address # None
      BY <3>3, NotNone, OrGiven DEF Made
    <3>5. picked[c] # None
      BY <3>3 DEF Made
    <3>6. ASSUME NEW u \in Inventoried, bus[u].port = obj[c].address,
                 Desc[u].id = picked[c].id
          PROVE  u \in found
      BY <3>4, <3>6 DEF FindSupported, Find, Inventoried
    <3> QED
      BY <3>2, <3>5, <3>6
  <2>6. CASE ~OpenDeviceAt(c) /\ ~Enumerate(c)
    <3>1. ~OpenDevice(c) /\ ~CFind(c)
      BY <2>1 DEF OpenDevice, CFind, Kinded
    <3>2. \/ UNCHANGED absent
          \/ \E at, u : Refuse(c, at, {u})
      BY <2>3, <2>6, <3>1
         DEF Py, C, Misfit, Claim, ClaimFails, ReadChip, OtherChip, ReadFails, Close,
             COpen, COpenFails, CPass, CSkip, CTake, CDone, CRefuse, CClose
    <3>3. ASSUME NEW at, NEW u, Refuse(c, at, {u}) PROVE ~absent'[c]
      BY <2>1, <3>3 DEF Refuse, TypeOK
    <3> QED
      BY <2>2, <3>2, <3>3
  <2> QED
    BY <2>4, <2>5, <2>6
<1> QED
  BY <1>1, OpenInvariant, PTL DEF AbsentIsAbsent, Spec

=============================================================================
