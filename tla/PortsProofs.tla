------------------------------ MODULE PortsProofs ------------------------------
(***************************************************************************)
(* What holds of the port pool for every number of processes, controllers, *)
(* ports and failures: the counts never fall behind, and every EBUSY an    *)
(* attacher meets is paid for.                                             *)
(***************************************************************************)
EXTENDS VhciPorts, FiniteSetTheorems, WellFoundedInduction, TLAPS

-----------------------------------------------------------------------------
(* Types. *)

Statuses == {"VDEV_ST_NULL", "VDEV_ST_NOTASSIGNED", "VDEV_ST_USED", "VDEV_ST_ERROR"}
Bits     == {"shutdown", "reset", "unusable"}
EhSteps  == {"shutdown", "reset", "put_reset", "unusable", "put_unusable"}
Pcs      == {"scan", "get", "store", "put", "put_failed", "record", "done",
             "detach", "down", "failed"}

CountTypes ==
    /\ pdev \in [Ctl -> BOOLEAN]
    /\ usingPorts \in [Ctl -> Int]
    /\ usingPort \in [Port -> Int]
    /\ \A p \in Port : usingPort[p] <= 1

DeviceTypes ==
    /\ status \in [Port -> Statuses]
    /\ owner \in [Port -> Proc \cup {NoProc}]

EventTypes ==
    /\ event \in [Port -> SUBSET Bits]
    /\ events \subseteq Port
    /\ eh \in (Port \X EhSteps) \cup {<<NoPort, "idle">>}

UserTypes ==
    /\ pc \in [Proc -> Pcs]
    /\ at \in [Proc -> Port]
    /\ busy \in [Proc -> Nat]
    /\ fails \in Nat
    /\ user \in ({"down", "over"} \X Port) \cup {<<"ready", NoPort>>}

\* The values the pool's variables range over; a port's using_port is a
\* signed count that a get sets to one and every put lowers.
PortsTypeOK == CountTypes /\ DeviceTypes /\ EventTypes /\ UserTypes

\* The ports are finitely many pairs of a controller and a root hub port.
LEMMA PortFacts ==
    /\ IsFiniteSet(Ctl) /\ IsFiniteSet(Rh) /\ IsFiniteSet(Port)
    /\ 0 \in Ctl /\ 0 \in Rh
    /\ \A p \in Port : p[1] \in Ctl /\ p[2] \in Rh /\ p = <<p[1], p[2]>>
    /\ \A c \in Ctl, r \in Rh : <<c, r>> \in Port
    /\ NoPort \notin Port
<1>1. MaxCtl - 1 \in Int /\ HcPorts - 1 \in Int
  BY PortsAssumption
<1>2. IsFiniteSet(Ctl) /\ IsFiniteSet(Rh)
  BY <1>1, FS_Interval DEF Ctl, Rh
<1>3. IsFiniteSet(Port)
  BY <1>2, FS_Product DEF Port
<1>4. 0 \in Ctl /\ 0 \in Rh
  BY PortsAssumption DEF Ctl, Rh
<1>5. /\ \A p \in Port : p[1] \in Ctl /\ p[2] \in Rh /\ p = <<p[1], p[2]>>
      /\ \A c \in Ctl, r \in Rh : <<c, r>> \in Port
  BY DEF Port
<1>6. -1 \notin Ctl
  BY PortsAssumption DEF Ctl
<1>7. NoPort \notin Port
  BY <1>5, <1>6 DEF NoPort
<1> QED
  BY <1>2, <1>3, <1>4, <1>5, <1>7

\* A set of root hub ports that is not empty has a least element, the one at
\* which the scan of a status file stops.
LEMMA LeastPort ==
    ASSUME NEW S \in SUBSET Rh, S # {}
    PROVE  Min(S) \in S
<1>1. S \subseteq Nat
  BY PortsAssumption DEF Rh
<1> DEFINE Less == {ss \in Nat \X Nat : ss[1] < ss[2]}
<1>0. ASSUME NEW m \in Nat, NEW n \in Nat, m < n PROVE <<m, n>> \in Less
  <2>1. <<m, n>> \in Nat \X Nat /\ <<m, n>>[1] = m /\ <<m, n>>[2] = n
    OBVIOUS
  <2> QED
    BY <1>0, <2>1
<1>2. IsWellFoundedOn(Less, Nat)
  BY NatLessThanWellFounded, Zenon DEF OpToRel
<1> HIDE DEF Less
<1>3. PICK x \in S : \A y \in S : ~(<<y, x>> \in Less)
  BY <1>1, <1>2, WFMin, Zenon
<1>4. ASSUME NEW y \in S PROVE x <= y
  <2>1. x \in Nat /\ y \in Nat
    BY <1>1
  <2>2. ~(y < x)
    BY <1>0, <1>3, <2>1
  <2> QED
    BY <2>1, <2>2
<1> QED
  BY <1>4 DEF Min

\* A deletion only takes controllers away.
LEMMA DeletionTakes ==
    ASSUME pdev \in [Ctl -> BOOLEAN], TryDel
    PROVE  /\ pdev' \in [Ctl -> BOOLEAN]
           /\ \A c \in Ctl : pdev'[c] => pdev[c]
<1>1. PICK C : pdev' \in {pdev} \cup {[pdev EXCEPT ![c] = FALSE] : c \in C}
  BY DEF TryDel
<1>2. CASE pdev' = pdev
  BY <1>2
<1>3. CASE \E c \in C : pdev' = [pdev EXCEPT ![c] = FALSE]
  <2>1. PICK c \in C : pdev' = [pdev EXCEPT ![c] = FALSE]
    BY <1>3
  <2> QED
    BY <2>1
<1> QED
  BY <1>1, <1>2, <1>3


\* What a get and a put leave of the counts' types.
LEMMA CountsType ==
    ASSUME CountTypes, NEW p \in Port, GetCount(p) \/ PutCount(p)
    PROVE  /\ usingPorts' \in [Ctl -> Int]
           /\ usingPort' \in [Port -> Int]
           /\ \A x \in Port : usingPort'[x] <= 1
<1>1. CASE GetCount(p)
  BY <1>1, PortFacts DEF CountTypes, GetCount
<1>2. CASE PutCount(p)
  <2>1. usingPort' \in [Port -> Int] /\ \A x \in Port : usingPort'[x] <= 1
    BY <1>2 DEF CountTypes, PutCount
  <2>2. usingPorts' \in [Ctl -> Int]
    BY <1>2, PortFacts DEF CountTypes, PutCount
  <2> QED
    BY <2>1, <2>2
<1> QED
  BY <1>1, <1>2

\* usbip_event_add keeps the events' types.
LEMMA EventAddType ==
    ASSUME EventTypes, NEW p \in Port, NEW bits \in SUBSET Bits, EventAdd(p, bits)
    PROVE  event' \in [Port -> SUBSET Bits] /\ events' \subseteq Port
BY DEF EventTypes, EventAdd

\* The port a scan leaves its attacher with, and that a scan which stops at
\* it has seen it free.
LEMMA ScanFinds ==
    ASSUME UserTypes, NEW q \in Proc, ScanStatus(q)
    PROVE  /\ at' \in [Proc -> Port]
           /\ \E step \in {"scan", "failed", "get"} :
                /\ pc' = [pc EXCEPT ![q] = step]
                /\ step = "get" => Shown(at'[q]) = "VDEV_ST_NULL"
           /\ \A x \in Proc \ {q} : at'[x] = at[x]
<1> DEFINE c == at[q][1]
           free == {r \in Rh : Shown(<<c, r>>) = "VDEV_ST_NULL"}
<1>0. c \in Ctl
  BY PortFacts DEF UserTypes
<1> HIDE DEF c
<1>1. PICK missing \in SUBSET {r \in Rh : Shown(<<c, r>>) = "VDEV_ST_USED"} :
        LET broken == missing \cup {r \in Rh : Shown(<<c, r>>) = "VDEV_ST_ERROR"}
            stops  == free \cup broken
        IN  /\ pc' = [pc EXCEPT ![q] =
                    IF stops = {} THEN IF c + 1 \in Ctl THEN "scan" ELSE "failed"
                    ELSE IF Min(stops) \in broken THEN "failed" ELSE "get"]
            /\ at' = [at EXCEPT ![q] =
                    IF stops = {} THEN <<IF c + 1 \in Ctl THEN c + 1 ELSE c, 0>>
                    ELSE <<c, Min(stops)>>]
  BY Zenon DEF ScanStatus, c
<1> DEFINE broken == missing \cup {r \in Rh : Shown(<<c, r>>) = "VDEV_ST_ERROR"}
           stops  == free \cup broken
<1>2. stops \subseteq Rh /\ stops \ broken \subseteq free
  OBVIOUS
<1>3. /\ pc' = [pc EXCEPT ![q] =
              IF stops = {} THEN IF c + 1 \in Ctl THEN "scan" ELSE "failed"
              ELSE IF Min(stops) \in broken THEN "failed" ELSE "get"]
      /\ at' = [at EXCEPT ![q] =
              IF stops = {} THEN <<IF c + 1 \in Ctl THEN c + 1 ELSE c, 0>>
              ELSE <<c, Min(stops)>>]
  BY <1>1
<1>4. \A r \in free : Shown(<<c, r>>) = "VDEV_ST_NULL"
  OBVIOUS
<1> HIDE DEF free, broken, stops
<1>5. CASE stops = {}
  <2>1. PICK d \in Ctl : at' = [at EXCEPT ![q] = <<d, 0>>]
    BY <1>0, <1>3, <1>5
  <2>2. <<d, 0>> \in Port
    BY PortFacts
  <2>3. at' \in [Proc -> Port] /\ \A x \in Proc \ {q} : at'[x] = at[x]
    BY <2>1, <2>2 DEF UserTypes
  <2>4. \E step \in {"scan", "failed"} : pc' = [pc EXCEPT ![q] = step]
    BY <1>3, <1>5
  <2> QED
    BY <2>3, <2>4
<1>6. CASE stops # {}
  <2>1. Min(stops) \in stops
    BY <1>2, <1>6, LeastPort
  <2>2. PICK r \in stops : r = Min(stops)
    BY <2>1
  <2>3. /\ at' = [at EXCEPT ![q] = <<c, r>>]
        /\ pc' = [pc EXCEPT ![q] = IF r \in broken THEN "failed" ELSE "get"]
    BY <1>3, <1>6, <2>2
  <2>4. <<c, r>> \in Port
    BY <1>0, <1>2, <2>2, PortFacts
  <2>5. /\ at' \in [Proc -> Port] /\ at'[q] = <<c, r>>
        /\ \A x \in Proc \ {q} : at'[x] = at[x]
    BY <2>3, <2>4 DEF UserTypes
  <2>6. CASE r \in broken
    BY <2>3, <2>5, <2>6
  <2>7. CASE r \notin broken
    <3>1. Shown(<<c, r>>) = "VDEV_ST_NULL"
      BY <1>2, <1>4, <2>2, <2>7
    <3> QED
      BY <2>3, <2>5, <2>7, <3>1
  <2> QED
    BY <2>6, <2>7
<1> QED
  BY <1>5, <1>6


\* vhci_get_device has three outcomes: the controller is there and counts one
\* more, it is created with its ports free and one of them counted, or it
\* cannot be created.
GetPresent(q) ==
    /\ pdev[at[q][1]] /\ GetCount(at[q])
    /\ pc' = [pc EXCEPT ![q] = "store"]
    /\ UNCHANGED <<pdev, status, owner, event>>

GetCreated(q) ==
    LET new == {at[q][1]} \X Rh IN
    /\ ~pdev[at[q][1]]
    /\ pdev' = [pdev EXCEPT ![at[q][1]] = TRUE]
    /\ usingPorts' = [usingPorts EXCEPT ![at[q][1]] = 1]
    /\ usingPort' = [p \in Port |->
            IF p = at[q] THEN 1 ELSE IF p \in new THEN 0 ELSE usingPort[p]]
    /\ status' = [p \in Port |-> IF p \in new THEN "VDEV_ST_NULL" ELSE status[p]]
    /\ owner' = [p \in Port |-> IF p \in new THEN NoProc ELSE owner[p]]
    /\ event' = [p \in Port |-> IF p \in new THEN {} ELSE event[p]]
    /\ pc' = [pc EXCEPT ![q] = "store"]

GetFails(q) ==
    /\ pc' = [pc EXCEPT ![q] = "failed"]
    /\ UNCHANGED <<pdev, usingPorts, usingPort, status, owner, event>>

\* Every step of vhci_get_device is one of the three.
LEMMA GetOutcomes ==
    ASSUME CountTypes, UserTypes, NEW q \in Proc, GetDevice(q)
    PROVE  GetPresent(q) \/ GetCreated(q) \/ GetFails(q)
<1>0. at[q][1] \in Ctl
  BY PortFacts DEF UserTypes
<1>1. PICK ok \in BOOLEAN :
        IF ok \/ pdev[at[q][1]]
        THEN /\ pdev' = [pdev EXCEPT ![at[q][1]] = TRUE]
             /\ IF pdev[at[q][1]]
                THEN GetCount(at[q]) /\ UNCHANGED <<status, owner, event>>
                ELSE LET new == {at[q][1]} \X Rh IN
                     /\ usingPorts' = [usingPorts EXCEPT ![at[q][1]] = 1]
                     /\ usingPort' = [p \in Port |->
                            IF p = at[q] THEN 1 ELSE IF p \in new THEN 0 ELSE usingPort[p]]
                     /\ status' = [p \in Port |->
                            IF p \in new THEN "VDEV_ST_NULL" ELSE status[p]]
                     /\ owner' = [p \in Port |-> IF p \in new THEN NoProc ELSE owner[p]]
                     /\ event' = [p \in Port |-> IF p \in new THEN {} ELSE event[p]]
             /\ pc' = [pc EXCEPT ![q] = "store"]
        ELSE /\ pc' = [pc EXCEPT ![q] = "failed"]
             /\ UNCHANGED <<pdev, usingPorts, usingPort, status, owner, event>>
  BY Zenon DEF GetDevice
<1>2. CASE pdev[at[q][1]]
  <2>1. [pdev EXCEPT ![at[q][1]] = TRUE] = pdev
    BY <1>0, <1>2 DEF CountTypes
  <2> QED
    BY <1>1, <1>2, <2>1, Zenon DEF GetPresent
<1>3. CASE ~pdev[at[q][1]] /\ ok
  BY <1>1, <1>3, Zenon DEF GetCreated
<1>4. CASE ~pdev[at[q][1]] /\ ~ok
  BY <1>1, <1>4, Zenon DEF GetFails
<1> QED
  BY <1>2, <1>3, <1>4

\* The types hold initially.
LEMMA PortsTypeInit == PortsInit => PortsTypeOK
<1> SUFFICES ASSUME PortsInit PROVE PortsTypeOK
  OBVIOUS
<1>1. CountTypes
  <2>1. pdev \in [Ctl -> BOOLEAN]
    BY PortsAssumption DEF PortsInit, Ctl
  <2>2. usingPorts \in [Ctl -> Int] /\ usingPort \in [Port -> Int]
    BY DEF PortsInit
  <2>3. \A p \in Port : usingPort[p] <= 1
    BY DEF PortsInit
  <2> QED
    BY <2>1, <2>2, <2>3 DEF CountTypes
<1>2. DeviceTypes /\ EventTypes
  BY DEF PortsInit, DeviceTypes, EventTypes, Statuses
<1>3. UserTypes
  <2>1. <<0, 0>> \in Port
    BY PortFacts
  <2> QED
    BY <2>1 DEF PortsInit, UserTypes, Pcs
<1> QED
  BY <1>1, <1>2, <1>3 DEF PortsTypeOK

\* Every step keeps the counts' types.
LEMMA CountTypesStep == PortsTypeOK /\ [PortsNext]_portVars => CountTypes'
<1> SUFFICES ASSUME PortsTypeOK, [PortsNext]_portVars PROVE CountTypes'
  OBVIOUS
<1> USE DEF PortsTypeOK
<1>1. CASE UNCHANGED <<pdev, usingPorts, usingPort>>
  BY <1>1 DEF CountTypes
<1>2. CASE UNCHANGED <<usingPorts, usingPort>> /\ TryDel
  BY <1>2, DeletionTakes DEF CountTypes
<1>3. ASSUME UNCHANGED pdev, NEW p \in Port, GetCount(p) \/ PutCount(p)
      PROVE  CountTypes'
  BY <1>3, CountsType DEF CountTypes
<1>4. ASSUME NEW q \in Proc, AttachStep(q) PROVE CountTypes'
  <2>0. at[q] \in Port
    BY DEF UserTypes
  <2>1. CASE ScanStatus(q) \/ StoreAttach(q) \/ CreateRecord(q) \/ DetachAgain(q)
    BY <1>1, <2>1 DEF ScanStatus, StoreAttach, CreateRecord, DetachAgain
  <2>2. CASE PutBusy(q) \/ PutFailed(q)
    BY <1>3, <2>0, <2>2 DEF PutBusy, PutFailed
  <2>3. CASE AttachDown(q)
    BY <1>2, <2>3 DEF AttachDown, VhciEventAdd
  <2>4. CASE GetDevice(q)
    <3>1. CASE GetPresent(q)
      BY <1>3, <2>0, <3>1 DEF GetPresent
    <3>2. CASE GetFails(q)
      BY <1>1, <3>2 DEF GetFails
    <3>3. CASE GetCreated(q)
      <4>0. at[q][1] \in Ctl
        BY <2>0, PortFacts
      <4>1. pdev' \in [Ctl -> BOOLEAN]
        BY <3>3, <4>0 DEF GetCreated, CountTypes
      <4>2. usingPorts' \in [Ctl -> Int]
        BY <3>3, <4>0 DEF GetCreated, CountTypes
      <4>3. usingPort' \in [Port -> Int] /\ \A p \in Port : usingPort'[p] <= 1
        BY <3>3 DEF GetCreated, CountTypes
      <4> QED
        BY <4>1, <4>2, <4>3 DEF CountTypes
    <3> QED
      BY <2>4, <3>1, <3>2, <3>3, GetOutcomes
  <2> QED
    BY <1>4, <2>1, <2>2, <2>3, <2>4 DEF AttachStep
<1>5. ASSUME NEW p \in Port, StoreDetach(p) \/ SetAddress(p) PROVE CountTypes'
  BY <1>1, <1>5 DEF StoreDetach, SetAddress
<1>6. ASSUME NEW p \in Port, ConnectionFails(p) PROVE CountTypes'
  BY <1>2, <1>6 DEF ConnectionFails, VhciEventAdd
<1>7. CASE PortDown
  BY <1>2, <1>7 DEF PortDown, VhciEventAdd
<1>8. CASE EhTake \/ EhShutdown \/ EhFree
  BY <1>1, <1>8 DEF EhTake, EhShutdown, EhFree
<1>9. CASE EhPut
  <2>1. eh[1] \in Port
    BY <1>9 DEF EhPut, EventTypes
  <2> QED
    BY <1>3, <1>9, <2>1 DEF EhPut
<1>10. CASE UNCHANGED portVars
  BY <1>1, <1>10 DEF portVars
<1> QED
  BY <1>4, <1>5, <1>6, <1>7, <1>8, <1>9, <1>10 DEF PortsNext, EhStep


\* Every step keeps the types of the devices' states.
LEMMA DeviceTypesStep == PortsTypeOK /\ [PortsNext]_portVars => DeviceTypes'
<1> SUFFICES ASSUME PortsTypeOK, [PortsNext]_portVars PROVE DeviceTypes'
  OBVIOUS
<1> USE DEF PortsTypeOK
<1>1. CASE UNCHANGED <<status, owner>>
  BY <1>1 DEF DeviceTypes
<1>2. ASSUME NEW q \in Proc, AttachStep(q) PROVE DeviceTypes'
  <2>1. CASE ScanStatus(q) \/ PutBusy(q) \/ PutFailed(q) \/ CreateRecord(q)
    BY <1>1, <2>1 DEF ScanStatus, PutBusy, PutFailed, CreateRecord
  <2>2. CASE DetachAgain(q) \/ AttachDown(q)
    BY <1>1, <2>2 DEF DetachAgain, AttachDown
  <2>3. CASE StoreAttach(q)
    BY <1>1, <2>3 DEF StoreAttach, DeviceTypes, UserTypes, Statuses
  <2>4. CASE GetDevice(q)
    <3>1. CASE GetPresent(q) \/ GetFails(q)
      BY <1>1, <3>1 DEF GetPresent, GetFails
    <3>2. CASE GetCreated(q)
      <4>1. status' \in [Port -> Statuses]
        BY <3>2 DEF GetCreated, DeviceTypes, Statuses
      <4>2. owner' \in [Port -> Proc \cup {NoProc}]
        BY <3>2 DEF GetCreated, DeviceTypes
      <4> QED
        BY <4>1, <4>2 DEF DeviceTypes
    <3> QED
      BY <2>4, <3>1, <3>2, GetOutcomes
  <2> QED
    BY <1>2, <2>1, <2>2, <2>3, <2>4 DEF AttachStep
<1>3. ASSUME NEW p \in Port, StoreDetach(p) \/ ConnectionFails(p) PROVE DeviceTypes'
  BY <1>1, <1>3 DEF StoreDetach, ConnectionFails
<1>4. ASSUME NEW p \in Port, SetAddress(p) PROVE DeviceTypes'
  BY <1>4 DEF SetAddress, DeviceTypes, Statuses
<1>5. CASE PortDown \/ EhTake \/ EhPut
  BY <1>1, <1>5 DEF PortDown, EhTake, EhPut
<1>6. CASE EhShutdown
  BY <1>6 DEF EhShutdown, DeviceTypes
<1>7. CASE EhFree
  BY <1>7 DEF EhFree, DeviceTypes, Statuses
<1>8. CASE UNCHANGED portVars
  BY <1>1, <1>8 DEF portVars
<1> QED
  BY <1>2, <1>3, <1>4, <1>5, <1>6, <1>7, <1>8 DEF PortsNext, EhStep

\* Every step keeps the events' types: the worker is idle or at a port.
LEMMA EventTypesStep == PortsTypeOK /\ [PortsNext]_portVars => EventTypes'
<1> SUFFICES ASSUME PortsTypeOK, [PortsNext]_portVars PROVE EventTypes'
  OBVIOUS
<1> USE DEF PortsTypeOK
<1>1. CASE UNCHANGED <<event, events, eh>>
  BY <1>1 DEF EventTypes
<1>2. ASSUME UNCHANGED eh, NEW p \in Port, NEW bits \in {EventDown, EventAlloc},
             EventAdd(p, bits)
      PROVE  EventTypes'
  <2>1. bits \in SUBSET Bits
    BY DEF EventDown, EventAlloc, Bits
  <2> QED
    BY <1>2, <2>1, EventAddType DEF EventTypes
<1>3. ASSUME NEW q \in Proc, AttachStep(q) PROVE EventTypes'
  <2>0. at[q] \in Port
    BY DEF UserTypes
  <2>1. CASE ScanStatus(q) \/ StoreAttach(q) \/ PutBusy(q) \/ PutFailed(q)
    BY <1>1, <2>1 DEF ScanStatus, StoreAttach, PutBusy, PutFailed
  <2>2. CASE CreateRecord(q) \/ DetachAgain(q)
    BY <1>1, <2>2 DEF CreateRecord, DetachAgain
  <2>3. CASE AttachDown(q)
    BY <1>2, <2>0, <2>3 DEF AttachDown, VhciEventAdd
  <2>4. CASE GetDevice(q)
    <3>0. UNCHANGED <<events, eh>>
      BY <2>4 DEF GetDevice
    <3>1. CASE GetPresent(q) \/ GetFails(q)
      BY <1>1, <3>0, <3>1 DEF GetPresent, GetFails
    <3>2. CASE GetCreated(q)
      <4>1. event' \in [Port -> SUBSET Bits]
        BY <3>2 DEF GetCreated, EventTypes
      <4> QED
        BY <3>0, <4>1 DEF EventTypes
    <3> QED
      BY <2>4, <3>1, <3>2, GetOutcomes
  <2> QED
    BY <1>3, <2>1, <2>2, <2>3, <2>4 DEF AttachStep
<1>4. ASSUME NEW p \in Port, StoreDetach(p) \/ SetAddress(p) PROVE EventTypes'
  BY <1>1, <1>4 DEF StoreDetach, SetAddress
<1>5. ASSUME NEW p \in Port, ConnectionFails(p) PROVE EventTypes'
  <2>1. PICK bits \in {EventDown, EventAlloc} : EventAdd(p, bits)
    BY <1>5 DEF ConnectionFails, VhciEventAdd
  <2> QED
    BY <1>2, <1>5, <2>1 DEF ConnectionFails
<1>6. CASE PortDown
  <2>1. user[2] \in Port
    BY <1>6 DEF PortDown, UserTypes
  <2> QED
    BY <1>2, <1>6, <2>1 DEF PortDown, VhciEventAdd
<1>7. CASE EhTake
  BY <1>7 DEF EhTake, EventTypes, EhSteps
<1>8. CASE EhShutdown \/ EhFree \/ EhPut
  <2>1. eh[1] \in Port
    BY <1>8 DEF EhShutdown, EhFree, EhPut, EventTypes
  <2>2. events' = events
    BY <1>8 DEF EhShutdown, EhFree, EhPut
  <2>3. event' \in [Port -> SUBSET Bits]
    BY <1>8, <2>1 DEF EhShutdown, EhFree, EhPut, EventTypes
  <2>4. \/ \E step \in EhSteps : eh' = <<eh[1], step>>
        \/ eh' = <<NoPort, "idle">>
    BY <1>8 DEF EhShutdown, EhFree, EhPut, EhSteps
  <2>5. eh' \in (Port \X EhSteps) \cup {<<NoPort, "idle">>}
    BY <2>1, <2>4
  <2> QED
    BY <2>2, <2>3, <2>5 DEF EventTypes
<1>9. CASE UNCHANGED portVars
  BY <1>1, <1>9 DEF portVars
<1> QED
  BY <1>3, <1>4, <1>5, <1>6, <1>7, <1>8, <1>9 DEF PortsNext, EhStep

\* Every step keeps the types of the attachers' and the detacher's state.
LEMMA UserTypesStep == PortsTypeOK /\ [PortsNext]_portVars => UserTypes'
<1> SUFFICES ASSUME PortsTypeOK, [PortsNext]_portVars PROVE UserTypes'
  OBVIOUS
<1> USE DEF PortsTypeOK
<1>1. CASE UNCHANGED <<pc, at, busy, fails, user>>
  BY <1>1 DEF UserTypes
<1>2. ASSUME NEW q \in Proc, AttachStep(q) PROVE UserTypes'
  <2>1. ASSUME UNCHANGED <<at, busy, fails, user>>, NEW step \in Pcs,
               pc' = [pc EXCEPT ![q] = step]
        PROVE  UserTypes'
    BY <2>1 DEF UserTypes
  <2>2. CASE ScanStatus(q)
    <3>1. pc' \in [Proc -> Pcs] /\ at' \in [Proc -> Port]
      BY <2>2, ScanFinds DEF UserTypes, Pcs
    <3> QED
      BY <2>2, <3>1 DEF ScanStatus, UserTypes
  <2>3. CASE GetDevice(q)
    <3>1. \E step \in Pcs : pc' = [pc EXCEPT ![q] = step]
      BY <2>3, GetOutcomes DEF GetPresent, GetCreated, GetFails, Pcs
    <3> QED
      BY <2>1, <2>3, <3>1 DEF GetDevice
  <2>4. CASE StoreAttach(q) \/ PutFailed(q) \/ CreateRecord(q) \/ DetachAgain(q) \/ AttachDown(q)
    <3>1. \E step \in Pcs : pc' = [pc EXCEPT ![q] = step]
      BY <2>4 DEF StoreAttach, PutFailed, CreateRecord, DetachAgain, AttachDown, Pcs
    <3>2. UNCHANGED <<at, busy, fails, user>>
      BY <2>4 DEF StoreAttach, PutFailed, CreateRecord, DetachAgain, AttachDown
    <3> QED
      BY <2>1, <3>1, <3>2
  <2>5. CASE PutBusy(q)
    <3>1. <<0, 0>> \in Port
      BY PortFacts
    <3> QED
      BY <2>5, <3>1 DEF PutBusy, UserTypes, Pcs
  <2> QED
    BY <1>2, <2>2, <2>3, <2>4, <2>5 DEF AttachStep
<1>3. ASSUME NEW p \in Port, StoreDetach(p) PROVE UserTypes'
  BY <1>3 DEF StoreDetach, UserTypes
<1>4. ASSUME NEW p \in Port, SetAddress(p) PROVE UserTypes'
  BY <1>1, <1>4 DEF SetAddress
<1>5. ASSUME NEW p \in Port, ConnectionFails(p) PROVE UserTypes'
  BY <1>5 DEF ConnectionFails, UserTypes
<1>6. CASE PortDown
  BY <1>6 DEF PortDown, UserTypes
<1>7. CASE EhStep
  BY <1>1, <1>7 DEF EhStep, EhTake, EhShutdown, EhFree, EhPut
<1>8. CASE UNCHANGED portVars
  BY <1>1, <1>8 DEF portVars
<1> QED
  BY <1>2, <1>3, <1>4, <1>5, <1>6, <1>7, <1>8 DEF PortsNext

\* The pool's variables keep their types: in particular the worker is never
\* at a port that is not there to be handled, and no put or get of any order
\* brings using_port above one (__vhci_get_device, vhci_put_device).
THEOREM PortsTypeCorrect == PortsSpec => []PortsTypeOK
<1>1. PortsTypeOK /\ [PortsNext]_portVars => PortsTypeOK'
  BY CountTypesStep, DeviceTypesStep, EventTypesStep, UserTypesStep DEF PortsTypeOK
<1> QED
  BY <1>1, PortsTypeInit, PTL DEF PortsSpec


-----------------------------------------------------------------------------
(* The counts. *)

\* The root hub ports of controller c that are marked in use.
Marked(c) == {r \in Rh : usingPort[<<c, r>>] = 1}

\* The marked ports are finitely many.
LEMMA MarkedFinite ==
    ASSUME NEW c
    PROVE  IsFiniteSet(Marked(c)) /\ Cardinality(Marked(c)) \in Nat
<1>1. IsFiniteSet(Marked(c))
  BY PortFacts, FS_Subset DEF Marked
<1> QED
  BY <1>1, FS_CardinalityType

\* One element more or less changes a cardinality by at most one.
LEMMA OneMore ==
    ASSUME NEW S, IsFiniteSet(S), NEW x
    PROVE  /\ Cardinality(S \cup {x}) \in Nat
           /\ Cardinality(S \cup {x}) <= Cardinality(S) + 1
           /\ x \notin S => Cardinality(S \cup {x}) = Cardinality(S) + 1
<1>1. Cardinality(S) \in Nat
  BY FS_CardinalityType
<1>2. Cardinality(S \cup {x}) = IF x \in S THEN Cardinality(S) ELSE Cardinality(S) + 1
  BY FS_AddElement
<1> QED
  BY <1>1, <1>2

\* A step that leaves the counts alone and creates no controller keeps them
\* sane.
LEMMA CountsUntouched ==
    ASSUME PortCountSane, UNCHANGED <<usingPorts, usingPort>>,
           \A c \in Ctl : pdev'[c] => pdev[c]
    PROVE  PortCountSane'
BY DEF PortCountSane

\* A get counts one more and marks at most one more.
LEMMA GetKeepsSane ==
    ASSUME CountTypes, PortCountSane, NEW p \in Port, GetCount(p), UNCHANGED pdev
    PROVE  PortCountSane'
<1> SUFFICES ASSUME NEW c \in Ctl, pdev[c]
             PROVE  usingPorts'[c] >= Cardinality(Marked(c)')
  BY DEF PortCountSane, Marked
<1>0. usingPorts[c] >= Cardinality(Marked(c)) /\ usingPorts[c] \in Int
  BY DEF PortCountSane, Marked, CountTypes
<1>1. \A r \in Rh : <<c, r>> \in Port
  BY PortFacts
<1>2. CASE c = p[1]
  <2>1. p = <<c, p[2]>> /\ p[2] \in Rh
    BY <1>2, PortFacts
  <2>2. Marked(c)' = Marked(c) \cup {p[2]}
    BY <1>1, <2>1 DEF Marked, GetCount, CountTypes
  <2>3. /\ Cardinality(Marked(c)') \in Nat
        /\ Cardinality(Marked(c)') <= Cardinality(Marked(c)) + 1
    BY <2>2, MarkedFinite, OneMore
  <2>4. usingPorts'[c] = usingPorts[c] + 1
    BY <1>2 DEF GetCount, CountTypes
  <2> QED
    BY <1>0, <2>3, <2>4, MarkedFinite
<1>3. CASE c # p[1]
  <2>1. \A r \in Rh : <<c, r>> # p
    BY <1>3
  <2>2. Marked(c)' = Marked(c)
    BY <1>1, <2>1 DEF Marked, GetCount, CountTypes
  <2>3. usingPorts'[c] = usingPorts[c]
    BY <1>3, PortFacts DEF GetCount, CountTypes
  <2> QED
    BY <1>0, <2>2, <2>3
<1> QED
  BY <1>2, <1>3

\* A put takes one off the count exactly when it takes a mark off.
LEMMA PutKeepsSane ==
    ASSUME CountTypes, PortCountSane, NEW p \in Port, PutCount(p), UNCHANGED pdev
    PROVE  PortCountSane'
<1> SUFFICES ASSUME NEW c \in Ctl, pdev[c]
             PROVE  usingPorts'[c] >= Cardinality(Marked(c)')
  BY DEF PortCountSane, Marked
<1>0. usingPorts[c] >= Cardinality(Marked(c)) /\ usingPorts[c] \in Int
  BY DEF PortCountSane, Marked, CountTypes
<1>1. \A r \in Rh : <<c, r>> \in Port
  BY PortFacts
<1>2. CASE c = p[1] /\ usingPort[p] = 1
  <2>1. p = <<c, p[2]>> /\ p[2] \in Rh
    BY <1>2, PortFacts
  <2>2. Marked(c)' = Marked(c) \ {p[2]} /\ p[2] \in Marked(c)
    BY <1>1, <1>2, <2>1 DEF Marked, PutCount, CountTypes
  <2>3. Cardinality(Marked(c)') = Cardinality(Marked(c)) - 1
    BY <2>2, MarkedFinite, FS_RemoveElement, SMTT(60)
  <2>4. usingPorts'[c] = usingPorts[c] - 1
    BY <1>2 DEF PutCount, CountTypes
  <2> QED
    BY <1>0, <2>3, <2>4, MarkedFinite
<1>3. CASE c = p[1] /\ usingPort[p] # 1
  <2>1. p = <<c, p[2]>> /\ p[2] \in Rh
    BY <1>3, PortFacts
  <2>2. usingPort[p] \in Int /\ usingPort[p] - 1 # 1
    BY DEF CountTypes
  <2>3. Marked(c)' = Marked(c)
    BY <1>1, <1>3, <2>1, <2>2 DEF Marked, PutCount, CountTypes
  <2> QED
    BY <1>0, <1>3, <2>3 DEF PutCount
<1>4. CASE c # p[1]
  <2>1. \A r \in Rh : <<c, r>> # p
    BY <1>4
  <2>2. Marked(c)' = Marked(c)
    BY <1>1, <2>1 DEF Marked, PutCount, CountTypes
  <2>3. usingPorts'[c] = usingPorts[c]
    BY <1>4, PortFacts DEF PutCount, CountTypes
  <2> QED
    BY <1>0, <2>2, <2>3
<1> QED
  BY <1>2, <1>3, <1>4

\* A controller is created with one port counted and that one marked.
LEMMA CreateKeepsSane ==
    ASSUME CountTypes, UserTypes, PortCountSane, NEW q \in Proc, GetCreated(q)
    PROVE  PortCountSane'
<1> SUFFICES ASSUME NEW c \in Ctl, pdev'[c]
             PROVE  usingPorts'[c] >= Cardinality(Marked(c)')
  BY DEF PortCountSane, Marked
<1>0. /\ at[q] \in Port /\ at[q][1] \in Ctl /\ at[q][2] \in Rh
      /\ at[q] = <<at[q][1], at[q][2]>>
  BY PortFacts DEF UserTypes
<1>1. \A r \in Rh : <<c, r>> \in Port
  BY PortFacts
<1>2. CASE c = at[q][1]
  <2>1. PICK s \in Rh : at[q] = <<c, s>>
    BY <1>0, <1>2
  <2>2. \A r \in Rh : usingPort'[<<c, r>>] = IF r = s THEN 1 ELSE 0
    BY <1>1, <1>2, <2>1 DEF GetCreated
  <2>3. Marked(c)' = {s}
    BY <2>2 DEF Marked
  <2>4. Cardinality(Marked(c)') = 1
    BY <2>3, FS_Singleton
  <2>5. usingPorts'[c] = 1
    BY <1>2 DEF GetCreated, CountTypes
  <2> QED
    BY <2>4, <2>5
<1>3. CASE c # at[q][1]
  <2>1. \A r \in Rh : <<c, r>> # at[q] /\ <<c, r>> \notin {at[q][1]} \X Rh
    BY <1>3
  <2>2. \A r \in Rh : usingPort'[<<c, r>>] = usingPort[<<c, r>>]
    BY <1>1, <2>1 DEF GetCreated
  <2>3. Marked(c)' = Marked(c)
    BY <2>2 DEF Marked
  <2>4. usingPorts'[c] = usingPorts[c] /\ pdev[c]
    BY <1>3 DEF GetCreated, CountTypes
  <2> QED
    BY <2>3, <2>4 DEF PortCountSane, Marked
<1> QED
  BY <1>2, <1>3

\* using_ports never falls behind the ports marked in use: no order of gets,
\* of puts of attachers that found the port busy and of puts of the event
\* worker (two for a port that was first unusable and then reset) makes the
\* unsigned count wrap (vhci_get_device, vhci_put_device).
THEOREM CountsNeverWrap == PortsSpec => []PortCountSane
<1>1. PortsInit => PortCountSane
  <2> SUFFICES ASSUME PortsInit, NEW c \in Ctl
               PROVE  usingPorts[c] >= Cardinality(Marked(c))
    BY DEF PortCountSane, Marked
  <2>1. \A r \in Rh : usingPort[<<c, r>>] = 0
    BY PortFacts DEF PortsInit
  <2>2. Marked(c) = {}
    BY <2>1 DEF Marked
  <2>3. usingPorts[c] = 0 /\ Cardinality({}) = 0
    BY FS_EmptySet DEF PortsInit
  <2> QED
    BY <2>2, <2>3
<1>2. PortsTypeOK /\ PortCountSane /\ [PortsNext]_portVars => PortCountSane'
  <2> SUFFICES ASSUME PortsTypeOK, PortCountSane, [PortsNext]_portVars
               PROVE  PortCountSane'
    OBVIOUS
  <2> USE DEF PortsTypeOK
  <2>1. CASE UNCHANGED <<pdev, usingPorts, usingPort>>
    BY <2>1, CountsUntouched
  <2>2. CASE UNCHANGED <<usingPorts, usingPort>> /\ TryDel
    BY <2>2, CountsUntouched, DeletionTakes DEF CountTypes
  <2>3. ASSUME NEW q \in Proc, AttachStep(q) PROVE PortCountSane'
    <3>0. at[q] \in Port
      BY DEF UserTypes
    <3>1. CASE ScanStatus(q) \/ StoreAttach(q) \/ CreateRecord(q) \/ DetachAgain(q)
      BY <2>1, <3>1 DEF ScanStatus, StoreAttach, CreateRecord, DetachAgain
    <3>2. CASE PutBusy(q) \/ PutFailed(q)
      BY <3>0, <3>2, PutKeepsSane DEF PutBusy, PutFailed
    <3>3. CASE AttachDown(q)
      BY <2>2, <3>3 DEF AttachDown, VhciEventAdd
    <3>4. CASE GetDevice(q)
      <4>1. CASE GetPresent(q)
        BY <3>0, <4>1, GetKeepsSane DEF GetPresent
      <4>2. CASE GetCreated(q)
        BY <4>2, CreateKeepsSane
      <4>3. CASE GetFails(q)
        BY <2>1, <4>3 DEF GetFails
      <4> QED
        BY <3>4, <4>1, <4>2, <4>3, GetOutcomes
    <3> QED
      BY <2>3, <3>1, <3>2, <3>3, <3>4 DEF AttachStep
  <2>4. ASSUME NEW p \in Port, StoreDetach(p) \/ SetAddress(p) PROVE PortCountSane'
    BY <2>1, <2>4 DEF StoreDetach, SetAddress
  <2>5. ASSUME NEW p \in Port, ConnectionFails(p) PROVE PortCountSane'
    BY <2>2, <2>5 DEF ConnectionFails, VhciEventAdd
  <2>6. CASE PortDown
    BY <2>2, <2>6 DEF PortDown, VhciEventAdd
  <2>7. CASE EhTake \/ EhShutdown \/ EhFree
    BY <2>1, <2>7 DEF EhTake, EhShutdown, EhFree
  <2>8. CASE EhPut
    <3>1. eh[1] \in Port
      BY <2>8 DEF EhPut, EventTypes
    <3> QED
      BY <2>8, <3>1, PutKeepsSane DEF EhPut
  <2>9. CASE UNCHANGED portVars
    BY <2>1, <2>9 DEF portVars
  <2> QED
    BY <2>3, <2>4, <2>5, <2>6, <2>7, <2>8, <2>9 DEF PortsNext, EhStep
<1> QED
  BY <1>1, <1>2, PortsTypeCorrect, PTL DEF PortsSpec


-----------------------------------------------------------------------------
(* The retries. *)

\* The steps of an attacher that has got a port or has given up.
PastSteps == {"record", "done", "detach", "down", "failed"}

Past == {q \in Proc : pc[q] \in PastSteps}

\* The ports about to be left in error.
Errors == {p \in Port : "unusable" \in event[p]}

\* Attacher q is bound to be told EBUSY, unless its port becomes free again.
Stuck(q) ==
    \/ pc[q] = "put"
    \/ pc[q] = "store" /\ status[at[q]] # "VDEV_ST_NULL"
    \/ pc[q] = "get" /\ Shown(at[q]) # "VDEV_ST_NULL"

Debt(q) == IF Stuck(q) THEN 1 ELSE 0

\* What q was refused and is about to be refused, and what failures still
\* hold in store, is covered by the others that are past their attachment
\* and by the failures so far.
Paid ==
    \A q \in Proc :
        busy[q] + Debt(q) + Cardinality(Errors) <= Cardinality(Past \ {q}) + fails

\* The sums of Paid are of natural numbers.
LEMMA SumsAreNumbers ==
    ASSUME PortsTypeOK
    PROVE  /\ IsFiniteSet(Past) /\ IsFiniteSet(Errors) /\ Cardinality(Errors) \in Nat
           /\ fails \in Nat
           /\ \A q \in Proc : /\ IsFiniteSet(Past \ {q})
                              /\ Cardinality(Past \ {q}) \in Nat
                              /\ busy[q] \in Nat /\ Debt(q) \in {0, 1}
<1>1. IsFiniteSet(Past)
  BY PortsAssumption, FS_Subset DEF Past
<1>2. IsFiniteSet(Errors)
  BY PortFacts, FS_Subset DEF Errors
<1>3. \A q \in Proc : IsFiniteSet(Past \ {q})
  BY <1>1, FS_Subset
<1>4. Cardinality(Errors) \in Nat /\ \A q \in Proc : Cardinality(Past \ {q}) \in Nat
  BY <1>2, <1>3, FS_CardinalityType
<1>5. fails \in Nat /\ \A q \in Proc : busy[q] \in Nat /\ Debt(q) \in {0, 1}
  BY DEF PortsTypeOK, UserTypes, Debt
<1> QED
  BY <1>1, <1>2, <1>3, <1>4, <1>5

\* An attacher whose own step it is not, gets stuck only when its port is
\* taken or set in error.
LEMMA StuckLess ==
    ASSUME PortsTypeOK, NEW x \in Proc, pc'[x] = pc[x], at'[x] = at[x],
           \A p \in Port : status'[p] # "VDEV_ST_NULL" => status[p] # "VDEV_ST_NULL",
           \A c \in Ctl : pdev'[c] => pdev[c]
    PROVE  Stuck(x)' => Stuck(x)
<1>1. at[x] \in Port /\ at[x][1] \in Ctl
  BY PortFacts DEF PortsTypeOK, UserTypes
<1> QED
  BY <1>1 DEF Stuck, Shown

\* No step takes an attacher back from its end.
LEMMA PastGrows ==
    ASSUME PortsTypeOK, NEW q \in Proc, NEW step, pc' = [pc EXCEPT ![q] = step],
           pc[q] \in PastSteps => step \in PastSteps
    PROVE  Past \subseteq Past'
BY DEF Past, PortsTypeOK, UserTypes

\* A step that refuses nobody keeps the balance.
LEMMA BalanceKept ==
    ASSUME PortsTypeOK, PortsTypeOK', Paid, UNCHANGED <<busy, fails>>,
           Past \subseteq Past', Errors' \subseteq Errors,
           \A x \in Proc : Stuck(x)' => Stuck(x)
    PROVE  Paid'
<1> SUFFICES ASSUME NEW x \in Proc
             PROVE  busy'[x] + Debt(x)' + Cardinality(Errors')
                        <= Cardinality(Past' \ {x}) + fails'
  BY DEF Paid
<1>1. busy[x] + Debt(x) + Cardinality(Errors) <= Cardinality(Past \ {x}) + fails
  BY DEF Paid
<1>2. Cardinality(Errors') <= Cardinality(Errors) /\ Cardinality(Errors') \in Nat
  BY SumsAreNumbers, FS_Subset, FS_CardinalityType
<1>3. IsFiniteSet(Past' \ {x}) /\ Past \ {x} \subseteq Past' \ {x}
  <2>1. IsFiniteSet(Past')
    BY PortsAssumption, FS_Subset DEF Past
  <2> QED
    BY <2>1, FS_Subset
<1>4. Cardinality(Past \ {x}) <= Cardinality(Past' \ {x}) /\ Cardinality(Past' \ {x}) \in Nat
  BY <1>3, FS_Subset, FS_CardinalityType
<1>5. Debt(x)' <= Debt(x) /\ Debt(x)' \in {0, 1}
  BY DEF Debt
<1> QED
  BY <1>1, <1>2, <1>4, <1>5, SumsAreNumbers

\* The attacher that gets a port pays for all the others it keeps out of it.
LEMMA StorePays ==
    ASSUME PortsTypeOK, Paid, UNCHANGED <<busy, fails, event>>, NEW q \in Proc,
           pc[q] = "store", pc' = [pc EXCEPT ![q] = "record"]
    PROVE  Paid'
<1> SUFFICES ASSUME NEW x \in Proc
             PROVE  busy'[x] + Debt(x)' + Cardinality(Errors')
                        <= Cardinality(Past' \ {x}) + fails'
  BY DEF Paid
<1>1. busy[x] + Debt(x) + Cardinality(Errors) <= Cardinality(Past \ {x}) + fails
  BY DEF Paid
<1>2. Errors' = Errors
  BY DEF Errors
<1>3. Past' = Past \cup {q} /\ q \notin Past
  BY DEF Past, PastSteps, PortsTypeOK, UserTypes
<1>4. Debt(x)' \in {0, 1}
  BY DEF Debt
<1>5. CASE x = q
  <2>1. Past' \ {x} = Past \ {x}
    BY <1>3, <1>5
  <2>2. pc'[q] = "record"
    BY DEF PortsTypeOK, UserTypes
  <2>3. Debt(x)' = 0
    BY <1>5, <2>2 DEF Debt, Stuck
  <2> QED
    BY <1>1, <1>2, <2>1, <2>3, SumsAreNumbers
<1>6. CASE x # q
  <2>1. Past' \ {x} = (Past \ {x}) \cup {q} /\ q \notin Past \ {x}
    BY <1>3, <1>6
  <2>2. Cardinality(Past' \ {x}) = Cardinality(Past \ {x}) + 1
    BY <2>1, OneMore, SumsAreNumbers
  <2> QED
    BY <1>1, <1>2, <1>4, <2>2, SumsAreNumbers
<1> QED
  BY <1>5, <1>6

\* A connection that fails pays for the port it will leave in error.
LEMMA FailurePays ==
    ASSUME PortsTypeOK, Paid, UNCHANGED <<busy, pc>>, fails' = fails + 1, NEW p \in Port,
           Errors' \subseteq Errors \cup {p},
           \A x \in Proc : Stuck(x)' => Stuck(x)
    PROVE  Paid'
<1> SUFFICES ASSUME NEW x \in Proc
             PROVE  busy'[x] + Debt(x)' + Cardinality(Errors')
                        <= Cardinality(Past' \ {x}) + fails'
  BY DEF Paid
<1>1. busy[x] + Debt(x) + Cardinality(Errors) <= Cardinality(Past \ {x}) + fails
  BY DEF Paid
<1>2. IsFiniteSet(Errors \cup {p}) /\ Cardinality(Errors \cup {p}) \in Nat
  BY SumsAreNumbers, FS_AddElement, FS_CardinalityType
<1>3. Cardinality(Errors') <= Cardinality(Errors \cup {p}) /\ Cardinality(Errors') \in Nat
  BY <1>2, FS_Subset, FS_CardinalityType
<1>4. Cardinality(Errors \cup {p}) <= Cardinality(Errors) + 1
  BY OneMore, SumsAreNumbers
<1>5. Past' = Past
  BY DEF Past
<1>6. Debt(x)' <= Debt(x) /\ Debt(x)' \in {0, 1}
  BY DEF Debt
<1> QED
  BY <1>1, <1>2, <1>3, <1>4, <1>5, <1>6, SumsAreNumbers

\* The failure that set a port in error had paid for it.
LEMMA ErrorWasPaid ==
    ASSUME PortsTypeOK, Paid, UNCHANGED <<busy, pc, fails>>, NEW p \in Errors,
           Errors' \subseteq Errors \ {p}
    PROVE  Paid'
<1> SUFFICES ASSUME NEW x \in Proc
             PROVE  busy'[x] + Debt(x)' + Cardinality(Errors')
                        <= Cardinality(Past' \ {x}) + fails'
  BY DEF Paid
<1>1. busy[x] + Debt(x) + Cardinality(Errors) <= Cardinality(Past \ {x}) + fails
  BY DEF Paid
<1>2. /\ IsFiniteSet(Errors \ {p})
      /\ Cardinality(Errors \ {p}) = Cardinality(Errors) - 1
  BY SumsAreNumbers, FS_RemoveElement
<1>5. /\ Cardinality(Errors') \in Nat
      /\ Cardinality(Errors') <= Cardinality(Errors \ {p})
  BY <1>2, FS_Subset, FS_CardinalityType
<1>3. Past' = Past
  BY DEF Past
<1>4. Debt(x)' \in {0, 1}
  BY DEF Debt
<1>6. /\ busy[x] \in Nat /\ Debt(x) \in {0, 1} /\ fails \in Nat
      /\ Cardinality(Errors) \in Nat /\ Cardinality(Past \ {x}) \in Nat
  BY SumsAreNumbers
<1>7. busy'[x] = busy[x] /\ fails' = fails /\ Past' \ {x} = Past \ {x}
  BY <1>3
<1>8. Debt(x)' + Cardinality(Errors') <= Debt(x) + Cardinality(Errors)
  BY <1>2, <1>4, <1>5, <1>6
<1> QED
  BY <1>1, <1>4, <1>5, <1>6, <1>7, <1>8

\* Nothing is owed initially.
LEMMA PaidInit == PortsInit => Paid
<1> SUFFICES ASSUME PortsInit, NEW q \in Proc
             PROVE  busy[q] + Debt(q) + Cardinality(Errors)
                        <= Cardinality(Past \ {q}) + fails
  BY DEF Paid
<1>1. busy[q] = 0 /\ fails = 0
  BY DEF PortsInit
<1>2. Debt(q) = 0
  BY DEF PortsInit, Debt, Stuck
<1>3. Errors = {} /\ Past = {}
  BY DEF PortsInit, Errors, Past, PastSteps
<1>4. Cardinality(Errors) = 0 /\ Cardinality(Past \ {q}) = 0
  <2>1. Past \ {q} = {}
    BY <1>3
  <2> QED
    BY <1>3, <2>1, FS_EmptySet
<1> QED
  BY <1>1, <1>2, <1>4

\* Adding events other than "unusable" sets no port in error.
LEMMA NoNewErrors ==
    ASSUME EventTypes, NEW p \in Port, NEW bits, EventAdd(p, bits)
    PROVE  /\ Errors' \subseteq Errors \cup {p}
           /\ "unusable" \notin bits => Errors' \subseteq Errors
BY DEF EventTypes, EventAdd, Errors

\* The steps of an attacher keep the balance.
LEMMA AttachPays ==
    ASSUME PortsTypeOK, PortsTypeOK', Paid, NEW q \in Proc, AttachStep(q)
    PROVE  Paid'
<1>0. at[q] \in Port /\ at[q][1] \in Ctl
  BY PortFacts DEF PortsTypeOK, UserTypes
<1>1. CASE ScanStatus(q)
  <2>1. PICK step \in {"scan", "failed", "get"} :
            /\ pc' = [pc EXCEPT ![q] = step]
            /\ step = "get" => Shown(at'[q]) = "VDEV_ST_NULL"
    BY <1>1, ScanFinds DEF PortsTypeOK
  <2>2. pc[q] = "scan" /\ UNCHANGED <<pdev, status, event, busy, fails>>
    BY <1>1 DEF ScanStatus
  <2>3. Past \subseteq Past'
    BY <2>1, <2>2, PastGrows DEF PastSteps
  <2>4. Errors' = Errors
    BY <2>2 DEF Errors
  <2>5. ASSUME NEW x \in Proc PROVE Stuck(x)' => Stuck(x)
    <3>1. CASE x = q
      <4>1. pc'[x] = step
        BY <2>1, <3>1 DEF PortsTypeOK, UserTypes
      <4>2. Shown(at[x])' = Shown(at'[x])
        BY <2>2 DEF Shown
      <4> QED
        BY <2>1, <3>1, <4>1, <4>2 DEF Stuck
    <3>2. CASE x # q
      <4>1. pc'[x] = pc[x] /\ at'[x] = at[x]
        BY <1>1, <2>1, <3>2, ScanFinds DEF PortsTypeOK, UserTypes
      <4> QED
        BY <2>2, <4>1, StuckLess
    <3> QED
      BY <3>1, <3>2
  <2> QED
    BY <2>2, <2>3, <2>4, <2>5, BalanceKept
<1>2. CASE GetDevice(q)
  <2>0. pc[q] = "get" /\ UNCHANGED <<at, busy, fails>>
    BY <1>2 DEF GetDevice
  <2>1. PICK step \in {"store", "failed"} : pc' = [pc EXCEPT ![q] = step]
    BY <1>2, GetOutcomes DEF PortsTypeOK, GetPresent, GetCreated, GetFails
  <2>2. Past \subseteq Past'
    BY <2>0, <2>1, PastGrows DEF PastSteps
  <2>3. \A x \in Proc : pc'[x] = IF x = q THEN step ELSE pc[x]
    BY <2>1 DEF PortsTypeOK, UserTypes
  <2>4. CASE GetPresent(q) \/ GetFails(q)
    <3>1. UNCHANGED <<pdev, status, event>> /\ (step = "store" => pdev[at[q][1]])
      <4>1. step = "store" => pc'[q] # "failed"
        BY <2>3
      <4> QED
        BY <2>3, <2>4, <4>1 DEF GetPresent, GetFails, PortsTypeOK, UserTypes
    <3>2. Errors' = Errors
      BY <3>1 DEF Errors
    <3>3. ASSUME NEW x \in Proc PROVE Stuck(x)' => Stuck(x)
      <4>1. CASE x = q
        BY <2>0, <2>3, <3>1, <4>1 DEF Stuck, Shown
      <4>2. CASE x # q
        BY <2>0, <2>3, <3>1, <4>2, StuckLess
      <4> QED
        BY <4>1, <4>2
    <3> QED
      BY <2>0, <2>2, <3>2, <3>3, BalanceKept
  <2>5. CASE GetCreated(q)
    <3>1. Errors' \subseteq Errors
      BY <2>5 DEF GetCreated, Errors
    <3>2. \A c \in Ctl : pdev'[c] = IF c = at[q][1] THEN TRUE ELSE pdev[c]
      BY <2>5, <1>0 DEF GetCreated, PortsTypeOK, CountTypes
    <3>3. \A p \in Port : status'[p] = IF p[1] = at[q][1] THEN "VDEV_ST_NULL" ELSE status[p]
      <4>1. \A p \in Port : p \in {at[q][1]} \X Rh <=> p[1] = at[q][1]
        BY PortFacts
      <4> QED
        BY <2>5, <4>1 DEF GetCreated
    <3>4. ASSUME NEW x \in Proc, Stuck(x)' PROVE Stuck(x)
      <4>0. at'[x] = at[x] /\ at[x] \in Port /\ at[x][1] \in Ctl
        BY <2>0, PortFacts DEF PortsTypeOK, UserTypes
      <4>1. pc'[x] = "put" \/ status'[at[x]] # "VDEV_ST_NULL"
        BY <3>4, <4>0 DEF Stuck, Shown
      <4>2. CASE x = q
        BY <2>3, <3>3, <4>0, <4>1, <4>2
      <4>3. CASE x # q
        <5>1. pc'[x] = pc[x]
          BY <2>3, <4>3
        <5>2. CASE pc[x] = "put"
          BY <5>2 DEF Stuck
        <5>3. CASE pc[x] # "put"
          <6>1. at[x][1] # at[q][1] /\ status'[at[x]] = status[at[x]]
            BY <3>3, <4>0, <4>1, <5>1, <5>3
          <6>2. Shown(at[x])' = Shown(at[x])
            BY <3>2, <4>0, <6>1 DEF Shown
          <6> QED
            BY <3>4, <4>0, <5>1, <6>1, <6>2 DEF Stuck
        <5> QED
          BY <5>2, <5>3
      <4> QED
        BY <4>2, <4>3
    <3> QED
      BY <2>0, <2>2, <3>1, <3>4, BalanceKept
  <2> QED
    BY <1>2, <2>4, <2>5, GetOutcomes DEF PortsTypeOK
<1>3. CASE StoreAttach(q)
  <2>0. pc[q] = "store" /\ UNCHANGED <<pdev, event, at, busy, fails>>
    BY <1>3 DEF StoreAttach
  <2>1. CASE pc' = [pc EXCEPT ![q] = "record"]
    BY <2>0, <2>1, StorePays
  <2>2. CASE pc' # [pc EXCEPT ![q] = "record"]
    <3>1. PICK step \in {"put", "put_failed"} :
            /\ pc' = [pc EXCEPT ![q] = step]
            /\ step = "put" => status[at[q]] # "VDEV_ST_NULL"
            /\ status' = status
      BY <1>3, <2>2 DEF StoreAttach
    <3>2. Past \subseteq Past'
      BY <2>0, <3>1, PastGrows DEF PastSteps
    <3>3. Errors' = Errors
      BY <2>0 DEF Errors
    <3>4. ASSUME NEW x \in Proc PROVE Stuck(x)' => Stuck(x)
      <4>0. pc'[x] = IF x = q THEN step ELSE pc[x]
        BY <3>1 DEF PortsTypeOK, UserTypes
      <4>1. CASE x = q
        BY <2>0, <3>1, <4>0, <4>1 DEF Stuck
      <4>2. CASE x # q
        BY <2>0, <3>1, <4>0, <4>2, StuckLess
      <4> QED
        BY <4>1, <4>2
    <3> QED
      BY <2>0, <3>2, <3>3, <3>4, BalanceKept
  <2> QED
    BY <2>1, <2>2
<1>4. CASE PutBusy(q)
  <2>0. /\ pc[q] = "put" /\ pc' = [pc EXCEPT ![q] = "scan"]
        /\ busy' = [busy EXCEPT ![q] = @ + 1] /\ at' = [at EXCEPT ![q] = <<0, 0>>]
        /\ UNCHANGED <<pdev, status, event, fails>>
    BY <1>4 DEF PutBusy
  <2>1. Errors' = Errors /\ Past' = Past
    BY <2>0 DEF Errors, Past, PastSteps, PortsTypeOK, UserTypes
  <2>2. ASSUME NEW x \in Proc PROVE busy'[x] + Debt(x)' <= busy[x] + Debt(x) /\ Debt(x)' \in {0, 1}
    <3>0. pc'[x] = IF x = q THEN "scan" ELSE pc[x]
      BY <2>0 DEF PortsTypeOK, UserTypes
    <3>1. CASE x = q
      <4>1. Debt(x) = 1 /\ Debt(x)' = 0
        BY <2>0, <3>0, <3>1 DEF Debt, Stuck
      <4>2. busy'[x] = busy[x] + 1 /\ busy[x] \in Nat
        BY <2>0, <3>1 DEF PortsTypeOK, UserTypes
      <4> QED
        BY <4>1, <4>2
    <3>2. CASE x # q
      <4>1. pc'[x] = pc[x] /\ at'[x] = at[x] /\ busy'[x] = busy[x] /\ busy[x] \in Nat
        BY <2>0, <3>0, <3>2 DEF PortsTypeOK, UserTypes
      <4>2. Stuck(x)' => Stuck(x)
        BY <2>0, <4>1, StuckLess
      <4>3. Debt(x)' <= Debt(x) /\ Debt(x)' \in {0, 1} /\ Debt(x) \in {0, 1}
        BY <4>2 DEF Debt
      <4> QED
        BY <4>1, <4>3
    <3> QED
      BY <3>1, <3>2
  <2> SUFFICES ASSUME NEW x \in Proc
               PROVE  busy'[x] + Debt(x)' + Cardinality(Errors')
                          <= Cardinality(Past' \ {x}) + fails'
    BY DEF Paid
  <2>3. busy[x] + Debt(x) + Cardinality(Errors) <= Cardinality(Past \ {x}) + fails
    BY DEF Paid
  <2>4. busy'[x] \in Nat
    BY DEF PortsTypeOK, UserTypes
  <2> QED
    BY <2>0, <2>1, <2>2, <2>3, <2>4, SumsAreNumbers
<1>5. CASE PutFailed(q) \/ CreateRecord(q) \/ DetachAgain(q) \/ AttachDown(q)
  <2>1. PICK step \in PastSteps : pc' = [pc EXCEPT ![q] = step]
    BY <1>5 DEF PutFailed, CreateRecord, DetachAgain, AttachDown, PastSteps
  <2>2. UNCHANGED <<status, at, busy, fails>>
    BY <1>5 DEF PutFailed, CreateRecord, DetachAgain, AttachDown
  <2>3. Past \subseteq Past'
    BY <2>1, PastGrows
  <2>4. Errors' \subseteq Errors /\ \A c \in Ctl : pdev'[c] => pdev[c]
    <3>1. CASE PutFailed(q) \/ CreateRecord(q) \/ DetachAgain(q)
      BY <3>1 DEF PutFailed, CreateRecord, DetachAgain, Errors
    <3>2. CASE AttachDown(q)
      <4>1. TryDel /\ EventAdd(at[q], EventDown) /\ "unusable" \notin EventDown
        BY <3>2 DEF AttachDown, VhciEventAdd, EventDown
      <4> QED
        BY <1>0, <4>1, NoNewErrors, DeletionTakes DEF PortsTypeOK, CountTypes
    <3> QED
      BY <1>5, <3>1, <3>2
  <2>5. ASSUME NEW x \in Proc PROVE Stuck(x)' => Stuck(x)
    <3>0. pc'[x] = IF x = q THEN step ELSE pc[x]
      BY <2>1 DEF PortsTypeOK, UserTypes
    <3>1. CASE x = q
      BY <3>0, <3>1 DEF Stuck, PastSteps
    <3>2. CASE x # q
      BY <2>2, <2>4, <3>0, <3>2, StuckLess
    <3> QED
      BY <3>1, <3>2
  <2> QED
    BY <2>2, <2>3, <2>4, <2>5, BalanceKept
<1> QED
  BY <1>1, <1>2, <1>3, <1>4, <1>5 DEF AttachStep


\* The steps of the others keep the balance.
LEMMA OthersPay ==
    ASSUME PortsTypeOK, PortsTypeOK', Paid,
           \/ \E p \in Port : StoreDetach(p) \/ SetAddress(p) \/ ConnectionFails(p)
           \/ PortDown \/ EhStep \/ UNCHANGED portVars
    PROVE  Paid'
<1>1. ASSUME UNCHANGED <<pc, at, busy, fails>>, Errors' \subseteq Errors,
             \A p \in Port : status'[p] # "VDEV_ST_NULL" => status[p] # "VDEV_ST_NULL",
             \A c \in Ctl : pdev'[c] => pdev[c]
      PROVE  Paid'
  <2>1. \A x \in Proc : Stuck(x)' => Stuck(x)
    BY <1>1, StuckLess
  <2>2. Past' = Past
    BY <1>1 DEF Past
  <2> QED
    BY <1>1, <2>1, <2>2, BalanceKept
<1>2. CASE UNCHANGED <<pc, at, busy, fails, event, status, pdev>>
  <2>1. Errors' = Errors
    BY <1>2 DEF Errors
  <2> QED
    BY <1>1, <1>2, <2>1
<1>3. ASSUME NEW p \in Port, StoreDetach(p) PROVE Paid'
  BY <1>2, <1>3 DEF StoreDetach
<1>4. ASSUME NEW p \in Port, SetAddress(p) PROVE Paid'
  <2>1. \A x \in Port : status'[x] # "VDEV_ST_NULL" => status[x] # "VDEV_ST_NULL"
    BY <1>4 DEF SetAddress, PortsTypeOK, DeviceTypes
  <2>2. UNCHANGED <<pc, at, busy, fails, event, pdev>>
    BY <1>4 DEF SetAddress
  <2>3. Errors' = Errors
    BY <2>2 DEF Errors
  <2> QED
    BY <1>1, <2>1, <2>2, <2>3
<1>5. ASSUME NEW p \in Port, ConnectionFails(p) PROVE Paid'
  <2>1. /\ UNCHANGED <<pc, at, busy, status>> /\ fails' = fails + 1 /\ TryDel
        /\ \E bits : EventAdd(p, bits)
    BY <1>5 DEF ConnectionFails, VhciEventAdd
  <2>2. Errors' \subseteq Errors \cup {p}
    BY <2>1, NoNewErrors DEF PortsTypeOK
  <2>3. \A c \in Ctl : pdev'[c] => pdev[c]
    BY <2>1, DeletionTakes DEF PortsTypeOK, CountTypes
  <2>4. \A x \in Proc : Stuck(x)' => Stuck(x)
    BY <2>1, <2>3, StuckLess
  <2> QED
    BY <2>1, <2>2, <2>4, FailurePays
<1>6. CASE PortDown
  <2>1. user[2] \in Port
    BY <1>6 DEF PortDown, PortsTypeOK, UserTypes
  <2>2. /\ UNCHANGED <<pc, at, busy, fails, status>> /\ TryDel
        /\ EventAdd(user[2], EventDown) /\ "unusable" \notin EventDown
    BY <1>6 DEF PortDown, VhciEventAdd, EventDown
  <2>3. Errors' \subseteq Errors
    BY <2>1, <2>2, NoNewErrors DEF PortsTypeOK
  <2>4. \A c \in Ctl : pdev'[c] => pdev[c]
    BY <2>2, DeletionTakes DEF PortsTypeOK, CountTypes
  <2> QED
    BY <1>1, <2>2, <2>3, <2>4
<1>7. CASE EhTake \/ EhPut
  BY <1>2, <1>7 DEF EhTake, EhPut
<1>8. CASE EhShutdown
  <2>1. UNCHANGED <<pc, at, busy, fails, status, pdev>>
    BY <1>8 DEF EhShutdown
  <2>2. Errors' \subseteq Errors
    BY <1>8 DEF EhShutdown, Errors, PortsTypeOK, EventTypes
  <2> QED
    BY <1>1, <2>1, <2>2
<1>9. CASE EhFree
  <2>0. eh[1] \in Port /\ UNCHANGED <<pc, at, busy, fails, pdev>>
    BY <1>9 DEF EhFree, PortsTypeOK, EventTypes
  <2>1. CASE eh[2] \notin event[eh[1]]
    BY <1>2, <1>9, <2>0, <2>1 DEF EhFree
  <2>2. CASE eh[2] \in event[eh[1]] /\ eh[2] = "reset"
    <3>1. /\ status' = [status EXCEPT ![eh[1]] = "VDEV_ST_NULL"]
          /\ event' = [event EXCEPT ![eh[1]] = @ \ {"reset"}]
      BY <1>9, <2>2 DEF EhFree
    <3>2. Errors' \subseteq Errors
      BY <3>1 DEF Errors, PortsTypeOK, EventTypes
    <3>3. \A x \in Port : status'[x] # "VDEV_ST_NULL" => status[x] # "VDEV_ST_NULL"
      BY <3>1 DEF PortsTypeOK, DeviceTypes
    <3> QED
      BY <1>1, <2>0, <3>2, <3>3
  <2>3. CASE eh[2] \in event[eh[1]] /\ eh[2] # "reset"
    <3>1. eh[2] = "unusable" /\ event' = [event EXCEPT ![eh[1]] = @ \ {"unusable"}]
      BY <1>9, <2>3 DEF EhFree
    <3>2. eh[1] \in Errors /\ Errors' \subseteq Errors \ {eh[1]}
      BY <2>0, <2>3, <3>1 DEF Errors, PortsTypeOK, EventTypes
    <3> QED
      BY <2>0, <3>2, ErrorWasPaid
  <2> QED
    BY <2>1, <2>2, <2>3
<1>10. CASE UNCHANGED portVars
  BY <1>2, <1>10 DEF portVars
<1> QED
  BY <1>3, <1>4, <1>5, <1>6, <1>7, <1>8, <1>9, <1>10 DEF EhStep

\* The retry after EBUSY ends: whatever the processes do, an attacher is
\* refused at most once per other process that got a port or gave up, and
\* once per connection that failed (import_device's loop against
\* store_attach's check under the port's locks).
THEOREM EveryRetryIsPaid == PortsSpec => []RetriesArePaid
<1>1. PortsTypeOK /\ PortsTypeOK' /\ Paid /\ [PortsNext]_portVars => Paid'
  BY AttachPays, OthersPay DEF PortsNext
<1>2. PortsTypeOK /\ Paid => RetriesArePaid
  <2> SUFFICES ASSUME PortsTypeOK, Paid, NEW q \in Proc
               PROVE  busy[q] <= Cardinality(Proc \ {q}) + fails
    BY DEF RetriesArePaid
  <2>1. busy[q] + Debt(q) + Cardinality(Errors) <= Cardinality(Past \ {q}) + fails
    BY DEF Paid
  <2>2. IsFiniteSet(Proc \ {q}) /\ Past \ {q} \subseteq Proc \ {q}
    <3>1. Proc \ {q} \subseteq Proc
      OBVIOUS
    <3> QED
      BY <3>1, PortsAssumption, FS_Subset DEF Past
  <2>3. Cardinality(Past \ {q}) <= Cardinality(Proc \ {q}) /\ Cardinality(Proc \ {q}) \in Nat
    BY <2>2, FS_Subset, FS_CardinalityType
  <2> QED
    BY <2>1, <2>3, SumsAreNumbers
<1> QED
  BY <1>1, <1>2, PaidInit, PortsTypeCorrect, PTL DEF PortsSpec

================================================================================
