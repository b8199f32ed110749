------------------------------ MODULE VhciPorts -------------------------------
(***************************************************************************)
(* The pool of vhci ports: the controllers that are created when a port of *)
(* theirs is first attached and deleted when enough ports are free, the    *)
(* using_ports counts that decide about it, the search for a free port     *)
(* that userland makes without a lock and vhci_hcd checks again, and the   *)
(* event worker that frees a port.  One attachment's URB traffic is module *)
(* Vhci's; here a connection is the attacher that owns it.                 *)
(***************************************************************************)
EXTENDS Integers, FiniteSets, FiniteSetsExt

CONSTANTS
    Proc,       \* the processes that attach a device, once each
    MaxCtl,     \* vhci_max_controllers
    InitCtl,    \* vhci_init_controllers
    HcPorts,    \* VHCI_HC_PORTS
    FreeHcs,    \* VHCI_FREE_HCS
    MaxFails,   \* bound: connections that fail
    PortFaults  \* "alloc": a GFP_ATOMIC allocation fails; "probe": a new
                \* controller cannot be registered; "link": the socket is not
                \* accepted; "record": no record file

ASSUME PortsAssumption ==
    /\ IsFiniteSet(Proc)
    /\ MaxCtl \in Nat \ {0} /\ InitCtl \in 1 .. MaxCtl
    /\ HcPorts \in Nat \ {0} /\ FreeHcs \in Nat /\ MaxFails \in Nat
    /\ PortFaults \subseteq {"alloc", "probe", "link", "record"}

Ctl  == 0 .. MaxCtl - 1
Rh   == 0 .. HcPorts - 1
Port == Ctl \X Rh

NoPort == <<-1, -1>>
NoProc == "none"

VARIABLES
    pdev,       \* pdev[c]: vhci_pdevs[c] is there
    usingPorts, \* usingPorts[c]: using_ports of the controller
    usingPort,  \* usingPort[p]: using_port of the vdev
    status,     \* status[p]: ud.status
    owner,      \* owner[p]: the attachment whose connection the port carries
    event,      \* event[p]: ud.event
    events,     \* event_list: the ports with a pending event, handled in any order
    eh,         \* the worker: the port it handles and the step it is at
    pc, at,     \* pc[q], at[q]: where attacher q is, and on which port
    busy,       \* busy[q]: how often attacher q was told EBUSY
    fails,      \* connections that have failed
    user        \* the usbip detach command: where it is, and on which port

portVars == <<pdev, usingPorts, usingPort, status, owner, event, events, eh,
              pc, at, busy, fails, user>>

InUse == {"VDEV_ST_NOTASSIGNED", "VDEV_ST_USED"}

PortsInit ==
    /\ pdev = [c \in Ctl |-> c < InitCtl]
    /\ usingPorts = [c \in Ctl |-> 0]
    /\ usingPort = [p \in Port |-> 0]
    /\ status = [p \in Port |-> "VDEV_ST_NULL"]
    /\ owner = [p \in Port |-> NoProc]
    /\ event = [p \in Port |-> {}]
    /\ events = {}
    /\ eh = <<NoPort, "idle">>
    /\ pc = [q \in Proc |-> "scan"]
    /\ at = [q \in Proc |-> <<0, 0>>]
    /\ busy = [q \in Proc |-> 0]
    /\ fails = 0
    /\ user = <<"ready", NoPort>>

-----------------------------------------------------------------------------
(* Counting. *)

\* __vhci_get_device.
GetCount(p) ==
    /\ usingPorts' = [usingPorts EXCEPT ![p[1]] = @ + 1]
    /\ usingPort' = [usingPort EXCEPT ![p] = 1]

\* Mutant of PutCount: every put counts.
MutPutAlways(p) ==
    /\ usingPort' = [usingPort EXCEPT ![p] = @ - 1]
    /\ usingPorts' = [usingPorts EXCEPT ![p[1]] = @ - 1]

\* vhci_put_device: only the put that brings using_port to zero counts.
PutCount(p) ==
    /\ usingPort' = [usingPort EXCEPT ![p] = @ - 1]
    /\ usingPorts' = IF usingPort[p] = 1
                     THEN [usingPorts EXCEPT ![p[1]] = @ - 1]
                     ELSE usingPorts

NumControllers == Cardinality({c \in Ctl : pdev[c]})

\* vhci_using_ports, the sum over all controllers.
UsedPorts == MapThenSumSet(LAMBDA c : usingPorts[c], Ctl)

\* free_ports is unsigned: counts that leaked beyond the ports there are make
\* it huge.
ManyFree ==
    LET free == NumControllers * HcPorts - UsedPorts
    IN  free < 0 \/ free >= HcPorts * FreeHcs

\* try_del_platform_device: enough ports are free, and some controller other
\* than the first has none in use.
Deletable ==
    IF NumControllers > InitCtl /\ ManyFree
    THEN {c \in Ctl \ {0} : pdev[c] /\ usingPorts[c] = 0}
    ELSE {}

\* __del_platform_device of the last of them: vhci_stop raises
\* VDEV_EVENT_REMOVED on its ports and waits until the worker has handled
\* them.  A caller that does not get pdevs_lock skips the deletion.
TryDel ==
    pdev' \in {pdev} \cup
        {[pdev EXCEPT ![c] = FALSE] : c \in {Max(D) : D \in {Deletable} \ {{}}} \ {eh[1][1]}}

\* usbip_event_add, after a deletion that may have taken the port itself.
EventAdd(p, bits) ==
    /\ event' = [event EXCEPT ![p] = IF pdev'[p[1]] THEN @ \cup bits ELSE @]
    /\ events' = {x \in events \cup {p} : pdev'[x[1]]}

\* vhci_event_add outside the worker.
VhciEventAdd(p, bits) == TryDel /\ EventAdd(p, bits)

EventDown  == {"shutdown", "reset"}         \* VDEV_EVENT_DOWN, _ERROR_TCP
EventAlloc == {"shutdown", "unusable"}      \* VDEV_EVENT_ERROR_MALLOC

-----------------------------------------------------------------------------
(* import_device: attaching a device to some port. *)

\* status_show: what userland reads of a port; a controller that is not
\* there shows free ports.
Shown(p) == IF pdev[p[1]] THEN status[p] ELSE "VDEV_ST_NULL"

\* usbip_vhci_get_free_port over the status file of one controller: the scan
\* stops at the first free port, and gives up at a port whose local bus id
\* names no device (an error shows "0-0"; a used one may not be there yet).
ScanStatus(q) ==
    LET c == at[q][1] IN
    /\ pc[q] = "scan"
    /\ \E missing \in SUBSET {r \in Rh : Shown(<<c, r>>) = "VDEV_ST_USED"} :
        LET free   == {r \in Rh : Shown(<<c, r>>) = "VDEV_ST_NULL"}
            broken == missing \cup {r \in Rh : Shown(<<c, r>>) = "VDEV_ST_ERROR"}
            stops  == free \cup broken
        IN  /\ pc' = [pc EXCEPT ![q] =
                    IF stops = {} THEN IF c + 1 \in Ctl THEN "scan" ELSE "failed"
                    ELSE IF Min(stops) \in broken THEN "failed" ELSE "get"]
            /\ at' = [at EXCEPT ![q] =
                    IF stops = {} THEN <<IF c + 1 \in Ctl THEN c + 1 ELSE c, 0>>
                    ELSE <<c, Min(stops)>>]
    /\ UNCHANGED <<pdev, usingPorts, usingPort, status, owner, event, events,
                   eh, busy, fails, user>>

\* vhci_get_device, under pdevs_lock: the controller is created if needed.
GetDevice(q) ==
    /\ pc[q] = "get"
    /\ \E ok \in {TRUE} \cup {FALSE : x \in PortFaults \cap {"probe"}} :
        IF ok \/ pdev[at[q][1]]
        THEN /\ pdev' = [pdev EXCEPT ![at[q][1]] = TRUE]
             /\ IF pdev[at[q][1]]
                THEN GetCount(at[q]) /\ UNCHANGED <<status, owner, event>>
                ELSE LET new == {at[q][1]} \X Rh IN     \* vhci_start
                     /\ usingPorts' = [usingPorts EXCEPT ![at[q][1]] = 1]
                     /\ usingPort' = [p \in Port |->
                            IF p = at[q] THEN 1 ELSE IF p \in new THEN 0 ELSE usingPort[p]]
                     /\ status' = [p \in Port |->
                            IF p \in new THEN "VDEV_ST_NULL" ELSE status[p]]
                     /\ owner' = [p \in Port |-> IF p \in new THEN NoProc ELSE owner[p]]
                     /\ event' = [p \in Port |-> IF p \in new THEN {} ELSE event[p]]
             /\ pc' = [pc EXCEPT ![q] = "store"]
        ELSE /\ pc' = [pc EXCEPT ![q] = "failed"]
             /\ UNCHANGED <<pdev, usingPorts, usingPort, status, owner, event>>
    /\ UNCHANGED <<events, eh, at, busy, fails, user>>

\* Mutant of StoreAttach: a port found busy is not left alone but waited for.
MutWaitBusy(q) ==
    /\ pc[q] = "store"
    /\ IF status[at[q]] = "VDEV_ST_NULL"
       THEN /\ status' = [status EXCEPT ![at[q]] = "VDEV_ST_NOTASSIGNED"]
            /\ owner' = [owner EXCEPT ![at[q]] = q]
            /\ pc' = [pc EXCEPT ![q] = "record"]
            /\ UNCHANGED busy
       ELSE /\ busy' = [busy EXCEPT ![q] = @ + 1]
            /\ UNCHANGED <<status, owner, pc>>
    /\ UNCHANGED <<pdev, usingPorts, usingPort, event, events, eh, at, fails, user>>

\* store_attach under the port's locks: a port that is taken by now is left
\* to its owner (EBUSY), and a socket that cannot be linked ends the attempt.
StoreAttach(q) ==
    /\ pc[q] = "store"
    /\ \/ /\ status[at[q]] = "VDEV_ST_NULL"
          /\ status' = [status EXCEPT ![at[q]] = "VDEV_ST_NOTASSIGNED"]
          /\ owner' = [owner EXCEPT ![at[q]] = q]
          /\ pc' = [pc EXCEPT ![q] = "record"]
       \/ /\ status[at[q]] # "VDEV_ST_NULL"
          /\ pc' = [pc EXCEPT ![q] = "put"]
          /\ UNCHANGED <<status, owner>>
       \/ /\ status[at[q]] = "VDEV_ST_NULL" /\ "link" \in PortFaults
          /\ pc' = [pc EXCEPT ![q] = "put_failed"]
          /\ UNCHANGED <<status, owner>>
    /\ UNCHANGED <<pdev, usingPorts, usingPort, event, events, eh, at, busy, fails, user>>

\* Its error path; after EBUSY import_device tries again from the first
\* controller.
PutFailed(q) ==
    /\ pc[q] = "put_failed"
    /\ PutCount(at[q])
    /\ pc' = [pc EXCEPT ![q] = "failed"]
    /\ UNCHANGED <<pdev, status, owner, event, events, eh, at, busy, fails, user>>
PutBusy(q) ==
    /\ pc[q] = "put"
    /\ PutCount(at[q])
    /\ pc' = [pc EXCEPT ![q] = "scan"]
    /\ at' = [at EXCEPT ![q] = <<0, 0>>]
    /\ busy' = [busy EXCEPT ![q] = @ + 1]
    /\ UNCHANGED <<pdev, status, owner, event, events, eh, fails, user>>

\* usbip_vhci_create_record; without a record the port is to be detached.
CreateRecord(q) ==
    /\ pc[q] = "record"
    /\ pc' \in {[pc EXCEPT ![q] = "done"]} \cup
               {[pc EXCEPT ![q] = "detach"] : x \in PortFaults \cap {"record"}}
    /\ UNCHANGED <<pdev, usingPorts, usingPort, status, owner, event, events,
                   eh, at, busy, fails, user>>

-----------------------------------------------------------------------------
(* Detaching. *)

\* vhci_port_disconnect looks at the status under the port's locks ...
Connected(p) == pdev[p[1]] /\ status[p] # "VDEV_ST_NULL"

StoreDetach(p) ==
    /\ user[1] = "ready"
    /\ user' = <<IF Connected(p) THEN "down" ELSE "over", p>>
    /\ UNCHANGED <<pdev, usingPorts, usingPort, status, owner, event, events,
                   eh, pc, at, busy, fails>>

DetachAgain(q) ==
    /\ pc[q] = "detach"
    /\ pc' = [pc EXCEPT ![q] = IF Connected(at[q]) THEN "down" ELSE "failed"]
    /\ UNCHANGED <<pdev, usingPorts, usingPort, status, owner, event, events,
                   eh, at, busy, fails, user>>

\* ... and raises VDEV_EVENT_DOWN after it has released them.
PortDown ==
    /\ user[1] = "down"
    /\ user' = <<"over", user[2]>>
    /\ VhciEventAdd(user[2], EventDown)
    /\ UNCHANGED <<usingPorts, usingPort, status, owner, eh, pc, at, busy, fails>>

AttachDown(q) ==
    /\ pc[q] = "down"
    /\ pc' = [pc EXCEPT ![q] = "failed"]
    /\ VhciEventAdd(at[q], EventDown)
    /\ UNCHANGED <<usingPorts, usingPort, status, owner, eh, at, busy, fails, user>>

\* The hub driver gives the device an address (vhci_urb_enqueue).
SetAddress(p) ==
    /\ status[p] = "VDEV_ST_NOTASSIGNED" /\ owner[p] # NoProc
    /\ status' = [status EXCEPT ![p] = "VDEV_ST_USED"]
    /\ UNCHANGED <<pdev, usingPorts, usingPort, owner, event, events, eh, pc, at, busy, fails, user>>

\* vhci_rx or vhci_tx find the connection gone, or memory runs out.
ConnectionFails(p) ==
    /\ owner[p] # NoProc /\ event[p] = {} /\ fails < MaxFails
    /\ fails' = fails + 1
    /\ \E bits \in {EventDown} \cup {EventAlloc : x \in PortFaults \cap {"alloc"}} :
            VhciEventAdd(p, bits)
    /\ UNCHANGED <<usingPorts, usingPort, status, owner, eh, pc, at, busy, user>>

\* event_handler takes the next port and does shutdown, reset and unusable.
EhTake ==
    /\ eh[2] = "idle"
    /\ \E p \in events : eh' = <<p, "shutdown">> /\ events' = events \ {p}
    /\ UNCHANGED <<pdev, usingPorts, usingPort, status, owner, event, pc, at, busy, fails, user>>

\* vhci_shutdown_connection.
EhShutdown ==
    /\ eh[2] = "shutdown"
    /\ eh' = <<eh[1], "reset">>
    /\ owner' = [owner EXCEPT ![eh[1]] = IF "shutdown" \in event[eh[1]] THEN NoProc ELSE @]
    /\ event' = [event EXCEPT ![eh[1]] = @ \ {"shutdown"}]
    /\ UNCHANGED <<pdev, usingPorts, usingPort, status, events, pc, at, busy, fails, user>>

\* vhci_device_reset and vhci_device_unusable, up to their put.
EhFree ==
    /\ eh[2] \in {"reset", "unusable"}
    /\ LET p == eh[1] IN
        IF eh[2] \in event[p]
        THEN /\ status' = [status EXCEPT ![p] =
                    IF eh[2] = "reset" THEN "VDEV_ST_NULL" ELSE "VDEV_ST_ERROR"]
             /\ event' = [event EXCEPT ![p] = @ \ {eh[2]}]
             /\ eh' = <<p, IF eh[2] = "reset" THEN "put_reset" ELSE "put_unusable">>
        ELSE /\ eh' = IF eh[2] = "reset" THEN <<p, "unusable">> ELSE <<NoPort, "idle">>
             /\ UNCHANGED <<status, event>>
    /\ UNCHANGED <<pdev, usingPorts, usingPort, owner, events, pc, at, busy, fails, user>>

EhPut ==
    /\ eh[2] \in {"put_reset", "put_unusable"}
    /\ PutCount(eh[1])
    /\ eh' = IF eh[2] = "put_reset" THEN <<eh[1], "unusable">> ELSE <<NoPort, "idle">>
    /\ UNCHANGED <<pdev, status, owner, event, events, pc, at, busy, fails, user>>

EhStep == EhTake \/ EhShutdown \/ EhFree \/ EhPut

AttachStep(q) ==
    \/ ScanStatus(q) \/ GetDevice(q) \/ StoreAttach(q) \/ PutBusy(q) \/ PutFailed(q)
    \/ CreateRecord(q) \/ DetachAgain(q) \/ AttachDown(q)

PortsNext ==
    \/ \E q \in Proc : AttachStep(q)
    \/ \E p \in Port : StoreDetach(p) \/ SetAddress(p) \/ ConnectionFails(p)
    \/ PortDown
    \/ EhStep

PortsSpec == PortsInit /\ [][PortsNext]_portVars

-----------------------------------------------------------------------------
(* Properties. *)

\* using_ports is never behind the ports marked in use, whatever the order
\* of the gets, the puts of attachers that found a port busy, and the puts of
\* the worker: the unsigned count cannot wrap (vhci_get_device,
\* vhci_put_device).
PortCountSane ==
    \A c \in Ctl : pdev[c] =>
        usingPorts[c] >= Cardinality({r \in Rh : usingPort[<<c, r>>] = 1})

\* The retry after EBUSY cannot go on for ever: each round of it is paid by
\* another process that got the port in between, or by a connection that
\* failed in between and left the port in error (import_device's loop, and
\* the status files agreeing with what store_attach checks).
RetriesArePaid ==
    \A q \in Proc : busy[q] <= Cardinality(Proc \ {q}) + fails

===============================================================================
