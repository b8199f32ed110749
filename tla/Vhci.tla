--------------------------------- MODULE Vhci ---------------------------------
(***************************************************************************)
(* One port of the virtual host controller (vhci_hcd.c, vhci_rx.c,         *)
(* vhci_tx.c, vhci_sysfs.c): the URBs the USB core hands to it, the four   *)
(* lists under priv_lock, the vhci_rx and vhci_tx threads, the worker that *)
(* tears a connection down (usbip_event.c) and the part of the USB core    *)
(* that drives the driver (external).                                      *)
(*                                                                         *)
(* Grain of atomicity.  A section under priv_lock is one step.  vhci.lock  *)
(* is held across the two steps of vhci_urb_dequeue (its reads of          *)
(* urb->hcpriv and *priv are not under priv_lock), so dq # NoDequeue means *)
(* vhci.lock is taken and every other user of it waits.  A PDU is received *)
(* and acted upon in one step, up to the giveback, which needs vhci.lock.  *)
(*                                                                         *)
(* The lists are sets ordered by seqnum: seqnum is drawn and the entry     *)
(* appended under one hold of priv_lock, so list order is seqnum order,    *)
(* and priv_rx and unlink_rx are only ever searched by seqnum.             *)
(*                                                                         *)
(* A thread runs from kthread_get_run's wake_up_process on, and the worker *)
(* can stop it only when its caller has stored the result in tcp_rx or     *)
(* tcp_tx: the two pointers follow from where the threads and the writer   *)
(* of the attach file are (TcpRx, TcpTx).                                  *)
(***************************************************************************)
EXTENDS Integers, UsbipNet, UsbipEvent

CONSTANTS
    Urbs,       \* URBs of the drivers on the client
    MaxSeq,     \* bound on vhci->seqnum
    MaxDetach,  \* bound on writes to the detach file
    StaleReads, \* what a freed vhci_priv's seqnum may read as, beside its old value
    NoUrb

ASSUME VhciAssumption ==
    /\ MaxSeq \in Nat
    /\ MaxDetach \in Nat
    /\ StaleReads \subseteq Nat
    /\ NoUrb \notin Urbs

VARIABLES
    seqnum,     \* vhci->seqnum
    vstatus,    \* vdev->ud.status
    vsock,      \* vdev->ud.tcp_socket: its connection, 0 for NULL
    vattached,  \* last connection that was written to the attach file
    vev,        \* vdev->ud.event and its node on event_list
    udev,       \* vdev->udev is the device the USB core has on the port
    priv_tx,    \* vhci_priv to be sent
    priv_rx,    \* vhci_priv sent, waiting for their answer
    unlink_tx,  \* vhci_unlink to be sent
    unlink_rx,  \* vhci_unlink sent, waiting for their answer
    owed,       \* per URB: successful enqueues minus givebacks
    linked,     \* per URB: on its endpoint's list
    unlinked,   \* per URB: urb->unlinked
    hcpriv,     \* per URB: seqnum of the vhci_priv in urb->hcpriv, 0 for NULL
    dq,         \* the vhci_urb_dequeue that holds vhci.lock between its steps
    vrx,        \* where the vhci_rx thread is
    vrx_urb,    \* the URB vhci_rx has picked up and is about to give back
    vtx,        \* where the vhci_tx thread is
    vpdu,       \* the PDU vhci_tx is sending
    veh,        \* where the event worker is
    attach,     \* where the write to the attach file is
    vmissed,    \* history: threads that a shutdown did not find, as they were being started
    detach,     \* [n: writes to detach so far, pending: one has passed its check]
    port,       \* root hub port: [on: CONNECTION bit, change: C_CONNECTION bit]
    dev         \* the USB core's device on the port

NoDequeue == [urb |-> NoUrb, seqnum |-> 0]
NoPdu == CmdSubmit(0)

urbVars  == <<owed, linked, unlinked, hcpriv>>
listVars == <<priv_tx, priv_rx, unlink_tx, unlink_rx>>
vtxVars  == <<vtx, vpdu>>
vrxVars  == <<vrx, vrx_urb>>
hubVars  == <<port, dev>>
portVars == <<vstatus, vsock, vattached, udev>>
userVars == <<attach, detach, vmissed>>
vhciVars == <<seqnum, portVars, vev, listVars, urbVars, dq, vrxVars, vtxVars, veh,
              userVars, hubVars>>
clientVars == <<netVars, vhciVars>>

Priv   == [seqnum : Nat, urb : Urbs]
Unlink == [seqnum : Nat, target : Nat]

PortTypeOK ==
    /\ vstatus \in {"NULL", "NOTASSIGNED", "USED", "ERROR"}
    /\ vsock \in Nat /\ vattached \in Nat /\ udev \in BOOLEAN
    /\ vev \in EventWord
ListTypeOK ==
    /\ seqnum \in Nat
    /\ priv_tx \in SUBSET Priv /\ priv_rx \in SUBSET Priv
    /\ unlink_tx \in SUBSET Unlink /\ unlink_rx \in SUBSET Unlink
UrbTypeOK ==
    /\ owed \in [Urbs -> Int]
    /\ linked \in [Urbs -> BOOLEAN] /\ unlinked \in [Urbs -> BOOLEAN]
    /\ hcpriv \in [Urbs -> Nat]
    /\ dq \in [urb : Urbs \cup {NoUrb}, seqnum : Nat]
ThreadTypeOK ==
    /\ vrx \in {"off", "head", "recv", "giveback", "exit"}
    /\ vrx_urb \in Urbs \cup {NoUrb}
    /\ vtx \in {"off", "submit", "send_submit", "unlink", "send_unlink", "wait", "exit", "oops"}
    /\ vpdu \in CmdPdu
    /\ veh \in {"idle", "unlink", "stop_rx", "stop_tx", "cleanup_tx", "cleanup_rx",
                "reset", "unset_reset", "unusable"}
FileTypeOK ==
    /\ attach \in {"idle", "start_rx", "start_tx", "set_tx", "connect"}
    /\ vmissed \in SUBSET {"rx", "tx"}
    /\ detach \in [n : Nat, pending : BOOLEAN]
    /\ port \in [on : BOOLEAN, change : BOOLEAN]
    /\ dev \in {"none", "new", "addr", "gone"}
VhciTypeOK ==
    NetTypeOK /\ PortTypeOK /\ ListTypeOK /\ UrbTypeOK /\ ThreadTypeOK /\ FileTypeOK

VhciInit ==
    /\ seqnum = 0
    /\ vstatus = "NULL" /\ vsock = 0 /\ vattached = 0 /\ udev = FALSE
    /\ vev = NoEvent
    /\ priv_tx = {} /\ priv_rx = {} /\ unlink_tx = {} /\ unlink_rx = {}
    /\ owed = [u \in Urbs |-> 0]
    /\ linked = [u \in Urbs |-> FALSE]
    /\ unlinked = [u \in Urbs |-> FALSE]
    /\ hcpriv = [u \in Urbs |-> 0]
    /\ dq = NoDequeue
    /\ vrx = "off" /\ vrx_urb = NoUrb
    /\ vtx = "off" /\ vpdu = NoPdu
    /\ veh = "idle"
    /\ attach = "idle" /\ vmissed = {}
    /\ detach = [n |-> 0, pending |-> FALSE]
    /\ port = [on |-> FALSE, change |-> FALSE]
    /\ dev = "none"

\* Mutant of VhciLockFree: vhci_urb_dequeue does not keep vhci.lock.
MutLockDropped == TRUE

VhciLockFree == dq = NoDequeue

\* vdev->ud.tcp_rx and tcp_tx are not NULL: the thread was started and its
\* starter has got to the next statement.
TcpRx == vrx # "off" /\ attach # "start_tx"
TcpTx == vtx # "off" /\ attach # "set_tx"
IsFirst(e, list) == e \in list /\ \A f \in list : e.seqnum <= f.seqnum

-------------------------------------------------------------------------------
(* The USB core gives URBs to the driver and asks for them back. *)

\* usb_hcd_link_urb_to_ep for a URB its driver owns.
LinkUrbToEp(u) ==
    /\ owed[u] = 0
    /\ owed' = [owed EXCEPT ![u] = 1]
    /\ linked' = [linked EXCEPT ![u] = TRUE]
    /\ unlinked' = [unlinked EXCEPT ![u] = FALSE]

\* vhci_tx_urb, with on = whether get_vdev finds the URB's device on a port:
\* the new vhci_priv goes to the end of priv_tx.  Both early returns leave the
\* URB on its endpoint's list with no vhci_priv, and vhci_urb_enqueue returns 0.
TxUrb(u, on) ==
    \/ /\ on
       /\ seqnum < MaxSeq
       /\ seqnum' = seqnum + 1
       /\ hcpriv' = [hcpriv EXCEPT ![u] = seqnum + 1]
       /\ priv_tx' = priv_tx \cup {[seqnum |-> seqnum + 1, urb |-> u]}
       /\ UNCHANGED <<vev, priv_rx, unlink_tx, unlink_rx>>
    \/ /\ on /\ MayFail("client_alloc")
       /\ vev' = EventAdd(vev, EVENT_ERROR_MALLOC)
       /\ UNCHANGED <<seqnum, hcpriv, listVars>>
    \/ /\ ~on
       /\ UNCHANGED <<vev, seqnum, hcpriv, listVars>>

\* vhci_urb_enqueue refuses a URB for a dead connection.
AcceptsUrbs == VhciLockFree /\ vstatus \notin {"NULL", "ERROR"}

\* vhci_urb_enqueue of a request to an addressed device.
VhciEnqueue(u) ==
    /\ AcceptsUrbs
    /\ dev = "addr"
    /\ LinkUrbToEp(u)
    /\ TxUrb(u, udev)
    /\ UNCHANGED <<netVars, portVars, dq, vrxVars, vtxVars, veh, userVars, hubVars>>

\* vhci_urb_enqueue of Get_Descriptor to address 0: it names the port's udev.
VhciEnqueueGetDescriptor(u) ==
    /\ AcceptsUrbs
    /\ dev = "new"
    /\ LinkUrbToEp(u)
    /\ udev' = TRUE
    /\ TxUrb(u, TRUE)
    /\ UNCHANGED <<netVars, vstatus, vsock, vattached, dq, vrxVars, vtxVars, veh,
                   userVars, hubVars>>

\* vhci_urb_enqueue of Set_Address: never sent, completed on the spot.
VhciEnqueueSetAddress(u) ==
    /\ AcceptsUrbs
    /\ dev = "new"
    /\ owed[u] = 0
    /\ udev' = TRUE
    /\ vstatus' = "USED"
    /\ dev' = "addr"
    /\ UNCHANGED <<netVars, seqnum, vsock, vattached, vev, listVars, urbVars, dq,
                   vrxVars, vtxVars, veh, userVars, port>>

\* usb_hcd_unlink_urb_from_ep and usb_hcd_giveback_urb.
GiveBack(u) ==
    /\ owed' = [owed EXCEPT ![u] = @ - 1]
    /\ linked' = [linked EXCEPT ![u] = FALSE]

\* vhci_urb_dequeue up to the test of tcp_socket: a URB with a vhci_priv that
\* usb_hcd_check_unlink_urb accepts (on its list and not unlinked before).
DequeueCheck(u) ==
    /\ VhciLockFree
    /\ hcpriv[u] # 0
    /\ linked[u] /\ ~unlinked[u]
    /\ unlinked' = [unlinked EXCEPT ![u] = TRUE]

\* vhci_urb_dequeue without a connection: the URB is given back here.
VhciDequeueDisconnected(u) ==
    /\ DequeueCheck(u)
    /\ vsock = 0
    /\ priv_tx' = {p \in priv_tx : p.seqnum # hcpriv[u]}
    /\ priv_rx' = {p \in priv_rx : p.seqnum # hcpriv[u]}
    /\ hcpriv' = [hcpriv EXCEPT ![u] = 0]
    /\ GiveBack(u)
    /\ UNCHANGED <<netVars, seqnum, portVars, vev, unlink_tx, unlink_rx, dq, vrxVars,
                   vtxVars, veh, userVars, hubVars>>

\* vhci_urb_dequeue with a connection: priv has been read from urb->hcpriv and
\* vhci.lock stays held.  The allocation may fail: -ENOMEM, urb->unlinked set.
VhciDequeueConnected(u) ==
    /\ DequeueCheck(u)
    /\ vsock # 0
    /\ \/ /\ seqnum < MaxSeq
          /\ dq' = [urb |-> u, seqnum |-> hcpriv[u]]
          /\ UNCHANGED vev
       \/ /\ MayFail("client_alloc")
          /\ vev' = EventAdd(vev, EVENT_ERROR_MALLOC)
          /\ UNCHANGED dq
    /\ UNCHANGED <<netVars, seqnum, portVars, listVars, owed, linked, hcpriv, vrxVars,
                   vtxVars, veh, userVars, hubVars>>

\* Mutant of VhciDequeueQueueUnlink: the unlink takes the last number given out.
MutUnlinkReusesSeqnum ==
    /\ dq # NoDequeue
    /\ unlink_tx' = unlink_tx \cup {[seqnum |-> seqnum, target |-> dq.seqnum]}
    /\ dq' = NoDequeue
    /\ UNCHANGED <<netVars, seqnum, portVars, vev, priv_tx, priv_rx, unlink_rx, urbVars, vrxVars,
                   vtxVars, veh, userVars, hubVars>>

\* The rest of vhci_urb_dequeue: priv->seqnum is read again here, and vhci_rx
\* may have freed priv in between (it takes priv_lock, not vhci.lock).
VhciDequeueQueueUnlink ==
    /\ dq # NoDequeue
    /\ LET live == \E p \in priv_tx \cup priv_rx : p.seqnum = dq.seqnum
       IN \E t \in IF live THEN {dq.seqnum} ELSE {dq.seqnum} \cup StaleReads :
             unlink_tx' = unlink_tx \cup {[seqnum |-> seqnum + 1, target |-> t]}
    /\ seqnum' = seqnum + 1
    /\ dq' = NoDequeue
    /\ UNCHANGED <<netVars, portVars, vev, priv_tx, priv_rx, unlink_rx, urbVars, vrxVars,
                   vtxVars, veh, userVars, hubVars>>

-------------------------------------------------------------------------------
(* The vhci_tx thread.  Every append to priv_tx and unlink_tx is followed by  *)
(* wake_up under the lock, so waiting is a plain guard on the two lists.      *)

\* dequeue_from_priv_tx: the vhci_priv is on priv_rx before it is sent.
VhciTxDequeueSubmit ==
    /\ vtx = "submit"
    /\ \E p \in priv_tx :
          /\ IsFirst(p, priv_tx)
          /\ priv_tx' = priv_tx \ {p}
          /\ priv_rx' = priv_rx \cup {p}
          /\ vpdu' = CmdSubmit(p.seqnum)
    /\ vtx' = "send_submit"
    /\ UNCHANGED <<netVars, seqnum, portVars, vev, unlink_tx, unlink_rx, urbVars, dq,
                   vrxVars, veh, userVars, hubVars>>

\* vhci_send_cmd_submit found priv_tx empty.
VhciTxNoSubmit ==
    /\ vtx = "submit" /\ priv_tx = {}
    /\ vtx' = "unlink"
    /\ UNCHANGED <<netVars, seqnum, portVars, vev, listVars, urbVars, dq, vrxVars, vpdu,
                   veh, userVars, hubVars>>

\* dequeue_from_unlink_tx
VhciTxDequeueUnlink ==
    /\ vtx = "unlink"
    /\ \E k \in unlink_tx :
          /\ IsFirst(k, unlink_tx)
          /\ unlink_tx' = unlink_tx \ {k}
          /\ unlink_rx' = unlink_rx \cup {k}
          /\ vpdu' = CmdUnlink(k.seqnum, k.target)
    /\ vtx' = "send_unlink"
    /\ UNCHANGED <<netVars, seqnum, portVars, vev, priv_tx, priv_rx, urbVars, dq, vrxVars,
                   veh, userVars, hubVars>>

\* vhci_send_cmd_unlink found unlink_tx empty.
VhciTxNoUnlink ==
    /\ vtx = "unlink" /\ unlink_tx = {}
    /\ vtx' = "wait"
    /\ UNCHANGED <<netVars, seqnum, portVars, vev, listVars, urbVars, dq, vrxVars, vpdu,
                   veh, userVars, hubVars>>

\* sendmsg succeeds; on a connection the peer has already lost the local TCP
\* may still take the bytes.  The loop goes on with the same list.
VhciTxSent ==
    /\ vtx \in {"send_submit", "send_unlink"}
    /\ vsock # 0
    /\ IF CanSend(vsock) THEN c2s' = Append(c2s, vpdu) ELSE UNCHANGED c2s
    /\ vtx' = IF vtx = "send_submit" THEN "submit" ELSE "unlink"
    /\ vpdu' = NoPdu
    /\ UNCHANGED <<conn, link, s2c, seqnum, portVars, vev, listVars, urbVars, dq, vrxVars,
                   veh, userVars, hubVars>>

\* sendmsg fails, or (a submit) the iso descriptors cannot be allocated: the
\* entry stays where it is and the thread leaves its loop.
VhciTxFailed ==
    /\ vtx \in {"send_submit", "send_unlink"}
    /\ \/ vsock # 0 /\ Broken(vsock) /\ vev' = EventAdd(vev, EVENT_DOWN)
       \/ vtx = "send_submit" /\ MayFail("client_alloc") /\ vev' = EventAdd(vev, EVENT_ERROR_MALLOC)
    /\ vtx' = "exit"
    /\ vpdu' = NoPdu
    /\ UNCHANGED <<netVars, seqnum, portVars, listVars, urbVars, dq, vrxVars, veh, userVars,
                   hubVars>>

\* kernel_sendmsg dereferences a NULL tcp_socket: the thread dies of it.
VhciTxOops ==
    /\ vtx \in {"send_submit", "send_unlink"}
    /\ vsock = 0
    /\ vtx' = "oops"
    /\ vpdu' = NoPdu
    /\ UNCHANGED <<netVars, seqnum, portVars, vev, listVars, urbVars, dq, vrxVars, veh, userVars,
                   hubVars>>

\* vhci_tx_loop wakes up: it leaves if kthread_stop waits for it, else it
\* drains the two lists again.
VhciTxWake ==
    /\ vtx = "wait"
    /\ \/ veh = "stop_tx" /\ TcpTx /\ vtx' = "exit"
       \/ ~(veh = "stop_tx" /\ TcpTx) /\ priv_tx \cup unlink_tx # {} /\ vtx' = "submit"
    /\ UNCHANGED <<netVars, seqnum, portVars, vev, listVars, urbVars, dq, vrxVars, vpdu,
                   veh, userVars, hubVars>>

-------------------------------------------------------------------------------
(* The vhci_rx thread. *)

\* vhci_rx_loop's two tests before it blocks in vhci_rx_pdu.
VhciRxHead ==
    /\ vrx = "head"
    /\ vrx' = IF (veh = "stop_rx" /\ TcpRx) \/ EventHappened(vev) THEN "exit" ELSE "recv"
    /\ UNCHANGED <<netVars, seqnum, portVars, vev, listVars, urbVars, dq, vrx_urb, vtxVars,
                   veh, userVars, hubVars>>

\* Mutants of PickUp: the vhci_priv stays on priv_rx; urb->hcpriv stays set.
MutPickUpKeepsPriv(p) == UNCHANGED priv_rx /\ hcpriv' = [hcpriv EXCEPT ![p.urb] = 0]
MutPickUpKeepsHcpriv(p) == priv_rx' = priv_rx \ {p} /\ UNCHANGED hcpriv

\* pickup_urb_and_free_priv
PickUp(p) ==
    /\ priv_rx' = priv_rx \ {p}
    /\ hcpriv' = [hcpriv EXCEPT ![p.urb] = 0]

\* vhci_recv_ret_submit.  A payload cut short returns after the pickup.
VhciRxRetSubmit ==
    /\ vrx = "recv"
    /\ CanRecv(vsock, s2c)
    /\ Head(s2c).cmd = "RET_SUBMIT"
    /\ s2c' = Tail(s2c)
    /\ \/ \E p \in priv_rx :
             /\ p.seqnum = Head(s2c).seqnum
             /\ PickUp(p)
             /\ \/ /\ vrx' = "giveback" /\ vrx_urb' = p.urb
                   /\ UNCHANGED vev
                \/ /\ MayFail("client_cut") /\ Broken(vsock)
                   /\ vrx' = "head" /\ UNCHANGED vrx_urb
                   /\ vev' = EventAdd(vev, EVENT_DOWN)
       \/ /\ \A p \in priv_rx : p.seqnum # Head(s2c).seqnum
          /\ vev' = EventAdd(vev, EVENT_DOWN)
          /\ vrx' = "head"
          /\ UNCHANGED <<vrx_urb, priv_rx, hcpriv>>
    /\ UNCHANGED <<conn, link, c2s, seqnum, portVars, priv_tx, unlink_tx, unlink_rx, owed,
                   linked, unlinked, dq, vtxVars, veh, userVars, hubVars>>

\* vhci_recv_ret_unlink: the pending unlink, then the URB it was for, if the
\* URB still waits for its answer.
VhciRxRetUnlink ==
    /\ vrx = "recv"
    /\ CanRecv(vsock, s2c)
    /\ Head(s2c).cmd = "RET_UNLINK"
    /\ s2c' = Tail(s2c)
    /\ \/ \E k \in unlink_rx :
             /\ k.seqnum = Head(s2c).seqnum
             /\ unlink_rx' = unlink_rx \ {k}
             /\ \/ \E p \in priv_rx :
                      /\ p.seqnum = k.target
                      /\ PickUp(p)
                      /\ vrx' = "giveback" /\ vrx_urb' = p.urb
                \/ /\ \A p \in priv_rx : p.seqnum # k.target
                   /\ vrx' = "head"
                   /\ UNCHANGED <<vrx_urb, priv_rx, hcpriv>>
       \/ /\ \A k \in unlink_rx : k.seqnum # Head(s2c).seqnum
          /\ vrx' = "head"
          /\ UNCHANGED <<vrx_urb, unlink_rx, priv_rx, hcpriv>>
    /\ UNCHANGED <<conn, link, c2s, seqnum, portVars, vev, priv_tx, unlink_tx, owed,
                   linked, unlinked, dq, vtxVars, veh, userVars, hubVars>>

\* The end of both handlers: under vhci.lock the URB leaves its endpoint's
\* list, then its completion handler runs.
VhciRxGiveBack ==
    /\ vrx = "giveback"
    /\ VhciLockFree
    /\ GiveBack(vrx_urb)
    /\ vrx' = "head" /\ vrx_urb' = NoUrb
    /\ UNCHANGED <<netVars, seqnum, portVars, vev, listVars, unlinked, hcpriv, dq, vtxVars,
                   veh, userVars, hubVars>>

\* Mutant of VhciRxFailed: an orderly close (ret == 0) raises no event.
MutCloseIgnored ==
    /\ vrx = "recv"
    /\ Broken(vsock)
    /\ vrx' = "exit"
    /\ UNCHANGED <<netVars, seqnum, portVars, vev, listVars, urbVars, dq, vrx_urb, vtxVars,
                   veh, userVars, hubVars>>

\* vhci_rx_pdu: the connection is closed or reset ...
VhciRxFailed ==
    /\ vrx = "recv"
    /\ Broken(vsock)
    /\ vev' = EventAdd(vev, EVENT_DOWN)
    /\ vrx' = "head"
    /\ UNCHANGED <<netVars, seqnum, portVars, listVars, urbVars, dq, vrx_urb, vtxVars, veh,
                   userVars, hubVars>>

\* ... or a receive timeout expires (if the socket has one), which is ignored
\* when nothing is in flight (vhci_priv_tx_empty).
VhciRxTimeout ==
    /\ MayFail("client_timeout")
    /\ vrx = "recv"
    /\ ~Broken(vsock) /\ s2c = <<>>
    /\ vev' = IF priv_rx = {} THEN vev ELSE EventAdd(vev, EVENT_DOWN)
    /\ vrx' = "head"
    /\ UNCHANGED <<netVars, seqnum, portVars, listVars, urbVars, dq, vrx_urb, vtxVars, veh,
                   userVars, hubVars>>

-------------------------------------------------------------------------------
(* The event worker: event_handler with the port's eh_ops. *)

EhRest  == <<seqnum, vattached, owed, linked, unlinked, hcpriv, dq, vrx_urb, vpdu>>
EhFrame == <<EhRest, userVars>>

\* get_event; the worker goes on to the first operation whose bit is set.
VhciEhPop ==
    /\ veh = "idle" /\ vev.queued
    /\ vev' = GetEvent(vev)
    /\ veh' = IF "SHUTDOWN" \in vev.bits THEN "unlink" ELSE "reset"
    /\ UNCHANGED <<netVars, EhFrame, vstatus, vsock, udev, listVars, vrx, vtx, hubVars>>

\* vhci_shutdown_connection: usbip_trx_ops->unlink shuts the socket down.
VhciEhUnlinkSocket ==
    /\ veh = "unlink"
    /\ IF vsock # 0 THEN ShutdownConnection(vsock) ELSE UNCHANGED netVars
    /\ veh' = "stop_rx"
    /\ UNCHANGED <<EhFrame, vstatus, vsock, udev, vev, listVars, vrx, vtx, hubVars>>

\* Mutant of VhciEhStopRx: the worker does not wait for the thread.
MutStopRxNoWait ==
    /\ veh = "stop_rx"
    /\ veh' = "stop_tx"
    /\ UNCHANGED <<netVars, EhFrame, vstatus, vsock, udev, vev, listVars, vrx, vtx, hubVars>>

\* kthread_stop_put(tcp_rx) returns once the thread has left its loop.  With
\* tcp_rx NULL there is nothing to stop, be the thread about to run or running.
VhciEhStopRx ==
    /\ veh = "stop_rx"
    /\ TcpRx => vrx = "exit"
    /\ vrx' = IF TcpRx THEN "off" ELSE vrx
    /\ vmissed' = IF attach \in {"start_rx", "start_tx"} THEN vmissed \cup {"rx"}
                  ELSE vmissed \ {"rx"}
    /\ veh' = "stop_tx"
    /\ UNCHANGED <<netVars, EhRest, attach, detach, vstatus, vsock, udev, vev, listVars, vtx,
                   hubVars>>

\* The same of tcp_tx, then the socket is released.
VhciEhStopTx ==
    /\ veh = "stop_tx"
    /\ TcpTx => vtx \in {"exit", "oops"}
    /\ vtx' = IF TcpTx THEN "off" ELSE vtx
    /\ vmissed' = IF attach \in {"start_rx", "start_tx", "set_tx"} THEN vmissed \cup {"tx"}
                  ELSE vmissed \ {"tx"}
    /\ vsock' = 0
    /\ veh' = "cleanup_tx"
    /\ UNCHANGED <<netVars, EhRest, attach, detach, vstatus, udev, vev, listVars, vrx, hubVars>>

\* vhci_device_unlink_cleanup, first loop: unlinks that were never sent go,
\* their URBs stay where they are.
VhciEhCleanupTx ==
    /\ veh = "cleanup_tx"
    /\ VhciLockFree
    /\ unlink_tx' = {}
    /\ veh' = "cleanup_rx"
    /\ UNCHANGED <<netVars, EhFrame, vstatus, vsock, udev, vev, priv_tx, priv_rx, unlink_rx,
                   vrx, vtx, hubVars>>

\* Second loop: the URB of an unanswered unlink is given back with -ENODEV.
\* The locks are dropped around each giveback.
VhciEhCleanupRx ==
    /\ veh = "cleanup_rx"
    /\ VhciLockFree
    /\ \E k \in unlink_rx :
          /\ IsFirst(k, unlink_rx)
          /\ unlink_rx' = unlink_rx \ {k}
          /\ \/ \E p \in priv_rx :
                   /\ p.seqnum = k.target
                   /\ PickUp(p)
                   /\ GiveBack(p.urb)
             \/ /\ \A p \in priv_rx : p.seqnum # k.target
                /\ UNCHANGED <<priv_rx, hcpriv, owed, linked>>
    /\ UNCHANGED <<netVars, seqnum, portVars, vev, priv_tx, unlink_tx, unlinked, dq, vrxVars,
                   vtxVars, veh, userVars, hubVars>>

\* rh_port_disconnect ends the shutdown and its bit is cleared.
VhciEhPortOff ==
    /\ veh = "cleanup_rx" /\ unlink_rx = {}
    /\ VhciLockFree
    /\ port' = [on |-> FALSE, change |-> TRUE]
    /\ vev' = UnsetEvent(vev, "SHUTDOWN")
    /\ veh' = "reset"
    /\ UNCHANGED <<netVars, EhFrame, vstatus, vsock, udev, listVars, vrx, vtx, dev>>

\* Mutant of VhciEhReset: the stub's idle status (the two drivers share the
\* enum usbip_device_status).
MutResetStubStatus ==
    /\ veh = "reset"
    /\ vstatus' = "AVAILABLE" /\ vsock' = 0 /\ udev' = FALSE
    /\ veh' = "unset_reset"
    /\ UNCHANGED <<netVars, EhFrame, vev, listVars, vrx, vtx, hubVars>>

\* vhci_device_reset
VhciEhReset ==
    /\ veh = "reset"
    /\ IF "RESET" \in vev.bits
       THEN /\ vstatus' = "NULL" /\ vsock' = 0 /\ udev' = FALSE
            /\ veh' = "unset_reset"
       ELSE /\ veh' = "unusable"
            /\ UNCHANGED <<vstatus, vsock, udev>>
    /\ UNCHANGED <<netVars, EhFrame, vev, listVars, vrx, vtx, hubVars>>

\* The worker clears RESET only now: the port could be attached meanwhile.
VhciEhUnsetReset ==
    /\ veh = "unset_reset"
    /\ vev' = UnsetEvent(vev, "RESET")
    /\ veh' = "unusable"
    /\ UNCHANGED <<netVars, EhFrame, vstatus, vsock, udev, listVars, vrx, vtx, hubVars>>

\* vhci_device_unusable
VhciEhUnusable ==
    /\ veh = "unusable"
    /\ vstatus' = IF "UNUSABLE" \in vev.bits THEN "ERROR" ELSE vstatus
    /\ vev' = UnsetEvent(vev, "UNUSABLE")
    /\ veh' = "idle"
    /\ UNCHANGED <<netVars, EhFrame, vsock, udev, listVars, vrx, vtx, hubVars>>

-------------------------------------------------------------------------------
(* Userland: the attach and detach files. *)

\* store_attach, under vhci.lock, with a connection userland has just set up:
\* refused unless the port is free.  (One writer at a time.)
VhciAttach ==
    /\ VhciLockFree
    /\ attach = "idle"
    /\ vattached < conn
    /\ vstatus = "NULL"
    /\ vsock' = conn /\ vattached' = conn
    /\ vstatus' = "NOTASSIGNED"
    /\ attach' = "start_rx"
    /\ vmissed' = {}
    /\ UNCHANGED <<netVars, seqnum, udev, vev, listVars, urbVars, dq, vrxVars, vtxVars, veh,
                   detach, hubVars>>

\* The threads start after the locks are released, one after the other.  (Should
\* older threads still run, which ShutdownFirst is about, the model follows the
\* new ones.)  First vhci_rx ...
VhciAttachStartRx ==
    /\ attach = "start_rx"
    /\ vrx' = "head"
    /\ attach' = "start_tx"
    /\ UNCHANGED <<netVars, seqnum, portVars, vev, listVars, urbVars, dq, vrx_urb, vtxVars, veh,
                   detach, vmissed, hubVars>>

\* ... then tcp_rx is stored and vhci_tx starts ...
VhciAttachStartTx ==
    /\ attach = "start_tx"
    /\ vtx' = "submit"
    /\ attach' = "set_tx"
    /\ UNCHANGED <<netVars, seqnum, portVars, vev, listVars, urbVars, dq, vrxVars, vpdu, veh,
                   detach, vmissed, hubVars>>

\* ... and tcp_tx is stored ...
VhciAttachSetTx ==
    /\ attach = "set_tx"
    /\ attach' = "connect"
    /\ UNCHANGED <<netVars, seqnum, portVars, vev, listVars, urbVars, dq, vrxVars, vtxVars, veh,
                   detach, vmissed, hubVars>>

\* ... and rh_port_connect shows the device to the root hub.
VhciAttachConnect ==
    /\ VhciLockFree
    /\ attach = "connect"
    /\ port' = [on |-> TRUE, change |-> TRUE]
    /\ attach' = "idle"
    /\ UNCHANGED <<netVars, seqnum, portVars, vev, listVars, urbVars, dq, vrxVars, vtxVars,
                   veh, detach, vmissed, dev>>

\* vhci_port_disconnect, the check under the locks ...
VhciDetachCheck ==
    /\ VhciLockFree
    /\ ~detach.pending /\ detach.n < MaxDetach
    /\ vstatus # "NULL"
    /\ detach' = [n |-> detach.n + 1, pending |-> TRUE]
    /\ UNCHANGED <<netVars, attach, vmissed, seqnum, portVars, vev, listVars, urbVars, dq, vrxVars,
                   vtxVars, veh, hubVars>>

\* ... and the event, after they are released.
VhciDetachEvent ==
    /\ detach.pending
    /\ vev' = EventAdd(vev, EVENT_DOWN)
    /\ detach' = [detach EXCEPT !.pending = FALSE]
    /\ UNCHANGED <<netVars, attach, vmissed, seqnum, portVars, listVars, urbVars, dq, vrxVars,
                   vtxVars, veh, hubVars>>

-------------------------------------------------------------------------------
(* The hub driver of the USB core, external: it acts on a connect change by   *)
(* disconnecting the device it had; the disconnection takes back every URB    *)
(* (through vhci_urb_dequeue) and ends when no URB is left on the endpoints.  *)

HubFrame == <<netVars, seqnum, portVars, vev, listVars, urbVars, dq, vrxVars, vtxVars, veh,
              userVars>>

HubConnectChange ==
    /\ port.change
    /\ dev # "gone"
    /\ port' = [port EXCEPT !.change = FALSE]
    /\ dev' = IF dev # "none" THEN "gone" ELSE IF port.on THEN "new" ELSE "none"
    /\ UNCHANGED HubFrame

HubDisconnected ==
    /\ dev = "gone"
    /\ \A u \in Urbs : ~linked[u]
    /\ dev' = "none"
    /\ port' = [port EXCEPT !.change = @ \/ port.on]
    /\ UNCHANGED HubFrame

-------------------------------------------------------------------------------

VhciTx ==
    \/ VhciTxDequeueSubmit \/ VhciTxNoSubmit \/ VhciTxDequeueUnlink \/ VhciTxNoUnlink
    \/ VhciTxSent \/ VhciTxFailed \/ VhciTxOops \/ VhciTxWake
VhciRx ==
    \/ VhciRxHead \/ VhciRxRetSubmit \/ VhciRxRetUnlink \/ VhciRxGiveBack \/ VhciRxFailed
VhciEh ==
    \/ VhciEhPop \/ VhciEhUnlinkSocket \/ VhciEhStopRx \/ VhciEhStopTx
    \/ VhciEhCleanupTx \/ VhciEhCleanupRx \/ VhciEhPortOff
    \/ VhciEhReset \/ VhciEhUnsetReset \/ VhciEhUnusable
VhciCore ==
    \/ \E u \in Urbs :
          \/ VhciEnqueue(u) \/ VhciEnqueueGetDescriptor(u) \/ VhciEnqueueSetAddress(u)
          \/ VhciDequeueDisconnected(u) \/ VhciDequeueConnected(u)
    \/ VhciDequeueQueueUnlink
    \/ HubConnectChange \/ HubDisconnected
VhciAttachGoesOn ==
    \/ VhciAttachStartRx \/ VhciAttachStartTx \/ VhciAttachSetTx \/ VhciAttachConnect
VhciUser ==
    \/ VhciAttach \/ VhciAttachGoesOn
    \/ VhciDetachCheck \/ VhciDetachEvent

VhciNext == VhciTx \/ VhciRx \/ VhciRxTimeout \/ VhciEh \/ VhciCore \/ VhciUser

\* Anything a peer and the network may do, as the client sees it: the far end
\* of the streams changes, the client's own state does not.
Peer ==
    /\ NetTypeOK'
    /\ UNCHANGED vhciVars

\* The client alone, with an arbitrary peer.
VhciSpec == NetInit /\ VhciInit /\ [][VhciNext \/ Peer]_clientVars


-------------------------------------------------------------------------------
(* Properties of the client, whatever the peer does.                          *)

\* Every URB the USB core hands over is given back exactly as often as it was
\* accepted, and only while it is on its endpoint's list: vhci_rx (both
\* handlers), vhci_urb_dequeue and the cleanup of a dead connection never give
\* back the same submission twice.
GivenBackOnce == \A u \in Urbs : owed[u] = IF linked[u] THEN 1 ELSE 0

Privs   == priv_tx \cup priv_rx
Unlinks == unlink_tx \cup unlink_rx

\* urb->hcpriv and the two vhci_priv lists agree: hcpriv never dangles, a URB
\* has at most one vhci_priv, a vhci_priv is on one list, and a URB on a list or
\* in the hands of vhci_rx is still owed to its driver.
PrivMatchesUrb ==
    /\ priv_tx \cap priv_rx = {}
    /\ \A p \in Privs : hcpriv[p.urb] = p.seqnum /\ linked[p.urb]
    /\ \A u \in Urbs : hcpriv[u] # 0 =>
          \E p \in Privs : p.urb = u /\ p.seqnum = hcpriv[u]
    /\ vrx = "giveback" => vrx_urb \in Urbs /\ linked[vrx_urb] /\ hcpriv[vrx_urb] = 0

\* An answer matches at most one request: submits and unlinks draw from one
\* counter, over all four lists and over reconnections (vhci->seqnum is never
\* reset while old entries are around).
RequestNumbersUnique ==
    /\ \A r \in Privs \cup Unlinks : r.seqnum \in 1 .. seqnum
    /\ \A p, q \in Privs : p.seqnum = q.seqnum => p = q
    /\ \A k, l \in Unlinks : k.seqnum = l.seqnum => k = l
    /\ \A p \in Privs, k \in Unlinks : p.seqnum # k.seqnum

\* An unlink request never outlives its connection: once the socket is
\* released and vhci_device_unlink_cleanup is through, no vhci_unlink is left
\* for a later connection to send or to match against its answers, although
\* vhci_urb_dequeue tests the socket long before it queues the request.
\* (Of a port's first connection: a reset left over from it can release the
\* socket of the second without a shutdown, which is what ShutdownFirst denies.)
UnlinksFlushed ==
    vsock = 0 /\ veh \notin {"cleanup_tx", "cleanup_rx"} => Unlinks = {}

\* The socket of a port outlives its threads: while vhci_rx is receiving or
\* vhci_tx is sending, tcp_socket, which usbip_kernel_recvmsg and
\* kernel_sendmsg dereference, is not NULL.  The exception are threads that were
\* being started when the worker looked for them: vhci_shutdown_connection takes
\* tcp_rx or tcp_tx NULL for no thread, and releases the socket.
SocketOutlivesThreads ==
    /\ vrx \in {"recv", "giveback"} => vsock # 0 \/ "rx" \in vmissed
    /\ vtx \in {"send_submit", "send_unlink"} => vsock # 0 \/ "tx" \in vmissed


-------------------------------------------------------------------------------
(* Liveness of the client: its threads and the event worker keep running and  *)
(* a write to a file or a dequeue that has begun goes on.  No receive timeout *)
(* is counted on.                                                             *)

VhciFairness ==
    /\ WF_clientVars(VhciTx) /\ WF_clientVars(VhciRx) /\ WF_clientVars(VhciEh)
    /\ WF_clientVars(VhciAttachGoesOn)
    /\ WF_clientVars(VhciDetachEvent)
    /\ WF_clientVars(VhciDequeueQueueUnlink)

\* A teardown of the port always ends: the worker never waits forever for a
\* vhci_rx that waits for the socket or for vhci.lock, for a sleeping vhci_tx,
\* or for a thread that an attach in progress starts behind its back.
ClientTeardownEnds == "SHUTDOWN" \in vev.bits ~> "SHUTDOWN" \notin vev.bits

\* A connection that is down does not stay with the port, even if it went down
\* while the port was being attached.
ClientLetsGo == link = "down" /\ vsock = conn /\ conn > 0 ~> vsock # conn

===============================================================================
