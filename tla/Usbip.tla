--------------------------------- MODULE Usbip ---------------------------------
(***************************************************************************)
(* The whole URB path: a port of the client's vhci, an exported device on  *)
(* the server, the connection between them, and the userland that sets the *)
(* connection up and hands its socket to the two kernels.                  *)
(*                                                                         *)
(* There are two ways to hand it over.  An import (usbip attach, usbipd)   *)
(* gives it to the server's stub first: usbipd replies after               *)
(* usbip_export_device, and the client attaches when it has the reply.  An *)
(* export (usbip connect, usbipa) gives it to the client's vhci first: the *)
(* application side attaches before it replies, and the device side calls  *)
(* usbip_export_device when it has the reply.                              *)
(***************************************************************************)
EXTENDS Vhci, Stub

CONSTANTS
    Flows,  \* the ways to set a connection up: a subset of {"import", "export"}
    MaxConn \* bound on connections

ASSUME UsbipAssumption ==
    /\ Flows \subseteq {"import", "export"}
    /\ MaxConn \in Nat

VARIABLE
    handover    \* who is still to get the socket of connection conn, in order

vars == <<netVars, vhciVars, stubVars, handover>>

HandOver(flow) == IF flow = "import" THEN <<"stub", "vhci">> ELSE <<"vhci", "stub">>

UsbipTypeOK ==
    /\ VhciTypeOK
    /\ StubTypeOK
    /\ handover \in Seq({"stub", "vhci"}) /\ Len(handover) <= 2

Init ==
    /\ NetInit
    /\ VhciInit
    /\ StubInit
    /\ handover = <<>>

\* usbip_conn_open (net_tcp_open) and the accept of the daemon.
Connect ==
    /\ handover = <<>>
    /\ link = "down" /\ conn < MaxConn
    /\ OpenConnection
    /\ \E flow \in Flows : handover' = HandOver(flow)
    /\ UNCHANGED <<vhciVars, stubVars>>

\* The turn of an end: the second comes when the write to the file of the first
\* has returned.
Turn(end) ==
    /\ handover # <<>> /\ Head(handover) = end
    /\ handover = <<"vhci">> => sstore = "idle"
    /\ handover = <<"stub">> => attach = "idle"
TakeSocket(end) == Turn(end) /\ handover' = Tail(handover)

\* usbip_vhci_attach_device2, and usbip_generic_export_device up to the thread start.
AttachVhci == TakeSocket("vhci") /\ VhciAttach /\ UNCHANGED stubVars
ExportStub == TakeSocket("stub") /\ StubStoreSockfd /\ UNCHANGED vhciVars

\* The file refuses the socket, or the connection is lost before its turn: the
\* process closes the socket.
GiveUp ==
    /\ \/ Turn("vhci") /\ (vstatus # "NULL" \/ link = "down")
       \/ Turn("stub") /\ (sstatus # "AVAILABLE" \/ link = "down")
    /\ handover' = <<>>
    /\ link' = "down"
    /\ UNCHANGED <<conn, c2s, s2c, vhciVars, stubVars>>

\* The steps of one side, which leave the other side alone.
VhciStep ==
    /\ \/ VhciTx \/ VhciRx \/ VhciRxTimeout \/ VhciEh \/ VhciCore
       \/ VhciAttachGoesOn \/ VhciDetachCheck \/ VhciDetachEvent
    /\ UNCHANGED <<stubVars, handover>>

StubStep ==
    /\ \/ StubTx \/ StubRx \/ StubEh \/ StubUser
       \/ \E id \in hw : StubComplete(id)
    /\ UNCHANGED <<vhciVars, handover>>

NetworkLoss == LoseConnection /\ UNCHANGED <<vhciVars, stubVars, handover>>

Next ==
    \/ Connect \/ AttachVhci \/ ExportStub \/ GiveUp
    \/ VhciStep \/ StubStep \/ NetworkLoss

Spec == Init /\ [][Next]_vars


-------------------------------------------------------------------------------
(* Safety of the two ends together. *)

Seqnums(list) == {list[i].seqnum : i \in DOMAIN list}

\* Requests the server still owes an answer, and answers on their way.
AnswerDue == Seqnums(priv_init) \cup Seqnums(done_tx) \cup Seqnums(ret_unlink)
InFlight == {vpdu.seqnum} \cup Seqnums(c2s) \cup AnswerDue \cup Seqnums(s2c)

Undisturbed ==
    /\ link = "open" /\ vsock = conn
    /\ ~EventHappened(vev) /\ ~EventHappened(sev)

\* No request is forgotten while the connection works: what the client waits
\* for is on its way to the server, in the server's lists, or on its way back.
\* A URB may be answered through its unlink request instead, since a found
\* target takes the unlink's seqnum.
RequestsTracked ==
    Undisturbed =>
        /\ \A k \in unlink_rx : k.seqnum \in InFlight
        /\ \A p \in priv_rx :
              \/ p.seqnum \in InFlight
              \/ \E k \in unlink_rx : k.target = p.seqnum

\* No request is answered twice: a seqnum is in one place only of the request
\* stream, the server's lists and the answer stream.
AnsweredOnce ==
    IsInjective([i \in 1 .. Len(c2s \o priv_init \o done_tx \o ret_unlink \o s2c) |->
                    (c2s \o priv_init \o done_tx \o ret_unlink \o s2c)[i].seqnum])

\* When the client learns that its URB was cancelled (-ECONNRESET) and gives
\* the buffer back to its driver, the device no longer works on the URB.
CancelledUrbStopped ==
    \A k \in unlink_rx :
        RetUnlink(k.seqnum, "ECONNRESET") \in Range(s2c) => k.target \notin hw

-------------------------------------------------------------------------------
(* Liveness.  Every kernel thread and the two event workers keep running, a   *)
(* write to a file that has begun ends, and the USB cores do their part: the  *)
(* server's host controller completes a cancelled URB, the client's hub       *)
(* driver handles port changes and unlinks the URBs of a device that is gone. *)
(* Nothing makes drivers submit or cancel URBs, devices answer them, users    *)
(* attach or detach, or the network fail.                                     *)

OnVhci(A) == A /\ UNCHANGED <<stubVars, handover>>
OnStub(A) == A /\ UNCHANGED <<vhciVars, handover>>

Progress ==
    \/ OnVhci(\/ VhciTx \/ VhciRx \/ VhciEh
              \/ VhciAttachGoesOn \/ VhciDetachEvent
              \/ VhciDequeueQueueUnlink \/ HubConnectChange \/ HubDisconnected
              \/ /\ dev = "gone"
                 /\ \E u \in Urbs : VhciDequeueDisconnected(u) \/ VhciDequeueConnected(u))
    \/ OnStub(\/ StubTx \/ StubRx \/ StubEh \/ StubStoreGoesOn
              \/ \E id \in cancelled : StubComplete(id))

\* Less than fairness of each thread: as long as somebody can go on, somebody
\* does.  No thread can run forever without the others here, so what holds
\* under this holds however the scheduler shares the processors out.
FairSpec == Spec /\ WF_vars(Progress)

\* The result of a URB the device has completed reaches the driver, unless the
\* connection fails: neither stub_tx nor vhci_rx sleeps over it.
ResultDelivered ==
    \A u \in Urbs :
        hcpriv[u] # 0 /\ hcpriv[u] \in Seqnums(done_tx) ~> hcpriv[u] = 0 \/ link = "down"

===============================================================================
