--------------------------------- MODULE Vudc ---------------------------------
(***************************************************************************)
(* A virtual USB device controller exported by the server (vudc_dev.c,     *)
(* vudc_rx.c, vudc_tx.c, vudc_transfer.c, vudc_sysfs.c): a gadget driver   *)
(* of the server's own kernel answers the URBs of the client.  Instead of  *)
(* a host controller a timer, v_timer, sweeps the queue of URBs and moves   *)
(* data between each URB and the requests the gadget driver queued.         *)
(*                                                                         *)
(* Grain of atomicity.  A section under udc->lock is one step, except the   *)
(* sweep, which takes a step per URB it visits and holds the lock from the  *)
(* first to the last, but for the two places where it releases it to call   *)
(* the gadget driver.  How much data a URB and a request exchange is the    *)
(* subject of VudcTransfer; here a visit completes the one, the other or    *)
(* both.                                                                   *)
(***************************************************************************)
EXTENDS Naturals, Sequences, SequencesExt, UsbipNet, UsbipEvent

CONSTANTS
    DataEps,    \* the endpoints beside endpoint 0
    InEps,      \* those of them with direction IN
    MaxReq      \* bound on the gadget requests queued on an endpoint

EP0 == "ep0"
Eps == DataEps \cup {EP0}

ASSUME VudcAssumption == InEps \subseteq DataEps /\ EP0 \notin DataEps /\ MaxReq \in Nat

VARIABLES
    gadget,     \* [driver, pullup, unbinding]: the gadget driver's hold on the controller
    ep,         \* per endpoint: [desc, isoc, halted, wedged, reqs]
    vstatus,    \* udc->ud.status
    vsock,      \* udc->ud.tcp_socket: its connection, 0 for NULL
    connected,  \* udc->connected
    vstore,     \* how far a store_sockfd has come with its connection
    vev,        \* udc->ud.event and its node on event_list
    urb_queue,  \* udc->urb_queue, oldest first
    tx_queue,   \* udc->tx_queue, oldest first
    timer,      \* [state, armed]: udc->tr_timer
    sweep,      \* where v_timer is
    vrx,        \* where the vudc_rx thread is; "off": tcp_rx is NULL
    vtx,        \* where the vudc_tx thread is
    veh         \* where the event worker is

udcVars == <<gadget, vstatus, vsock, connected, vstore>>
threadVars == <<vrx, vtx, veh>>
vudcVars == <<udcVars, ep, vev, urb_queue, tx_queue, timer, sweep, threadVars>>

Endpoint == [desc : BOOLEAN, isoc : BOOLEAN, halted : BOOLEAN, wedged : BOOLEAN,
             reqs : 0 .. MaxReq]

\* struct urbp and its URB.  id is its identity, the seqnum of the CMD_SUBMIT;
\* seqnum is overwritten by a CMD_UNLINK; ctl is what a setup packet asks for.
Ctl == {"std", "set_halt", "clear_halt", "driver"}
Urbp == [id : Nat, seqnum : Nat, ep : Eps, ctl : Ctl, windex : DataEps,
         new : BOOLEAN, unlinked : BOOLEAN]

VudcCmd == [cmd : {"CMD_SUBMIT", "CMD_UNLINK", "UNKNOWN"}, seqnum : Nat, target : Nat,
            ep : Eps, ctl : Ctl, windex : DataEps]

TxItem == [type : {"SUBMIT", "UNLINK"}, seqnum : Nat]

\* VUDC_EVENT_REMOVED
EVENT_REMOVED == {"SHUTDOWN", "RESET", "BYE"}

VudcTypeOK ==
    /\ gadget \in [driver : BOOLEAN, pullup : BOOLEAN, unbinding : BOOLEAN]
    /\ ep \in [Eps -> Endpoint]
    /\ vstatus \in {"AVAILABLE", "USED", "ERROR"}
    /\ vsock \in Nat /\ connected \in BOOLEAN
    /\ vstore \in {"none", "start_rx", "start_tx", "used"}
    /\ vev \in EventWord
    /\ urb_queue \in Seq(Urbp) /\ tx_queue \in Seq(TxItem)
    /\ timer \in [state : {"STOPPED", "IDLE", "RUNNING"}, armed : BOOLEAN]
    /\ sweep \in [pc : {"off", "scan", "setup", "transfer", "giveback", "oops"},
                  cur : Nat, next : Nat, done : BOOLEAN, seen : SUBSET Eps]
    /\ vrx \in {"off", "head", "recv", "exit", "gone"}
    /\ vtx \in {"off", "head", "send", "wait", "asleep", "exit", "oops"}
    /\ veh \in {"idle", "unlink", "stop_rx", "stop_tx", "stop_activity", "reset",
                "unset_reset", "unusable"}

NoSweep == [pc |-> "off", cur |-> 0, next |-> 0, done |-> FALSE, seen |-> {}]
DisabledEp == [desc |-> FALSE, isoc |-> FALSE, halted |-> FALSE, wedged |-> FALSE, reqs |-> 0]

\* A controller without a connection.
VudcIdle ==
    /\ vstatus = "AVAILABLE" /\ vsock = 0 /\ connected = FALSE /\ vstore = "none"
    /\ vev = NoEvent
    /\ urb_queue = <<>> /\ tx_queue = <<>>
    /\ timer = [state |-> "STOPPED", armed |-> FALSE]
    /\ sweep = NoSweep
    /\ vrx = "off" /\ vtx = "off" /\ veh = "idle"

\* init_vudc_hw, v_init_timer: no gadget driver is bound to it either.
VudcInit ==
    /\ gadget = [driver |-> FALSE, pullup |-> FALSE, unbinding |-> FALSE]
    /\ ep = [e \in Eps |-> DisabledEp]
    /\ VudcIdle

UdcLockFree == sweep.pc \notin {"scan", "transfer"}

\* vudc_find_endpoint: endpoint 0 always answers, the others once enabled.
FindEndpoint(e) == e = EP0 \/ ep[e].desc

-------------------------------------------------------------------------------
(* The transfer timer. *)

\* v_kick_timer
KickTimer(t) ==
    CASE t.state = "RUNNING" -> t
      [] t.state = "IDLE"    -> [state |-> "RUNNING", armed |-> TRUE]
      [] t.state = "STOPPED" -> [t EXCEPT !.armed = TRUE]

\* v_start_timer
StartTimer(t) ==
    CASE t.state = "RUNNING" -> t
      [] t.state = "IDLE"    -> KickTimer(t)
      [] t.state = "STOPPED" -> KickTimer([t EXCEPT !.state = "IDLE"])

\* wake_up(&udc->tx_waitq)
WakeVtx == vtx' = IF vtx = "asleep" THEN "wait" ELSE vtx

\* v_enqueue_ret_submit and v_enqueue_ret_unlink: nothing is queued when the
\* allocation fails.
EnqueueRet(type, s) ==
    \/ tx_queue' = Append(tx_queue, [type |-> type, seqnum |-> s]) /\ UNCHANGED vev
    \/ /\ MayFail("server_alloc")
       /\ vev' = EventAdd(vev, EVENT_ERROR_MALLOC)
       /\ UNCHANGED tx_queue

IndexOf(id) == {i \in DOMAIN urb_queue : urb_queue[i].id = id}
IdAt(q, i) == IF i \in DOMAIN q THEN q[i].id ELSE 0

\* v_timer: the timer fires and the sweep starts with the lock held.  (The
\* speed of the gadget is known once it is pulled up, before any connection.)
SweepStart ==
    /\ timer.armed /\ sweep.pc = "off"
    /\ timer' = [timer EXCEPT !.armed = FALSE]
    /\ sweep' = [NoSweep EXCEPT !.pc = "scan", !.cur = IdAt(urb_queue, 1)]
    /\ UNCHANGED <<netVars, udcVars, ep, vev, urb_queue, tx_queue, threadVars>>

\* The next URB of the walk is cur; one that was freed meanwhile is a crash.
Visiting(i) == sweep.pc = "scan" /\ sweep.cur # 0 /\ i \in IndexOf(sweep.cur)
SweepLost ==
    /\ sweep.pc \in {"scan", "transfer"} /\ sweep.cur # 0 /\ IndexOf(sweep.cur) = {}
    /\ sweep' = [NoSweep EXCEPT !.pc = "oops"]
    /\ UNCHANGED <<netVars, udcVars, ep, vev, urb_queue, tx_queue, timer, threadVars>>

\* Mutant of ReturnUrb: a returned URB stays on the queue.
MutReturnStays(i) ==
    /\ EnqueueRet(IF urb_queue[i].unlinked THEN "UNLINK" ELSE "SUBMIT", urb_queue[i].seqnum)
    /\ WakeVtx
    /\ sweep' = [sweep EXCEPT !.pc = "scan", !.cur = IdAt(urb_queue, i + 1), !.next = 0,
                              !.done = FALSE, !.seen = @ \ {urb_queue[i].ep}]
    /\ UNCHANGED urb_queue

\* v_timer's return_urb: the URB leaves the queue, its result is queued, vudc_tx
\* is woken and the walk starts again from the first URB.
ReturnUrb(i) ==
    /\ urb_queue' = RemoveAt(urb_queue, i)
    /\ EnqueueRet(IF urb_queue[i].unlinked THEN "UNLINK" ELSE "SUBMIT", urb_queue[i].seqnum)
    /\ WakeVtx
    /\ sweep' = [sweep EXCEPT !.pc = "scan", !.cur = IdAt(RemoveAt(urb_queue, i), 1), !.next = 0,
                              !.done = FALSE, !.seen = @ \ {urb_queue[i].ep}]

SweepUnlinked ==
    /\ \E i \in DOMAIN urb_queue :
          Visiting(i) /\ urb_queue[i].unlinked /\ ReturnUrb(i)
    /\ UNCHANGED <<netVars, udcVars, ep, timer, vrx, veh>>

\* Whether the walk looks at URB i at all, beyond its unlinked flag.
Considers(i) ==
    ~urb_queue[i].unlinked /\ timer.state = "RUNNING" /\ urb_queue[i].ep \notin sweep.seen

\* The walk passes over a URB: its endpoint was seen, or the bandwidth of the
\* frame is used up and it is a bulk transfer.
SweepSkip ==
    /\ \E i \in DOMAIN urb_queue :
          /\ Visiting(i) /\ ~urb_queue[i].unlinked
          /\ \/ ~Considers(i)
             \/ urb_queue[i].ep # EP0 /\ ~ep[urb_queue[i].ep].isoc
          /\ sweep' = [sweep EXCEPT !.cur = IdAt(urb_queue, i + 1)]
    /\ UNCHANGED <<netVars, udcVars, ep, vev, urb_queue, tx_queue, timer, threadVars>>

\* What handle_control_request makes of a setup packet: handled (0), refused (an
\* error), or left to the gadget driver (1).
ControlResult(u) ==
    CASE u.ctl = "std" -> "handled"
      [] u.ctl \in {"set_halt", "clear_halt"} /\ FindEndpoint(u.windex) -> "handled"
      [] u.ctl = "driver" -> "driver"
      [] OTHER -> "refused"

\* Mutant of ControlEffect: CLEAR_FEATURE clears a halt the driver wedged.
MutClearWedged(u) ==
    IF ~FindEndpoint(u.windex) THEN [ep EXCEPT ![EP0].halted = FALSE]
    ELSE CASE u.ctl = "set_halt" -> [ep EXCEPT ![EP0].halted = FALSE, ![u.windex].halted = TRUE]
           [] u.ctl = "clear_halt" -> [ep EXCEPT ![EP0].halted = FALSE, ![u.windex].halted = FALSE]
           [] OTHER -> [ep EXCEPT ![EP0].halted = FALSE]

\* The endpoints after the setup stage: endpoint 0 is not halted any more, and
\* the standard requests set or clear a halt; a wedge outlasts CLEAR_FEATURE.
ControlEffect(u) ==
    IF ~FindEndpoint(u.windex) THEN [ep EXCEPT ![EP0].halted = FALSE]
    ELSE CASE u.ctl = "set_halt" -> [ep EXCEPT ![EP0].halted = FALSE, ![u.windex].halted = TRUE]
           [] u.ctl = "clear_halt" -> [ep EXCEPT ![EP0].halted = FALSE,
                                                 ![u.windex].halted = @ /\ ep[u.windex].wedged]
           [] OTHER -> [ep EXCEPT ![EP0].halted = FALSE]

\* The setup stage of a control transfer: the request is handled here, refused,
\* or given to the gadget driver with the lock released.
SweepSetup ==
    /\ \E i \in DOMAIN urb_queue :
          LET u == urb_queue[i]
              to(pc, done) == [sweep EXCEPT !.pc = pc, !.next = IdAt(urb_queue, i + 1),
                                            !.done = done, !.seen = @ \cup {EP0}]
          IN /\ Visiting(i) /\ Considers(i)
             /\ u.ep = EP0 /\ u.new
             /\ ep' = ControlEffect(u)
             /\ \/ /\ ControlResult(u) = "handled"
                   /\ sweep' = to("transfer", TRUE)
                   /\ urb_queue' = [urb_queue EXCEPT ![i].new = FALSE]
                   /\ UNCHANGED <<vev, tx_queue, vtx>>
                \/ /\ ControlResult(u) = "driver"
                   /\ sweep' = to("setup", FALSE)
                   /\ urb_queue' = [urb_queue EXCEPT ![i].new = FALSE]
                   /\ UNCHANGED <<vev, tx_queue, vtx>>
                \/ ControlResult(u) = "refused" /\ ReturnUrb(i)
    /\ UNCHANGED <<netVars, udcVars, timer, vrx, veh>>

\* driver->setup returned and the lock is taken again: a refusal returns the
\* URB, otherwise its data stage begins.
SweepSetupDone ==
    /\ sweep.pc = "setup"
    /\ \/ /\ sweep' = [sweep EXCEPT !.pc = "transfer"]
          /\ UNCHANGED <<vev, urb_queue, tx_queue, vtx>>
       \/ \E i \in IndexOf(sweep.cur) : ReturnUrb(i)
    /\ UNCHANGED <<netVars, udcVars, ep, timer, vrx, veh>>

\* A URB of a halted endpoint, or of an isochronous one, is returned at once ...
SweepRefuse ==
    /\ \E i \in DOMAIN urb_queue :
          LET u == urb_queue[i]
          IN /\ Visiting(i) /\ Considers(i) /\ ~(u.ep = EP0 /\ u.new)
             /\ ep[u.ep].halted \/ ep[u.ep].isoc
             /\ ReturnUrb(i)
    /\ UNCHANGED <<netVars, udcVars, ep, timer, vrx, veh>>

\* ... any other exchanges data with the requests of its endpoint.
SweepTransfer ==
    /\ \E i \in DOMAIN urb_queue :
          LET u == urb_queue[i]
          IN /\ Visiting(i) /\ Considers(i) /\ ~(u.ep = EP0 /\ u.new)
             /\ ~ep[u.ep].halted /\ ~ep[u.ep].isoc
             /\ sweep' = [sweep EXCEPT !.pc = "transfer", !.next = IdAt(urb_queue, i + 1),
                                       !.done = FALSE, !.seen = @ \cup {u.ep}]
    /\ UNCHANGED <<netVars, udcVars, ep, vev, urb_queue, tx_queue, timer, threadVars>>

\* transfer, one round: with no request left the device is NAKing and the walk
\* goes on, unless the URB is done; otherwise the round completes the request,
\* the URB or both, and a completed request goes back to the gadget driver with
\* the lock released.
TransferRound ==
    /\ sweep.pc = "transfer"
    /\ \E i \in IndexOf(sweep.cur) :
          LET e == urb_queue[i].ep
          IN \/ /\ ep[e].reqs = 0 /\ ~sweep.done
                /\ sweep' = [sweep EXCEPT !.pc = "scan", !.cur = sweep.next]
                /\ UNCHANGED <<ep, vev, urb_queue, tx_queue, vtx>>
             \/ ep[e].reqs = 0 /\ sweep.done /\ ReturnUrb(i) /\ UNCHANGED ep
             \/ ep[e].reqs > 0 /\ ReturnUrb(i) /\ UNCHANGED ep
             \/ /\ ep[e].reqs > 0
                /\ ep' = [ep EXCEPT ![e].reqs = @ - 1]
                /\ \E done \in {sweep.done, TRUE} :
                      sweep' = [sweep EXCEPT !.pc = "giveback", !.done = done]
                /\ UNCHANGED <<vev, urb_queue, tx_queue, vtx>>
    /\ UNCHANGED <<netVars, udcVars, timer, vrx, veh>>

\* usb_gadget_giveback_request returned and the lock is taken again.
TransferGivenBack ==
    /\ sweep.pc = "giveback"
    /\ \/ /\ ~sweep.done
          /\ sweep' = [sweep EXCEPT !.pc = "transfer"]
          /\ UNCHANGED <<vev, urb_queue, tx_queue, vtx>>
       \/ /\ sweep.done
          /\ \E i \in IndexOf(sweep.cur) : ReturnUrb(i)
       \/ /\ sweep.done /\ IndexOf(sweep.cur) = {}
          /\ sweep' = [NoSweep EXCEPT !.pc = "oops"]
          /\ UNCHANGED <<vev, urb_queue, tx_queue, vtx>>
    /\ UNCHANGED <<netVars, udcVars, ep, timer, vrx, veh>>

\* Mutant of SweepEnd: the timer goes idle whether or not the queue is empty.
MutSweepEndIdle ==
    /\ sweep.pc = "scan" /\ sweep.cur = 0
    /\ timer' = [timer EXCEPT !.state = "IDLE"]
    /\ sweep' = NoSweep
    /\ UNCHANGED <<netVars, udcVars, ep, vev, urb_queue, tx_queue, threadVars>>

\* The walk is over: the timer goes idle or is armed for the next frame.
SweepEnd ==
    /\ sweep.pc = "scan" /\ sweep.cur = 0
    /\ timer' = IF urb_queue = <<>> THEN [timer EXCEPT !.state = "IDLE"]
                                    ELSE [timer EXCEPT !.armed = TRUE]
    /\ sweep' = NoSweep
    /\ UNCHANGED <<netVars, udcVars, ep, vev, urb_queue, tx_queue, threadVars>>

-------------------------------------------------------------------------------
(* The vudc_rx thread. *)

VudcRxHead ==
    /\ vrx = "head"
    /\ vrx' = IF veh = "stop_rx" \/ EventHappened(vev) THEN "exit" ELSE "recv"
    /\ UNCHANGED <<netVars, udcVars, ep, vev, urb_queue, tx_queue, timer, sweep, vtx, veh>>

\* Mutant of VudcRxFailed: a short header raises no event.
MutVudcRxSilent ==
    /\ vrx = "recv" /\ Broken(vsock)
    /\ vrx' = "exit"
    /\ UNCHANGED <<netVars, udcVars, ep, vev, urb_queue, tx_queue, timer, sweep, vtx, veh>>

\* v_rx_pdu could not receive a header (usbip_recv refuses a NULL socket too).
VudcRxFailed ==
    /\ vrx = "recv" /\ Broken(vsock)
    /\ vev' = EventAdd(vev, EVENT_DOWN)
    /\ vrx' = "exit"
    /\ UNCHANGED <<netVars, udcVars, ep, urb_queue, tx_queue, timer, sweep, vtx, veh>>

VudcRecv ==
    /\ vrx = "recv" /\ CanRecv(vsock, c2s)
    /\ c2s' = Tail(c2s)
    /\ UNCHANGED <<conn, link, s2c>>

\* v_rx_pdu: the controller is not SDEV_ST_USED yet.
VudcRxBusy ==
    /\ VudcRecv /\ vstatus # "USED"
    /\ vev' = EventAdd(vev, EVENT_DOWN)
    /\ vrx' = "exit"
    /\ UNCHANGED <<udcVars, ep, urb_queue, tx_queue, timer, sweep, vtx, veh>>

\* v_rx_pdu: an unknown command ends the thread and raises no event.
VudcRxUnknown ==
    /\ VudcRecv /\ vstatus = "USED"
    /\ Head(c2s).cmd = "UNKNOWN"
    /\ vrx' = "gone"
    /\ UNCHANGED <<udcVars, ep, vev, urb_queue, tx_queue, timer, sweep, vtx, veh>>

\* v_recv_cmd_submit (with alloc_urb_from_cmd).  As in the stub, a peer that
\* closes in the middle of a payload is taken for success.
VudcRxCmdSubmit ==
    /\ VudcRecv /\ vstatus = "USED" /\ UdcLockFree
    /\ Head(c2s).cmd = "CMD_SUBMIT"
    /\ LET h == Head(c2s)
           fails(mask) == /\ vev' = EventAdd(vev, mask) /\ vrx' = "exit"
                          /\ UNCHANGED <<urb_queue, timer>>
           queued == /\ timer' = KickTimer(timer)
                     /\ urb_queue' = Append(urb_queue,
                          [id |-> h.seqnum, seqnum |-> h.seqnum, ep |-> h.ep, ctl |-> h.ctl,
                           windex |-> h.windex, new |-> TRUE, unlinked |-> FALSE])
                     /\ vrx' = "head"
       IN \/ FindEndpoint(h.ep) /\ queued /\ UNCHANGED vev
          \/ ~FindEndpoint(h.ep) /\ fails(EVENT_DOWN)
          \/ MayFail("server_alloc") /\ fails(EVENT_ERROR_MALLOC)
          \/ MayFail("server_cut") /\ Broken(vsock) /\ FindEndpoint(h.ep) /\ fails(EVENT_DOWN)
          \/ /\ MayFail("server_cut") /\ Broken(vsock) /\ FindEndpoint(h.ep)
             /\ queued /\ vev' = EventAdd(vev, EVENT_DOWN)
    /\ UNCHANGED <<udcVars, ep, tx_queue, sweep, vtx, veh>>

\* Mutant of VudcRxCmdUnlink: the answer is queued without a wake_up.
MutUnlinkNoWake ==
    /\ VudcRecv /\ vstatus = "USED" /\ UdcLockFree
    /\ Head(c2s).cmd = "CMD_UNLINK"
    /\ LET h == Head(c2s)
           found == {i \in DOMAIN urb_queue : urb_queue[i].seqnum = h.target}
       IN \/ /\ found # {}
             /\ \E i \in found :
                   /\ \A j \in found : i <= j
                   /\ urb_queue' = [urb_queue EXCEPT ![i].unlinked = TRUE, ![i].seqnum = h.seqnum]
             /\ timer' = KickTimer(timer)
             /\ UNCHANGED <<vev, tx_queue, vtx>>
          \/ found = {} /\ EnqueueRet("UNLINK", h.seqnum) /\ UNCHANGED <<vtx, urb_queue, timer>>
    /\ vrx' = "head"
    /\ UNCHANGED <<udcVars, ep, sweep, veh>>

\* v_recv_cmd_unlink: a URB on the queue is marked, takes the seqnum of the
\* unlink and is left to the timer; otherwise the answer is queued at once.
VudcRxCmdUnlink ==
    /\ VudcRecv /\ vstatus = "USED" /\ UdcLockFree
    /\ Head(c2s).cmd = "CMD_UNLINK"
    /\ LET h == Head(c2s)
           found == {i \in DOMAIN urb_queue : urb_queue[i].seqnum = h.target}
       IN \/ /\ found # {}
             /\ \E i \in found :
                   /\ \A j \in found : i <= j
                   /\ urb_queue' = [urb_queue EXCEPT ![i].unlinked = TRUE, ![i].seqnum = h.seqnum]
             /\ timer' = KickTimer(timer)
             /\ UNCHANGED <<vev, tx_queue, vtx>>
          \/ found = {} /\ EnqueueRet("UNLINK", h.seqnum) /\ WakeVtx /\ UNCHANGED <<urb_queue, timer>>
    /\ vrx' = "head"
    /\ UNCHANGED <<udcVars, ep, sweep, veh>>

-------------------------------------------------------------------------------
(* The vudc_tx thread. *)

VudcTxHead ==
    /\ vtx = "head"
    /\ vtx' = IF veh = "stop_tx" \/ EventHappened(vev) THEN "exit" ELSE "send"
    /\ UNCHANGED <<netVars, udcVars, ep, vev, urb_queue, tx_queue, timer, sweep, vrx, veh>>

\* v_send_ret: one item, taken off the queue before it is sent
\* (v_send_ret_submit, v_send_ret_unlink).  A NULL socket crashes the thread.
VudcTxSend ==
    /\ vtx = "send" /\ tx_queue # <<>>
    /\ tx_queue' = Tail(tx_queue)
    /\ \/ /\ vsock # 0
          /\ s2c' = IF CanSend(vsock) THEN Append(s2c, Head(tx_queue)) ELSE s2c
          /\ UNCHANGED <<vev, vtx>>
       \/ /\ Broken(vsock) /\ vsock # 0
          /\ vev' = EventAdd(vev, EVENT_DOWN) /\ vtx' = "exit"
          /\ UNCHANGED s2c
       \/ /\ MayFail("server_alloc") /\ Head(tx_queue).type = "SUBMIT"
          /\ vev' = EventAdd(vev, EVENT_ERROR_MALLOC) /\ vtx' = "exit"
          /\ UNCHANGED s2c
       \/ vsock = 0 /\ vtx' = "oops" /\ UNCHANGED <<vev, s2c>>
    /\ UNCHANGED <<conn, link, c2s, udcVars, ep, urb_queue, timer, sweep, vrx, veh>>

\* The queue is empty: wait_event_interruptible evaluates its condition, and
\* the thread sleeps if it is false until somebody wakes it up.
VudcTxWait ==
    /\ (vtx = "send" /\ tx_queue = <<>>) \/ vtx = "wait"
    /\ vtx' = IF tx_queue # <<>> \/ veh = "stop_tx" THEN "head" ELSE "asleep"
    /\ UNCHANGED <<netVars, udcVars, ep, vev, urb_queue, tx_queue, timer, sweep, vrx, veh>>

-------------------------------------------------------------------------------
(* The event worker. *)

VudcEhPop ==
    /\ veh = "idle" /\ vev.queued
    /\ vev' = GetEvent(vev)
    /\ veh' = IF "SHUTDOWN" \in vev.bits THEN "unlink" ELSE "reset"
    /\ UNCHANGED <<netVars, udcVars, ep, urb_queue, tx_queue, timer, sweep, vrx, vtx>>

\* vudc_shutdown: the socket is shut down ...
VudcEhUnlink ==
    /\ veh = "unlink"
    /\ IF vsock # 0 THEN ShutdownConnection(vsock) ELSE UNCHANGED netVars
    /\ veh' = "stop_rx"
    /\ UNCHANGED <<udcVars, ep, vev, urb_queue, tx_queue, timer, sweep, vrx, vtx>>

\* ... the threads are stopped, rx first ...
VudcEhStopRx ==
    /\ veh = "stop_rx" /\ vrx \in {"off", "exit", "gone"}
    /\ vrx' = "off" /\ veh' = "stop_tx"
    /\ WakeVtx
    /\ UNCHANGED <<netVars, udcVars, ep, vev, urb_queue, tx_queue, timer, sweep>>

\* ... and the socket is released.
VudcEhStopTx ==
    /\ veh = "stop_tx" /\ vtx \in {"off", "exit"}
    /\ vtx' = "off" /\ vsock' = 0 /\ veh' = "stop_activity"
    /\ UNCHANGED <<netVars, gadget, vstatus, connected, vstore, ep, vev, urb_queue, tx_queue,
                   timer, sweep, vrx>>

\* nuke: one request goes back to the gadget driver with the lock released.
Nuke == \E e \in Eps : ep[e].reqs > 0 /\ ep' = [ep EXCEPT ![e].reqs = @ - 1]
NoRequests == \A e \in Eps : ep[e].reqs = 0

\* Mutant of StopActivity: the URBs stay on the queue.
MutKeepUrbs(next) ==
    /\ UdcLockFree
    /\ \/ Nuke /\ UNCHANGED <<veh, urb_queue>>
       \/ NoRequests /\ veh' = next /\ UNCHANGED <<ep, urb_queue>>

\* stop_activity: the requests are given back, then, without releasing the lock
\* again, the URBs are freed.  The answers on tx_queue stay.
StopActivity(next) ==
    /\ UdcLockFree
    /\ \/ Nuke /\ UNCHANGED <<veh, urb_queue>>
       \/ NoRequests /\ urb_queue' = <<>> /\ veh' = next /\ UNCHANGED ep

\* The rest of vudc_shutdown; the driver's disconnect follows.
VudcEhStopActivity ==
    /\ veh = "stop_activity"
    /\ StopActivity("reset")
    /\ IF veh' = veh THEN UNCHANGED <<connected, vev>>
                     ELSE connected' = FALSE /\ vev' = UnsetEvent(vev, "SHUTDOWN")
    /\ UNCHANGED <<netVars, gadget, vstatus, vsock, vstore, tx_queue, timer, sweep, vrx, vtx>>

\* vudc_device_reset
VudcEhReset ==
    /\ veh = "reset" /\ "RESET" \in vev.bits
    /\ StopActivity("unset_reset")
    /\ vstatus' = IF veh' = veh THEN vstatus ELSE "AVAILABLE"
    /\ UNCHANGED <<netVars, gadget, vsock, connected, vstore, vev, tx_queue, timer, sweep, vrx, vtx>>

VudcEhNoReset ==
    /\ veh = "reset" /\ "RESET" \notin vev.bits
    /\ veh' = "unusable"
    /\ UNCHANGED <<netVars, udcVars, ep, vev, urb_queue, tx_queue, timer, sweep, vrx, vtx>>

VudcEhUnsetReset ==
    /\ veh = "unset_reset"
    /\ vev' = UnsetEvent(vev, "RESET")
    /\ veh' = "unusable"
    /\ UNCHANGED <<netVars, udcVars, ep, urb_queue, tx_queue, timer, sweep, vrx, vtx>>

\* vudc_device_unusable
VudcEhUnusable ==
    /\ veh = "unusable"
    /\ vstatus' = IF "UNUSABLE" \in vev.bits THEN "ERROR" ELSE vstatus
    /\ vev' = UnsetEvent(vev, "UNUSABLE")
    /\ veh' = "idle"
    /\ UNCHANGED <<netVars, gadget, vsock, connected, vstore, ep, urb_queue, tx_queue, timer,
                   sweep, vrx, vtx>>

-------------------------------------------------------------------------------
(* Userland: the usbip_sockfd file. *)

\* store_sockfd with the last connection set up, under both locks ...
VudcStoreSockfd ==
    /\ vstore = "none" /\ UdcLockFree
    /\ gadget.driver /\ gadget.pullup /\ ~connected /\ vstatus = "AVAILABLE"
    /\ vsock' = conn /\ vstore' = "start_rx"
    /\ UNCHANGED <<netVars, gadget, vstatus, connected, ep, vev, urb_queue, tx_queue, timer,
                   sweep, threadVars>>

\* ... then, with both released, the threads start one after the other ...
VudcStartRx ==
    /\ vstore = "start_rx"
    /\ vrx' = "head" /\ vstore' = "start_tx"
    /\ UNCHANGED <<netVars, gadget, vstatus, vsock, connected, ep, vev, urb_queue, tx_queue,
                   timer, sweep, vtx, veh>>
VudcStartTx ==
    /\ vstore = "start_tx"
    /\ vtx' = "head" /\ vstore' = "used"
    /\ UNCHANGED <<netVars, gadget, vstatus, vsock, connected, ep, vev, urb_queue, tx_queue,
                   timer, sweep, vrx, veh>>

\* ... and the controller becomes used, whatever happened meanwhile.
VudcStoreUsed ==
    /\ vstore = "used" /\ UdcLockFree
    /\ vstatus' = "USED" /\ connected' = TRUE /\ vstore' = "none"
    /\ timer' = StartTimer(timer)
    /\ UNCHANGED <<netVars, gadget, vsock, ep, vev, urb_queue, tx_queue, sweep, threadVars>>

\* store_sockfd with -1
VudcStoreDown ==
    /\ MayFail("server_down") /\ UdcLockFree
    /\ gadget.driver /\ gadget.pullup /\ connected /\ vstatus = "USED"
    /\ vev' = EventAdd(vev, EVENT_DOWN)
    /\ UNCHANGED <<netVars, udcVars, ep, urb_queue, tx_queue, timer, sweep, threadVars>>

-------------------------------------------------------------------------------
(* The gadget driver. *)

gadgetRest == <<netVars, vstatus, vsock, vstore, urb_queue, tx_queue, timer, sweep, threadVars>>

\* vgadget_udc_start
GadgetStart ==
    /\ UdcLockFree /\ ~gadget.driver
    /\ gadget' = [driver |-> TRUE, pullup |-> FALSE, unbinding |-> FALSE]
    /\ connected' = FALSE
    /\ UNCHANGED <<gadgetRest, ep, vev>>

\* vgadget_pullup(1), get_gadget_descs, usbip_start_eh: the event word is reset.
GadgetPullup ==
    /\ UdcLockFree /\ gadget.driver /\ ~gadget.pullup /\ ~gadget.unbinding
    /\ gadget' = [gadget EXCEPT !.pullup = TRUE]
    /\ vev' = [vev EXCEPT !.bits = {}]
    /\ UNCHANGED <<gadgetRest, connected, ep>>

\* vgadget_pullup(0): the last event is raised, and usbip_stop_eh waits ...
GadgetPulldown ==
    /\ MayFail("unbind") /\ UdcLockFree /\ gadget.pullup
    /\ gadget' = [gadget EXCEPT !.pullup = FALSE, !.unbinding = TRUE]
    /\ vev' = EventAdd(vev, EVENT_REMOVED)
    /\ UNCHANGED <<gadgetRest, connected, ep>>

\* ... until the worker has handled everything; vgadget_udc_stop follows.
GadgetStop ==
    /\ gadget.unbinding /\ UdcLockFree
    /\ vev.bits \subseteq {"BYE"}
    /\ gadget' = [driver |-> FALSE, pullup |-> FALSE, unbinding |-> FALSE]
    /\ UNCHANGED <<gadgetRest, connected, ep, vev>>

SetEp(e, r) == ep' = [ep EXCEPT ![e] = r] /\ UNCHANGED <<gadgetRest, gadget, connected, vev>>

\* vep_enable, vep_disable (whose nuke gives the requests back)
VepEnable(e) ==
    /\ UdcLockFree /\ gadget.driver /\ ~ep[e].desc
    /\ \E isoc \in BOOLEAN :
          SetEp(e, [ep[e] EXCEPT !.desc = TRUE, !.isoc = isoc, !.halted = FALSE, !.wedged = FALSE])
VepDisable(e) ==
    /\ UdcLockFree /\ ep[e].desc
    /\ SetEp(e, [ep[e] EXCEPT !.desc = FALSE, !.reqs = 0])

\* vep_queue, vep_dequeue.  A gadget driver does not queue the requests again
\* that come back with ESHUTDOWN.
VepQueue(e) ==
    /\ UdcLockFree /\ gadget.driver /\ ep[e].reqs < MaxReq
    /\ veh \notin {"stop_activity", "reset"}
    /\ SetEp(e, [ep[e] EXCEPT !.reqs = @ + 1])
VepDequeue(e) ==
    /\ UdcLockFree /\ gadget.driver /\ ep[e].reqs > 0
    /\ SetEp(e, [ep[e] EXCEPT !.reqs = @ - 1])

\* vep_set_halt_and_wedge: an IN endpoint with requests queued is not halted.
VepSetHalt(e) ==
    /\ UdcLockFree /\ gadget.driver
    /\ \/ SetEp(e, [ep[e] EXCEPT !.halted = FALSE, !.wedged = FALSE])
       \/ /\ ~(e \in InEps /\ ep[e].desc /\ ep[e].reqs > 0)
          /\ \E wedged \in BOOLEAN :
                SetEp(e, [ep[e] EXCEPT !.halted = TRUE, !.wedged = @ \/ wedged])

-------------------------------------------------------------------------------

VudcTimer ==
    \/ SweepStart \/ SweepLost \/ SweepUnlinked \/ SweepSkip \/ SweepSetup \/ SweepSetupDone
    \/ SweepRefuse \/ SweepTransfer \/ TransferRound \/ TransferGivenBack \/ SweepEnd
VudcRx ==
    \/ VudcRxHead \/ VudcRxFailed \/ VudcRxBusy \/ VudcRxUnknown \/ VudcRxCmdSubmit
    \/ VudcRxCmdUnlink
VudcTx == VudcTxHead \/ VudcTxSend \/ VudcTxWait
VudcEh ==
    \/ VudcEhPop \/ VudcEhUnlink \/ VudcEhStopRx \/ VudcEhStopTx \/ VudcEhStopActivity
    \/ VudcEhReset \/ VudcEhNoReset \/ VudcEhUnsetReset \/ VudcEhUnusable
VudcStore == VudcStartRx \/ VudcStartTx \/ VudcStoreUsed
Gadget ==
    \/ GadgetStart \/ GadgetPullup \/ GadgetPulldown \/ GadgetStop
    \/ \E e \in DataEps : VepEnable(e) \/ VepDisable(e)
    \/ \E e \in Eps : VepQueue(e) \/ VepDequeue(e) \/ VepSetHalt(e)

VudcStep == VudcTimer \/ VudcRx \/ VudcTx \/ VudcEh \/ VudcStore \/ VudcStoreDown \/ Gadget
VudcNext == VudcStep \/ VudcStoreSockfd

\* Anything a client, its kernel and the network may do, as the controller sees
\* it: the far end of the streams changes, the controller's own state does not.
VudcNetTypeOK ==
    /\ conn \in Nat /\ link \in {"open", "down"}
    /\ c2s \in Seq(VudcCmd) /\ s2c \in Seq(TxItem)
VudcClient ==
    /\ VudcNetTypeOK'
    /\ UNCHANGED vudcVars

\* The controller alone, with an arbitrary client and gadget driver.
VudcSpec == NetInit /\ VudcInit /\ [][VudcNext \/ VudcClient]_<<netVars, vudcVars>>

-------------------------------------------------------------------------------
(* Properties of the controller, whatever the client and the gadget driver do. *)

\* No kick is lost: while a URB waits on urb_queue the timer is running and is
\* either armed or in the middle of a sweep, however v_kick_timer calls and the
\* end of a sweep interleave.  Otherwise the URB would never be looked at again.
TimerCoversQueue ==
    urb_queue # <<>> =>
        \/ sweep.pc = "oops"
        \/ timer.state = "RUNNING" /\ (timer.armed \/ sweep.pc # "off")

\* A controller that store_sockfd would accept again carries no URB and no
\* socket of an earlier connection.  (vudc_shutdown leaves tx_queue as it is, and
\* a vudc_tx that started after vudc_shutdown looked for it stays too.)
VudcExportIsClean ==
    /\ gadget.driver /\ gadget.pullup /\ ~connected /\ vstatus = "AVAILABLE" /\ vstore = "none"
    => urb_queue = <<>> /\ vsock = 0

\* A wedged endpoint stays halted until the gadget driver itself clears it:
\* neither a CLEAR_FEATURE of the client nor a new setup undoes a wedge.
WedgeHolds == \A e \in DataEps : ep[e].wedged => ep[e].halted

-------------------------------------------------------------------------------
(* Liveness. *)

Crashed == sweep.pc = "oops" \/ vtx = "oops"

\* The timer keeps firing and the gadget driver's callbacks return.  The
\* threads, the worker and a write that has begun go on; whoever of them waits
\* for udc->lock gets it (its spinlock is fair) though the timer takes it again
\* and again: strong fairness, of which it is enough that one of them moves.
VudcFairness ==
    /\ WF_<<netVars, vudcVars>>(VudcTimer)
    /\ SF_<<netVars, vudcVars>>(VudcRx \/ VudcTx \/ VudcEh \/ VudcStore)

\* An unlink request is not forgotten: once vudc_rx has taken it, its answer
\* leaves the queues, through the timer and vudc_tx, or the connection ends.
UnlinkPending(s) ==
    \/ \E i \in DOMAIN urb_queue : urb_queue[i].unlinked /\ urb_queue[i].seqnum = s
    \/ \E i \in DOMAIN tx_queue : tx_queue[i] = [type |-> "UNLINK", seqnum |-> s]

\* A connection that is down does not stay with the controller, unless vudc_rx
\* left over an unknown command without telling anyone, and its teardown ends:
\* vudc_shutdown never waits forever for a thread that sleeps or receives, and
\* stop_activity gets the lock from the timer.
VudcLetsGo ==
    link = "down" /\ vsock = conn /\ conn > 0
        ~> Crashed \/ vrx = "gone" \/ (vsock # conn /\ "SHUTDOWN" \notin vev.bits)

===============================================================================
