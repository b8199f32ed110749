--------------------------------- MODULE Stub ---------------------------------
(***************************************************************************)
(* A USB device exported by the server (stub_dev.c, stub_rx.c, stub_tx.c,  *)
(* stub_main.c): the stub_priv lists, the stub_rx and stub_tx threads, the *)
(* completion handler called by the host controller, and the event worker  *)
(* that ends a connection.  The host controller and its driver are         *)
(* external: hw is the set of URBs they own.                               *)
(*                                                                         *)
(* Grain of atomicity.  A section under priv_lock is one step.  A          *)
(* CMD_SUBMIT is handled in one step: until usb_submit_urb returns only    *)
(* stub_rx knows the new URB.  A CMD_UNLINK that finds its target takes    *)
(* two, since usb_unlink_urb is called after priv_lock is released.        *)
(*                                                                         *)
(* A thread runs from kthread_get_run's wake_up_process on, and the worker *)
(* can stop it only when store_sockfd has stored the result in tcp_rx or   *)
(* tcp_tx: the two pointers follow from where the threads and the writer   *)
(* of the file are (SdevTcpRx, SdevTcpTx).                                 *)
(***************************************************************************)
EXTENDS Naturals, Sequences, SequencesExt, UsbipNet, UsbipEvent

VARIABLES
    sstatus,    \* sdev->ud.status
    ssock,      \* sdev->ud.tcp_socket: its connection, 0 for NULL
    sstore,     \* where the write to the usbip_sockfd file is
    smissed,    \* history: threads that a shutdown did not find, as they were being started
    sev,        \* sdev->ud.event and its node on event_list
    priv_init,  \* stub_priv of URBs that have not completed, oldest first
    done_tx,    \* sdev->priv_tx: stub_priv of completed URBs, oldest first
    priv_free,  \* sdev->priv_free: stub_priv whose result was sent
    ret_unlink, \* sdev->unlink_tx: unlink results to send, oldest first
    hw,         \* URBs in the host controller, by the seqnum they came with
    cancelled,  \* URBs of hw for which usb_unlink_urb was called
    torn,       \* URBs submitted although their payload never arrived
    srx,        \* where the stub_rx thread is
    srx_priv,   \* the stub_priv whose URB stub_rx is about to unlink
    stx,        \* where the stub_tx thread is
    seh         \* where the event worker is

storeVars == <<sstore, smissed>>
sdevVars == <<sstatus, ssock, storeVars>>
stubVars == <<sdevVars, sev, priv_init, done_tx, priv_free, ret_unlink, hw, cancelled,
              torn, srx, srx_priv, stx, seh>>
serverVars == <<netVars, stubVars>>

\* struct stub_priv.  id is its identity: the seqnum of the CMD_SUBMIT; seqnum
\* is overwritten by a CMD_UNLINK; urb says whether priv->urb is non-NULL.
StubPriv == [id : Nat, seqnum : Nat, unlinking : BOOLEAN, urb : BOOLEAN]
NewPriv(s, urb) == [id |-> s, seqnum |-> s, unlinking |-> FALSE, urb |-> urb]

StubTypeOK ==
    /\ sstatus \in {"AVAILABLE", "USED", "ERROR"}
    /\ ssock \in Nat
    /\ sstore \in {"idle", "start_rx", "start_tx", "set_tx", "used"}
    /\ smissed \in SUBSET {"rx", "tx"}
    /\ sev \in EventWord
    /\ priv_init \in Seq(StubPriv) /\ done_tx \in Seq(StubPriv)
    /\ priv_free \in SUBSET StubPriv
    /\ ret_unlink \in Seq([seqnum : Nat, status : Status])
    /\ hw \in SUBSET Nat /\ cancelled \in SUBSET hw /\ torn \in SUBSET Nat
    /\ srx \in {"off", "head", "recv", "unlink_urb", "exit"}
    /\ srx_priv \in Nat
    /\ stx \in {"off", "head", "submit", "unlink", "wait", "asleep", "exit"}
    /\ seh \in {"idle", "unlink", "stop_rx", "stop_tx", "cleanup", "free_unlink", "reset",
                "unset_reset", "unusable", "oops"}

StubInit ==
    /\ sstatus = "AVAILABLE" /\ ssock = 0
    /\ sstore = "idle" /\ smissed = {}
    /\ sev = NoEvent
    /\ priv_init = <<>> /\ done_tx = <<>> /\ priv_free = {} /\ ret_unlink = <<>>
    /\ hw = {} /\ cancelled = {} /\ torn = {}
    /\ srx = "off" /\ srx_priv = 0 /\ stx = "off"
    /\ seh = "idle"

\* sdev->ud.tcp_rx and tcp_tx are not NULL: the thread was started and its
\* starter has got to the next statement.
SdevTcpRx == srx # "off" /\ sstore # "start_tx"
SdevTcpTx == stx # "off" /\ sstore # "set_tx"

\* kthread_should_stop of the two threads.
RxShouldStop == seh = "stop_rx" /\ SdevTcpRx
TxShouldStop == seh = "stop_tx" /\ SdevTcpTx

Ids(list) == {list[i].id : i \in DOMAIN list}

\* Mutant of WakeTx: the wake_up is forgotten.
MutNoWake == UNCHANGED stx

\* wake_up(&sdev->tx_waitq): a sleeping stub_tx evaluates its condition again.
WakeTx == stx' = IF stx = "asleep" THEN "wait" ELSE stx

-------------------------------------------------------------------------------
(* The stub_rx thread. *)

\* stub_rx_loop's two tests.
StubRxHead ==
    /\ srx = "head"
    /\ srx' = IF RxShouldStop \/ EventHappened(sev) THEN "exit" ELSE "recv"
    /\ UNCHANGED <<netVars, sdevVars, sev, priv_init, done_tx, priv_free, ret_unlink,
                   hw, cancelled, torn, srx_priv, stx, seh>>

\* Mutant of StubRxFailed: a short header raises no event.
MutShortHeaderIgnored ==
    /\ srx = "recv"
    /\ Broken(ssock)
    /\ srx' = "exit"
    /\ UNCHANGED <<netVars, sdevVars, sev, priv_init, done_tx, priv_free, ret_unlink, hw,
                   cancelled, torn, srx_priv, stx, seh>>

\* stub_rx_pdu could not receive a header.
StubRxFailed ==
    /\ srx = "recv"
    /\ Broken(ssock)
    /\ sev' = EventAdd(sev, EVENT_DOWN)
    /\ srx' = "head"
    /\ UNCHANGED <<netVars, sdevVars, priv_init, done_tx, priv_free, ret_unlink, hw,
                   cancelled, torn, srx_priv, stx, seh>>

RecvCmd(cmd) ==
    /\ srx = "recv"
    /\ CanRecv(ssock, c2s)
    /\ Head(c2s).cmd = cmd
    /\ c2s' = Tail(c2s)
    /\ UNCHANGED <<conn, link, s2c>>

\* valid_request: store_sockfd says SDEV_ST_USED only after it has started
\* stub_rx, so a first request can come too early.
StubRxInvalid ==
    /\ RecvCmd("CMD_SUBMIT") \/ RecvCmd("CMD_UNLINK")
    /\ sstatus # "USED"
    /\ sev' = EventAdd(sev, EVENT_DOWN)
    /\ srx' = "head"
    /\ UNCHANGED <<sdevVars, priv_init, done_tx, priv_free, ret_unlink, hw, cancelled,
                   torn, srx_priv, stx, seh>>

\* stub_recv_cmd_submit.  The stub_priv is on priv_init from the start; every
\* failure leaves it there for the error handler.  usbip_recv_xbuff returns 0
\* when the peer closes in the middle of a payload, which its caller takes for
\* success.
StubRxCmdSubmit ==
    /\ RecvCmd("CMD_SUBMIT")
    /\ sstatus = "USED"
    /\ LET s == Head(c2s).seqnum
           queued(urb) == priv_init' = Append(priv_init, NewPriv(s, urb))
           submitted == hw' = hw \cup {s}
           event(mask) == sev' = EventAdd(sev, mask)
       IN \/ /\ queued(TRUE) /\ submitted
             /\ UNCHANGED <<sev, torn>>
          \/ /\ MayFail("server_alloc")                     \* stub_priv_alloc
             /\ event(EVENT_ERROR_MALLOC)
             /\ UNCHANGED <<priv_init, hw, torn>>
          \/ /\ MayFail("server_alloc")                     \* usb_alloc_urb, or a later allocation
             /\ \E urb \in BOOLEAN : queued(urb)
             /\ event(EVENT_ERROR_MALLOC)
             /\ UNCHANGED <<hw, torn>>
          \/ /\ MayFail("server_cut") /\ Broken(ssock)     \* receive error
             /\ queued(TRUE)
             /\ event(EVENT_DOWN)
             /\ UNCHANGED <<hw, torn>>
          \/ /\ MayFail("server_cut") /\ Broken(ssock)     \* orderly close
             /\ queued(TRUE) /\ submitted
             /\ torn' = torn \cup {s}
             /\ event(EVENT_DOWN)
          \/ /\ MayFail("submit")                      \* usb_submit_urb
             /\ queued(TRUE)
             /\ event(EVENT_DOWN)
             /\ UNCHANGED <<hw, torn>>
    /\ srx' = "head"
    /\ UNCHANGED <<sdevVars, done_tx, priv_free, ret_unlink, cancelled, srx_priv, stx,
                   seh>>

\* Mutant of EnqueueRetUnlink: only a URB that was cancelled is reported.
MutReportCancelledOnly(s, status) ==
    /\ ret_unlink' = IF status = "DONE" THEN ret_unlink
                     ELSE Append(ret_unlink, [seqnum |-> s, status |-> status])
    /\ UNCHANGED sev

\* stub_enqueue_ret_unlink
EnqueueRetUnlink(s, status) ==
    \/ /\ ret_unlink' = Append(ret_unlink, [seqnum |-> s, status |-> status])
       /\ UNCHANGED sev
    \/ /\ MayFail("server_alloc")
       /\ sev' = EventAdd(sev, EVENT_ERROR_MALLOC)
       /\ UNCHANGED ret_unlink

\* stub_recv_cmd_unlink, under priv_lock: a target on priv_init is marked and
\* takes the seqnum of the unlink request ...
StubRxCmdUnlinkFound ==
    /\ RecvCmd("CMD_UNLINK")
    /\ sstatus = "USED"
    /\ \E i \in DOMAIN priv_init :
          /\ priv_init[i].seqnum = Head(c2s).target
          /\ \A j \in 1 .. i - 1 : priv_init[j].seqnum # Head(c2s).target
          /\ priv_init' = [priv_init EXCEPT ![i].unlinking = TRUE,
                                            ![i].seqnum = Head(c2s).seqnum]
          /\ srx_priv' = priv_init[i].id
    /\ srx' = "unlink_urb"
    /\ UNCHANGED <<sdevVars, sev, done_tx, priv_free, ret_unlink, hw, cancelled, torn,
                   stx, seh>>

\* ... otherwise the answer is queued at once (stub_tx is not woken up).
StubRxCmdUnlinkMissed ==
    /\ RecvCmd("CMD_UNLINK")
    /\ sstatus = "USED"
    /\ \A i \in DOMAIN priv_init : priv_init[i].seqnum # Head(c2s).target
    /\ EnqueueRetUnlink(Head(c2s).seqnum, "DONE")
    /\ srx' = "head"
    /\ UNCHANGED <<sdevVars, priv_init, done_tx, priv_free, hw, cancelled, torn,
                   srx_priv, stx, seh>>

\* Mutants of StubRxUnlinkUrb: a URB that has completed counts as cancelled;
\* the result is queued here instead of by stub_complete.
MutCancelCompleted ==
    /\ srx = "unlink_urb"
    /\ cancelled' = cancelled \cup {srx_priv}
    /\ srx' = "head" /\ srx_priv' = 0
    /\ UNCHANGED <<netVars, sdevVars, sev, priv_init, done_tx, priv_free, ret_unlink,
                   hw, torn, stx, seh>>
MutAnswerBeforeCompletion ==
    /\ srx = "unlink_urb"
    /\ cancelled' = cancelled \cup ({srx_priv} \cap hw)
    /\ \E i \in DOMAIN priv_init :
          /\ priv_init[i].id = srx_priv
          /\ ret_unlink' = Append(ret_unlink, [seqnum |-> priv_init[i].seqnum,
                                               status |-> "ECONNRESET"])
    /\ srx' = "head" /\ srx_priv' = 0
    /\ UNCHANGED <<netVars, sdevVars, sev, priv_init, done_tx, priv_free, hw, torn, stx, seh>>

\* usb_unlink_urb(priv->urb), without priv_lock: it cancels a URB that is still
\* in the host controller and fails for one that is not.
StubRxUnlinkUrb ==
    /\ srx = "unlink_urb"
    /\ cancelled' = cancelled \cup ({srx_priv} \cap hw)
    /\ srx' = "head" /\ srx_priv' = 0
    /\ UNCHANGED <<netVars, sdevVars, sev, priv_init, done_tx, priv_free, ret_unlink,
                   hw, torn, stx, seh>>

-------------------------------------------------------------------------------
(* The host controller completes a URB: stub_complete. *)

StubComplete(id) ==
    /\ id \in hw
    /\ hw' = hw \ {id} /\ cancelled' = cancelled \ {id}
    /\ \E i \in DOMAIN priv_init :
          /\ priv_init[i].id = id
          /\ IF ssock = 0
             THEN UNCHANGED <<sev, priv_init, done_tx, ret_unlink>>
             ELSE /\ priv_init' = RemoveAt(priv_init, i)
                  /\ IF priv_init[i].unlinking
                     THEN /\ \E status \in IF id \in cancelled THEN Status ELSE {"DONE"} :
                                EnqueueRetUnlink(priv_init[i].seqnum, status)
                          /\ UNCHANGED done_tx
                     ELSE /\ done_tx' = Append(done_tx, priv_init[i])
                          /\ UNCHANGED <<sev, ret_unlink>>
    /\ WakeTx
    /\ UNCHANGED <<netVars, sdevVars, priv_free, torn, srx, srx_priv, seh>>

-------------------------------------------------------------------------------
(* The stub_tx thread. *)

\* stub_tx_loop's two tests.
StubTxHead ==
    /\ stx = "head"
    /\ stx' = IF TxShouldStop \/ EventHappened(sev) THEN "exit" ELSE "submit"
    /\ UNCHANGED <<netVars, sdevVars, sev, priv_init, done_tx, priv_free, ret_unlink,
                   hw, cancelled, torn, srx, srx_priv, seh>>

\* Mutant of SendRet: a PDU is sent again after a partial send.
MutSendTwice(pdu) ==
    /\ IF CanSend(ssock) THEN s2c' = s2c \o <<pdu, pdu>> ELSE UNCHANGED s2c
    /\ UNCHANGED <<conn, link, c2s>>

SendRet(pdu) ==
    /\ IF CanSend(ssock) THEN s2c' = Append(s2c, pdu) ELSE UNCHANGED s2c
    /\ UNCHANGED <<conn, link, c2s>>

\* stub_send_ret_submit: one result.
StubTxRetSubmit ==
    /\ stx = "submit"
    /\ done_tx # <<>>
    /\ done_tx' = Tail(done_tx)
    /\ priv_free' = priv_free \cup {Head(done_tx)}
    /\ SendRet(RetSubmit(Head(done_tx).seqnum))
    /\ UNCHANGED <<sdevVars, sev, priv_init, ret_unlink, hw, cancelled, torn, srx,
                   srx_priv, stx, seh>>

\* stub_send_ret_submit: priv_tx is empty, what was sent is freed.
StubTxSubmitsDone ==
    /\ stx = "submit"
    /\ done_tx = <<>>
    /\ priv_free' = {}
    /\ stx' = "unlink"
    /\ UNCHANGED <<netVars, sdevVars, sev, priv_init, done_tx, ret_unlink, hw,
                   cancelled, torn, srx, srx_priv, seh>>

\* stub_send_ret_unlink: one result.
StubTxRetUnlink ==
    /\ stx = "unlink"
    /\ ret_unlink # <<>>
    /\ ret_unlink' = Tail(ret_unlink)
    /\ SendRet(RetUnlink(Head(ret_unlink).seqnum, Head(ret_unlink).status))
    /\ UNCHANGED <<sdevVars, sev, priv_init, done_tx, priv_free, hw, cancelled, torn,
                   srx, srx_priv, stx, seh>>

\* A send fails, or an allocation for it does: the entry was dequeued before.
StubTxFailed ==
    /\ \/ Broken(ssock) /\ sev' = EventAdd(sev, EVENT_DOWN)
       \/ MayFail("server_alloc") /\ stx = "submit" /\ sev' = EventAdd(sev, EVENT_ERROR_MALLOC)
    /\ \/ /\ stx = "submit" /\ done_tx # <<>>
          /\ done_tx' = Tail(done_tx)
          /\ priv_free' = priv_free \cup {Head(done_tx)}
          /\ UNCHANGED ret_unlink
       \/ /\ stx = "unlink" /\ ret_unlink # <<>>
          /\ ret_unlink' = Tail(ret_unlink)
          /\ UNCHANGED <<done_tx, priv_free>>
    /\ stx' = "exit"
    /\ UNCHANGED <<netVars, sdevVars, priv_init, hw, cancelled, torn, srx, srx_priv,
                   seh>>

\* stub_send_ret_unlink: unlink_tx is empty.
StubTxUnlinksDone ==
    /\ stx = "unlink"
    /\ ret_unlink = <<>>
    /\ stx' = "wait"
    /\ UNCHANGED <<netVars, sdevVars, sev, priv_init, done_tx, priv_free, ret_unlink,
                   hw, cancelled, torn, srx, srx_priv, seh>>

\* wait_event_interruptible evaluates its condition, and sleeps if it is false
\* until somebody calls wake_up or kthread_stop.
StubTxWait ==
    /\ stx = "wait"
    /\ stx' = IF done_tx # <<>> \/ ret_unlink # <<>> \/ TxShouldStop
              THEN "head" ELSE "asleep"
    /\ UNCHANGED <<netVars, sdevVars, sev, priv_init, done_tx, priv_free, ret_unlink,
                   hw, cancelled, torn, srx, srx_priv, seh>>


-------------------------------------------------------------------------------
(* The event worker: event_handler with the device's eh_ops. *)

\* get_event; the worker goes on to the first operation whose bit is set.
StubEhPop ==
    /\ seh = "idle" /\ sev.queued
    /\ sev' = GetEvent(sev)
    /\ seh' = IF "SHUTDOWN" \in sev.bits THEN "unlink" ELSE "reset"
    /\ UNCHANGED <<netVars, sdevVars, priv_init, done_tx, priv_free, ret_unlink, hw,
                   cancelled, torn, srx, srx_priv, stx>>

\* stub_shutdown_connection: usbip_trx_ops->unlink shuts the socket down.
StubEhUnlinkSocket ==
    /\ seh = "unlink"
    /\ IF ssock # 0 THEN ShutdownConnection(ssock) ELSE UNCHANGED netVars
    /\ seh' = "stop_rx"
    /\ UNCHANGED <<sdevVars, sev, priv_init, done_tx, priv_free, ret_unlink, hw, cancelled,
                   torn, srx, srx_priv, stx>>

\* kthread_stop_put(tcp_rx) returns once the thread has left its loop.  With
\* tcp_rx NULL there is nothing to stop, be the thread about to run or running.
StubEhStopRx ==
    /\ seh = "stop_rx"
    /\ SdevTcpRx => srx = "exit"
    /\ srx' = IF SdevTcpRx THEN "off" ELSE srx
    /\ smissed' = IF sstore \in {"start_rx", "start_tx"} THEN smissed \cup {"rx"}
                  ELSE smissed \ {"rx"}
    /\ seh' = "stop_tx"
    /\ UNCHANGED <<netVars, sstatus, ssock, sstore, sev, priv_init, done_tx, priv_free,
                   ret_unlink, hw, cancelled, torn, srx_priv, stx>>

\* The kthread_stop of tcp_tx wakes the thread up ...
StubEhKickTx ==
    /\ TxShouldStop
    /\ stx = "asleep"
    /\ WakeTx
    /\ UNCHANGED <<netVars, sdevVars, sev, priv_init, done_tx, priv_free, ret_unlink, hw,
                   cancelled, torn, srx, srx_priv, seh>>

\* ... and returns once it has left its loop; then the socket is released.
StubEhStopTx ==
    /\ seh = "stop_tx"
    /\ SdevTcpTx => stx = "exit"
    /\ stx' = IF SdevTcpTx THEN "off" ELSE stx
    /\ smissed' = IF sstore \in {"start_rx", "start_tx", "set_tx"} THEN smissed \cup {"tx"}
                  ELSE smissed \ {"tx"}
    /\ ssock' = 0
    /\ seh' = "cleanup"
    /\ UNCHANGED <<netVars, sstatus, sstore, sev, priv_init, done_tx, priv_free, ret_unlink,
                   hw, cancelled, torn, srx, srx_priv>>

\* Mutant of StubEhCleanup: the URBs are not killed before they are freed.
MutCleanupNoKill ==
    /\ seh = "cleanup"
    /\ priv_init' = <<>> /\ done_tx' = <<>> /\ priv_free' = {}
    /\ seh' = "free_unlink"
    /\ UNCHANGED <<netVars, sdevVars, sev, ret_unlink, hw, cancelled, torn, srx, srx_priv, stx>>

\* stub_device_cleanup_urbs, one stub_priv_pop: the URB is killed and freed.
\* Its buffers are freed through priv->urb, whatever that is.
StubEhCleanup ==
    /\ seh = "cleanup"
    /\ \/ /\ priv_init # <<>>
          /\ priv_init' = Tail(priv_init)
          /\ hw' = hw \ {Head(priv_init).id}
          /\ cancelled' = cancelled \ {Head(priv_init).id}
          /\ seh' = IF Head(priv_init).urb THEN seh ELSE "oops"
          /\ UNCHANGED <<done_tx, priv_free>>
       \/ /\ priv_init = <<>> /\ done_tx # <<>>
          /\ done_tx' = Tail(done_tx)
          /\ UNCHANGED <<priv_init, hw, cancelled, seh, priv_free>>
       \/ /\ priv_init = <<>> /\ done_tx = <<>> /\ priv_free # {}
          /\ \E p \in priv_free : priv_free' = priv_free \ {p}
          /\ UNCHANGED <<priv_init, hw, cancelled, seh, done_tx>>
       \/ /\ priv_init = <<>> /\ done_tx = <<>> /\ priv_free = {}
          /\ seh' = "free_unlink"
          /\ UNCHANGED <<priv_init, hw, cancelled, done_tx, priv_free>>
    /\ UNCHANGED <<netVars, sdevVars, sev, ret_unlink, torn, srx, srx_priv, stx>>

\* The unsent unlink results go; the shutdown is over and its bit is cleared.
StubEhFreeUnlink ==
    /\ seh = "free_unlink"
    /\ ret_unlink' = <<>>
    /\ sev' = UnsetEvent(sev, "SHUTDOWN")
    /\ seh' = "reset"
    /\ UNCHANGED <<netVars, sdevVars, priv_init, done_tx, priv_free, hw, cancelled, torn,
                   srx, srx_priv, stx>>

\* stub_device_reset: usb_reset_device may fail.
StubEhReset ==
    /\ seh = "reset"
    /\ IF "RESET" \in sev.bits
       THEN /\ \/ sstatus' = "AVAILABLE"
               \/ MayFail("reset") /\ sstatus' = "ERROR"
            /\ seh' = "unset_reset"
       ELSE seh' = "unusable" /\ UNCHANGED sstatus
    /\ UNCHANGED <<netVars, ssock, storeVars, sev, priv_init, done_tx, priv_free, ret_unlink, hw,
                   cancelled, torn, srx, srx_priv, stx>>

StubEhUnsetReset ==
    /\ seh = "unset_reset"
    /\ sev' = UnsetEvent(sev, "RESET")
    /\ seh' = "unusable"
    /\ UNCHANGED <<netVars, sdevVars, priv_init, done_tx, priv_free, ret_unlink, hw,
                   cancelled, torn, srx, srx_priv, stx>>

\* stub_device_unusable
StubEhUnusable ==
    /\ seh = "unusable"
    /\ sstatus' = IF "UNUSABLE" \in sev.bits THEN "ERROR" ELSE sstatus
    /\ sev' = UnsetEvent(sev, "UNUSABLE")
    /\ seh' = "idle"
    /\ UNCHANGED <<netVars, ssock, storeVars, priv_init, done_tx, priv_free, ret_unlink, hw,
                   cancelled, torn, srx, srx_priv, stx>>

-------------------------------------------------------------------------------
(* Userland: the usbip_sockfd file. *)

\* store_sockfd with the last connection set up: refused unless the device is
\* available, then the socket is linked under ud.lock (one writer at a time).
StubStoreSockfd ==
    /\ sstatus = "AVAILABLE" /\ sstore = "idle"
    /\ ssock' = conn
    /\ sstore' = "start_rx"
    /\ smissed' = {}
    /\ UNCHANGED <<netVars, sstatus, sev, priv_init, done_tx, priv_free, ret_unlink, hw,
                   cancelled, torn, srx, srx_priv, stx, seh>>

\* The threads start without it, one after the other.  (Should an older thread
\* still run, the model follows the new one.)  First stub_rx ...
StubStartRx ==
    /\ sstore = "start_rx"
    /\ srx' = "head"
    /\ sstore' = "start_tx"
    /\ UNCHANGED <<netVars, sstatus, ssock, smissed, sev, priv_init, done_tx, priv_free,
                   ret_unlink, hw, cancelled, torn, srx_priv, stx, seh>>

\* ... then tcp_rx is stored and stub_tx starts ...
StubStartTx ==
    /\ sstore = "start_tx"
    /\ stx' = "head"
    /\ sstore' = "set_tx"
    /\ UNCHANGED <<netVars, sstatus, ssock, smissed, sev, priv_init, done_tx, priv_free,
                   ret_unlink, hw, cancelled, torn, srx, srx_priv, seh>>

\* ... and tcp_tx is stored.
StubSetTx ==
    /\ sstore = "set_tx"
    /\ sstore' = "used"
    /\ UNCHANGED <<netVars, sstatus, ssock, smissed, sev, priv_init, done_tx, priv_free,
                   ret_unlink, hw, cancelled, torn, srx, srx_priv, stx, seh>>

\* Only then does the device become used, whatever has happened meanwhile.
StubStoreUsed ==
    /\ sstore = "used"
    /\ sstatus' = "USED"
    /\ sstore' = "idle"
    /\ UNCHANGED <<netVars, ssock, smissed, sev, priv_init, done_tx, priv_free, ret_unlink, hw,
                   cancelled, torn, srx, srx_priv, stx, seh>>

\* store_sockfd with -1 (usbip unbind, or the daemon ending an export).
StubStoreDown ==
    /\ MayFail("server_down")
    /\ sstatus = "USED"
    /\ sev' = EventAdd(sev, EVENT_DOWN)
    /\ UNCHANGED <<netVars, sdevVars, priv_init, done_tx, priv_free, ret_unlink, hw,
                   cancelled, torn, srx, srx_priv, stx, seh>>

-------------------------------------------------------------------------------

StubRx ==
    \/ StubRxHead \/ StubRxFailed \/ StubRxInvalid \/ StubRxCmdSubmit
    \/ StubRxCmdUnlinkFound \/ StubRxCmdUnlinkMissed \/ StubRxUnlinkUrb
StubTx ==
    \/ StubTxHead \/ StubTxRetSubmit \/ StubTxSubmitsDone \/ StubTxRetUnlink
    \/ StubTxFailed \/ StubTxUnlinksDone \/ StubTxWait
StubEh ==
    \/ StubEhPop \/ StubEhUnlinkSocket \/ StubEhStopRx \/ StubEhKickTx \/ StubEhStopTx
    \/ StubEhCleanup \/ StubEhFreeUnlink \/ StubEhReset \/ StubEhUnsetReset \/ StubEhUnusable
StubStoreGoesOn == StubStartRx \/ StubStartTx \/ StubSetTx \/ StubStoreUsed
StubUser == StubStoreGoesOn \/ StubStoreDown

StubNext ==
    \/ StubRx \/ StubTx \/ StubEh \/ StubUser \/ StubStoreSockfd
    \/ \E id \in hw : StubComplete(id)

\* Anything a client, its kernel and the network may do, as the server sees it:
\* the far end of the streams changes, the server's own state does not.
Client ==
    /\ NetTypeOK'
    /\ UNCHANGED stubVars

\* The exported device alone, with an arbitrary client.
StubSpec == NetInit /\ StubInit /\ [][StubNext \/ Client]_serverVars


-------------------------------------------------------------------------------
(* Properties of the server, whatever the client sends.                       *)

\* A URB in the host controller has a live stub_priv: urb->context, which
\* stub_complete dereferences, is never freed memory, and no teardown leaves a
\* URB behind that completes into a later connection.
HwUrbHasPriv ==
    \A id \in hw : \E i \in DOMAIN priv_init : priv_init[i].id = id /\ priv_init[i].urb

\* A device that may be exported again carries nothing over from an earlier
\* connection: no stub_priv, no URB in flight, no result, no socket, and no
\* thread but one that was being started when the worker looked for it:
\* stub_shutdown_connection takes tcp_rx or tcp_tx NULL for no thread, and
\* store_sockfd may say SDEV_ST_USED before the reset says SDEV_ST_AVAILABLE.
AvailableIsClean ==
    sstatus = "AVAILABLE" /\ sstore = "idle" =>
        /\ priv_init = <<>> /\ done_tx = <<>> /\ priv_free = {} /\ ret_unlink = <<>>
        /\ hw = {}
        /\ ssock = 0
        /\ srx = "off" \/ "rx" \in smissed
        /\ stx = "off" \/ "tx" \in smissed

-------------------------------------------------------------------------------
(* Liveness of the server: its threads and the event worker keep running and  *)
(* a write to the usbip_sockfd file that has begun goes on.                   *)

StubFairness ==
    /\ WF_serverVars(StubTx) /\ WF_serverVars(StubRx) /\ WF_serverVars(StubEh)
    /\ WF_serverVars(StubStoreGoesOn)

\* A teardown of the server always ends: the worker's kthread_stop never waits
\* forever for a stub_rx that waits for the socket or a stub_tx that sleeps.
\* (The one exception is the worker's oops on a stub_priv that got no URB.)
ServerTeardownEnds ==
    "SHUTDOWN" \in sev.bits ~> "SHUTDOWN" \notin sev.bits \/ seh = "oops"

\* A connection that is down does not stay with the exported device, whichever
\* thread was doing what when it went down.
ServerLetsGo ==
    link = "down" /\ ssock = conn /\ conn > 0 ~> ssock # conn \/ seh = "oops"

===============================================================================
