------------------------------ MODULE LibusbStub ------------------------------
(***************************************************************************)
(* The portable server (libusb/stub): the child of the daemon exports one  *)
(* device through libusb, runs three threads for the connection - the      *)
(* event handler, stub_rx and stub_tx - and joins them.  Completions are   *)
(* delivered by stub_tx itself, when it polls libusb.  Nobody shuts the    *)
(* socket down: stub_rx ends when the peer disconnects.                    *)
(***************************************************************************)
EXTENDS Naturals, Sequences, FiniteSets, UsbipEvent

CONSTANTS
    MaxCmds,     \* bound: commands the peer sends, numbered from 1
    NumIfs,      \* interfaces of the device
    LibusbFaults \* what may fail here: "claim", "thread", "endpoint",
                 \* "malloc", "payload", "submit", "poll", "reset"

ASSUME LibusbAssumption ==
    /\ MaxCmds \in Nat /\ NumIfs \in Nat
    /\ LibusbFaults \subseteq {"claim", "thread", "endpoint", "malloc",
                               "payload", "submit", "poll", "reset"}

VARIABLES
    inbox,      \* commands on their way to the stub
    issued,     \* the commands the peer has sent, in the order of their seqnum
    peerClosed, \* the peer has disconnected
    sent,       \* the answers sent, in order
    main,       \* where the child is
    detached,   \* interfaces whose kernel driver is detached
    claimed,    \* interfaces claimed
    lstatus,    \* ud.status
    levent,     \* ud.event
    ehwait,     \* eh_waitq, a mutex used as a semaphore, is unlocked
    eh,         \* where the event handler is, and the events it took
    ehStop,     \* eh_should_stop
    shouldStop, \* should_stop
    rx, tx,     \* where the threads are; stub_rx with the priv it cancels
    priv,       \* priv[n]: the list of the stub_priv of command n, its
                \* seqnum and whether it is being unlinked
    trx,        \* trx[n]: its transfer: "none", "ready", "flying",
                \* "completed", "cancelled", "freed"
    privTx,     \* priv_tx, in order
    unlinkTx    \* unlink_tx, in order

libusbVars == <<inbox, issued, peerClosed, sent, main, detached, claimed,
                lstatus, levent, ehwait, eh, ehStop, shouldStop, rx, tx, priv,
                trx, privTx, unlinkTx>>
mainVars  == <<main, detached, claimed>>
eventVars == <<levent, ehwait>>
ehVars    == <<eh, ehStop, shouldStop>>
netVars   == <<inbox, issued, peerClosed>>
dataVars  == <<priv, trx, privTx, unlinkTx>>

Seqnum == 1 .. MaxCmds
NoPriv == [list |-> "none", seq |-> 0, unlinking |-> FALSE]

LibusbInit ==
    /\ inbox = <<>> /\ issued = <<>> /\ peerClosed = FALSE /\ sent = <<>>
    /\ main = "claim" /\ detached = {} /\ claimed = {}
    /\ lstatus = "AVAILABLE" /\ levent = {} /\ ehwait = TRUE
    /\ eh = <<"none", {}>> /\ ehStop = FALSE /\ shouldStop = FALSE
    /\ rx = <<"none", 0>> /\ tx = "none"
    /\ priv = [n \in Seqnum |-> NoPriv] /\ trx = [n \in Seqnum |-> "none"]
    /\ privTx = <<>> /\ unlinkTx = <<>>

\* The outcomes of an operation that some fault makes fail.
Outcomes(faults) == {"ok"} \cup (faults \cap LibusbFaults)

\* usbip_event_add: the bits, then the semaphore.
Raise(mask) == levent' = levent \cup mask /\ ehwait' = TRUE

-----------------------------------------------------------------------------
(* The child: stub_export_device and stub_try_transfer. *)

\* claim_interfaces, one after the other.  A failure gives the interface it
\* met back, and the device is closed.
MainClaim ==
    /\ main = "claim"
    /\ LET i == Cardinality(claimed) + 1 IN
        \E r \in Outcomes({"claim"}), d \in BOOLEAN :
            IF r = "ok"
            THEN /\ claimed' = claimed \cup {i}
                 /\ detached' = IF d THEN detached \cup {i} ELSE detached
                 /\ main' = IF i = NumIfs THEN "start_eh" ELSE "claim"
            ELSE /\ claimed' = {} /\ main' = "failed"
                 /\ UNCHANGED detached
    /\ UNCHANGED <<sent, lstatus, rx, tx, ehVars, eventVars, netVars, dataVars>>

\* stub_start: the event handler, stub_rx and stub_tx, in this order.  When one
\* cannot be created, stub_try_transfer returns and leaves the others running.
MainStart ==
    /\ main \in {"start_eh", "start_rx", "start_tx"}
    /\ \E r \in Outcomes({"thread"}) :
        IF r = "ok"
        THEN /\ eh' = IF main = "start_eh" THEN <<"test", {}>> ELSE eh
             /\ rx' = IF main = "start_rx" THEN <<"test", 0>> ELSE rx
             /\ tx' = IF main = "start_tx" THEN "test" ELSE tx
             /\ main' = CASE main = "start_eh" -> "start_rx"
                          [] main = "start_rx" -> "start_tx"
                          [] main = "start_tx" -> "used"
        ELSE main' = "failed" /\ UNCHANGED <<eh, rx, tx>>
    /\ UNCHANGED <<detached, claimed, sent, lstatus, ehStop, shouldStop,
                   eventVars, netVars, dataVars>>

\* The status says USED only now, whatever the threads have met meanwhile.
MainUsed ==
    /\ main = "used"
    /\ lstatus' = "USED"
    /\ main' = "join_eh"
    /\ UNCHANGED <<detached, claimed, sent, rx, tx, ehVars, eventVars, netVars,
                   dataVars>>

\* stub_join, and then the clean-up: transfers are only reported, the unlinks
\* are freed, the interfaces are given back and the device is closed.
MainJoin ==
    /\ \/ main = "join_eh" /\ eh[1] = "end"
       \/ main = "join_tx" /\ tx = "end"
       \/ main = "join_rx" /\ rx[1] = "end"
    /\ main' = CASE main = "join_eh" -> "join_tx"
                 [] main = "join_tx" -> "join_rx"
                 [] main = "join_rx" -> "clean"
    /\ UNCHANGED <<detached, claimed, sent, lstatus, rx, tx, ehVars, eventVars,
                   netVars, dataVars>>

MainClean ==
    /\ main = "clean"
    /\ unlinkTx' = <<>>
    /\ detached' = {} /\ claimed' = {}
    /\ main' = "done"
    /\ UNCHANGED <<sent, lstatus, rx, tx, priv, trx, privTx, ehVars, eventVars,
                   netVars>>

-----------------------------------------------------------------------------
(* The event handler: stub_event.c and the eh_ops. *)

EhTest ==
    /\ eh[1] = "test"
    /\ eh' = <<IF ehStop THEN "end" ELSE "wait", {}>>
    /\ UNCHANGED <<sent, lstatus, ehStop, shouldStop, rx, tx, mainVars,
                   eventVars, netVars, dataVars>>

Follows(bits, from) ==
    IF from = "get" /\ "SHUTDOWN" \in bits THEN "shutdown"
    ELSE IF from # "reset" /\ "RESET" \in bits THEN "reset"
    ELSE IF "UNUSABLE" \in bits THEN "unusable" ELSE "test"

\* event_get takes the events away before they are handled.
EhGet ==
    /\ eh[1] = "wait" /\ ehwait
    /\ ehwait' = FALSE
    /\ levent' = {}
    /\ eh' = <<Follows(levent, "get"), levent>>
    /\ UNCHANGED <<sent, lstatus, ehStop, shouldStop, rx, tx, mainVars,
                   netVars, dataVars>>

\* Mutant of EhShutdown: only the handler itself is told to stop.
MutNoShouldStop ==
    /\ eh[1] = "shutdown"
    /\ ehStop' = TRUE /\ ehwait' = TRUE
    /\ eh' = <<Follows(eh[2], "shutdown"), eh[2]>>
    /\ UNCHANGED <<sent, lstatus, levent, shouldStop, rx, tx, mainVars,
                   netVars, dataVars>>

\* stub_shutdown
EhShutdown ==
    /\ eh[1] = "shutdown"
    /\ shouldStop' = TRUE
    /\ ehStop' = TRUE /\ ehwait' = TRUE
    /\ eh' = <<Follows(eh[2], "shutdown"), eh[2]>>
    /\ UNCHANGED <<sent, lstatus, levent, rx, tx, mainVars, netVars, dataVars>>

\* stub_device_reset
EhReset ==
    /\ eh[1] = "reset"
    /\ \E r \in Outcomes({"reset"}) :
        lstatus' = IF r = "ok" THEN "AVAILABLE" ELSE "ERROR"
    /\ eh' = <<Follows(eh[2], "reset"), eh[2]>>
    /\ UNCHANGED <<sent, ehStop, shouldStop, rx, tx, mainVars, eventVars,
                   netVars, dataVars>>

\* stub_device_unusable
EhUnusable ==
    /\ eh[1] = "unusable"
    /\ lstatus' = "ERROR"
    /\ eh' = <<"test", {}>>
    /\ UNCHANGED <<sent, ehStop, shouldStop, rx, tx, mainVars, eventVars,
                   netVars, dataVars>>

-----------------------------------------------------------------------------
(* stub_rx. *)

\* stub_rx_loop: an event that was taken but not yet handled goes unseen.
RxTest ==
    /\ rx[1] = "test"
    /\ rx' = <<IF shouldStop \/ levent # {} THEN "end" ELSE "recv", 0>>
    /\ UNCHANGED <<sent, lstatus, tx, mainVars, ehVars, eventVars, netVars, dataVars>>

\* stub_rx_pdu without a header, or with one that valid_request refuses.
RxRefuse ==
    /\ rx[1] = "recv"
    /\ IF inbox = <<>> THEN peerClosed ELSE lstatus # "USED"
    /\ inbox' = IF inbox = <<>> THEN inbox ELSE Tail(inbox)
    /\ Raise(EVENT_DOWN)
    /\ rx' = <<"test", 0>>
    /\ UNCHANGED <<sent, lstatus, tx, issued, peerClosed, mainVars, ehVars,
                   dataVars>>

Accepts(kind) ==
    /\ rx[1] = "recv"
    /\ inbox # <<>> /\ lstatus = "USED" /\ Head(inbox).kind = kind
    /\ inbox' = Tail(inbox)

\* stub_recv_cmd_submit.  A request for an unknown endpoint is dropped without
\* a word; a failure after the allocation leaves the priv on priv_init, and that
\* of usbip_recv_iso raises no event.  When the peer closes in the middle of a
\* payload, usbip_recv_xbuff returns what it has got and the transfer is tried.
RxSubmit ==
    /\ Accepts("SUBMIT")
    /\ LET n == Head(inbox).seq
           queued(t) ==
               /\ priv' = [priv EXCEPT ![n] =
                              [list |-> "init", seq |-> n, unlinking |-> FALSE]]
               /\ trx' = [trx EXCEPT ![n] = t]
           fails(fault) == fault \in LibusbFaults
       IN \/ queued("flying") /\ UNCHANGED eventVars
          \/ fails("endpoint") /\ UNCHANGED <<priv, trx, eventVars>>
          \/ fails("malloc") /\ UNCHANGED <<priv, trx>> /\ Raise(EVENT_ERROR_MALLOC)
          \/ fails("malloc") /\ queued("none") /\ Raise(EVENT_ERROR_MALLOC)
          \/ fails("malloc") /\ queued("ready") /\ UNCHANGED eventVars
          \/ fails("payload") /\ queued("ready") /\ Raise(EVENT_DOWN)
          \/ /\ fails("payload") /\ peerClosed /\ inbox' = <<>>
             /\ queued("flying") /\ Raise(EVENT_DOWN)
          \/ fails("submit") /\ queued("freed") /\ Raise(EVENT_DOWN)
    /\ rx' = <<"test", 0>>
    /\ UNCHANGED <<sent, lstatus, tx, issued, peerClosed, privTx, unlinkTx,
                   mainVars, ehVars>>

\* stub_enqueue_ret_unlink
EnqueueRetUnlink(answer) ==
    \E r \in Outcomes({"malloc"}) :
        IF r = "ok"
        THEN unlinkTx' = Append(unlinkTx, answer) /\ UNCHANGED eventVars
        ELSE Raise(EVENT_ERROR_MALLOC) /\ UNCHANGED unlinkTx

\* stub_recv_cmd_unlink: a transfer on priv_init is marked, any other unlink is
\* answered at once.
RxUnlink ==
    /\ Accepts("UNLINK")
    /\ LET c == Head(inbox)
           pending == {n \in Seqnum : priv[n].list = "init" /\ priv[n].seq = c.target}
       IN  IF pending # {}
           THEN \E n \in pending :
                /\ priv' = [priv EXCEPT ![n].unlinking = TRUE, ![n].seq = c.seq]
                /\ rx' = <<"cancel", n>>
                /\ UNCHANGED <<unlinkTx, eventVars>>
           ELSE /\ EnqueueRetUnlink(
                        [seq |-> c.seq, target |-> c.target, why |-> "not_pending"])
                /\ rx' = <<"test", 0>>
                /\ UNCHANGED priv
    /\ UNCHANGED <<sent, lstatus, tx, issued, peerClosed, trx, privTx,
                   mainVars, ehVars>>

\* libusb_cancel_transfer, without the lock.
RxCancel ==
    /\ rx[1] = "cancel"
    /\ trx' = [trx EXCEPT ![rx[2]] = IF @ = "flying" THEN "cancelled" ELSE @]
    /\ rx' = <<"test", 0>>
    /\ UNCHANGED <<sent, lstatus, tx, priv, privTx, unlinkTx, mainVars, ehVars,
                   eventVars, netVars>>

-----------------------------------------------------------------------------
(* libusb and the device. *)

Complete(n) ==
    /\ trx[n] = "flying"
    /\ trx' = [trx EXCEPT ![n] = "completed"]
    /\ UNCHANGED <<sent, lstatus, rx, tx, priv, privTx, unlinkTx, mainVars,
                   ehVars, eventVars, netVars>>

-----------------------------------------------------------------------------
(* stub_tx. *)

\* stub_tx_loop
TxTest ==
    /\ tx = "test"
    /\ tx' = IF shouldStop THEN "end" ELSE "poll"
    /\ UNCHANGED <<sent, lstatus, rx, mainVars, ehVars, eventVars, netVars, dataVars>>

\* stub_complete of transfer n: the answer to its unlink, or its own.
StubComplete(n) ==
    /\ trx[n] \in {"completed", "cancelled"} /\ priv[n].list = "init"
    /\ IF priv[n].unlinking
       THEN /\ EnqueueRetUnlink([seq |-> priv[n].seq, target |-> n, why |-> trx[n]])
            /\ priv' = [priv EXCEPT ![n] = NoPriv]
            /\ trx' = [trx EXCEPT ![n] = "freed"]
            /\ UNCHANGED privTx
       ELSE /\ privTx' = Append(privTx, n)
            /\ priv' = [priv EXCEPT ![n].list = "tx"]
            /\ UNCHANGED <<trx, unlinkTx, eventVars>>
    /\ UNCHANGED <<sent, lstatus, rx, tx, mainVars, ehVars, netVars>>

\* Mutant of TxComplete: a thread of libusb delivers the completions.
MutAnyThread(n) == StubComplete(n)

\* poll_events_and_complete delivers completions.
TxComplete(n) == tx = "poll" /\ StubComplete(n)

\* ... and returns, perhaps with an error; then stub_tx looks at the events.
TxPolled ==
    /\ tx = "poll"
    /\ \E r \in Outcomes({"poll"}) :
        IF r = "ok" THEN UNCHANGED eventVars ELSE Raise(EVENT_DOWN)
    /\ tx' = IF levent' # {} THEN "end" ELSE "ret_submit"
    /\ UNCHANGED <<sent, lstatus, rx, mainVars, ehVars, netVars, dataVars>>

\* One round of stub_send_ret_submit or stub_send_ret_unlink: the answer goes
\* out, or stub_tx raises an event and ends.
Send(answer) ==
    \E r \in Outcomes({"malloc"}) :
        IF r = "ok" /\ ~peerClosed
        THEN sent' = Append(sent, answer) /\ UNCHANGED <<tx, eventVars>>
        ELSE /\ Raise(IF r = "ok" THEN EVENT_DOWN ELSE EVENT_ERROR_MALLOC)
             /\ tx' = "end"
             /\ UNCHANGED sent

TxRetSubmit ==
    /\ tx = "ret_submit" /\ privTx # <<>>
    /\ LET n == Head(privTx) IN
        /\ Send([kind |-> "RET_SUBMIT", seq |-> n, target |-> n, why |-> trx[n]])
        /\ priv' = [priv EXCEPT ![n].list = "free"]
    /\ privTx' = Tail(privTx)
    /\ UNCHANGED <<lstatus, rx, trx, unlinkTx, mainVars, ehVars, netVars>>

\* The answered transfers are freed.
TxSubmitted ==
    /\ tx = "ret_submit" /\ privTx = <<>>
    /\ LET free == {n \in Seqnum : priv[n].list = "free"} IN
        /\ priv' = [n \in Seqnum |-> IF n \in free THEN NoPriv ELSE priv[n]]
        /\ trx' = [n \in Seqnum |-> IF n \in free THEN "freed" ELSE trx[n]]
    /\ tx' = "ret_unlink"
    /\ UNCHANGED <<sent, lstatus, rx, privTx, unlinkTx, mainVars, ehVars,
                   eventVars, netVars>>

TxRetUnlink ==
    /\ tx = "ret_unlink" /\ unlinkTx # <<>>
    /\ LET u == Head(unlinkTx) IN
        Send([kind |-> "RET_UNLINK", seq |-> u.seq, target |-> u.target, why |-> u.why])
    /\ unlinkTx' = Tail(unlinkTx)
    /\ UNCHANGED <<lstatus, rx, priv, trx, privTx, mainVars, ehVars, netVars>>

TxUnlinked ==
    /\ tx = "ret_unlink" /\ unlinkTx = <<>>
    /\ tx' = "test"
    /\ UNCHANGED <<sent, lstatus, rx, mainVars, ehVars, eventVars, netVars, dataVars>>

-----------------------------------------------------------------------------
(* The peer, a vhci port: it unlinks a request at most once. *)

PeerSend(c) ==
    /\ ~peerClosed /\ Len(issued) < MaxCmds
    /\ inbox' = Append(inbox, c)
    /\ issued' = Append(issued, c)
    /\ UNCHANGED <<peerClosed, sent, lstatus, rx, tx, mainVars, ehVars,
                   eventVars, dataVars>>

PeerSubmits ==
    PeerSend([kind |-> "SUBMIT", seq |-> Len(issued) + 1, target |-> 0])

PeerUnlinks(t) ==
    /\ t <= Len(issued) /\ issued[t].kind = "SUBMIT"
    /\ \A n \in 1 .. Len(issued) : issued[n].target # t
    /\ \A i \in 1 .. Len(sent) : sent[i].seq # t
    /\ PeerSend([kind |-> "UNLINK", seq |-> Len(issued) + 1, target |-> t])

PeerCloses ==
    /\ ~peerClosed
    /\ peerClosed' = TRUE
    /\ UNCHANGED <<inbox, issued, sent, lstatus, rx, tx, mainVars, ehVars,
                   eventVars, dataVars>>

-----------------------------------------------------------------------------
MainStep == MainClaim \/ MainStart \/ MainUsed \/ MainJoin \/ MainClean
EhStep == EhTest \/ EhGet \/ EhShutdown \/ EhReset \/ EhUnusable
RxStep == RxTest \/ RxRefuse \/ RxSubmit \/ RxUnlink \/ RxCancel
TxStep ==
    \/ TxTest \/ TxPolled \/ TxRetSubmit \/ TxSubmitted \/ TxRetUnlink
    \/ TxUnlinked \/ \E n \in Seqnum : TxComplete(n)

LibusbNext ==
    \/ MainStep \/ EhStep \/ RxStep \/ TxStep
    \/ \E n \in Seqnum : Complete(n) \/ PeerUnlinks(n)
    \/ PeerSubmits \/ PeerCloses

\* The threads of the child are scheduled; the peer and the device owe nothing.
LibusbSpec ==
    /\ LibusbInit /\ [][LibusbNext]_libusbVars
    /\ WF_libusbVars(MainStep) /\ WF_libusbVars(EhStep)
    /\ WF_libusbVars(RxStep) /\ WF_libusbVars(TxStep)

-----------------------------------------------------------------------------
(* Properties. *)

\* An unlink that comes too late for a request that went to the device is
\* answered after the result of the request: the client takes the first of the
\* two for the end of the URB.  Completions are delivered between two rounds of
\* stub_tx only, and a round sends the results first.
ResultBeforeUnlink ==
    \A i \in 1 .. Len(sent) :
        sent[i].kind = "RET_UNLINK" /\ sent[i].why = "not_pending"
          /\ trx[sent[i].target] # "none" =>
            \E j \in 1 .. i - 1 :
                sent[j].kind = "RET_SUBMIT" /\ sent[j].seq = sent[i].target

\* Once the peer has disconnected the child joins its three threads and gives
\* the device back, although the events are taken away before the threads can
\* see them and stub_rx may be blocked.
LibusbJoins == peerClosed ~> main \in {"done", "failed"}

===============================================================================
