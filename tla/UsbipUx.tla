------------------------------- MODULE UsbipUx -------------------------------
(***************************************************************************)
(* The userspace transport: usbip-ux.ko (drivers/usb/usbip/usbip_ux.c) lets *)
(* the sendmsg and recvmsg of a usbip device be served by read and write on *)
(* /dev/usbip-ux, and two threads of a command or daemon                    *)
(* (tools/.../libsrc/usbip_ux.c) copy between that file and the socket.    *)
(*                                                                         *)
(*   kernel sender  -> sendvec: tx request -> read  -> ux-tx -> socket       *)
(*   kernel receiver <- recvvec: rx request <- write <- ux-rx <- socket      *)
(*                                                                         *)
(* A thread sleeping in wait_event_interruptible is one whose condition is  *)
(* false: every flag is set before the queue is woken.  Touching the ux     *)
(* after kfree, or copying to or from the buffer of a sendmsg or recvmsg    *)
(* that has returned, is undefined and ends the behaviour (oops).           *)
(***************************************************************************)
EXTENDS Integers, Sequences

CONSTANTS
    Vectors,        \* the vectors of the messages the kernel sender sends, in a row:
                    \* where each starts in the data, how long it is, and
                    \* whether it is the last of its message
    TxBytes,        \* how many bytes the kernel sender sends
    RxSizes,        \* the sizes the kernel receiver asks usbip_recv for
    RxBytes,        \* how many bytes the peer sends
    BLEN            \* size of the buffer of a user thread

ASSUME UxAssumption ==
    /\ Vectors \in Seq([start : Nat, len : Nat, last : BOOLEAN])
    /\ \A v \in DOMAIN Vectors :
        /\ Vectors[v].start = IF v = 1 THEN 0 ELSE Vectors[v - 1].start + Vectors[v - 1].len
        /\ Vectors[v].start + Vectors[v].len <= TxBytes
        /\ v = Len(Vectors) => Vectors[v].last /\ Vectors[v].start + Vectors[v].len = TxBytes
    /\ TxBytes \in Nat /\ (Vectors = <<>> => TxBytes = 0)
    /\ RxSizes \in Seq(Nat \ {0})
    /\ RxBytes \in Nat /\ BLEN \in Nat \ {0}

VARIABLES
    ux,         \* struct usbip_ux: state, linked (ux->ud), count, int, lock
    udux,       \* ud->ux is set
    tx,         \* tx_buf and tx_bytes (bytes), tx_count, the REQ and RSP flags, tx_error
    rx,         \* rx_bytes (want), what has been written (got), the flags, rx_error
    ktx,        \* kernel sender: pc, the vector it is at, whether sendvec has set it up
    krx,        \* kernel receiver: pc, the size it is at, whether recvvec has set it up,
                \* what is left of the size, what came so far
    utx,        \* ux-tx thread: pc, buffer
    urx,        \* ux-rx thread: pc, buffer
    main,       \* the thread that sets up, attaches, joins and closes
    eh,         \* the kernel's event handler, as far as it unlinks the transport
    sock,       \* the socket: bytes that came in, bytes that went out, still open
    oops        \* undefined behaviour has been reached

uxVars == <<ux, udux, tx, rx, ktx, krx, utx, urx, main, eh, sock, oops>>

\* Where vector v starts; after the last one, where the data ends.
VecStart(v) == IF v <= Len(Vectors) THEN Vectors[v].start ELSE TxBytes
VecBytes(v) == [i \in 1 .. Vectors[v].len |-> VecStart(v) + i]
TxData == [i \in 1 .. TxBytes |-> i]
RxData == [i \in 1 .. RxBytes |-> i]
RxSize(n) == IF n <= Len(RxSizes) THEN RxSizes[n] ELSE 1

Rest(s, n) == SubSeq(s, n + 1, Len(s))
Least(a, b) == IF a < b THEN a ELSE b

UxInit ==
    /\ ux = [state |-> "none", linked |-> FALSE, count |-> 0, int |-> FALSE, lock |-> FALSE]
    /\ udux = FALSE
    /\ tx = [bytes |-> <<>>, count |-> 0, req |-> FALSE, rsp |-> FALSE, err |-> FALSE]
    /\ rx = [want |-> 0, got |-> <<>>, req |-> FALSE, rsp |-> FALSE, err |-> FALSE]
    /\ ktx = [pc |-> "none", at |-> 1, set |-> FALSE]
    /\ krx = [pc |-> "none", at |-> 1, set |-> FALSE, left |-> RxSize(1), done |-> <<>>]
    /\ utx = [pc |-> "none", buf |-> <<>>]
    /\ urx = [pc |-> "none", buf |-> <<>>]
    /\ main = "setup" /\ eh = "idle"
    /\ sock = [in |-> RxData, out |-> <<>>, open |-> TRUE]
    /\ oops = FALSE

\* The kernel threads keep a pointer to the ux that nothing stops from being freed.
Freed == ux.state = "freed"
Oops == oops' = TRUE /\ UNCHANGED <<ux, udux, tx, rx, ktx, krx, utx, urx, main, eh, sock>>

Count(d) == [ux EXCEPT !.count = @ + d]

-------------------------------------------------------------------------------
(* The kernel sender: usbip_ux_sendmsg and usbip_ux_sendvec. *)

\* sendmsg: ud->ux is read once; without it sendmsg returns 0, which is not the
\* size of the message.
KtxSendmsg ==
    /\ ktx.pc = "idle" /\ ktx.at <= Len(Vectors)
    /\ ktx' = [ktx EXCEPT !.pc = IF udux THEN "get" ELSE "failed"]
    /\ UNCHANGED <<ux, udux, tx, rx, krx, utx, urx, main, eh, sock, oops>>

\* usbip_ux_get: under the lock, only while linked.
KtxGet ==
    /\ ktx.pc = "get"
    /\ \/ Freed /\ Oops
       \/ /\ ~Freed /\ ~ux.lock
          /\ ux' = IF ux.linked THEN Count(1) ELSE ux
          /\ ktx' = [ktx EXCEPT !.pc = IF ux.linked THEN "vec" ELSE "failed"]
          /\ UNCHANGED <<udux, tx, rx, krx, utx, urx, main, eh, sock, oops>>

\* sendvec up to its wait.
KtxSendvec ==
    /\ ktx.pc = "vec"
    /\ \/ Freed /\ Oops
       \/ /\ ~Freed
          /\ tx' = [bytes |-> VecBytes(ktx.at), count |-> 0, req |-> TRUE, rsp |-> FALSE,
                    err |-> FALSE]
          /\ ktx' = [ktx EXCEPT !.pc = "wait", !.set = TRUE]
          /\ UNCHANGED <<ux, udux, rx, krx, utx, urx, main, eh, sock, oops>>

\* The wait ends: an interrupt or an error fails the whole message.
KtxWait ==
    /\ ktx.pc = "wait"
    /\ \/ Freed /\ Oops
       \/ /\ ~Freed /\ (tx.rsp \/ ux.int)
          /\ ktx' = IF ux.int \/ tx.err THEN [ktx EXCEPT !.pc = "fput"]
                    ELSE [pc |-> IF Vectors[ktx.at].last THEN "put" ELSE "vec",
                          at |-> ktx.at + 1, set |-> FALSE]
          /\ UNCHANGED <<ux, udux, tx, rx, krx, utx, urx, main, eh, sock, oops>>

KtxPut ==
    /\ ktx.pc \in {"put", "fput"}
    /\ \/ Freed /\ Oops
       \/ /\ ~Freed
          /\ ux' = Count(-1)
          /\ ktx' = [ktx EXCEPT !.pc = IF @ = "put" THEN "idle" ELSE "failed"]
          /\ UNCHANGED <<udux, tx, rx, krx, utx, urx, main, eh, sock, oops>>

-------------------------------------------------------------------------------
(* The kernel receiver: usbip_recv, usbip_ux_recvmsg and usbip_ux_recvvec. *)

KrxRecvmsg ==
    /\ krx.pc = "idle"
    /\ krx' = [krx EXCEPT !.pc = IF udux THEN "get" ELSE "failed"]
    /\ UNCHANGED <<ux, udux, tx, rx, ktx, utx, urx, main, eh, sock, oops>>

KrxGet ==
    /\ krx.pc = "get"
    /\ \/ Freed /\ Oops
       \/ /\ ~Freed /\ ~ux.lock
          /\ ux' = IF ux.linked THEN Count(1) ELSE ux
          /\ krx' = [krx EXCEPT !.pc = IF ux.linked THEN "vec" ELSE "failed"]
          /\ UNCHANGED <<udux, tx, rx, ktx, utx, urx, main, eh, sock, oops>>

KrxRecvvec ==
    /\ krx.pc = "vec"
    /\ \/ Freed /\ Oops
       \/ /\ ~Freed
          /\ rx' = [want |-> krx.left, got |-> <<>>, req |-> TRUE, rsp |-> FALSE, err |-> FALSE]
          /\ krx' = [krx EXCEPT !.pc = "wait", !.set = TRUE]
          /\ UNCHANGED <<ux, udux, tx, ktx, utx, urx, main, eh, sock, oops>>

\* The wait ends; a short answer leaves the rest to the next round of usbip_recv.
KrxWait ==
    /\ krx.pc = "wait"
    /\ \/ Freed /\ Oops
       \/ /\ ~Freed /\ (rx.rsp \/ ux.int)
          /\ krx' = IF ux.int \/ rx.err THEN [krx EXCEPT !.pc = "fput"]
                    ELSE [krx EXCEPT !.pc = "put", !.set = FALSE, !.left = @ - Len(rx.got),
                                     !.done = @ \o rx.got]
          /\ UNCHANGED <<ux, udux, tx, rx, ktx, utx, urx, main, eh, sock, oops>>

KrxPut ==
    /\ krx.pc \in {"put", "fput"}
    /\ \/ Freed /\ Oops
       \/ /\ ~Freed
          /\ ux' = Count(-1)
          /\ krx' = IF krx.pc = "fput" THEN [krx EXCEPT !.pc = "failed"]
                    ELSE IF krx.left > 0 THEN [krx EXCEPT !.pc = "idle"]
                    ELSE [krx EXCEPT !.pc = "idle", !.at = Least(@ + 1, Len(RxSizes) + 1),
                                     !.left = RxSize(krx.at + 1)]
          /\ UNCHANGED <<udux, tx, rx, ktx, utx, urx, main, eh, sock, oops>>

-------------------------------------------------------------------------------
(* The ux-tx thread: usbip_ux_tx, with usbip_ux_read. *)

UtxRead ==
    /\ utx.pc = "read" /\ ~ux.lock
    /\ tx' = [tx EXCEPT !.err = FALSE]
    /\ ux' = IF ux.linked THEN Count(1) ELSE ux
    /\ utx' = [utx EXCEPT !.pc = IF ux.linked THEN "wait" ELSE "shutdown"]
    /\ UNCHANGED <<udux, rx, ktx, krx, urx, main, eh, sock, oops>>

UtxWait ==
    /\ utx.pc = "wait" /\ (tx.req \/ ux.int)
    /\ IF ux.int
       THEN /\ tx' = [tx EXCEPT !.err = TRUE, !.req = FALSE, !.rsp = TRUE]
            /\ ux' = Count(-1)
            /\ utx' = [utx EXCEPT !.pc = "shutdown"]
       ELSE utx' = [utx EXCEPT !.pc = "copy"] /\ UNCHANGED <<tx, ux>>
    /\ UNCHANGED <<udux, rx, ktx, krx, urx, main, eh, sock, oops>>

\* Mutant of UtxCopy: every read answers the request, as write does.
MutAnswerEach ==
    /\ utx.pc = "copy" /\ ktx.pc \in {"wait", "fput"}
    /\ LET n == Least(Len(tx.bytes) - tx.count, BLEN)
       IN /\ utx' = [pc |-> IF n = 0 THEN "read" ELSE "send",
                     buf |-> SubSeq(tx.bytes, tx.count + 1, tx.count + n)]
          /\ tx' = [tx EXCEPT !.count = @ + n, !.req = FALSE, !.rsp = TRUE]
    /\ ux' = Count(-1)
    /\ UNCHANGED <<udux, rx, ktx, krx, urx, main, eh, sock, oops>>

\* The copy to the user, of what is left or what fits; the answer only when
\* nothing is left.  A vector without bytes reads as 0: the thread tries again.
UtxCopy ==
    /\ utx.pc = "copy"
    /\ LET n == Least(Len(tx.bytes) - tx.count, BLEN)
           all == tx.count + n >= Len(tx.bytes)
       IN \/ ktx.pc \notin {"wait", "fput"} /\ Oops
          \/ /\ ktx.pc \in {"wait", "fput"}
             /\ utx' = [pc |-> IF n = 0 THEN "read" ELSE "send",
                        buf |-> SubSeq(tx.bytes, tx.count + 1, tx.count + n)]
             /\ tx' = [tx EXCEPT !.count = @ + n, !.req = @ /\ ~all, !.rsp = @ \/ all]
             /\ ux' = Count(-1)
             /\ UNCHANGED <<udux, rx, ktx, krx, urx, main, eh, sock, oops>>

UtxSend ==
    /\ utx.pc = "send"
    /\ IF sock.open
       THEN /\ sock' = [sock EXCEPT !.out = @ \o utx.buf]
            /\ utx' = [pc |-> "read", buf |-> <<>>]
       ELSE utx' = [utx EXCEPT !.pc = "shutdown"] /\ UNCHANGED sock
    /\ UNCHANGED <<ux, udux, tx, rx, ktx, krx, urx, main, eh, oops>>

UtxShutdown ==
    /\ utx.pc = "shutdown"
    /\ sock' = [sock EXCEPT !.open = FALSE]
    /\ utx' = [utx EXCEPT !.pc = "ended"]
    /\ UNCHANGED <<ux, udux, tx, rx, ktx, krx, urx, main, eh, oops>>

-------------------------------------------------------------------------------
(* The ux-rx thread: usbip_ux_rx, with usbip_ux_write and usbip_ux_ioctl. *)

\* recv: what has arrived, or the end of the connection.
UrxRecv ==
    /\ urx.pc = "recv"
    /\ \/ \E n \in 1 .. Least(BLEN, Len(sock.in)) :
             /\ urx' = [urx EXCEPT !.pc = "write", !.buf = SubSeq(sock.in, 1, n)]
             /\ sock' = [sock EXCEPT !.in = Rest(@, n)]
       \/ /\ sock.in = <<>> /\ ~sock.open
          /\ urx' = [urx EXCEPT !.pc = "intr"]
          /\ UNCHANGED sock
    /\ UNCHANGED <<ux, udux, tx, rx, ktx, krx, utx, main, eh, oops>>

UrxWrite ==
    /\ urx.pc = "write" /\ ~ux.lock
    /\ rx' = IF ux.linked THEN [rx EXCEPT !.err = FALSE] ELSE rx
    /\ ux' = IF ux.linked THEN Count(1) ELSE ux
    /\ urx' = [urx EXCEPT !.pc = IF ux.linked THEN "wait" ELSE "intr"]
    /\ UNCHANGED <<udux, tx, ktx, krx, utx, main, eh, sock, oops>>

UrxWait ==
    /\ urx.pc = "wait" /\ (rx.req \/ ux.int)
    /\ IF ux.int
       THEN /\ rx' = [rx EXCEPT !.err = TRUE, !.req = FALSE, !.rsp = TRUE]
            /\ ux' = Count(-1)
            /\ urx' = [urx EXCEPT !.pc = "intr"]
       ELSE urx' = [urx EXCEPT !.pc = "copy"] /\ UNCHANGED <<rx, ux>>
    /\ UNCHANGED <<udux, tx, ktx, krx, utx, main, eh, sock, oops>>

\* The copy from the user: what is asked for or what there is; always answered.
UrxCopy ==
    /\ urx.pc = "copy"
    /\ LET n == Least(rx.want - Len(rx.got), Len(urx.buf))
       IN \/ krx.pc \notin {"wait", "fput"} /\ Oops
          \/ /\ krx.pc \in {"wait", "fput"}
             /\ rx' = [rx EXCEPT !.got = @ \o SubSeq(urx.buf, 1, n), !.req = FALSE, !.rsp = TRUE]
             /\ urx' = [urx EXCEPT !.pc = IF n < Len(urx.buf) THEN "write" ELSE "recv",
                                   !.buf = Rest(@, n)]
             /\ ux' = Count(-1)
             /\ UNCHANGED <<udux, tx, ktx, krx, utx, main, eh, sock, oops>>

\* Mutant of UrxIoctlGet: the thread ends without USBIP_UX_IOCINTR.
MutNoInterrupt ==
    /\ urx.pc = "intr"
    /\ urx' = [urx EXCEPT !.pc = "ended"]
    /\ UNCHANGED <<ux, udux, tx, rx, ktx, krx, utx, main, eh, sock, oops>>

\* USBIP_UX_IOCINTR at the end of the thread.  usbip_ux_ioctl does not look at
\* what usbip_ux_get returned, and always puts.
UrxIoctlGet ==
    /\ urx.pc = "intr" /\ ~ux.lock
    /\ ux' = IF ux.linked THEN Count(1) ELSE ux
    /\ urx' = [urx EXCEPT !.pc = "put"]
    /\ UNCHANGED <<udux, tx, rx, ktx, krx, utx, main, eh, sock, oops>>
UrxIoctlPut ==
    /\ urx.pc = "put"
    /\ ux' = [Count(-1) EXCEPT !.int = TRUE]
    /\ urx' = [urx EXCEPT !.pc = "ended"]
    /\ UNCHANGED <<udux, tx, rx, ktx, krx, utx, main, eh, sock, oops>>

-------------------------------------------------------------------------------
(* The thread of the command, and the event handler. *)

\* usbip_ux_setup: open (usbip_ux_new), then two ioctls on a ux that is not
\* linked, so that each one puts what it did not get.
MainSetup ==
    /\ main = "setup"
    /\ ux' = [ux EXCEPT !.state = "open", !.count = -2]
    /\ main' = "attach"
    /\ UNCHANGED <<udux, tx, rx, ktx, krx, utx, urx, eh, sock, oops>>

\* The device is attached or exported with the socket: usbip_ux_link finds the
\* ux, and the kernel threads start.  Or that failed: usbip_ux_cleanup.
MainAttach ==
    /\ main = "attach"
    /\ \/ /\ ux' = [ux EXCEPT !.linked = TRUE] /\ udux' = TRUE
          /\ ktx' = [ktx EXCEPT !.pc = "idle"] /\ krx' = [krx EXCEPT !.pc = "idle"]
          /\ main' = "start"
       \/ main' = "close" /\ UNCHANGED <<ux, udux, ktx, krx>>
    /\ UNCHANGED <<tx, rx, utx, urx, eh, sock, oops>>

\* usbip_ux_start and usbip_ux_join.
MainStart ==
    /\ main = "start"
    /\ urx' = [urx EXCEPT !.pc = "recv"] /\ utx' = [utx EXCEPT !.pc = "read"]
    /\ main' = "join"
    /\ UNCHANGED <<ux, udux, tx, rx, ktx, krx, eh, sock, oops>>
MainJoin ==
    /\ main = "join" /\ utx.pc = "ended" /\ urx.pc = "ended"
    /\ main' = "close"
    /\ UNCHANGED <<ux, udux, tx, rx, ktx, krx, utx, urx, eh, sock, oops>>

\* usbip_ux_cleanup closes the file: usbip_ux_delete interrupts everyone, waits
\* to be unlinked, takes the lock and frees.
MainClose ==
    /\ main = "close"
    /\ ux' = [ux EXCEPT !.int = TRUE]
    /\ main' = "delete"
    /\ UNCHANGED <<udux, tx, rx, ktx, krx, utx, urx, eh, sock, oops>>
MainDelete ==
    /\ main = "delete" /\ ~ux.linked /\ ~ux.lock
    /\ ux' = [ux EXCEPT !.state = "freed", !.lock = TRUE]
    /\ main' = "ended"
    /\ UNCHANGED <<udux, tx, rx, ktx, krx, utx, urx, eh, sock, oops>>

\* usbip_ux_unlink, called for a shutdown: a detach, or the failure of a kernel
\* thread.
EhUnlink ==
    /\ eh = "idle" /\ udux
    /\ ux' = [ux EXCEPT !.int = TRUE]
    /\ eh' = "suspend"
    /\ UNCHANGED <<udux, tx, rx, ktx, krx, utx, urx, main, sock, oops>>
EhSuspend ==
    /\ eh = "suspend" /\ ~ux.lock
    /\ ux' = [ux EXCEPT !.lock = TRUE]
    /\ eh' = "wait"
    /\ UNCHANGED <<udux, tx, rx, ktx, krx, utx, urx, main, sock, oops>>
EhUnlinked ==
    /\ eh = "wait" /\ ux.count <= 0
    /\ ux' = [ux EXCEPT !.linked = FALSE, !.lock = FALSE]
    /\ udux' = FALSE
    /\ eh' = "unlinked"
    /\ UNCHANGED <<tx, rx, ktx, krx, utx, urx, main, sock, oops>>

\* usbip_ux_interrupt_pgrp, from a daemon that got a signal, or
\* usbip_ux_interrupt.
Interrupt ==
    /\ main = "join" /\ ~ux.int
    /\ ux' = [ux EXCEPT !.int = TRUE]
    /\ UNCHANGED <<udux, tx, rx, ktx, krx, utx, urx, main, eh, sock, oops>>

\* The peer, or the network, ends the connection.
PeerCloses ==
    /\ sock.open /\ main \notin {"setup", "attach"}
    /\ sock' = [sock EXCEPT !.open = FALSE]
    /\ UNCHANGED <<ux, udux, tx, rx, ktx, krx, utx, urx, main, eh, oops>>

KtxNext == KtxSendmsg \/ KtxGet \/ KtxSendvec \/ KtxWait \/ KtxPut
KrxNext == KrxRecvmsg \/ KrxGet \/ KrxRecvvec \/ KrxWait \/ KrxPut
UtxNext == UtxRead \/ UtxWait \/ UtxCopy \/ UtxSend \/ UtxShutdown
UrxNext == UrxRecv \/ UrxWrite \/ UrxWait \/ UrxCopy \/ UrxIoctlGet \/ UrxIoctlPut
MainNext == MainSetup \/ MainAttach \/ MainStart \/ MainJoin \/ MainClose \/ MainDelete
KernelFailed == ktx.pc = "failed" \/ krx.pc = "failed"
EhNext == EhUnlink \/ EhSuspend \/ EhUnlinked

UxNext ==
    /\ ~oops
    /\ \/ KtxNext \/ KrxNext \/ UtxNext \/ UrxNext \/ MainNext \/ EhNext
       \/ Interrupt \/ PeerCloses

\* Each thread runs when it can; the event handler only has to when a kernel
\* thread reported its failure, or once it has begun.
UxSpec ==
    /\ UxInit /\ [][UxNext]_uxVars
    /\ WF_uxVars(~oops /\ KtxNext) /\ WF_uxVars(~oops /\ KrxNext)
    /\ WF_uxVars(~oops /\ UtxNext) /\ WF_uxVars(~oops /\ UrxNext)
    /\ WF_uxVars(~oops /\ MainNext)
    /\ WF_uxVars(~oops /\ (KernelFailed \/ eh # "idle") /\ EhNext)

-------------------------------------------------------------------------------

UxTypeOK ==
    /\ ux.state \in {"none", "open", "freed"} /\ ux.count \in -3 .. 4
    /\ tx.count \in 0 .. Len(tx.bytes)
    /\ Len(rx.got) <= rx.want
    /\ ktx.at \in 1 .. Len(Vectors) + 1
    /\ krx.at \in 1 .. Len(RxSizes) + 1 /\ krx.left >= 0
    /\ Len(utx.buf) <= BLEN /\ Len(urx.buf) <= BLEN
    /\ ux.linked = udux

\* The two directions as streams.  A connection is cut by an interrupt, by the
\* end of the socket or by not being made at all.
UxCut == ux.int \/ ~sock.open \/ main \in {"close", "delete", "ended"} \/ oops
TxSource ==
    (IF ktx.set THEN Rest(tx.bytes, tx.count) \o Rest(TxData, VecStart(ktx.at + 1))
     ELSE Rest(TxData, VecStart(ktx.at)))
TxStream == INSTANCE ByteStream WITH
    Data <- TxData, src <- TxSource, chan <- utx.buf, dst <- sock.out, cut <- UxCut
RxSink == krx.done \o (IF krx.set THEN rx.got ELSE <<>>)
RxStream == INSTANCE ByteStream WITH
    Data <- RxData, src <- sock.in, chan <- urx.buf, dst <- RxSink, cut <- UxCut

\* read and write with their requests and answers implement a byte stream in
\* each direction: whatever the sizes of the kernel's vectors and of the user's
\* buffer, bytes are neither lost, repeated nor reordered, and all of them get
\* through unless the connection is ended.
UxIsStream == TxStream!StreamSpec /\ RxStream!StreamSpec

\* When the transport is interrupted, the socket ends or the device is detached,
\* everyone waiting is let go: both user threads end, the device is unlinked and
\* the file is closed.  (Or undefined behaviour got there first.)
UxLetsGo == UxCut ~> (main = "ended" \/ oops)

\* usbip_ux_unlink announces "Waiting ux becomes free in unlink.": when it has
\* unlinked the ux, no sendmsg or recvmsg is still using it.
UnlinkWaits ==
    eh = "unlinked" =>
        ktx.pc \notin {"vec", "wait", "put", "fput"} /\ krx.pc \notin {"vec", "wait", "put", "fput"}

===============================================================================
