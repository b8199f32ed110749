-------------------------------- MODULE Attach --------------------------------
(***************************************************************************)
(* How a TCP connection gets from the command line to the two drivers: the *)
(* OP_* handshake between a command (usbip attach, connect or list) and    *)
(* the child a daemon forks for its connection, and the hand-over of the   *)
(* socket to vhci_hcd on the application side and to usbip_host on the     *)
(* device side.  The connection stays alive as long as any holder of       *)
(* either end has it open: a driver keeps its own reference after the      *)
(* process that gave it the socket has gone.  Both ends use kernel         *)
(* sockets; the userspace transport has a module of its own (UsbipUx).     *)
(* The URB phase is abstracted to CMD and RET messages (see Vhci, Stub).   *)
(***************************************************************************)
EXTENDS Naturals, Sequences, FiniteSets

CONSTANTS
    Flows,      \* the commands that may be run: "import", "export", "list"
    MaxCmds,    \* bound: requests the enumeration of the device makes
    MaxDevs,    \* bound: exported devices a list may show
    Upsets      \* what may go wrong outside: "cut", "kill"

ASSUME AttachAssumption ==
    /\ Flows \subseteq {"import", "export", "list"}
    /\ MaxCmds \in Nat /\ MaxDevs \in Nat
    /\ Upsets \subseteq {"cut", "kill"}

VARIABLES
    flow,   \* the command that is run
    daemon, \* the daemon at the other end: "usbipd" or "usbipa"
    tool,   \* where the command is
    child,  \* where the daemon's child is
    left,   \* devices the list command has still to read
    to,     \* to[e]: messages on their way to end e ("tool" or "daemon")
    held,   \* the holders of an open end: "tool", "child", "vhci", "stub"
    shut,   \* the connection was shut down or lost
    vhci,   \* the vhci port: "free", "used", "down" (event raised), "ended"
    stub,   \* the exported device, in the same four states
    bound,  \* usbip connect has bound the device to usbip_host
    cmds    \* requests vhci_hcd has sent

attachVars ==
    <<flow, daemon, tool, child, left, to, held, shut, vhci, stub, bound, cmds>>

-----------------------------------------------------------------------------
(* The connection. *)

End == {"tool", "daemon"}
Other(e) == IF e = "tool" THEN "daemon" ELSE "tool"

\* usbip attach runs on the application side, usbip connect on the device's.
AppEnd == IF flow = "export" THEN "daemon" ELSE "tool"
DevEnd == Other(AppEnd)

Holders(e) ==
    (IF e = "tool" THEN {"tool"} ELSE {"child"}) \cup
    (IF e = AppEnd THEN {"vhci"} ELSE {"stub"})

\* struct op_common and what follows it; kind "urb" messages are PDUs of the
\* URB phase, whose first two bytes are no USBIP_VERSION.
Op(code, status) == [kind |-> "op", code |-> code, status |-> status]
Body(n)          == [kind |-> "body", code |-> "BODY", status |-> n]
Urb(code)        == [kind |-> "urb", code |-> code, status |-> 0]

EndOfFile(e) == to[e] = <<>> /\ (shut \/ Holders(Other(e)) \cap held = {})
CanRead(e)   == to[e] # <<>> \/ EndOfFile(e)

\* Read one message at end e; what is left of the stream afterwards.
Consume(e) == to' = [to EXCEPT ![e] = IF @ = <<>> THEN @ ELSE Tail(@)]

\* Append ms to the stream towards end e; nothing gets through a connection
\* that is down, and the writer is told.
Deliver(e, ms) == to' = [to EXCEPT ![e] = IF shut THEN @ ELSE @ \o ms]

\* usbip_net_recv_op_common: the message at end e is an op_common of the
\* expected code whose status is ST_OK.
RecvOpCommon(e, code) ==
    to[e] # <<>> /\ Head(to[e]) = Op(code, "ST_OK")

Request(f) == CASE f = "import" -> "REQ_IMPORT"
                [] f = "export" -> "REQ_EXPORT"
                [] f = "list"   -> "REQ_DEVLIST"
Reply(f)   == CASE f = "import" -> "REP_IMPORT"
                [] f = "export" -> "REP_EXPORT"
                [] f = "list"   -> "REP_DEVLIST"

\* usbipd_recv_pdu_ops of the two daemons.
Serves(d) == IF d = "usbipd" THEN {"import", "list"} ELSE {"export"}

AttachInit ==
    /\ flow \in Flows
    /\ daemon \in {"usbipd", "usbipa"}
    /\ tool = IF flow = "export" THEN "bind" ELSE "open"
    /\ child = "none"
    /\ left = 0
    /\ to = [e \in End |-> <<>>]
    /\ held = {}
    /\ shut = FALSE
    /\ vhci = "free"
    /\ stub = "free"
    /\ bound = FALSE
    /\ cmds = 0

-----------------------------------------------------------------------------
(* The command. *)

\* usbip_connect_device first binds the device (module Bind).
ToolBind ==
    /\ tool = "bind"
    /\ bound' \in BOOLEAN
    /\ tool' = IF bound' THEN "open" ELSE "failed"
    /\ UNCHANGED <<flow, daemon, child, left, to, held, shut, vhci, stub, cmds>>

\* net_tcp_open, with do_accept and the fork of process_request: no
\* connection, a connection whose child could not be forked, or a child.
ToolOpen ==
    /\ tool = "open"
    /\ \E r \in {"refused", "no_fork", "accepted"} :
        /\ tool' = IF r = "refused" THEN "close" ELSE "request"
        /\ held' = CASE r = "refused"  -> {}
                     [] r = "no_fork"  -> {"tool"}
                     [] r = "accepted" -> {"tool", "child"}
        /\ child' = IF r = "accepted" THEN "recv_op" ELSE "none"
    /\ UNCHANGED <<flow, daemon, left, to, shut, vhci, stub, bound, cmds>>

\* The request: op_common, and its body unless a list is asked for.
ToolRequest ==
    /\ tool = "request"
    /\ Deliver("daemon", <<Op(Request(flow), "ST_OK")>> \o
                         IF flow = "list" THEN <<>> ELSE <<Body(0)>>)
    /\ tool' = IF shut THEN "close" ELSE "reply"
    /\ UNCHANGED <<flow, daemon, child, left, held, shut, vhci, stub, bound, cmds>>

\* Mutant of ToolReply: the port is attached without waiting for the device.
MutAttachEarly ==
    /\ tool = "reply" /\ CanRead("tool")
    /\ tool' = IF ~RecvOpCommon("tool", Reply(flow)) THEN "close"
               ELSE CASE flow = "export" -> "start"
                      [] flow = "import" -> "attach"
                      [] OTHER -> "body"
    /\ Consume("tool")
    /\ UNCHANGED <<flow, daemon, child, left, held, shut, vhci, stub, bound, cmds>>

\* usbip_net_recv_op_common on the reply.
ToolReply ==
    /\ tool = "reply" /\ CanRead("tool")
    /\ tool' = IF ~RecvOpCommon("tool", Reply(flow)) THEN "close"
               ELSE IF flow = "export" THEN "start" ELSE "body"
    /\ Consume("tool")
    /\ UNCHANGED <<flow, daemon, child, left, held, shut, vhci, stub, bound, cmds>>

\* The device of an import, or the number of devices of a list.
ToolBody ==
    /\ tool = "body" /\ CanRead("tool")
    /\ LET ok == to["tool"] # <<>> /\ Head(to["tool"]).kind = "body"
       IN  /\ tool' = IF ~ok THEN "close"
                      ELSE IF flow = "import" THEN "attach" ELSE "devices"
           /\ left' = IF ok THEN Head(to["tool"]).status ELSE left
    /\ Consume("tool")
    /\ UNCHANGED <<flow, daemon, child, held, shut, vhci, stub, bound, cmds>>

\* get_importable_devices reads as many devices as it was told.
ToolDevices ==
    /\ tool = "devices"
    /\ IF left = 0
       THEN tool' = "done" /\ held' = held \ {"tool"} /\ UNCHANGED <<left, to>>
       ELSE /\ CanRead("tool")
            /\ tool' = IF to["tool"] = <<>> THEN "close" ELSE "devices"
            /\ left' = left - 1
            /\ Consume("tool")
            /\ UNCHANGED held
    /\ UNCHANGED <<flow, daemon, child, shut, vhci, stub, bound, cmds>>

\* import_device of usbip_attach.c: a free port takes the socket (module
\* VhciPorts), or there is none.
ToolAttach ==
    /\ tool = "attach"
    /\ \/ vhci' = "used" /\ held' = held \cup {"vhci"} /\ tool' = "record"
       \/ tool' = "close" /\ UNCHANGED <<vhci, held>>
    /\ UNCHANGED <<flow, daemon, child, left, to, shut, stub, bound, cmds>>

\* ... and writes the record, or detaches the port again.
ToolRecord ==
    /\ tool = "record"
    /\ \/ tool' = "done" /\ held' = held \ {"tool"} /\ UNCHANGED vhci
       \/ /\ tool' = "close"
          /\ vhci' = IF vhci = "used" THEN "down" ELSE vhci
          /\ UNCHANGED held
    /\ UNCHANGED <<flow, daemon, child, left, to, shut, stub, bound, cmds>>

\* usbip_export_device of usbip_connect.c, after the reply.
ToolStart ==
    /\ tool = "start"
    /\ \/ /\ stub' = "used"
          /\ held' = (held \cup {"stub"}) \ {"tool"}
          /\ tool' = "done"
       \/ tool' = "close" /\ UNCHANGED <<stub, held>>
    /\ UNCHANGED <<flow, daemon, child, left, to, shut, vhci, bound, cmds>>

\* The error paths: usbip_conn_close, then usbip_unbind_device in connect.
ToolClose ==
    /\ tool = "close"
    /\ tool' = "failed"
    /\ held' = held \ {"tool"}
    /\ bound' = FALSE
    /\ UNCHANGED <<flow, daemon, child, left, to, shut, vhci, stub, cmds>>

ToolOver == {"done", "failed", "killed"}

\* The user ends the command.
ToolKilled ==
    /\ "kill" \in Upsets
    /\ tool \notin ToolOver
    /\ tool' = "killed"
    /\ held' = held \ {"tool"}
    /\ UNCHANGED <<flow, daemon, child, left, to, shut, vhci, stub, bound, cmds>>

-----------------------------------------------------------------------------
(* The daemon's child. *)

\* Mutant of ChildRecvOp: an unknown request is skipped and the child reads on.
MutSkipUnknown ==
    /\ child = "recv_op" /\ CanRead("daemon")
    /\ child' = IF EndOfFile("daemon") THEN "close"
                ELSE IF ~RecvOpCommon("daemon", Request(flow)) \/ flow \notin Serves(daemon)
                     THEN "recv_op"
                ELSE IF flow = "list" THEN "answer" ELSE "recv_body"
    /\ Consume("daemon")
    /\ UNCHANGED <<flow, daemon, tool, left, held, shut, vhci, stub, bound, cmds>>

\* __recv_pdu: read the code and dispatch; an unknown one ends the child.
ChildRecvOp ==
    /\ child = "recv_op" /\ CanRead("daemon")
    /\ child' = IF ~RecvOpCommon("daemon", Request(flow)) \/ flow \notin Serves(daemon)
                THEN "close"
                ELSE IF flow = "list" THEN "answer" ELSE "recv_body"
    /\ Consume("daemon")
    /\ UNCHANGED <<flow, daemon, tool, left, held, shut, vhci, stub, bound, cmds>>

ChildRecvBody ==
    /\ child = "recv_body" /\ CanRead("daemon")
    /\ child' = IF to["daemon"] = <<>> THEN "close" ELSE "serve"
    /\ Consume("daemon")
    /\ UNCHANGED <<flow, daemon, tool, left, held, shut, vhci, stub, bound, cmds>>

\* recv_request_import: usbip_get_device and usbip_export_device, before the
\* answer; the device may not be there or not be available.
ChildExport ==
    /\ child = "serve" /\ flow = "import"
    /\ \/ stub' = "used" /\ held' = held \cup {"stub"} /\ child' = "answer"
       \/ child' = "refuse" /\ UNCHANGED <<stub, held>>
    /\ UNCHANGED <<flow, daemon, tool, left, to, shut, vhci, bound, cmds>>

\* recv_request_export: import_device of usbipd_app.c, before the answer.
ChildImport ==
    /\ child = "serve" /\ flow = "export"
    /\ \/ vhci' = "used" /\ held' = held \cup {"vhci"} /\ child' = "record"
       \/ child' = "refuse" /\ UNCHANGED <<vhci, held>>
    /\ UNCHANGED <<flow, daemon, tool, left, to, shut, stub, bound, cmds>>

ChildRecord ==
    /\ child = "record"
    /\ \/ child' = "answer" /\ UNCHANGED vhci
       \/ child' = "refuse" /\ vhci' = IF vhci = "used" THEN "down" ELSE vhci
    /\ UNCHANGED <<flow, daemon, tool, left, to, held, shut, stub, bound, cmds>>

\* Mutant of ChildRefuse: the error is not put into the answer.
MutAnswerOk ==
    /\ child = "refuse"
    /\ Deliver("tool", <<Op(Reply(flow), "ST_OK")>>)
    /\ child' = "close"
    /\ UNCHANGED <<flow, daemon, tool, left, held, shut, vhci, stub, bound, cmds>>

\* The answer of a request that failed: ST_NA, ST_NO_FREE_PORT.
ChildRefuse ==
    /\ child = "refuse"
    /\ Deliver("tool", <<Op(Reply(flow), "ST_NA")>>)
    /\ child' = "close"
    /\ UNCHANGED <<flow, daemon, tool, left, held, shut, vhci, stub, bound, cmds>>

\* The answer of a request that was served; the two sends of an import and
\* the sends of a list are told apart by what a cut leaves of them.
ChildAnswer ==
    /\ child = "answer"
    /\ Deliver("tool", <<Op(Reply(flow), "ST_OK")>>)
    /\ child' = IF shut \/ flow = "export" THEN "close" ELSE "more"
    /\ UNCHANGED <<flow, daemon, tool, left, held, shut, vhci, stub, bound, cmds>>

ChildMore ==
    /\ child = "more"
    /\ IF flow = "import"
       THEN Deliver("tool", <<Body(0)>>)
       ELSE \E n \in 0 .. MaxDevs :
              Deliver("tool", <<Body(n)>> \o [i \in 1 .. n |-> Body(0)])
    /\ child' = "close"
    /\ UNCHANGED <<flow, daemon, tool, left, held, shut, vhci, stub, bound, cmds>>

\* The end of the child: its descriptor is closed, a driver's stays.
ChildClose ==
    /\ child = "close"
    /\ child' = "done"
    /\ held' = held \ {"child"}
    /\ UNCHANGED <<flow, daemon, tool, left, to, shut, vhci, stub, bound, cmds>>

-----------------------------------------------------------------------------
(* The drivers: what they do with the stream, see Vhci and Stub. *)

VhciSend ==
    /\ vhci = "used" /\ cmds < MaxCmds
    /\ cmds' = cmds + 1
    /\ Deliver(DevEnd, <<Urb("CMD")>>)
    /\ vhci' = IF shut THEN "down" ELSE vhci
    /\ UNCHANGED <<flow, daemon, tool, child, left, held, shut, stub, bound>>

\* vhci_rx_loop: an answer, or anything else and the end of the stream,
\* which raise an event.
VhciRecv ==
    /\ vhci = "used" /\ CanRead(AppEnd)
    /\ vhci' = IF to[AppEnd] # <<>> /\ Head(to[AppEnd]) = Urb("RET")
               THEN "used" ELSE "down"
    /\ Consume(AppEnd)
    /\ UNCHANGED <<flow, daemon, tool, child, left, held, shut, stub, bound, cmds>>

\* vhci_shutdown_connection.
VhciShutdown ==
    /\ vhci = "down"
    /\ vhci' = "ended"
    /\ shut' = TRUE
    /\ held' = held \ {"vhci"}
    /\ UNCHANGED <<flow, daemon, tool, child, left, to, stub, bound, cmds>>

\* Mutant of StubRecv: the end of the stream goes unnoticed.
MutStubDeaf ==
    /\ stub = "used" /\ to[DevEnd] # <<>>
    /\ IF Head(to[DevEnd]) = Urb("CMD") /\ ~shut
       THEN /\ to' = [to EXCEPT ![DevEnd] = Tail(@), ![AppEnd] = Append(@, Urb("RET"))]
            /\ UNCHANGED stub
       ELSE Consume(DevEnd) /\ stub' = "down"
    /\ UNCHANGED <<flow, daemon, tool, child, left, held, shut, vhci, bound, cmds>>

\* stub_rx_loop and stub_tx_loop: a request and its answer.
StubRecv ==
    /\ stub = "used" /\ CanRead(DevEnd)
    /\ IF to[DevEnd] # <<>> /\ Head(to[DevEnd]) = Urb("CMD") /\ ~shut
       THEN /\ to' = [to EXCEPT ![DevEnd] = Tail(@), ![AppEnd] = Append(@, Urb("RET"))]
            /\ UNCHANGED stub
       ELSE Consume(DevEnd) /\ stub' = "down"
    /\ UNCHANGED <<flow, daemon, tool, child, left, held, shut, vhci, bound, cmds>>

\* stub_shutdown_connection.
StubShutdown ==
    /\ stub = "down"
    /\ stub' = "ended"
    /\ shut' = TRUE
    /\ held' = held \ {"stub"}
    /\ UNCHANGED <<flow, daemon, tool, child, left, to, vhci, bound, cmds>>

\* The network loses the connection, and what was on its way.
Cut ==
    /\ "cut" \in Upsets
    /\ ~shut /\ held # {}
    /\ shut' = TRUE
    /\ to' = [e \in End |-> <<>>]
    /\ UNCHANGED <<flow, daemon, tool, child, left, held, vhci, stub, bound, cmds>>

ToolStep ==
    \/ ToolBind \/ ToolOpen \/ ToolRequest \/ ToolReply \/ ToolBody
    \/ ToolDevices \/ ToolAttach \/ ToolRecord \/ ToolStart \/ ToolClose

ChildStep ==
    \/ ChildRecvOp \/ ChildRecvBody \/ ChildExport \/ ChildImport
    \/ ChildRecord \/ ChildRefuse \/ ChildAnswer \/ ChildMore \/ ChildClose

VhciStep == VhciSend \/ VhciRecv \/ VhciShutdown
StubStep == StubRecv \/ StubShutdown

AttachNext == ToolStep \/ ToolKilled \/ ChildStep \/ VhciStep \/ StubStep \/ Cut

\* Processes and kernel threads that can run, run.  A connection carries a
\* bounded number of messages: it is enough that one that can run does.
AttachProgress == ToolStep \/ ChildStep \/ VhciStep \/ StubStep
AttachFairness == WF_attachVars(AttachProgress)

AttachSpec == AttachInit /\ [][AttachNext]_attachVars /\ AttachFairness

-----------------------------------------------------------------------------
(* Properties. *)

\* Who reads the stream at end e: the driver once it has the socket, the
\* process until then.
Reader(e) ==
    IF (IF e = AppEnd THEN vhci ELSE stub) = "free" THEN "process" ELSE "driver"

\* In an import the stream is never read by the wrong reader: what a process
\* is still to read is the handshake's, what a driver reads are PDUs of the
\* URB phase.  The daemon hands its end over before it answers
\* (recv_request_import), so this rests on the order of the other end.
ImportStreamsSeparate ==
    flow = "import" =>
        \A e \in End : to[e] # <<>> =>
            ((Head(to[e]).kind = "urb") <=> (Reader(e) = "driver"))

\* A command that reports success has a connection both drivers took part
\* in; one that reports an error leaves no device bound to usbip_host
\* (usbip_attach_device, usbip_connect_device and the status in the answer).
OutcomeIsTrue ==
    /\ (tool = "done" /\ flow # "list") => (vhci # "free" /\ stub # "free")
    /\ tool = "failed" => ~bound

\* No half-attached device stays: in the end both drivers use the connection
\* or neither does, whichever process failed, was killed, or lost its peer.
BothOrNeither == <>[]((vhci = "used") <=> (stub = "used"))

\* The command always comes to an end: a daemon that gives up closes the
\* connection, also when a driver already holds it.
CommandEnds == <>(tool \in ToolOver)

===============================================================================
