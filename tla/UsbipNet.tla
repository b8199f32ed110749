------------------------------- MODULE UsbipNet -------------------------------
(***************************************************************************)
(* The TCP connection between a vhci port and a stub device: the PDUs of   *)
(* the URB phase of the protocol (usbip_common.h) in one FIFO per          *)
(* direction.  TCP itself is external; what the drivers can see of it is:  *)
(* bytes arrive in order, the connection may be lost at any time, and once *)
(* it is lost a receiver still drains what had arrived before it fails.    *)
(***************************************************************************)
EXTENDS Naturals, Sequences

CONSTANT
    Faults  \* what may go wrong around the drivers, of the kinds below

FaultKinds ==
    {"loss",            \* the network loses the connection
     "client_alloc",    \* a GFP_ATOMIC allocation of the vhci fails
     "client_cut",      \* the connection breaks between a result and its payload
     "client_timeout",  \* userland set a receive timeout on the vhci's socket
     "server_alloc",    \* an allocation of the stub fails
     "server_cut",      \* the connection breaks between a request and its payload
     "server_down",     \* userland ends the export of the device
     "unbind",          \* the gadget driver of a vudc lets go of it
     "unknown",         \* the client sends an unknown command
     "submit",          \* the server's host controller refuses a URB
     "reset"}           \* the exported device cannot be reset

ASSUME NetAssumption == Faults \subseteq FaultKinds

MayFail(kind) == kind \in Faults

VARIABLES
    conn,   \* number of connections opened so far; the last one is conn
    link,   \* "open" or "down": the state of connection conn
    c2s,    \* PDUs from the vhci to the stub, oldest first
    s2c     \* PDUs from the stub to the vhci, oldest first

netVars == <<conn, link, c2s, s2c>>

\* A status as the two ends tell them apart: the URB's own result (0 or an
\* error of the device) or the result of a cancelled URB.
Status == {"DONE", "ECONNRESET"}

\* struct usbip_header: seqnum, and u.cmd_unlink.seqnum (0 in a submit).
CmdPdu == [cmd : {"CMD_SUBMIT", "CMD_UNLINK"}, seqnum : Nat, target : Nat]
RetPdu == [cmd : {"RET_SUBMIT", "RET_UNLINK"}, seqnum : Nat, status : Status]

CmdSubmit(s)    == [cmd |-> "CMD_SUBMIT", seqnum |-> s, target |-> 0]
CmdUnlink(s, t) == [cmd |-> "CMD_UNLINK", seqnum |-> s, target |-> t]
RetSubmit(s)     == [cmd |-> "RET_SUBMIT", seqnum |-> s, status |-> "DONE"]
RetUnlink(s, st) == [cmd |-> "RET_UNLINK", seqnum |-> s, status |-> st]

NetTypeOK ==
    /\ conn \in Nat
    /\ link \in {"open", "down"}
    /\ c2s \in Seq(CmdPdu)
    /\ s2c \in Seq(RetPdu)

NetInit ==
    /\ conn = 0
    /\ link = "down"
    /\ c2s = <<>>
    /\ s2c = <<>>

\* A new TCP connection: fresh streams, the old one's bytes are gone.
OpenConnection ==
    /\ conn' = conn + 1
    /\ link' = "open"
    /\ c2s' = <<>>
    /\ s2c' = <<>>

\* Mutant of ShutdownConnection: the socket is left as it is.
MutNoShutdown(c) == UNCHANGED netVars

\* kernel_sock_shutdown(SHUT_RDWR) on connection c by one of its ends.
ShutdownConnection(c) ==
    /\ link' = IF c = conn THEN "down" ELSE link
    /\ UNCHANGED <<conn, c2s, s2c>>

\* The network loses the connection.
LoseConnection ==
    /\ MayFail("loss")
    /\ link = "open"
    /\ link' = "down"
    /\ UNCHANGED <<conn, c2s, s2c>>

\* An end that holds connection c (0: none) can send, receive, or notice
\* that the connection is gone.
CanSend(c) == c = conn /\ link = "open"
CanRecv(c, stream) == c # 0 /\ c = conn /\ stream # <<>>
Broken(c) == c # conn \/ link = "down"

===============================================================================
