----------------------------- MODULE VudcTransfer -----------------------------
(***************************************************************************)
(* The data stage of a URB on a virtual controller: transfer() of           *)
(* vudc_transfer.c, which copies between the URB and the requests the       *)
(* gadget driver queued on the endpoint, and decides from lengths alone     *)
(* where a packet would have been short, when the URB is complete and when  *)
(* a request is.  Requests arrive while it works: each completed one is     *)
(* given back with the lock released, and a URB the device NAKs is taken up  *)
(* again by the next sweep of the timer.                                   *)
(***************************************************************************)
EXTENDS Naturals, Sequences, SequencesExt

CONSTANTS
    MaxPacket,      \* ep.maxpacket
    MaxUrb,         \* bound on the length of the URB
    MaxRequest,     \* bound on the length of a request
    MaxRequests     \* bound on the number of requests

ASSUME TransferAssumption ==
    MaxPacket \in Nat \ {0} /\ MaxUrb \in Nat /\ MaxRequest \in Nat /\ MaxRequests \in Nat

VARIABLES
    turb,       \* the URB: direction, lengths, URB_ZERO_PACKET and status
    queue,      \* ep->req_queue
    given,      \* the requests given back, oldest first
    at,         \* the request of the queue the loop looks at next
    tpc         \* where transfer is

transferVars == <<turb, queue, given, at, tpc>>

Request == [length : 0 .. MaxRequest, actual : 0 .. MaxRequest, zero : BOOLEAN,
            status : {"EINPROGRESS", "0", "EOVERFLOW"}]
NewRequests == {r \in Request : r.actual = 0 /\ r.status = "EINPROGRESS"}
Urb == [dir : {"in", "out"}, length : 0 .. MaxUrb, actual : 0 .. MaxUrb, zero : BOOLEAN,
        status : {"EINPROGRESS", "0", "EOVERFLOW"}]

TransferTypeOK ==
    /\ turb \in Urb /\ turb.actual <= turb.length
    /\ queue \in Seq(Request) /\ given \in Seq(Request)
    /\ \A i \in DOMAIN queue : queue[i].actual <= queue[i].length
    /\ at \in 1 .. MaxRequests + 1
    /\ tpc \in {"loop", "giveback", "nak", "done"}

TransferInit ==
    /\ turb \in {u \in Urb : u.actual = 0 /\ u.status = "EINPROGRESS"}
    /\ queue = <<>> /\ given = <<>> /\ at = 1 /\ tpc = "nak"

\* One look of the loop at the pair of a URB and a request: how much is copied,
\* whether it ends in a short packet, and whether to look at the queue again.
HostLen(u) == u.length - u.actual
DevLen(r) == r.length - r.actual
Fits(u, r) == IF HostLen(u) < DevLen(r) THEN HostLen(u) ELSE DevLen(r)
IsShort(u, r) == Fits(u, r) < MaxPacket

Copied(u, r) == IF IsShort(u, r) THEN Fits(u, r) ELSE Fits(u, r) - (Fits(u, r) % MaxPacket)

\* Mutant of UrbStatus: the URB's own zero-length packet is forgotten.
MutNoZlp(u, r) ==
    IF IsShort(u, r)
    THEN IF u.dir = "in" /\ DevLen(r) > HostLen(u) THEN "EOVERFLOW" ELSE "0"
    ELSE IF u.length = u.actual + Copied(u, r) THEN "0" ELSE "EINPROGRESS"

\* The status of the URB after a look: short packets terminate, and so does a
\* full buffer unless a zero-length packet is still to be sent.
UrbStatus(u, r) ==
    IF IsShort(u, r)
    THEN IF u.dir = "in" /\ DevLen(r) > HostLen(u) THEN "EOVERFLOW" ELSE "0"
    ELSE IF u.length = u.actual + Copied(u, r) /\ ~(u.zero /\ u.dir = "out")
         THEN "0" ELSE "EINPROGRESS"

\* The status of the request after a look.
RequestStatus(u, r) ==
    IF IsShort(u, r)
    THEN IF u.dir = "out" /\ HostLen(u) > DevLen(r) THEN "EOVERFLOW" ELSE "0"
    ELSE IF r.length = r.actual + Copied(u, r) /\ ~(r.zero /\ u.dir = "in")
         THEN "0" ELSE "EINPROGRESS"

Rescan(u, r) ==
    /\ ~IsShort(u, r)
    /\ \/ Fits(u, r) % MaxPacket > 0
       \/ r.length = r.actual + Copied(u, r) /\ r.zero /\ u.dir = "in"
       \/ u.length = u.actual + Copied(u, r) /\ u.zero /\ u.dir = "out"

\* The loop's body, up to usb_gadget_giveback_request.
TransferLook ==
    /\ tpc = "loop" /\ at <= Len(queue)
    /\ LET r == queue[at]
           u2 == [turb EXCEPT !.actual = @ + Copied(turb, r), !.status = UrbStatus(turb, r)]
           r2 == [r EXCEPT !.actual = @ + Copied(turb, r), !.status = RequestStatus(turb, r)]
       IN /\ turb' = u2
          /\ IF r2.status # "EINPROGRESS"
             THEN /\ queue' = RemoveAt(queue, at) /\ given' = Append(given, r2)
                  /\ tpc' = "giveback" /\ at' = 1
             ELSE /\ queue' = [queue EXCEPT ![at] = r2]
                  /\ tpc' = IF u2.status # "EINPROGRESS" THEN "done" ELSE "loop"
                  /\ at' = IF u2.status # "EINPROGRESS" \/ Rescan(turb, r) THEN 1 ELSE at + 1
                  /\ UNCHANGED given

\* The lock is taken again: a complete URB ends the loop, otherwise it starts
\* again from the top of the queue.
TransferGiven ==
    /\ tpc = "giveback"
    /\ tpc' = IF turb.status # "EINPROGRESS" THEN "done" ELSE "loop"
    /\ UNCHANGED <<turb, queue, given, at>>

\* No request is left: the device is NAKing until the timer fires again.
TransferNak ==
    /\ tpc = "loop" /\ at > Len(queue)
    /\ tpc' = "nak" /\ at' = 1
    /\ UNCHANGED <<turb, queue, given>>
TransferAgain ==
    /\ tpc = "nak" /\ queue # <<>>
    /\ tpc' = "loop"
    /\ UNCHANGED <<turb, queue, given, at>>

\* vep_queue, whenever the lock is free.
GadgetQueues ==
    /\ tpc \in {"giveback", "nak"}
    /\ Len(given) + Len(queue) < MaxRequests
    /\ \E r \in NewRequests : queue' = Append(queue, r)
    /\ UNCHANGED <<turb, given, at, tpc>>

TransferNext == TransferLook \/ TransferGiven \/ TransferNak \/ TransferAgain \/ GadgetQueues

TransferSpec == TransferInit /\ [][TransferNext]_transferVars

-------------------------------------------------------------------------------
(* The reference: a bus, which moves one packet after the other.              *)

\* The bytes of the URB and of the request at work that have moved, the number
\* of that request, and how the URB ended.
BusStart == [host |-> 0, req |-> 1, dev |-> 0, result |-> "EINPROGRESS"]

\* What the sender of URB u and request r still has to send, and the room of the
\* receiver.
Left(u, r, b) == IF u.dir = "in" THEN r.length - b.dev ELSE u.length - b.host
Room(u, r, b) == IF u.dir = "in" THEN u.length - b.host ELSE r.length - b.dev

\* The sender sends full packets, then a short one, which is empty if nothing
\* remains but it wants one (or had nothing to send at all).  The receiver is done
\* when a packet is short or fills its room; one that does not fit ends both.
PacketSize(u, r, b) == IF Left(u, r, b) < MaxPacket THEN Left(u, r, b) ELSE MaxPacket
Babble(u, r, b) == PacketSize(u, r, b) > Room(u, r, b)
SenderDone(u, r, b) ==
    /\ PacketSize(u, r, b) = Left(u, r, b)
    /\ PacketSize(u, r, b) < MaxPacket \/ ~(IF u.dir = "in" THEN r.zero ELSE u.zero)
ReceiverDone(u, r, b) == PacketSize(u, r, b) < MaxPacket \/ PacketSize(u, r, b) = Room(u, r, b)
HostDone(u, r, b) == Babble(u, r, b) \/ IF u.dir = "in" THEN ReceiverDone(u, r, b) ELSE SenderDone(u, r, b)
DevDone(u, r, b) == Babble(u, r, b) \/ IF u.dir = "in" THEN SenderDone(u, r, b) ELSE ReceiverDone(u, r, b)

BusMoves(u, r, b) ==
    LET n == IF Babble(u, r, b) THEN Room(u, r, b) ELSE PacketSize(u, r, b)
    IN [host   |-> b.host + n,
        req    |-> IF DevDone(u, r, b) THEN b.req + 1 ELSE b.req,
        dev    |-> IF DevDone(u, r, b) THEN 0 ELSE b.dev + n,
        result |-> IF ~HostDone(u, r, b) THEN "EINPROGRESS"
                   ELSE IF u.dir = "in" /\ Babble(u, r, b) THEN "EOVERFLOW" ELSE "0"]

\* The bus rests when the URB has ended or the device has no request (it NAKs).
BusNext(u, reqs, b) ==
    IF b.result # "EINPROGRESS" \/ b.req > Len(reqs) THEN b ELSE BusMoves(u, reqs[b.req], b)

\* The bus after k packets.  Each but the last moves data.
Bus(u, reqs) ==
    LET after[k \in Nat] == IF k = 0 THEN BusStart ELSE BusNext(u, reqs, after[k - 1])
    IN after

\* transfer moves exactly what a bus would have moved packet by packet, gives
\* back exactly the requests the bus would have completed, and ends the URB
\* exactly when and as the bus would have, whenever the driver queued its
\* requests: short packets, zero-length packets, overflows and the split of a
\* copy into full packets and a remainder included.
MatchesPackets ==
    tpc = "done" \/ (tpc = "nak" /\ queue = <<>>) =>
        LET bus == Bus(turb, given \o queue)[turb.length + 1]
        IN turb.actual = bus.host /\ turb.status = bus.result /\ Len(given) = bus.req - 1

===============================================================================
