-------------------------------- MODULE Payload --------------------------------
(***************************************************************************)
(* What travels with a URB: the header's byte order, the transfer buffer    *)
(* and the isochronous packet descriptors (usbip_common.c, and the parts   *)
(* of vhci_tx.c, vhci_rx.c, stub_rx.c, stub_tx.c that put payloads         *)
(* together).  One URB makes the whole trip: the client packs it, the      *)
(* server unpacks it, the device moves data, the server sends only the     *)
(* data that was moved, and the client puts it back where the device had   *)
(* put it.  Every loop over the isochronous packets is a loop here, one    *)
(* step for each packet.                                                   *)
(*                                                                         *)
(* A 32-bit number is the sequence of its bytes, most significant first.   *)
(* A buffer maps the indices 0 .. length - 1 to bytes, and the packets of  *)
(* a URB are a function on 1 .. np (number_of_packets).                    *)
(***************************************************************************)
EXTENDS Integers

CONSTANTS
    MaxLength,  \* bound on the length of a transfer buffer
    MaxPackets  \* bound on the number of isochronous packets of a URB

ASSUME PayloadAssumption == MaxLength \in Nat /\ MaxPackets \in Nat

-------------------------------------------------------------------------------
(* Byte order. *)

Orders == {"little", "big"}

\* cpu_to_be32 and be32_to_cpu, which are one function; and the bytes of a
\* number as they lie in memory, which is what sendmsg and recvmsg move.
Swapped(n) == [k \in 1 .. 4 |-> n[5 - k]]
Swab(order, n) == IF order = "little" THEN Swapped(n) ELSE n
Memory(order, n) == IF order = "little" THEN Swapped(n) ELSE n

Number(n) == <<0, 0, 0, n>>
CMD_SUBMIT == Number(1)
CMD_UNLINK == Number(2)
RET_SUBMIT == Number(3)
RET_UNLINK == Number(4)

Commands == {CMD_SUBMIT, CMD_UNLINK, RET_SUBMIT, RET_UNLINK}

\* How many numbers of the union u the case for cmd corrects: those of
\* correct_endian_cmd_submit, _ret_submit, _cmd_unlink and _ret_unlink.
BodyNumbers(cmd) ==
    CASE cmd \in {CMD_SUBMIT, RET_SUBMIT} -> 5
      [] cmd \in {CMD_UNLINK, RET_UNLINK} -> 1
      [] OTHER -> 0

\* Mutant of HeaderCorrectEndian: the command is read before it is corrected.
MutCommandReadEarly(order, h, send) ==
    [command |-> Swab(order, h.command),
     base |-> [k \in DOMAIN h.base |-> Swab(order, h.base[k])],
     u |-> [k \in DOMAIN h.u |->
              IF k <= BodyNumbers(h.command) THEN Swab(order, h.u[k]) ELSE h.u[k]]]

\* usbip_header_correct_endian: the command chooses which numbers follow the
\* basic header, and is read in the cpu's order: before the swap on the way
\* out, after it on the way in.
HeaderCorrectEndian(order, h, send) ==
    LET command == Swab(order, h.command)
        cmd == IF send THEN h.command ELSE command
    IN [command |-> command,
        base |-> [k \in DOMAIN h.base |-> Swab(order, h.base[k])],
        u |-> [k \in DOMAIN h.u |->
                 IF k <= BodyNumbers(cmd) THEN Swab(order, h.u[k]) ELSE h.u[k]]]

\* A header on the wire, as its bytes in memory; a number that is not there is
\* sent as zero.
HeaderInMemory(order, h) ==
    [command |-> Memory(order, h.command),
     base |-> [k \in DOMAIN h.base |-> Memory(order, h.base[k])],
     u |-> [k \in DOMAIN h.u |-> Memory(order, h.u[k])]]

Wire(from, h) == HeaderInMemory(from, HeaderCorrectEndian(from, h, TRUE))
Received(to, w) == HeaderCorrectEndian(to, HeaderInMemory(to, w), FALSE)

-------------------------------------------------------------------------------
(* The trip of a URB. *)

VARIABLES
    place,   \* where the URB is
    curb,    \* the URB of the client's driver
    surb,    \* the URB of the stub
    wire,    \* what is in between: numbers of the header, n bytes of data, descriptors
    i,       \* the packet the loop at work is at
    total,   \* its sum: total_length, the data part of txsize, or actualoffset
    starts   \* history: the device's total before each packet, and after the last

payloadVars == <<place, curb, surb, wire, i, total, starts>>

Packet == [offset : 0 .. MaxLength, length : 0 .. MaxLength, actual : 0 .. MaxLength]
NoPacket == [offset |-> 0, length |-> 0, actual |-> 0]
NoPackets == [k \in 1 .. 0 |-> NoPacket]
Buffer(n, f(_)) == [k \in 0 .. n - 1 |-> f(k)]
Zeroed(n) == Buffer(n, LAMBDA k : 0)
NoUrb == [dir |-> "in", isoc |-> FALSE, length |-> 0, actual |-> 0, np |-> 0,
          iso |-> NoPackets, buf |-> Zeroed(0)]
NoWire == [length |-> 0, actual |-> 0, np |-> 0, n |-> 0, data |-> Zeroed(0), iso |-> NoPackets]

\* What a driver may submit: a buffer and, to an isochronous endpoint, packets
\* that lie in it in order from its start, with or without gaps (usb_submit_urb
\* has set their actual lengths to 0).
InOrder(iso, np, length) ==
    /\ np > 0 => iso[1].offset = 0
    /\ \A k \in 1 .. np : iso[k].offset + iso[k].length <= length
    /\ \A j, k \in 1 .. np : j < k => iso[j].offset + iso[j].length <= iso[k].offset
Layouts(np, length) ==
    {iso \in [1 .. np -> {p \in Packet : p.actual = 0}] : InOrder(iso, np, length)}
Submitted(dir, isoc, length, np, iso) ==
    [dir |-> dir, isoc |-> isoc, length |-> length, actual |-> 0, np |-> np, iso |-> iso,
     buf |-> Buffer(length, LAMBDA k : IF dir = "out" THEN k + 1 ELSE 0)]

PayloadInit ==
    /\ place = "client"
    /\ \E dir \in {"in", "out"}, length \in 0 .. MaxLength :
          \/ curb = Submitted(dir, FALSE, length, 0, NoPackets)
          \/ \E np \in 0 .. MaxPackets : \E iso \in Layouts(np, length) :
                curb = Submitted(dir, TRUE, length, np, iso)
    /\ surb = NoUrb /\ wire = NoWire
    /\ i = 1 /\ total = 0 /\ starts = [k \in 1 .. 1 |-> 0]

Loop(first, sum) == i' = first /\ total' = sum

\* vhci_send_cmd_submit: an OUT URB carries its buffer, an isochronous one its
\* packet descriptors (usbip_pack_pdu, usbip_alloc_iso_desc_pdu).
ClientPacks ==
    /\ place = "client"
    /\ wire' = [length |-> curb.length, actual |-> 0, np |-> curb.np,
                n |-> IF curb.dir = "out" THEN curb.length ELSE 0,
                data |-> IF curb.dir = "out" THEN curb.buf ELSE Zeroed(0), iso |-> curb.iso]
    /\ place' = "server"
    /\ UNCHANGED <<curb, surb, i, total, starts>>

\* usbip_recv_xbuff: the stub reads the whole buffer of an OUT URB, the vhci
\* what was moved of an IN URB.
XbuffSize(side, urb) ==
    IF side = "stub" THEN IF urb.dir = "in" THEN 0 ELSE urb.length
                     ELSE IF urb.dir = "out" THEN 0 ELSE urb.actual
RecvXbuff(side, urb) ==
    [urb EXCEPT !.buf = [k \in DOMAIN urb.buf |->
                           IF k < XbuffSize(side, urb) THEN wire.data[k] ELSE urb.buf[k]]]

\* stub_recv_cmd_submit: a fresh URB with zeroed buffer and descriptors takes
\* the header's numbers and the data.
ServerUnpacks ==
    /\ place = "server"
    /\ surb' = RecvXbuff("stub",
                 [dir |-> curb.dir, isoc |-> curb.isoc, length |-> wire.length, actual |-> 0,
                  np |-> wire.np, iso |-> [k \in 1 .. wire.np |-> NoPacket],
                  buf |-> Zeroed(wire.length)])
    /\ starts' = [k \in 1 .. wire.np + 1 |-> 0]
    /\ place' = "server_iso" /\ Loop(1, 0)
    /\ UNCHANGED <<curb, wire>>

\* usbip_recv_iso, which both sides call: each descriptor is unpacked and its
\* actual length added up; the sum must be the actual length of the URB.
WithPacket(urb, k, p) == [urb EXCEPT !.iso = [@ EXCEPT ![k] = p]]
RecvIsoPacket ==
    /\ \/ /\ place = "server_iso" /\ i <= surb.np
          /\ surb' = WithPacket(surb, i, wire.iso[i]) /\ UNCHANGED curb
       \/ /\ place = "client_iso" /\ i <= curb.np
          /\ curb' = WithPacket(curb, i, wire.iso[i]) /\ UNCHANGED surb
    /\ Loop(i + 1, total + wire.iso[i].actual)
    /\ UNCHANGED <<place, wire, starts>>
SumWrong(urb) == urb.isoc /\ urb.np # 0 /\ total # urb.actual
RecvIsoEnds ==
    /\ \/ /\ place = "server_iso" /\ i > surb.np
          /\ place' = IF SumWrong(surb) THEN "error" ELSE "device"
          /\ Loop(1, 0)
       \/ /\ place = "client_iso" /\ i > curb.np
          /\ place' = IF SumWrong(curb) THEN "error" ELSE "pad"
          /\ Loop(curb.np, curb.actual)   \* where usbip_pad_iso starts
    /\ UNCHANGED <<curb, surb, wire, starts>>

\* The device moves some of the data.  Into an IN URB it writes bytes that tell
\* where they lie, at the start of the buffer or of each packet; the actual
\* length of an isochronous URB is the sum of those of its packets.
Filled(urb, from, n) ==
    IF urb.dir = "out" THEN urb.buf
    ELSE [k \in DOMAIN urb.buf |-> IF k \in from .. from + n - 1 THEN k + 1 ELSE urb.buf[k]]
DeviceMoves ==
    /\ place = "device" /\ ~surb.isoc
    /\ \E n \in 0 .. surb.length : surb' = [surb EXCEPT !.actual = n, !.buf = Filled(surb, 0, n)]
    /\ place' = "complete"
    /\ UNCHANGED <<curb, wire, i, total, starts>>
DeviceMovesPacket ==
    /\ place = "device" /\ surb.isoc /\ i <= surb.np
    /\ \E n \in 0 .. surb.iso[i].length :
          /\ surb' = [WithPacket(surb, i, [surb.iso[i] EXCEPT !.actual = n])
                        EXCEPT !.actual = surb.actual + n,
                               !.buf = Filled(surb, surb.iso[i].offset, n)]
          /\ starts' = [starts EXCEPT ![i + 1] = surb.actual + n]
    /\ i' = i + 1
    /\ UNCHANGED <<place, curb, wire, total>>
DeviceEnds ==
    /\ place = "device" /\ surb.isoc /\ i > surb.np
    /\ place' = "complete"
    /\ UNCHANGED <<curb, surb, wire, i, total, starts>>

\* stub_send_ret_submit: the header, and of an IN URB that is not isochronous
\* the data that was moved.
ServerSetsUp ==
    /\ place = "complete"
    /\ wire' = [length |-> 0, actual |-> surb.actual, np |-> surb.np,
                n |-> IF surb.dir = "in" /\ ~surb.isoc THEN surb.actual ELSE 0,
                data |-> IF surb.dir = "in" /\ ~surb.isoc
                         THEN Buffer(surb.actual, LAMBDA k : surb.buf[k]) ELSE Zeroed(0),
                iso |-> NoPackets]
    /\ place' = "return" /\ Loop(1, 0)
    /\ UNCHANGED <<curb, surb, starts>>

\* One more kvec: n bytes of the buffer from an offset on.
WithData(w, buf, from, n) ==
    [w EXCEPT !.n = w.n + n,
              !.data = Buffer(w.n + n, LAMBDA k : IF k < w.n THEN w.data[k] ELSE buf[from + k - w.n])]

\* Mutant of GatherPacket: the packets are sent whole.
MutGatherWhole ==
    /\ place = "return" /\ surb.dir = "in" /\ i <= surb.np
    /\ wire' = WithData(wire, surb.buf, surb.iso[i].offset, surb.iso[i].length)
    /\ Loop(i + 1, total + surb.iso[i].length)
    /\ UNCHANGED <<place, curb, surb, starts>>

\* Of an isochronous IN URB, only what each packet moved, in a row: the padding
\* between the packets is not sent.
GatherPacket ==
    /\ place = "return" /\ surb.dir = "in" /\ i <= surb.np
    /\ wire' = WithData(wire, surb.buf, surb.iso[i].offset, surb.iso[i].actual)
    /\ Loop(i + 1, total + surb.iso[i].actual)
    /\ UNCHANGED <<place, curb, surb, starts>>

\* The total must be the actual length; then the descriptors are added and all
\* is sent.
ServerReturns ==
    /\ place = "return" /\ (surb.dir = "in" => i > surb.np)
    /\ wire' = [wire EXCEPT !.iso = surb.iso]
    /\ place' = IF surb.dir = "in" /\ surb.isoc /\ total # surb.actual THEN "error" ELSE "back"
    /\ UNCHANGED <<curb, surb, i, total, starts>>

\* vhci_recv_ret_submit, up to usbip_recv_iso: the header's numbers, and the
\* data, unless it is more than the buffer holds.
ClientUnpacks ==
    /\ place = "back"
    /\ LET urb == [curb EXCEPT !.actual = wire.actual, !.np = wire.np]
       IN IF XbuffSize("vhci", urb) > urb.length
          THEN curb' = urb /\ place' = "error"
          ELSE curb' = RecvXbuff("vhci", urb) /\ place' = "client_iso"
    /\ Loop(1, 0)
    /\ UNCHANGED <<surb, wire, starts>>

\* Mutant of PadMore: the loop stops one packet early.
MutPadStopsEarly(urb) == urb.isoc /\ urb.actual \notin {0, urb.length} /\ i > 2

\* usbip_pad_iso: the packets are moved to their offsets, the last one first;
\* the first one, and a buffer without padding, stay where they are.
PadMore(urb) == urb.isoc /\ urb.actual \notin {0, urb.length} /\ i > 1
MoveWithin(buf, to, from, n) ==
    [k \in DOMAIN buf |-> IF k \in to .. to + n - 1 THEN buf[from + k - to] ELSE buf[k]]
PadPacket ==
    /\ place = "pad" /\ PadMore(curb)
    /\ LET p == curb.iso[i]
       IN /\ total' = total - p.actual
          /\ curb' = [curb EXCEPT !.buf = MoveWithin(@, p.offset, total', p.actual)]
    /\ i' = i - 1
    /\ UNCHANGED <<place, surb, wire, starts>>
PadEnds ==
    /\ place = "pad" /\ ~PadMore(curb)
    /\ place' = "done"
    /\ UNCHANGED <<curb, surb, wire, i, total, starts>>

PayloadNext ==
    \/ ClientPacks \/ ServerUnpacks \/ RecvIsoPacket \/ RecvIsoEnds
    \/ DeviceMoves \/ DeviceMovesPacket \/ DeviceEnds
    \/ ServerSetsUp \/ GatherPacket \/ ServerReturns
    \/ ClientUnpacks \/ PadPacket \/ PadEnds

PayloadSpec == PayloadInit /\ [][PayloadNext]_payloadVars

-------------------------------------------------------------------------------

\* No honest transfer is refused on the way, for the lengths the two ends compute
\* from the packets and from the URB always agree; and the receiver takes from
\* the stream exactly the data that was put into it, so that what follows is read
\* from its first byte on.
PayloadAccepted ==
    /\ place # "error"
    /\ place = "server" => wire.n = XbuffSize("stub", curb)
    /\ place = "back" => wire.n = XbuffSize("vhci", [curb EXCEPT !.actual = wire.actual])

\* What the device did is what the client's driver finds.  After an IN transfer
\* every byte the device moved is at the same place in the client's buffer, with
\* the same packet lengths; and the device of an OUT transfer sees the client's
\* bytes.
PayloadIntact ==
    /\ surb.dir = "out" /\ place \in {"device", "complete", "return", "back"} => surb.buf = curb.buf
    /\ place = "done" =>
          /\ curb.actual = surb.actual /\ curb.iso = surb.iso
          /\ surb.dir = "in" =>
                IF surb.isoc
                THEN \A j \in 1 .. surb.np :
                        \A b \in surb.iso[j].offset .. surb.iso[j].offset + surb.iso[j].actual - 1 :
                            curb.buf[b] = surb.buf[b]
                ELSE \A b \in 0 .. surb.actual - 1 : curb.buf[b] = surb.buf[b]

\* Whatever the byte orders of the two machines, the receiver of a header that is
\* under way reads the numbers the sender wrote, for every command and with every
\* number of the command's part.
HeadersAgree ==
    place \in {"server", "back"} =>
        \A from \in Orders, to \in Orders, cmd \in Commands :
            LET h == [command |-> cmd,
                      base |-> [k \in 1 .. 4 |-> Number(4 + k)],
                      u |-> [k \in 1 .. 5 |-> IF k <= BodyNumbers(cmd) THEN Number(8 + k) ELSE Number(0)]]
            IN Received(to, Wire(from, h)) = h

===============================================================================
