----------------------------- MODULE PayloadProofs -----------------------------
(***************************************************************************)
(* What holds of the payload of a URB for every length of the buffer,      *)
(* every number of isochronous packets, every layout of them and whatever  *)
(* the device moves of each: the two ends agree on all lengths, and the    *)
(* bytes the device moved are where it had put them.                       *)
(*                                                                         *)
(* No sum over the packets occurs in the invariant.  The history variable  *)
(* starts holds the partial sums the device has run through, and the loops *)
(* of the two ends are shown to run through the same ones: up in           *)
(* stub_send_ret_submit and usbip_recv_iso, down in usbip_pad_iso.         *)
(***************************************************************************)
EXTENDS Payload, TLAPS

-------------------------------------------------------------------------------
(* The inductive invariant.                                                   *)

Places == {"client", "server", "server_iso", "device", "complete", "return", "back",
           "client_iso", "pad", "done"}

Isos == UNION {[1 .. np -> Packet] : np \in 0 .. MaxPackets}
Bufs == UNION {[0 .. n - 1 -> Nat] : n \in Nat}
Urbs == [dir : {"in", "out"}, isoc : BOOLEAN, length : 0 .. MaxLength, actual : Nat,
         np : 0 .. MaxPackets, iso : Isos, buf : Bufs]
Wires == [length : Nat, actual : Nat, np : Nat, n : Nat, data : Bufs, iso : Isos]

UrbOK(u) ==
    /\ u \in Urbs /\ u.actual <= u.length
    /\ u.iso \in [1 .. u.np -> Packet] /\ u.buf \in [0 .. u.length - 1 -> Nat]
    /\ u.isoc \/ u.np = 0
TypeOK ==
    /\ place \in Places
    /\ UrbOK(curb) /\ InOrder(curb.iso, curb.np, curb.length)
    /\ UrbOK(surb)
    /\ wire \in Wires /\ wire.data \in [0 .. wire.n - 1 -> Nat]
    /\ i \in Nat /\ total \in Nat
    /\ starts \in [1 .. surb.np + 1 -> Nat]

Fresh == curb.actual = 0 /\ \A k \in 1 .. curb.np : curb.iso[k].actual = 0
SameUrb ==
    /\ surb.dir = curb.dir /\ surb.isoc = curb.isoc
    /\ surb.length = curb.length /\ surb.np = curb.np
SameLayout ==
    \A k \in 1 .. surb.np :
        surb.iso[k].offset = curb.iso[k].offset /\ surb.iso[k].length = curb.iso[k].length
OutSeen == surb.dir = "out" => surb.buf = curb.buf

\* The device has moved the first m packets.  The sums stay below the offsets,
\* and the gap between a sum and its offset never shrinks: this is why moving
\* the last packet first overwrites nothing, and why a full buffer has no gaps.
Gap(k) == surb.iso[k].offset - starts[k]
MovedUpTo(m) ==
    /\ starts[1] = 0
    /\ \A k \in 1 .. m : /\ surb.iso[k].actual <= surb.iso[k].length
                         /\ starts[k + 1] = starts[k] + surb.iso[k].actual
                         /\ Gap(k) <= surb.length - starts[m + 1]
    /\ \A j, k \in 1 .. m + 1 : j < k => starts[j] + surb.iso[j].actual <= starts[k]
    /\ \A k \in 1 .. m + 1 : k <= surb.np => starts[k] <= surb.iso[k].offset
    /\ \A j, k \in 1 .. m + 1 : j < k /\ k <= surb.np => Gap(j) <= Gap(k)
    /\ starts[m + 1] <= surb.length
AllMoved ==
    /\ SameUrb /\ SameLayout
    /\ surb.isoc => MovedUpTo(surb.np) /\ surb.actual = starts[surb.np + 1]

\* The data of the first m packets lie in a row, of the others at their offsets.
Row(buf, m) ==
    \A j \in 1 .. m : \A b \in 0 .. surb.iso[j].actual - 1 :
        buf[starts[j] + b] = surb.buf[surb.iso[j].offset + b]
Placed(buf, m) ==
    \A j \in m + 1 .. surb.np : \A b \in 0 .. surb.iso[j].actual - 1 :
        buf[surb.iso[j].offset + b] = surb.buf[surb.iso[j].offset + b]
Plain(buf) == \A b \in 0 .. surb.actual - 1 : buf[b] = surb.buf[b]

AtServer ==
    /\ Fresh
    /\ wire.length = curb.length /\ wire.np = curb.np /\ wire.iso = curb.iso
    /\ wire.n = (IF curb.dir = "out" THEN curb.length ELSE 0)
    /\ curb.dir = "out" => wire.data = curb.buf
AtServerIso ==
    /\ Fresh /\ SameUrb /\ OutSeen
    /\ wire.iso = curb.iso /\ surb.actual = 0 /\ total = 0
    /\ i \in 1 .. surb.np + 1 /\ \A k \in 1 .. i - 1 : surb.iso[k] = curb.iso[k]
    /\ starts[1] = 0
AtDevice ==
    /\ SameUrb /\ SameLayout /\ OutSeen
    /\ i \in 1 .. surb.np + 1 /\ MovedUpTo(i - 1) /\ surb.actual = starts[i]
AtReturn ==
    /\ AllMoved /\ OutSeen
    /\ wire.actual = surb.actual /\ wire.np = surb.np
    /\ i \in 1 .. surb.np + 1
    /\ surb.dir = "out" => wire.n = 0
    /\ surb.dir = "in" /\ surb.isoc => wire.n = starts[i] /\ total = starts[i] /\ Row(wire.data, i - 1)
    /\ surb.dir = "in" /\ ~surb.isoc => wire.n = surb.actual /\ Plain(wire.data)
AtBack ==
    /\ AllMoved /\ OutSeen
    /\ wire.actual = surb.actual /\ wire.np = surb.np /\ wire.iso = surb.iso
    /\ wire.n = (IF surb.dir = "out" THEN 0 ELSE surb.actual)
    /\ surb.dir = "in" => IF surb.isoc THEN Row(wire.data, surb.np) ELSE Plain(wire.data)
AtClientIso ==
    /\ AllMoved /\ curb.actual = surb.actual /\ wire.iso = surb.iso
    /\ i \in 1 .. surb.np + 1
    /\ surb.isoc => total = starts[i]
    /\ \A k \in 1 .. i - 1 : curb.iso[k] = surb.iso[k]
    /\ surb.dir = "in" => IF surb.isoc THEN Row(curb.buf, surb.np) ELSE Plain(curb.buf)
AtPad ==
    /\ AllMoved /\ curb.actual = surb.actual /\ curb.iso = surb.iso
    /\ i \in 0 .. surb.np
    /\ surb.isoc => total = starts[i + 1]
    /\ curb.actual \in {0, curb.length} => i = surb.np
    /\ surb.dir = "in" => IF surb.isoc THEN Row(curb.buf, i) /\ Placed(curb.buf, i)
                                       ELSE Plain(curb.buf)
AtDone ==
    /\ AllMoved /\ curb.actual = surb.actual /\ curb.iso = surb.iso
    /\ surb.dir = "in" => IF surb.isoc THEN Placed(curb.buf, 0) ELSE Plain(curb.buf)

PayloadInv ==
    /\ TypeOK
    /\ place = "client" => Fresh /\ surb.dir = "in"
    /\ place = "server" => AtServer /\ surb.dir = "in"
    /\ place = "server_iso" => AtServerIso
    /\ place = "device" => AtDevice
    /\ place = "complete" => AllMoved /\ OutSeen
    /\ place = "return" => AtReturn
    /\ place = "back" => AtBack
    /\ place = "client_iso" => AtClientIso
    /\ place = "pad" => AtPad
    /\ place = "done" => AtDone


-------------------------------------------------------------------------------
(* Updates of a URB and of the wire.                                          *)

\* The descriptors of usbip_recv_iso are those of a URB.
LEMMA IsosFacts == ASSUME NEW np \in 0 .. MaxPackets, NEW f \in [1 .. np -> Packet] PROVE f \in Isos
BY DEF Isos

\* A transfer buffer of any length.
LEMMA BufsFacts == ASSUME NEW n \in Nat, NEW f \in [0 .. n - 1 -> Nat] PROVE f \in Bufs
BY DEF Bufs

\* A message of the protocol without data or descriptors.
LEMMA NothingFacts ==
    /\ NoPackets \in [1 .. 0 -> Packet] /\ NoPackets \in Isos
    /\ Zeroed(0) \in [0 .. 0 - 1 -> Nat] /\ Zeroed(0) \in Bufs
<1>0. MaxPackets \in Nat /\ MaxLength \in Nat
  BY PayloadAssumption
<1>1. NoPackets \in [1 .. 0 -> Packet]
  BY DEF NoPackets
<1>2. Zeroed(0) \in [0 .. 0 - 1 -> Nat]
  BY DEF Zeroed, Buffer
<1>3. 0 \in 0 .. MaxPackets
  BY <1>0
<1> QED BY <1>1, <1>2, <1>3, IsosFacts, BufsFacts

\* A URB whose buffer is overwritten.
LEMMA BufferSet ==
    ASSUME NEW u, UrbOK(u), NEW b \in [0 .. u.length - 1 -> Nat],
           NEW v, v = [u EXCEPT !.buf = b]
    PROVE  /\ UrbOK(v) /\ v.buf = b /\ v.iso = u.iso /\ v.actual = u.actual
           /\ v.dir = u.dir /\ v.isoc = u.isoc /\ v.length = u.length /\ v.np = u.np
<1>1. u \in Urbs /\ u.length \in Nat
  BY PayloadAssumption DEF UrbOK, Urbs
<1>2. b \in Bufs
  BY <1>1, BufsFacts
<1>3. /\ v \in Urbs /\ v.buf = b /\ v.iso = u.iso /\ v.actual = u.actual
      /\ v.dir = u.dir /\ v.isoc = u.isoc /\ v.length = u.length /\ v.np = u.np
  BY <1>1, <1>2 DEF Urbs
<1> QED BY <1>3 DEF UrbOK

\* A URB one of whose packets is overwritten.
LEMMA PacketSet ==
    ASSUME NEW u, UrbOK(u), NEW k \in 1 .. u.np, NEW p \in Packet,
           NEW v, v = WithPacket(u, k, p)
    PROVE  /\ UrbOK(v) /\ v.iso = [u.iso EXCEPT ![k] = p] /\ v.buf = u.buf /\ v.actual = u.actual
           /\ v.dir = u.dir /\ v.isoc = u.isoc /\ v.length = u.length /\ v.np = u.np
<1>1. u \in Urbs /\ u.iso \in [1 .. u.np -> Packet] /\ u.np \in 0 .. MaxPackets
  BY DEF UrbOK, Urbs
<1> DEFINE f == [u.iso EXCEPT ![k] = p]
<1>2. f \in [1 .. u.np -> Packet]
  BY <1>1
<1>3. f \in Isos
  BY <1>1, <1>2, IsosFacts
<1>4. v = [u EXCEPT !.iso = f]
  BY DEF WithPacket
<1> HIDE DEF f
<1>5. /\ v \in Urbs /\ v.iso = f /\ v.buf = u.buf /\ v.actual = u.actual
      /\ v.dir = u.dir /\ v.isoc = u.isoc /\ v.length = u.length /\ v.np = u.np
  BY <1>1, <1>3, <1>4 DEF Urbs
<1>6. UrbOK(v)
  BY <1>2, <1>5 DEF UrbOK
<1> QED BY <1>5, <1>6 DEF f

-------------------------------------------------------------------------------
(* The invariant holds at first and is kept by every step.                    *)

LEMMA PayloadInvInit == PayloadInit => PayloadInv
<1> SUFFICES ASSUME PayloadInit PROVE PayloadInv
  OBVIOUS
<1>0. MaxPackets \in Nat /\ MaxLength \in Nat
  BY PayloadAssumption
<1>1. PICK dir \in {"in", "out"}, length \in 0 .. MaxLength :
         \/ curb = Submitted(dir, FALSE, length, 0, NoPackets)
         \/ \E np \in 0 .. MaxPackets : \E iso \in Layouts(np, length) :
               curb = Submitted(dir, TRUE, length, np, iso)
  BY DEF PayloadInit
<1>A. PICK isoc \in BOOLEAN, np \in 0 .. MaxPackets : \E iso :
         /\ curb = Submitted(dir, isoc, length, np, iso)
         /\ iso \in [1 .. np -> Packet] /\ InOrder(iso, np, length)
         /\ \A k \in 1 .. np : iso[k].actual = 0
         /\ isoc \/ np = 0
  <2>1. CASE curb = Submitted(dir, FALSE, length, 0, NoPackets)
    <3>1. InOrder(NoPackets, 0, length) /\ 0 \in 0 .. MaxPackets
      BY <1>0 DEF InOrder
    <3>2. \A k \in 1 .. 0 : NoPackets[k].actual = 0
      OBVIOUS
    <3> QED BY <2>1, <3>1, <3>2, NothingFacts
  <2>2. ASSUME NEW np \in 0 .. MaxPackets, NEW iso \in Layouts(np, length),
               curb = Submitted(dir, TRUE, length, np, iso)
        PROVE  /\ curb = Submitted(dir, TRUE, length, np, iso)
               /\ iso \in [1 .. np -> Packet] /\ InOrder(iso, np, length)
               /\ \A k \in 1 .. np : iso[k].actual = 0
    BY <2>2 DEF Layouts
  <2> QED BY <1>1, <2>1, <2>2
<1>2. PICK iso :
         /\ curb = Submitted(dir, isoc, length, np, iso)
         /\ iso \in [1 .. np -> Packet] /\ InOrder(iso, np, length)
         /\ \A k \in 1 .. np : iso[k].actual = 0
         /\ isoc \/ np = 0
  BY <1>A
<1>3. PICK buf : /\ buf = [k \in 0 .. length - 1 |-> IF dir = "out" THEN k + 1 ELSE 0]
                 /\ buf \in [0 .. length - 1 -> Nat] /\ buf \in Bufs
  <2> DEFINE b == [k \in 0 .. length - 1 |-> IF dir = "out" THEN k + 1 ELSE 0]
  <2>1. b \in [0 .. length - 1 -> Nat] /\ length \in Nat
    BY <1>0
  <2> HIDE DEF b
  <2>2. b \in Bufs
    BY <2>1, BufsFacts
  <2> QED BY <2>1, <2>2 DEF b
<1>4. curb = [dir |-> dir, isoc |-> isoc, length |-> length, actual |-> 0, np |-> np, iso |-> iso,
              buf |-> buf]
  BY <1>2, <1>3 DEF Submitted, Buffer
<1>5. UrbOK(curb) /\ InOrder(curb.iso, curb.np, curb.length) /\ Fresh
  <2>1. iso \in Isos
    BY <1>2, IsosFacts
  <2>2. /\ curb.dir = dir /\ curb.isoc = isoc /\ curb.length = length /\ curb.actual = 0
        /\ curb.np = np /\ curb.iso = iso /\ curb.buf = buf
    BY <1>4
  <2>3. curb \in Urbs
    BY <1>0, <1>2, <1>3, <1>4, <2>1 DEF Urbs
  <2>4. UrbOK(curb)
    BY <1>0, <1>2, <1>3, <2>2, <2>3 DEF UrbOK
  <2> QED BY <1>2, <2>2, <2>4 DEF Fresh
<1>6. UrbOK(surb) /\ surb.dir = "in" /\ surb.np = 0
  BY <1>0, NothingFacts DEF PayloadInit, NoUrb, UrbOK, Urbs
<1>7. wire \in Wires /\ wire.data \in [0 .. wire.n - 1 -> Nat]
  BY NothingFacts DEF PayloadInit, NoWire, Wires
<1>8. i \in Nat /\ total \in Nat /\ starts \in [1 .. surb.np + 1 -> Nat] /\ place = "client"
  BY <1>6 DEF PayloadInit
<1> QED BY <1>5, <1>6, <1>7, <1>8 DEF PayloadInv, TypeOK, Places

\* The client packs.
LEMMA ClientPacksInv == PayloadInv /\ ClientPacks => PayloadInv'
<1> SUFFICES ASSUME PayloadInv, ClientPacks PROVE PayloadInv'
  OBVIOUS
<1>1. TypeOK /\ Fresh /\ surb.dir = "in" /\ place' = "server"
  BY DEF PayloadInv, ClientPacks
<1>2. /\ curb \in Urbs /\ curb.iso \in Isos /\ curb.buf \in Bufs /\ curb.length \in Nat
      /\ curb.np \in Nat /\ curb.buf \in [0 .. curb.length - 1 -> Nat]
  BY <1>1, PayloadAssumption DEF TypeOK, UrbOK, Urbs
<1>3. PICK n, data : /\ wire' = [length |-> curb.length, actual |-> 0, np |-> curb.np, n |-> n,
                                 data |-> data, iso |-> curb.iso]
                     /\ n = (IF curb.dir = "out" THEN curb.length ELSE 0)
                     /\ data = (IF curb.dir = "out" THEN curb.buf ELSE Zeroed(0))
  BY DEF ClientPacks
<1>4. n \in Nat /\ data \in Bufs /\ data \in [0 .. n - 1 -> Nat]
  BY <1>2, <1>3, NothingFacts
<1>5. wire' \in Wires /\ wire'.data \in [0 .. wire'.n - 1 -> Nat]
  BY <1>2, <1>3, <1>4 DEF Wires
<1>6. TypeOK'
  BY <1>1, <1>5 DEF TypeOK, ClientPacks, Places, UrbOK
<1>7. AtServer'
  BY <1>1, <1>3 DEF AtServer, Fresh, ClientPacks
<1> QED BY <1>1, <1>6, <1>7 DEF PayloadInv, ClientPacks


\* The server unpacks the header and the data.
LEMMA ServerUnpacksInv == PayloadInv /\ ServerUnpacks => PayloadInv'
<1> SUFFICES ASSUME PayloadInv, ServerUnpacks PROVE PayloadInv'
  OBVIOUS
<1>1. TypeOK /\ AtServer /\ place' = "server_iso"
  BY DEF PayloadInv, ServerUnpacks
<1>2. /\ curb \in Urbs /\ curb.iso \in [1 .. curb.np -> Packet] /\ curb.length \in Nat
      /\ curb.buf \in [0 .. curb.length - 1 -> Nat] /\ curb.np \in 0 .. MaxPackets
      /\ curb.np \in Nat /\ (curb.isoc \/ curb.np = 0)
  BY <1>1, PayloadAssumption DEF TypeOK, UrbOK, Urbs
<1>3. PICK z : z = Zeroed(curb.length) /\ z \in [0 .. curb.length - 1 -> Nat] /\ z \in Bufs
  <2>1. Zeroed(curb.length) \in [0 .. curb.length - 1 -> Nat]
    BY DEF Zeroed, Buffer
  <2> QED BY <1>2, <2>1, BufsFacts
<1>4. PICK ps : /\ ps = [k \in 1 .. curb.np |-> NoPacket]
                /\ ps \in [1 .. curb.np -> Packet] /\ ps \in Isos
  <2>1. NoPacket \in Packet
    BY PayloadAssumption DEF NoPacket, Packet
  <2> DEFINE f == [k \in 1 .. curb.np |-> NoPacket]
  <2>2. f \in [1 .. curb.np -> Packet]
    BY <2>1
  <2> HIDE DEF f
  <2>3. f \in Isos
    BY <1>2, <2>2, IsosFacts
  <2> QED BY <2>2, <2>3 DEF f
<1>5. PICK r : /\ r = [dir |-> curb.dir, isoc |-> curb.isoc, length |-> wire.length, actual |-> 0,
                       np |-> wire.np, iso |-> [k \in 1 .. wire.np |-> NoPacket],
                       buf |-> Zeroed(wire.length)]
               /\ surb' = RecvXbuff("stub", r)
  BY DEF ServerUnpacks
<1>6. /\ r \in Urbs /\ r.dir = curb.dir /\ r.isoc = curb.isoc /\ r.length = curb.length
      /\ r.actual = 0 /\ r.np = curb.np /\ r.iso = ps /\ r.buf = z
  <2>1. r = [dir |-> curb.dir, isoc |-> curb.isoc, length |-> curb.length, actual |-> 0,
             np |-> curb.np, iso |-> ps, buf |-> z]
    BY <1>1, <1>3, <1>4, <1>5 DEF AtServer
  <2> QED BY <1>2, <1>3, <1>4, <2>1 DEF Urbs
<1>7. UrbOK(r)
  BY <1>2, <1>3, <1>4, <1>6 DEF UrbOK
<1>8. PICK b : /\ b = [k \in DOMAIN r.buf |-> IF k < XbuffSize("stub", r) THEN wire.data[k] ELSE r.buf[k]]
               /\ b \in [0 .. r.length - 1 -> Nat]
               /\ r.dir = "out" => b = curb.buf
  <2> DEFINE f == [k \in DOMAIN r.buf |-> IF k < XbuffSize("stub", r) THEN wire.data[k] ELSE r.buf[k]]
  <2>1. DOMAIN r.buf = 0 .. curb.length - 1
    BY <1>3, <1>6
  <2>2. CASE r.dir = "in"
    <3>1. XbuffSize("stub", r) = 0
      BY <2>2 DEF XbuffSize
    <3>2. \A k \in 0 .. curb.length - 1 : ~(k < 0)
      BY <1>2
    <3>3. f = [k \in 0 .. curb.length - 1 |-> z[k]]
      BY <1>6, <2>1, <3>1, <3>2
    <3>4. f \in [0 .. curb.length - 1 -> Nat]
      BY <1>3, <3>3
    <3> QED BY <1>6, <2>2, <3>4
  <2>3. CASE r.dir = "out"
    <3>1. XbuffSize("stub", r) = curb.length /\ wire.data = curb.buf
      BY <1>1, <1>6, <2>3 DEF XbuffSize, AtServer
    <3>2. f = curb.buf
      BY <1>2, <2>1, <3>1, SMTT(60)
    <3> QED BY <1>2, <1>6, <3>2
  <2> QED BY <1>6, <2>2, <2>3 DEF Urbs
<1>9. surb' = [r EXCEPT !.buf = b]
  BY <1>5, <1>8 DEF RecvXbuff
<1>10. /\ UrbOK(surb') /\ surb'.buf = b /\ surb'.iso = ps /\ surb'.actual = 0
       /\ surb'.dir = curb.dir /\ surb'.isoc = curb.isoc /\ surb'.length = curb.length
       /\ surb'.np = curb.np
  BY <1>6, <1>7, <1>8, <1>9, BufferSet
<1>11. starts' = [k \in 1 .. curb.np + 1 |-> 0] /\ i' = 1 /\ total' = 0
  BY <1>1 DEF AtServer, ServerUnpacks, Loop
<1>12. starts' \in [1 .. surb'.np + 1 -> Nat]
  BY <1>10, <1>11
<1>13. TypeOK'
  BY <1>1, <1>10, <1>11, <1>12 DEF TypeOK, ServerUnpacks, Places, UrbOK
<1>14. AtServerIso'
  <2>1. Fresh' /\ SameUrb' /\ OutSeen' /\ wire'.iso = curb'.iso
    BY <1>1, <1>6, <1>8, <1>10 DEF ServerUnpacks, AtServer, Fresh, SameUrb, OutSeen
  <2> QED BY <1>2, <1>10, <1>11, <2>1 DEF AtServerIso
<1> QED BY <1>1, <1>13, <1>14 DEF PayloadInv

\* The server unpacks a packet descriptor: nothing has been moved yet.
LEMMA ServerIsoInv ==
    PayloadInv /\ RecvIsoPacket /\ place = "server_iso" => PayloadInv'
<1> SUFFICES ASSUME PayloadInv, RecvIsoPacket, place = "server_iso" PROVE PayloadInv'
  OBVIOUS
<1>1. TypeOK /\ AtServerIso /\ place' = "server_iso" /\ UNCHANGED <<curb, wire, starts>>
  BY DEF PayloadInv, RecvIsoPacket
<1>2. /\ surb' = WithPacket(surb, i, curb.iso[i]) /\ i \in 1 .. surb.np /\ i' = i + 1
      /\ total' = 0 + curb.iso[i].actual /\ surb.np = curb.np /\ surb.np \in Nat
      /\ curb.iso \in [1 .. curb.np -> Packet] /\ surb.iso \in [1 .. surb.np -> Packet]
  BY <1>1, PayloadAssumption DEF RecvIsoPacket, AtServerIso, Loop, SameUrb, TypeOK, UrbOK, Urbs
<1>3. curb.iso[i] \in Packet /\ curb.iso[i].actual = 0
  BY <1>1, <1>2 DEF AtServerIso, Fresh
<1>4. /\ UrbOK(surb') /\ surb'.iso = [surb.iso EXCEPT ![i] = curb.iso[i]] /\ surb'.buf = surb.buf
      /\ surb'.actual = surb.actual /\ surb'.dir = surb.dir /\ surb'.isoc = surb.isoc
      /\ surb'.length = surb.length /\ surb'.np = surb.np
  BY <1>1, <1>2, <1>3, PacketSet DEF TypeOK
<1>5. TypeOK'
  BY <1>1, <1>2, <1>3, <1>4 DEF TypeOK, Places, UrbOK
<1>6. \A k \in 1 .. i' - 1 : surb'.iso[k] = curb.iso[k]
  BY <1>1, <1>2, <1>4 DEF AtServerIso
<1>7. AtServerIso'
  BY <1>1, <1>2, <1>3, <1>4, <1>6 DEF AtServerIso, Fresh, SameUrb, OutSeen
<1> QED BY <1>1, <1>5, <1>7 DEF PayloadInv

\* What is said of the moved packets is said of surb and starts alone.
LEMMA MovedFrame ==
    ASSUME UNCHANGED <<surb, starts>>
    PROVE  /\ \A m : MovedUpTo(m)' <=> MovedUpTo(m)
           /\ \A buf, m : Row(buf, m)' <=> Row(buf, m)
           /\ \A buf, m : Placed(buf, m)' <=> Placed(buf, m)
           /\ \A buf : Plain(buf)' <=> Plain(buf)
BY DEF MovedUpTo, Gap, Row, Placed, Plain

\* The client unpacks a packet descriptor: its sum is the device's.
LEMMA ClientIsoInv ==
    PayloadInv /\ RecvIsoPacket /\ place = "client_iso" => PayloadInv'
<1> SUFFICES ASSUME PayloadInv, RecvIsoPacket, place = "client_iso" PROVE PayloadInv'
  OBVIOUS
<1>1. TypeOK /\ AtClientIso /\ place' = "client_iso" /\ UNCHANGED <<surb, wire, starts>>
  BY DEF PayloadInv, RecvIsoPacket
<1>2. /\ curb' = WithPacket(curb, i, surb.iso[i]) /\ i \in 1 .. curb.np /\ i' = i + 1
      /\ total' = total + surb.iso[i].actual /\ surb.np = curb.np /\ surb.np \in Nat
      /\ curb.iso \in [1 .. curb.np -> Packet] /\ surb.iso \in [1 .. surb.np -> Packet]
      /\ surb.isoc
  BY <1>1, PayloadAssumption
  DEF RecvIsoPacket, AtClientIso, AllMoved, Loop, SameUrb, TypeOK, UrbOK, Urbs
<1>3. surb.iso[i] \in Packet
  BY <1>2
<1>4. /\ UrbOK(curb') /\ curb'.iso = [curb.iso EXCEPT ![i] = surb.iso[i]] /\ curb'.buf = curb.buf
      /\ curb'.actual = curb.actual /\ curb'.dir = curb.dir /\ curb'.isoc = curb.isoc
      /\ curb'.length = curb.length /\ curb'.np = curb.np
  BY <1>1, <1>2, <1>3, PacketSet DEF TypeOK
<1>5. \A k \in 1 .. curb.np : /\ curb'.iso[k].offset = curb.iso[k].offset
                              /\ curb'.iso[k].length = curb.iso[k].length
  BY <1>1, <1>2, <1>4 DEF AtClientIso, AllMoved, SameLayout
<1>6. InOrder(curb'.iso, curb'.np, curb'.length)
  BY <1>1, <1>2, <1>4, <1>5 DEF InOrder, TypeOK
<1>7. surb.iso[i].actual \in Nat /\ total' \in Nat
  <2>1. surb.iso[i].actual \in Nat
    BY <1>3, PayloadAssumption DEF Packet
  <2> QED BY <1>1, <1>2, <2>1 DEF TypeOK
<1>8. TypeOK'
  BY <1>1, <1>2, <1>4, <1>6, <1>7 DEF TypeOK, Places, UrbOK
<1>9. total' = starts[i']
  BY <1>1, <1>2 DEF AtClientIso, AllMoved, MovedUpTo
<1>10. \A k \in 1 .. i' - 1 : curb'.iso[k] = surb.iso[k]
  BY <1>1, <1>2, <1>4 DEF AtClientIso
<1>11. AllMoved'
  <2>1. SameUrb'
    BY <1>1, <1>4 DEF AtClientIso, AllMoved, SameUrb
  <2>2. SameLayout'
    BY <1>1, <1>2, <1>5 DEF AtClientIso, AllMoved, SameLayout
  <2> QED BY <1>1, <2>1, <2>2, MovedFrame DEF AtClientIso, AllMoved
<1>12. AtClientIso'
  BY <1>1, <1>2, <1>4, <1>9, <1>10, <1>11, MovedFrame DEF AtClientIso
<1> QED BY <1>1, <1>8, <1>12 DEF PayloadInv

\* The server has unpacked the descriptors: the sum is 0, as it should be.
LEMMA ServerIsoEndsInv ==
    PayloadInv /\ RecvIsoEnds /\ place = "server_iso" => PayloadInv'
<1> SUFFICES ASSUME PayloadInv, RecvIsoEnds, place = "server_iso" PROVE PayloadInv'
  OBVIOUS
<1>1. TypeOK /\ AtServerIso /\ UNCHANGED <<curb, surb, wire, starts>>
  BY DEF PayloadInv, RecvIsoEnds
<1>2. surb.np = curb.np /\ surb.np \in Nat /\ curb.np \in Nat /\ i = surb.np + 1
  BY <1>1, PayloadAssumption DEF RecvIsoEnds, AtServerIso, SameUrb, TypeOK, UrbOK, Urbs
<1>3. place' = "device" /\ i' = 1 /\ total' = 0
  BY <1>1 DEF RecvIsoEnds, Loop, SumWrong, AtServerIso
<1>4. TypeOK'
  BY <1>1, <1>3 DEF TypeOK, Places, UrbOK
<1>5. SameLayout
  BY <1>1, <1>2 DEF AtServerIso, SameLayout
<1>6. MovedUpTo(0)
  <2>1. surb.np > 0 => surb.iso[1].offset = 0
    BY <1>1, <1>2 DEF AtServerIso, TypeOK, InOrder
  <2>2. surb.length \in Nat
    BY <1>1, PayloadAssumption DEF TypeOK, UrbOK, Urbs
  <2> QED BY <1>1, <1>2, <2>1, <2>2 DEF MovedUpTo, AtServerIso
<1>7. AtDevice'
  <2>1. 1 \in 1 .. surb.np + 1 /\ 1 - 1 = 0
    BY <1>2
  <2> QED BY <1>1, <1>3, <1>5, <1>6, <2>1, MovedFrame
          DEF AtDevice, AtServerIso, SameUrb, SameLayout, OutSeen
<1> QED BY <1>1, <1>3, <1>4, <1>7 DEF PayloadInv

\* The client has unpacked the descriptors: the sum is what the device moved.
LEMMA ClientIsoEndsInv ==
    PayloadInv /\ RecvIsoEnds /\ place = "client_iso" => PayloadInv'
<1> SUFFICES ASSUME PayloadInv, RecvIsoEnds, place = "client_iso" PROVE PayloadInv'
  OBVIOUS
<1>1. TypeOK /\ AtClientIso /\ UNCHANGED <<curb, surb, wire, starts>>
  BY DEF PayloadInv, RecvIsoEnds
<1>2. surb.np = curb.np /\ surb.np \in Nat /\ curb.np \in Nat /\ i = surb.np + 1
  BY <1>1, PayloadAssumption
  DEF RecvIsoEnds, AtClientIso, AllMoved, SameUrb, TypeOK, UrbOK, Urbs
<1>3. surb.isoc => total = surb.actual
  BY <1>1, <1>2 DEF AtClientIso, AllMoved
<1>4. place' = "pad" /\ i' = surb.np /\ total' = surb.actual
  BY <1>1, <1>2, <1>3 DEF RecvIsoEnds, Loop, SumWrong, AtClientIso, AllMoved, SameUrb
<1>5. TypeOK'
  BY <1>1, <1>2, <1>4 DEF TypeOK, Places, UrbOK, Urbs
<1>6. curb.iso = surb.iso
  <2>1. \A k \in 1 .. surb.np : curb.iso[k] = surb.iso[k]
    BY <1>1, <1>2 DEF AtClientIso
  <2> QED BY <1>1, <1>2, <2>1 DEF TypeOK, UrbOK
<1>7. \A buf : Placed(buf, surb.np)
  BY <1>2 DEF Placed
<1>8. AllMoved'
  BY <1>1, MovedFrame DEF AtClientIso, AllMoved, SameUrb, SameLayout
<1>9. AtPad'
  BY <1>1, <1>2, <1>4, <1>6, <1>7, <1>8, MovedFrame DEF AtPad, AtClientIso, AllMoved
<1> QED BY <1>1, <1>4, <1>5, <1>9 DEF PayloadInv


\* What the device writes is a buffer again.
LEMMA FilledFacts ==
    ASSUME NEW u, UrbOK(u), NEW from \in Nat, NEW n \in Nat
    PROVE  /\ Filled(u, from, n) \in [0 .. u.length - 1 -> Nat]
           /\ u.dir = "out" => Filled(u, from, n) = u.buf
           /\ u.dir = "in" => \A k \in 0 .. u.length - 1 :
                 k \notin from .. from + n - 1 => Filled(u, from, n)[k] = u.buf[k]
<1>1. u.buf \in [0 .. u.length - 1 -> Nat] /\ u.length \in Nat /\ u.dir \in {"in", "out"}
  BY PayloadAssumption DEF UrbOK, Urbs
<1>2. \A k \in 0 .. u.length - 1 : k + 1 \in Nat /\ u.buf[k] \in Nat
  BY <1>1
<1>3. CASE u.dir = "out"
  BY <1>1, <1>3 DEF Filled
<1>4. CASE u.dir = "in"
  <2>1. Filled(u, from, n)
          = [k \in 0 .. u.length - 1 |-> IF k \in from .. from + n - 1 THEN k + 1 ELSE u.buf[k]]
    BY <1>1, <1>4 DEF Filled
  <2> QED BY <1>2, <1>4, <2>1, Zenon
<1> QED BY <1>1, <1>3, <1>4

\* The device moves the data of a URB that is not isochronous.
LEMMA DeviceMovesInv == PayloadInv /\ DeviceMoves => PayloadInv'
<1> SUFFICES ASSUME PayloadInv, DeviceMoves PROVE PayloadInv'
  OBVIOUS
<1>1. /\ TypeOK /\ AtDevice /\ ~surb.isoc /\ place' = "complete"
      /\ UNCHANGED <<curb, wire, i, total, starts>>
  BY DEF PayloadInv, DeviceMoves
<1>2. PICK n \in 0 .. surb.length : surb' = [surb EXCEPT !.actual = n, !.buf = Filled(surb, 0, n)]
  BY DEF DeviceMoves
<1>3. /\ surb \in Urbs /\ surb.iso \in [1 .. surb.np -> Packet] /\ surb.length \in Nat
      /\ surb.np = 0 /\ n \in Nat /\ n <= surb.length
  BY <1>1, <1>2, PayloadAssumption DEF TypeOK, UrbOK, Urbs
<1>4. PICK b : b = Filled(surb, 0, n) /\ b \in [0 .. surb.length - 1 -> Nat] /\ b \in Bufs
               /\ (surb.dir = "out" => b = surb.buf)
  <2> DEFINE f == Filled(surb, 0, n)
  <2>1. UrbOK(surb) /\ 0 \in Nat
    BY <1>1 DEF TypeOK
  <2>2. f \in [0 .. surb.length - 1 -> Nat] /\ (surb.dir = "out" => f = surb.buf)
    BY <1>3, <2>1, FilledFacts
  <2> HIDE DEF f
  <2>3. f \in Bufs
    BY <1>3, <2>2, BufsFacts
  <2> QED BY <2>2, <2>3 DEF f
<1>5. /\ surb' \in Urbs /\ surb'.dir = surb.dir /\ surb'.isoc = surb.isoc /\ surb'.length = surb.length
      /\ surb'.np = surb.np /\ surb'.iso = surb.iso /\ surb'.actual = n /\ surb'.buf = b
  BY <1>2, <1>3, <1>4 DEF Urbs
<1>6. UrbOK(surb')
  BY <1>1, <1>3, <1>4, <1>5 DEF UrbOK, TypeOK
<1>7. TypeOK'
  BY <1>1, <1>5, <1>6 DEF TypeOK, Places, UrbOK
<1>8. AllMoved'
  BY <1>1, <1>3, <1>5 DEF AllMoved, AtDevice, SameUrb, SameLayout
<1>9. OutSeen'
  BY <1>1, <1>4, <1>5 DEF AtDevice, OutSeen
<1> QED BY <1>1, <1>7, <1>8, <1>9 DEF PayloadInv

\* The device moves the data of a packet: the sums go on, below the offsets.
LEMMA DeviceMovesPacketInv == PayloadInv /\ DeviceMovesPacket => PayloadInv'
<1> SUFFICES ASSUME PayloadInv, DeviceMovesPacket PROVE PayloadInv'
  OBVIOUS
<1>1. /\ TypeOK /\ AtDevice /\ surb.isoc /\ i <= surb.np /\ place' = place /\ place = "device"
      /\ UNCHANGED <<curb, wire, total>> /\ i' = i + 1
  BY DEF PayloadInv, DeviceMovesPacket
<1>2. PICK m \in 1 .. surb.np, np \in Nat, length \in Nat :
         /\ m = i /\ np = surb.np /\ length = surb.length
         /\ m \in 1 .. np /\ m \in Nat
  BY <1>1, PayloadAssumption DEF AtDevice, TypeOK, UrbOK, Urbs
<1>A. PICK n \in 0 .. surb.iso[m].length :
         /\ surb' = [WithPacket(surb, m, [surb.iso[m] EXCEPT !.actual = n])
                       EXCEPT !.actual = surb.actual + n, !.buf = Filled(surb, surb.iso[m].offset, n)]
         /\ starts' = [starts EXCEPT ![m + 1] = surb.actual + n]
  BY <1>2 DEF DeviceMovesPacket
<1>3. PICK p :
         /\ p = [surb.iso[m] EXCEPT !.actual = n]
         /\ surb' = [WithPacket(surb, m, p)
                       EXCEPT !.actual = surb.actual + n, !.buf = Filled(surb, surb.iso[m].offset, n)]
         /\ starts' = [starts EXCEPT ![m + 1] = surb.actual + n]
  BY <1>A
<1>4. /\ surb.iso \in [1 .. np -> Packet] /\ starts \in [1 .. np + 1 -> Nat]
      /\ surb.np \in 0 .. MaxPackets /\ surb.length \in 0 .. MaxLength
  BY <1>1, <1>2 DEF TypeOK, UrbOK, Urbs
<1>5. \A k \in 1 .. np : /\ surb.iso[k].offset \in Nat /\ surb.iso[k].length \in Nat
                         /\ surb.iso[k].actual \in Nat
  <2> SUFFICES ASSUME NEW k \in 1 .. np
               PROVE  /\ surb.iso[k].offset \in Nat /\ surb.iso[k].length \in Nat
                      /\ surb.iso[k].actual \in Nat
    OBVIOUS
  <2>1. surb.iso[k] \in Packet
    BY <1>4
  <2> QED BY <2>1, PayloadAssumption DEF Packet
<1>6. /\ \A k \in 1 .. np : surb.iso[k].offset + surb.iso[k].length <= length
      /\ \A j, k \in 1 .. np : j < k => surb.iso[j].offset + surb.iso[j].length <= surb.iso[k].offset
  BY <1>1, <1>2 DEF TypeOK, InOrder, AtDevice, SameUrb, SameLayout
<1>7. n \in Nat /\ n <= surb.iso[m].length /\ n <= MaxLength
  <2>1. surb.iso[m].length \in 0 .. MaxLength
    BY <1>2, <1>4 DEF Packet
  <2> QED BY <1>3, <2>1, PayloadAssumption
<1>8. /\ p \in Packet /\ p.offset = surb.iso[m].offset /\ p.length = surb.iso[m].length
      /\ p.actual = n
  <2>1. surb.iso[m] \in Packet /\ n \in 0 .. MaxLength
    BY <1>2, <1>4, <1>7, PayloadAssumption
  <2> QED BY <1>3, <2>1 DEF Packet
<1>9. PICK v : /\ v = WithPacket(surb, m, p)
               /\ UrbOK(v) /\ v.iso = [surb.iso EXCEPT ![m] = p] /\ v.buf = surb.buf
               /\ v.actual = surb.actual /\ v.dir = surb.dir /\ v.isoc = surb.isoc
               /\ v.length = surb.length /\ v.np = surb.np
  <2> DEFINE w == WithPacket(surb, m, p)
  <2>1. UrbOK(surb) /\ m \in 1 .. surb.np
    BY <1>1, <1>2 DEF TypeOK
  <2>2. /\ UrbOK(w) /\ w.iso = [surb.iso EXCEPT ![m] = p] /\ w.buf = surb.buf
        /\ w.actual = surb.actual /\ w.dir = surb.dir /\ w.isoc = surb.isoc
        /\ w.length = surb.length /\ w.np = surb.np
    BY <1>8, <2>1, PacketSet
  <2> HIDE DEF w
  <2> QED BY <2>2 DEF w
<1>10. PICK b : /\ b = Filled(surb, surb.iso[m].offset, n) /\ b \in [0 .. length - 1 -> Nat]
                /\ b \in Bufs /\ (surb.dir = "out" => b = surb.buf)
  <2>1. surb.iso[m].offset \in Nat
    BY <1>2, <1>5
  <2> DEFINE f == Filled(surb, surb.iso[m].offset, n)
  <2>2. UrbOK(surb)
    BY <1>1 DEF TypeOK
  <2>3. f \in [0 .. length - 1 -> Nat] /\ (surb.dir = "out" => f = surb.buf)
    BY <1>2, <1>7, <2>1, <2>2, FilledFacts, ZenonT(60)
  <2> HIDE DEF f
  <2>4. f \in Bufs
    BY <1>2, <2>3, BufsFacts
  <2> QED BY <2>3, <2>4 DEF f
<1>11. surb.actual = starts[m] /\ MovedUpTo(m - 1)
  BY <1>1, <1>2 DEF AtDevice
<1>12. /\ starts[m] + n \in Nat /\ starts[m] + n <= length
       /\ starts[m] <= surb.iso[m].offset
  <2>1. starts[m] <= surb.iso[m].offset
    BY <1>2, <1>11 DEF MovedUpTo
  <2>2. starts[m] \in Nat
    BY <1>2, <1>4
  <2> QED BY <1>2, <1>5, <1>6, <1>7, <2>1, <2>2
<1>13. /\ surb' \in Urbs /\ surb'.dir = surb.dir /\ surb'.isoc = surb.isoc
       /\ surb'.length = surb.length /\ surb'.np = surb.np
       /\ surb'.iso = [surb.iso EXCEPT ![m] = p] /\ surb'.actual = starts[m] + n /\ surb'.buf = b
  <2>1. v \in Urbs
    BY <1>9 DEF UrbOK
  <2>2. surb' = [v EXCEPT !.actual = starts[m] + n, !.buf = b]
    BY <1>3, <1>9, <1>10, <1>11
  <2> QED BY <1>9, <1>10, <1>12, <2>1, <2>2 DEF Urbs
<1>14. UrbOK(surb')
  BY <1>2, <1>9, <1>10, <1>12, <1>13 DEF UrbOK
<1>15. /\ starts' \in [1 .. np + 1 -> Nat] /\ starts'[m + 1] = starts[m] + n
       /\ \A k \in 1 .. np + 1 : k # m + 1 => starts'[k] = starts[k]
       /\ \A k \in 1 .. m : starts'[k] = starts[k]
  <2>1. m + 1 \in 1 .. np + 1
    BY <1>2
  <2>2. \A k \in 1 .. m : k \in 1 .. np + 1 /\ k # m + 1
    BY <1>2
  <2> QED BY <1>3, <1>4, <1>11, <1>12, <2>1, <2>2
<1>16. /\ \A k \in 1 .. np : surb'.iso[k].offset = surb.iso[k].offset
                             /\ surb'.iso[k].length = surb.iso[k].length
       /\ \A k \in 1 .. np : k # m => surb'.iso[k].actual = surb.iso[k].actual
       /\ surb'.iso[m].actual = n
  BY <1>2, <1>4, <1>8, <1>13
<1>17. TypeOK'
  BY <1>1, <1>2, <1>13, <1>14, <1>15 DEF TypeOK, Places, UrbOK
<1>18. MovedUpTo(m)'
  <2>1. starts'[1] = 0
    BY <1>2, <1>11, <1>15 DEF MovedUpTo
  <2>2. ASSUME NEW j \in 1 .. m + 1, NEW k \in 1 .. m + 1, j < k
        PROVE  starts'[j] + surb'.iso[j].actual <= starts'[k]
    <3>1. CASE k \in 1 .. m
      <4>0. j \in 1 .. (m - 1) + 1 /\ k \in 1 .. (m - 1) + 1 /\ j \in 1 .. m /\ j \in 1 .. np /\ j # m
        BY <1>2, <2>2, <3>1
      <4>1. starts[j] + surb.iso[j].actual <= starts[k]
        BY <1>11, <2>2, <4>0 DEF MovedUpTo
      <4>2. starts'[j] = starts[j] /\ starts'[k] = starts[k]
        BY <1>15, <3>1, <4>0
      <4>3. surb'.iso[j].actual = surb.iso[j].actual
        BY <1>16, <4>0
      <4> QED BY <4>1, <4>2, <4>3
    <3>2. CASE k = m + 1 /\ j = m
      <4>1. m \in 1 .. m
        BY <1>2
      <4>2. starts'[m] = starts[m] /\ starts'[m + 1] = starts[m] + n /\ surb'.iso[m].actual = n
        BY <1>15, <1>16, <4>1
      <4>3. starts'[m] + surb'.iso[m].actual = starts'[m + 1] /\ starts'[m + 1] \in Nat
        <5>1. m + 1 \in 1 .. np + 1
          BY <1>2
        <5> QED BY <1>15, <4>2, <5>1
      <4>4. starts'[m] + surb'.iso[m].actual <= starts'[m + 1]
        BY <4>3
      <4> QED BY <3>2, <4>4
    <3>3. CASE k = m + 1 /\ j \in 1 .. m - 1
      <4>1. starts[j] + surb.iso[j].actual <= starts[m]
        BY <1>2, <1>11, <3>3 DEF MovedUpTo
      <4>2. starts'[j] = starts[j] /\ surb'.iso[j].actual = surb.iso[j].actual
        <5>1. j \in 1 .. m /\ j \in 1 .. np /\ j # m
          BY <1>2, <3>3
        <5>2. starts'[j] = starts[j]
          BY <1>15, <5>1
        <5>3. surb'.iso[j].actual = surb.iso[j].actual
          BY <1>16, <5>1
        <5> QED BY <5>2, <5>3
      <4>3. starts[j] \in Nat /\ starts[m] \in Nat /\ surb.iso[j].actual \in Nat
        <5>1. j \in 1 .. np + 1 /\ m \in 1 .. np + 1 /\ j \in 1 .. np
          BY <1>2, <3>3
        <5>2. starts[j] \in Nat /\ starts[m] \in Nat
          BY <1>4, <5>1
        <5>3. surb.iso[j].actual \in Nat
          BY <1>5, <5>1
        <5> QED BY <5>2, <5>3
      <4>4. starts'[k] = starts[m] + n
        BY <1>15, <3>3
      <4> QED BY <1>7, <4>1, <4>2, <4>3, <4>4
    <3> QED BY <1>2, <2>2, <3>1, <3>2, <3>3
  <2>3. ASSUME NEW k \in 1 .. m + 1, k <= np
        PROVE  starts'[k] <= surb'.iso[k].offset
    <3>1. CASE k \in 1 .. m
      <4>0. k \in 1 .. (m - 1) + 1 /\ k \in 1 .. np /\ k <= surb.np
        BY <1>2, <2>3, <3>1
      <4>1. starts[k] <= surb.iso[k].offset
        BY <1>11, <4>0 DEF MovedUpTo
      <4>2. starts'[k] = starts[k]
        BY <1>15, <3>1
      <4>3. surb'.iso[k].offset = surb.iso[k].offset
        BY <1>16, <4>0
      <4> QED BY <4>1, <4>2, <4>3
    <3>2. CASE k = m + 1
      <4>1. m \in 1 .. np /\ k \in 1 .. np /\ m < k
        BY <1>2, <2>3, <3>2
      <4>2. surb.iso[m].offset + surb.iso[m].length <= surb.iso[k].offset
        BY <1>6, <4>1
      <4>3. starts[m] \in Nat
        BY <1>4, <4>1
      <4>4. starts'[k] = starts[m] + n
        BY <1>15, <3>2
      <4>5. surb'.iso[k].offset = surb.iso[k].offset
        BY <1>16, <4>1
      <4>6. /\ surb.iso[m].offset \in Nat /\ surb.iso[m].length \in Nat
            /\ surb.iso[k].offset \in Nat
        BY <1>5, <4>1
      <4> QED BY <1>7, <1>12, <4>2, <4>3, <4>4, <4>5, <4>6
    <3> QED BY <1>2, <3>1, <3>2
  <2>4. ASSUME NEW j \in 1 .. m + 1, NEW k \in 1 .. m + 1, j < k, k <= np
        PROVE  Gap(j)' <= Gap(k)'
    <3>0. /\ j \in 1 .. m /\ j \in 1 .. np /\ k \in 1 .. np
          /\ starts'[j] = starts[j] /\ starts[j] \in Nat /\ starts[m] \in Nat
      <4>1. /\ j \in 1 .. m /\ j \in 1 .. np /\ k \in 1 .. np
            /\ j \in 1 .. np + 1 /\ m \in 1 .. np + 1
        BY <1>2, <2>4
      <4> QED BY <1>4, <1>15, <4>1
    <3>1. CASE k \in 1 .. m
      <4>1. Gap(j) <= Gap(k)
        <5>1. j \in 1 .. (m - 1) + 1 /\ k \in 1 .. (m - 1) + 1 /\ k <= surb.np
          BY <1>2, <2>4, <3>1
        <5> QED BY <1>11, <2>4, <5>1 DEF MovedUpTo
      <4> QED BY <1>15, <1>16, <3>0, <3>1, <4>1 DEF Gap
    <3>2. CASE k = m + 1
      <4>1. surb.iso[m].offset + surb.iso[m].length <= surb.iso[k].offset
        BY <1>2, <1>6, <3>0, <3>2
      <4>2. Gap(j) <= Gap(m)
        <5>1. CASE j = m
          BY <1>2, <1>5, <3>0, <5>1 DEF Gap
        <5>2. CASE j # m
          <6>1. j \in 1 .. (m - 1) + 1 /\ m \in 1 .. (m - 1) + 1 /\ j < m /\ m <= surb.np
            BY <1>2, <3>0, <5>2
          <6> QED BY <1>11, <6>1 DEF MovedUpTo
        <5> QED BY <5>1, <5>2
      <4>3. Gap(j)' = Gap(j) /\ Gap(k)' = surb.iso[k].offset - (starts[m] + n)
        BY <1>15, <1>16, <3>0, <3>2 DEF Gap
      <4> QED BY <1>2, <1>5, <1>7, <3>0, <4>1, <4>2, <4>3 DEF Gap
    <3> QED BY <1>2, <3>1, <3>2
  <2>5. ASSUME NEW k \in 1 .. m
        PROVE  /\ surb'.iso[k].actual <= surb'.iso[k].length
               /\ starts'[k + 1] = starts'[k] + surb'.iso[k].actual
               /\ Gap(k)' <= length - starts'[m + 1]
    <3>0. k \in 1 .. np /\ starts'[k] = starts[k] /\ starts[k] \in Nat /\ starts[m] \in Nat
      BY <1>2, <1>4, <1>15
    <3>1. Gap(k) <= Gap(m)
      <4>1. CASE k = m
        BY <1>2, <1>5, <3>0, <4>1 DEF Gap
      <4>2. CASE k # m
        <5>1. k \in 1 .. (m - 1) + 1 /\ m \in 1 .. (m - 1) + 1 /\ k < m /\ m <= surb.np
          BY <1>2, <3>0, <4>2
        <5> QED BY <1>11, <5>1 DEF MovedUpTo
      <4> QED BY <4>1, <4>2
    <3>2. Gap(k)' = Gap(k)
      BY <1>16, <3>0 DEF Gap
    <3>3. Gap(k)' <= length - starts'[m + 1]
      <4>1. surb.iso[m].offset + surb.iso[m].length <= length
        BY <1>2, <1>6
      <4>2. /\ surb.iso[m].offset \in Nat /\ surb.iso[m].length \in Nat
            /\ surb.iso[k].offset \in Nat
        BY <1>2, <1>5, <3>0
      <4>3. surb.iso[k].offset - starts[k] <= surb.iso[m].offset - starts[m]
        BY <3>1 DEF Gap
      <4>4. surb.iso[k].offset - starts[k] <= length - (starts[m] + n)
        BY <1>2, <1>7, <3>0, <4>1, <4>2, <4>3
      <4> QED BY <1>15, <3>2, <4>4 DEF Gap
    <3>4. CASE k = m
      BY <1>7, <1>15, <1>16, <3>0, <3>3, <3>4
    <3>5. CASE k \in 1 .. m - 1
      <4>1. surb.iso[k].actual <= surb.iso[k].length /\ starts[k + 1] = starts[k] + surb.iso[k].actual
        BY <1>11, <3>5 DEF MovedUpTo
      <4>2. k + 1 \in 1 .. m /\ k # m
        BY <1>2, <3>5
      <4> QED BY <1>15, <1>16, <3>0, <3>3, <4>1, <4>2
    <3> QED BY <1>2, <3>4, <3>5
  <2>6. surb'.length = length /\ surb'.np = np /\ starts'[m + 1] <= length
    BY <1>2, <1>12, <1>13, <1>15
  <2> QED BY <2>1, <2>2, <2>3, <2>4, <2>5, <2>6 DEF MovedUpTo
<1>19. AtDevice'
  <2>1. SameUrb' /\ OutSeen'
    BY <1>1, <1>10, <1>13 DEF AtDevice, SameUrb, OutSeen
  <2>2. SameLayout'
    BY <1>1, <1>2, <1>13, <1>16 DEF AtDevice, SameLayout
  <2>3. i' = m + 1 /\ i' - 1 = m /\ i' \in 1 .. surb'.np + 1 /\ surb'.actual = starts'[i']
    BY <1>1, <1>2, <1>13, <1>15
  <2> QED BY <1>18, <2>1, <2>2, <2>3 DEF AtDevice
<1> QED BY <1>1, <1>17, <1>19 DEF PayloadInv

\* The device has moved all packets.
LEMMA DeviceEndsInv == PayloadInv /\ DeviceEnds => PayloadInv'
<1> SUFFICES ASSUME PayloadInv, DeviceEnds PROVE PayloadInv'
  OBVIOUS
<1>1. /\ TypeOK /\ AtDevice /\ surb.isoc /\ i > surb.np /\ place' = "complete"
      /\ UNCHANGED <<curb, surb, wire, i, total, starts>>
  BY DEF PayloadInv, DeviceEnds
<1>2. i = surb.np + 1 /\ i - 1 = surb.np /\ surb.np \in Nat
  BY <1>1, PayloadAssumption DEF AtDevice, TypeOK, UrbOK, Urbs
<1>3. MovedUpTo(surb.np) /\ surb.actual = starts[surb.np + 1]
  BY <1>1, <1>2 DEF AtDevice
<1>4. AllMoved' /\ OutSeen'
  BY <1>1, <1>3, MovedFrame DEF AtDevice, AllMoved, SameUrb, SameLayout, OutSeen
<1>5. TypeOK'
  BY <1>1 DEF TypeOK, Places, UrbOK
<1> QED BY <1>1, <1>4, <1>5 DEF PayloadInv


\* What has been moved, in numbers: a packet's data lie within it, its sum
\* is not above its offset, and the packets follow one another.
LEMMA MovedFacts ==
    ASSUME TypeOK, AllMoved, surb.isoc
    PROVE  /\ surb.np \in Nat /\ surb.length \in Nat /\ surb.actual \in Nat
           /\ starts[1] = 0 /\ starts[surb.np + 1] = surb.actual /\ surb.actual <= surb.length
           /\ \A k \in 1 .. surb.np + 1 : starts[k] \in Nat
           /\ \A k \in 1 .. surb.np :
                 /\ surb.iso[k].offset \in Nat /\ surb.iso[k].length \in Nat
                 /\ surb.iso[k].actual \in Nat
                 /\ surb.iso[k].actual <= surb.iso[k].length
                 /\ surb.iso[k].offset + surb.iso[k].length <= surb.length
                 /\ starts[k + 1] = starts[k] + surb.iso[k].actual
                 /\ starts[k] <= surb.iso[k].offset
                 /\ Gap(k) <= surb.length - surb.actual
           /\ \A j, k \in 1 .. surb.np + 1 : j < k => starts[j] + surb.iso[j].actual <= starts[k]
           /\ \A j, k \in 1 .. surb.np :
                 j < k => surb.iso[j].offset + surb.iso[j].length <= surb.iso[k].offset
           /\ surb.np > 0 => surb.iso[1].offset = 0
<1>1. /\ surb \in Urbs /\ surb.iso \in [1 .. surb.np -> Packet]
      /\ starts \in [1 .. surb.np + 1 -> Nat] /\ surb.actual <= surb.length
      /\ InOrder(curb.iso, curb.np, curb.length) /\ SameUrb /\ SameLayout
      /\ MovedUpTo(surb.np) /\ surb.actual = starts[surb.np + 1]
  BY DEF TypeOK, UrbOK, AllMoved
<1>2. surb.np \in Nat /\ surb.length \in Nat /\ surb.actual \in Nat
  BY <1>1, PayloadAssumption DEF Urbs
<1>3. ASSUME NEW k \in 1 .. surb.np
      PROVE  /\ surb.iso[k].offset \in Nat /\ surb.iso[k].length \in Nat
             /\ surb.iso[k].actual \in Nat
  <2>1. surb.iso[k] \in Packet
    BY <1>1
  <2> QED BY <2>1, PayloadAssumption DEF Packet
<1>4. ASSUME NEW k \in 1 .. surb.np
      PROVE  /\ surb.iso[k].actual <= surb.iso[k].length
             /\ starts[k + 1] = starts[k] + surb.iso[k].actual
             /\ Gap(k) <= surb.length - starts[surb.np + 1]
  BY <1>1 DEF MovedUpTo
<1>5. ASSUME NEW k \in 1 .. surb.np
      PROVE  starts[k] <= surb.iso[k].offset
  <2>1. k \in 1 .. surb.np + 1 /\ k <= surb.np
    BY <1>2
  <2> QED BY <1>1, <2>1 DEF MovedUpTo
<1>6. /\ \A k \in 1 .. surb.np : surb.iso[k].offset + surb.iso[k].length <= surb.length
      /\ \A j, k \in 1 .. surb.np :
            j < k => surb.iso[j].offset + surb.iso[j].length <= surb.iso[k].offset
      /\ surb.np > 0 => surb.iso[1].offset = 0
  <2>1. surb.np = curb.np /\ surb.length = curb.length
    BY <1>1 DEF SameUrb
  <2>2. surb.np > 0 => 1 \in 1 .. surb.np
    BY <1>2
  <2> QED BY <1>1, <2>1, <2>2 DEF InOrder, SameLayout
<1>7. /\ starts[1] = 0
      /\ \A j, k \in 1 .. surb.np + 1 : j < k => starts[j] + surb.iso[j].actual <= starts[k]
  BY <1>1 DEF MovedUpTo
<1> QED BY <1>1, <1>2, <1>3, <1>4, <1>5, <1>6, <1>7

\* The server sets up the answer: the first kvecs.
LEMMA ServerSetsUpInv == PayloadInv /\ ServerSetsUp => PayloadInv'
<1> SUFFICES ASSUME PayloadInv, ServerSetsUp PROVE PayloadInv'
  OBVIOUS
<1>1. /\ TypeOK /\ AllMoved /\ OutSeen /\ place' = "return" /\ i' = 1 /\ total' = 0
      /\ UNCHANGED <<curb, surb, starts>>
  BY DEF PayloadInv, ServerSetsUp, Loop
<1>2. /\ surb.np \in Nat /\ surb.actual \in Nat /\ surb.actual <= surb.length /\ surb.length \in Nat
      /\ surb.buf \in [0 .. surb.length - 1 -> Nat] /\ surb.dir \in {"in", "out"}
  BY <1>1, PayloadAssumption DEF TypeOK, UrbOK, Urbs
<1>3. PICK n, data :
         /\ n = (IF surb.dir = "in" /\ ~surb.isoc THEN surb.actual ELSE 0)
         /\ data = (IF surb.dir = "in" /\ ~surb.isoc
                    THEN Buffer(surb.actual, LAMBDA k : surb.buf[k]) ELSE Zeroed(0))
         /\ wire' = [length |-> 0, actual |-> surb.actual, np |-> surb.np, n |-> n, data |-> data,
                     iso |-> NoPackets]
  BY DEF ServerSetsUp
<1>4. /\ n \in Nat /\ data \in [0 .. n - 1 -> Nat]
      /\ surb.dir = "in" /\ ~surb.isoc => Plain(data)
  <2>1. CASE surb.dir = "in" /\ ~surb.isoc
    <3>1. n = surb.actual /\ data = [k \in 0 .. surb.actual - 1 |-> surb.buf[k]]
      BY <1>3, <2>1 DEF Buffer
    <3>2. \A k \in 0 .. surb.actual - 1 : k \in 0 .. surb.length - 1
      BY <1>2
    <3>3. \A k \in 0 .. surb.actual - 1 : surb.buf[k] \in Nat /\ data[k] = surb.buf[k]
      BY <1>2, <3>1, <3>2
    <3> QED BY <1>2, <3>1, <3>3 DEF Plain
  <2>2. CASE ~(surb.dir = "in" /\ ~surb.isoc)
    BY <1>3, <2>2, NothingFacts
  <2> QED BY <2>1, <2>2
<1>5. data \in Bufs
  BY <1>4, BufsFacts
<1>6. wire' \in Wires /\ wire'.n = n /\ wire'.data = data /\ wire'.actual = surb.actual
      /\ wire'.np = surb.np
  BY <1>2, <1>3, <1>4, <1>5, NothingFacts DEF Wires
<1>7. TypeOK'
  BY <1>1, <1>4, <1>6 DEF TypeOK, Places, UrbOK
<1>8. AllMoved' /\ OutSeen' /\ (Plain(data) => Plain(data)')
  BY <1>1, MovedFrame DEF AllMoved, SameUrb, SameLayout, OutSeen
<1>9. \A buf : Row(buf, 0)'
  BY DEF Row
<1>10. surb.isoc => starts[1] = 0
  BY <1>1 DEF AllMoved, MovedUpTo
<1>11. i' \in 1 .. surb.np + 1 /\ i' - 1 = 0
  BY <1>1, <1>2
<1>12. AtReturn'
  BY <1>1, <1>3, <1>4, <1>6, <1>8, <1>9, <1>10, <1>11 DEF AtReturn
<1> QED BY <1>1, <1>7, <1>12 DEF PayloadInv

\* The server gathers a packet: its data go behind those of the earlier ones.
LEMMA GatherPacketInv == PayloadInv /\ GatherPacket => PayloadInv'
<1> SUFFICES ASSUME PayloadInv, GatherPacket PROVE PayloadInv'
  OBVIOUS
<1>1. /\ TypeOK /\ AtReturn /\ surb.dir = "in" /\ place' = "return" /\ i <= surb.np
      /\ UNCHANGED <<place, curb, surb, starts>>
  BY DEF PayloadInv, GatherPacket
<1>2. PICK m \in 1 .. surb.np, np \in Nat : m = i /\ np = surb.np /\ m \in Nat /\ m \in 1 .. np
  BY <1>1, PayloadAssumption DEF AtReturn, TypeOK, UrbOK, Urbs
<1>3. surb.isoc /\ AllMoved
  BY <1>1, <1>2 DEF TypeOK, UrbOK, AtReturn
<1>4. /\ wire.n = starts[m] /\ total = starts[m] /\ Row(wire.data, m - 1)
  BY <1>1, <1>2, <1>3 DEF AtReturn
<1>5. PICK w \in Nat, off \in Nat, n \in Nat, length \in Nat, x \in Nat :
         /\ w = starts[m] /\ off = surb.iso[m].offset /\ n = surb.iso[m].actual
         /\ length = surb.length /\ off + n <= length /\ starts[m + 1] = x /\ x = w + n
  <2>1. /\ surb.iso[m].offset \in Nat /\ surb.iso[m].length \in Nat
        /\ surb.iso[m].actual \in Nat /\ surb.iso[m].actual <= surb.iso[m].length
        /\ surb.iso[m].offset + surb.iso[m].length <= surb.length /\ surb.length \in Nat
        /\ starts[m + 1] = starts[m] + surb.iso[m].actual
    BY <1>1, <1>3, MovedFacts
  <2>2. starts[m] \in Nat
    <3>1. m \in 1 .. surb.np + 1
      BY <1>2
    <3> QED BY <1>1, <3>1 DEF TypeOK
  <2>3. /\ surb.iso[m].offset + surb.iso[m].actual <= surb.length
        /\ starts[m] + surb.iso[m].actual \in Nat
    BY <2>1, <2>2
  <2> QED BY <2>1, <2>2, <2>3, Zenon
<1>6. /\ surb.buf \in [0 .. length - 1 -> Nat] /\ wire \in Wires
      /\ wire.data \in [0 .. w - 1 -> Nat]
  BY <1>1, <1>4, <1>5 DEF TypeOK, UrbOK
<1>7. PICK data :
         /\ data = [k \in 0 .. x - 1 |->
                      IF k < w THEN wire.data[k] ELSE surb.buf[off + k - w]]
         /\ data \in [0 .. x - 1 -> Nat] /\ data \in Bufs
  <2> DEFINE f == [k \in 0 .. x - 1 |-> IF k < w THEN wire.data[k] ELSE surb.buf[off + k - w]]
  <2>1. ASSUME NEW k \in 0 .. x - 1 PROVE f[k] \in Nat
    <3>1. CASE k < w
      BY <1>6, <3>1
    <3>2. CASE ~(k < w)
      <4>1. off + k - w \in 0 .. length - 1
        BY <1>5, <3>2
      <4> QED BY <1>6, <3>2, <4>1
    <3> QED BY <3>1, <3>2
  <2>2. f \in [0 .. x - 1 -> Nat]
    BY <2>1
  <2> HIDE DEF f
  <2>3. f \in Bufs
    BY <1>5, <2>2, BufsFacts
  <2> QED BY <2>2, <2>3 DEF f
<1>8. /\ i' = m + 1 /\ total' = x
      /\ wire' = WithData(wire, surb.buf, off, n)
  BY <1>2, <1>4, <1>5 DEF GatherPacket, Loop
<1>9. /\ wire' \in Wires /\ wire'.n = x /\ wire'.data = data /\ wire'.actual = wire.actual
      /\ wire'.np = wire.np
  <2>1. PICK v : v = [wire EXCEPT !.n = x]
    OBVIOUS
  <2>2. v \in Wires /\ v.n = x /\ v.actual = wire.actual /\ v.np = wire.np
    BY <1>5, <1>6, <2>1 DEF Wires
  <2>3. wire' = [v EXCEPT !.data = data]
    BY <1>4, <1>5, <1>7, <1>8, <2>1, Zenon DEF WithData, Buffer
  <2> QED BY <1>7, <2>2, <2>3 DEF Wires
<1>10. TypeOK'
  BY <1>1, <1>2, <1>7, <1>8, <1>9 DEF TypeOK, Places, UrbOK
<1>11. Row(data, m)
  <2> SUFFICES ASSUME NEW j \in 1 .. m, NEW b \in 0 .. surb.iso[j].actual - 1
               PROVE  data[starts[j] + b] = surb.buf[surb.iso[j].offset + b]
    BY DEF Row
  <2>1. /\ j \in 1 .. np /\ j \in 1 .. np + 1 /\ m \in 1 .. np + 1
    BY <1>2
  <2>2. /\ starts[j] \in Nat /\ surb.iso[j].actual \in Nat
    BY <1>1, <1>2, <1>3, <2>1, MovedFacts
  <2>3. CASE j = m
    <3>1. starts[j] + b \in 0 .. x - 1 /\ ~(w + b < w) /\ off + (w + b) - w = off + b
      BY <1>5, <2>2, <2>3
    <3> QED BY <1>5, <1>7, <2>3, <3>1
  <2>4. CASE j # m
    <3>1. j \in 1 .. m - 1 /\ j < m
      BY <1>2, <2>4
    <3>2. starts[j] + surb.iso[j].actual <= w
      BY <1>1, <1>2, <1>3, <1>5, <2>1, <3>1, MovedFacts
    <3>3. starts[j] + b \in 0 .. x - 1 /\ starts[j] + b < w
      BY <1>5, <2>2, <3>2
    <3>4. wire.data[starts[j] + b] = surb.buf[surb.iso[j].offset + b]
      BY <1>4, <3>1 DEF Row
    <3> QED BY <1>7, <3>3, <3>4
  <2> QED BY <2>3, <2>4
<1>12. AtReturn'
  <2>1. AllMoved' /\ OutSeen' /\ Row(data, m)'
    BY <1>1, <1>3, <1>11, MovedFrame DEF AtReturn, AllMoved, SameUrb, SameLayout, OutSeen
  <2>2. i' \in 1 .. surb.np + 1 /\ i' - 1 = m
    BY <1>2, <1>8
  <2> QED BY <1>1, <1>3, <1>5, <1>8, <1>9, <2>1, <2>2 DEF AtReturn
<1> QED BY <1>1, <1>10, <1>12 DEF PayloadInv


\* The server returns the URB: the total of the loop is what the device moved.
LEMMA ServerReturnsInv == PayloadInv /\ ServerReturns => PayloadInv'
<1> SUFFICES ASSUME PayloadInv, ServerReturns PROVE PayloadInv'
  OBVIOUS
<1>1. /\ TypeOK /\ AtReturn /\ wire' = [wire EXCEPT !.iso = surb.iso]
      /\ UNCHANGED <<curb, surb, i, total, starts>>
  BY DEF PayloadInv, ServerReturns
<1>2. /\ surb.np \in Nat /\ surb.dir \in {"in", "out"} /\ surb.iso \in Isos
      /\ (surb.isoc \/ surb.np = 0) /\ wire \in Wires /\ wire.data \in [0 .. wire.n - 1 -> Nat]
  BY <1>1, PayloadAssumption DEF TypeOK, UrbOK, Urbs
<1>3. surb.dir = "in" => i = surb.np + 1 /\ i - 1 = surb.np
  BY <1>1, <1>2 DEF ServerReturns, AtReturn
<1>4. surb.dir = "in" /\ surb.isoc => total = surb.actual
  BY <1>1, <1>3 DEF AtReturn, AllMoved
<1>5. place' = "back"
  BY <1>4 DEF ServerReturns
<1>6. /\ wire' \in Wires /\ wire'.iso = surb.iso /\ wire'.n = wire.n /\ wire'.data = wire.data
      /\ wire'.actual = wire.actual /\ wire'.np = wire.np
  BY <1>1, <1>2 DEF Wires
<1>7. TypeOK'
  BY <1>1, <1>2, <1>5, <1>6 DEF TypeOK, Places, UrbOK
<1>8. /\ wire.n = (IF surb.dir = "out" THEN 0 ELSE surb.actual)
      /\ surb.dir = "in" => IF surb.isoc THEN Row(wire.data, surb.np) ELSE Plain(wire.data)
  BY <1>1, <1>2, <1>3 DEF AtReturn, AllMoved
<1>9. AllMoved' /\ OutSeen'
  BY <1>1, MovedFrame DEF AtReturn, AllMoved, SameUrb, SameLayout, OutSeen
<1>10. /\ Row(wire.data, surb.np) => Row(wire.data, surb.np)'
       /\ Plain(wire.data) => Plain(wire.data)'
  BY <1>1, <1>6 DEF Row, Plain
<1>11. AtBack'
  BY <1>1, <1>6, <1>8, <1>9, <1>10 DEF AtBack, AtReturn
<1> QED BY <1>5, <1>7, <1>11 DEF PayloadInv

\* The client unpacks the header and takes the data, which its buffer holds.
LEMMA ClientUnpacksInv == PayloadInv /\ ClientUnpacks => PayloadInv'
<1> SUFFICES ASSUME PayloadInv, ClientUnpacks PROVE PayloadInv'
  OBVIOUS
<1>1. TypeOK /\ AtBack /\ i' = 1 /\ total' = 0 /\ UNCHANGED <<surb, wire, starts>>
  BY DEF PayloadInv, ClientUnpacks, Loop
<1>2. /\ curb \in Urbs /\ curb.iso \in [1 .. curb.np -> Packet] /\ curb.length \in Nat
      /\ curb.buf \in [0 .. curb.length - 1 -> Nat] /\ curb.np \in 0 .. MaxPackets
      /\ (curb.isoc \/ curb.np = 0) /\ curb.dir \in {"in", "out"}
      /\ surb.actual \in Nat /\ surb.actual <= surb.length /\ surb.np \in Nat
  BY <1>1, PayloadAssumption DEF TypeOK, UrbOK, Urbs
<1>3. /\ wire.actual = surb.actual /\ wire.np = curb.np /\ surb.length = curb.length
      /\ surb.dir = curb.dir /\ surb.isoc = curb.isoc /\ surb.np = curb.np
  BY <1>1 DEF AtBack, AllMoved, SameUrb
<1>4. PICK u : u = [curb EXCEPT !.actual = wire.actual, !.np = wire.np]
  OBVIOUS
<1>5. /\ UrbOK(u) /\ u.actual = surb.actual /\ u.np = curb.np /\ u.iso = curb.iso
      /\ u.buf = curb.buf /\ u.length = curb.length /\ u.dir = curb.dir /\ u.isoc = curb.isoc
  <2>1. /\ u \in Urbs /\ u.actual = surb.actual /\ u.np = curb.np /\ u.iso = curb.iso
        /\ u.buf = curb.buf /\ u.length = curb.length /\ u.dir = curb.dir /\ u.isoc = curb.isoc
    BY <1>2, <1>3, <1>4 DEF Urbs
  <2> QED BY <1>2, <1>3, <2>1 DEF UrbOK
<1>6. PICK size \in Nat : /\ size = XbuffSize("vhci", u) /\ size <= curb.length
                          /\ size = (IF curb.dir = "in" THEN surb.actual ELSE 0)
                          /\ size = wire.n
  BY <1>1, <1>2, <1>3, <1>5 DEF XbuffSize, AtBack
<1>7. curb' = RecvXbuff("vhci", u) /\ place' = "client_iso"
  <2>1. ~(XbuffSize("vhci", u) > u.length)
    BY <1>2, <1>5, <1>6
  <2> QED BY <1>4, <2>1 DEF ClientUnpacks
<1>8. PICK b : /\ b = [k \in 0 .. curb.length - 1 |-> IF k < size THEN wire.data[k] ELSE curb.buf[k]]
               /\ b \in [0 .. curb.length - 1 -> Nat]
               /\ \A k \in 0 .. size - 1 : b[k] = wire.data[k]
  <2>1. wire.data \in [0 .. size - 1 -> Nat]
    BY <1>1, <1>6 DEF TypeOK
  <2> DEFINE f == [k \in 0 .. curb.length - 1 |-> IF k < size THEN wire.data[k] ELSE curb.buf[k]]
  <2>2. f \in [0 .. curb.length - 1 -> Nat]
    <3>1. ASSUME NEW k \in 0 .. curb.length - 1 PROVE f[k] \in Nat
      <4>1. CASE k < size
        BY <2>1, <4>1
      <4>2. CASE ~(k < size)
        BY <1>2, <4>2
      <4> QED BY <4>1, <4>2
    <3> QED BY <3>1
  <2>3. \A k \in 0 .. size - 1 : k \in 0 .. curb.length - 1 /\ k < size
    BY <1>2, <1>6
  <2> QED BY <2>2, <2>3
<1>9. curb' = [u EXCEPT !.buf = b]
  BY <1>2, <1>5, <1>6, <1>7, <1>8 DEF RecvXbuff
<1>10. /\ UrbOK(curb') /\ curb'.buf = b /\ curb'.iso = curb.iso /\ curb'.actual = surb.actual
       /\ curb'.dir = curb.dir /\ curb'.isoc = curb.isoc /\ curb'.length = curb.length
       /\ curb'.np = curb.np
  BY <1>5, <1>8, <1>9, BufferSet
<1>11. TypeOK'
  BY <1>1, <1>7, <1>10 DEF TypeOK, Places, UrbOK
<1>12. AllMoved'
  <2>1. SameUrb' /\ SameLayout'
    BY <1>1, <1>10 DEF AtBack, AllMoved, SameUrb, SameLayout
  <2> QED BY <1>1, <2>1, MovedFrame DEF AtBack, AllMoved
<1>13. curb.dir = "in" /\ ~surb.isoc => Plain(b)
  BY <1>1, <1>3, <1>6, <1>8 DEF AtBack, Plain
<1>14. ASSUME curb.dir = "in", surb.isoc PROVE Row(b, surb.np)
  <2> SUFFICES ASSUME NEW j \in 1 .. surb.np, NEW d \in 0 .. surb.iso[j].actual - 1
               PROVE  b[starts[j] + d] = surb.buf[surb.iso[j].offset + d]
    BY DEF Row
  <2>1. AllMoved /\ j \in 1 .. surb.np + 1 /\ surb.np + 1 \in 1 .. surb.np + 1 /\ j < surb.np + 1
    BY <1>1, <1>2 DEF AtBack
  <2>2. /\ starts[j] + surb.iso[j].actual <= starts[surb.np + 1]
        /\ starts[surb.np + 1] = surb.actual
    BY <1>1, <1>14, <2>1, MovedFacts
  <2>3. starts[j] \in Nat /\ surb.iso[j].actual \in Nat
    BY <1>1, <1>14, <2>1, MovedFacts
  <2>4. starts[j] + d \in 0 .. size - 1
    BY <1>6, <1>14, <2>2, <2>3
  <2>5. wire.data[starts[j] + d] = surb.buf[surb.iso[j].offset + d]
    BY <1>1, <1>3, <1>14 DEF AtBack, Row
  <2> QED BY <1>8, <2>4, <2>5
<1>15. (Row(b, surb.np) => Row(b, surb.np)') /\ (Plain(b) => Plain(b)')
  BY <1>1 DEF Row, Plain
<1>16. surb.isoc => starts[1] = 0
  BY <1>1 DEF AtBack, AllMoved, MovedUpTo
<1>17. i' \in 1 .. surb.np + 1 /\ \A k \in 1 .. i' - 1 : FALSE
  BY <1>1, <1>2
<1>18. AtClientIso'
  BY <1>1, <1>3, <1>10, <1>12, <1>13, <1>14, <1>15, <1>16, <1>17 DEF AtClientIso, AtBack
<1> QED BY <1>7, <1>11, <1>18 DEF PayloadInv


\* usbip_pad_iso moves a packet: it overwrites neither the data of an earlier
\* packet, which lie below its sum, nor those of a later one, moved before.
LEMMA PadPacketInv == PayloadInv /\ PadPacket => PayloadInv'
<1> SUFFICES ASSUME PayloadInv, PadPacket PROVE PayloadInv'
  OBVIOUS
<1>1. /\ TypeOK /\ AtPad /\ AllMoved /\ place' = "pad" /\ curb.iso = surb.iso
      /\ UNCHANGED <<surb, wire, starts>>
  BY DEF PayloadInv, PadPacket, AtPad
<1>2. /\ curb.isoc /\ curb.actual # 0 /\ curb.actual # curb.length /\ i > 1
      /\ surb.isoc /\ curb.length = surb.length /\ curb.np = surb.np /\ curb.dir = surb.dir
  BY <1>1 DEF PadPacket, PadMore, AllMoved, SameUrb
<1>3. PICK m \in 2 .. surb.np, np \in Nat : m = i /\ np = surb.np /\ m \in Nat /\ m \in 1 .. np
  BY <1>1, <1>2, PayloadAssumption DEF AtPad, TypeOK, UrbOK, Urbs
<1>4. PICK off \in Nat, n \in Nat, w \in Nat, length \in Nat :
         /\ off = surb.iso[m].offset /\ n = surb.iso[m].actual /\ w = starts[m]
         /\ length = surb.length
         /\ off + n <= length /\ w <= off /\ total = w + n
  <2>1. m \in 1 .. surb.np /\ m \in 1 .. surb.np + 1
    BY <1>3
  <2>2. /\ surb.iso[m].offset \in Nat /\ surb.iso[m].length \in Nat
        /\ surb.iso[m].actual \in Nat /\ surb.iso[m].actual <= surb.iso[m].length
        /\ surb.iso[m].offset + surb.iso[m].length <= surb.length /\ surb.length \in Nat
        /\ starts[m + 1] = starts[m] + surb.iso[m].actual
        /\ starts[m] <= surb.iso[m].offset
    BY <1>1, <1>2, <2>1, MovedFacts
  <2>3. starts[m] \in Nat
    BY <1>1, <2>1 DEF TypeOK
  <2>4. /\ surb.iso[m].offset + surb.iso[m].actual <= surb.length
        /\ total = starts[m] + surb.iso[m].actual
    BY <1>1, <1>2, <1>3, <2>2, <2>3 DEF AtPad
  <2> QED BY <2>2, <2>3, <2>4, Zenon
<1>5. total' = w /\ i' = m - 1
  BY <1>1, <1>3, <1>4 DEF PadPacket
<1>6. curb.buf \in [0 .. length - 1 -> Nat] /\ UrbOK(curb)
  BY <1>1, <1>2, <1>4 DEF TypeOK, UrbOK
<1>7. PICK b :
         /\ b = [k \in 0 .. length - 1 |->
                   IF k \in off .. off + n - 1 THEN curb.buf[w + k - off] ELSE curb.buf[k]]
         /\ b \in [0 .. length - 1 -> Nat]
  <2> DEFINE f == [k \in 0 .. length - 1 |->
                     IF k \in off .. off + n - 1 THEN curb.buf[w + k - off] ELSE curb.buf[k]]
  <2>1. ASSUME NEW k \in 0 .. length - 1 PROVE f[k] \in Nat
    <3>1. CASE k \in off .. off + n - 1
      <4>1. w + k - off \in 0 .. length - 1
        BY <1>4, <3>1
      <4> QED BY <1>6, <3>1, <4>1
    <3>2. CASE k \notin off .. off + n - 1
      BY <1>6, <3>2
    <3> QED BY <3>1, <3>2
  <2>2. f \in [0 .. length - 1 -> Nat]
    BY <2>1
  <2> HIDE DEF f
  <2> QED BY <2>2 DEF f
<1>8. curb' = [curb EXCEPT !.buf = b]
  <2>1. MoveWithin(curb.buf, off, w, n) = b
    BY <1>6, <1>7 DEF MoveWithin
  <2>2. curb' = [curb EXCEPT !.buf = MoveWithin(curb.buf, off, w, n)]
    BY <1>1, <1>3, <1>4, <1>5 DEF PadPacket
  <2> QED BY <2>1, <2>2
<1>9. /\ UrbOK(curb') /\ curb'.buf = b /\ curb'.iso = curb.iso /\ curb'.actual = curb.actual
      /\ curb'.dir = curb.dir /\ curb'.isoc = curb.isoc /\ curb'.length = curb.length
      /\ curb'.np = curb.np
  <2>1. b \in [0 .. curb.length - 1 -> Nat]
    BY <1>2, <1>4, <1>7
  <2> QED BY <1>6, <1>8, <2>1, BufferSet
<1>10. TypeOK'
  BY <1>1, <1>3, <1>5, <1>9 DEF TypeOK, Places, UrbOK
<1>11. AllMoved'
  <2>1. SameUrb' /\ SameLayout'
    BY <1>1, <1>9 DEF AllMoved, SameUrb, SameLayout
  <2> QED BY <1>1, <2>1, MovedFrame DEF AllMoved
<1>12. surb.dir = "in" => Row(curb.buf, m) /\ Placed(curb.buf, m)
  BY <1>1, <1>2, <1>3 DEF AtPad
<1>13. ASSUME surb.dir = "in" PROVE Row(b, m - 1)
  <2> SUFFICES ASSUME NEW j \in 1 .. m - 1, NEW d \in 0 .. surb.iso[j].actual - 1
               PROVE  b[starts[j] + d] = surb.buf[surb.iso[j].offset + d]
    BY DEF Row
  <2>1. /\ j \in 1 .. m /\ j \in 1 .. surb.np /\ j \in 1 .. surb.np + 1
        /\ m \in 1 .. surb.np + 1 /\ j < m
    BY <1>3
  <2>2. starts[j] \in Nat
    BY <1>1, <2>1 DEF TypeOK
  <2>3. surb.iso[j].actual \in Nat /\ starts[j] + surb.iso[j].actual <= starts[m]
    BY <1>1, <1>2, <2>1, MovedFacts
  <2>4. starts[j] + d \in 0 .. length - 1 /\ starts[j] + d \notin off .. off + n - 1
    BY <1>4, <2>2, <2>3
  <2>5. curb.buf[starts[j] + d] = surb.buf[surb.iso[j].offset + d]
    BY <1>12, <1>13, <2>1 DEF Row
  <2> QED BY <1>7, <2>4, <2>5
<1>14. ASSUME surb.dir = "in" PROVE Placed(b, m - 1)
  <2> SUFFICES ASSUME NEW j \in (m - 1) + 1 .. surb.np, NEW d \in 0 .. surb.iso[j].actual - 1
               PROVE  b[surb.iso[j].offset + d] = surb.buf[surb.iso[j].offset + d]
    BY DEF Placed
  <2>1. j \in 1 .. surb.np /\ m \in 1 .. surb.np
    BY <1>3
  <2>2. /\ surb.iso[j].offset \in Nat /\ surb.iso[j].length \in Nat
        /\ surb.iso[j].actual \in Nat /\ surb.iso[j].actual <= surb.iso[j].length
        /\ surb.iso[j].offset + surb.iso[j].length <= length
    BY <1>1, <1>2, <1>4, <2>1, MovedFacts
  <2>3. surb.iso[j].offset + d \in 0 .. length - 1
    BY <2>2
  <2>4. CASE j = m
    <3>1. /\ off + d \in off .. off + n - 1 /\ w + (off + d) - off = w + d
          /\ d \in 0 .. surb.iso[m].actual - 1 /\ m \in 1 .. m
      BY <1>3, <1>4, <2>4
    <3>2. curb.buf[starts[m] + d] = surb.buf[surb.iso[m].offset + d]
      BY <1>12, <1>14, <3>1 DEF Row
    <3> QED BY <1>4, <1>7, <2>3, <2>4, <3>1, <3>2
  <2>5. CASE j # m
    <3>1. j \in m + 1 .. surb.np /\ m < j
      BY <1>3, <2>5
    <3>2. off + surb.iso[m].length <= surb.iso[j].offset
      BY <1>1, <1>2, <1>4, <2>1, <3>1, MovedFacts
    <3>3. n <= surb.iso[m].length /\ surb.iso[m].length \in Nat
      BY <1>1, <1>2, <1>4, <2>1, MovedFacts
    <3>4. surb.iso[j].offset + d \notin off .. off + n - 1
      BY <1>4, <2>2, <3>2, <3>3
    <3>5. curb.buf[surb.iso[j].offset + d] = surb.buf[surb.iso[j].offset + d]
      BY <1>12, <1>14, <3>1 DEF Placed
    <3> QED BY <1>7, <2>3, <3>4, <3>5
  <2> QED BY <2>4, <2>5
<1>15. AtPad'
  <2>1. (Row(b, m - 1) => Row(b, m - 1)') /\ (Placed(b, m - 1) => Placed(b, m - 1)')
    BY <1>1 DEF Row, Placed
  <2>2. i' \in 0 .. surb.np /\ total' = starts[i' + 1]
    <3>1. m - 1 + 1 = m /\ m - 1 \in 0 .. surb.np
      BY <1>3
    <3> QED BY <1>4, <1>5, <3>1
  <2>3. curb'.actual \notin {0, curb'.length} /\ curb'.actual = surb.actual
    BY <1>1, <1>2, <1>9 DEF AtPad
  <2> QED BY <1>1, <1>2, <1>5, <1>9, <1>11, <1>13, <1>14, <2>1, <2>2, <2>3 DEF AtPad
<1> QED BY <1>1, <1>10, <1>15 DEF PayloadInv

\* usbip_pad_iso is done, or had nothing to do: what is still in a row lies
\* at its offset, for there is one packet, no data, or no gap.
LEMMA PadEndsInv == PayloadInv /\ PadEnds => PayloadInv'
<1> SUFFICES ASSUME PayloadInv, PadEnds PROVE PayloadInv'
  OBVIOUS
<1>1. /\ TypeOK /\ AtPad /\ AllMoved /\ place' = "done" /\ ~PadMore(curb)
      /\ UNCHANGED <<curb, surb, wire, i, total, starts>>
  BY DEF PayloadInv, PadEnds, AtPad
<1>2. /\ curb.actual = surb.actual /\ curb.iso = surb.iso /\ curb.length = surb.length
      /\ curb.isoc = surb.isoc
  BY <1>1 DEF AtPad, AllMoved, SameUrb
<1>3. PICK np \in Nat : np = surb.np
  BY <1>1, PayloadAssumption DEF TypeOK, UrbOK, Urbs
<1>4. surb.dir = "in" /\ ~surb.isoc => Plain(curb.buf)
  BY <1>1 DEF AtPad
<1>5. ASSUME surb.dir = "in", surb.isoc PROVE Placed(curb.buf, 0)
  <2> SUFFICES ASSUME NEW j \in 0 + 1 .. surb.np, NEW d \in 0 .. surb.iso[j].actual - 1
               PROVE  curb.buf[surb.iso[j].offset + d] = surb.buf[surb.iso[j].offset + d]
    BY DEF Placed
  <2>1. /\ j \in 1 .. surb.np /\ j \in 1 .. np + 1 /\ np + 1 \in 1 .. np + 1 /\ j < np + 1
        /\ i \in 0 .. np
    BY <1>1, <1>3 DEF AtPad
  <2>2. Row(curb.buf, i) /\ Placed(curb.buf, i)
    BY <1>1, <1>5 DEF AtPad
  <2>3. CASE j > i
    <3>1. j \in i + 1 .. surb.np
      BY <1>3, <2>1, <2>3
    <3> QED BY <2>2, <3>1 DEF Placed
  <2>4. CASE ~(j > i)
    <3>1. j \in 1 .. i
      BY <1>3, <2>1, <2>4
    <3>2. curb.buf[starts[j] + d] = surb.buf[surb.iso[j].offset + d]
      BY <2>2, <3>1 DEF Row
    <3>3. starts[j] = surb.iso[j].offset
      <4>1. /\ starts[j] <= surb.iso[j].offset /\ Gap(j) <= surb.length - surb.actual
            /\ surb.iso[j].offset \in Nat /\ surb.iso[j].actual \in Nat
            /\ surb.length \in Nat /\ surb.actual \in Nat
        BY <1>1, <1>5, <2>1, MovedFacts
      <4>2. starts[j] \in Nat
        BY <1>1, <1>3, <2>1 DEF TypeOK
      <4>3. starts[j] + surb.iso[j].actual <= surb.actual
        BY <1>1, <1>3, <1>5, <2>1, MovedFacts
      <4>4. surb.actual # 0
        BY <4>1, <4>2, <4>3
      <4>5. surb.actual = surb.length \/ ~(i > 1)
        BY <1>1, <1>2, <1>5, <4>4 DEF PadMore
      <4>6. CASE surb.actual = surb.length
        BY <4>1, <4>2, <4>6 DEF Gap
      <4>7. CASE ~(i > 1)
        <5>1. j = 1 /\ surb.np > 0
          BY <1>3, <2>1, <3>1, <4>7
        <5> QED BY <1>1, <1>5, <5>1, MovedFacts
      <4> QED BY <4>5, <4>6, <4>7
    <3> QED BY <3>2, <3>3
  <2> QED BY <2>3, <2>4
<1>6. TypeOK'
  BY <1>1 DEF TypeOK, Places, UrbOK
<1>7. /\ AllMoved' /\ (Placed(curb.buf, 0) => Placed(curb.buf, 0)')
      /\ (Plain(curb.buf) => Plain(curb.buf)')
  BY <1>1 DEF AllMoved, SameUrb, SameLayout, MovedUpTo, Gap, Placed, Plain
<1>8. AtDone'
  BY <1>1, <1>2, <1>4, <1>5, <1>7 DEF AtDone
<1> QED BY <1>1, <1>6, <1>8 DEF PayloadInv

\* The invariant is inductive.
LEMMA PayloadInvStep == PayloadInv /\ [PayloadNext]_payloadVars => PayloadInv'
<1> SUFFICES ASSUME PayloadInv, [PayloadNext]_payloadVars PROVE PayloadInv'
  OBVIOUS
<1>1. CASE RecvIsoPacket
  <2>1. place = "server_iso" \/ place = "client_iso"
    BY <1>1 DEF RecvIsoPacket
  <2> QED BY <1>1, <2>1, ServerIsoInv, ClientIsoInv
<1>2. CASE RecvIsoEnds
  <2>1. place = "server_iso" \/ place = "client_iso"
    BY <1>2 DEF RecvIsoEnds
  <2> QED BY <1>2, <2>1, ServerIsoEndsInv, ClientIsoEndsInv
<1>3. CASE UNCHANGED payloadVars
  <2>1. UNCHANGED <<place, curb, surb, wire, i, total, starts>>
    BY <1>3 DEF payloadVars
  <2>2. TypeOK' <=> TypeOK
    BY <2>1 DEF TypeOK, UrbOK
  <2>3. (Fresh' <=> Fresh) /\ (OutSeen' <=> OutSeen) /\ (SameUrb' <=> SameUrb)
        /\ (SameLayout' <=> SameLayout)
    BY <2>1 DEF Fresh, OutSeen, SameUrb, SameLayout
  <2>4. AllMoved' <=> AllMoved
    BY <2>1, <2>3, MovedFrame DEF AllMoved
  <2>5. (AtServer' <=> AtServer) /\ (AtServerIso' <=> AtServerIso)
    BY <2>1, <2>3 DEF AtServer, AtServerIso
  <2>6. AtDevice' <=> AtDevice
    BY <2>1, <2>3, MovedFrame DEF AtDevice
  <2>7. (AtReturn' <=> AtReturn) /\ (AtBack' <=> AtBack)
    BY <2>1, <2>3, <2>4 DEF AtReturn, AtBack, Row, Plain
  <2>8. (AtClientIso' <=> AtClientIso) /\ (AtPad' <=> AtPad) /\ (AtDone' <=> AtDone)
    BY <2>1, <2>4 DEF AtClientIso, AtPad, AtDone, Row, Placed, Plain
  <2> QED BY <2>1, <2>2, <2>3, <2>4, <2>5, <2>6, <2>7, <2>8 DEF PayloadInv
<1> QED BY <1>1, <1>2, <1>3, ClientPacksInv, ServerUnpacksInv, DeviceMovesInv,
           DeviceMovesPacketInv, DeviceEndsInv, ServerSetsUpInv, GatherPacketInv,
           ServerReturnsInv, ClientUnpacksInv, PadPacketInv, PadEndsInv DEF PayloadNext

\* In every state of the trip the invariant holds.
LEMMA PayloadInvariant == PayloadSpec => []PayloadInv
BY PayloadInvInit, PayloadInvStep, PTL DEF PayloadSpec


-------------------------------------------------------------------------------
(* What follows.                                                              *)

\* For every buffer, every packet layout and whatever the device moves, no
\* honest transfer is refused: usbip_recv_xbuff, usbip_recv_iso and
\* stub_send_ret_submit compute the lengths the other end has computed, and
\* the receiver takes exactly the data the sender has put into the stream.
THEOREM Payload_Accepted == PayloadSpec => []PayloadAccepted
<1>1. PayloadInv => PayloadAccepted
  <2> SUFFICES ASSUME PayloadInv PROVE PayloadAccepted
    OBVIOUS
  <2>1. place # "error" /\ curb \in Urbs /\ curb.dir \in {"in", "out"}
    BY DEF PayloadInv, TypeOK, Places, UrbOK, Urbs
  <2>2. place = "server" => wire.n = XbuffSize("stub", curb)
    BY <2>1 DEF PayloadInv, AtServer, XbuffSize
  <2>3. ASSUME place = "back"
        PROVE  wire.n = XbuffSize("vhci", [curb EXCEPT !.actual = wire.actual])
    <3>1. PICK u : u = [curb EXCEPT !.actual = wire.actual]
      OBVIOUS
    <3>2. u.dir = curb.dir /\ u.actual = wire.actual
      BY <2>1, <3>1 DEF Urbs
    <3>3. wire.n = (IF curb.dir = "out" THEN 0 ELSE wire.actual)
      BY <2>3 DEF PayloadInv, AtBack, AllMoved, SameUrb
    <3> QED BY <3>1, <3>2, <3>3 DEF XbuffSize
  <2> QED BY <2>1, <2>2, <2>3 DEF PayloadAccepted
<1> QED BY <1>1, PayloadInvariant, PTL

\* For every buffer, every packet layout and whatever the device moves, the
\* client's driver finds each byte the device moved where the device had put
\* it: stub_send_ret_submit takes the padding out and usbip_pad_iso puts it
\* back without overwriting what is still to be moved; and the device of an
\* OUT transfer sees the client's bytes.
THEOREM Payload_Intact == PayloadSpec => []PayloadIntact
<1>1. PayloadInv => PayloadIntact
  <2> SUFFICES ASSUME PayloadInv PROVE PayloadIntact
    OBVIOUS
  <2>1. surb.dir = "out" /\ place \in {"device", "complete", "return", "back"}
          => surb.buf = curb.buf
    BY DEF PayloadInv, AtDevice, AtReturn, AtBack, OutSeen
  <2>2. ASSUME place = "done"
        PROVE  /\ curb.actual = surb.actual /\ curb.iso = surb.iso
               /\ surb.dir = "in" =>
                    IF surb.isoc
                    THEN \A j \in 1 .. surb.np :
                            \A b \in surb.iso[j].offset .. surb.iso[j].offset + surb.iso[j].actual - 1 :
                                curb.buf[b] = surb.buf[b]
                    ELSE \A b \in 0 .. surb.actual - 1 : curb.buf[b] = surb.buf[b]
    <3>1. TypeOK /\ AtDone /\ AllMoved
      BY <2>2 DEF PayloadInv, AtDone
    <3>2. ASSUME surb.dir = "in", surb.isoc, NEW j \in 1 .. surb.np,
                 NEW b \in surb.iso[j].offset .. surb.iso[j].offset + surb.iso[j].actual - 1
          PROVE  curb.buf[b] = surb.buf[b]
      <4>1. surb.iso[j].offset \in Nat /\ surb.iso[j].actual \in Nat
        BY <3>1, <3>2, MovedFacts
      <4>2. PICK d \in 0 .. surb.iso[j].actual - 1 : b = surb.iso[j].offset + d
        <5>1. /\ b - surb.iso[j].offset \in 0 .. surb.iso[j].actual - 1
              /\ b = surb.iso[j].offset + (b - surb.iso[j].offset)
          BY <4>1
        <5> QED BY <5>1
      <4>3. j \in 0 + 1 .. surb.np
        OBVIOUS
      <4> QED BY <3>1, <3>2, <4>2, <4>3 DEF AtDone, Placed
    <3>3. surb.dir = "in" /\ ~surb.isoc => Plain(curb.buf)
      BY <3>1 DEF AtDone
    <3> QED BY <3>1, <3>2, <3>3 DEF AtDone, Plain
  <2> QED BY <2>1, <2>2 DEF PayloadIntact
<1> QED BY <1>1, PayloadInvariant, PTL

-------------------------------------------------------------------------------
(* Headers.                                                                   *)

Word == [1 .. 4 -> 0 .. 255]

\* The header of a cmd: of the union u it fills BodyNumbers(cmd) numbers.
Headers(cmd) ==
    {h \in [command : {cmd}, base : [1 .. 4 -> Word], u : [1 .. 5 -> Word]] :
        \A k \in 1 .. 5 : k > BodyNumbers(cmd) => h.u[k] = Number(0)}

\* Swapping the bytes of a number twice, or of 0, changes nothing: cpu_to_be32
\* and the memory of the machine undo one another.
LEMMA SwabMemory ==
    ASSUME NEW order \in Orders, NEW n \in Word
    PROVE  /\ Swab(order, n) \in Word /\ Memory(order, n) \in Word
           /\ Memory(order, Swab(order, n)) = n /\ Swab(order, Memory(order, n)) = n
<1>1. Swapped(n) \in Word /\ Swapped(Swapped(n)) = n
  <2>1. \A k \in 1 .. 4 : 5 - k \in 1 .. 4 /\ 5 - (5 - k) = k
    OBVIOUS
  <2>2. Swapped(n) \in Word /\ \A k \in 1 .. 4 : Swapped(n)[k] = n[5 - k]
    BY <2>1 DEF Swapped, Word
  <2>3. Swapped(Swapped(n)) = [k \in 1 .. 4 |-> n[k]]
    BY <2>1, <2>2 DEF Swapped
  <2> QED BY <2>2, <2>3 DEF Word
<1> QED BY <1>1 DEF Swab, Memory

\* A number of a header is a word, and 0 reads the same both ways.
LEMMA NumberWord ==
    /\ \A n \in 0 .. 255 : Number(n) \in Word
    /\ \A order \in Orders : Memory(order, Number(0)) = Number(0)
<1>1. \A n \in 0 .. 255 : Number(n) \in Word
  BY DEF Number, Word
<1>2. Swapped(Number(0)) = Number(0)
  BY DEF Number, Swapped
<1> QED BY <1>1, <1>2 DEF Memory

\* Whatever the byte orders of the two machines, for each of the four commands
\* and whatever numbers the header holds, usbip_header_correct_endian on both
\* sides lets the receiver read what the sender wrote.
THEOREM Header_Received ==
    ASSUME NEW from \in Orders, NEW to \in Orders, NEW cmd \in Commands, NEW h \in Headers(cmd)
    PROVE  Received(to, Wire(from, h)) = h
<1>1. /\ h.command = cmd /\ h.base \in [1 .. 4 -> Word] /\ h.u \in [1 .. 5 -> Word]
      /\ \A k \in 1 .. 5 : k > BodyNumbers(cmd) => h.u[k] = Number(0)
      /\ h = [command |-> h.command, base |-> h.base, u |-> h.u]
  BY DEF Headers
<1>2. cmd \in Word
  BY NumberWord DEF Commands, CMD_SUBMIT, CMD_UNLINK, RET_SUBMIT, RET_UNLINK
<1>3. BodyNumbers(cmd) \in Nat
  BY DEF BodyNumbers
<1>4. Wire(from, h) = [command |-> cmd, base |-> h.base, u |-> h.u]
  <2>1. Memory(from, Swab(from, cmd)) = cmd
    BY <1>2, SwabMemory
  <2>2. [k \in 1 .. 4 |-> Memory(from, Swab(from, h.base[k]))] = h.base
    BY <1>1, SwabMemory
  <2>3. [k \in 1 .. 5 |-> Memory(from, IF k <= BodyNumbers(cmd) THEN Swab(from, h.u[k]) ELSE h.u[k])]
          = h.u
    BY <1>1, <1>3, SwabMemory, NumberWord
  <2> QED BY <1>1, <2>1, <2>2, <2>3, Zenon DEF Wire, HeaderInMemory, HeaderCorrectEndian
<1>5. PICK b, v : /\ b = [k \in 1 .. 4 |-> Memory(to, h.base[k])]
                  /\ v = [k \in 1 .. 5 |-> Memory(to, h.u[k])]
  OBVIOUS
<1>6. PICK m : /\ m = HeaderInMemory(to, Wire(from, h))
               /\ m = [command |-> Memory(to, cmd), base |-> b, u |-> v]
  BY <1>1, <1>4, <1>5 DEF HeaderInMemory
<1>7. /\ m.command = Memory(to, cmd) /\ m.base = b /\ m.u = v
      /\ DOMAIN b = 1 .. 4 /\ DOMAIN v = 1 .. 5
  BY <1>5, <1>6
<1>8. Swab(to, m.command) = cmd
  BY <1>2, <1>7, SwabMemory
<1>9. [k \in 1 .. 4 |-> Swab(to, b[k])] = h.base
  BY <1>1, <1>5, SwabMemory
<1>10. [k \in 1 .. 5 |-> IF k <= BodyNumbers(cmd) THEN Swab(to, v[k]) ELSE v[k]] = h.u
  BY <1>1, <1>3, <1>5, SwabMemory, NumberWord
<1> QED BY <1>1, <1>6, <1>7, <1>8, <1>9, <1>10, ZenonT(60) DEF Received, HeaderCorrectEndian

\* What the runs check of the headers is an instance.
THEOREM Headers_Agree == PayloadSpec => []HeadersAgree
<1>1. HeadersAgree
  <2> SUFFICES ASSUME NEW from \in Orders, NEW to \in Orders, NEW cmd \in Commands,
                      NEW h, h = [command |-> cmd,
                                  base |-> [k \in 1 .. 4 |-> Number(4 + k)],
                                  u |-> [k \in 1 .. 5 |->
                                           IF k <= BodyNumbers(cmd) THEN Number(8 + k) ELSE Number(0)]]
               PROVE  Received(to, Wire(from, h)) = h
    BY DEF HeadersAgree
  <2>1. [k \in 1 .. 4 |-> Number(4 + k)] \in [1 .. 4 -> Word]
    <3>1. \A k \in 1 .. 4 : 4 + k \in 0 .. 255
      OBVIOUS
    <3> QED BY <3>1, NumberWord
  <2>2. [k \in 1 .. 5 |-> IF k <= BodyNumbers(cmd) THEN Number(8 + k) ELSE Number(0)]
          \in [1 .. 5 -> Word]
    <3>1. (\A k \in 1 .. 5 : 8 + k \in 0 .. 255) /\ 0 \in 0 .. 255
      OBVIOUS
    <3> QED BY <3>1, NumberWord
  <2>3. BodyNumbers(cmd) \in Nat
    BY DEF BodyNumbers
  <2>4. \A k \in 1 .. 5 : k > BodyNumbers(cmd) => ~(k <= BodyNumbers(cmd))
    BY <2>3
  <2>5. h \in Headers(cmd)
    BY <2>1, <2>2, <2>4 DEF Headers
  <2> QED BY <2>5, Header_Received
<1> QED BY <1>1, PTL

===============================================================================
