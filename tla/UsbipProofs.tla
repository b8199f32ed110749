------------------------------ MODULE UsbipProofs ------------------------------
(***************************************************************************)
(* Theorems about an exported device and about the whole URB path.         *)
(*                                                                         *)
(* The first part is about the server alone, for any number of requests    *)
(* and connections, any set of faults and any client: StubSpec lets the    *)
(* far end of the connection change the streams as it likes, so the client *)
(* may repeat request numbers and unlink what it never submitted.          *)
(*                                                                         *)
(* The second part is about the path, for any number of URBs, connections, *)
(* detaches and faults.  Its client and its server are those of VhciProofs *)
(* and of the first part: every step of one is a step that the other       *)
(* allows its peer, so what is proved of either end with an arbitrary peer *)
(* holds of the path.  What needs both ends is proved by following the     *)
(* seqnum of a request from list to list.                                  *)
(***************************************************************************)
EXTENDS Usbip, VhciProofs, SequenceTheorems

-------------------------------------------------------------------------------
(* The operators the lists and the event word are changed with.              *)

\* usbip_event_add with the stub's two masks, get_event and unset_event leave
\* an event word.
LEMMA SevTypes ==
    ASSUME NEW e \in EventWord
    PROVE  /\ EventAdd(e, EVENT_DOWN) \in EventWord
           /\ EventAdd(e, EVENT_ERROR_MALLOC) \in EventWord
           /\ GetEvent(e) \in EventWord
           /\ \A bit \in Bits : UnsetEvent(e, bit) \in EventWord
<1>1. \A mask \in SUBSET Bits : EventAdd(e, mask) \in EventWord
  BY DEF EventWord, EventAdd, Bits
<1>2. EVENT_DOWN \in SUBSET Bits /\ EVENT_ERROR_MALLOC \in SUBSET Bits
  BY DEF EVENT_DOWN, EVENT_ERROR_MALLOC, Bits
<1>3. GetEvent(e) \in EventWord
  BY DEF EventWord, GetEvent
<1>4. \A bit \in Bits : UnsetEvent(e, bit) \in EventWord
  BY DEF EventWord, UnsetEvent
<1> QED BY <1>1, <1>2, <1>3, <1>4

\* list_move_tail out of the middle: the entries behind it move up.
LEMMA RemoveAtFacts ==
    ASSUME NEW S, NEW s \in Seq(S), NEW i \in DOMAIN s
    PROVE  /\ RemoveAt(s, i) \in Seq(S)
           /\ Len(RemoveAt(s, i)) = Len(s) - 1
           /\ \A j \in 1 .. Len(s) - 1 :
                 RemoveAt(s, i)[j] = IF j < i THEN s[j] ELSE s[j + 1]
<1>1. i \in 1 .. Len(s) /\ Len(s) \in Nat
  OBVIOUS
<1> DEFINE l == SubSeq(s, 1, i - 1)
           r == SubSeq(s, i + 1, Len(s))
<1>2. l \in Seq(S) /\ Len(l) = i - 1 /\ \A j \in 1 .. i - 1 : l[j] = s[j]
  BY <1>1
<1>3. r \in Seq(S) /\ Len(r) = Len(s) - i /\ \A j \in 1 .. Len(s) - i : r[j] = s[i + j]
  BY <1>1
<1> HIDE DEF l, r
<1>4. l \o r \in Seq(S) /\ Len(l \o r) = Len(s) - 1
  BY <1>1, <1>2, <1>3
<1>5. \A j \in 1 .. Len(s) - 1 : (l \o r)[j] = IF j < i THEN s[j] ELSE s[j + 1]
  <2> TAKE j \in 1 .. Len(s) - 1
  <2>1. CASE j < i
    BY <1>1, <1>2, <1>3, <2>1
  <2>2. CASE ~(j < i)
    <3>5. j \in 1 .. Len(l) + Len(r) /\ ~(j <= Len(l)) /\ j - Len(l) = j - (i - 1)
      BY <1>1, <1>2, <1>3, <2>2
    <3>1. (l \o r)[j] = r[j - (i - 1)]
      <4>1. (l \o r)[j] = IF j <= Len(l) THEN l[j] ELSE r[j - Len(l)]
        BY <1>2, <1>3, <3>5, ConcatProperties
      <4> QED BY <4>1, <3>5
    <3>2. j - (i - 1) \in 1 .. Len(s) - i
      BY <1>1, <2>2
    <3>3. r[j - (i - 1)] = s[i + (j - (i - 1))]
      BY <1>3, <3>2
    <3>4. i + (j - (i - 1)) = j + 1
      BY <1>1
    <3> QED BY <2>2, <3>1, <3>3, <3>4
  <2> QED BY <2>1, <2>2
<1> QED BY <1>4, <1>5 DEF l, r, RemoveAt


-------------------------------------------------------------------------------
(* Types.                                                                     *)

\* The state that StubTypeOK types and the connection it is about.
ServerTypeOK == NetTypeOK /\ StubTypeOK

\* usbip_recv of a header: the oldest PDU of the request stream is a PDU and is
\* gone from the stream.
LEMMA RecvCmdFacts ==
    ASSUME NetTypeOK, NEW cmd, RecvCmd(cmd)
    PROVE  /\ c2s # <<>>
           /\ Head(c2s) \in CmdPdu
           /\ Head(c2s).seqnum \in Nat /\ Head(c2s).target \in Nat
           /\ c2s' = Tail(c2s)
           /\ NetTypeOK'
<1>1. c2s # <<>> /\ c2s \in Seq(CmdPdu)
  BY DEF RecvCmd, CanRecv, NetTypeOK
<1>2. Head(c2s) \in CmdPdu /\ Tail(c2s) \in Seq(CmdPdu)
  BY <1>1, HeadTailProperties
<1>3. Head(c2s).seqnum \in Nat /\ Head(c2s).target \in Nat
  BY <1>2 DEF CmdPdu
<1> QED BY <1>1, <1>2, <1>3 DEF RecvCmd, NetTypeOK

\* The marking of a found unlink target, as StubRxCmdUnlinkFound does it ...
Marked(s, i, n) == [s EXCEPT ![i].unlinking = TRUE, ![i].seqnum = n]

\* ... keeps the entry's place on priv_init, its identity and its URB; the entry
\* takes the seqnum of the unlink request.
LEMMA MarkFacts ==
    ASSUME NEW s \in Seq(StubPriv), NEW i \in DOMAIN s, NEW n \in Nat
    PROVE  /\ Marked(s, i, n) \in Seq(StubPriv)
           /\ DOMAIN Marked(s, i, n) = DOMAIN s
           /\ Marked(s, i, n)[i].id = s[i].id
           /\ Marked(s, i, n)[i].urb = s[i].urb
           /\ Marked(s, i, n)[i].seqnum = n
           /\ Marked(s, i, n)[i].unlinking
           /\ \A j \in DOMAIN s : j # i => Marked(s, i, n)[j] = s[j]
<1> DEFINE t == Marked(s, i, n)
<1> DEFINE m == [s[i] EXCEPT !.unlinking = TRUE]
           e == [m EXCEPT !.seqnum = n]
           u == [s EXCEPT ![i] = m]
<1>1. i \in 1 .. Len(s) /\ DOMAIN s = 1 .. Len(s) /\ s[i] \in StubPriv
  BY ElementOfSeq
<1>2. m \in StubPriv /\ m.id = s[i].id /\ m.urb = s[i].urb /\ m.unlinking
  BY <1>1 DEF StubPriv
<1>3. t = [u EXCEPT ![i] = [u[i] EXCEPT !.seqnum = n]] /\ u[i] = m
  BY DEF Marked
<1> HIDE DEF m, t
<1>4. /\ e \in StubPriv
      /\ e.id = m.id /\ e.urb = m.urb /\ e.unlinking = m.unlinking /\ e.seqnum = n
  BY <1>2 DEF StubPriv
<1>5. t = [s EXCEPT ![i] = e]
  BY <1>3
<1> HIDE DEF e
<1>6. /\ t \in Seq(StubPriv) /\ Len(t) = Len(s)
      /\ \A j \in 1 .. Len(s) : t[j] = IF j = i THEN e ELSE s[j]
  <2>1. /\ [s EXCEPT ![i] = e] \in Seq(StubPriv) /\ Len([s EXCEPT ![i] = e]) = Len(s)
        /\ \A j \in 1 .. Len(s) : [s EXCEPT ![i] = e][j] = IF j = i THEN e ELSE s[j]
    BY <1>1, <1>4, ExceptSeq
  <2> QED BY <1>5, <2>1
<1>7. DOMAIN t = 1 .. Len(s)
  BY <1>6
<1> QED BY <1>1, <1>2, <1>4, <1>6, <1>7 DEF t

\* stub_enqueue_ret_unlink keeps the types of what it changes.
LEMMA EnqueueRetUnlinkType ==
    ASSUME StubTypeOK, NEW n \in Nat, NEW st \in Status, EnqueueRetUnlink(n, st)
    PROVE  ret_unlink' \in Seq([seqnum : Nat, status : Status]) /\ sev' \in EventWord
<1>1. [seqnum |-> n, status |-> st] \in [seqnum : Nat, status : Status]
  OBVIOUS
<1>2. Append(ret_unlink, [seqnum |-> n, status |-> st]) \in Seq([seqnum : Nat, status : Status])
  BY <1>1, AppendProperties DEF StubTypeOK
<1> QED BY <1>2, SevTypes DEF EnqueueRetUnlink, StubTypeOK

\* stub_send_ret_submit and stub_send_ret_unlink put a result on the answer
\* stream, or none.
LEMMA SendRetType ==
    ASSUME NetTypeOK, NEW pdu \in RetPdu, SendRet(pdu)
    PROVE  NetTypeOK'
<1>1. Append(s2c, pdu) \in Seq(RetPdu)
  BY AppendProperties DEF NetTypeOK
<1> QED BY <1>1 DEF SendRet, NetTypeOK

\* Every step of the two threads, the completion handler, the event worker,
\* userland and the client keeps the types.
LEMMA ServerTypeStep == ServerTypeOK /\ [StubNext \/ Client]_serverVars => ServerTypeOK'
<1> SUFFICES ASSUME ServerTypeOK, [StubNext \/ Client]_serverVars PROVE ServerTypeOK'
  OBVIOUS
<1> USE DEF ServerTypeOK, StubTypeOK, NetTypeOK, netVars, sdevVars, storeVars
<1>1. CASE StubRxHead
  BY <1>1 DEF StubRxHead
<1>2. CASE StubRxFailed
  BY <1>2, SevTypes DEF StubRxFailed
<1>3. CASE StubRxInvalid
  <2>1. NetTypeOK'
    BY <1>3, RecvCmdFacts DEF StubRxInvalid
  <2>2. StubTypeOK'
    BY <1>3, SevTypes DEF StubRxInvalid
  <2> QED BY <2>1, <2>2
<1>4. CASE StubRxCmdSubmit
  <2> DEFINE s == Head(c2s).seqnum
  <2>1. NetTypeOK' /\ s \in Nat
    BY <1>4, RecvCmdFacts DEF StubRxCmdSubmit
  <2>2. \A urb \in BOOLEAN : Append(priv_init, NewPriv(s, urb)) \in Seq(StubPriv)
    BY <2>1, AppendProperties DEF NewPriv, StubPriv
  <2>3. priv_init' \in Seq(StubPriv)
    BY <1>4, <2>2 DEF StubRxCmdSubmit
  <2>4. sev' \in EventWord
    BY <1>4, SevTypes DEF StubRxCmdSubmit
  <2>5. hw' \in SUBSET Nat /\ cancelled' \in SUBSET hw' /\ torn' \in SUBSET Nat
    BY <1>4, <2>1 DEF StubRxCmdSubmit
  <2> QED BY <1>4, <2>1, <2>3, <2>4, <2>5 DEF StubRxCmdSubmit
<1>5. CASE StubRxCmdUnlinkFound
  <2>1. NetTypeOK' /\ Head(c2s).seqnum \in Nat
    BY <1>5, RecvCmdFacts DEF StubRxCmdUnlinkFound
  <2>2. PICK i \in DOMAIN priv_init :
           /\ priv_init' = Marked(priv_init, i, Head(c2s).seqnum)
           /\ srx_priv' = priv_init[i].id
    BY <1>5 DEF StubRxCmdUnlinkFound, Marked
  <2>3. priv_init[i] \in StubPriv
    BY ElementOfSeq
  <2>4. srx_priv' \in Nat
    BY <2>2, <2>3 DEF StubPriv
  <2>5. priv_init' \in Seq(StubPriv)
    BY <2>1, <2>2, MarkFacts
  <2> QED BY <1>5, <2>1, <2>4, <2>5 DEF StubRxCmdUnlinkFound
<1>6. CASE StubRxCmdUnlinkMissed
  <2>1. NetTypeOK' /\ Head(c2s).seqnum \in Nat
    BY <1>6, RecvCmdFacts DEF StubRxCmdUnlinkMissed
  <2>2. ret_unlink' \in Seq([seqnum : Nat, status : Status]) /\ sev' \in EventWord
    BY <1>6, <2>1, EnqueueRetUnlinkType DEF StubRxCmdUnlinkMissed, Status
  <2> QED BY <1>6, <2>1, <2>2 DEF StubRxCmdUnlinkMissed
<1>7. CASE StubRxUnlinkUrb
  BY <1>7 DEF StubRxUnlinkUrb
<1>8. CASE StubTxHead
  BY <1>8 DEF StubTxHead
<1>9. CASE StubTxRetSubmit
  <2>1. Head(done_tx) \in StubPriv /\ Tail(done_tx) \in Seq(StubPriv)
    BY <1>9, HeadTailProperties DEF StubTxRetSubmit
  <2>2. RetSubmit(Head(done_tx).seqnum) \in RetPdu
    BY <2>1 DEF StubPriv, RetSubmit, RetPdu, Status
  <2>3. NetTypeOK'
    BY <1>9, <2>2, SendRetType DEF StubTxRetSubmit
  <2> QED BY <1>9, <2>1, <2>3 DEF StubTxRetSubmit
<1>10. CASE StubTxSubmitsDone
  BY <1>10 DEF StubTxSubmitsDone
<1>11. CASE StubTxRetUnlink
  <2>1. /\ Head(ret_unlink) \in [seqnum : Nat, status : Status]
        /\ Tail(ret_unlink) \in Seq([seqnum : Nat, status : Status])
    BY <1>11, HeadTailProperties DEF StubTxRetUnlink
  <2>2. RetUnlink(Head(ret_unlink).seqnum, Head(ret_unlink).status) \in RetPdu
    BY <2>1 DEF RetUnlink, RetPdu
  <2>3. NetTypeOK'
    BY <1>11, <2>2, SendRetType DEF StubTxRetUnlink
  <2> QED BY <1>11, <2>1, <2>3, SMTT(60) DEF StubTxRetUnlink
<1>12. CASE StubTxFailed
  <2>1. done_tx # <<>> => Head(done_tx) \in StubPriv /\ Tail(done_tx) \in Seq(StubPriv)
    BY HeadTailProperties
  <2>2. ret_unlink # <<>> => Tail(ret_unlink) \in Seq([seqnum : Nat, status : Status])
    BY HeadTailProperties
  <2>3. sev' \in EventWord
    BY <1>12, SevTypes DEF StubTxFailed
  <2>4. /\ done_tx' \in Seq(StubPriv) /\ priv_free' \in SUBSET StubPriv
        /\ ret_unlink' \in Seq([seqnum : Nat, status : Status])
    BY <1>12, <2>1, <2>2 DEF StubTxFailed
  <2> QED BY <1>12, <2>3, <2>4 DEF StubTxFailed
<1>13. CASE StubTxUnlinksDone
  BY <1>13 DEF StubTxUnlinksDone
<1>14. CASE StubTxWait
  BY <1>14 DEF StubTxWait
<1>15. CASE StubEhPop
  BY <1>15, SevTypes DEF StubEhPop
<1>16. CASE StubEhUnlinkSocket
  BY <1>16 DEF StubEhUnlinkSocket, ShutdownConnection
<1>17. CASE StubEhStopRx
  BY <1>17 DEF StubEhStopRx
<1>171. CASE StubEhKickTx
  BY <1>171 DEF StubEhKickTx, WakeTx
<1>18. CASE StubEhStopTx
  BY <1>18 DEF StubEhStopTx
<1>19. CASE StubEhCleanup
  <2>1. priv_init # <<>> => Tail(priv_init) \in Seq(StubPriv)
    BY HeadTailProperties
  <2>2. done_tx # <<>> => Tail(done_tx) \in Seq(StubPriv)
    BY HeadTailProperties
  <2>3. /\ priv_init' \in Seq(StubPriv) /\ done_tx' \in Seq(StubPriv)
        /\ priv_free' \in SUBSET StubPriv
    BY <1>19, <2>1, <2>2 DEF StubEhCleanup
  <2>4. hw' \in SUBSET Nat /\ cancelled' \in SUBSET hw'
    BY <1>19 DEF StubEhCleanup
  <2> QED BY <1>19, <2>3, <2>4, SMTT(60) DEF StubEhCleanup
<1>20. CASE StubEhFreeUnlink
  BY <1>20, SevTypes DEF StubEhFreeUnlink, Bits
<1>21. CASE StubEhReset
  BY <1>21 DEF StubEhReset
<1>22. CASE StubEhUnsetReset
  BY <1>22, SevTypes DEF StubEhUnsetReset, Bits
<1>23. CASE StubEhUnusable
  BY <1>23, SevTypes DEF StubEhUnusable, Bits
<1>24. CASE StubStoreUsed
  BY <1>24, ZenonT(60) DEF StubStoreUsed
<1>241. CASE StubStartRx
  BY <1>241 DEF StubStartRx
<1>242. CASE StubStartTx
  BY <1>242 DEF StubStartTx
<1>243. CASE StubSetTx
  BY <1>243 DEF StubSetTx
<1>25. CASE StubStoreDown
  BY <1>25, SevTypes DEF StubStoreDown
<1>26. CASE StubStoreSockfd
  BY <1>26 DEF StubStoreSockfd
<1>27. ASSUME NEW id \in hw, StubComplete(id) PROVE ServerTypeOK'
  <2>1. PICK i \in DOMAIN priv_init :
           IF ssock = 0
           THEN UNCHANGED <<sev, priv_init, done_tx, ret_unlink>>
           ELSE /\ priv_init' = RemoveAt(priv_init, i)
                /\ IF priv_init[i].unlinking
                   THEN /\ \E status \in IF id \in cancelled THEN Status ELSE {"DONE"} :
                              EnqueueRetUnlink(priv_init[i].seqnum, status)
                        /\ UNCHANGED done_tx
                   ELSE /\ done_tx' = Append(done_tx, priv_init[i])
                        /\ UNCHANGED <<sev, ret_unlink>>
    BY <1>27 DEF StubComplete
  <2>2. priv_init[i] \in StubPriv /\ priv_init[i].seqnum \in Nat
    <3>1. priv_init[i] \in StubPriv
      BY ElementOfSeq
    <3> QED BY <3>1 DEF StubPriv
  <2>3. RemoveAt(priv_init, i) \in Seq(StubPriv)
    BY RemoveAtFacts
  <2>4. Append(done_tx, priv_init[i]) \in Seq(StubPriv)
    BY <2>2, AppendProperties
  <2>5. priv_init' \in Seq(StubPriv) /\ done_tx' \in Seq(StubPriv)
    BY <2>1, <2>3, <2>4
  <2>6. ret_unlink' \in Seq([seqnum : Nat, status : Status]) /\ sev' \in EventWord
    <3>1. \A st : st \in (IF id \in cancelled THEN Status ELSE {"DONE"}) => st \in Status
      BY DEF Status
    <3>2. \A st \in Status : EnqueueRetUnlink(priv_init[i].seqnum, st) =>
             ret_unlink' \in Seq([seqnum : Nat, status : Status]) /\ sev' \in EventWord
      BY <2>2, EnqueueRetUnlinkType
    <3>3. CASE UNCHANGED <<sev, ret_unlink>>
      BY <3>3
    <3>4. CASE \E st \in IF id \in cancelled THEN Status ELSE {"DONE"} :
                  EnqueueRetUnlink(priv_init[i].seqnum, st)
      BY <3>1, <3>2, <3>4
    <3> QED BY <2>1, <3>3, <3>4
  <2> QED BY <1>27, <2>5, <2>6 DEF StubComplete, WakeTx
<1>28. CASE Client
  BY <1>28 DEF Client, stubVars
<1>29. CASE UNCHANGED serverVars
  BY <1>29 DEF serverVars, stubVars
<1> HIDE DEF ServerTypeOK
<1> QED BY <1>1, <1>2, <1>3, <1>4, <1>5, <1>6, <1>7, <1>8, <1>9, <1>10, <1>11, <1>12, <1>13, <1>14, <1>15, <1>16, <1>17, <1>171, <1>18, <1>19, <1>20, <1>21, <1>22, <1>23, <1>24, <1>241, <1>242, <1>243, <1>25, <1>26, <1>27, <1>28, <1>29
  DEF StubNext, StubRx, StubTx, StubEh, StubUser, StubStoreGoesOn


-------------------------------------------------------------------------------
(* A URB in the host controller keeps its stub_priv.                          *)

\* An exported device no client has used yet.
LEMMA ServerInit == NetInit /\ StubInit => ServerTypeOK /\ HwUrbHasPriv
<1> SUFFICES ASSUME NetInit, StubInit PROVE ServerTypeOK /\ HwUrbHasPriv
  OBVIOUS
<1>1. NetTypeOK
  BY DEF NetInit, NetTypeOK
<1>2. StubTypeOK
  <2>1. NoEvent \in EventWord
    BY DEF EventWord, NoEvent
  <2>2. <<>> \in Seq(StubPriv) /\ <<>> \in Seq([seqnum : Nat, status : Status])
    BY EmptySeq
  <2>3. /\ sstatus = "AVAILABLE" /\ ssock \in Nat /\ srx_priv \in Nat
        /\ smissed \in SUBSET {"rx", "tx"}
    BY DEF StubInit
  <2>4. priv_free \in SUBSET StubPriv /\ hw \in SUBSET Nat /\ cancelled \in SUBSET hw /\ torn \in SUBSET Nat
    BY DEF StubInit
  <2> QED BY <2>1, <2>2, <2>3, <2>4 DEF StubInit, StubTypeOK
<1>3. HwUrbHasPriv
  BY DEF StubInit, HwUrbHasPriv
<1> QED BY <1>1, <1>2, <1>3 DEF ServerTypeOK

\* A step that leaves priv_init and the host controller alone.
LEMMA HwFrame ==
    ASSUME HwUrbHasPriv, UNCHANGED <<priv_init, hw>>
    PROVE  HwUrbHasPriv'
BY DEF HwUrbHasPriv

\* stub_recv_cmd_submit puts the stub_priv on priv_init before usb_submit_urb,
\* and submits only a stub_priv that has its URB.
LEMMA HwSubmit ==
    ASSUME ServerTypeOK, HwUrbHasPriv, StubRxCmdSubmit
    PROVE  HwUrbHasPriv'
<1> DEFINE s == Head(c2s).seqnum
<1>1. s \in Nat /\ priv_init \in Seq(StubPriv)
  BY RecvCmdFacts DEF StubRxCmdSubmit, ServerTypeOK, StubTypeOK
<1>2. \A urb \in BOOLEAN : NewPriv(s, urb) \in StubPriv
  BY <1>1 DEF NewPriv, StubPriv
<1> HIDE DEF s
<1>3. ASSUME NEW urb \in BOOLEAN, priv_init' = Append(priv_init, NewPriv(s, urb))
      PROVE  /\ \A i \in DOMAIN priv_init : i \in DOMAIN priv_init' /\ priv_init'[i] = priv_init[i]
             /\ Len(priv_init) + 1 \in DOMAIN priv_init'
             /\ priv_init'[Len(priv_init) + 1] = NewPriv(s, urb)
  <2> DEFINE q == Append(priv_init, NewPriv(s, urb))
  <2>1. /\ q \in Seq(StubPriv) /\ Len(q) = Len(priv_init) + 1
        /\ \A i \in 1 .. Len(priv_init) : q[i] = priv_init[i]
        /\ q[Len(priv_init) + 1] = NewPriv(s, urb)
    BY <1>1, <1>2, AppendProperties
  <2> HIDE DEF q
  <2>2. DOMAIN q = 1 .. Len(q) /\ DOMAIN priv_init = 1 .. Len(priv_init) /\ Len(priv_init) \in Nat
    BY <1>1, <2>1
  <2>3. priv_init' = q
    BY <1>3 DEF q
  <2> QED BY <2>1, <2>2, <2>3
<1>4. CASE priv_init' = Append(priv_init, NewPriv(s, TRUE)) /\ hw' = hw \cup {s}
  BY <1>3, <1>4 DEF HwUrbHasPriv, NewPriv
<1>5. CASE hw' = hw /\ \E urb \in BOOLEAN : priv_init' = Append(priv_init, NewPriv(s, urb))
  BY <1>3, <1>5 DEF HwUrbHasPriv
<1>6. CASE UNCHANGED <<priv_init, hw>>
  BY <1>6, HwFrame
<1> QED BY <1>4, <1>5, <1>6 DEF StubRxCmdSubmit, s

\* stub_recv_cmd_unlink changes the seqnum of a stub_priv, not its identity.
LEMMA HwMark ==
    ASSUME ServerTypeOK, HwUrbHasPriv, StubRxCmdUnlinkFound
    PROVE  HwUrbHasPriv'
<1>1. Head(c2s).seqnum \in Nat /\ priv_init \in Seq(StubPriv)
  BY RecvCmdFacts DEF StubRxCmdUnlinkFound, ServerTypeOK, StubTypeOK
<1>2. PICK i \in DOMAIN priv_init : priv_init' = Marked(priv_init, i, Head(c2s).seqnum)
  BY DEF StubRxCmdUnlinkFound, Marked
<1>3. /\ DOMAIN priv_init' = DOMAIN priv_init
      /\ priv_init'[i].id = priv_init[i].id /\ priv_init'[i].urb = priv_init[i].urb
      /\ \A j \in DOMAIN priv_init : j # i => priv_init'[j] = priv_init[j]
  BY <1>1, <1>2, MarkFacts, SMTT(60)
<1> QED BY <1>3 DEF HwUrbHasPriv, StubRxCmdUnlinkFound

\* stub_complete takes the completed URB's stub_priv off priv_init, and no other.
LEMMA HwComplete ==
    ASSUME ServerTypeOK, HwUrbHasPriv, NEW id \in hw, StubComplete(id)
    PROVE  HwUrbHasPriv'
<1>1. PICK i \in DOMAIN priv_init :
         /\ priv_init[i].id = id
         /\ priv_init' = priv_init \/ priv_init' = RemoveAt(priv_init, i)
  BY DEF StubComplete
<1>2. hw' = hw \ {id}
  BY DEF StubComplete
<1>3. CASE priv_init' = priv_init
  BY <1>2, <1>3 DEF HwUrbHasPriv
<1>4. CASE priv_init' = RemoveAt(priv_init, i)
  <2>1. priv_init \in Seq(StubPriv) /\ DOMAIN priv_init = 1 .. Len(priv_init)
    BY SMTT(60) DEF ServerTypeOK, StubTypeOK
  <2>2. /\ priv_init' \in Seq(StubPriv)
        /\ Len(priv_init') = Len(priv_init) - 1
        /\ \A j \in 1 .. Len(priv_init) - 1 :
              priv_init'[j] = IF j < i THEN priv_init[j] ELSE priv_init[j + 1]
    BY <1>4, <2>1, RemoveAtFacts, Zenon
  <2>3. DOMAIN priv_init' = 1 .. Len(priv_init) - 1 /\ Len(priv_init) \in Nat
    BY <2>1, <2>2
  <2>4. ASSUME NEW x \in hw'
        PROVE  \E j \in DOMAIN priv_init' : priv_init'[j].id = x /\ priv_init'[j].urb
    <3>1. PICK k \in 1 .. Len(priv_init) : priv_init[k].id = x /\ priv_init[k].urb
      BY <1>2, <2>1, <2>4 DEF HwUrbHasPriv
    <3>2. k # i
      BY <1>1, <1>2, <2>4, <3>1
    <3>3. CASE k < i
      <4>1. k \in 1 .. Len(priv_init) - 1 /\ priv_init'[k] = priv_init[k]
        BY <2>1, <2>2, <2>3, <3>3
      <4> QED BY <2>3, <3>1, <4>1
    <3>4. CASE k > i
      <4>1. k - 1 \in 1 .. Len(priv_init) - 1 /\ ~(k - 1 < i) /\ (k - 1) + 1 = k
        BY <2>1, <2>3, <3>4
      <4>2. priv_init'[k - 1] = priv_init[k]
        BY <2>2, <4>1
      <4> QED BY <2>3, <3>1, <4>1, <4>2
    <3> QED BY <2>1, <3>2, <3>3, <3>4
  <2> QED BY <2>4 DEF HwUrbHasPriv
<1> QED BY <1>1, <1>3, <1>4

\* stub_device_cleanup_urbs kills the URB of the stub_priv it frees.
LEMMA HwCleanup ==
    ASSUME ServerTypeOK, HwUrbHasPriv, StubEhCleanup
    PROVE  HwUrbHasPriv'
<1>1. CASE UNCHANGED <<priv_init, hw>>
  BY <1>1, HwFrame
<1>2. CASE /\ priv_init # <<>>
           /\ priv_init' = Tail(priv_init)
           /\ hw' = hw \ {Head(priv_init).id}
  <2>1. priv_init \in Seq(StubPriv)
    BY DEF ServerTypeOK, StubTypeOK
  <2>2. /\ priv_init' \in Seq(StubPriv) /\ Len(priv_init') = Len(priv_init) - 1
        /\ \A i \in 1 .. Len(priv_init') : priv_init'[i] = priv_init[i + 1]
    BY <1>2, <2>1, HeadTailProperties
  <2>3. /\ Head(priv_init) = priv_init[1] /\ Len(priv_init) \in Nat
        /\ DOMAIN priv_init = 1 .. Len(priv_init) /\ DOMAIN priv_init' = 1 .. Len(priv_init')
    BY <1>2, <2>1, <2>2
  <2>4. ASSUME NEW x \in hw'
        PROVE  \E j \in DOMAIN priv_init' : priv_init'[j].id = x /\ priv_init'[j].urb
    <3>1. PICK k \in 1 .. Len(priv_init) : priv_init[k].id = x /\ priv_init[k].urb
      BY <1>2, <2>3, <2>4 DEF HwUrbHasPriv
    <3>2. k # 1
      BY <1>2, <2>3, <2>4, <3>1
    <3>3. k - 1 \in 1 .. Len(priv_init') /\ (k - 1) + 1 = k
      BY <2>2, <2>3, <3>2
    <3>4. priv_init'[k - 1] = priv_init[k]
      BY <2>2, <3>3
    <3> QED BY <2>3, <3>1, <3>3, <3>4
  <2> QED BY <2>4 DEF HwUrbHasPriv
<1> QED BY <1>1, <1>2 DEF StubEhCleanup

\* One step per action; most leave priv_init and the host controller alone.
LEMMA HwStep ==
    ServerTypeOK /\ HwUrbHasPriv /\ [StubNext \/ Client]_serverVars => HwUrbHasPriv'
<1> SUFFICES ASSUME ServerTypeOK, HwUrbHasPriv, [StubNext \/ Client]_serverVars
             PROVE  HwUrbHasPriv'
  OBVIOUS
<1>1. CASE StubRxHead
  BY <1>1, HwFrame DEF StubRxHead
<1>2. CASE StubRxFailed
  BY <1>2, HwFrame DEF StubRxFailed
<1>3. CASE StubRxInvalid
  BY <1>3, HwFrame DEF StubRxInvalid
<1>4. CASE StubRxCmdSubmit
  BY <1>4, HwSubmit
<1>5. CASE StubRxCmdUnlinkFound
  BY <1>5, HwMark
<1>6. CASE StubRxCmdUnlinkMissed
  BY <1>6, HwFrame DEF StubRxCmdUnlinkMissed
<1>7. CASE StubRxUnlinkUrb
  BY <1>7, HwFrame DEF StubRxUnlinkUrb
<1>8. CASE StubTxHead
  BY <1>8, HwFrame DEF StubTxHead
<1>9. CASE StubTxRetSubmit
  BY <1>9, HwFrame DEF StubTxRetSubmit
<1>10. CASE StubTxSubmitsDone
  BY <1>10, HwFrame DEF StubTxSubmitsDone
<1>11. CASE StubTxRetUnlink
  BY <1>11, HwFrame DEF StubTxRetUnlink
<1>12. CASE StubTxFailed
  BY <1>12, HwFrame DEF StubTxFailed
<1>13. CASE StubTxUnlinksDone
  BY <1>13, HwFrame DEF StubTxUnlinksDone
<1>14. CASE StubTxWait
  BY <1>14, HwFrame DEF StubTxWait
<1>15. CASE StubEhPop
  BY <1>15, HwFrame DEF StubEhPop
<1>16. CASE StubEhUnlinkSocket
  BY <1>16, HwFrame DEF StubEhUnlinkSocket
<1>17. CASE StubEhStopRx
  BY <1>17, HwFrame DEF StubEhStopRx
<1>171. CASE StubEhKickTx
  BY <1>171, HwFrame DEF StubEhKickTx
<1>18. CASE StubEhStopTx
  BY <1>18, HwFrame DEF StubEhStopTx
<1>19. CASE StubEhCleanup
  BY <1>19, HwCleanup
<1>20. CASE StubEhFreeUnlink
  BY <1>20, HwFrame DEF StubEhFreeUnlink
<1>21. CASE StubEhReset
  BY <1>21, HwFrame DEF StubEhReset
<1>22. CASE StubEhUnsetReset
  BY <1>22, HwFrame DEF StubEhUnsetReset
<1>23. CASE StubEhUnusable
  BY <1>23, HwFrame DEF StubEhUnusable
<1>24. CASE StubStoreGoesOn
  BY <1>24, HwFrame DEF StubStoreGoesOn, StubStartRx, StubStartTx, StubSetTx, StubStoreUsed
<1>25. CASE StubStoreDown
  BY <1>25, HwFrame DEF StubStoreDown
<1>26. CASE StubStoreSockfd
  BY <1>26, HwFrame DEF StubStoreSockfd
<1>27. ASSUME NEW id \in hw, StubComplete(id) PROVE HwUrbHasPriv'
  BY <1>27, HwComplete
<1>28. CASE Client
  BY <1>28, HwFrame DEF Client, stubVars
<1>29. CASE UNCHANGED serverVars
  BY <1>29, HwFrame DEF serverVars, stubVars
<1> QED BY <1>1, <1>2, <1>3, <1>4, <1>5, <1>6, <1>7, <1>8, <1>9, <1>10, <1>11, <1>12, <1>13, <1>14, <1>15, <1>16, <1>17, <1>171, <1>18, <1>19, <1>20, <1>21, <1>22, <1>23, <1>24, <1>25, <1>26, <1>27, <1>28, <1>29
  DEF StubNext, StubRx, StubTx, StubEh, StubUser

\* The types and HwUrbHasPriv are an inductive invariant together.
LEMMA ServerInvariance == StubSpec => [](ServerTypeOK /\ HwUrbHasPriv)
<1>1. NetInit /\ StubInit => ServerTypeOK /\ HwUrbHasPriv
  BY ServerInit
<1>2. ServerTypeOK /\ HwUrbHasPriv /\ [StubNext \/ Client]_serverVars
         => (ServerTypeOK /\ HwUrbHasPriv)'
  BY ServerTypeStep, HwStep
<1> QED BY <1>1, <1>2, PTL DEF StubSpec

\* Every variable of an exported device keeps its type, whatever the client sends:
\* in particular a URB counts as cancelled only while the host controller has it.
THEOREM StubTypeCorrect == StubSpec => []StubTypeOK
<1>1. ServerTypeOK => StubTypeOK
  BY DEF ServerTypeOK
<1> QED BY <1>1, ServerInvariance, PTL

\* stub_complete never runs on freed memory: whatever the client sends, in any
\* interleaving of stub_rx, stub_tx, the completion handler and the teardown, the
\* stub_priv behind a URB in the host controller is on priv_init.
THEOREM NoDanglingContext == StubSpec => []HwUrbHasPriv
<1> QED BY ServerInvariance, PTL


-------------------------------------------------------------------------------
(* A teardown leaves nothing behind.                                          *)

\* The socket is handed over to a device whose event worker has finished with
\* the connection before: no operation in progress, no event, no node on the
\* list.  It is so for a device's first connection; store_sockfd itself only
\* tests the status, which stub_device_reset sets before the worker is through.
QuietExport == [][StubStoreSockfd => seh = "idle" /\ sev = NoEvent]_serverVars

\* The lists of the device: no stub_priv, no URB in flight, no result.
Empty ==
    /\ priv_init = <<>> /\ done_tx = <<>> /\ priv_free = {} /\ ret_unlink = <<>>
    /\ hw = {}

\* The worker is past a thread: it has stopped it, or has not found it, as it was
\* being started or is still to be.
RxGone ==
    /\ srx = "off" \/ "rx" \in smissed
    /\ sstore = "start_rx" => "rx" \in smissed
TxGone ==
    /\ stx = "off" \/ "tx" \in smissed
    /\ sstore \in {"start_rx", "start_tx"} => "tx" \in smissed
Gone == Empty /\ ssock = 0 /\ RxGone /\ TxGone

\* The inductive invariant: how far the teardown is at each place of the worker.
\* Until store_sockfd says SDEV_ST_USED, stub_rx refuses every request, so the
\* lists stay as empty as they were; and a stub_tx that the worker did not find
\* finds them empty.  A node left on the list by a second event of the same
\* connection makes the worker run again; it finds SHUTDOWN cleared only when the
\* first run has cleaned up.
Torn ==
    /\ "BYE" \notin sev.bits
    /\ sstore # "idle" => sstatus # "USED" /\ Empty
    /\ "tx" \in smissed => ssock = 0 /\ Empty
    /\ seh \in {"stop_tx", "cleanup", "free_unlink", "oops"} => RxGone
    /\ seh \in {"cleanup", "free_unlink", "oops"} => TxGone /\ ssock = 0
    /\ seh = "free_unlink" => priv_init = <<>> /\ done_tx = <<>> /\ priv_free = {}
    /\ seh \in {"reset", "unset_reset", "unusable"} => Gone
    /\ seh = "idle" /\ sev.queued /\ "SHUTDOWN" \notin sev.bits => Gone
    /\ sstatus = "AVAILABLE" /\ sstore = "idle" => Gone
TornInv == ServerTypeOK /\ HwUrbHasPriv /\ Torn

\* usbip_event_add with either mask sets SHUTDOWN and never says goodbye.
LEMMA EventAddSets ==
    ASSUME NEW e \in EventWord, "BYE" \notin e.bits,
           NEW mask \in {EVENT_DOWN, EVENT_ERROR_MALLOC}
    PROVE  "BYE" \notin EventAdd(e, mask).bits /\ "SHUTDOWN" \in EventAdd(e, mask).bits
BY DEF EventAdd, EVENT_DOWN, EVENT_ERROR_MALLOC, EventWord

\* What a thread or userland may do to the event word.
Raises == sev' = sev \/ \E mask \in {EVENT_DOWN, EVENT_ERROR_MALLOC} : sev' = EventAdd(sev, mask)

\* The event word after it.
LEMMA RaisesFacts ==
    ASSUME TornInv, Raises
    PROVE  "BYE" \notin sev'.bits /\ (sev' = sev \/ "SHUTDOWN" \in sev'.bits)
<1>1. sev \in EventWord /\ "BYE" \notin sev.bits
  BY DEF TornInv, ServerTypeOK, StubTypeOK, Torn
<1> QED BY <1>1, EventAddSets DEF Raises

\* A step of a thread that adds nothing to the lists and starts no thread, and may
\* raise an event; or one of the client, which does less.
LEMMA BareStep ==
    ASSUME TornInv, Raises,
           UNCHANGED <<sstatus, ssock, sstore, smissed, priv_init, done_tx, ret_unlink, hw, seh>>,
           priv_free' \subseteq priv_free, srx = "off" => srx' = "off", stx = "off" => stx' = "off"
    PROVE  Torn'
<1>1. "BYE" \notin sev'.bits /\ (sev' = sev \/ "SHUTDOWN" \in sev'.bits)
  BY RaisesFacts
<1>2. /\ Empty => Empty'
      /\ RxGone => RxGone'
      /\ TxGone => TxGone'
  BY DEF Empty, RxGone, TxGone
<1>3. Gone => Gone'
  BY <1>2 DEF Gone
<1>4. priv_free = {} => priv_free' = {}
  OBVIOUS
<1> QED BY <1>1, <1>2, <1>3, <1>4 DEF TornInv, Torn

\* A step of a thread or of the host controller that changes the lists of a device
\* whose worker is not past the threads.
LEMMA ListStep ==
    ASSUME TornInv, Raises, ~Gone, sstore = "idle", "tx" \notin smissed,
           seh \in {"idle", "unlink", "stop_rx", "stop_tx"},
           UNCHANGED <<sstatus, ssock, sstore, smissed, seh>>,
           srx = "off" => srx' = "off", stx = "off" => stx' = "off"
    PROVE  Torn'
<1>1. "BYE" \notin sev'.bits /\ (sev' = sev \/ "SHUTDOWN" \in sev'.bits)
  BY RaisesFacts
<1>2. (RxGone => RxGone') /\ sstatus # "AVAILABLE"
  BY DEF TornInv, Torn, RxGone
<1> QED BY <1>1, <1>2 DEF TornInv, Torn

\* A device that has received a request it accepts ...
LEMMA Accepting ==
    ASSUME TornInv, ssock # 0, sstatus = "USED"
    PROVE  /\ ~Gone /\ sstore = "idle" /\ "tx" \notin smissed
           /\ seh \in {"idle", "unlink", "stop_rx", "stop_tx"}
BY DEF TornInv, Torn, Gone, ServerTypeOK, StubTypeOK

\* ... or whose stub_tx has a result to send.
LEMMA HasResult ==
    ASSUME TornInv, stx # "off", ~Empty
    PROVE  /\ ~Gone /\ sstore = "idle" /\ "tx" \notin smissed
           /\ seh \in {"idle", "unlink", "stop_rx", "stop_tx"}
BY DEF TornInv, Torn, Gone, TxGone, ServerTypeOK, StubTypeOK

\* One step per action; the hypothesis on StubStoreSockfd is what QuietExport says.
LEMMA TornStep ==
    TornInv /\ [StubNext \/ Client]_serverVars
            /\ [StubStoreSockfd => seh = "idle" /\ sev = NoEvent]_serverVars
      => Torn'
<1> SUFFICES ASSUME TornInv, [StubNext \/ Client]_serverVars,
                    [StubStoreSockfd => seh = "idle" /\ sev = NoEvent]_serverVars
             PROVE  Torn'
  OBVIOUS
<1> USE DEF sdevVars, storeVars
<1>1. CASE StubRxHead \/ StubRxFailed \/ StubRxInvalid \/ StubRxUnlinkUrb
  <2>1. Raises /\ srx # "off"
    BY <1>1 DEF Raises, StubRxHead, StubRxFailed, StubRxInvalid, StubRxUnlinkUrb, RecvCmd
  <2>2. UNCHANGED <<sstatus, ssock, sstore, smissed, priv_init, done_tx, priv_free, ret_unlink, hw,
                    stx, seh>>
    BY <1>1 DEF StubRxHead, StubRxFailed, StubRxInvalid, StubRxUnlinkUrb
  <2> QED BY <2>1, <2>2, BareStep
<1>2. CASE StubRxCmdSubmit \/ StubRxCmdUnlinkFound \/ StubRxCmdUnlinkMissed
  <2>1. ssock # 0 /\ sstatus = "USED" /\ srx # "off" /\ Raises
    BY <1>2, ZenonT(60) DEF StubRxCmdSubmit, StubRxCmdUnlinkFound, StubRxCmdUnlinkMissed, RecvCmd, CanRecv,
                EnqueueRetUnlink, Raises
  <2>2. UNCHANGED <<sstatus, ssock, sstore, smissed, seh, stx>>
    BY <1>2 DEF StubRxCmdSubmit, StubRxCmdUnlinkFound, StubRxCmdUnlinkMissed
  <2> QED BY <2>1, <2>2, Accepting, ListStep, SMTT(60)
<1>3. CASE StubTxHead \/ StubTxSubmitsDone \/ StubTxUnlinksDone \/ StubTxWait
  <2>1. Raises /\ stx # "off" /\ priv_free' \subseteq priv_free
    BY <1>3 DEF Raises, StubTxHead, StubTxSubmitsDone, StubTxUnlinksDone, StubTxWait
  <2>2. UNCHANGED <<sstatus, ssock, sstore, smissed, priv_init, done_tx, ret_unlink, hw, srx, seh>>
    BY <1>3 DEF StubTxHead, StubTxSubmitsDone, StubTxUnlinksDone, StubTxWait
  <2> QED BY <2>1, <2>2, BareStep
<1>4. CASE StubTxRetSubmit \/ StubTxRetUnlink \/ StubTxFailed
  <2>1. ~Empty /\ stx # "off" /\ Raises
    BY <1>4 DEF StubTxRetSubmit, StubTxRetUnlink, StubTxFailed, Empty, Raises
  <2>2. UNCHANGED <<sstatus, ssock, sstore, smissed, seh, srx>>
    BY <1>4 DEF StubTxRetSubmit, StubTxRetUnlink, StubTxFailed
  <2> QED BY <2>1, <2>2, HasResult, ListStep
<1>5. ASSUME NEW id \in hw, StubComplete(id) PROVE Torn'
  <2>1. ~Empty
    BY <1>5 DEF Empty
  <2>2. sstore = "idle" /\ "tx" \notin smissed /\ ~Gone /\ sstatus # "AVAILABLE"
    BY <2>1 DEF TornInv, Torn, Gone
  <2>3. UNCHANGED <<sstatus, ssock, sstore, smissed, srx, seh>> /\ (stx = "off" => stx' = "off")
    BY <1>5 DEF StubComplete, WakeTx
  <2>4. CASE ssock = 0
    <3>1. UNCHANGED <<sev, priv_init, done_tx, ret_unlink, priv_free>>
      BY <1>5, <2>4 DEF StubComplete
    <3>2. (RxGone => RxGone') /\ (TxGone => TxGone')
      BY <2>3 DEF RxGone, TxGone
    <3> QED BY <2>2, <2>3, <3>1, <3>2 DEF TornInv, Torn
  <2>5. CASE ssock # 0
    <3>1. seh \in {"idle", "unlink", "stop_rx", "stop_tx"}
      BY <2>5 DEF TornInv, Torn, Gone, ServerTypeOK, StubTypeOK
    <3>2. Raises
      BY <1>5 DEF StubComplete, EnqueueRetUnlink, Raises
    <3> QED BY <2>2, <2>3, <3>1, <3>2, ListStep
  <2> QED BY <2>4, <2>5
<1>6. CASE StubEhPop
  <2>1. sev \in EventWord
    BY DEF TornInv, ServerTypeOK, StubTypeOK
  <2>2. sev'.bits = sev.bits
    BY <1>6, <2>1 DEF StubEhPop, GetEvent, EventWord
  <2>3. (Empty' <=> Empty) /\ (Gone' <=> Gone)
    BY <1>6 DEF StubEhPop, Empty, Gone, RxGone, TxGone
  <2>4. seh = "idle" /\ sev.queued /\ seh' = IF "SHUTDOWN" \in sev.bits THEN "unlink" ELSE "reset"
    BY <1>6 DEF StubEhPop
  <2>5. UNCHANGED <<sstatus, sstore, ssock, smissed>>
    BY <1>6 DEF StubEhPop
  <2> QED BY <2>2, <2>3, <2>4, <2>5 DEF TornInv, Torn
<1>7. CASE StubEhUnlinkSocket
  <2>1. (Empty' <=> Empty) /\ (Gone' <=> Gone)
    BY <1>7 DEF StubEhUnlinkSocket, Empty, Gone, RxGone, TxGone
  <2>2. seh' = "stop_rx" /\ UNCHANGED <<sev, sstatus, sstore, ssock, smissed>>
    BY <1>7 DEF StubEhUnlinkSocket
  <2> QED BY <2>1, <2>2 DEF TornInv, Torn
<1>8. CASE StubEhStopRx
  <2>1. RxGone'
    BY <1>8 DEF StubEhStopRx, SdevTcpRx, RxGone, TornInv, ServerTypeOK, StubTypeOK
  <2>2. /\ seh' = "stop_tx" /\ UNCHANGED <<sev, sstatus, sstore, ssock>>
        /\ (Empty' <=> Empty) /\ ("tx" \in smissed' <=> "tx" \in smissed)
    BY <1>8 DEF StubEhStopRx, Empty
  <2>3. TxGone => TxGone'
    BY <1>8, <2>2 DEF StubEhStopRx, TxGone
  <2> QED BY <2>1, <2>2, <2>3 DEF TornInv, Torn, Gone
<1>9. CASE StubEhKickTx
  <2>1. Raises /\ stx # "off"
    BY <1>9 DEF Raises, StubEhKickTx
  <2>2. UNCHANGED <<sstatus, ssock, sstore, smissed, priv_init, done_tx, priv_free, ret_unlink, hw,
                    srx, seh>>
    BY <1>9 DEF StubEhKickTx
  <2> QED BY <2>1, <2>2, BareStep
<1>10. CASE StubEhStopTx
  <2>1. TxGone' /\ ssock' = 0
    BY <1>10 DEF StubEhStopTx, SdevTcpTx, TxGone, TornInv, ServerTypeOK, StubTypeOK
  <2>2. /\ seh = "stop_tx" /\ seh' = "cleanup" /\ UNCHANGED <<sev, sstatus, sstore>>
        /\ (Empty' <=> Empty)
    BY <1>10 DEF StubEhStopTx, Empty
  <2>3. "tx" \in smissed' => Empty'
    BY <1>10, <2>2 DEF StubEhStopTx, TornInv, Torn
  <2>4. RxGone'
    BY <1>10, <2>2 DEF StubEhStopTx, TornInv, Torn, RxGone
  <2> QED BY <2>1, <2>2, <2>3, <2>4 DEF TornInv, Torn, Gone
<1>11. CASE StubEhCleanup
  <2>1. UNCHANGED <<sev, srx, stx, ssock, sstatus, sstore, smissed, ret_unlink>> /\ seh = "cleanup"
    BY <1>11 DEF StubEhCleanup
  <2>2. seh' \in {"cleanup", "oops", "free_unlink"}
    BY <1>11 DEF StubEhCleanup
  <2>3. seh' = "free_unlink" => priv_init' = <<>> /\ done_tx' = <<>> /\ priv_free' = {}
    BY <1>11 DEF StubEhCleanup
  <2>4. Empty => Empty'
    BY <1>11, <2>1 DEF StubEhCleanup, Empty
  <2>5. (RxGone => RxGone') /\ (TxGone => TxGone')
    BY <2>1 DEF RxGone, TxGone
  <2> QED BY <2>1, <2>2, <2>3, <2>4, <2>5 DEF TornInv, Torn, Gone
<1>12. CASE StubEhFreeUnlink
  <2>1. hw = {} /\ RxGone /\ TxGone /\ ssock = 0
    BY <1>12 DEF StubEhFreeUnlink, TornInv, Torn, HwUrbHasPriv
  <2>2. Empty'
    BY <1>12, <2>1 DEF StubEhFreeUnlink, TornInv, Torn, Empty
  <2>3. Gone'
    BY <1>12, <2>1, <2>2 DEF StubEhFreeUnlink, Gone, RxGone, TxGone
  <2>4. "BYE" \notin sev'.bits
    BY <1>12 DEF StubEhFreeUnlink, UnsetEvent, TornInv, Torn, ServerTypeOK, StubTypeOK, EventWord
  <2>5. seh' = "reset" /\ UNCHANGED <<sstatus, sstore>>
    BY <1>12 DEF StubEhFreeUnlink
  <2> QED BY <2>2, <2>3, <2>4, <2>5 DEF TornInv, Torn, Gone
<1>13. CASE StubEhReset \/ StubEhUnsetReset \/ StubEhUnusable
  <2>1. /\ Gone /\ UNCHANGED sstore
        /\ seh' \in {"unset_reset", "unusable", "idle"}
        /\ sstore # "idle" => sstatus # "USED"
    BY <1>13 DEF StubEhReset, StubEhUnsetReset, StubEhUnusable, TornInv, Torn
  <2>2. Gone' /\ Empty'
    BY <1>13, <2>1 DEF StubEhReset, StubEhUnsetReset, StubEhUnusable, Gone, Empty, RxGone, TxGone
  <2>3. "BYE" \notin sev'.bits
    BY <1>13 DEF StubEhReset, StubEhUnsetReset, StubEhUnusable, UnsetEvent, TornInv, Torn,
                 ServerTypeOK, StubTypeOK, EventWord
  <2>4. sstatus' = sstatus \/ sstatus' \in {"AVAILABLE", "ERROR"}
    BY <1>13 DEF StubEhReset, StubEhUnsetReset, StubEhUnusable
  <2> QED BY <2>1, <2>2, <2>3, <2>4 DEF Torn, Gone
<1>14. CASE StubStoreSockfd
  <2>1. CASE UNCHANGED serverVars
    BY <2>1, BareStep DEF serverVars, stubVars, Raises
  <2>2. CASE seh = "idle" /\ sev = NoEvent
    <3>1. Empty
      BY <1>14 DEF StubStoreSockfd, TornInv, Torn, Gone
    <3>2. Empty' /\ sstatus' = "AVAILABLE" /\ sstore' = "start_rx" /\ smissed' = {}
      BY <1>14, <3>1 DEF StubStoreSockfd, Empty
    <3>3. sev' = NoEvent /\ seh' = "idle"
      BY <1>14, <2>2 DEF StubStoreSockfd
    <3> QED BY <3>2, <3>3 DEF Torn, NoEvent
  <2> QED BY <1>14, <2>1, <2>2
<1>15. CASE StubStoreGoesOn
  <2>1. UNCHANGED <<ssock, smissed, sev, seh>> /\ sstore # "idle"
    BY <1>15 DEF StubStoreGoesOn, StubStartRx, StubStartTx, StubSetTx, StubStoreUsed
  <2>2. Empty /\ Empty' /\ sstatus # "USED"
    <3>1. Empty /\ sstatus # "USED"
      BY <2>1 DEF TornInv, Torn
    <3> QED BY <1>15, <3>1 DEF StubStoreGoesOn, StubStartRx, StubStartTx, StubSetTx, StubStoreUsed,
                               Empty
  <2>3. RxGone => RxGone'
    BY <1>15 DEF StubStoreGoesOn, StubStartRx, StubStartTx, StubSetTx, StubStoreUsed, RxGone
  <2>4. TxGone => TxGone'
    BY <1>15 DEF StubStoreGoesOn, StubStartRx, StubStartTx, StubSetTx, StubStoreUsed, TxGone
  <2>5. \/ sstore' # "idle" /\ UNCHANGED sstatus
        \/ sstore' = "idle" /\ sstatus' = "USED"
    BY <1>15 DEF StubStoreGoesOn, StubStartRx, StubStartTx, StubSetTx, StubStoreUsed
  <2>6. UNCHANGED <<priv_init, done_tx, priv_free>>
    BY <1>15 DEF StubStoreGoesOn, StubStartRx, StubStartTx, StubSetTx, StubStoreUsed
  <2> QED BY <2>1, <2>2, <2>3, <2>4, <2>5, <2>6 DEF TornInv, Torn, Gone
<1>16. CASE StubStoreDown
  <2>1. /\ Raises
        /\ UNCHANGED <<sstatus, ssock, sstore, smissed, priv_init, done_tx, priv_free, ret_unlink, hw,
                       srx, stx, seh>>
    BY <1>16 DEF Raises, StubStoreDown
  <2> QED BY <2>1, BareStep
<1>17. CASE Client \/ UNCHANGED serverVars
  BY <1>17, BareStep DEF Client, serverVars, stubVars, Raises
<1> QED BY <1>1, <1>2, <1>3, <1>4, <1>5, <1>6, <1>7, <1>8, <1>9, <1>10, <1>11, <1>12, <1>13,
           <1>14, <1>15, <1>16, <1>17
        DEF StubNext, StubRx, StubTx, StubEh, StubUser

\* A device that may be exported again carries nothing over from an earlier
\* connection, for any number of connections, as long as none of them is handed
\* over while the event worker still handles the one before.  A connection may
\* fail at any moment of its export: of stub_rx and stub_tx, started one after the
\* other, the worker may meet neither, the first or both, and what it does not meet
\* runs on, with nothing to send.
THEOREM NothingCarriedOver == StubSpec /\ QuietExport => []AvailableIsClean
<1>1. NetInit /\ StubInit => TornInv
  BY ServerInit DEF TornInv, Torn, StubInit, Gone, Empty, RxGone, TxGone, NoEvent
<1>2. TornInv /\ [StubNext \/ Client]_serverVars
              /\ [StubStoreSockfd => seh = "idle" /\ sev = NoEvent]_serverVars => TornInv'
  BY ServerTypeStep, HwStep, TornStep DEF TornInv
<1>3. TornInv => AvailableIsClean
  BY DEF TornInv, Torn, Gone, Empty, RxGone, TxGone, AvailableIsClean
<1> QED BY <1>1, <1>2, <1>3, PTL DEF StubSpec, QuietExport


-------------------------------------------------------------------------------
(* The path is made of the two ends.                                          *)

EndsTypeOK == VhciTypeOK /\ StubTypeOK

\* A step of the path is, to the client, a step of its own or one of its peer.
LEMMA ClientSteps == EndsTypeOK /\ [Next]_vars => [VhciNext \/ Peer]_clientVars
<1> SUFFICES ASSUME EndsTypeOK, [Next]_vars PROVE [VhciNext \/ Peer]_clientVars
  OBVIOUS
<1>0. NetTypeOK
  BY DEF EndsTypeOK, VhciTypeOK
<1>1. CASE Connect
  <2>1. NetTypeOK'
    BY <1>0, <1>1, EmptySeq DEF Connect, OpenConnection, NetTypeOK
  <2> QED BY <1>1, <2>1 DEF Connect, Peer
<1>2. CASE AttachVhci
  BY <1>2 DEF AttachVhci, VhciNext, VhciUser
<1>3. ASSUME StubStep \/ ExportStub PROVE [VhciNext \/ Peer]_clientVars
  <2>1. StubNext /\ UNCHANGED vhciVars
    BY <1>3 DEF StubStep, ExportStub, StubNext
  <2>2. ServerTypeOK'
    BY <2>1, <1>0, ServerTypeStep DEF EndsTypeOK, ServerTypeOK
  <2> QED BY <2>1, <2>2 DEF Peer, ServerTypeOK
<1>4. CASE GiveUp
  BY <1>0, <1>4 DEF GiveUp, Peer, NetTypeOK
<1>5. CASE VhciStep
  BY <1>5 DEF VhciStep, VhciNext, VhciUser
<1>6. CASE NetworkLoss
  BY <1>0, <1>6 DEF NetworkLoss, LoseConnection, Peer, NetTypeOK
<1>7. CASE UNCHANGED vars
  BY <1>7 DEF vars, clientVars
<1> QED BY <1>1, <1>2, <1>3, <1>4, <1>5, <1>6, <1>7 DEF Next

\* A step of the path is, to the server, a step of its own or one of its client.
LEMMA ServerSteps == EndsTypeOK /\ [Next]_vars => [StubNext \/ Client]_serverVars
<1> SUFFICES ASSUME EndsTypeOK, [Next]_vars PROVE [StubNext \/ Client]_serverVars
  OBVIOUS
<1>1. NetTypeOK'
  BY ClientSteps, TypeStep DEF EndsTypeOK, VhciTypeOK
<1>2. CASE StubStep \/ ExportStub
  BY <1>2 DEF StubStep, ExportStub, StubNext
<1>3. CASE UNCHANGED stubVars
  BY <1>1, <1>3 DEF Client
<1>4. CASE UNCHANGED vars
  BY <1>4 DEF vars, serverVars
<1>5. Connect \/ AttachVhci \/ GiveUp \/ VhciStep \/ NetworkLoss => UNCHANGED stubVars
  BY DEF Connect, AttachVhci, GiveUp, VhciStep, NetworkLoss, stubVars
<1> QED BY <1>2, <1>3, <1>4, <1>5 DEF Next

\* The invariants of the two ends, which their own proofs carry.
EndsInv == Inv /\ ServerTypeOK /\ HwUrbHasPriv

\* Every step of the path keeps the invariants of both ends.
LEMMA EndsStep == EndsInv /\ [Next]_vars => EndsInv'
<1> SUFFICES ASSUME EndsInv, [Next]_vars PROVE EndsInv'
  OBVIOUS
<1>1. EndsTypeOK
  BY DEF EndsInv, Inv, ServerTypeOK, EndsTypeOK
<1> QED BY <1>1, ClientSteps, ServerSteps, TypeStep, SafeStep, ServerTypeStep, HwStep
        DEF EndsInv, Inv

\* They hold in every state of the path.
LEMMA EndsInvariance == Spec => []EndsInv
<1>1. Init => EndsInv
  BY InitInv, ServerInit DEF Init, EndsInv
<1> QED BY <1>1, EndsStep, PTL DEF Spec

\* The state of the path has its type: that of both ends, and at most the two
\* drivers are waiting for the socket that the tools hand over.
THEOREM PathTypeCorrect == Spec => []UsbipTypeOK
<1> DEFINE Waiting == handover \in Seq({"stub", "vhci"}) /\ Len(handover) <= 2
<1>1. Init => Waiting
  BY DEF Init
<1>2. Waiting /\ [Next]_vars => Waiting'
  <2> SUFFICES ASSUME Waiting, [Next]_vars PROVE Waiting'
    OBVIOUS
  <2>1. CASE Connect
    <3>1. handover' = <<"stub", "vhci">> \/ handover' = <<"vhci", "stub">>
      BY <2>1 DEF Connect, HandOver
    <3>2. CASE handover' = <<"stub", "vhci">>
      <4>1. <<"stub", "vhci">> \in Seq({"stub", "vhci"}) /\ Len(<<"stub", "vhci">>) = 2
        OBVIOUS
      <4> QED BY <3>2, <4>1
    <3>3. CASE handover' = <<"vhci", "stub">>
      <4>1. <<"vhci", "stub">> \in Seq({"stub", "vhci"}) /\ Len(<<"vhci", "stub">>) = 2
        OBVIOUS
      <4> QED BY <3>3, <4>1
    <3> QED BY <3>1, <3>2, <3>3
  <2>2. CASE AttachVhci \/ ExportStub
    <3>1. handover # <<>> /\ handover' = Tail(handover)
      BY <2>2 DEF AttachVhci, ExportStub, TakeSocket, Turn
    <3>2. Tail(handover) \in Seq({"stub", "vhci"}) /\ Len(Tail(handover)) = Len(handover) - 1
      BY <3>1, HeadTailProperties
    <3>3. Len(handover) \in Nat
      OBVIOUS
    <3> QED BY <3>1, <3>2, <3>3
  <2>3. CASE GiveUp
    <3>1. handover' = <<>>
      BY <2>3 DEF GiveUp
    <3> QED BY <3>1
  <2>4. CASE VhciStep \/ StubStep \/ NetworkLoss \/ UNCHANGED vars
    <3>1. handover' = handover
      BY <2>4 DEF VhciStep, StubStep, NetworkLoss, vars
    <3> QED BY <3>1
  <2> QED BY <2>1, <2>2, <2>3, <2>4 DEF Next
<1>3. EndsInv /\ Waiting => UsbipTypeOK
  BY DEF EndsInv, Inv, ServerTypeOK, UsbipTypeOK
<1> QED BY <1>1, <1>2, <1>3, EndsInvariance, PTL DEF Spec

\* The client of the path is the client alone with an arbitrary peer.
THEOREM ClientOfPath == Spec => VhciSpec
<1>1. EndsInv => EndsTypeOK
  BY DEF EndsInv, Inv, ServerTypeOK, EndsTypeOK
<1>2. Init => NetInit /\ VhciInit
  BY DEF Init
<1> QED BY <1>1, <1>2, ClientSteps, EndsInvariance, PTL DEF Spec, VhciSpec

\* The server of the path is the exported device alone with an arbitrary client.
THEOREM ServerOfPath == Spec => StubSpec
<1>1. EndsInv => EndsTypeOK
  BY DEF EndsInv, Inv, ServerTypeOK, EndsTypeOK
<1>2. Init => NetInit /\ StubInit
  BY DEF Init
<1> QED BY <1>1, <1>2, ServerSteps, EndsInvariance, PTL DEF Spec, StubSpec

-------------------------------------------------------------------------------
(* Sequence numbers on a list.                                                *)

\* No two entries of a list have the same seqnum.
Distinct(list) == \A i, j \in DOMAIN list : list[i].seqnum = list[j].seqnum => i = j

\* A list whose first entry is taken off (a stream that is received from, or
\* list_for_each_entry_safe with list_del).
LEMMA TailNumbers ==
    ASSUME NEW S, NEW s \in Seq(S), s # <<>>
    PROVE  /\ Head(s).seqnum \in Seqnums(s)
           /\ Seqnums(Tail(s)) \subseteq Seqnums(s)
           /\ Seqnums(s) \subseteq Seqnums(Tail(s)) \cup {Head(s).seqnum}
           /\ Distinct(s) => Distinct(Tail(s)) /\ Head(s).seqnum \notin Seqnums(Tail(s))
           /\ \A i \in DOMAIN Tail(s) : \E j \in DOMAIN s : Tail(s)[i] = s[j]
<1> DEFINE r == Tail(s)
<1>1. /\ Len(s) \in Nat /\ Len(s) > 0 /\ DOMAIN s = 1 .. Len(s) /\ Head(s) = s[1]
      /\ r \in Seq(S) /\ Len(r) = Len(s) - 1 /\ DOMAIN r = 1 .. Len(s) - 1
      /\ \A i \in 1 .. Len(s) - 1 : r[i] = s[i + 1]
  BY HeadTailProperties, LenProperties
<1> HIDE DEF r
<1>2. \A i \in DOMAIN r : i + 1 \in DOMAIN s /\ r[i] = s[i + 1] /\ i + 1 # 1
  BY <1>1
<1>3. \A j \in DOMAIN s : j = 1 \/ (j - 1 \in DOMAIN r /\ r[j - 1] = s[j])
  <2> TAKE j \in DOMAIN s
  <2>1. j = 1 \/ (j - 1 \in DOMAIN r /\ (j - 1) + 1 = j)
    BY <1>1
  <2> QED BY <2>1, <1>2
<1>4. 1 \in DOMAIN s
  BY <1>1
<1>5. Distinct(s) => Distinct(r)
  <2> SUFFICES ASSUME Distinct(s), NEW i \in DOMAIN r, NEW j \in DOMAIN r, r[i].seqnum = r[j].seqnum
               PROVE  i = j
    BY DEF Distinct
  <2>1. i + 1 = j + 1
    BY <1>2 DEF Distinct
  <2> QED BY <2>1, <1>1
<1>6. Distinct(s) => s[1].seqnum \notin Seqnums(r)
  BY <1>2, <1>4 DEF Distinct, Seqnums
<1>7. s[1].seqnum \in Seqnums(s)
  BY <1>4 DEF Seqnums
<1>8. Seqnums(r) \subseteq Seqnums(s)
  BY <1>2 DEF Seqnums
<1>9. Seqnums(s) \subseteq Seqnums(r) \cup {s[1].seqnum}
  BY <1>3 DEF Seqnums
<1>10. \A i \in DOMAIN r : \E j \in DOMAIN s : r[i] = s[j]
  BY <1>2
<1> QED BY <1>1, <1>5, <1>6, <1>7, <1>8, <1>9, <1>10 DEF r

\* A list with an entry added to its end.
LEMMA AppendNumbers ==
    ASSUME NEW S, NEW s \in Seq(S), NEW e \in S
    PROVE  /\ Seqnums(Append(s, e)) = Seqnums(s) \cup {e.seqnum}
           /\ Distinct(s) /\ e.seqnum \notin Seqnums(s) => Distinct(Append(s, e))
           /\ \A i \in DOMAIN Append(s, e) :
                 Append(s, e)[i] = e \/ \E j \in DOMAIN s : Append(s, e)[i] = s[j]
<1> DEFINE r == Append(s, e)
<1>1. /\ Len(s) \in Nat /\ DOMAIN s = 1 .. Len(s)
      /\ r \in Seq(S) /\ Len(r) = Len(s) + 1 /\ DOMAIN r = 1 .. Len(s) + 1
      /\ r[Len(s) + 1] = e
      /\ \A i \in 1 .. Len(s) : r[i] = s[i]
  BY AppendProperties, LenProperties
<1> HIDE DEF r
<1>2. \A i \in DOMAIN r : (i = Len(s) + 1 /\ r[i] = e) \/ (i \in DOMAIN s /\ r[i] = s[i])
  BY <1>1
<1>3. Len(s) + 1 \in DOMAIN r /\ \A i \in DOMAIN s : i \in DOMAIN r /\ r[i] = s[i]
  BY <1>1
<1>4. Seqnums(r) = Seqnums(s) \cup {e.seqnum}
  BY <1>1, <1>2, <1>3 DEF Seqnums
<1>5. Distinct(s) /\ e.seqnum \notin Seqnums(s) => Distinct(r)
  BY <1>2 DEF Distinct, Seqnums
<1> QED BY <1>2, <1>4, <1>5 DEF r

\* A list with an entry taken out of its middle.
LEMMA RemoveNumbers ==
    ASSUME NEW S, NEW s \in Seq(S), NEW i \in DOMAIN s
    PROVE  /\ Seqnums(RemoveAt(s, i)) \subseteq Seqnums(s)
           /\ Seqnums(s) \subseteq Seqnums(RemoveAt(s, i)) \cup {s[i].seqnum}
           /\ Distinct(s) => /\ Distinct(RemoveAt(s, i))
                             /\ s[i].seqnum \notin Seqnums(RemoveAt(s, i))
           /\ \A j \in DOMAIN RemoveAt(s, i) : \E l \in DOMAIN s : RemoveAt(s, i)[j] = s[l]
<1> DEFINE r == RemoveAt(s, i)
           old(j) == IF j < i THEN j ELSE j + 1
<1>1. /\ Len(s) \in Nat /\ DOMAIN s = 1 .. Len(s) /\ i \in 1 .. Len(s)
      /\ r \in Seq(S) /\ Len(r) = Len(s) - 1 /\ DOMAIN r = 1 .. Len(s) - 1
      /\ \A j \in 1 .. Len(s) - 1 : r[j] = IF j < i THEN s[j] ELSE s[j + 1]
  BY RemoveAtFacts, LenProperties
<1> HIDE DEF r
<1>2. \A j \in DOMAIN r : old(j) \in DOMAIN s /\ old(j) # i /\ r[j] = s[old(j)]
  BY <1>1
<1>3. \A j, l \in DOMAIN r : old(j) = old(l) => j = l
  BY <1>1
<1>4. \A l \in DOMAIN s : l = i \/ \E j \in DOMAIN r : r[j] = s[l]
  <2> TAKE l \in DOMAIN s
  <2>1. CASE l < i
    <3>1. l \in DOMAIN r /\ r[l] = s[l]
      BY <1>1, <2>1
    <3> QED BY <3>1
  <2>2. CASE l > i
    <3>1. l - 1 \in DOMAIN r /\ ~(l - 1 < i) /\ (l - 1) + 1 = l
      BY <1>1, <2>2
    <3>2. r[l - 1] = s[l]
      BY <1>1, <3>1
    <3> QED BY <3>1, <3>2
  <2> QED BY <1>1, <2>1, <2>2
<1> HIDE DEF old
<1>5. Distinct(s) => Distinct(r)
  BY <1>2, <1>3 DEF Distinct
<1>6. Distinct(s) => s[i].seqnum \notin Seqnums(r)
  BY <1>2 DEF Distinct, Seqnums
<1> QED BY <1>2, <1>4, <1>5, <1>6 DEF Seqnums, r

\* priv_init with an entry that takes the number n.
LEMMA MarkNumbers ==
    ASSUME NEW s \in Seq(StubPriv), NEW i \in DOMAIN s, NEW n \in Nat
    PROVE  /\ Seqnums(Marked(s, i, n)) \subseteq Seqnums(s) \cup {n}
           /\ Seqnums(s) \subseteq Seqnums(Marked(s, i, n)) \cup {s[i].seqnum}
           /\ n \in Seqnums(Marked(s, i, n))
           /\ Distinct(s) /\ n \notin Seqnums(s) => Distinct(Marked(s, i, n))
<1> DEFINE r == Marked(s, i, n)
<1>1. DOMAIN r = DOMAIN s /\ r[i].seqnum = n /\ \A j \in DOMAIN s : j # i => r[j] = s[j]
  BY MarkFacts
<1> HIDE DEF r
<1>2. Distinct(s) /\ n \notin Seqnums(s) => Distinct(r)
  BY <1>1 DEF Distinct, Seqnums
<1> QED BY <1>1, <1>2 DEF Seqnums, r

\* Two lists one after the other.
LEMMA ConcatNumbers ==
    ASSUME NEW S, NEW s \in Seq(S), NEW r \in Seq(S),
           Distinct(s), Distinct(r), Seqnums(s) \cap Seqnums(r) = {}
    PROVE  /\ s \o r \in Seq(S)
           /\ Distinct(s \o r)
           /\ Seqnums(s \o r) \subseteq Seqnums(s) \cup Seqnums(r)
<1> DEFINE c == s \o r
<1>1. /\ c \in Seq(S) /\ Len(s) \in Nat /\ Len(r) \in Nat
      /\ DOMAIN s = 1 .. Len(s) /\ DOMAIN r = 1 .. Len(r) /\ DOMAIN c = 1 .. Len(s) + Len(r)
      /\ \A i \in 1 .. Len(s) + Len(r) : c[i] = IF i <= Len(s) THEN s[i] ELSE r[i - Len(s)]
  BY ConcatProperties, LenProperties
<1> HIDE DEF c
<1>2. \A i \in DOMAIN c :
         \/ i \in DOMAIN s /\ c[i] = s[i]
         \/ i - Len(s) \in DOMAIN r /\ c[i] = r[i - Len(s)]
  BY <1>1
<1>3. Seqnums(c) \subseteq Seqnums(s) \cup Seqnums(r)
  BY <1>2 DEF Seqnums
<1>4. Distinct(c)
  <2> SUFFICES ASSUME NEW i \in DOMAIN c, NEW j \in DOMAIN c, c[i].seqnum = c[j].seqnum
               PROVE  i = j
    BY DEF Distinct
  <2>1. CASE i \in DOMAIN s /\ c[i] = s[i] /\ j \in DOMAIN s /\ c[j] = s[j]
    BY <2>1 DEF Distinct
  <2>2. CASE /\ i - Len(s) \in DOMAIN r /\ c[i] = r[i - Len(s)]
             /\ j - Len(s) \in DOMAIN r /\ c[j] = r[j - Len(s)]
    <3>1. i - Len(s) = j - Len(s)
      BY <2>2 DEF Distinct
    <3> QED BY <3>1, <1>1
  <2>3. \A a \in DOMAIN s, b \in DOMAIN r : s[a].seqnum # r[b].seqnum
    BY DEF Seqnums
  <2> QED BY <1>2, <2>1, <2>2, <2>3
<1> QED BY <1>1, <1>3, <1>4 DEF c

-------------------------------------------------------------------------------
(* A request is in one place.                                                 *)

\* The numbers of the requests that wait on the client's lists, and of the one
\* that vhci_tx has in its hands.
Queued == {p.seqnum : p \in priv_tx} \cup {k.seqnum : k \in unlink_tx}
Sending == IF vtx \in {"send_submit", "send_unlink"} THEN {vpdu.seqnum} ELSE {}

\* No number is in two of seven places.
Apart(q, v, c, p, d, r, s) ==
    /\ q \cap (v \cup c \cup p \cup d \cup r \cup s) = {}
    /\ v \cap (c \cup p \cup d \cup r \cup s) = {}
    /\ c \cap (p \cup d \cup r \cup s) = {}
    /\ p \cap (d \cup r \cup s) = {}
    /\ d \cap (r \cup s) = {}
    /\ r \cap s = {}

\* AnsweredOnce, and what makes it inductive: a request the client has yet to
\* send is in none of the streams and lists that follow, and every number was
\* drawn from vhci->seqnum.
OnePlace ==
    /\ Distinct(c2s) /\ Distinct(priv_init) /\ Distinct(done_tx) /\ Distinct(ret_unlink)
    /\ Distinct(s2c)
    /\ Apart(Queued, Sending, Seqnums(c2s), Seqnums(priv_init), Seqnums(done_tx),
             Seqnums(ret_unlink), Seqnums(s2c))
    /\ \A n \in Queued \cup Sending \cup Seqnums(c2s) \cup AnswerDue \cup Seqnums(s2c) :
          n \in 1 .. seqnum

\* A step that lets numbers go, if anything: lists get shorter, a PDU is dropped.
LEMMA ShrinkPlaces ==
    ASSUME OnePlace, UNCHANGED seqnum, Queued' \subseteq Queued, Sending' \subseteq Sending,
           Distinct(c2s'), Seqnums(c2s') \subseteq Seqnums(c2s),
           Distinct(priv_init'), Seqnums(priv_init') \subseteq Seqnums(priv_init),
           Distinct(done_tx'), Seqnums(done_tx') \subseteq Seqnums(done_tx),
           Distinct(ret_unlink'), Seqnums(ret_unlink') \subseteq Seqnums(ret_unlink),
           Distinct(s2c'), Seqnums(s2c') \subseteq Seqnums(s2c)
    PROVE  OnePlace'
BY DEF OnePlace, Apart, AnswerDue

\* A step of one end leaves the lists of the other alone.
LEMMA ClientShrinks ==
    ASSUME OnePlace, UNCHANGED <<seqnum, stubVars, c2s>>, Queued' \subseteq Queued,
           Sending' \subseteq Sending, Distinct(s2c'), Seqnums(s2c') \subseteq Seqnums(s2c)
    PROVE  OnePlace'
<1>1. UNCHANGED <<priv_init, done_tx, ret_unlink>>
  BY DEF stubVars
<1> QED BY <1>1, ShrinkPlaces DEF OnePlace

\* A request takes the next number, under priv_lock, and is queued.
LEMMA NumberDrawn ==
    ASSUME VhciTypeOK, OnePlace, UNCHANGED <<netVars, stubVars, vtxVars>>, seqnum' = seqnum + 1,
           Queued' = Queued \cup {seqnum + 1}
    PROVE  OnePlace'
<1>1. seqnum \in Nat
  BY DEF VhciTypeOK, ListTypeOK
<1>2. UNCHANGED <<c2s, priv_init, done_tx, ret_unlink, s2c>> /\ Sending' = Sending
  BY DEF stubVars, netVars, vtxVars, Sending
<1> DEFINE all == Queued \cup Sending \cup Seqnums(c2s) \cup AnswerDue \cup Seqnums(s2c)
<1>3. \A n \in all : n \in 1 .. seqnum + 1 /\ n # seqnum + 1
  BY <1>1 DEF OnePlace
<1>4. seqnum + 1 \in 1 .. seqnum + 1
  BY <1>1
<1>5. AnswerDue' = AnswerDue
  BY <1>2 DEF AnswerDue
<1>6. Apart(Queued, Sending, Seqnums(c2s), Seqnums(priv_init), Seqnums(done_tx),
             Seqnums(ret_unlink), Seqnums(s2c))'
  BY <1>2, <1>3 DEF OnePlace, Apart, AnswerDue
<1> QED BY <1>2, <1>3, <1>4, <1>5, <1>6 DEF OnePlace

\* dequeue_from_priv_tx and dequeue_from_unlink_tx: the request is in the hands
\* of vhci_tx and off its list.
LEMMA NumberTaken ==
    ASSUME OnePlace, UNCHANGED <<netVars, stubVars, seqnum>>, NEW n \in Queued,
           Queued' = Queued \ {n}, Sending' = {n}
    PROVE  OnePlace'
<1>1. UNCHANGED <<c2s, priv_init, done_tx, ret_unlink, s2c>>
  BY DEF stubVars, netVars
<1> QED BY <1>1 DEF OnePlace, Apart, AnswerDue

\* Every step of the client keeps a request in one place: the steps that move a
\* number one by one, the others by ClientShrinks.
LEMMA ClientKeepsPlaces ==
    ASSUME EndsInv, OnePlace, VhciNext, UNCHANGED stubVars
    PROVE  OnePlace'
<1> USE DEF netVars, portVars, listVars, urbVars, vrxVars, vtxVars, userVars, hubVars
<1>0. /\ VhciTypeOK /\ NetTypeOK /\ RequestNumbersUnique
      /\ Distinct(c2s) /\ Distinct(s2c)
  BY DEF EndsInv, Inv, Safe, VhciTypeOK, OnePlace
<1>1. ASSUME NEW u \in Urbs, NEW on, TxUrb(u, on), UNCHANGED <<netVars, vtxVars>>
      PROVE  OnePlace'
  <2>1. CASE UNCHANGED <<seqnum, listVars>>
    BY <1>0, <1>1, <2>1, ClientShrinks DEF Queued, Sending
  <2>2. CASE /\ seqnum' = seqnum + 1 /\ UNCHANGED unlink_tx
             /\ priv_tx' = priv_tx \cup {[seqnum |-> seqnum + 1, urb |-> u]}
    <3>0. PICK e : priv_tx' = priv_tx \cup {e} /\ e.seqnum = seqnum + 1
      BY <2>2, [seqnum |-> seqnum + 1, urb |-> u].seqnum = seqnum + 1
    <3>1. Queued' = Queued \cup {seqnum + 1}
      BY <2>2, <3>0 DEF Queued
    <3> QED BY <1>0, <1>1, <2>2, <3>1, NumberDrawn
  <2> QED BY <1>1, <2>1, <2>2 DEF TxUrb
<1>2. ASSUME NEW u \in Urbs, VhciEnqueue(u) \/ VhciEnqueueGetDescriptor(u) PROVE OnePlace'
  BY <1>1, <1>2 DEF VhciEnqueue, VhciEnqueueGetDescriptor
<1>3. ASSUME NEW u \in Urbs, VhciEnqueueSetAddress(u) \/ VhciDequeueConnected(u)
      PROVE  OnePlace'
  BY <1>0, <1>3, ClientShrinks DEF VhciEnqueueSetAddress, VhciDequeueConnected, Queued, Sending
<1>4. ASSUME NEW u \in Urbs, VhciDequeueDisconnected(u) PROVE OnePlace'
  BY <1>0, <1>4, ClientShrinks DEF VhciDequeueDisconnected, Queued, Sending
<1>5. CASE VhciDequeueQueueUnlink
  <2>0. PICK k : k \in {[seqnum |-> seqnum + 1, target |-> n] : n \in {dq.seqnum} \cup StaleReads}
                 /\ unlink_tx' = unlink_tx \cup {k}
    BY <1>5 DEF VhciDequeueQueueUnlink
  <2>1. k.seqnum = seqnum + 1
    BY <2>0
  <2>2. Queued' = Queued \cup {seqnum + 1}
    BY <1>5, <2>0, <2>1 DEF VhciDequeueQueueUnlink, Queued
  <2> QED BY <1>0, <1>5, <2>2, NumberDrawn DEF VhciDequeueQueueUnlink
<1>6. CASE VhciTxDequeueSubmit
  <2>1. PICK p \in priv_tx : priv_tx' = priv_tx \ {p} /\ vpdu' = CmdSubmit(p.seqnum)
    BY <1>6 DEF VhciTxDequeueSubmit
  <2>2. /\ \A r \in priv_tx : r.seqnum = p.seqnum => r = p
        /\ \A k \in unlink_tx : k.seqnum # p.seqnum
    BY <1>0 DEF RequestNumbersUnique, Privs, Unlinks
  <2>3. Queued' = Queued \ {p.seqnum} /\ Sending' = {p.seqnum} /\ p.seqnum \in Queued
    BY <1>6, <2>1, <2>2 DEF VhciTxDequeueSubmit, Queued, Sending, CmdSubmit
  <2> QED BY <1>6, <2>3, NumberTaken DEF VhciTxDequeueSubmit
<1>7. CASE VhciTxDequeueUnlink
  <2>1. PICK k \in unlink_tx : unlink_tx' = unlink_tx \ {k} /\ vpdu' = CmdUnlink(k.seqnum, k.target)
    BY <1>7 DEF VhciTxDequeueUnlink
  <2>2. /\ \A r \in unlink_tx : r.seqnum = k.seqnum => r = k
        /\ \A p \in priv_tx : p.seqnum # k.seqnum
    BY <1>0 DEF RequestNumbersUnique, Privs, Unlinks
  <2>3. Queued' = Queued \ {k.seqnum} /\ Sending' = {k.seqnum} /\ k.seqnum \in Queued
    BY <1>7, <2>1, <2>2 DEF VhciTxDequeueUnlink, Queued, Sending, CmdUnlink
  <2> QED BY <1>7, <2>3, NumberTaken DEF VhciTxDequeueUnlink
<1>8. CASE VhciTxSent
  <2>1. Sending = {vpdu.seqnum} /\ Sending' = {} /\ Queued' = Queued
    BY <1>8 DEF VhciTxSent, Sending, Queued
  <2>2. CASE UNCHANGED c2s
    BY <1>0, <1>8, <2>1, <2>2, ClientShrinks DEF VhciTxSent
  <2>3. CASE c2s' = Append(c2s, vpdu)
    <3>1. c2s \in Seq(CmdPdu) /\ vpdu \in CmdPdu
      BY <1>0 DEF NetTypeOK, VhciTypeOK, ThreadTypeOK
    <3>2. vpdu.seqnum \notin Seqnums(c2s)
      BY <2>1 DEF OnePlace, Apart
    <3>3. Seqnums(c2s') = Seqnums(c2s) \cup {vpdu.seqnum} /\ Distinct(c2s')
      BY <1>0, <2>3, <3>1, <3>2, AppendNumbers
    <3>4. UNCHANGED <<priv_init, done_tx, ret_unlink, s2c, seqnum>>
      BY <1>8 DEF VhciTxSent, stubVars
    <3> QED BY <2>1, <3>3, <3>4 DEF OnePlace, Apart, AnswerDue
  <2> QED BY <1>8, <2>2, <2>3 DEF VhciTxSent
<1>9. CASE VhciRxRetSubmit \/ VhciRxRetUnlink
  <2>1. s2c # <<>> /\ s2c' = Tail(s2c) /\ UNCHANGED <<seqnum, c2s, priv_tx, unlink_tx, vtxVars>>
    BY <1>9 DEF VhciRxRetSubmit, VhciRxRetUnlink, CanRecv
  <2>2. Distinct(s2c') /\ Seqnums(s2c') \subseteq Seqnums(s2c)
    BY <1>0, <2>1, TailNumbers DEF NetTypeOK
  <2> QED BY <2>1, <2>2, ClientShrinks DEF Queued, Sending
<1>10. CASE \/ VhciTxNoSubmit \/ VhciTxNoUnlink \/ VhciTxFailed \/ VhciTxOops \/ VhciTxWake
  BY <1>0, <1>10, ClientShrinks DEF VhciTxNoSubmit, VhciTxNoUnlink, VhciTxFailed, VhciTxOops, VhciTxWake,
     Queued, Sending
<1>11. CASE \/ VhciRxHead \/ VhciRxGiveBack \/ VhciRxFailed \/ VhciRxTimeout
  BY <1>0, <1>11, ClientShrinks DEF VhciRxHead, VhciRxGiveBack, VhciRxFailed, VhciRxTimeout,
     Queued, Sending
<1>12. CASE VhciEh
  BY <1>0, <1>12, ClientShrinks
     DEF VhciEh, VhciEhPop, VhciEhUnlinkSocket, VhciEhStopRx, VhciEhStopTx, VhciEhCleanupTx,
         VhciEhCleanupRx, VhciEhPortOff, VhciEhReset, VhciEhUnsetReset, VhciEhUnusable,
         EhFrame, EhRest, ShutdownConnection, Queued, Sending
<1>13. CASE VhciUser
  BY <1>0, <1>13, ClientShrinks
     DEF VhciUser, VhciAttach, VhciAttachGoesOn, VhciAttachStartRx, VhciAttachStartTx, VhciAttachSetTx,
     VhciAttachConnect, VhciDetachCheck,
         VhciDetachEvent, Queued, Sending
<1>14. CASE HubConnectChange \/ HubDisconnected
  BY <1>0, <1>14, ClientShrinks DEF HubConnectChange, HubDisconnected, HubFrame, Queued, Sending
<1> QED BY <1>2, <1>3, <1>4, <1>5, <1>6, <1>7, <1>8, <1>9, <1>10, <1>11, <1>12, <1>13, <1>14
        DEF VhciNext, VhciTx, VhciRx, VhciCore

\* The client's own requests are where they were after a step of the server.
LEMMA ServerLeavesQueued ==
    ASSUME UNCHANGED vhciVars
    PROVE  /\ Queued' = Queued /\ Sending' = Sending /\ UNCHANGED <<seqnum, vtx, vpdu>>
           /\ Unlinks' = Unlinks
BY DEF vhciVars, listVars, vtxVars, Queued, Sending, Unlinks

\* A step of the server that leaves the streams and lists alone.
LEMMA ServerFrame ==
    ASSUME OnePlace, UNCHANGED vhciVars, UNCHANGED <<c2s, priv_init, done_tx, ret_unlink, s2c>>
    PROVE  OnePlace'
BY ServerLeavesQueued DEF OnePlace, AnswerDue

\* stub_rx receives a request: its number leaves the stream and is nowhere else.
LEMMA Received ==
    ASSUME EndsInv, OnePlace, NEW cmd, RecvCmd(cmd)
    PROVE  LET n == Head(c2s).seqnum
           IN  /\ n \in Nat /\ n \in Seqnums(c2s) /\ n \notin Seqnums(c2s')
               /\ Distinct(c2s') /\ Seqnums(c2s') \subseteq Seqnums(c2s)
               /\ n \notin Queued \cup Sending \cup AnswerDue \cup Seqnums(s2c)
               /\ UNCHANGED s2c
<1>1. c2s \in Seq(CmdPdu) /\ c2s # <<>> /\ c2s' = Tail(c2s) /\ UNCHANGED s2c
  BY DEF EndsInv, ServerTypeOK, NetTypeOK, RecvCmd, CanRecv
<1>2. Head(c2s).seqnum \in Nat
  BY RecvCmdFacts DEF EndsInv, ServerTypeOK
<1> QED BY <1>1, <1>2, TailNumbers DEF OnePlace, Apart, AnswerDue

\* stub_enqueue_ret_unlink of a number that is in no other place any more.
LEMMA EnqueuedNumbers ==
    ASSUME EndsInv, OnePlace, NEW n \in Nat, n \notin Seqnums(ret_unlink), NEW st \in Status,
           EnqueueRetUnlink(n, st)
    PROVE  Distinct(ret_unlink') /\ Seqnums(ret_unlink') \subseteq Seqnums(ret_unlink) \cup {n}
<1> DEFINE e == [seqnum |-> n, status |-> st]
           S == [seqnum : Nat, status : Status]
<1>1. e \in S /\ e.seqnum = n
  OBVIOUS
<1>2. ret_unlink \in Seq(S) /\ Distinct(ret_unlink)
  BY DEF EndsInv, ServerTypeOK, StubTypeOK, OnePlace
<1>3. ret_unlink' = ret_unlink \/ ret_unlink' = Append(ret_unlink, e)
  BY DEF EnqueueRetUnlink
<1> HIDE DEF e, S
<1>4. /\ Distinct(Append(ret_unlink, e))
      /\ Seqnums(Append(ret_unlink, e)) = Seqnums(ret_unlink) \cup {n}
  BY <1>1, <1>2, AppendNumbers
<1> QED BY <1>2, <1>3, <1>4

\* usbip_send of a result whose number is in no other place any more.
LEMMA SentNumbers ==
    ASSUME EndsInv, OnePlace, NEW pdu \in RetPdu, pdu.seqnum \notin Seqnums(s2c), SendRet(pdu)
    PROVE  /\ Distinct(s2c') /\ Seqnums(s2c') \subseteq Seqnums(s2c) \cup {pdu.seqnum}
           /\ UNCHANGED c2s
<1>1. s2c \in Seq(RetPdu) /\ Distinct(s2c)
  BY DEF EndsInv, ServerTypeOK, NetTypeOK, OnePlace
<1>2. (s2c' = s2c \/ s2c' = Append(s2c, pdu)) /\ UNCHANGED c2s
  BY DEF SendRet
<1>3. /\ Distinct(Append(s2c, pdu))
      /\ Seqnums(Append(s2c, pdu)) = Seqnums(s2c) \cup {pdu.seqnum}
  BY <1>1, AppendNumbers
<1> QED BY <1>1, <1>2, <1>3

\* Every step of the server keeps a request in one place.
LEMMA ServerKeepsPlaces ==
    ASSUME EndsInv, OnePlace, StubNext, UNCHANGED vhciVars
    PROVE  OnePlace'
<1> USE DEF netVars, sdevVars, storeVars
<1>0. /\ NetTypeOK /\ StubTypeOK
      /\ priv_init \in Seq(StubPriv) /\ done_tx \in Seq(StubPriv)
      /\ ret_unlink \in Seq([seqnum : Nat, status : Status])
      /\ Distinct(c2s) /\ Distinct(s2c) /\ Distinct(priv_init) /\ Distinct(done_tx)
      /\ Distinct(ret_unlink)
      /\ Queued' = Queued /\ Sending' = Sending /\ UNCHANGED seqnum
  BY ServerLeavesQueued DEF EndsInv, ServerTypeOK, StubTypeOK, OnePlace
<1>1. CASE StubRxInvalid
  <2>1. UNCHANGED <<priv_init, done_tx, ret_unlink>>
    BY <1>1 DEF StubRxInvalid
  <2>2. Distinct(c2s') /\ Seqnums(c2s') \subseteq Seqnums(c2s) /\ UNCHANGED s2c
    BY <1>1, Received DEF StubRxInvalid
  <2> QED BY <1>0, <2>1, <2>2, ShrinkPlaces
<1>2. CASE StubRxCmdSubmit
  <2> DEFINE n == Head(c2s).seqnum
  <2>1. /\ n \in Nat /\ n \in Seqnums(c2s) /\ n \notin Seqnums(c2s')
        /\ Distinct(c2s') /\ Seqnums(c2s') \subseteq Seqnums(c2s) /\ UNCHANGED s2c
        /\ n \notin Queued \cup Sending \cup AnswerDue \cup Seqnums(s2c)
    BY <1>2, Received DEF StubRxCmdSubmit
  <2>2. \A urb \in BOOLEAN : NewPriv(n, urb) \in StubPriv /\ NewPriv(n, urb).seqnum = n
    BY <2>1 DEF NewPriv, StubPriv
  <2>3. /\ UNCHANGED <<done_tx, ret_unlink>>
        /\ \/ UNCHANGED priv_init
           \/ \E urb \in BOOLEAN : priv_init' = Append(priv_init, NewPriv(n, urb))
    BY <1>2 DEF StubRxCmdSubmit
  <2> HIDE DEF n
  <2>4. Distinct(priv_init') /\ Seqnums(priv_init') \subseteq Seqnums(priv_init) \cup {n}
    <3>1. \A urb \in BOOLEAN :
             /\ Distinct(Append(priv_init, NewPriv(n, urb)))
             /\ Seqnums(Append(priv_init, NewPriv(n, urb))) = Seqnums(priv_init) \cup {n}
      <4> TAKE urb \in BOOLEAN
      <4>1. NewPriv(n, urb) \in StubPriv /\ NewPriv(n, urb).seqnum \notin Seqnums(priv_init)
        BY <2>1, <2>2 DEF AnswerDue
      <4> QED BY <1>0, <2>2, <4>1, AppendNumbers
    <3> QED BY <1>0, <2>3, <3>1
  <2> QED BY <1>0, <2>1, <2>3, <2>4 DEF OnePlace, Apart, AnswerDue
<1>3. CASE StubRxCmdUnlinkFound
  <2> DEFINE n == Head(c2s).seqnum
  <2>1. /\ n \in Nat /\ n \in Seqnums(c2s) /\ n \notin Seqnums(c2s')
        /\ Distinct(c2s') /\ Seqnums(c2s') \subseteq Seqnums(c2s) /\ UNCHANGED s2c
        /\ n \notin Queued \cup Sending \cup AnswerDue \cup Seqnums(s2c)
    BY <1>3, Received DEF StubRxCmdUnlinkFound
  <2>2. PICK i \in DOMAIN priv_init : priv_init' = Marked(priv_init, i, n)
    BY <1>3 DEF StubRxCmdUnlinkFound, Marked
  <2>3. UNCHANGED <<done_tx, ret_unlink>>
    BY <1>3 DEF StubRxCmdUnlinkFound
  <2> HIDE DEF n
  <2>4. Distinct(priv_init') /\ Seqnums(priv_init') \subseteq Seqnums(priv_init) \cup {n}
    BY <1>0, <2>1, <2>2, MarkNumbers DEF AnswerDue
  <2> QED BY <1>0, <2>1, <2>3, <2>4 DEF OnePlace, Apart, AnswerDue
<1>4. CASE StubRxCmdUnlinkMissed
  <2> DEFINE n == Head(c2s).seqnum
  <2>1. /\ n \in Nat /\ n \in Seqnums(c2s) /\ n \notin Seqnums(c2s')
        /\ Distinct(c2s') /\ Seqnums(c2s') \subseteq Seqnums(c2s) /\ UNCHANGED s2c
        /\ n \notin Queued \cup Sending \cup AnswerDue \cup Seqnums(s2c)
    BY <1>4, Received DEF StubRxCmdUnlinkMissed
  <2>2. UNCHANGED <<priv_init, done_tx>> /\ EnqueueRetUnlink(n, "DONE") /\ "DONE" \in Status
    BY <1>4 DEF StubRxCmdUnlinkMissed, Status
  <2> HIDE DEF n
  <2>3. Distinct(ret_unlink') /\ Seqnums(ret_unlink') \subseteq Seqnums(ret_unlink) \cup {n}
    BY <2>1, <2>2, EnqueuedNumbers DEF AnswerDue
  <2> QED BY <1>0, <2>1, <2>2, <2>3 DEF OnePlace, Apart, AnswerDue
<1>5. ASSUME NEW id \in hw, StubComplete(id) PROVE OnePlace'
  <2>1. PICK i \in DOMAIN priv_init :
          \/ UNCHANGED <<priv_init, done_tx, ret_unlink>>
          \/ /\ priv_init' = RemoveAt(priv_init, i)
             /\ \E status \in Status : EnqueueRetUnlink(priv_init[i].seqnum, status)
             /\ UNCHANGED done_tx
          \/ /\ priv_init' = RemoveAt(priv_init, i)
             /\ done_tx' = Append(done_tx, priv_init[i])
             /\ UNCHANGED ret_unlink
    BY <1>5 DEF StubComplete, Status
  <2> DEFINE n == priv_init[i].seqnum
  <2>2. UNCHANGED <<c2s, s2c>>
    BY <1>5 DEF StubComplete
  <2>3. priv_init[i] \in StubPriv /\ n \in Nat /\ n \in Seqnums(priv_init)
    <3>1. priv_init[i] \in StubPriv
      BY <1>0, ElementOfSeq
    <3> QED BY <3>1 DEF StubPriv, Seqnums
  <2>4. n \notin Seqnums(done_tx) \cup Seqnums(ret_unlink)
    BY <2>3 DEF OnePlace, Apart
  <2>5. ASSUME priv_init' = RemoveAt(priv_init, i)
        PROVE  /\ Distinct(priv_init') /\ Seqnums(priv_init') \subseteq Seqnums(priv_init)
               /\ n \notin Seqnums(priv_init')
    BY <1>0, <2>5, RemoveNumbers
  <2>6. CASE UNCHANGED <<priv_init, done_tx, ret_unlink>>
    BY <2>2, <2>6, ServerFrame
  <2>7. CASE /\ priv_init' = RemoveAt(priv_init, i)
             /\ \E status \in Status : EnqueueRetUnlink(n, status)
             /\ UNCHANGED done_tx
    <3> HIDE DEF n
    <3>1. Distinct(ret_unlink') /\ Seqnums(ret_unlink') \subseteq Seqnums(ret_unlink) \cup {n}
      BY <2>3, <2>4, <2>7, EnqueuedNumbers
    <3> QED BY <1>0, <2>2, <2>3, <2>5, <2>7, <3>1 DEF OnePlace, Apart, AnswerDue
  <2>8. CASE /\ priv_init' = RemoveAt(priv_init, i)
             /\ done_tx' = Append(done_tx, priv_init[i])
             /\ UNCHANGED ret_unlink
    <3>1. Distinct(done_tx') /\ Seqnums(done_tx') = Seqnums(done_tx) \cup {n}
      BY <1>0, <2>3, <2>4, <2>8, AppendNumbers
    <3> HIDE DEF n
    <3> QED BY <1>0, <2>2, <2>3, <2>5, <2>8, <3>1 DEF OnePlace, Apart, AnswerDue
  <2> QED BY <2>1, <2>6, <2>7, <2>8
<1>6. CASE StubTxRetSubmit
  <2> DEFINE n == Head(done_tx).seqnum
  <2>1. done_tx # <<>> /\ done_tx' = Tail(done_tx) /\ SendRet(RetSubmit(n))
        /\ UNCHANGED <<priv_init, ret_unlink>>
    BY <1>6 DEF StubTxRetSubmit
  <2>2. /\ Distinct(done_tx') /\ Seqnums(done_tx') \subseteq Seqnums(done_tx)
        /\ n \in Seqnums(done_tx) /\ n \notin Seqnums(done_tx')
    BY <1>0, <2>1, TailNumbers
  <2>3. n \in Nat
    <3>1. Head(done_tx) \in StubPriv
      BY <1>0, <2>1, HeadTailProperties
    <3> QED BY <3>1 DEF StubPriv
  <2> HIDE DEF n
  <2>4. RetSubmit(n) \in RetPdu /\ RetSubmit(n).seqnum = n
    BY <2>3 DEF RetSubmit, RetPdu, Status
  <2>5. n \notin Seqnums(s2c)
    BY <2>2 DEF OnePlace, Apart
  <2>6. Distinct(s2c') /\ Seqnums(s2c') \subseteq Seqnums(s2c) \cup {n} /\ UNCHANGED c2s
    BY <2>1, <2>4, <2>5, SentNumbers
  <2> QED BY <1>0, <2>1, <2>2, <2>6 DEF OnePlace, Apart, AnswerDue
<1>7. CASE StubTxRetUnlink
  <2> DEFINE n == Head(ret_unlink).seqnum
             st == Head(ret_unlink).status
  <2>1. ret_unlink # <<>> /\ ret_unlink' = Tail(ret_unlink) /\ SendRet(RetUnlink(n, st))
        /\ UNCHANGED <<priv_init, done_tx>>
    BY <1>7 DEF StubTxRetUnlink
  <2>2. /\ Distinct(ret_unlink') /\ Seqnums(ret_unlink') \subseteq Seqnums(ret_unlink)
        /\ n \in Seqnums(ret_unlink) /\ n \notin Seqnums(ret_unlink')
    BY <1>0, <2>1, TailNumbers
  <2>3. n \in Nat /\ st \in Status
    <3>1. Head(ret_unlink) \in [seqnum : Nat, status : Status]
      BY <1>0, <2>1, HeadTailProperties
    <3> QED BY <3>1
  <2> HIDE DEF n, st
  <2>4. RetUnlink(n, st) \in RetPdu /\ RetUnlink(n, st).seqnum = n
    BY <2>3 DEF RetUnlink, RetPdu
  <2>5. n \notin Seqnums(s2c)
    BY <2>2 DEF OnePlace, Apart
  <2>6. Distinct(s2c') /\ Seqnums(s2c') \subseteq Seqnums(s2c) \cup {n} /\ UNCHANGED c2s
    BY <2>1, <2>4, <2>5, SentNumbers
  <2> QED BY <1>0, <2>1, <2>2, <2>6 DEF OnePlace, Apart, AnswerDue
<1>8. CASE StubTxFailed \/ StubEhCleanup \/ StubEhFreeUnlink
  <2>1. UNCHANGED <<c2s, s2c>>
    BY <1>8 DEF StubTxFailed, StubEhCleanup, StubEhFreeUnlink
  <2>2. \/ UNCHANGED priv_init
        \/ priv_init # <<>> /\ priv_init' = Tail(priv_init)
    BY <1>8 DEF StubTxFailed, StubEhCleanup, StubEhFreeUnlink
  <2>3. \/ UNCHANGED done_tx
        \/ done_tx # <<>> /\ done_tx' = Tail(done_tx)
    BY <1>8 DEF StubTxFailed, StubEhCleanup, StubEhFreeUnlink
  <2>4. \/ UNCHANGED ret_unlink
        \/ ret_unlink # <<>> /\ ret_unlink' = Tail(ret_unlink)
        \/ ret_unlink' = <<>>
    BY <1>8 DEF StubTxFailed, StubEhCleanup, StubEhFreeUnlink
  <2>5. Distinct(priv_init') /\ Seqnums(priv_init') \subseteq Seqnums(priv_init)
    BY <1>0, <2>2, TailNumbers, ZenonT(60)
  <2>6. Distinct(done_tx') /\ Seqnums(done_tx') \subseteq Seqnums(done_tx)
    BY <1>0, <2>3, TailNumbers
  <2>7. Distinct(<<>>) /\ Seqnums(<<>>) = {}
    BY DEF Distinct, Seqnums
  <2>8. Distinct(ret_unlink') /\ Seqnums(ret_unlink') \subseteq Seqnums(ret_unlink)
    BY <1>0, <2>4, <2>7, TailNumbers
  <2> QED BY <1>0, <2>1, <2>5, <2>6, <2>8, ShrinkPlaces
<1>9. CASE StubRxHead \/ StubRxFailed \/ StubRxUnlinkUrb
  BY <1>9, ServerFrame DEF StubRxHead, StubRxFailed, StubRxUnlinkUrb
<1>10. CASE StubTxHead \/ StubTxSubmitsDone \/ StubTxUnlinksDone \/ StubTxWait
  BY <1>10, ServerFrame DEF StubTxHead, StubTxSubmitsDone, StubTxUnlinksDone, StubTxWait
<1>11. CASE \/ StubEhPop \/ StubEhUnlinkSocket \/ StubEhStopRx \/ StubEhKickTx \/ StubEhStopTx
            \/ StubEhReset \/ StubEhUnsetReset \/ StubEhUnusable
  BY <1>11, ServerFrame
     DEF StubEhPop, StubEhUnlinkSocket, StubEhStopRx, StubEhKickTx, StubEhStopTx, StubEhReset,
         StubEhUnsetReset, StubEhUnusable, ShutdownConnection
<1>12. CASE StubUser \/ StubStoreSockfd
  BY <1>12, ServerFrame DEF StubUser, StubStoreGoesOn, StubStartRx, StubStartTx, StubSetTx, StubStoreUsed,
     StubStoreDown, StubStoreSockfd
<1> QED BY <1>1, <1>2, <1>3, <1>4, <1>5, <1>6, <1>7, <1>8, <1>9, <1>10, <1>11, <1>12
        DEF StubNext, StubRx, StubTx, StubEh

\* The streams and lists start empty.
LEMMA PlacesInit == Init => OnePlace
<1> SUFFICES ASSUME Init PROVE OnePlace
  OBVIOUS
<1>1. Distinct(<<>>) /\ Seqnums(<<>>) = {}
  BY DEF Distinct, Seqnums
<1>2. Queued = {} /\ Sending = {}
  BY DEF Init, VhciInit, Queued, Sending
<1> QED BY <1>1, <1>2 DEF Init, NetInit, StubInit, OnePlace, Apart, AnswerDue

\* Every step of the path keeps a request in one place.
LEMMA PlacesStep == EndsInv /\ OnePlace /\ [Next]_vars => OnePlace'
<1> SUFFICES ASSUME EndsInv, OnePlace, [Next]_vars PROVE OnePlace'
  OBVIOUS
<1>1. CASE Connect
  <2>1. UNCHANGED vhciVars /\ UNCHANGED <<priv_init, done_tx, ret_unlink>>
    BY <1>1 DEF Connect, stubVars
  <2>2. c2s' = <<>> /\ s2c' = <<>>
    BY <1>1 DEF Connect, OpenConnection
  <2>3. Distinct(<<>>) /\ Seqnums(<<>>) = {}
    BY DEF Distinct, Seqnums
  <2> QED BY <2>1, <2>2, <2>3, ShrinkPlaces, ServerLeavesQueued DEF OnePlace
<1>2. CASE AttachVhci
  BY <1>2, ClientKeepsPlaces DEF AttachVhci, VhciNext, VhciUser
<1>3. CASE ExportStub \/ StubStep
  BY <1>3, ServerKeepsPlaces DEF ExportStub, StubStep, StubNext
<1>4. CASE VhciStep
  BY <1>4, ClientKeepsPlaces DEF VhciStep, VhciNext, VhciUser
<1>5. ASSUME UNCHANGED <<c2s, s2c, vhciVars, stubVars>> PROVE OnePlace'
  BY <1>5, ServerFrame DEF stubVars
<1>6. CASE GiveUp \/ NetworkLoss
  BY <1>5, <1>6 DEF GiveUp, NetworkLoss, LoseConnection
<1>7. CASE UNCHANGED vars
  BY <1>5, <1>7 DEF vars, netVars
<1> QED BY <1>1, <1>2, <1>3, <1>4, <1>6, <1>7 DEF Next

\* In every state a number is in one place only.
LEMMA PlacesInvariance == Spec => [](EndsInv /\ OnePlace)
<1>1. Init => EndsInv
  BY InitInv, ServerInit DEF Init, EndsInv
<1> QED BY <1>1, PlacesInit, EndsStep, PlacesStep, PTL DEF Spec

\* No request is answered twice, over any number of connections, detaches, lost
\* connections, failed allocations and stale reads of a freed vhci_priv: a seqnum
\* is in one place only of the request stream, the stub's lists (stub_rx,
\* stub_complete and stub_tx move it from one to the next) and the answer stream.
THEOREM NoAnswerTwice == Spec => []AnsweredOnce
<1>1. ASSUME EndsInv, OnePlace PROVE AnsweredOnce
  <2> DEFINE R == [seqnum : Nat, status : Status]
             S == CmdPdu \cup StubPriv \cup R \cup RetPdu
  <2>1. /\ c2s \in Seq(CmdPdu) /\ priv_init \in Seq(StubPriv) /\ done_tx \in Seq(StubPriv)
        /\ ret_unlink \in Seq(R) /\ s2c \in Seq(RetPdu)
    BY <1>1 DEF EndsInv, ServerTypeOK, NetTypeOK, StubTypeOK
  <2> HIDE DEF R
  <2>2. CmdPdu \subseteq S /\ StubPriv \subseteq S /\ R \subseteq S /\ RetPdu \subseteq S
    OBVIOUS
  <2> HIDE DEF S
  <2>3. /\ c2s \in Seq(S) /\ priv_init \in Seq(S) /\ done_tx \in Seq(S)
        /\ ret_unlink \in Seq(S) /\ s2c \in Seq(S)
    BY <2>1, <2>2, SeqMonotonic
  <2> DEFINE a == c2s \o priv_init
             b == a \o done_tx
             c == b \o ret_unlink
             d == c \o s2c
  <2>4. a \in Seq(S) /\ Distinct(a) /\ Seqnums(a) \subseteq Seqnums(c2s) \cup Seqnums(priv_init)
    BY <1>1, <2>3, ConcatNumbers DEF OnePlace, Apart
  <2> HIDE DEF a
  <2>5. b \in Seq(S) /\ Distinct(b) /\ Seqnums(b) \subseteq Seqnums(a) \cup Seqnums(done_tx)
    <3>1. Distinct(done_tx) /\ Seqnums(a) \cap Seqnums(done_tx) = {}
      BY <1>1, <2>4 DEF OnePlace, Apart
    <3> QED BY <2>3, <2>4, <3>1, ConcatNumbers
  <2> HIDE DEF b
  <2>6. c \in Seq(S) /\ Distinct(c) /\ Seqnums(c) \subseteq Seqnums(b) \cup Seqnums(ret_unlink)
    <3>1. Distinct(ret_unlink) /\ Seqnums(b) \cap Seqnums(ret_unlink) = {}
      BY <1>1, <2>4, <2>5 DEF OnePlace, Apart
    <3> QED BY <2>3, <2>5, <3>1, ConcatNumbers
  <2> HIDE DEF c
  <2>7. d \in Seq(S) /\ Distinct(d)
    <3>1. Distinct(s2c) /\ Seqnums(c) \cap Seqnums(s2c) = {}
      BY <1>1, <2>4, <2>5, <2>6 DEF OnePlace, Apart
    <3> QED BY <2>3, <2>6, <3>1, ConcatNumbers
  <2> HIDE DEF d
  <2>8. DOMAIN d = 1 .. Len(d)
    BY <2>7, LenProperties
  <2>9. IsInjective([i \in 1 .. Len(d) |-> d[i].seqnum])
    BY <2>7, <2>8 DEF Distinct, IsInjective
  <2> QED BY <2>9 DEF AnsweredOnce, d, c, b, a
<1> QED BY <1>1, PlacesInvariance, PTL

-------------------------------------------------------------------------------
(* A cancelled URB is stopped before its driver hears of it.                  *)

\* The numbers of requests that the server has yet to receive.
Upstream == Queued \cup Sending \cup Seqnums(c2s)

\* The number n was drawn and its request has reached the server or was dropped:
\* no request of that number will be received any more.
Spent(n) == n \in 1 .. seqnum /\ n \notin Upstream

\* The URB that the unlink request n asked for does not run and never will.
Stopped(n) == \A k \in Unlinks : k.seqnum = n => Spent(k.target) /\ k.target \notin hw

\* A request: if it is an unlink, it and its entry on the client's lists name the
\* same URB.
GoodCmd(m) ==
    m.cmd = "CMD_UNLINK" => \A k \in Unlinks : k.seqnum = m.seqnum => k.target = m.target

\* A stub_priv: if it took the number of an unlink request, that request was for
\* this URB, or for one that does not run (the target was itself an unlink).
GoodPriv(e) ==
    IF e.unlinking
    THEN /\ e.seqnum \notin hw
         /\ \A k \in Unlinks : k.seqnum = e.seqnum =>
               Spent(k.target) /\ (k.target = e.id \/ k.target \notin hw)
    ELSE e.seqnum = e.id

\* An unlink result, queued or on its way.
GoodRet(r) == r.status = "ECONNRESET" => Stopped(r.seqnum)

\* CancelledUrbStopped, and what makes it inductive: it is followed back from the
\* answer to the result queued by stub_complete, to the stub_priv that took the
\* unlink's seqnum, and to the unlink request on its way.
Cancel ==
    /\ \A n \in hw : Spent(n)
    /\ vtx \in {"send_submit", "send_unlink"} => GoodCmd(vpdu)
    /\ \A m \in Range(c2s) : GoodCmd(m)
    /\ \A e \in Range(priv_init) : GoodPriv(e)
    /\ \A r \in Range(ret_unlink) : GoodRet(r)
    /\ \A m \in Range(s2c) : GoodRet(m)

\* What a list holds after an entry left it or was added to it.
LEMMA Entries ==
    ASSUME NEW S, NEW s \in Seq(S)
    PROVE  /\ s # <<>> => Range(Tail(s)) \subseteq Range(s) /\ Head(s) \in Range(s) /\ Head(s) \in S
           /\ \A e \in S : Range(Append(s, e)) \subseteq Range(s) \cup {e}
           /\ \A i \in DOMAIN s : Range(RemoveAt(s, i)) \subseteq Range(s) /\ s[i] \in Range(s)
           /\ \A e \in Range(s) : e.seqnum \in Seqnums(s) /\ e \in S
<1>1. s # <<>> => Range(Tail(s)) \subseteq Range(s)
  BY TailNumbers DEF Range
<1>2. s # <<>> => Head(s) \in Range(s) /\ Head(s) \in S
  BY HeadTailProperties, LenProperties DEF Range
<1>3. \A e \in S : Range(Append(s, e)) \subseteq Range(s) \cup {e}
  BY AppendNumbers DEF Range
<1>4. \A i \in DOMAIN s : Range(RemoveAt(s, i)) \subseteq Range(s) /\ s[i] \in Range(s)
  BY RemoveNumbers DEF Range
<1>5. \A e \in Range(s) : e.seqnum \in Seqnums(s) /\ e \in S
  BY ElementOfSeq DEF Range, Seqnums
<1> QED BY <1>1, <1>2, <1>3, <1>4, <1>5

\* Requests only move on towards the server: what has left stays away, and what
\* is new has a new number.
Onward ==
    \/ UNCHANGED seqnum /\ Upstream' \subseteq Upstream /\ Unlinks' \subseteq Unlinks
    \/ /\ seqnum' = seqnum + 1 /\ Upstream' \subseteq Upstream \cup {seqnum + 1}
       /\ \A k \in Unlinks' : k \in Unlinks \/ k.seqnum = seqnum + 1

\* No step of the client brings a request back that has left.
LEMMA ClientOnward ==
    ASSUME EndsInv, VhciNext
    PROVE  Onward
<1> USE DEF netVars, portVars, listVars, urbVars, vrxVars, vtxVars, userVars, hubVars, Onward, Upstream
<1>1. ASSUME NEW u \in Urbs, NEW on, TxUrb(u, on), UNCHANGED <<netVars, vtxVars>>
      PROVE  Onward
  <2>1. CASE UNCHANGED <<seqnum, listVars>>
    BY <1>1, <2>1 DEF Queued, Sending, Unlinks
  <2>2. CASE /\ seqnum' = seqnum + 1 /\ UNCHANGED <<unlink_tx, unlink_rx>>
             /\ priv_tx' = priv_tx \cup {[seqnum |-> seqnum + 1, urb |-> u]}
    <3>1. PICK e : priv_tx' = priv_tx \cup {e} /\ e.seqnum = seqnum + 1
      BY <2>2, [seqnum |-> seqnum + 1, urb |-> u].seqnum = seqnum + 1
    <3>2. Queued' \subseteq Queued \cup {seqnum + 1} /\ Sending' = Sending
      BY <1>1, <2>2, <3>1 DEF Queued, Sending
    <3> QED BY <1>1, <2>2, <3>2 DEF Unlinks
  <2> QED BY <1>1, <2>1, <2>2 DEF TxUrb
<1>2. ASSUME NEW u \in Urbs, VhciEnqueue(u) \/ VhciEnqueueGetDescriptor(u) PROVE Onward
  BY <1>1, <1>2 DEF VhciEnqueue, VhciEnqueueGetDescriptor
<1>3. ASSUME NEW u \in Urbs,
             \/ VhciEnqueueSetAddress(u) \/ VhciDequeueConnected(u) \/ VhciDequeueDisconnected(u)
      PROVE  Onward
  BY <1>3 DEF VhciEnqueueSetAddress, VhciDequeueConnected, VhciDequeueDisconnected, Queued,
              Sending, Unlinks
<1>4. CASE VhciDequeueQueueUnlink
  <2>1. PICK k : k \in {[seqnum |-> seqnum + 1, target |-> n] : n \in {dq.seqnum} \cup StaleReads}
                 /\ unlink_tx' = unlink_tx \cup {k}
    BY <1>4 DEF VhciDequeueQueueUnlink
  <2>2. k.seqnum = seqnum + 1
    BY <2>1
  <2>3. Queued' \subseteq Queued \cup {seqnum + 1} /\ Sending' = Sending
    BY <1>4, <2>1, <2>2 DEF VhciDequeueQueueUnlink, Queued, Sending
  <2>4. \A l \in Unlinks' : l \in Unlinks \/ l.seqnum = seqnum + 1
    BY <1>4, <2>1, <2>2 DEF VhciDequeueQueueUnlink, Unlinks
  <2>5. seqnum' = seqnum + 1 /\ UNCHANGED c2s
    BY <1>4 DEF VhciDequeueQueueUnlink
  <2> QED BY <2>3, <2>4, <2>5
<1>5. CASE VhciTxDequeueSubmit
  BY <1>5 DEF VhciTxDequeueSubmit, Queued, Sending, CmdSubmit, Unlinks
<1>6. CASE VhciTxDequeueUnlink
  BY <1>6 DEF VhciTxDequeueUnlink, Queued, Sending, CmdUnlink, Unlinks
<1>7. CASE VhciTxSent
  <2>1. c2s \in Seq(CmdPdu) /\ vpdu \in CmdPdu
    BY DEF EndsInv, Inv, VhciTypeOK, ThreadTypeOK, NetTypeOK
  <2>2. Sending = {vpdu.seqnum} /\ Sending' = {} /\ Queued' = Queued /\ Unlinks' = Unlinks
    BY <1>7 DEF VhciTxSent, Sending, Queued, Unlinks
  <2>3. Seqnums(Append(c2s, vpdu)) = Seqnums(c2s) \cup {vpdu.seqnum}
    BY <2>1, AppendNumbers
  <2>4. UNCHANGED seqnum /\ (c2s' = c2s \/ c2s' = Append(c2s, vpdu))
    BY <1>7 DEF VhciTxSent
  <2> QED BY <2>2, <2>3, <2>4
<1>8. CASE VhciRxRetSubmit \/ VhciRxRetUnlink
  BY <1>8 DEF VhciRxRetSubmit, VhciRxRetUnlink, Queued, Sending, Unlinks
<1>9. CASE \/ VhciTxNoSubmit \/ VhciTxNoUnlink \/ VhciTxFailed \/ VhciTxOops \/ VhciTxWake
           \/ VhciRxHead \/ VhciRxGiveBack \/ VhciRxFailed \/ VhciRxTimeout
  BY <1>9 DEF VhciTxNoSubmit, VhciTxNoUnlink, VhciTxFailed, VhciTxOops, VhciTxWake, VhciRxHead,
     VhciRxGiveBack, VhciRxFailed, VhciRxTimeout, Queued, Sending, Unlinks
<1>10. CASE VhciEh
  BY <1>10
     DEF VhciEh, VhciEhPop, VhciEhUnlinkSocket, VhciEhStopRx, VhciEhStopTx, VhciEhCleanupTx,
         VhciEhCleanupRx, VhciEhPortOff, VhciEhReset, VhciEhUnsetReset, VhciEhUnusable,
         EhFrame, EhRest, ShutdownConnection, Queued, Sending, Unlinks
<1>11. CASE VhciUser
  BY <1>11
     DEF VhciUser, VhciAttach, VhciAttachGoesOn, VhciAttachStartRx, VhciAttachStartTx, VhciAttachSetTx,
     VhciAttachConnect, VhciDetachCheck,
         VhciDetachEvent, Queued, Sending, Unlinks
<1>12. CASE HubConnectChange \/ HubDisconnected
  BY <1>12 DEF HubConnectChange, HubDisconnected, HubFrame, Queued, Sending, Unlinks
<1> QED BY <1>2, <1>3, <1>4, <1>5, <1>6, <1>7, <1>8, <1>9, <1>10, <1>11, <1>12
        DEF VhciNext, VhciTx, VhciRx, VhciCore

\* What a step forward leaves true of the requests and entries there were before
\* it, when the URBs that it puts into the host controller were just received.
LEMMA Carried ==
    ASSUME EndsInv, OnePlace, Onward, hw' \subseteq hw \cup Seqnums(c2s)
    PROVE  /\ \A n : Spent(n) => Spent(n)'
           /\ \A m : m.seqnum \in 1 .. seqnum /\ GoodCmd(m) => GoodCmd(m)'
           /\ \A e : e.seqnum \in Seqnums(priv_init) /\ GoodPriv(e) => GoodPriv(e)'
           /\ \A r : r.seqnum \in 1 .. seqnum /\ GoodRet(r) => GoodRet(r)'
<1>1. seqnum \in Nat
  BY DEF EndsInv, Inv, VhciTypeOK, ListTypeOK
<1>2. \A n : Spent(n) => Spent(n)'
  BY <1>1 DEF Spent, Onward
<1>3. \A k \in Unlinks' : k.seqnum \in 1 .. seqnum => k \in Unlinks
  BY <1>1 DEF Onward
<1>4. \A n : Spent(n) /\ n \notin hw => n \notin hw'
  BY DEF Spent, Upstream
<1>5. ASSUME NEW m, m.seqnum \in 1 .. seqnum, GoodCmd(m) PROVE GoodCmd(m)'
  BY <1>3, <1>5 DEF GoodCmd
<1>6. ASSUME NEW r, r.seqnum \in 1 .. seqnum, GoodRet(r) PROVE GoodRet(r)'
  BY <1>2, <1>3, <1>4, <1>6 DEF GoodRet, Stopped
<1>7. ASSUME NEW e, e.seqnum \in Seqnums(priv_init), GoodPriv(e) PROVE GoodPriv(e)'
  <2>1. e.seqnum \in 1 .. seqnum /\ e.seqnum \notin Seqnums(c2s)
    BY <1>7 DEF OnePlace, Apart, AnswerDue
  <2> QED BY <1>2, <1>3, <1>4, <1>7, <2>1 DEF GoodPriv
<1> QED BY <1>2, <1>5, <1>6, <1>7

\* It is enough to look at what a step adds.
LEMMA CancelFrame ==
    ASSUME EndsInv, OnePlace, Cancel, Onward, hw' \subseteq hw \cup Seqnums(c2s),
           \A n \in hw' : n \in hw \/ Spent(n)',
           vtx' \in {"send_submit", "send_unlink"} => UNCHANGED <<vtx, vpdu>> \/ GoodCmd(vpdu)',
           \A m \in Range(c2s') : m \in Range(c2s) \/ GoodCmd(m)',
           \A e \in Range(priv_init') : e \in Range(priv_init) \/ GoodPriv(e)',
           \A r \in Range(ret_unlink') : r \in Range(ret_unlink) \/ GoodRet(r)',
           \A m \in Range(s2c') : m \in Range(s2c) \/ GoodRet(m)'
    PROVE  Cancel'
<1> DEFINE R == [seqnum : Nat, status : Status]
<1>1. /\ c2s \in Seq(CmdPdu) /\ priv_init \in Seq(StubPriv) /\ ret_unlink \in Seq(R)
      /\ s2c \in Seq(RetPdu)
  BY DEF EndsInv, ServerTypeOK, NetTypeOK, StubTypeOK
<1> HIDE DEF R
<1>2. /\ \A m \in Range(c2s) : m.seqnum \in Seqnums(c2s)
      /\ \A e \in Range(priv_init) : e.seqnum \in Seqnums(priv_init)
      /\ \A r \in Range(ret_unlink) : r.seqnum \in Seqnums(ret_unlink)
      /\ \A m \in Range(s2c) : m.seqnum \in Seqnums(s2c)
  BY <1>1, Entries
<1>3. \A n \in Sending \cup Seqnums(c2s) \cup Seqnums(ret_unlink) \cup Seqnums(s2c) : n \in 1 .. seqnum
  BY DEF OnePlace, AnswerDue
<1>4. /\ \A n : Spent(n) => Spent(n)'
      /\ \A m : m.seqnum \in 1 .. seqnum /\ GoodCmd(m) => GoodCmd(m)'
      /\ \A e : e.seqnum \in Seqnums(priv_init) /\ GoodPriv(e) => GoodPriv(e)'
      /\ \A r : r.seqnum \in 1 .. seqnum /\ GoodRet(r) => GoodRet(r)'
  BY Carried
<1>5. \A n \in hw' : Spent(n)'
  BY <1>4 DEF Cancel
<1>6. vtx' \in {"send_submit", "send_unlink"} => GoodCmd(vpdu)'
  <2> SUFFICES ASSUME vtx' \in {"send_submit", "send_unlink"}, UNCHANGED <<vtx, vpdu>>
               PROVE  GoodCmd(vpdu)'
    OBVIOUS
  <2>1. vpdu.seqnum \in 1 .. seqnum /\ GoodCmd(vpdu)
    BY <1>3 DEF Sending, Cancel
  <2>2. \A m : m = vpdu => GoodCmd(m)'
    BY <1>4, <2>1
  <2> QED BY <2>2 DEF GoodCmd
<1>7. \A m \in Range(c2s') : GoodCmd(m)'
  BY <1>2, <1>3, <1>4 DEF Cancel
<1>8. \A e \in Range(priv_init') : GoodPriv(e)'
  BY <1>2, <1>4 DEF Cancel
<1>9. \A r \in Range(ret_unlink') : GoodRet(r)'
  BY <1>2, <1>3, <1>4 DEF Cancel
<1>10. \A m \in Range(s2c') : GoodRet(m)'
  BY <1>2, <1>3, <1>4 DEF Cancel
<1> QED BY <1>5, <1>6, <1>7, <1>8, <1>9, <1>10 DEF Cancel

\* Every step of the client keeps Cancel: vhci_tx sends an unlink request as it
\* was queued, and the other steps send nothing.
LEMMA ClientKeepsCancel ==
    ASSUME EndsInv, OnePlace, Cancel, VhciNext, UNCHANGED stubVars
    PROVE  Cancel'
<1> USE DEF netVars, portVars, listVars, urbVars, vrxVars, vtxVars, userVars, hubVars
<1>0. Onward /\ UNCHANGED <<hw, priv_init, ret_unlink>>
  BY ClientOnward DEF stubVars
<1>1. ASSUME UNCHANGED <<c2s, s2c>>,
             vtx' \in {"send_submit", "send_unlink"} => UNCHANGED <<vtx, vpdu>> \/ GoodCmd(vpdu)'
      PROVE  Cancel'
  BY <1>0, <1>1, CancelFrame
<1>2. CASE VhciTxDequeueSubmit
  <2>1. PICK n : vpdu' = CmdSubmit(n)
    BY <1>2 DEF VhciTxDequeueSubmit
  <2>2. GoodCmd(vpdu)'
    BY <2>1 DEF GoodCmd, CmdSubmit
  <2> QED BY <1>1, <1>2, <2>2 DEF VhciTxDequeueSubmit
<1>3. CASE VhciTxDequeueUnlink
  <2>1. PICK k \in unlink_tx :
          /\ vpdu' = CmdUnlink(k.seqnum, k.target)
          /\ unlink_tx' = unlink_tx \ {k} /\ unlink_rx' = unlink_rx \cup {k}
    BY <1>3 DEF VhciTxDequeueUnlink
  <2>2. \A l \in Unlinks' : l \in Unlinks
    BY <2>1 DEF Unlinks
  <2>3. \A l \in Unlinks : l.seqnum = k.seqnum => l = k
    BY DEF EndsInv, Inv, Safe, RequestNumbersUnique, Unlinks
  <2>4. vpdu'.seqnum = k.seqnum /\ vpdu'.target = k.target
    BY <2>1 DEF CmdUnlink
  <2>5. GoodCmd(vpdu)'
    BY <2>2, <2>3, <2>4 DEF GoodCmd
  <2> QED BY <1>1, <1>3, <2>5 DEF VhciTxDequeueUnlink
<1>4. CASE VhciTxSent
  <2>1. vtx \in {"send_submit", "send_unlink"} /\ vtx' \notin {"send_submit", "send_unlink"}
    BY <1>4 DEF VhciTxSent
  <2>2. UNCHANGED s2c /\ (c2s' = c2s \/ c2s' = Append(c2s, vpdu))
    BY <1>4 DEF VhciTxSent
  <2>3. c2s \in Seq(CmdPdu) /\ vpdu \in CmdPdu
    BY DEF EndsInv, Inv, VhciTypeOK, ThreadTypeOK, NetTypeOK
  <2>4. Range(c2s') \subseteq Range(c2s) \cup {vpdu}
    BY <2>2, <2>3, Entries
  <2>5. vpdu.seqnum \in 1 .. seqnum /\ GoodCmd(vpdu)
    BY <2>1 DEF OnePlace, Sending, Cancel
  <2>6. \A m : m = vpdu => GoodCmd(m)'
    BY <1>0, <2>5, Carried
  <2> QED BY <1>0, <2>1, <2>2, <2>4, <2>6, CancelFrame
<1>5. CASE VhciRxRetSubmit \/ VhciRxRetUnlink
  <2>1. s2c # <<>> /\ s2c' = Tail(s2c) /\ UNCHANGED <<c2s, vtx, vpdu>>
    BY <1>5 DEF VhciRxRetSubmit, VhciRxRetUnlink, CanRecv
  <2>2. Range(s2c') \subseteq Range(s2c)
    BY <2>1, Entries DEF EndsInv, ServerTypeOK, NetTypeOK
  <2> QED BY <1>0, <2>1, <2>2, CancelFrame
<1>6. CASE \/ VhciTxNoSubmit \/ VhciTxNoUnlink \/ VhciTxFailed \/ VhciTxOops \/ VhciTxWake
           \/ VhciRxHead \/ VhciRxGiveBack \/ VhciRxFailed \/ VhciRxTimeout
  BY <1>1, <1>6 DEF VhciTxNoSubmit, VhciTxNoUnlink, VhciTxFailed, VhciTxOops, VhciTxWake, VhciRxHead,
     VhciRxGiveBack, VhciRxFailed, VhciRxTimeout
<1>7. CASE VhciEh
  BY <1>1, <1>7
     DEF VhciEh, VhciEhPop, VhciEhUnlinkSocket, VhciEhStopRx, VhciEhStopTx, VhciEhCleanupTx,
         VhciEhCleanupRx, VhciEhPortOff, VhciEhReset, VhciEhUnsetReset, VhciEhUnusable,
         EhFrame, EhRest, ShutdownConnection
<1>8. CASE VhciUser
  BY <1>1, <1>8 DEF VhciUser, VhciAttach, VhciAttachGoesOn, VhciAttachStartRx, VhciAttachStartTx, VhciAttachSetTx,
     VhciAttachConnect, VhciDetachCheck,
     VhciDetachEvent
<1>9. CASE VhciCore
  BY <1>1, <1>9 DEF VhciCore, VhciEnqueue, VhciEnqueueGetDescriptor, VhciEnqueueSetAddress,
     VhciDequeueDisconnected, VhciDequeueConnected, VhciDequeueQueueUnlink, HubConnectChange,
     HubDisconnected, HubFrame
<1> QED BY <1>2, <1>3, <1>4, <1>5, <1>6, <1>7, <1>8, <1>9 DEF VhciNext, VhciTx, VhciRx

\* A step of the server moves no request but the one it receives.
LEMMA ServerOnward ==
    ASSUME UNCHANGED vhciVars, Seqnums(c2s') \subseteq Seqnums(c2s)
    PROVE  Onward
BY ServerLeavesQueued DEF Onward, Upstream

\* A step of the server that receives and sends nothing and puts no URB into the
\* host controller.
LEMMA ServerCancelFrame ==
    ASSUME EndsInv, OnePlace, Cancel, UNCHANGED <<vhciVars, c2s, s2c>>, hw' \subseteq hw,
           Range(priv_init') \subseteq Range(priv_init), Range(ret_unlink') \subseteq Range(ret_unlink)
    PROVE  Cancel'
BY ServerOnward, ServerLeavesQueued, CancelFrame

\* stub_recv_cmd_unlink finds its target: the stub_priv that takes the number of
\* the unlink request is that of the URB the client wants cancelled.
LEMMA FoundKeepsCancel ==
    ASSUME EndsInv, OnePlace, Cancel, StubRxCmdUnlinkFound, UNCHANGED vhciVars
    PROVE  Cancel'
<1> DEFINE h == Head(c2s)
           n == h.seqnum
<1>1. /\ n \in Nat /\ n \in Seqnums(c2s)
      /\ Seqnums(c2s') \subseteq Seqnums(c2s) /\ UNCHANGED s2c
  BY Received DEF StubRxCmdUnlinkFound
<1>2. h.cmd = "CMD_UNLINK" /\ h \in Range(c2s) /\ Range(c2s') \subseteq Range(c2s)
  BY Entries DEF StubRxCmdUnlinkFound, RecvCmd, CanRecv, EndsInv, ServerTypeOK, NetTypeOK
<1>3. PICK i \in DOMAIN priv_init :
        priv_init' = Marked(priv_init, i, n) /\ priv_init[i].seqnum = h.target
  BY DEF StubRxCmdUnlinkFound, Marked
<1>4. UNCHANGED <<hw, ret_unlink>>
  BY DEF StubRxCmdUnlinkFound
<1>5. Onward /\ UNCHANGED <<vtx, vpdu>> /\ Unlinks' = Unlinks
  BY <1>1, ServerOnward, ServerLeavesQueued
<1>6. PICK old, new : old = priv_init[i] /\ new = priv_init'[i]
  OBVIOUS
<1>7. priv_init \in Seq(StubPriv) /\ old \in Range(priv_init) /\ old.seqnum \in Seqnums(priv_init)
  BY <1>6 DEF EndsInv, ServerTypeOK, StubTypeOK, Range, Seqnums
<1>8. /\ new.unlinking /\ new.seqnum = n /\ new.id = old.id
      /\ DOMAIN priv_init' = DOMAIN priv_init
      /\ \A j \in DOMAIN priv_init : j # i => priv_init'[j] = priv_init[j]
  <2>1. n \in Nat /\ priv_init \in Seq(StubPriv)
    BY <1>1, <1>7
  <2> HIDE DEF n
  <2>2. LET r == Marked(priv_init, i, n)
        IN  /\ DOMAIN r = DOMAIN priv_init /\ r[i].id = priv_init[i].id
            /\ r[i].seqnum = n /\ r[i].unlinking
            /\ \A j \in DOMAIN priv_init : j # i => r[j] = priv_init[j]
    BY <2>1, MarkFacts
  <2> QED BY <1>3, <1>6, <2>2
<1>9. \A e \in Range(priv_init') : e \in Range(priv_init) \/ e = new
  BY <1>6, <1>8 DEF Range
<1>10. n \notin hw
  BY <1>1 DEF Cancel, Spent, Upstream
<1>11. Spent(old.seqnum) /\ (old.seqnum = old.id \/ old.seqnum \notin hw)
  <2>1. Spent(old.seqnum)
    BY <1>7 DEF OnePlace, Apart, AnswerDue, Spent, Upstream
  <2> QED BY <1>7, <2>1 DEF Cancel, GoodPriv
<1>12. \A k \in Unlinks : k.seqnum = n => k.target = old.seqnum
  BY <1>2, <1>3, <1>6 DEF Cancel, GoodCmd
<1>13. Spent(old.seqnum)'
  BY <1>4, <1>5, <1>11, Carried
<1>14. GoodPriv(new)'
  BY <1>4, <1>5, <1>8, <1>10, <1>11, <1>12, <1>13 DEF GoodPriv
<1> QED BY <1>2, <1>4, <1>5, <1>9, <1>14, <1>1, CancelFrame

\* stub_recv_cmd_submit: the number of the URB it submits was just received, so no
\* unlink request that was answered can have been for it.
LEMMA SubmitKeepsCancel ==
    ASSUME EndsInv, OnePlace, Cancel, StubRxCmdSubmit, UNCHANGED vhciVars
    PROVE  Cancel'
<1>1. PICK n : n = Head(c2s).seqnum
  OBVIOUS
<1>2. /\ n \in Nat /\ n \in Seqnums(c2s) /\ n \notin Seqnums(c2s')
      /\ Seqnums(c2s') \subseteq Seqnums(c2s) /\ UNCHANGED s2c
      /\ n \notin Queued \cup Sending
  BY <1>1, Received DEF StubRxCmdSubmit
<1>3. Range(c2s') \subseteq Range(c2s)
  BY Entries DEF StubRxCmdSubmit, RecvCmd, CanRecv, EndsInv, ServerTypeOK, NetTypeOK
<1>4. /\ UNCHANGED ret_unlink
      /\ hw' \subseteq hw \cup {n}
      /\ \/ UNCHANGED priv_init
         \/ \E urb \in BOOLEAN : priv_init' = Append(priv_init, NewPriv(n, urb))
  BY <1>1 DEF StubRxCmdSubmit
<1>5. \A urb \in BOOLEAN : NewPriv(n, urb) \in StubPriv
  BY <1>2 DEF NewPriv, StubPriv
<1>6. \A e \in Range(priv_init') :
        e \in Range(priv_init) \/ \E urb \in BOOLEAN : e = NewPriv(n, urb)
  <2>1. \A urb \in BOOLEAN :
           Range(Append(priv_init, NewPriv(n, urb))) \subseteq Range(priv_init) \cup {NewPriv(n, urb)}
    BY <1>5, Entries DEF EndsInv, ServerTypeOK, StubTypeOK
  <2> QED BY <1>4, <2>1
<1>7. ASSUME NEW urb \in BOOLEAN, NEW e, e = NewPriv(n, urb) PROVE GoodPriv(e)'
  <2>1. ~e.unlinking /\ e.seqnum = n /\ e.id = n
    BY <1>7 DEF NewPriv
  <2> QED BY <2>1 DEF GoodPriv
<1>8. Spent(n)'
  <2>1. n \in 1 .. seqnum
    BY <1>2 DEF OnePlace
  <2> QED BY <1>2, <2>1, ServerLeavesQueued DEF Spent, Upstream
<1> QED BY <1>2, <1>3, <1>4, <1>6, <1>7, <1>8, ServerOnward, ServerLeavesQueued, CancelFrame

\* stub_complete: when it queues -ECONNRESET for an unlink request, the URB that
\* the request was for has just left the host controller.
LEMMA CompleteKeepsCancel ==
    ASSUME EndsInv, OnePlace, Cancel, NEW id \in hw, StubComplete(id), UNCHANGED vhciVars
    PROVE  Cancel'
<1>0. UNCHANGED <<c2s, s2c>> /\ hw' = hw \ {id}
  BY DEF StubComplete, netVars
<1>1. PICK i \in DOMAIN priv_init :
        /\ priv_init[i].id = id
        /\ \/ UNCHANGED <<priv_init, ret_unlink>>
           \/ priv_init' = RemoveAt(priv_init, i) /\ UNCHANGED ret_unlink
           \/ /\ priv_init' = RemoveAt(priv_init, i) /\ priv_init[i].unlinking
              /\ \E status \in Status : EnqueueRetUnlink(priv_init[i].seqnum, status)
  BY DEF StubComplete, Status
<1>2. priv_init \in Seq(StubPriv) /\ ret_unlink \in Seq([seqnum : Nat, status : Status])
  BY DEF EndsInv, ServerTypeOK, StubTypeOK
<1>3. Range(priv_init') \subseteq Range(priv_init)
  BY <1>1, <1>2, Entries
<1>4. CASE UNCHANGED ret_unlink
  BY <1>0, <1>3, <1>4, ServerCancelFrame
<1>5. CASE /\ priv_init[i].unlinking
           /\ \E status \in Status : EnqueueRetUnlink(priv_init[i].seqnum, status)
  <2>1. PICK e : e = priv_init[i]
    OBVIOUS
  <2>2. e \in StubPriv /\ e \in Range(priv_init) /\ e.id = id /\ e.unlinking
    BY <1>1, <1>2, <1>5, <2>1, Entries
  <2>3. PICK st \in Status : EnqueueRetUnlink(e.seqnum, st)
    BY <1>5, <2>1
  <2> DEFINE S == [seqnum : Nat, status : Status]
  <2>4. PICK r : r = [seqnum |-> e.seqnum, status |-> st]
    OBVIOUS
  <2>5. r \in S /\ r.seqnum = e.seqnum
    BY <2>2, <2>4 DEF StubPriv
  <2>6. ret_unlink' = ret_unlink \/ ret_unlink' = Append(ret_unlink, r)
    BY <2>3, <2>4 DEF EnqueueRetUnlink
  <2>7. ret_unlink \in Seq(S)
    BY <1>2
  <2> HIDE DEF S
  <2>8. Range(Append(ret_unlink, r)) \subseteq Range(ret_unlink) \cup {r}
    BY <2>5, <2>7, Entries
  <2>9. \A q \in Range(ret_unlink') : q \in Range(ret_unlink) \/ q = r
    BY <2>6, <2>8
  <2>10. Onward /\ UNCHANGED <<vtx, vpdu>> /\ Unlinks' = Unlinks
    BY <1>0, ServerOnward, ServerLeavesQueued
  <2>11. \A k \in Unlinks : k.seqnum = e.seqnum => Spent(k.target) /\ k.target \notin hw'
    BY <1>0, <2>2 DEF Cancel, GoodPriv
  <2>12. \A n : Spent(n) => Spent(n)'
    BY <1>0, <2>10, Carried
  <2>13. GoodRet(r)'
    BY <2>5, <2>10, <2>11, <2>12 DEF GoodRet, Stopped
  <2> QED BY <1>0, <1>3, <2>9, <2>10, <2>13, CancelFrame
<1> QED BY <1>1, <1>4, <1>5

\* Every step of the server keeps Cancel.
LEMMA ServerKeepsCancel ==
    ASSUME EndsInv, OnePlace, Cancel, StubNext, UNCHANGED vhciVars
    PROVE  Cancel'
<1> USE DEF netVars, sdevVars, storeVars
<1> DEFINE S == [seqnum : Nat, status : Status]
<1>0. /\ c2s \in Seq(CmdPdu) /\ s2c \in Seq(RetPdu)
      /\ priv_init \in Seq(StubPriv) /\ ret_unlink \in Seq(S) /\ done_tx \in Seq(StubPriv)
  BY DEF EndsInv, ServerTypeOK, StubTypeOK, NetTypeOK
<1>1. CASE StubRxInvalid
  <2>1. UNCHANGED <<priv_init, ret_unlink, hw>>
    BY <1>1 DEF StubRxInvalid
  <2>2. Seqnums(c2s') \subseteq Seqnums(c2s) /\ UNCHANGED s2c
    BY <1>1, Received DEF StubRxInvalid
  <2>3. Range(c2s') \subseteq Range(c2s)
    BY <1>0, <1>1, Entries DEF StubRxInvalid, RecvCmd, CanRecv
  <2> QED BY <2>1, <2>2, <2>3, ServerOnward, ServerLeavesQueued, CancelFrame
<1>2. CASE StubRxCmdUnlinkMissed
  <2>1. UNCHANGED <<priv_init, hw>>
    BY <1>2 DEF StubRxCmdUnlinkMissed
  <2>2. PICK n : n = Head(c2s).seqnum
    OBVIOUS
  <2>3. n \in Nat /\ Seqnums(c2s') \subseteq Seqnums(c2s) /\ UNCHANGED s2c
    BY <1>2, <2>2, Received DEF StubRxCmdUnlinkMissed
  <2>4. Range(c2s') \subseteq Range(c2s)
    BY <1>0, <1>2, Entries DEF StubRxCmdUnlinkMissed, RecvCmd, CanRecv
  <2>5. PICK r : r = [seqnum |-> n, status |-> "DONE"]
    OBVIOUS
  <2>6. r \in S /\ r.status = "DONE"
    BY <2>3, <2>5 DEF Status
  <2>7. ret_unlink' = ret_unlink \/ ret_unlink' = Append(ret_unlink, r)
    BY <1>2, <2>2, <2>5 DEF StubRxCmdUnlinkMissed, EnqueueRetUnlink
  <2> HIDE DEF S
  <2>8. Range(Append(ret_unlink, r)) \subseteq Range(ret_unlink) \cup {r}
    BY <1>0, <2>6, Entries
  <2>9. \A q \in Range(ret_unlink') : q \in Range(ret_unlink) \/ q = r
    BY <2>7, <2>8
  <2>10. GoodRet(r)'
    BY <2>6 DEF GoodRet
  <2> QED BY <2>1, <2>3, <2>4, <2>9, <2>10, ServerOnward, ServerLeavesQueued, CancelFrame
<1>3. ASSUME NEW m \in RetPdu, SendRet(m), GoodRet(m)', UNCHANGED <<priv_init, hw>>,
             Range(ret_unlink') \subseteq Range(ret_unlink)
      PROVE  Cancel'
  <2>1. UNCHANGED c2s /\ (s2c' = s2c \/ s2c' = Append(s2c, m))
    BY <1>3 DEF SendRet
  <2>2. Range(Append(s2c, m)) \subseteq Range(s2c) \cup {m}
    BY <1>0, <1>3, Entries
  <2>3. \A q \in Range(s2c') : q \in Range(s2c) \/ q = m
    BY <2>1, <2>2
  <2> QED BY <1>3, <2>1, <2>3, ServerOnward, ServerLeavesQueued, CancelFrame
<1>4. CASE StubTxRetSubmit
  <2>1. PICK m : m = RetSubmit(Head(done_tx).seqnum)
    OBVIOUS
  <2>2. SendRet(m) /\ UNCHANGED <<priv_init, hw, ret_unlink>>
    BY <1>4, <2>1 DEF StubTxRetSubmit
  <2>3. Head(done_tx) \in StubPriv
    BY <1>0, <1>4, Entries DEF StubTxRetSubmit
  <2>4. m \in RetPdu /\ m.status = "DONE"
    BY <2>1, <2>3 DEF RetSubmit, RetPdu, Status, StubPriv
  <2>5. GoodRet(m)'
    BY <2>4 DEF GoodRet
  <2> QED BY <1>3, <2>2, <2>4, <2>5
<1>5. CASE StubTxRetUnlink
  <2>1. PICK r, m : r = Head(ret_unlink) /\ m = RetUnlink(r.seqnum, r.status)
    OBVIOUS
  <2>2. /\ ret_unlink # <<>> /\ ret_unlink' = Tail(ret_unlink)
        /\ SendRet(m) /\ UNCHANGED <<priv_init, hw>>
    BY <1>5, <2>1 DEF StubTxRetUnlink
  <2>3. /\ r \in S /\ r \in Range(ret_unlink) /\ r.seqnum \in Seqnums(ret_unlink)
        /\ Range(ret_unlink') \subseteq Range(ret_unlink)
    <3> HIDE DEF S
    <3> QED BY <1>0, <2>1, <2>2, Entries
  <2>4. m \in RetPdu /\ m.seqnum = r.seqnum /\ m.status = r.status
    BY <2>1, <2>3 DEF RetUnlink, RetPdu
  <2>5. r.seqnum \in 1 .. seqnum /\ GoodRet(r)
    BY <2>3 DEF OnePlace, AnswerDue, Cancel
  <2>6. UNCHANGED c2s
    BY <2>2 DEF SendRet
  <2>7. GoodRet(r)'
    BY <2>2, <2>5, <2>6, ServerOnward, Carried
  <2>8. GoodRet(m)'
    BY <2>4, <2>7 DEF GoodRet
  <2> QED BY <1>3, <2>2, <2>3, <2>4, <2>8
<1>6. CASE StubTxFailed \/ StubEhCleanup \/ StubEhFreeUnlink
  <2>1. UNCHANGED <<c2s, s2c>> /\ hw' \subseteq hw
    BY <1>6 DEF StubTxFailed, StubEhCleanup, StubEhFreeUnlink
  <2>2. \/ UNCHANGED priv_init
        \/ priv_init # <<>> /\ priv_init' = Tail(priv_init)
    BY <1>6 DEF StubTxFailed, StubEhCleanup, StubEhFreeUnlink
  <2>3. \/ UNCHANGED ret_unlink
        \/ ret_unlink # <<>> /\ ret_unlink' = Tail(ret_unlink)
        \/ ret_unlink' = <<>>
    BY <1>6 DEF StubTxFailed, StubEhCleanup, StubEhFreeUnlink
  <2>4. Range(priv_init') \subseteq Range(priv_init)
    BY <1>0, <2>2, Entries
  <2>5. Range(<<>>) = {}
    BY DEF Range
  <2>6. Range(ret_unlink') \subseteq Range(ret_unlink)
    <3> HIDE DEF S
    <3> QED BY <1>0, <2>3, <2>5, Entries
  <2> QED BY <2>1, <2>4, <2>6, ServerCancelFrame
<1>7. CASE StubRxHead \/ StubRxFailed \/ StubRxUnlinkUrb
  BY <1>7, ServerCancelFrame DEF StubRxHead, StubRxFailed, StubRxUnlinkUrb
<1>8. CASE StubTxHead \/ StubTxSubmitsDone \/ StubTxUnlinksDone \/ StubTxWait
  BY <1>8, ServerCancelFrame DEF StubTxHead, StubTxSubmitsDone, StubTxUnlinksDone, StubTxWait
<1>9. CASE \/ StubEhPop \/ StubEhUnlinkSocket \/ StubEhStopRx \/ StubEhKickTx \/ StubEhStopTx
           \/ StubEhReset \/ StubEhUnsetReset \/ StubEhUnusable
  BY <1>9, ServerCancelFrame
     DEF StubEhPop, StubEhUnlinkSocket, StubEhStopRx, StubEhKickTx, StubEhStopTx, StubEhReset,
         StubEhUnsetReset, StubEhUnusable, ShutdownConnection
<1>10. CASE StubUser \/ StubStoreSockfd
  BY <1>10, ServerCancelFrame DEF StubUser, StubStoreGoesOn, StubStartRx, StubStartTx, StubSetTx, StubStoreUsed,
     StubStoreDown, StubStoreSockfd
<1> QED BY <1>1, <1>2, <1>4, <1>5, <1>6, <1>7, <1>8, <1>9, <1>10, SubmitKeepsCancel,
           FoundKeepsCancel, CompleteKeepsCancel DEF StubNext, StubRx, StubTx, StubEh

\* Every step of the path keeps Cancel.
LEMMA CancelStep == EndsInv /\ OnePlace /\ Cancel /\ [Next]_vars => Cancel'
<1> SUFFICES ASSUME EndsInv, OnePlace, Cancel, [Next]_vars PROVE Cancel'
  OBVIOUS
<1>1. ASSUME UNCHANGED <<vhciVars, stubVars>>,
             UNCHANGED <<c2s, s2c>> \/ (c2s' = <<>> /\ s2c' = <<>>)
      PROVE  Cancel'
  <2>1. Range(<<>>) = {} /\ Seqnums(<<>>) = {}
    BY DEF Range, Seqnums
  <2>2. UNCHANGED <<hw, priv_init, ret_unlink>>
    BY <1>1 DEF stubVars
  <2>3. Onward
    BY <1>1, <2>1, ServerOnward
  <2> QED BY <1>1, <2>1, <2>2, <2>3, ServerLeavesQueued, CancelFrame
<1>2. CASE Connect
  BY <1>1, <1>2 DEF Connect, OpenConnection
<1>3. CASE AttachVhci
  BY <1>3, ClientKeepsCancel DEF AttachVhci, VhciNext, VhciUser
<1>4. CASE ExportStub \/ StubStep
  BY <1>4, ServerKeepsCancel DEF ExportStub, StubStep, StubNext
<1>5. CASE VhciStep
  BY <1>5, ClientKeepsCancel DEF VhciStep, VhciNext, VhciUser
<1>6. CASE GiveUp \/ NetworkLoss
  BY <1>1, <1>6 DEF GiveUp, NetworkLoss, LoseConnection
<1>7. CASE UNCHANGED vars
  BY <1>1, <1>7 DEF vars, netVars
<1> QED BY <1>2, <1>3, <1>4, <1>5, <1>6, <1>7 DEF Next

\* The path starts with nothing to cancel.
LEMMA CancelInit == Init => Cancel
<1>1. Range(<<>>) = {}
  BY DEF Range
<1> QED BY <1>1 DEF Init, NetInit, StubInit, VhciInit, Cancel

\* When the client reads -ECONNRESET for a URB and gives its buffer back to the
\* driver, the server's host controller no longer works on that URB and never will
\* again, over any number of connections and faults, and even if
\* vhci_urb_dequeue read the number of the URB from a freed vhci_priv.
THEOREM NoCancelledUrbRuns == Spec => []CancelledUrbStopped
<1>1. Init => EndsInv /\ Cancel
  BY InitInv, ServerInit, CancelInit DEF Init, EndsInv
<1>2. Cancel => CancelledUrbStopped
  <2> SUFFICES ASSUME Cancel, NEW k \in unlink_rx,
                      RetUnlink(k.seqnum, "ECONNRESET") \in Range(s2c)
               PROVE  k.target \notin hw
    BY DEF CancelledUrbStopped
  <2>1. GoodRet(RetUnlink(k.seqnum, "ECONNRESET")) /\ k \in Unlinks
    BY DEF Cancel, Unlinks
  <2> QED BY <2>1 DEF GoodRet, Stopped, RetUnlink
<1> QED BY <1>1, <1>2, PlacesInit, EndsStep, PlacesStep, CancelStep, PTL DEF Spec

-------------------------------------------------------------------------------
(* No request is forgotten.                                                   *)

\* The connection is over, or one end is about to end it: its event worker has a
\* shutdown to do, and shuts the socket down before anything else.
Lost == link = "down" \/ "SHUTDOWN" \in vev.bits \/ "SHUTDOWN" \in sev.bits

\* An end that holds the connection, and whose event worker has not begun to take
\* it down.
ClientUp ==
    /\ vattached # 0 /\ vsock = conn
    /\ veh \in {"idle", "unlink"} /\ (vev.queued => "SHUTDOWN" \in vev.bits)
ServerUp ==
    /\ conn # 0 /\ ssock = conn
    /\ seh \in {"idle", "unlink"} /\ (sev.queued => "SHUTDOWN" \in sev.bits)

\* Of the first connection: while it is open, each end is untouched or up.  (A
\* later one finds the ends as the one before has left them.)
FirstOpen ==
    /\ Fresh
    /\ "BYE" \notin vev.bits /\ "BYE" \notin sev.bits
    /\ conn = 0 => handover = <<>> /\ vattached = 0 /\ StubInit
    /\ attach \in {"start_rx", "start_tx"} => vtx = "off"
    /\ link = "open" => (vattached = 0 \/ ClientUp) /\ (StubInit \/ ServerUp)

\* Where the request of an entry on priv_rx or unlink_rx, or its answer, may be.
Way == Sending \cup Seqnums(c2s) \cup AnswerDue \cup Seqnums(s2c)

Awaited(n) == \E k \in unlink_rx : k.seqnum = n

\* The numbers of unlink requests, wherever they or their results are.
Claims ==
    LET unlinks(list, cmd) == {m.seqnum : m \in {x \in Range(list) : x.cmd = cmd}}
    IN  (IF vpdu.cmd = "CMD_UNLINK" THEN Sending ELSE {})
        \cup unlinks(c2s, "CMD_UNLINK")
        \cup {e.seqnum : e \in {x \in Range(priv_init) : x.unlinking}}
        \cup {r.seqnum : r \in Range(ret_unlink)}
        \cup unlinks(s2c, "RET_UNLINK")

\* RequestsTracked of a connection that is not lost, and what makes it inductive:
\* an unlink request, wherever it or its result is, still has its entry on
\* unlink_rx, so that the URB whose number it took over is found through it.
Tracked ==
    ~Lost =>
        /\ \A k \in unlink_rx : k.seqnum \in Way
        /\ \A p \in priv_rx : p.seqnum \in Way \/ \E k \in unlink_rx : k.target = p.seqnum
        /\ \A n \in Claims : Awaited(n)

\* The second hypothesis of RequestsNotLost, on the read of a freed vhci_priv in
\* vhci_urb_dequeue: it does not turn up the number of another unlink request.
StaleMisses == \A k, l \in Unlinks : k.target # l.seqnum

\* The part of FirstOpen that is about the client.
ClientFirst ==
    /\ "BYE" \notin vev.bits
    /\ attach \in {"start_rx", "start_tx"} => vtx = "off"
    /\ link = "open" => vattached = 0 \/ ClientUp

\* A step of the threads, of the USB core or of userland that may raise an event.
LEMMA ClientStays ==
    ASSUME EndsInv, FirstOpen, UNCHANGED <<conn, link, vattached, vsock, veh>>,
           vev' = vev \/ vev' = EventAdd(vev, EVENT_DOWN) \/ vev' = EventAdd(vev, EVENT_ERROR_MALLOC),
           attach' \in {"start_rx", "start_tx"} => vtx' = "off"
    PROVE  ClientFirst'
<1>1. vev \in EventWord /\ "BYE" \notin vev.bits
  BY DEF EndsInv, Inv, VhciTypeOK, PortTypeOK, FirstOpen
<1>2. "BYE" \notin vev'.bits /\ (vev' = vev \/ "SHUTDOWN" \in vev'.bits)
  BY <1>1, VhciRaises
<1> QED BY <1>2 DEF ClientFirst, FirstOpen, ClientUp

\* Every step of the client keeps its part.
LEMMA ClientFirstStep ==
    ASSUME EndsInv, FirstOpen, conn <= 1, VhciNext
    PROVE  ClientFirst' /\ (UNCHANGED vattached \/ conn # 0) /\ UNCHANGED conn /\ (link' = "open" => link = "open")
<1> USE DEF netVars, portVars, listVars, urbVars, vrxVars, vtxVars, userVars, hubVars
<1>0. conn \in Nat /\ vattached \in Nat /\ vsock \in Nat /\ vev \in EventWord
  BY DEF EndsInv, Inv, VhciTypeOK, NetTypeOK, PortTypeOK
<1>1. CASE VhciTx \/ VhciRx \/ VhciRxTimeout
  <2>1. UNCHANGED <<conn, link, vattached, vsock, veh, attach>>
    BY <1>1 DEF VhciTx, VhciTxDequeueSubmit, VhciTxNoSubmit, VhciTxDequeueUnlink,
       VhciTxNoUnlink, VhciTxSent, VhciTxFailed, VhciTxOops, VhciTxWake, VhciRx, VhciRxHead,
       VhciRxRetSubmit, VhciRxRetUnlink, VhciRxGiveBack, VhciRxFailed, VhciRxTimeout
  <2>2. vev' = vev \/ vev' = EventAdd(vev, EVENT_DOWN) \/ vev' = EventAdd(vev, EVENT_ERROR_MALLOC)
    BY <1>1 DEF VhciTx, VhciTxDequeueSubmit, VhciTxNoSubmit, VhciTxDequeueUnlink,
       VhciTxNoUnlink, VhciTxSent, VhciTxFailed, VhciTxOops, VhciTxWake, VhciRx, VhciRxHead,
       VhciRxRetSubmit, VhciRxRetUnlink, VhciRxGiveBack, VhciRxFailed, VhciRxTimeout
  <2>3. vtx = "off" => vtx' = "off"
    BY <1>1 DEF VhciTx, VhciTxDequeueSubmit, VhciTxNoSubmit, VhciTxDequeueUnlink,
       VhciTxNoUnlink, VhciTxSent, VhciTxFailed, VhciTxOops, VhciTxWake, VhciRx, VhciRxHead,
       VhciRxRetSubmit, VhciRxRetUnlink, VhciRxGiveBack, VhciRxFailed, VhciRxTimeout
  <2> QED BY <2>1, <2>2, <2>3, ClientStays DEF FirstOpen
<1>2. CASE VhciCore
  <2>1. UNCHANGED <<conn, link, vattached, vsock, veh, attach, vtx>>
    BY <1>2 DEF VhciCore, VhciEnqueue, VhciEnqueueGetDescriptor, VhciEnqueueSetAddress,
       VhciDequeueDisconnected, VhciDequeueConnected, VhciDequeueQueueUnlink, HubConnectChange,
       HubDisconnected, HubFrame
  <2>2. vev' = vev \/ vev' = EventAdd(vev, EVENT_DOWN) \/ vev' = EventAdd(vev, EVENT_ERROR_MALLOC)
    BY <1>2 DEF VhciCore, VhciEnqueue, VhciEnqueueGetDescriptor, VhciEnqueueSetAddress, TxUrb,
       VhciDequeueDisconnected, VhciDequeueConnected, VhciDequeueQueueUnlink, HubConnectChange,
       HubDisconnected, HubFrame
  <2> QED BY <2>1, <2>2, ClientStays DEF FirstOpen
<1>3. CASE VhciAttachGoesOn \/ VhciDetachCheck \/ VhciDetachEvent
  <2>1. UNCHANGED <<conn, link, vattached, vsock, veh>>
    BY <1>3 DEF VhciAttachGoesOn, VhciAttachStartRx, VhciAttachStartTx, VhciAttachSetTx,
       VhciAttachConnect, VhciDetachCheck, VhciDetachEvent
  <2>2. vev' = vev \/ vev' = EventAdd(vev, EVENT_DOWN) \/ vev' = EventAdd(vev, EVENT_ERROR_MALLOC)
    BY <1>3 DEF VhciAttachGoesOn, VhciAttachStartRx, VhciAttachStartTx, VhciAttachSetTx,
       VhciAttachConnect, VhciDetachCheck, VhciDetachEvent
  <2>3. attach' \in {"start_rx", "start_tx"} => vtx' = "off"
    BY <1>3 DEF VhciAttachGoesOn, VhciAttachStartRx, VhciAttachStartTx, VhciAttachSetTx,
       VhciAttachConnect, VhciDetachCheck, VhciDetachEvent, FirstOpen
  <2> QED BY <2>1, <2>2, <2>3, ClientStays
<1>4. CASE VhciAttach
  <2>1. vattached = 0 /\ conn # 0
    BY <1>0, <1>4 DEF VhciAttach
  <2>2. veh = "idle" /\ vev = NoEvent /\ vtx = "off"
    BY <2>1 DEF FirstOpen, Fresh
  <2>3. ~vev.queued /\ "BYE" \notin vev.bits
    BY <2>2 DEF NoEvent
  <2> QED BY <1>4, <2>1, <2>2, <2>3 DEF VhciAttach, ClientFirst, ClientUp
<1>5. CASE VhciEh
  <2>1. UNCHANGED <<conn, vattached, attach>> /\ (vtx = "off" => vtx' = "off")
        /\ (link' = "open" => link = "open")
    BY <1>5 DEF VhciEh, VhciEhPop, VhciEhUnlinkSocket, VhciEhStopRx, VhciEhStopTx, VhciEhCleanupTx,
         VhciEhCleanupRx, VhciEhPortOff, VhciEhReset, VhciEhUnsetReset, VhciEhUnusable,
         EhFrame, EhRest, ShutdownConnection
  <2>2. "BYE" \notin vev'.bits
    <3>1. \A bit : "BYE" \notin UnsetEvent(vev, bit).bits
      BY <1>0 DEF UnsetEvent, EventWord, FirstOpen
    <3>2. "BYE" \notin GetEvent(vev).bits
      BY <1>0 DEF GetEvent, EventWord, FirstOpen
    <3> QED BY <1>5, <3>1, <3>2
        DEF FirstOpen, VhciEh, VhciEhPop, VhciEhUnlinkSocket, VhciEhStopRx, VhciEhStopTx,
            VhciEhCleanupTx, VhciEhCleanupRx, VhciEhPortOff, VhciEhReset, VhciEhUnsetReset,
            VhciEhUnusable
  <2>3. vattached # 0 /\ conn # 0
    <3>1. veh # "idle" \/ vev.queued
      BY <1>5 DEF VhciEh, VhciEhPop, VhciEhUnlinkSocket, VhciEhStopRx, VhciEhStopTx,
          VhciEhCleanupTx, VhciEhCleanupRx, VhciEhPortOff, VhciEhReset, VhciEhUnsetReset,
          VhciEhUnusable
    <3> QED BY <3>1 DEF FirstOpen, Fresh, NoEvent
  <2>4. ASSUME link' = "open" PROVE ClientUp'
    <3>1. ClientUp /\ link = "open"
      BY <2>1, <2>3, <2>4 DEF FirstOpen
    <3>2. CASE VhciEhPop
      <4>1. ~vev'.queued
        BY <1>0, <3>2 DEF VhciEhPop, GetEvent, EventWord
      <4> QED BY <3>1, <3>2, <4>1 DEF VhciEhPop, EhFrame, EhRest, ClientUp
    <3>3. CASE VhciEhUnlinkSocket
      BY <2>3, <2>4, <3>1, <3>3 DEF VhciEhUnlinkSocket, ShutdownConnection, ClientUp
    <3> QED BY <1>5, <3>1, <3>2, <3>3
        DEF ClientUp, VhciEh, VhciEhStopRx, VhciEhStopTx, VhciEhCleanupTx, VhciEhCleanupRx,
            VhciEhPortOff, VhciEhReset, VhciEhUnsetReset, VhciEhUnusable
  <2> QED BY <2>1, <2>2, <2>4 DEF ClientFirst, FirstOpen
<1> QED BY <1>1, <1>2, <1>3, <1>4, <1>5 DEF VhciNext, VhciUser

\* The part of FirstOpen that is about the server.
ServerFirst ==
    /\ "BYE" \notin sev.bits
    /\ link = "open" => StubInit \/ ServerUp

\* A device to which no socket was written yet has nothing to do.
LEMMA UntouchedServer ==
    ASSUME StubInit
    PROVE  /\ ~StubRx /\ ~StubTx /\ ~StubEh /\ ~StubUser
           /\ \A id \in hw : ~StubComplete(id)
<1>1. ~sev.queued
  BY DEF StubInit, NoEvent
<1>2. ~StubRx
  BY DEF StubInit, StubRx, StubRxHead, StubRxFailed, StubRxInvalid, StubRxCmdSubmit,
         StubRxCmdUnlinkFound, StubRxCmdUnlinkMissed, StubRxUnlinkUrb, RecvCmd
<1>3. ~StubTx
  BY DEF StubInit, StubTx, StubTxHead, StubTxRetSubmit, StubTxSubmitsDone, StubTxRetUnlink,
         StubTxFailed, StubTxUnlinksDone, StubTxWait
<1>4. ~StubEh
  BY <1>1 DEF StubInit, StubEh, StubEhPop, StubEhUnlinkSocket, StubEhStopRx, StubEhKickTx, StubEhStopTx,
         StubEhCleanup, StubEhFreeUnlink, StubEhReset, StubEhUnsetReset, StubEhUnusable
<1>5. ~StubUser /\ \A id \in hw : ~StubComplete(id)
  BY DEF StubInit, StubUser, StubStoreGoesOn, StubStartRx, StubStartTx, StubSetTx, StubStoreUsed,
     StubStoreDown
<1> QED BY <1>2, <1>3, <1>4, <1>5

\* A step of the threads, of the host controller or of userland that may raise an
\* event, of a device that was given its socket.
LEMMA ServerStays ==
    ASSUME EndsInv, FirstOpen, ~StubInit, UNCHANGED <<conn, link, ssock, seh>>,
           sev' = sev \/ sev' = EventAdd(sev, EVENT_DOWN) \/ sev' = EventAdd(sev, EVENT_ERROR_MALLOC)
    PROVE  ServerFirst'
<1>1. sev \in EventWord /\ "BYE" \notin sev.bits
  BY DEF EndsInv, ServerTypeOK, StubTypeOK, FirstOpen
<1>2. "BYE" \notin sev'.bits /\ (sev' = sev \/ "SHUTDOWN" \in sev'.bits)
  BY <1>1, EventAddSets
<1> QED BY <1>2 DEF ServerFirst, FirstOpen, ServerUp

\* Every step of the server keeps its part.
LEMMA ServerFirstStep ==
    ASSUME EndsInv, FirstOpen, conn # 0, StubNext
    PROVE  ServerFirst' /\ UNCHANGED conn /\ (link' = "open" => link = "open")
<1> USE DEF netVars, sdevVars, storeVars
<1>0. conn \in Nat /\ sev \in EventWord
  BY DEF EndsInv, ServerTypeOK, StubTypeOK, NetTypeOK
<1>1. CASE StubStoreSockfd
  <2>1. UNCHANGED <<conn, link, sev, seh>> /\ ssock' = conn
    BY <1>1 DEF StubStoreSockfd
  <2>2. link = "open" => seh \in {"idle", "unlink"} /\ (sev.queued => "SHUTDOWN" \in sev.bits)
    BY DEF FirstOpen, ServerUp, StubInit, NoEvent
  <2> QED BY <2>1, <2>2 DEF ServerFirst, ServerUp, FirstOpen
<1>3. CASE StubRx
  <2>0. ~StubInit
    BY <1>3, UntouchedServer, SMTT(60)
  <2>1. UNCHANGED <<conn, link, ssock, seh>>
    BY <1>3, ZenonT(60) DEF StubRx, StubRxHead, StubRxFailed, StubRxInvalid, StubRxCmdSubmit,
         StubRxCmdUnlinkFound, StubRxCmdUnlinkMissed, StubRxUnlinkUrb, RecvCmd
  <2>2. sev' = sev \/ sev' = EventAdd(sev, EVENT_DOWN) \/ sev' = EventAdd(sev, EVENT_ERROR_MALLOC)
    BY <1>3 DEF StubRx, StubRxHead, StubRxFailed, StubRxInvalid, StubRxCmdSubmit,
         StubRxCmdUnlinkFound, StubRxCmdUnlinkMissed, StubRxUnlinkUrb, EnqueueRetUnlink
  <2> QED BY <2>0, <2>1, <2>2, ServerStays
<1>4. CASE StubTx
  <2>0. ~StubInit
    BY <1>4, UntouchedServer
  <2>1. UNCHANGED <<conn, link, ssock, seh>>
    BY <1>4 DEF StubTx, StubTxHead, StubTxRetSubmit, StubTxSubmitsDone, StubTxRetUnlink,
         StubTxFailed, StubTxUnlinksDone, StubTxWait, SendRet
  <2>2. sev' = sev \/ sev' = EventAdd(sev, EVENT_DOWN) \/ sev' = EventAdd(sev, EVENT_ERROR_MALLOC)
    BY <1>4 DEF StubTx, StubTxHead, StubTxRetSubmit, StubTxSubmitsDone, StubTxRetUnlink,
         StubTxFailed, StubTxUnlinksDone, StubTxWait
  <2> QED BY <2>0, <2>1, <2>2, ServerStays
<1>5. ASSUME NEW id \in hw, StubComplete(id)
      PROVE  ServerFirst' /\ UNCHANGED conn /\ (link' = "open" => link = "open")
  <2>1. UNCHANGED <<conn, link, ssock, seh>> /\ ~StubInit
    BY <1>5 DEF StubComplete, StubInit
  <2>2. sev' = sev \/ sev' = EventAdd(sev, EVENT_DOWN) \/ sev' = EventAdd(sev, EVENT_ERROR_MALLOC)
    BY <1>5 DEF StubComplete, EnqueueRetUnlink
  <2> QED BY <2>1, <2>2, ServerStays
<1>6. CASE StubUser
  <2>1. UNCHANGED <<conn, link, ssock, seh>> /\ ~StubInit
    BY <1>6 DEF StubUser, StubStoreGoesOn, StubStartRx, StubStartTx, StubSetTx, StubStoreUsed,
     StubStoreDown, StubInit
  <2>2. sev' = sev \/ sev' = EventAdd(sev, EVENT_DOWN) \/ sev' = EventAdd(sev, EVENT_ERROR_MALLOC)
    BY <1>6 DEF StubUser, StubStoreGoesOn, StubStartRx, StubStartTx, StubSetTx, StubStoreUsed,
     StubStoreDown
  <2> QED BY <2>1, <2>2, ServerStays
<1>7. CASE StubEh
  <2>0. ~StubInit
    BY <1>7, UntouchedServer
  <2>1. UNCHANGED conn /\ (link' = "open" => link = "open")
    BY <1>7 DEF StubEh, StubEhPop, StubEhUnlinkSocket, StubEhStopRx, StubEhKickTx, StubEhStopTx,
         StubEhCleanup, StubEhFreeUnlink, StubEhReset, StubEhUnsetReset, StubEhUnusable,
         ShutdownConnection
  <2>2. "BYE" \notin sev'.bits
    <3>1. \A bit : "BYE" \notin UnsetEvent(sev, bit).bits
      BY <1>0 DEF UnsetEvent, EventWord, FirstOpen
    <3>2. "BYE" \notin GetEvent(sev).bits
      BY <1>0 DEF GetEvent, EventWord, FirstOpen
    <3> QED BY <1>7, <3>1, <3>2
        DEF FirstOpen, StubEh, StubEhPop, StubEhUnlinkSocket, StubEhStopRx, StubEhKickTx, StubEhStopTx,
            StubEhCleanup, StubEhFreeUnlink, StubEhReset, StubEhUnsetReset, StubEhUnusable
  <2>3. ASSUME link' = "open" PROVE ServerUp'
    <3>1. ServerUp /\ link = "open"
      BY <2>0, <2>1, <2>3 DEF FirstOpen
    <3>2. CASE StubEhPop
      <4>1. ~sev'.queued
        BY <1>0, <3>2 DEF StubEhPop, GetEvent, EventWord
      <4> QED BY <3>1, <3>2, <4>1 DEF StubEhPop, ServerUp
    <3>3. CASE StubEhUnlinkSocket
      BY <2>3, <3>1, <3>3 DEF StubEhUnlinkSocket, ShutdownConnection, ServerUp
    <3> QED BY <1>7, <3>1, <3>2, <3>3
        DEF ServerUp, StubEh, StubEhStopRx, StubEhKickTx, TxShouldStop, StubEhStopTx, StubEhCleanup, StubEhFreeUnlink,
            StubEhReset, StubEhUnsetReset, StubEhUnusable
  <2> QED BY <2>1, <2>2, <2>3 DEF ServerFirst
<1> QED BY <1>1, <1>3, <1>4, <1>5, <1>6, <1>7 DEF StubNext

\* Every step of the path keeps FirstOpen, as long as no second connection is made.
LEMMA FirstStep == EndsInv /\ FirstOpen /\ [Next]_vars /\ conn <= 1 /\ (conn <= 1)' => FirstOpen'
<1> SUFFICES ASSUME EndsInv, FirstOpen, [Next]_vars, conn <= 1, conn' <= 1 PROVE FirstOpen'
  OBVIOUS
<1>0. conn \in Nat /\ EndsTypeOK
  BY DEF EndsInv, Inv, ServerTypeOK, EndsTypeOK, VhciTypeOK, NetTypeOK
<1>1. Fresh'
  BY <1>0, ClientSteps, FreshStep DEF EndsTypeOK, FirstOpen
<1>2. ASSUME UNCHANGED stubVars
      PROVE  (StubInit' <=> StubInit) /\ UNCHANGED <<ssock, seh, sev>>
  BY <1>2 DEF stubVars, sdevVars, storeVars, StubInit
<1>3. ASSUME UNCHANGED vhciVars
      PROVE  UNCHANGED <<vattached, vsock, veh, vev, attach, vtx>>
  BY <1>3 DEF vhciVars, portVars, userVars, vtxVars
<1>4. CASE Connect
  <2>1. conn = 0
    BY <1>0, <1>4 DEF Connect, OpenConnection
  <2>2. vattached' = 0 /\ StubInit' /\ UNCHANGED <<vev, sev, attach, vtx>> /\ conn' = conn + 1
    BY <1>2, <1>3, <1>4, <2>1 DEF Connect, OpenConnection, FirstOpen
  <2> QED BY <1>1, <2>1, <2>2 DEF FirstOpen
<1>5. CASE VhciStep \/ AttachVhci
  <2>1. VhciNext /\ UNCHANGED stubVars
    BY <1>5 DEF VhciStep, AttachVhci, VhciNext, VhciUser
  <2>2. /\ ClientFirst' /\ (UNCHANGED vattached \/ conn # 0) /\ UNCHANGED conn
        /\ (link' = "open" => link = "open")
    BY <2>1, ClientFirstStep
  <2>3. conn = 0 => UNCHANGED handover
    BY <1>5 DEF VhciStep, AttachVhci, TakeSocket, Turn, FirstOpen
  <2> QED BY <1>1, <1>2, <2>1, <2>2, <2>3 DEF FirstOpen, ClientFirst, ServerUp
<1>6. CASE StubStep \/ ExportStub
  <2>1. StubNext /\ UNCHANGED vhciVars
    BY <1>6 DEF StubStep, ExportStub, StubNext
  <2>2. conn # 0
    <3>1. CASE ExportStub
      BY <3>1 DEF ExportStub, TakeSocket, Turn, FirstOpen
    <3>2. CASE StubStep /\ conn = 0
      BY <3>2, UntouchedServer DEF FirstOpen, StubStep
    <3> QED BY <1>6, <3>1, <3>2
  <2>3. ServerFirst' /\ UNCHANGED conn /\ (link' = "open" => link = "open")
    BY <2>1, <2>2, ServerFirstStep
  <2> QED BY <1>1, <1>3, <2>1, <2>2, <2>3 DEF FirstOpen, ServerFirst, ClientUp
<1>7. CASE GiveUp \/ NetworkLoss
  <2>1. /\ UNCHANGED <<conn, vhciVars, stubVars>> /\ link' = "down"
        /\ (conn = 0 => handover' = <<>>)
    BY <1>7 DEF GiveUp, NetworkLoss, LoseConnection, FirstOpen
  <2> QED BY <1>1, <1>2, <1>3, <2>1 DEF FirstOpen
<1>8. CASE UNCHANGED vars
  BY <1>1, <1>2, <1>3, <1>8 DEF vars, netVars, FirstOpen, ClientUp, ServerUp
<1> QED BY <1>4, <1>5, <1>6, <1>7, <1>8 DEF Next

\* A step that takes no request off its way, sends no new unlink and gives no
\* entry to priv_rx or unlink_rx.
LEMMA StaysTracked ==
    ASSUME Tracked, ~Lost, Way \subseteq Way', Claims' \subseteq Claims, UNCHANGED unlink_rx,
           priv_rx' \subseteq priv_rx
    PROVE  Tracked'
BY DEF Tracked, Awaited

\* While the connection is not lost, the client's event worker has nothing to do
\* but to take a node off the event list, and no step of the client raises an event.
LEMMA ClientQuiet ==
    ASSUME EndsInv, FirstOpen, conn <= 1, VhciNext, UNCHANGED stubVars, ~Lost'
    PROVE  /\ ~Lost /\ (VhciEh => VhciEhPop) /\ UNCHANGED conn
           /\ vtx # "off" => vsock = conn /\ conn # 0 /\ attach \notin {"start_rx", "start_tx"}
           /\ vev' # EventAdd(vev, EVENT_DOWN) /\ vev' # EventAdd(vev, EVENT_ERROR_MALLOC)
<1> USE DEF netVars, portVars, listVars, urbVars, vrxVars, vtxVars, userVars, hubVars
<1>0. vev \in EventWord /\ "BYE" \notin vev.bits
  BY DEF EndsInv, Inv, VhciTypeOK, PortTypeOK, FirstOpen
<1>1. link = "open" /\ link' = "open" /\ UNCHANGED conn
  <2>1. link' = "open"
    <3>1. NetTypeOK'
      BY TypeStep DEF EndsInv, Inv, VhciTypeOK
    <3> QED BY <3>1 DEF Lost, NetTypeOK
  <2> QED BY <2>1, ClientFirstStep
<1>2. vattached = 0 \/ ClientUp
  BY <1>1 DEF FirstOpen
<1>3. VhciEh => VhciEhPop
  <2>1. veh \in {"idle", "unlink"}
    BY <1>2 DEF ClientUp, FirstOpen, Fresh
  <2>2. veh = "unlink" => vsock = conn /\ conn # 0
    BY <1>2 DEF ClientUp, FirstOpen, Fresh
  <2>3. ~VhciEhUnlinkSocket
    BY <1>1, <2>2 DEF VhciEhUnlinkSocket, ShutdownConnection
  <2> QED BY <2>1, <2>3 DEF VhciEh, VhciEhStopRx, VhciEhStopTx, VhciEhCleanupTx, VhciEhCleanupRx,
          VhciEhPortOff, VhciEhReset, VhciEhUnsetReset, VhciEhUnusable
<1>4. vtx # "off" => vsock = conn /\ conn # 0 /\ attach \notin {"start_rx", "start_tx"}
  BY <1>2 DEF ClientUp, FirstOpen, Fresh
<1>5. vev' # EventAdd(vev, EVENT_DOWN) /\ vev' # EventAdd(vev, EVENT_ERROR_MALLOC)
  BY <1>0, VhciRaises DEF Lost
<1>6. VhciTx \/ VhciRx \/ VhciRxTimeout => UNCHANGED vev
  BY <1>5 DEF VhciTx, VhciTxDequeueSubmit, VhciTxNoSubmit, VhciTxDequeueUnlink, VhciTxNoUnlink,
     VhciTxSent, VhciTxFailed, VhciTxOops, VhciTxWake, VhciRx, VhciRxHead, VhciRxRetSubmit,
     VhciRxRetUnlink, VhciRxGiveBack, VhciRxFailed, VhciRxTimeout
<1>7. VhciCore \/ VhciUser => UNCHANGED vev
  BY <1>5 DEF VhciCore, VhciEnqueue, VhciEnqueueGetDescriptor, VhciEnqueueSetAddress, TxUrb,
     VhciDequeueDisconnected, VhciDequeueConnected, VhciDequeueQueueUnlink, HubConnectChange,
     HubDisconnected, HubFrame, VhciUser, VhciAttach, VhciAttachGoesOn, VhciAttachStartRx, VhciAttachStartTx, VhciAttachSetTx,
     VhciAttachConnect,
     VhciDetachCheck, VhciDetachEvent
<1>8. VhciEhPop => vev'.bits = vev.bits
  BY <1>0 DEF VhciEhPop, GetEvent, EventWord
<1>9. vev'.bits = vev.bits /\ UNCHANGED sev
  BY <1>3, <1>6, <1>7, <1>8 DEF VhciNext, stubVars
<1> QED BY <1>1, <1>3, <1>4, <1>5, <1>9 DEF Lost

\* Every step of the client keeps its requests tracked.
LEMMA ClientTracks ==
    ASSUME EndsInv, OnePlace, OnePlace', FirstOpen, Tracked, conn <= 1, VhciNext,
           UNCHANGED stubVars
    PROVE  Tracked'
<1> SUFFICES ASSUME ~Lost' PROVE Tracked'
  BY DEF Tracked
<1> USE DEF netVars, portVars, listVars, urbVars, vrxVars, vtxVars, userVars, hubVars
<1>0. /\ ~Lost /\ (VhciEh => VhciEhPop) /\ UNCHANGED conn
      /\ (vtx # "off" => vsock = conn /\ conn # 0 /\ attach \notin {"start_rx", "start_tx"})
      /\ vev' # EventAdd(vev, EVENT_DOWN) /\ vev' # EventAdd(vev, EVENT_ERROR_MALLOC)
      /\ link = "open"
  <2>1. ~Lost => link = "open"
    BY DEF Lost, EndsInv, ServerTypeOK, NetTypeOK
  <2> QED BY <2>1, ClientQuiet
<1>a. UNCHANGED <<priv_init, done_tx, ret_unlink>> /\ AnswerDue' = AnswerDue
  BY DEF stubVars, AnswerDue
<1>b. VhciTypeOK /\ c2s \in Seq(CmdPdu) /\ s2c \in Seq(RetPdu) /\ vpdu \in CmdPdu
      /\ RequestNumbersUnique
  BY DEF EndsInv, Inv, VhciTypeOK, NetTypeOK, ThreadTypeOK, Safe
<1>c. ASSUME UNCHANGED <<c2s, s2c, unlink_rx, vpdu>>, Sending' = Sending, priv_rx' \subseteq priv_rx
      PROVE  Tracked'
  BY <1>0, <1>a, <1>c, StaysTracked DEF Way, Claims
<1>1. CASE VhciTxDequeueSubmit
  <2>1. PICK p \in priv_tx : priv_rx' = priv_rx \cup {p} /\ vpdu' = CmdSubmit(p.seqnum)
    BY <1>1 DEF VhciTxDequeueSubmit
  <2>2. vpdu'.cmd # "CMD_UNLINK" /\ vpdu'.seqnum = p.seqnum
    BY <2>1 DEF CmdSubmit
  <2>3. Sending = {} /\ Sending' = {p.seqnum}
    BY <1>1, <2>2 DEF VhciTxDequeueSubmit, Sending
  <2>4. UNCHANGED <<c2s, s2c, unlink_rx>>
    BY <1>1 DEF VhciTxDequeueSubmit
  <2>5. Way \subseteq Way' /\ p.seqnum \in Way' /\ Claims' \subseteq Claims
    BY <1>a, <2>2, <2>3, <2>4 DEF Way, Claims
  <2> QED BY <1>0, <2>1, <2>4, <2>5 DEF Tracked, Awaited
<1>2. CASE VhciTxDequeueUnlink
  <2>1. PICK k \in unlink_tx : unlink_rx' = unlink_rx \cup {k} /\ vpdu' = CmdUnlink(k.seqnum, k.target)
    BY <1>2 DEF VhciTxDequeueUnlink
  <2>2. vpdu'.seqnum = k.seqnum
    BY <2>1 DEF CmdUnlink
  <2>3. Sending = {} /\ Sending' = {k.seqnum}
    BY <1>2, <2>2 DEF VhciTxDequeueUnlink, Sending
  <2>4. UNCHANGED <<c2s, s2c, priv_rx>>
    BY <1>2 DEF VhciTxDequeueUnlink
  <2>5. Way \subseteq Way' /\ k.seqnum \in Way' /\ Claims' \subseteq Claims \cup {k.seqnum}
    BY <1>a, <2>2, <2>3, <2>4 DEF Way, Claims
  <2> QED BY <1>0, <2>1, <2>4, <2>5 DEF Tracked, Awaited
<1>3. CASE VhciTxSent
  <2>1. c2s' = Append(c2s, vpdu) /\ UNCHANGED <<s2c, unlink_rx, priv_rx>>
    BY <1>0, <1>3 DEF VhciTxSent, CanSend
  <2>2. Sending = {vpdu.seqnum} /\ Sending' = {}
    BY <1>3 DEF VhciTxSent, Sending
  <2>3. /\ Seqnums(Append(c2s, vpdu)) = Seqnums(c2s) \cup {vpdu.seqnum}
        /\ Range(Append(c2s, vpdu)) \subseteq Range(c2s) \cup {vpdu}
    BY <1>b, AppendNumbers, Entries
  <2>4. Way \subseteq Way'
    BY <1>a, <2>1, <2>2, <2>3 DEF Way
  <2>5. Claims' \subseteq Claims
    BY <1>a, <2>1, <2>2, <2>3 DEF Claims
  <2> QED BY <1>0, <2>1, <2>4, <2>5, StaysTracked
<1>4. ASSUME s2c # <<>>, s2c' = Tail(s2c), UNCHANGED <<c2s, vtxVars>>
      PROVE  /\ Way \subseteq Way' \cup {Head(s2c).seqnum} /\ Claims' \subseteq Claims
             /\ Head(s2c).seqnum \notin Claims'
             /\ Head(s2c).cmd = "RET_UNLINK" => Head(s2c).seqnum \in Claims
  <2>1. /\ Seqnums(s2c) \subseteq Seqnums(s2c') \cup {Head(s2c).seqnum}
        /\ Head(s2c).seqnum \in Seqnums(s2c) /\ Head(s2c).seqnum \notin Seqnums(s2c')
        /\ Range(s2c') \subseteq Range(s2c) /\ Head(s2c) \in Range(s2c)
        /\ s2c' \in Seq(RetPdu)
    BY <1>4, <1>b, TailNumbers, Entries, HeadTailProperties DEF OnePlace
  <2>2. Sending' = Sending
    BY <1>4 DEF Sending
  <2>3. Claims' \subseteq Claims
    BY <1>4, <1>a, <2>1, <2>2 DEF Claims
  <2>4. Way \subseteq Way' \cup {Head(s2c).seqnum}
    BY <1>4, <1>a, <2>1, <2>2 DEF Way
  <2>5. Claims' \subseteq Way'
    <3>1. c2s' \in Seq(CmdPdu) /\ priv_init' \in Seq(StubPriv)
          /\ ret_unlink' \in Seq([seqnum : Nat, status : Status])
      BY <1>4, <1>a, <1>b DEF EndsInv, ServerTypeOK, StubTypeOK
    <3>2. \A x \in Range(c2s') : x.seqnum \in Seqnums(c2s')
      BY <3>1, Entries
    <3>3. \A x \in Range(priv_init') : x.seqnum \in Seqnums(priv_init')
      BY <3>1, Entries
    <3>4. \A x \in Range(s2c') : x.seqnum \in Seqnums(s2c')
      BY <2>1, Entries
    <3>5. \A x \in Range(ret_unlink') : x.seqnum \in Seqnums(ret_unlink')
      BY DEF Range, Seqnums
    <3> QED BY <3>2, <3>3, <3>4, <3>5 DEF Claims, Way, AnswerDue
  <2>6. Head(s2c).seqnum \notin Way'
    BY <1>4, <1>a, <2>1, <2>2 DEF OnePlace, Apart, Way, AnswerDue
  <2>7. Head(s2c).cmd = "RET_UNLINK" => Head(s2c).seqnum \in Claims
    BY <2>1 DEF Claims
  <2> QED BY <2>3, <2>4, <2>5, <2>6, <2>7
<1>5. CASE VhciRxRetSubmit
  <2>1. PICK p \in priv_rx : p.seqnum = Head(s2c).seqnum /\ priv_rx' = priv_rx \ {p}
    BY <1>0, <1>5 DEF VhciRxRetSubmit, PickUp
  <2>2. s2c # <<>> /\ s2c' = Tail(s2c) /\ UNCHANGED <<c2s, vtxVars, unlink_rx>>
    BY <1>5 DEF VhciRxRetSubmit, CanRecv
  <2>3. /\ Way \subseteq Way' \cup {p.seqnum} /\ Claims' \subseteq Claims
    BY <1>4, <2>1, <2>2
  <2>4. /\ \A q \in priv_rx' : q.seqnum # p.seqnum
        /\ \A k \in unlink_rx : k.seqnum # p.seqnum
    BY <1>b, <2>1 DEF RequestNumbersUnique, Privs, Unlinks
  <2> QED BY <1>0, <2>1, <2>2, <2>3, <2>4 DEF Tracked, Awaited
<1>6. CASE VhciRxRetUnlink
  <2>2. s2c # <<>> /\ s2c' = Tail(s2c) /\ UNCHANGED <<c2s, vtxVars>> /\ Head(s2c).cmd = "RET_UNLINK"
    BY <1>6 DEF VhciRxRetUnlink, CanRecv
  <2>3. Awaited(Head(s2c).seqnum)
    BY <1>0, <1>4, <2>2 DEF Tracked
  <2>4. PICK k \in unlink_rx :
          /\ k.seqnum = Head(s2c).seqnum /\ unlink_rx' = unlink_rx \ {k}
          /\ priv_rx' \subseteq priv_rx /\ \A p \in priv_rx' : p.seqnum # k.target
    <3>1. PICK k \in unlink_rx :
            /\ k.seqnum = Head(s2c).seqnum /\ unlink_rx' = unlink_rx \ {k}
            /\ \/ \E p \in priv_rx : p.seqnum = k.target /\ priv_rx' = priv_rx \ {p}
               \/ (\A p \in priv_rx : p.seqnum # k.target) /\ UNCHANGED priv_rx
      BY <1>6, <2>3 DEF VhciRxRetUnlink, PickUp, Awaited
    <3>2. priv_rx' \subseteq priv_rx /\ \A p \in priv_rx' : p.seqnum # k.target
      BY <1>b, <3>1 DEF RequestNumbersUnique, Privs
    <3> QED BY <3>1, <3>2
  <2>5. \A l \in unlink_rx' : l.seqnum # k.seqnum
    BY <1>b, <2>4 DEF RequestNumbersUnique, Unlinks
  <2>6. Way \subseteq Way' \cup {k.seqnum} /\ Claims' \subseteq Claims /\ k.seqnum \notin Claims'
    BY <1>4, <2>2, <2>4
  <2>7. \A l \in unlink_rx' : l.seqnum \in Way'
    BY <1>0, <2>4, <2>5, <2>6 DEF Tracked
  <2>8. \A n \in Claims' : Awaited(n)'
    BY <1>0, <2>4, <2>6 DEF Tracked, Awaited
  <2>9. \A p \in priv_rx' : p.seqnum \in Way' \/ \E l \in unlink_rx' : l.target = p.seqnum
    <3> TAKE p \in priv_rx'
    <3>1. p.seqnum # k.seqnum /\ p.seqnum # k.target /\ p \in priv_rx
      BY <1>b, <2>4 DEF RequestNumbersUnique, Privs, Unlinks
    <3> QED BY <1>0, <2>4, <2>6, <3>1 DEF Tracked
  <2> QED BY <2>7, <2>8, <2>9 DEF Tracked
<1>7. CASE VhciTxNoSubmit \/ VhciTxNoUnlink \/ VhciTxWake
  BY <1>c, <1>7 DEF VhciTxNoSubmit, VhciTxNoUnlink, VhciTxWake, Sending
<1>8. ~VhciTxFailed /\ ~VhciTxOops /\ ~VhciRxFailed
  BY <1>0 DEF VhciTxFailed, VhciTxOops, VhciRxFailed
<1>9. CASE VhciRxHead \/ VhciRxGiveBack \/ VhciRxTimeout
  BY <1>c, <1>9 DEF VhciRxHead, VhciRxGiveBack, VhciRxTimeout, Sending
<1>10. CASE VhciCore
  BY <1>c, <1>10 DEF VhciCore, VhciEnqueue, VhciEnqueueGetDescriptor, VhciEnqueueSetAddress, TxUrb,
     VhciDequeueDisconnected, VhciDequeueConnected, VhciDequeueQueueUnlink, HubConnectChange,
     HubDisconnected, HubFrame, Sending
<1>11. CASE VhciUser
  BY <1>0, <1>c, <1>11 DEF VhciUser, VhciAttach, VhciAttachGoesOn, VhciAttachStartRx, VhciAttachStartTx, VhciAttachSetTx,
     VhciAttachConnect, VhciDetachCheck,
     VhciDetachEvent, Sending
<1>12. CASE VhciEh
  BY <1>0, <1>c, <1>12 DEF VhciEhPop, EhFrame, EhRest, Sending
<1> QED BY <1>1, <1>2, <1>3, <1>5, <1>6, <1>7, <1>8, <1>9, <1>10, <1>11, <1>12
        DEF VhciNext, VhciTx, VhciRx

\* While the connection is not lost, the server's event worker has nothing to do
\* but to take a node off the event list, and no step of the server raises an event.
LEMMA ServerQuiet ==
    ASSUME EndsInv, FirstOpen, conn # 0, StubNext, UNCHANGED vhciVars, ~Lost'
    PROVE  /\ ~Lost /\ (StubEh => StubEhPop) /\ UNCHANGED conn
           /\ StubTx => ssock = conn
           /\ sev' # EventAdd(sev, EVENT_DOWN) /\ sev' # EventAdd(sev, EVENT_ERROR_MALLOC)
<1> USE DEF netVars, sdevVars, storeVars
<1>0. sev \in EventWord /\ "BYE" \notin sev.bits
  BY DEF EndsInv, ServerTypeOK, StubTypeOK, FirstOpen
<1>1. link = "open" /\ link' = "open" /\ UNCHANGED conn
  <2>1. link' = "open"
    <3>1. NetTypeOK'
      BY ServerTypeStep DEF EndsInv, ServerTypeOK
    <3> QED BY <3>1 DEF Lost, NetTypeOK
  <2> QED BY <2>1, ServerFirstStep
<1>2. StubInit \/ ServerUp
  BY <1>1 DEF FirstOpen
<1>3. StubEh => StubEhPop
  <2>1. StubEh => ServerUp
    BY <1>2, UntouchedServer
  <2>2. ServerUp => ~StubEhUnlinkSocket
    BY <1>1 DEF ServerUp, StubEhUnlinkSocket, ShutdownConnection
  <2> QED BY <2>1, <2>2 DEF ServerUp, StubEh, StubEhStopRx, StubEhKickTx, TxShouldStop, StubEhStopTx, StubEhCleanup,
          StubEhFreeUnlink, StubEhReset, StubEhUnsetReset, StubEhUnusable
<1>4. StubTx => ssock = conn
  BY <1>2, UntouchedServer DEF ServerUp
<1>5. sev' # EventAdd(sev, EVENT_DOWN) /\ sev' # EventAdd(sev, EVENT_ERROR_MALLOC)
  BY <1>0, EventAddSets, SMTT(60) DEF Lost
<1>6. StubRx \/ StubTx => UNCHANGED sev
  BY <1>5, Zenon DEF StubRx, StubRxHead, StubRxFailed, StubRxInvalid, StubRxCmdSubmit,
     StubRxCmdUnlinkFound, StubRxCmdUnlinkMissed, StubRxUnlinkUrb, EnqueueRetUnlink,
     StubTx, StubTxHead, StubTxRetSubmit, StubTxSubmitsDone, StubTxRetUnlink,
     StubTxFailed, StubTxUnlinksDone, StubTxWait
<1>7. (\E id \in hw : StubComplete(id)) \/ StubUser \/ StubStoreSockfd => UNCHANGED sev
  BY <1>5 DEF StubComplete, EnqueueRetUnlink, StubUser, StubStoreGoesOn, StubStartRx, StubStartTx, StubSetTx, StubStoreUsed,
     StubStoreDown, StubStoreSockfd
<1>8. StubEhPop => sev'.bits = sev.bits
  BY <1>0 DEF StubEhPop, GetEvent, EventWord
<1>9. sev'.bits = sev.bits /\ UNCHANGED vev
  BY <1>3, <1>6, <1>7, <1>8 DEF StubNext, vhciVars
<1> QED BY <1>1, <1>3, <1>4, <1>5, <1>9 DEF Lost

\* Every step of the server keeps the client's requests tracked.
LEMMA ServerTracks ==
    ASSUME EndsInv, OnePlace, Cancel, FirstOpen, Tracked, StaleMisses, conn # 0, StubNext,
           UNCHANGED vhciVars
    PROVE  Tracked'
<1> SUFFICES ASSUME ~Lost' PROVE Tracked'
  BY DEF Tracked
<1> USE DEF netVars, sdevVars, storeVars
<1>0. /\ ~Lost /\ (StubEh => StubEhPop) /\ UNCHANGED conn
      /\ (StubTx => CanSend(ssock))
      /\ sev' # EventAdd(sev, EVENT_DOWN) /\ sev' # EventAdd(sev, EVENT_ERROR_MALLOC)
  <2>1. ~Lost => link = "open"
    BY DEF Lost, EndsInv, ServerTypeOK, NetTypeOK
  <2> QED BY <2>1, ServerQuiet DEF CanSend
<1>a. UNCHANGED <<unlink_rx, priv_rx, vpdu, unlink_tx>> /\ Sending' = Sending
  BY ServerLeavesQueued DEF vhciVars, listVars
<1> DEFINE R == [seqnum : Nat, status : Status]
<1>b. /\ c2s \in Seq(CmdPdu) /\ s2c \in Seq(RetPdu)
      /\ priv_init \in Seq(StubPriv) /\ done_tx \in Seq(StubPriv)
      /\ ret_unlink \in Seq(R)
  BY DEF EndsInv, ServerTypeOK, StubTypeOK, NetTypeOK
<1> HIDE DEF R
<1>c. ASSUME Way \subseteq Way', Claims' \subseteq Claims PROVE Tracked'
  BY <1>0, <1>a, <1>c, StaysTracked
<1>d. ASSUME UNCHANGED <<c2s, priv_init, done_tx, ret_unlink, s2c>> PROVE Tracked'
  BY <1>a, <1>c, <1>d DEF Way, Claims, AnswerDue
<1>e. ASSUME NEW cmd, RecvCmd(cmd)
      PROVE  /\ Seqnums(c2s) \subseteq Seqnums(c2s') \cup {Head(c2s).seqnum}
             /\ Range(c2s') \subseteq Range(c2s) /\ Head(c2s) \in Range(c2s) /\ Head(c2s) \in CmdPdu
             /\ Head(c2s).cmd = cmd /\ UNCHANGED s2c
  <2>1. c2s # <<>> /\ c2s' = Tail(c2s) /\ Head(c2s).cmd = cmd /\ UNCHANGED s2c
    BY <1>e DEF RecvCmd, CanRecv
  <2> QED BY <1>b, <2>1, TailNumbers, Entries
<1>1. ~StubRxInvalid /\ ~StubRxFailed /\ ~StubTxFailed /\ ~StubStoreDown
  BY <1>0 DEF StubRxInvalid, StubRxFailed, StubTxFailed, StubStoreDown
<1>2. CASE StubRxCmdSubmit
  <2> DEFINE n == Head(c2s).seqnum
  <2>1. /\ Seqnums(c2s) \subseteq Seqnums(c2s') \cup {n} /\ Range(c2s') \subseteq Range(c2s)
        /\ n \in Nat /\ UNCHANGED s2c
    BY <1>2, <1>e DEF StubRxCmdSubmit, CmdPdu
  <2>2. priv_init' = Append(priv_init, NewPriv(n, TRUE)) /\ UNCHANGED <<done_tx, ret_unlink>>
    BY <1>0, <1>2 DEF StubRxCmdSubmit
  <2> HIDE DEF n
  <2>3. PICK e : e = NewPriv(n, TRUE) /\ priv_init' = Append(priv_init, e)
    BY <2>2
  <2>4. e \in StubPriv /\ e.seqnum = n /\ ~e.unlinking
    BY <2>1, <2>3 DEF NewPriv, StubPriv
  <2>5. Seqnums(priv_init') = Seqnums(priv_init) \cup {n} /\ Range(priv_init') \subseteq Range(priv_init) \cup {e}
    <3>1. /\ Seqnums(Append(priv_init, e)) = Seqnums(priv_init) \cup {e.seqnum}
          /\ Range(Append(priv_init, e)) \subseteq Range(priv_init) \cup {e}
      BY <1>b, <2>4, AppendNumbers, Entries
    <3> QED BY <2>3, <2>4, <3>1
  <2>6. Way \subseteq Way'
    BY <1>a, <2>1, <2>2, <2>5 DEF Way, AnswerDue
  <2>7. Claims' \subseteq Claims
    <3>1. \A x \in Range(priv_init') : x.unlinking => x \in Range(priv_init)
      BY <2>4, <2>5
    <3> QED BY <1>a, <2>1, <2>2, <3>1, ZenonT(60) DEF Claims
  <2> QED BY <1>c, <2>6, <2>7
<1>3. CASE StubRxCmdUnlinkFound
  <2>1. PICK m : m = Head(c2s)
    OBVIOUS
  <2>2. /\ Seqnums(c2s) \subseteq Seqnums(c2s') \cup {m.seqnum} /\ Range(c2s') \subseteq Range(c2s)
        /\ m \in Range(c2s) /\ m.cmd = "CMD_UNLINK" /\ m.seqnum \in Nat /\ UNCHANGED s2c
    BY <1>3, <1>e, <2>1 DEF StubRxCmdUnlinkFound, CmdPdu
  <2>3. PICK i \in DOMAIN priv_init :
          priv_init' = Marked(priv_init, i, m.seqnum) /\ priv_init[i].seqnum = m.target
    BY <1>3, <2>1 DEF StubRxCmdUnlinkFound, Marked
  <2>4. UNCHANGED <<done_tx, ret_unlink>>
    BY <1>3 DEF StubRxCmdUnlinkFound
  <2>5. /\ Seqnums(priv_init) \subseteq Seqnums(priv_init') \cup {m.target}
        /\ m.seqnum \in Seqnums(priv_init')
    BY <1>b, <2>2, <2>3, MarkNumbers
  <2>6. \A e \in Range(priv_init') : e \in Range(priv_init) \/ e.seqnum = m.seqnum
    <3> DEFINE t == Marked(priv_init, i, m.seqnum)
    <3>1. /\ DOMAIN t = DOMAIN priv_init /\ t[i].seqnum = m.seqnum
          /\ \A j \in DOMAIN priv_init : j # i => t[j] = priv_init[j]
      BY <1>b, <2>2, MarkFacts, ZenonT(60)
    <3>2. priv_init' = t
      BY <2>3
    <3> HIDE DEF t
    <3> QED BY <3>1, <3>2 DEF Range
  <2>7. Way \subseteq Way' \cup {m.target}
    BY <1>a, <2>2, <2>4, <2>5 DEF Way, AnswerDue
  <2>8. Claims' \subseteq Claims /\ m.seqnum \in Claims
    BY <1>a, <2>2, <2>4, <2>6 DEF Claims
  <2>9. PICK l \in unlink_rx : l.seqnum = m.seqnum
    BY <1>0, <2>8 DEF Tracked, Awaited
  <2>10. l.target = m.target /\ \A k \in unlink_rx : k.seqnum # m.target
    <3>1. GoodCmd(m) /\ l \in Unlinks
      BY <2>2 DEF Cancel, Unlinks
    <3>2. l.target = m.target
      BY <2>2, <2>9, <3>1 DEF GoodCmd
    <3> QED BY <3>1, <3>2 DEF StaleMisses, Unlinks
  <2> QED BY <1>0, <1>a, <2>7, <2>8, <2>9, <2>10 DEF Tracked, Awaited
<1>4. CASE StubRxCmdUnlinkMissed
  <2>1. PICK m : m = Head(c2s)
    OBVIOUS
  <2>2. /\ Seqnums(c2s) \subseteq Seqnums(c2s') \cup {m.seqnum} /\ Range(c2s') \subseteq Range(c2s)
        /\ m \in Range(c2s) /\ m.cmd = "CMD_UNLINK" /\ m.seqnum \in Nat /\ UNCHANGED s2c
    BY <1>4, <1>e, <2>1 DEF StubRxCmdUnlinkMissed, CmdPdu
  <2>3. PICK r : r = [seqnum |-> m.seqnum, status |-> "DONE"] /\ ret_unlink' = Append(ret_unlink, r)
    BY <1>0, <1>4, <2>1 DEF StubRxCmdUnlinkMissed, EnqueueRetUnlink
  <2>4. r \in R /\ r.seqnum = m.seqnum
    BY <2>2, <2>3 DEF R, Status
  <2>5. /\ Seqnums(ret_unlink') = Seqnums(ret_unlink) \cup {m.seqnum}
        /\ Range(ret_unlink') \subseteq Range(ret_unlink) \cup {r}
    BY <1>b, <2>3, <2>4, AppendNumbers, Entries
  <2>6. UNCHANGED <<priv_init, done_tx>>
    BY <1>4 DEF StubRxCmdUnlinkMissed
  <2>7. Way \subseteq Way'
    BY <1>a, <2>2, <2>5, <2>6 DEF Way, AnswerDue
  <2>8. Claims' \subseteq Claims
    BY <1>a, <2>2, <2>4, <2>5, <2>6 DEF Claims
  <2> QED BY <1>c, <2>7, <2>8
<1>5. ASSUME NEW id \in hw, StubComplete(id) PROVE Tracked'
  <2>1. PICK i \in DOMAIN priv_init :
          \/ UNCHANGED <<priv_init, done_tx, ret_unlink>>
          \/ /\ priv_init' = RemoveAt(priv_init, i)
             /\ priv_init[i].unlinking
             /\ \E status \in Status :
                   ret_unlink' = Append(ret_unlink, [seqnum |-> priv_init[i].seqnum, status |-> status])
             /\ UNCHANGED done_tx
          \/ /\ priv_init' = RemoveAt(priv_init, i)
             /\ done_tx' = Append(done_tx, priv_init[i])
             /\ UNCHANGED ret_unlink
    BY <1>0, <1>5 DEF StubComplete, EnqueueRetUnlink, Status
  <2>2. UNCHANGED <<c2s, s2c>>
    BY <1>5 DEF StubComplete
  <2>3. PICK e : e = priv_init[i]
    OBVIOUS
  <2>4. e \in StubPriv /\ e.seqnum \in Nat /\ e \in Range(priv_init)
    <3>1. e \in StubPriv /\ e \in Range(priv_init)
      BY <1>b, <2>3, Entries, ElementOfSeq
    <3> QED BY <3>1 DEF StubPriv
  <2>5. ASSUME priv_init' = RemoveAt(priv_init, i)
        PROVE  /\ Seqnums(priv_init) \subseteq Seqnums(priv_init') \cup {e.seqnum}
               /\ Range(priv_init') \subseteq Range(priv_init)
    BY <1>b, <2>3, <2>5, RemoveNumbers, Entries
  <2>6. CASE UNCHANGED <<priv_init, done_tx, ret_unlink>>
    BY <1>d, <2>2, <2>6
  <2>7. CASE /\ priv_init' = RemoveAt(priv_init, i)
             /\ e.unlinking
             /\ \E status \in Status :
                   ret_unlink' = Append(ret_unlink, [seqnum |-> e.seqnum, status |-> status])
             /\ UNCHANGED done_tx
    <3>1. PICK st \in Status : ret_unlink' = Append(ret_unlink, [seqnum |-> e.seqnum, status |-> st])
      BY <2>7
    <3>2. PICK r : r = [seqnum |-> e.seqnum, status |-> st] /\ ret_unlink' = Append(ret_unlink, r)
      BY <3>1
    <3>3. r \in R /\ r.seqnum = e.seqnum
      BY <2>4, <3>2 DEF R
    <3>4. /\ Seqnums(ret_unlink') = Seqnums(ret_unlink) \cup {e.seqnum}
          /\ Range(ret_unlink') \subseteq Range(ret_unlink) \cup {r}
      BY <1>b, <3>2, <3>3, AppendNumbers, Entries
    <3>5. Way \subseteq Way'
      BY <1>a, <2>2, <2>5, <2>7, <3>4 DEF Way, AnswerDue
    <3>6. Claims' \subseteq Claims
      BY <1>a, <2>2, <2>4, <2>5, <2>7, <3>3, <3>4 DEF Claims
    <3> QED BY <1>c, <3>5, <3>6
  <2>8. CASE /\ priv_init' = RemoveAt(priv_init, i)
             /\ done_tx' = Append(done_tx, e)
             /\ UNCHANGED ret_unlink
    <3>1. Seqnums(done_tx') = Seqnums(done_tx) \cup {e.seqnum}
      BY <1>b, <2>4, <2>8, AppendNumbers
    <3>2. Way \subseteq Way'
      BY <1>a, <2>2, <2>5, <2>8, <3>1 DEF Way, AnswerDue
    <3>3. Claims' \subseteq Claims
      BY <1>a, <2>2, <2>5, <2>8 DEF Claims
    <3> QED BY <1>c, <3>2, <3>3
  <2> QED BY <2>1, <2>3, <2>6, <2>7, <2>8
<1>6. CASE StubTxRetSubmit
  <2>1. PICK e : e = Head(done_tx)
    OBVIOUS
  <2>2. done_tx # <<>> /\ done_tx' = Tail(done_tx) /\ UNCHANGED <<priv_init, ret_unlink, c2s>>
        /\ s2c' = Append(s2c, RetSubmit(e.seqnum))
    BY <1>0, <1>6, <2>1 DEF StubTxRetSubmit, SendRet, StubTx
  <2>3. Seqnums(done_tx) \subseteq Seqnums(done_tx') \cup {e.seqnum} /\ e \in StubPriv
    BY <1>b, <2>1, <2>2, TailNumbers, Entries
  <2>4. PICK m : m = RetSubmit(e.seqnum) /\ s2c' = Append(s2c, m)
    BY <2>2
  <2>5. m \in RetPdu /\ m.seqnum = e.seqnum /\ m.cmd # "RET_UNLINK"
    BY <2>3, <2>4 DEF RetSubmit, RetPdu, Status, StubPriv
  <2>6. Seqnums(s2c') = Seqnums(s2c) \cup {e.seqnum} /\ Range(s2c') \subseteq Range(s2c) \cup {m}
    BY <1>b, <2>4, <2>5, AppendNumbers, Entries
  <2>7. Way \subseteq Way'
    BY <1>a, <2>2, <2>3, <2>6 DEF Way, AnswerDue
  <2>8. Claims' \subseteq Claims
    BY <1>a, <2>2, <2>5, <2>6 DEF Claims
  <2> QED BY <1>c, <2>7, <2>8
<1>7. CASE StubTxRetUnlink
  <2>1. PICK r : r = Head(ret_unlink)
    OBVIOUS
  <2>2. ret_unlink # <<>> /\ ret_unlink' = Tail(ret_unlink) /\ UNCHANGED <<priv_init, done_tx, c2s>>
        /\ s2c' = Append(s2c, RetUnlink(r.seqnum, r.status))
    BY <1>0, <1>7, <2>1 DEF StubTxRetUnlink, SendRet, StubTx
  <2>3. /\ Seqnums(ret_unlink) \subseteq Seqnums(ret_unlink') \cup {r.seqnum} /\ r \in R
        /\ r \in Range(ret_unlink) /\ Range(ret_unlink') \subseteq Range(ret_unlink)
    BY <1>b, <2>1, <2>2, TailNumbers, Entries
  <2>4. PICK m : m = RetUnlink(r.seqnum, r.status) /\ s2c' = Append(s2c, m)
    BY <2>2
  <2>5. m \in RetPdu /\ m.seqnum = r.seqnum
    BY <2>3, <2>4 DEF RetUnlink, RetPdu, R
  <2>6. Seqnums(s2c') = Seqnums(s2c) \cup {r.seqnum} /\ Range(s2c') \subseteq Range(s2c) \cup {m}
    BY <1>b, <2>4, <2>5, AppendNumbers, Entries
  <2>7. Way \subseteq Way'
    BY <1>a, <2>2, <2>3, <2>6 DEF Way, AnswerDue
  <2>8. Claims' \subseteq Claims
    BY <1>a, <2>2, <2>3, <2>5, <2>6 DEF Claims
  <2> QED BY <1>c, <2>7, <2>8
<1>8. CASE StubRxHead \/ StubRxUnlinkUrb
  BY <1>8, <1>d DEF StubRxHead, StubRxUnlinkUrb
<1>9. CASE StubTxHead \/ StubTxSubmitsDone \/ StubTxUnlinksDone \/ StubTxWait
  BY <1>9, <1>d DEF StubTxHead, StubTxSubmitsDone, StubTxUnlinksDone, StubTxWait
<1>10. CASE StubEh
  BY <1>0, <1>10, <1>d DEF StubEhPop
<1>11. CASE StubUser \/ StubStoreSockfd
  BY <1>1, <1>11, <1>d DEF StubUser, StubStoreGoesOn, StubStartRx, StubStartTx, StubSetTx,
     StubStoreUsed, StubStoreSockfd
<1> QED BY <1>1, <1>2, <1>3, <1>4, <1>5, <1>6, <1>7, <1>8, <1>9, <1>10, <1>11
        DEF StubNext, StubRx, StubTx

\* The path starts without a connection.
LEMMA TrackedInit == Init => FirstOpen /\ Tracked
<1> SUFFICES ASSUME Init PROVE FirstOpen /\ Tracked
  OBVIOUS
<1>1. Lost /\ link # "open" /\ Fresh
  BY DEF Init, NetInit, VhciInit, Lost, Fresh, Unlinks
<1>2. "BYE" \notin vev.bits /\ "BYE" \notin sev.bits
  BY DEF Init, VhciInit, StubInit, NoEvent
<1> QED BY <1>1, <1>2 DEF Init, VhciInit, FirstOpen, Tracked

\* Every step of the path keeps the client's requests tracked, as long as no second
\* connection is made and a stale read misses.
LEMMA TrackedStep ==
    ASSUME EndsInv, OnePlace, OnePlace', Cancel, FirstOpen, Tracked, StaleMisses, [Next]_vars,
           conn <= 1, conn' <= 1
    PROVE  Tracked'
<1>0. conn \in Nat
  BY DEF EndsInv, ServerTypeOK, NetTypeOK
<1>1. CASE Connect
  <2>1. conn = 0
    BY <1>0, <1>1 DEF Connect, OpenConnection
  <2>2. StubInit /\ vattached = 0 /\ Fresh
    BY <2>1 DEF FirstOpen
  <2>3. /\ UNCHANGED <<priv_rx, unlink_rx, vtx, vpdu, priv_init, done_tx, ret_unlink>>
        /\ c2s' = <<>> /\ s2c' = <<>>
    BY <1>1 DEF Connect, OpenConnection, vhciVars, listVars, vtxVars, stubVars
  <2>4. unlink_rx = {} /\ vtx = "off"
    BY <2>2 DEF Fresh, Unlinks
  <2>5. priv_rx = {}
    <3> SUFFICES ASSUME NEW p \in priv_rx PROVE FALSE
      OBVIOUS
    <3>1. p \in Priv /\ hcpriv[p.urb] = p.seqnum /\ p.seqnum \in 1 .. seqnum
      BY DEF EndsInv, Inv, Safe, VhciTypeOK, ListTypeOK, PrivMatchesUrb, RequestNumbersUnique, Privs
    <3>2. hcpriv[p.urb] = 0
      BY <2>2, <3>1 DEF Fresh, Priv
    <3> QED BY <3>1, <3>2
  <2>6. Range(<<>>) = {}
    BY DEF Range
  <2>7. Claims' = {}
    BY <2>2, <2>3, <2>4, <2>6 DEF Claims, Sending, StubInit
  <2> QED BY <2>3, <2>4, <2>5, <2>7 DEF Tracked
<1>2. CASE VhciStep \/ AttachVhci
  BY <1>2, ClientTracks DEF VhciStep, AttachVhci, VhciNext, VhciUser
<1>3. CASE StubStep \/ ExportStub
  <2>1. StubNext /\ UNCHANGED vhciVars
    BY <1>3 DEF StubStep, ExportStub, StubNext
  <2>2. conn # 0
    <3>1. CASE ExportStub
      BY <3>1 DEF ExportStub, TakeSocket, Turn, FirstOpen
    <3>2. CASE StubStep /\ conn = 0
      BY <3>2, UntouchedServer DEF FirstOpen, StubStep
    <3> QED BY <1>3, <3>1, <3>2
  <2> QED BY <2>1, <2>2, ServerTracks
<1>4. CASE GiveUp \/ NetworkLoss
  BY <1>4 DEF GiveUp, NetworkLoss, LoseConnection, Tracked, Lost
<1>5. CASE UNCHANGED vars
  <2>1. UNCHANGED <<link, c2s, s2c, priv_rx, unlink_rx, vtx, vpdu, vev, sev, priv_init, done_tx, ret_unlink>>
    BY <1>5 DEF vars, netVars, vhciVars, listVars, vtxVars, stubVars
  <2>2. (Lost' <=> Lost) /\ Way' = Way /\ Claims' = Claims
    BY <2>1 DEF Lost, Way, Claims, AnswerDue, Sending
  <2> QED BY <2>1, <2>2 DEF Tracked, Awaited
<1> QED BY <1>1, <1>2, <1>3, <1>4, <1>5 DEF Next

\* No request of a port's first connection is forgotten, whatever fails and however
\* the threads of the two ends interleave: what vhci_rx waits for is on its way to
\* the stub, on the stub's lists, or on its way back, or stands behind an unlink
\* request that is.  (conn <= 1: a later connection can meet an earlier one's events,
\* see ShutdownFirst.  StaleMisses: the use after free in vhci_urb_dequeue.)
THEOREM RequestsNotLost == Spec /\ [](conn <= 1) /\ []StaleMisses => []RequestsTracked
<1> DEFINE I == EndsInv /\ OnePlace /\ Cancel /\ FirstOpen /\ Tracked
<1>1. Init => I
  BY InitInv, ServerInit, PlacesInit, CancelInit, TrackedInit DEF Init, EndsInv
<1>2. I /\ StaleMisses /\ [Next]_vars /\ conn <= 1 /\ (conn <= 1)' => I'
  BY EndsStep, PlacesStep, CancelStep, FirstStep, TrackedStep
<1>3. I => RequestsTracked
  <2> SUFFICES ASSUME Tracked, Undisturbed PROVE RequestsTracked
    BY DEF RequestsTracked
  <2>1. ~Lost
    BY DEF Undisturbed, Lost, EventHappened
  <2>2. Way \subseteq InFlight
    BY DEF Way, InFlight, Sending
  <2> QED BY <2>1, <2>2 DEF Tracked, RequestsTracked
<1> HIDE DEF I
<1> QED BY <1>1, <1>2, <1>3, PTL DEF Spec

\* StaleMisses, and what makes it inductive if no memory is read after it was freed:
\* what vhci_urb_dequeue has read is the number of a submit too.
Targets ==
    /\ StaleMisses
    /\ \A k \in Unlinks : k.target \in 0 .. seqnum
    /\ dq.seqnum \in 0 .. seqnum
    /\ \A l \in Unlinks : l.seqnum # dq.seqnum

\* Without stale reads, every step of the client keeps the targets of its unlinks apart
\* from their numbers.
LEMMA TargetsStep ==
    ASSUME StaleReads = {}, Inv, Targets, [VhciNext \/ Peer]_clientVars
    PROVE  Targets'
<1> USE DEF netVars, portVars, listVars, urbVars, vrxVars, vtxVars, userVars, hubVars
<1>0. seqnum \in Nat /\ dq.seqnum \in Nat /\ \A k \in Unlinks : k.seqnum \in 1 .. seqnum
  BY DEF Inv, Safe, VhciTypeOK, ListTypeOK, UrbTypeOK, RequestNumbersUnique
<1>1. ASSUME Unlinks' \subseteq Unlinks, UNCHANGED dq, seqnum' \in {seqnum, seqnum + 1}
      PROVE  Targets'
  BY <1>0, <1>1 DEF Targets, StaleMisses
<1>2. CASE VhciDequeueQueueUnlink
  <2>1. PICK k : k \in {[seqnum |-> seqnum + 1, target |-> t] : t \in {dq.seqnum}}
                 /\ unlink_tx' = unlink_tx \cup {k}
    BY <1>2 DEF VhciDequeueQueueUnlink
  <2>2. k.seqnum = seqnum + 1 /\ k.target = dq.seqnum
    BY <2>1
  <2>3. Unlinks' = Unlinks \cup {k} /\ seqnum' = seqnum + 1 /\ dq'.seqnum = 0
    BY <1>2, <2>1 DEF VhciDequeueQueueUnlink, Unlinks, NoDequeue
  <2>4. \A l \in Unlinks : l.seqnum \in 1 .. seqnum /\ l.target \in 0 .. seqnum
    BY <1>0 DEF Targets
  <2>5. StaleMisses'
    BY <1>0, <2>2, <2>3, <2>4 DEF Targets, StaleMisses
  <2> QED BY <1>0, <2>2, <2>3, <2>4, <2>5 DEF Targets
<1>3. ASSUME NEW u \in Urbs, VhciDequeueConnected(u) PROVE Targets'
  <2>1. Unlinks' = Unlinks /\ UNCHANGED seqnum /\ hcpriv[u] # 0
    BY <1>3 DEF VhciDequeueConnected, DequeueCheck, Unlinks
  <2>2. UNCHANGED dq \/ dq'.seqnum = hcpriv[u]
    BY <1>3 DEF VhciDequeueConnected
  <2>3. hcpriv[u] \in 0 .. seqnum /\ \A l \in Unlinks : l.seqnum # hcpriv[u]
    BY <1>0, <2>1 DEF Inv, Safe, PrivMatchesUrb, RequestNumbersUnique
  <2> QED BY <1>0, <2>1, <2>2, <2>3 DEF Targets, StaleMisses
<1>4. ASSUME NEW u \in Urbs,
             \/ VhciEnqueue(u) \/ VhciEnqueueGetDescriptor(u) \/ VhciEnqueueSetAddress(u)
             \/ VhciDequeueDisconnected(u)
      PROVE  Targets'
  BY <1>1, <1>4 DEF VhciEnqueue, VhciEnqueueGetDescriptor, VhciEnqueueSetAddress, TxUrb,
     VhciDequeueDisconnected, Unlinks
<1>5. CASE VhciTx
  BY <1>1, <1>5 DEF VhciTx, VhciTxDequeueSubmit, VhciTxNoSubmit, VhciTxDequeueUnlink, VhciTxNoUnlink,
     VhciTxSent, VhciTxFailed, VhciTxOops, VhciTxWake, Unlinks
<1>6. CASE VhciRx \/ VhciRxTimeout
  BY <1>1, <1>6 DEF VhciRx, VhciRxHead, VhciRxRetSubmit, VhciRxRetUnlink, VhciRxGiveBack,
     VhciRxFailed, VhciRxTimeout, Unlinks
<1>7. CASE VhciEh
  BY <1>1, <1>7 DEF VhciEh, VhciEhPop, VhciEhUnlinkSocket, VhciEhStopRx, VhciEhStopTx,
     VhciEhCleanupTx, VhciEhCleanupRx, VhciEhPortOff, VhciEhReset, VhciEhUnsetReset,
     VhciEhUnusable, EhFrame, EhRest, Unlinks
<1>8. CASE VhciUser \/ HubConnectChange \/ HubDisconnected
  BY <1>1, <1>8 DEF VhciUser, VhciAttach, VhciAttachGoesOn, VhciAttachStartRx, VhciAttachStartTx, VhciAttachSetTx,
     VhciAttachConnect, VhciDetachCheck,
     VhciDetachEvent, HubConnectChange, HubDisconnected, HubFrame, Unlinks
<1>9. CASE Peer \/ UNCHANGED clientVars
  BY <1>1, <1>9 DEF Peer, clientVars, vhciVars, Unlinks
<1> QED BY <1>2, <1>3, <1>4, <1>5, <1>6, <1>7, <1>8, <1>9 DEF VhciNext, VhciCore

\* If vhci_urb_dequeue never read freed memory, the second hypothesis of
\* RequestsNotLost would hold by itself: an unlink request would always name a submit.
THEOREM UnlinksNameSubmits == StaleReads = {} => (Spec => []StaleMisses)
<1> SUFFICES ASSUME StaleReads = {} PROVE Spec => []StaleMisses
  OBVIOUS
<1>1. Init => Targets
  BY DEF Init, VhciInit, NoDequeue, Targets, StaleMisses, Unlinks
<1>2. EndsInv /\ Targets /\ [Next]_vars => Targets'
  <2>1. EndsInv => EndsTypeOK /\ Inv
    BY DEF EndsInv, Inv, ServerTypeOK, EndsTypeOK
  <2> QED BY <2>1, ClientSteps, TargetsStep
<1>3. Targets => StaleMisses
  BY DEF Targets
<1> QED BY <1>1, <1>2, <1>3, EndsInvariance, PTL DEF Spec

===============================================================================
