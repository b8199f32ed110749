------------------------------ MODULE VhciProofs ------------------------------
(***************************************************************************)
(* Theorems about a vhci port, for any number of URBs, requests,           *)
(* connections and detaches, any set of faults and any peer: VhciSpec lets *)
(* the far end of the connection change the streams as it likes.           *)
(*                                                                         *)
(* The inductive invariant is Inv: the type invariant and the three        *)
(* properties of the lists together.  None of the three is inductive by    *)
(* itself: vhci_rx gives back a URB that is on its endpoint's list only    *)
(* because a vhci_priv on priv_rx belongs to a linked URB                  *)
(* (PrivMatchesUrb), and a URB has one vhci_priv only because the numbers  *)
(* on the lists are pairwise different (RequestNumbersUnique).             *)
(***************************************************************************)
EXTENDS Vhci, TLAPS

\* usbip_event_add: setting the bits of any mask leaves an event word.
LEMMA EventAddType ==
    ASSUME NEW e \in EventWord, NEW mask \in SUBSET Bits
    PROVE  EventAdd(e, mask) \in EventWord
BY DEF EventWord, EventAdd, Bits

\* The event word stays an event word under everything the vhci does to it:
\* usbip_event_add with its two masks, get_event and unset_event.
LEMMA EventTypes ==
    ASSUME NEW e \in EventWord
    PROVE  /\ EventAdd(e, EVENT_DOWN) \in EventWord
           /\ EventAdd(e, EVENT_ERROR_MALLOC) \in EventWord
           /\ GetEvent(e) \in EventWord
           /\ \A bit \in Bits : UnsetEvent(e, bit) \in EventWord
<1>1. EVENT_DOWN \in SUBSET Bits /\ EVENT_ERROR_MALLOC \in SUBSET Bits
  BY DEF EVENT_DOWN, EVENT_ERROR_MALLOC, Bits
<1>2. GetEvent(e) \in EventWord
  BY DEF EventWord, GetEvent
<1>3. \A bit \in Bits : UnsetEvent(e, bit) \in EventWord
  BY DEF EventWord, UnsetEvent
<1> QED BY <1>1, <1>2, <1>3, EventAddType

\* Every step of the driver, of the USB core, of userland and of the peer keeps
\* the types: one step per action, under it one per group of variables that the
\* action changes.
LEMMA TypeStep == VhciTypeOK /\ [VhciNext \/ Peer]_clientVars => VhciTypeOK'
<1> SUFFICES ASSUME VhciTypeOK, [VhciNext \/ Peer]_clientVars PROVE VhciTypeOK'
  OBVIOUS
<1> USE VhciAssumption
<1> USE DEF VhciTypeOK, NetTypeOK, PortTypeOK, ListTypeOK, UrbTypeOK, ThreadTypeOK, FileTypeOK,
            netVars, portVars, listVars, urbVars, vrxVars, vtxVars, userVars, hubVars
<1>1. ASSUME NEW u \in Urbs, VhciEnqueue(u) PROVE VhciTypeOK'
  <2>1. PortTypeOK'
    BY <1>1, EventTypes DEF VhciEnqueue, AcceptsUrbs, LinkUrbToEp, TxUrb
  <2>2. ListTypeOK'
    BY <1>1, SMTT(60) DEF VhciEnqueue, AcceptsUrbs, LinkUrbToEp, TxUrb, Priv, Unlink
  <2>3. UrbTypeOK'
    <3>1. PICK h \in [Urbs -> Nat] : hcpriv' = h
      BY <1>1 DEF VhciEnqueue, TxUrb
    <3>2. /\ owed' \in [Urbs -> Int]
          /\ linked' \in [Urbs -> BOOLEAN]
          /\ unlinked' \in [Urbs -> BOOLEAN]
      BY <1>1 DEF VhciEnqueue, LinkUrbToEp
    <3> QED BY <1>1, <3>1, <3>2 DEF VhciEnqueue
  <2>4. NetTypeOK' /\ ThreadTypeOK' /\ FileTypeOK'
    BY <1>1 DEF VhciEnqueue
  <2> QED BY <2>1, <2>2, <2>3, <2>4
<1>2. ASSUME NEW u \in Urbs, VhciEnqueueGetDescriptor(u) PROVE VhciTypeOK'
  <2>1. PortTypeOK'
    BY <1>2, EventTypes DEF VhciEnqueueGetDescriptor, AcceptsUrbs, LinkUrbToEp, TxUrb
  <2>2. ListTypeOK'
    BY <1>2, SMTT(60) DEF VhciEnqueueGetDescriptor, AcceptsUrbs, LinkUrbToEp, TxUrb, Priv, Unlink
  <2>3. UrbTypeOK'
    <3>1. PICK h \in [Urbs -> Nat] : hcpriv' = h
      <4>1. TxUrb(u, TRUE)
        BY <1>2 DEF VhciEnqueueGetDescriptor
      <4> QED BY <4>1 DEF TxUrb
    <3>2. /\ owed' \in [Urbs -> Int]
          /\ linked' \in [Urbs -> BOOLEAN]
          /\ unlinked' \in [Urbs -> BOOLEAN]
      BY <1>2 DEF VhciEnqueueGetDescriptor, LinkUrbToEp
    <3> QED BY <1>2, <3>1, <3>2 DEF VhciEnqueueGetDescriptor
  <2>4. NetTypeOK' /\ ThreadTypeOK' /\ FileTypeOK'
    BY <1>2 DEF VhciEnqueueGetDescriptor
  <2> QED BY <2>1, <2>2, <2>3, <2>4
<1>3. ASSUME NEW u \in Urbs, VhciEnqueueSetAddress(u) PROVE VhciTypeOK'
  <2>1. PortTypeOK'
    BY <1>3, EventTypes DEF VhciEnqueueSetAddress
  <2>2. FileTypeOK'
    BY <1>3 DEF VhciEnqueueSetAddress
  <2>3. NetTypeOK' /\ ListTypeOK' /\ UrbTypeOK' /\ ThreadTypeOK'
    BY <1>3 DEF VhciEnqueueSetAddress
  <2> QED BY <2>1, <2>2, <2>3
<1>4. ASSUME NEW u \in Urbs, VhciDequeueDisconnected(u) PROVE VhciTypeOK'
  <2>1. ListTypeOK'
    BY <1>4 DEF VhciDequeueDisconnected, DequeueCheck, GiveBack, Priv, Unlink
  <2>2. UrbTypeOK'
    BY <1>4, SMTT(60) DEF VhciDequeueDisconnected, DequeueCheck, GiveBack
  <2>3. NetTypeOK' /\ PortTypeOK' /\ ThreadTypeOK' /\ FileTypeOK'
    BY <1>4 DEF VhciDequeueDisconnected
  <2> QED BY <2>1, <2>2, <2>3
<1>5. ASSUME NEW u \in Urbs, VhciDequeueConnected(u) PROVE VhciTypeOK'
  <2>1. PortTypeOK'
    BY <1>5, EventTypes DEF VhciDequeueConnected, DequeueCheck
  <2>2. UrbTypeOK'
    BY <1>5 DEF VhciDequeueConnected, DequeueCheck
  <2>3. NetTypeOK' /\ ListTypeOK' /\ ThreadTypeOK' /\ FileTypeOK'
    BY <1>5 DEF VhciDequeueConnected
  <2> QED BY <2>1, <2>2, <2>3
<1>6. CASE VhciDequeueQueueUnlink
  <2>1. ListTypeOK'
    <3>1. dq.seqnum \in Nat
      OBVIOUS
    <3>2. PICK t \in Nat : unlink_tx' = unlink_tx \cup {[seqnum |-> seqnum + 1, target |-> t]}
      BY <1>6, <3>1 DEF VhciDequeueQueueUnlink
    <3>3. unlink_tx' \in SUBSET Unlink
      BY <3>2 DEF Unlink
    <3> QED BY <1>6, <3>3 DEF VhciDequeueQueueUnlink
  <2>2. UrbTypeOK'
    BY <1>6 DEF VhciDequeueQueueUnlink, NoDequeue
  <2>3. NetTypeOK' /\ PortTypeOK' /\ ThreadTypeOK' /\ FileTypeOK'
    BY <1>6 DEF VhciDequeueQueueUnlink
  <2> QED BY <2>1, <2>2, <2>3
<1>7. CASE VhciTxDequeueSubmit
  <2>1. ListTypeOK'
    BY <1>7 DEF VhciTxDequeueSubmit, IsFirst, CmdSubmit, CmdPdu, Priv, Unlink
  <2>2. ThreadTypeOK'
    BY <1>7 DEF VhciTxDequeueSubmit, IsFirst, CmdSubmit, CmdPdu, Priv
  <2>3. NetTypeOK' /\ PortTypeOK' /\ UrbTypeOK' /\ FileTypeOK'
    BY <1>7 DEF VhciTxDequeueSubmit
  <2> QED BY <2>1, <2>2, <2>3
<1>8. CASE VhciTxNoSubmit
  <2>1. ThreadTypeOK'
    BY <1>8 DEF VhciTxNoSubmit
  <2>2. NetTypeOK' /\ PortTypeOK' /\ ListTypeOK' /\ UrbTypeOK' /\ FileTypeOK'
    BY <1>8 DEF VhciTxNoSubmit
  <2> QED BY <2>1, <2>2
<1>9. CASE VhciTxDequeueUnlink
  <2>1. ListTypeOK'
    BY <1>9, SMTT(60) DEF VhciTxDequeueUnlink, IsFirst, CmdUnlink, CmdPdu, Unlink, Priv
  <2>2. ThreadTypeOK'
    BY <1>9 DEF VhciTxDequeueUnlink, IsFirst, CmdUnlink, CmdPdu, Unlink
  <2>3. NetTypeOK' /\ PortTypeOK' /\ UrbTypeOK' /\ FileTypeOK'
    BY <1>9 DEF VhciTxDequeueUnlink
  <2> QED BY <2>1, <2>2, <2>3
<1>10. CASE VhciTxNoUnlink
  <2>1. ThreadTypeOK'
    BY <1>10 DEF VhciTxNoUnlink
  <2>2. NetTypeOK' /\ PortTypeOK' /\ ListTypeOK' /\ UrbTypeOK' /\ FileTypeOK'
    BY <1>10 DEF VhciTxNoUnlink
  <2> QED BY <2>1, <2>2
<1>11. CASE VhciTxSent
  <2>1. NetTypeOK'
    <3>1. Append(c2s, vpdu) \in Seq(CmdPdu)
      OBVIOUS
    <3>2. c2s' \in Seq(CmdPdu)
      BY <1>11, <3>1 DEF VhciTxSent
    <3> QED BY <1>11, <3>2 DEF VhciTxSent
  <2>2. ThreadTypeOK'
    BY <1>11 DEF VhciTxSent, NoPdu, CmdSubmit, CmdPdu
  <2>3. PortTypeOK' /\ ListTypeOK' /\ UrbTypeOK' /\ FileTypeOK'
    BY <1>11, SMTT(60) DEF VhciTxSent
  <2> QED BY <2>1, <2>2, <2>3
<1>12. CASE VhciTxFailed
  <2>1. PortTypeOK'
    BY <1>12, EventTypes DEF VhciTxFailed, NoPdu, CmdSubmit, CmdPdu
  <2>2. ThreadTypeOK'
    BY <1>12 DEF VhciTxFailed, NoPdu, CmdSubmit, CmdPdu
  <2>3. NetTypeOK' /\ ListTypeOK' /\ UrbTypeOK' /\ FileTypeOK'
    BY <1>12 DEF VhciTxFailed
  <2> QED BY <2>1, <2>2, <2>3
<1>121. CASE VhciTxOops
  <2>1. ThreadTypeOK'
    BY <1>121 DEF VhciTxOops, NoPdu, CmdSubmit, CmdPdu
  <2>2. NetTypeOK' /\ PortTypeOK' /\ ListTypeOK' /\ UrbTypeOK' /\ FileTypeOK'
    BY <1>121 DEF VhciTxOops
  <2> QED BY <2>1, <2>2
<1>13. CASE VhciTxWake
  <2>1. ThreadTypeOK'
    BY <1>13 DEF VhciTxWake
  <2>2. NetTypeOK' /\ PortTypeOK' /\ ListTypeOK' /\ UrbTypeOK' /\ FileTypeOK'
    BY <1>13 DEF VhciTxWake
  <2> QED BY <2>1, <2>2
<1>14. CASE VhciRxHead
  <2>1. ThreadTypeOK'
    BY <1>14 DEF VhciRxHead
  <2>2. NetTypeOK' /\ PortTypeOK' /\ ListTypeOK' /\ UrbTypeOK' /\ FileTypeOK'
    BY <1>14 DEF VhciRxHead
  <2> QED BY <2>1, <2>2
<1>15. CASE VhciRxRetSubmit
  <2>1. NetTypeOK'
    BY <1>15 DEF VhciRxRetSubmit, PickUp, CanRecv, Priv
  <2>2. PortTypeOK'
    BY <1>15, EventTypes DEF VhciRxRetSubmit, PickUp, CanRecv, Priv
  <2>3. ListTypeOK'
    BY <1>15 DEF VhciRxRetSubmit, PickUp, CanRecv, Priv, Unlink
  <2>4. UrbTypeOK'
    <3>1. PICK h \in [Urbs -> Nat] : hcpriv' = h
      BY <1>15 DEF VhciRxRetSubmit, PickUp, Priv
    <3> QED BY <1>15, <3>1 DEF VhciRxRetSubmit
  <2>5. ThreadTypeOK'
    BY <1>15 DEF VhciRxRetSubmit, PickUp, CanRecv, Priv
  <2>6. FileTypeOK'
    BY <1>15 DEF VhciRxRetSubmit
  <2> QED BY <2>1, <2>2, <2>3, <2>4, <2>5, <2>6
<1>16. CASE VhciRxRetUnlink
  <2>1. NetTypeOK'
    BY <1>16 DEF VhciRxRetUnlink, PickUp, CanRecv, Priv
  <2>2. ListTypeOK'
    BY <1>16 DEF VhciRxRetUnlink, PickUp, CanRecv, Priv, Unlink
  <2>3. UrbTypeOK'
    <3>1. PICK h \in [Urbs -> Nat] : hcpriv' = h
      BY <1>16 DEF VhciRxRetUnlink, PickUp, Priv
    <3> QED BY <1>16, <3>1 DEF VhciRxRetUnlink
  <2>4. ThreadTypeOK'
    BY <1>16 DEF VhciRxRetUnlink, PickUp, CanRecv, Priv
  <2>5. PortTypeOK' /\ FileTypeOK'
    BY <1>16 DEF VhciRxRetUnlink
  <2> QED BY <2>1, <2>2, <2>3, <2>4, <2>5
<1>17. CASE VhciRxGiveBack
  <2>1. UrbTypeOK'
    <3>1. owed' \in [Urbs -> Int]
      <4>1. owed' = [owed EXCEPT ![vrx_urb] = owed[vrx_urb] - 1]
        BY <1>17 DEF VhciRxGiveBack, GiveBack
      <4>2. CASE vrx_urb \in Urbs
        BY <4>1, <4>2
      <4>3. CASE vrx_urb \notin Urbs
        BY <4>1, <4>3
      <4> QED BY <4>2, <4>3
    <3>2. linked' \in [Urbs -> BOOLEAN]
      BY <1>17 DEF VhciRxGiveBack, GiveBack
    <3> QED BY <1>17, <3>1, <3>2 DEF VhciRxGiveBack
  <2>2. ThreadTypeOK'
    BY <1>17 DEF VhciRxGiveBack, GiveBack
  <2>3. NetTypeOK' /\ PortTypeOK' /\ ListTypeOK' /\ FileTypeOK'
    BY <1>17 DEF VhciRxGiveBack
  <2> QED BY <2>1, <2>2, <2>3
<1>18. CASE VhciRxFailed
  <2>1. PortTypeOK'
    BY <1>18, EventTypes DEF VhciRxFailed
  <2>2. ThreadTypeOK'
    BY <1>18 DEF VhciRxFailed
  <2>3. NetTypeOK' /\ ListTypeOK' /\ UrbTypeOK' /\ FileTypeOK'
    BY <1>18 DEF VhciRxFailed
  <2> QED BY <2>1, <2>2, <2>3
<1>181. CASE VhciRxTimeout
  <2>1. PortTypeOK'
    BY <1>181, EventTypes DEF VhciRxTimeout
  <2>2. ThreadTypeOK'
    BY <1>181 DEF VhciRxTimeout
  <2>3. NetTypeOK' /\ ListTypeOK' /\ UrbTypeOK' /\ FileTypeOK'
    BY <1>181 DEF VhciRxTimeout
  <2> QED BY <2>1, <2>2, <2>3
<1>19. CASE VhciEhPop
  <2>1. PortTypeOK'
    BY <1>19, EventTypes DEF VhciEhPop, EhFrame, EhRest
  <2>2. ThreadTypeOK'
    BY <1>19 DEF VhciEhPop, EhFrame, EhRest
  <2>3. NetTypeOK' /\ ListTypeOK' /\ UrbTypeOK' /\ FileTypeOK'
    BY <1>19 DEF VhciEhPop, EhFrame, EhRest
  <2> QED BY <2>1, <2>2, <2>3
<1>20. CASE VhciEhUnlinkSocket
  <2>1. NetTypeOK'
    BY <1>20 DEF VhciEhUnlinkSocket, EhFrame, EhRest, ShutdownConnection
  <2>2. ThreadTypeOK'
    BY <1>20 DEF VhciEhUnlinkSocket, EhFrame, EhRest, ShutdownConnection
  <2>3. PortTypeOK' /\ ListTypeOK' /\ UrbTypeOK' /\ FileTypeOK'
    BY <1>20 DEF VhciEhUnlinkSocket, EhFrame, EhRest
  <2> QED BY <2>1, <2>2, <2>3
<1>21. CASE VhciEhStopRx
  <2>1. ThreadTypeOK'
    BY <1>21 DEF VhciEhStopRx, EhRest
  <2>2. FileTypeOK'
    BY <1>21 DEF VhciEhStopRx
  <2>3. NetTypeOK' /\ PortTypeOK' /\ ListTypeOK' /\ UrbTypeOK'
    BY <1>21 DEF VhciEhStopRx, EhRest
  <2> QED BY <2>1, <2>2, <2>3
<1>22. CASE VhciEhStopTx
  <2>1. PortTypeOK'
    BY <1>22, EventTypes DEF VhciEhStopTx, EhRest
  <2>2. ThreadTypeOK'
    BY <1>22 DEF VhciEhStopTx, EhRest
  <2>3. FileTypeOK'
    BY <1>22 DEF VhciEhStopTx
  <2>4. NetTypeOK' /\ ListTypeOK' /\ UrbTypeOK'
    BY <1>22 DEF VhciEhStopTx, EhRest
  <2> QED BY <2>1, <2>2, <2>3, <2>4
<1>23. CASE VhciEhCleanupTx
  <2>1. ListTypeOK'
    BY <1>23 DEF VhciEhCleanupTx, EhFrame, EhRest, Priv, Unlink
  <2>2. ThreadTypeOK'
    BY <1>23 DEF VhciEhCleanupTx, EhFrame, EhRest
  <2>3. NetTypeOK' /\ PortTypeOK' /\ UrbTypeOK' /\ FileTypeOK'
    BY <1>23 DEF VhciEhCleanupTx, EhFrame, EhRest
  <2> QED BY <2>1, <2>2, <2>3
<1>24. CASE VhciEhCleanupRx
  <2>1. ListTypeOK'
    BY <1>24 DEF VhciEhCleanupRx, IsFirst, PickUp, GiveBack, Priv, Unlink
  <2>2. UrbTypeOK'
    <3>1. CASE \E p \in priv_rx : PickUp(p) /\ GiveBack(p.urb)
      <4>1. PICK p \in priv_rx : PickUp(p) /\ GiveBack(p.urb)
        BY <3>1
      <4>2. p.urb \in Urbs
        BY DEF Priv
      <4>3. owed' \in [Urbs -> Int] /\ linked' \in [Urbs -> BOOLEAN]
        BY <4>1, <4>2 DEF GiveBack
      <4>4. hcpriv' \in [Urbs -> Nat]
        BY <4>1, <4>2 DEF PickUp
      <4> QED BY <1>24, <4>3, <4>4 DEF VhciEhCleanupRx
    <3>2. CASE UNCHANGED <<hcpriv, owed, linked>>
      BY <1>24, <3>2 DEF VhciEhCleanupRx
    <3> QED BY <1>24, <3>1, <3>2 DEF VhciEhCleanupRx
  <2>3. NetTypeOK' /\ PortTypeOK' /\ ThreadTypeOK' /\ FileTypeOK'
    BY <1>24 DEF VhciEhCleanupRx
  <2> QED BY <2>1, <2>2, <2>3
<1>25. CASE VhciEhPortOff
  <2>1. PortTypeOK'
    BY <1>25, EventTypes DEF VhciEhPortOff, EhFrame, EhRest, Bits
  <2>2. ThreadTypeOK'
    BY <1>25 DEF VhciEhPortOff, EhFrame, EhRest
  <2>3. FileTypeOK'
    BY <1>25 DEF VhciEhPortOff, EhFrame, EhRest
  <2>4. NetTypeOK' /\ ListTypeOK' /\ UrbTypeOK'
    BY <1>25 DEF VhciEhPortOff, EhFrame, EhRest
  <2> QED BY <2>1, <2>2, <2>3, <2>4
<1>26. CASE VhciEhReset
  <2>1. PortTypeOK'
    <3>1. vstatus' \in {"NULL", "NOTASSIGNED", "USED", "ERROR"}
      BY <1>26 DEF VhciEhReset
    <3>2. vsock' \in Nat
      BY <1>26 DEF VhciEhReset
    <3>3. udev' \in BOOLEAN
      BY <1>26 DEF VhciEhReset
    <3> QED BY <1>26, <3>1, <3>2, <3>3 DEF VhciEhReset, EhFrame, EhRest
  <2>2. ThreadTypeOK'
    BY <1>26 DEF VhciEhReset, EhFrame, EhRest
  <2>3. NetTypeOK' /\ ListTypeOK' /\ UrbTypeOK' /\ FileTypeOK'
    BY <1>26 DEF VhciEhReset, EhFrame, EhRest
  <2> QED BY <2>1, <2>2, <2>3
<1>27. CASE VhciEhUnsetReset
  <2>1. PortTypeOK'
    BY <1>27, EventTypes DEF VhciEhUnsetReset, EhFrame, EhRest, Bits
  <2>2. ThreadTypeOK'
    BY <1>27 DEF VhciEhUnsetReset, EhFrame, EhRest
  <2>3. NetTypeOK' /\ ListTypeOK' /\ UrbTypeOK' /\ FileTypeOK'
    BY <1>27 DEF VhciEhUnsetReset, EhFrame, EhRest
  <2> QED BY <2>1, <2>2, <2>3
<1>28. CASE VhciEhUnusable
  <2>1. PortTypeOK'
    BY <1>28, EventTypes DEF VhciEhUnusable, EhFrame, EhRest, Bits
  <2>2. ThreadTypeOK'
    BY <1>28 DEF VhciEhUnusable, EhFrame, EhRest
  <2>3. NetTypeOK' /\ ListTypeOK' /\ UrbTypeOK' /\ FileTypeOK'
    BY <1>28 DEF VhciEhUnusable, EhFrame, EhRest
  <2> QED BY <2>1, <2>2, <2>3
<1>29. CASE VhciAttach
  <2>1. PortTypeOK'
    BY <1>29, EventTypes DEF VhciAttach
  <2>2. FileTypeOK'
    BY <1>29 DEF VhciAttach
  <2>3. NetTypeOK' /\ ListTypeOK' /\ UrbTypeOK' /\ ThreadTypeOK'
    BY <1>29 DEF VhciAttach
  <2> QED BY <2>1, <2>2, <2>3
<1>30. CASE VhciAttachStartRx \/ VhciAttachStartTx \/ VhciAttachSetTx
  <2>1. ThreadTypeOK'
    BY <1>30 DEF VhciAttachStartRx, VhciAttachStartTx, VhciAttachSetTx
  <2>2. FileTypeOK'
    BY <1>30 DEF VhciAttachStartRx, VhciAttachStartTx, VhciAttachSetTx
  <2>3. NetTypeOK' /\ PortTypeOK' /\ ListTypeOK' /\ UrbTypeOK'
    BY <1>30, ZenonT(60) DEF VhciAttachStartRx, VhciAttachStartTx, VhciAttachSetTx
  <2> QED BY <2>1, <2>2, <2>3
<1>31. CASE VhciAttachConnect
  <2>1. FileTypeOK'
    BY <1>31 DEF VhciAttachConnect
  <2>2. NetTypeOK' /\ PortTypeOK' /\ ListTypeOK' /\ UrbTypeOK' /\ ThreadTypeOK'
    BY <1>31 DEF VhciAttachConnect
  <2> QED BY <2>1, <2>2
<1>32. CASE VhciDetachCheck
  <2>1. FileTypeOK'
    BY <1>32 DEF VhciDetachCheck
  <2>2. NetTypeOK' /\ PortTypeOK' /\ ListTypeOK' /\ UrbTypeOK' /\ ThreadTypeOK'
    BY <1>32 DEF VhciDetachCheck
  <2> QED BY <2>1, <2>2
<1>33. CASE VhciDetachEvent
  <2>1. PortTypeOK'
    BY <1>33, EventTypes DEF VhciDetachEvent
  <2>2. FileTypeOK'
    BY <1>33 DEF VhciDetachEvent
  <2>3. NetTypeOK' /\ ListTypeOK'
    BY <1>33 DEF VhciDetachEvent
  <2>4. UrbTypeOK' /\ ThreadTypeOK'
    BY <1>33, SMTT(60) DEF VhciDetachEvent
  <2> QED BY <2>1, <2>2, <2>3, <2>4
<1>34. CASE HubConnectChange
  <2>1. FileTypeOK'
    BY <1>34 DEF HubConnectChange, HubFrame
  <2>2. NetTypeOK' /\ PortTypeOK' /\ ThreadTypeOK'
    BY <1>34 DEF HubConnectChange, HubFrame
  <2>3. ListTypeOK' /\ UrbTypeOK'
    BY <1>34 DEF HubConnectChange, HubFrame
  <2> QED BY <2>1, <2>2, <2>3
<1>35. CASE HubDisconnected
  <2>1. FileTypeOK'
    BY <1>35 DEF HubDisconnected, HubFrame
  <2>2. NetTypeOK' /\ PortTypeOK' /\ ThreadTypeOK'
    BY <1>35 DEF HubDisconnected, HubFrame
  <2>3. ListTypeOK' /\ UrbTypeOK'
    BY <1>35 DEF HubDisconnected, HubFrame
  <2> QED BY <2>1, <2>2, <2>3
<1>36. CASE Peer
  BY <1>36, SMTT(60) DEF Peer, vhciVars
<1>37. CASE UNCHANGED clientVars
  BY <1>37 DEF clientVars, vhciVars
<1> HIDE DEF VhciTypeOK
<1> QED
  BY <1>1, <1>2, <1>3, <1>4, <1>5, <1>6, <1>7, <1>8, <1>9, <1>10, <1>11, <1>12,
     <1>121, <1>13, <1>14, <1>15, <1>16, <1>17, <1>18, <1>181, <1>19, <1>20, <1>21, <1>22, <1>23, <1>24,
     <1>25, <1>26, <1>27, <1>28, <1>29, <1>30, <1>31, <1>32, <1>33, <1>34, <1>35, <1>36,
     <1>37
  DEF VhciNext, VhciTx, VhciRx, VhciEh, VhciCore, VhciUser, VhciAttachGoesOn

\* The inductive invariant.
Safe == GivenBackOnce /\ PrivMatchesUrb /\ RequestNumbersUnique
Inv  == VhciTypeOK /\ Safe

\* The port after vhci_device_init, without a connection, satisfies the invariant.
LEMMA InitInv == NetInit /\ VhciInit => Inv
<1> SUFFICES ASSUME NetInit, VhciInit PROVE Inv
  OBVIOUS
<1>1. VhciTypeOK
  <2>1. NetTypeOK
    BY DEF NetInit, NetTypeOK
  <2>2. PortTypeOK
    BY DEF VhciInit, PortTypeOK, EventWord, NoEvent, Bits
  <2>3. ListTypeOK /\ UrbTypeOK
    BY DEF VhciInit, ListTypeOK, UrbTypeOK, NoDequeue
  <2>4. ThreadTypeOK
    BY DEF VhciInit, ThreadTypeOK, NoPdu, CmdSubmit, CmdPdu
  <2>5. FileTypeOK
    BY DEF VhciInit, FileTypeOK
  <2> QED BY <2>1, <2>2, <2>3, <2>4, <2>5 DEF VhciTypeOK
<1>2. Safe
  BY DEF VhciInit, Safe, GivenBackOnce, PrivMatchesUrb, RequestNumbersUnique, Privs, Unlinks
<1> QED BY <1>1, <1>2 DEF Inv

\* What the invariant says of the entries of priv_tx and priv_rx: each belongs to
\* a linked URB whose hcpriv it is, and no URB has two.
LEMMA PrivFacts ==
    ASSUME Inv
    PROVE  /\ \A p \in Privs : p.urb \in Urbs /\ p.seqnum \in Nat /\ p.seqnum > 0
           /\ \A p \in Privs : hcpriv[p.urb] = p.seqnum /\ linked[p.urb]
           /\ \A p, q \in Privs : p.urb = q.urb => p = q
<1>1. \A p \in Privs : p.urb \in Urbs /\ p.seqnum \in Nat
  BY DEF Inv, VhciTypeOK, ListTypeOK, Privs, Priv
<1>2. \A p \in Privs : p.seqnum > 0
  BY <1>1 DEF Inv, Safe, RequestNumbersUnique, VhciTypeOK, ListTypeOK
<1>3. \A p \in Privs : hcpriv[p.urb] = p.seqnum /\ linked[p.urb]
  BY DEF Inv, Safe, PrivMatchesUrb
<1>4. \A p, q \in Privs : p.urb = q.urb => p = q
  BY <1>3 DEF Inv, Safe, RequestNumbersUnique
<1> QED BY <1>1, <1>2, <1>3, <1>4

\* A step that changes no list and no URB, and gives vhci_rx no URB to give back,
\* keeps the properties: the event worker up to the cleanup, the attach and
\* detach files, the hub driver, the peer.
LEMMA FrameStep ==
    ASSUME Inv,
           UNCHANGED <<seqnum, priv_tx, priv_rx, unlink_tx, unlink_rx, owed, linked, hcpriv>>,
           vrx' # "giveback" \/ UNCHANGED <<vrx, vrx_urb>>
    PROVE  Safe'
<1>1. GivenBackOnce'
  BY DEF Inv, Safe, GivenBackOnce
<1>2. PrivMatchesUrb'
  BY DEF Inv, Safe, PrivMatchesUrb, Privs
<1>3. RequestNumbersUnique'
  BY DEF Inv, Safe, RequestNumbersUnique, Privs, Unlinks
<1> QED BY <1>1, <1>2, <1>3 DEF Safe

\* vhci_urb_enqueue keeps the properties when a URB is accepted
\* (usb_hcd_link_urb_to_ep, then vhci_tx_urb), also when vhci_tx_urb returns
\* early without a vhci_priv.
LEMMA SubmitStep ==
    ASSUME Inv, NEW u \in Urbs, NEW on \in BOOLEAN,
           LinkUrbToEp(u), TxUrb(u, on), UNCHANGED vrxVars
    PROVE  Safe'
<1> USE DEF Inv, Safe, VhciTypeOK, UrbTypeOK, ListTypeOK
<1>1. ~linked[u]
  BY DEF GivenBackOnce, LinkUrbToEp
<1>2. \A p \in Privs : p.urb # u
  BY <1>1, PrivFacts
<1>3. GivenBackOnce'
  BY DEF GivenBackOnce, LinkUrbToEp
<1>4. \A v \in Urbs : linked[v] => linked'[v]
  BY DEF LinkUrbToEp
<1>5. vrx' = "giveback" => vrx_urb' \in Urbs /\ linked'[vrx_urb'] /\ vrx_urb' # u
  BY <1>1, <1>4 DEF PrivMatchesUrb, vrxVars
<1>6. CASE UNCHANGED <<seqnum, hcpriv, listVars>>
  <2>1. PrivMatchesUrb'
    BY <1>4, <1>5, <1>6, PrivFacts DEF PrivMatchesUrb, Privs, listVars, vrxVars
  <2>2. RequestNumbersUnique'
    BY <1>6 DEF RequestNumbersUnique, Privs, Unlinks, listVars
  <2> QED BY <1>3, <2>1, <2>2
<1>7. CASE /\ seqnum' = seqnum + 1
           /\ hcpriv' = [hcpriv EXCEPT ![u] = seqnum + 1]
           /\ priv_tx' = priv_tx \cup {[seqnum |-> seqnum + 1, urb |-> u]}
           /\ UNCHANGED <<vev, priv_rx, unlink_tx, unlink_rx>>
  <2> DEFINE new == [seqnum |-> seqnum + 1, urb |-> u]
  <2>1. Privs' = Privs \cup {new} /\ Unlinks' = Unlinks
    BY <1>7 DEF Privs, Unlinks
  <2>2. \A p \in Privs : p.seqnum # seqnum + 1
    BY DEF RequestNumbersUnique
  <2>3. priv_tx' \cap priv_rx' = {}
    BY <1>7, <2>2 DEF PrivMatchesUrb, Privs
  <2>4. \A p \in Privs' : hcpriv'[p.urb] = p.seqnum /\ linked'[p.urb]
    BY <1>2, <1>4, <1>7, <2>1, PrivFacts DEF LinkUrbToEp
  <2>5. \A v \in Urbs : hcpriv'[v] # 0 =>
           \E p \in Privs' : p.urb = v /\ p.seqnum = hcpriv'[v]
    <3> SUFFICES ASSUME NEW v \in Urbs, hcpriv'[v] # 0
                 PROVE  \E p \in Privs' : p.urb = v /\ p.seqnum = hcpriv'[v]
      OBVIOUS
    <3>1. CASE v = u
      <4>1. hcpriv'[v] = seqnum + 1
        BY <1>7, <3>1
      <4>2. new \in Privs' /\ new.urb = u /\ new.seqnum = seqnum + 1
        BY <2>1
      <4> QED BY <3>1, <4>1, <4>2
    <3>2. CASE v # u
      <4>1. hcpriv'[v] = hcpriv[v]
        BY <1>7, <3>2
      <4> QED BY <2>1, <4>1 DEF PrivMatchesUrb
    <3> QED BY <3>1, <3>2
  <2>6. PrivMatchesUrb'
    BY <1>5, <1>7, <2>3, <2>4, <2>5 DEF PrivMatchesUrb, vrxVars
  <2>7. RequestNumbersUnique'
    <3>1. \A k \in Unlinks : k.seqnum \in 1 .. seqnum
      BY DEF RequestNumbersUnique
    <3>2. \A p \in Privs : p.seqnum \in 1 .. seqnum
      BY DEF RequestNumbersUnique
    <3>3. new.seqnum = seqnum + 1
      OBVIOUS
    <3> HIDE DEF new
    <3>4. \A r \in (Privs \cup Unlinks)' : r.seqnum \in 1 .. seqnum'
      BY <1>7, <2>1, <3>1, <3>2, <3>3
    <3>5. \A p, q \in Privs' : p.seqnum = q.seqnum => p = q
      BY <2>1, <2>2, <3>3 DEF RequestNumbersUnique
    <3>6. \A p \in Privs', k \in Unlinks' : p.seqnum # k.seqnum
      BY <2>1, <3>1, <3>3 DEF RequestNumbersUnique
    <3> QED BY <2>1, <3>4, <3>5, <3>6 DEF RequestNumbersUnique
  <2> QED BY <1>3, <2>6, <2>7
<1> QED BY <1>6, <1>7 DEF TxUrb

\* pickup_urb_and_free_priv keeps the properties, whether the URB goes on to the
\* giveback of vhci_rx or, after a payload cut short, nowhere.
LEMMA PickUpStep ==
    ASSUME Inv, NEW p \in priv_rx, PickUp(p),
           UNCHANGED <<seqnum, priv_tx, owed, linked>>,
           Unlinks' \subseteq Unlinks,
           vrx' = "giveback" => vrx_urb' = p.urb
    PROVE  Safe'
<1> USE DEF Inv, Safe, VhciTypeOK, UrbTypeOK, ListTypeOK
<1>1. p \in Privs /\ p.urb \in Urbs
  BY DEF Privs, Priv
<1>2. Privs' = Privs \ {p}
  BY DEF PickUp, Privs, PrivMatchesUrb
<1>3. \A q \in Privs' : q.urb \in Urbs /\ q.urb # p.urb
  BY <1>1, <1>2, PrivFacts
<1>4. \A v \in Urbs : v # p.urb => hcpriv'[v] = hcpriv[v]
  BY DEF PickUp
<1>5. hcpriv'[p.urb] = 0
  BY <1>1 DEF PickUp
<1>6. GivenBackOnce'
  BY DEF GivenBackOnce
<1>7. PrivMatchesUrb'
  <2>1. priv_tx' \cap priv_rx' = {}
    BY DEF PickUp, PrivMatchesUrb
  <2>2. \A q \in Privs' : hcpriv'[q.urb] = q.seqnum /\ linked'[q.urb]
    BY <1>2, <1>3, <1>4, PrivFacts
  <2>3. \A v \in Urbs : hcpriv'[v] # 0 =>
           \E q \in Privs' : q.urb = v /\ q.seqnum = hcpriv'[v]
    BY <1>2, <1>4, <1>5 DEF PrivMatchesUrb
  <2>4. vrx' = "giveback" => vrx_urb' \in Urbs /\ linked'[vrx_urb'] /\ hcpriv'[vrx_urb'] = 0
    BY <1>1, <1>5, PrivFacts
  <2> QED BY <2>1, <2>2, <2>3, <2>4 DEF PrivMatchesUrb
<1>8. RequestNumbersUnique'
  BY <1>2 DEF RequestNumbersUnique
<1> QED BY <1>6, <1>7, <1>8

\* Requests that only leave the lists, or move between the two lists of their
\* kind (dequeue_from_priv_tx, dequeue_from_unlink_tx), keep their numbers unique.
LEMMA ShrinkStep ==
    ASSUME Inv, UNCHANGED seqnum, Privs' \subseteq Privs, Unlinks' \subseteq Unlinks
    PROVE  RequestNumbersUnique'
BY DEF Inv, Safe, RequestNumbersUnique

\* Every step keeps the three properties: the actions that change a list or a URB
\* one by one, the others by FrameStep.
LEMMA SafeStep == Inv /\ [VhciNext \/ Peer]_clientVars => Safe'
<1> SUFFICES ASSUME Inv, [VhciNext \/ Peer]_clientVars PROVE Safe'
  OBVIOUS
<1> USE DEF netVars, portVars, listVars, urbVars, vrxVars, vtxVars, userVars, hubVars
<1>1. ASSUME NEW u \in Urbs, VhciEnqueue(u) PROVE Safe'
  <2>1. udev \in BOOLEAN
    BY DEF Inv, VhciTypeOK, PortTypeOK
  <2> QED BY <1>1, <2>1, SubmitStep DEF VhciEnqueue
<1>2. ASSUME NEW u \in Urbs, VhciEnqueueGetDescriptor(u) PROVE Safe'
  BY <1>2, SubmitStep DEF VhciEnqueueGetDescriptor
<1>3. ASSUME NEW u \in Urbs, VhciDequeueDisconnected(u) PROVE Safe'
  <2> USE DEF VhciTypeOK, UrbTypeOK, ListTypeOK
  <2>1. PICK p \in Privs : p.urb = u /\ p.seqnum = hcpriv[u]
    BY <1>3 DEF VhciDequeueDisconnected, DequeueCheck, Inv, Safe, PrivMatchesUrb
  <2>2. Privs' = Privs \ {p}
    BY <1>3, <2>1 DEF VhciDequeueDisconnected, Inv, Safe, RequestNumbersUnique, Privs
  <2>3. \A q \in Privs' : q.urb \in Urbs /\ q.urb # u
    BY <2>1, <2>2, PrivFacts
  <2>4. /\ linked[u] /\ linked' = [linked EXCEPT ![u] = FALSE]
        /\ owed' = [owed EXCEPT ![u] = owed[u] - 1]
        /\ hcpriv' = [hcpriv EXCEPT ![u] = 0] /\ hcpriv[u] # 0
        /\ UNCHANGED <<seqnum, unlink_tx, unlink_rx, vrx, vrx_urb>>
    BY <1>3 DEF VhciDequeueDisconnected, DequeueCheck, GiveBack
  <2>5. GivenBackOnce'
    BY <2>4 DEF GivenBackOnce, Inv, Safe
  <2>6. PrivMatchesUrb'
    <3>1. priv_tx' \cap priv_rx' = {}
      BY <1>3 DEF VhciDequeueDisconnected, Inv, Safe, PrivMatchesUrb
    <3>2. \A q \in Privs' : hcpriv'[q.urb] = q.seqnum /\ linked'[q.urb]
      BY <2>2, <2>3, <2>4, PrivFacts DEF Inv
    <3>3. \A v \in Urbs : hcpriv'[v] # 0 =>
             \E q \in Privs' : q.urb = v /\ q.seqnum = hcpriv'[v]
      BY <2>1, <2>2, <2>4 DEF Inv, Safe, PrivMatchesUrb
    <3>4. vrx' = "giveback" =>
             vrx_urb' \in Urbs /\ linked'[vrx_urb'] /\ hcpriv'[vrx_urb'] = 0
      BY <2>4 DEF Inv, Safe, PrivMatchesUrb
    <3> QED BY <3>1, <3>2, <3>3, <3>4 DEF PrivMatchesUrb
  <2>7. RequestNumbersUnique'
    BY <2>2, <2>4, ShrinkStep DEF Unlinks
  <2> QED BY <2>5, <2>6, <2>7 DEF Safe
<1>4. CASE VhciDequeueQueueUnlink
  <2> USE DEF VhciTypeOK, ListTypeOK
  <2>1. PICK t : unlink_tx' = unlink_tx \cup {[seqnum |-> seqnum + 1, target |-> t]}
    BY <1>4 DEF VhciDequeueQueueUnlink
  <2> DEFINE new == [seqnum |-> seqnum + 1, target |-> t]
  <2>2. /\ Privs' = Privs /\ Unlinks' = Unlinks \cup {new} /\ seqnum' = seqnum + 1
        /\ UNCHANGED <<priv_tx, priv_rx, owed, linked, hcpriv, vrx, vrx_urb>>
    BY <1>4, <2>1 DEF VhciDequeueQueueUnlink, Privs, Unlinks
  <2>3. GivenBackOnce' /\ PrivMatchesUrb'
    BY <2>2 DEF Inv, Safe, GivenBackOnce, PrivMatchesUrb
  <2>4. RequestNumbersUnique'
    <3>1. \A r \in Privs \cup Unlinks : r.seqnum \in 1 .. seqnum
      BY DEF Inv, Safe, RequestNumbersUnique
    <3>2. new.seqnum = seqnum + 1 /\ seqnum \in Nat
      BY DEF Inv
    <3> HIDE DEF new
    <3>3. \A r \in (Privs \cup Unlinks)' : r.seqnum \in 1 .. seqnum'
      BY <2>2, <3>1, <3>2
    <3>4. \A k, l \in Unlinks' : k.seqnum = l.seqnum => k = l
      BY <2>2, <3>1, <3>2 DEF Inv, Safe, RequestNumbersUnique
    <3>5. \A p \in Privs', k \in Unlinks' : p.seqnum # k.seqnum
      BY <2>2, <3>1, <3>2 DEF Inv, Safe, RequestNumbersUnique
    <3> QED BY <2>2, <3>3, <3>4, <3>5 DEF Inv, Safe, RequestNumbersUnique
  <2> QED BY <2>3, <2>4 DEF Safe
<1>5. CASE VhciTxDequeueSubmit
  <2>1. /\ Privs' = Privs /\ priv_tx' \cap priv_rx' = {}
        /\ UNCHANGED <<seqnum, unlink_tx, unlink_rx, owed, linked, hcpriv, vrx, vrx_urb>>
    BY <1>5 DEF VhciTxDequeueSubmit, IsFirst, Privs, Inv, Safe, PrivMatchesUrb
  <2>2. GivenBackOnce' /\ PrivMatchesUrb'
    BY <2>1 DEF Inv, Safe, GivenBackOnce, PrivMatchesUrb
  <2> QED BY <2>1, <2>2, ShrinkStep DEF Safe, Unlinks
<1>6. CASE VhciTxDequeueUnlink
  <2>1. /\ Unlinks' = Unlinks
        /\ UNCHANGED <<seqnum, priv_tx, priv_rx, owed, linked, hcpriv, vrx, vrx_urb>>
    BY <1>6 DEF VhciTxDequeueUnlink, IsFirst, Unlinks
  <2>2. GivenBackOnce' /\ PrivMatchesUrb'
    BY <2>1 DEF Inv, Safe, GivenBackOnce, PrivMatchesUrb, Privs
  <2> QED BY <2>1, <2>2, ShrinkStep DEF Safe, Privs
<1>7. CASE VhciRxRetSubmit
  <2>1. UNCHANGED <<seqnum, priv_tx, unlink_tx, unlink_rx, owed, linked>>
    BY <1>7 DEF VhciRxRetSubmit
  <2>2. CASE UNCHANGED <<priv_rx, hcpriv>> /\ vrx' = "head"
    BY <2>1, <2>2, FrameStep
  <2>3. CASE \E p \in priv_rx : PickUp(p) /\ (vrx' = "giveback" => vrx_urb' = p.urb)
    BY <2>1, <2>3, PickUpStep DEF Unlinks
  <2> QED BY <1>7, <2>2, <2>3 DEF VhciRxRetSubmit
<1>8. CASE VhciRxRetUnlink
  <2>1. UNCHANGED <<seqnum, priv_tx, unlink_tx, owed, linked>> /\ unlink_rx' \subseteq unlink_rx
    BY <1>8 DEF VhciRxRetUnlink
  <2>2. CASE UNCHANGED <<priv_rx, hcpriv>> /\ vrx' = "head"
    <3>1. GivenBackOnce' /\ PrivMatchesUrb'
      BY <2>1, <2>2 DEF Inv, Safe, GivenBackOnce, PrivMatchesUrb, Privs
    <3> QED BY <2>1, <2>2, <3>1, ShrinkStep DEF Safe, Privs, Unlinks
  <2>3. CASE \E p \in priv_rx : PickUp(p) /\ vrx_urb' = p.urb
    BY <2>1, <2>3, PickUpStep DEF Unlinks
  <2> QED BY <1>8, <2>2, <2>3 DEF VhciRxRetUnlink
<1>9. CASE VhciRxGiveBack
  <2> USE DEF VhciTypeOK, UrbTypeOK
  <2>1. /\ vrx_urb \in Urbs /\ linked[vrx_urb] /\ hcpriv[vrx_urb] = 0
        /\ owed' = [owed EXCEPT ![vrx_urb] = owed[vrx_urb] - 1]
        /\ linked' = [linked EXCEPT ![vrx_urb] = FALSE]
        /\ UNCHANGED <<seqnum, priv_tx, priv_rx, unlink_tx, unlink_rx, hcpriv>>
        /\ vrx' = "head"
    BY <1>9 DEF VhciRxGiveBack, GiveBack, Inv, Safe, PrivMatchesUrb
  <2>2. GivenBackOnce'
    BY <2>1 DEF Inv, Safe, GivenBackOnce
  <2>3. \A p \in Privs : p.urb \in Urbs /\ p.urb # vrx_urb
    BY <2>1, PrivFacts
  <2>4. PrivMatchesUrb'
    BY <2>1, <2>3 DEF Inv, Safe, PrivMatchesUrb, Privs
  <2> QED BY <2>1, <2>2, <2>4, ShrinkStep DEF Safe, Privs, Unlinks
<1>10. CASE VhciEhCleanupTx
  <2>1. /\ UNCHANGED <<seqnum, priv_tx, priv_rx, owed, linked, hcpriv, vrx, vrx_urb>>
        /\ Unlinks' \subseteq Unlinks
    BY <1>10 DEF VhciEhCleanupTx, EhFrame, EhRest, Unlinks
  <2>2. GivenBackOnce' /\ PrivMatchesUrb'
    BY <2>1 DEF Inv, Safe, GivenBackOnce, PrivMatchesUrb, Privs
  <2> QED BY <2>1, <2>2, ShrinkStep DEF Safe, Privs
<1>11. CASE VhciEhCleanupRx
  <2>1. UNCHANGED <<seqnum, priv_tx, unlink_tx, vrx, vrx_urb>> /\ Unlinks' \subseteq Unlinks
    BY <1>11 DEF VhciEhCleanupRx, Unlinks
  <2>2. CASE UNCHANGED <<priv_rx, hcpriv, owed, linked>>
    <3>1. GivenBackOnce' /\ PrivMatchesUrb'
      BY <2>1, <2>2 DEF Inv, Safe, GivenBackOnce, PrivMatchesUrb, Privs
    <3> QED BY <2>1, <2>2, <3>1, ShrinkStep DEF Safe, Privs
  <2>3. CASE \E p \in priv_rx : PickUp(p) /\ GiveBack(p.urb)
    <3> USE DEF VhciTypeOK, UrbTypeOK, ListTypeOK
    <3>1. PICK p \in priv_rx : PickUp(p) /\ GiveBack(p.urb)
      BY <2>3
    <3>2. p \in Privs /\ p.urb \in Urbs
      BY DEF Inv, Privs, Priv
    <3>3. Privs' = Privs \ {p}
      BY <2>1, <3>1 DEF PickUp, Privs, Inv, Safe, PrivMatchesUrb
    <3>4. \A q \in Privs' : q.urb \in Urbs /\ q.urb # p.urb
      BY <3>2, <3>3, PrivFacts
    <3>5. hcpriv[p.urb] # 0 /\ linked[p.urb]
      BY <3>2, PrivFacts
    <3>6. GivenBackOnce'
      BY <3>1, <3>2, <3>5 DEF GiveBack, Inv, Safe, GivenBackOnce
    <3>7. PrivMatchesUrb'
      <4>1. priv_tx' \cap priv_rx' = {}
        BY <2>1, <3>1 DEF PickUp, Inv, Safe, PrivMatchesUrb
      <4>2. \A q \in Privs' : hcpriv'[q.urb] = q.seqnum /\ linked'[q.urb]
        BY <3>1, <3>3, <3>4, PrivFacts DEF PickUp, GiveBack, Inv
      <4>3. \A v \in Urbs : hcpriv'[v] # 0 =>
               \E q \in Privs' : q.urb = v /\ q.seqnum = hcpriv'[v]
        BY <3>1, <3>2, <3>3 DEF PickUp, Inv, Safe, PrivMatchesUrb
      <4>4. vrx' = "giveback" =>
               vrx_urb' \in Urbs /\ linked'[vrx_urb'] /\ hcpriv'[vrx_urb'] = 0
        BY <2>1, <3>1, <3>5 DEF PickUp, GiveBack, Inv, Safe, PrivMatchesUrb
      <4> QED BY <4>1, <4>2, <4>3, <4>4 DEF PrivMatchesUrb
    <3> QED BY <2>1, <3>3, <3>6, <3>7, ShrinkStep DEF Safe
  <2> QED BY <1>11, <2>2, <2>3 DEF VhciEhCleanupRx
<1>12. ASSUME NEW u \in Urbs, VhciEnqueueSetAddress(u) PROVE Safe'
  BY <1>12, FrameStep DEF VhciEnqueueSetAddress
<1>13. ASSUME NEW u \in Urbs, VhciDequeueConnected(u) PROVE Safe'
  BY <1>13, FrameStep DEF VhciDequeueConnected, DequeueCheck
<1>14. CASE VhciTxNoSubmit
  BY <1>14, FrameStep DEF VhciTxNoSubmit
<1>15. CASE VhciTxNoUnlink
  BY <1>15, FrameStep DEF VhciTxNoUnlink
<1>16. CASE VhciTxSent
  BY <1>16, FrameStep DEF VhciTxSent
<1>17. CASE VhciTxFailed
  BY <1>17, FrameStep DEF VhciTxFailed
<1>171. CASE VhciTxOops
  BY <1>171, FrameStep DEF VhciTxOops
<1>18. CASE VhciTxWake
  BY <1>18, FrameStep DEF VhciTxWake
<1>19. CASE VhciRxHead
  BY <1>19, FrameStep DEF VhciRxHead
<1>20. CASE VhciRxFailed
  BY <1>20, FrameStep DEF VhciRxFailed
<1>201. CASE VhciRxTimeout
  BY <1>201, FrameStep DEF VhciRxTimeout
<1>21. CASE VhciEhPop
  BY <1>21, FrameStep DEF VhciEhPop, EhFrame, EhRest
<1>22. CASE VhciEhUnlinkSocket
  BY <1>22, FrameStep DEF VhciEhUnlinkSocket, EhFrame, EhRest
<1>23. CASE VhciEhStopRx
  BY <1>23, FrameStep DEF VhciEhStopRx, EhRest
<1>24. CASE VhciEhStopTx
  BY <1>24, FrameStep DEF VhciEhStopTx, EhRest
<1>25. CASE VhciEhPortOff
  BY <1>25, FrameStep DEF VhciEhPortOff, EhFrame, EhRest
<1>26. CASE VhciEhReset
  BY <1>26, FrameStep DEF VhciEhReset, EhFrame, EhRest
<1>27. CASE VhciEhUnsetReset
  BY <1>27, FrameStep DEF VhciEhUnsetReset, EhFrame, EhRest
<1>28. CASE VhciEhUnusable
  BY <1>28, FrameStep DEF VhciEhUnusable, EhFrame, EhRest
<1>29. CASE VhciAttach
  BY <1>29, FrameStep DEF VhciAttach
<1>30. CASE VhciAttachStartRx \/ VhciAttachStartTx \/ VhciAttachSetTx
  BY <1>30, FrameStep DEF VhciAttachStartRx, VhciAttachStartTx, VhciAttachSetTx
<1>31. CASE VhciAttachConnect
  BY <1>31, FrameStep DEF VhciAttachConnect
<1>32. CASE VhciDetachCheck
  BY <1>32, FrameStep DEF VhciDetachCheck
<1>33. CASE VhciDetachEvent
  BY <1>33, FrameStep DEF VhciDetachEvent
<1>34. CASE HubConnectChange
  BY <1>34, FrameStep DEF HubConnectChange, HubFrame
<1>35. CASE HubDisconnected
  BY <1>35, FrameStep DEF HubDisconnected, HubFrame
<1>36. CASE Peer
  BY <1>36, FrameStep DEF Peer, vhciVars
<1>37. CASE UNCHANGED clientVars
  BY <1>37, FrameStep DEF clientVars, vhciVars
<1> QED
  BY <1>1, <1>2, <1>3, <1>4, <1>5, <1>6, <1>7, <1>8, <1>9, <1>10, <1>11, <1>12,
     <1>13, <1>14, <1>15, <1>16, <1>17, <1>171, <1>18, <1>19, <1>20, <1>201, <1>21, <1>22, <1>23, <1>24,
     <1>25, <1>26, <1>27, <1>28, <1>29, <1>30, <1>31, <1>32, <1>33, <1>34, <1>35, <1>36,
     <1>37
  DEF VhciNext, VhciTx, VhciRx, VhciEh, VhciCore, VhciUser, VhciAttachGoesOn

\* Inv holds in every state of a vhci port with any peer.
LEMMA Invariance == VhciSpec => []Inv
<1>1. NetInit /\ VhciInit => Inv
  BY InitInv
<1>2. Inv /\ [VhciNext \/ Peer]_clientVars => Inv'
  BY TypeStep, SafeStep DEF Inv
<1> QED BY <1>1, <1>2, PTL DEF VhciSpec

\* Every variable of a vhci port keeps its type, whatever the peer sends.
THEOREM TypeCorrect == VhciSpec => []VhciTypeOK
<1>1. Inv => VhciTypeOK
  BY DEF Inv
<1> QED BY <1>1, Invariance, PTL

\* vhci_rx, vhci_urb_dequeue and vhci_device_unlink_cleanup between them never
\* give the same submission of a URB back twice, for duplicated, reordered or
\* unsolicited results of the peer and for any interleaving with a teardown.
THEOREM NoDoubleGiveBack == VhciSpec => []GivenBackOnce
<1>1. Inv => GivenBackOnce
  BY DEF Inv, Safe
<1> QED BY <1>1, Invariance, PTL

\* urb->hcpriv never dangles: it is NULL or a vhci_priv on priv_tx or priv_rx,
\* and everything on these lists belongs to a URB the driver still owns, across
\* disconnections and reconnections of the port.
THEOREM NoDanglingPriv == VhciSpec => []PrivMatchesUrb
<1>1. Inv => PrivMatchesUrb
  BY DEF Inv, Safe
<1> QED BY <1>1, Invariance, PTL

\* The numbers on priv_tx, priv_rx, unlink_tx and unlink_rx are pairwise
\* different, so the searches of pickup_urb_and_free_priv and
\* dequeue_pending_unlink match at most one entry, across reconnections too.
THEOREM AnswersUnambiguous == VhciSpec => []RequestNumbersUnique
<1>1. Inv => RequestNumbersUnique
  BY DEF Inv, Safe
<1> QED BY <1>1, Invariance, PTL

-------------------------------------------------------------------------------
(* From one connection of a port to the next.                                *)

\* The hypothesis of the two theorems below, on the attach file: it is written
\* when the event worker has nothing left to do for the port.  vhci_device_reset
\* frees the port before the worker is through, and a connection attached in
\* between can be reset, without a shutdown, on account of the one before.
QuietAttach == [][VhciAttach => veh = "idle" /\ vev = NoEvent]_clientVars

\* Inductive under QuietAttach.  vhci_urb_dequeue, which tested the socket, holds
\* vhci.lock until its request is on unlink_tx, so vhci_device_unlink_cleanup,
\* which takes that lock after the socket was released, finds the request; and a
\* pass of the worker that finds no SHUTDOWN meets a port without a socket.
Flushed ==
    /\ dq # NoDequeue => vsock # 0 \/ veh = "cleanup_tx"
    /\ veh \in {"cleanup_tx", "cleanup_rx", "reset", "unset_reset", "unusable"} => vsock = 0
    /\ veh = "cleanup_rx" => unlink_tx = {}
    /\ veh = "idle" /\ vev.queued /\ "SHUTDOWN" \notin vev.bits => vsock = 0
    /\ "BYE" \notin vev.bits
    /\ UnlinksFlushed

\* Inductive under QuietAttach too: a thread that runs, or that store_attach is
\* about to start, has a socket, and the worker has not got past vhci_rx while
\* that one runs; the others were missed.
Sock ==
    /\ vtx \notin {"off", "exit", "oops"} \/ attach \in {"start_rx", "start_tx"} =>
          "tx" \in vmissed \/ vsock # 0
    /\ vrx \notin {"off", "exit"} \/ attach = "start_rx" =>
          "rx" \in vmissed \/ (vsock # 0 /\ veh \in {"idle", "unlink", "stop_rx"})

\* What a port raises says shutdown and never says goodbye.
LEMMA VhciRaises ==
    ASSUME NEW e \in EventWord, "BYE" \notin e.bits, NEW mask \in {EVENT_DOWN, EVENT_ERROR_MALLOC}
    PROVE  "BYE" \notin EventAdd(e, mask).bits /\ "SHUTDOWN" \in EventAdd(e, mask).bits
BY DEF EventAdd, EVENT_DOWN, EVENT_ERROR_MALLOC, EventWord

\* A step of the threads, of the USB core, of userland or of the peer: requests
\* only leave the unlink lists or move from the first to the second, and an event
\* may be raised.
LEMMA OthersFlush ==
    ASSUME VhciTypeOK, Flushed, UNCHANGED <<dq, vsock, veh>>,
           Unlinks' \subseteq Unlinks, unlink_tx' \subseteq unlink_tx,
           \/ UNCHANGED vev
           \/ vev' = EventAdd(vev, EVENT_DOWN) \/ vev' = EventAdd(vev, EVENT_ERROR_MALLOC)
    PROVE  Flushed'
<1>1. vev \in EventWord /\ "BYE" \notin vev.bits
  BY DEF VhciTypeOK, PortTypeOK, Flushed
<1>2. "BYE" \notin vev'.bits /\ (vev' = vev \/ "SHUTDOWN" \in vev'.bits)
  BY <1>1, VhciRaises
<1>3. UnlinksFlushed'
  BY DEF Flushed, UnlinksFlushed
<1> QED BY <1>2, <1>3 DEF Flushed

\* Every step of a client whose attaches are quiet keeps Flushed.
LEMMA FlushedStep ==
    /\ VhciTypeOK /\ Flushed /\ [VhciNext \/ Peer]_clientVars
    /\ [VhciAttach => veh = "idle" /\ vev = NoEvent]_clientVars
    => Flushed'
<1> SUFFICES ASSUME VhciTypeOK, Flushed, [VhciNext \/ Peer]_clientVars,
                    [VhciAttach => veh = "idle" /\ vev = NoEvent]_clientVars
             PROVE  Flushed'
  OBVIOUS
<1> USE DEF netVars, portVars, listVars, urbVars, vrxVars, vtxVars, userVars, hubVars
<1>0. vev \in EventWord
  BY DEF VhciTypeOK, PortTypeOK
<1>1. ASSUME NEW u \in Urbs,
             \/ VhciEnqueue(u) \/ VhciEnqueueGetDescriptor(u) \/ VhciEnqueueSetAddress(u)
             \/ VhciDequeueDisconnected(u)
      PROVE  Flushed'
  BY <1>1, OthersFlush DEF VhciEnqueue, VhciEnqueueGetDescriptor, VhciEnqueueSetAddress,
                           VhciDequeueDisconnected, TxUrb, Unlinks
<1>2. ASSUME NEW u \in Urbs, VhciDequeueConnected(u) PROVE Flushed'
  <2>1. CASE UNCHANGED dq
    BY <1>2, <2>1, OthersFlush DEF VhciDequeueConnected, Unlinks
  <2>2. CASE UNCHANGED vev
    <3>1. vsock # 0 /\ UNCHANGED <<vsock, veh, vev, unlink_tx, unlink_rx>>
      BY <1>2, <2>2 DEF VhciDequeueConnected
    <3> QED BY <3>1 DEF Flushed, UnlinksFlushed, Unlinks
  <2> QED BY <1>2, <2>1, <2>2 DEF VhciDequeueConnected
<1>3. CASE VhciDequeueQueueUnlink
  <2>1. /\ vsock # 0 \/ veh = "cleanup_tx"
        /\ UNCHANGED <<vsock, veh, vev>> /\ dq' = NoDequeue
    BY <1>3 DEF VhciDequeueQueueUnlink, Flushed
  <2> QED BY <2>1 DEF Flushed, UnlinksFlushed
<1>4. CASE VhciTx
  <2>1. UNCHANGED <<dq, vsock, veh>>
    BY <1>4 DEF VhciTx, VhciTxDequeueSubmit, VhciTxNoSubmit, VhciTxDequeueUnlink, VhciTxNoUnlink,
                VhciTxSent, VhciTxFailed, VhciTxOops, VhciTxWake
  <2>2. Unlinks' \subseteq Unlinks /\ unlink_tx' \subseteq unlink_tx
    BY <1>4 DEF VhciTx, VhciTxDequeueSubmit, VhciTxNoSubmit, VhciTxDequeueUnlink, VhciTxNoUnlink,
                VhciTxSent, VhciTxFailed, VhciTxOops, VhciTxWake, Unlinks, IsFirst
  <2>3. \/ UNCHANGED vev
        \/ vev' = EventAdd(vev, EVENT_DOWN) \/ vev' = EventAdd(vev, EVENT_ERROR_MALLOC)
    BY <1>4 DEF VhciTx, VhciTxDequeueSubmit, VhciTxNoSubmit, VhciTxDequeueUnlink, VhciTxNoUnlink,
                VhciTxSent, VhciTxFailed, VhciTxOops, VhciTxWake
  <2> QED BY <2>1, <2>2, <2>3, OthersFlush
<1>5. CASE VhciRx \/ VhciRxTimeout
  <2>1. UNCHANGED <<dq, vsock, veh>>
    BY <1>5 DEF VhciRx, VhciRxHead, VhciRxRetSubmit, VhciRxRetUnlink, VhciRxGiveBack, VhciRxFailed,
                VhciRxTimeout
  <2>2. Unlinks' \subseteq Unlinks /\ unlink_tx' \subseteq unlink_tx
    BY <1>5 DEF VhciRx, VhciRxHead, VhciRxRetSubmit, VhciRxRetUnlink, VhciRxGiveBack, VhciRxFailed,
                VhciRxTimeout, Unlinks
  <2>3. \/ UNCHANGED vev
        \/ vev' = EventAdd(vev, EVENT_DOWN) \/ vev' = EventAdd(vev, EVENT_ERROR_MALLOC)
    BY <1>5 DEF VhciRx, VhciRxHead, VhciRxRetSubmit, VhciRxRetUnlink, VhciRxGiveBack, VhciRxFailed,
                VhciRxTimeout
  <2> QED BY <2>1, <2>2, <2>3, OthersFlush
<1>6. CASE VhciEhPop
  <2>1. UNCHANGED <<dq, vsock, unlink_tx, unlink_rx>>
    BY <1>6 DEF VhciEhPop, EhFrame, EhRest
  <2>2. vev'.bits = vev.bits /\ ~vev'.queued
    BY <1>0, <1>6 DEF VhciEhPop, GetEvent, EventWord
  <2>3. veh = "idle" /\ veh' \in {"unlink", "reset"} /\ (veh' = "reset" => vsock = 0)
    BY <1>6 DEF VhciEhPop, Flushed
  <2> QED BY <2>1, <2>2, <2>3 DEF Flushed, UnlinksFlushed, Unlinks
<1>7. CASE VhciEhUnlinkSocket \/ VhciEhStopRx
  <2>1. /\ UNCHANGED <<dq, vsock, unlink_tx, unlink_rx, vev>>
        /\ veh \in {"unlink", "stop_rx"} /\ veh' \in {"stop_rx", "stop_tx"}
    BY <1>7 DEF VhciEhUnlinkSocket, VhciEhStopRx, EhFrame, EhRest
  <2> QED BY <2>1 DEF Flushed, UnlinksFlushed, Unlinks
<1>8. CASE VhciEhStopTx
  <2>1. /\ UNCHANGED <<unlink_tx, unlink_rx, vev>>
        /\ veh' = "cleanup_tx" /\ vsock' = 0
    BY <1>8 DEF VhciEhStopTx
  <2> QED BY <2>1 DEF Flushed, UnlinksFlushed
<1>9. CASE VhciEhCleanupTx
  <2>1. /\ UNCHANGED <<dq, vsock, unlink_rx, vev>> /\ dq = NoDequeue
        /\ veh = "cleanup_tx" /\ veh' = "cleanup_rx" /\ unlink_tx' = {}
    BY <1>9 DEF VhciEhCleanupTx, EhFrame, EhRest, VhciLockFree
  <2> QED BY <2>1 DEF Flushed, UnlinksFlushed
<1>10. CASE VhciEhCleanupRx
  BY <1>10, OthersFlush DEF VhciEhCleanupRx, Unlinks
<1>11. CASE VhciEhPortOff
  <2>1. /\ UNCHANGED <<dq, vsock, unlink_tx, unlink_rx>> /\ dq = NoDequeue
        /\ veh = "cleanup_rx" /\ veh' = "reset" /\ unlink_rx = {}
    BY <1>11 DEF VhciEhPortOff, EhFrame, EhRest, VhciLockFree
  <2>2. "BYE" \notin vev'.bits
    BY <1>0, <1>11 DEF VhciEhPortOff, UnsetEvent, EventWord, Flushed
  <2> QED BY <2>1, <2>2 DEF Flushed, UnlinksFlushed, Unlinks
<1>12. CASE VhciEhReset \/ VhciEhUnsetReset \/ VhciEhUnusable
  <2>1. /\ UNCHANGED <<dq, unlink_tx, unlink_rx>>
        /\ veh \in {"reset", "unset_reset", "unusable"}
        /\ veh' \in {"unset_reset", "unusable", "idle"}
        /\ vsock = 0 /\ vsock' = 0
    BY <1>12 DEF VhciEhReset, VhciEhUnsetReset, VhciEhUnusable, EhFrame, EhRest, Flushed
  <2>2. "BYE" \notin vev'.bits
    BY <1>0, <1>12 DEF VhciEhReset, VhciEhUnsetReset, VhciEhUnusable, UnsetEvent, EventWord, Flushed
  <2> QED BY <2>1, <2>2 DEF Flushed, UnlinksFlushed, Unlinks
<1>13. CASE VhciAttach
  <2>1. CASE UNCHANGED clientVars
    BY <2>1, OthersFlush DEF clientVars, vhciVars, Unlinks
  <2>2. CASE veh = "idle" /\ vev = NoEvent
    <3>1. vsock' # 0 /\ UNCHANGED <<vev, veh, dq, unlink_tx, unlink_rx>>
      BY <1>13 DEF VhciAttach, VhciTypeOK, NetTypeOK, PortTypeOK
    <3> QED BY <2>2, <3>1 DEF Flushed, UnlinksFlushed, NoEvent
  <2> QED BY <1>13, <2>1, <2>2
<1>14. CASE \/ VhciAttachGoesOn \/ VhciDetachCheck \/ VhciDetachEvent
            \/ HubConnectChange \/ HubDisconnected \/ Peer \/ UNCHANGED clientVars
  BY <1>14, OthersFlush DEF VhciAttachGoesOn, VhciAttachStartRx, VhciAttachStartTx, VhciAttachSetTx,
                            VhciAttachConnect, VhciDetachCheck, VhciDetachEvent,
                            HubConnectChange, HubDisconnected, HubFrame, Peer, clientVars, vhciVars,
                            Unlinks
<1> QED
  BY <1>1, <1>2, <1>3, <1>4, <1>5, <1>6, <1>7, <1>8, <1>9, <1>10, <1>11, <1>12, <1>13, <1>14
  DEF VhciNext, VhciEh, VhciCore, VhciUser

\* No unlink request outlives its connection, for any number of connections, none
\* of which is attached while the event worker still handles the one before.
THEOREM NoUnlinkCarriedOver == VhciSpec /\ QuietAttach => []UnlinksFlushed
<1>1. NetInit /\ VhciInit => VhciTypeOK /\ Flushed
  BY InitInv DEF Inv, VhciInit, Flushed, UnlinksFlushed, Unlinks, NoEvent
<1>2. Flushed => UnlinksFlushed
  BY DEF Flushed
<1> QED BY <1>1, <1>2, TypeStep, FlushedStep, PTL DEF VhciSpec, QuietAttach

\* A port that was never attached: nobody but store_attach can do anything with it.
Fresh ==
    vattached = 0 =>
        /\ vstatus = "NULL" /\ vev = NoEvent /\ veh = "idle" /\ vrx = "off" /\ vtx = "off"
        /\ dq = NoDequeue /\ \A u \in Urbs : hcpriv[u] = 0
        /\ attach = "idle" /\ ~detach.pending /\ ~port.change /\ dev = "none"
        /\ Unlinks = {}

\* Until store_attach is written, a port stays as it is.
LEMMA FreshStep == VhciTypeOK /\ Fresh /\ [VhciNext \/ Peer]_clientVars => Fresh'
<1> SUFFICES ASSUME VhciTypeOK, Fresh, [VhciNext \/ Peer]_clientVars, vattached' = 0
             PROVE  Fresh'
  BY DEF Fresh
<1> USE DEF netVars, portVars, listVars, urbVars, vrxVars, vtxVars, userVars, hubVars
<1>1. CASE VhciCore
  <2>1. UNCHANGED vattached
    BY <1>1 DEF VhciCore, VhciEnqueue, VhciEnqueueGetDescriptor, VhciEnqueueSetAddress,
                VhciDequeueDisconnected, VhciDequeueConnected, VhciDequeueQueueUnlink,
                HubConnectChange, HubDisconnected, HubFrame
  <2> QED BY <1>1, <2>1 DEF Fresh, Unlinks, VhciCore, VhciEnqueue, VhciEnqueueGetDescriptor,
                VhciEnqueueSetAddress, AcceptsUrbs, VhciDequeueDisconnected, VhciDequeueConnected,
                DequeueCheck, VhciDequeueQueueUnlink, HubConnectChange, HubDisconnected
<1>2. CASE VhciTx \/ VhciRx \/ VhciRxTimeout
  BY <1>2 DEF Fresh, Unlinks, VhciTx, VhciTxDequeueSubmit, VhciTxNoSubmit, VhciTxDequeueUnlink,
              VhciTxNoUnlink, VhciTxSent, VhciTxFailed, VhciTxOops, VhciTxWake, VhciRx, VhciRxHead,
              VhciRxRetSubmit, VhciRxRetUnlink, VhciRxGiveBack, VhciRxFailed, VhciRxTimeout
<1>3. CASE VhciEh
  BY <1>3 DEF Fresh, Unlinks, NoEvent, VhciEh, VhciEhPop, VhciEhUnlinkSocket, VhciEhStopRx, VhciEhStopTx,
              VhciEhCleanupTx, VhciEhCleanupRx, VhciEhPortOff, VhciEhReset, VhciEhUnsetReset,
              VhciEhUnusable, EhFrame, EhRest
<1>4. CASE VhciAttach
  BY <1>4 DEF VhciAttach, VhciTypeOK, NetTypeOK, PortTypeOK
<1>5. CASE VhciAttachGoesOn \/ VhciDetachCheck \/ VhciDetachEvent
  BY <1>5 DEF Fresh, Unlinks, VhciAttachGoesOn, VhciAttachStartRx, VhciAttachStartTx,
              VhciAttachSetTx, VhciAttachConnect, VhciDetachCheck, VhciDetachEvent
<1>6. CASE Peer \/ UNCHANGED clientVars
  BY <1>6 DEF Fresh, Unlinks, Peer, clientVars, vhciVars
<1> QED BY <1>1, <1>2, <1>3, <1>4, <1>5, <1>6 DEF VhciNext, VhciUser

\* Of a port's first connection no hypothesis is needed: nothing came before it.
THEOREM FirstConnectionFlushed == VhciSpec /\ [](conn <= 1) => []UnlinksFlushed
<1>1. NetInit /\ VhciInit => Fresh
  BY DEF VhciInit, Fresh, Unlinks
<1>2. VhciTypeOK /\ Fresh /\ conn <= 1 => (VhciAttach => veh = "idle" /\ vev = NoEvent)
  BY DEF VhciAttach, VhciTypeOK, NetTypeOK, PortTypeOK, Fresh
<1>3. VhciTypeOK /\ Flushed /\ Fresh /\ conn <= 1 /\ [VhciNext \/ Peer]_clientVars => Flushed'
  BY <1>2, FlushedStep
<1>4. NetInit /\ VhciInit => VhciTypeOK /\ Flushed
  BY InitInv DEF Inv, VhciInit, Flushed, UnlinksFlushed, Unlinks, NoEvent
<1>5. Flushed => UnlinksFlushed
  BY DEF Flushed
<1> QED BY <1>1, <1>3, <1>4, <1>5, TypeStep, FreshStep, PTL DEF VhciSpec

\* The threads' own steps, the worker's, the file's.
LEMMA SockStep ==
    /\ VhciTypeOK /\ Flushed /\ Sock /\ [VhciNext \/ Peer]_clientVars
    /\ [VhciAttach => veh = "idle" /\ vev = NoEvent]_clientVars
    => Sock'
<1> SUFFICES ASSUME VhciTypeOK, Flushed, Sock, [VhciNext \/ Peer]_clientVars,
                    [VhciAttach => veh = "idle" /\ vev = NoEvent]_clientVars
             PROVE  Sock'
  OBVIOUS
<1> USE DEF netVars, portVars, listVars, urbVars, vrxVars, vtxVars, userVars, hubVars
<1>1. CASE VhciCore
  BY <1>1, ZenonT(60) DEF Sock, VhciCore, VhciEnqueue, VhciEnqueueGetDescriptor, VhciEnqueueSetAddress,
              VhciDequeueDisconnected, VhciDequeueConnected, VhciDequeueQueueUnlink,
              HubConnectChange, HubDisconnected, HubFrame
<1>2. CASE VhciTx
  <2>1. UNCHANGED <<vsock, veh, vrx, attach, vmissed>> /\ vtx \notin {"off", "exit", "oops"}
    BY <1>2 DEF VhciTx, VhciTxDequeueSubmit, VhciTxNoSubmit, VhciTxDequeueUnlink, VhciTxNoUnlink,
                VhciTxSent, VhciTxFailed, VhciTxOops, VhciTxWake
  <2> QED BY <2>1 DEF Sock
<1>3. CASE VhciRx \/ VhciRxTimeout
  <2>1. UNCHANGED <<vsock, veh, vtx, attach, vmissed>> /\ vrx \notin {"off", "exit"}
    BY <1>3 DEF VhciRx, VhciRxHead, VhciRxRetSubmit, VhciRxRetUnlink, VhciRxGiveBack, VhciRxFailed,
                VhciRxTimeout
  <2> QED BY <2>1 DEF Sock
<1>4. CASE VhciEhPop \/ VhciEhUnlinkSocket
  <2>1. /\ UNCHANGED <<vsock, vrx, vtx, attach, vmissed>> /\ veh \in {"idle", "unlink"}
        /\ veh' \in {"unlink", "stop_rx", "reset"}
        /\ veh' = "reset" => vsock = 0
    BY <1>4 DEF VhciEhPop, VhciEhUnlinkSocket, EhFrame, Flushed
  <2> QED BY <2>1 DEF Sock
<1>5. CASE VhciEhStopRx
  <2>1. UNCHANGED <<vsock, vtx, attach>> /\ vrx \in {"off", "exit", vrx'}
    BY <1>5 DEF VhciEhStopRx
  <2>2. "tx" \in vmissed => "tx" \in vmissed'
    BY <1>5 DEF VhciEhStopRx
  <2>3. CASE attach \in {"start_rx", "start_tx"}
    <3>1. "rx" \in vmissed'
      BY <1>5, <2>3 DEF VhciEhStopRx
    <3> QED BY <2>1, <2>2, <3>1 DEF Sock
  <2>4. CASE attach \notin {"start_rx", "start_tx"}
    <3>1. vrx' = "off"
      BY <1>5, <2>4 DEF VhciEhStopRx, TcpRx
    <3> QED BY <2>1, <2>2, <2>4, <3>1 DEF Sock
  <2> QED BY <2>3, <2>4
<1>6. CASE VhciEhStopTx
  <2>1. UNCHANGED <<vrx, attach>> /\ veh = "stop_tx"
    BY <1>6 DEF VhciEhStopTx
  <2>2. "rx" \in vmissed => "rx" \in vmissed'
    BY <1>6 DEF VhciEhStopTx
  <2>3. vrx' \notin {"off", "exit"} \/ attach' = "start_rx" => "rx" \in vmissed'
    BY <2>1, <2>2 DEF Sock
  <2>4. CASE attach \in {"start_rx", "start_tx", "set_tx"}
    <3>1. "tx" \in vmissed'
      BY <1>6, <2>4 DEF VhciEhStopTx
    <3> QED BY <2>3, <3>1 DEF Sock
  <2>5. CASE attach \notin {"start_rx", "start_tx", "set_tx"}
    <3>1. vtx' = "off"
      BY <1>6, <2>5 DEF VhciEhStopTx, TcpTx
    <3> QED BY <2>1, <2>3, <2>5, <3>1 DEF Sock
  <2> QED BY <2>4, <2>5
<1>7. CASE VhciEhCleanupTx \/ VhciEhCleanupRx \/ VhciEhPortOff \/ VhciEhReset \/ VhciEhUnsetReset
           \/ VhciEhUnusable
  <2>1. /\ veh \in {"cleanup_tx", "cleanup_rx", "reset", "unset_reset", "unusable"}
        /\ UNCHANGED <<vrx, vtx, attach, vmissed>> /\ (vsock' = vsock \/ vsock' = 0)
    BY <1>7 DEF VhciEhCleanupTx, VhciEhCleanupRx, VhciEhPortOff, VhciEhReset, VhciEhUnsetReset,
                VhciEhUnusable, EhFrame
  <2>2. vsock = 0
    BY <2>1 DEF Flushed
  <2> QED BY <2>1, <2>2 DEF Sock
<1>8. CASE VhciAttach
  <2>1. vsock' # 0 /\ UNCHANGED veh
    BY <1>8 DEF VhciAttach, VhciTypeOK, NetTypeOK, PortTypeOK
  <2>2. CASE veh = "idle"
    BY <2>1, <2>2 DEF Sock
  <2>3. CASE UNCHANGED clientVars
    BY <2>3 DEF clientVars, vhciVars, Sock
  <2> QED BY <1>8, <2>2, <2>3
<1>9. CASE VhciAttachGoesOn
  BY <1>9 DEF VhciAttachGoesOn, VhciAttachStartRx, VhciAttachStartTx, VhciAttachSetTx,
              VhciAttachConnect, Sock
<1>10. CASE VhciDetachCheck \/ VhciDetachEvent \/ Peer \/ UNCHANGED clientVars
  BY <1>10 DEF VhciDetachCheck, VhciDetachEvent, Peer, clientVars, vhciVars, Sock
<1> QED BY <1>1, <1>2, <1>3, <1>4, <1>5, <1>6, <1>7, <1>8, <1>9, <1>10 DEF VhciNext, VhciEh, VhciUser

\* vhci_rx and vhci_tx never receive from or send on a NULL tcp_socket, as long
\* as every attach is quiet, but for a thread that a shutdown did not find because
\* store_attach had not stored its pointer yet: whoever tears the connection
\* down, the peer or a detach, and at whatever step of the attach.
THEOREM ThreadsHaveSocket == VhciSpec /\ QuietAttach => []SocketOutlivesThreads
<1>1. NetInit /\ VhciInit => VhciTypeOK /\ Flushed /\ Sock
  BY InitInv DEF Inv, VhciInit, Flushed, Sock, UnlinksFlushed, Unlinks, NoEvent
<1>2. Sock => SocketOutlivesThreads
  BY DEF Sock, SocketOutlivesThreads
<1> QED BY <1>1, <1>2, TypeStep, FlushedStep, SockStep, PTL DEF VhciSpec, QuietAttach

===============================================================================
