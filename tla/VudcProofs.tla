------------------------------ MODULE VudcProofs ------------------------------
(***************************************************************************)
(* Theorems about a virtual device controller, for any set of endpoints,   *)
(* any number of requests and connections, any set of faults, any client   *)
(* and any gadget driver: VudcSpec lets the far end of the connection      *)
(* change the streams as it likes.  A later part is about NumberedSpec: a    *)
(* client that gives every request a number of its own, as vhci does, which *)
(* the clients that TLC runs (MCVudc) are.                                 *)
(*                                                                         *)
(* The end of the module is about the data stage, VudcTransfer: transfer   *)
(* moves what a bus would have moved, for every packet size and all        *)
(* lengths.  It needs the induction and the recursion theorem over Nat,    *)
(* for sets and functions, which come first.                               *)
(***************************************************************************)
EXTENDS MCVudc, VudcTransfer, SequenceTheorems, FiniteSetTheorems, WellFoundedInduction, TLAPS

-------------------------------------------------------------------------------
(* The operators the queues and the event word are changed with.             *)

\* usbip_event_add with the controller's three masks, get_event, unset_event and
\* the reset of the word by usbip_start_eh leave an event word.
LEMMA VevTypes ==
    ASSUME NEW e \in EventWord
    PROVE  /\ EventAdd(e, EVENT_DOWN) \in EventWord
           /\ EventAdd(e, EVENT_ERROR_MALLOC) \in EventWord
           /\ EventAdd(e, EVENT_REMOVED) \in EventWord
           /\ GetEvent(e) \in EventWord
           /\ [e EXCEPT !.bits = {}] \in EventWord
           /\ \A bit \in Bits : UnsetEvent(e, bit) \in EventWord
<1>1. \A mask \in SUBSET Bits : EventAdd(e, mask) \in EventWord
  BY DEF EventWord, EventAdd, Bits
<1>2. EVENT_DOWN \in SUBSET Bits /\ EVENT_ERROR_MALLOC \in SUBSET Bits /\ EVENT_REMOVED \in SUBSET Bits
  BY DEF EVENT_DOWN, EVENT_ERROR_MALLOC, EVENT_REMOVED, Bits
<1>3. GetEvent(e) \in EventWord /\ [e EXCEPT !.bits = {}] \in EventWord
  BY DEF EventWord, GetEvent
<1>4. \A bit \in Bits : UnsetEvent(e, bit) \in EventWord
  BY DEF EventWord, UnsetEvent
<1> QED BY <1>1, <1>2, <1>3, <1>4

\* The timer of the controller, a record.
TimerType == [state : {"STOPPED", "IDLE", "RUNNING"}, armed : BOOLEAN]

\* The timer record stays one under v_kick_timer and v_start_timer.
LEMMA TimerTypes ==
    ASSUME NEW t \in TimerType
    PROVE  KickTimer(t) \in TimerType /\ StartTimer(t) \in TimerType
<1>1. \A x \in TimerType : KickTimer(x) \in TimerType
  BY DEF KickTimer, TimerType
<1>2. [t EXCEPT !.state = "IDLE"] \in TimerType
  BY DEF TimerType
<1> QED BY <1>1, <1>2 DEF StartTimer, TimerType

\* list_del out of the middle of urb_queue leaves a queue.
LEMMA RemoveAtType ==
    ASSUME NEW S, NEW s \in Seq(S), NEW i \in DOMAIN s
    PROVE  RemoveAt(s, i) \in Seq(S)
BY DEF RemoveAt

\* The URB at a place of the queue, and the identity the walk keeps of it.
LEMMA IdAtType ==
    ASSUME NEW q \in Seq(Urbp), NEW i
    PROVE  IdAt(q, i) \in Nat
<1>1. CASE i \in DOMAIN q
  <2>1. q[i] \in Urbp
    BY <1>1, ElementOfSeq
  <2> QED BY <1>1, <2>1 DEF IdAt, Urbp
<1>2. CASE i \notin DOMAIN q
  BY <1>2 DEF IdAt
<1> QED BY <1>1, <1>2

SweepType == [pc : {"off", "scan", "setup", "transfer", "giveback", "oops"},
              cur : Nat, next : Nat, done : BOOLEAN, seen : SUBSET Eps]

\* v_enqueue_ret_submit and v_enqueue_ret_unlink keep the types.
LEMMA EnqueueRetType ==
    ASSUME VudcTypeOK, NEW type \in {"SUBMIT", "UNLINK"}, NEW s \in Nat, EnqueueRet(type, s)
    PROVE  tx_queue' \in Seq(TxItem) /\ vev' \in EventWord
<1>1. [type |-> type, seqnum |-> s] \in TxItem
  BY DEF TxItem
<1>2. Append(tx_queue, [type |-> type, seqnum |-> s]) \in Seq(TxItem)
  BY <1>1, AppendProperties DEF VudcTypeOK
<1> QED BY <1>2, VevTypes DEF EnqueueRet, VudcTypeOK

\* v_timer's return_urb keeps the types, and the walk goes on.
LEMMA ReturnUrbType ==
    ASSUME VudcTypeOK, NEW i \in DOMAIN urb_queue, ReturnUrb(i)
    PROVE  /\ urb_queue' \in Seq(Urbp) /\ tx_queue' \in Seq(TxItem)
           /\ vev' \in EventWord
           /\ sweep' \in SweepType /\ sweep'.pc = "scan"
           /\ vtx' \in {"off", "head", "send", "wait", "asleep", "exit", "oops"}
<1>1. urb_queue[i] \in Urbp
  BY ElementOfSeq DEF VudcTypeOK
<1>2. urb_queue[i].seqnum \in Nat /\ urb_queue[i].ep \in Eps
  BY <1>1 DEF Urbp
<1>3. urb_queue' \in Seq(Urbp) /\ RemoveAt(urb_queue, i) \in Seq(Urbp)
  BY RemoveAtType DEF ReturnUrb, VudcTypeOK
<1>4. tx_queue' \in Seq(TxItem) /\ vev' \in EventWord
  BY <1>2, EnqueueRetType DEF ReturnUrb
<1>5. IdAt(RemoveAt(urb_queue, i), 1) \in Nat
  BY <1>3, IdAtType
<1>6. sweep' \in SweepType /\ sweep'.pc = "scan"
  BY <1>5 DEF ReturnUrb, VudcTypeOK, SweepType
<1>7. vtx' \in {"off", "head", "send", "wait", "asleep", "exit", "oops"}
  BY DEF ReturnUrb, WakeVtx, VudcTypeOK
<1> QED BY <1>3, <1>4, <1>6, <1>7


\* What handle_control_request does to the endpoints keeps their types.
LEMMA ControlEffectType ==
    ASSUME VudcTypeOK, NEW u \in Urbp
    PROVE  ControlEffect(u) \in [Eps -> Endpoint]
<1>1. EP0 \in Eps /\ u.windex \in Eps
  BY DEF Eps, Urbp
<1>2. ep \in [Eps -> Endpoint] /\ \A e \in Eps : ep[e].wedged \in BOOLEAN /\ ep[e].halted \in BOOLEAN
  BY DEF VudcTypeOK, Endpoint
<1>3. \A f \in [Eps -> Endpoint] : \A e \in Eps : \A b \in BOOLEAN :
         [f EXCEPT ![e].halted = b] \in [Eps -> Endpoint]
  BY DEF Endpoint
<1>4. [ep EXCEPT ![EP0].halted = FALSE] \in [Eps -> Endpoint]
  BY <1>1, <1>2, <1>3
<1>5. \A b \in BOOLEAN :
         [[ep EXCEPT ![EP0].halted = FALSE] EXCEPT ![u.windex].halted = b] \in [Eps -> Endpoint]
  BY <1>1, <1>3, <1>4
<1>6. [ep EXCEPT ![EP0].halted = FALSE, ![u.windex].halted = TRUE] \in [Eps -> Endpoint]
  BY <1>5
<1>7. [ep EXCEPT ![EP0].halted = FALSE, ![u.windex].halted = @ /\ ep[u.windex].wedged]
         \in [Eps -> Endpoint]
  <2>1. \A b \in BOOLEAN : (b /\ ep[u.windex].wedged) \in BOOLEAN
    BY <1>1, <1>2
  <2>2. [ep EXCEPT ![EP0].halted = FALSE][u.windex].halted \in BOOLEAN
    BY <1>1, <1>4 DEF Endpoint
  <2> QED BY <1>5, <2>1, <2>2
<1> QED BY <1>4, <1>6, <1>7 DEF ControlEffect

-------------------------------------------------------------------------------
(* Types.                                                                     *)

ControllerTypeOK == VudcNetTypeOK /\ VudcTypeOK

\* VudcTypeOK in the groups of variables that change together.
EpOK    == ep \in [Eps -> Endpoint]
VevOK   == vev \in EventWord
QueueOK == urb_queue \in Seq(Urbp) /\ tx_queue \in Seq(TxItem)
TimerOK == timer \in TimerType
SweepOK == sweep \in SweepType
FileOK  ==
    /\ gadget \in [driver : BOOLEAN, pullup : BOOLEAN, unbinding : BOOLEAN]
    /\ vstatus \in {"AVAILABLE", "USED", "ERROR"}
    /\ vsock \in Nat /\ connected \in BOOLEAN
    /\ vstore \in {"none", "start_rx", "start_tx", "used"}
ThreadOK ==
    /\ vrx \in {"off", "head", "recv", "exit", "gone"}
    /\ vtx \in {"off", "head", "send", "wait", "asleep", "exit", "oops"}
    /\ veh \in {"idle", "unlink", "stop_rx", "stop_tx", "stop_activity", "reset",
                "unset_reset", "unusable"}
Groups == EpOK /\ VevOK /\ QueueOK /\ TimerOK /\ SweepOK /\ FileOK /\ ThreadOK

\* VudcTypeOK in the parts that the actions touch one by one.
LEMMA TypeGroups == VudcTypeOK <=> Groups
BY DEF VudcTypeOK, Groups, EpOK, VevOK, QueueOK, TimerOK, SweepOK, FileOK, ThreadOK,
       TimerType, SweepType

\* The walk of the timer over the queue: wherever it goes on, its record keeps
\* its type.
LEMMA SweepTypes ==
    ASSUME NEW w \in SweepType
    PROVE  /\ NoSweep \in SweepType
           /\ [NoSweep EXCEPT !.pc = "oops"] \in SweepType
           /\ \A n \in Nat : [NoSweep EXCEPT !.pc = "scan", !.cur = n] \in SweepType
           /\ \A n \in Nat : [w EXCEPT !.cur = n] \in SweepType
           /\ \A pc \in {"transfer", "scan", "giveback"} : [w EXCEPT !.pc = pc] \in SweepType
           /\ [w EXCEPT !.pc = "scan", !.cur = w.next] \in SweepType
           /\ \A pc \in {"transfer", "setup"}, n \in Nat, d \in BOOLEAN, e \in Eps :
                 [w EXCEPT !.pc = pc, !.next = n, !.done = d, !.seen = @ \cup {e}] \in SweepType
           /\ \A d \in {w.done, TRUE} : [w EXCEPT !.pc = "giveback", !.done = d] \in SweepType
BY DEF SweepType, NoSweep

\* A request less on an endpoint's queue: TransferRound, nuke.
LEMMA RequestDone ==
    ASSUME NEW f \in [Eps -> Endpoint], NEW e \in Eps, f[e].reqs > 0
    PROVE  [f EXCEPT ![e].reqs = f[e].reqs - 1] \in [Eps -> Endpoint]
BY VudcAssumption DEF Endpoint

\* nuke takes one request off a queue.
LEMMA NukeType ==
    ASSUME EpOK, Nuke
    PROVE  EpOK'
BY RequestDone DEF EpOK, Nuke

\* The marking of a found unlink target, as VudcRxCmdUnlink does it: the URB
\* keeps its place, and takes the seqnum of the unlink request.
MarkedUrb(q, i, n) == [q EXCEPT ![i].unlinked = TRUE, ![i].seqnum = n]
\* A marked URB is still one of the queue.
LEMMA MarkedUrbFacts ==
    ASSUME NEW q \in Seq(Urbp), NEW i \in DOMAIN q, NEW n \in Nat
    PROVE  MarkedUrb(q, i, n) \in Seq(Urbp) /\ MarkedUrb(q, i, n) # <<>>
<1> DEFINE m == [q[i] EXCEPT !.unlinked = TRUE]
           e == [m EXCEPT !.seqnum = n]
           u == [q EXCEPT ![i] = m]
           t == MarkedUrb(q, i, n)
<1>1. i \in 1 .. Len(q) /\ q[i] \in Urbp
  BY ElementOfSeq
<1>2. m \in Urbp
  BY <1>1 DEF Urbp
<1>3. t = [u EXCEPT ![i] = [u[i] EXCEPT !.seqnum = n]] /\ u[i] = m
  BY DEF MarkedUrb
<1> HIDE DEF m, t
<1>4. e \in Urbp
  BY <1>2 DEF Urbp
<1>5. t = [q EXCEPT ![i] = e]
  BY <1>3
<1> HIDE DEF e
<1>6. [q EXCEPT ![i] = e] \in Seq(Urbp) /\ Len([q EXCEPT ![i] = e]) = Len(q)
  BY <1>1, <1>4, ExceptSeq
<1>7. t \in Seq(Urbp) /\ Len(t) # 0
  BY <1>1, <1>5, <1>6
<1> QED BY <1>7 DEF t

\* What the calls of the gadget driver on an endpoint change: its record alone.
LEMMA SetEpType ==
    ASSUME VudcNetTypeOK, Groups, NEW e \in Eps, \E r \in Endpoint : SetEp(e, r)
    PROVE  VudcNetTypeOK' /\ Groups'
<1>1. PICK r \in Endpoint : SetEp(e, r)
  OBVIOUS
<1>2. EpOK'
  BY <1>1 DEF SetEp, Groups, EpOK
<1>3. UNCHANGED <<netVars, gadget, connected, vev, vstatus, vsock, vstore, urb_queue, tx_queue,
                  timer, sweep, threadVars>>
  BY <1>1 DEF SetEp, gadgetRest
<1>4. VudcNetTypeOK' /\ VevOK' /\ QueueOK' /\ TimerOK' /\ SweepOK' /\ FileOK' /\ ThreadOK'
  BY <1>3 DEF Groups, netVars, threadVars, VudcNetTypeOK, VevOK, QueueOK, TimerOK, SweepOK,
              FileOK, ThreadOK
<1> QED BY <1>2, <1>4 DEF Groups

\* Every step of the timer, the two threads, the worker, userland, the gadget
\* driver and the client keeps the types: one step per action, under it one for
\* each group of variables that the action changes and one for the rest.
LEMMA ControllerTypeStep ==
    ControllerTypeOK /\ [VudcNext \/ VudcClient]_<<netVars, vudcVars>> => ControllerTypeOK'
<1> SUFFICES ASSUME VudcNetTypeOK, Groups, [VudcNext \/ VudcClient]_<<netVars, vudcVars>>
             PROVE  VudcNetTypeOK' /\ Groups'
  <2>1. VudcTypeOK' <=> Groups'
    BY DEF VudcTypeOK, Groups, EpOK, VevOK, QueueOK, TimerOK, SweepOK, FileOK, ThreadOK,
           TimerType, SweepType
  <2> QED BY <2>1, TypeGroups DEF ControllerTypeOK
<1>0. VudcTypeOK
  BY TypeGroups
<1> USE VudcAssumption
<1> USE DEF Groups, netVars, udcVars, threadVars
<1>1. CASE SweepStart
  <2>1. TimerOK'
    BY <1>1 DEF SweepStart, TimerOK, TimerType
  <2>2. SweepOK'
    BY <1>1, SweepTypes, IdAtType DEF SweepStart, SweepOK, QueueOK
  <2>3. VudcNetTypeOK' /\ EpOK' /\ VevOK' /\ QueueOK' /\ FileOK' /\ ThreadOK'
    BY <1>1 DEF SweepStart, VudcNetTypeOK, EpOK, VevOK, QueueOK, FileOK, ThreadOK
  <2> QED BY <2>1, <2>2, <2>3
<1>2. CASE SweepLost
  <2>1. SweepOK'
    BY <1>2, SweepTypes DEF SweepLost, SweepOK
  <2>2. VudcNetTypeOK' /\ EpOK' /\ VevOK' /\ QueueOK' /\ TimerOK' /\ FileOK' /\ ThreadOK'
    BY <1>2 DEF SweepLost, VudcNetTypeOK, EpOK, VevOK, QueueOK, TimerOK, FileOK, ThreadOK
  <2> QED BY <2>1, <2>2
<1>3. CASE SweepUnlinked
  <2>1. \/ \E i \in DOMAIN urb_queue : ReturnUrb(i)
        \/ UNCHANGED <<vev, urb_queue, tx_queue, vtx>> /\ SweepOK'
    BY <1>3, SweepTypes DEF SweepUnlinked, IndexOf, SweepOK
  <2>2. VevOK' /\ QueueOK' /\ SweepOK' /\ vtx' \in {"off", "head", "send", "wait", "asleep", "exit", "oops"}
    BY <1>0, <2>1, ReturnUrbType DEF VevOK, QueueOK, SweepOK, ThreadOK
  <2>3. VudcNetTypeOK' /\ EpOK' /\ TimerOK' /\ FileOK'
    BY <1>3 DEF SweepUnlinked, VudcNetTypeOK, EpOK, TimerOK, FileOK
  <2>4. ThreadOK'
    BY <1>3, <2>2 DEF SweepUnlinked, ThreadOK
  <2> QED BY <2>2, <2>3, <2>4
<1>4. CASE SweepSkip
  <2>1. SweepOK'
    BY <1>4, SweepTypes, IdAtType, ZenonT(180) DEF SweepSkip, SweepOK, QueueOK
  <2>2. VudcNetTypeOK' /\ EpOK' /\ VevOK' /\ QueueOK' /\ TimerOK' /\ FileOK' /\ ThreadOK'
    BY <1>4 DEF SweepSkip, VudcNetTypeOK, EpOK, VevOK, QueueOK, TimerOK, FileOK, ThreadOK
  <2> QED BY <2>1, <2>2
<1>5. CASE SweepSetup
  <2>1. PICK i \in DOMAIN urb_queue :
           /\ ep' = ControlEffect(urb_queue[i])
           /\ \/ /\ \E pc \in {"transfer", "setup"}, done \in BOOLEAN :
                       sweep' = [sweep EXCEPT !.pc = pc, !.next = IdAt(urb_queue, i + 1),
                                              !.done = done, !.seen = @ \cup {EP0}]
                 /\ urb_queue' = [urb_queue EXCEPT ![i].new = FALSE]
                 /\ UNCHANGED <<vev, tx_queue, vtx>>
              \/ ReturnUrb(i)
    BY <1>5 DEF SweepSetup
  <2>2. urb_queue[i] \in Urbp
    BY ElementOfSeq DEF QueueOK
  <2>3. EpOK'
    BY <1>0, <2>1, <2>2, ControlEffectType DEF EpOK
  <2>4. /\ VevOK' /\ QueueOK' /\ SweepOK'
        /\ vtx' \in {"off", "head", "send", "wait", "asleep", "exit", "oops"}
    <3>1. CASE ReturnUrb(i)
      BY <1>0, <3>1, ReturnUrbType DEF VevOK, QueueOK, SweepOK
    <3>2. CASE /\ \E pc \in {"transfer", "setup"}, done \in BOOLEAN :
                     sweep' = [sweep EXCEPT !.pc = pc, !.next = IdAt(urb_queue, i + 1),
                                            !.done = done, !.seen = @ \cup {EP0}]
               /\ urb_queue' = [urb_queue EXCEPT ![i].new = FALSE]
               /\ UNCHANGED <<vev, tx_queue, vtx>>
      <4>1. IdAt(urb_queue, i + 1) \in Nat /\ EP0 \in Eps
        BY IdAtType DEF Eps, QueueOK
      <4>2. SweepOK'
        <5>1. PICK pc \in {"transfer", "setup"}, done \in BOOLEAN :
                 sweep' = [sweep EXCEPT !.pc = pc, !.next = IdAt(urb_queue, i + 1),
                                        !.done = done, !.seen = @ \cup {EP0}]
          BY <3>2
        <5> DEFINE n == IdAt(urb_queue, i + 1)
        <5>2. n \in Nat /\ EP0 \in Eps /\ sweep \in SweepType
          BY <4>1 DEF SweepOK
        <5>3. sweep' = [sweep EXCEPT !.pc = pc, !.next = n, !.done = done, !.seen = @ \cup {EP0}]
          BY <5>1
        <5> HIDE DEF n
        <5> QED BY <5>2, <5>3 DEF SweepOK, SweepType
      <4>3. [urb_queue[i] EXCEPT !.new = FALSE] \in Urbp
        BY <2>2 DEF Urbp
      <4>4. [urb_queue EXCEPT ![i] = [urb_queue[i] EXCEPT !.new = FALSE]] \in Seq(Urbp)
        BY <4>3, ExceptSeq DEF QueueOK
      <4> QED BY <3>2, <4>2, <4>4 DEF VevOK, QueueOK, ThreadOK
    <3> QED BY <2>1, <3>1, <3>2
  <2>5. VudcNetTypeOK' /\ TimerOK' /\ FileOK'
    BY <1>5 DEF SweepSetup, VudcNetTypeOK, TimerOK, FileOK
  <2>6. ThreadOK'
    BY <1>5, <2>4 DEF SweepSetup, ThreadOK
  <2> QED BY <2>3, <2>4, <2>5, <2>6
<1>6. CASE SweepSetupDone
  <2>1. \/ \E i \in DOMAIN urb_queue : ReturnUrb(i)
        \/ UNCHANGED <<vev, urb_queue, tx_queue, vtx>> /\ SweepOK'
    BY <1>6, SweepTypes DEF SweepSetupDone, IndexOf, SweepOK
  <2>2. VevOK' /\ QueueOK' /\ SweepOK' /\ vtx' \in {"off", "head", "send", "wait", "asleep", "exit", "oops"}
    BY <1>0, <2>1, ReturnUrbType DEF VevOK, QueueOK, SweepOK, ThreadOK
  <2>3. VudcNetTypeOK' /\ EpOK' /\ TimerOK' /\ FileOK'
    BY <1>6 DEF SweepSetupDone, VudcNetTypeOK, EpOK, TimerOK, FileOK
  <2>4. ThreadOK'
    BY <1>6, <2>2 DEF SweepSetupDone, ThreadOK
  <2> QED BY <2>2, <2>3, <2>4
<1>7. CASE SweepRefuse
  <2>1. \/ \E i \in DOMAIN urb_queue : ReturnUrb(i)
        \/ UNCHANGED <<vev, urb_queue, tx_queue, vtx>> /\ SweepOK'
    BY <1>7, SweepTypes DEF SweepRefuse, IndexOf, SweepOK
  <2>2. VevOK' /\ QueueOK' /\ SweepOK' /\ vtx' \in {"off", "head", "send", "wait", "asleep", "exit", "oops"}
    BY <1>0, <2>1, ReturnUrbType DEF VevOK, QueueOK, SweepOK, ThreadOK
  <2>3. VudcNetTypeOK' /\ EpOK' /\ TimerOK' /\ FileOK'
    BY <1>7 DEF SweepRefuse, VudcNetTypeOK, EpOK, TimerOK, FileOK
  <2>4. ThreadOK'
    BY <1>7, <2>2 DEF SweepRefuse, ThreadOK
  <2> QED BY <2>2, <2>3, <2>4
<1>8. CASE SweepTransfer
  <2>1. PICK i \in DOMAIN urb_queue :
           sweep' = [sweep EXCEPT !.pc = "transfer", !.next = IdAt(urb_queue, i + 1),
                                  !.done = FALSE, !.seen = @ \cup {urb_queue[i].ep}]
    BY <1>8 DEF SweepTransfer
  <2>2. urb_queue[i].ep \in Eps
    <3>1. urb_queue[i] \in Urbp
      BY ElementOfSeq DEF QueueOK
    <3> QED BY <3>1 DEF Urbp
  <2>3. IdAt(urb_queue, i + 1) \in Nat
    BY IdAtType DEF QueueOK
  <2>4. SweepOK'
    BY <2>1, <2>2, <2>3, SweepTypes DEF SweepOK
  <2>5. VudcNetTypeOK' /\ EpOK' /\ VevOK' /\ QueueOK' /\ TimerOK' /\ FileOK' /\ ThreadOK'
    BY <1>8 DEF SweepTransfer, VudcNetTypeOK, EpOK, VevOK, QueueOK, TimerOK, FileOK, ThreadOK
  <2> QED BY <2>4, <2>5
<1>9. CASE TransferRound
  <2>1. PICK i \in DOMAIN urb_queue :
          LET e == urb_queue[i].ep
          IN \/ /\ sweep' = [sweep EXCEPT !.pc = "scan", !.cur = sweep.next]
                /\ UNCHANGED <<ep, vev, urb_queue, tx_queue, vtx>>
             \/ ReturnUrb(i) /\ UNCHANGED ep
             \/ /\ ep[e].reqs > 0
                /\ ep' = [ep EXCEPT ![e].reqs = @ - 1]
                /\ \E done \in {sweep.done, TRUE} :
                      sweep' = [sweep EXCEPT !.pc = "giveback", !.done = done]
                /\ UNCHANGED <<vev, urb_queue, tx_queue, vtx>>
    BY <1>9 DEF TransferRound, IndexOf
  <2>2. urb_queue[i].ep \in Eps
    <3>1. urb_queue[i] \in Urbp
      BY ElementOfSeq DEF QueueOK
    <3> QED BY <3>1 DEF Urbp
  <2>3. EpOK'
    <3>1. CASE UNCHANGED ep
      BY <3>1 DEF EpOK
    <3>2. CASE ep[urb_queue[i].ep].reqs > 0 /\ ep' = [ep EXCEPT ![urb_queue[i].ep].reqs = @ - 1]
      BY <2>2, <3>2, RequestDone DEF EpOK
    <3> QED BY <2>1, <3>1, <3>2
  <2>4. /\ VevOK' /\ QueueOK' /\ SweepOK'
        /\ vtx' \in {"off", "head", "send", "wait", "asleep", "exit", "oops"}
    <3>1. CASE ReturnUrb(i)
      BY <1>0, <3>1, ReturnUrbType DEF VevOK, QueueOK, SweepOK
    <3>2. CASE UNCHANGED <<vev, urb_queue, tx_queue, vtx>>
      <4>1. SweepOK'
        BY <1>0, <2>1, SweepTypes, ReturnUrbType DEF SweepOK
      <4> QED BY <3>2, <4>1 DEF VevOK, QueueOK, ThreadOK
    <3> QED BY <2>1, <3>1, <3>2
  <2>5. VudcNetTypeOK' /\ TimerOK' /\ FileOK'
    BY <1>9 DEF TransferRound, VudcNetTypeOK, TimerOK, FileOK
  <2>6. ThreadOK'
    BY <1>9, <2>4 DEF TransferRound, ThreadOK
  <2> QED BY <2>3, <2>4, <2>5, <2>6
<1>10. CASE TransferGivenBack
  <2>1. \/ \E i \in DOMAIN urb_queue : ReturnUrb(i)
        \/ UNCHANGED <<vev, urb_queue, tx_queue, vtx>> /\ SweepOK'
    BY <1>10, SweepTypes DEF TransferGivenBack, IndexOf, SweepOK
  <2>2. VevOK' /\ QueueOK' /\ SweepOK' /\ vtx' \in {"off", "head", "send", "wait", "asleep", "exit", "oops"}
    BY <1>0, <2>1, ReturnUrbType DEF VevOK, QueueOK, SweepOK, ThreadOK
  <2>3. VudcNetTypeOK' /\ EpOK' /\ TimerOK' /\ FileOK'
    BY <1>10 DEF TransferGivenBack, VudcNetTypeOK, EpOK, TimerOK, FileOK
  <2>4. ThreadOK'
    BY <1>10, <2>2 DEF TransferGivenBack, ThreadOK
  <2> QED BY <2>2, <2>3, <2>4
<1>11. CASE SweepEnd
  <2>1. TimerOK'
    BY <1>11 DEF SweepEnd, TimerOK, TimerType
  <2>2. SweepOK'
    BY <1>11, SweepTypes DEF SweepEnd, SweepOK
  <2>3. VudcNetTypeOK' /\ EpOK' /\ VevOK' /\ QueueOK' /\ FileOK' /\ ThreadOK'
    BY <1>11 DEF SweepEnd, VudcNetTypeOK, EpOK, VevOK, QueueOK, FileOK, ThreadOK
  <2> QED BY <2>1, <2>2, <2>3
<1>12. CASE VudcRxHead
  <2>1. ThreadOK'
    BY <1>12 DEF VudcRxHead, ThreadOK
  <2>2. VudcNetTypeOK' /\ EpOK' /\ VevOK' /\ QueueOK' /\ TimerOK' /\ SweepOK' /\ FileOK'
    BY <1>12 DEF VudcRxHead, VudcNetTypeOK, EpOK, VevOK, QueueOK, TimerOK, SweepOK, FileOK
  <2> QED BY <2>1, <2>2
<1>13. CASE VudcRxFailed
  <2>1. VevOK'
    BY <1>13, VevTypes DEF VudcRxFailed, VevOK
  <2>2. ThreadOK'
    BY <1>13 DEF VudcRxFailed, ThreadOK
  <2>3. VudcNetTypeOK' /\ EpOK' /\ QueueOK' /\ TimerOK' /\ SweepOK' /\ FileOK'
    BY <1>13 DEF VudcRxFailed, VudcNetTypeOK, EpOK, QueueOK, TimerOK, SweepOK, FileOK
  <2> QED BY <2>1, <2>2, <2>3
<1>14. CASE VudcRxBusy
  <2>1. VudcNetTypeOK'
    BY <1>14, HeadTailProperties DEF VudcRxBusy, VudcNetTypeOK, VudcRecv, CanRecv
  <2>2. VevOK'
    BY <1>14, VevTypes DEF VudcRxBusy, VevOK
  <2>3. ThreadOK'
    BY <1>14 DEF VudcRxBusy, ThreadOK
  <2>4. EpOK' /\ QueueOK' /\ TimerOK' /\ SweepOK' /\ FileOK'
    BY <1>14 DEF VudcRxBusy, EpOK, QueueOK, TimerOK, SweepOK, FileOK
  <2> QED BY <2>1, <2>2, <2>3, <2>4
<1>15. CASE VudcRxUnknown
  <2>1. VudcNetTypeOK'
    BY <1>15, HeadTailProperties DEF VudcRxUnknown, VudcNetTypeOK, VudcRecv, CanRecv
  <2>2. ThreadOK'
    BY <1>15 DEF VudcRxUnknown, ThreadOK
  <2>3. EpOK' /\ VevOK' /\ QueueOK' /\ TimerOK' /\ SweepOK' /\ FileOK'
    BY <1>15 DEF VudcRxUnknown, EpOK, VevOK, QueueOK, TimerOK, SweepOK, FileOK
  <2> QED BY <2>1, <2>2, <2>3
<1>16. CASE VudcRxCmdSubmit
  <2> DEFINE h == Head(c2s)
             urbp == [id |-> h.seqnum, seqnum |-> h.seqnum, ep |-> h.ep, ctl |-> h.ctl,
                      windex |-> h.windex, new |-> TRUE, unlinked |-> FALSE]
  <2>1. c2s # <<>> /\ c2s' = Tail(c2s) /\ UNCHANGED <<conn, link, s2c>>
    BY <1>16 DEF VudcRxCmdSubmit, VudcRecv, CanRecv
  <2>2. h \in VudcCmd /\ VudcNetTypeOK'
    BY <2>1, HeadTailProperties DEF VudcNetTypeOK
  <2>3. urbp \in Urbp
    BY <2>2 DEF VudcCmd, Urbp
  <2>4. Append(urb_queue, urbp) \in Seq(Urbp)
    BY <2>3, AppendProperties DEF QueueOK
  <2>5. QueueOK'
    BY <1>16, <2>4 DEF VudcRxCmdSubmit, QueueOK
  <2>6. VevOK'
    BY <1>16, VevTypes DEF VudcRxCmdSubmit, VevOK
  <2>7. TimerOK'
    BY <1>16, TimerTypes DEF VudcRxCmdSubmit, TimerOK
  <2>8. EpOK' /\ SweepOK' /\ FileOK' /\ ThreadOK'
    BY <1>16 DEF VudcRxCmdSubmit, EpOK, SweepOK, FileOK, ThreadOK
  <2> QED BY <2>2, <2>5, <2>6, <2>7, <2>8
<1>17. CASE VudcRxCmdUnlink
  <2> DEFINE h == Head(c2s)
  <2>1. c2s # <<>> /\ c2s' = Tail(c2s) /\ UNCHANGED <<conn, link, s2c>>
    BY <1>17 DEF VudcRxCmdUnlink, VudcRecv, CanRecv
  <2>2. h \in VudcCmd /\ VudcNetTypeOK'
    BY <2>1, HeadTailProperties DEF VudcNetTypeOK
  <2>3. h.seqnum \in Nat
    BY <2>2, SMTT(60) DEF VudcCmd
  <2>4. urb_queue' \in Seq(Urbp)
    <3>1. CASE UNCHANGED urb_queue
      BY <3>1 DEF QueueOK
    <3>2. ASSUME NEW i \in DOMAIN urb_queue, urb_queue' = MarkedUrb(urb_queue, i, h.seqnum)
          PROVE  urb_queue' \in Seq(Urbp)
      BY <2>3, <3>2, MarkedUrbFacts DEF QueueOK
    <3> QED BY <1>17, <3>1, <3>2 DEF VudcRxCmdUnlink, MarkedUrb
  <2>5. TimerOK'
    BY <1>17, TimerTypes DEF VudcRxCmdUnlink, TimerOK
  <2>6. /\ tx_queue' \in Seq(TxItem) /\ VevOK'
        /\ vtx' \in {"off", "head", "send", "wait", "asleep", "exit", "oops"}
    <3>1. CASE EnqueueRet("UNLINK", h.seqnum) /\ WakeVtx
      BY <1>0, <2>3, <3>1, EnqueueRetType DEF WakeVtx, VevOK, ThreadOK
    <3>2. CASE UNCHANGED <<vev, tx_queue, vtx>>
      BY <3>2 DEF VevOK, QueueOK, ThreadOK
    <3> QED BY <1>17, <3>1, <3>2 DEF VudcRxCmdUnlink
  <2>7. EpOK' /\ SweepOK' /\ FileOK'
    BY <1>17, ZenonT(60) DEF VudcRxCmdUnlink, EpOK, SweepOK, FileOK
  <2>8. ThreadOK'
    BY <1>17, <2>6 DEF VudcRxCmdUnlink, ThreadOK
  <2> QED BY <2>2, <2>4, <2>5, <2>6, <2>7, <2>8 DEF QueueOK
<1>18. CASE VudcTxHead
  <2>1. ThreadOK'
    BY <1>18 DEF VudcTxHead, ThreadOK
  <2>2. VudcNetTypeOK' /\ EpOK' /\ VevOK' /\ QueueOK' /\ TimerOK' /\ SweepOK' /\ FileOK'
    BY <1>18 DEF VudcTxHead, VudcNetTypeOK, EpOK, VevOK, QueueOK, TimerOK, SweepOK, FileOK
  <2> QED BY <2>1, <2>2
<1>19. CASE VudcTxSend
  <2>1. Head(tx_queue) \in TxItem /\ Tail(tx_queue) \in Seq(TxItem)
    BY <1>19, HeadTailProperties DEF VudcTxSend, QueueOK
  <2>2. Append(s2c, Head(tx_queue)) \in Seq(TxItem)
    BY <2>1, AppendProperties DEF VudcNetTypeOK
  <2>3. VudcNetTypeOK'
    BY <1>19, <2>2 DEF VudcTxSend, VudcNetTypeOK
  <2>4. VevOK'
    BY <1>19, VevTypes DEF VudcTxSend, VevOK
  <2>5. QueueOK'
    BY <1>19, <2>1 DEF VudcTxSend, QueueOK
  <2>6. EpOK' /\ TimerOK' /\ SweepOK' /\ FileOK' /\ ThreadOK'
    BY <1>19 DEF VudcTxSend, EpOK, TimerOK, SweepOK, FileOK, ThreadOK
  <2> QED BY <2>3, <2>4, <2>5, <2>6
<1>20. CASE VudcTxWait
  <2>1. ThreadOK'
    BY <1>20 DEF VudcTxWait, ThreadOK
  <2>2. VudcNetTypeOK' /\ EpOK' /\ VevOK' /\ QueueOK' /\ TimerOK' /\ SweepOK' /\ FileOK'
    BY <1>20 DEF VudcTxWait, VudcNetTypeOK, EpOK, VevOK, QueueOK, TimerOK, SweepOK, FileOK
  <2> QED BY <2>1, <2>2
<1>21. CASE VudcEhPop
  <2>1. VevOK'
    BY <1>21, VevTypes DEF VudcEhPop, VevOK
  <2>2. ThreadOK'
    BY <1>21 DEF VudcEhPop, ThreadOK
  <2>3. VudcNetTypeOK' /\ EpOK' /\ QueueOK' /\ TimerOK' /\ SweepOK' /\ FileOK'
    BY <1>21 DEF VudcEhPop, VudcNetTypeOK, EpOK, QueueOK, TimerOK, SweepOK, FileOK
  <2> QED BY <2>1, <2>2, <2>3
<1>22. CASE VudcEhUnlink
  <2>1. VudcNetTypeOK'
    BY <1>22 DEF VudcEhUnlink, VudcNetTypeOK, ShutdownConnection
  <2>2. ThreadOK'
    BY <1>22 DEF VudcEhUnlink, ThreadOK
  <2>3. EpOK' /\ VevOK' /\ QueueOK' /\ TimerOK' /\ SweepOK' /\ FileOK'
    BY <1>22 DEF VudcEhUnlink, EpOK, VevOK, QueueOK, TimerOK, SweepOK, FileOK
  <2> QED BY <2>1, <2>2, <2>3
<1>23. CASE VudcEhStopRx
  <2>1. ThreadOK'
    BY <1>23 DEF VudcEhStopRx, ThreadOK, WakeVtx
  <2>2. VudcNetTypeOK' /\ EpOK' /\ VevOK' /\ QueueOK' /\ TimerOK' /\ SweepOK' /\ FileOK'
    BY <1>23 DEF VudcEhStopRx, VudcNetTypeOK, EpOK, VevOK, QueueOK, TimerOK, SweepOK, FileOK
  <2> QED BY <2>1, <2>2
<1>24. CASE VudcEhStopTx
  <2>1. FileOK'
    BY <1>24 DEF VudcEhStopTx, FileOK
  <2>2. ThreadOK'
    BY <1>24 DEF VudcEhStopTx, ThreadOK
  <2>3. VudcNetTypeOK' /\ EpOK' /\ VevOK' /\ QueueOK' /\ TimerOK' /\ SweepOK'
    BY <1>24 DEF VudcEhStopTx, VudcNetTypeOK, EpOK, VevOK, QueueOK, TimerOK, SweepOK
  <2> QED BY <2>1, <2>2, <2>3
<1>25. CASE VudcEhStopActivity
  <2>1. EpOK'
    BY <1>25, NukeType DEF VudcEhStopActivity, EpOK, StopActivity
  <2>2. VevOK'
    BY <1>25, VevTypes DEF VudcEhStopActivity, VevOK, Bits
  <2>3. QueueOK'
    BY <1>25, EmptySeq DEF VudcEhStopActivity, QueueOK, StopActivity
  <2>4. FileOK'
    BY <1>25 DEF VudcEhStopActivity, FileOK
  <2>5. ThreadOK'
    BY <1>25 DEF VudcEhStopActivity, ThreadOK, StopActivity
  <2>6. VudcNetTypeOK' /\ TimerOK' /\ SweepOK'
    BY <1>25 DEF VudcEhStopActivity, VudcNetTypeOK, TimerOK, SweepOK
  <2> QED BY <2>1, <2>2, <2>3, <2>4, <2>5, <2>6
<1>26. CASE VudcEhReset
  <2>1. EpOK'
    BY <1>26, NukeType DEF VudcEhReset, EpOK, StopActivity
  <2>2. QueueOK'
    BY <1>26, EmptySeq DEF VudcEhReset, QueueOK, StopActivity
  <2>3. FileOK'
    BY <1>26 DEF VudcEhReset, FileOK
  <2>4. ThreadOK'
    BY <1>26 DEF VudcEhReset, ThreadOK, StopActivity
  <2>5. VudcNetTypeOK' /\ VevOK' /\ TimerOK' /\ SweepOK'
    BY <1>26 DEF VudcEhReset, VudcNetTypeOK, VevOK, TimerOK, SweepOK
  <2> QED BY <2>1, <2>2, <2>3, <2>4, <2>5
<1>27. CASE VudcEhNoReset
  <2>1. ThreadOK'
    BY <1>27 DEF VudcEhNoReset, ThreadOK
  <2>2. VudcNetTypeOK' /\ EpOK' /\ VevOK' /\ QueueOK' /\ TimerOK' /\ SweepOK' /\ FileOK'
    BY <1>27 DEF VudcEhNoReset, VudcNetTypeOK, EpOK, VevOK, QueueOK, TimerOK, SweepOK, FileOK
  <2> QED BY <2>1, <2>2
<1>28. CASE VudcEhUnsetReset
  <2>1. VevOK'
    BY <1>28, VevTypes DEF VudcEhUnsetReset, VevOK, Bits
  <2>2. ThreadOK'
    BY <1>28 DEF VudcEhUnsetReset, ThreadOK
  <2>3. VudcNetTypeOK' /\ EpOK' /\ QueueOK' /\ TimerOK' /\ SweepOK' /\ FileOK'
    BY <1>28 DEF VudcEhUnsetReset, VudcNetTypeOK, EpOK, QueueOK, TimerOK, SweepOK, FileOK
  <2> QED BY <2>1, <2>2, <2>3
<1>29. CASE VudcEhUnusable
  <2>1. VevOK'
    BY <1>29, VevTypes DEF VudcEhUnusable, VevOK, Bits
  <2>2. FileOK'
    BY <1>29 DEF VudcEhUnusable, FileOK
  <2>3. ThreadOK'
    BY <1>29 DEF VudcEhUnusable, ThreadOK
  <2>4. VudcNetTypeOK' /\ EpOK' /\ QueueOK' /\ TimerOK' /\ SweepOK'
    BY <1>29 DEF VudcEhUnusable, VudcNetTypeOK, EpOK, QueueOK, TimerOK, SweepOK
  <2> QED BY <2>1, <2>2, <2>3, <2>4
<1>30. CASE VudcStartRx
  <2>1. FileOK'
    BY <1>30 DEF VudcStartRx, FileOK
  <2>2. ThreadOK'
    BY <1>30 DEF VudcStartRx, ThreadOK
  <2>3. VudcNetTypeOK' /\ EpOK' /\ VevOK' /\ QueueOK' /\ TimerOK' /\ SweepOK'
    BY <1>30 DEF VudcStartRx, VudcNetTypeOK, EpOK, VevOK, QueueOK, TimerOK, SweepOK
  <2> QED BY <2>1, <2>2, <2>3
<1>31. CASE VudcStartTx
  <2>1. FileOK'
    BY <1>31 DEF VudcStartTx, FileOK
  <2>2. ThreadOK'
    BY <1>31 DEF VudcStartTx, ThreadOK
  <2>3. VudcNetTypeOK' /\ EpOK' /\ VevOK' /\ QueueOK' /\ TimerOK' /\ SweepOK'
    BY <1>31 DEF VudcStartTx, VudcNetTypeOK, EpOK, VevOK, QueueOK, TimerOK, SweepOK
  <2> QED BY <2>1, <2>2, <2>3
<1>32. CASE VudcStoreUsed
  <2>1. TimerOK'
    BY <1>32, TimerTypes DEF VudcStoreUsed, TimerOK
  <2>2. FileOK'
    BY <1>32 DEF VudcStoreUsed, FileOK
  <2>3. VudcNetTypeOK' /\ EpOK' /\ VevOK' /\ QueueOK' /\ SweepOK' /\ ThreadOK'
    BY <1>32 DEF VudcStoreUsed, VudcNetTypeOK, EpOK, VevOK, QueueOK, SweepOK, ThreadOK
  <2> QED BY <2>1, <2>2, <2>3
<1>33. CASE VudcStoreDown
  <2>1. VevOK'
    BY <1>33, VevTypes DEF VudcStoreDown, VevOK
  <2>2. VudcNetTypeOK' /\ EpOK' /\ QueueOK' /\ TimerOK' /\ SweepOK' /\ FileOK' /\ ThreadOK'
    BY <1>33 DEF VudcStoreDown, VudcNetTypeOK, EpOK, QueueOK, TimerOK, SweepOK, FileOK, ThreadOK
  <2> QED BY <2>1, <2>2
<1>34. CASE VudcStoreSockfd
  <2>1. VudcNetTypeOK'
    BY <1>34 DEF VudcStoreSockfd, VudcNetTypeOK
  <2>2. FileOK'
    BY <1>34 DEF VudcStoreSockfd, FileOK, VudcNetTypeOK
  <2>3. EpOK' /\ VevOK' /\ QueueOK' /\ TimerOK' /\ SweepOK' /\ ThreadOK'
    BY <1>34 DEF VudcStoreSockfd, EpOK, VevOK, QueueOK, TimerOK, SweepOK, ThreadOK
  <2> QED BY <2>1, <2>2, <2>3
<1>35. CASE GadgetStart
  <2>1. FileOK'
    BY <1>35 DEF GadgetStart, FileOK, gadgetRest
  <2>2. VudcNetTypeOK' /\ EpOK' /\ VevOK' /\ QueueOK' /\ TimerOK' /\ SweepOK' /\ ThreadOK'
    BY <1>35 DEF GadgetStart, VudcNetTypeOK, EpOK, VevOK, QueueOK, TimerOK, SweepOK, ThreadOK, gadgetRest
  <2> QED BY <2>1, <2>2
<1>36. CASE GadgetPullup
  <2>1. VevOK'
    BY <1>36, VevTypes DEF GadgetPullup, VevOK, gadgetRest
  <2>2. FileOK'
    BY <1>36 DEF GadgetPullup, FileOK, gadgetRest
  <2>3. VudcNetTypeOK' /\ EpOK' /\ QueueOK' /\ TimerOK' /\ SweepOK' /\ ThreadOK'
    BY <1>36 DEF GadgetPullup, VudcNetTypeOK, EpOK, QueueOK, TimerOK, SweepOK, ThreadOK, gadgetRest
  <2> QED BY <2>1, <2>2, <2>3
<1>37. CASE GadgetPulldown
  <2>1. VevOK'
    BY <1>37, VevTypes DEF GadgetPulldown, VevOK, gadgetRest
  <2>2. FileOK'
    BY <1>37 DEF GadgetPulldown, FileOK, gadgetRest
  <2>3. VudcNetTypeOK' /\ EpOK' /\ QueueOK' /\ TimerOK' /\ SweepOK' /\ ThreadOK'
    BY <1>37 DEF GadgetPulldown, VudcNetTypeOK, EpOK, QueueOK, TimerOK, SweepOK, ThreadOK, gadgetRest
  <2> QED BY <2>1, <2>2, <2>3
<1>38. CASE GadgetStop
  <2>1. FileOK'
    BY <1>38 DEF GadgetStop, FileOK, gadgetRest
  <2>2. VudcNetTypeOK' /\ EpOK' /\ VevOK' /\ QueueOK' /\ TimerOK' /\ SweepOK' /\ ThreadOK'
    BY <1>38 DEF GadgetStop, VudcNetTypeOK, EpOK, VevOK, QueueOK, TimerOK, SweepOK, ThreadOK, gadgetRest
  <2> QED BY <2>1, <2>2
<1>39. ASSUME NEW e \in DataEps, VepEnable(e) PROVE VudcNetTypeOK' /\ Groups'
  <2>0. e \in Eps /\ ep[e] \in Endpoint
    BY DEF EpOK, Eps
  <2>1. PICK isoc \in BOOLEAN :
           SetEp(e, [ep[e] EXCEPT !.desc = TRUE, !.isoc = isoc, !.halted = FALSE, !.wedged = FALSE])
    BY <1>39 DEF VepEnable
  <2>2. [ep[e] EXCEPT !.desc = TRUE, !.isoc = isoc, !.halted = FALSE, !.wedged = FALSE] \in Endpoint
    BY <2>0 DEF Endpoint
  <2>3. \E r \in Endpoint : SetEp(e, r)
    BY <2>1, <2>2
  <2> HIDE DEF Groups
  <2> QED BY <2>0, <2>3, SetEpType
<1>40. ASSUME NEW e \in DataEps, VepDisable(e) PROVE VudcNetTypeOK' /\ Groups'
  <2>0. e \in Eps /\ ep[e] \in Endpoint /\ 0 \in 0 .. MaxReq
    BY VudcAssumption DEF EpOK, Eps
  <2>1. SetEp(e, [ep[e] EXCEPT !.desc = FALSE, !.reqs = 0])
    BY <1>40 DEF VepDisable
  <2>2. [ep[e] EXCEPT !.desc = FALSE, !.reqs = 0] \in Endpoint
    BY <2>0 DEF Endpoint
  <2>3. \E r \in Endpoint : SetEp(e, r)
    BY <2>1, <2>2
  <2> HIDE DEF Groups
  <2> QED BY <2>0, <2>3, SetEpType
<1>41. ASSUME NEW e \in Eps, VepQueue(e) PROVE VudcNetTypeOK' /\ Groups'
  <2>0. e \in Eps /\ ep[e] \in Endpoint
    BY DEF EpOK, Eps
  <2>1. SetEp(e, [ep[e] EXCEPT !.reqs = @ + 1]) /\ ep[e].reqs < MaxReq
    BY <1>41 DEF VepQueue
  <2>2. [ep[e] EXCEPT !.reqs = @ + 1] \in Endpoint
    BY <2>0, <2>1 DEF Endpoint
  <2>3. \E r \in Endpoint : SetEp(e, r)
    BY <2>1, <2>2
  <2> HIDE DEF Groups
  <2> QED BY <2>0, <2>3, SetEpType
<1>42. ASSUME NEW e \in Eps, VepDequeue(e) PROVE VudcNetTypeOK' /\ Groups'
  <2>0. e \in Eps /\ ep[e] \in Endpoint
    BY DEF EpOK, Eps
  <2>1. SetEp(e, [ep[e] EXCEPT !.reqs = @ - 1]) /\ ep[e].reqs > 0
    BY <1>42 DEF VepDequeue
  <2>2. [ep[e] EXCEPT !.reqs = @ - 1] \in Endpoint
    BY <2>0, <2>1 DEF Endpoint
  <2>3. \E r \in Endpoint : SetEp(e, r)
    BY <2>1, <2>2
  <2> HIDE DEF Groups
  <2> QED BY <2>0, <2>3, SetEpType
<1>43. ASSUME NEW e \in Eps, VepSetHalt(e) PROVE VudcNetTypeOK' /\ Groups'
  <2>0. e \in Eps /\ ep[e] \in Endpoint
    BY DEF EpOK, Eps
  <2>1. ASSUME SetEp(e, [ep[e] EXCEPT !.halted = FALSE, !.wedged = FALSE])
        PROVE  \E r \in Endpoint : SetEp(e, r)
    <3>1. [ep[e] EXCEPT !.halted = FALSE, !.wedged = FALSE] \in Endpoint
      BY <2>0 DEF Endpoint
    <3> QED BY <2>1, <3>1
  <2>2. ASSUME \E wedged \in BOOLEAN :
                  SetEp(e, [ep[e] EXCEPT !.halted = TRUE, !.wedged = @ \/ wedged])
        PROVE  \E r \in Endpoint : SetEp(e, r)
    <3>1. PICK wedged \in BOOLEAN :
             SetEp(e, [ep[e] EXCEPT !.halted = TRUE, !.wedged = @ \/ wedged])
      BY <2>2
    <3>2. [ep[e] EXCEPT !.halted = TRUE, !.wedged = @ \/ wedged] \in Endpoint
      BY <2>0 DEF Endpoint
    <3> QED BY <3>1, <3>2
  <2>3. \E r \in Endpoint : SetEp(e, r)
    BY <1>43, <2>1, <2>2 DEF VepSetHalt
  <2> HIDE DEF Groups
  <2> QED BY <2>0, <2>3, SetEpType
<1>44. CASE VudcClient
  BY <1>44 DEF VudcClient, vudcVars, EpOK, VevOK, QueueOK, TimerOK, SweepOK, FileOK, ThreadOK
<1>45. CASE UNCHANGED <<netVars, vudcVars>>
  BY <1>45 DEF vudcVars, VudcNetTypeOK, EpOK, VevOK, QueueOK, TimerOK, SweepOK, FileOK, ThreadOK
<1> HIDE DEF Groups
<1> QED
  BY <1>1, <1>2, <1>3, <1>4, <1>5, <1>6, <1>7, <1>8, <1>9, <1>10, <1>11, <1>12, <1>13, <1>14, <1>15, <1>16, <1>17, <1>18, <1>19, <1>20, <1>21, <1>22, <1>23, <1>24, <1>25, <1>26, <1>27, <1>28, <1>29, <1>30, <1>31, <1>32, <1>33, <1>34, <1>35, <1>36, <1>37, <1>38, <1>39, <1>40, <1>41, <1>42, <1>43, <1>44, <1>45
  DEF VudcNext, VudcStep, VudcTimer, VudcRx, VudcTx, VudcEh, VudcStore, Gadget

\* The controller starts without a connection, a gadget driver or a request.
LEMMA ControllerInit == NetInit /\ VudcInit => ControllerTypeOK
<1> SUFFICES ASSUME NetInit, VudcInit PROVE VudcNetTypeOK /\ VudcTypeOK
  BY DEF ControllerTypeOK
<1>1. ep \in [Eps -> Endpoint]
  BY VudcAssumption DEF VudcInit, DisabledEp, Endpoint
<1> QED BY <1>1, EmptySeq DEF NetInit, VudcInit, VudcIdle, VudcNetTypeOK, VudcTypeOK, NoEvent, NoSweep,
                              EventWord

\* Types along every behaviour, whatever the client and the gadget driver do.
\* In particular an endpoint never has more requests than were queued on it, and
\* the identity the walk of the timer keeps is a seqnum or 0.
THEOREM VudcTypeCorrect == VudcSpec => []VudcTypeOK
<1>1. ControllerTypeOK => VudcTypeOK
  BY DEF ControllerTypeOK
<1> QED BY <1>1, ControllerInit, ControllerTypeStep, PTL DEF VudcSpec

-------------------------------------------------------------------------------
(* The timer covers the queue.                                               *)

\* Inductive: a running timer is armed or sweeping; a used controller's timer was
\* started, so that a kick arms it; and a queued URB was followed by a kick, after
\* which only a sweep that finds the queue empty makes the timer idle again.
Kicked ==
    /\ timer.state = "RUNNING" => timer.armed \/ sweep.pc # "off"
    /\ vstatus = "USED" => timer.state # "STOPPED"
    /\ urb_queue # <<>> => timer.state = "RUNNING" \/ sweep.pc = "oops"

\* A step of the walk that neither ends it nor adds a URB.
LEMMA WalkKicked ==
    ASSUME Kicked, UNCHANGED <<timer, vstatus>>, sweep.pc # "oops", sweep'.pc # "off",
           urb_queue' # <<>> => urb_queue # <<>>
    PROVE  Kicked'
BY DEF Kicked

\* A step that touches nothing of this.
LEMMA FrameKicked ==
    ASSUME Kicked, UNCHANGED <<timer, vstatus, sweep, urb_queue>>
    PROVE  Kicked'
BY DEF Kicked

\* return_urb: the walk goes on, and the queue was not empty.
LEMMA ReturnKicked ==
    ASSUME VudcTypeOK, Kicked, NEW i \in DOMAIN urb_queue, ReturnUrb(i), sweep.pc # "oops",
           UNCHANGED <<timer, vstatus>>
    PROVE  Kicked'
<1>1. urb_queue # <<>>
  BY DEF VudcTypeOK
<1>2. sweep'.pc # "off"
  BY ReturnUrbType
<1> QED BY <1>1, <1>2, WalkKicked

\* v_kick_timer on a timer that was started.
LEMMA KickRuns ==
    ASSUME NEW t \in TimerType, t.state # "STOPPED"
    PROVE  /\ KickTimer(t).state = "RUNNING"
           /\ KickTimer(t).armed \/ (t.state = "RUNNING" /\ KickTimer(t) = t)
BY DEF KickTimer, TimerType

\* Every step of the controller keeps Kicked.
LEMMA KickedStep ==
    ControllerTypeOK /\ Kicked /\ [VudcNext \/ VudcClient]_<<netVars, vudcVars>> => Kicked'
<1> SUFFICES ASSUME VudcTypeOK, Kicked, [VudcNext \/ VudcClient]_<<netVars, vudcVars>>
             PROVE  Kicked'
  BY DEF ControllerTypeOK
<1>0. timer \in TimerType /\ sweep \in SweepType
  BY DEF VudcTypeOK, TimerType, SweepType
<1> USE DEF udcVars
<1>1. CASE SweepStart
  <2>1. sweep'.pc = "scan" /\ timer'.state = timer.state /\ UNCHANGED <<vstatus, urb_queue>>
    BY <1>0, <1>1 DEF SweepStart, NoSweep, TimerType
  <2> QED BY <1>1, <2>1 DEF Kicked, SweepStart
<1>2. CASE SweepLost
  <2>1. sweep'.pc = "oops" /\ UNCHANGED <<timer, vstatus, urb_queue>>
    BY <1>2 DEF SweepLost, NoSweep
  <2> QED BY <2>1 DEF Kicked
<1>3. CASE SweepUnlinked
  BY <1>3, ReturnKicked DEF SweepUnlinked, Visiting
<1>4. CASE SweepSkip
  <2>1. sweep.pc = "scan" /\ sweep'.pc = "scan"
    BY <1>0, <1>4 DEF SweepSkip, Visiting, SweepType
  <2> QED BY <1>4, <2>1, WalkKicked DEF SweepSkip
<1>5. CASE SweepSetup
  <2>1. PICK i \in DOMAIN urb_queue :
           /\ sweep.pc = "scan"
           /\ \/ /\ \E pc \in {"transfer", "setup"}, done \in BOOLEAN :
                       sweep' = [sweep EXCEPT !.pc = pc, !.next = IdAt(urb_queue, i + 1),
                                              !.done = done, !.seen = @ \cup {EP0}]
              \/ ReturnUrb(i)
    BY <1>5 DEF SweepSetup, Visiting
  <2>2. UNCHANGED <<timer, vstatus>>
    BY <1>5 DEF SweepSetup
  <2>5. urb_queue # <<>>
    OBVIOUS
  <2>3. CASE ReturnUrb(i)
    BY <2>1, <2>2, <2>3, ReturnKicked
  <2>4. CASE \E pc \in {"transfer", "setup"}, done \in BOOLEAN :
                sweep' = [sweep EXCEPT !.pc = pc, !.next = IdAt(urb_queue, i + 1),
                                       !.done = done, !.seen = @ \cup {EP0}]
    <3>1. sweep'.pc # "off"
      BY <1>0, <2>4 DEF SweepType
    <3> QED BY <2>1, <2>2, <2>5, <3>1, WalkKicked
  <2> QED BY <2>1, <2>3, <2>4
<1>6. CASE SweepSetupDone
  <2>1. CASE sweep' = [sweep EXCEPT !.pc = "transfer"] /\ UNCHANGED urb_queue
    <3>1. sweep'.pc = "transfer"
      BY <1>0, <2>1 DEF SweepType
    <3> QED BY <1>6, <2>1, <3>1, WalkKicked DEF SweepSetupDone
  <2>2. CASE \E i \in IndexOf(sweep.cur) : ReturnUrb(i)
    BY <1>6, <2>2, ReturnKicked DEF SweepSetupDone, IndexOf
  <2> QED BY <1>6, <2>1, <2>2 DEF SweepSetupDone
<1>7. CASE SweepRefuse
  BY <1>7, ReturnKicked DEF SweepRefuse, Visiting
<1>8. CASE SweepTransfer
  <2>1. PICK i \in DOMAIN urb_queue :
           /\ sweep.pc = "scan"
           /\ sweep' = [sweep EXCEPT !.pc = "transfer", !.next = IdAt(urb_queue, i + 1),
                                     !.done = FALSE, !.seen = @ \cup {urb_queue[i].ep}]
    BY <1>8 DEF SweepTransfer, Visiting
  <2>2. sweep'.pc = "transfer"
    BY <1>0, <2>1 DEF SweepType
  <2> QED BY <1>8, <2>1, <2>2, WalkKicked DEF SweepTransfer
<1>9. CASE TransferRound
  <2>1. sweep.pc = "transfer" /\ UNCHANGED <<timer, vstatus>>
    BY <1>9 DEF TransferRound
  <2>2. CASE \E i \in IndexOf(sweep.cur) : ReturnUrb(i)
    BY <2>1, <2>2, ReturnKicked DEF IndexOf
  <2>3. CASE /\ \/ sweep' = [sweep EXCEPT !.pc = "scan", !.cur = sweep.next]
                \/ \E done \in {sweep.done, TRUE} :
                      sweep' = [sweep EXCEPT !.pc = "giveback", !.done = done]
             /\ UNCHANGED urb_queue
    <3>1. sweep'.pc # "off"
      BY <1>0, <2>3 DEF SweepType
    <3> QED BY <2>1, <2>3, <3>1, WalkKicked
  <2> QED BY <1>9, <2>2, <2>3 DEF TransferRound
<1>10. CASE TransferGivenBack
  <2>1. sweep.pc = "giveback" /\ UNCHANGED <<timer, vstatus>>
    BY <1>10 DEF TransferGivenBack
  <2>2. CASE \E i \in IndexOf(sweep.cur) : ReturnUrb(i)
    BY <2>1, <2>2, ReturnKicked DEF IndexOf
  <2>3. CASE /\ sweep' \in {[sweep EXCEPT !.pc = "transfer"], [NoSweep EXCEPT !.pc = "oops"]}
             /\ UNCHANGED urb_queue
    <3>1. sweep'.pc # "off"
      BY <1>0, <2>3 DEF SweepType, NoSweep
    <3> QED BY <2>1, <2>3, <3>1, WalkKicked
  <2> QED BY <1>10, <2>2, <2>3 DEF TransferGivenBack
<1>11. CASE SweepEnd
  <2>1. CASE urb_queue = <<>>
    <3>1. timer'.state = "IDLE" /\ urb_queue' = <<>>
      BY <1>0, <1>11, <2>1 DEF SweepEnd, TimerType
    <3> QED BY <3>1 DEF Kicked
  <2>2. CASE urb_queue # <<>>
    <3>1. timer.state = "RUNNING"
      BY <1>11, <2>2 DEF SweepEnd, Kicked
    <3>2. timer'.state = "RUNNING" /\ timer'.armed
      BY <1>0, <1>11, <2>2, <3>1 DEF SweepEnd, TimerType
    <3> QED BY <3>2 DEF Kicked
  <2> QED BY <2>1, <2>2
<1>12. ASSUME vstatus = "USED", timer' = KickTimer(timer), UNCHANGED <<vstatus, sweep>>
       PROVE  Kicked'
  <2>1. timer.state # "STOPPED"
    BY <1>12 DEF Kicked
  <2>2. timer'.state = "RUNNING" /\ (timer'.armed \/ (timer.state = "RUNNING" /\ timer' = timer))
    BY <1>0, <1>12, <2>1, KickRuns
  <2> QED BY <1>12, <2>2 DEF Kicked
<1>13. CASE VudcRxCmdSubmit
  <2>1. CASE UNCHANGED <<urb_queue, timer>>
    BY <1>13, <2>1, FrameKicked DEF VudcRxCmdSubmit
  <2>2. CASE timer' = KickTimer(timer)
    BY <1>12, <1>13, <2>2 DEF VudcRxCmdSubmit
  <2> QED BY <1>13, <2>1, <2>2 DEF VudcRxCmdSubmit
<1>14. CASE VudcRxCmdUnlink
  <2>1. CASE UNCHANGED <<urb_queue, timer>>
    BY <1>14, <2>1, FrameKicked DEF VudcRxCmdUnlink
  <2>2. CASE timer' = KickTimer(timer)
    BY <1>12, <1>14, <2>2 DEF VudcRxCmdUnlink
  <2> QED BY <1>14, <2>1, <2>2 DEF VudcRxCmdUnlink
<1>15. CASE VudcEhStopActivity
  <2>1. UNCHANGED <<timer, vstatus, sweep>> /\ (urb_queue' = urb_queue \/ urb_queue' = <<>>)
    BY <1>15 DEF VudcEhStopActivity, StopActivity
  <2> QED BY <2>1 DEF Kicked
<1>16. CASE VudcEhReset
  <2>1. /\ UNCHANGED <<timer, sweep>>
        /\ urb_queue' = urb_queue \/ urb_queue' = <<>>
        /\ vstatus' = vstatus \/ vstatus' = "AVAILABLE"
    BY <1>16 DEF VudcEhReset, StopActivity
  <2> QED BY <2>1 DEF Kicked
<1>17. CASE VudcEhUnusable
  <2>1. UNCHANGED <<timer, sweep, urb_queue>> /\ (vstatus' = vstatus \/ vstatus' = "ERROR")
    BY <1>17 DEF VudcEhUnusable
  <2> QED BY <2>1 DEF Kicked
<1>18. CASE VudcStoreUsed
  <2>1. timer' = StartTimer(timer) /\ UNCHANGED <<sweep, urb_queue>>
    BY <1>18 DEF VudcStoreUsed
  <2>2. CASE timer.state = "RUNNING"
    <3>1. timer' = timer
      BY <2>1, <2>2 DEF StartTimer
    <3> QED BY <2>1, <2>2, <3>1 DEF Kicked
  <2>3. CASE timer.state # "RUNNING"
    <3>1. timer'.state = "RUNNING" /\ timer'.armed
      BY <1>0, <2>1, <2>3 DEF StartTimer, KickTimer, TimerType
    <3> QED BY <2>1, <3>1 DEF Kicked
  <2> QED BY <2>2, <2>3
<1>19. ASSUME NEW e \in Eps, \E r : SetEp(e, r) PROVE Kicked'
  BY <1>19, FrameKicked DEF SetEp, gadgetRest
<1>20. CASE Gadget
  <2>1. CASE GadgetStart \/ GadgetPullup \/ GadgetPulldown \/ GadgetStop
    BY <2>1, FrameKicked DEF GadgetStart, GadgetPullup, GadgetPulldown, GadgetStop, gadgetRest
  <2>2. CASE \E e \in DataEps : VepEnable(e) \/ VepDisable(e)
    BY <1>19, <2>2 DEF VepEnable, VepDisable, Eps
  <2>3. CASE \E e \in Eps : VepQueue(e) \/ VepDequeue(e) \/ VepSetHalt(e)
    BY <1>19, <2>3 DEF VepQueue, VepDequeue, VepSetHalt
  <2> QED BY <1>20, <2>1, <2>2, <2>3 DEF Gadget
<1>21. CASE \/ VudcRxHead \/ VudcRxFailed \/ VudcRxBusy \/ VudcRxUnknown \/ VudcTx
            \/ VudcEhPop \/ VudcEhUnlink \/ VudcEhStopRx \/ VudcEhStopTx \/ VudcEhNoReset
            \/ VudcEhUnsetReset \/ VudcStartRx \/ VudcStartTx \/ VudcStoreDown \/ VudcStoreSockfd
            \/ VudcClient \/ UNCHANGED <<netVars, vudcVars>>
  BY <1>21, FrameKicked
  DEF VudcRxHead, VudcRxFailed, VudcRxBusy, VudcRxUnknown, VudcTx, VudcTxHead, VudcTxSend,
      VudcTxWait, VudcEhPop, VudcEhUnlink, VudcEhStopRx, VudcEhStopTx, VudcEhNoReset,
      VudcEhUnsetReset, VudcStartRx, VudcStartTx, VudcStoreDown, VudcStoreSockfd, VudcClient,
      vudcVars
<1> QED
  BY <1>1, <1>2, <1>3, <1>4, <1>5, <1>6, <1>7, <1>8, <1>9, <1>10, <1>11, <1>13, <1>14, <1>15,
     <1>16, <1>17, <1>18, <1>20, <1>21
  DEF VudcNext, VudcStep, VudcTimer, VudcRx, VudcTx, VudcEh, VudcStore

\* No kick of v_timer is lost: a URB on urb_queue always has a timer that is armed
\* or in its sweep, for any number of URBs, endpoints and connections.
THEOREM NoKickLost == VudcSpec => []TimerCoversQueue
<1>1. NetInit /\ VudcInit => Kicked
  BY DEF VudcInit, VudcIdle, Kicked
<1>2. Kicked => TimerCoversQueue
  BY DEF Kicked, TimerCoversQueue
<1> QED BY <1>1, <1>2, ControllerInit, ControllerTypeStep, KickedStep, PTL DEF VudcSpec

-------------------------------------------------------------------------------
(* A wedge holds.                                                            *)

\* A step on one endpoint that keeps halted and wedged, or sets them to values
\* that agree, keeps every wedge.
LEMMA OneEpWedge ==
    ASSUME EpOK, WedgeHolds, NEW e \in Eps, NEW r \in Endpoint, ep' = [ep EXCEPT ![e] = r],
           r.wedged => r.halted \/ e = EP0
    PROVE  WedgeHolds'
BY VudcAssumption DEF EpOK, WedgeHolds, Eps

\* handle_control_request never clears the halt of a wedged endpoint.
LEMMA ControlWedge ==
    ASSUME VudcTypeOK, WedgeHolds, NEW u \in Urbp, ep' = ControlEffect(u)
    PROVE  WedgeHolds'
<1>1. u.windex \in DataEps /\ u.windex \in Eps /\ EP0 \in Eps /\ EP0 \notin DataEps /\ u.windex # EP0
  BY VudcAssumption DEF Urbp, Eps
<1>2. ep \in [Eps -> Endpoint]
  BY DEF VudcTypeOK
<1> DEFINE f == [ep EXCEPT ![EP0].halted = FALSE]
<1>3. f \in [Eps -> Endpoint] /\ \A e \in DataEps : f[e] = ep[e]
  BY <1>1, <1>2 DEF Endpoint, Eps
<1>4. CASE ep' = f
  BY <1>3, <1>4 DEF WedgeHolds
<1> HIDE DEF f
<1>5. ASSUME NEW b, ep[u.windex].wedged => b,
             ep' = [f EXCEPT ![u.windex].halted = b]
      PROVE  WedgeHolds'
  <2>1. \A e \in DataEps : e # u.windex => ep'[e] = f[e]
    BY <1>3, <1>5 DEF Eps
  <2>2. ep'[u.windex].halted = b /\ ep'[u.windex].wedged = f[u.windex].wedged
    BY <1>1, <1>3, <1>5 DEF Endpoint
  <2> QED BY <1>1, <1>3, <1>5, <2>1, <2>2 DEF WedgeHolds
<1>6. CASE ep' = [ep EXCEPT ![EP0].halted = FALSE, ![u.windex].halted = TRUE]
  BY <1>5, <1>6 DEF f
<1>7. CASE ep' = [ep EXCEPT ![EP0].halted = FALSE, ![u.windex].halted = @ /\ ep[u.windex].wedged]
  <2>1. \A e \in DataEps : e # u.windex => ep'[e] = ep[e]
    BY <1>1, <1>2, <1>7 DEF Eps
  <2>2. ep'[u.windex].wedged = ep[u.windex].wedged
    BY <1>1, <1>2, <1>7 DEF Endpoint
  <2>3. ep'[u.windex].halted = (ep[u.windex].halted /\ ep[u.windex].wedged)
    BY <1>1, <1>2, <1>7 DEF Endpoint
  <2> QED BY <1>1, <2>1, <2>2, <2>3 DEF WedgeHolds
<1> QED BY <1>4, <1>6, <1>7 DEF ControlEffect, f

\* Every step of the controller keeps WedgeHolds.
LEMMA WedgeStep ==
    ControllerTypeOK /\ WedgeHolds /\ [VudcNext \/ VudcClient]_<<netVars, vudcVars>> => WedgeHolds'
<1> SUFFICES ASSUME VudcTypeOK, WedgeHolds, [VudcNext \/ VudcClient]_<<netVars, vudcVars>>
             PROVE  WedgeHolds'
  BY DEF ControllerTypeOK
<1>0. EpOK /\ \A e \in Eps : ep[e] \in Endpoint
  BY DEF VudcTypeOK, EpOK
<1>1. ASSUME UNCHANGED ep PROVE WedgeHolds'
  BY <1>1 DEF WedgeHolds
<1>2. CASE SweepSetup
  <2>1. PICK i \in DOMAIN urb_queue : ep' = ControlEffect(urb_queue[i])
    BY <1>2 DEF SweepSetup
  <2>2. urb_queue[i] \in Urbp
    BY ElementOfSeq DEF VudcTypeOK
  <2> QED BY <2>1, <2>2, ControlWedge
\* A request less on the queue of an endpoint.
<1>3. ASSUME NEW e \in Eps, ep' = [ep EXCEPT ![e].reqs = @ - 1]
      PROVE  WedgeHolds'
  <2>1. \A d \in Eps : ep'[d].halted = ep[d].halted /\ ep'[d].wedged = ep[d].wedged
    BY <1>0, <1>3 DEF EpOK, Endpoint
  <2> QED BY <2>1 DEF WedgeHolds, Eps
<1>4. CASE TransferRound
  <2>1. CASE UNCHANGED ep
    BY <1>1, <2>1
  <2>2. CASE \E i \in IndexOf(sweep.cur) : ep' = [ep EXCEPT ![urb_queue[i].ep].reqs = @ - 1]
    <3>1. PICK i \in IndexOf(sweep.cur) : ep' = [ep EXCEPT ![urb_queue[i].ep].reqs = @ - 1]
      BY <2>2
    <3>2. urb_queue[i] \in Urbp
      BY <3>1, ElementOfSeq DEF VudcTypeOK, IndexOf
    <3> QED BY <1>3, <3>1, <3>2 DEF Urbp
  <2> QED BY <1>4, <2>1, <2>2 DEF TransferRound
<1>5. CASE VudcEhStopActivity \/ VudcEhReset
  BY <1>1, <1>3, <1>5 DEF VudcEhStopActivity, VudcEhReset, StopActivity, Nuke
<1>6. ASSUME NEW e \in Eps, NEW r \in Endpoint, SetEp(e, r), r.wedged => r.halted \/ e = EP0
      PROVE  WedgeHolds'
  <2>1. ep' = [ep EXCEPT ![e] = r]
    BY <1>6 DEF SetEp
  <2> QED BY <1>0, <1>6, <2>1, OneEpWedge
<1>7. ASSUME NEW e \in DataEps, VepEnable(e) PROVE WedgeHolds'
  <2>1. PICK isoc \in BOOLEAN :
           SetEp(e, [ep[e] EXCEPT !.desc = TRUE, !.isoc = isoc, !.halted = FALSE, !.wedged = FALSE])
    BY <1>7 DEF VepEnable
  <2> DEFINE r == [ep[e] EXCEPT !.desc = TRUE, !.isoc = isoc, !.halted = FALSE, !.wedged = FALSE]
  <2>2. e \in Eps /\ r \in Endpoint /\ ~r.wedged
    BY <1>0 DEF Endpoint, Eps
  <2> HIDE DEF r
  <2>3. SetEp(e, r)
    BY <2>1 DEF r
  <2> QED BY <1>6, <2>2, <2>3
<1>8. ASSUME NEW e \in DataEps, VepDisable(e) PROVE WedgeHolds'
  <2>1. SetEp(e, [ep[e] EXCEPT !.desc = FALSE, !.reqs = 0])
    BY <1>8 DEF VepDisable
  <2> DEFINE r == [ep[e] EXCEPT !.desc = FALSE, !.reqs = 0]
  <2>2. e \in Eps /\ ep[e] \in Endpoint /\ 0 \in 0 .. MaxReq
    BY <1>0, VudcAssumption DEF Eps
  <2>4. r \in Endpoint /\ r.wedged = ep[e].wedged /\ r.halted = ep[e].halted
    BY <2>2 DEF Endpoint
  <2>5. r.wedged => r.halted
    BY <2>4 DEF WedgeHolds
  <2> HIDE DEF r
  <2>3. SetEp(e, r)
    BY <2>1 DEF r
  <2> QED BY <1>6, <2>2, <2>3, <2>4, <2>5
<1>9. ASSUME NEW e \in Eps, VepQueue(e) \/ VepDequeue(e) PROVE WedgeHolds'
  <2>1. PICK n \in 0 .. MaxReq : SetEp(e, [ep[e] EXCEPT !.reqs = n])
    <3>1. ep[e].reqs \in 0 .. MaxReq
      BY <1>0 DEF Endpoint
    <3>2. CASE VepQueue(e)
      <4>1. ep[e].reqs + 1 \in 0 .. MaxReq
        BY <3>1, <3>2, VudcAssumption DEF VepQueue
      <4>2. SetEp(e, [ep[e] EXCEPT !.reqs = ep[e].reqs + 1])
        BY <3>2 DEF VepQueue
      <4> QED BY <4>1, <4>2, Zenon
    <3>3. CASE VepDequeue(e)
      <4>1. ep[e].reqs - 1 \in 0 .. MaxReq
        BY <3>1, <3>3, VudcAssumption DEF VepDequeue
      <4>2. SetEp(e, [ep[e] EXCEPT !.reqs = ep[e].reqs - 1])
        BY <3>3 DEF VepDequeue
      <4> QED BY <4>1, <4>2, Zenon
    <3> QED BY <1>9, <3>2, <3>3
  <2> DEFINE r == [ep[e] EXCEPT !.reqs = n]
  <2>2. r \in Endpoint /\ (r.wedged => r.halted \/ e = EP0)
    BY <1>0 DEF Endpoint, Eps, WedgeHolds
  <2> HIDE DEF r
  <2>3. SetEp(e, r)
    BY <2>1 DEF r
  <2> QED BY <1>6, <2>2, <2>3
<1>10. ASSUME NEW e \in Eps, VepSetHalt(e) PROVE WedgeHolds'
  <2>1. ASSUME SetEp(e, [ep[e] EXCEPT !.halted = FALSE, !.wedged = FALSE])
        PROVE  WedgeHolds'
    <3> DEFINE r == [ep[e] EXCEPT !.halted = FALSE, !.wedged = FALSE]
    <3>1. r \in Endpoint /\ ~r.wedged
      BY <1>0 DEF Endpoint
    <3> HIDE DEF r
    <3>2. SetEp(e, r)
      BY <2>1 DEF r
    <3> QED BY <1>6, <3>1, <3>2
  <2>2. ASSUME NEW wedged \in BOOLEAN,
               SetEp(e, [ep[e] EXCEPT !.halted = TRUE, !.wedged = @ \/ wedged])
        PROVE  WedgeHolds'
    <3> DEFINE r == [ep[e] EXCEPT !.halted = TRUE, !.wedged = @ \/ wedged]
    <3>1. r \in Endpoint /\ r.halted
      BY <1>0 DEF Endpoint
    <3> HIDE DEF r
    <3>2. SetEp(e, r)
      BY <2>2 DEF r
    <3> QED BY <1>6, <3>1, <3>2
  <2> QED BY <1>10, <2>1, <2>2 DEF VepSetHalt
<1>11. CASE Gadget
  <2>1. CASE GadgetStart \/ GadgetPullup \/ GadgetPulldown \/ GadgetStop
    BY <1>1, <2>1, SMTT(60) DEF GadgetStart, GadgetPullup, GadgetPulldown, GadgetStop
  <2> QED BY <1>7, <1>8, <1>9, <1>10, <1>11, <2>1 DEF Gadget
<1>12. CASE \/ SweepStart \/ SweepLost \/ SweepUnlinked \/ SweepSkip \/ SweepSetupDone
            \/ SweepRefuse \/ SweepTransfer \/ TransferGivenBack \/ SweepEnd
  BY <1>1, <1>12, ZenonT(60) DEF SweepStart, SweepLost, SweepUnlinked, SweepSkip, SweepSetupDone, SweepRefuse,
                     SweepTransfer, TransferGivenBack, SweepEnd
<1>13. CASE VudcRx \/ VudcTx
  BY <1>1, <1>13 DEF VudcRx, VudcTx, VudcRxHead, VudcRxFailed, VudcRxBusy, VudcRxUnknown,
                     VudcRxCmdSubmit, VudcRxCmdUnlink, VudcTxHead, VudcTxSend, VudcTxWait
<1>14. CASE \/ VudcEhPop \/ VudcEhUnlink \/ VudcEhStopRx \/ VudcEhStopTx \/ VudcEhNoReset
            \/ VudcEhUnsetReset \/ VudcEhUnusable \/ VudcStore \/ VudcStoreDown \/ VudcStoreSockfd
            \/ VudcClient \/ UNCHANGED <<netVars, vudcVars>>
  BY <1>1, <1>14 DEF VudcEhPop, VudcEhUnlink, VudcEhStopRx, VudcEhStopTx, VudcEhNoReset,
                     VudcEhUnsetReset, VudcEhUnusable, VudcStore, VudcStartRx, VudcStartTx,
                     VudcStoreUsed, VudcStoreDown, VudcStoreSockfd, VudcClient, vudcVars
<1> QED
  BY <1>2, <1>4, <1>5, <1>11, <1>12, <1>13, <1>14
  DEF VudcNext, VudcStep, VudcTimer, VudcEh

\* A wedge outlasts everything but the gadget driver's own clearing of it: no
\* CLEAR_FEATURE, new setup packet, request, teardown or new connection undoes it.
THEOREM WedgeIsKept == VudcSpec => []WedgeHolds
<1>1. NetInit /\ VudcInit => WedgeHolds
  BY DEF VudcInit, DisabledEp, WedgeHolds, Eps
<1> QED BY <1>1, ControllerInit, ControllerTypeStep, WedgeStep, PTL DEF VudcSpec

-------------------------------------------------------------------------------
(* Nothing of one connection reaches the next.                               *)

\* The hypothesis: store_sockfd comes when the event worker has nothing left to do
\* for the controller.  The first connection of a gadget always does; without it a
\* store_sockfd between vudc_shutdown's release of the socket and the worker's
\* last steps is taken into the teardown of the connection before.
QuietSockfd == [][VudcStoreSockfd => veh = "idle" /\ vev = NoEvent]_<<netVars, vudcVars>>

Bare == urb_queue = <<>> /\ vsock = 0

\* Inductive under QuietSockfd.  The worker releases the socket before it frees
\* the URBs and marks the controller available after both; a pass that finds no
\* SHUTDOWN, as its event was handled by the pass before, has nothing to tear
\* down; and a gadget driver that let go of the controller waited for all of it.
LetGo ==
    /\ veh \in {"reset", "unset_reset", "unusable"} => Bare
    /\ veh = "stop_activity" => vsock = 0
    /\ veh = "idle" /\ vev.queued /\ "SHUTDOWN" \notin vev.bits => Bare
    /\ gadget.pullup \/ gadget.unbinding => gadget.driver
    /\ gadget.unbinding => ~gadget.pullup
    /\ gadget.pullup => "BYE" \notin vev.bits
    /\ ~gadget.pullup => Bare \/ (gadget.unbinding /\ "SHUTDOWN" \in vev.bits)
    /\ VudcExportIsClean

\* What usbip_event_add does to the word, as far as the worker's decisions go.
Raised(e, f) ==
    /\ f.bits \cap {"BYE"} = e.bits \cap {"BYE"}
    /\ "SHUTDOWN" \in e.bits => "SHUTDOWN" \in f.bits
    /\ f = e \/ "SHUTDOWN" \in f.bits
\* An event that stops the connection, or fails to allocate, raises it so.
LEMMA EventAddRaises ==
    ASSUME NEW e \in EventWord, NEW mask \in {EVENT_DOWN, EVENT_ERROR_MALLOC}
    PROVE  Raised(e, EventAdd(e, mask))
BY DEF Raised, EventAdd, EVENT_DOWN, EVENT_ERROR_MALLOC, EventWord

\* A controller without a URB and a socket gets neither but from store_sockfd: a
\* vudc_rx that runs on cannot receive.
LEMMA BareStays ==
    ASSUME VudcTypeOK, Bare, [VudcNext \/ VudcClient]_<<netVars, vudcVars>>,
           ~VudcStoreSockfd
    PROVE  Bare'
<1> USE DEF Bare, udcVars
<1>1. CASE VudcTimer
  <2>1. UNCHANGED vsock
    BY <1>1 DEF VudcTimer, SweepStart, SweepLost, SweepUnlinked, SweepSkip, SweepSetup,
                SweepSetupDone, SweepRefuse, SweepTransfer, TransferRound, TransferGivenBack, SweepEnd
  <2>2. ~ \E i \in DOMAIN urb_queue : TRUE
    OBVIOUS
  <2>3. IndexOf(sweep.cur) = {}
    BY <2>2 DEF IndexOf
  <2>4. UNCHANGED urb_queue
    BY <1>1, <2>2, <2>3
    DEF VudcTimer, SweepStart, SweepLost, SweepUnlinked, SweepSkip, SweepSetup, SweepSetupDone,
        SweepRefuse, SweepTransfer, TransferRound, TransferGivenBack, SweepEnd
  <2> QED BY <2>1, <2>4
<1>2. CASE VudcRx
  BY <1>2 DEF VudcRx, VudcRxHead, VudcRxFailed, VudcRxBusy, VudcRxUnknown, VudcRxCmdSubmit,
              VudcRxCmdUnlink, VudcRecv, CanRecv
<1>3. CASE VudcTx
  BY <1>3 DEF VudcTx, VudcTxHead, VudcTxSend, VudcTxWait
<1>4. CASE VudcEh
  BY <1>4 DEF VudcEh, VudcEhPop, VudcEhUnlink, VudcEhStopRx, VudcEhStopTx, VudcEhStopActivity,
              VudcEhReset, VudcEhNoReset, VudcEhUnsetReset, VudcEhUnusable, StopActivity
<1>5. CASE VudcStore \/ VudcStoreDown
  BY <1>5, SMTT(60) DEF VudcStore, VudcStartRx, VudcStartTx, VudcStoreUsed, VudcStoreDown
<1>6. CASE Gadget
  BY <1>6, Zenon DEF Gadget, GadgetStart, GadgetPullup, GadgetPulldown, GadgetStop, VepEnable, VepDisable,
              VepQueue, VepDequeue, VepSetHalt, SetEp, gadgetRest
<1>7. CASE VudcClient \/ UNCHANGED <<netVars, vudcVars>>
  BY <1>7 DEF VudcClient, vudcVars
<1> QED BY <1>1, <1>2, <1>3, <1>4, <1>5, <1>6, <1>7 DEF VudcNext, VudcStep

\* A step of anyone but the worker, store_sockfd's last one and the gadget
\* driver's binding: it may raise an event.
LEMMA Bystander ==
    ASSUME LetGo, Bare => Bare', UNCHANGED <<veh, gadget, connected, vstatus, vsock>>,
           vstore' = "none" => vstore = "none", Raised(vev, vev')
    PROVE  LetGo'
<1>1. "BYE" \notin vev.bits => "BYE" \notin vev'.bits
  BY DEF Raised
<1>2. VudcExportIsClean'
  BY DEF LetGo, VudcExportIsClean, Bare
<1>3. ~gadget'.pullup => Bare' \/ (gadget'.unbinding /\ "SHUTDOWN" \in vev'.bits)
  BY DEF LetGo, Raised
<1>4. veh' = "idle" /\ vev'.queued /\ "SHUTDOWN" \notin vev'.bits => Bare'
  BY DEF LetGo, Raised
<1> QED BY <1>1, <1>2, <1>3, <1>4 DEF LetGo

\* One step per action of the worker, of store_sockfd and of the binding; the
\* others are bystanders.
LEMMA LetGoStep ==
    /\ ControllerTypeOK /\ LetGo /\ [VudcNext \/ VudcClient]_<<netVars, vudcVars>>
    /\ [VudcStoreSockfd => veh = "idle" /\ vev = NoEvent]_<<netVars, vudcVars>>
    => LetGo'
<1> SUFFICES ASSUME VudcTypeOK, LetGo, [VudcNext \/ VudcClient]_<<netVars, vudcVars>>,
                    [VudcStoreSockfd => veh = "idle" /\ vev = NoEvent]_<<netVars, vudcVars>>
             PROVE  LetGo'
  BY DEF ControllerTypeOK
<1> USE DEF udcVars, threadVars
<1>0. vev \in EventWord
  BY DEF VudcTypeOK
<1>1. ~VudcStoreSockfd => (Bare => Bare')
  BY BareStays
<1>2. Raised(vev, vev) /\ Raised(vev, EventAdd(vev, EVENT_DOWN))
      /\ Raised(vev, EventAdd(vev, EVENT_ERROR_MALLOC))
  BY <1>0, EventAddRaises DEF Raised
<1>3. CASE VudcTimer
  <2>1. UNCHANGED <<veh, gadget, connected, vstatus, vsock, vstore>>
    BY <1>3, Zenon DEF VudcTimer, SweepStart, SweepLost, SweepUnlinked, SweepSkip, SweepSetup,
                SweepSetupDone, SweepRefuse, SweepTransfer, TransferRound, TransferGivenBack, SweepEnd
  <2>2. \A i : ReturnUrb(i) => Raised(vev, vev')
    BY <1>2, SMTT(60) DEF ReturnUrb, EnqueueRet
  <2>3. Raised(vev, vev')
    BY <1>2, <1>3, <2>2, Zenon
    DEF VudcTimer, SweepStart, SweepLost, SweepUnlinked, SweepSkip, SweepSetup, SweepSetupDone,
        SweepRefuse, SweepTransfer, TransferRound, TransferGivenBack, SweepEnd
  <2>4. ~VudcStoreSockfd
    BY <2>1 DEF VudcStoreSockfd
  <2>5. Bare => Bare'
    BY <1>1, <2>4, SMTT(60)
  <2> QED BY <2>1, <2>3, <2>5, Bystander, SMTT(60)
<1>4. CASE VudcRx \/ VudcTx
  <2>1. UNCHANGED <<veh, gadget, connected, vstatus, vsock, vstore>>
    BY <1>4, ZenonT(60) DEF VudcRx, VudcRxHead, VudcRxFailed, VudcRxBusy, VudcRxUnknown, VudcRxCmdSubmit,
                VudcRxCmdUnlink, VudcTx, VudcTxHead, VudcTxSend, VudcTxWait
  <2>2. Raised(vev, vev')
    BY <1>2, <1>4, Zenon
    DEF VudcRx, VudcRxHead, VudcRxFailed, VudcRxBusy, VudcRxUnknown, VudcRxCmdSubmit,
        VudcRxCmdUnlink, VudcTx, VudcTxHead, VudcTxSend, VudcTxWait, EnqueueRet
  <2>3. ~VudcStoreSockfd
    BY <2>1 DEF VudcStoreSockfd
  <2>4. Bare => Bare'
    BY <1>1, <2>3
  <2> QED BY <2>1, <2>2, <2>4, Bystander
<1>5. CASE VudcEhPop
  <2>1. (Bare' <=> Bare) /\ UNCHANGED <<gadget, connected, vstatus, vstore, vsock>>
    BY <1>5 DEF VudcEhPop, Bare
  <2>2. vev'.bits = vev.bits /\ ~vev'.queued
    BY <1>0, <1>5 DEF VudcEhPop, GetEvent, EventWord
  <2>3. veh' \in {"unlink", "reset"} /\ (veh' = "reset" => Bare)
    BY <1>5 DEF VudcEhPop, LetGo
  <2>4. VudcExportIsClean'
    BY <1>5, <2>1 DEF VudcEhPop, LetGo, VudcExportIsClean
  <2> QED BY <2>1, <2>2, <2>3, <2>4 DEF LetGo
<1>6. CASE VudcEhUnlink \/ VudcEhStopRx
  <2>1. /\ (Bare' <=> Bare) /\ UNCHANGED <<gadget, connected, vstatus, vstore, vsock, vev>>
        /\ veh' \in {"stop_rx", "stop_tx"}
    BY <1>6 DEF VudcEhUnlink, VudcEhStopRx, Bare
  <2>2. VudcExportIsClean'
    BY <1>6, <2>1 DEF VudcEhUnlink, VudcEhStopRx, LetGo, VudcExportIsClean
  <2> QED BY <2>1, <2>2 DEF LetGo
<1>7. CASE VudcEhStopTx
  <2>1. /\ (Bare => Bare') /\ UNCHANGED <<gadget, connected, vstatus, vstore, vev>>
        /\ veh' = "stop_activity" /\ vsock' = 0
    BY <1>7 DEF VudcEhStopTx, Bare
  <2>2. VudcExportIsClean'
    BY <1>7, <2>1 DEF VudcEhStopTx, LetGo, VudcExportIsClean
  <2> QED BY <2>1, <2>2 DEF LetGo
<1>8. CASE VudcEhStopActivity
  <2>1. /\ UNCHANGED <<gadget, vstatus, vstore, vsock>>
        /\ veh = "stop_activity" /\ vsock = 0
    BY <1>8 DEF VudcEhStopActivity, LetGo
  <2>2. CASE veh' = veh
    <3>1. UNCHANGED <<connected, vev, urb_queue>>
      BY <1>8, <2>1, <2>2 DEF VudcEhStopActivity, StopActivity
    <3> QED BY <2>1, <2>2, <3>1 DEF LetGo, VudcExportIsClean, Bare
  <2>3. CASE veh' # veh
    <3>1. veh' = "reset" /\ Bare' /\ vev' = UnsetEvent(vev, "SHUTDOWN")
      BY <1>8, <2>1, <2>3 DEF VudcEhStopActivity, StopActivity, Bare
    <3>2. "BYE" \notin vev.bits => "BYE" \notin vev'.bits
      BY <1>0, <3>1 DEF UnsetEvent, EventWord
    <3> QED BY <2>1, <3>1, <3>2 DEF LetGo, VudcExportIsClean, Bare
  <2> QED BY <2>2, <2>3
<1>9. ASSUME veh \in {"reset", "unset_reset", "unusable"}, veh' # "stop_activity", Bare',
             UNCHANGED gadget, "BYE" \notin vev.bits => "BYE" \notin vev'.bits
      PROVE  LetGo'
  BY <1>9 DEF LetGo, VudcExportIsClean, Bare
<1>10. CASE VudcEhReset \/ VudcEhNoReset
  <2>1. /\ veh = "reset" /\ veh' \in {"reset", "unset_reset", "unusable"}
        /\ UNCHANGED <<gadget, vev, vsock>> /\ (urb_queue' = <<>> \/ UNCHANGED urb_queue)
    BY <1>10 DEF VudcEhReset, VudcEhNoReset, StopActivity
  <2>2. Bare'
    BY <2>1 DEF LetGo, Bare
  <2> QED BY <1>9, <2>1, <2>2
<1>11. CASE VudcEhUnsetReset \/ VudcEhUnusable
  <2>1. /\ veh \in {"unset_reset", "unusable"} /\ veh' \in {"unusable", "idle"}
        /\ UNCHANGED <<gadget, vsock, urb_queue>>
        /\ \E bit \in Bits : vev' = UnsetEvent(vev, bit)
    BY <1>11 DEF VudcEhUnsetReset, VudcEhUnusable, Bits
  <2>2. "BYE" \notin vev.bits => "BYE" \notin vev'.bits
    BY <1>0, <2>1 DEF UnsetEvent, EventWord
  <2>3. Bare'
    BY <2>1 DEF LetGo, Bare
  <2> QED BY <1>9, <2>1, <2>2, <2>3
<1>12. CASE VudcStartRx \/ VudcStartTx \/ VudcStoreDown
  <2>1. UNCHANGED <<veh, gadget, connected, vstatus, vsock, urb_queue>>
    BY <1>12 DEF VudcStartRx, VudcStartTx, VudcStoreDown
  <2>2. Raised(vev, vev') /\ (vstore' = "none" => vstore = "none")
    BY <1>2, <1>12 DEF VudcStartRx, VudcStartTx, VudcStoreDown
  <2> QED BY <2>1, <2>2, Bystander DEF Bare
<1>13. CASE VudcStoreUsed
  <2>1. UNCHANGED <<veh, gadget, vsock, urb_queue, vev>> /\ connected'
    BY <1>13 DEF VudcStoreUsed
  <2> QED BY <2>1 DEF LetGo, VudcExportIsClean, Bare
<1>14. CASE VudcStoreSockfd
  <2>1. CASE UNCHANGED <<netVars, vudcVars>>
    BY <2>1 DEF vudcVars, LetGo, Bare, VudcExportIsClean
  <2>2. CASE veh = "idle" /\ vev = NoEvent
    BY <1>14, <2>2 DEF VudcStoreSockfd, LetGo, VudcExportIsClean, NoEvent
  <2> QED BY <1>14, <2>1, <2>2
<1>15. CASE GadgetStart
  <2>1. /\ UNCHANGED <<veh, vsock, urb_queue, vev, vstatus, vstore>>
        /\ ~gadget'.pullup /\ ~gadget'.unbinding /\ ~gadget.driver
    BY <1>15 DEF GadgetStart, gadgetRest
  <2>2. Bare
    BY <1>15 DEF GadgetStart, LetGo
  <2> QED BY <2>1, <2>2 DEF LetGo, VudcExportIsClean, Bare
<1>16. CASE GadgetPullup
  <2>1. /\ UNCHANGED <<veh, vsock, urb_queue, connected, vstatus, vstore>>
        /\ gadget'.driver /\ gadget'.pullup /\ ~gadget'.unbinding /\ vev'.bits = {}
    BY <1>0, <1>16 DEF GadgetPullup, gadgetRest, VudcTypeOK, EventWord
  <2>2. Bare
    BY <1>16 DEF GadgetPullup, LetGo
  <2> QED BY <2>1, <2>2 DEF LetGo, VudcExportIsClean, Bare
<1>17. CASE GadgetPulldown
  <2>1. /\ UNCHANGED <<veh, vsock, urb_queue, connected, vstatus, vstore>>
        /\ gadget'.driver /\ ~gadget'.pullup /\ gadget'.unbinding
    BY <1>17 DEF GadgetPulldown, gadgetRest, VudcTypeOK, LetGo
  <2>2. "SHUTDOWN" \in vev'.bits
    BY <1>0, <1>17 DEF GadgetPulldown, LetGo, EventAdd, EVENT_REMOVED
  <2> QED BY <2>1, <2>2 DEF LetGo, VudcExportIsClean, Bare
<1>18. CASE GadgetStop
  <2>1. /\ UNCHANGED <<veh, vsock, urb_queue, connected, vstatus, vstore, vev>>
        /\ ~gadget'.pullup /\ ~gadget'.unbinding
        /\ gadget.unbinding /\ "SHUTDOWN" \notin vev.bits
    BY <1>18 DEF GadgetStop, gadgetRest
  <2>2. Bare
    BY <2>1 DEF LetGo
  <2> QED BY <2>1, <2>2 DEF LetGo, VudcExportIsClean, Bare
<1>19. ASSUME UNCHANGED <<veh, gadget, connected, vstatus, vsock, vstore, vev, urb_queue>>
       PROVE  LetGo'
  BY <1>2, <1>19, Bystander, SMTT(60) DEF Bare
<1>20. CASE Gadget
  BY <1>15, <1>16, <1>17, <1>18, <1>19, <1>20, Zenon
  DEF Gadget, VepEnable, VepDisable, VepQueue, VepDequeue, VepSetHalt, SetEp, gadgetRest
<1>21. CASE VudcClient \/ UNCHANGED <<netVars, vudcVars>>
  BY <1>19, <1>21 DEF VudcClient, vudcVars
<1> QED
  BY <1>3, <1>4, <1>5, <1>6, <1>7, <1>8, <1>10, <1>11, <1>12, <1>13, <1>14, <1>20, <1>21
  DEF VudcNext, VudcStep, VudcEh, VudcStore

\* A controller that store_sockfd would accept holds no URB and no socket of an
\* earlier connection, for any number of connections and of gadget drivers, as
\* long as none of the connections is handed over during a teardown.
THEOREM NextConnectionIsFresh == VudcSpec /\ QuietSockfd => []VudcExportIsClean
<1>1. NetInit /\ VudcInit => LetGo
  BY DEF VudcInit, VudcIdle, LetGo, Bare, VudcExportIsClean, NoEvent
<1>2. LetGo => VudcExportIsClean
  BY DEF LetGo
<1> QED BY <1>1, <1>2, ControllerInit, ControllerTypeStep, LetGoStep, PTL
        DEF VudcSpec, QuietSockfd


-------------------------------------------------------------------------------
(* Every request is answered at most once.                                   *)

\* The hypothesis: the client numbers its requests, as the vhci does, on every
\* connection and across them.  It sends them as fast as it likes, and the
\* controller may be in any state a gadget driver leaves it in.
NumberedInit ==
    /\ NetInit /\ VudcIdle /\ sent = 0
    /\ gadget \in [driver : BOOLEAN, pullup : BOOLEAN, unbinding : BOOLEAN]
    /\ ep \in [Eps -> Endpoint]
NumberedNext ==
    \/ VudcNext /\ UNCHANGED sent
    \/ OpenConnection /\ UNCHANGED <<vudcVars, sent>>
    \/ LoseConnection /\ UNCHANGED <<vudcVars, sent>>
    \/ NextRequest
numberedVars == <<netVars, vudcVars, sent>>
NumberedSpec == NumberedInit /\ [][NumberedNext]_numberedVars

\* No two entries of a queue are for the same request.
Distinct(q) == \A j, k \in DOMAIN q : q[j].seqnum = q[k].seqnum => j = k

\* Inductive: a number is in one place, on its way to the controller, on
\* urb_queue, on tx_queue or on its way back, and none is above the last.
Numbers ==
    /\ sent \in Nat
    /\ Distinct(c2s) /\ Distinct(s2c) /\ Distinct(tx_queue) /\ Distinct(urb_queue)
    /\ Seqnums(c2s) \cap Seqnums(s2c) = {} /\ Seqnums(c2s) \cap Seqnums(tx_queue) = {}
    /\ Seqnums(c2s) \cap Seqnums(urb_queue) = {} /\ Seqnums(s2c) \cap Seqnums(tx_queue) = {}
    /\ Seqnums(s2c) \cap Seqnums(urb_queue) = {} /\ Seqnums(tx_queue) \cap Seqnums(urb_queue) = {}
    /\ \A s \in Seqnums(c2s) \cup Seqnums(s2c) \cup Seqnums(tx_queue) \cup Seqnums(urb_queue) :
          s <= sent

\* Nothing is for nobody: an emptied queue (stop_activity, a new connection).
LEMMA NoNumbers == Distinct(<<>>) /\ Seqnums(<<>>) = {}
BY DEF Distinct, Seqnums

\* list_del: the entries after the deleted one move up.
LEMMA RemoveAtFacts ==
    ASSUME NEW S, NEW s \in Seq(S), NEW i \in DOMAIN s
    PROVE  /\ RemoveAt(s, i) \in Seq(S)
           /\ Len(RemoveAt(s, i)) = Len(s) - 1
           /\ \A j \in 1 .. Len(s) - 1 :
                 RemoveAt(s, i)[j] = IF j < i THEN s[j] ELSE s[j + 1]
<1>1. i \in 1 .. Len(s) /\ Len(s) \in Nat
  OBVIOUS
<1> DEFINE l == SubSeq(s, 1, i - 1)
           r == SubSeq(s, i + 1, Len(s))
<1>2. l \in Seq(S) /\ Len(l) = i - 1 /\ \A j \in 1 .. i - 1 : l[j] = s[j]
  BY <1>1
<1>3. r \in Seq(S) /\ Len(r) = Len(s) - i /\ \A j \in 1 .. Len(s) - i : r[j] = s[i + j]
  BY <1>1
<1> HIDE DEF l, r
<1>4. l \o r \in Seq(S) /\ Len(l \o r) = Len(s) - 1
  BY <1>1, <1>2, <1>3
<1>5. \A j \in 1 .. Len(s) - 1 : (l \o r)[j] = IF j < i THEN s[j] ELSE s[j + 1]
  <2> TAKE j \in 1 .. Len(s) - 1
  <2>1. CASE j < i
    BY <1>1, <1>2, <1>3, <2>1
  <2>2. CASE ~(j < i)
    <3>5. j \in 1 .. Len(l) + Len(r) /\ ~(j <= Len(l)) /\ j - Len(l) = j - (i - 1)
      BY <1>1, <1>2, <1>3, <2>2
    <3>1. (l \o r)[j] = r[j - (i - 1)]
      <4>1. (l \o r)[j] = IF j <= Len(l) THEN l[j] ELSE r[j - Len(l)]
        BY <1>2, <1>3, <3>5, ConcatProperties
      <4> QED BY <4>1, <3>5
    <3>2. j - (i - 1) \in 1 .. Len(s) - i
      BY <1>1, <2>2
    <3>3. r[j - (i - 1)] = s[i + (j - (i - 1))]
      BY <1>3, <3>2
    <3>4. i + (j - (i - 1)) = j + 1
      BY <1>1
    <3> QED BY <2>2, <3>1, <3>3, <3>4
  <2> QED BY <2>1, <2>2
<1> QED BY <1>4, <1>5 DEF l, r, RemoveAt

\* What is left of a queue after list_del is for other requests.
LEMMA DropNumber ==
    ASSUME NEW S, NEW q \in Seq(S), NEW i \in DOMAIN q, Distinct(q)
    PROVE  /\ Distinct(RemoveAt(q, i))
           /\ Seqnums(RemoveAt(q, i)) \subseteq Seqnums(q) \ {q[i].seqnum}
           /\ q[i].seqnum \in Seqnums(q)
<1>1. PICK n \in Nat : n = Len(q) /\ DOMAIN q = 1 .. n /\ i \in 1 .. n
  OBVIOUS
<1> DEFINE r == RemoveAt(q, i)
           old(j) == IF j < i THEN j ELSE j + 1
<1>2. DOMAIN r = 1 .. n - 1 /\ \A j \in 1 .. n - 1 : r[j] = IF j < i THEN q[j] ELSE q[j + 1]
  BY <1>1, RemoveAtFacts, LenProperties, ZenonT(60)
<1> HIDE DEF r
<1>3. \A j \in 1 .. n - 1 : old(j) \in 1 .. n /\ old(j) # i /\ r[j] = q[old(j)]
  BY <1>1, <1>2
<1>4. \A j, k \in 1 .. n - 1 : old(j) = old(k) => j = k
  BY <1>1
<1> HIDE DEF old
<1>5. Distinct(r)
  BY <1>1, <1>2, <1>3, <1>4 DEF Distinct
<1>6. Seqnums(r) \subseteq Seqnums(q) \ {q[i].seqnum}
  BY <1>1, <1>2, <1>3 DEF Distinct, Seqnums
<1> QED BY <1>5, <1>6 DEF Seqnums, r

\* What is left of a queue after its first entry was taken.
LEMMA TakeNumber ==
    ASSUME NEW S, NEW q \in Seq(S), q # <<>>, Distinct(q)
    PROVE  /\ Distinct(Tail(q))
           /\ Seqnums(Tail(q)) \subseteq Seqnums(q) \ {Head(q).seqnum}
           /\ Head(q).seqnum \in Seqnums(q)
<1>1. PICK n \in Nat : n = Len(q) /\ DOMAIN q = 1 .. n /\ 1 \in 1 .. n /\ Head(q) = q[1]
  OBVIOUS
<1> DEFINE r == Tail(q)
<1>2. DOMAIN r = 1 .. n - 1 /\ \A j \in 1 .. n - 1 : r[j] = q[j + 1] /\ j + 1 \in 1 .. n
  BY <1>1
<1> HIDE DEF r
<1>3. Distinct(r)
  <2> SUFFICES ASSUME NEW j \in 1 .. n - 1, NEW k \in 1 .. n - 1, r[j].seqnum = r[k].seqnum
               PROVE  j = k
    BY <1>2 DEF Distinct
  <2>1. j + 1 = k + 1
    BY <1>1, <1>2 DEF Distinct
  <2> QED BY <2>1
<1>4. Seqnums(r) \subseteq Seqnums(q) \ {q[1].seqnum}
  <2>1. \A j \in 1 .. n - 1 : j + 1 # 1
    OBVIOUS
  <2> QED BY <1>1, <1>2, <2>1 DEF Distinct, Seqnums
<1> QED BY <1>1, <1>3, <1>4 DEF Seqnums, r

\* A queue with an entry for one more request.
LEMMA AddNumber ==
    ASSUME NEW S, NEW q \in Seq(S), NEW x, Distinct(q), x.seqnum \notin Seqnums(q)
    PROVE  /\ Distinct(Append(q, x))
           /\ Seqnums(Append(q, x)) = Seqnums(q) \cup {x.seqnum}
<1>1. PICK n \in Nat : n = Len(q) /\ DOMAIN q = 1 .. n
  OBVIOUS
<1> DEFINE r == Append(q, x)
<1>2. DOMAIN r = 1 .. n + 1 /\ r[n + 1] = x /\ \A j \in 1 .. n : r[j] = q[j]
  BY <1>1
<1> HIDE DEF r
<1>3. \A j \in 1 .. n + 1 : j \in 1 .. n \/ j = n + 1
  BY <1>1
<1>4. n + 1 \in 1 .. n + 1 /\ \A j \in 1 .. n : j \in 1 .. n + 1
  BY <1>1
<1>5. Seqnums(r) = Seqnums(q) \cup {x.seqnum}
  BY <1>1, <1>2, <1>3, <1>4 DEF Seqnums
<1>6. \A j \in 1 .. n : q[j].seqnum # x.seqnum
  BY <1>1 DEF Seqnums
<1>7. Distinct(r)
  BY <1>1, <1>2, <1>3, <1>6 DEF Distinct
<1> QED BY <1>5, <1>7 DEF r

\* An entry that takes the number of another request: a marked URB.
LEMMA MarkNumber ==
    ASSUME NEW q \in Seq(Urbp), NEW i \in DOMAIN q, NEW n \in Nat, Distinct(q), n \notin Seqnums(q)
    PROVE  /\ Distinct(MarkedUrb(q, i, n))
           /\ Seqnums(MarkedUrb(q, i, n)) \subseteq Seqnums(q) \cup {n}
<1>1. PICK r : r = MarkedUrb(q, i, n)
  OBVIOUS
<1>2. DOMAIN r = DOMAIN q
  BY <1>1 DEF MarkedUrb
<1>3. \A j \in DOMAIN q : j # i => r[j] = q[j]
  BY <1>1 DEF MarkedUrb
<1>4. r[i].seqnum = n
  <2>1. q[i] \in Urbp
    BY ElementOfSeq
  <2>2. r[i] = [[q[i] EXCEPT !.unlinked = TRUE] EXCEPT !.seqnum = n]
    BY <1>1 DEF MarkedUrb
  <2> QED BY <2>1, <2>2 DEF Urbp
<1>5. \A j \in DOMAIN q : q[j].seqnum # n
  BY DEF Seqnums
<1>6. Distinct(r)
  BY <1>2, <1>3, <1>4, <1>5 DEF Distinct
<1>7. Seqnums(r) \subseteq Seqnums(q) \cup {n}
  BY <1>2, <1>3, <1>4 DEF Seqnums
<1> QED BY <1>1, <1>6, <1>7

\* A URB whose setup stage is over keeps its number.
LEMMA SetupNumbers ==
    ASSUME NEW q \in Seq(Urbp), NEW i \in DOMAIN q, Distinct(q)
    PROVE  /\ Distinct([q EXCEPT ![i].new = FALSE])
           /\ Seqnums([q EXCEPT ![i].new = FALSE]) = Seqnums(q)
<1>1. PICK r : r = [q EXCEPT ![i].new = FALSE]
  OBVIOUS
<1>2. DOMAIN r = DOMAIN q /\ \A j \in DOMAIN q : j # i => r[j] = q[j]
  BY <1>1
<1>3. r[i].seqnum = q[i].seqnum
  <2>1. q[i] \in Urbp
    BY ElementOfSeq
  <2>2. r[i] = [q[i] EXCEPT !.new = FALSE]
    BY <1>1
  <2> QED BY <2>1, <2>2 DEF Urbp
<1>4. \A j \in DOMAIN q : r[j].seqnum = q[j].seqnum
  BY <1>2, <1>3
<1> QED BY <1>1, <1>2, <1>4 DEF Distinct, Seqnums

\* A list of answers for different requests has as many numbers as entries.
LEMMA CountNumbers ==
    ASSUME NEW S, NEW q \in Seq(S), Distinct(q)
    PROVE  IsFiniteSet(Seqnums(q)) /\ Cardinality(Seqnums(q)) = Len(q)
<1>1. PICK n \in Nat : n = Len(q) /\ DOMAIN q = 1 .. n
  OBVIOUS
<1> DEFINE f == [k \in 1 .. n |-> q[k].seqnum]
<1>2. f \in [1 .. n -> Seqnums(q)]
  BY <1>1 DEF Seqnums
<1>3. \A j, k \in 1 .. n : f[j] = f[k] => j = k
  BY <1>1 DEF Distinct
<1>4. \A s \in Seqnums(q) : \E k \in 1 .. n : f[k] = s
  BY <1>1 DEF Seqnums
<1> HIDE DEF f
<1>5. f \in Bijection(1 .. n, Seqnums(q))
  BY <1>2, <1>3, <1>4 DEF Bijection, Injection, Surjection, IsInjective
<1>6. ExistsBijection(1 .. n, Seqnums(q))
  BY <1>5 DEF ExistsBijection
<1> QED BY <1>1, <1>6, FS_NatBijection, FS_CountingElements

\* return_urb: the number goes from urb_queue to tx_queue, or nowhere.
LEMMA ReturnNumbers ==
    ASSUME ControllerTypeOK, Numbers, NEW i \in DOMAIN urb_queue, ReturnUrb(i),
           UNCHANGED <<c2s, s2c, sent>>
    PROVE  Numbers'
<1> DEFINE n == urb_queue[i].seqnum
<1>1. urb_queue \in Seq(Urbp) /\ tx_queue \in Seq(TxItem)
  BY DEF ControllerTypeOK, VudcTypeOK
<1>2. /\ Distinct(urb_queue') /\ Seqnums(urb_queue') \subseteq Seqnums(urb_queue) \ {n}
      /\ n \in Seqnums(urb_queue)
  BY <1>1, DropNumber DEF ReturnUrb, Numbers
<1>3. \/ UNCHANGED tx_queue
      \/ Distinct(tx_queue') /\ Seqnums(tx_queue') = Seqnums(tx_queue) \cup {n}
  <2>1. n \notin Seqnums(tx_queue) /\ Distinct(tx_queue)
    BY <1>2 DEF Numbers
  <2>2. CASE UNCHANGED tx_queue
    BY <2>2
  <2>3. ASSUME NEW type, tx_queue' = Append(tx_queue, [type |-> type, seqnum |-> n])
        PROVE  Distinct(tx_queue') /\ Seqnums(tx_queue') = Seqnums(tx_queue) \cup {n}
    <3>1. PICK x : x = [type |-> type, seqnum |-> n] /\ x.seqnum = n
      <4>1. [type |-> type, seqnum |-> n].seqnum = n
        OBVIOUS
      <4> QED BY <4>1, Zenon
    <3> QED BY <1>1, <2>1, <2>3, <3>1, AddNumber
  <2> QED BY <2>2, <2>3 DEF ReturnUrb, EnqueueRet
<1> HIDE DEF n
<1> QED BY <1>2, <1>3 DEF Numbers

\* vudc_rx takes a request off the stream: its number was nowhere else.
LEMMA RecvNumbers ==
    ASSUME ControllerTypeOK, Numbers, VudcRecv
    PROVE  /\ Head(c2s) \in VudcCmd /\ Head(c2s).seqnum \in Nat
           /\ Head(c2s).seqnum \in Seqnums(c2s)
           /\ Distinct(c2s') /\ Seqnums(c2s') \subseteq Seqnums(c2s) \ {Head(c2s).seqnum}
           /\ Head(c2s).seqnum \notin Seqnums(tx_queue) \cup Seqnums(urb_queue) \cup Seqnums(s2c)
           /\ s2c' = s2c
<1>1. c2s \in Seq(VudcCmd) /\ c2s # <<>> /\ c2s' = Tail(c2s) /\ s2c' = s2c
  BY DEF ControllerTypeOK, VudcNetTypeOK, VudcRecv, CanRecv
<1>2. Head(c2s) \in VudcCmd
  BY <1>1
<1>3. Head(c2s).seqnum \in Nat
  BY <1>2 DEF VudcCmd
<1>4. /\ Head(c2s).seqnum \in Seqnums(c2s)
      /\ Distinct(c2s') /\ Seqnums(c2s') \subseteq Seqnums(c2s) \ {Head(c2s).seqnum}
  BY <1>1, TakeNumber DEF Numbers
<1> QED BY <1>1, <1>2, <1>3, <1>4 DEF Numbers

\* Every step of the controller keeps a number in one place.
LEMMA NumbersStep ==
    ControllerTypeOK /\ Numbers /\ VudcNext /\ UNCHANGED sent => Numbers'
<1> SUFFICES ASSUME ControllerTypeOK, Numbers, VudcNext, UNCHANGED sent
             PROVE  Numbers'
  OBVIOUS
<1>0. /\ urb_queue \in Seq(Urbp) /\ tx_queue \in Seq(TxItem) /\ s2c \in Seq(TxItem)
      /\ c2s \in Seq(VudcCmd)
  BY DEF ControllerTypeOK, VudcTypeOK, VudcNetTypeOK
<1>1. ASSUME UNCHANGED <<c2s, s2c, tx_queue, urb_queue>> PROVE Numbers'
  BY <1>1, SMTT(60) DEF Numbers
\* The walk of the timer.
<1>2. CASE \/ SweepStart \/ SweepLost \/ SweepSkip \/ SweepTransfer \/ SweepEnd
  BY <1>1, <1>2 DEF SweepStart, SweepLost, SweepSkip, SweepTransfer, SweepEnd, netVars
<1>3. CASE SweepUnlinked \/ SweepRefuse
  <2>1. PICK i \in DOMAIN urb_queue : ReturnUrb(i)
    BY <1>3 DEF SweepUnlinked, SweepRefuse
  <2>2. UNCHANGED <<c2s, s2c>>
    BY <1>3 DEF SweepUnlinked, SweepRefuse, netVars
  <2> QED BY <2>1, <2>2, ReturnNumbers
<1>4. CASE SweepSetup
  <2>1. UNCHANGED <<c2s, s2c>>
    BY <1>4 DEF SweepSetup, netVars
  <2>2. PICK i \in DOMAIN urb_queue :
           \/ urb_queue' = [urb_queue EXCEPT ![i].new = FALSE] /\ UNCHANGED tx_queue
           \/ ReturnUrb(i)
    BY <1>4 DEF SweepSetup
  <2>3. CASE urb_queue' = [urb_queue EXCEPT ![i].new = FALSE] /\ UNCHANGED tx_queue
    <3>1. Distinct(urb_queue') /\ Seqnums(urb_queue') = Seqnums(urb_queue)
      BY <1>0, <2>3, SetupNumbers DEF Numbers
    <3> QED BY <2>1, <2>3, <3>1 DEF Numbers
  <2> QED BY <2>1, <2>2, <2>3, ReturnNumbers
<1>5. CASE SweepSetupDone \/ TransferRound \/ TransferGivenBack
  <2>1. UNCHANGED <<c2s, s2c>>
    BY <1>5 DEF SweepSetupDone, TransferRound, TransferGivenBack, netVars
  <2>2. \/ UNCHANGED <<tx_queue, urb_queue>>
        \/ \E i \in IndexOf(sweep.cur) : ReturnUrb(i)
    BY <1>5 DEF SweepSetupDone, TransferRound, TransferGivenBack
  <2>3. IndexOf(sweep.cur) \subseteq DOMAIN urb_queue
    BY DEF IndexOf
  <2> QED BY <1>1, <2>1, <2>2, <2>3, ReturnNumbers
\* vudc_rx.
<1>6. CASE VudcRxHead \/ VudcRxFailed
  BY <1>1, <1>6 DEF VudcRxHead, VudcRxFailed, netVars
<1>7. CASE VudcRxBusy \/ VudcRxUnknown
  <2>1. VudcRecv /\ UNCHANGED <<tx_queue, urb_queue>>
    BY <1>7 DEF VudcRxBusy, VudcRxUnknown
  <2> QED BY <2>1, RecvNumbers DEF Numbers
<1>8. CASE VudcRxCmdSubmit
  <2>1. VudcRecv /\ UNCHANGED tx_queue
    BY <1>8 DEF VudcRxCmdSubmit
  <2>2. CASE UNCHANGED urb_queue
    BY <2>1, <2>2, RecvNumbers DEF Numbers
  <2>3. CASE urb_queue' = Append(urb_queue,
                 [id |-> Head(c2s).seqnum, seqnum |-> Head(c2s).seqnum, ep |-> Head(c2s).ep,
                  ctl |-> Head(c2s).ctl, windex |-> Head(c2s).windex, new |-> TRUE,
                  unlinked |-> FALSE])
    <3>1. PICK x : urb_queue' = Append(urb_queue, x) /\ x.seqnum = Head(c2s).seqnum
      BY <2>3
    <3>2. /\ Distinct(urb_queue')
          /\ Seqnums(urb_queue') = Seqnums(urb_queue) \cup {Head(c2s).seqnum}
      BY <1>0, <2>1, <3>1, RecvNumbers, AddNumber DEF Numbers
    <3> QED BY <2>1, <3>2, RecvNumbers DEF Numbers
  <2> QED BY <1>8, <2>2, <2>3, Zenon DEF VudcRxCmdSubmit
<1>9. CASE VudcRxCmdUnlink
  <2>1. VudcRecv
    BY <1>9, ZenonT(60) DEF VudcRxCmdUnlink
  <2>2. \/ \E i \in DOMAIN urb_queue :
              urb_queue' = MarkedUrb(urb_queue, i, Head(c2s).seqnum) /\ UNCHANGED tx_queue
        \/ EnqueueRet("UNLINK", Head(c2s).seqnum) /\ UNCHANGED urb_queue
    BY <1>9 DEF VudcRxCmdUnlink, MarkedUrb
  <2>3. ASSUME NEW i \in DOMAIN urb_queue,
               urb_queue' = MarkedUrb(urb_queue, i, Head(c2s).seqnum), UNCHANGED tx_queue
        PROVE  Numbers'
    <3>1. /\ Distinct(urb_queue')
          /\ Seqnums(urb_queue') \subseteq Seqnums(urb_queue) \cup {Head(c2s).seqnum}
      BY <1>0, <2>1, <2>3, RecvNumbers, MarkNumber DEF Numbers
    <3> QED BY <2>1, <2>3, <3>1, RecvNumbers DEF Numbers
  <2>4. CASE EnqueueRet("UNLINK", Head(c2s).seqnum) /\ UNCHANGED urb_queue
    <3>1. CASE UNCHANGED tx_queue
      BY <2>1, <2>4, <3>1, RecvNumbers DEF Numbers
    <3>2. CASE tx_queue' = Append(tx_queue, [type |-> "UNLINK", seqnum |-> Head(c2s).seqnum])
      <4>1. PICK x : tx_queue' = Append(tx_queue, x) /\ x.seqnum = Head(c2s).seqnum
        BY <3>2
      <4>2. /\ Distinct(tx_queue')
            /\ Seqnums(tx_queue') = Seqnums(tx_queue) \cup {Head(c2s).seqnum}
        BY <1>0, <2>1, <4>1, RecvNumbers, AddNumber DEF Numbers
      <4> QED BY <2>1, <2>4, <4>2, RecvNumbers DEF Numbers
    <3> QED BY <2>4, <3>1, <3>2 DEF EnqueueRet
  <2> QED BY <2>2, <2>3, <2>4
\* vudc_tx.
<1>10. CASE VudcTxHead \/ VudcTxWait
  BY <1>1, <1>10 DEF VudcTxHead, VudcTxWait, netVars
<1>11. CASE VudcTxSend
  <2>1. /\ tx_queue # <<>> /\ tx_queue' = Tail(tx_queue) /\ UNCHANGED <<c2s, urb_queue>>
        /\ s2c' = s2c \/ s2c' = Append(s2c, Head(tx_queue))
    BY <1>11 DEF VudcTxSend
  <2>2. /\ Distinct(tx_queue') /\ Head(tx_queue).seqnum \in Seqnums(tx_queue)
        /\ Seqnums(tx_queue') \subseteq Seqnums(tx_queue) \ {Head(tx_queue).seqnum}
    BY <1>0, <2>1, TakeNumber DEF Numbers
  <2>3. CASE s2c' = s2c
    BY <2>1, <2>2, <2>3 DEF Numbers
  <2>4. CASE s2c' = Append(s2c, Head(tx_queue))
    <3>1. Distinct(s2c') /\ Seqnums(s2c') = Seqnums(s2c) \cup {Head(tx_queue).seqnum}
      <4>1. Head(tx_queue).seqnum \notin Seqnums(s2c)
        BY <2>2 DEF Numbers
      <4> QED BY <1>0, <2>4, <4>1, AddNumber DEF Numbers
    <3> QED BY <2>1, <2>2, <3>1 DEF Numbers
  <2> QED BY <2>1, <2>3, <2>4
\* The worker: stop_activity empties urb_queue.
<1>12. CASE VudcEhStopActivity \/ VudcEhReset
  <2>1. /\ UNCHANGED <<c2s, s2c, tx_queue>>
        /\ urb_queue' = urb_queue \/ urb_queue' = <<>>
    BY <1>12 DEF VudcEhStopActivity, VudcEhReset, StopActivity, netVars
  <2> QED BY <1>1, <2>1, NoNumbers DEF Numbers
<1>13. CASE VudcEhUnlink
  BY <1>1, <1>13 DEF VudcEhUnlink, ShutdownConnection, netVars
<1>14. CASE \/ VudcEhPop \/ VudcEhStopRx \/ VudcEhStopTx \/ VudcEhNoReset
            \/ VudcEhUnsetReset \/ VudcEhUnusable \/ VudcStore \/ VudcStoreDown \/ VudcStoreSockfd
  BY <1>1, <1>14, SMTT(60) DEF VudcEhPop, VudcEhStopRx, VudcEhStopTx, VudcEhNoReset, VudcEhUnsetReset,
                     VudcEhUnusable, VudcStore, VudcStartRx, VudcStartTx, VudcStoreUsed,
                     VudcStoreDown, VudcStoreSockfd, netVars
<1>15. CASE Gadget
  BY <1>1, <1>15, ZenonT(60) DEF Gadget, GadgetStart, GadgetPullup, GadgetPulldown, GadgetStop, VepEnable,
                     VepDisable, VepQueue, VepDequeue, VepSetHalt, SetEp, gadgetRest, netVars
<1> QED
  BY <1>2, <1>3, <1>4, <1>5, <1>6, <1>7, <1>8, <1>9, <1>10, <1>11, <1>12, <1>13, <1>14, <1>15
  DEF VudcNext, VudcStep, VudcTimer, VudcRx, VudcTx, VudcEh

\* A request with the next number.
Cmd(cmd, t, e, ctl, w) ==
    [cmd |-> cmd, seqnum |-> sent + 1, target |-> t, ep |-> e, ctl |-> ctl, windex |-> w]

\* The next request has a number that is nowhere yet.
LEMMA NextRequestNumbers ==
    ControllerTypeOK /\ Numbers /\ NextRequest => ControllerTypeOK' /\ Numbers'
<1> SUFFICES ASSUME ControllerTypeOK, Numbers, NextRequest PROVE ControllerTypeOK' /\ Numbers'
  OBVIOUS
<1>1. /\ c2s \in Seq(VudcCmd) /\ sent \in Nat /\ sent' = sent + 1
      /\ UNCHANGED <<conn, link, s2c, vudcVars>>
  BY ZenonT(60) DEF ControllerTypeOK, VudcNetTypeOK, Numbers, NextRequest
<1>0. PICK cmd \in {"CMD_SUBMIT", "CMD_UNLINK", "UNKNOWN"}, t \in Nat, e \in Eps, ctl \in Ctl,
           w \in DataEps :
         c2s' = Append(c2s, Cmd(cmd, t, e, ctl, w))
  <2>1. PICK w \in DataEps :
          \/ \E ctl \in Ctl \ {"std"} : c2s' = Append(c2s, Submit(EP0, ctl, w))
          \/ c2s' = Append(c2s, Submit(w, "std", w))
          \/ \E t \in 1 .. sent :
                c2s' = Append(c2s, [Submit(EP0, "std", w) EXCEPT !.cmd = "CMD_UNLINK", !.target = t])
          \/ c2s' = Append(c2s, [Submit(EP0, "std", w) EXCEPT !.cmd = "UNKNOWN"])
    BY DEF NextRequest
  <2>2. EP0 \in Eps /\ w \in Eps /\ "std" \in Ctl
    BY DEF Eps, Ctl
  <2>3. ASSUME NEW ctl \in Ctl \ {"std"}, c2s' = Append(c2s, Submit(EP0, ctl, w))
        PROVE  c2s' = Append(c2s, Cmd("CMD_SUBMIT", 0, EP0, ctl, w))
    BY <2>3 DEF Submit, Cmd
  <2>4. ASSUME c2s' = Append(c2s, Submit(w, "std", w))
        PROVE  c2s' = Append(c2s, Cmd("CMD_SUBMIT", 0, w, "std", w))
    BY <2>4 DEF Submit, Cmd
  <2>5. ASSUME NEW t \in 1 .. sent,
               c2s' = Append(c2s, [Submit(EP0, "std", w) EXCEPT !.cmd = "CMD_UNLINK", !.target = t])
        PROVE  c2s' = Append(c2s, Cmd("CMD_UNLINK", t, EP0, "std", w))
    <3>1. PICK r : r = [cmd |-> "CMD_SUBMIT", seqnum |-> sent + 1, target |-> 0, ep |-> EP0,
                        ctl |-> "std", windex |-> w]
      OBVIOUS
    <3>2. PICK q : q = [r EXCEPT !.cmd = "CMD_UNLINK"]
      OBVIOUS
    <3>3. q = [cmd |-> "CMD_UNLINK", seqnum |-> sent + 1, target |-> 0, ep |-> EP0, ctl |-> "std",
               windex |-> w]
      BY <3>1, <3>2
    <3>4. [q EXCEPT !.target = t] = [cmd |-> "CMD_UNLINK", seqnum |-> sent + 1, target |-> t,
                                     ep |-> EP0, ctl |-> "std", windex |-> w]
      BY <3>3
    <3>5. Submit(EP0, "std", w) = r
      BY <3>1 DEF Submit
    <3>6. [r EXCEPT !.cmd = "CMD_UNLINK", !.target = t] = [q EXCEPT !.target = t]
      BY <3>2
    <3> QED BY <2>5, <3>4, <3>5, <3>6 DEF Cmd
  <2>6. ASSUME c2s' = Append(c2s, [Submit(EP0, "std", w) EXCEPT !.cmd = "UNKNOWN"])
        PROVE  c2s' = Append(c2s, Cmd("UNKNOWN", 0, EP0, "std", w))
    BY <2>6 DEF Submit, Cmd
  <2>7. 0 \in Nat /\ \A t \in 1 .. sent : t \in Nat
    BY <1>1
  <2>8. CASE \E ctl \in Ctl \ {"std"} : c2s' = Append(c2s, Submit(EP0, ctl, w))
    <3>1. PICK ctl \in Ctl \ {"std"} : c2s' = Append(c2s, Submit(EP0, ctl, w))
      BY <2>8
    <3>2. c2s' = Append(c2s, Cmd("CMD_SUBMIT", 0, EP0, ctl, w))
      BY <2>3, <3>1
    <3> QED BY <2>2, <2>7, <3>2
  <2>9. CASE c2s' = Append(c2s, Submit(w, "std", w))
    <3>1. c2s' = Append(c2s, Cmd("CMD_SUBMIT", 0, w, "std", w))
      BY <2>4, <2>9
    <3> QED BY <2>2, <2>7, <3>1
  <2>10. CASE \E t \in 1 .. sent :
                c2s' = Append(c2s, [Submit(EP0, "std", w) EXCEPT !.cmd = "CMD_UNLINK", !.target = t])
    <3>1. PICK t \in 1 .. sent :
                c2s' = Append(c2s, [Submit(EP0, "std", w) EXCEPT !.cmd = "CMD_UNLINK", !.target = t])
      BY <2>10
    <3>2. c2s' = Append(c2s, Cmd("CMD_UNLINK", t, EP0, "std", w)) /\ t \in Nat
      BY <2>5, <2>7, <3>1
    <3> QED BY <2>2, <3>2
  <2>11. CASE c2s' = Append(c2s, [Submit(EP0, "std", w) EXCEPT !.cmd = "UNKNOWN"])
    <3>1. c2s' = Append(c2s, Cmd("UNKNOWN", 0, EP0, "std", w))
      BY <2>6, <2>11
    <3> QED BY <2>2, <2>7, <3>1
  <2> QED BY <2>1, <2>8, <2>9, <2>10, <2>11
<1>2. PICK x : /\ x = [cmd |-> cmd, seqnum |-> sent + 1, target |-> t, ep |-> e, ctl |-> ctl,
                       windex |-> w]
               /\ c2s' = Append(c2s, x)
  BY <1>0 DEF Cmd
<1>3. x \in VudcCmd /\ x.seqnum = sent + 1
  BY <1>1, <1>2 DEF VudcCmd
<1>4. c2s' \in Seq(VudcCmd)
  BY <1>1, <1>2, <1>3, AppendProperties
<1>5. ControllerTypeOK'
  <2>1. VudcTypeOK'
    BY <1>1 DEF ControllerTypeOK, VudcTypeOK, vudcVars, udcVars, threadVars
  <2> QED BY <1>1, <1>4, <2>1 DEF ControllerTypeOK, VudcNetTypeOK
<1>6. \A s \in Seqnums(c2s) \cup Seqnums(s2c) \cup Seqnums(tx_queue) \cup Seqnums(urb_queue) :
         s \in Nat
  <2>1. /\ urb_queue \in Seq(Urbp) /\ tx_queue \in Seq(TxItem) /\ s2c \in Seq(TxItem)
    BY DEF ControllerTypeOK, VudcTypeOK, VudcNetTypeOK
  <2>2. /\ \A i \in DOMAIN c2s : c2s[i] \in VudcCmd
        /\ \A i \in DOMAIN urb_queue : urb_queue[i] \in Urbp
        /\ \A i \in DOMAIN tx_queue : tx_queue[i] \in TxItem
        /\ \A i \in DOMAIN s2c : s2c[i] \in TxItem
    BY <1>1, <2>1, ElementOfSeq
  <2>3. /\ \A y \in VudcCmd : y.seqnum \in Nat
        /\ \A y \in Urbp : y.seqnum \in Nat
        /\ \A y \in TxItem : y.seqnum \in Nat
    BY DEF VudcCmd, Urbp, TxItem
  <2> QED BY <2>2, <2>3 DEF Seqnums
<1>7. \A s \in Seqnums(c2s) \cup Seqnums(s2c) \cup Seqnums(tx_queue) \cup Seqnums(urb_queue) :
         s # sent + 1 /\ s <= sent + 1
  BY <1>1, <1>6 DEF Numbers
<1>8. Distinct(c2s') /\ Seqnums(c2s') = Seqnums(c2s) \cup {sent + 1}
  BY <1>1, <1>2, <1>3, <1>7, AddNumber DEF Numbers
<1>9. Numbers'
  <2>1. UNCHANGED <<s2c, tx_queue, urb_queue>> /\ sent' \in Nat /\ sent + 1 <= sent'
    BY <1>1 DEF vudcVars
  <2> QED BY <1>1, <1>7, <1>8, <2>1 DEF Numbers
<1> QED BY <1>5, <1>9

\* The invariant along every behaviour of a numbering client.
LEMMA NumbersInvariant == NumberedSpec => [](ControllerTypeOK /\ Numbers)
<1>1. NumberedInit => ControllerTypeOK /\ Numbers
  <2> SUFFICES ASSUME NumberedInit PROVE ControllerTypeOK /\ Numbers
    OBVIOUS
  <2>1. ControllerTypeOK
    BY EmptySeq DEF NumberedInit, NetInit, VudcIdle, ControllerTypeOK, VudcNetTypeOK, VudcTypeOK,
                    NoEvent, NoSweep, EventWord
  <2>2. c2s = <<>> /\ s2c = <<>> /\ tx_queue = <<>> /\ urb_queue = <<>> /\ sent = 0
    BY DEF NumberedInit, NetInit, VudcIdle
  <2> QED BY <2>1, <2>2, NoNumbers DEF Numbers
<1>2. ControllerTypeOK /\ Numbers /\ [NumberedNext]_numberedVars => ControllerTypeOK' /\ Numbers'
  <2> SUFFICES ASSUME ControllerTypeOK, Numbers, [NumberedNext]_numberedVars
               PROVE  ControllerTypeOK' /\ Numbers'
    OBVIOUS
  <2>1. CASE VudcNext /\ UNCHANGED sent
    BY <2>1, ControllerTypeStep, NumbersStep
  <2>2. CASE OpenConnection /\ UNCHANGED <<vudcVars, sent>>
    <3>1. VudcClient
      BY <2>2, EmptySeq DEF OpenConnection, VudcClient, VudcNetTypeOK, ControllerTypeOK
    <3>2. Numbers'
      BY <2>2, NoNumbers DEF OpenConnection, Numbers, vudcVars
    <3> QED BY <3>1, <3>2, ControllerTypeStep
  <2>3. CASE LoseConnection /\ UNCHANGED <<vudcVars, sent>>
    <3>1. VudcClient
      BY <2>3 DEF LoseConnection, VudcClient, VudcNetTypeOK, ControllerTypeOK
    <3>2. Numbers'
      BY <2>3 DEF LoseConnection, Numbers, vudcVars
    <3> QED BY <3>1, <3>2, ControllerTypeStep
  <2>4. CASE NextRequest
    BY <2>4, NextRequestNumbers
  <2>5. CASE UNCHANGED numberedVars
    <3>1. Numbers'
      BY <2>5 DEF numberedVars, netVars, vudcVars, Numbers
    <3> QED BY <2>5, <3>1, ControllerTypeStep DEF numberedVars
  <2> QED BY <2>1, <2>2, <2>3, <2>4, <2>5 DEF NumberedNext
<1> QED BY <1>1, <1>2, PTL DEF NumberedSpec

\* A request is answered at most once, whatever the sweep of the timer, vudc_rx's
\* unlinks, vudc_tx and the teardown do to it: an unlink that finds its URB takes
\* over its one answer (v_recv_cmd_unlink), and the URB that v_timer returns has
\* left urb_queue.  Answers that an earlier connection left on tx_queue included.
THEOREM AnsweredOnce == NumberedSpec => []VudcAnsweredOnce
<1>1. ControllerTypeOK /\ Numbers => VudcAnsweredOnce
  <2> SUFFICES ASSUME ControllerTypeOK, Numbers PROVE VudcAnsweredOnce
    OBVIOUS
  <2>1. /\ urb_queue \in Seq(Urbp) /\ tx_queue \in Seq(TxItem) /\ s2c \in Seq(TxItem)
        /\ Distinct(s2c) /\ Distinct(tx_queue) /\ Distinct(urb_queue)
    BY DEF ControllerTypeOK, VudcTypeOK, VudcNetTypeOK, Numbers
  <2>2. PICK S, T, U : S = Seqnums(s2c) /\ T = Seqnums(tx_queue) /\ U = Seqnums(urb_queue)
    OBVIOUS
  <2>3. /\ IsFiniteSet(S) /\ Cardinality(S) = Len(s2c)
        /\ IsFiniteSet(T) /\ Cardinality(T) = Len(tx_queue)
        /\ IsFiniteSet(U) /\ Cardinality(U) = Len(urb_queue)
    BY <2>1, <2>2, CountNumbers
  <2>4. Len(s2c) \in Nat /\ Len(tx_queue) \in Nat /\ Len(urb_queue) \in Nat
    BY <2>1
  <2>5. S \cap T = {} /\ (S \cup T) \cap U = {}
    BY <2>2 DEF Numbers
  <2>6. Cardinality({}) = 0
    BY FS_EmptySet
  <2>7. /\ IsFiniteSet(S \cup T)
        /\ Cardinality(S \cup T) = Cardinality(S) + Cardinality(T) - Cardinality(S \cap T)
    BY <2>3, FS_Union, Zenon
  <2>8. Cardinality((S \cup T) \cup U)
           = Cardinality(S \cup T) + Cardinality(U) - Cardinality((S \cup T) \cap U)
    BY <2>3, <2>7, FS_Union, Zenon
  <2>9. Cardinality(S \cap T) = 0 /\ Cardinality((S \cup T) \cap U) = 0
    BY <2>5, <2>6
  <2>10. Cardinality((S \cup T) \cup U) = Len(s2c) + Len(tx_queue) + Len(urb_queue)
    BY <2>3, <2>4, <2>7, <2>8, <2>9
  <2> QED BY <2>2, <2>10 DEF VudcAnsweredOnce
<1> QED BY <1>1, NumbersInvariant, PTL

\* What TLC runs is such a client with bounds.
THEOREM RunsAreNumbered == MCInit /\ [][MCNext]_mcVars => NumberedSpec
<1>1. MCInit => NumberedInit
  <2> SUFFICES ASSUME MCInit PROVE NumberedInit
    OBVIOUS
  <2>1. ep \in [Eps -> Endpoint]
    <3>1. 0 \in 0 .. MaxReq
      BY VudcAssumption
    <3>2. DisabledEp \in Endpoint
      BY <3>1 DEF DisabledEp, Endpoint
    <3>3. \A r \in Endpoint : [r EXCEPT !.desc = TRUE] \in Endpoint
      BY DEF Endpoint
    <3> QED BY <3>2, <3>3 DEF MCInit, Bound
  <2> QED BY <2>1 DEF MCInit, NumberedInit
<1>2. [MCNext]_mcVars => [NumberedNext]_numberedVars
  <2> SUFFICES ASSUME [MCNext]_mcVars PROVE [NumberedNext]_numberedVars
    OBVIOUS
  <2>1. CASE ClientConnects
    BY <2>1 DEF ClientConnects, NumberedNext
  <2>2. CASE ClientSends
    BY <2>2 DEF ClientSends, NumberedNext
  <2>3. CASE ClientCloses
    BY <2>3 DEF ClientCloses, NumberedNext
  <2>4. CASE ExportOnce
    BY <2>4 DEF ExportOnce, NumberedNext, VudcNext
  <2>5. CASE ServerStep
    BY <2>5 DEF ServerStep, NumberedNext, VudcNext, VudcStep
  <2>6. CASE UserStep
    <3>1. \A e \in DataEps : e \in Eps
      BY DEF Eps
    <3>2. \/ GadgetStart \/ GadgetPullup \/ GadgetStop \/ VudcStoreDown \/ GadgetPulldown
          \/ \E e \in DataEps : VepEnable(e) \/ VepDequeue(e) \/ VepDisable(e) \/ VepSetHalt(e)
          \/ \E e \in Eps : VepQueue(e)
      BY <2>6, Zenon DEF UserStep
    <3>3. VudcStoreDown \/ Gadget
      BY <3>1, <3>2, Zenon DEF Gadget
    <3> QED BY <2>6, <3>3 DEF UserStep, NumberedNext, VudcNext, VudcStep
  <2>7. CASE UNCHANGED mcVars
    BY <2>7 DEF mcVars, numberedVars
  <2> QED BY <2>1, <2>2, <2>3, <2>4, <2>5, <2>6, <2>7 DEF MCNext
<1> QED BY <1>1, <1>2, PTL DEF NumberedSpec

-------------------------------------------------------------------------------
(* transfer() of the virtual controller: induction and recursion.            *)

\* Induction over the natural numbers, for a set.
LEMMA SetInduction ==
    ASSUME NEW S, 0 \in S, \A n \in Nat : n \in S => n + 1 \in S
    PROVE  \A n \in Nat : n \in S
<1> DEFINE T == {n \in Nat : n \notin S}
<1>1. SUFFICES ASSUME T # {} PROVE FALSE
  OBVIOUS
<1>2. \A m, n \in Nat : m < n => <<m, n>> \in OpToRel(<, Nat)
  BY DEF OpToRel
<1>3. T \subseteq Nat
  OBVIOUS
<1>4. \E x \in T : \A y \in T : ~ (<<y, x>> \in OpToRel(<, Nat))
  <2> HIDE DEF T
  <2> QED BY <1>1, <1>3, NatLessThanWellFounded, WFMin, Zenon
<1>5. PICK x \in T : \A y \in T : ~ (y < x)
  BY <1>2, <1>4
<1>6. x # 0 /\ x - 1 \in Nat /\ x - 1 < x /\ (x - 1) + 1 = x
  BY <1>5
<1>7. x - 1 \in S
  BY <1>5, <1>6
<1> QED BY <1>5, <1>6, <1>7

\* The first n + 1 values of the function that starts with v and goes on with G.
Starts(V, v, G, n) ==
    {f \in [0 .. n -> V] : f[0] = v /\ \A k \in 0 .. n - 1 : f[k + 1] = G[f[k]]}

\* There is one, however long.
LEMMA StartsExist ==
    ASSUME NEW V, NEW v \in V, NEW G \in [V -> V]
    PROVE  \A n \in Nat : Starts(V, v, G, n) # {}
<1> DEFINE S == {n \in Nat : Starts(V, v, G, n) # {}}
<1>1. 0 \in S
  <2>1. PICK f : f = [k \in 0 .. 0 |-> v]
    OBVIOUS
  <2>2. f \in Starts(V, v, G, 0)
    BY <2>1 DEF Starts
  <2> QED BY <2>2
<1>2. ASSUME NEW n \in Nat, n \in S PROVE n + 1 \in S
  <2>1. PICK f \in Starts(V, v, G, n) : TRUE
    BY <1>2
  <2>2. f \in [0 .. n -> V] /\ f[0] = v /\ \A k \in 0 .. n - 1 : f[k + 1] = G[f[k]]
    BY <2>1 DEF Starts
  <2>3. PICK g : g = [k \in 0 .. n + 1 |-> IF k \in 0 .. n THEN f[k] ELSE G[f[n]]]
    OBVIOUS
  <2>4. f[n] \in V /\ G[f[n]] \in V
    BY <2>2
  <2>5. g \in [0 .. n + 1 -> V] /\ g[0] = v
    BY <2>2, <2>3, <2>4
  <2>6. ASSUME NEW k \in 0 .. (n + 1) - 1 PROVE g[k + 1] = G[g[k]]
    <3>1. g[k] = f[k] /\ k \in 0 .. n
      BY <2>3
    <3>2. CASE k = n
      <4>1. g[n + 1] = G[f[n]]
        BY <2>3
      <4> QED BY <3>1, <3>2, <4>1
    <3>3. CASE k # n
      <4>1. k \in 0 .. n - 1 /\ k + 1 \in 0 .. n
        BY <3>1, <3>3
      <4> QED BY <2>2, <2>3, <3>1, <4>1
    <3> QED BY <3>2, <3>3
  <2>7. g \in Starts(V, v, G, n + 1)
    BY <2>5, <2>6 DEF Starts
  <2> QED BY <2>7
<1> HIDE DEF S
<1>3. \A n \in Nat : n \in S
  BY <1>1, <1>2, SetInduction
<1> QED BY <1>3 DEF S

\* Two of them agree as far as both go.
LEMMA StartsAgree ==
    ASSUME NEW V, NEW v \in V, NEW G \in [V -> V], NEW m \in Nat, NEW n \in Nat, m <= n,
           NEW f \in Starts(V, v, G, m), NEW g \in Starts(V, v, G, n)
    PROVE  \A k \in 0 .. m : f[k] = g[k]
<1> DEFINE S == {k \in Nat : k <= m => f[k] = g[k]}
<1>1. /\ f[0] = v /\ \A k \in 0 .. m - 1 : f[k + 1] = G[f[k]]
      /\ g[0] = v /\ \A k \in 0 .. n - 1 : g[k + 1] = G[g[k]]
  BY DEF Starts
<1>2. 0 \in S
  BY <1>1
<1>3. ASSUME NEW k \in Nat, k \in S PROVE k + 1 \in S
  <2> SUFFICES ASSUME k + 1 <= m PROVE f[k + 1] = g[k + 1]
    OBVIOUS
  <2>1. k \in 0 .. m - 1 /\ k \in 0 .. n - 1 /\ k <= m
    OBVIOUS
  <2> QED BY <1>1, <1>3, <2>1
<1> HIDE DEF S
<1>4. \A k \in Nat : k \in S
  BY <1>2, <1>3, SetInduction
<1> QED BY <1>4 DEF S

\* Hence the function itself.
IsRecursion(f, V, v, G) == f \in [Nat -> V] /\ f[0] = v /\ \A n \in Nat : f[n + 1] = G[f[n]]

LEMMA RecursionExists ==
    ASSUME NEW V, NEW v \in V, NEW G \in [V -> V]
    PROVE  \E f : IsRecursion(f, V, v, G)
<1> DEFINE A == [n \in Nat |-> CHOOSE g : g \in Starts(V, v, G, n)]
           f == [n \in Nat |-> A[n][n]]
<1>1. ASSUME NEW n \in Nat PROVE A[n] \in Starts(V, v, G, n)
  <2>1. \E g : g \in Starts(V, v, G, n)
    BY StartsExist
  <2> QED BY <2>1
<1>2. \A n \in Nat : f[n] = A[n][n]
  OBVIOUS
<1> HIDE DEF A
<1>3. ASSUME NEW n \in Nat PROVE f[n] \in V
  <2>1. A[n] \in [0 .. n -> V]
    BY <1>1 DEF Starts
  <2> QED BY <1>2, <2>1
<1>4. f[0] = v
  BY <1>1, <1>2 DEF Starts
<1>5. ASSUME NEW n \in Nat PROVE f[n + 1] = G[f[n]]
  <2>1. n + 1 \in Nat /\ n <= n + 1 /\ n \in 0 .. n /\ n \in 0 .. (n + 1) - 1
    OBVIOUS
  <2>2. A[n] \in Starts(V, v, G, n) /\ A[n + 1] \in Starts(V, v, G, n + 1)
    BY <1>1, <2>1
  <2>3. A[n][n] = A[n + 1][n]
    BY <2>1, <2>2, StartsAgree
  <2>4. A[n + 1][n + 1] = G[A[n + 1][n]]
    BY <2>1, <2>2 DEF Starts
  <2> QED BY <1>2, <2>1, <2>3, <2>4
<1>6. f \in [Nat -> V]
  BY <1>3
<1> QED BY <1>4, <1>5, <1>6 DEF IsRecursion

-------------------------------------------------------------------------------
(* The bus.                                                                  *)

\* What the bus is at any time.
BusState == [host : Int, req : Nat \ {0}, dev : Int, result : {"EINPROGRESS", "0", "EOVERFLOW"}]

\* A packet leaves the bus a state.
LEMMA BusMovesType ==
    ASSUME NEW u \in Urb, NEW r \in Request, NEW b \in BusState
    PROVE  BusMoves(u, r, b) \in BusState
<1>1. u.length \in Int /\ r.length \in Int /\ b.host \in Int /\ b.dev \in Int /\ b.req \in Nat \ {0}
  BY TransferAssumption DEF Urb, Request, BusState
<1>2. Room(u, r, b) \in Int /\ PacketSize(u, r, b) \in Int
  BY <1>1, TransferAssumption DEF Room, PacketSize, Left
<1> QED BY <1>1, <1>2 DEF BusMoves, BusState

\* So does its next step, if there is one.
LEMMA BusNextType ==
    ASSUME NEW u \in Urb, NEW reqs \in Seq(Request), NEW b \in BusState
    PROVE  BusNext(u, reqs, b) \in BusState
<1>1. CASE b.result # "EINPROGRESS" \/ b.req > Len(reqs)
  BY <1>1 DEF BusNext
<1>2. CASE ~(b.result # "EINPROGRESS" \/ b.req > Len(reqs))
  <2>1. b.req \in 1 .. Len(reqs)
    BY <1>2 DEF BusState
  <2>2. reqs[b.req] \in Request
    BY <2>1
  <2> QED BY <1>2, <2>2, BusMovesType DEF BusNext
<1> QED BY <1>1, <1>2

\* The bus starts at BusStart and goes on with BusNext.
LEMMA BusUnfolds ==
    ASSUME NEW u \in Urb, NEW reqs \in Seq(Request)
    PROVE  /\ Bus(u, reqs)[0] = BusStart
           /\ \A k \in Nat : /\ Bus(u, reqs)[k] \in BusState
                             /\ Bus(u, reqs)[k + 1] = BusNext(u, reqs, Bus(u, reqs)[k])
<1> DEFINE G == [b \in BusState |-> BusNext(u, reqs, b)]
           Is(f) == f = [k \in Nat |-> IF k = 0 THEN BusStart ELSE BusNext(u, reqs, f[k - 1])]
<1>1. BusStart \in BusState
  BY DEF BusStart, BusState
<1>2. G \in [BusState -> BusState] /\ \A b \in BusState : G[b] = BusNext(u, reqs, b)
  BY BusNextType
<1> HIDE DEF G
<1>3. PICK f \in [Nat -> BusState] : f[0] = BusStart /\ \A n \in Nat : f[n + 1] = G[f[n]]
  <2>1. G \in [BusState -> BusState]
    BY <1>2
  <2>2. \E f : IsRecursion(f, BusState, BusStart, G)
    BY <1>1, <2>1, RecursionExists, Zenon
  <2> QED BY <2>2 DEF IsRecursion
<1>4. Is(f)
  <2>1. \A k \in Nat : f[k] = IF k = 0 THEN BusStart ELSE BusNext(u, reqs, f[k - 1])
    <3> SUFFICES ASSUME NEW k \in Nat, k # 0 PROVE f[k] = BusNext(u, reqs, f[k - 1])
      BY <1>3
    <3>1. k - 1 \in Nat /\ (k - 1) + 1 = k
      OBVIOUS
    <3> QED BY <1>2, <1>3, <3>1
  <2> QED BY <1>3, <2>1
<1>5. Bus(u, reqs) = CHOOSE g : Is(g)
  BY DEF Bus
<1> HIDE DEF Is
<1>6. Is(Bus(u, reqs))
  BY <1>4, <1>5
<1>7. Bus(u, reqs) = [k \in Nat |-> IF k = 0 THEN BusStart ELSE BusNext(u, reqs, Bus(u, reqs)[k - 1])]
  BY <1>6 DEF Is
<1> DEFINE B == Bus(u, reqs)
<1>8. B = [k \in Nat |-> IF k = 0 THEN BusStart ELSE BusNext(u, reqs, B[k - 1])]
  BY <1>7
<1> HIDE DEF B
<1>9. B[0] = BusStart
  BY <1>8
<1>10. ASSUME NEW k \in Nat PROVE B[k + 1] = BusNext(u, reqs, B[k])
  BY <1>8
<1> DEFINE S == {k \in Nat : B[k] \in BusState}
<1>11. 0 \in S
  BY <1>1, <1>9
<1>12. ASSUME NEW k \in Nat, k \in S PROVE k + 1 \in S
  <2>1. B[k] \in BusState
    BY <1>12
  <2>2. BusNext(u, reqs, B[k]) \in BusState
    BY <2>1, BusNextType
  <2>3. B[k + 1] = BusNext(u, reqs, B[k])
    BY <1>10
  <2>4. B[k + 1] \in BusState
    BY <2>2, <2>3, Zenon
  <2> QED BY <2>4
<1>13. \A k \in Nat : k \in S
  <2> HIDE DEF S
  <2> QED BY <1>11, <1>12, SetInduction
<1>14. \A k \in Nat : B[k] \in BusState
  BY <1>13
<1> QED BY <1>9, <1>10, <1>14 DEF B

\* The bus b comes about after k packets, none of which it rested before.
Reaches(u, reqs, k, b) ==
    /\ k \in Nat /\ Bus(u, reqs)[k] = b
    /\ \A i \in 0 .. k - 1 : /\ Bus(u, reqs)[i].result = "EINPROGRESS"
                             /\ Bus(u, reqs)[i].req <= Len(reqs)

\* One more packet.
LEMMA ReachesNext ==
    ASSUME NEW u \in Urb, NEW reqs \in Seq(Request), NEW k, NEW b, Reaches(u, reqs, k, b),
           b.result = "EINPROGRESS", b.req <= Len(reqs)
    PROVE  Reaches(u, reqs, k + 1, BusMoves(u, reqs[b.req], b))
<1>1. k \in Nat /\ Bus(u, reqs)[k] = b
  BY DEF Reaches
<1>2. Bus(u, reqs)[k + 1] = BusNext(u, reqs, b) /\ b \in BusState
  BY <1>1, BusUnfolds
<1>3. BusNext(u, reqs, b) = BusMoves(u, reqs[b.req], b)
  BY <1>2 DEF BusNext, BusState
<1>4. \A i \in 0 .. (k + 1) - 1 : i \in 0 .. k - 1 \/ i = k
  BY <1>1
<1> QED BY <1>1, <1>2, <1>3, <1>4 DEF Reaches

\* Where it rests it stays.
LEMMA BusRests ==
    ASSUME NEW u \in Urb, NEW reqs \in Seq(Request), NEW k, NEW b, Reaches(u, reqs, k, b),
           b.result # "EINPROGRESS" \/ b.req > Len(reqs), NEW n \in Nat, k <= n
    PROVE  Bus(u, reqs)[n] = b
<1> DEFINE S == {m \in Nat : k <= m => Bus(u, reqs)[m] = b}
<1>1. k \in Nat /\ Bus(u, reqs)[k] = b
  BY DEF Reaches
<1>2. BusNext(u, reqs, b) = b
  BY DEF BusNext
<1>3. 0 \in S
  BY <1>1
<1>4. ASSUME NEW m \in Nat, m \in S PROVE m + 1 \in S
  <2> SUFFICES ASSUME k <= m + 1 PROVE Bus(u, reqs)[m + 1] = b
    OBVIOUS
  <2>1. CASE k = m + 1
    BY <1>1, <2>1
  <2>2. CASE k # m + 1
    <3>1. Bus(u, reqs)[m] = b
      BY <1>1, <1>4, <2>2
    <3>2. Bus(u, reqs)[m + 1] = BusNext(u, reqs, Bus(u, reqs)[m])
      BY BusUnfolds
    <3> QED BY <1>2, <3>1, <3>2
  <2> QED BY <2>1, <2>2
<1>5. \A m \in Nat : m \in S
  <2> HIDE DEF S
  <2> QED BY <1>3, <1>4, SetInduction
<1> QED BY <1>5

\* The URB's and the requests' progress is nothing to the bus, and requests that
\* come later change nothing of what it did before it reached them.
SameUrb(u, v) == u.dir = v.dir /\ u.length = v.length /\ u.zero = v.zero
Extends(reqs, more) ==
    /\ Len(reqs) <= Len(more)
    /\ \A j \in 1 .. Len(reqs) : reqs[j].length = more[j].length /\ reqs[j].zero = more[j].zero

LEMMA ReachesStill ==
    ASSUME NEW u \in Urb, NEW v \in Urb, SameUrb(u, v),
           NEW reqs \in Seq(Request), NEW more \in Seq(Request), Extends(reqs, more),
           NEW k, NEW b, Reaches(u, reqs, k, b)
    PROVE  Reaches(v, more, k, b)
<1> DEFINE B == Bus(u, reqs)
           C == Bus(v, more)
           S == {i \in Nat : i <= k => C[i] = B[i]}
<1>1. k \in Nat /\ B[k] = b
      /\ \A i \in 0 .. k - 1 : B[i].result = "EINPROGRESS" /\ B[i].req <= Len(reqs)
  BY DEF Reaches
<1>2. /\ B[0] = BusStart /\ C[0] = BusStart
      /\ \A i \in Nat : /\ B[i] \in BusState /\ B[i + 1] = BusNext(u, reqs, B[i])
                        /\ C[i + 1] = BusNext(v, more, C[i])
  BY BusUnfolds
<1> HIDE DEF B, C
<1>3. ASSUME NEW c \in BusState, c.result = "EINPROGRESS", c.req <= Len(reqs)
      PROVE  BusNext(u, reqs, c) = BusNext(v, more, c)
  <2>1. c.req \in 1 .. Len(reqs) /\ ~(c.req > Len(reqs)) /\ ~(c.req > Len(more))
    BY <1>3 DEF BusState, Extends
  <2>2. reqs[c.req].length = more[c.req].length /\ reqs[c.req].zero = more[c.req].zero
    BY <2>1 DEF Extends
  <2>3. /\ Left(u, reqs[c.req], c) = Left(v, more[c.req], c)
        /\ Room(u, reqs[c.req], c) = Room(v, more[c.req], c)
    BY <2>2 DEF Left, Room, SameUrb
  <2>4. PacketSize(u, reqs[c.req], c) = PacketSize(v, more[c.req], c)
    BY <2>3 DEF PacketSize
  <2>5. /\ Babble(u, reqs[c.req], c) <=> Babble(v, more[c.req], c)
        /\ SenderDone(u, reqs[c.req], c) <=> SenderDone(v, more[c.req], c)
        /\ ReceiverDone(u, reqs[c.req], c) <=> ReceiverDone(v, more[c.req], c)
    BY <2>2, <2>3, <2>4 DEF Babble, SenderDone, ReceiverDone, SameUrb
  <2>6. /\ HostDone(u, reqs[c.req], c) <=> HostDone(v, more[c.req], c)
        /\ DevDone(u, reqs[c.req], c) <=> DevDone(v, more[c.req], c)
    BY <2>5 DEF HostDone, DevDone, SameUrb
  <2>7. BusMoves(u, reqs[c.req], c) = BusMoves(v, more[c.req], c)
    BY <2>3, <2>4, <2>5, <2>6 DEF BusMoves, SameUrb
  <2> QED BY <1>3, <2>1, <2>7 DEF BusNext
<1>4. 0 \in S
  BY <1>2
<1>5. ASSUME NEW i \in Nat, i \in S PROVE i + 1 \in S
  <2> SUFFICES ASSUME i + 1 <= k PROVE C[i + 1] = B[i + 1]
    OBVIOUS
  <2>1. i <= k /\ i \in 0 .. k - 1
    BY <1>1
  <2>2. C[i] = B[i] /\ B[i] \in BusState /\ B[i].result = "EINPROGRESS" /\ B[i].req <= Len(reqs)
    BY <1>1, <1>2, <1>5, <2>1
  <2>3. BusNext(u, reqs, B[i]) = BusNext(v, more, B[i])
    BY <1>3, <2>2
  <2> QED BY <1>2, <2>2, <2>3
<1>6. \A i \in Nat : i \in S
  <2> HIDE DEF S
  <2> QED BY <1>4, <1>5, SetInduction
<1>7. \A i \in 0 .. k : C[i] = B[i]
  BY <1>1, <1>6
<1>8. C[k] = b /\ \A i \in 0 .. k - 1 : C[i].result = "EINPROGRESS" /\ C[i].req <= Len(more)
  <2>1. Len(reqs) \in Nat /\ Len(more) \in Nat /\ Len(reqs) <= Len(more)
    BY DEF Extends
  <2>2. ASSUME NEW i \in 0 .. k - 1 PROVE C[i].result = "EINPROGRESS" /\ C[i].req <= Len(more)
    <3>1. C[i] = B[i] /\ B[i].result = "EINPROGRESS" /\ B[i].req <= Len(reqs) /\ B[i] \in BusState
      <4>1. i \in Nat /\ i \in 0 .. k
        BY <1>1
      <4> QED BY <1>1, <1>2, <1>7, <4>1
    <3>2. B[i].req \in Nat
      BY <3>1 DEF BusState
    <3> QED BY <2>1, <3>1, <3>2
  <2> QED BY <1>1, <1>7, <2>2
<1> QED BY <1>1, <1>8 DEF Reaches, C

\* The numbers in a URB and a request.
LEMMA UrbNumbers ==
    ASSUME NEW u \in Urb, NEW r \in Request, u.actual <= u.length, r.actual <= r.length
    PROVE  /\ u.length \in Nat /\ u.actual \in Nat /\ r.length \in Nat /\ r.actual \in Nat
           /\ u.dir \in {"in", "out"} /\ u.zero \in BOOLEAN /\ r.zero \in BOOLEAN
           /\ HostLen(u) \in Nat /\ HostLen(u) = u.length - u.actual
           /\ DevLen(r) \in Nat /\ DevLen(r) = r.length - r.actual
           /\ Fits(u, r) \in Nat /\ Fits(u, r) <= HostLen(u) /\ Fits(u, r) <= DevLen(r)
           /\ Fits(u, r) = HostLen(u) \/ Fits(u, r) = DevLen(r)
           /\ MaxPacket \in Nat \ {0}
<1>1. /\ u.length \in Nat /\ u.actual \in Nat /\ r.length \in Nat /\ r.actual \in Nat
      /\ u.dir \in {"in", "out"} /\ u.zero \in BOOLEAN /\ r.zero \in BOOLEAN
  BY TransferAssumption DEF Urb, Request
<1>2. /\ HostLen(u) \in Nat /\ HostLen(u) = u.length - u.actual
      /\ DevLen(r) \in Nat /\ DevLen(r) = r.length - r.actual
  BY <1>1 DEF HostLen, DevLen
<1>3. /\ Fits(u, r) \in Nat /\ Fits(u, r) <= HostLen(u) /\ Fits(u, r) <= DevLen(r)
      /\ Fits(u, r) = HostLen(u) \/ Fits(u, r) = DevLen(r)
  BY <1>2 DEF Fits
<1> QED BY <1>1, <1>2, <1>3, TransferAssumption

\* A full packet, with at least one full packet left on both sides before it.
LEMMA FullPacket ==
    ASSUME NEW u \in Urb, NEW r \in Request, NEW b \in BusState, b.result = "EINPROGRESS",
           MaxPacket <= u.length - b.host, MaxPacket <= r.length - b.dev
    PROVE  LET hostEnds == u.length = b.host + MaxPacket /\ ~(u.zero /\ u.dir = "out")
               devEnds  == r.length = b.dev + MaxPacket /\ ~(r.zero /\ u.dir = "in")
           IN BusMoves(u, r, b) =
                [host |-> b.host + MaxPacket, req |-> IF devEnds THEN b.req + 1 ELSE b.req,
                 dev |-> IF devEnds THEN 0 ELSE b.dev + MaxPacket,
                 result |-> IF hostEnds THEN "0" ELSE "EINPROGRESS"]
<1>1. /\ u.length \in Nat /\ r.length \in Nat /\ b.host \in Int /\ b.dev \in Int
      /\ u.dir \in {"in", "out"} /\ u.zero \in BOOLEAN /\ r.zero \in BOOLEAN
      /\ MaxPacket \in Nat \ {0}
  BY TransferAssumption DEF Urb, Request, BusState
<1>2. /\ PacketSize(u, r, b) = MaxPacket /\ MaxPacket <= Room(u, r, b) /\ ~Babble(u, r, b)
  BY <1>1 DEF PacketSize, Left, Room, Babble
<1>3. CASE u.dir = "in"
  <2>1. /\ SenderDone(u, r, b) <=> (r.length = b.dev + MaxPacket /\ ~r.zero)
        /\ ReceiverDone(u, r, b) <=> (u.length = b.host + MaxPacket)
    BY <1>1, <1>2, <1>3 DEF SenderDone, ReceiverDone, Left, Room
  <2> QED BY <1>1, <1>2, <1>3, <2>1 DEF BusMoves, HostDone, DevDone
<1>4. CASE u.dir = "out"
  <2>1. /\ SenderDone(u, r, b) <=> (u.length = b.host + MaxPacket /\ ~u.zero)
        /\ ReceiverDone(u, r, b) <=> (r.length = b.dev + MaxPacket)
    BY <1>1, <1>2, <1>4 DEF SenderDone, ReceiverDone, Left, Room
  <2> QED BY <1>1, <1>2, <1>4, <2>1 DEF BusMoves, HostDone, DevDone
<1> QED BY <1>1, <1>3, <1>4

\* A copy shorter than a packet is the last packet of the URB and of the request.
LEMMA ShortPacket ==
    ASSUME NEW u \in Urb, NEW r \in Request, u.actual <= u.length, r.actual <= r.length,
           NEW b \in BusState, b.host = u.actual, b.dev = r.actual, IsShort(u, r)
    PROVE  BusMoves(u, r, b) =
             [host |-> u.actual + Fits(u, r), req |-> b.req + 1, dev |-> 0,
              result |-> IF u.dir = "in" /\ DevLen(r) > HostLen(u) THEN "EOVERFLOW" ELSE "0"]
<1>1. /\ HostLen(u) \in Nat /\ HostLen(u) = u.length - b.host
      /\ DevLen(r) \in Nat /\ DevLen(r) = r.length - b.dev
      /\ u.dir \in {"in", "out"} /\ MaxPacket \in Nat \ {0}
      /\ Fits(u, r) = IF HostLen(u) < DevLen(r) THEN HostLen(u) ELSE DevLen(r)
      /\ Fits(u, r) < MaxPacket
  BY UrbNumbers DEF Fits, IsShort
<1>2. /\ Babble(u, r, b) <=> Left(u, r, b) > Room(u, r, b)
      /\ Fits(u, r) = IF Babble(u, r, b) THEN Room(u, r, b) ELSE PacketSize(u, r, b)
      /\ SenderDone(u, r, b) \/ Babble(u, r, b)
      /\ ReceiverDone(u, r, b) \/ Babble(u, r, b)
  BY <1>1 DEF PacketSize, Left, Room, Babble, SenderDone, ReceiverDone
<1>3. HostDone(u, r, b) /\ DevDone(u, r, b)
  BY <1>1, <1>2 DEF HostDone, DevDone
<1>4. u.dir = "in" => (Babble(u, r, b) <=> DevLen(r) > HostLen(u))
  BY <1>1, <1>2 DEF Left, Room
<1> QED BY <1>1, <1>2, <1>3, <1>4 DEF BusMoves

\* The multiples of a packet, as a table: the full packets in n bytes.
Row(T, q, M, j) ==
    /\ T[j] \in Nat /\ j <= T[j] /\ T[j + 1] = T[j] + M
    /\ j < q => T[j] + M <= T[q]
    /\ j + 1 < q => T[j] + M + M <= T[q]
Table(T, q, n, M) ==
    /\ T[0] = 0 /\ q \in Nat /\ T[q] \in Nat /\ T[q] = n - (n % M)
    /\ \A j \in Nat : Row(T, q, M, j)

LEMMA Multiples ==
    ASSUME NEW n \in Nat, NEW M \in Nat \ {0}
    PROVE  n % M \in 0 .. M - 1 /\ \E T, q : Table(T, q, n, M)
<1>1. n % M \in 0 .. M - 1 /\ n \div M \in Nat /\ n - (n % M) = (n \div M) * M
  OBVIOUS
<1>2. ASSUME NEW j \in Nat PROVE j * M \in Nat /\ j <= j * M /\ (j + 1) * M = j * M + M
  OBVIOUS
<1>3. ASSUME NEW j \in Nat, NEW m \in Nat, j < m PROVE j * M + M <= m * M
  <2>1. PICK d \in Nat : m = (j + 1) + d
    <3>1. m - (j + 1) \in Nat /\ m = (j + 1) + (m - (j + 1))
      BY <1>3
    <3> QED BY <3>1
  <2>2. m * M = (j + 1) * M + d * M
    BY <2>1
  <2>3. d * M \in Nat /\ j * M \in Nat /\ (j + 1) * M = j * M + M
    BY <1>2
  <2> HIDE <2>1
  <2> QED BY <2>2, <2>3
<1>4. PICK T : T = [j \in Nat |-> j * M]
  OBVIOUS
<1>5. PICK q \in Nat : q = n \div M
  BY <1>1
<1>6. T \in [Nat -> Nat] /\ \A j \in Nat : T[j] = j * M
  BY <1>2, <1>4
<1>7. T[0] = 0 /\ T[q] = n - (n % M)
  <2>1. T[0] = 0 * M /\ T[q] = q * M
    BY <1>6
  <2>2. 0 * M = 0
    OBVIOUS
  <2> QED BY <1>1, <1>5, <2>1, <2>2
<1>8. ASSUME NEW j \in Nat PROVE j <= T[j] /\ T[j + 1] = T[j] + M
  BY <1>2, <1>6
<1>9. ASSUME NEW j \in Nat, j < q PROVE T[j] + M <= T[q]
  BY <1>3, <1>6, <1>9
<1>10. ASSUME NEW j \in Nat, j + 1 < q PROVE T[j] + M + M <= T[q]
  <2>1. T[j + 1] + M <= T[q]
    BY <1>9, <1>10
  <2> QED BY <1>8, <2>1
<1>11. \A j \in Nat : Row(T, q, M, j)
  BY <1>6, <1>8, <1>9, <1>10 DEF Row
<1> QED BY <1>1, <1>6, <1>7, <1>11 DEF Table

\* A packet of the full ones within s bytes, which fit into the rest of l.
LEMMA PacketFits ==
    ASSUME NEW l \in Nat, NEW a \in Nat, NEW s \in Nat, NEW t \in Nat, NEW m \in Nat \ {0},
           a + s <= l, t + m <= s
    PROVE  /\ a + t \in Int /\ m <= l - (a + t)
           /\ t + m + m <= s => l # (a + t) + m
           /\ (a + t) + m = a + (t + m)
OBVIOUS

\* Where one look of the loop leaves the bus, if it was at request j.
Looked(u, r, j) ==
    [host |-> u.actual + Copied(u, r),
     req |-> IF RequestStatus(u, r) # "EINPROGRESS" THEN j + 1 ELSE j,
     dev |-> IF RequestStatus(u, r) # "EINPROGRESS" THEN 0 ELSE r.actual + Copied(u, r),
     result |-> UrbStatus(u, r)]
Before(u, r, j) == [host |-> u.actual, req |-> j, dev |-> r.actual, result |-> "EINPROGRESS"]

\* One look of the loop is as many packets of the bus as fit.
LEMMA LookIsPackets ==
    ASSUME NEW u \in Urb, NEW reqs \in Seq(Request), NEW j \in 1 .. Len(reqs), NEW r, r = reqs[j],
           u.actual <= u.length, r.actual <= r.length,
           NEW k, Reaches(u, reqs, k, Before(u, r, j)), k <= u.actual
    PROVE  \E n \in 0 .. u.actual + Copied(u, r) + (IF UrbStatus(u, r) = "EINPROGRESS" THEN 0 ELSE 1) :
              Reaches(u, reqs, n, Looked(u, r, j))
<1>1. r \in Request /\ k \in Nat /\ j \in Nat \ {0} /\ j <= Len(reqs)
  BY DEF Reaches
<1>2. /\ u.length \in Nat /\ u.actual \in Nat /\ r.length \in Nat /\ r.actual \in Nat
      /\ HostLen(u) = u.length - u.actual /\ DevLen(r) = r.length - r.actual
      /\ Fits(u, r) \in Nat /\ Fits(u, r) <= HostLen(u) /\ Fits(u, r) <= DevLen(r)
      /\ MaxPacket \in Nat \ {0}
  BY <1>1, UrbNumbers
<1>3. CASE IsShort(u, r)
  <2>1. PICK b : b = Before(u, r, j)
    OBVIOUS
  <2>2. b \in BusState /\ b.host = u.actual /\ b.dev = r.actual /\ b.req = j /\ b.result = "EINPROGRESS"
    BY <1>1, <1>2, <2>1 DEF Before, BusState
  <2>3. BusMoves(u, r, b) =
             [host |-> u.actual + Fits(u, r), req |-> j + 1, dev |-> 0,
              result |-> IF u.dir = "in" /\ DevLen(r) > HostLen(u) THEN "EOVERFLOW" ELSE "0"]
    BY <1>1, <1>3, <2>2, ShortPacket
  <2>4. /\ Copied(u, r) = Fits(u, r) /\ RequestStatus(u, r) # "EINPROGRESS"
        /\ UrbStatus(u, r) = IF u.dir = "in" /\ DevLen(r) > HostLen(u) THEN "EOVERFLOW" ELSE "0"
    BY <1>3 DEF Copied, RequestStatus, UrbStatus
  <2>5. BusMoves(u, r, b) = Looked(u, r, j)
    BY <2>3, <2>4 DEF Looked
  <2>6. Reaches(u, reqs, k + 1, Looked(u, r, j))
    BY <1>1, <2>1, <2>2, <2>5, ReachesNext
  <2>7. k + 1 \in 0 .. u.actual + Copied(u, r) + (IF UrbStatus(u, r) = "EINPROGRESS" THEN 0 ELSE 1)
    BY <1>1, <1>2, <2>4
  <2> QED BY <2>6, <2>7
<1>4. CASE ~IsShort(u, r)
  <2>0. PICK M : M = MaxPacket
    OBVIOUS
  <2>1. M \in Nat \ {0}
    BY <1>2, <2>0
  <2>2. PICK T, Q : Table(T, Q, Fits(u, r), M)
    BY <1>2, <2>1, Multiples
  <2>3. Q \in Nat /\ T[0] = 0 /\ \A i \in Nat : Row(T, Q, M, i)
    BY <2>2 DEF Table
  <2>4. Copied(u, r) = T[Q] /\ T[Q] \in Nat /\ M <= Fits(u, r)
    BY <1>2, <1>4, <2>0, <2>2, <2>3 DEF Copied, IsShort, Table
  <2>A. T[Q] <= Fits(u, r) /\ T[Q] # 0
    <3>1. Fits(u, r) % M \in 0 .. M - 1
      BY <1>2, <2>1, Multiples
    <3>2. T[Q] = Fits(u, r) - (Fits(u, r) % M)
      BY <2>2 DEF Table
    <3> QED BY <1>2, <2>1, <2>4, <3>1, <3>2, SMTT(60)
  <2>B. Q # 0
    BY <2>3, <2>A
  <2>C. /\ u.length \in Nat /\ u.actual \in Nat /\ r.length \in Nat /\ r.actual \in Nat
        /\ T[Q] \in Nat /\ u.actual + T[Q] <= u.length /\ r.actual + T[Q] <= r.length
    BY <1>2, <2>4, <2>A, SMTT(60)
  <2> DEFINE Full(i) == [host |-> u.actual + T[i], req |-> j, dev |-> r.actual + T[i],
                         result |-> "EINPROGRESS"]

  <2>5. ASSUME NEW i \in Nat, i < Q
        PROVE  /\ Full(i) \in BusState /\ Full(i).host = u.actual + T[i] /\ Full(i).dev = r.actual + T[i]
               /\ Full(i).req = j /\ Full(i).result = "EINPROGRESS"
               /\ M <= u.length - Full(i).host /\ M <= r.length - Full(i).dev
    <3>1. T[i] \in Nat /\ T[i] + M <= T[Q]
      BY <2>3, <2>5 DEF Row
    <3>2. /\ u.actual + T[i] \in Int /\ r.actual + T[i] \in Int
          /\ M <= u.length - (u.actual + T[i]) /\ M <= r.length - (r.actual + T[i])
      BY <2>1, <2>C, <3>1, PacketFits
    <3> QED BY <1>1, <3>2 DEF BusState
  <2>6. ASSUME NEW i \in Nat, i + 1 < Q PROVE BusMoves(u, r, Full(i)) = Full(i + 1)
    <3>1. i < Q /\ T[i] \in Nat /\ T[i] + M <= T[Q] /\ T[i + 1] = T[i] + M /\ T[i] + M + M <= T[Q]
      <4>1. i < Q /\ Row(T, Q, M, i)
        BY <2>3, <2>6
      <4> QED BY <2>6, <4>1 DEF Row
    <3>2. PICK b : b = Full(i)
      OBVIOUS
    <3>3. /\ b \in BusState /\ b.host = u.actual + T[i] /\ b.dev = r.actual + T[i]
          /\ b.req = j /\ b.result = "EINPROGRESS"
          /\ M <= u.length - b.host /\ M <= r.length - b.dev
      BY <2>5, <3>1, <3>2
    <3>4. u.length # b.host + M /\ r.length # b.dev + M
      <4>1. T[i] \in Nat /\ T[i] + M <= T[Q] /\ T[i] + M + M <= T[Q]
        BY <3>1
      <4>2. u.length # (u.actual + T[i]) + M
        BY <2>1, <2>C, <4>1, PacketFits, SMTT(60)
      <4>3. r.length # (r.actual + T[i]) + M
        BY <2>1, <2>C, <4>1, PacketFits, SMTT(60)
      <4> QED BY <3>3, <4>2, <4>3
    <3>5. BusMoves(u, r, b) = [host |-> b.host + M, req |-> b.req, dev |-> b.dev + M,
                               result |-> "EINPROGRESS"]
      BY <1>1, <3>3, <3>4, FullPacket, <2>0
    <3>6. b.host + M = u.actual + T[i + 1] /\ b.dev + M = r.actual + T[i + 1]
      <4>1. T[i] \in Nat /\ T[i] + M <= T[Q]
        BY <3>1
      <4>2. (u.actual + T[i]) + M = u.actual + (T[i] + M)
        BY <2>1, <2>C, <4>1, PacketFits
      <4>3. (r.actual + T[i]) + M = r.actual + (T[i] + M)
        BY <2>1, <2>C, <4>1, PacketFits
      <4>4. T[i + 1] = T[i] + M
        BY <3>1
      <4> QED BY <3>3, <4>2, <4>3, <4>4
    <3> QED BY <3>2, <3>3, <3>5, <3>6
  <2> DEFINE S == {i \in Nat : i < Q => Reaches(u, reqs, k + i, Full(i))}
  <2>7. 0 \in S
    <3>1. Full(0) = Before(u, r, j) /\ k + 0 = k
      <4>1. u.actual + T[0] = u.actual /\ r.actual + T[0] = r.actual
        BY <1>2, <2>3
      <4> QED BY <1>1, <4>1 DEF Before
    <3> QED BY <3>1
  <2>8. ASSUME NEW i \in Nat, i \in S PROVE i + 1 \in S
    <3> SUFFICES ASSUME i + 1 < Q PROVE Reaches(u, reqs, k + (i + 1), Full(i + 1))
      OBVIOUS
    <3>1. i < Q /\ Reaches(u, reqs, k + i, Full(i))
      BY <2>3, <2>8
    <3>2. Full(i).result = "EINPROGRESS" /\ Full(i).req = j /\ j <= Len(reqs)
      BY <1>1
    <3>3. Reaches(u, reqs, (k + i) + 1, BusMoves(u, reqs[j], Full(i)))
      <4> HIDE DEF Full
      <4> QED BY <3>1, <3>2, ReachesNext
    <3>4. (k + i) + 1 = k + (i + 1)
      BY <1>1
    <3> QED BY <2>6, <3>3, <3>4
  <2>9. \A i \in Nat : i \in S
    <3> HIDE DEF S
    <3> QED BY <2>7, <2>8, SetInduction
  <2>10. PICK i \in Nat : i = Q - 1
    BY <2>3, <2>B
  <2>11. i < Q /\ i + 1 = Q /\ T[i] + M = T[Q] /\ T[i] + M <= T[Q] /\ i <= T[i] /\ T[i] \in Nat
    <3>1. i < Q /\ i + 1 = Q /\ Row(T, Q, M, i)
      BY <2>3, <2>10
    <3> QED BY <3>1 DEF Row
  <2>12. Reaches(u, reqs, k + i, Full(i))
    BY <2>9, <2>11
  <2>13. Reaches(u, reqs, (k + i) + 1, BusMoves(u, r, Full(i)))
    <3>1. Full(i).result = "EINPROGRESS" /\ Full(i).req = j
      OBVIOUS
    <3> HIDE DEF Full
    <3> QED BY <1>1, <2>12, <3>1, ReachesNext
  <2>14. BusMoves(u, r, Full(i)) = Looked(u, r, j)
    <3>1. PICK b : b = Full(i)
      OBVIOUS
    <3>2. /\ b \in BusState /\ b.host = u.actual + T[i] /\ b.dev = r.actual + T[i]
          /\ b.req = j /\ b.result = "EINPROGRESS"
          /\ M <= u.length - b.host /\ M <= r.length - b.dev
      BY <2>5, <2>11, <3>1
    <3>3. b.host + M = u.actual + Copied(u, r) /\ b.dev + M = r.actual + Copied(u, r)
      <4>1. /\ (u.actual + T[i]) + M = u.actual + T[Q] /\ (r.actual + T[i]) + M = r.actual + T[Q]
        BY <2>1, <2>C, <2>11, PacketFits, SMTT(60)
      <4> QED BY <2>4, <3>2, <4>1
    <3>4. /\ RequestStatus(u, r) = IF r.length = b.dev + M /\ ~(r.zero /\ u.dir = "in")
                                   THEN "0" ELSE "EINPROGRESS"
          /\ UrbStatus(u, r) = IF u.length = b.host + M /\ ~(u.zero /\ u.dir = "out")
                               THEN "0" ELSE "EINPROGRESS"
      BY <1>4, <3>3 DEF RequestStatus, UrbStatus
    <3>5. BusMoves(u, r, b) =
            [host |-> b.host + M,
             req |-> IF r.length = b.dev + M /\ ~(r.zero /\ u.dir = "in") THEN b.req + 1 ELSE b.req,
             dev |-> IF r.length = b.dev + M /\ ~(r.zero /\ u.dir = "in") THEN 0 ELSE b.dev + M,
             result |-> IF u.length = b.host + M /\ ~(u.zero /\ u.dir = "out")
                        THEN "0" ELSE "EINPROGRESS"]
      BY <1>1, <3>2, FullPacket, <2>0
    <3>6. BusMoves(u, r, b) = Looked(u, r, j)
      BY <3>2, <3>3, <3>4, <3>5 DEF Looked
    <3> QED BY <3>1, <3>6
  <2>15. (k + i) + 1 <= u.actual + Copied(u, r) /\ (k + i) + 1 \in Nat
    BY <1>1, <1>2, <2>1, <2>4, <2>11, SMTT(60)
  <2>16. (k + i) + 1 \in 0 .. u.actual + Copied(u, r) + (IF UrbStatus(u, r) = "EINPROGRESS" THEN 0 ELSE 1)
    BY <1>2, <2>4, <2>15
  <2> QED BY <2>13, <2>14, <2>16
<1> QED BY <1>3, <1>4

-------------------------------------------------------------------------------
(* The invariant: transfer has moved what the bus has moved.                 *)

\* Where the bus must be.
BusNow == [host |-> turb.actual, req |-> Len(given) + 1,
           dev |-> IF queue = <<>> THEN 0 ELSE queue[1].actual, result |-> turb.status]

TransferInv ==
    /\ turb \in Urb /\ turb.actual <= turb.length
    /\ queue \in Seq(Request) /\ given \in Seq(Request)
    /\ \A i \in 1 .. Len(queue) : queue[i].actual <= queue[i].length /\ (i > 1 => queue[i].actual = 0)
    /\ at = 1 /\ tpc \in {"loop", "giveback", "nak", "done"}
    /\ tpc \in {"loop", "nak"} => turb.status = "EINPROGRESS"
    /\ tpc = "done" => turb.status # "EINPROGRESS"
    /\ \E k \in 0 .. turb.actual + (IF turb.status = "EINPROGRESS" THEN 0 ELSE 1) :
          Reaches(turb, given \o queue, k, BusNow)

\* The elements of two sequences, one after the other.
LEMMA Concatenation ==
    ASSUME NEW g \in Seq(Request), NEW q \in Seq(Request)
    PROVE  /\ g \o q \in Seq(Request) /\ Len(g \o q) = Len(g) + Len(q) /\ Len(g) \in Nat /\ Len(q) \in Nat
           /\ \A i \in 1 .. Len(g) : (g \o q)[i] = g[i]
           /\ \A i \in 1 .. Len(q) : (g \o q)[Len(g) + i] = q[i]
<1>1. g \o q \in Seq(Request) /\ Len(g \o q) = Len(g) + Len(q) /\ Len(g) \in Nat /\ Len(q) \in Nat
  OBVIOUS
<1>2. \A i \in 1 .. Len(g) : (g \o q)[i] = g[i]
  OBVIOUS
<1>3. ASSUME NEW i \in 1 .. Len(q) PROVE (g \o q)[Len(g) + i] = q[i]
  <2>1. Len(g) + i \in 1 .. Len(g) + Len(q) /\ ~(Len(g) + i <= Len(g)) /\ (Len(g) + i) - Len(g) = i
    BY <1>1
  <2> QED BY <1>1, <2>1
<1> QED BY <1>1, <1>2, <1>3

\* Sequences whose requests have the same shape.
SameShape(r, s) == r.length = s.length /\ r.zero = s.zero

LEMMA ExtendsConcatenation ==
    ASSUME NEW g \in Seq(Request), NEW q \in Seq(Request), NEW h \in Seq(Request), NEW p \in Seq(Request),
           Len(h) + Len(p) >= Len(g) + Len(q),
           \A i \in 1 .. Len(g) + Len(q) : SameShape((g \o q)[i], (h \o p)[i])
    PROVE  Extends(g \o q, h \o p)
<1>1. Len(g \o q) = Len(g) + Len(q) /\ Len(h \o p) = Len(h) + Len(p) /\ Len(g) + Len(q) \in Nat /\ Len(h) + Len(p) \in Nat
  BY Concatenation
<1> QED BY <1>1 DEF Extends, SameShape

\* The first request of the queue is given back.
LEMMA FirstRemoved ==
    ASSUME NEW q \in Seq(Request), q # <<>>
    PROVE  /\ RemoveAt(q, 1) \in Seq(Request) /\ Len(RemoveAt(q, 1)) = Len(q) - 1
           /\ Len(q) \in Nat \ {0}
           /\ \A i \in 1 .. Len(q) - 1 : RemoveAt(q, 1)[i] = q[i + 1]
<1>1. Len(q) \in Nat \ {0}
  OBVIOUS
<1>2. 1 \in DOMAIN q
  BY <1>1
<1>3. \A i \in 1 .. Len(q) - 1 : ~(i < 1)
  BY <1>1
<1> QED BY <1>1, <1>2, <1>3, RemoveAtFacts

LEMMA Extends_GivenBack ==
    ASSUME NEW g \in Seq(Request), NEW q \in Seq(Request), q # <<>>,
           NEW s \in Request, SameShape(q[1], s)
    PROVE  Extends(g \o q, Append(g, s) \o RemoveAt(q, 1))
<1>1. /\ RemoveAt(q, 1) \in Seq(Request) /\ Len(RemoveAt(q, 1)) = Len(q) - 1 /\ Len(q) \in Nat \ {0}
      /\ \A i \in 1 .. Len(q) - 1 : RemoveAt(q, 1)[i] = q[i + 1]
  BY FirstRemoved
<1>2. /\ Append(g, s) \in Seq(Request) /\ Len(Append(g, s)) = Len(g) + 1 /\ Len(g) \in Nat
      /\ Append(g, s)[Len(g) + 1] = s /\ \A i \in 1 .. Len(g) : Append(g, s)[i] = g[i]
  OBVIOUS
<1>3. PICK p \in Seq(Request) : p = RemoveAt(q, 1)
  BY <1>1
<1>4. PICK h \in Seq(Request) : h = Append(g, s)
  BY <1>2
<1>5. ASSUME NEW i \in 1 .. Len(g) + Len(q) PROVE SameShape((g \o q)[i], (h \o p)[i])
  <2>1. CASE i <= Len(g)
    <3>1. i \in 1 .. Len(g) /\ i \in 1 .. Len(h)
      BY <1>2, <1>4, <2>1
    <3>2. (g \o q)[i] = g[i] /\ (h \o p)[i] = h[i]
      BY <3>1, Concatenation
    <3> QED BY <1>2, <1>4, <3>1, <3>2 DEF SameShape
  <2>2. CASE i = Len(g) + 1
    <3>1. Len(h) \in 1 .. Len(h) /\ Len(h) = i /\ 1 \in 1 .. Len(q)
      BY <1>1, <1>2, <1>4, <2>2
    <3>2. (h \o p)[i] = h[i] /\ (g \o q)[i] = q[1]
      BY <2>2, <3>1, Concatenation
    <3> QED BY <1>2, <1>4, <2>2, <3>2 DEF SameShape
  <2>3. CASE i > Len(g) + 1
    <3>1. PICK m : m = i - (Len(g) + 1)
      OBVIOUS
    <3>2. m \in 1 .. Len(p) /\ m \in 1 .. Len(q) - 1 /\ m + 1 \in 1 .. Len(q)
          /\ i = Len(g) + (m + 1) /\ i = Len(h) + m
      BY <1>1, <1>2, <1>3, <1>4, <2>3, <3>1
    <3>3. (g \o q)[i] = q[m + 1] /\ (h \o p)[i] = p[m]
      BY <3>2, Concatenation
    <3> QED BY <1>1, <1>3, <3>2, <3>3 DEF SameShape
  <2>4. i \in Int /\ Len(g) \in Int
    <3>1. Len(g) \in Nat /\ Len(q) \in Nat
      BY <1>1, <1>2
    <3> QED BY <3>1
  <2>5. i <= Len(g) \/ i = Len(g) + 1 \/ i > Len(g) + 1
    BY <2>4
  <2> QED BY <2>1, <2>2, <2>3, <2>5
<1>6. Len(h) + Len(p) >= Len(g) + Len(q)
  BY <1>1, <1>2, <1>3, <1>4
<1> QED BY <1>3, <1>4, <1>5, <1>6, ExtendsConcatenation

\* The first request of the queue goes on.
LEMMA Extends_Changed ==
    ASSUME NEW g \in Seq(Request), NEW q \in Seq(Request), q # <<>>,
           NEW s \in Request, SameShape(q[1], s)
    PROVE  Extends(g \o q, g \o [q EXCEPT ![1] = s])
<1>1. PICK p \in Seq(Request) : p = [q EXCEPT ![1] = s]
  <2>1. [q EXCEPT ![1] = s] \in Seq(Request)
    OBVIOUS
  <2> QED BY <2>1
<1>2. /\ Len(p) = Len(q) /\ p[1] = s /\ Len(q) \in Nat /\ Len(g) \in Nat
      /\ \A i \in 1 .. Len(q) : i # 1 => p[i] = q[i]
  BY <1>1
<1>3. ASSUME NEW i \in 1 .. Len(g) + Len(q) PROVE SameShape((g \o q)[i], (g \o p)[i])
  <2>1. CASE i <= Len(g)
    <3>1. i \in 1 .. Len(g)
      BY <1>2, <2>1
    <3> QED BY <1>2, <3>1, Concatenation DEF SameShape
  <2>2. CASE i > Len(g)
    <3>1. PICK m : m = i - Len(g)
      OBVIOUS
    <3>2. m \in 1 .. Len(q) /\ i = Len(g) + m /\ m \in 1 .. Len(p)
      <4>1. Len(q) \in Nat /\ Len(g) \in Nat /\ Len(q) <= Len(p) /\ Len(p) \in Nat
        BY <1>2
      <4>2. m \in Int /\ m >= 1 /\ m <= Len(q) /\ i = Len(g) + m
        BY <2>2, <3>1, <4>1
      <4> QED BY <4>1, <4>2
    <3>3. (g \o q)[i] = q[m] /\ (g \o p)[i] = p[m]
      BY <1>2, <3>2, Concatenation
    <3> QED BY <1>2, <3>2, <3>3 DEF SameShape
  <2> QED BY <1>2, <2>1, <2>2
<1>4. Len(g) + Len(p) >= Len(g) + Len(q)
  BY <1>2
<1>5. Extends(g \o q, g \o p)
  BY <1>3, <1>4, ExtendsConcatenation
<1> QED BY <1>1, <1>5

\* The driver queues one more.
LEMMA Extends_Queued ==
    ASSUME NEW g \in Seq(Request), NEW q \in Seq(Request), NEW s \in Request
    PROVE  Extends(g \o q, g \o Append(q, s))
<1>1. PICK p \in Seq(Request) : p = Append(q, s)
  <2>1. Append(q, s) \in Seq(Request)
    OBVIOUS
  <2> QED BY <2>1
<1>2. /\ Len(p) = Len(q) + 1 /\ Len(q) \in Nat /\ Len(g) \in Nat
      /\ \A i \in 1 .. Len(q) : p[i] = q[i]
  BY <1>1
<1>3. ASSUME NEW i \in 1 .. Len(g) + Len(q) PROVE SameShape((g \o q)[i], (g \o p)[i])
  <2>1. CASE i <= Len(g)
    <3>1. i \in 1 .. Len(g)
      BY <1>2, <2>1
    <3> QED BY <1>2, <3>1, Concatenation DEF SameShape
  <2>2. CASE i > Len(g)
    <3>1. PICK m : m = i - Len(g)
      OBVIOUS
    <3>2. m \in 1 .. Len(q) /\ i = Len(g) + m /\ m \in 1 .. Len(p)
      <4>1. Len(q) \in Nat /\ Len(g) \in Nat /\ Len(q) <= Len(p) /\ Len(p) \in Nat
        BY <1>2
      <4>2. m \in Int /\ m >= 1 /\ m <= Len(q) /\ i = Len(g) + m
        BY <2>2, <3>1, <4>1
      <4> QED BY <4>1, <4>2
    <3>3. (g \o q)[i] = q[m] /\ (g \o p)[i] = p[m]
      BY <1>2, <3>2, Concatenation
    <3> QED BY <1>2, <3>2, <3>3 DEF SameShape
  <2> QED BY <1>2, <2>1, <2>2
<1>4. Len(g) + Len(p) >= Len(g) + Len(q)
  BY <1>2
<1>5. Extends(g \o q, g \o p)
  BY <1>3, <1>4, ExtendsConcatenation
<1> QED BY <1>1, <1>5

\* One look at a first request of the queue: what changes in the pair.
LEMMA LookNumbers ==
    ASSUME NEW u \in Urb, NEW r \in Request, u.actual <= u.length, r.actual <= r.length
    PROVE  /\ Copied(u, r) \in Nat
           /\ u.actual + Copied(u, r) \in 0 .. MaxUrb /\ u.actual + Copied(u, r) <= u.length
           /\ r.actual + Copied(u, r) \in 0 .. MaxRequest /\ r.actual + Copied(u, r) <= r.length
           /\ UrbStatus(u, r) \in {"EINPROGRESS", "0", "EOVERFLOW"}
           /\ RequestStatus(u, r) \in {"EINPROGRESS", "0", "EOVERFLOW"}
<1>1. /\ u.length \in 0 .. MaxUrb /\ u.actual \in Nat /\ r.length \in 0 .. MaxRequest /\ r.actual \in Nat
      /\ HostLen(u) = u.length - u.actual /\ DevLen(r) = r.length - r.actual
      /\ Fits(u, r) \in Nat /\ Fits(u, r) <= HostLen(u) /\ Fits(u, r) <= DevLen(r)
      /\ MaxPacket \in Nat \ {0} /\ MaxUrb \in Nat /\ MaxRequest \in Nat
  BY UrbNumbers, TransferAssumption DEF Urb, Request
<1>2. PICK n \in Nat : n = Fits(u, r)
  BY <1>1
<1>3. n % MaxPacket \in 0 .. MaxPacket - 1
  BY <1>1
<1>4. n - (n % MaxPacket) \in Nat /\ n - (n % MaxPacket) <= n
  <2>1. n \div MaxPacket \in Nat /\ n = MaxPacket * (n \div MaxPacket) + (n % MaxPacket)
    BY <1>1
  <2>2. MaxPacket * (n \div MaxPacket) \in Nat
    BY <1>1, <2>1
  <2>3. PICK m \in Nat : m = MaxPacket * (n \div MaxPacket)
    BY <2>2
  <2>4. PICK d \in Nat : d = n % MaxPacket
    BY <1>1, <1>3
  <2>5. n = m + d
    BY <2>1, <2>3, <2>4
  <2>6. n - d \in Nat /\ n - d <= n
    BY <2>5
  <2> QED BY <2>4, <2>6
<1>5. PICK c \in Nat : c = Copied(u, r) /\ c <= n
  <2>1. Copied(u, r) = n \/ Copied(u, r) = n - (n % MaxPacket)
    BY <1>2 DEF Copied
  <2>2. Copied(u, r) \in Nat /\ Copied(u, r) <= n
    BY <1>4, <2>1
  <2> QED BY <2>2
<1>6. c <= u.length - u.actual /\ c <= r.length - r.actual
  <2>1. n <= u.length - u.actual /\ n <= r.length - r.actual
    BY <1>1, <1>2
  <2> QED BY <1>1, <1>5, <2>1
<1>7. u.actual + c \in 0 .. MaxUrb /\ u.actual + c <= u.length
  BY <1>1, <1>6
<1>8. r.actual + c \in 0 .. MaxRequest /\ r.actual + c <= r.length
  BY <1>1, <1>6
<1>9. /\ UrbStatus(u, r) \in {"EINPROGRESS", "0", "EOVERFLOW"}
      /\ RequestStatus(u, r) \in {"EINPROGRESS", "0", "EOVERFLOW"}
  BY DEF UrbStatus, RequestStatus
<1> QED BY <1>5, <1>7, <1>8, <1>9

\* A look that ends neither rescans the queue.
LEMMA LookRescans ==
    ASSUME NEW u \in Urb, NEW r \in Request, u.actual <= u.length, r.actual <= r.length,
           RequestStatus(u, r) = "EINPROGRESS", UrbStatus(u, r) = "EINPROGRESS"
    PROVE  Rescan(u, r)
<1>1. ~IsShort(u, r)
  BY DEF UrbStatus
<1>2. /\ Fits(u, r) \in Nat /\ MaxPacket \in Nat \ {0} /\ u.length \in Nat /\ u.actual \in Nat
      /\ r.length \in Nat /\ r.actual \in Nat
      /\ Fits(u, r) = u.length - u.actual \/ Fits(u, r) = r.length - r.actual
  BY UrbNumbers
<1>3. CASE Fits(u, r) % MaxPacket > 0
  BY <1>1, <1>3 DEF Rescan
<1>4. CASE ~(Fits(u, r) % MaxPacket > 0)
  <2>1. PICK n \in Nat : n = Fits(u, r)
    BY <1>2
  <2>2. n % MaxPacket \in 0 .. MaxPacket - 1
    BY <1>2
  <2>3. n % MaxPacket = 0
    BY <1>2, <1>4, <2>1, <2>2
  <2>4. n - (n % MaxPacket) = n
    BY <2>3
  <2>5. Copied(u, r) = n
    BY <1>1, <2>1, <2>4 DEF Copied
  <2>6. u.length = u.actual + Copied(u, r) \/ r.length = r.actual + Copied(u, r)
    <3>1. n = u.length - u.actual \/ n = r.length - r.actual
      BY <1>2, <2>1
    <3>2. u.length = u.actual + n \/ r.length = r.actual + n
      BY <1>2, <3>1
    <3> QED BY <2>5, <3>2
  <2> QED BY <1>1, <2>6 DEF Rescan, UrbStatus, RequestStatus
<1> QED BY <1>3, <1>4

\* The loop's step.
LEMMA TransferInv_Look == TransferInv /\ TransferLook => TransferInv'
<1> SUFFICES ASSUME TransferInv, TransferLook PROVE TransferInv'
  OBVIOUS
<1>1. /\ turb \in Urb /\ turb.actual <= turb.length /\ queue \in Seq(Request) /\ given \in Seq(Request)
      /\ \A i \in 1 .. Len(queue) : queue[i].actual <= queue[i].length /\ (i > 1 => queue[i].actual = 0)
      /\ at = 1 /\ tpc = "loop" /\ turb.status = "EINPROGRESS" /\ at <= Len(queue)
  BY DEF TransferInv, TransferLook
<1>2. 1 \in 1 .. Len(queue) /\ Len(queue) \in Nat /\ queue # <<>> /\ Len(given) \in Nat
  BY <1>1
<1>3. PICK r \in Request : r = queue[1] /\ r.actual <= r.length
  BY <1>1, <1>2
<1>4. PICK u \in Urb : u = turb /\ u.actual <= u.length
  BY <1>1
<1>5. /\ Copied(u, r) \in Nat
      /\ u.actual + Copied(u, r) \in 0 .. MaxUrb /\ u.actual + Copied(u, r) <= u.length
      /\ r.actual + Copied(u, r) \in 0 .. MaxRequest /\ r.actual + Copied(u, r) <= r.length
      /\ UrbStatus(u, r) \in {"EINPROGRESS", "0", "EOVERFLOW"}
      /\ RequestStatus(u, r) \in {"EINPROGRESS", "0", "EOVERFLOW"}
  BY <1>3, <1>4, LookNumbers
<1>6. PICK v : v = [u EXCEPT !.actual = @ + Copied(u, r), !.status = UrbStatus(u, r)]
  OBVIOUS
<1>7. PICK s : s = [r EXCEPT !.actual = @ + Copied(u, r), !.status = RequestStatus(u, r)]
  OBVIOUS
<1>8. /\ turb' = v
      /\ IF s.status # "EINPROGRESS"
         THEN /\ queue' = RemoveAt(queue, 1) /\ given' = Append(given, s)
              /\ tpc' = "giveback" /\ at' = 1
         ELSE /\ queue' = [queue EXCEPT ![1] = s]
              /\ tpc' = IF v.status # "EINPROGRESS" THEN "done" ELSE "loop"
              /\ at' = IF v.status # "EINPROGRESS" \/ Rescan(u, r) THEN 1 ELSE 1 + 1
              /\ UNCHANGED given
  BY <1>1, <1>3, <1>4, <1>6, <1>7 DEF TransferLook
<1>9. /\ v \in Urb /\ SameUrb(u, v) /\ v.actual = u.actual + Copied(u, r) /\ v.actual <= v.length
      /\ v.status = UrbStatus(u, r)
  BY <1>5, <1>6 DEF Urb, SameUrb
<1>10. /\ s \in Request /\ SameShape(r, s) /\ s.actual = r.actual + Copied(u, r) /\ s.actual <= s.length
       /\ s.status = RequestStatus(u, r)
  BY <1>5, <1>7 DEF Request, SameShape
<1>11. PICK reqs \in Seq(Request) : reqs = given \o queue
  BY <1>1, Concatenation
<1>12. PICK j \in 1 .. Len(reqs) : j = Len(given) + 1 /\ reqs[j] = r
  <2>1. Len(given) + 1 \in 1 .. Len(reqs) /\ reqs[Len(given) + 1] = r
    BY <1>1, <1>2, <1>3, <1>11, Concatenation
  <2> QED BY <2>1
<1>13. PICK k : Reaches(u, reqs, k, Before(u, r, j)) /\ k <= u.actual
  <2>1. BusNow = Before(u, r, j)
    BY <1>1, <1>2, <1>3, <1>4, <1>12 DEF BusNow, Before
  <2>2. PICK k \in 0 .. turb.actual + 0 : Reaches(turb, given \o queue, k, BusNow)
    BY <1>1 DEF TransferInv
  <2>3. k <= u.actual
    <3>1. u.actual \in Nat
      BY <1>3, <1>4, UrbNumbers
    <3> QED BY <1>4, <2>2, <3>1
  <2> QED BY <1>4, <1>11, <2>1, <2>2, <2>3
<1>14. PICK n \in 0 .. v.actual + (IF v.status = "EINPROGRESS" THEN 0 ELSE 1) :
          Reaches(u, reqs, n, Looked(u, r, j))
  BY <1>3, <1>4, <1>9, <1>12, <1>13, LookIsPackets
<1>15. CASE s.status # "EINPROGRESS"
  <2>1. queue' = RemoveAt(queue, 1) /\ given' = Append(given, s) /\ tpc' = "giveback" /\ at' = 1
    BY <1>8, <1>15
  <2>2. /\ queue' \in Seq(Request) /\ Len(queue') = Len(queue) - 1
        /\ \A i \in 1 .. Len(queue) - 1 : queue'[i] = queue[i + 1]
    BY <1>1, <1>2, <2>1, FirstRemoved
  <2>3. given' \in Seq(Request) /\ Len(given') = Len(given) + 1
    BY <1>1, <1>10, <2>1
  <2>4. ASSUME NEW i \in 1 .. Len(queue')
        PROVE  queue'[i].actual <= queue'[i].length /\ queue'[i].actual = 0
    <3>1. i + 1 \in 1 .. Len(queue) /\ i + 1 > 1 /\ i \in 1 .. Len(queue) - 1
      BY <1>2, <2>2
    <3> QED BY <1>1, <2>2, <3>1
  <2>5. BusNow' = Looked(u, r, j)
    <3>1. (IF queue' = <<>> THEN 0 ELSE queue'[1].actual) = 0
      <4>1. CASE queue' = <<>>
        BY <4>1
      <4>2. CASE queue' # <<>>
        <5>1. 1 \in 1 .. Len(queue')
          BY <2>2, <4>2
        <5> QED BY <2>4, <4>2, <5>1
      <4> QED BY <4>1, <4>2
    <3>2. j + 1 = Len(given') + 1 /\ RequestStatus(u, r) # "EINPROGRESS"
      BY <1>2, <1>10, <1>12, <1>15, <2>3
    <3> QED BY <1>8, <1>9, <3>1, <3>2 DEF BusNow, Looked
  <2>6. Extends(reqs, given' \o queue')
    BY <1>1, <1>2, <1>3, <1>10, <1>11, <2>1, Extends_GivenBack
  <2>7. given' \o queue' \in Seq(Request)
    BY <2>2, <2>3, Concatenation
  <2>8. Reaches(v, given' \o queue', n, BusNow')
    BY <1>9, <1>14, <2>5, <2>6, <2>7, ReachesStill
  <2> QED BY <1>8, <1>9, <1>14, <2>1, <2>2, <2>3, <2>4, <2>8 DEF TransferInv
<1>16. CASE s.status = "EINPROGRESS"
  <2>1. /\ queue' = [queue EXCEPT ![1] = s] /\ given' = given
        /\ tpc' = IF v.status # "EINPROGRESS" THEN "done" ELSE "loop"
        /\ at' = 1
    <3>1. v.status # "EINPROGRESS" \/ Rescan(u, r)
      BY <1>3, <1>4, <1>9, <1>10, <1>16, LookRescans
    <3> QED BY <1>8, <1>16, <3>1
  <2>2. /\ queue' \in Seq(Request) /\ Len(queue') = Len(queue) /\ queue'[1] = s
        /\ \A i \in 1 .. Len(queue) : i # 1 => queue'[i] = queue[i]
    BY <1>1, <1>2, <1>10, <2>1
  <2>3. ASSUME NEW i \in 1 .. Len(queue')
        PROVE  queue'[i].actual <= queue'[i].length /\ (i > 1 => queue'[i].actual = 0)
    <3>1. i \in 1 .. Len(queue)
      BY <2>2
    <3>2. CASE i = 1
      BY <1>10, <2>2, <3>2
    <3>3. CASE i # 1
      BY <1>1, <2>2, <3>1, <3>3
    <3> QED BY <3>2, <3>3
  <2>4. BusNow' = Looked(u, r, j)
    <3>1. queue' # <<>>
      BY <1>2, <2>2
    <3>2. RequestStatus(u, r) = "EINPROGRESS"
      BY <1>10, <1>16
    <3> QED BY <1>8, <1>9, <1>10, <1>12, <2>1, <2>2, <3>1, <3>2 DEF BusNow, Looked
  <2>5. Extends(reqs, given' \o queue')
    BY <1>1, <1>2, <1>3, <1>10, <1>11, <2>1, Extends_Changed
  <2>6. given' \o queue' \in Seq(Request)
    BY <1>1, <2>1, <2>2, Concatenation
  <2>7. Reaches(v, given' \o queue', n, BusNow')
    BY <1>9, <1>14, <2>4, <2>5, <2>6, ReachesStill
  <2> QED BY <1>1, <1>8, <1>9, <1>14, <2>1, <2>2, <2>3, <2>7 DEF TransferInv
<1> QED BY <1>15, <1>16

\* The driver's request, while the lock is free.
LEMMA TransferInv_Queues == TransferInv /\ GadgetQueues => TransferInv'
<1> SUFFICES ASSUME TransferInv, GadgetQueues PROVE TransferInv'
  OBVIOUS
<1>1. PICK r \in NewRequests : queue' = Append(queue, r)
  BY DEF GadgetQueues
<1>2. turb' = turb /\ given' = given /\ at' = at /\ tpc' = tpc
  BY DEF GadgetQueues
<1>3. r \in Request /\ r.actual = 0 /\ r.actual <= r.length
  <2>1. r \in Request /\ r.actual = 0 /\ r.length \in Nat
    BY TransferAssumption DEF NewRequests, Request
  <2> QED BY <2>1
<1>4. /\ turb \in Urb /\ turb.actual <= turb.length /\ queue \in Seq(Request) /\ given \in Seq(Request)
      /\ \A i \in 1 .. Len(queue) : queue[i].actual <= queue[i].length /\ (i > 1 => queue[i].actual = 0)
  BY DEF TransferInv
<1>5. /\ queue' \in Seq(Request) /\ Len(queue') = Len(queue) + 1 /\ Len(queue) \in Nat
      /\ queue'[Len(queue) + 1] = r /\ \A i \in 1 .. Len(queue) : queue'[i] = queue[i]
  BY <1>1, <1>3, <1>4
<1>6. ASSUME NEW i \in 1 .. Len(queue')
      PROVE  queue'[i].actual <= queue'[i].length /\ (i > 1 => queue'[i].actual = 0)
  <2>1. i \in 1 .. Len(queue) \/ i = Len(queue) + 1
    BY <1>5
  <2> QED BY <1>3, <1>4, <1>5, <2>1
<1>7. BusNow' = BusNow
  <2>1. (IF queue' = <<>> THEN 0 ELSE queue'[1].actual) = (IF queue = <<>> THEN 0 ELSE queue[1].actual)
    <3>1. CASE queue = <<>>
      BY <1>3, <1>5, <3>1
    <3>2. CASE queue # <<>>
      <4>1. 1 \in 1 .. Len(queue) /\ queue' # <<>>
        BY <1>4, <1>5, <3>2
      <4> QED BY <1>5, <3>2, <4>1
    <3> QED BY <3>1, <3>2
  <2> QED BY <1>2, <2>1 DEF BusNow
<1>8. PICK k \in 0 .. turb.actual + (IF turb.status = "EINPROGRESS" THEN 0 ELSE 1) :
         Reaches(turb, given \o queue, k, BusNow)
  BY DEF TransferInv
<1>9. Extends(given \o queue, given' \o queue')
  BY <1>1, <1>2, <1>3, <1>4, Extends_Queued
<1>10. given \o queue \in Seq(Request) /\ given' \o queue' \in Seq(Request)
  BY <1>2, <1>4, <1>5, Concatenation
<1>11. Reaches(turb', given' \o queue', k, BusNow')
  BY <1>2, <1>4, <1>7, <1>8, <1>9, <1>10, ReachesStill DEF SameUrb
<1> QED BY <1>2, <1>4, <1>5, <1>6, <1>8, <1>11 DEF TransferInv

\* The invariant holds, whatever the lengths.
LEMMA TransferInv_Init == TransferInit => TransferInv
<1> SUFFICES ASSUME TransferInit PROVE TransferInv
  OBVIOUS
<1>1. /\ turb \in Urb /\ turb.actual = 0 /\ turb.status = "EINPROGRESS" /\ turb.length \in Nat
      /\ queue = <<>> /\ given = <<>> /\ at = 1 /\ tpc = "nak"
  BY TransferAssumption DEF TransferInit, Urb
<1>2. given \o queue \in Seq(Request) /\ Len(given) = 0
  BY <1>1
<1>3. BusNow = BusStart
  BY <1>1, <1>2 DEF BusNow, BusStart
<1>4. Reaches(turb, given \o queue, 0, BusNow)
  <2>1. Bus(turb, given \o queue)[0] = BusStart
    BY <1>1, <1>2, BusUnfolds
  <2> QED BY <1>3, <2>1 DEF Reaches
<1>5. 0 \in 0 .. turb.actual + (IF turb.status = "EINPROGRESS" THEN 0 ELSE 1)
  BY <1>1
<1> QED BY <1>1, <1>4, <1>5 DEF TransferInv

LEMMA TransferInv_Next == TransferInv /\ [TransferNext]_transferVars => TransferInv'
<1> SUFFICES ASSUME TransferInv, [TransferNext]_transferVars PROVE TransferInv'
  OBVIOUS
<1>1. CASE TransferLook
  BY <1>1, TransferInv_Look
<1>2. CASE GadgetQueues
  BY <1>2, TransferInv_Queues
<1>3. ASSUME UNCHANGED <<turb, queue, given>>, at' = 1,
             tpc' \in {"loop", "giveback", "nak", "done"},
             tpc' \in {"loop", "nak"} => turb.status = "EINPROGRESS",
             tpc' = "done" => turb.status # "EINPROGRESS"
      PROVE  TransferInv'
  <2>1. BusNow' = BusNow
    BY <1>3 DEF BusNow
  <2> QED BY <1>3, <2>1 DEF TransferInv
<1>4. at = 1 /\ (tpc \in {"loop", "nak"} => turb.status = "EINPROGRESS")
      /\ tpc \in {"loop", "giveback", "nak", "done"} /\ (tpc = "done" => turb.status # "EINPROGRESS")
  BY DEF TransferInv
<1>5. CASE TransferGiven
  BY <1>3, <1>4, <1>5 DEF TransferGiven
<1>6. CASE TransferNak
  BY <1>3, <1>4, <1>6 DEF TransferNak
<1>7. CASE TransferAgain
  BY <1>3, <1>4, <1>7 DEF TransferAgain
<1>8. CASE UNCHANGED transferVars
  BY <1>3, <1>4, <1>8 DEF transferVars
<1> QED BY <1>1, <1>2, <1>5, <1>6, <1>7, <1>8 DEF TransferNext

\* Where transfer stops, or has nothing to do, the bus rests.
LEMMA TransferInv_Matches == TransferInv => MatchesPackets
<1> SUFFICES ASSUME TransferInv, tpc = "done" \/ (tpc = "nak" /\ queue = <<>>)
             PROVE  LET bus == Bus(turb, given \o queue)[turb.length + 1]
                    IN turb.actual = bus.host /\ turb.status = bus.result /\ Len(given) = bus.req - 1
  BY DEF MatchesPackets
<1>1. /\ turb \in Urb /\ turb.actual <= turb.length /\ queue \in Seq(Request) /\ given \in Seq(Request)
      /\ tpc = "done" => turb.status # "EINPROGRESS"
  BY DEF TransferInv
<1>2. given \o queue \in Seq(Request) /\ Len(given \o queue) = Len(given) + Len(queue) /\ Len(given) \in Nat
  BY <1>1, Concatenation
<1>3. turb.length \in Nat /\ turb.actual \in Nat
  BY <1>1, TransferAssumption DEF Urb
<1>4. PICK k \in 0 .. turb.actual + (IF turb.status = "EINPROGRESS" THEN 0 ELSE 1) :
         Reaches(turb, given \o queue, k, BusNow)
  BY DEF TransferInv
<1>5. k <= turb.length + 1 /\ turb.length + 1 \in Nat
  BY <1>1, <1>3, <1>4
<1>6. /\ BusNow.host = turb.actual /\ BusNow.result = turb.status /\ BusNow.req = Len(given) + 1
  BY DEF BusNow
<1>7. BusNow.result # "EINPROGRESS" \/ BusNow.req > Len(given \o queue)
  <2>1. CASE tpc = "done"
    BY <1>1, <1>6, <2>1
  <2>2. CASE tpc = "nak" /\ queue = <<>>
    BY <1>2, <1>6, <2>2
  <2> QED BY <2>1, <2>2
<1>8. Bus(turb, given \o queue)[turb.length + 1] = BusNow
  <2>1. PICK b : b = BusNow
    OBVIOUS
  <2>2. PICK n \in Nat : n = turb.length + 1
    BY <1>5
  <2>3. k <= n /\ Reaches(turb, given \o queue, k, b)
    BY <1>4, <1>5, <2>1, <2>2
  <2>4. b.result # "EINPROGRESS" \/ b.req > Len(given \o queue)
    BY <1>7, <2>1
  <2>5. Bus(turb, given \o queue)[n] = b
    BY <1>1, <1>2, <2>3, <2>4, BusRests
  <2> QED BY <2>1, <2>2, <2>5
<1>9. Len(given) = BusNow.req - 1
  BY <1>2, <1>6
<1> QED BY <1>6, <1>8, <1>9

\* transfer moves exactly what a bus would have moved packet by packet, gives back
\* exactly the requests the bus would have completed, and ends the URB exactly when
\* and as the bus would have: for every packet size, all lengths, either direction
\* and any number of requests, whenever the driver queues them.
THEOREM Transfer_MatchesPackets == TransferSpec => []MatchesPackets
<1>1. TransferInit => TransferInv
  BY TransferInv_Init
<1>2. TransferInv /\ [TransferNext]_transferVars => TransferInv'
  BY TransferInv_Next
<1>3. TransferInv => MatchesPackets
  BY TransferInv_Matches
<1> QED BY <1>1, <1>2, <1>3, PTL DEF TransferSpec

\* The type invariant.
THEOREM Transfer_TypeOK == TransferSpec => []TransferTypeOK
<1>1. TransferInit => TransferInv
  BY TransferInv_Init
<1>2. TransferInv /\ [TransferNext]_transferVars => TransferInv'
  BY TransferInv_Next
<1>3. TransferInv => TransferTypeOK
  <2> SUFFICES ASSUME TransferInv PROVE TransferTypeOK
    OBVIOUS
  <2>1. 1 \in 1 .. MaxRequests + 1
    BY TransferAssumption
  <2>2. queue \in Seq(Request) /\ DOMAIN queue = 1 .. Len(queue)
    BY DEF TransferInv
  <2> QED BY <2>1, <2>2 DEF TransferInv, TransferTypeOK
<1> QED BY <1>1, <1>2, <1>3, PTL DEF TransferSpec

===============================================================================
