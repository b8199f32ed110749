------------------------------ MODULE ToolsProofs ------------------------------
(***************************************************************************)
(* Theorems about the command line tools and what they set in motion, for  *)
(* any number of devices, users, commands, connections and pluggings: the  *)
(* binding of devices to usbip_host (Bind) and the hand-over of a          *)
(* connection to the two drivers (Attach).                                 *)
(***************************************************************************)
EXTENDS Attach, Bind, SequenceTheorems, TLAPS

-------------------------------------------------------------------------------
(* Bind: the life of a stub device.                                           *)

WorkSteps == {"shutdown", "stop_tx", "unset", "lock", "reset", "unset_reset", "unusable", "wake"}
DiscSteps == {"no", "files", "shutdown", "wait", "status", "del", "done"}
FileSteps == {"none", "up", "start_rx", "start_tx", "set_tx", "used"}
CmdSteps  == {"idle", "add", "unbind_other", "bind", "bind_del", "unbind_del", "unbind",
              "unbound", "rebind"}

BindTypeOK ==
    /\ present \in [Busid -> BOOLEAN]
    /\ driver \in [Busid -> {"none", "other", "usbip-host"}]
    /\ entry \in [Busid -> {"none", "ADDED", "ALLOC", "REMOV", "OTHER"}]
    /\ sdev \in [Busid -> {"none", "AVAILABLE", "USED", "ERROR"}]
    /\ files \in [Busid -> FileSteps]
    /\ threads \in [Busid -> SUBSET {"rx", "tx"}]
    /\ missed \in [Busid -> SUBSET {"rx", "tx"}]
    /\ interrupted \in SUBSET Busid
    /\ sevent \in [Busid -> EventWord]
    /\ worker \in (Busid \X WorkSteps) \cup {NoWork}
    /\ disc \in [Busid -> DiscSteps \X {"none", "unbind", "unplug"}]
    /\ cmd \in [User -> {NoCmd} \cup (CmdSteps \X Busid)]

\* The event worker is at one of the given steps for the device at b.
Working(b, steps) == worker[1] = b /\ worker[2] \in steps

\* A stub device is there exactly from stub_probe to the end of stub_disconnect's
\* wait, and its slot, its files, its events and the worker's interest end with it.
Owned(b) ==
    /\ sdev[b] # "none" <=> driver[b] = "usbip-host" /\ disc[b][1] \notin {"status", "del", "done"}
    /\ disc[b][1] # "no" => driver[b] = "usbip-host"
    /\ disc[b][1] = "no" => disc[b] = NoDisc
    /\ driver[b] = "usbip-host" => present[b]
    /\ sdev[b] # "none" => entry[b] \in {"ALLOC", "REMOV"}
    /\ files[b] # "none" => sdev[b] # "none" /\ disc[b][1] \in {"no", "files"}
    /\ sdev[b] = "none" => sevent[b] = NoEvent /\ ~Working(b, WorkSteps)

\* Only stub_disconnect closes the event word, and then it waits.
Closed(b) == "BYE" \in sevent[b].bits => disc[b][1] = "wait"

\* What a shutdown has done by each of its steps: the thread it has looked for is
\* stopped, or was started behind it, or the write to usbip_sockfd is still about
\* to start it.  A device that is being removed has a shutdown ahead as long as a
\* thread runs that none has looked for.
Stopping(b) ==
    /\ Working(b, {"stop_tx", "unset"}) =>
          /\ "rx" \in threads[b] => "rx" \in missed[b]
          /\ files[b] = "start_rx" => "rx" \in missed[b]
    /\ Working(b, {"unset"}) =>
          /\ "tx" \in threads[b] => "tx" \in missed[b]
          /\ files[b] \in {"start_rx", "start_tx"} => "tx" \in missed[b]
    /\ disc[b][1] = "wait" => threads[b] \subseteq missed[b] \/ "SHUTDOWN" \in sevent[b].bits
    /\ sdev[b] = "none" => threads[b] \subseteq missed[b] \/ b \in interrupted

BindInv == BindTypeOK /\ \A b \in Busid : Owned(b) /\ Closed(b) /\ Stopping(b)

\* The operations of usbip_event.c on an event word.
LEMMA Words ==
    ASSUME NEW e \in EventWord
    PROVE  /\ e.bits \subseteq {"SHUTDOWN", "RESET", "UNUSABLE", "BYE"}
           /\ GetEvent(e) \in EventWord /\ GetEvent(e).bits = e.bits /\ ~GetEvent(e).queued
           /\ \A x : /\ UnsetEvent(e, x) \in EventWord /\ UnsetEvent(e, x).bits = e.bits \ {x}
                    /\ UnsetEvent(e, x).queued = e.queued
           /\ \A m \in SUBSET Bits :
                 /\ EventAdd(e, m) \in EventWord
                 /\ "BYE" \in e.bits => EventAdd(e, m) = e
                 /\ "BYE" \notin e.bits => EventAdd(e, m).bits = e.bits \cup m /\ EventAdd(e, m).queued
           /\ NoEvent \in EventWord /\ NoEvent.bits = {} /\ ~NoEvent.queued
BY DEF EventWord, GetEvent, UnsetEvent, EventAdd, NoEvent, Bits

\* A step of stub_disconnect for the device at b, and of the worker.
LEMMA DiscTo ==
    ASSUME BindTypeOK, NEW b \in Busid, NEW s \in DiscSteps, disc' = [disc EXCEPT ![b][1] = s]
    PROVE  /\ disc' \in [Busid -> DiscSteps \X {"none", "unbind", "unplug"}]
           /\ disc'[b] = <<s, disc[b][2]>> /\ disc'[b][1] = s
           /\ \A c \in Busid : c # b => disc'[c] = disc[c]
<1>1. disc[b] \in DiscSteps \X {"none", "unbind", "unplug"}
  BY DEF BindTypeOK
<1>2. [disc[b] EXCEPT ![1] = s] = <<s, disc[b][2]>>
  BY <1>1
<1>3. disc' = [disc EXCEPT ![b] = <<s, disc[b][2]>>]
  BY <1>2
<1> QED BY <1>1, <1>3 DEF BindTypeOK

\* The worker moves on within the callback it runs.
LEMMA WorkerTo ==
    ASSUME BindTypeOK, NEW s \in WorkSteps, worker # NoWork, worker' = [worker EXCEPT ![2] = s]
    PROVE  worker' = <<worker[1], s>> /\ worker[1] \in Busid /\ worker'[1] = worker[1] /\ worker'[2] = s
BY DEF BindTypeOK

\* A step that has nothing to do with the bus id c.
SameAt(c) ==
    /\ present'[c] = present[c] /\ driver'[c] = driver[c] /\ entry'[c] = entry[c]
    /\ sdev'[c] = sdev[c] /\ files'[c] = files[c] /\ threads'[c] = threads[c]
    /\ missed'[c] = missed[c] /\ (c \in interrupted' <=> c \in interrupted)
    /\ sevent'[c] = sevent[c] /\ disc'[c] = disc[c]

\* A step for the device at b, or for none.
OnlyAt(b) ==
    /\ \A c \in Busid : c # b => SameAt(c)
    /\ \/ worker' = worker
       \/ (worker[1] = b \/ worker = NoWork) /\ (worker'[1] = b \/ worker' = NoWork)

\* What a step for the device at another bus id leaves alone.
LEMMA Elsewhere ==
    ASSUME NEW c \in Busid, Owned(c), Closed(c), Stopping(c), SameAt(c),
           \/ worker' = worker
           \/ /\ worker[1] # c \/ worker[2] \notin WorkSteps
              /\ worker'[1] # c \/ worker'[2] \notin WorkSteps
    PROVE  Owned(c)' /\ Closed(c)' /\ Stopping(c)'
<1> USE DEF SameAt
<1>1. \A steps \in SUBSET WorkSteps : Working(c, steps)' <=> Working(c, steps)
  BY DEF Working
<1>2. Owned(c)'
  BY <1>1 DEF Owned
<1>3. Closed(c)'
  BY <1>1 DEF Closed, WorkSteps
<1>4. Stopping(c)'
  BY <1>1 DEF Stopping, WorkSteps
<1> QED BY <1>2, <1>3, <1>4

\* A command that is under way names a bus id.
LEMMA CmdBus ==
    ASSUME BindTypeOK, NEW u \in User, cmd[u][1] # "idle"
    PROVE  cmd[u][2] \in Busid
BY DEF BindTypeOK, NoCmd

\* A step of a command.
LEMMA CmdTo ==
    ASSUME BindTypeOK, NEW u \in User, cmd[u][1] # "idle", NEW s \in CmdSteps, To(u, s)
    PROVE  cmd' \in [User -> {NoCmd} \cup (CmdSteps \X Busid)]
<1>1. cmd[u][2] \in Busid
  BY CmdBus
<1>2. (IF s = "idle" THEN NoCmd ELSE <<s, cmd[u][2]>>) \in {NoCmd} \cup (CmdSteps \X Busid)
  BY <1>1
<1> QED BY <1>2 DEF To, BindTypeOK

\* stub_probe and the end of a stub device keep the types.
LEMMA ProbeType ==
    ASSUME BindTypeOK, NEW b \in Busid, NEW ok, StubProbe(b, ok)
    PROVE  /\ driver' \in [Busid -> {"none", "other", "usbip-host"}]
           /\ entry' \in [Busid -> {"none", "ADDED", "ALLOC", "REMOV", "OTHER"}]
           /\ sdev' \in [Busid -> {"none", "AVAILABLE", "USED", "ERROR"}]
           /\ files' \in [Busid -> FileSteps]
           /\ threads' \in [Busid -> SUBSET {"rx", "tx"}]
           /\ missed' \in [Busid -> SUBSET {"rx", "tx"}]
           /\ interrupted' \in SUBSET Busid
           /\ sevent' \in [Busid -> EventWord]
<1>1. NoEvent \in EventWord
  BY DEF NoEvent, EventWord
<1>2. CASE Claims(b) /\ ok
  <2>1. /\ driver' = [driver EXCEPT ![b] = "usbip-host"] /\ entry' = [entry EXCEPT ![b] = "ALLOC"]
        /\ sdev' = [sdev EXCEPT ![b] = "AVAILABLE"] /\ files' = [files EXCEPT ![b] = "up"]
        /\ threads' = [threads EXCEPT ![b] = {}] /\ missed' = [missed EXCEPT ![b] = {}]
        /\ interrupted' = interrupted \ {b} /\ sevent' = [sevent EXCEPT ![b] = NoEvent]
    BY <1>2 DEF StubProbe
  <2>2. /\ driver' \in [Busid -> {"none", "other", "usbip-host"}]
        /\ entry' \in [Busid -> {"none", "ADDED", "ALLOC", "REMOV", "OTHER"}]
        /\ sdev' \in [Busid -> {"none", "AVAILABLE", "USED", "ERROR"}]
    BY <2>1 DEF BindTypeOK
  <2>3. files' \in [Busid -> FileSteps] /\ sevent' \in [Busid -> EventWord]
    BY <1>1, <2>1 DEF BindTypeOK, FileSteps
  <2>4. /\ threads' \in [Busid -> SUBSET {"rx", "tx"}] /\ missed' \in [Busid -> SUBSET {"rx", "tx"}]
        /\ interrupted' \in SUBSET Busid
    BY <2>1 DEF BindTypeOK
  <2> QED BY <2>2, <2>3, <2>4
<1>3. CASE ~(Claims(b) /\ ok)
  BY <1>3 DEF BindTypeOK, StubProbe, threadVars
<1> QED BY <1>2, <1>3

\* Every step of probe, disconnect, worker and commands keeps the types.
LEMMA BindTypeStep == BindTypeOK /\ [BindNext]_bindVars => BindTypeOK'
<1> SUFFICES ASSUME BindTypeOK, [BindNext]_bindVars PROVE BindTypeOK'
  OBVIOUS
<1> USE DEF threadVars
<1>0. NoEvent \in EventWord /\ \A b \in Busid : sevent[b] \in EventWord
  BY DEF BindTypeOK, NoEvent, EventWord
<1>1. ASSUME NEW b \in Busid,
             DiscFiles(b) \/ DiscNoRelease(b) \/ DiscShutdown(b) \/ DiscFree(b) \/ DiscInterrupted(b)
      PROVE  BindTypeOK'
  <2>1. disc' \in [Busid -> DiscSteps \X {"none", "unbind", "unplug"}]
    BY <1>1, DiscTo DEF DiscFiles, DiscNoRelease, DiscShutdown, DiscFree, DiscInterrupted, Free, DiscSteps
  <2>2. EventAdd(sevent[b], EVENT_REMOVED) \in EventWord
    BY <1>0, Words DEF EVENT_REMOVED, Bits
  <2>3. /\ sevent' \in [Busid -> EventWord] /\ worker' \in (Busid \X WorkSteps) \cup {NoWork}
        /\ sdev' \in [Busid -> {"none", "AVAILABLE", "USED", "ERROR"}]
        /\ files' \in [Busid -> FileSteps] /\ threads' \in [Busid -> SUBSET {"rx", "tx"}]
        /\ missed' \in [Busid -> SUBSET {"rx", "tx"}] /\ interrupted' \in SUBSET Busid
    <3>1. CASE DiscFiles(b)
      BY <3>1 DEF DiscFiles, BindTypeOK, FileSteps
    <3>2. CASE DiscNoRelease(b)
      BY <1>0, <3>2 DEF DiscNoRelease, DropSdev, BindTypeOK, FileSteps
    <3>3. CASE DiscShutdown(b)
      BY <2>2, <3>3 DEF DiscShutdown, BindTypeOK
    <3>4. CASE DiscFree(b) \/ DiscInterrupted(b)
      <4>1. /\ sevent' = [sevent EXCEPT ![b] = NoEvent] /\ sdev' = [sdev EXCEPT ![b] = "none"]
            /\ worker' = (IF worker[1] = b THEN NoWork ELSE worker)
            /\ UNCHANGED <<files, threads, missed>>
        BY <3>4 DEF DiscFree, DiscInterrupted, Free, DropSdev
      <4>2. interrupted' \in {interrupted, interrupted \cup {b}}
        BY <3>4 DEF DiscFree, DiscInterrupted
      <4>3. interrupted' \in SUBSET Busid
        BY <4>2 DEF BindTypeOK
      <4> QED BY <1>0, <4>1, <4>3 DEF BindTypeOK
    <3> QED BY <1>1, <3>1, <3>2, <3>3, <3>4
  <2>4. UNCHANGED <<present, driver, entry, cmd>>
    BY <1>1 DEF DiscFiles, DiscNoRelease, DiscShutdown, DiscFree, DiscInterrupted, Free
  <2> QED BY <2>1, <2>3, <2>4 DEF BindTypeOK
<1>2. ASSUME NEW b \in Busid, DiscStatus(b) \/ DiscDel(b)
      PROVE  BindTypeOK'
  <2>1. disc' \in [Busid -> DiscSteps \X {"none", "unbind", "unplug"}]
    BY <1>2, DiscTo DEF DiscStatus, DiscDel, DiscSteps
  <2>2. entry' \in [Busid -> {"none", "ADDED", "ALLOC", "REMOV", "OTHER"}]
    BY <1>2 DEF DiscStatus, DiscDel, DelMatchBusid, BindTypeOK
  <2>3. UNCHANGED <<present, driver, sdev, files, threadVars, sevent, worker, cmd>>
    BY <1>2 DEF DiscStatus, DiscDel
  <2> QED BY <2>1, <2>2, <2>3 DEF BindTypeOK
<1>3. ASSUME NEW b \in Busid, DiscDone(b) PROVE BindTypeOK'
  BY <1>3 DEF DiscDone, BindTypeOK, NoDisc, DiscSteps
<1>4. ASSUME NEW b \in Busid, EhPop(b) PROVE BindTypeOK'
  <2>1. GetEvent(sevent[b]) \in EventWord
    BY <1>0, Words
  <2>2. NextStep(b, "pop") \in WorkSteps
    BY DEF NextStep, WorkSteps
  <2> QED BY <1>4, <2>1, <2>2 DEF EhPop, BindTypeOK
<1>5. CASE EhShutdown \/ EhStopTx \/ EhUnsetShutdown \/ EhLock \/ EhReset \/ EhUnsetReset \/ EhUnusable
           \/ EhWake
  <2> USE DEF EhShutdown, EhStopTx, EhUnsetShutdown, EhLock, EhReset, EhUnsetReset, EhUnusable, EhWake
  <2>1. worker[2] \in WorkSteps
    BY <1>5 DEF WorkSteps
  <2>2. worker # NoWork /\ worker[1] \in Busid
    BY <2>1 DEF NoWork, BindTypeOK, WorkSteps
  <2>3. \A from : NextStep(worker[1], from) \in WorkSteps
    BY DEF NextStep, WorkSteps
  <2>4. worker' = NoWork \/ \E s \in WorkSteps : worker' = [worker EXCEPT ![2] = s]
    BY <1>5, <2>3 DEF WorkSteps
  <2>5. worker' \in (Busid \X WorkSteps) \cup {NoWork}
    BY <2>2, <2>4, WorkerTo
  <2>6. \A x : UnsetEvent(sevent[worker[1]], x) \in EventWord
    BY <1>0, <2>2, Words
  <2>7. sevent' \in [Busid -> EventWord]
    BY <1>5, <2>2, <2>6 DEF BindTypeOK
  <2>8. sdev' \in [Busid -> {"none", "AVAILABLE", "USED", "ERROR"}]
    BY <1>5, <2>2, SMTT(60) DEF BindTypeOK
  <2>9. threads' \in [Busid -> SUBSET {"rx", "tx"}] /\ missed' \in [Busid -> SUBSET {"rx", "tx"}]
    <3>1. CASE EhShutdown \/ EhStopTx
      BY <2>2, <3>1 DEF BindTypeOK
    <3>2. CASE UNCHANGED <<threads, missed>>
      BY <3>2 DEF BindTypeOK
    <3> QED BY <1>5, <3>1, <3>2
  <2>10. UNCHANGED <<present, driver, entry, files, interrupted, disc, cmd>>
    BY <1>5
  <2> QED BY <2>5, <2>7, <2>8, <2>9, <2>10 DEF BindTypeOK
<1>6. ASSUME NEW b \in Busid, StoreSockfd(b) \/ StoreGoesOn(b) PROVE BindTypeOK'
  <2>1. CASE StoreSockfd(b)
    <3>1. PICK m \in SUBSET {"rx", "tx"} : missed' = [missed EXCEPT ![b] = m]
      BY <2>1 DEF StoreSockfd
    <3> QED BY <2>1, <3>1 DEF StoreSockfd, BindTypeOK, FileSteps
  <2>2. CASE StoreGoesOn(b)
    <3>1. ASSUME NEW step, NEW thread \in {"rx", "tx"}, NEW next \in FileSteps, StartThread(b, step, thread, next)
          PROVE  BindTypeOK'
      <4>1. threads' \in [Busid -> SUBSET {"rx", "tx"}]
        BY <3>1 DEF StartThread, BindTypeOK
      <4> QED BY <3>1, <4>1 DEF StartThread, BindTypeOK
    <3>2. CASE SetTx(b)
      BY <3>2 DEF SetTx, BindTypeOK, FileSteps
    <3>3. CASE StoreUsed(b)
      BY <3>3 DEF StoreUsed, BindTypeOK, FileSteps
    <3> QED BY <2>2, <3>1, <3>2, <3>3 DEF StoreGoesOn, StartRx, StartTx, FileSteps
  <2> QED BY <1>6, <2>1, <2>2
<1>7. ASSUME NEW b \in Busid, NEW mask \in {EVENT_DOWN, EVENT_ERROR_MALLOC}, ConnectionFails(b, mask)
      PROVE  BindTypeOK'
  <2>1. EventAdd(sevent[b], mask) \in EventWord
    BY <1>0, Words DEF EVENT_DOWN, EVENT_ERROR_MALLOC, Bits
  <2> QED BY <1>7, <2>1 DEF ConnectionFails, BindTypeOK
<1>8. ASSUME NEW b \in Busid, Unplug(b) \/ Plug(b) PROVE BindTypeOK'
  <2>1. CASE Unplug(b) /\ driver[b] = "usbip-host"
    BY <2>1, SMTT(60) DEF Unplug, BindTypeOK, DiscSteps
  <2>2. CASE Unplug(b) /\ driver[b] # "usbip-host"
    BY <2>2, ZenonT(60) DEF Unplug, BindTypeOK
  <2>3. CASE Plug(b)
    BY <2>3 DEF Plug, BindTypeOK
  <2> QED BY <1>8, <2>1, <2>2, <2>3
<1>9. ASSUME NEW u \in User, NEW b \in Busid, NEW op \in {"bind", "unbind"}, UserRuns(u, b, op)
      PROVE  BindTypeOK'
  BY <1>9 DEF UserRuns, BindTypeOK, CmdSteps
<1>10. ASSUME NEW u \in User, UserStep(u) PROVE BindTypeOK'
  <2>1. PICK b : b = cmd[u][2]
    OBVIOUS
  <2>2. cmd[u][1] # "idle" /\ \E s \in CmdSteps : To(u, s)
    BY <1>10 DEF UserStep, UnbindOther, BindAdd, BindUsbip, UserDel, UnbindUsbip, UnbindReturns,
       Rebind, At, CmdSteps
  <2>3. b \in Busid /\ cmd' \in [User -> {NoCmd} \cup (CmdSteps \X Busid)]
    BY <2>1, <2>2, CmdBus, CmdTo
  <2>4. CASE BindUsbip(u)
    <3>1. \E ok : StubProbe(b, ok)
      BY <2>1, <2>4 DEF BindUsbip
    <3> QED BY <2>3, <2>4, <3>1, ProbeType DEF BindUsbip, BindTypeOK
  <2>5. CASE UnbindOther(u) \/ Rebind(u)
    BY <2>1, <2>3, <2>5 DEF UnbindOther, Rebind, BindTypeOK
  <2>6. CASE BindAdd(u) \/ UserDel(u)
    BY <2>1, <2>3, <2>6 DEF BindAdd, UserDel, AddMatchBusid, DelMatchBusid, BindTypeOK
  <2>7. CASE UnbindUsbip(u) \/ UnbindReturns(u)
    BY <2>1, <2>3, <2>7 DEF UnbindUsbip, UnbindReturns, BindTypeOK, DiscSteps
  <2> QED BY <1>10, <2>4, <2>5, <2>6, <2>7 DEF UserStep
<1>11. CASE UNCHANGED bindVars
  BY <1>11 DEF bindVars, BindTypeOK
<1> QED BY <1>1, <1>2, <1>3, <1>4, <1>5, <1>6, <1>7, <1>8, <1>9, <1>10, <1>11
        DEF BindNext, BindProgress, EhStep, DiscStep

\* A step for one device keeps the invariant when it keeps it for that device.
LEMMA OneDevice ==
    ASSUME BindInv, BindTypeOK', NEW b \in Busid, OnlyAt(b), Owned(b)', Closed(b)', Stopping(b)'
    PROVE  BindInv'
<1> SUFFICES ASSUME NEW c \in Busid PROVE Owned(c)' /\ Closed(c)' /\ Stopping(c)'
  BY DEF BindInv
<1>1. NoWork[2] \notin WorkSteps
  BY DEF NoWork, WorkSteps
<1>2. CASE c = b
  BY <1>2
<1>3. CASE c # b
  <2>1. Owned(c) /\ Closed(c) /\ Stopping(c)
    BY DEF BindInv
  <2>2. SameAt(c)
    BY <1>3 DEF OnlyAt
  <2>3. \/ worker' = worker
        \/ /\ worker[1] # c \/ worker[2] \notin WorkSteps
           /\ worker'[1] # c \/ worker'[2] \notin WorkSteps
    <3>1. \/ worker' = worker
          \/ (worker[1] = b \/ worker = NoWork) /\ (worker'[1] = b \/ worker' = NoWork)
      BY DEF OnlyAt
    <3> QED BY <1>1, <1>3, <3>1
  <2> QED BY <2>1, <2>2, <2>3, Elsewhere
<1> QED BY <1>2, <1>3

\* stub_disconnect keeps the invariant: when its wait has come to its end, every thread was
\* stopped or started behind a shutdown.
LEMMA DiscKeeps ==
    ASSUME BindInv, BindTypeOK', NEW b \in Busid, DiscStep(b)
    PROVE  BindInv'
<1> USE DEF threadVars
<1>0. BindTypeOK /\ Owned(b) /\ Closed(b) /\ Stopping(b) /\ sevent[b] \in EventWord
  BY DEF BindInv, BindTypeOK
<1>1. CASE DiscFiles(b)
  <2>1. /\ files'[b] = "none" /\ disc[b][1] = "files" /\ disc'[b][1] = "shutdown"
        /\ UNCHANGED <<present, driver, entry, sdev, threadVars, sevent, worker>>
        /\ OnlyAt(b)
    BY <1>0, <1>1, DiscTo DEF DiscFiles, BindTypeOK, SameAt, OnlyAt, DiscSteps
  <2>2. Owned(b)'
    BY <1>0, <2>1 DEF Owned, Working
  <2>3. Closed(b)' /\ Stopping(b)'
    BY <1>0, <2>1 DEF Closed, Stopping, Working
  <2> QED BY <2>1, <2>2, <2>3, OneDevice
<1>2. CASE DiscNoRelease(b)
  <2>1. /\ files'[b] = "none" /\ threads'[b] = {} /\ disc[b][1] = "files" /\ disc'[b][1] = "done"
        /\ sdev'[b] = "none" /\ sevent'[b] = NoEvent
        /\ UNCHANGED <<present, driver, entry>>
        /\ OnlyAt(b)
    BY <1>0, <1>2, DiscTo DEF DiscNoRelease, DropSdev, BindTypeOK, SameAt, OnlyAt, DiscSteps
  <2>2. worker' = (IF worker[1] = b THEN NoWork ELSE worker) /\ ~Working(b, WorkSteps)'
    BY <1>2 DEF DiscNoRelease, DropSdev, Working, NoWork, WorkSteps
  <2>3. Owned(b)'
    BY <1>0, <2>1, <2>2 DEF Owned
  <2>4. Closed(b)' /\ Stopping(b)'
    BY <2>1, <2>2, Words DEF Closed, Stopping, Working, WorkSteps, NoEvent
  <2> QED BY <2>1, <2>2, <2>3, <2>4, OneDevice
<1>3. CASE DiscShutdown(b)
  <2>1. /\ sevent'[b] = EventAdd(sevent[b], EVENT_REMOVED) /\ disc[b][1] = "shutdown"
        /\ disc'[b][1] = "wait"
        /\ UNCHANGED <<present, driver, entry, sdev, files, threadVars, worker>>
        /\ OnlyAt(b)
    BY <1>0, <1>3, DiscTo DEF DiscShutdown, BindTypeOK, SameAt, OnlyAt, DiscSteps
  <2>2. sevent'[b].bits = sevent[b].bits \cup {"SHUTDOWN", "BYE"} /\ sevent'[b].queued
    BY <1>0, <2>1, Words DEF Closed, EVENT_REMOVED, Bits
  <2>3. Owned(b)'
    BY <1>0, <2>1 DEF Owned, Working
  <2>4. Closed(b)'
    BY <1>0, <2>1, <2>2 DEF Closed, Working
  <2>5. Stopping(b)'
    BY <1>0, <2>1, <2>2 DEF Stopping, Working, Owned
  <2> QED BY <2>1, <2>3, <2>4, <2>5, OneDevice
<1>4. CASE DiscFree(b) \/ DiscInterrupted(b)
  <2>1. /\ disc[b][1] = "wait" /\ disc'[b][1] = "status"
        /\ sevent[b].bits \subseteq {"BYE"} \/ b \in interrupted'
        /\ sdev'[b] = "none" /\ sevent'[b] = NoEvent
        /\ UNCHANGED <<present, driver, entry, files, threads, missed>>
        /\ OnlyAt(b)
    BY <1>0, <1>4, DiscTo DEF DiscFree, DiscInterrupted, Free, DropSdev, BindTypeOK, SameAt, OnlyAt, DiscSteps
  <2>2. worker' = (IF worker[1] = b THEN NoWork ELSE worker) /\ ~Working(b, WorkSteps)'
    BY <1>4 DEF DiscFree, DiscInterrupted, Free, DropSdev, Working, NoWork, WorkSteps
  <2>3. threads[b] \subseteq missed[b] \/ b \in interrupted'
    BY <1>0, <2>1 DEF Stopping
  <2>4. Owned(b)'
    BY <1>0, <2>1, <2>2 DEF Owned
  <2>5. Closed(b)' /\ Stopping(b)'
    BY <2>1, <2>2, <2>3, Words DEF Closed, Stopping, Working, WorkSteps, NoEvent
  <2> QED BY <2>1, <2>2, <2>4, <2>5, OneDevice
<1>5. CASE DiscStatus(b) \/ DiscDel(b)
  <2>1. /\ disc[b][1] \in {"status", "del"} /\ disc'[b][1] \in {"del", "done"}
        /\ UNCHANGED <<present, driver, sdev, files, threadVars, sevent, worker>>
        /\ OnlyAt(b)
    BY <1>0, <1>5, DiscTo DEF DiscStatus, DiscDel, BindTypeOK, SameAt, OnlyAt, DiscSteps
  <2>2. Owned(b)'
    BY <1>0, <2>1 DEF Owned, Working
  <2>3. Closed(b)' /\ Stopping(b)'
    BY <1>0, <2>1 DEF Closed, Stopping, Working
  <2> QED BY <2>1, <2>2, <2>3, OneDevice
<1>6. CASE DiscDone(b)
  <2>1. /\ disc[b][1] = "done" /\ disc'[b] = NoDisc /\ driver'[b] = "none"
        /\ UNCHANGED <<entry, sdev, files, threadVars, sevent, worker>>
        /\ OnlyAt(b)
    BY <1>0, <1>6 DEF DiscDone, BindTypeOK, SameAt, OnlyAt
  <2>2. Owned(b)'
    BY <1>0, <2>1 DEF Owned, Working, NoDisc
  <2>3. Closed(b)' /\ Stopping(b)'
    BY <1>0, <2>1 DEF Closed, Stopping, Working, NoDisc
  <2> QED BY <2>1, <2>2, <2>3, OneDevice
<1> QED BY <1>1, <1>2, <1>3, <1>4, <1>5, <1>6 DEF DiscStep

\* The event worker keeps it: it clears SHUTDOWN only when it has looked for both threads.
LEMMA EhKeeps ==
    ASSUME BindInv, BindTypeOK', EhStep
    PROVE  BindInv'
<1> USE DEF threadVars
<1>0. BindTypeOK
  BY DEF BindInv
<1>1. ASSUME NEW b \in Busid, EhPop(b) PROVE BindInv'
  <2>0. Owned(b) /\ Closed(b) /\ Stopping(b) /\ sevent[b] \in EventWord
    BY <1>0 DEF BindInv, BindTypeOK
  <2>1. /\ worker = NoWork /\ worker' = <<b, NextStep(b, "pop")>> /\ sevent[b].queued
        /\ sevent'[b] = GetEvent(sevent[b])
        /\ UNCHANGED <<present, driver, entry, sdev, files, threadVars, disc>> /\ OnlyAt(b)
    BY <1>0, <1>1 DEF EhPop, BindTypeOK, SameAt, OnlyAt
  <2>2. sevent'[b].bits = sevent[b].bits
    BY <2>0, <2>1, Words
  <2>3. worker'[2] \notin {"stop_tx", "unset"}
    BY <2>1 DEF NextStep
  <2>4. sdev[b] # "none"
    BY <2>0, <2>1, Words DEF Owned
  <2>5. Owned(b)'
    BY <2>0, <2>1, <2>4 DEF Owned
  <2>6. Closed(b)' /\ Stopping(b)'
    BY <2>0, <2>1, <2>2, <2>3, <2>4 DEF Closed, Stopping, Working
  <2> QED BY <2>1, <2>5, <2>6, OneDevice
<1>2. CASE EhShutdown \/ EhStopTx \/ EhUnsetShutdown \/ EhLock \/ EhReset \/ EhUnsetReset \/ EhUnusable
           \/ EhWake
  <2>1. worker[2] \in WorkSteps /\ worker # NoWork /\ worker[1] \in Busid
    <3>1. worker[2] \in WorkSteps
      BY <1>2 DEF EhShutdown, EhStopTx, EhUnsetShutdown, EhLock, EhReset, EhUnsetReset, EhUnusable, EhWake,
         WorkSteps
    <3> QED BY <1>0, <3>1 DEF BindTypeOK, NoWork, WorkSteps
  <2>2. PICK b \in Busid : b = worker[1]
    BY <2>1
  <2>3. Owned(b) /\ Closed(b) /\ Stopping(b) /\ sevent[b] \in EventWord
    BY <1>0 DEF BindInv, BindTypeOK
  <2>4. sdev[b] # "none"
    BY <2>1, <2>2, <2>3 DEF Owned, Working
  <2>5. CASE EhShutdown
    <3>1. worker'[1] = b /\ worker'[2] = "stop_tx"
      BY <1>0, <2>1, <2>2, <2>5, WorkerTo DEF EhShutdown, WorkSteps
    <3>2. /\ threads'[b] = (IF BoundTcpRx(b) THEN threads[b] \ {"rx"} ELSE threads[b])
          /\ missed'[b] = (IF files[b] \in {"start_rx", "start_tx"} THEN missed[b] \cup {"rx"}
                           ELSE missed[b] \ {"rx"})
          /\ UNCHANGED <<present, driver, entry, sdev, files, interrupted, sevent, disc>> /\ OnlyAt(b)
      <4>1. PICK t, m : threads' = [threads EXCEPT ![b] = t] /\ missed' = [missed EXCEPT ![b] = m]
                        /\ t = (IF BoundTcpRx(b) THEN threads[b] \ {"rx"} ELSE threads[b])
                        /\ m = (IF files[b] \in {"start_rx", "start_tx"} THEN missed[b] \cup {"rx"}
                                 ELSE missed[b] \ {"rx"})
        BY <2>2, <2>5 DEF EhShutdown
      <4>2. UNCHANGED <<present, driver, entry, sdev, files, interrupted, sevent, disc>>
        BY <2>5 DEF EhShutdown
      <4>3. threads'[b] = t /\ missed'[b] = m
        BY <1>0, <4>1 DEF BindTypeOK
      <4>4. \A c \in Busid : c # b => SameAt(c)
        BY <1>0, <4>1, <4>2 DEF BindTypeOK, SameAt
      <4> QED BY <2>2, <3>1, <4>1, <4>2, <4>3, <4>4 DEF OnlyAt
    <3>3. "rx" \in threads'[b] => "rx" \in missed'[b]
      BY <3>2 DEF BoundTcpRx
    <3>4. threads[b] \subseteq missed[b] => threads'[b] \subseteq missed'[b]
      BY <3>2, <3>3
    <3>5. Owned(b)'
      BY <2>3, <2>4, <3>2 DEF Owned
    <3>6. Closed(b)'
      BY <2>3, <3>2 DEF Closed
    <3>7. Stopping(b)'
      BY <2>3, <2>4, <3>1, <3>2, <3>3, <3>4 DEF Stopping, Working
    <3> QED BY <3>2, <3>5, <3>6, <3>7, OneDevice
  <2>6. CASE EhStopTx
    <3>1. worker'[1] = b /\ worker'[2] = "unset"
      BY <1>0, <2>1, <2>2, <2>6, WorkerTo DEF EhStopTx, WorkSteps
    <3>2. /\ worker[2] = "stop_tx"
          /\ threads'[b] = (IF BoundTcpTx(b) THEN threads[b] \ {"tx"} ELSE threads[b])
          /\ missed'[b] = (IF files[b] \in {"start_rx", "start_tx", "set_tx"} THEN missed[b] \cup {"tx"}
                           ELSE missed[b] \ {"tx"})
          /\ UNCHANGED <<present, driver, entry, sdev, files, interrupted, sevent, disc>> /\ OnlyAt(b)
      <4>1. PICK t, m : threads' = [threads EXCEPT ![b] = t] /\ missed' = [missed EXCEPT ![b] = m]
                        /\ t = (IF BoundTcpTx(b) THEN threads[b] \ {"tx"} ELSE threads[b])
                        /\ m = (IF files[b] \in {"start_rx", "start_tx", "set_tx"} THEN missed[b] \cup {"tx"}
                                 ELSE missed[b] \ {"tx"})
        BY <2>2, <2>6 DEF EhStopTx
      <4>2. UNCHANGED <<present, driver, entry, sdev, files, interrupted, sevent, disc>> /\ worker[2] = "stop_tx"
        BY <2>6 DEF EhStopTx
      <4>3. threads'[b] = t /\ missed'[b] = m
        BY <1>0, <4>1 DEF BindTypeOK
      <4>4. \A c \in Busid : c # b => SameAt(c)
        BY <1>0, <4>1, <4>2 DEF BindTypeOK, SameAt
      <4> QED BY <2>2, <3>1, <4>1, <4>2, <4>3, <4>4 DEF OnlyAt
    <3>3. "tx" \in threads'[b] => "tx" \in missed'[b]
      BY <3>2 DEF BoundTcpTx
    <3>4. threads[b] \subseteq missed[b] => threads'[b] \subseteq missed'[b]
      BY <3>2, <3>3
    <3>5. /\ "rx" \in threads[b] => "rx" \in missed[b]
          /\ files[b] = "start_rx" => "rx" \in missed[b]
      BY <2>2, <2>3, <3>2 DEF Stopping, Working
    <3>6. Owned(b)'
      BY <2>3, <2>4, <3>2 DEF Owned
    <3>7. Closed(b)'
      BY <2>3, <3>2 DEF Closed
    <3>8. Stopping(b)'
      BY <2>3, <2>4, <3>1, <3>2, <3>3, <3>4, <3>5 DEF Stopping, Working
    <3> QED BY <3>2, <3>6, <3>7, <3>8, OneDevice
  <2>7. CASE EhUnsetShutdown
    <3>0. NextStep(b, "unset") \in WorkSteps \ {"stop_tx", "unset"}
      BY DEF NextStep, WorkSteps
    <3>1. worker'[1] = b /\ worker'[2] = NextStep(b, "unset")
      BY <1>0, <2>1, <2>2, <2>7, <3>0, WorkerTo DEF EhUnsetShutdown
    <3>2. /\ worker[2] = "unset" /\ sevent'[b] = UnsetEvent(sevent[b], "SHUTDOWN")
          /\ UNCHANGED <<present, driver, entry, sdev, files, threadVars, disc>> /\ OnlyAt(b)
      <4>1. PICK w : w = UnsetEvent(sevent[b], "SHUTDOWN") /\ sevent' = [sevent EXCEPT ![b] = w]
        BY <2>2, <2>7 DEF EhUnsetShutdown
      <4> QED BY <1>0, <2>2, <2>7, <3>1, <4>1 DEF EhUnsetShutdown, BindTypeOK, SameAt, OnlyAt
    <3>3. sevent'[b].bits = sevent[b].bits \ {"SHUTDOWN"}
      <4>1. UnsetEvent(sevent[b], "SHUTDOWN").bits = sevent[b].bits \ {"SHUTDOWN"}
        BY DEF UnsetEvent
      <4> QED BY <3>2, <4>1
    <3>4. threads[b] \subseteq missed[b]
      <4>1. threads[b] \subseteq {"rx", "tx"}
        BY <1>0 DEF BindTypeOK
      <4> QED BY <2>2, <2>3, <3>2, <4>1 DEF Stopping, Working
    <3>5. Owned(b)'
      BY <2>3, <2>4, <3>2 DEF Owned
    <3>6. Closed(b)'
      BY <2>3, <3>2, <3>3 DEF Closed
    <3>7. Stopping(b)'
      BY <3>0, <3>1, <3>2, <3>4 DEF Stopping, Working
    <3> QED BY <3>2, <3>5, <3>6, <3>7, OneDevice
  <2>8. CASE EhLock \/ EhReset \/ EhUnsetReset \/ EhUnusable
    <3>0. NextStep(b, "unset_reset") \in WorkSteps \ {"stop_tx", "unset"}
      BY DEF NextStep, WorkSteps
    <3>1. PICK s \in WorkSteps \ {"stop_tx", "unset"} : worker' = [worker EXCEPT ![2] = s]
      BY <2>2, <2>8, <3>0 DEF EhLock, EhReset, EhUnsetReset, EhUnusable, WorkSteps
    <3>2. worker'[1] = b /\ worker'[2] = s
      BY <2>1, <2>2, <1>0, <3>1, WorkerTo
    <3>3. /\ sdev'[b] \in {sdev[b], "AVAILABLE", "ERROR"}
          /\ sevent'[b] \in {sevent[b], UnsetEvent(sevent[b], "RESET"), UnsetEvent(sevent[b], "UNUSABLE")}
          /\ UNCHANGED <<present, driver, entry, files, threadVars, disc>> /\ OnlyAt(b)
      <4>1. CASE EhLock
        BY <1>0, <2>2, <3>2, <4>1 DEF EhLock, BindTypeOK, SameAt, OnlyAt
      <4>2. CASE EhReset
        BY <1>0, <2>2, <3>2, <4>2 DEF EhReset, BindTypeOK, SameAt, OnlyAt
      <4>3. CASE EhUnsetReset
        BY <1>0, <2>2, <3>2, <4>3 DEF EhUnsetReset, BindTypeOK, SameAt, OnlyAt
      <4>4. CASE EhUnusable
        BY <1>0, <2>2, <3>2, <4>4 DEF EhUnusable, BindTypeOK, SameAt, OnlyAt
      <4> QED BY <2>8, <4>1, <4>2, <4>3, <4>4
    <3>4. /\ "SHUTDOWN" \in sevent[b].bits => "SHUTDOWN" \in sevent'[b].bits
          /\ "BYE" \in sevent'[b].bits => "BYE" \in sevent[b].bits
      BY <2>3, <3>3, Words
    <3>5. Owned(b)'
      BY <2>3, <2>4, <3>3 DEF Owned
    <3>6. Closed(b)'
      BY <2>3, <3>3, <3>4 DEF Closed
    <3>7. Stopping(b)'
      BY <2>3, <2>4, <3>2, <3>3, <3>4 DEF Stopping, Working
    <3> QED BY <3>3, <3>5, <3>6, <3>7, OneDevice
  <2>9. CASE EhWake
    <3>1. /\ worker[2] = "wake" /\ worker' = NoWork
          /\ UNCHANGED <<present, driver, entry, sdev, files, threadVars, sevent, disc>> /\ OnlyAt(b)
      BY <2>2, <2>9 DEF EhWake, SameAt, OnlyAt
    <3>2. Owned(b)'
      BY <2>3, <2>4, <3>1 DEF Owned
    <3>3. Closed(b)' /\ Stopping(b)'
      BY <2>3, <3>1 DEF Closed, Stopping, Working, NoWork
    <3> QED BY <3>1, <3>2, <3>3, OneDevice
  <2> QED BY <1>2, <2>5, <2>6, <2>7, <2>8, <2>9
<1> QED BY <1>1, <1>2 DEF EhStep

\* The connections keep it: a socket that is accepted while a shutdown is under way has its
\* threads started behind that shutdown, and an event is only ever added.
LEMMA ConnectionKeeps ==
    ASSUME BindInv, BindTypeOK', NEW b \in Busid,
           \/ StoreSockfd(b) \/ StoreGoesOn(b)
           \/ \E mask \in {EVENT_DOWN, EVENT_ERROR_MALLOC} : ConnectionFails(b, mask)
    PROVE  BindInv'
<1> USE DEF threadVars
<1>0. /\ BindTypeOK /\ Owned(b) /\ Closed(b) /\ Stopping(b) /\ sevent[b] \in EventWord
      /\ threads[b] \subseteq {"rx", "tx"}
  BY DEF BindInv, BindTypeOK
<1>1. CASE StoreSockfd(b)
  <2>1. /\ files[b] = "up" /\ sdev[b] = "AVAILABLE" /\ files'[b] = "start_rx"
        /\ missed'[b] = (CASE worker = <<b, "stop_tx">> -> {"rx"}
                           [] worker = <<b, "unset">> -> {"rx", "tx"}
                           [] OTHER -> {})
        /\ UNCHANGED <<present, driver, entry, sdev, threads, interrupted, sevent, worker, disc>>
        /\ OnlyAt(b)
    BY <1>0, <1>1 DEF StoreSockfd, BindTypeOK, SameAt, OnlyAt
  <2>2. Owned(b)'
    BY <1>0, <2>1 DEF Owned, Working
  <2>3. Closed(b)'
    BY <1>0, <2>1 DEF Closed
  <2>4. Working(b, {"stop_tx"}) => missed'[b] = {"rx"}
    <3>1. Working(b, {"stop_tx"}) => worker = <<b, "stop_tx">>
      BY <1>0 DEF Working, BindTypeOK, NoWork
    <3> QED BY <2>1, <3>1
  <2>5. Working(b, {"unset"}) => missed'[b] = {"rx", "tx"}
    <3>1. Working(b, {"unset"}) => worker = <<b, "unset">>
      BY <1>0 DEF Working, BindTypeOK, NoWork
    <3> QED BY <2>1, <3>1
  <2>6. disc[b][1] # "wait"
    BY <1>0, <2>1 DEF Owned
  <2>7. Stopping(b)'
    BY <2>1, <2>4, <2>5, <2>6 DEF Stopping, Working
  <2> QED BY <2>1, <2>2, <2>3, <2>7, OneDevice
<1>2. CASE StoreGoesOn(b)
  <2>1. /\ files[b] \in {"start_rx", "start_tx", "set_tx", "used"}
        /\ files'[b] \notin {"none", "start_rx"} /\ (files'[b] = "start_tx" => files[b] = "start_rx")
        /\ sdev'[b] \in {sdev[b], "USED"}
        /\ \/ threads'[b] = threads[b]
           \/ threads'[b] = threads[b] \cup {"rx"} /\ files[b] = "start_rx"
           \/ threads'[b] = threads[b] \cup {"tx"} /\ files[b] = "start_tx"
        /\ UNCHANGED <<present, driver, entry, missed, interrupted, sevent, worker, disc>> /\ OnlyAt(b)
    <3>1. CASE StartRx(b)
      BY <1>0, <3>1 DEF StartRx, StartThread, BindTypeOK, SameAt, OnlyAt
    <3>2. CASE StartTx(b)
      BY <1>0, <3>2 DEF StartTx, StartThread, BindTypeOK, SameAt, OnlyAt
    <3>3. CASE SetTx(b)
      BY <1>0, <3>3 DEF SetTx, BindTypeOK, SameAt, OnlyAt
    <3>4. CASE StoreUsed(b)
      BY <1>0, <3>4 DEF StoreUsed, BindTypeOK, SameAt, OnlyAt
    <3> QED BY <1>2, <3>1, <3>2, <3>3, <3>4 DEF StoreGoesOn
  <2>2. sdev[b] # "none" /\ sdev'[b] # "none" /\ disc[b][1] \in {"no", "files"}
    BY <1>0, <2>1 DEF Owned
  <2>3. Owned(b)'
    BY <1>0, <2>1, <2>2 DEF Owned
  <2>4. Closed(b)'
    BY <1>0, <2>1 DEF Closed
  <2>5. Stopping(b)'
    BY <1>0, <2>1, <2>2 DEF Stopping, Working
  <2> QED BY <2>1, <2>3, <2>4, <2>5, OneDevice
<1>3. ASSUME NEW mask \in {EVENT_DOWN, EVENT_ERROR_MALLOC}, ConnectionFails(b, mask)
      PROVE  BindInv'
  <2>1. /\ sdev[b] # "none" /\ sevent'[b] = EventAdd(sevent[b], mask)
        /\ UNCHANGED <<present, driver, entry, sdev, files, threadVars, worker, disc>> /\ OnlyAt(b)
    BY <1>0, <1>3 DEF ConnectionFails, BindTypeOK, SameAt, OnlyAt
  <2>2. mask \in SUBSET Bits /\ "BYE" \notin mask
    BY DEF EVENT_DOWN, EVENT_ERROR_MALLOC, Bits
  <2>3. /\ sevent[b].bits \subseteq sevent'[b].bits
        /\ "BYE" \in sevent'[b].bits => "BYE" \in sevent[b].bits
    BY <1>0, <2>1, <2>2, Words
  <2>4. Owned(b)'
    BY <1>0, <2>1 DEF Owned
  <2>5. Closed(b)'
    BY <1>0, <2>1, <2>3 DEF Closed
  <2>6. Stopping(b)'
    BY <1>0, <2>1, <2>3 DEF Stopping, Working
  <2> QED BY <2>1, <2>4, <2>5, <2>6, OneDevice
<1> QED BY <1>1, <1>2, <1>3

\* The commands keep it: stub_probe takes a device no driver has, and a slot in use is not
\* taken away.
LEMMA UserKeeps ==
    ASSUME BindInv, BindTypeOK', NEW u \in User, UserStep(u)
    PROVE  BindInv'
<1> USE DEF threadVars
<1>0. BindTypeOK
  BY DEF BindInv
<1>1. cmd[u][1] # "idle"
  BY DEF UserStep, UnbindOther, BindAdd, BindUsbip, UserDel, UnbindUsbip, UnbindReturns, Rebind, At
<1>2. PICK b \in Busid : b = cmd[u][2]
  BY <1>0, <1>1, CmdBus
<1>3. Owned(b) /\ Closed(b) /\ Stopping(b) /\ sevent[b] \in EventWord
  BY <1>0 DEF BindInv, BindTypeOK
<1>4. CASE UnbindOther(u) \/ Rebind(u)
  <2>1. /\ driver'[b] = driver[b] \/ (driver[b] # "usbip-host" /\ driver'[b] # "usbip-host")
        /\ UNCHANGED <<present, entry, sdev, files, threadVars, sevent, worker, disc>> /\ OnlyAt(b)
    <3>1. CASE UnbindOther(u)
      BY <1>0, <1>2, <3>1 DEF UnbindOther, BindTypeOK, SameAt, OnlyAt
    <3>2. CASE Rebind(u)
      BY <1>0, <1>2, <3>2 DEF Rebind, BindTypeOK, SameAt, OnlyAt
    <3> QED BY <1>4, <3>1, <3>2
  <2>2. Owned(b)'
    BY <1>3, <2>1 DEF Owned, Working
  <2>3. Closed(b)' /\ Stopping(b)'
    BY <1>3, <2>1 DEF Closed, Stopping, Working
  <2> QED BY <2>1, <2>2, <2>3, OneDevice
<1>5. CASE BindAdd(u) \/ UserDel(u)
  <2>1. /\ entry[b] \in {"ALLOC", "REMOV"} => entry'[b] \in {"ALLOC", "REMOV"}
        /\ UNCHANGED <<present, driver, sdev, files, threadVars, sevent, worker, disc>> /\ OnlyAt(b)
    <3>1. CASE BindAdd(u)
      BY <1>0, <1>2, <3>1 DEF BindAdd, AddMatchBusid, BindTypeOK, SameAt, OnlyAt
    <3>2. CASE UserDel(u)
      BY <1>0, <1>2, <3>2 DEF UserDel, DelMatchBusid, BindTypeOK, SameAt, OnlyAt
    <3> QED BY <1>5, <3>1, <3>2
  <2>2. Owned(b)'
    BY <1>3, <2>1 DEF Owned, Working
  <2>3. Closed(b)' /\ Stopping(b)'
    BY <1>3, <2>1 DEF Closed, Stopping, Working
  <2> QED BY <2>1, <2>2, <2>3, OneDevice
<1>6. CASE BindUsbip(u)
  <2>1. PICK ok : StubProbe(b, ok) /\ (ok => present[b] /\ driver[b] = "none") /\ ~Locked(b)
                  /\ UNCHANGED <<present, worker, disc>>
    BY <1>2, <1>6 DEF BindUsbip
  <2>2. CASE Claims(b) /\ ok
    <3>1. /\ driver'[b] = "usbip-host" /\ entry'[b] = "ALLOC" /\ sdev'[b] = "AVAILABLE"
          /\ files'[b] = "up" /\ threads'[b] = {} /\ sevent'[b] = NoEvent /\ OnlyAt(b)
      BY <1>0, <2>1, <2>2 DEF StubProbe, BindTypeOK, SameAt, OnlyAt
    <3>2. sdev[b] = "none" /\ disc[b] = NoDisc /\ present[b] /\ ~Working(b, WorkSteps)
      BY <1>3, <2>1, <2>2 DEF Owned, Locked
    <3>3. disc'[b] = NoDisc /\ present'[b] /\ ~Working(b, WorkSteps)'
      BY <2>1, <3>2 DEF Working
    <3>4. Owned(b)'
      BY <3>1, <3>3 DEF Owned, NoDisc
    <3>5. Closed(b)' /\ Stopping(b)'
      BY <3>1, <3>3, Words DEF Closed, Stopping, Working, WorkSteps, NoDisc, NoEvent
    <3> QED BY <3>1, <3>4, <3>5, OneDevice
  <2>3. CASE ~(Claims(b) /\ ok)
    <3>1. UNCHANGED <<present, driver, entry, sdev, files, threadVars, sevent, worker, disc>> /\ OnlyAt(b)
      BY <2>1, <2>3 DEF StubProbe, SameAt, OnlyAt
    <3>2. Owned(b)'
      BY <1>3, <3>1 DEF Owned, Working
    <3>3. Closed(b)' /\ Stopping(b)'
      BY <1>3, <3>1 DEF Closed, Stopping, Working
    <3> QED BY <3>1, <3>2, <3>3, OneDevice
  <2> QED BY <2>2, <2>3
<1>7. CASE UnbindUsbip(u) \/ UnbindReturns(u)
  <2>1. /\ disc'[b] = disc[b] \/ (driver[b] = "usbip-host" /\ disc[b] = NoDisc /\ disc'[b][1] = "files")
        /\ UNCHANGED <<present, driver, entry, sdev, files, threadVars, sevent, worker>> /\ OnlyAt(b)
    <3>1. CASE UnbindUsbip(u)
      BY <1>0, <1>2, <3>1 DEF UnbindUsbip, Locked, BindTypeOK, SameAt, OnlyAt
    <3>2. CASE UnbindReturns(u)
      BY <1>2, <3>2 DEF UnbindReturns, SameAt, OnlyAt
    <3> QED BY <1>7, <3>1, <3>2
  <2>2. Owned(b)'
    BY <1>3, <2>1 DEF Owned, Working, NoDisc
  <2>3. Closed(b)' /\ Stopping(b)'
    BY <1>3, <2>1 DEF Closed, Stopping, Working, NoDisc
  <2> QED BY <2>1, <2>2, <2>3, OneDevice
<1> QED BY <1>4, <1>5, <1>6, <1>7 DEF UserStep

\* Plugging and unplugging keep it.
LEMMA PlugKeeps ==
    ASSUME BindInv, BindTypeOK', NEW b \in Busid, Unplug(b) \/ Plug(b)
    PROVE  BindInv'
<1> USE DEF threadVars
<1>0. BindTypeOK /\ Owned(b) /\ Closed(b) /\ Stopping(b) /\ sevent[b] \in EventWord
  BY DEF BindInv, BindTypeOK
<1>1. CASE Unplug(b) /\ driver[b] = "usbip-host"
  <2>1. /\ disc[b] = NoDisc /\ disc'[b][1] = "files"
        /\ UNCHANGED <<present, driver, entry, sdev, files, threadVars, sevent, worker>> /\ OnlyAt(b)
    BY <1>0, <1>1 DEF Unplug, Locked, BindTypeOK, SameAt, OnlyAt
  <2>2. Owned(b)'
    BY <1>0, <1>1, <2>1 DEF Owned, Working, NoDisc
  <2>3. Closed(b)' /\ Stopping(b)'
    BY <1>0, <2>1 DEF Closed, Stopping, Working, NoDisc
  <2> QED BY <2>1, <2>2, <2>3, OneDevice
<1>2. CASE (Unplug(b) /\ driver[b] # "usbip-host") \/ Plug(b)
  <2>1. /\ driver[b] # "usbip-host" /\ driver'[b] # "usbip-host"
        /\ UNCHANGED <<entry, sdev, files, threadVars, sevent, worker, disc>> /\ OnlyAt(b)
    BY <1>0, <1>2 DEF Unplug, Plug, Owned, BindTypeOK, SameAt, OnlyAt
  <2>2. Owned(b)'
    BY <1>0, <2>1 DEF Owned, Working
  <2>3. Closed(b)' /\ Stopping(b)'
    BY <1>0, <2>1 DEF Closed, Stopping, Working
  <2> QED BY <2>1, <2>2, <2>3, OneDevice
<1> QED BY <1>1, <1>2

\* Every step of the commands, the kernel and the users keeps the invariant.
LEMMA BindInvStep == BindInv /\ [BindNext]_bindVars => BindInv'
<1> SUFFICES ASSUME BindInv, [BindNext]_bindVars PROVE BindInv'
  OBVIOUS
<1> USE DEF threadVars
<1>1. BindTypeOK'
  BY BindTypeStep DEF BindInv
<1>2. ASSUME NEW u \in User, NEW b \in Busid, NEW op \in {"bind", "unbind"}, UserRuns(u, b, op)
      PROVE  BindInv'
  <2>1. UNCHANGED <<present, driver, entry, sdev, files, threadVars, sevent, worker, disc>>
    BY <1>2 DEF UserRuns
  <2> QED BY <1>1, <2>1 DEF BindInv, Owned, Closed, Stopping, Working
<1>3. CASE UNCHANGED bindVars
  BY <1>1, <1>3 DEF bindVars, BindInv, Owned, Closed, Stopping, Working
<1> QED BY <1>1, <1>2, <1>3, DiscKeeps, EhKeeps, ConnectionKeeps, UserKeeps, PlugKeeps
        DEF BindNext, BindProgress

\* Nothing is bound when the machine starts.
LEMMA BindInitially == BindInit => BindInv
<1> SUFFICES ASSUME BindInit PROVE BindInv
  OBVIOUS
<1>1. BindTypeOK
  BY DEF BindInit, BindTypeOK, NoEvent, EventWord, NoWork, NoDisc, DiscSteps, FileSteps
<1>2. ASSUME NEW b \in Busid PROVE Owned(b) /\ Closed(b) /\ Stopping(b)
  <2>1. /\ driver[b] = "other" /\ sdev[b] = "none" /\ files[b] = "none" /\ threads[b] = {}
        /\ sevent[b] = NoEvent /\ worker = NoWork /\ disc[b] = NoDisc
    BY DEF BindInit
  <2>2. \A steps \in SUBSET WorkSteps : ~Working(b, steps)
    BY <2>1 DEF Working, NoWork, WorkSteps
  <2> QED BY <2>1, <2>2, Words DEF Owned, Closed, Stopping, WorkSteps, NoDisc, NoEvent
<1> QED BY <1>1, <1>2 DEF BindInv

\* When a stub device is freed, both threads of its connection are stopped, whatever the
\* event worker is doing when stub_disconnect raises SDEV_EVENT_REMOVED and waits in
\* usbip_stop_eh, unless a signal ended the wait; the only other thread left is one that
\* store_sockfd started behind a shutdown of that very connection.
THEOREM NoSdevFreedUnderThreads == BindSpec => []SdevOutlivesThreads
<1>1. BindInv => SdevOutlivesThreads
  BY DEF BindInv, Stopping, SdevOutlivesThreads
<1> QED BY <1>1, BindInitially, BindInvStep, PTL DEF BindSpec

\* stub_disconnect always finds the slot of its device: no add, delete or failed bind of
\* another user takes it away, so the BUG() of stub_disconnect is out of reach.
THEOREM SlotOfBoundDevice == BindSpec => []DisconnectFindsEntry
<1>1. BindInv => DisconnectFindsEntry
  <2> SUFFICES ASSUME BindInv, NEW b \in Busid, driver[b] = "usbip-host",
                      disc[b][1] \notin {"status", "del", "done"}
               PROVE  entry[b] \in {"ALLOC", "REMOV"}
    BY DEF DisconnectFindsEntry
  <2> QED BY DEF BindInv, Owned
<1> QED BY <1>1, BindInitially, BindInvStep, PTL DEF BindSpec

-------------------------------------------------------------------------------
(* Attach: the hand-over of a connection.                                     *)

Codes == {"REQ_IMPORT", "REQ_EXPORT", "REQ_DEVLIST", "REP_IMPORT", "REP_EXPORT", "REP_DEVLIST",
          "BODY", "CMD", "RET"}
Message == [kind : {"op", "body", "urb"}, code : Codes, status : Nat \cup {"ST_OK", "ST_NA"}]

StreamsTyped == flow \in {"import", "export", "list"} /\ to \in [End -> Seq(Message)]

Only(s, kinds) == \A i \in 1 .. Len(s) : s[i].kind \in kinds

\* A stream whose first message was taken holds the kinds it held.
LEMMA OnlyTaken ==
    ASSUME NEW s, NEW t, NEW kinds, Only(s, kinds),
           Len(s) \in Nat \ {0}, Len(t) = Len(s) - 1,
           \A i \in 1 .. Len(t) : t[i] = s[i + 1]
    PROVE  Only(t, kinds)
<1>1. \A i \in 1 .. Len(t) : i + 1 \in 1 .. Len(s)
  OBVIOUS
<1> QED BY <1>1 DEF Only

\* The child of an import reads the one request there is, and has read it to its end before
\* it gives the socket to usbip_host.
RequestRead ==
    /\ tool \notin {"bind", "start", "devices"} /\ child # "record"
    /\ tool = "open" => child = "none"
    /\ tool \in {"open", "request"} => to["daemon"] = <<>> /\ child \in {"none", "recv_op", "close", "done"}
    /\ child = "recv_op" => Len(to["daemon"]) <= 2
    /\ child = "recv_body" => Len(to["daemon"]) <= 1
    /\ child \in {"serve", "refuse", "answer", "more"} => to["daemon"] = <<>>
    /\ stub # "free" => child \in {"answer", "more", "close", "done"} /\ tool \notin {"open", "request"}
    /\ child \in {"answer", "more"} => stub # "free"

\* The device is the last thing the child sends, and only after usbip_host has the socket.
AnswerLast ==
    /\ \A i \in 1 .. Len(to["tool"]) : to["tool"][i].kind = "body" =>
          i = Len(to["tool"]) /\ child \in {"close", "done"} /\ stub # "free"
    /\ tool = "attach" => to["tool"] = <<>> /\ child \in {"close", "done"}
    /\ tool \in {"attach", "record", "done"} => stub # "free"
    /\ tool \in {"record", "done"} => vhci # "free"

\* PDUs of the URB phase are sent from the time both drivers have the socket, and nothing
\* of the handshake is left by then.
PhaseOfStreams ==
    /\ vhci = "free" =>
          /\ Only(to["daemon"], {"op", "body"}) /\ Only(to["tool"], {"op", "body"})
          /\ stub # "free" => to["daemon"] = <<>>
    /\ vhci # "free" =>
          /\ Only(to["daemon"], {"urb"}) /\ Only(to["tool"], {"urb"}) /\ stub # "free"
          /\ child \in {"close", "done"} /\ tool \in {"record", "done", "close", "failed", "killed"}

ImportInv == flow = "import" => RequestRead /\ AnswerLast /\ PhaseOfStreams

\* The answer of an export promises a port that has the socket.
ExportInv ==
    flow = "export" =>
        /\ tool \notin {"body", "attach", "record", "devices"} /\ child # "more"
        /\ \A i \in 1 .. Len(to["tool"]) :
              to["tool"][i] = Op("REP_EXPORT", "ST_OK") => vhci # "free"
        /\ child \in {"record", "answer"} => vhci # "free"
        /\ tool = "start" => vhci # "free"
        /\ tool = "done" => vhci # "free" /\ stub # "free"

AttachInv == StreamsTyped /\ ImportInv /\ ExportInv /\ (tool = "failed" => bound = FALSE)

\* The messages of the protocol.
LEMMA Messages ==
    ASSUME NEW code \in Codes, NEW st \in {"ST_OK", "ST_NA"}, NEW n \in Nat
    PROVE  /\ Op(code, st) \in Message /\ Op(code, st).kind = "op"
           /\ Body(n) \in Message /\ Body(n).kind = "body"
           /\ Urb(code) \in Message /\ Urb(code).kind = "urb"
<1>1. st \in Nat \cup {"ST_OK", "ST_NA"} /\ n \in Nat \cup {"ST_OK", "ST_NA"}
      /\ 0 \in Nat \cup {"ST_OK", "ST_NA"}
  OBVIOUS
<1>2. "BODY" \in Codes
  BY DEF Codes
<1>3. Op(code, st) \in Message /\ Op(code, st).kind = "op"
  BY <1>1, <1>2 DEF Op, Message
<1>4. Body(n) \in Message /\ Body(n).kind = "body"
  BY <1>1, <1>2 DEF Body, Message
<1>5. Urb(code) \in Message /\ Urb(code).kind = "urb"
  BY <1>1, <1>2 DEF Urb, Message
<1> QED BY <1>3, <1>4, <1>5

\* What is left of a stream after a read.
LEMMA Reads ==
    ASSUME StreamsTyped, NEW e \in End, Consume(e)
    PROVE  /\ to' \in [End -> Seq(Message)]
           /\ \A f \in End : f # e => to'[f] = to[f]
           /\ to[e] = <<>> => to'[e] = to[e]
           /\ to[e] # <<>> =>
                 /\ Head(to[e]) = to[e][1] /\ Len(to[e]) \in Nat \ {0}
                 /\ Len(to'[e]) = Len(to[e]) - 1
                 /\ \A i \in 1 .. Len(to'[e]) : to'[e][i] = to[e][i + 1]
<1>1. to[e] \in Seq(Message) /\ to \in [End -> Seq(Message)]
  BY DEF StreamsTyped
<1>2. CASE to[e] = <<>>
  BY <1>1, <1>2 DEF Consume
<1>3. CASE to[e] # <<>>
  <2>1. PICK s \in Seq(Message) : s = to[e]
    BY <1>1
  <2>2. /\ Head(s) = s[1] /\ Len(s) \in Nat \ {0} /\ Tail(s) \in Seq(Message)
        /\ Len(Tail(s)) = Len(s) - 1 /\ \A i \in 1 .. Len(Tail(s)) : Tail(s)[i] = s[i + 1]
    BY <1>3, <2>1, HeadTailProperties, LenProperties, EmptySeq
  <2>3. to' = [to EXCEPT ![e] = Tail(s)]
    BY <1>3, <2>1 DEF Consume
  <2>4. to' \in [End -> Seq(Message)] /\ to'[e] = Tail(s) /\ \A f \in End : f # e => to'[f] = to[f]
    BY <1>1, <2>2, <2>3
  <2> QED BY <1>3, <2>1, <2>2, <2>4
<1> QED BY <1>2, <1>3

\* A stream after a send.
LEMMA Sends ==
    ASSUME StreamsTyped, NEW e \in End, NEW ms \in Seq(Message), Deliver(e, ms)
    PROVE  /\ to' \in [End -> Seq(Message)]
           /\ \A f \in End : f # e => to'[f] = to[f]
           /\ shut => to'[e] = to[e]
           /\ ~shut =>
                 /\ Len(to[e]) \in Nat /\ Len(ms) \in Nat /\ Len(to'[e]) = Len(to[e]) + Len(ms)
                 /\ \A i \in 1 .. Len(to'[e]) :
                       to'[e][i] = IF i <= Len(to[e]) THEN to[e][i] ELSE ms[i - Len(to[e])]
<1>1. to[e] \in Seq(Message) /\ to \in [End -> Seq(Message)]
  BY DEF StreamsTyped
<1>2. CASE shut
  BY <1>1, <1>2 DEF Deliver
<1>3. CASE ~shut
  <2>1. PICK s \in Seq(Message) : s = to[e]
    BY <1>1
  <2>2. /\ s \o ms \in Seq(Message) /\ Len(s \o ms) = Len(s) + Len(ms) /\ Len(s) \in Nat /\ Len(ms) \in Nat
        /\ \A i \in 1 .. Len(s) + Len(ms) : (s \o ms)[i] = IF i <= Len(s) THEN s[i] ELSE ms[i - Len(s)]
    BY ConcatProperties, LenProperties
  <2>3. to' = [to EXCEPT ![e] = s \o ms]
    BY <1>3, <2>1 DEF Deliver
  <2>4. to' \in [End -> Seq(Message)] /\ to'[e] = s \o ms /\ \A f \in End : f # e => to'[f] = to[f]
    BY <1>1, <2>2, <2>3
  <2> QED BY <1>3, <2>1, <2>2, <2>4
<1> QED BY <1>2, <1>3

\* A send of one message.
LEMMA SendsOne ==
    ASSUME StreamsTyped, NEW e \in End, NEW m \in Message, Deliver(e, <<m>>)
    PROVE  /\ to' \in [End -> Seq(Message)]
           /\ \A f \in End : f # e => to'[f] = to[f]
           /\ shut => to'[e] = to[e]
           /\ ~shut =>
                 /\ Len(to[e]) \in Nat /\ Len(to'[e]) = Len(to[e]) + 1
                 /\ \A i \in 1 .. Len(to'[e]) : to'[e][i] = IF i <= Len(to[e]) THEN to[e][i] ELSE m
<1>1. <<m>> \in Seq(Message) /\ Len(<<m>>) = 1 /\ <<m>>[1] = m
  OBVIOUS
<1>2. Len(to[e]) \in Nat
  BY LenProperties DEF StreamsTyped
<1>3. \A i \in 1 .. Len(to[e]) + 1 : i > Len(to[e]) => i - Len(to[e]) = 1
  BY <1>2
<1>4. /\ to' \in [End -> Seq(Message)] /\ \A f \in End : f # e => to'[f] = to[f]
      /\ shut => to'[e] = to[e]
      /\ ~shut =>
            /\ Len(to'[e]) = Len(to[e]) + Len(<<m>>)
            /\ \A i \in 1 .. Len(to'[e]) :
                  to'[e][i] = IF i <= Len(to[e]) THEN to[e][i] ELSE <<m>>[i - Len(to[e])]
  BY <1>1, Sends
<1>5. ~shut => \A i \in 1 .. Len(to'[e]) : to'[e][i] = IF i <= Len(to[e]) THEN to[e][i] ELSE m
  <2> SUFFICES ASSUME ~shut, NEW i \in 1 .. Len(to'[e])
               PROVE  to'[e][i] = IF i <= Len(to[e]) THEN to[e][i] ELSE m
    OBVIOUS
  <2>1. i \in 1 .. Len(to[e]) + 1
    BY <1>1, <1>4
  <2>2. CASE i <= Len(to[e])
    BY <1>4, <2>2
  <2>3. CASE ~(i <= Len(to[e]))
    <3>1. i - Len(to[e]) = 1
      BY <1>2, <2>1, <2>3
    <3> QED BY <1>1, <1>4, <2>3, <3>1
  <2> QED BY <2>2, <2>3
<1> QED BY <1>1, <1>2, <1>4, <1>5

\* The answer of stub_tx to a request that stub_rx has read.
LEMMA Answers ==
    ASSUME StreamsTyped, NEW m \in Message, NEW e \in End, NEW f \in End, e # f,
           to[e] # <<>>, to' = [to EXCEPT ![e] = Tail(@), ![f] = Append(@, m)]
    PROVE  /\ to' \in [End -> Seq(Message)]
           /\ Len(to[e]) \in Nat \ {0} /\ Len(to'[e]) = Len(to[e]) - 1
           /\ \A i \in 1 .. Len(to'[e]) : to'[e][i] = to[e][i + 1]
           /\ Len(to[f]) \in Nat /\ Len(to'[f]) = Len(to[f]) + 1
           /\ \A i \in 1 .. Len(to'[f]) : to'[f][i] = IF i <= Len(to[f]) THEN to[f][i] ELSE m
<1>1. to[e] \in Seq(Message) /\ to[f] \in Seq(Message) /\ to \in [End -> Seq(Message)]
  BY DEF StreamsTyped
<1>2. PICK s \in Seq(Message), t \in Seq(Message) : s = to[e] /\ t = to[f]
  BY <1>1
<1>3. /\ Len(s) \in Nat \ {0} /\ Tail(s) \in Seq(Message)
      /\ Len(Tail(s)) = Len(s) - 1 /\ \A i \in 1 .. Len(Tail(s)) : Tail(s)[i] = s[i + 1]
  BY <1>2, HeadTailProperties, LenProperties, EmptySeq
<1>4. /\ Append(t, m) \in Seq(Message) /\ Len(t) \in Nat /\ Len(Append(t, m)) = Len(t) + 1
      /\ \A i \in 1 .. Len(t) : Append(t, m)[i] = t[i]
  BY AppendProperties, LenProperties
<1>5. to' \in [End -> Seq(Message)] /\ to'[e] = Tail(s) /\ to'[f] = Append(t, m)
  BY <1>1, <1>2, <1>3, <1>4
<1>6. Append(t, m)[Len(t) + 1] = m
  BY AppendProperties, LenProperties
<1>7. \A i \in 1 .. Len(t) + 1 : Append(t, m)[i] = IF i <= Len(t) THEN t[i] ELSE m
  <2> SUFFICES ASSUME NEW i \in 1 .. Len(t) + 1
               PROVE  Append(t, m)[i] = IF i <= Len(t) THEN t[i] ELSE m
    OBVIOUS
  <2>1. i \in 1 .. Len(t) \/ i = Len(t) + 1
    BY <1>4
  <2> QED BY <1>4, <1>6, <2>1
<1>8. /\ Len(to[f]) \in Nat /\ Len(to'[f]) = Len(to[f]) + 1
      /\ \A i \in 1 .. Len(to'[f]) : to'[f][i] = IF i <= Len(to[f]) THEN to[f][i] ELSE m
  BY <1>2, <1>4, <1>5, <1>7, Zenon
<1>9. /\ Len(to[e]) \in Nat \ {0} /\ Len(to'[e]) = Len(to[e]) - 1
      /\ \A i \in 1 .. Len(to'[e]) : to'[e][i] = to[e][i + 1]
  BY <1>2, <1>3, <1>5, Zenon
<1> QED BY <1>5, <1>8, <1>9

\* What the processes and the drivers send.
LEMMA Sent ==
    ASSUME flow \in {"import", "export", "list"}
    PROVE  /\ Op(Request(flow), "ST_OK") \in Message /\ Op(Request(flow), "ST_OK").kind = "op"
           /\ Op(Reply(flow), "ST_OK") \in Message /\ Op(Reply(flow), "ST_OK").kind = "op"
           /\ Op(Reply(flow), "ST_NA") \in Message /\ Op(Reply(flow), "ST_NA").kind = "op"
           /\ Urb("CMD") \in Message /\ Urb("CMD").kind = "urb"
           /\ Urb("RET") \in Message /\ Urb("RET").kind = "urb"
           /\ \A n \in Nat : Body(n) \in Message /\ Body(n).kind = "body"
<1>1. Request(flow) \in Codes
  BY DEF Request, Codes
<1>2. Reply(flow) \in Codes
  BY DEF Reply, Codes
<1>3. "CMD" \in Codes /\ "RET" \in Codes
  BY DEF Codes
<1> QED BY <1>1, <1>2, <1>3, Messages

\* Every step keeps the streams streams of messages.
LEMMA StreamsStep == StreamsTyped /\ [AttachNext]_attachVars => StreamsTyped'
<1> SUFFICES ASSUME StreamsTyped, [AttachNext]_attachVars PROVE StreamsTyped'
  OBVIOUS
<1>0. flow \in {"import", "export", "list"} /\ AppEnd \in End /\ DevEnd \in End /\ AppEnd # DevEnd
      /\ "tool" \in End /\ "daemon" \in End
  BY DEF StreamsTyped, AppEnd, DevEnd, Other, End
<1>1. CASE \/ ToolBind \/ ToolOpen \/ ToolAttach \/ ToolRecord \/ ToolStart \/ ToolClose \/ ToolKilled
           \/ ChildExport \/ ChildImport \/ ChildRecord \/ ChildClose \/ VhciShutdown \/ StubShutdown
           \/ UNCHANGED attachVars
  <2>1. UNCHANGED <<flow, to>>
    BY <1>1 DEF ToolBind, ToolOpen, ToolAttach, ToolRecord, ToolStart, ToolClose, ToolKilled,
       ChildExport, ChildImport, ChildRecord, ChildClose, VhciShutdown, StubShutdown, attachVars
  <2> QED BY <2>1 DEF StreamsTyped
<1>2. CASE ToolReply \/ ToolBody \/ ToolDevices \/ ChildRecvOp \/ ChildRecvBody \/ VhciRecv
  <2>1. flow' = flow /\ (to' = to \/ \E e \in End : Consume(e))
    BY <1>0, <1>2 DEF ToolReply, ToolBody, ToolDevices, ChildRecvOp, ChildRecvBody, VhciRecv
  <2> QED BY <2>1, Reads DEF StreamsTyped
<1>3. CASE ToolRequest
  <2>1. PICK ms : /\ ms = <<Op(Request(flow), "ST_OK")>> \o IF flow = "list" THEN <<>> ELSE <<Body(0)>>
                  /\ Deliver("daemon", ms) /\ flow' = flow
    BY <1>3 DEF ToolRequest
  <2>2. ms \in Seq(Message)
    BY <1>0, <2>1, Sent
  <2> QED BY <1>0, <2>1, <2>2, Sends DEF StreamsTyped
<1>4. CASE ChildRefuse \/ ChildAnswer \/ VhciSend
  <2>1. flow' = flow /\ \E e \in End, m \in Message : Deliver(e, <<m>>)
    BY <1>0, <1>4, Sent DEF ChildRefuse, ChildAnswer, VhciSend
  <2> QED BY <2>1, SendsOne DEF StreamsTyped
<1>5. CASE ChildMore
  <2>1. flow' = flow
    BY <1>5 DEF ChildMore
  <2>2. CASE Deliver("tool", <<Body(0)>>)
    BY <1>0, <2>1, <2>2, Sent, SendsOne DEF StreamsTyped
  <2>3. ASSUME NEW n \in 0 .. MaxDevs, Deliver("tool", <<Body(n)>> \o [i \in 1 .. n |-> Body(0)])
        PROVE  StreamsTyped'
    <3>1. n \in Nat
      BY AttachAssumption DEF AttachAssumption
    <3>2. <<Body(n)>> \in Seq(Message) /\ [i \in 1 .. n |-> Body(0)] \in Seq(Message)
      BY <1>0, <3>1, Sent, IsASeq
    <3>3. PICK ms : ms = <<Body(n)>> \o [i \in 1 .. n |-> Body(0)] /\ Deliver("tool", ms)
      BY <2>3
    <3>4. ms \in Seq(Message)
      BY <3>2, <3>3, ConcatProperties
    <3> QED BY <1>0, <2>1, <3>3, <3>4, Sends DEF StreamsTyped
  <2> QED BY <1>5, <2>2, <2>3 DEF ChildMore
<1>6. CASE StubRecv
  <2>1. flow' = flow
    BY <1>6 DEF StubRecv
  <2>2. CASE Consume(DevEnd)
    BY <1>0, <2>1, <2>2, Reads DEF StreamsTyped
  <2>3. CASE /\ to[DevEnd] # <<>>
             /\ to' = [to EXCEPT ![DevEnd] = Tail(@), ![AppEnd] = Append(@, Urb("RET"))]
    BY <1>0, <2>1, <2>3, Sent, Answers DEF StreamsTyped
  <2> QED BY <1>6, <2>2, <2>3 DEF StubRecv
<1>7. CASE Cut
  BY <1>7 DEF Cut, StreamsTyped
<1> QED BY <1>1, <1>2, <1>3, <1>4, <1>5, <1>6, <1>7
        DEF AttachNext, ToolStep, ChildStep, VhciStep, StubStep

\* An import, step by step.
LEMMA ImportStep ==
    ASSUME StreamsTyped, StreamsTyped', flow = "import", RequestRead, AnswerLast, PhaseOfStreams,
           AttachNext
    PROVE  RequestRead' /\ AnswerLast' /\ PhaseOfStreams'
<1>0. AppEnd = "tool" /\ DevEnd = "daemon" /\ "tool" \in End /\ "daemon" \in End /\ flow # "export"
      /\ flow # "list" /\ to["tool"] \in Seq(Message) /\ to["daemon"] \in Seq(Message)
  BY DEF AppEnd, DevEnd, Other, End, StreamsTyped
<1>1. CASE ToolBind \/ ToolStart \/ ToolDevices \/ ChildImport \/ ChildRecord
  BY <1>0, <1>1 DEF ToolBind, ToolStart, ToolDevices, ChildImport, ChildRecord, RequestRead
<1>2. CASE ToolOpen \/ ToolClose \/ ToolKilled \/ ToolAttach \/ ToolRecord
  <2>1. to' = to /\ stub' = stub
    BY <1>2 DEF ToolOpen, ToolClose, ToolKilled, ToolAttach, ToolRecord
  <2>2. CASE ToolOpen
    BY <1>0, <2>1, <2>2 DEF ToolOpen, RequestRead, AnswerLast, PhaseOfStreams, Only
  <2>3. CASE ToolClose \/ ToolKilled
    BY <1>0, <2>1, <2>3 DEF ToolClose, ToolKilled, RequestRead, AnswerLast, PhaseOfStreams, Only
  <2>4. CASE ToolAttach
    <3>1. tool = "attach" /\ to["tool"] = <<>> /\ to["daemon"] = <<>> /\ stub # "free"
          /\ child \in {"close", "done"} /\ vhci = "free"
      BY <2>4 DEF ToolAttach, AnswerLast, PhaseOfStreams
    <3>2. Only(to["daemon"], {"urb"}) /\ Only(to["tool"], {"urb"})
      BY <3>1 DEF Only
    <3>3. child' = child /\ tool' \in {"record", "close"} /\ (vhci' = vhci \/ vhci' = "used")
          /\ (tool' = "record" => vhci' = "used")
      BY <2>4 DEF ToolAttach
    <3>4. RequestRead'
      BY <2>1, <3>1, <3>3 DEF RequestRead
    <3>5. AnswerLast'
      BY <2>1, <3>1, <3>3 DEF AnswerLast
    <3>6. PhaseOfStreams'
      BY <2>1, <3>1, <3>2, <3>3 DEF PhaseOfStreams, Only
    <3> QED BY <3>4, <3>5, <3>6
  <2>5. CASE ToolRecord
    <3>1. tool = "record" /\ vhci # "free" /\ vhci' # "free" /\ child' = child /\ tool' \in {"done", "close"}
      BY <2>5 DEF ToolRecord, AnswerLast
    <3> QED BY <2>1, <3>1 DEF RequestRead, AnswerLast, PhaseOfStreams, Only
  <2> QED BY <1>2, <2>2, <2>3, <2>4, <2>5
<1>3. CASE ToolRequest
  <2>1. PICK ms : /\ ms = <<Op(Request(flow), "ST_OK")>> \o IF flow = "list" THEN <<>> ELSE <<Body(0)>>
                  /\ Deliver("daemon", ms)
    BY <1>3 DEF ToolRequest
  <2>2. ms = <<Op(Request(flow), "ST_OK")>> \o <<Body(0)>>
    BY <1>0, <2>1
  <2>3. ms \in Seq(Message) /\ Len(ms) = 2 /\ Only(ms, {"op", "body"})
    <3>1. PICK m \in Message, n \in Message : ms = <<m>> \o <<n>> /\ m.kind = "op" /\ n.kind = "body"
      BY <1>0, <2>2, Sent
    <3>2. ms \in Seq(Message) /\ Len(ms) = 2 /\ ms[1] = m /\ ms[2] = n
      <4>1. PICK s : s = <<m>> /\ s \in Seq(Message) /\ Len(s) = 1 /\ s[1] = m
        <5>1. <<m>> \in Seq(Message) /\ Len(<<m>>) = 1 /\ <<m>>[1] = m
          OBVIOUS
        <5> QED BY <5>1
      <4>2. PICK t : t = <<n>> /\ t \in Seq(Message) /\ Len(t) = 1 /\ t[1] = n
        <5>1. <<n>> \in Seq(Message) /\ Len(<<n>>) = 1 /\ <<n>>[1] = n
          OBVIOUS
        <5> QED BY <5>1
      <4>3. /\ s \o t \in Seq(Message) /\ Len(s \o t) = 2
            /\ \A i \in 1 .. 2 : (s \o t)[i] = IF i <= 1 THEN s[i] ELSE t[i - 1]
        BY <4>1, <4>2, ConcatProperties
      <4> QED BY <3>1, <4>1, <4>2, <4>3
    <3> QED BY <3>1, <3>2 DEF Only
  <2>4. /\ tool = "request" /\ tool' \in {"close", "reply"} /\ UNCHANGED <<child, vhci, stub>>
        /\ to["daemon"] = <<>> /\ vhci = "free" /\ stub = "free"
        /\ child \in {"none", "recv_op", "close", "done"}
    BY <1>3 DEF ToolRequest, RequestRead, PhaseOfStreams
  <2>5. to'["tool"] = to["tool"] /\ Len(to'["daemon"]) <= 2 /\ Only(to'["daemon"], {"op", "body"})
    <3>1. Len(to["daemon"]) = 0
      BY <2>4
    <3>2. /\ to'["tool"] = to["tool"]
          /\ shut => to'["daemon"] = to["daemon"]
          /\ ~shut =>
                /\ Len(to'["daemon"]) = Len(to["daemon"]) + Len(ms)
                /\ \A i \in 1 .. Len(to'["daemon"]) :
                      to'["daemon"][i] = IF i <= Len(to["daemon"]) THEN to["daemon"][i]
                                         ELSE ms[i - Len(to["daemon"])]
      BY <1>0, <2>1, <2>3, Sends DEF End
    <3>3. CASE shut
      BY <3>1, <3>2, <3>3 DEF Only
    <3>4. CASE ~shut
      <4>1. Len(to'["daemon"]) = 2 /\ \A i \in 1 .. 2 : to'["daemon"][i] = ms[i]
        BY <2>3, <3>1, <3>2, <3>4
      <4> QED BY <2>3, <3>2, <4>1 DEF Only
    <3> QED BY <3>3, <3>4
  <2> QED BY <2>4, <2>5 DEF RequestRead, AnswerLast, PhaseOfStreams, Only
<1>4. CASE ToolReply \/ ToolBody
  <2>1. /\ Consume("tool") /\ tool \in {"reply", "body"} /\ UNCHANGED <<child, vhci, stub>>
        /\ vhci = "free" /\ tool' \in {"close", "body", "attach"}
        /\ tool' = "attach" => to["tool"] # <<>> /\ Head(to["tool"]).kind = "body"
    BY <1>0, <1>4 DEF ToolReply, ToolBody, PhaseOfStreams
  <2>2. /\ to'["daemon"] = to["daemon"]
        /\ to["tool"] = <<>> => to'["tool"] = to["tool"]
        /\ to["tool"] # <<>> =>
              /\ Head(to["tool"]) = to["tool"][1] /\ Len(to["tool"]) \in Nat \ {0}
              /\ Len(to'["tool"]) = Len(to["tool"]) - 1
              /\ \A i \in 1 .. Len(to'["tool"]) : to'["tool"][i] = to["tool"][i + 1]
    BY <1>0, <2>1, Reads DEF End
  <2>3. RequestRead'
    BY <2>1, <2>2 DEF RequestRead
  <2>4. PhaseOfStreams'
    BY <2>1, <2>2, SMTT(60) DEF PhaseOfStreams, Only
  <2>5. tool' = "attach" => to'["tool"] = <<>> /\ child \in {"close", "done"} /\ stub # "free"
    <3> SUFFICES ASSUME tool' = "attach"
                 PROVE  to'["tool"] = <<>> /\ child \in {"close", "done"} /\ stub # "free"
      OBVIOUS
    <3>1. to["tool"] # <<>> /\ to["tool"][1].kind = "body" /\ 1 \in 1 .. Len(to["tool"])
      BY <2>1, <2>2
    <3>2. Len(to["tool"]) = 1 /\ child \in {"close", "done"} /\ stub # "free"
      BY <3>1 DEF AnswerLast
    <3>3. Len(to'["tool"]) = 0 /\ to'["tool"] \in Seq(Message)
      BY <1>0, <2>2, <3>1, <3>2 DEF StreamsTyped
    <3>4. to'["tool"] = <<>>
      BY <3>3, EmptySeq
    <3> QED BY <3>2, <3>4
  <2>6. \A i \in 1 .. Len(to'["tool"]) : to'["tool"][i].kind = "body" =>
          i = Len(to'["tool"]) /\ child \in {"close", "done"} /\ stub # "free"
    BY <2>2 DEF AnswerLast
  <2>7. AnswerLast'
    BY <2>1, <2>5, <2>6 DEF AnswerLast
  <2> QED BY <2>3, <2>4, <2>7
<1>5. CASE ChildRecvOp \/ ChildRecvBody
  <2>1. /\ Consume("daemon") /\ child \in {"recv_op", "recv_body"} /\ UNCHANGED <<tool, vhci, stub>>
        /\ vhci = "free" /\ stub = "free"
        /\ child = "recv_op" => child' \in {"close", "recv_body"}
        /\ child = "recv_body" => child' \in {"close", "serve"}
        /\ child' # "close" => to["daemon"] # <<>>
    BY <1>0, <1>5 DEF ChildRecvOp, ChildRecvBody, PhaseOfStreams, RequestRead, RecvOpCommon
  <2>2. /\ to'["tool"] = to["tool"]
        /\ to["daemon"] = <<>> => to'["daemon"] = to["daemon"]
        /\ to["daemon"] # <<>> =>
              /\ Len(to["daemon"]) \in Nat \ {0} /\ Len(to'["daemon"]) = Len(to["daemon"]) - 1
              /\ \A i \in 1 .. Len(to'["daemon"]) : to'["daemon"][i] = to["daemon"][i + 1]
    BY <1>0, <2>1, Reads DEF End
  <2>3. PhaseOfStreams'
    BY <2>1, <2>2, SMTT(60) DEF PhaseOfStreams, Only
  <2>4. AnswerLast'
    BY <2>1, <2>2 DEF AnswerLast
  <2>5. child' = "recv_body" => Len(to'["daemon"]) <= 1
    BY <2>1, <2>2 DEF RequestRead
  <2>6. child' = "serve" => to'["daemon"] = <<>>
    <3>1. child' = "serve" => Len(to'["daemon"]) = 0
      BY <2>1, <2>2 DEF RequestRead
    <3> QED BY <1>0, <3>1, EmptySeq DEF StreamsTyped
  <2>7. tool \in {"open", "request"} => to'["daemon"] = <<>> /\ child' = "close"
    BY <2>1, <2>2 DEF RequestRead
  <2>8. RequestRead'
    BY <2>1, <2>5, <2>6, <2>7 DEF RequestRead
  <2> QED BY <2>3, <2>4, <2>8
<1>6. CASE ChildExport
  BY <1>0, <1>6 DEF ChildExport, RequestRead, AnswerLast, PhaseOfStreams, Only
<1>7. CASE ChildRefuse \/ ChildAnswer
  <2>1. PICK m \in Message : Deliver("tool", <<m>>) /\ m.kind = "op"
    BY <1>0, <1>7, Sent DEF ChildRefuse, ChildAnswer
  <2>2. /\ child \in {"refuse", "answer"} /\ child' \in {"more", "close"} /\ UNCHANGED <<tool, vhci, stub>>
        /\ child' = "more" => child = "answer"
        /\ vhci = "free" /\ tool # "attach"
    BY <1>7 DEF ChildRefuse, ChildAnswer, PhaseOfStreams, AnswerLast
  <2>3. /\ to'["daemon"] = to["daemon"]
        /\ shut => to'["tool"] = to["tool"]
        /\ ~shut =>
              /\ Len(to["tool"]) \in Nat /\ Len(to'["tool"]) = Len(to["tool"]) + 1
              /\ \A i \in 1 .. Len(to'["tool"]) :
                    to'["tool"][i] = IF i <= Len(to["tool"]) THEN to["tool"][i] ELSE m
    BY <1>0, <2>1, SendsOne DEF End
  <2>4. Only(to["tool"], {"op"}) /\ Only(to["tool"], {"op", "body"})
    BY <2>2 DEF AnswerLast, PhaseOfStreams, Only
  <2>5. Only(to'["tool"], {"op"})
    BY <2>1, <2>3, <2>4, SMTT(60) DEF Only
  <2>6. RequestRead'
    BY <2>2, <2>3 DEF RequestRead
  <2>7. AnswerLast'
    BY <2>2, <2>5 DEF AnswerLast, Only
  <2>8. PhaseOfStreams'
    BY <2>2, <2>3, <2>5 DEF PhaseOfStreams, Only
  <2> QED BY <2>6, <2>7, <2>8
<1>8. CASE ChildMore
  <2>1. PICK m \in Message : Deliver("tool", <<m>>) /\ m.kind = "body"
    BY <1>0, <1>8, Sent DEF ChildMore
  <2>2. /\ child = "more" /\ child' = "close" /\ UNCHANGED <<tool, vhci, stub>>
        /\ vhci = "free" /\ tool # "attach" /\ stub # "free"
    BY <1>8 DEF ChildMore, PhaseOfStreams, AnswerLast, RequestRead
  <2>3. /\ to'["daemon"] = to["daemon"]
        /\ shut => to'["tool"] = to["tool"]
        /\ ~shut =>
              /\ Len(to["tool"]) \in Nat /\ Len(to'["tool"]) = Len(to["tool"]) + 1
              /\ \A i \in 1 .. Len(to'["tool"]) :
                    to'["tool"][i] = IF i <= Len(to["tool"]) THEN to["tool"][i] ELSE m
    BY <1>0, <2>1, SendsOne DEF End
  <2>4. Only(to["tool"], {"op"}) /\ Len(to["tool"]) \in Nat
    <3>1. Only(to["tool"], {"op", "body"})
      BY <2>2 DEF PhaseOfStreams
    <3> QED BY <1>0, <2>2, <3>1, LenProperties DEF AnswerLast, Only
  <2>5. /\ Only(to'["tool"], {"op", "body"})
        /\ \A i \in 1 .. Len(to'["tool"]) : to'["tool"][i].kind = "body" => i = Len(to'["tool"])
    BY <2>1, <2>3, <2>4, SMTT(60) DEF Only
  <2>6. RequestRead'
    BY <2>2, <2>3 DEF RequestRead
  <2>7. AnswerLast'
    BY <2>2, <2>5 DEF AnswerLast
  <2>8. PhaseOfStreams'
    BY <2>2, <2>3, <2>5 DEF PhaseOfStreams, Only
  <2> QED BY <2>6, <2>7, <2>8
<1>9. CASE ChildClose
  BY <1>9 DEF ChildClose, RequestRead, AnswerLast, PhaseOfStreams, Only
<1>10. CASE VhciSend
  <2>1. Deliver("daemon", <<Urb("CMD")>>) /\ Urb("CMD") \in Message /\ Urb("CMD").kind = "urb"
    BY <1>0, <1>10, Sent DEF VhciSend
  <2>2. /\ vhci # "free" /\ vhci' # "free" /\ UNCHANGED <<tool, child, stub>> /\ stub # "free"
        /\ child \in {"close", "done"} /\ tool \in {"record", "done", "close", "failed", "killed"}
    BY <1>10 DEF VhciSend, PhaseOfStreams
  <2>3. /\ to'["tool"] = to["tool"]
        /\ shut => to'["daemon"] = to["daemon"]
        /\ ~shut =>
              /\ Len(to["daemon"]) \in Nat /\ Len(to'["daemon"]) = Len(to["daemon"]) + 1
              /\ \A i \in 1 .. Len(to'["daemon"]) :
                    to'["daemon"][i] = IF i <= Len(to["daemon"]) THEN to["daemon"][i] ELSE Urb("CMD")
    BY <1>0, <2>1, SendsOne DEF End
  <2>4. PhaseOfStreams'
    BY <2>1, <2>2, <2>3 DEF PhaseOfStreams, Only
  <2>5. RequestRead' /\ AnswerLast'
    BY <2>2, <2>3 DEF RequestRead, AnswerLast
  <2> QED BY <2>4, <2>5
<1>11. CASE VhciRecv
  <2>1. Consume("tool")
    BY <1>0, <1>11 DEF VhciRecv
  <2>2. /\ vhci # "free" /\ vhci' # "free" /\ UNCHANGED <<tool, child, stub>> /\ stub # "free"
        /\ child \in {"close", "done"} /\ tool \in {"record", "done", "close", "failed", "killed"}
    BY <1>11 DEF VhciRecv, PhaseOfStreams
  <2>3. /\ to'["daemon"] = to["daemon"]
        /\ to["tool"] = <<>> => to'["tool"] = to["tool"]
        /\ to["tool"] # <<>> =>
              /\ Len(to["tool"]) \in Nat \ {0} /\ Len(to'["tool"]) = Len(to["tool"]) - 1
              /\ \A i \in 1 .. Len(to'["tool"]) : to'["tool"][i] = to["tool"][i + 1]
    BY <1>0, <2>1, Reads DEF End
  <2>4. Only(to["tool"], {"urb"}) /\ Only(to["daemon"], {"urb"})
    BY <2>2 DEF PhaseOfStreams
  <2>5. Only(to'["tool"], {"urb"})
    <3>1. CASE to["tool"] = <<>>
      BY <2>3, <2>4, <3>1
    <3>2. CASE to["tool"] # <<>>
      BY <2>3, <2>4, <3>2, OnlyTaken
    <3> QED BY <3>1, <3>2
  <2>6. RequestRead' /\ AnswerLast'
    BY <2>2, <2>3, <2>5 DEF RequestRead, AnswerLast, Only
  <2>7. PhaseOfStreams'
    BY <2>2, <2>3, <2>4, <2>5 DEF PhaseOfStreams, Only
  <2> QED BY <2>6, <2>7
<1>12. CASE VhciShutdown \/ StubShutdown
  BY <1>12 DEF VhciShutdown, StubShutdown, RequestRead, AnswerLast, PhaseOfStreams, Only
<1>13. CASE StubRecv
  <2>1. /\ stub # "free" /\ stub' # "free" /\ UNCHANGED <<tool, child, vhci>>
    BY <1>13 DEF StubRecv
  <2>2. CASE Consume("daemon")
    <3>1. /\ to'["tool"] = to["tool"]
          /\ to["daemon"] = <<>> => to'["daemon"] = to["daemon"]
          /\ to["daemon"] # <<>> =>
                /\ Len(to["daemon"]) \in Nat \ {0} /\ Len(to'["daemon"]) = Len(to["daemon"]) - 1
                /\ \A i \in 1 .. Len(to'["daemon"]) : to'["daemon"][i] = to["daemon"][i + 1]
      BY <1>0, <2>2, Reads DEF End
    <3>2. PhaseOfStreams'
      BY <2>1, <3>1 DEF PhaseOfStreams, Only
    <3>3. AnswerLast'
      BY <2>1, <3>1 DEF AnswerLast
    <3>4. RequestRead'
      BY <2>1, <3>1 DEF RequestRead
    <3> QED BY <3>2, <3>3, <3>4
  <2>3. CASE /\ to["daemon"] # <<>>
             /\ to' = [to EXCEPT !["daemon"] = Tail(@), !["tool"] = Append(@, Urb("RET"))]
    <3>1. Urb("RET") \in Message /\ Urb("RET").kind = "urb"
      BY <1>0, Sent
    <3>2. /\ vhci # "free" /\ child \in {"close", "done"}
          /\ tool \in {"record", "done", "close", "failed", "killed"}
      BY <2>1, <2>3 DEF PhaseOfStreams
    <3>3. /\ Len(to["daemon"]) \in Nat \ {0} /\ Len(to'["daemon"]) = Len(to["daemon"]) - 1
          /\ \A i \in 1 .. Len(to'["daemon"]) : to'["daemon"][i] = to["daemon"][i + 1]
          /\ Len(to["tool"]) \in Nat /\ Len(to'["tool"]) = Len(to["tool"]) + 1
          /\ \A i \in 1 .. Len(to'["tool"]) :
                to'["tool"][i] = IF i <= Len(to["tool"]) THEN to["tool"][i] ELSE Urb("RET")
      BY <1>0, <2>3, <3>1, Answers DEF End
    <3>4. Only(to'["tool"], {"urb"}) /\ Only(to'["daemon"], {"urb"})
      <4>1. Only(to["tool"], {"urb"}) /\ Only(to["daemon"], {"urb"})
        BY <3>2 DEF PhaseOfStreams
      <4>2. Only(to'["tool"], {"urb"})
        BY <3>1, <3>3, <4>1, SMTT(60) DEF Only
      <4>3. Only(to'["daemon"], {"urb"})
        BY <3>3, <4>1, OnlyTaken
      <4> QED BY <4>2, <4>3
    <3>5. RequestRead' /\ AnswerLast' /\ PhaseOfStreams'
      BY <2>1, <3>2, <3>4 DEF RequestRead, AnswerLast, PhaseOfStreams, Only
    <3> QED BY <3>5
  <2> QED BY <1>0, <1>13, <2>2, <2>3 DEF StubRecv
<1>14. CASE Cut
  <2>1. to'["tool"] = <<>> /\ to'["daemon"] = <<>> /\ UNCHANGED <<tool, child, vhci, stub>>
    BY <1>0, <1>14 DEF Cut
  <2> QED BY <2>1 DEF RequestRead, AnswerLast, PhaseOfStreams, Only
<1> QED BY <1>1, <1>2, <1>3, <1>4, <1>5, <1>6, <1>7, <1>8, <1>9, <1>10, <1>11, <1>12, <1>13, <1>14
        DEF AttachNext, ToolStep, ChildStep, VhciStep, StubStep

\* No message of s tells an export's command that it succeeded.
NoSuccess(s) == \A i \in 1 .. Len(s) : s[i] # Op("REP_EXPORT", "ST_OK")

\* An export, step by step.
LEMMA ExportStep ==
    ASSUME StreamsTyped, flow = "export", ExportInv, AttachNext
    PROVE  ExportInv'
<1> USE DEF AttachNext, ToolStep, ChildStep, VhciStep, StubStep
<1>0. /\ AppEnd = "daemon" /\ DevEnd = "tool" /\ "tool" \in End /\ "daemon" \in End
      /\ Reply(flow) = "REP_EXPORT"
      /\ to["tool"] \in Seq(Message) /\ to["daemon"] \in Seq(Message) /\ Len(to["tool"]) \in Nat
  BY LenProperties DEF AppEnd, DevEnd, Other, End, StreamsTyped, Reply
<1>1. /\ vhci = "free" => NoSuccess(to["tool"])
      /\ child \in {"record", "answer"} => vhci # "free"
      /\ tool = "start" => vhci # "free"
      /\ tool = "done" => vhci # "free" /\ stub # "free"
      /\ tool \notin {"body", "attach", "record", "devices"} /\ child # "more"
  BY DEF ExportInv, NoSuccess
<1>2. (vhci # "free" => vhci' # "free") /\ (stub # "free" => stub' # "free")
  BY <1>1 DEF ToolBind, ToolOpen, ToolRequest, ToolReply,
     ToolBody, ToolDevices, ToolAttach, ToolRecord, ToolStart, ToolClose, ToolKilled, ChildRecvOp,
     ChildRecvBody, ChildExport, ChildImport, ChildRecord, ChildRefuse, ChildAnswer, ChildMore,
     ChildClose, VhciSend, VhciRecv, VhciShutdown, StubRecv, StubShutdown, Cut
<1>3. tool' = "start" => tool = "start" \/ (tool = "reply" /\ RecvOpCommon("tool", Reply(flow)))
  BY <1>1 DEF ToolBind, ToolOpen, ToolRequest, ToolReply,
     ToolBody, ToolDevices, ToolAttach, ToolRecord, ToolStart, ToolClose, ToolKilled, ChildRecvOp,
     ChildRecvBody, ChildExport, ChildImport, ChildRecord, ChildRefuse, ChildAnswer, ChildMore,
     ChildClose, VhciSend, VhciRecv, VhciShutdown, StubRecv, StubShutdown, Cut
<1>4. tool' = "start" => vhci' # "free"
  <2>1. ASSUME to["tool"] # <<>>, Head(to["tool"]) = Op("REP_EXPORT", "ST_OK"), vhci = "free"
        PROVE  FALSE
    <3>1. Head(to["tool"]) = to["tool"][1] /\ 1 \in 1 .. Len(to["tool"])
      BY <1>0, <2>1, HeadTailProperties, EmptySeq, LenProperties
    <3> QED BY <1>1, <2>1, <3>1 DEF NoSuccess
  <2> QED BY <1>0, <1>1, <1>2, <1>3, <2>1 DEF RecvOpCommon
<1>5. tool' = "done" => vhci' # "free" /\ stub' # "free"
  <2>1. tool' = "done" => tool = "done" \/ (tool = "start" /\ stub' # "free")
    BY <1>1 DEF ToolBind, ToolOpen, ToolRequest, ToolReply,
       ToolBody, ToolDevices, ToolAttach, ToolRecord, ToolStart, ToolClose, ToolKilled, ChildRecvOp,
       ChildRecvBody, ChildExport, ChildImport, ChildRecord, ChildRefuse, ChildAnswer, ChildMore,
       ChildClose, VhciSend, VhciRecv, VhciShutdown, StubRecv, StubShutdown, Cut
  <2> QED BY <1>1, <1>2, <2>1
<1>6. /\ child' \in {"record", "answer"} => vhci' # "free"
      /\ tool' \notin {"body", "attach", "record", "devices"} /\ child' # "more"
  BY <1>1 DEF ToolBind, ToolOpen, ToolRequest, ToolReply,
     ToolBody, ToolDevices, ToolAttach, ToolRecord, ToolStart, ToolClose, ToolKilled, ChildRecvOp,
     ChildRecvBody, ChildExport, ChildImport, ChildRecord, ChildRefuse, ChildAnswer, ChildMore,
     ChildClose, VhciSend, VhciRecv, VhciShutdown, StubRecv, StubShutdown, Cut
<1>7. vhci' = "free" => NoSuccess(to'["tool"])
  <2> SUFFICES ASSUME vhci' = "free" PROVE NoSuccess(to'["tool"])
    OBVIOUS
  <2>0. vhci = "free" /\ NoSuccess(to["tool"])
    BY <1>1, <1>2
  <2>1. CASE to'["tool"] = to["tool"] \/ to'["tool"] = <<>>
    BY <2>0, <2>1 DEF NoSuccess
  <2>2. CASE Consume("tool")
    <3>1. /\ to["tool"] = <<>> => to'["tool"] = to["tool"]
          /\ to["tool"] # <<>> =>
                /\ Len(to["tool"]) \in Nat \ {0} /\ Len(to'["tool"]) = Len(to["tool"]) - 1
                /\ \A i \in 1 .. Len(to'["tool"]) : to'["tool"][i] = to["tool"][i + 1]
      BY <1>0, <2>2, Reads
    <3> QED BY <2>0, <3>1 DEF NoSuccess
  <2>3. CASE ChildRefuse
    <3>1. PICK m \in Message : m = Op(Reply(flow), "ST_NA") /\ Deliver("tool", <<m>>)
      BY <2>3, Sent DEF ChildRefuse
    <3>2. m # Op("REP_EXPORT", "ST_OK")
      BY <3>1 DEF Op
    <3> QED BY <1>0, <2>0, <3>1, <3>2, SendsOne DEF NoSuccess
  <2>4. CASE \/ ToolBind \/ ToolOpen \/ ToolClose \/ ToolKilled \/ ToolStart \/ ToolAttach \/ ToolRecord
             \/ ChildExport \/ ChildImport \/ ChildRecord \/ ChildClose \/ VhciShutdown \/ StubShutdown
    BY <2>1, <2>4 DEF ToolBind, ToolOpen, ToolClose, ToolKilled, ToolStart, ToolAttach, ToolRecord,
       ChildExport, ChildImport, ChildRecord, ChildClose, VhciShutdown, StubShutdown
  <2>5. CASE ToolReply \/ ToolBody \/ ToolDevices
    BY <2>1, <2>2, <2>5 DEF ToolReply, ToolBody, ToolDevices
  <2>6. CASE ChildRecvOp \/ ChildRecvBody
    BY <1>0, <2>1, <2>6, Reads DEF ChildRecvOp, ChildRecvBody
  <2>7. CASE ToolRequest
    <3>1. PICK ms : /\ ms = <<Op(Request(flow), "ST_OK")>> \o IF flow = "list" THEN <<>> ELSE <<Body(0)>>
                    /\ Deliver("daemon", ms)
      BY <2>7 DEF ToolRequest
    <3>2. to'["tool"] = to["tool"]
      BY <1>0, <3>1 DEF Deliver, StreamsTyped
    <3> QED BY <2>1, <3>2
  <2>8. CASE ChildAnswer \/ ChildMore \/ VhciSend \/ VhciRecv
    BY <1>1, <2>0, <2>8 DEF ChildAnswer, ChildMore, VhciSend, VhciRecv
  <2>9. CASE StubRecv
    <3>1. CASE Consume("tool")
      BY <2>2, <3>1
    <3>2. CASE /\ to["tool"] # <<>>
               /\ to' = [to EXCEPT !["tool"] = Tail(@), !["daemon"] = Append(@, Urb("RET"))]
      <4>1. /\ Len(to["tool"]) \in Nat \ {0} /\ Len(to'["tool"]) = Len(to["tool"]) - 1
            /\ \A i \in 1 .. Len(to'["tool"]) : to'["tool"][i] = to["tool"][i + 1]
        BY <1>0, <3>2, Sent, Answers DEF StreamsTyped
      <4> QED BY <2>0, <4>1 DEF NoSuccess
    <3> QED BY <1>0, <2>9, <3>1, <3>2 DEF StubRecv
  <2>10. CASE Cut
    BY <1>0, <2>1, <2>10 DEF Cut
  <2> QED BY <2>3, <2>4, <2>5, <2>6, <2>7, <2>8, <2>9, <2>10
<1> QED BY <1>4, <1>5, <1>6, <1>7 DEF ExportInv, NoSuccess

\* Every step of an import, an export or a list keeps the invariant.
LEMMA AttachInvStep == AttachInv /\ [AttachNext]_attachVars => AttachInv'
<1> SUFFICES ASSUME AttachInv, [AttachNext]_attachVars PROVE AttachInv'
  OBVIOUS
<1>1. StreamsTyped /\ StreamsTyped'
  BY StreamsStep DEF AttachInv
<1>2. CASE UNCHANGED attachVars
  BY <1>1, <1>2 DEF attachVars, AttachInv, ImportInv, ExportInv, RequestRead, AnswerLast, PhaseOfStreams, Only
<1>3. CASE AttachNext
  <2> USE DEF AttachNext, ToolStep, ChildStep, VhciStep, StubStep
  <2>1. flow' = flow /\ (tool' = "failed" => bound' = FALSE)
    <3>1. CASE tool = "failed"
      BY <1>3, <3>1 DEF AttachInv, ToolBind, ToolOpen, ToolRequest, ToolReply, ToolBody, ToolDevices, ToolAttach,
         ToolRecord, ToolStart, ToolClose, ToolKilled, ChildRecvOp, ChildRecvBody, ChildExport,
         ChildImport, ChildRecord, ChildRefuse, ChildAnswer, ChildMore, ChildClose, VhciSend, VhciRecv,
         VhciShutdown, StubRecv, StubShutdown, Cut
    <3>2. CASE tool # "failed"
      BY <1>3, <3>2 DEF ToolBind, ToolOpen, ToolRequest, ToolReply, ToolBody, ToolDevices, ToolAttach,
         ToolRecord, ToolStart, ToolClose, ToolKilled, ChildRecvOp, ChildRecvBody, ChildExport,
         ChildImport, ChildRecord, ChildRefuse, ChildAnswer, ChildMore, ChildClose, VhciSend, VhciRecv,
         VhciShutdown, StubRecv, StubShutdown, Cut
    <3> QED BY <3>1, <3>2
  <2>2. ImportInv'
    BY <1>1, <1>3, <2>1, ImportStep DEF AttachInv, ImportInv
  <2>3. ExportInv'
    <3>1. CASE flow = "export"
      BY <1>1, <1>3, <3>1, ExportStep DEF AttachInv
    <3>2. CASE flow # "export"
      BY <2>1, <3>2 DEF ExportInv
    <3> QED BY <3>1, <3>2
  <2> QED BY <1>1, <2>1, <2>2, <2>3 DEF AttachInv
<1> QED BY <1>2, <1>3

\* No connection and nothing bound when a command starts.
LEMMA AttachInitially == AttachInit => AttachInv
<1> SUFFICES ASSUME AttachInit PROVE AttachInv
  OBVIOUS
<1>1. to["tool"] = <<>> /\ to["daemon"] = <<>> /\ to \in [End -> Seq(Message)]
  BY DEF AttachInit, End
<1>2. StreamsTyped
  BY <1>1, AttachAssumption DEF AttachInit, AttachAssumption, StreamsTyped
<1>3. ImportInv
  BY <1>1 DEF AttachInit, ImportInv, RequestRead, AnswerLast, PhaseOfStreams, Only
<1>4. ExportInv
  BY <1>1 DEF AttachInit, ExportInv
<1> QED BY <1>2, <1>3, <1>4 DEF AttachInit, AttachInv

\* usbip attach and usbip connect report success only when both drivers were given the
\* socket, and usbip connect leaves no device bound when it reports an error, whatever
\* the child, the drivers and the network do meanwhile.
THEOREM CommandsTellTheTruth == AttachSpec => []OutcomeIsTrue
<1>1. AttachInv => OutcomeIsTrue
  BY DEF AttachInv, StreamsTyped, ImportInv, AnswerLast, ExportInv, OutcomeIsTrue
<1> QED BY <1>1, AttachInitially, AttachInvStep, PTL DEF AttachSpec

\* In an import neither process ever reads a PDU of the URB phase and neither driver ever
\* reads a message of the handshake.
THEOREM ImportPhasesSeparate == AttachSpec => []ImportStreamsSeparate
<1>1. ASSUME AttachInv PROVE ImportStreamsSeparate
  <2> SUFFICES ASSUME flow = "import", NEW e \in End, to[e] # <<>>
               PROVE  (Head(to[e]).kind = "urb") <=> (Reader(e) = "driver")
    BY DEF ImportStreamsSeparate
  <2>1. to[e] \in Seq(Message) /\ PhaseOfStreams /\ AppEnd = "tool" /\ (e = "tool" \/ e = "daemon")
    BY <1>1 DEF AttachInv, StreamsTyped, ImportInv, AppEnd, End
  <2>2. Head(to[e]) = to[e][1] /\ 1 \in 1 .. Len(to[e])
    BY <2>1, HeadTailProperties, EmptySeq, LenProperties
  <2>3. CASE vhci = "free"
    BY <2>1, <2>2, <2>3 DEF PhaseOfStreams, Only, Reader
  <2>4. CASE vhci # "free"
    BY <2>1, <2>2, <2>4 DEF PhaseOfStreams, Only, Reader
  <2> QED BY <2>3, <2>4
<1> QED BY <1>1, AttachInitially, AttachInvStep, PTL DEF AttachSpec

===============================================================================
