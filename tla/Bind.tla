--------------------------------- MODULE Bind ---------------------------------
(***************************************************************************)
(* How a local device gets to usbip_host and back: the commands usbip bind *)
(* and usbip unbind, the table of bus ids they write through match_busid,  *)
(* stub_probe and stub_disconnect, and the event worker stub_disconnect    *)
(* waits for before it frees the stub device.  Devices may be unplugged    *)
(* and plugged at any time.  The connection of an exported device is       *)
(* module Stub's; here it is its threads, started one after the other and  *)
(* running until the worker's shutdown stops them, one after the other.    *)
(***************************************************************************)
EXTENDS Naturals, FiniteSets, UsbipEvent

CONSTANTS
    Busid,      \* the bus ids devices are plugged at
    MAX_BUSID,  \* the slots of busid_table
    User,       \* the users that run a command
    MaxRuns,    \* bound: commands run
    MaxPlugs,   \* bound: times a device is plugged again
    MaxConns,   \* bound: connections to the devices
    BindFaults  \* what may fail: "probe", "release", "unbind", "reset", or end
                \* the wait of a process: "signal"

ASSUME BindAssumption ==
    /\ MAX_BUSID \in Nat \ {0} /\ MaxRuns \in Nat /\ MaxPlugs \in Nat /\ MaxConns \in Nat
    /\ BindFaults \subseteq {"probe", "release", "unbind", "reset", "signal"}

VARIABLES
    present,  \* present[b]: a device is plugged at b
    driver,   \* driver[b]: its driver, "none", "other" or "usbip-host"
    entry,    \* entry[b]: the status of b's slot of busid_table, or "none"
    sdev,     \* sdev[b]: the status of the stub device, or "none"
    files,    \* files[b]: usbip_sockfd is there ("up") or not ("none"), or the
              \* step the write to it is at
    threads,  \* threads[b]: which of stub_rx and stub_tx of the stub device run
    missed,   \* history, missed[b]: those that the last shutdown did not find,
              \* as they were started behind it
    interrupted, \* history: bus ids whose stub device was freed after a signal
    sevent,   \* sevent[b]: the event word of the stub device
    worker,   \* event_handler: the device it works on and the step it is at
    disc,     \* disc[b]: the step stub_disconnect is at, and who called it
    cmd,      \* cmd[u]: the command user u runs, its bus id and its step
    runs,     \* commands run
    plugs,    \* devices plugged again
    conns,    \* connections made
    orphans   \* bus ids whose stub device was left behind, connection and all

threadVars == <<threads, missed, interrupted>>
bindVars == <<present, driver, entry, sdev, files, threadVars, sevent, worker,
              disc, cmd, runs, plugs, conns, orphans>>

NoDisc == <<"no", "none">>
NoCmd  == <<"idle", "none">>
NoWork == <<"none", "idle">>

EVENT_REMOVED == {"SHUTDOWN", "BYE"}

BindInit ==
    /\ present = [b \in Busid |-> TRUE]
    /\ driver = [b \in Busid |-> "other"]
    /\ entry = [b \in Busid |-> "none"]
    /\ sdev = [b \in Busid |-> "none"]
    /\ files = [b \in Busid |-> "none"]
    /\ threads = [b \in Busid |-> {}] /\ missed = [b \in Busid |-> {}]
    /\ interrupted = {}
    /\ sevent = [b \in Busid |-> NoEvent]
    /\ worker = NoWork
    /\ disc = [b \in Busid |-> NoDisc]
    /\ cmd = [u \in User |-> NoCmd]
    /\ runs = 0
    /\ plugs = 0
    /\ conns = 0
    /\ orphans = {}

\* The kernel holds the device lock: a disconnection is under way, or the
\* event worker resets the device.
Locked(b) == disc[b] # NoDisc \/ worker = <<b, "reset">>

\* A write to usbip_sockfd is under way.
Writing(b) == files[b] \notin {"none", "up"}

\* sdev->ud.tcp_rx and tcp_tx are not NULL: store_sockfd has started the thread
\* and got to its next statement.
BoundTcpRx(b) == "rx" \in threads[b] /\ files[b] # "start_tx"
BoundTcpTx(b) == "tx" \in threads[b] /\ files[b] # "set_tx"

-----------------------------------------------------------------------------
(* busid_table, under busid_table_lock. *)

Slots == {b \in Busid : entry[b] # "none"}

\* add_match_busid: a known bus id is left as it is, whatever its status.
CanAdd(b)        == entry[b] # "none" \/ Cardinality(Slots) < MAX_BUSID
AddMatchBusid(b) == IF entry[b] = "none" THEN "ADDED" ELSE entry[b]

\* Mutant of DelMatchBusid: the slot is cleared whatever its status.
MutDelClears(st) == "none"

\* del_match_busid of a slot: a device that is bound keeps its slot until it
\* is disconnected, one that is only added keeps it for good.
DelMatchBusid(st) == CASE st = "OTHER" -> "none"
                       [] st \in {"ALLOC", "REMOV"} -> "REMOV"
                       [] OTHER -> st

-----------------------------------------------------------------------------
(* stub_probe and stub_disconnect. *)

\* stub_probe claims the device of an added bus id, unless the hub or sysfs
\* refuses.
Claims(b) == entry[b] \notin {"none", "REMOV", "OTHER"}
StubProbe(b, ok) ==
    IF Claims(b) /\ ok
    THEN /\ driver' = [driver EXCEPT ![b] = "usbip-host"]
         /\ entry' = [entry EXCEPT ![b] = "ALLOC"]
         /\ sdev' = [sdev EXCEPT ![b] = "AVAILABLE"]
         /\ files' = [files EXCEPT ![b] = "up"]
         /\ threads' = [threads EXCEPT ![b] = {}]
         /\ missed' = [missed EXCEPT ![b] = {}]
         /\ interrupted' = interrupted \ {b}
         /\ sevent' = [sevent EXCEPT ![b] = NoEvent]
    ELSE UNCHANGED <<driver, entry, sdev, files, threadVars, sevent>>

\* The stub device of b leaves the table: freed, or never freed.  The worker
\* and the event word have nothing more to do with the devices at b.
DropSdev(b) ==
    /\ sdev' = [sdev EXCEPT ![b] = "none"]
    /\ sevent' = [sevent EXCEPT ![b] = NoEvent]
    /\ worker' = IF worker[1] = b THEN NoWork ELSE worker

\* stub_disconnect up to shutdown_busid: the sysfs files go once nobody
\* writes them, then the port is released.
DiscFiles(b) ==
    /\ disc[b][1] = "files" /\ ~Writing(b)
    /\ files' = [files EXCEPT ![b] = "none"]
    /\ disc' = [disc EXCEPT ![b][1] = "shutdown"]
    /\ UNCHANGED <<present, driver, entry, sdev, threadVars, sevent, worker, cmd,
                   runs, plugs, conns, orphans>>

\* When the hub refuses to release the port, stub_disconnect returns: the stub
\* device and its connection are left behind, without an owner.
DiscNoRelease(b) ==
    /\ "release" \in BindFaults
    /\ disc[b][1] = "files" /\ ~Writing(b)
    /\ files' = [files EXCEPT ![b] = "none"]
    /\ threads' = [threads EXCEPT ![b] = {}]
    /\ orphans' = orphans \cup {b}
    /\ disc' = [disc EXCEPT ![b][1] = "done"]
    /\ DropSdev(b)
    /\ UNCHANGED <<present, driver, entry, missed, interrupted, cmd, runs, plugs, conns>>

\* shutdown_busid raises SDEV_EVENT_REMOVED and waits in usbip_stop_eh.
DiscShutdown(b) ==
    /\ disc[b][1] = "shutdown"
    /\ sevent' = [sevent EXCEPT ![b] = EventAdd(@, EVENT_REMOVED)]
    /\ disc' = [disc EXCEPT ![b][1] = "wait"]
    /\ UNCHANGED <<present, driver, entry, sdev, files, threadVars, worker, cmd,
                   runs, plugs, conns, orphans>>

Free(b) ==
    /\ DropSdev(b)
    /\ disc' = [disc EXCEPT ![b][1] = "status"]
    /\ UNCHANGED <<present, driver, entry, files, threads, missed, cmd, runs, plugs,
                   conns, orphans>>

\* Mutant of DiscFree: the stub device is freed without waiting.
MutNoStopEh(b) == disc[b][1] = "wait" /\ Free(b) /\ UNCHANGED interrupted

\* usbip_stop_eh returns when no event but BYE is left, and the stub device
\* is freed.  A node of the event list that still points at it, or the worker
\* that is about to wake the waiters up, dangles from here on: the freed memory
\* holds no event, and the worker does nothing more with it.
DiscFree(b) ==
    /\ disc[b][1] = "wait"
    /\ sevent[b].bits \subseteq {"BYE"}
    /\ Free(b)
    /\ UNCHANGED interrupted

\* The wait is wait_event_interruptible and nobody looks at its result: a signal
\* to the process that writes unbind ends it, whatever the worker is doing.  (An
\* unplugged device is disconnected by the hub's thread, which gets no signals.)
DiscInterrupted(b) ==
    /\ "signal" \in BindFaults
    /\ disc[b] = <<"wait", "unbind">>
    /\ Free(b)
    /\ interrupted' = interrupted \cup {b}

\* The slot goes back to ADDED, or, after a "del", is given up.
DiscStatus(b) ==
    /\ disc[b][1] = "status"
    /\ entry' = [entry EXCEPT ![b] = IF @ = "ALLOC" THEN "ADDED" ELSE "OTHER"]
    /\ disc' = [disc EXCEPT ![b][1] = IF entry[b] = "ALLOC" THEN "done" ELSE "del"]
    /\ UNCHANGED <<present, driver, sdev, files, threadVars, sevent, worker, cmd,
                   runs, plugs, conns, orphans>>

DiscDel(b) ==
    /\ disc[b][1] = "del"
    /\ entry' = [entry EXCEPT ![b] = DelMatchBusid(@)]
    /\ disc' = [disc EXCEPT ![b][1] = "done"]
    /\ UNCHANGED <<present, driver, sdev, files, threadVars, sevent, worker, cmd,
                   runs, plugs, conns, orphans>>

\* The driver core: the device has no driver any more, or is gone.
DiscDone(b) ==
    /\ disc[b][1] = "done"
    /\ driver' = [driver EXCEPT ![b] = "none"]
    /\ present' = [present EXCEPT ![b] = disc[b][2] # "unplug"]
    /\ disc' = [disc EXCEPT ![b] = NoDisc]
    /\ UNCHANGED <<entry, sdev, files, threadVars, sevent, worker, cmd, runs,
                   plugs, conns, orphans>>

-----------------------------------------------------------------------------
(* The event worker. *)

Handles(b, bit) == bit \in sevent[b].bits

\* event_handler looks at the bits one by one, in this order.
NextStep(b, from) ==
    IF from = "pop" /\ Handles(b, "SHUTDOWN") THEN "shutdown"
    ELSE IF from # "unset_reset" /\ Handles(b, "RESET") THEN "lock"
    ELSE IF Handles(b, "UNUSABLE") THEN "unusable" ELSE "wake"

EhPop(b) ==
    /\ worker = NoWork /\ sevent[b].queued
    /\ sevent' = [sevent EXCEPT ![b] = GetEvent(@)]
    /\ worker' = <<b, NextStep(b, "pop")>>
    /\ UNCHANGED <<present, driver, entry, sdev, files, threadVars, disc, cmd,
                   runs, plugs, conns, orphans>>

\* stub_shutdown_connection stops the thread that tcp_rx points to ...
EhShutdown ==
    /\ worker[2] = "shutdown"
    /\ LET b == worker[1] IN
        /\ threads' = [threads EXCEPT ![b] = IF BoundTcpRx(b) THEN @ \ {"rx"} ELSE @]
        /\ missed' = [missed EXCEPT ![b] =
                         IF files[b] \in {"start_rx", "start_tx"} THEN @ \cup {"rx"}
                         ELSE @ \ {"rx"}]
    /\ worker' = [worker EXCEPT ![2] = "stop_tx"]
    /\ UNCHANGED <<present, driver, entry, sdev, files, interrupted, sevent, disc, cmd,
                   runs, plugs, conns, orphans>>

\* ... and the one that tcp_tx points to.
EhStopTx ==
    /\ worker[2] = "stop_tx"
    /\ LET b == worker[1] IN
        /\ threads' = [threads EXCEPT ![b] = IF BoundTcpTx(b) THEN @ \ {"tx"} ELSE @]
        /\ missed' = [missed EXCEPT ![b] =
                         IF files[b] \in {"start_rx", "start_tx", "set_tx"} THEN @ \cup {"tx"}
                         ELSE @ \ {"tx"}]
    /\ worker' = [worker EXCEPT ![2] = "unset"]
    /\ UNCHANGED <<present, driver, entry, sdev, files, interrupted, sevent, disc, cmd,
                   runs, plugs, conns, orphans>>

EhUnsetShutdown ==
    /\ worker[2] = "unset"
    /\ sevent' = [sevent EXCEPT ![worker[1]] = UnsetEvent(@, "SHUTDOWN")]
    /\ worker' = [worker EXCEPT ![2] = NextStep(worker[1], "unset")]
    /\ UNCHANGED <<present, driver, entry, sdev, files, threadVars, disc, cmd,
                   runs, plugs, conns, orphans>>

\* Mutant of EhLock: the worker waits for the device lock.
MutLockForReset ==
    /\ worker[2] = "lock" /\ ~Locked(worker[1])
    /\ worker' = [worker EXCEPT ![2] = "reset"]
    /\ UNCHANGED <<present, driver, entry, sdev, files, threadVars, sevent, disc,
                   cmd, runs, plugs, conns, orphans>>

\* usb_lock_device_for_reset gives up after a second when somebody else holds
\* the device, or at once when the device is gone.
EhLock ==
    /\ worker[2] = "lock"
    /\ LET b == worker[1] IN
        IF Locked(b) \/ ~present[b]
        THEN /\ sdev' = [sdev EXCEPT ![b] = "ERROR"]
             /\ worker' = [worker EXCEPT ![2] = "unset_reset"]
        ELSE /\ worker' = [worker EXCEPT ![2] = "reset"]
             /\ UNCHANGED sdev
    /\ UNCHANGED <<present, driver, entry, files, threadVars, sevent, disc, cmd,
                   runs, plugs, conns, orphans>>

\* usb_reset_device, and the lock is released.
EhReset ==
    /\ worker[2] = "reset"
    /\ \E ok \in {TRUE} \cup {"reset" \notin BindFaults} :
        sdev' = [sdev EXCEPT ![worker[1]] = IF ok THEN "AVAILABLE" ELSE "ERROR"]
    /\ worker' = [worker EXCEPT ![2] = "unset_reset"]
    /\ UNCHANGED <<present, driver, entry, files, threadVars, sevent, disc, cmd,
                   runs, plugs, conns, orphans>>

EhUnsetReset ==
    /\ worker[2] = "unset_reset"
    /\ sevent' = [sevent EXCEPT ![worker[1]] = UnsetEvent(@, "RESET")]
    /\ worker' = [worker EXCEPT ![2] = NextStep(worker[1], "unset_reset")]
    /\ UNCHANGED <<present, driver, entry, sdev, files, threadVars, disc, cmd,
                   runs, plugs, conns, orphans>>

\* stub_device_unusable.
EhUnusable ==
    /\ worker[2] = "unusable"
    /\ sdev' = [sdev EXCEPT ![worker[1]] = "ERROR"]
    /\ sevent' = [sevent EXCEPT ![worker[1]] = UnsetEvent(@, "UNUSABLE")]
    /\ worker' = [worker EXCEPT ![2] = "wake"]
    /\ UNCHANGED <<present, driver, entry, files, threadVars, disc, cmd, runs,
                   plugs, conns, orphans>>

EhWake ==
    /\ worker[2] = "wake"
    /\ worker' = NoWork
    /\ UNCHANGED <<present, driver, entry, sdev, files, threadVars, sevent, disc,
                   cmd, runs, plugs, conns, orphans>>

-----------------------------------------------------------------------------
(* The exported device. *)

\* usbip_generic_export_device and store_sockfd: an available device takes the
\* socket.  A shutdown under way will not find the threads it has looked for.
StoreSockfd(b) ==
    /\ files[b] = "up" /\ sdev[b] = "AVAILABLE" /\ conns < MaxConns
    /\ conns' = conns + 1
    /\ files' = [files EXCEPT ![b] = "start_rx"]
    /\ missed' = [missed EXCEPT ![b] = CASE worker = <<b, "stop_tx">> -> {"rx"}
                                        [] worker = <<b, "unset">> -> {"rx", "tx"}
                                        [] OTHER -> {}]
    /\ UNCHANGED <<present, driver, entry, sdev, threads, interrupted, sevent, worker,
                   disc, cmd, runs, plugs, orphans>>

\* The two threads start one after the other, before the status says so.
StartThread(b, step, thread, next) ==
    /\ files[b] = step
    /\ files' = [files EXCEPT ![b] = next]
    /\ threads' = [threads EXCEPT ![b] = @ \cup {thread}]
    /\ UNCHANGED <<present, driver, entry, sdev, missed, interrupted, sevent, worker,
                   disc, cmd, runs, plugs, conns, orphans>>
StartRx(b) == StartThread(b, "start_rx", "rx", "start_tx")
StartTx(b) == StartThread(b, "start_tx", "tx", "set_tx")

SetTx(b) ==
    /\ files[b] = "set_tx"
    /\ files' = [files EXCEPT ![b] = "used"]
    /\ UNCHANGED <<present, driver, entry, sdev, threadVars, sevent, worker, disc, cmd,
                   runs, plugs, conns, orphans>>

StoreUsed(b) ==
    /\ files[b] = "used"
    /\ files' = [files EXCEPT ![b] = "up"]
    /\ sdev' = [sdev EXCEPT ![b] = "USED"]
    /\ UNCHANGED <<present, driver, entry, threadVars, sevent, worker, disc, cmd,
                   runs, plugs, conns, orphans>>

\* A thread of the connection meets an error and raises its event.
ConnectionFails(b, mask) ==
    /\ threads[b] # {} /\ sdev[b] # "none"
    /\ sevent' = [sevent EXCEPT ![b] = EventAdd(@, mask)]
    /\ UNCHANGED <<present, driver, entry, sdev, files, threadVars, worker, disc,
                   cmd, runs, plugs, conns, orphans>>

-----------------------------------------------------------------------------
(* usbip bind and usbip unbind. *)

At(u, step) == cmd[u][1] = step
To(u, step) == cmd' = [cmd EXCEPT ![u] = IF step = "idle" THEN NoCmd
                                         ELSE <<step, cmd[u][2]>>]

\* usbip_generic_bind_device and usbip_generic_unbind_device find the device,
\* and look at its driver.
UserRuns(u, b, op) ==
    /\ cmd[u] = NoCmd /\ runs < MaxRuns
    /\ runs' = runs + 1
    /\ cmd' = [cmd EXCEPT ![u] =
                IF ~present[b] THEN NoCmd
                ELSE CASE op = "bind" /\ driver[b] = "none" -> <<"add", b>>
                       [] op = "bind" /\ driver[b] = "other" -> <<"unbind_other", b>>
                       [] op = "unbind" /\ driver[b] = "usbip-host" -> <<"unbind", b>>
                       [] OTHER -> NoCmd]
    /\ UNCHANGED <<present, driver, entry, sdev, files, threadVars, sevent,
                   worker, disc, plugs, conns, orphans>>

\* unbind_other writes the name of the device to the driver it saw; the driver
\* core refuses when the device has another one by now.
UnbindOther(u) ==
    LET b == cmd[u][2] IN
    /\ At(u, "unbind_other") /\ ~Locked(b)
    /\ \E ok \in {TRUE} \cup {"unbind" \notin BindFaults} :
        IF ok /\ driver[b] = "other"
        THEN driver' = [driver EXCEPT ![b] = "none"] /\ To(u, "add")
        ELSE UNCHANGED driver /\ To(u, "idle")
    /\ UNCHANGED <<present, entry, sdev, files, threadVars, sevent, worker, disc,
                   runs, plugs, conns, orphans>>

\* modify_match_busid with "add".
BindAdd(u) ==
    LET b == cmd[u][2] IN
    /\ At(u, "add")
    /\ IF CanAdd(b)
       THEN entry' = [entry EXCEPT ![b] = AddMatchBusid(b)] /\ To(u, "bind")
       ELSE UNCHANGED entry /\ To(u, "idle")
    /\ UNCHANGED <<present, driver, sdev, files, threadVars, sevent, worker, disc,
                   runs, plugs, conns, orphans>>

\* bind_usbip: the driver core probes a device that has no driver.
BindUsbip(u) ==
    LET b == cmd[u][2] IN
    /\ At(u, "bind") /\ ~Locked(b)
    /\ \E ok \in {TRUE} \cup {"probe" \notin BindFaults} :
        LET probed == present[b] /\ driver[b] = "none" IN
        /\ StubProbe(b, ok /\ probed)
        /\ To(u, IF probed /\ ok /\ Claims(b) THEN "idle" ELSE "bind_del")
    /\ UNCHANGED <<present, worker, disc, runs, plugs, conns, orphans>>

\* modify_match_busid with "del", after a bind that failed or an unbind.
UserDel(u) ==
    LET b == cmd[u][2] IN
    /\ cmd[u][1] \in {"bind_del", "unbind_del"}
    /\ entry' = [entry EXCEPT ![b] = DelMatchBusid(@)]
    /\ To(u, IF At(u, "unbind_del") /\ entry[b] # "none" THEN "rebind" ELSE "idle")
    /\ UNCHANGED <<present, driver, sdev, files, threadVars, sevent, worker, disc,
                   runs, plugs, conns, orphans>>

\* The write to usbip-host's unbind: stub_disconnect runs in the writer.
UnbindUsbip(u) ==
    LET b == cmd[u][2] IN
    /\ At(u, "unbind") /\ ~Locked(b)
    /\ IF driver[b] = "usbip-host"
       THEN /\ disc' = [disc EXCEPT ![b] = <<"files", "unbind">>]
            /\ To(u, "unbound")
       ELSE UNCHANGED disc /\ To(u, "idle")
    /\ UNCHANGED <<present, driver, entry, sdev, files, threadVars, sevent,
                   worker, runs, plugs, conns, orphans>>

UnbindReturns(u) ==
    /\ At(u, "unbound") /\ disc[cmd[u][2]] = NoDisc
    /\ To(u, "unbind_del")
    /\ UNCHANGED <<present, driver, entry, sdev, files, threadVars, sevent,
                   worker, disc, runs, plugs, conns, orphans>>

\* rebind_store: device_attach gives the device to the first driver that takes
\* it, usbcore's own.
Rebind(u) ==
    LET b == cmd[u][2] IN
    /\ At(u, "rebind") /\ ~Locked(b)
    /\ driver' = IF entry[b] # "none" /\ present[b] /\ driver[b] = "none"
                 THEN [driver EXCEPT ![b] = "other"] ELSE driver
    /\ To(u, "idle")
    /\ UNCHANGED <<present, entry, sdev, files, threadVars, sevent, worker, disc,
                   runs, plugs, conns, orphans>>

-----------------------------------------------------------------------------
(* Plugging. *)

Unplug(b) ==
    /\ present[b] /\ ~Locked(b)
    /\ IF driver[b] = "usbip-host"
       THEN /\ disc' = [disc EXCEPT ![b] = <<"files", "unplug">>]
            /\ UNCHANGED <<present, driver>>
       ELSE /\ present' = [present EXCEPT ![b] = FALSE]
            /\ driver' = [driver EXCEPT ![b] = "none"]
            /\ UNCHANGED disc
    /\ UNCHANGED <<entry, sdev, files, threadVars, sevent, worker, cmd, runs,
                   plugs, conns, orphans>>

Plug(b) ==
    /\ ~present[b] /\ plugs < MaxPlugs
    /\ plugs' = plugs + 1
    /\ present' = [present EXCEPT ![b] = TRUE]
    /\ driver' = [driver EXCEPT ![b] = "other"]
    /\ UNCHANGED <<entry, sdev, files, threadVars, sevent, worker, disc, cmd,
                   runs, conns, orphans>>

-----------------------------------------------------------------------------
DiscStep(b) ==
    \/ DiscFiles(b) \/ DiscNoRelease(b) \/ DiscShutdown(b) \/ DiscFree(b)
    \/ DiscInterrupted(b) \/ DiscStatus(b) \/ DiscDel(b) \/ DiscDone(b)
EhStep ==
    \/ \E b \in Busid : EhPop(b)
    \/ EhShutdown \/ EhStopTx \/ EhUnsetShutdown \/ EhLock \/ EhReset \/ EhUnsetReset
    \/ EhUnusable \/ EhWake
UserStep(u) ==
    \/ UnbindOther(u) \/ BindAdd(u) \/ BindUsbip(u) \/ UserDel(u)
    \/ UnbindUsbip(u) \/ UnbindReturns(u) \/ Rebind(u)

StoreGoesOn(b) == StartRx(b) \/ StartTx(b) \/ SetTx(b) \/ StoreUsed(b)

BindProgress ==
    \/ EhStep
    \/ \E b \in Busid : DiscStep(b) \/ StoreGoesOn(b)
    \/ \E u \in User : UserStep(u)

BindNext ==
    \/ BindProgress
    \/ \E b \in Busid :
        \/ StoreSockfd(b) \/ Unplug(b) \/ Plug(b)
        \/ \E mask \in {EVENT_DOWN, EVENT_ERROR_MALLOC} : ConnectionFails(b, mask)
    \/ \E u \in User, b \in Busid, op \in {"bind", "unbind"} : UserRuns(u, b, op)

\* Processes and the worker are scheduled, and the device lock is a mutex with
\* a queue.  Commands, connections and pluggings are finitely many, errors of a
\* connection are not: a write to usbip_sockfd goes on beside them.
BindFairness ==
    /\ WF_bindVars(BindProgress)
    /\ WF_bindVars(\E b \in Busid : StoreGoesOn(b))
BindSpec == BindInit /\ [][BindNext]_bindVars /\ BindFairness

-----------------------------------------------------------------------------
(* Properties. *)

\* A stub device is freed only when the threads of its connection are stopped:
\* whatever the worker is doing when stub_disconnect raises its event, the wait
\* in usbip_stop_eh ends after a shutdown of the connection.  Two exceptions: a
\* signal ended the wait, and threads that a shutdown did not find, as they were
\* started behind it (store_sockfd starts them apart and without a lock, and the
\* unset_event of that shutdown clears stub_disconnect's).
SdevOutlivesThreads ==
    \A b \in Busid :
        sdev[b] = "none" => threads[b] \subseteq missed[b] \/ b \in interrupted

\* A device that usbip-host drives has a slot of the table, through whatever
\* adds, deletes and failed binds of other users: stub_disconnect calls BUG()
\* when it finds none.
DisconnectFindsEntry ==
    \A b \in Busid :
        driver[b] = "usbip-host" /\ disc[b][1] \notin {"del", "done"} =>
            entry[b] \in {"ALLOC", "REMOV"} \/ disc[b][1] = "status"

\* Every bind, unbind and unplug comes to its end, although stub_disconnect
\* waits for the event worker with the device locked, and the worker needs the
\* device lock for a reset.
BindEnds ==
    /\ \A u \in User : cmd[u] # NoCmd ~> cmd[u] = NoCmd
    /\ \A b \in Busid : disc[b] # NoDisc ~> disc[b] = NoDisc

===============================================================================
