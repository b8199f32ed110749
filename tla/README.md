# USB/IP in TLA+

A verification project for the USB/IP drivers and tools of this repository: TLA+
modules of their control, TLC configurations that check them on small instances,
and TLAPS proofs of what holds for every instance. `PROJECT.json` is the index:
components, runs, mutants, the map from definitions to source lines, findings,
hazards and theorems.

USB/IP lets a *client* use a USB device plugged into a *server*. On the client
the driver **vhci_hcd** is a host controller without hardware: URBs that the USB
core hands to it become requests on a TCP connection. On the server the driver
**usbip-host (stub)** turns requests into URBs for the real host controller and
sends the results back; **vudc** answers them from a gadget driver instead, and
the **libusb stub** is a portable server in a process. Commands and daemons set
up the connection and hand its socket to both kernels, or serve the kernels
themselves through **usbip_ux**.

    driver -> usbcore -> vhci -- CMD_SUBMIT, CMD_UNLINK --> stub -> usbcore -> device
                             <-- RET_SUBMIT, RET_UNLINK --

## Inventory

| Component | State | Operations | Interacts with | Module |
|---|---|---|---|---|
| vhci URB path: `vhci_hcd.c`, `vhci_rx.c`, `vhci_tx.c` | `seqnum`; lists `priv_tx`, `priv_rx`, `unlink_tx`, `unlink_rx`; `urb->hcpriv`; threads | enqueue, dequeue, send, receive, giveback, shutdown, reset, unusable | USB core (calls and givebacks), event worker, connection | `Vhci` |
| vhci files: `vhci_sysfs.c` | `ud.status`, `tcp_socket` | attach, detach, status | userland, root hub | `Vhci`, `VhciPorts` |
| vhci root hub: `vhci_hcd.c` | `port_status` | `rh_port_connect`/`disconnect`, `hub_control` | hub driver | connect bits in `Vhci` |
| vhci controllers and ports pool: `vhci_hcd.c` | `vhci_pdevs`, `using_ports`, `using_port` | get, put, probe, remove | attach, reset | `VhciPorts` |
| event handler: `usbip_event.c` | `ud->event`, `event_list` | add, pop, handle, stop | everything | `UsbipEvent`; the worker in `Vhci`, `Stub`, `Vudc`, and for several devices in `Bind` |
| stub URB path: `stub_rx.c`, `stub_tx.c`, `stub_main.c` | `priv_init`, `priv_tx`, `priv_free`, `unlink_tx`; threads | submit, unlink, complete, send, cleanup | host controller (completion callback), event worker, connection | `Stub` |
| stub device: `stub_dev.c` | `ud.status`, `tcp_socket` | `usbip_sockfd`, probe, disconnect | userland, USB core | `Stub`, `Bind` |
| bus id table: `stub_main.c` | `busid_table` | add, del, rebind | probe, disconnect | `Bind` |
| protocol: `usbip_common.[ch]`, `usbip_network.[ch]` | bytes in flight | send, receive, pack | both ends | `UsbipNet` (four PDUs), `Payload` (byte order), `Attach` (OP_*) |
| buffers and isochronous data: `usbip_common.c` | - | pack, unpack, send, pad | both ends | `Payload` |
| usbip_ux: `usbip_ux.c`, `libsrc/usbip_ux.c` | tx and rx request, reference count | `sendmsg`, `recvmsg`, read, write, ioctls, link, unlink | replaces kernel sockets | `UsbipUx`, implements `ByteStream` |
| vudc: `vudc_*.c` | endpoints, `urb_queue`, `tx_queue`, transfer timer | as the stub, from a gadget | gadget driver, event worker, connection | `Vudc`, `VudcTransfer` |
| commands and daemons: `tools/usb/usbip/src` | sockets, forked children | attach, connect, list, bind, unbind | driver files, network | `Attach`, `VhciPorts`, `Bind`; order of the hand-over in `Usbip` |
| libusb stub: `tools/usb/usbip/libusb` | as the stub, with pthreads | as the stub | libusb | `LibusbStub` |

What is hard in this code:

* **Concurrency.** Each end has a receiving thread, a sending thread, the USB
  core's calls or completion callbacks, a worker that tears connections down and
  userland writing to files. Most state is under `priv_lock`, but not all:
  `urb->hcpriv` and `tcp_socket` are read without it, and locks are dropped around
  callbacks.
* **Cancellation.** A URB can end by its result, by the result of its unlink
  request, by a dequeue after the connection is gone, and by the cleanup.
  Results and cancellations cross on the wire.
* **Teardown.** It must stop threads that block on the socket or sleep, release
  the socket after them, free what they used, and let the USB core take back what
  is left, while requests, completions and new events keep arriving.
* **Start.** Both kernels take the socket under a lock and then, without it, start
  the two threads and store their pointers one by one. The connection may end, and
  the worker tear it down, between any two of these steps; a thread whose pointer is
  not stored yet is none to the worker.
* **Reconnection.** A port or device is free for the next connection while parts
  of the last one (old `vhci_priv`, queued event nodes) are still around.
* **Hand-over.** One connection is read first by two processes and then by two
  drivers. Either process may fail or be killed between any two steps, and a
  driver that holds the socket keeps the connection alive.
* **Removal.** A device may be unplugged or unbound while it is exported; who
  frees its memory waits for a worker that other devices share.
* **Lengths.** Buffers are sent without what was not transferred, isochronous
  buffers without their gaps, and the two ends compute the lengths independently.

What makes each part correct: *client* - every URB accepted is given back exactly
once, `hcpriv` never dangles, an answer matches one request, the socket outlives the
threads; *server* - a URB in the hardware always has its `stub_priv`, a free device is
clean; *both* - no request is lost or answered twice while the
connection works, a cancelled URB has left the device before its driver hears of
it, the data arrives where it belongs, results are delivered, teardowns end;
*transport* - a byte stream each way; *tools* - both drivers get the connection
or neither keeps it, what a command reports is what happened, a device that
usbip-host drives can be let go.

## Modules

* `UsbipEvent` - the event word and its node on `event_list`: `usbip_event_add`,
  `get_event`, `unset_event`, `usbip_event_happened`, as operators on a record.
  Two details matter: an event added while a node is queued adds none, and bits
  are cleared one by one by the worker, so a node can outlive its bits.
* `UsbipNet` - one TCP connection: two FIFO streams of PDUs, open or down.
  `CONSTANT Faults` says what may go wrong around the drivers (loss of the
  connection, failing allocations, a payload cut short, receive timeouts,
  a refused submission, a failing reset, an unbound gadget). TCP is external.
* `Vhci` - one port of the client, with the part of the USB core that drives it
  (external): the root hub's change bit, enumeration up to `Set_Address`, the hub
  driver that disconnects a device and waits for its URBs. `attach` is where
  `store_attach` is: socket taken, `vhci_rx` started, `vhci_tx` started, pointers
  stored, port connected. `VhciSpec` is the client with an arbitrary peer.
* `Stub` - one exported device, with its host controller (external) as the set
  `hw` of URBs it owns; `sstore` is where `store_sockfd` is, in the same way.
* `Usbip` - composes `Vhci` and `Stub`, one connection at a time, with userland's
  two orders of handing the socket over: an *import* gives it to the stub first,
  an *export* to the vhci first. The turn of the second end comes when the write to
  the first end's file has returned (`Turn`).
* `Vudc` - a virtual device controller: `vudc_rx`, `vudc_tx`, the timer's sweep
  over `urb_queue` with the control requests it handles itself, `usbip_sockfd`,
  shutdown and reset, and the gadget driver (external) that queues, dequeues,
  halts, wedges and pulls down. `udc->lock` is dropped where `v_timer` calls
  `driver->setup`, and the sweep may come back to a URB that is gone.
* `VudcTransfer` - `transfer()` with its loop over the requests of an endpoint,
  against a reference, `Bus`, that moves one packet after another: what the sender
  has left, what the receiver has room for, and which of the two is done decide
  where the next packet goes. The reference knows none of `transfer()`'s shortcuts.
* `Payload` - one URB from client to device and back: header conversion between
  machines of either byte order, which part of the buffer is sent, isochronous
  descriptors, and the padding that puts packets back to their offsets in place.
  Each loop over the packets (the device's, `stub_send_ret_submit`'s gather and
  `usbip_recv_iso`'s and `usbip_pad_iso`'s) takes a step per packet; `starts` is a history
  variable with the sums that the device has run through.
* `ByteStream` - the abstract specification of a transport, one direction of it:
  bytes come out in the order they went in and, unless the connection is cut, all
  of them do.
* `UsbipUx` - the character device and the two threads of the tool that copy
  between it and the socket. `UxIsStream` is the refinement: `INSTANCE ByteStream`
  once per direction, with what is still in the kernel's vectors, in the request,
  in the user's buffer and in the socket as the mapping.
* `VhciPorts` - the pool of controllers: several `usbip attach` look for a free
  port in the status files, get it by `vhci_get_device`, write `attach` and try
  again on EBUSY, while connections fail and the worker puts ports. Controllers
  are made on demand and deleted when enough ports are free.
* `Attach` - the OP_* handshake of attach, connect and list with the daemon's
  child. State: bytes under way as messages, who holds which end of the
  connection (`held`), what each driver has, and the positions of command and
  child. A process may be killed and the connection cut between any two steps.
* `Bind` - the bus id table, `stub_probe` and `stub_disconnect`, the one event
  worker for all devices, and the commands bind and unbind as the sequence of
  their writes to sysfs, by several users, with devices plugged and unplugged.
  A connection is its two threads (`threads`), started one by one, and the errors
  they raise; the wait in `usbip_stop_eh` may be ended by a signal
  (`DiscInterrupted`), since its result is ignored.
* `LibusbStub` - the portable server's child: main, event handler, `stub_rx` and
  `stub_tx`, with completions delivered where `stub_tx` polls libusb.
* `MCVhci`, `MCStub`, `MCVudc`, `MCUsbip`, `MCUx`, `MCPorts` - instances for TLC.
  `MCVhci` has a peer that sends any answer to a number drawn so far and may close
  at any time; `MCStub` and `MCVudc` a client that sends requests with fresh
  numbers and unlinks of any request, made or yet to be made. `MCUsbip` bounds what
  happens before both files have the socket. `MCTools` and `MCPayload` put
  independent modules into one run: a behaviour is one of `Attach` or one of `Bind`,
  and one of `Payload` or one of `VudcTransfer`. Of `Bind` there are two sorts, "table"
  (several bus ids and users, no connections) and "sdev" (one bus id with
  connections, the commands of one user).
* `VhciProofs`, `PortsProofs`, `LibusbProofs`, `UxProofs`, `PayloadProofs` - the
  theorems about the module of that name. `VudcProofs` has those about `Vudc` and, at
  its end, `VudcTransfer`; `ToolsProofs` those about `Bind` and `Attach`; `UsbipProofs`
  extends `VhciProofs` and has those about `Stub` and then about the composition.

### How the code is represented

Grain of atomicity: a section under a spin lock is one step; a call that may
block (send, receive, `kthread_stop`) or a window between two locks separates
steps. `vhci.lock` is held across the two steps of `vhci_urb_dequeue`, and every
other user of it waits (`VhciLockFree`). `usbip_event_add` is one step. A
process of the tools takes one step per system call that others can see.

Threads are program counters: `vrx`, `vtx`, `srx`, `stx`, `tool`, `child` and so
on, and `veh`, `seh`, `eh` for the worker's position in `event_handler` and the
callback it runs. A sleeping thread is one whose condition is false and who has
not been woken. Where the code goes on with memory somebody else has freed, the
model ends the behaviour (`oops`) or takes the choice the code would make with
whatever it finds; properties speak of the state up to there.

A thread runs before its pointer (`tcp_rx`, `tcp_tx`) is stored. The pointers are no
variables: they follow from where the thread and the writer of the file are
(`TcpRx` in `Vhci`, `SdevTcpRx` in `Stub`, `BoundTcpRx` in `Bind`, and the same for
tx), and `kthread_stop` is called and waits only where the pointer is set. Three
history variables name the threads that a shutdown looked for and did not find
(`vmissed`, `smissed`, `missed`), a fourth the devices whose removal did not wait for
the worker (`interrupted`). A thread left behind like this goes on in the model as in
the code: `vhci_rx` gets an error from `usbip_recv`, which tests `tcp_socket` at its
start (`usbip_common.c:339`), `vhci_tx` dereferences NULL in `kernel_sendmsg` and ends
(`VhciTxOops`).

The client's lists are sets ordered by `seqnum`: numbers are drawn and entries
appended under one hold of `priv_lock`. The server's are sequences. Outside
`Payload` and `VudcTransfer` a URB's data is abstracted to the number of its
request; a result to `DONE` (the device's own result, any status) or
`ECONNRESET`. Data races are choices: a `vhci_priv` that was freed before its
`seqnum` is read yields its old number or one of `StaleReads`; `sendmsg` on a
connection the peer has lost may succeed or fail; a payload cut short is an error
(receive error) or, on the server, a submission without its data (orderly close,
`usbip_recv_xbuff` returns 0).

`MayFail(kind)`, and the corresponding constants of the other modules, guard
every failure branch, so that a run names the failures it contains. The branches
are those of the code: `EVENT_ERROR_MALLOC` for each allocation, `EVENT_DOWN` for
each socket error, and what each early return leaves behind.

## Runs

Deadlock is not checked: a system nobody uses is at rest, and so is one whose
bounds are used up.

| Run | Instance | Shows |
|---|---|---|
| `usbip_io` | both ends, 2 URBs (symmetric), 3 numbers, attach and export step by step, import and export; 1,281,000 states | `RequestsTracked`, `AnsweredOnce`: no request is lost or answered twice; `CancelledUrbStopped`: a cancelled URB is off the device before its driver hears of it |
| `usbip_live` | both ends, 1 URB and its unlink, loss of the connection, fair; 516,000 | `ResultDelivered` |
| `vhci` | client with an arbitrary peer, 1 URB, 2 numbers, 1 connection, 1 detach, every client fault, fair; 314,000 | `GivenBackOnce`, `PrivMatchesUrb`, `RequestNumbersUnique`, `UnlinksFlushed`, `SocketOutlivesThreads`, `VhciTypeOK`; `ClientTeardownEnds`, `ClientLetsGo` |
| `stub` | server with an arbitrary client, 3 requests, 1 connection, every server fault, fair; 440,000 | `HwUrbHasPriv`, `AvailableIsClean`, `StubTypeOK`; `ServerTeardownEnds`, `ServerLetsGo` |
| `vudc` | controller with one data endpoint, 2 requests, 1 act of the gadget driver or the daemon, every fault, fair; 364,000 | `TimerCoversQueue`, `VudcExportIsClean`, `WedgeHolds`, `VudcAnsweredOnce`; `VudcUnlinkAnswered`, `VudcLetsGo` |
| `payload` | all URBs with buffers of up to 4 bytes and up to 3 packets, both byte orders at both ends; all transfers of up to 5 bytes with `maxpacket` 2 against up to 3 requests of up to 4; 149,000 | `HeadersAgree`, `PayloadAccepted`, `PayloadIntact`; `MatchesPackets` |
| `ux` | one message of vectors of 3 and 0 bytes, a user buffer of 2, reads of 1 and 2 of 3 bytes received, fair; 436,000 | `UxIsStream` (refinement of `ByteStream`, both ways); `UxLetsGo` |
| `tools` | attach, connect, list with 2 requests of enumeration, cut and kill; 2 bus ids on 1 slot, 2 users, 3 commands, 1 replug; 1 bus id, 1 user, 2 commands, 2 connections; every fault and a signal, fair; 153,000 | `ImportStreamsSeparate`, `OutcomeIsTrue`, `BothOrNeither`, `CommandEnds`; `DisconnectFindsEntry`, `SdevOutlivesThreads`, `BindEnds` |
| `ports` | 2 commands (symmetric), up to 2 controllers of 1 port, 2 failures of connections, every fault; 389,000 | `PortCountSane`, `RetriesArePaid` |
| `libusb` | 3 commands, 1 interface, every fault, fair; 1,260,000 | `ResultBeforeUnlink`; `LibusbJoins` |
| `vhci_shutdown_first` | client, 2 connections, loss | finding 1 |
| `ux_unlink` | as `ux` | finding 2 |

Why the bounds are enough for what the runs ask.

* *URB path.* The races are between one URB's result, its cancellation and a
  teardown, for which one URB with two numbers suffices; two URBs and three
  numbers add a URB completing while another is cancelled and the order between
  the lists. `vhci` and `stub` have one connection: on a second one the race of
  finding 1, whose code both ends share, releases a socket with the threads
  running and breaks properties that are about something else. The theorems hold
  for any number of connections. Losses of the connection and requests of the peer
  fall between any two steps of an attach or export in `vhci` and `stub`; the runs of
  both ends leave them out there (`MCUsbip`: until both files have the socket, one
  request, no cancellation and no loss), as they ask what happens on a connection
  that works. One request is enough to come too early for the stub.
* *vudc.* Two requests are a submit and its unlink, or two submits on the control
  and the data endpoint; one act is a halt, a wedge, a queued request, a pull
  down or an unbind in the middle of them.
* *payload.* A buffer of 4 holds up to three packets with a gap between and
  short packets inside; 5 bytes at `maxpacket` 2 are two full packets and a short
  one, 4 bytes need a zero-length packet, and three requests of up to 4 cover a
  request that ends before, with and after a packet.
* *ux.* A vector longer than the user's buffer, an empty one, and reads that
  end in the middle of what `recv` returned.
* *tools.* With fewer slots than bus ids a bind fails for want of a slot; two
  users give every overlap of a bind with another bind, an unbind and an unplug;
  one worker with two devices is the case where it is busy with the other one. The
  device of a connection depends on its own threads, files, disconnect and event word
  and on the worker, so "sdev" needs one bus id; two connections and two commands let
  it be bound, connected, torn down and connected again under a disconnect.
* *ports.* Two commands see the same free port; two controllers of one port make
  every get a creation and every put a deletion.
* *libusb.* A submit, its unlink, and one more request behind them.

The type definitions `UsbipTypeOK`, `VudcTypeOK`, `UxTypeOK` and `TransferTypeOK`
document the state and hold on these instances. They are not among the runs'
properties; all but `UxTypeOK`, which names bounds of its instance, are proved.

Each property of a passing run has a mutant in `PROJECT.json`: a plausible bug in
one definition, with which TLC finds the property violated.

### Fairness

* `Vhci`, `Stub`, `LibusbStub`, `UsbipUx`: weak fairness of each thread's and the
  worker's next step (they are scheduled, and nobody keeps a lock another one
  needs), and of a write to a file or a dequeue that has begun. The event
  worker of `UsbipUx` is owed a step only once a kernel thread has failed, since before that nothing was put into its queue.
* `Usbip`, `Attach`, `Bind`: one weak fairness condition for all threads together
  (`Progress`): while somebody can go on, somebody does. It is weaker than one
  condition per thread, and enough because the rest is bounded. Only in `Bind` a second
  one is needed, for a write to `usbip_sockfd` that has begun: the errors of a
  connection are not bounded, and the worker could serve them for ever. In `Usbip` it
  includes the client's hub driver and the completion of a URB that was
  cancelled, which `usb_unlink_urb` guarantees.
* `Vudc`: weak fairness of the timer and strong fairness of threads, worker and
  store together. The timer comes back to `udc->lock` for ever while a URB waits;
  the lock is a queued spin lock, so one who waits for it gets it in his turn.
* There is none for drivers submitting or cancelling, devices answering, peers,
  users attaching or detaching, the network failing, processes being killed, or
  timeouts expiring: a property that needed `VhciRxTimeout` to happen would be
  about userland's settings.

## Findings

1. `vhci_shutdown_first`: a node queued during a teardown makes the worker come
   back to a port that is attached again; an event that arrives between its test
   of SHUTDOWN and its test of RESET (`usbip_event.c:97`) resets the port with its
   threads running, against the comment at line 88, "NOTE: shutdown must come
   first."
2. `ux_unlink`: `usbip_ux_ioctl` ignores the result of `usbip_ux_get` and always
   puts (`usbip_ux.c:503`, `:520`), so that an ioctl before the transport is linked
   leaves the count below zero. `usbip_ux_unlink` then does not wait for the
   threads inside, against "Waiting ux becomes free in unlink." at line 423.

Further weak points the models contain but that contradict no statement of the
repository are listed as hazards with a note. Among them: the cleanup of the
client drops unsent unlink requests, whose URBs nobody can dequeue again
(`vhci_hcd.c:778`); a request without a URB stops the server's worker
(`stub_main.c:264`); an unlink is applied to a URB that may be freed by then
(`stub_rx.c:267`, and the same in the libusb stub); `store_attach` and both
`store_sockfd` start their threads one by one and without a lock
(`vhci_sysfs.c:338`, `stub_dev.c:89`, `vudc_sysfs.c:168`): a peer that closes, a detach or
an unbind in between leaves `tx`, or both, running behind a teardown that has
ended, on a port without a socket, a device that is available again, or a device that
is freed; `usbip_stop_eh` waits interruptibly and ignores the result
(`usbip_event.c:134`), so that a signal to the process that writes `unbind` lets
`stub_disconnect` free the device under its threads. `SocketOutlivesThreads`,
`AvailableIsClean` and `SdevOutlivesThreads` except exactly the threads left in this
way, and claim the rest.

## Proofs

TLAPS proves the theorems below for every value of the constants: any number of
URBs, endpoints, devices, processes, controllers, vectors and connections, with
only the assumption each module declares (bounds are numbers, a marker is not an
element of the set it stands outside of). The inductive invariants were tried with
TLC on small instances first. Some theorems carry a hypothesis; it is named, and
what it excludes is described with it.

### Client (`VhciProofs`, for `VhciSpec`)

* `TypeCorrect`: `VhciTypeOK`. `NoDoubleGiveBack`: `GivenBackOnce`.
  `NoDanglingPriv`: `PrivMatchesUrb`. `AnswersUnambiguous`: `RequestNumbersUnique`.
  Inductive: `Inv == VhciTypeOK /\ Safe`, where `Safe` joins the three properties:
  none is inductive alone. That a URB is given back once needs that a `vhci_priv`
  belongs to a linked URB; that needs one `vhci_priv` per URB; and that a pickup by
  number takes the right entry needs unique numbers, at most `seqnum`. `Safe` also
  excludes that the URB in the hands of `vhci_rx` is taken by somebody else between
  the pickup and the giveback. The actions fall into four kinds, one lemma each:
  `FrameStep`, `SubmitStep`, `PickUpStep`, `ShrinkStep`.
* `NoUnlinkCarriedOver`: `QuietAttach => []UnlinksFlushed`, and
  `FirstConnectionFlushed`, which needs no `QuietAttach` while `conn <= 1`.
  Inductive: `Flushed`, how far the cleanup is at each place of the worker, and who
  may still add an unlink behind it.
* `ThreadsHaveSocket`: `QuietAttach => []SocketOutlivesThreads`. Inductive: `Sock`, a
  thread that runs or that `store_attach` is about to start has a socket, or a shutdown
  has missed it; and while `vhci_rx` runs and was not missed, the worker is not past it.

`QuietAttach` says that a port is attached when the event worker is through with
its last connection. The code tests only `VDEV_ST_NULL`, which `vhci_device_reset`
sets before that: the window is that of finding 1. Nothing is assumed of when the
connection ends: the peer may close, and a detach come, at any step of an attach.

### Server (`UsbipProofs`, for `StubSpec`)

* `StubTypeCorrect`: `StubTypeOK`, and `NoDanglingContext`: `HwUrbHasPriv`, together:
  a list of `stub_priv`s keeps its numbers distinct only because a URB in the host
  controller is on `priv_init` and on no other list.
* `NothingCarriedOver`: `QuietExport => []AvailableIsClean`. Inductive: `Torn`, what is
  already gone at each place of the worker: a thread that it is past is off, or was
  missed, or is still to be started behind it (`RxGone`, `TxGone`). That the lists are
  clean beside a `stub_tx` left behind needs that they have been empty all along, as
  `stub_rx` refuses every request until `store_sockfd` says SDEV_ST_USED. A node left
  by a second event makes the worker run again, and must then find either SHUTDOWN set
  or everything clean.
  `QuietExport` is to `store_sockfd` what `QuietAttach` is to `store_attach`.

### The path (`UsbipProofs`, for `Spec` of `Usbip`)

* `PathTypeCorrect`: `UsbipTypeOK`.
* `ClientOfPath`: `Spec => VhciSpec`, and `ServerOfPath`: `Spec => StubSpec`. A step of
  one end is a step that the other end's specification allows its peer, so every
  theorem about an end with an arbitrary peer holds of the path.
* `NoAnswerTwice`: `AnsweredOnce`. Inductive: `OnePlace`, a number is in at most one of
  the client's queues, the request stream, the stub's lists and the answer stream.
* `NoCancelledUrbRuns`: `CancelledUrbStopped`. Inductive: `Cancel`, which follows an
  unlink from the client's queue to the answer: before it is applied its target may
  be anywhere, once the answer says ECONNRESET the target has been taken out of the
  hardware and is on no stream that leads there.
* `RequestsNotLost`: `RequestsTracked` while `conn <= 1` and under `StaleMisses`.
  Inductive: `FirstOpen`, both ends are up or an event says otherwise, and `Tracked`,
  every number that `vhci_rx` waits for is on its way. The first hypothesis is
  needed for finding 1; the second because `vhci_urb_dequeue` may read the number of
  a freed `vhci_priv`, and if that were the number of an unlink request the answer
  of the wrong request would be consumed. `UnlinksNameSubmits` shows that without
  stale reads (`StaleReads = {}`) the second holds by itself (inductive: `Targets`).

### vudc (`VudcProofs`, for `VudcSpec`)

* `VudcTypeCorrect`: `VudcTypeOK`.
* `NoKickLost`: `TimerCoversQueue`. Inductive: `Kicked`, which adds the places of the
  sweep where the timer is not armed but its end will arm it.
* `WedgeIsKept`: `WedgeHolds`, inductive with the types.
* `NextConnectionIsFresh`: `QuietSockfd => []VudcExportIsClean`. Inductive: `LetGo`, the
  counterpart of `Torn`. `QuietSockfd` excludes a `store_sockfd` between the release of
  the old socket and the end of that teardown (hazard at `vudc_sysfs.c:168`).
* `AnsweredOnce`: `NumberedSpec => []VudcAnsweredOnce`. `VudcSpec` lets its peer repeat a
  number, so this theorem is about a client that gives each request a number of its
  own, as `vhci_hcd` does. Otherwise the client of `NumberedSpec` connects, sends and
  closes when it likes; answers stay in their stream, where the property counts them.
  Inductive: `Numbers`, the counterpart of `OnePlace`: a number is in one place of the
  request stream, `urb_queue`, `tx_queue` and the answer stream, once, and none is
  above the last one drawn. `RunsAreNumbered` shows that the client of the run `vudc` is
  such a client, so that the theorem speaks of what TLC checks.

### The data stage of vudc (`VudcProofs`, for `TransferSpec`)

* `Transfer_MatchesPackets`: `MatchesPackets`, and `Transfer_TypeOK`. `transfer()` decides
  from lengths alone how much to copy, whether the copy ends short and which side is
  complete, and cuts a copy that is not a multiple of `maxpacket` in two. It is shown
  to agree with the bus for every packet size, all lengths, either direction, with
  and without zero-length packets, whenever the gadget driver queues its requests.
  Inductive: `TransferInv`, the bus is where `transfer()` is after some number of
  packets (`Reaches`), at most one per byte moved and one that ends the URB. One look of
  the loop is one short packet or as many full packets as fit (`LookIsPackets`); the
  progress that `transfer()` writes into the URB and the requests, and requests queued
  later, are nothing to the bus (`ReachesStill`); where it rests it stays (`BusRests`).
  The induction over packets is one over sets of numbers (`SetInduction`), from the
  well-foundedness of `<` on `Nat`; that `Bus` satisfies its recursive equation is
  proved from it (`RecursionExists`, `BusUnfolds`).

### Payload (`PayloadProofs`, for `PayloadSpec`)

* `Payload_Accepted`: `PayloadAccepted`, no receiver rejects what the sender computed.
  `Payload_Intact`: `PayloadIntact`, the bytes the device moved are where it had put
  them, isochronous packets at their offsets again. `Header_Received` and
  `Headers_Agree`: `HeadersAgree`, for machines of either byte order.
  Inductive: `PayloadInv`. No sum over the packets occurs in it: `starts` holds the
  device's partial sums, and each loop is shown to run through the same ones, upwards
  in `stub_send_ret_submit` and `usbip_recv_iso`, downwards in `usbip_pad_iso`. The padding
  moves packets in place from the last to the first; it is right because the gap
  before a packet never shrinks from one packet to the next, so that what is written
  never covers what is still to be moved. The theorems hold for every length, number
  of packets and layout in order from the start of the buffer without overlap, which
  is how drivers fill the descriptors and what the code relies on. `usbip_pad_iso` also
  runs for OUT URBs, so nothing is claimed of the buffer of an OUT URB once it is back.

### Tools, pool, portable server

* `NoSdevFreedUnderThreads`: `SdevOutlivesThreads`, and `SlotOfBoundDevice`:
  `DisconnectFindsEntry` (`ToolsProofs`, for `BindSpec`). Inductive: `BindInv`, of each
  bus id: who keeps its slot (`Owned`), that only a disconnect closes its event word,
  and then waits (`Closed`), and which threads the worker has stopped or missed at each
  of its steps, and a disconnect at the end of its wait (`Stopping`): while it waits,
  every thread was missed or a shutdown is still ahead. The clearing of SHUTDOWN by a
  shutdown that began before the disconnect is why threads it missed can be left.
* `CommandsTellTheTruth`: `OutcomeIsTrue`, and `ImportPhasesSeparate`:
  `ImportStreamsSeparate` (`ToolsProofs`, for `AttachSpec`). Inductive: `AttachInv`, what
  may be under way for each pair of positions of command and child.
* `PortsTypeCorrect`, `CountsNeverWrap`: `PortCountSane`, and `EveryRetryIsPaid`:
  `RetriesArePaid` (`PortsProofs`, for `PortsSpec`). A count of used ports is at least
  the number of ports marked; retries are counted against what pays for them by
  `Paid`: the refusals so far, those that are owed and the ports in error are at
  most the other processes that got on and the connections that failed.
* `ResultsComeFirst`: `ResultBeforeUnlink` (`LibusbProofs`, for `LibusbSpec`). Inductive:
  `LibusbInv`, among it that the answer "too late" is queued only for a request that
  is `Settled`: its result is sent or on `priv_tx`, or nothing is sent any more.

### usbip_ux (`UxProofs`, for `UxSpec`)

* `RequestsFit`: the inductive invariant `UxInv`: an answered request is used up or
  interrupted, a request is set up exactly while its thread waits, no more is copied
  than asked for, a user thread fetches more only with an empty buffer.
* `TransportIsStream`: `UxSpec => TxStream!StreamSafe /\ RxStream!StreamSafe`, the safety
  part of the refinement `UxIsStream`: initial states map to initial states, and every
  step is a `Take`, a `Deliver`, a `Cut` or a stutter of each stream. `UtxCopy` takes,
  `UtxSend` delivers, `UrxRecv` takes, `UrxCopy` delivers; setting up a vector and having
  it answered move nothing (`KtxMovesNothing`, `KrxMovesNothing`). It holds up to
  undefined behaviour (`oops`), where the model ends.

### What the proofs changed in the models

* A `CASE` whose guards overlap chooses an unspecified arm, which TLC resolves to the
  first. In `Attach`, `Bind`, `LibusbStub`, `Payload` and `VudcTransfer` such choices
  are `IF`/`ELSE` chains in the order of the code's tests.
* `VhciPorts` keeps the pending events as a set and serves them in any order, which
  allows more than the list of `usbip_event.c`; its theorems hold for both.
* `UsbipUx` takes its messages as `Vectors`, each with its start in the data, so that
  no recursion is needed to say where the next one begins.
* `Payload` runs its loops over the packets step by step. As folds they hid the order
  in which `usbip_pad_iso` moves the packets, on which its correctness rests.
* The reference of `VudcTransfer` is a bus that moves one packet at a time, a recursive
  function of the number of packets, instead of a recursive operator over requests.
* `MCVudc` separates the next request of the client (`NextRequest`) from the bounds of
  the run, so that `NumberedSpec` and the run share it.

### Only model-checked

* Liveness (`ClientTeardownEnds`, `ServerTeardownEnds`, `ResultDelivered`, `BothOrNeither`,
  `VudcUnlinkAnswered`, `LibusbJoins`, the `...LetsGo` and `...Ends` properties, and the
  fairness part of `UxIsStream`) and ENABLED: out of the prover's reach.

Every safety invariant and action property of the passing runs is stated by a theorem,
those with a hypothesis named above included.

## Not modelled

* The root hub's `hub_control` beyond the connect bits: reset, suspend and power
  states are driven by the hub driver alone and the URB path does not read them.
  Suspend and resume of a controller.
* `Set_Address` when a device is reset, and other requests to address 0;
  enqueue errors that the USB core handles before the driver is involved.
* Several ports of one controller with URBs: they share `vhci.lock` and `seqnum`
  only. The pool itself has several (`VhciPorts`).
* The server's special requests (set configuration, clear halt, reset), which are
  plain submits here; `tweak_special_requests` of the libusb stub.
* Two processes writing to the same `usbip_sockfd` at once.
* `kthread_create` failing, after which `kthread_get_run` stores an error pointer. A
  thread left behind by a teardown whose pointer the next attach or export overwrites:
  the models follow the new thread. In `Vudc`, where the threads are started one by
  one too, a thread's pointer is stored with its start.
* A failed allocation inside `usbip_event_add`: it leaves the bits set and queues
  no node, and every teardown property is false with it.
* Width of `seqnum`: 2^31 requests are out of reach of a run.
* OP_UNEXPORT and the disconnect command; option parsing and the listening
  sockets of the daemons; what list and port print.
* Module load and platform devices (`vudc_main.c`); enumeration through sysfs,
  libusb and `usb.ids`; the API examples. They are I/O, tables and formatting.

## Plan

1. The second halves of the theorems with a hypothesis: which steps of the code break
   `QuietAttach`, `QuietExport` and `QuietSockfd`, stated as lemmas on those actions.
2. `Vhci`: that the root hub's connect bits agree with the port's status.
3. OP_UNEXPORT and the disconnect command in `Attach`; the hub driver's resets of a port
   in `Vhci`.
