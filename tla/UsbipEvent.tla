------------------------------ MODULE UsbipEvent ------------------------------
(***************************************************************************)
(* The event word of a usbip_device and its place on the global event      *)
(* list (usbip_event.c, usbip_common.h).  The word is a set of bits; an    *)
(* event is a set of bits too.  Both halves of the system (the vhci port   *)
(* of the client and the stub device of the server) keep one record         *)
(*                                                                         *)
(*     [bits   |-> ud->event,                                              *)
(*      queued |-> whether a usbip_event node for ud is on event_list]      *)
(*                                                                         *)
(* and the operators below are the only way they change it.                *)
(***************************************************************************)

Bits == {"SHUTDOWN", "RESET", "UNUSABLE", "BYE"}

\* Mutant of EVENT_DOWN: a mask that resets the device without a shutdown.
MutResetOnly == {"RESET"}

\* VDEV_EVENT_DOWN, VDEV_EVENT_ERROR_TCP, SDEV_EVENT_DOWN,
\* SDEV_EVENT_ERROR_TCP and SDEV_EVENT_ERROR_SUBMIT are one and the same mask.
EVENT_DOWN         == {"SHUTDOWN", "RESET"}
EVENT_ERROR_MALLOC == {"SHUTDOWN", "UNUSABLE"}

EventWord == [bits : SUBSET Bits, queued : BOOLEAN]

\* usbip_start_eh: a fresh device has no event and no node on the list.
NoEvent == [bits |-> {}, queued |-> FALSE]

\* usbip_event_add: nothing once the device said goodbye; otherwise the bits
\* are set and the device gets one node on the list, however many events
\* arrive before the worker pops it.
EventAdd(e, mask) ==
    IF "BYE" \in e.bits
    THEN e
    ELSE [bits |-> e.bits \cup mask, queued |-> TRUE]

\* get_event: the worker pops the node; the bits stay until they are handled.
GetEvent(e) == [e EXCEPT !.queued = FALSE]

\* unset_event
UnsetEvent(e, bit) == [e EXCEPT !.bits = @ \ {bit}]

\* usbip_event_happened
EventHappened(e) == e.bits # {}

===============================================================================
