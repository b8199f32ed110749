-------------------------------- MODULE MCUsbip --------------------------------
(***************************************************************************)
(* The whole URB path on a small instance.  URBs are interchangeable.      *)
(*                                                                         *)
(* Two bounds on what happens before both files have got the socket: one   *)
(* request and no cancellation (enough for a first request that comes too  *)
(* early for the stub), and no loss of the connection, which the instances *)
(* of the client alone and of the server alone have at every moment.       *)
(***************************************************************************)
EXTENDS Usbip

UrbSymmetry == Permutations(Urbs)

Settled == handover = <<>> /\ attach = "idle" /\ sstore = "idle"
MaxEarly == 1

MCNext ==
    \/ /\ Connect \/ AttachVhci \/ ExportStub \/ GiveUp \/ VhciStep \/ StubStep
       /\ Settled \/ (seqnum' <= MaxEarly /\ dq' = NoDequeue)
    \/ Settled /\ NetworkLoss

MCSpec == Init /\ [][MCNext]_vars

\* None of the steps Progress stands for is among those the bounds leave out.
MCFairSpec == MCSpec /\ WF_vars(Progress)

===============================================================================
