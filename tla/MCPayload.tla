------------------------------- MODULE MCPayload -------------------------------
(***************************************************************************)
(* The two descriptions of data in motion over bounded inputs: the trip of *)
(* a URB between client and server (Payload) and the data stage on a       *)
(* virtual controller (VudcTransfer).  They share nothing; a behaviour     *)
(* exercises one of them.                                                  *)
(***************************************************************************)
EXTENDS Payload, VudcTransfer

NoTransfer ==
    /\ turb = [dir |-> "in", length |-> 0, actual |-> 0, zero |-> FALSE, status |-> "0"]
    /\ queue = <<>> /\ given = <<>> /\ at = 1 /\ tpc = "loop"
NoTrip ==
    /\ place = "idle" /\ curb = NoUrb /\ surb = NoUrb /\ wire = NoWire
    /\ i = 1 /\ total = 0 /\ starts = [k \in 1 .. 1 |-> 0]

MCInit == (PayloadInit /\ NoTransfer) \/ (NoTrip /\ TransferInit)
MCNext ==
    \/ place # "idle" /\ PayloadNext /\ UNCHANGED transferVars
    \/ place = "idle" /\ TransferNext /\ UNCHANGED payloadVars
MCSpec == MCInit /\ [][MCNext]_<<payloadVars, transferVars>>

===============================================================================
