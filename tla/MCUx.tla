--------------------------------- MODULE MCUx ---------------------------------
(***************************************************************************)
(* The userspace transport with a message of two vectors, one of them empty *)
(* and one longer than the user's buffer, and reads that do not line up     *)
(* with what recv returns.                                                 *)
(***************************************************************************)
EXTENDS UsbipUx

MCVectors == <<[start |-> 0, len |-> 3, last |-> FALSE],
               [start |-> 3, len |-> 0, last |-> TRUE]>>
MCRxSizes == <<1, 2>>

===============================================================================
