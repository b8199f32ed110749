-------------------------------- MODULE MCPorts --------------------------------
(***************************************************************************)
(* The port pool for TLC: the attaching processes are interchangeable.     *)
(***************************************************************************)
EXTENDS VhciPorts, TLC

ProcSymmetry == Permutations(Proc)

================================================================================
