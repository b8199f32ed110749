-------------------------------- MODULE MCTools --------------------------------
(***************************************************************************)
(* The command line tools: a behaviour is one of the hand-over of a        *)
(* connection (Attach) or one of the binding of devices (Bind), while the  *)
(* other stays as it started.                                              *)
(*                                                                         *)
(* Binding is looked at in two ways: the commands of two users on two bus  *)
(* ids that compete for the slots of the table, without connections        *)
(* ("table"), and one bus id whose device has connections, with two       *)
(* commands of one user ("sdev").                                          *)
(***************************************************************************)
EXTENDS Attach, Bind

VARIABLE part  \* the part that runs

mcVars == <<part, attachVars, bindVars>>

NoAttach ==
    /\ flow = "import" /\ daemon = "usbipd" /\ tool = "failed" /\ child = "none"
    /\ left = 0 /\ to = [e \in End |-> <<>>] /\ held = {} /\ shut = FALSE
    /\ vhci = "free" /\ stub = "free" /\ bound = FALSE /\ cmds = 0

MCInit ==
    /\ BindInit
    /\ \/ part = "attach" /\ AttachInit
       \/ part \in {"table", "sdev"} /\ NoAttach

Exported == CHOOSE b \in Busid : TRUE
Owner    == CHOOSE u \in User : TRUE
MaxSdevRuns == 2

\* The bounds of the two ways to look at Bind, on its next state.
BindBound ==
    \/ part = "table" /\ conns' = 0
    \/ /\ part = "sdev" /\ runs' <= MaxSdevRuns
       /\ \A u \in User :
             cmd'[u] # NoCmd => u = Owner /\ cmd'[u][2] = Exported

MCNext ==
    \/ part = "attach" /\ AttachNext /\ UNCHANGED <<part, bindVars>>
    \/ BindNext /\ BindBound /\ UNCHANGED <<part, attachVars>>

\* Little in either part happens infinitely often: it is enough that something
\* that can go on does, and that a write to usbip_sockfd ends.
MCProgress ==
    \/ part = "attach" /\ AttachProgress /\ UNCHANGED <<part, bindVars>>
    \/ part # "attach" /\ BindProgress /\ UNCHANGED <<part, attachVars>>

MCStores ==
    part # "attach" /\ (\E b \in Busid : StoreGoesOn(b)) /\ UNCHANGED <<part, attachVars>>

MCSpec ==
    /\ MCInit /\ [][MCNext]_mcVars
    /\ WF_mcVars(MCProgress) /\ WF_mcVars(MCStores)

================================================================================
