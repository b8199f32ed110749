-------------------------------- MODULE MCVudc --------------------------------
(***************************************************************************)
(* An exported virtual controller with an arbitrary client and gadget      *)
(* driver, bounded for TLC: up to MaxConn connections and MaxSeq requests, *)
(* and the driver and the daemon act up to MaxGadget times.                *)
(***************************************************************************)
EXTENDS Vudc, FiniteSets

CONSTANTS
    MaxConn,    \* bound on connections
    MaxSeq,     \* bound on requests
    MaxGadget   \* bound on what the gadget driver and the daemon do

ASSUME MCAssumption == MaxConn \in Nat /\ MaxSeq \in Nat /\ MaxGadget \in Nat

VARIABLES
    sent,   \* requests sent so far
    acted   \* what the gadget driver and the daemon have done so far

ClientConnects ==
    /\ link = "down" /\ conn < MaxConn
    /\ OpenConnection
    /\ UNCHANGED <<vudcVars, sent, acted>>

Submit(e, ctl, w) == [cmd |-> "CMD_SUBMIT", seqnum |-> sent + 1, target |-> 0, ep |-> e,
                      ctl |-> ctl, windex |-> w]

\* A client that numbers its requests sends the next one.
NextRequest ==
    /\ link = "open"
    /\ sent' = sent + 1
    /\ \E w \in DataEps :
          \/ \E ctl \in Ctl \ {"std"} : c2s' = Append(c2s, Submit(EP0, ctl, w))
          \/ c2s' = Append(c2s, Submit(w, "std", w))
          \/ \E t \in 1 .. sent :
                c2s' = Append(c2s, [Submit(EP0, "std", w) EXCEPT !.cmd = "CMD_UNLINK", !.target = t])
          \/ /\ MayFail("unknown")
             /\ c2s' = Append(c2s, [Submit(EP0, "std", w) EXCEPT !.cmd = "UNKNOWN"])
    /\ UNCHANGED <<conn, link, s2c, vudcVars>>

ClientSends ==
    /\ sent < MaxSeq /\ c2s = <<>>
    /\ NextRequest
    /\ UNCHANGED acted

ClientCloses == LoseConnection /\ UNCHANGED <<vudcVars, sent, acted>>

\* The daemon hands each connection over once.
ExportOnce ==
    /\ link = "open" /\ vsock # conn /\ VudcStoreSockfd
    /\ UNCHANGED <<sent, acted>>

ServerStep ==
    /\ VudcTimer \/ VudcRx \/ VudcTx \/ VudcEh \/ VudcStore
    /\ UNCHANGED <<sent, acted>>

\* What only undoes or repeats costs nothing of the budget; the driver works on
\* its endpoints while a URB waits for them.
UserStep ==
    /\ \/ /\ GadgetStart \/ GadgetPullup \/ GadgetStop \/ \E e \in DataEps : VepEnable(e) \/ VepDequeue(e)
          /\ UNCHANGED acted
       \/ /\ acted < MaxGadget /\ acted' = acted + 1
          /\ \/ VudcStoreDown \/ GadgetPulldown
             \/ /\ urb_queue # <<>>
                /\ \/ \E e \in DataEps : VepDisable(e) \/ VepSetHalt(e)
                   \/ \E e \in Eps : VepQueue(e)
                /\ ep' # ep
    /\ UNCHANGED sent

\* A gadget driver has bound to the fresh controller, enabled its endpoints and
\* pulled it up.
Bound == [DisabledEp EXCEPT !.desc = TRUE]
MCInit ==
    /\ NetInit /\ sent = 0 /\ acted = 0
    /\ gadget = [driver |-> TRUE, pullup |-> TRUE, unbinding |-> FALSE]
    /\ ep = [e \in Eps |-> IF e = EP0 THEN DisabledEp ELSE Bound]
    /\ VudcIdle
MCNext ==
    \/ ClientConnects \/ ClientSends \/ ClientCloses \/ ExportOnce
    \/ ServerStep \/ UserStep
mcVars == <<netVars, vudcVars, sent, acted>>
MCFairSpec == MCInit /\ [][MCNext]_mcVars /\ VudcFairness

Seqnums(list) == {list[i].seqnum : i \in DOMAIN list}

\* Every request is answered at most once: the answers on the wire, on tx_queue
\* and the URBs still on urb_queue are all for different requests.
VudcAnsweredOnce ==
    Cardinality(Seqnums(s2c) \cup Seqnums(tx_queue) \cup Seqnums(urb_queue))
        = Len(s2c) + Len(tx_queue) + Len(urb_queue)

\* Once vudc_rx has taken an unlink request its answer leaves the queues,
\* through the timer and vudc_tx, or the connection is given up.
VudcUnlinkAnswered ==
    \A s \in 2 .. MaxSeq : UnlinkPending(s) ~> ~UnlinkPending(s) \/ vsock = 0 \/ Crashed

===============================================================================
