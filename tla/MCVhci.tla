-------------------------------- MODULE MCVhci --------------------------------
(***************************************************************************)
(* A vhci port with an arbitrary peer, bounded for TLC: the peer opens up  *)
(* to MaxConn connections, closes them whenever it likes and sends results *)
(* for any request number that was ever used, at most MaxQueue at a time,  *)
(* in any order and any number of times.                                   *)
(***************************************************************************)
EXTENDS Vhci

CONSTANTS
    MaxConn,    \* bound on connections
    MaxQueue    \* bound on results not yet read by the vhci

ASSUME MCAssumption == MaxConn \in Nat /\ MaxQueue \in Nat

\* userland gets a new connection once the old one is gone.
PeerConnects == link = "down" /\ conn < MaxConn /\ OpenConnection

PeerAnswers ==
    /\ link = "open" /\ Len(s2c) < MaxQueue
    /\ \E s \in 1 .. seqnum :
          \/ s2c' = Append(s2c, RetSubmit(s))
          \/ s2c' = Append(s2c, RetUnlink(s, "ECONNRESET"))
    /\ UNCHANGED <<conn, link, c2s>>

MCPeer ==
    /\ PeerConnects \/ PeerAnswers \/ LoseConnection
    /\ UNCHANGED vhciVars

MCNext == VhciNext \/ MCPeer
MCInit == NetInit /\ VhciInit
MCSpec == MCInit /\ [][MCNext]_clientVars
MCFairSpec == MCSpec /\ VhciFairness

===============================================================================
