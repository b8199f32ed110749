-------------------------------- MODULE MCStub --------------------------------
(***************************************************************************)
(* An exported device with an arbitrary client, bounded for TLC: up to     *)
(* MaxConn connections are handed to the stub, each is closed whenever the *)
(* client likes, and the client sends up to MaxSeq requests: submits, and  *)
(* unlinks of any request it has made or has yet to make.                  *)
(***************************************************************************)
EXTENDS Stub

CONSTANTS
    MaxConn,    \* bound on connections
    MaxSeq      \* bound on requests

ASSUME MCAssumption == MaxConn \in Nat /\ MaxSeq \in Nat

VARIABLE sent   \* requests sent so far

ClientConnects ==
    /\ link = "down" /\ conn < MaxConn
    /\ OpenConnection
    /\ UNCHANGED <<stubVars, sent>>

ClientSends ==
    /\ link = "open" /\ sent < MaxSeq
    /\ sent' = sent + 1
    /\ \/ c2s' = Append(c2s, CmdSubmit(sent + 1))
       \/ \E t \in 1 .. MaxSeq : c2s' = Append(c2s, CmdUnlink(sent + 1, t))
    /\ UNCHANGED <<conn, link, s2c, stubVars>>

ClientReads ==
    /\ s2c # <<>> /\ s2c' = Tail(s2c)
    /\ UNCHANGED <<conn, link, c2s, stubVars, sent>>

ClientCloses == LoseConnection /\ UNCHANGED <<stubVars, sent>>

\* The daemon hands the connection over once.
ExportOnce == ssock # conn /\ link = "open" /\ StubStoreSockfd /\ UNCHANGED sent

ServerStep ==
    /\ \/ StubTx \/ StubRx \/ StubEh \/ StubUser
       \/ \E id \in hw : StubComplete(id)
    /\ UNCHANGED sent

MCNext ==
    ClientConnects \/ ClientSends \/ ClientReads \/ ClientCloses \/ ExportOnce \/ ServerStep
MCInit == NetInit /\ StubInit /\ sent = 0
MCSpec == MCInit /\ [][MCNext]_<<serverVars, sent>>
MCFairSpec == MCSpec /\ StubFairness

===============================================================================
