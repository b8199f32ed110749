------------------------------- MODULE ByteStream -------------------------------
(***************************************************************************)
(* What a transport promises for one direction of a connection: the bytes  *)
(* come out in the order they went in, none twice and none left out, and,  *)
(* as long as the connection is not cut, all of them come out.             *)
(***************************************************************************)
EXTENDS Naturals, Sequences

CONSTANT Data           \* the bytes the sender has to send

VARIABLES
    src,                \* not yet taken from the sender
    chan,               \* under way
    dst,                \* handed to the receiver
    cut                 \* the connection is being ended, from either side

streamVars == <<src, chan, dst, cut>>

StreamInit == src = Data /\ chan = <<>> /\ dst = <<>> /\ cut \in BOOLEAN

\* A beginning of the bytes moves on, in one piece.
Take ==
    /\ \E n \in 1 .. Len(src) :
          /\ chan' = chan \o SubSeq(src, 1, n)
          /\ src' = SubSeq(src, n + 1, Len(src))
    /\ UNCHANGED <<dst, cut>>
Deliver ==
    /\ \E n \in 1 .. Len(chan) :
          /\ dst' = dst \o SubSeq(chan, 1, n)
          /\ chan' = SubSeq(chan, n + 1, Len(chan))
    /\ UNCHANGED <<src, cut>>
Cut ==
    /\ ~cut /\ cut' = TRUE
    /\ UNCHANGED <<src, chan, dst>>

StreamNext == Take \/ Deliver \/ Cut

\* What never goes wrong, and that something happens too.
StreamSafe == StreamInit /\ [][StreamNext]_streamVars

StreamSpec ==
    /\ StreamSafe
    /\ WF_streamVars(~cut /\ Take) /\ WF_streamVars(~cut /\ Deliver)

===============================================================================
