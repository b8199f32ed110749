----------------------------- MODULE LibusbProofs -----------------------------
(***************************************************************************)
(* What holds of the portable server for every number of commands and      *)
(* interfaces: an unlink that comes too late is answered after the result  *)
(* of its request.                                                         *)
(***************************************************************************)
EXTENDS LibusbStub, SequenceTheorems, TLAPS

-----------------------------------------------------------------------------
(* The inductive invariant. *)

Cmds    == [kind : {"SUBMIT", "UNLINK"}, seq : Nat, target : Nat]
Privs   == [list : {"none", "init", "tx", "free"}, seq : Nat, unlinking : BOOLEAN]
Trxs    == {"none", "ready", "flying", "completed", "cancelled", "freed"}
Whys    == Trxs \cup {"not_pending"}
Unlinks == [seq : Nat, target : Nat, why : Whys]
Answers == [kind : {"RET_SUBMIT", "RET_UNLINK"}, seq : Nat, target : Nat, why : Whys]

\* The values of the variables that the answers depend on.
LibusbTypes ==
    /\ issued \in Seq(Cmds) /\ inbox \in Seq(Cmds)
    /\ priv \in [Seqnum -> Privs]
    /\ trx \in [Seqnum -> Trxs]
    /\ privTx \in Seq(Seqnum)
    /\ unlinkTx \in Seq(Unlinks)
    /\ sent \in Seq(Answers)

\* How many commands stub_rx has taken from the socket.
Taken == Len(issued) - Len(inbox)

\* An unlink of request t has been taken; the result of t has been sent.
UnlinkTaken(t) == \E m \in 1 .. Taken : issued[m].kind = "UNLINK" /\ issued[m].target = t
Answered(t)    == \E j \in 1 .. Len(sent) : sent[j].kind = "RET_SUBMIT" /\ sent[j].seq = t

\* The result of t is sent before anything that is queued from now on, or
\* nothing is sent any more.
Settled(t) ==
    \/ Answered(t)
    \/ \E j \in 1 .. Len(privTx) : privTx[j] = t
    \/ tx = "end"

\* The commands arrive in order and once, and a request is unlinked at most
\* once.
WireInv ==
    /\ Len(issued) <= MaxCmds /\ Len(inbox) <= Len(issued)
    /\ \A i \in 1 .. Len(inbox) : inbox[i] = issued[Taken + i]
    /\ \A n \in 1 .. Len(issued) :
        /\ issued[n].seq = n
        /\ issued[n].kind = "UNLINK" =>
            /\ issued[n].target \in 1 .. n - 1
            /\ issued[issued[n].target].kind = "SUBMIT"
    /\ \A m, n \in 1 .. Len(issued) :
        issued[m].kind = "UNLINK" /\ issued[n].kind = "UNLINK"
            /\ issued[m].target = issued[n].target => m = n

\* A stub_priv carries its own number or that of the one unlink of it, and a
\* transfer that left priv_init unmarked is settled.
PrivInv(n) ==
    /\ n > Taken => priv[n].list = "none" /\ trx[n] = "none"
    /\ priv[n].list = "init" /\ ~priv[n].unlinking => priv[n].seq = n
    /\ priv[n].list = "init" /\ priv[n].unlinking =>
        /\ UnlinkTaken(n)
        /\ priv[n].seq \in 1 .. Taken /\ issued[priv[n].seq].kind = "UNLINK"
    /\ priv[n].list \in {"tx", "free"} => trx[n] # "none"
    /\ trx[n] # "none" => priv[n].list = "init" \/ UnlinkTaken(n) \/ Settled(n)

\* An answer that says too late is for a request that never reached the
\* device or is settled ...
Late(u) ==
    u.why = "not_pending" =>
        /\ u.target \in 1 .. Taken
        /\ trx[u.target] = "none" \/ Settled(u.target)

\* ... and once it is sent the result is before it.
SentInv ==
    \A i \in 1 .. Len(sent) :
        sent[i].kind = "RET_UNLINK" /\ sent[i].why = "not_pending" =>
            /\ sent[i].target \in 1 .. Taken
            /\ \/ trx[sent[i].target] = "none"
               \/ \E j \in 1 .. i - 1 :
                    sent[j].kind = "RET_SUBMIT" /\ sent[j].seq = sent[i].target

\* Results are queued only between the poll and the round that sends them.
RoundInv ==
    /\ tx \in {"none", "test", "ret_unlink"} => privTx = <<>>
    /\ main \in {"claim", "start_eh", "start_rx", "start_tx"} => tx = "none"

\* What is queued has been to the device.
QueueInv == \A j \in 1 .. Len(privTx) : trx[privTx[j]] # "none"

PrivsInv == \A n \in Seqnum : PrivInv(n)
LateInv  == \A i \in 1 .. Len(unlinkTx) : Late(unlinkTx[i])

LibusbInv == LibusbTypes /\ WireInv /\ PrivsInv /\ LateInv /\ SentInv /\ QueueInv /\ RoundInv

\* The invariant holds initially.
LEMMA LibusbInvInit == LibusbInit => LibusbInv
<1> SUFFICES ASSUME LibusbInit PROVE LibusbInv
  OBVIOUS
<1>1. /\ issued = <<>> /\ inbox = <<>> /\ sent = <<>> /\ privTx = <<>> /\ unlinkTx = <<>>
      /\ tx = "none" /\ priv = [n \in Seqnum |-> NoPriv]
      /\ trx = [n \in Seqnum |-> "none"]
  BY DEF LibusbInit
<1>2. MaxCmds \in Nat
  BY LibusbAssumption
<1>3. LibusbTypes
  <2>1. \A S : <<>> \in Seq(S)
    BY EmptySeq
  <2>2. NoPriv \in Privs
    BY DEF NoPriv, Privs
  <2> QED
    BY <1>1, <2>1, <2>2 DEF LibusbTypes, Trxs
<1>4. WireInv
  BY <1>1, <1>2 DEF WireInv, Taken
<1>5. PrivsInv
  BY <1>1 DEF PrivsInv, PrivInv, NoPriv
<1>6. LateInv /\ SentInv /\ QueueInv /\ RoundInv
  BY <1>1 DEF LateInv, SentInv, QueueInv, RoundInv
<1> QED
  BY <1>3, <1>4, <1>5, <1>6 DEF LibusbInv

\* What has been taken, and that it can only grow.
LEMMA TakenFacts ==
    ASSUME LibusbTypes, WireInv
    PROVE  /\ Taken \in Nat /\ Taken <= Len(issued) /\ Taken <= MaxCmds
           /\ Len(issued) \in Nat /\ Len(inbox) \in Nat /\ MaxCmds \in Nat
           /\ 1 .. Taken \subseteq Seqnum /\ 1 .. Len(issued) \subseteq Seqnum
BY LibusbAssumption DEF LibusbTypes, WireInv, Taken, Seqnum

\* Taking the head of the socket.
LEMMA TakeHead ==
    ASSUME LibusbTypes, WireInv, inbox # <<>>, inbox' = Tail(inbox), issued' = issued
    PROVE  /\ inbox' \in Seq(Cmds) /\ WireInv'
           /\ Taken' = Taken + 1 /\ Taken + 1 \in Seqnum /\ Taken + 1 \in 1 .. Len(issued)
           /\ Head(inbox) = issued[Taken + 1] /\ Head(inbox).seq = Taken + 1
<1>1. /\ inbox' \in Seq(Cmds) /\ Len(inbox') = Len(inbox) - 1 /\ Len(inbox) >= 1
      /\ \A i \in 1 .. Len(inbox) - 1 : inbox'[i] = inbox[i + 1]
      /\ Head(inbox) = inbox[1]
  BY HeadTailProperties DEF LibusbTypes
<1>2. Taken' = Taken + 1 /\ Taken + 1 \in 1 .. Len(issued) /\ Taken + 1 \in Seqnum
  BY <1>1, TakenFacts DEF Taken, WireInv
<1>3. Head(inbox) = issued[Taken + 1] /\ Head(inbox).seq = Taken + 1
  BY <1>1, <1>2, TakenFacts DEF WireInv
<1>4. \A i \in 1 .. Len(inbox') : inbox'[i] = issued'[Taken' + i]
  BY <1>1, <1>2, TakenFacts DEF WireInv
<1>5. WireInv'
  BY <1>1, <1>4, TakenFacts DEF WireInv
<1> QED
  BY <1>1, <1>2, <1>3, <1>5

\* Taken unlinks stay taken, and what is settled stays settled while results
\* only leave priv_tx to be sent.
LEMMA TakenGrows ==
    ASSUME LibusbTypes, WireInv, Taken' \in Int, Taken <= Taken',
           \A m \in 1 .. Len(issued) : issued'[m] = issued[m],
           NEW t
    PROVE  UnlinkTaken(t) => UnlinkTaken(t)'
BY TakenFacts DEF UnlinkTaken


\* A step that touches neither the commands nor the transfers nor the answers.
LEMMA QuietStep ==
    ASSUME LibusbInv, UNCHANGED <<issued, inbox, priv, trx, privTx, sent>>,
           unlinkTx' \in {unlinkTx, <<>>}, tx = "end" => tx' = "end", RoundInv'
    PROVE  LibusbInv'
<1> USE DEF LibusbInv
<1>1. Taken' = Taken /\ WireInv'
  BY DEF Taken, WireInv
<1>2. \A t : /\ UnlinkTaken(t) => UnlinkTaken(t)'
             /\ Settled(t) => Settled(t)'
  BY <1>1 DEF UnlinkTaken, Settled, Answered
<1>3. LibusbTypes'
  <2>1. <<>> \in Seq(Unlinks)
    BY EmptySeq
  <2> QED
    BY <2>1 DEF LibusbTypes
<1>4. PrivsInv'
  BY <1>1, <1>2 DEF PrivsInv, PrivInv
<1>5. LateInv'
  <2>1. CASE unlinkTx' = unlinkTx
    BY <1>1, <1>2, <2>1 DEF LateInv, Late
  <2>2. CASE unlinkTx' = <<>>
    BY <2>2 DEF LateInv
  <2> QED
    BY <2>1, <2>2
<1>6. SentInv'
  BY <1>1 DEF SentInv
<1> QED
  BY <1>1, <1>3, <1>4, <1>5, <1>6 DEF QueueInv

\* The steps of the child.
LEMMA MainKeeps == LibusbInv /\ MainStep => LibusbInv'
<1> SUFFICES ASSUME LibusbInv, MainStep PROVE LibusbInv'
  OBVIOUS
<1>1. UNCHANGED <<issued, inbox, priv, trx, privTx, sent>> /\ unlinkTx' \in {unlinkTx, <<>>}
  BY DEF MainStep, MainClaim, MainStart, MainUsed, MainJoin, MainClean, netVars, dataVars
<1>2. (tx = "end" => tx' = "end") /\ RoundInv'
  <2>1. CASE MainStart
    BY <2>1 DEF MainStart, dataVars, RoundInv, LibusbInv
  <2>2. CASE MainClaim
    BY <2>2 DEF MainClaim, dataVars, RoundInv, LibusbInv
  <2>3. CASE MainUsed \/ MainJoin \/ MainClean
    BY <2>3 DEF MainUsed, MainJoin, MainClean, dataVars, RoundInv, LibusbInv
  <2> QED
    BY <2>1, <2>2, <2>3 DEF MainStep
<1> QED
  BY <1>1, <1>2, QuietStep

\* The steps of the event handler, and the end of the connection.
LEMMA EventsKeep == LibusbInv /\ (EhStep \/ RxTest \/ PeerCloses) => LibusbInv'
<1> SUFFICES ASSUME LibusbInv, EhStep \/ RxTest \/ PeerCloses PROVE LibusbInv'
  OBVIOUS
<1>1. CASE EhStep
  <2>1. UNCHANGED <<issued, inbox, priv, trx, privTx, sent, unlinkTx, tx, main>>
    BY <1>1 DEF EhStep, EhTest, EhGet, EhShutdown, EhReset, EhUnusable, netVars,
                dataVars, mainVars
  <2> QED
    BY <2>1, QuietStep DEF RoundInv, LibusbInv
<1>2. CASE RxTest \/ PeerCloses
  <2>1. UNCHANGED <<issued, inbox, priv, trx, privTx, sent, unlinkTx, tx, main>>
    BY <1>2 DEF RxTest, PeerCloses, netVars, dataVars, mainVars
  <2> QED
    BY <2>1, QuietStep DEF RoundInv, LibusbInv
<1> QED
  BY <1>1, <1>2

\* The steps of stub_tx that send nothing and take no completion.
LEMMA RoundsKeep == LibusbInv /\ (TxTest \/ TxPolled \/ TxUnlinked) => LibusbInv'
<1> SUFFICES ASSUME LibusbInv, TxTest \/ TxPolled \/ TxUnlinked PROVE LibusbInv'
  OBVIOUS
<1>1. UNCHANGED <<issued, inbox, priv, trx, privTx, sent, unlinkTx, main>>
  BY DEF TxTest, TxPolled, TxUnlinked, netVars, dataVars, mainVars
<1>2. (tx = "end" => tx' = "end") /\ RoundInv'
  BY <1>1 DEF TxTest, TxPolled, TxUnlinked, RoundInv, LibusbInv
<1> QED
  BY <1>1, <1>2, QuietStep

\* A command that leaves the transfers and the answers alone.
LEMMA DropKeeps ==
    ASSUME LibusbInv, inbox # <<>>, inbox' = Tail(inbox), issued' = issued,
           UNCHANGED <<priv, trx, privTx, unlinkTx, sent, tx, main>>
    PROVE  LibusbInv'
<1> USE DEF LibusbInv
<1>1. inbox' \in Seq(Cmds) /\ WireInv' /\ Taken' = Taken + 1 /\ Taken \in Nat
  BY TakeHead, TakenFacts
<1>2. \A t : /\ UnlinkTaken(t) => UnlinkTaken(t)'
             /\ Settled(t) => Settled(t)'
  BY <1>1 DEF UnlinkTaken, Settled, Answered
<1>3. LibusbTypes'
  BY <1>1 DEF LibusbTypes
<1>4. PrivsInv'
  <2> SUFFICES ASSUME NEW n \in Seqnum PROVE PrivInv(n)'
    BY DEF PrivsInv
  <2>1. PrivInv(n) /\ n \in Nat
    BY DEF PrivsInv, Seqnum
  <2> QED
    BY <1>1, <1>2, <2>1 DEF PrivInv
<1>5. LateInv'
  BY <1>1, <1>2 DEF LateInv, Late
<1>6. SentInv'
  BY <1>1 DEF SentInv
<1> QED
  BY <1>1, <1>3, <1>4, <1>5, <1>6 DEF RoundInv, QueueInv

\* A command that stub_rx refuses.
LEMMA RefuseKeeps == LibusbInv /\ RxRefuse => LibusbInv'
<1> SUFFICES ASSUME LibusbInv, RxRefuse PROVE LibusbInv'
  OBVIOUS
<1>1. /\ inbox' = IF inbox = <<>> THEN inbox ELSE Tail(inbox)
      /\ UNCHANGED <<issued, priv, trx, privTx, unlinkTx, sent, tx, main>>
  BY DEF RxRefuse, dataVars, mainVars
<1>2. CASE inbox = <<>>
  BY <1>1, <1>2, QuietStep DEF RoundInv, LibusbInv
<1>3. CASE inbox # <<>>
  BY <1>1, <1>3, DropKeeps
<1> QED
  BY <1>2, <1>3


\* A submit: its transfer goes to the device and its priv to priv_init, or it
\* is never tried.
LEMMA SubmitKeeps == LibusbInv /\ RxSubmit => LibusbInv'
<1> SUFFICES ASSUME LibusbInv, RxSubmit PROVE LibusbInv'
  OBVIOUS
<1> USE DEF LibusbInv
<1>0. /\ inbox # <<>> /\ inbox' = Tail(inbox)
      /\ UNCHANGED <<issued, sent, tx, privTx, unlinkTx, main>>
  BY DEF RxSubmit, Accepts, mainVars
<1>1. /\ inbox' \in Seq(Cmds) /\ WireInv' /\ Taken' = Taken + 1 /\ Taken \in Nat
      /\ Head(inbox).seq = Taken + 1 /\ Taken + 1 \in Seqnum
  BY <1>0, TakeHead, TakenFacts
<1>2. \A t : /\ UnlinkTaken(t) => UnlinkTaken(t)'
             /\ Settled(t) => Settled(t)'
  BY <1>0, <1>1 DEF UnlinkTaken, Settled, Answered
<1>3. PICK n \in Seqnum : n = Taken + 1 /\ n = Head(inbox).seq
  BY <1>1
<1>4. /\ trx' \in [Seqnum -> Trxs]
      /\ priv' \in [Seqnum -> Privs]
      /\ \A m \in Seqnum \ {n} : trx'[m] = trx[m] /\ priv'[m] = priv[m]
      /\ \/ priv'[n] = priv[n] /\ trx'[n] = "none"
         \/ priv'[n] = [list |-> "init", seq |-> n, unlinking |-> FALSE]
  <2>1. PICK t \in Trxs :
          \/ UNCHANGED <<priv, trx>>
          \/ /\ priv' = [priv EXCEPT ![n] =
                            [list |-> "init", seq |-> n, unlinking |-> FALSE]]
             /\ trx' = [trx EXCEPT ![n] = t]
    BY <1>3 DEF RxSubmit, Trxs
  <2>2. n \in Nat /\ trx[n] = "none"
    BY <1>1, <1>3 DEF PrivsInv, PrivInv, Seqnum
  <2>3. [list |-> "init", seq |-> n, unlinking |-> FALSE] \in Privs
    BY <2>2 DEF Privs
  <2>4. trx \in [Seqnum -> Trxs] /\ priv \in [Seqnum -> Privs]
    BY DEF LibusbTypes
  <2>5. CASE UNCHANGED <<priv, trx>>
    BY <2>2, <2>4, <2>5
  <2>6. CASE /\ priv' = [priv EXCEPT ![n] =
                            [list |-> "init", seq |-> n, unlinking |-> FALSE]]
             /\ trx' = [trx EXCEPT ![n] = t]
    BY <2>3, <2>4, <2>6
  <2> QED
    BY <2>1, <2>5, <2>6
<1>5. LibusbTypes'
  BY <1>0, <1>1, <1>4 DEF LibusbTypes
<1>6. PrivsInv'
  <2> SUFFICES ASSUME NEW m \in Seqnum PROVE PrivInv(m)'
    BY DEF PrivsInv
  <2>0. PrivInv(m) /\ m \in Nat
    BY DEF PrivsInv, Seqnum
  <2>1. CASE m # n
    BY <1>0, <1>1, <1>2, <1>4, <2>0, <2>1 DEF PrivInv
  <2>2. CASE m = n
    <3>1. priv[n].list = "none"
      BY <1>1, <1>3, <2>0, <2>2 DEF PrivInv
    <3>2. ~(n > Taken')
      BY <1>1, <1>3
    <3>3. CASE priv'[n] = priv[n] /\ trx'[n] = "none"
      BY <2>2, <3>1, <3>2, <3>3 DEF PrivInv
    <3>4. CASE priv'[n] = [list |-> "init", seq |-> n, unlinking |-> FALSE]
      BY <2>2, <3>2, <3>4 DEF PrivInv
    <3> QED
      BY <1>4, <3>3, <3>4
  <2> QED
    BY <2>1, <2>2
<1>7. \A t \in 1 .. Taken : t \in 1 .. Taken' /\ trx'[t] = trx[t]
  <2>1. \A t \in 1 .. Taken : t \in Seqnum \ {n} /\ t \in 1 .. Taken'
    BY <1>1, <1>3, TakenFacts
  <2> QED
    BY <1>4, <2>1
<1>8. LateInv'
  BY <1>0, <1>2, <1>7 DEF LateInv, Late
<1>9. SentInv'
  BY <1>0, <1>7 DEF SentInv
<1>10. QueueInv'
  <2>1. trx[n] = "none"
    BY <1>1, <1>3 DEF PrivsInv, PrivInv, Seqnum
  <2>2. \A k \in 1 .. Len(privTx) : privTx[k] \in Seqnum \ {n}
    BY <2>1 DEF QueueInv, LibusbTypes
  <2> QED
    BY <1>0, <1>4, <2>2 DEF QueueInv
<1> QED
  BY <1>0, <1>1, <1>5, <1>6, <1>8, <1>9, <1>10 DEF RoundInv

\* A transfer that ends or is cancelled was and stays one that was tried.
LEMMA TransferKeeps ==
    ASSUME LibusbInv, NEW n,
           \E v \in {"completed", "cancelled"} :
                trx' = [trx EXCEPT ![n] = IF @ = "flying" THEN v ELSE @],
           UNCHANGED <<issued, inbox, priv, privTx, unlinkTx, sent, tx, main>>
    PROVE  LibusbInv'
<1> USE DEF LibusbInv
<1>1. trx' \in [Seqnum -> Trxs]
  BY DEF LibusbTypes, Trxs
<1>2. \A m \in Seqnum : trx'[m] = "none" <=> trx[m] = "none"
  BY DEF LibusbTypes
<1>3. Taken' = Taken /\ WireInv' /\ 1 .. Taken \subseteq Seqnum
  BY TakenFacts DEF Taken, WireInv
<1>4. \A t : /\ UnlinkTaken(t) => UnlinkTaken(t)'
             /\ Settled(t) => Settled(t)'
  BY <1>3 DEF UnlinkTaken, Settled, Answered
<1>5. LibusbTypes'
  BY <1>1 DEF LibusbTypes
<1>6. PrivsInv'
  BY <1>2, <1>3, <1>4 DEF PrivsInv, PrivInv
<1>7. LateInv'
  BY <1>2, <1>3, <1>4 DEF LateInv, Late
<1>8. SentInv'
  BY <1>2, <1>3 DEF SentInv
<1>9. QueueInv'
  <2>1. \A k \in 1 .. Len(privTx) : privTx[k] \in Seqnum
    BY DEF LibusbTypes
  <2> QED
    BY <1>2, <2>1 DEF QueueInv
<1> QED
  BY <1>3, <1>5, <1>6, <1>7, <1>8, <1>9 DEF RoundInv

\* libusb completes a transfer; stub_rx cancels one.
LEMMA CompleteKeeps ==
    LibusbInv /\ (RxCancel \/ \E n \in Seqnum : Complete(n)) => LibusbInv'
<1>1. ASSUME LibusbInv, RxCancel PROVE LibusbInv'
  <2>1. /\ trx' = [trx EXCEPT ![rx[2]] = IF @ = "flying" THEN "cancelled" ELSE @]
        /\ UNCHANGED <<issued, inbox, priv, privTx, unlinkTx, sent, tx, main>>
    BY <1>1 DEF RxCancel, netVars, mainVars
  <2>2. PICK n : n = rx[2]
    OBVIOUS
  <2> QED
    BY <1>1, <2>1, <2>2, TransferKeeps
<1>2. ASSUME LibusbInv, NEW n \in Seqnum, Complete(n) PROVE LibusbInv'
  <2>1. /\ trx[n] = "flying" /\ trx' = [trx EXCEPT ![n] = "completed"]
        /\ UNCHANGED <<issued, inbox, priv, privTx, unlinkTx, sent, tx, main>>
    BY <1>2 DEF Complete, netVars, mainVars
  <2>2. trx' = [trx EXCEPT ![n] = IF @ = "flying" THEN "completed" ELSE @]
    BY <2>1
  <2> QED
    BY <1>2, <2>1, <2>2, TransferKeeps
<1> QED
  BY <1>1, <1>2


\* An answer that joins unlink_tx.
LEMMA LateAppend ==
    ASSUME unlinkTx \in Seq(Unlinks), LateInv, NEW u \in Unlinks,
           unlinkTx' \in {unlinkTx, Append(unlinkTx, u)},
           \A x \in Unlinks : Late(x) => Late(x)', Late(u)'
    PROVE  unlinkTx' \in Seq(Unlinks) /\ LateInv'
<1>1. CASE unlinkTx' = unlinkTx
  <2>1. \A i \in 1 .. Len(unlinkTx) : unlinkTx[i] \in Unlinks
    OBVIOUS
  <2>2. ASSUME NEW i \in 1 .. Len(unlinkTx')
        PROVE  \E x \in Unlinks : x = unlinkTx'[i] /\ Late(x)'
    BY <1>1, <2>1 DEF LateInv
  <2> QED
    BY <1>1, <2>2 DEF LateInv, Late
<1>2. CASE unlinkTx' = Append(unlinkTx, u)
  <2>1. /\ unlinkTx' \in Seq(Unlinks) /\ Len(unlinkTx') = Len(unlinkTx) + 1
        /\ \A i \in 1 .. Len(unlinkTx) : unlinkTx'[i] = unlinkTx[i]
        /\ unlinkTx'[Len(unlinkTx) + 1] = u
    BY <1>2, AppendProperties
  <2>2. ASSUME NEW i \in 1 .. Len(unlinkTx')
        PROVE  \E x \in Unlinks : x = unlinkTx'[i] /\ Late(x)'
    <3>1. CASE i = Len(unlinkTx) + 1
      BY <2>1, <3>1
    <3>2. CASE i # Len(unlinkTx) + 1
      <4>1. i \in 1 .. Len(unlinkTx) /\ unlinkTx[i] \in Unlinks
        BY <2>1, <3>2
      <4>2. Late(unlinkTx[i])
        BY <4>1 DEF LateInv
      <4>3. PICK x \in Unlinks : x = unlinkTx[i]
        BY <4>1
      <4>4. Late(x)
        BY <4>2, <4>3
      <4> QED
        BY <2>1, <4>1, <4>3, <4>4
    <3> QED
      BY <3>1, <3>2
  <2> QED
    BY <2>1, <2>2 DEF LateInv, Late
<1> QED
  BY <1>1, <1>2

\* An unlink finds the transfer it names on priv_init, or the result of it is
\* settled.
LEMMA UnlinkKeeps == LibusbInv /\ RxUnlink => LibusbInv'
<1> SUFFICES ASSUME LibusbInv, RxUnlink PROVE LibusbInv'
  OBVIOUS
<1> USE DEF LibusbInv
<1> DEFINE c == Head(inbox)
           pending == {m \in Seqnum : priv[m].list = "init" /\ priv[m].seq = c.target}
<1>0. /\ inbox # <<>> /\ inbox' = Tail(inbox) /\ c.kind = "UNLINK"
      /\ UNCHANGED <<issued, sent, tx, trx, privTx, main>>
  BY DEF RxUnlink, Accepts, mainVars
<1>1. /\ inbox' \in Seq(Cmds) /\ WireInv' /\ Taken' = Taken + 1 /\ Taken \in Nat
      /\ c = issued[Taken + 1] /\ c.seq = Taken + 1
      /\ Taken + 1 \in Seqnum /\ Taken + 1 \in 1 .. Len(issued)
  BY <1>0, TakeHead, TakenFacts
<1>2. \A t : /\ UnlinkTaken(t) => UnlinkTaken(t)'
             /\ Settled(t) => Settled(t)'
  <2>1. \A t : UnlinkTaken(t) => UnlinkTaken(t)'
    BY <1>0, <1>1 DEF UnlinkTaken
  <2>2. \A t : Settled(t) => Settled(t)'
    BY <1>0 DEF Settled, Answered
  <2> QED
    BY <2>1, <2>2
<1>3. PICK t \in 1 .. Taken : t = c.target /\ issued[t].kind = "SUBMIT"
  <2>1. /\ issued[Taken + 1].target \in 1 .. (Taken + 1) - 1
        /\ issued[issued[Taken + 1].target].kind = "SUBMIT"
    <3>1. issued[Taken + 1].kind = "UNLINK"
      BY <1>0, <1>1
    <3> QED
      BY <1>1, <3>1 DEF WireInv
  <2> QED
    BY <1>1, <2>1
<1>4. t \in Seqnum /\ PrivInv(t)
  BY <1>3, TakenFacts DEF PrivsInv
<1>5. UnlinkTaken(t)' /\ ~UnlinkTaken(t)
  <2>1. UnlinkTaken(t)'
    BY <1>0, <1>1, <1>3 DEF UnlinkTaken
  <2>2. ~UnlinkTaken(t)
    BY <1>0, <1>1, <1>3, TakenFacts DEF UnlinkTaken, WireInv
  <2> QED
    BY <2>1, <2>2
<1>6. pending \subseteq {t}
  <2> SUFFICES ASSUME NEW m \in Seqnum, priv[m].list = "init", priv[m].seq = t
               PROVE  m = t
    BY <1>3
  <2> QED
    BY <1>3 DEF PrivsInv, PrivInv
<1>7. SentInv'
  BY <1>0, <1>1 DEF SentInv
<1>8. CASE pending # {}
  <2>1. /\ priv' = [priv EXCEPT ![t].unlinking = TRUE, ![t].seq = c.seq]
        /\ unlinkTx' = unlinkTx /\ priv[t].list = "init"
    BY <1>6, <1>8 DEF RxUnlink
  <2>2. priv \in [Seqnum -> Privs] /\ priv[t] \in Privs /\ c.seq \in Nat
    BY <1>1, <1>4 DEF LibusbTypes
  <2>3. PICK p \in Privs : /\ p.list = "init" /\ p.unlinking /\ p.seq = Taken + 1
                           /\ priv' = [priv EXCEPT ![t] = p]
    <3>1. [priv[t] EXCEPT !.unlinking = TRUE, !.seq = c.seq] \in Privs
      BY <2>2 DEF Privs
    <3>2. priv' = [priv EXCEPT ![t] = [priv[t] EXCEPT !.unlinking = TRUE, !.seq = c.seq]]
      BY <2>1, <2>2, <1>4
    <3>3. /\ [priv[t] EXCEPT !.unlinking = TRUE, !.seq = c.seq].list = "init"
          /\ [priv[t] EXCEPT !.unlinking = TRUE, !.seq = c.seq].unlinking = TRUE
          /\ [priv[t] EXCEPT !.unlinking = TRUE, !.seq = c.seq].seq = c.seq
      BY <2>1, <2>2 DEF Privs
    <3> QED
      BY <1>1, <3>1, <3>2, <3>3
  <2>4. /\ priv' \in [Seqnum -> Privs] /\ priv'[t] = p
        /\ \A m \in Seqnum \ {t} : priv'[m] = priv[m]
    BY <1>4, <2>2, <2>3
  <2>5. PrivsInv'
    <3> SUFFICES ASSUME NEW m \in Seqnum PROVE PrivInv(m)'
      BY DEF PrivsInv
    <3>0. PrivInv(m) /\ m \in Nat
      BY DEF PrivsInv, Seqnum
    <3>1. CASE m # t
      BY <1>0, <1>1, <1>2, <2>4, <3>0, <3>1 DEF PrivInv
    <3>2. CASE m = t
      <4>1. issued'[Taken + 1].kind = "UNLINK" /\ Taken + 1 \in 1 .. Taken' /\ ~(t > Taken')
        BY <1>0, <1>1, <1>3
      <4> QED
        BY <1>5, <2>3, <2>4, <3>2, <4>1 DEF PrivInv
    <3> QED
      BY <3>1, <3>2
  <2>6. LateInv'
    <3>1. ASSUME NEW x \in Unlinks, Late(x) PROVE Late(x)'
      BY <1>0, <1>1, <1>2, <3>1 DEF Late
    <3>2. \E u \in Unlinks : Late(u)'
      <4>1. [seq |-> 0, target |-> 0, why |-> "freed"] \in Unlinks
        BY DEF Unlinks, Whys, Trxs
      <4> QED
        BY <4>1 DEF Late
    <3> QED
      BY <2>1, <3>1, <3>2, LateAppend DEF LibusbTypes
  <2>7. LibusbTypes'
    BY <1>0, <1>1, <2>1, <2>4 DEF LibusbTypes
  <2> QED
    BY <1>0, <1>1, <1>7, <2>5, <2>6, <2>7 DEF RoundInv, QueueInv
<1>9. CASE pending = {}
  <2>0. priv' = priv /\ EnqueueRetUnlink([seq |-> c.seq, target |-> c.target, why |-> "not_pending"])
    BY <1>9 DEF RxUnlink
  <2>1. PICK u \in Unlinks : u.target = t /\ unlinkTx' \in {unlinkTx, Append(unlinkTx, u)}
    <3>1. c.seq \in Nat /\ c.target \in Nat
      BY <1>1, <1>3
    <3>2. [seq |-> c.seq, target |-> c.target, why |-> "not_pending"] \in Unlinks
      BY <3>1 DEF Unlinks, Whys
    <3> QED
      BY <1>3, <2>0, <3>2 DEF EnqueueRetUnlink
  <2>2. trx[t] = "none" \/ Settled(t)
    <3>1. ~(priv[t].list = "init" /\ priv[t].seq = t)
      BY <1>3, <1>4, <1>9
    <3>2. priv[t].list # "init"
      BY <1>4, <1>5, <3>1 DEF PrivInv
    <3> QED
      BY <1>4, <1>5, <3>2 DEF PrivInv
  <2>3. Late(u)'
    BY <1>0, <1>1, <1>2, <1>3, <2>1, <2>2 DEF Late
  <2>4. \A x \in Unlinks : Late(x) => Late(x)'
    BY <1>0, <1>1, <1>2 DEF Late
  <2>5. unlinkTx' \in Seq(Unlinks) /\ LateInv'
    BY <2>1, <2>3, <2>4, LateAppend DEF LibusbTypes
  <2>6. PrivsInv'
    <3> SUFFICES ASSUME NEW m \in Seqnum PROVE PrivInv(m)'
      BY DEF PrivsInv
    <3>0. PrivInv(m) /\ m \in Nat
      BY DEF PrivsInv, Seqnum
    <3> QED
      BY <1>0, <1>1, <1>2, <2>0, <3>0 DEF PrivInv
  <2>7. LibusbTypes'
    BY <1>0, <1>1, <2>0, <2>5 DEF LibusbTypes
  <2> QED
    BY <1>0, <1>1, <1>7, <2>5, <2>6, <2>7 DEF RoundInv, QueueInv
<1> QED
  BY <1>8, <1>9


\* stub_complete: the answer to the unlink of the transfer, or its result.
LEMMA StubCompleteKeeps ==
    ASSUME LibusbInv, NEW n \in Seqnum, TxComplete(n)
    PROVE  LibusbInv'
<1> USE DEF LibusbInv
<1>0. /\ tx = "poll" /\ UNCHANGED <<issued, inbox, sent, tx, main>>
      /\ trx[n] \in {"completed", "cancelled"} /\ priv[n].list = "init"
  BY DEF TxComplete, StubComplete, netVars, mainVars
<1>1. Taken' = Taken /\ WireInv' /\ 1 .. Taken \subseteq Seqnum
  BY <1>0, TakenFacts DEF Taken, WireInv
<1>2. \A t : UnlinkTaken(t) => UnlinkTaken(t)'
  BY <1>0, <1>1 DEF UnlinkTaken
<1>3. PrivInv(n) /\ n <= Taken
  <2>1. PrivInv(n)
    BY DEF PrivsInv
  <2> QED
    BY <1>0, <2>1, TakenFacts DEF PrivInv, Seqnum
<1>4. priv \in [Seqnum -> Privs] /\ trx \in [Seqnum -> Trxs] /\ privTx \in Seq(Seqnum)
  BY DEF LibusbTypes
<1>5. CASE priv[n].unlinking
  <2>1. /\ EnqueueRetUnlink([seq |-> priv[n].seq, target |-> n, why |-> trx[n]])
        /\ priv' = [priv EXCEPT ![n] = NoPriv]
        /\ trx' = [trx EXCEPT ![n] = "freed"]
        /\ UNCHANGED privTx
    BY <1>5 DEF TxComplete, StubComplete
  <2>2. PICK u \in Unlinks : /\ u.why # "not_pending"
                             /\ unlinkTx' \in {unlinkTx, Append(unlinkTx, u)}
    <3>1. [seq |-> priv[n].seq, target |-> n, why |-> trx[n]] \in Unlinks
      BY <1>4 DEF Unlinks, Whys, Seqnum, Privs
    <3>2. [seq |-> priv[n].seq, target |-> n, why |-> trx[n]].why # "not_pending"
      BY <1>0
    <3> QED
      BY <2>1, <3>1, <3>2 DEF EnqueueRetUnlink
  <2>3. /\ trx' \in [Seqnum -> Trxs] /\ priv' \in [Seqnum -> Privs]
        /\ trx'[n] = "freed" /\ priv'[n] = NoPriv
        /\ \A m \in Seqnum \ {n} : trx'[m] = trx[m] /\ priv'[m] = priv[m]
    BY <1>4, <2>1 DEF Trxs, Privs, NoPriv
  <2>4. \A m \in Seqnum : trx'[m] = "none" <=> trx[m] = "none"
    BY <1>0, <2>3
  <2>5. \A t : Settled(t) => Settled(t)'
    BY <1>0, <2>1 DEF Settled, Answered
  <2>6. PrivsInv'
    <3> SUFFICES ASSUME NEW m \in Seqnum PROVE PrivInv(m)'
      BY DEF PrivsInv
    <3>1. CASE m = n
      <4>1. UnlinkTaken(n)' /\ ~(n > Taken')
        BY <1>0, <1>1, <1>2, <1>3, <1>5, TakenFacts DEF PrivInv, Seqnum
      <4> QED
        BY <2>3, <3>1, <4>1 DEF PrivInv, NoPriv
    <3>2. CASE m # n
      <4>1. PrivInv(m)
        BY DEF PrivsInv
      <4> QED
        BY <1>0, <1>1, <1>2, <2>3, <2>5, <3>2, <4>1 DEF PrivInv
    <3> QED
      BY <3>1, <3>2
  <2>7. unlinkTx' \in Seq(Unlinks) /\ LateInv'
    <3>1. ASSUME NEW x \in Unlinks, Late(x) PROVE Late(x)'
      BY <1>1, <2>4, <2>5, <3>1 DEF Late
    <3>2. Late(u)'
      BY <2>2 DEF Late
    <3> QED
      BY <2>2, <3>1, <3>2, LateAppend DEF LibusbTypes
  <2>8. SentInv'
    BY <1>0, <1>1, <2>4 DEF SentInv
  <2>9. QueueInv'
    BY <1>4, <2>1, <2>4 DEF QueueInv
  <2>10. LibusbTypes'
    BY <1>0, <2>1, <2>3, <2>7 DEF LibusbTypes
  <2> QED
    BY <1>0, <1>1, <2>6, <2>7, <2>8, <2>9, <2>10 DEF RoundInv
<1>6. CASE ~priv[n].unlinking
  <2>1. /\ privTx' = Append(privTx, n)
        /\ priv' = [priv EXCEPT ![n].list = "tx"]
        /\ UNCHANGED <<trx, unlinkTx>>
    BY <1>6 DEF TxComplete, StubComplete
  <2>2. /\ privTx' \in Seq(Seqnum) /\ Len(privTx') = Len(privTx) + 1
        /\ \A i \in 1 .. Len(privTx) : privTx'[i] = privTx[i]
        /\ privTx'[Len(privTx) + 1] = n
    BY <1>4, <2>1, AppendProperties
  <2>3. /\ priv' \in [Seqnum -> Privs] /\ priv'[n].list = "tx"
        /\ \A m \in Seqnum \ {n} : priv'[m] = priv[m]
    BY <1>4, <2>1 DEF Privs
  <2>4. \A t : Settled(t) => Settled(t)'
    BY <1>0, <1>4, <2>2 DEF Settled, Answered
  <2>5. Settled(n)'
    BY <1>4, <2>2 DEF Settled
  <2>6. PrivsInv'
    <3> SUFFICES ASSUME NEW m \in Seqnum PROVE PrivInv(m)'
      BY DEF PrivsInv
    <3>1. CASE m = n
      <4>1. ~(n > Taken')
        BY <1>1, <1>3, TakenFacts DEF Seqnum
      <4> QED
        BY <1>0, <2>1, <2>3, <2>5, <3>1, <4>1 DEF PrivInv
    <3>2. CASE m # n
      <4>1. PrivInv(m)
        BY DEF PrivsInv
      <4> QED
        BY <1>0, <1>1, <1>2, <2>1, <2>3, <2>4, <3>2, <4>1 DEF PrivInv
    <3> QED
      BY <3>1, <3>2
  <2>7. LateInv'
    BY <1>1, <2>1, <2>4 DEF LateInv, Late
  <2>8. SentInv'
    BY <1>0, <1>1, <2>1 DEF SentInv
  <2>9. QueueInv'
    BY <1>0, <1>4, <2>1, <2>2 DEF QueueInv
  <2>10. LibusbTypes'
    BY <1>0, <2>1, <2>2, <2>3 DEF LibusbTypes
  <2> QED
    BY <1>0, <1>1, <2>6, <2>7, <2>8, <2>9, <2>10 DEF RoundInv
<1> QED
  BY <1>5, <1>6

\* An answer goes out, or stub_tx ends.
LEMMA SendFacts ==
    ASSUME sent \in Seq(Answers), NEW a \in Answers, Send(a)
    PROVE  /\ sent' \in Seq(Answers) /\ Len(sent) <= Len(sent')
           /\ \A i \in 1 .. Len(sent) : sent'[i] = sent[i]
           /\ \/ tx' = "end" /\ sent' = sent
              \/ /\ tx' = tx /\ Len(sent') = Len(sent) + 1
                 /\ sent'[Len(sent) + 1] = a
BY AppendProperties, SMTT(60) DEF Send

\* The round of results: the first of priv_tx is answered.
LEMMA RetSubmitKeeps == LibusbInv /\ TxRetSubmit => LibusbInv'
<1> SUFFICES ASSUME LibusbInv, TxRetSubmit PROVE LibusbInv'
  OBVIOUS
<1> USE DEF LibusbInv
<1>0. /\ tx = "ret_submit" /\ privTx # <<>> /\ privTx' = Tail(privTx)
      /\ UNCHANGED <<issued, inbox, trx, unlinkTx, main>>
  BY DEF TxRetSubmit, netVars, mainVars
<1>1. Taken' = Taken /\ WireInv' /\ 1 .. Taken \subseteq Seqnum
  BY <1>0, TakenFacts DEF Taken, WireInv
<1>2. \A t : UnlinkTaken(t) => UnlinkTaken(t)'
  BY <1>0, <1>1 DEF UnlinkTaken
<1>3. /\ priv \in [Seqnum -> Privs] /\ trx \in [Seqnum -> Trxs] /\ privTx \in Seq(Seqnum)
      /\ sent \in Seq(Answers)
  BY DEF LibusbTypes
<1>4. /\ privTx' \in Seq(Seqnum) /\ Len(privTx') = Len(privTx) - 1 /\ Len(privTx) >= 1
      /\ \A i \in 1 .. Len(privTx) - 1 : privTx'[i] = privTx[i + 1]
      /\ Head(privTx) = privTx[1]
  BY <1>0, <1>3, HeadTailProperties
<1>5. PICK n \in Seqnum : n = Head(privTx) /\ n = privTx[1]
  BY <1>3, <1>4
<1>6. /\ Send([kind |-> "RET_SUBMIT", seq |-> n, target |-> n, why |-> trx[n]])
      /\ priv' = [priv EXCEPT ![n].list = "free"]
  BY <1>5 DEF TxRetSubmit
<1>7. PICK a \in Answers : a.kind = "RET_SUBMIT" /\ a.seq = n /\ Send(a)
  <2>1. [kind |-> "RET_SUBMIT", seq |-> n, target |-> n, why |-> trx[n]] \in Answers
    BY <1>3, SMTT(60) DEF Answers, Whys, Seqnum
  <2> QED
    BY <1>6, <2>1
<1>8. /\ sent' \in Seq(Answers) /\ Len(sent) <= Len(sent')
      /\ \A i \in 1 .. Len(sent) : sent'[i] = sent[i]
      /\ \/ tx' = "end" /\ sent' = sent
         \/ /\ tx' = tx /\ Len(sent') = Len(sent) + 1
            /\ sent'[Len(sent) + 1] = a
  BY <1>3, <1>7, SendFacts
<1>9. \A t : Settled(t) => Settled(t)'
  <2>1. Settled(n)'
    BY <1>3, <1>7, <1>8 DEF Settled, Answered
  <2>2. ASSUME NEW t, Settled(t), t # n PROVE Settled(t)'
    <3>1. CASE Answered(t)
      <4>1. Answered(t)'
        BY <1>3, <1>8, <3>1 DEF Answered
      <4> QED
        BY <4>1 DEF Settled
    <3>2. CASE tx = "end"
      BY <1>0, <3>2
    <3>3. CASE \E j \in 1 .. Len(privTx) : privTx[j] = t
      <4>1. PICK j \in 1 .. Len(privTx) : privTx[j] = t
        BY <3>3
      <4>2. j # 1
        BY <1>5, <2>2, <4>1
      <4>3. j - 1 \in 1 .. Len(privTx') /\ privTx'[j - 1] = t
        BY <1>3, <1>4, <4>1, <4>2
      <4> QED
        BY <4>3 DEF Settled
    <3> QED
      BY <2>2, <3>1, <3>2, <3>3 DEF Settled
  <2> QED
    BY <2>1, <2>2
<1>10. /\ priv' \in [Seqnum -> Privs] /\ priv'[n].list = "free"
       /\ \A m \in Seqnum \ {n} : priv'[m] = priv[m]
  BY <1>3, <1>6 DEF Privs
<1>11. trx[n] # "none"
  BY <1>4, <1>5 DEF QueueInv
<1>12. PrivsInv'
  <2> SUFFICES ASSUME NEW m \in Seqnum PROVE PrivInv(m)'
    BY DEF PrivsInv
  <2>0. PrivInv(m)
    BY DEF PrivsInv
  <2>1. CASE m = n
    <3>1. Settled(n)'
      BY <1>3, <1>7, <1>8 DEF Settled, Answered
    <3>2. ~(n > Taken')
      BY <1>1, <1>11, <2>0, <2>1 DEF PrivInv
    <3> QED
      BY <1>0, <1>10, <1>11, <2>1, <3>1, <3>2 DEF PrivInv
  <2>2. CASE m # n
    BY <1>0, <1>1, <1>2, <1>9, <1>10, <2>0, <2>2 DEF PrivInv
  <2> QED
    BY <2>1, <2>2
<1>13. LateInv'
  BY <1>0, <1>1, <1>9 DEF LateInv, Late
<1>14. SentInv'
  <2> SUFFICES ASSUME NEW i \in 1 .. Len(sent'),
                      sent'[i].kind = "RET_UNLINK", sent'[i].why = "not_pending"
               PROVE  /\ sent'[i].target \in 1 .. Taken'
                      /\ \/ trx'[sent'[i].target] = "none"
                         \/ \E j \in 1 .. i - 1 :
                                sent'[j].kind = "RET_SUBMIT" /\ sent'[j].seq = sent'[i].target
    BY DEF SentInv
  <2>0. Len(sent) \in Nat /\ Len(sent') \in Nat /\ Len(sent') <= Len(sent) + 1
    BY <1>3, <1>8
  <2>1. i \in 1 .. Len(sent) /\ sent'[i] = sent[i]
    <3>1. i # Len(sent) + 1
      <4>1. sent'[Len(sent) + 1] = a \/ Len(sent') = Len(sent)
        BY <1>8
      <4> QED
        BY <1>7, <2>0, <4>1
    <3> QED
      BY <1>8, <2>0, <3>1
  <2>2. \A j \in 1 .. i - 1 : j \in 1 .. Len(sent)
    BY <2>0, <2>1
  <2>3. \A j \in 1 .. i - 1 : sent'[j] = sent[j]
    BY <1>8, <2>2
  <2> QED
    BY <1>0, <1>1, <2>1, <2>3 DEF SentInv
<1>15. QueueInv'
  BY <1>0, <1>3, <1>4 DEF QueueInv
<1>16. LibusbTypes'
  BY <1>0, <1>4, <1>8, <1>10 DEF LibusbTypes
<1>17. RoundInv'
  BY <1>0, <1>8 DEF RoundInv
<1> QED
  BY <1>1, <1>12, <1>13, <1>14, <1>15, <1>16, <1>17


\* The transfers whose result was sent are freed.
LEMMA SubmittedKeeps == LibusbInv /\ TxSubmitted => LibusbInv'
<1> SUFFICES ASSUME LibusbInv, TxSubmitted PROVE LibusbInv'
  OBVIOUS
<1> USE DEF LibusbInv
<1> DEFINE free == {n \in Seqnum : priv[n].list = "free"}
<1>0. /\ tx = "ret_submit" /\ tx' = "ret_unlink" /\ privTx = <<>>
      /\ UNCHANGED <<issued, inbox, sent, privTx, unlinkTx, main>>
      /\ priv' = [n \in Seqnum |-> IF n \in free THEN NoPriv ELSE priv[n]]
      /\ trx' = [n \in Seqnum |-> IF n \in free THEN "freed" ELSE trx[n]]
  BY DEF TxSubmitted, netVars, mainVars
<1>1. Taken' = Taken /\ WireInv' /\ 1 .. Taken \subseteq Seqnum
  BY <1>0, TakenFacts DEF Taken, WireInv
<1>2. \A t : /\ UnlinkTaken(t) => UnlinkTaken(t)'
             /\ Settled(t) => Settled(t)'
  BY <1>0, <1>1 DEF UnlinkTaken, Settled, Answered
<1>3. priv' \in [Seqnum -> Privs] /\ trx' \in [Seqnum -> Trxs]
  BY <1>0 DEF LibusbTypes, Privs, Trxs, NoPriv
<1>4. \A n \in Seqnum : trx'[n] = "none" <=> trx[n] = "none"
  BY <1>0 DEF PrivsInv, PrivInv
<1>5. PrivsInv'
  <2> SUFFICES ASSUME NEW n \in Seqnum PROVE PrivInv(n)'
    BY DEF PrivsInv
  <2>0. PrivInv(n)
    BY DEF PrivsInv
  <2>1. CASE n \in free
    <3>1. priv'[n] = NoPriv /\ trx'[n] = "freed" /\ trx[n] # "none" /\ priv[n].list = "free"
      BY <1>0, <2>0, <2>1 DEF PrivInv
    <3>2. UnlinkTaken(n)' \/ Settled(n)'
      BY <1>2, <2>0, <3>1 DEF PrivInv
    <3>3. ~(n > Taken')
      BY <1>1, <2>0, <3>1 DEF PrivInv
    <3> QED
      BY <3>1, <3>2, <3>3 DEF PrivInv, NoPriv
  <2>2. CASE n \notin free
    <3>1. priv'[n] = priv[n] /\ trx'[n] = trx[n]
      BY <1>0, <2>2
    <3> QED
      BY <1>0, <1>1, <1>2, <2>0, <3>1 DEF PrivInv
  <2> QED
    BY <2>1, <2>2
<1>6. LateInv'
  BY <1>0, <1>1, <1>2, <1>4 DEF LateInv, Late
<1>7. SentInv'
  BY <1>0, <1>1, <1>4 DEF SentInv
<1>8. QueueInv' /\ RoundInv'
  BY <1>0 DEF QueueInv, RoundInv
<1>9. LibusbTypes'
  BY <1>0, <1>3 DEF LibusbTypes
<1> QED
  BY <1>1, <1>5, <1>6, <1>7, <1>8, <1>9

\* The round of unlinks: no result waits on priv_tx any more, so what is
\* settled has been answered.
LEMMA RetUnlinkKeeps == LibusbInv /\ TxRetUnlink => LibusbInv'
<1> SUFFICES ASSUME LibusbInv, TxRetUnlink PROVE LibusbInv'
  OBVIOUS
<1> USE DEF LibusbInv
<1>0. /\ tx = "ret_unlink" /\ unlinkTx # <<>> /\ unlinkTx' = Tail(unlinkTx)
      /\ UNCHANGED <<issued, inbox, priv, trx, privTx, main>>
  BY DEF TxRetUnlink, netVars, mainVars
<1>1. Taken' = Taken /\ WireInv' /\ 1 .. Taken \subseteq Seqnum
  BY <1>0, TakenFacts DEF Taken, WireInv
<1>2. \A t : UnlinkTaken(t) => UnlinkTaken(t)'
  BY <1>0, <1>1 DEF UnlinkTaken
<1>3. unlinkTx \in Seq(Unlinks) /\ sent \in Seq(Answers)
  BY DEF LibusbTypes
<1>4. /\ unlinkTx' \in Seq(Unlinks) /\ Len(unlinkTx') = Len(unlinkTx) - 1
      /\ Len(unlinkTx) >= 1
      /\ \A i \in 1 .. Len(unlinkTx) - 1 : unlinkTx'[i] = unlinkTx[i + 1]
      /\ Head(unlinkTx) = unlinkTx[1]
  BY <1>0, <1>3, HeadTailProperties
<1>5. PICK u \in Unlinks : u = Head(unlinkTx) /\ u = unlinkTx[1]
  BY <1>3, <1>4
<1>6. PICK a \in Answers :
        /\ a.kind = "RET_UNLINK" /\ a.target = u.target /\ a.why = u.why /\ Send(a)
  <2>1. Send([kind |-> "RET_UNLINK", seq |-> u.seq, target |-> u.target, why |-> u.why])
    BY <1>5 DEF TxRetUnlink
  <2>2. [kind |-> "RET_UNLINK", seq |-> u.seq, target |-> u.target, why |-> u.why] \in Answers
    BY DEF Answers, Unlinks
  <2> QED
    BY <2>1, <2>2
<1>7. /\ sent' \in Seq(Answers) /\ Len(sent) <= Len(sent')
      /\ \A i \in 1 .. Len(sent) : sent'[i] = sent[i]
      /\ \/ tx' = "end" /\ sent' = sent
         \/ /\ tx' = tx /\ Len(sent') = Len(sent) + 1
            /\ sent'[Len(sent) + 1] = a
  BY <1>3, <1>6, SendFacts
<1>8. \A t : /\ Answered(t) => Answered(t)'
             /\ Settled(t) => Settled(t)'
  <2>1. \A t : Answered(t) => Answered(t)'
    BY <1>3, <1>7 DEF Answered
  <2> QED
    BY <1>0, <1>7, <2>1 DEF Settled
<1>9. PrivsInv'
  <2> SUFFICES ASSUME NEW n \in Seqnum PROVE PrivInv(n)'
    BY DEF PrivsInv
  <2>1. PrivInv(n)
    BY DEF PrivsInv
  <2> QED
    BY <1>0, <1>1, <1>2, <1>8, <2>1 DEF PrivInv
<1>10. LateInv'
  <2> SUFFICES ASSUME NEW i \in 1 .. Len(unlinkTx')
               PROVE  \E x \in Unlinks : x = unlinkTx'[i] /\ Late(x)'
    BY DEF LateInv, Late
  <2>1. /\ i + 1 \in 1 .. Len(unlinkTx) /\ unlinkTx'[i] = unlinkTx[i + 1]
        /\ unlinkTx[i + 1] \in Unlinks
    BY <1>3, <1>4
  <2>2. Late(unlinkTx[i + 1])
    BY <2>1 DEF LateInv
  <2>3. PICK x \in Unlinks : x = unlinkTx[i + 1]
    BY <2>1
  <2>4. Late(x)
    BY <2>2, <2>3
  <2>5. Late(x)'
    BY <1>0, <1>1, <1>8, <2>4 DEF Late
  <2> QED
    BY <2>1, <2>3, <2>5
<1>11. SentInv'
  <2> SUFFICES ASSUME NEW i \in 1 .. Len(sent'),
                      sent'[i].kind = "RET_UNLINK", sent'[i].why = "not_pending"
               PROVE  /\ sent'[i].target \in 1 .. Taken'
                      /\ \/ trx'[sent'[i].target] = "none"
                         \/ \E j \in 1 .. i - 1 :
                                sent'[j].kind = "RET_SUBMIT" /\ sent'[j].seq = sent'[i].target
    BY DEF SentInv
  <2>0. Len(sent) \in Nat /\ Len(sent') \in Nat /\ Len(sent') <= Len(sent) + 1
    BY <1>3, <1>7
  <2>1. CASE i \in 1 .. Len(sent)
    <3>1. sent'[i] = sent[i] /\ \A j \in 1 .. i - 1 : sent'[j] = sent[j]
      BY <1>7, <2>0, <2>1
    <3> QED
      BY <1>0, <1>1, <2>1, <3>1 DEF SentInv
  <2>2. CASE i \notin 1 .. Len(sent)
    <3>1. i = Len(sent) + 1 /\ sent'[i] = a
      BY <1>7, <2>0, <2>2
    <3>2. Late(u) /\ u.why = "not_pending"
      <4>1. Late(unlinkTx[1])
        BY <1>3, <1>4 DEF LateInv
      <4> QED
        BY <1>5, <1>6, <3>1, <4>1
    <3>3. u.target \in 1 .. Taken /\ (trx[u.target] = "none" \/ Settled(u.target))
      BY <3>2 DEF Late
    <3>4. Settled(u.target) => Answered(u.target)
      BY <1>0 DEF Settled, RoundInv
    <3>5. Answered(u.target) =>
            \E j \in 1 .. i - 1 : sent'[j].kind = "RET_SUBMIT" /\ sent'[j].seq = u.target
      BY <1>7, <2>0, <3>1 DEF Answered
    <3> QED
      BY <1>0, <1>1, <1>6, <3>1, <3>3, <3>4, <3>5
  <2> QED
    BY <2>1, <2>2
<1>12. QueueInv' /\ RoundInv'
  BY <1>0, <1>7 DEF QueueInv, RoundInv
<1>13. LibusbTypes'
  BY <1>0, <1>4, <1>7 DEF LibusbTypes
<1> QED
  BY <1>1, <1>9, <1>10, <1>11, <1>12, <1>13

\* The peer sends one more command, and unlinks a request at most once.
LEMMA PeerKeeps ==
    LibusbInv /\ (PeerSubmits \/ \E t \in Seqnum : PeerUnlinks(t)) => LibusbInv'
<1> SUFFICES ASSUME LibusbInv, PeerSubmits \/ \E t \in Seqnum : PeerUnlinks(t)
             PROVE  LibusbInv'
  OBVIOUS
<1> USE DEF LibusbInv
<1>0. issued \in Seq(Cmds) /\ inbox \in Seq(Cmds) /\ Len(issued) \in Nat /\ Len(inbox) \in Nat
  BY DEF LibusbTypes
<1>1. PICK c \in Cmds :
        /\ PeerSend(c) /\ c.seq = Len(issued) + 1
        /\ c.kind = "UNLINK" =>
            /\ c.target \in 1 .. Len(issued) /\ issued[c.target].kind = "SUBMIT"
            /\ \A n \in 1 .. Len(issued) : issued[n].target # c.target
  <2>1. CASE PeerSubmits
    <3>1. [kind |-> "SUBMIT", seq |-> Len(issued) + 1, target |-> 0] \in Cmds
      BY <1>0 DEF Cmds
    <3> QED
      BY <2>1, <3>1 DEF PeerSubmits
  <2>2. ASSUME NEW t \in Seqnum, PeerUnlinks(t)
        PROVE  \E c \in Cmds :
                /\ PeerSend(c) /\ c.seq = Len(issued) + 1 /\ c.target \in 1 .. Len(issued)
                /\ issued[c.target].kind = "SUBMIT"
                /\ \A n \in 1 .. Len(issued) : issued[n].target # c.target
    <3>1. [kind |-> "UNLINK", seq |-> Len(issued) + 1, target |-> t] \in Cmds
      BY <1>0 DEF Cmds, Seqnum
    <3>2. t \in 1 .. Len(issued)
      BY <1>0, <2>2 DEF PeerUnlinks, Seqnum
    <3> QED
      BY <2>2, <3>1, <3>2 DEF PeerUnlinks
  <2> QED
    BY <2>1, <2>2
<1>2. /\ Len(issued) < MaxCmds /\ issued' = Append(issued, c) /\ inbox' = Append(inbox, c)
      /\ UNCHANGED <<priv, trx, privTx, unlinkTx, sent, tx, main>>
  BY <1>1 DEF PeerSend, dataVars, mainVars
<1>3. /\ issued' \in Seq(Cmds) /\ Len(issued') = Len(issued) + 1
      /\ \A i \in 1 .. Len(issued) : issued'[i] = issued[i]
      /\ issued'[Len(issued) + 1] = c
  BY <1>0, <1>2, AppendProperties
<1>4. /\ inbox' \in Seq(Cmds) /\ Len(inbox') = Len(inbox) + 1
      /\ \A i \in 1 .. Len(inbox) : inbox'[i] = inbox[i]
      /\ inbox'[Len(inbox) + 1] = c
  BY <1>0, <1>2, AppendProperties
<1>5. Taken' = Taken /\ Taken \in Nat /\ Taken <= Len(issued)
  BY <1>0, <1>3, <1>4, TakenFacts DEF Taken
<1>6. WireInv'
  <2>1. Len(issued') <= MaxCmds /\ Len(inbox') <= Len(issued')
    <3>1. Len(inbox) <= Len(issued) /\ MaxCmds \in Nat
      BY LibusbAssumption DEF WireInv
    <3> QED
      BY <1>0, <1>2, <1>3, <1>4, <3>1
  <2>2. ASSUME NEW i \in 1 .. Len(inbox') PROVE inbox'[i] = issued'[Taken' + i]
    <3>1. CASE i \in 1 .. Len(inbox)
      <4>1. Taken + i \in 1 .. Len(issued) /\ inbox[i] = issued[Taken + i]
        BY <1>0, <1>5, <3>1 DEF WireInv, Taken
      <4> QED
        BY <1>3, <1>4, <1>5, <3>1, <4>1
    <3>2. CASE i \notin 1 .. Len(inbox)
      <4>1. i = Len(inbox) + 1 /\ Taken + i = Len(issued) + 1
        BY <1>0, <1>4, <3>2, SMTT(60) DEF Taken
      <4> QED
        BY <1>3, <1>4, <1>5, <4>1
    <3> QED
      BY <3>1, <3>2
  <2>3. ASSUME NEW n \in 1 .. Len(issued')
        PROVE  /\ issued'[n].seq = n
               /\ issued'[n].kind = "UNLINK" =>
                    /\ issued'[n].target \in 1 .. n - 1
                    /\ issued'[issued'[n].target].kind = "SUBMIT"
    <3>1. CASE n \in 1 .. Len(issued)
      <4>1. issued'[n] = issued[n] /\ \A m \in 1 .. n - 1 : issued'[m] = issued[m]
        BY <1>0, <1>3, <3>1
      <4> QED
        BY <3>1, <4>1 DEF WireInv
    <3>2. CASE n \notin 1 .. Len(issued)
      <4>1. n = Len(issued) + 1 /\ issued'[n] = c
        BY <1>0, <1>3, <3>2
      <4> QED
        BY <1>0, <1>1, <1>3, <4>1
    <3> QED
      BY <3>1, <3>2
  <2>4. ASSUME NEW m \in 1 .. Len(issued'), NEW n \in 1 .. Len(issued'),
               issued'[m].kind = "UNLINK", issued'[n].kind = "UNLINK",
               issued'[m].target = issued'[n].target
        PROVE  m = n
    <3>1. \A k \in 1 .. Len(issued') :
            \/ k \in 1 .. Len(issued) /\ issued'[k] = issued[k]
            \/ k = Len(issued) + 1 /\ issued'[k] = c
      BY <1>0, <1>3
    <3>2. CASE m \in 1 .. Len(issued) /\ n \in 1 .. Len(issued)
      BY <1>3, <2>4, <3>2 DEF WireInv
    <3>3. CASE ~(m \in 1 .. Len(issued) /\ n \in 1 .. Len(issued))
      BY <1>1, <2>4, <3>1, <3>3
    <3> QED
      BY <3>2, <3>3
  <2> QED
    BY <2>1, <2>2, <2>3, <2>4 DEF WireInv
<1>7. \A t : /\ UnlinkTaken(t) => UnlinkTaken(t)'
             /\ Settled(t) => Settled(t)'
  <2>1. \A t : UnlinkTaken(t) => UnlinkTaken(t)'
    BY <1>0, <1>3, <1>5, SMTT(60) DEF UnlinkTaken
  <2> QED
    BY <1>2, <2>1 DEF Settled, Answered
<1>8. \A m \in 1 .. Taken : issued'[m] = issued[m]
  BY <1>0, <1>3, <1>5
<1>9. PrivsInv'
  <2> SUFFICES ASSUME NEW n \in Seqnum PROVE PrivInv(n)'
    BY DEF PrivsInv
  <2>1. PrivInv(n)
    BY DEF PrivsInv
  <2> QED
    BY <1>2, <1>5, <1>7, <1>8, <2>1 DEF PrivInv
<1>10. LateInv'
  BY <1>2, <1>5, <1>7 DEF LateInv, Late
<1>11. SentInv' /\ QueueInv' /\ RoundInv'
  BY <1>2, <1>5 DEF SentInv, QueueInv, RoundInv
<1>12. LibusbTypes'
  BY <1>2, <1>3, <1>4 DEF LibusbTypes
<1> QED
  BY <1>6, <1>9, <1>10, <1>11, <1>12

-----------------------------------------------------------------------------
\* The result of a request is on the wire before the answer that its unlink
\* came too late: the completions are delivered by stub_tx itself, between the
\* round that sends the unlinks' answers and the round that sends the results
\* (libusb/stub/stub_tx.c, stub_send_ret_submit before stub_send_ret_unlink).
THEOREM ResultsComeFirst == LibusbSpec => []ResultBeforeUnlink
<1>1. LibusbInv /\ [LibusbNext]_libusbVars => LibusbInv'
  <2> SUFFICES ASSUME LibusbInv, [LibusbNext]_libusbVars PROVE LibusbInv'
    OBVIOUS
  <2>1. CASE MainStep \/ EhStep \/ RxTest \/ PeerCloses
    BY <2>1, MainKeeps, EventsKeep
  <2>2. CASE RxRefuse \/ RxSubmit \/ RxUnlink \/ RxCancel
    BY <2>2, RefuseKeeps, SubmitKeeps, UnlinkKeeps, CompleteKeeps
  <2>3. CASE TxTest \/ TxPolled \/ TxUnlinked \/ TxRetSubmit \/ TxSubmitted \/ TxRetUnlink
    BY <2>3, RoundsKeep, RetSubmitKeeps, SubmittedKeeps, RetUnlinkKeeps
  <2>4. CASE \E n \in Seqnum : TxComplete(n) \/ Complete(n)
    BY <2>4, StubCompleteKeeps, CompleteKeeps
  <2>5. CASE PeerSubmits \/ \E t \in Seqnum : PeerUnlinks(t)
    BY <2>5, PeerKeeps
  <2>6. CASE UNCHANGED libusbVars
    BY <2>6, QuietStep DEF libusbVars, RoundInv, LibusbInv
  <2> QED
    BY <2>1, <2>2, <2>3, <2>4, <2>5, <2>6 DEF LibusbNext, RxStep, TxStep
<1>2. LibusbInv => ResultBeforeUnlink
  BY DEF LibusbInv, SentInv, ResultBeforeUnlink
<1> QED
  BY <1>1, <1>2, LibusbInvInit, PTL DEF LibusbSpec

===============================================================================
