------------------------------ MODULE UxProofs ------------------------------
(***************************************************************************)
(* What holds of the userspace transport for every split of the messages   *)
(* into vectors, every size asked for and every size of the user's buffer: *)
(* read and write with their requests and answers are a byte stream in     *)
(* each direction.                                                         *)
(***************************************************************************)
EXTENDS UsbipUx, SequenceTheorems, TLAPS

-----------------------------------------------------------------------------
(* The inductive invariant. *)

Bytes == Seq(Nat)
KtxPcs == {"none", "idle", "get", "vec", "wait", "put", "fput", "failed"}
UtxPcs == {"none", "read", "wait", "copy", "send", "shutdown", "ended"}
UrxPcs == {"none", "recv", "write", "wait", "copy", "intr", "put", "ended"}

\* The values of the variables.
Uxs == [state : {"none", "open", "freed"}, linked : BOOLEAN, count : Int,
        int : BOOLEAN, lock : BOOLEAN]
Txs  == [bytes : Bytes, count : Nat, req : BOOLEAN, rsp : BOOLEAN, err : BOOLEAN]
Rxs  == [want : Nat, got : Bytes, req : BOOLEAN, rsp : BOOLEAN, err : BOOLEAN]
Ktxs == [pc : KtxPcs, at : Nat \ {0}, set : BOOLEAN]
Krxs == [pc : KtxPcs, at : Nat \ {0}, set : BOOLEAN, left : Nat, done : Bytes]
Utxs == [pc : UtxPcs, buf : Bytes]
Urxs == [pc : UrxPcs, buf : Bytes]
Socks == [in : Bytes, out : Bytes, open : BOOLEAN]
UxTypes == ux \in Uxs
TxTypes == tx \in Txs /\ ktx \in Ktxs /\ utx \in Utxs
RxTypes == rx \in Rxs /\ krx \in Krxs /\ urx \in Urxs
SockTypes == sock \in Socks

\* The sender's request is the vector the kernel is at, and is answered when
\* all of it has been read.
KtxInv ==
    /\ ktx.at <= Len(Vectors) + 1
    /\ ktx.pc \in {"get", "vec", "wait", "fput"} => ktx.at <= Len(Vectors)
    /\ ktx.pc \in {"none", "idle", "get", "vec", "put"} => ~ktx.set
    /\ ktx.pc \in {"wait", "fput"} => ktx.set
    /\ ktx.set => ktx.at <= Len(Vectors)
    /\ tx.count <= Len(tx.bytes)
    /\ tx.rsp => tx.count = Len(tx.bytes) \/ ux.int

\* The receiver's request is what is left of the size it asks for.
KrxInv ==
    /\ krx.pc \in {"none", "idle", "get", "vec", "put"} => ~krx.set
    /\ krx.pc \in {"wait", "fput"} => krx.set
    /\ krx.set => rx.want = krx.left
    /\ Len(rx.got) <= rx.want

\* A user thread fetches more only when its buffer is empty.
UserInv ==
    /\ utx.pc \in {"none", "read", "wait", "copy"} => utx.buf = <<>>
    /\ urx.pc \in {"none", "recv"} => urx.buf = <<>>

\* The threads of the kernel and of the user do not run before they are started.
MainInv ==
    /\ main \in {"setup", "attach"} => ktx.pc = "none" /\ krx.pc = "none"
    /\ main \in {"setup", "attach", "start"} => utx.pc = "none" /\ urx.pc = "none"

UxPart == UxTypes /\ TxTypes /\ RxTypes /\ SockTypes /\ KtxInv /\ KrxInv /\ UserInv
UxInv == UxPart /\ MainInv

-----------------------------------------------------------------------------
(* What is left of a sequence. *)

\* What follows the first n elements.
LEMMA RestFacts ==
    ASSUME NEW S, NEW s \in Seq(S), NEW n \in 0 .. Len(s)
    PROVE  /\ Rest(s, n) \in Seq(S) /\ Len(Rest(s, n)) = Len(s) - n
           /\ \A i \in 1 .. Len(s) - n : Rest(s, n)[i] = s[n + i]
<1>1. Len(s) \in Nat  BY LenProperties
<1>2. \A i \in n + 1 .. Len(s) : s[i] \in S  BY <1>1, ElementOfSeq
<1>3. Rest(s, n) \in Seq(S)  BY <1>1, <1>2, SubSeqProperties DEF Rest
<1>. QED  BY <1>1, <1>2, <1>3, SubSeqProperties DEF Rest

\* The first n elements.
LEMMA FirstFacts ==
    ASSUME NEW S, NEW s \in Seq(S), NEW n \in 0 .. Len(s)
    PROVE  /\ SubSeq(s, 1, n) \in Seq(S) /\ Len(SubSeq(s, 1, n)) = n
           /\ \A i \in 1 .. n : SubSeq(s, 1, n)[i] = s[i]
<1>1. Len(s) \in Nat  BY LenProperties
<1>2. \A i \in 1 .. n : s[i] \in S  BY <1>1, ElementOfSeq
<1>. QED  BY <1>1, <1>2, SubSeqProperties

\* A part that starts at c is a beginning of what follows c.
LEMMA PartFacts ==
    ASSUME NEW S, NEW s \in Seq(S), NEW c \in 0 .. Len(s), NEW n \in 0 .. Len(s) - c
    PROVE  SubSeq(s, c + 1, c + n) = SubSeq(Rest(s, c), 1, n)
<1>1. Len(s) \in Nat  BY LenProperties
<1>2. Rest(s, c) \in Seq(S) /\ Len(Rest(s, c)) = Len(s) - c
      /\ \A i \in 1 .. Len(s) - c : Rest(s, c)[i] = s[c + i]
  BY RestFacts
<1>3. SubSeq(Rest(s, c), 1, n) \in Seq(S) /\ Len(SubSeq(Rest(s, c), 1, n)) = n
      /\ \A i \in 1 .. n : SubSeq(Rest(s, c), 1, n)[i] = Rest(s, c)[i]
  BY <1>1, <1>2, FirstFacts
<1>4. \A i \in c + 1 .. c + n : s[i] \in S  BY <1>1, ElementOfSeq
<1>5. SubSeq(s, c + 1, c + n) \in Seq(S) /\ Len(SubSeq(s, c + 1, c + n)) = n
      /\ \A i \in 1 .. n : SubSeq(s, c + 1, c + n)[i] = s[c + i]
  BY <1>1, <1>4, SubSeqProperties
<1>. QED  BY <1>1, <1>2, <1>3, <1>5, SeqEqual

\* Leaving out m elements, then n.
LEMMA RestOfRest ==
    ASSUME NEW S, NEW s \in Seq(S), NEW m \in 0 .. Len(s), NEW n \in 0 .. Len(s) - m
    PROVE  Rest(Rest(s, m), n) = Rest(s, m + n)
<1>1. Len(s) \in Nat  BY LenProperties
<1>2. Rest(s, m) \in Seq(S) /\ Len(Rest(s, m)) = Len(s) - m
      /\ \A i \in 1 .. Len(s) - m : Rest(s, m)[i] = s[m + i]
  BY RestFacts
<1>. DEFINE r == Rest(s, m)
<1>3. n \in 0 .. Len(r)  BY <1>1, <1>2
<1>4. r \in Seq(S)  BY <1>2
<1>. HIDE DEF r
<1>5. Rest(r, n) \in Seq(S) /\ Len(Rest(r, n)) = Len(r) - n
      /\ \A i \in 1 .. Len(r) - n : Rest(r, n)[i] = r[n + i]
  BY <1>3, <1>4, RestFacts
<1>6. m + n \in 0 .. Len(s)  BY <1>1
<1>7. Rest(s, m + n) \in Seq(S) /\ Len(Rest(s, m + n)) = Len(s) - (m + n)
      /\ \A i \in 1 .. Len(s) - (m + n) : Rest(s, m + n)[i] = s[(m + n) + i]
  BY <1>6, RestFacts
<1>8. Len(r) = Len(s) - m /\ Len(r) \in Nat  BY <1>1, <1>2 DEF r
<1>9. \A i \in 1 .. Len(r) - n : Rest(r, n)[i] = Rest(s, m + n)[i]
  <2>. TAKE i \in 1 .. Len(r) - n
  <2>1. n + i \in 1 .. Len(s) - m /\ i \in 1 .. Len(s) - (m + n) /\ m + (n + i) = (m + n) + i
    BY <1>1, <1>8
  <2>2. r[n + i] = s[m + (n + i)]  BY <1>2, <2>1 DEF r
  <2>. QED  BY <1>5, <1>7, <2>1, <2>2
<1>10. Len(Rest(r, n)) = Len(Rest(s, m + n)) /\ Len(Rest(r, n)) = Len(r) - n
  <2>1. (Len(s) - m) - n = Len(s) - (m + n)  BY <1>1
  <2>. QED  BY <1>5, <1>7, <1>8, <2>1
<1>11. Rest(r, n) = Rest(s, m + n)  BY <1>5, <1>7, <1>9, <1>10, SeqEqual
<1>. QED  BY <1>11 DEF r

\* Taking n elements from a sequence that something follows.
LEMMA TakeFromConcat ==
    ASSUME NEW S, NEW s \in Seq(S), NEW t \in Seq(S), NEW n \in 0 .. Len(s)
    PROVE  /\ SubSeq(s \o t, 1, n) = SubSeq(s, 1, n)
           /\ SubSeq(s \o t, n + 1, Len(s \o t)) = Rest(s, n) \o t
<1>1. Len(s) \in Nat /\ Len(t) \in Nat  BY LenProperties
<1>2. s \o t \in Seq(S) /\ Len(s \o t) = Len(s) + Len(t)
      /\ \A i \in 1 .. Len(s) + Len(t) :
            (s \o t)[i] = IF i <= Len(s) THEN s[i] ELSE t[i - Len(s)]
  BY ConcatProperties
<1>3. n \in 0 .. Len(s \o t)  BY <1>1, <1>2
<1>4. SubSeq(s, 1, n) = SubSeq(s \o t, 1, n)
  <2>1. SubSeq(s \o t, 1, n) \in Seq(S) /\ Len(SubSeq(s \o t, 1, n)) = n
        /\ \A i \in 1 .. n : SubSeq(s \o t, 1, n)[i] = (s \o t)[i]
    BY <1>2, <1>3, FirstFacts
  <2>2. SubSeq(s, 1, n) \in Seq(S) /\ Len(SubSeq(s, 1, n)) = n
        /\ \A i \in 1 .. n : SubSeq(s, 1, n)[i] = s[i]
    BY FirstFacts
  <2>. QED  BY <1>1, <1>2, <2>1, <2>2, SeqEqual
<1>5. Rest(s \o t, n) = Rest(s, n) \o t
  <2>1. Rest(s \o t, n) \in Seq(S) /\ Len(Rest(s \o t, n)) = Len(s \o t) - n
        /\ \A i \in 1 .. Len(s \o t) - n : Rest(s \o t, n)[i] = (s \o t)[n + i]
    BY <1>2, <1>3, RestFacts, ZenonT(60)
  <2>2. Rest(s, n) \in Seq(S) /\ Len(Rest(s, n)) = Len(s) - n
        /\ \A i \in 1 .. Len(s) - n : Rest(s, n)[i] = s[n + i]
    BY RestFacts
  <2>. DEFINE r == Rest(s, n)
  <2>. HIDE DEF r
  <2>3. r \in Seq(S) /\ Len(r) = Len(s) - n /\ Len(r) \in Nat  BY <1>1, <2>2 DEF r
  <2>4. r \o t \in Seq(S) /\ Len(r \o t) = Len(r) + Len(t)
        /\ \A i \in 1 .. Len(r) + Len(t) : (r \o t)[i] = IF i <= Len(r) THEN r[i] ELSE t[i - Len(r)]
    BY <2>3, ConcatProperties
  <2>5. \A i \in 1 .. Len(r) + Len(t) : Rest(s \o t, n)[i] = (r \o t)[i]
    <3>. TAKE i \in 1 .. Len(r) + Len(t)
    <3>1. i \in Int /\ n \in Int /\ n + i \in 1 .. Len(s) + Len(t) /\ i \in 1 .. Len(s \o t) - n
      BY <1>1, <1>2, <2>3
    <3>2. Rest(s \o t, n)[i] = (s \o t)[n + i]  BY <2>1, <3>1
    <3>3. CASE i <= Len(r)
      <4>1. i \in 1 .. Len(s) - n /\ n + i <= Len(s)  BY <1>1, <2>3, <3>1, <3>3
      <4>2. r[i] = s[n + i]  BY <2>2, <4>1 DEF r
      <4>. QED  BY <1>2, <2>4, <3>1, <3>2, <3>3, <4>1, <4>2
    <3>4. CASE ~(i <= Len(r))
      <4>1. ~(n + i <= Len(s)) /\ (n + i) - Len(s) = i - Len(r)  BY <1>1, <2>3, <3>1, <3>4
      <4>. QED  BY <1>2, <2>4, <3>1, <3>2, <3>4, <4>1
    <3>. QED  BY <3>3, <3>4
  <2>6. Len(Rest(s \o t, n)) = Len(r \o t) /\ Len(Rest(s \o t, n)) = Len(r) + Len(t)
    BY <1>1, <1>2, <2>1, <2>3, <2>4
  <2>7. Rest(s \o t, n) = r \o t  BY <2>1, <2>4, <2>5, <2>6, SeqEqual
  <2>. QED  BY <2>7 DEF r
<1>. QED  BY <1>4, <1>5 DEF Rest

\* The first n elements and what follows them.
LEMMA FirstAndRest ==
    ASSUME NEW S, NEW s \in Seq(S), NEW n \in 0 .. Len(s)
    PROVE  SubSeq(s, 1, n) \o Rest(s, n) = s
<1>1. Len(s) \in Nat /\ 1 \in 1 .. Len(s) + 1 /\ n \in 1 - 1 .. Len(s) /\ Len(s) \in n .. Len(s)
  BY LenProperties
<1>2. SubSeq(s, 1, n) \o SubSeq(s, n + 1, Len(s)) = SubSeq(s, 1, Len(s))
  BY <1>1, ConcatAdjacentSubSeq
<1>. QED  BY <1>2, SubSeqFull DEF Rest

\* Adding to a sequence two parts one after the other.
LEMMA Reassociate == \A s, t, u \in Seq(Nat) : s \o (t \o u) = (s \o t) \o u
<1>. TAKE s, t, u \in Seq(Nat)
<1>. QED  BY SMTT(60)

\* All of a sequence, and nothing of it.
LEMMA RestEnds ==
    ASSUME NEW S, NEW s \in Seq(S)
    PROVE  Rest(s, 0) = s /\ Rest(s, Len(s)) = <<>>
<1>1. Len(s) \in Nat  BY LenProperties
<1>2. Rest(s, 0) = s  BY <1>1, SubSeqFull DEF Rest
<1>3. Rest(s, Len(s)) = <<>>  BY <1>1, SubSeqEmpty DEF Rest
<1>. QED  BY <1>2, <1>3

-----------------------------------------------------------------------------
(* The data and the vectors. *)

\* The bytes of a sender are numbered in a row.
LEMMA DataFacts ==
    /\ TxData \in Bytes /\ Len(TxData) = TxBytes /\ \A i \in 1 .. TxBytes : TxData[i] = i
    /\ RxData \in Bytes
<1>1. TxBytes \in Nat /\ RxBytes \in Nat  BY UxAssumption DEF UxAssumption
<1>2. TxData \in Bytes /\ Len(TxData) = TxBytes  BY <1>1 DEF TxData, Bytes
<1>3. RxData \in Bytes  BY <1>1 DEF RxData, Bytes
<1>. QED  BY <1>2, <1>3 DEF TxData

\* The vectors lie one after the other in the data, up to its end.
LEMMA VectorFacts ==
    ASSUME NEW v \in 1 .. Len(Vectors)
    PROVE  /\ VecStart(v) \in 0 .. TxBytes /\ Vectors[v].len \in Nat
           /\ VecStart(v + 1) = VecStart(v) + Vectors[v].len
           /\ VecStart(v + 1) \in 0 .. TxBytes
<1>. DEFINE Vec == [start : Nat, len : Nat, last : BOOLEAN]
<1>1. Vectors \in Seq(Vec) /\ TxBytes \in Nat  BY UxAssumption DEF UxAssumption
<1>2. Len(Vectors) \in Nat /\ DOMAIN Vectors = 1 .. Len(Vectors)  BY <1>1, LenProperties
<1>3. Vectors[v] \in Vec  BY <1>1, ElementOfSeq
<1>4. Vectors[v].start \in Nat /\ Vectors[v].len \in Nat  BY <1>3
<1>5. Vectors[v].start + Vectors[v].len <= TxBytes  BY <1>2, UxAssumption DEF UxAssumption
<1>6. VecStart(v) = Vectors[v].start  BY <1>2 DEF VecStart
<1>7. VecStart(v + 1) = Vectors[v].start + Vectors[v].len
  <2>1. CASE v = Len(Vectors)
    <3>1. VecStart(v + 1) = TxBytes  BY <1>2, <2>1 DEF VecStart
    <3>. QED  BY <1>2, <2>1, <3>1, UxAssumption DEF UxAssumption
  <2>2. CASE v # Len(Vectors)
    <3>1. v + 1 \in 1 .. Len(Vectors) /\ v + 1 # 1 /\ (v + 1) - 1 = v
      <4>. DEFINE n == Len(Vectors)
      <4>1. n \in Nat /\ v \in 1 .. n /\ v # n  BY <1>2, <2>2, Zenon
      <4>. HIDE DEF n
      <4>2. v + 1 \in 1 .. n /\ v + 1 # 1 /\ (v + 1) - 1 = v  BY <4>1
      <4>. QED  BY <4>2, SMTT(60) DEF n
    <3>2. VecStart(v + 1) = Vectors[v + 1].start  BY <3>1 DEF VecStart
    <3>3. v + 1 \in DOMAIN Vectors  BY <1>2, <3>1
    <3>4. Vectors[v + 1].start = Vectors[(v + 1) - 1].start + Vectors[(v + 1) - 1].len
      BY <3>1, <3>3, UxAssumption DEF UxAssumption
    <3>. QED  BY <3>1, <3>2, <3>4
  <2>. QED  BY <2>1, <2>2
<1>. QED  BY <1>1, <1>4, <1>5, <1>6, <1>7, SMTT(60)

\* Before the first vector nothing of the data has been sent.
LEMMA FirstStart == VecStart(1) = 0
<1>1. Vectors \in Seq([start : Nat, len : Nat, last : BOOLEAN])  BY UxAssumption DEF UxAssumption
<1>2. Len(Vectors) \in Nat /\ DOMAIN Vectors = 1 .. Len(Vectors)  BY <1>1, LenProperties
<1>3. CASE 1 <= Len(Vectors)
  <2>1. 1 \in DOMAIN Vectors  BY <1>2, <1>3
  <2>. QED  BY <1>3, <2>1, UxAssumption DEF UxAssumption, VecStart
<1>4. CASE ~(1 <= Len(Vectors))
  <2>1. Len(Vectors) = 0  BY <1>2, <1>4
  <2>2. Vectors = <<>>  BY <1>1, <2>1, EmptySeq
  <2>. QED  BY <1>4, <2>2, UxAssumption DEF UxAssumption, VecStart
<1>. QED  BY <1>3, <1>4

\* A vector and the data after it are the data from its start.
LEMMA VectorOfData ==
    ASSUME NEW v \in 1 .. Len(Vectors)
    PROVE  /\ VecBytes(v) \in Bytes /\ Len(VecBytes(v)) = Vectors[v].len
           /\ VecBytes(v) \o Rest(TxData, VecStart(v + 1)) = Rest(TxData, VecStart(v))
<1>. DEFINE b == VecStart(v)  n == Vectors[v].len  r == Rest(TxData, b)
<1>1. b \in 0 .. TxBytes /\ n \in Nat /\ b + n = VecStart(v + 1) /\ b + n \in 0 .. TxBytes
  BY VectorFacts
<1>2. TxBytes \in Nat  BY UxAssumption DEF UxAssumption
<1>3. r \in Bytes /\ Len(r) = TxBytes - b /\ \A i \in 1 .. TxBytes - b : r[i] = TxData[b + i]
  BY <1>1, DataFacts, RestFacts, ZenonT(60) DEF Bytes
<1>4. VecBytes(v) \in Bytes /\ Len(VecBytes(v)) = n /\ \A i \in 1 .. n : VecBytes(v)[i] = b + i
  <2>1. VecBytes(v) = [i \in 1 .. n |-> b + i]  BY DEF VecBytes
  <2>. HIDE DEF b, n
  <2>2. [i \in 1 .. n |-> b + i] \in [1 .. n -> Nat]  BY <1>1, <1>2
  <2>3. [i \in 1 .. n |-> b + i] \in Bytes /\ Len([i \in 1 .. n |-> b + i]) = n
    BY <1>1, <1>2, <2>2 DEF Bytes
  <2>. QED  BY <2>1, <2>3
<1>5. Rest(TxData, b + n) = Rest(r, n)
  <2>1. b \in 0 .. Len(TxData) /\ n \in 0 .. Len(TxData) - b  BY <1>1, <1>2, DataFacts
  <2>. QED  BY <2>1, DataFacts, RestOfRest DEF Bytes
<1>6. VecBytes(v) = SubSeq(r, 1, n)
  <2>1. n \in 0 .. Len(r)  BY <1>1, <1>2, <1>3
  <2>2. SubSeq(r, 1, n) \in Bytes /\ Len(SubSeq(r, 1, n)) = n
        /\ \A i \in 1 .. n : SubSeq(r, 1, n)[i] = r[i]
    BY <1>3, <2>1, FirstFacts DEF Bytes
  <2>3. \A i \in 1 .. n : SubSeq(r, 1, n)[i] = VecBytes(v)[i]
    <3>. TAKE i \in 1 .. n
    <3>1. i \in 1 .. TxBytes - b /\ b + i \in 1 .. TxBytes  BY <1>1, <1>2, SMTT(60)
    <3>. QED  BY <1>3, <1>4, <2>2, <3>1, DataFacts
  <2>. QED  BY <1>1, <1>4, <2>2, <2>3, SeqEqual DEF Bytes
<1>7. SubSeq(r, 1, n) \o Rest(r, n) = r
  <2>1. n \in 0 .. Len(r)  BY <1>1, <1>2, <1>3
  <2>. QED  BY <1>3, <2>1, FirstAndRest DEF Bytes
<1>. QED  BY <1>1, <1>4, <1>5, <1>6, <1>7
-----------------------------------------------------------------------------
(* The invariant is inductive. *)

\* It holds in the beginning.
LEMMA UxInvInit == UxInit => UxInv
<1>. SUFFICES ASSUME UxInit PROVE UxInv  OBVIOUS
<1>1. RxSize(1) \in Nat
  <2>1. RxSizes \in Seq(Nat \ {0})  BY UxAssumption DEF UxAssumption
  <2>2. 1 <= Len(RxSizes) => RxSizes[1] \in Nat  BY <2>1
  <2>. QED  BY <2>2 DEF RxSize
<1>2. <<>> \in Bytes /\ Len(<<>>) = 0  BY DEF Bytes
<1>3. Len(Vectors) \in Nat  BY UxAssumption, LenProperties DEF UxAssumption
<1>. QED
  BY <1>1, <1>2, <1>3, DataFacts
  DEF UxInit, UxInv, UxPart, UxTypes, TxTypes, RxTypes, SockTypes, KtxInv, KrxInv, UserInv, MainInv,
      Uxs, Txs, Rxs, Ktxs, Krxs, Utxs, Urxs, Socks, KtxPcs, UtxPcs, UrxPcs

\* Getting and putting the ux.
LEMMA CountFacts ==
    ASSUME UxTypes, NEW d \in Int
    PROVE  Count(d) \in Uxs /\ Count(d).int = ux.int
<1>1. ux.count + d \in Int  BY DEF UxTypes, Uxs
<1>. QED  BY <1>1 DEF UxTypes, Uxs, Count

\* The kernel sender keeps it.
LEMMA UxInvKtx == UxInv /\ KtxNext => UxPart'
<1>. SUFFICES ASSUME UxInv, KtxNext PROVE UxPart'  OBVIOUS
<1>. USE DEF UxInv, UxPart
<1>1. CASE KtxSendmsg
  <2>1. TxTypes'  BY <1>1 DEF KtxSendmsg, Oops, TxTypes, KtxPcs, Ktxs
  <2>2. KtxInv'  BY <1>1 DEF KtxSendmsg, Oops, KtxInv, UxTypes, TxTypes, Txs, Ktxs
  <2>3. UxTypes' /\ RxTypes' /\ SockTypes' /\ KrxInv' /\ UserInv'  BY <1>1 DEF KtxSendmsg, Oops, UxTypes, RxTypes, SockTypes, KrxInv, UserInv
  <2>. QED  BY <2>1, <2>2, <2>3
<1>2. CASE KtxGet
  <2>1. UxTypes'  BY <1>2, CountFacts DEF KtxGet, Oops, UxTypes
  <2>2. TxTypes'  BY <1>2 DEF KtxGet, Oops, TxTypes, KtxPcs, Ktxs
  <2>3. KtxInv'  BY <1>2, CountFacts DEF KtxGet, Oops, KtxInv, UxTypes, TxTypes, Uxs, Txs, Ktxs
  <2>4. RxTypes' /\ SockTypes' /\ KrxInv' /\ UserInv'  BY <1>2 DEF KtxGet, Oops, RxTypes, SockTypes, KrxInv, UserInv
  <2>. QED  BY <2>1, <2>2, <2>3, <2>4
<1>3. CASE KtxSendvec
  <2>. DEFINE b == VecBytes(ktx.at)
  <2>1. ktx.at \in 1 .. Len(Vectors)  BY <1>3 DEF KtxSendvec, KtxInv, TxTypes, Ktxs
  <2>2. b \in Bytes /\ Len(b) \in Nat  BY <2>1, VectorOfData, VectorFacts
  <2>3. UxTypes' /\ RxTypes' /\ SockTypes' /\ KrxInv' /\ UserInv'
    BY <1>3 DEF KtxSendvec, Oops, UxTypes, RxTypes, SockTypes, KrxInv, UserInv
  <2>4. CASE Oops  BY <2>3, <2>4 DEF Oops, TxTypes, KtxInv
  <2>5. CASE ~Oops
    <3>1. tx' = [bytes |-> b, count |-> 0, req |-> TRUE, rsp |-> FALSE, err |-> FALSE]
          /\ ktx' = [ktx EXCEPT !.pc = "wait", !.set = TRUE] /\ utx' = utx
      BY <1>3, <2>5 DEF KtxSendvec
    <3>. HIDE DEF b
    <3>2. tx' \in Txs /\ tx'.bytes = b /\ tx'.count = 0 /\ ~tx'.rsp  BY <2>2, <3>1 DEF Txs
    <3>3. ktx' \in Ktxs /\ ktx'.pc = "wait" /\ ktx'.set /\ ktx'.at = ktx.at
      BY <3>1 DEF TxTypes, Ktxs, KtxPcs
    <3>4. TxTypes'  BY <3>1, <3>2, <3>3 DEF TxTypes
    <3>5. KtxInv'  BY <2>1, <2>2, <3>2, <3>3 DEF KtxInv
    <3>. QED  BY <2>3, <3>4, <3>5
  <2>. QED  BY <2>4, <2>5
<1>4. CASE KtxWait
  <2>1. UxTypes' /\ RxTypes' /\ SockTypes' /\ KrxInv' /\ UserInv'
    BY <1>4 DEF KtxWait, Oops, UxTypes, RxTypes, SockTypes, KrxInv, UserInv
  <2>2. CASE Oops  BY <2>1, <2>2 DEF Oops, TxTypes, KtxInv
  <2>3. CASE ~Oops
    <3>1. tx' = tx /\ utx' = utx /\ ux' = ux  BY <1>4, <2>3 DEF KtxWait
    <3>2. CASE ux.int \/ tx.err
      <4>1. ktx' = [ktx EXCEPT !.pc = "fput"]  BY <1>4, <2>3, <3>2 DEF KtxWait
      <4>2. ktx' \in Ktxs /\ ktx'.pc = "fput" /\ ktx'.set = ktx.set /\ ktx'.at = ktx.at
        BY <4>1 DEF TxTypes, Ktxs, KtxPcs
      <4>3. ktx.pc = "wait"  BY <1>4 DEF KtxWait
      <4>4. TxTypes'  BY <3>1, <4>2 DEF TxTypes
      <4>5. KtxInv'  BY <3>1, <4>2, <4>3 DEF KtxInv
      <4>. QED  BY <2>1, <4>4, <4>5
    <3>3. CASE ~(ux.int \/ tx.err)
      <4>1. PICK q \in {"put", "vec"} :
              /\ ktx' = [pc |-> q, at |-> ktx.at + 1, set |-> FALSE]
              /\ q = IF Vectors[ktx.at].last THEN "put" ELSE "vec"
        BY <1>4, <2>3, <3>3 DEF KtxWait
      <4>2. ktx.at \in 1 .. Len(Vectors)  BY <1>4 DEF KtxWait, KtxInv, TxTypes, Ktxs
      <4>3. q = "vec" => ktx.at + 1 <= Len(Vectors)
        <5>1. ktx.at \in DOMAIN Vectors  BY <4>2, UxAssumption, LenProperties DEF UxAssumption
        <5>2. Vectors[Len(Vectors)].last \/ ktx.at # Len(Vectors)
          BY <5>1, UxAssumption DEF UxAssumption
        <5>3. Len(Vectors) \in Nat  BY UxAssumption, LenProperties DEF UxAssumption
        <5>4. q = "vec" => ktx.at # Len(Vectors)  BY <4>1, <5>2
        <5>. DEFINE n == Len(Vectors)
        <5>. HIDE DEF n
        <5>5. n \in Nat /\ ktx.at \in 1 .. n /\ (q = "vec" => ktx.at # n)
          BY <4>2, <5>3, <5>4 DEF n
        <5>6. q = "vec" => ktx.at + 1 <= n  BY <5>5
        <5>. QED  BY <5>6 DEF n
      <4>4. ktx' \in Ktxs /\ ktx'.pc = q /\ ~ktx'.set /\ ktx'.at = ktx.at + 1
        BY <4>1 DEF TxTypes, Ktxs, KtxPcs
      <4>5. TxTypes'  BY <3>1, <4>4 DEF TxTypes
      <4>6. ktx.at + 1 <= Len(Vectors) + 1
        <5>1. Len(Vectors) \in Nat  BY UxAssumption, LenProperties DEF UxAssumption
        <5>. QED  BY <4>2, <5>1
      <4>7. KtxInv'  BY <3>1, <4>3, <4>4, <4>6 DEF KtxInv
      <4>. QED  BY <2>1, <4>5, <4>7
    <3>. QED  BY <3>2, <3>3
  <2>. QED  BY <2>2, <2>3
<1>5. CASE KtxPut
  <2>1. UxTypes'  BY <1>5, CountFacts DEF KtxPut, Oops, UxTypes
  <2>2. TxTypes'  BY <1>5 DEF KtxPut, Oops, TxTypes, KtxPcs, Ktxs
  <2>3. KtxInv'  BY <1>5, CountFacts DEF KtxPut, Oops, KtxInv, UxTypes, TxTypes, Uxs, Txs, Ktxs
  <2>4. RxTypes' /\ SockTypes' /\ KrxInv' /\ UserInv'  BY <1>5 DEF KtxPut, Oops, RxTypes, SockTypes, KrxInv, UserInv
  <2>. QED  BY <2>1, <2>2, <2>3, <2>4
<1>. QED  BY <1>1, <1>2, <1>3, <1>4, <1>5 DEF KtxNext

\* The kernel receiver keeps it.
LEMMA UxInvKrx == UxInv /\ KrxNext => UxPart'
<1>. SUFFICES ASSUME UxInv, KrxNext PROVE UxPart'  OBVIOUS
<1>. USE DEF UxInv, UxPart
<1>1. CASE KrxRecvmsg
  <2>1. RxTypes'  BY <1>1 DEF KrxRecvmsg, Oops, RxTypes, KtxPcs, Krxs
  <2>2. KrxInv'  BY <1>1 DEF KrxRecvmsg, Oops, KrxInv, RxTypes, Rxs, Krxs
  <2>3. UxTypes' /\ TxTypes' /\ SockTypes' /\ KtxInv' /\ UserInv'  BY <1>1 DEF KrxRecvmsg, Oops, UxTypes, TxTypes, SockTypes, KtxInv, UserInv
  <2>. QED  BY <2>1, <2>2, <2>3
<1>2. CASE KrxGet
  <2>1. UxTypes'  BY <1>2, CountFacts DEF KrxGet, Oops, UxTypes
  <2>2. RxTypes'  BY <1>2 DEF KrxGet, Oops, RxTypes, KtxPcs, Krxs
  <2>3. KtxInv'  BY <1>2, CountFacts DEF KrxGet, Oops, KtxInv, UxTypes, TxTypes, Uxs, Txs, Ktxs
  <2>4. KrxInv'  BY <1>2 DEF KrxGet, Oops, KrxInv, RxTypes, Rxs, Krxs
  <2>5. TxTypes' /\ SockTypes' /\ UserInv'  BY <1>2 DEF KrxGet, Oops, TxTypes, SockTypes, UserInv
  <2>. QED  BY <2>1, <2>2, <2>3, <2>4, <2>5
<1>3. CASE KrxRecvvec
  <2>1. UxTypes' /\ TxTypes' /\ SockTypes' /\ KtxInv' /\ UserInv'
    BY <1>3 DEF KrxRecvvec, Oops, UxTypes, TxTypes, SockTypes, KtxInv, UserInv
  <2>2. CASE Oops  BY <2>1, <2>2 DEF Oops, RxTypes, KrxInv
  <2>3. CASE ~Oops
    <3>1. rx' = [want |-> krx.left, got |-> <<>>, req |-> TRUE, rsp |-> FALSE, err |-> FALSE]
          /\ krx' = [krx EXCEPT !.pc = "wait", !.set = TRUE] /\ urx' = urx
      BY <1>3, <2>3 DEF KrxRecvvec
    <3>2. krx' \in Krxs /\ krx'.pc = "wait" /\ krx'.set /\ krx'.left = krx.left
      BY <3>1 DEF RxTypes, Krxs, KtxPcs
    <3>3. krx.left \in Nat /\ <<>> \in Bytes /\ Len(<<>>) = 0  BY DEF RxTypes, Krxs, Bytes
    <3>4. rx' \in Rxs /\ rx'.want = krx.left /\ rx'.got = <<>>  BY <3>1, <3>3 DEF Rxs
    <3>5. RxTypes'  BY <3>1, <3>2, <3>4 DEF RxTypes
    <3>6. KrxInv'  BY <3>2, <3>3, <3>4 DEF KrxInv
    <3>. QED  BY <2>1, <3>5, <3>6
  <2>. QED  BY <2>2, <2>3
<1>4. CASE KrxWait
  <2>1. UxTypes' /\ TxTypes' /\ SockTypes' /\ KtxInv' /\ UserInv'
    BY <1>4 DEF KrxWait, Oops, UxTypes, TxTypes, SockTypes, KtxInv, UserInv
  <2>2. CASE Oops  BY <2>1, <2>2 DEF Oops, RxTypes, KrxInv
  <2>3. CASE ~Oops
    <3>1. rx' = rx /\ urx' = urx /\ krx.set  BY <1>4, <2>3 DEF KrxWait, KrxInv
    <3>2. CASE ux.int \/ rx.err
      <4>1. krx' = [krx EXCEPT !.pc = "fput"]  BY <1>4, <2>3, <3>2 DEF KrxWait
      <4>2. krx' \in Krxs /\ krx'.pc = "fput" /\ krx'.set = krx.set /\ krx'.left = krx.left
        BY <4>1 DEF RxTypes, Krxs, KtxPcs
      <4>3. RxTypes'  BY <3>1, <4>2 DEF RxTypes
      <4>4. KrxInv'  BY <3>1, <4>2 DEF KrxInv
      <4>. QED  BY <2>1, <4>3, <4>4
    <3>3. CASE ~(ux.int \/ rx.err)
      <4>. DEFINE l == krx.left - Len(rx.got)  d == krx.done \o rx.got
      <4>1. krx' = [krx EXCEPT !.pc = "put", !.set = FALSE, !.left = l, !.done = d]
        BY <1>4, <2>3, <3>3 DEF KrxWait
      <4>2. rx.got \in Bytes /\ krx.done \in Bytes /\ krx.left \in Nat  BY DEF RxTypes, Rxs, Krxs
      <4>3. Len(rx.got) \in Nat  BY <4>2, LenProperties DEF Bytes
      <4>4. l \in Nat  BY <3>1, <4>2, <4>3 DEF KrxInv
      <4>5. d \in Bytes  BY <4>2, ConcatProperties DEF Bytes
      <4>. HIDE DEF l, d
      <4>6. krx' \in Krxs /\ krx'.pc = "put" /\ ~krx'.set
        BY <4>1, <4>4, <4>5 DEF RxTypes, Krxs, KtxPcs
      <4>7. RxTypes'  BY <3>1, <4>6 DEF RxTypes
      <4>8. KrxInv'  BY <3>1, <4>6 DEF KrxInv
      <4>. QED  BY <2>1, <4>7, <4>8
    <3>. QED  BY <3>2, <3>3
  <2>. QED  BY <2>2, <2>3
<1>5. CASE KrxPut
  <2>1. TxTypes' /\ SockTypes' /\ UserInv'
    BY <1>5 DEF KrxPut, Oops, TxTypes, SockTypes, UserInv
  <2>2. CASE Oops
    BY <2>1, <2>2 DEF Oops, UxTypes, RxTypes, KtxInv, KrxInv
  <2>3. CASE ~Oops
    <3>1. ux' = Count(-1) /\ tx' = tx /\ ktx' = ktx /\ rx' = rx /\ urx' = urx
      BY <1>5, <2>3 DEF KrxPut
    <3>2. ux' \in Uxs /\ ux'.int = ux.int  BY <3>1, CountFacts
    <3>3. UxTypes'  BY <3>2 DEF UxTypes
    <3>4. KtxInv'  BY <3>1, <3>2 DEF KtxInv
    <3>5. krx' \in Krxs /\ krx'.pc \in {"failed", "idle"}
          /\ (krx'.pc = "idle" => krx.pc = "put" /\ krx'.set = krx.set)
          /\ (krx'.pc = "failed" => krx'.set = krx.set /\ krx'.left = krx.left)
      <4>1. CASE krx.pc = "fput"
        <5>1. krx' = [krx EXCEPT !.pc = "failed"]  BY <1>5, <2>3, <4>1 DEF KrxPut
        <5>. QED  BY <5>1 DEF RxTypes, Krxs, KtxPcs
      <4>2. CASE krx.pc = "put" /\ krx.left > 0
        <5>1. krx' = [krx EXCEPT !.pc = "idle"]  BY <1>5, <2>3, <4>2 DEF KrxPut
        <5>. QED  BY <4>2, <5>1 DEF RxTypes, Krxs, KtxPcs
      <4>3. CASE krx.pc = "put" /\ ~(krx.left > 0)
        <5>. DEFINE n == Least(krx.at + 1, Len(RxSizes) + 1)  l == RxSize(krx.at + 1)
        <5>1. krx' = [krx EXCEPT !.pc = "idle", !.at = n, !.left = l]
          BY <1>5, <2>3, <4>3 DEF KrxPut
        <5>2. krx.at \in Nat \ {0}  BY DEF RxTypes, Krxs
        <5>3. RxSizes \in Seq(Nat \ {0}) /\ Len(RxSizes) \in Nat
          BY UxAssumption, LenProperties DEF UxAssumption
        <5>4. n \in Nat \ {0}  BY <5>2, <5>3 DEF Least
        <5>5. l \in Nat
          <6>1. CASE krx.at + 1 <= Len(RxSizes)
            <7>1. krx.at + 1 \in 1 .. Len(RxSizes)  BY <5>2, <5>3, <6>1
            <7>. QED  BY <5>3, <6>1, <7>1, ElementOfSeq DEF RxSize
          <6>2. CASE ~(krx.at + 1 <= Len(RxSizes))  BY <6>2 DEF RxSize
          <6>. QED  BY <6>1, <6>2
        <5>. HIDE DEF n, l
        <5>. QED  BY <4>3, <5>1, <5>4, <5>5 DEF RxTypes, Krxs, KtxPcs
      <4>. QED  BY <1>5, <4>1, <4>2, <4>3 DEF KrxPut
    <3>6. RxTypes'  BY <3>1, <3>5 DEF RxTypes
    <3>7. KrxInv'  BY <1>5, <3>1, <3>5 DEF KrxInv, KrxPut
    <3>. QED  BY <2>1, <3>3, <3>4, <3>6, <3>7
  <2>. QED  BY <2>2, <2>3
<1>. QED  BY <1>1, <1>2, <1>3, <1>4, <1>5 DEF KrxNext

\* ux-tx copies n bytes of the request to its buffer.
UtxCopies(n) ==
    /\ utx.pc = "copy" /\ ktx.pc \in {"wait", "fput"}
    /\ utx' = [pc |-> IF n = 0 THEN "read" ELSE "send",
               buf |-> SubSeq(tx.bytes, tx.count + 1, tx.count + n)]
    /\ tx' = [tx EXCEPT !.count = @ + n, !.req = @ /\ ~(tx.count + n >= Len(tx.bytes)),
                        !.rsp = @ \/ tx.count + n >= Len(tx.bytes)]
    /\ ux' = Count(-1)
    /\ UNCHANGED <<udux, rx, ktx, krx, urx, main, eh, sock, oops>>

\* What it copies is there.
LEMMA CopiesToUser ==
    ASSUME UxInv, UtxCopy, ~Oops
    PROVE  \E n \in 0 .. Len(tx.bytes) - tx.count : UtxCopies(n)
<1>. DEFINE n == Least(Len(tx.bytes) - tx.count, BLEN)
<1>1. UtxCopies(n)  BY DEF UtxCopy, UtxCopies
<1>2. tx.count \in Nat /\ Len(tx.bytes) \in Nat /\ tx.count <= Len(tx.bytes)
  BY LenProperties DEF UxInv, UxPart, TxTypes, Txs, Bytes, KtxInv
<1>3. BLEN \in Nat  BY UxAssumption DEF UxAssumption
<1>4. n \in 0 .. Len(tx.bytes) - tx.count  BY <1>2, <1>3 DEF Least
<1>. QED  BY <1>1, <1>4

\* The ux-tx thread keeps it.
LEMMA UxInvUtx == UxInv /\ UtxNext => UxPart'
<1>. SUFFICES ASSUME UxInv, UtxNext PROVE UxPart'  OBVIOUS
<1>. USE DEF UxInv, UxPart
<1>1. CASE UtxRead
  <2>1. UxTypes'  BY <1>1, CountFacts DEF UtxRead, UxTypes
  <2>2. TxTypes'  BY <1>1 DEF UtxRead, TxTypes, UtxPcs, Utxs, Txs
  <2>3. KtxInv'  BY <1>1, CountFacts DEF UtxRead, KtxInv, UxTypes, TxTypes, Uxs, Txs, Ktxs
  <2>4. UserInv'  BY <1>1 DEF UtxRead, UserInv, TxTypes, RxTypes, Utxs, Urxs
  <2>5. RxTypes' /\ SockTypes' /\ KrxInv'  BY <1>1 DEF UtxRead, RxTypes, SockTypes, KrxInv
  <2>. QED  BY <2>1, <2>2, <2>3, <2>4, <2>5
<1>2. CASE UtxWait
  <2>1. RxTypes' /\ SockTypes' /\ KrxInv' /\ UserInv'
    BY <1>2 DEF UtxWait, RxTypes, SockTypes, KrxInv, UserInv, TxTypes, Utxs
  <2>2. ktx' = ktx  BY <1>2 DEF UtxWait
  <2>3. CASE ux.int
    <3>1. tx' = [tx EXCEPT !.err = TRUE, !.req = FALSE, !.rsp = TRUE] /\ ux' = Count(-1)
          /\ utx' = [utx EXCEPT !.pc = "shutdown"]
      BY <1>2, <2>3 DEF UtxWait
    <3>2. tx' \in Txs /\ tx'.bytes = tx.bytes /\ tx'.count = tx.count  BY <3>1 DEF TxTypes, Txs
    <3>3. utx' \in Utxs  BY <3>1 DEF TxTypes, Utxs, UtxPcs
    <3>a. ux' \in Uxs /\ ux'.int = ux.int  BY <3>1, CountFacts
    <3>4. ux' \in Uxs /\ ux'.int  BY <2>3, <3>a
    <3>5. TxTypes' /\ UxTypes'  BY <2>2, <3>2, <3>3, <3>4 DEF TxTypes, UxTypes
    <3>6. KtxInv'  BY <2>2, <3>2, <3>4 DEF KtxInv
    <3>. QED  BY <2>1, <3>5, <3>6
  <2>4. CASE ~ux.int
    <3>1. tx' = tx /\ ux' = ux /\ utx' = [utx EXCEPT !.pc = "copy"]  BY <1>2, <2>4 DEF UtxWait
    <3>2. TxTypes' /\ UxTypes'  BY <2>2, <3>1 DEF TxTypes, UxTypes, Utxs, UtxPcs
    <3>3. KtxInv'  BY <2>2, <3>1 DEF KtxInv
    <3>. QED  BY <2>1, <3>2, <3>3
  <2>. QED  BY <2>3, <2>4
<1>3. CASE UtxCopy
  <2>1. CASE Oops
    BY <2>1 DEF Oops, UxTypes, TxTypes, RxTypes, SockTypes, KtxInv, KrxInv, UserInv
  <2>2. CASE ~Oops
    <3>1. PICK n \in 0 .. Len(tx.bytes) - tx.count : UtxCopies(n)  BY <1>3, <2>2, CopiesToUser
    <3>2. rx' = rx /\ krx' = krx /\ urx' = urx /\ sock' = sock /\ ktx' = ktx  BY <3>1 DEF UtxCopies
    <3>3. RxTypes' /\ SockTypes' /\ KrxInv'  BY <3>2 DEF RxTypes, SockTypes, KrxInv
    <3>4. tx.bytes \in Bytes /\ tx.count \in Nat /\ Len(tx.bytes) \in Nat
          /\ tx.count <= Len(tx.bytes) /\ tx.rsp \in BOOLEAN
      BY LenProperties DEF TxTypes, Txs, Bytes, KtxInv
    <3>. DEFINE b == SubSeq(tx.bytes, tx.count + 1, tx.count + n)
    <3>5. b \in Bytes /\ Len(b) = n
      <4>1. \A i \in tx.count + 1 .. tx.count + n : tx.bytes[i] \in Nat
        <5>. TAKE i \in tx.count + 1 .. tx.count + n
        <5>1. i \in 1 .. Len(tx.bytes)  BY <3>4
        <5>. QED  BY <3>4, <5>1, ElementOfSeq DEF Bytes
      <4>. QED  BY <3>4, <4>1, SubSeqProperties DEF Bytes
    <3>6. utx' = [pc |-> IF n = 0 THEN "read" ELSE "send", buf |-> b]  BY <3>1 DEF UtxCopies
    <3>7. n = 0 => b = <<>>  BY <3>5, EmptySeq DEF Bytes
    <3>. HIDE DEF b
    <3>8. utx' \in Utxs /\ (utx'.pc = "send" \/ utx'.buf = <<>>)
      BY <3>5, <3>6, <3>7 DEF Utxs, UtxPcs
    <3>9. UserInv'  BY <3>2, <3>8 DEF UserInv
    <3>10. tx' \in Txs /\ tx'.bytes = tx.bytes /\ tx'.count = tx.count + n
           /\ (tx'.rsp => tx.rsp \/ tx.count + n = Len(tx.bytes))
      <4>1. PICK q, a \in BOOLEAN :
              /\ tx' = [tx EXCEPT !.count = @ + n, !.req = q, !.rsp = a]
              /\ a => tx.rsp \/ tx.count + n >= Len(tx.bytes)
        BY <3>1, <3>4 DEF UtxCopies, TxTypes, Txs
      <4>2. tx.count + n \in Nat /\ (tx.count + n >= Len(tx.bytes) => tx.count + n = Len(tx.bytes))
        BY <3>4
      <4>3. tx' \in Txs /\ tx'.bytes = tx.bytes /\ tx'.count = tx.count + n /\ tx'.rsp = a
        BY <4>1, <4>2 DEF TxTypes, Txs
      <4>. QED  BY <4>1, <4>2, <4>3
    <3>11. ux' \in Uxs /\ ux'.int = ux.int  BY <3>1, CountFacts DEF UtxCopies
    <3>12. TxTypes' /\ UxTypes'  BY <3>2, <3>8, <3>10, <3>11 DEF TxTypes, UxTypes
    <3>13. tx.rsp /\ ~ux.int => n = 0  BY <3>4 DEF KtxInv
    <3>14. KtxInv'  BY <3>2, <3>4, <3>10, <3>11, <3>13 DEF KtxInv
    <3>. QED  BY <3>3, <3>9, <3>12, <3>14
  <2>. QED  BY <2>1, <2>2
<1>4. CASE UtxSend
  <2>1. UxTypes' /\ RxTypes' /\ KtxInv' /\ KrxInv'
    BY <1>4 DEF UtxSend, UxTypes, RxTypes, KtxInv, KrxInv
  <2>2. tx' = tx /\ ktx' = ktx /\ urx' = urx /\ utx \in Utxs /\ sock \in Socks
    BY <1>4 DEF UtxSend, TxTypes, SockTypes
  <2>3. <<>> \in Bytes  BY DEF Bytes
  <2>4. utx' \in Utxs /\ utx'.pc \in {"read", "shutdown"} /\ (utx'.pc = "read" => utx'.buf = <<>>)
    BY <1>4, <2>2, <2>3 DEF UtxSend, Utxs, UtxPcs
  <2>5. sock' \in Socks
    <3>1. CASE sock.open
      <4>. DEFINE o == sock.out \o utx.buf
      <4>1. sock' = [sock EXCEPT !.out = o]  BY <1>4, <3>1 DEF UtxSend
      <4>2. o \in Bytes
        <5>1. sock.out \in Seq(Nat) /\ utx.buf \in Seq(Nat)  BY <2>2 DEF Socks, Utxs, Bytes
        <5>. QED  BY <5>1, ConcatProperties DEF Bytes
      <4>. HIDE DEF o
      <4>. QED  BY <2>2, <4>1, <4>2 DEF Socks
    <3>2. CASE ~sock.open  BY <1>4, <2>2, <3>2 DEF UtxSend
    <3>. QED  BY <3>1, <3>2
  <2>6. TxTypes' /\ SockTypes'  BY <2>2, <2>4, <2>5 DEF TxTypes, SockTypes
  <2>7. UserInv'  BY <2>2, <2>4 DEF UserInv
  <2>. QED  BY <2>1, <2>6, <2>7
<1>5. CASE UtxShutdown
  <2>1. TxTypes'  BY <1>5 DEF UtxShutdown, TxTypes, UtxPcs, Utxs
  <2>2. SockTypes'  BY <1>5 DEF UtxShutdown, SockTypes, Socks
  <2>3. UserInv'  BY <1>5 DEF UtxShutdown, UserInv, TxTypes, RxTypes, Utxs, Urxs
  <2>4. UxTypes' /\ RxTypes' /\ KtxInv' /\ KrxInv'  BY <1>5 DEF UtxShutdown, UxTypes, RxTypes, KtxInv, KrxInv
  <2>. QED  BY <2>1, <2>2, <2>3, <2>4
<1>. QED  BY <1>1, <1>2, <1>3, <1>4, <1>5 DEF UtxNext

\* recv returns n bytes to ux-rx.
UrxReceives(n) ==
    /\ urx' = [urx EXCEPT !.pc = "write", !.buf = SubSeq(sock.in, 1, n)]
    /\ sock' = [sock EXCEPT !.in = Rest(@, n)]

\* They have arrived.
LEMMA ReceiveFits ==
    ASSUME NEW s \in Bytes, NEW n \in 1 .. Least(BLEN, Len(s))
    PROVE  n \in 1 .. Len(s)
<1>1. Len(s) \in Nat /\ BLEN \in Nat  BY UxAssumption, LenProperties DEF UxAssumption, Bytes
<1>. QED  BY <1>1 DEF Least

\* ux-rx copies n bytes of its buffer to the request.
UrxCopies(n) ==
    /\ urx.pc = "copy" /\ krx.pc \in {"wait", "fput"}
    /\ rx' = [rx EXCEPT !.got = @ \o SubSeq(urx.buf, 1, n), !.req = FALSE, !.rsp = TRUE]
    /\ urx' = [urx EXCEPT !.pc = IF n < Len(urx.buf) THEN "write" ELSE "recv", !.buf = Rest(@, n)]
    /\ ux' = Count(-1)
    /\ UNCHANGED <<udux, tx, ktx, krx, utx, main, eh, sock, oops>>

\* What it copies is there, and is asked for.
LEMMA CopiesFromUser ==
    ASSUME UxInv, UrxCopy, ~Oops
    PROVE  \E n \in 0 .. Len(urx.buf) : UrxCopies(n) /\ Len(rx.got) + n <= rx.want
<1>. DEFINE n == Least(rx.want - Len(rx.got), Len(urx.buf))
<1>1. UrxCopies(n)  BY DEF UrxCopy, UrxCopies
<1>2. rx.want \in Nat /\ Len(rx.got) \in Nat /\ Len(urx.buf) \in Nat /\ Len(rx.got) <= rx.want
  BY LenProperties DEF UxInv, UxPart, RxTypes, Rxs, Urxs, Bytes, KrxInv
<1>3. n \in 0 .. Len(urx.buf) /\ Len(rx.got) + n <= rx.want  BY <1>2 DEF Least
<1>. QED  BY <1>1, <1>3

\* The ux-rx thread keeps it.
LEMMA UxInvUrx == UxInv /\ UrxNext => UxPart'
<1>. SUFFICES ASSUME UxInv, UrxNext PROVE UxPart'  OBVIOUS
<1>. USE DEF UxInv, UxPart
<1>1. CASE UrxRecv
  <2>1. UxTypes' /\ TxTypes' /\ KtxInv' /\ KrxInv'
    BY <1>1 DEF UrxRecv, UxTypes, TxTypes, KtxInv, KrxInv
  <2>2. rx' = rx /\ krx' = krx /\ utx' = utx /\ urx \in Urxs /\ sock \in Socks
    BY <1>1 DEF UrxRecv, RxTypes, SockTypes
  <2>3. urx' \in Urxs /\ sock' \in Socks /\ urx'.pc \in {"write", "intr"}
    <3>1. CASE urx' = [urx EXCEPT !.pc = "intr"] /\ sock' = sock
      BY <2>2, <3>1 DEF Urxs, UrxPcs
    <3>2. CASE \E n \in 1 .. Least(BLEN, Len(sock.in)) : UrxReceives(n)
      <4>1. PICK n \in 1 .. Least(BLEN, Len(sock.in)) : UrxReceives(n)  BY <3>2
      <4>. DEFINE b == SubSeq(sock.in, 1, n)  q == Rest(sock.in, n)
      <4>2. sock.in \in Bytes  BY <2>2 DEF Socks
      <4>3. n \in 0 .. Len(sock.in)  BY <4>2, ReceiveFits
      <4>4. b \in Bytes /\ q \in Bytes  BY <4>2, <4>3, FirstFacts, RestFacts DEF Bytes
      <4>5. urx' = [urx EXCEPT !.pc = "write", !.buf = b] /\ sock' = [sock EXCEPT !.in = q]
        BY <4>1 DEF UrxReceives
      <4>. HIDE DEF b, q
      <4>. QED  BY <2>2, <4>4, <4>5 DEF Urxs, UrxPcs, Socks
    <3>. QED  BY <1>1, <3>1, <3>2 DEF UrxRecv, UrxReceives
  <2>4. RxTypes' /\ SockTypes'  BY <2>2, <2>3 DEF RxTypes, SockTypes
  <2>5. UserInv'  BY <2>2, <2>3 DEF UserInv
  <2>. QED  BY <2>1, <2>4, <2>5
<1>2. CASE UrxWrite
  <2>1. UxTypes'  BY <1>2, CountFacts DEF UrxWrite, UxTypes
  <2>2. RxTypes'  BY <1>2 DEF UrxWrite, RxTypes, UrxPcs, Urxs, Rxs
  <2>3. KtxInv'  BY <1>2, CountFacts DEF UrxWrite, KtxInv, UxTypes, TxTypes, Uxs, Txs, Ktxs
  <2>4. KrxInv'  BY <1>2 DEF UrxWrite, KrxInv, RxTypes, Rxs, Krxs
  <2>5. UserInv'  BY <1>2 DEF UrxWrite, UserInv, TxTypes, RxTypes, Utxs, Urxs
  <2>6. TxTypes' /\ SockTypes'  BY <1>2 DEF UrxWrite, TxTypes, SockTypes
  <2>. QED  BY <2>1, <2>2, <2>3, <2>4, <2>5, <2>6
<1>3. CASE UrxWait
  <2>1. UxTypes'  BY <1>3, CountFacts DEF UrxWait, UxTypes
  <2>2. RxTypes'  BY <1>3 DEF UrxWait, RxTypes, UrxPcs, Urxs, Rxs
  <2>3. KtxInv'  BY <1>3, CountFacts DEF UrxWait, KtxInv, UxTypes, TxTypes, Uxs, Txs, Ktxs
  <2>4. KrxInv'  BY <1>3 DEF UrxWait, KrxInv, RxTypes, Rxs, Krxs
  <2>5. UserInv'  BY <1>3 DEF UrxWait, UserInv, TxTypes, RxTypes, Utxs, Urxs
  <2>6. TxTypes' /\ SockTypes'  BY <1>3 DEF UrxWait, TxTypes, SockTypes
  <2>. QED  BY <2>1, <2>2, <2>3, <2>4, <2>5, <2>6
<1>4. CASE UrxCopy
  <2>1. CASE Oops
    BY <2>1 DEF Oops, UxTypes, TxTypes, RxTypes, SockTypes, KtxInv, KrxInv, UserInv
  <2>2. CASE ~Oops
    <3>1. PICK n \in 0 .. Len(urx.buf) : UrxCopies(n) /\ Len(rx.got) + n <= rx.want
      BY <1>4, <2>2, CopiesFromUser
    <3>2. tx' = tx /\ ktx' = ktx /\ utx' = utx /\ sock' = sock /\ krx' = krx  BY <3>1 DEF UrxCopies
    <3>3. TxTypes' /\ SockTypes'  BY <3>2 DEF TxTypes, SockTypes
    <3>4. ux' \in Uxs /\ ux'.int = ux.int  BY <3>1, CountFacts DEF UrxCopies
    <3>5. UxTypes' /\ KtxInv'  BY <3>2, <3>4 DEF UxTypes, KtxInv
    <3>. DEFINE b == SubSeq(urx.buf, 1, n)  q == Rest(urx.buf, n)  g == rx.got \o b
    <3>6. urx.buf \in Bytes /\ rx.got \in Bytes /\ Len(urx.buf) \in Nat
      BY LenProperties DEF RxTypes, Rxs, Urxs, Bytes
    <3>7. b \in Bytes /\ Len(b) = n /\ q \in Bytes /\ Len(q) = Len(urx.buf) - n
      BY <3>6, FirstFacts, RestFacts, ZenonT(60) DEF Bytes
    <3>8. g \in Bytes /\ Len(g) = Len(rx.got) + n
      <4>. HIDE DEF b
      <4>. QED  BY <3>6, <3>7, ConcatProperties DEF Bytes
    <3>9. n = Len(urx.buf) => q = <<>>  BY <3>6, RestEnds DEF Bytes
    <3>10. urx' = [urx EXCEPT !.pc = IF n < Len(urx.buf) THEN "write" ELSE "recv", !.buf = q]
           /\ rx' = [rx EXCEPT !.got = g, !.req = FALSE, !.rsp = TRUE]
      BY <3>1 DEF UrxCopies
    <3>. HIDE DEF b, q, g
    <3>11. urx' \in Urxs /\ (urx'.pc = "write" \/ urx'.buf = <<>>)
           /\ urx'.pc \in {"write", "recv"}
      <4>1. PICK c \in {"write", "recv"} :
              urx' = [urx EXCEPT !.pc = c, !.buf = q] /\ (c = "write" \/ ~(n < Len(urx.buf)))
        BY <3>10
      <4>2. c = "write" \/ q = <<>>  BY <3>6, <3>9, <4>1
      <4>3. urx' \in Urxs /\ urx'.pc = c /\ urx'.buf = q  BY <3>7, <4>1 DEF RxTypes, Urxs, UrxPcs
      <4>. QED  BY <4>1, <4>2, <4>3
    <3>12. rx' \in Rxs /\ rx'.got = g /\ rx'.want = rx.want  BY <3>8, <3>10 DEF RxTypes, Rxs
    <3>13. RxTypes'  BY <3>2, <3>11, <3>12 DEF RxTypes
    <3>14. KrxInv'  BY <3>1, <3>2, <3>8, <3>12 DEF KrxInv
    <3>15. UserInv'  BY <3>2, <3>11 DEF UserInv
    <3>. QED  BY <3>3, <3>5, <3>13, <3>14, <3>15
  <2>. QED  BY <2>1, <2>2
<1>5. CASE UrxIoctlGet
  <2>1. UxTypes'  BY <1>5, CountFacts DEF UrxIoctlGet, UxTypes
  <2>2. RxTypes'  BY <1>5 DEF UrxIoctlGet, RxTypes, UrxPcs, Urxs
  <2>3. KtxInv'  BY <1>5, CountFacts DEF UrxIoctlGet, KtxInv, UxTypes, TxTypes, Uxs, Txs, Ktxs
  <2>4. UserInv'  BY <1>5 DEF UrxIoctlGet, UserInv, TxTypes, RxTypes, Utxs, Urxs
  <2>5. TxTypes' /\ SockTypes' /\ KrxInv'  BY <1>5 DEF UrxIoctlGet, TxTypes, SockTypes, KrxInv
  <2>. QED  BY <2>1, <2>2, <2>3, <2>4, <2>5
<1>6. CASE UrxIoctlPut
  <2>1. ux' = [Count(-1) EXCEPT !.int = TRUE] /\ urx' = [urx EXCEPT !.pc = "ended"] /\ rx' = rx
        /\ krx' = krx /\ tx' = tx /\ ktx' = ktx /\ utx' = utx /\ sock' = sock
    BY <1>6 DEF UrxIoctlPut
  <2>2. ux' \in Uxs /\ ux'.int
    <3>. DEFINE u == Count(-1)
    <3>1. u \in Uxs /\ ux' = [u EXCEPT !.int = TRUE]  BY <2>1, CountFacts
    <3>. HIDE DEF u
    <3>. QED  BY <3>1 DEF Uxs
  <2>3. urx' \in Urxs /\ urx'.pc = "ended"  BY <2>1 DEF RxTypes, Urxs, UrxPcs
  <2>4. UxTypes' /\ RxTypes' /\ TxTypes' /\ SockTypes'
    BY <2>1, <2>2, <2>3 DEF UxTypes, RxTypes, TxTypes, SockTypes
  <2>5. KtxInv' /\ KrxInv' /\ UserInv'  BY <2>1, <2>2, <2>3 DEF KtxInv, KrxInv, UserInv
  <2>. QED  BY <2>4, <2>5
<1>. QED  BY <1>1, <1>2, <1>3, <1>4, <1>5, <1>6 DEF UrxNext

\* The thread of the command, the event handler and the peer keep it.
LEMMA UxInvOthers == UxInv /\ (MainNext \/ EhNext \/ Interrupt \/ PeerCloses) => UxPart'
<1>. SUFFICES ASSUME UxInv, MainNext \/ EhNext \/ Interrupt \/ PeerCloses PROVE UxPart'  OBVIOUS
<1>. USE DEF UxInv, UxPart
<1>1. CASE MainSetup
  <2>1. ux' = [ux EXCEPT !.state = "open", !.count = -2] /\ rx' = rx /\ krx' = krx /\ urx' = urx
        /\ tx' = tx /\ ktx' = ktx /\ utx' = utx /\ sock' = sock
    BY <1>1 DEF MainSetup
  <2>2. -2 \in Int  OBVIOUS
  <2>3. ux' \in Uxs /\ ux'.int = ux.int  BY <2>1, <2>2 DEF UxTypes, Uxs
  <2>4. UxTypes' /\ RxTypes' /\ TxTypes' /\ SockTypes'
    BY <2>1, <2>3 DEF UxTypes, RxTypes, TxTypes, SockTypes
  <2>5. KtxInv' /\ KrxInv' /\ UserInv'  BY <2>1, <2>3 DEF KtxInv, KrxInv, UserInv
  <2>. QED  BY <2>4, <2>5
<1>2. CASE MainAttach
  <2>1. tx' = tx /\ utx' = utx /\ rx' = rx /\ urx' = urx /\ sock' = sock  BY <1>2 DEF MainAttach
  <2>2. CASE ux' = ux /\ ktx' = ktx /\ krx' = krx
    BY <2>1, <2>2 DEF UxTypes, TxTypes, RxTypes, SockTypes, KtxInv, KrxInv, UserInv
  <2>3. CASE ux' = [ux EXCEPT !.linked = TRUE] /\ ktx' = [ktx EXCEPT !.pc = "idle"]
             /\ krx' = [krx EXCEPT !.pc = "idle"]
    <3>1. ux' \in Uxs /\ ux'.int = ux.int  BY <2>3 DEF UxTypes, Uxs
    <3>2. ktx' \in Ktxs /\ ktx'.pc = "idle" /\ ktx'.at = ktx.at /\ ktx'.set = ktx.set
      BY <2>3 DEF TxTypes, Ktxs, KtxPcs
    <3>3. krx' \in Krxs /\ krx'.pc = "idle" /\ krx'.left = krx.left /\ krx'.set = krx.set
      BY <2>3 DEF RxTypes, Krxs, KtxPcs
    <3>4. ktx.pc = "none" /\ krx.pc = "none"  BY <1>2 DEF MainAttach, MainInv
    <3>5. UxTypes' /\ TxTypes' /\ RxTypes' /\ SockTypes'
      BY <2>1, <3>1, <3>2, <3>3 DEF UxTypes, TxTypes, RxTypes, SockTypes
    <3>6. KtxInv' /\ KrxInv' /\ UserInv'
      BY <2>1, <3>1, <3>2, <3>3, <3>4 DEF KtxInv, KrxInv, UserInv
    <3>. QED  BY <3>5, <3>6
  <2>. QED  BY <1>2, <2>2, <2>3 DEF MainAttach
<1>3. CASE MainStart
  <2>1. ux' = ux /\ tx' = tx /\ ktx' = ktx /\ rx' = rx /\ krx' = krx /\ sock' = sock
        /\ urx' = [urx EXCEPT !.pc = "recv"] /\ utx' = [utx EXCEPT !.pc = "read"]
    BY <1>3 DEF MainStart
  <2>2. utx.pc = "none" /\ urx.pc = "none"  BY <1>3 DEF MainStart, MainInv
  <2>3. utx' \in Utxs /\ utx'.buf = utx.buf  BY <2>1 DEF TxTypes, Utxs, UtxPcs
  <2>4. urx' \in Urxs /\ urx'.buf = urx.buf  BY <2>1 DEF RxTypes, Urxs, UrxPcs
  <2>5. UxTypes' /\ TxTypes' /\ RxTypes' /\ SockTypes'
    BY <2>1, <2>3, <2>4 DEF UxTypes, TxTypes, RxTypes, SockTypes
  <2>6. KtxInv' /\ KrxInv' /\ UserInv'  BY <2>1, <2>2, <2>3, <2>4 DEF KtxInv, KrxInv, UserInv
  <2>. QED  BY <2>5, <2>6
<1>4. CASE MainJoin
  BY <1>4 DEF MainJoin, UxTypes, TxTypes, RxTypes, SockTypes, KtxInv, KrxInv, UserInv
<1>5. CASE MainClose
  <2>1. UxTypes'  BY <1>5 DEF MainClose, UxTypes, Uxs
  <2>2. KtxInv'  BY <1>5 DEF MainClose, KtxInv, UxTypes, Uxs, TxTypes, Txs, Ktxs
  <2>3. TxTypes' /\ RxTypes' /\ SockTypes' /\ KrxInv' /\ UserInv'  BY <1>5 DEF MainClose, TxTypes, RxTypes, SockTypes, KrxInv, UserInv
  <2>. QED  BY <2>1, <2>2, <2>3
<1>6. CASE MainDelete
  <2>1. UxTypes'  BY <1>6 DEF MainDelete, UxTypes, Uxs
  <2>2. KtxInv'  BY <1>6 DEF MainDelete, KtxInv, UxTypes, Uxs, TxTypes, Txs, Ktxs
  <2>3. TxTypes' /\ RxTypes' /\ SockTypes' /\ KrxInv' /\ UserInv'  BY <1>6 DEF MainDelete, TxTypes, RxTypes, SockTypes, KrxInv, UserInv
  <2>. QED  BY <2>1, <2>2, <2>3
<1>7. CASE EhUnlink
  <2>1. UxTypes'  BY <1>7 DEF EhUnlink, UxTypes, Uxs
  <2>2. KtxInv'  BY <1>7 DEF EhUnlink, KtxInv, UxTypes, Uxs, TxTypes, Txs, Ktxs
  <2>3. TxTypes' /\ RxTypes' /\ SockTypes' /\ KrxInv' /\ UserInv'  BY <1>7 DEF EhUnlink, TxTypes, RxTypes, SockTypes, KrxInv, UserInv
  <2>. QED  BY <2>1, <2>2, <2>3
<1>8. CASE EhSuspend
  <2>1. UxTypes'  BY <1>8 DEF EhSuspend, UxTypes, Uxs
  <2>2. KtxInv'  BY <1>8 DEF EhSuspend, KtxInv, UxTypes, Uxs, TxTypes, Txs, Ktxs
  <2>3. TxTypes' /\ RxTypes' /\ SockTypes' /\ KrxInv' /\ UserInv'  BY <1>8 DEF EhSuspend, TxTypes, RxTypes, SockTypes, KrxInv, UserInv
  <2>. QED  BY <2>1, <2>2, <2>3
<1>9. CASE EhUnlinked
  <2>1. UxTypes'  BY <1>9 DEF EhUnlinked, UxTypes, Uxs
  <2>2. KtxInv'  BY <1>9 DEF EhUnlinked, KtxInv, UxTypes, Uxs, TxTypes, Txs, Ktxs
  <2>3. TxTypes' /\ RxTypes' /\ SockTypes' /\ KrxInv' /\ UserInv'  BY <1>9 DEF EhUnlinked, TxTypes, RxTypes, SockTypes, KrxInv, UserInv
  <2>. QED  BY <2>1, <2>2, <2>3
<1>10. CASE Interrupt
  <2>1. UxTypes'  BY <1>10 DEF Interrupt, UxTypes, Uxs
  <2>2. KtxInv'  BY <1>10 DEF Interrupt, KtxInv, UxTypes, Uxs, TxTypes, Txs, Ktxs
  <2>3. TxTypes' /\ RxTypes' /\ SockTypes' /\ KrxInv' /\ UserInv'  BY <1>10 DEF Interrupt, TxTypes, RxTypes, SockTypes, KrxInv, UserInv
  <2>. QED  BY <2>1, <2>2, <2>3
<1>11. CASE PeerCloses
  <2>1. SockTypes'  BY <1>11 DEF PeerCloses, SockTypes, Socks
  <2>2. UxTypes' /\ TxTypes' /\ RxTypes' /\ KtxInv' /\ KrxInv' /\ UserInv'  BY <1>11 DEF PeerCloses, UxTypes, TxTypes, RxTypes, KtxInv, KrxInv, UserInv
  <2>. QED  BY <2>1, <2>2
<1>. QED  BY <1>1, <1>2, <1>3, <1>4, <1>5, <1>6, <1>7, <1>8, <1>9, <1>10, <1>11 DEF MainNext, EhNext

\* Nobody runs before it is started.
LEMMA MainInvStep == UxInv /\ [UxNext]_uxVars => MainInv'
<1>. SUFFICES ASSUME UxInv, [UxNext]_uxVars PROVE MainInv'  OBVIOUS
<1>. USE DEF UxInv, MainInv
<1>1. CASE UNCHANGED uxVars  BY <1>1 DEF uxVars
<1>2. CASE KtxNext
  BY <1>2 DEF KtxNext, KtxSendmsg, KtxGet, KtxSendvec, KtxWait, KtxPut, Oops
<1>3. CASE KrxNext
  BY <1>3 DEF KrxNext, KrxRecvmsg, KrxGet, KrxRecvvec, KrxWait, KrxPut, Oops
<1>4. CASE UtxNext
  BY <1>4 DEF UtxNext, UtxRead, UtxWait, UtxCopy, UtxSend, UtxShutdown, Oops
<1>5. CASE UrxNext
  BY <1>5 DEF UrxNext, UrxRecv, UrxWrite, UrxWait, UrxCopy, UrxIoctlGet, UrxIoctlPut, Oops
<1>6. CASE MainNext
  BY <1>6 DEF MainNext, MainSetup, MainAttach, MainStart, MainJoin, MainClose, MainDelete
<1>7. CASE EhNext \/ Interrupt \/ PeerCloses
  BY <1>7 DEF EhNext, EhUnlink, EhSuspend, EhUnlinked, Interrupt, PeerCloses
<1>. QED  BY <1>1, <1>2, <1>3, <1>4, <1>5, <1>6, <1>7 DEF UxNext

\* Every step keeps the invariant.
LEMMA UxInvStep == UxInv /\ [UxNext]_uxVars => UxInv'
<1>. SUFFICES ASSUME UxInv, [UxNext]_uxVars PROVE UxInv'  OBVIOUS
<1>1. MainInv'  BY MainInvStep
<1>2. CASE UNCHANGED uxVars
  BY <1>1, <1>2
  DEF uxVars, UxInv, UxPart, UxTypes, TxTypes, RxTypes, SockTypes, KtxInv, KrxInv, UserInv
<1>3. CASE UxNext
  <2>1. UxPart'  BY <1>3, UxInvKtx, UxInvKrx, UxInvUtx, UxInvUrx, UxInvOthers DEF UxNext
  <2>. QED  BY <1>1, <2>1 DEF UxInv
<1>. QED  BY <1>2, <1>3


-----------------------------------------------------------------------------
(* The sender's side is a stream. *)

\* Nothing moves in the direction to the socket.
TxSame == TxSource' = TxSource /\ utx'.buf = utx.buf /\ sock'.out = sock.out

\* A cut is never mended.
LEMMA CutStays == UxInv /\ [UxNext]_uxVars /\ UxCut => UxCut'
<1>. SUFFICES ASSUME UxInv, [UxNext]_uxVars, UxCut PROVE UxCut'  OBVIOUS
<1>1. ux \in Uxs /\ sock \in Socks /\ UxTypes
  BY DEF UxInv, UxPart, UxTypes, SockTypes
<1>2. Count(1).int = ux.int /\ Count(-1).int = ux.int  BY <1>1, CountFacts
<1>3. CASE UNCHANGED uxVars  BY <1>3 DEF uxVars, UxCut
<1>4. CASE KtxNext
  <2>1. ux'.int = ux.int /\ sock' = sock /\ main' = main /\ (oops' = oops \/ oops')
    BY <1>2, <1>4 DEF KtxNext, KtxSendmsg, KtxGet, KtxSendvec, KtxWait, KtxPut, Oops
  <2>. QED  BY <2>1 DEF UxCut
<1>5. CASE KrxNext
  <2>1. ux'.int = ux.int /\ sock' = sock /\ main' = main /\ (oops' = oops \/ oops')
    BY <1>2, <1>5 DEF KrxNext, KrxRecvmsg, KrxGet, KrxRecvvec, KrxWait, KrxPut, Oops
  <2>. QED  BY <2>1 DEF UxCut
<1>6. CASE UtxNext
  <2>1. ux'.int = ux.int /\ (sock'.open => sock.open) /\ main' = main /\ (oops' = oops \/ oops')
    BY <1>1, <1>2, <1>6
    DEF UtxNext, UtxRead, UtxWait, UtxCopy, UtxSend, UtxShutdown, Oops, Socks
  <2>. QED  BY <2>1 DEF UxCut
<1>7. CASE UrxNext
  <2>1. UrxIoctlPut => ux'.int
    <3>1. Count(-1) \in Uxs  BY <1>1, CountFacts
    <3>. QED  BY <3>1 DEF UrxIoctlPut, Uxs
  <2>2. (ux.int => ux'.int) /\ (sock'.open => sock.open) /\ main' = main /\ (oops' = oops \/ oops')
    BY <1>1, <1>2, <1>7, <2>1
    DEF UrxNext, UrxRecv, UrxWrite, UrxWait, UrxCopy, UrxIoctlGet, UrxIoctlPut, Oops, Socks
  <2>. QED  BY <2>2 DEF UxCut
<1>8. CASE MainNext
  <2>1. (ux.int => ux'.int) /\ sock' = sock /\ oops' = oops
        /\ (main \in {"close", "delete", "ended"} => main' \in {"close", "delete", "ended"})
    BY <1>1, <1>8
    DEF MainNext, MainSetup, MainAttach, MainStart, MainJoin, MainClose, MainDelete, Uxs
  <2>. QED  BY <2>1 DEF UxCut
<1>9. CASE EhNext \/ Interrupt \/ PeerCloses
  <2>1. (ux.int => ux'.int) /\ (sock'.open => sock.open) /\ oops' = oops /\ main' = main
    BY <1>1, <1>9 DEF EhNext, EhUnlink, EhSuspend, EhUnlinked, Interrupt, PeerCloses, Uxs, Socks
  <2>. QED  BY <2>1 DEF UxCut
<1>. QED  BY <1>3, <1>4, <1>5, <1>6, <1>7, <1>8, <1>9 DEF UxNext

\* A step that moves nothing is no step of the stream, or cuts it.
LEMMA TxStutters ==
    ASSUME TxSame, UxCut => UxCut'
    PROVE  [TxStream!StreamNext]_TxStream!streamVars
<1>1. CASE UxCut' = UxCut  BY <1>1 DEF TxSame, TxStream!streamVars
<1>2. CASE UxCut' # UxCut
  <2>1. ~UxCut /\ UxCut' = TRUE  BY <1>2 DEF UxCut
  <2>2. TxStream!Cut  BY <2>1 DEF TxStream!Cut, TxSame
  <2>. QED  BY <2>2 DEF TxStream!StreamNext
<1>. QED  BY <1>1, <1>2

\* What the source of the sender's stream is made of.
LEMMA TxSameIf ==
    ASSUME tx'.bytes = tx.bytes, tx'.count = tx.count, ktx'.set = ktx.set, ktx'.at = ktx.at,
           utx'.buf = utx.buf, sock'.out = sock.out
    PROVE  TxSame
BY DEF TxSame, TxSource

\* Setting up a vector and having it answered leaves the same bytes to send.
LEMMA KtxMovesNothing == UxInv /\ KtxNext => TxSame
<1>. SUFFICES ASSUME UxInv, KtxNext PROVE TxSame  OBVIOUS
<1>. USE DEF UxInv, UxPart
<1>1. tx \in Txs /\ ktx \in Ktxs /\ KtxInv  BY DEF TxTypes
<1>2. utx' = utx /\ sock' = sock
  BY DEF KtxNext, KtxSendmsg, KtxGet, KtxSendvec, KtxWait, KtxPut, Oops
<1>3. CASE Oops  BY <1>3, TxSameIf DEF Oops
<1>4. CASE KtxSendmsg \/ KtxGet \/ KtxPut
  <2>1. tx' = tx  BY <1>4 DEF KtxSendmsg, KtxGet, KtxPut, Oops
  <2>2. ktx'.set = ktx.set /\ ktx'.at = ktx.at
    BY <1>1, <1>4 DEF KtxSendmsg, KtxGet, KtxPut, Oops, Ktxs
  <2>. QED  BY <1>2, <2>1, <2>2, TxSameIf
<1>5. CASE KtxSendvec /\ ~Oops
  <2>. DEFINE b == VecBytes(ktx.at)
  <2>1. ktx.at \in 1 .. Len(Vectors) /\ ~ktx.set  BY <1>1, <1>5 DEF KtxSendvec, KtxInv, Ktxs
  <2>2. tx'.bytes = b /\ tx'.count = 0 /\ ktx' = [ktx EXCEPT !.pc = "wait", !.set = TRUE]
    BY <1>5 DEF KtxSendvec
  <2>3. ktx'.set /\ ktx'.at = ktx.at  BY <1>1, <2>2 DEF Ktxs
  <2>4. b \in Bytes /\ b \o Rest(TxData, VecStart(ktx.at + 1)) = Rest(TxData, VecStart(ktx.at))
    BY <2>1, VectorOfData
  <2>5. Rest(b, 0) = b  BY <2>4, RestEnds DEF Bytes
  <2>6. TxSource' = Rest(b, 0) \o Rest(TxData, VecStart(ktx.at + 1))
    BY <2>2, <2>3 DEF TxSource
  <2>7. TxSource = Rest(TxData, VecStart(ktx.at))  BY <2>1 DEF TxSource
  <2>. QED  BY <1>2, <2>4, <2>5, <2>6, <2>7 DEF TxSame
<1>6. CASE KtxWait /\ ~Oops
  <2>1. tx' = tx /\ ktx.set /\ (tx.rsp \/ ux.int)  BY <1>1, <1>6 DEF KtxWait, KtxInv
  <2>2. CASE ux.int \/ tx.err
    <3>1. ktx' = [ktx EXCEPT !.pc = "fput"]  BY <1>6, <2>2 DEF KtxWait
    <3>2. ktx'.set = ktx.set /\ ktx'.at = ktx.at  BY <1>1, <3>1 DEF Ktxs
    <3>. QED  BY <1>2, <2>1, <3>2, TxSameIf
  <2>3. CASE ~(ux.int \/ tx.err)
    <3>1. ~ktx'.set /\ ktx'.at = ktx.at + 1  BY <1>6, <2>3 DEF KtxWait
    <3>2. tx.bytes \in Bytes /\ tx.count = Len(tx.bytes)  BY <1>1, <2>1, <2>3 DEF KtxInv, Txs
    <3>3. Rest(tx.bytes, tx.count) = <<>>  BY <3>2, RestEnds DEF Bytes
    <3>4. ktx.at + 1 \in Nat /\ ktx.at \in 1 .. Len(Vectors)  BY <1>1, <2>1 DEF Ktxs, KtxInv
    <3>5. VecStart(ktx.at + 1) \in 0 .. Len(TxData)  BY <3>4, VectorFacts, DataFacts
    <3>. DEFINE r == Rest(TxData, VecStart(ktx.at + 1))
    <3>6. r \in Bytes  BY <3>5, DataFacts, RestFacts DEF Bytes
    <3>7. TxSource = <<>> \o r  BY <2>1, <3>3 DEF TxSource
    <3>8. TxSource' = r  BY <3>1 DEF TxSource
    <3>9. <<>> \o r = r  BY <3>6, ConcatEmptySeq DEF Bytes
    <3>. QED  BY <1>2, <3>7, <3>8, <3>9 DEF TxSame
  <2>. QED  BY <2>2, <2>3
<1>. QED  BY <1>3, <1>4, <1>5, <1>6 DEF KtxNext

\* A copy to the user takes a beginning of what is left to send.
LEMMA CopyTakes ==
    ASSUME UxInv, UtxCopy, ~Oops
    PROVE  [TxStream!StreamNext]_TxStream!streamVars
<1>. USE DEF UxInv, UxPart
<1>1. PICK n \in 0 .. Len(tx.bytes) - tx.count : UtxCopies(n)  BY CopiesToUser
<1>2. tx \in Txs /\ ktx \in Ktxs /\ KtxInv /\ utx.buf = <<>>
  BY <1>1 DEF TxTypes, UserInv, UtxCopies
<1>3. tx.bytes \in Bytes /\ tx.count \in 0 .. Len(tx.bytes) /\ Len(tx.bytes) \in Nat
  BY <1>2, LenProperties DEF Txs, Bytes, KtxInv
<1>4. ktx.set /\ ktx.at \in 1 .. Len(Vectors) /\ ktx' = ktx
  BY <1>1, <1>2 DEF UtxCopies, KtxInv, Ktxs
<1>. DEFINE s == Rest(tx.bytes, tx.count)  t == Rest(TxData, VecStart(ktx.at + 1))
            b == SubSeq(tx.bytes, tx.count + 1, tx.count + n)
<1>5. s \in Bytes /\ Len(s) = Len(tx.bytes) - tx.count  BY <1>3, RestFacts DEF Bytes
<1>6. t \in Bytes
  <2>1. VecStart(ktx.at + 1) \in 0 .. Len(TxData)  BY <1>4, VectorFacts, DataFacts
  <2>. QED  BY <2>1, DataFacts, RestFacts DEF Bytes
<1>7. tx'.bytes = tx.bytes /\ tx'.count = tx.count + n  BY <1>1, <1>2 DEF UtxCopies, Txs
<1>8. utx'.buf = b /\ b = SubSeq(s, 1, n)
  <2>1. n \in 0 .. Len(tx.bytes) - tx.count  OBVIOUS
  <2>2. b = SubSeq(s, 1, n)  BY <1>3, <2>1, PartFacts DEF Bytes
  <2>. QED  BY <1>1, <2>2 DEF UtxCopies
<1>9. TxSource = s \o t  BY <1>4 DEF TxSource
<1>10. TxSource' = Rest(s, n) \o t
  <2>1. Rest(s, n) = Rest(tx.bytes, tx.count + n)  BY <1>3, RestOfRest DEF Bytes
  <2>. QED  BY <1>4, <1>7, <2>1 DEF TxSource
<1>11. UxCut' = UxCut /\ sock' = sock
  <2>1. ux'.int = ux.int  BY <1>1, CountFacts DEF UtxCopies
  <2>. QED  BY <1>1, <2>1 DEF UxCut, UtxCopies
<1>. HIDE DEF s, t, b
<1>12. n \in 0 .. Len(s)  BY <1>5
<1>13. SubSeq(s \o t, 1, n) = SubSeq(s, 1, n)
       /\ SubSeq(s \o t, n + 1, Len(s \o t)) = Rest(s, n) \o t
  BY <1>5, <1>6, <1>12, TakeFromConcat DEF Bytes
<1>14. CASE n = 0
  <2>1. SubSeq(s, 1, n) = <<>>  BY <1>14, SubSeqEmpty
  <2>2. Rest(s, n) = s  BY <1>5, <1>14, RestEnds DEF Bytes
  <2>. QED  BY <1>2, <1>8, <1>9, <1>10, <1>11, <2>1, <2>2 DEF TxStream!streamVars
<1>15. CASE n # 0
  <2>1. s \o t \in Bytes /\ Len(s \o t) = Len(s) + Len(t) /\ Len(s) \in Nat /\ Len(t) \in Nat
    BY <1>5, <1>6, ConcatProperties, LenProperties DEF Bytes
  <2>2. n \in 1 .. Len(TxSource)  BY <1>9, <1>12, <1>15, <2>1
  <2>3. utx'.buf = utx.buf \o SubSeq(TxSource, 1, n)
    <3>1. SubSeq(s, 1, n) \in Bytes  BY <1>5, <1>12, FirstFacts DEF Bytes
    <3>2. <<>> \o SubSeq(s, 1, n) = SubSeq(s, 1, n)  BY <3>1, ConcatEmptySeq DEF Bytes
    <3>. QED  BY <1>2, <1>8, <1>9, <1>13, <3>2
  <2>4. TxSource' = SubSeq(TxSource, n + 1, Len(TxSource))  BY <1>9, <1>10, <1>13
  <2>5. TxStream!Take  BY <1>11, <2>2, <2>3, <2>4 DEF TxStream!Take
  <2>. QED  BY <2>5 DEF TxStream!StreamNext
<1>. QED  BY <1>14, <1>15

\* A send hands all of the buffer to the socket.
LEMMA SendDelivers ==
    ASSUME UxInv, UtxSend, UxCut => UxCut'
    PROVE  [TxStream!StreamNext]_TxStream!streamVars
<1>. USE DEF UxInv, UxPart
<1>1. tx' = tx /\ ktx' = ktx /\ utx \in Utxs /\ sock \in Socks  BY DEF UtxSend, TxTypes, SockTypes
<1>2. CASE ~sock.open
  <2>1. utx' = [utx EXCEPT !.pc = "shutdown"] /\ sock' = sock  BY <1>2 DEF UtxSend
  <2>2. utx'.buf = utx.buf  BY <1>1, <2>1 DEF Utxs
  <2>. QED  BY <1>1, <2>1, <2>2, TxSameIf, TxStutters
<1>3. CASE sock.open
  <2>a. sock' = [sock EXCEPT !.out = @ \o utx.buf] /\ utx' = [pc |-> "read", buf |-> <<>>]
    BY <1>3 DEF UtxSend
  <2>1. sock' = [sock EXCEPT !.out = sock.out \o utx.buf] /\ utx'.buf = <<>>
    BY <1>1, <2>a DEF Socks
  <2>2. sock'.out = sock.out \o utx.buf /\ sock'.open = sock.open  BY <1>1, <2>1 DEF Socks
  <2>3. TxSource' = TxSource  BY <1>1 DEF TxSource
  <2>4. UxCut' = UxCut  BY <2>2 DEF UxCut, UtxSend
  <2>5. sock.out \in Seq(Nat) /\ utx.buf \in Seq(Nat) /\ Len(utx.buf) \in Nat
    BY <1>1, LenProperties DEF Socks, Utxs, Bytes
  <2>6. CASE utx.buf = <<>>
    <3>1. sock.out \o <<>> = sock.out  BY <2>5, ConcatEmptySeq
    <3>. QED  BY <2>1, <2>2, <2>3, <2>4, <2>6, <3>1 DEF TxStream!streamVars
  <2>7. CASE utx.buf # <<>>
    <3>. DEFINE n == Len(utx.buf)
    <3>1. n \in 1 .. Len(utx.buf)  BY <2>5, <2>7, EmptySeq
    <3>2. SubSeq(utx.buf, 1, n) = utx.buf  BY <2>5, SubSeqFull
    <3>3. SubSeq(utx.buf, n + 1, Len(utx.buf)) = <<>>  BY <2>5, SubSeqEmpty
    <3>4. TxStream!Deliver  BY <2>1, <2>2, <2>3, <2>4, <3>1, <3>2, <3>3 DEF TxStream!Deliver
    <3>. QED  BY <3>4 DEF TxStream!StreamNext
  <2>. QED  BY <2>6, <2>7
<1>. QED  BY <1>2, <1>3

\* Every step is one of the sender's stream or none of it.
LEMMA TxStep == UxInv /\ [UxNext]_uxVars => [TxStream!StreamNext]_TxStream!streamVars
<1>. SUFFICES ASSUME UxInv, [UxNext]_uxVars PROVE [TxStream!StreamNext]_TxStream!streamVars
  OBVIOUS
<1>1. UxCut => UxCut'  BY CutStays
<1>2. tx \in Txs /\ ktx \in Ktxs /\ utx \in Utxs /\ sock \in Socks
  BY DEF UxInv, UxPart, TxTypes, SockTypes
<1>3. CASE KtxNext  BY <1>1, <1>3, KtxMovesNothing, TxStutters
<1>4. CASE UtxCopy /\ ~Oops  BY <1>4, CopyTakes
<1>5. CASE UtxSend  BY <1>1, <1>5, SendDelivers
<1>6. CASE UtxRead \/ UtxWait \/ UtxShutdown \/ Oops
  <2>1. tx'.bytes = tx.bytes /\ tx'.count = tx.count
    BY <1>2, <1>6 DEF UtxRead, UtxWait, UtxShutdown, Oops, Txs
  <2>2. ktx' = ktx /\ utx'.buf = utx.buf /\ sock'.out = sock.out
    BY <1>2, <1>6 DEF UtxRead, UtxWait, UtxShutdown, Oops, Utxs, Socks
  <2>. QED  BY <1>1, <2>1, <2>2, TxSameIf, TxStutters
<1>7. CASE KrxNext \/ UrxNext \/ MainNext \/ EhNext \/ Interrupt \/ PeerCloses \/ UNCHANGED uxVars
  <2>1. tx' = tx
    BY <1>7
    DEF KrxNext, KrxRecvmsg, KrxGet, KrxRecvvec, KrxWait, KrxPut,
        UrxNext, UrxRecv, UrxWrite, UrxWait, UrxCopy, UrxIoctlGet, UrxIoctlPut,
        MainNext, MainSetup, MainAttach, MainStart, MainJoin, MainClose, MainDelete,
        EhNext, EhUnlink, EhSuspend, EhUnlinked, Interrupt, PeerCloses, Oops, uxVars
  <2>2. ktx'.set = ktx.set /\ ktx'.at = ktx.at
    BY <1>2, <1>7
    DEF KrxNext, KrxRecvmsg, KrxGet, KrxRecvvec, KrxWait, KrxPut,
        UrxNext, UrxRecv, UrxWrite, UrxWait, UrxCopy, UrxIoctlGet, UrxIoctlPut,
        MainNext, MainSetup, MainAttach, MainStart, MainJoin, MainClose, MainDelete,
        EhNext, EhUnlink, EhSuspend, EhUnlinked, Interrupt, PeerCloses, Oops, uxVars, Ktxs
  <2>3. utx'.buf = utx.buf
    BY <1>2, <1>7
    DEF KrxNext, KrxRecvmsg, KrxGet, KrxRecvvec, KrxWait, KrxPut,
        UrxNext, UrxRecv, UrxWrite, UrxWait, UrxCopy, UrxIoctlGet, UrxIoctlPut,
        MainNext, MainSetup, MainAttach, MainStart, MainJoin, MainClose, MainDelete,
        EhNext, EhUnlink, EhSuspend, EhUnlinked, Interrupt, PeerCloses, Oops, uxVars, Utxs
  <2>4. sock'.out = sock.out
    BY <1>2, <1>7
    DEF KrxNext, KrxRecvmsg, KrxGet, KrxRecvvec, KrxWait, KrxPut,
        UrxNext, UrxRecv, UrxWrite, UrxWait, UrxCopy, UrxIoctlGet, UrxIoctlPut,
        MainNext, MainSetup, MainAttach, MainStart, MainJoin, MainClose, MainDelete,
        EhNext, EhUnlink, EhSuspend, EhUnlinked, Interrupt, PeerCloses, Oops, uxVars, Socks
  <2>. QED  BY <1>1, <2>1, <2>2, <2>3, <2>4, TxSameIf, TxStutters
<1>. QED  BY <1>3, <1>4, <1>5, <1>6, <1>7 DEF UxNext, UtxNext


-----------------------------------------------------------------------------
(* The receiver's side is a stream. *)

\* Nothing moves in the direction from the socket.
RxSame == RxSink' = RxSink /\ urx'.buf = urx.buf /\ sock'.in = sock.in

\* A step that moves nothing is no step of the stream, or cuts it.
LEMMA RxStutters ==
    ASSUME RxSame, UxCut => UxCut'
    PROVE  [RxStream!StreamNext]_RxStream!streamVars
<1>1. CASE UxCut' = UxCut  BY <1>1 DEF RxSame, RxStream!streamVars
<1>2. CASE UxCut' # UxCut
  <2>1. ~UxCut /\ UxCut' = TRUE  BY <1>2 DEF UxCut
  <2>2. RxStream!Cut  BY <2>1 DEF RxStream!Cut, RxSame
  <2>. QED  BY <2>2 DEF RxStream!StreamNext
<1>. QED  BY <1>1, <1>2

\* What the receiver's stream has delivered is made of.
LEMMA RxSameIf ==
    ASSUME rx'.got = rx.got, krx'.set = krx.set, krx'.done = krx.done,
           urx'.buf = urx.buf, sock'.in = sock.in
    PROVE  RxSame
BY DEF RxSame, RxSink

\* Asking for the rest of a size and taking what came leaves the same bytes
\* delivered.
LEMMA KrxMovesNothing == UxInv /\ KrxNext => RxSame
<1>. SUFFICES ASSUME UxInv, KrxNext PROVE RxSame  OBVIOUS
<1>. USE DEF UxInv, UxPart
<1>1. rx \in Rxs /\ krx \in Krxs /\ KrxInv  BY DEF RxTypes
<1>2. urx' = urx /\ sock' = sock
  BY DEF KrxNext, KrxRecvmsg, KrxGet, KrxRecvvec, KrxWait, KrxPut, Oops
<1>3. krx.done \in Seq(Nat) /\ rx.got \in Seq(Nat)  BY <1>1 DEF Krxs, Rxs, Bytes
<1>4. krx.done \o <<>> = krx.done  BY <1>3, ConcatEmptySeq
<1>5. CASE Oops  BY <1>5, RxSameIf DEF Oops
<1>6. CASE (KrxRecvmsg \/ KrxGet \/ KrxPut) /\ ~Oops
  <2>1. rx' = rx  BY <1>6 DEF KrxRecvmsg, KrxGet, KrxPut
  <2>2. krx'.set = krx.set /\ krx'.done = krx.done
    BY <1>1, <1>6 DEF KrxRecvmsg, KrxGet, KrxPut, Krxs
  <2>. QED  BY <1>2, <2>1, <2>2, RxSameIf
<1>7. CASE KrxRecvvec /\ ~Oops
  <2>1. rx'.got = <<>> /\ krx' = [krx EXCEPT !.pc = "wait", !.set = TRUE] /\ krx.pc = "vec"
    BY <1>7 DEF KrxRecvvec
  <2>2. krx'.set /\ krx'.done = krx.done /\ ~krx.set  BY <1>1, <2>1 DEF Krxs, KrxInv
  <2>3. RxSink' = krx.done \o <<>> /\ RxSink = krx.done \o <<>>  BY <2>1, <2>2 DEF RxSink
  <2>. QED  BY <1>2, <2>3 DEF RxSame
<1>8. CASE KrxWait /\ ~Oops
  <2>1. rx' = rx /\ krx.set  BY <1>1, <1>8 DEF KrxWait, KrxInv
  <2>2. CASE ux.int \/ rx.err
    <3>1. krx' = [krx EXCEPT !.pc = "fput"]  BY <1>8, <2>2 DEF KrxWait
    <3>2. krx'.set = krx.set /\ krx'.done = krx.done  BY <1>1, <3>1 DEF Krxs
    <3>. QED  BY <1>2, <2>1, <3>2, RxSameIf
  <2>3. CASE ~(ux.int \/ rx.err)
    <3>. DEFINE d == krx.done \o rx.got
    <3>1. krx' = [krx EXCEPT !.pc = "put", !.set = FALSE, !.left = @ - Len(rx.got), !.done = d]
      BY <1>8, <2>3 DEF KrxWait
    <3>2. d \in Seq(Nat)  BY <1>3, ConcatProperties
    <3>3. RxSink = d  BY <2>1 DEF RxSink
    <3>. HIDE DEF d
    <3>4. ~krx'.set /\ krx'.done = d  BY <1>1, <3>1 DEF Krxs
    <3>5. RxSink' = d \o <<>>  BY <3>4 DEF RxSink
    <3>6. d \o <<>> = d  BY <3>2, ConcatEmptySeq
    <3>. QED  BY <1>2, <3>3, <3>5, <3>6 DEF RxSame
  <2>. QED  BY <2>2, <2>3
<1>. QED  BY <1>5, <1>6, <1>7, <1>8 DEF KrxNext

\* A recv takes a beginning of what has arrived.
LEMMA RecvTakes ==
    ASSUME UxInv, UrxRecv, UxCut => UxCut'
    PROVE  [RxStream!StreamNext]_RxStream!streamVars
<1>. USE DEF UxInv, UxPart
<1>1. rx' = rx /\ krx' = krx /\ urx \in Urxs /\ sock \in Socks /\ urx.buf = <<>>
  BY DEF UrxRecv, RxTypes, SockTypes, UserInv
<1>2. CASE urx' = [urx EXCEPT !.pc = "intr"] /\ sock' = sock
  <2>1. urx'.buf = urx.buf  BY <1>1, <1>2 DEF Urxs
  <2>. QED  BY <1>1, <1>2, <2>1, RxSameIf, RxStutters
<1>3. CASE \E n \in 1 .. Least(BLEN, Len(sock.in)) : UrxReceives(n)
  <2>1. PICK n \in 1 .. Least(BLEN, Len(sock.in)) : UrxReceives(n)  BY <1>3
  <2>2. sock.in \in Bytes  BY <1>1 DEF Socks
  <2>3. n \in 1 .. Len(sock.in)  BY <2>2, ReceiveFits
  <2>4. urx'.buf = SubSeq(sock.in, 1, n) /\ sock'.in = Rest(sock.in, n) /\ sock'.open = sock.open
    BY <1>1, <2>1 DEF UrxReceives, Urxs, Socks
  <2>5. RxSink' = RxSink  BY <1>1 DEF RxSink
  <2>6. UxCut' = UxCut  BY <2>4 DEF UrxRecv, UxCut
  <2>7. urx'.buf = urx.buf \o SubSeq(sock.in, 1, n)
    <3>1. n \in 0 .. Len(sock.in)  BY <2>3
    <3>2. SubSeq(sock.in, 1, n) \in Seq(Nat)  BY <2>2, <3>1, FirstFacts DEF Bytes
    <3>3. <<>> \o SubSeq(sock.in, 1, n) = SubSeq(sock.in, 1, n)  BY <3>2, ConcatEmptySeq
    <3>. QED  BY <1>1, <2>4, <3>3
  <2>8. RxStream!Take  BY <2>3, <2>4, <2>5, <2>6, <2>7 DEF RxStream!Take, Rest
  <2>. QED  BY <2>8 DEF RxStream!StreamNext
<1>. QED  BY <1>2, <1>3 DEF UrxRecv, UrxReceives

\* A copy from the user hands over a beginning of the buffer.
LEMMA CopyDelivers ==
    ASSUME UxInv, UrxCopy, ~Oops
    PROVE  [RxStream!StreamNext]_RxStream!streamVars
<1>. USE DEF UxInv, UxPart
<1>1. PICK n \in 0 .. Len(urx.buf) : UrxCopies(n)  BY CopiesFromUser
<1>2. rx \in Rxs /\ urx \in Urxs /\ krx.set /\ krx' = krx /\ sock' = sock
  BY <1>1 DEF RxTypes, KrxInv, UrxCopies
<1>3. urx.buf \in Seq(Nat) /\ rx.got \in Seq(Nat) /\ krx.done \in Seq(Nat) /\ Len(urx.buf) \in Nat
  BY <1>2, LenProperties DEF Rxs, Urxs, Krxs, RxTypes, Bytes
<1>. DEFINE b == SubSeq(urx.buf, 1, n)  q == Rest(urx.buf, n)
<1>4. b \in Seq(Nat)  BY <1>3, FirstFacts
<1>5. rx'.got = rx.got \o b /\ urx'.buf = q  BY <1>1, <1>2 DEF UrxCopies, Rxs, Urxs
<1>6. UxCut' = UxCut
  <2>1. ux'.int = ux.int  BY <1>1, CountFacts DEF UrxCopies
  <2>. QED  BY <1>1, <2>1 DEF UxCut, UrxCopies
<1>7. RxSink = krx.done \o rx.got /\ RxSink' = krx.done \o (rx.got \o b)
  BY <1>2, <1>5 DEF RxSink
<1>8. krx.done \o (rx.got \o b) = (krx.done \o rx.got) \o b
  <2>. HIDE DEF b
  <2>. QED  BY <1>3, <1>4, Reassociate, ZenonT(60)
<1>9. RxSink' = RxSink \o b  BY <1>7, <1>8
<1>10. CASE n = 0
  <2>1. b = <<>>  BY <1>10, SubSeqEmpty
  <2>2. q = urx.buf  BY <1>3, <1>10, RestEnds
  <2>3. RxSink \in Seq(Nat)  BY <1>3, <1>7, ConcatProperties
  <2>4. RxSink' = RxSink  BY <1>9, <2>1, <2>3, ConcatEmptySeq
  <2>. QED  BY <1>2, <1>5, <1>6, <2>2, <2>4 DEF RxStream!streamVars
<1>11. CASE n # 0
  <2>1. n \in 1 .. Len(urx.buf)  BY <1>3, <1>11
  <2>2. RxStream!Deliver  BY <1>2, <1>5, <1>6, <1>9, <2>1 DEF RxStream!Deliver, Rest
  <2>. QED  BY <2>2 DEF RxStream!StreamNext
<1>. QED  BY <1>10, <1>11

\* Every step is one of the receiver's stream or none of it.
LEMMA RxStep == UxInv /\ [UxNext]_uxVars => [RxStream!StreamNext]_RxStream!streamVars
<1>. SUFFICES ASSUME UxInv, [UxNext]_uxVars PROVE [RxStream!StreamNext]_RxStream!streamVars
  OBVIOUS
<1>1. UxCut => UxCut'  BY CutStays
<1>2. rx \in Rxs /\ krx \in Krxs /\ urx \in Urxs /\ sock \in Socks
  BY DEF UxInv, UxPart, RxTypes, SockTypes
<1>3. CASE KrxNext  BY <1>1, <1>3, KrxMovesNothing, RxStutters
<1>4. CASE UrxCopy /\ ~Oops  BY <1>4, CopyDelivers
<1>5. CASE UrxRecv  BY <1>1, <1>5, RecvTakes
<1>6. CASE UrxWrite \/ UrxWait \/ UrxIoctlGet \/ UrxIoctlPut \/ Oops
  <2>1. rx'.got = rx.got
    BY <1>2, <1>6 DEF UrxWrite, UrxWait, UrxIoctlGet, UrxIoctlPut, Oops, Rxs
  <2>2. krx' = krx /\ urx'.buf = urx.buf /\ sock' = sock
    BY <1>2, <1>6 DEF UrxWrite, UrxWait, UrxIoctlGet, UrxIoctlPut, Oops, Urxs
  <2>. QED  BY <1>1, <2>1, <2>2, RxSameIf, RxStutters
<1>7. CASE KtxNext \/ UtxNext \/ MainNext \/ EhNext \/ Interrupt \/ PeerCloses \/ UNCHANGED uxVars
  <2>1. rx' = rx
    BY <1>7
    DEF KtxNext, KtxSendmsg, KtxGet, KtxSendvec, KtxWait, KtxPut,
        UtxNext, UtxRead, UtxWait, UtxCopy, UtxSend, UtxShutdown,
        MainNext, MainSetup, MainAttach, MainStart, MainJoin, MainClose, MainDelete,
        EhNext, EhUnlink, EhSuspend, EhUnlinked, Interrupt, PeerCloses, Oops, uxVars
  <2>2. krx'.set = krx.set /\ krx'.done = krx.done
    BY <1>2, <1>7
    DEF KtxNext, KtxSendmsg, KtxGet, KtxSendvec, KtxWait, KtxPut,
        UtxNext, UtxRead, UtxWait, UtxCopy, UtxSend, UtxShutdown,
        MainNext, MainSetup, MainAttach, MainStart, MainJoin, MainClose, MainDelete,
        EhNext, EhUnlink, EhSuspend, EhUnlinked, Interrupt, PeerCloses, Oops, uxVars, Krxs
  <2>3. urx'.buf = urx.buf
    BY <1>2, <1>7
    DEF KtxNext, KtxSendmsg, KtxGet, KtxSendvec, KtxWait, KtxPut,
        UtxNext, UtxRead, UtxWait, UtxCopy, UtxSend, UtxShutdown,
        MainNext, MainSetup, MainAttach, MainStart, MainJoin, MainClose, MainDelete,
        EhNext, EhUnlink, EhSuspend, EhUnlinked, Interrupt, PeerCloses, Oops, uxVars, Urxs
  <2>4. sock'.in = sock.in
    BY <1>2, <1>7
    DEF KtxNext, KtxSendmsg, KtxGet, KtxSendvec, KtxWait, KtxPut,
        UtxNext, UtxRead, UtxWait, UtxCopy, UtxSend, UtxShutdown,
        MainNext, MainSetup, MainAttach, MainStart, MainJoin, MainClose, MainDelete,
        EhNext, EhUnlink, EhSuspend, EhUnlinked, Interrupt, PeerCloses, Oops, uxVars, Socks
  <2>. QED  BY <1>1, <2>1, <2>2, <2>3, <2>4, RxSameIf, RxStutters
<1>. QED  BY <1>3, <1>4, <1>5, <1>6, <1>7 DEF UxNext, UrxNext

-----------------------------------------------------------------------------
(* The theorems. *)

\* Both streams begin with everything at the sender.
LEMMA StreamsBegin == UxInit => TxStream!StreamInit /\ RxStream!StreamInit
<1>. SUFFICES ASSUME UxInit PROVE TxStream!StreamInit /\ RxStream!StreamInit  OBVIOUS
<1>1. UxCut \in BOOLEAN  BY DEF UxCut, UxInit
<1>2. TxSource = TxData
  <2>1. TxSource = Rest(TxData, 0)  BY FirstStart DEF UxInit, TxSource
  <2>. QED  BY <2>1, DataFacts, RestEnds DEF Bytes
<1>3. RxSink = <<>>
  <2>1. RxSink = <<>> \o <<>>  BY DEF UxInit, RxSink
  <2>2. <<>> \in Seq(Nat)  OBVIOUS
  <2>. QED  BY <2>1, <2>2, ConcatEmptySeq
<1>4. TxStream!StreamInit  BY <1>1, <1>2 DEF TxStream!StreamInit, UxInit
<1>5. RxStream!StreamInit  BY <1>1, <1>3 DEF RxStream!StreamInit, UxInit
<1>. QED  BY <1>4, <1>5

\* In all reachable states the requests and buffers are as UxInv says.
THEOREM RequestsFit == UxSpec => []UxInv
<1>1. UxInit => UxInv  BY UxInvInit
<1>2. UxInv /\ [UxNext]_uxVars => UxInv'  BY UxInvStep
<1>. QED  BY <1>1, <1>2, PTL DEF UxSpec

\* Whatever the vectors of the kernel's messages, the sizes it asks for, the
\* size of the user's buffer and what each recv returns, the read and write of
\* usbip_ux.c with their requests and answers move the bytes of each direction
\* in order, none twice and none left out, until the end of the connection and
\* through it.
THEOREM TransportIsStream == UxSpec => TxStream!StreamSafe /\ RxStream!StreamSafe
<1>1. UxInit => TxStream!StreamInit /\ RxStream!StreamInit  BY StreamsBegin
<1>2. UxInv /\ [UxNext]_uxVars => [TxStream!StreamNext]_TxStream!streamVars  BY TxStep
<1>3. UxInv /\ [UxNext]_uxVars => [RxStream!StreamNext]_RxStream!streamVars  BY RxStep
<1>. QED
  BY <1>1, <1>2, <1>3, RequestsFit, PTL DEF UxSpec, TxStream!StreamSafe, RxStream!StreamSafe

=============================================================================
