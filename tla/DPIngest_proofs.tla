-------------------------- MODULE DPIngest_proofs ---------------------------
(***************************************************************************)
(* Proofs about a connection and the store at its end.                     *)
(*                                                                         *)
(* That the framing keeps the promise of Channel rests on the bytes the    *)
(* reader still has before it, those in got and those in the stream: each  *)
(* belongs to a message of which enough was pushed, they come in order,    *)
(* and all of them come after the last message returned.  On an untorn     *)
(* stream, moreover, they run without a gap from the byte the reader       *)
(* expects to the byte that sendall pushes next.  A step of the reader     *)
(* takes bytes from the front, one of the sender adds some at the end; a   *)
(* lost chunk, a frame given up or a false length takes only the "no gap". *)
(***************************************************************************)
EXTENDS DPIngest, Numbers_proofs

Bytes == Nat \X Nat

\* The bytes the reader still has before it: the chunks of _recv_exact, then
\* the stream.
Nth(g, s, k) == IF k <= Len(g) THEN g[k] ELSE s[k - Len(g)]
Count == Len(got) + Len(stream)
At(k) == Nth(got, stream, k)

LastOut == Abstract!LastOut

Under == senderAt = "sending"

\* The byte that send_msg puts into the stream next, the one that the reader
\* expects, and the one that follows b.
NextPush == IF Under THEN <<Len(sent), pushed + 1>> ELSE <<Len(sent) + 1, 1>>
Expected == <<LastOut + 1, IF readerAt = "payload" THEN HeaderLen + 1 ELSE 1>>
Succ(b) == IF b[2] < FrameLen(b[1]) THEN <<b[1], b[2] + 1>> ELSE <<b[1] + 1, 1>>

Ahead(k) == IF k <= Count THEN At(k) ELSE NextPush

FramingType ==
    /\ side \in {"toServer", "toWorker"} /\ torn \in BOOLEAN
    /\ sent \in Seq(Messages) /\ pushed \in Nat
    /\ senderAt \in {"idle", "sending", "leaving", "closed"}
    /\ stream \in Seq(Bytes) /\ got \in Seq(Bytes)
    /\ readerAt \in {"header", "payload", "ended"}
    /\ want \in Nat /\ read \in Seq(Nat)
    /\ Under => sent # <<>> /\ pushed < FrameLen(Len(sent))

ReaderOK == Len(got) < want /\ (readerAt = "header" => want = HeaderLen)

Pushed(b) ==
    /\ b[1] \in 1 .. Len(sent) /\ b[2] \in 1 .. FrameLen(b[1])
    /\ Under /\ b[1] = Len(sent) => b[2] <= pushed

Before(b, c) == b[1] < c[1] \/ (b[1] = c[1] /\ b[2] < c[2])

InOrder ==
    /\ \A k \in 1 .. Count : Pushed(At(k)) /\ At(k)[1] > LastOut
    /\ \A k, l \in 1 .. Count : k < l => Before(At(k), At(l))
    /\ LastOut < NextPush[1]

InFull ==
    /\ Ahead(1) = Expected
    /\ \A k \in 1 .. Count : Ahead(k + 1) = Succ(At(k))
    /\ readerAt = "payload" => want = PayloadLen[sent[LastOut + 1]]

FramingInv == FramingType /\ (Reading => ReaderOK /\ InOrder /\ (~torn => InFull))

-----------------------------------------------------------------------------
(* Sequences *)

LEMMA LessTaken ==
    ASSUME NEW S, NEW g \in Seq(S), NEW s \in Seq(S), NEW k \in 1 .. Len(s)
    PROVE  LET h == g \o SubSeq(s, 1, k)
               t == SubSeq(s, k + 1, Len(s))
           IN  /\ h \in Seq(S) /\ t \in Seq(S)
               /\ Len(h) = Len(g) + k /\ Len(t) = Len(s) - k
               /\ \A j \in 1 .. Len(g) + Len(s) : Nth(h, t, j) = Nth(g, s, j)
<1> DEFINE a == SubSeq(s, 1, k)
           t == SubSeq(s, k + 1, Len(s))
<1>1. a \in Seq(S) /\ Len(a) = k /\ \A j \in 1 .. k : a[j] = s[j]
  OBVIOUS
<1>2. t \in Seq(S) /\ Len(t) = Len(s) - k /\ \A j \in 1 .. Len(s) - k : t[j] = s[k + j]
  OBVIOUS
<1> HIDE DEF a, t
<1>3. /\ g \o a \in Seq(S) /\ Len(g \o a) = Len(g) + k
      /\ \A j \in 1 .. Len(g) : (g \o a)[j] = g[j]
      /\ \A j \in 1 .. k : (g \o a)[Len(g) + j] = s[j]
  BY SMTT(30), <1>1
<1>4. ASSUME NEW j \in 1 .. Len(g) + Len(s) PROVE Nth(g \o a, t, j) = Nth(g, s, j)
  <2>1. CASE j <= Len(g)
    BY <1>3, <2>1 DEF Nth
  <2>2. CASE Len(g) < j /\ j <= Len(g) + k
    <3>1. j - Len(g) \in 1 .. k /\ Len(g) + (j - Len(g)) = j
      BY <2>2
    <3>2. (g \o a)[j] = s[j - Len(g)]
      BY <1>3, <3>1
    <3> QED BY <1>3, <2>2, <3>2 DEF Nth
  <2>3. CASE Len(g) + k < j
    <3>1. j - (Len(g) + k) \in 1 .. Len(s) - k /\ k + (j - (Len(g) + k)) = j - Len(g)
      BY <2>3
    <3>2. t[j - (Len(g) + k)] = s[j - Len(g)]
      BY <1>2, <3>1
    <3> QED BY <1>3, <2>3, <3>2 DEF Nth
  <2> QED BY <2>1, <2>2, <2>3
<1> QED BY <1>2, <1>3, <1>4 DEF a, t

\* A read of n bytes that is complete: what it returns, and what is left.
LEMMA AllTaken ==
    ASSUME NEW S, NEW g \in Seq(S), NEW s \in Seq(S), NEW n \in Nat,
           Len(g) < n, n - Len(g) <= Len(s)
    PROVE  LET w == g \o SubSeq(s, 1, n - Len(g))
               t == SubSeq(s, n - Len(g) + 1, Len(s))
           IN  /\ w \in Seq(S) /\ Len(w) = n /\ \A j \in 1 .. n : w[j] = Nth(g, s, j)
               /\ t \in Seq(S) /\ Len(t) = Len(g) + Len(s) - n
               /\ \A j \in 1 .. Len(t) : Nth(<<>>, t, j) = Nth(g, s, n + j)
<1> DEFINE k == n - Len(g)
           w == g \o SubSeq(s, 1, k)
           t == SubSeq(s, k + 1, Len(s))
<1>1. k \in 1 .. Len(s) /\ Len(g) + k = n
  OBVIOUS
<1>2. /\ w \in Seq(S) /\ t \in Seq(S) /\ Len(w) = n /\ Len(t) = Len(s) - k
      /\ \A j \in 1 .. Len(g) + Len(s) : Nth(w, t, j) = Nth(g, s, j)
  <2> HIDE DEF k
  <2>1. /\ w \in Seq(S) /\ t \in Seq(S) /\ Len(w) = Len(g) + k /\ Len(t) = Len(s) - k
        /\ \A j \in 1 .. Len(g) + Len(s) : Nth(w, t, j) = Nth(g, s, j)
    BY <1>1, LessTaken
  <2> QED BY <1>1, <2>1
<1>3. n <= Len(g) + Len(s) /\ Len(g) \in Nat /\ Len(s) \in Nat
  OBVIOUS
<1> HIDE DEF w, t
<1>4. \A j \in 1 .. n : w[j] = Nth(g, s, j)
  <2>1. \A j \in 1 .. n : Nth(w, t, j) = w[j]
    BY <1>2 DEF Nth
  <2> QED BY <1>2, <1>3, <2>1
<1>5. ASSUME NEW j \in 1 .. Len(t) PROVE Nth(<<>>, t, j) = Nth(g, s, n + j)
  <2>1. n + j \in 1 .. Len(g) + Len(s)
    BY <1>1, <1>2, <1>3
  <2>2. Nth(w, t, n + j) = t[j]
    BY <1>2 DEF Nth
  <2>3. Nth(<<>>, t, j) = t[j]
    BY DEF Nth
  <2> QED BY <1>2, <2>1, <2>2, <2>3
<1> QED BY <1>1, <1>2, <1>3, <1>4, <1>5 DEF w, t

-----------------------------------------------------------------------------
(* The bytes before the reader *)

LEMMA FrameLens ==
    ASSUME FramingType, NEW i \in 1 .. Len(sent)
    PROVE  /\ HeaderLen \in Nat \ {0}
           /\ PayloadLen[sent[i]] \in Nat \ {0} /\ FrameLen(i) \in Nat
           /\ FrameLen(i) = HeaderLen + PayloadLen[sent[i]]
<1>1. sent[i] \in Messages
  BY DEF FramingType
<1>2. PayloadLen[sent[i]] \in 1 .. MaxFrame /\ MaxFrame \in Nat
  BY <1>1, FramingAssumption
<1> QED BY <1>2, FramingAssumption DEF FrameLen

LEMMA ByteType ==
    ASSUME FramingType
    PROVE  /\ Count \in Nat /\ Len(got) \in Nat /\ Len(stream) \in Nat /\ Len(sent) \in Nat
           /\ LastOut \in Nat
           /\ \A k \in 1 .. Count : At(k) \in Bytes
<1>1. Len(got) \in Nat /\ Len(stream) \in Nat /\ Len(sent) \in Nat
  BY DEF FramingType
<1>2. LastOut \in Nat
  BY DEF FramingType, LastOut, Abstract!LastOut
<1>3. ASSUME NEW k \in 1 .. Count PROVE At(k) \in Bytes
  <2>1. CASE k <= Len(got)
    BY <1>1, <2>1 DEF FramingType, At, Nth, Count
  <2>2. CASE ~(k <= Len(got))
    <3>1. k - Len(got) \in 1 .. Len(stream)
      BY <1>1, <2>2 DEF Count
    <3> QED BY <2>2, <3>1 DEF FramingType, At, Nth
  <2> QED BY <2>1, <2>2
<1> QED BY <1>1, <1>2, <1>3 DEF Count

\* A step that moves bytes from the stream to got and nothing else.
LEMMA SameBytes ==
    ASSUME FramingType, Count' = Count, \A j \in 1 .. Count : At(j)' = At(j),
           UNCHANGED <<senderVars, readerAt, want, read, torn>>
    PROVE  /\ InOrder => InOrder'
           /\ InFull => InFull'
<1>1. LastOut' = LastOut /\ NextPush' = NextPush /\ Expected' = Expected
  BY DEF LastOut, Abstract!LastOut, NextPush, Under, Expected, senderVars
<1>2. \A j \in 1 .. Count : Pushed(At(j)) => Pushed(At(j))'
  BY DEF Pushed, Under, FrameLen, senderVars
<1>3. Count \in Nat
  BY ByteType
<1>4. InOrder => InOrder'
  BY <1>1, <1>2 DEF InOrder, Before
<1>5. ASSUME InFull PROVE InFull'
  <2>1. \A j \in 1 .. Count + 1 : Ahead(j)' = Ahead(j)
    BY <1>1, <1>3 DEF Ahead
  <2>2. \A j \in 1 .. Count : Succ(At(j))' = Succ(At(j))
    BY DEF Succ, FrameLen, senderVars
  <2>3. \A j \in 1 .. Count : Ahead(j + 1)' = Succ(At(j))'
    BY <1>3, <1>5, <2>1, <2>2 DEF InFull
  <2>4. Ahead(1)' = Expected'
    BY <1>1, <1>3, <1>5, <2>1 DEF InFull
  <2>5. readerAt' = "payload" => want' = PayloadLen[sent'[LastOut' + 1]]
    BY <1>1, <1>5 DEF InFull, senderVars
  <2> QED BY <2>3, <2>4, <2>5 DEF InFull
<1> QED BY <1>4, <1>5

LEMMA RecvSomeInv ==
    ASSUME FramingInv, NEW k \in 1 .. BufferSize, RecvSome(k)
    PROVE  FramingInv'
<1> USE FramingAssumption
<1>1. /\ FramingType /\ Reading /\ ReaderOK /\ InOrder /\ (~torn => InFull)
      /\ UNCHANGED <<side, senderVars, readerAt, want, read, torn>>
  BY DEF FramingInv, RecvSome
<1>2. /\ k \in 1 .. Len(stream) /\ k < want - Len(got)
      /\ got' = got \o SubSeq(stream, 1, k)
      /\ stream' = SubSeq(stream, k + 1, Len(stream))
  BY <1>1, ByteType DEF RecvSome, Missing
<1>3. got \in Seq(Bytes) /\ stream \in Seq(Bytes) /\ want \in Nat
  BY <1>1 DEF FramingType
<1>4. /\ got' \in Seq(Bytes) /\ stream' \in Seq(Bytes)
      /\ Len(got') = Len(got) + k /\ Len(stream') = Len(stream) - k
      /\ \A j \in 1 .. Len(got) + Len(stream) : Nth(got', stream', j) = Nth(got, stream, j)
  BY SMTT(30), <1>2, <1>3, LessTaken
<1>5. Count' = Count /\ \A j \in 1 .. Count : At(j)' = At(j)
  BY <1>3, <1>4 DEF Count, At
<1>6. InOrder' /\ (~torn => InFull')
  BY <1>1, <1>5, SameBytes
<1>7. FramingType'
  BY <1>1, <1>4 DEF FramingType, Under, FrameLen, senderVars
<1>8. ReaderOK'
  BY <1>1, <1>2, <1>3, <1>4 DEF ReaderOK
<1> QED BY <1>1, <1>6, <1>7, <1>8 DEF FramingInv

\* A read that is complete: what it has, and what the reader then has before
\* it.
LEMMA Consumed ==
    ASSUME FramingType, ReaderOK, CompleteRead
    PROVE  /\ want <= Count
           /\ Whole \in Seq(Bytes) /\ Len(Whole) = want
           /\ \A j \in 1 .. want : Whole[j] = At(j)
           /\ stream' \in Seq(Bytes)
           /\ got' = <<>> => /\ Count' = Count - want
                             /\ \A j \in 1 .. Count' : At(j)' = At(want + j)
<1>1. got \in Seq(Bytes) /\ stream \in Seq(Bytes) /\ want \in Nat
  BY DEF FramingType
<1>2. /\ Len(got) < want /\ want - Len(got) <= Len(stream)
      /\ stream' = SubSeq(stream, want - Len(got) + 1, Len(stream))
  BY DEF ReaderOK, CompleteRead, Missing
<1>3. Whole = got \o SubSeq(stream, 1, want - Len(got))
  BY DEF Whole, Missing
<1>4. /\ Whole \in Seq(Bytes) /\ Len(Whole) = want
      /\ \A j \in 1 .. want : Whole[j] = Nth(got, stream, j)
      /\ stream' \in Seq(Bytes) /\ Len(stream') = Len(got) + Len(stream) - want
      /\ \A j \in 1 .. Len(stream') : Nth(<<>>, stream', j) = Nth(got, stream, want + j)
  <2>1. /\ got \o SubSeq(stream, 1, want - Len(got)) \in Seq(Bytes)
        /\ Len(got \o SubSeq(stream, 1, want - Len(got))) = want
        /\ \A j \in 1 .. want :
              (got \o SubSeq(stream, 1, want - Len(got)))[j] = Nth(got, stream, j)
    BY <1>1, <1>2, AllTaken
  <2>2. LET t == SubSeq(stream, want - Len(got) + 1, Len(stream))
        IN  /\ t \in Seq(Bytes) /\ Len(t) = Len(got) + Len(stream) - want
            /\ \A j \in 1 .. Len(t) : Nth(<<>>, t, j) = Nth(got, stream, want + j)
    BY <1>1, <1>2, AllTaken
  <2> QED BY <1>2, <1>3, <2>1, <2>2
<1>5. want <= Count
  BY <1>1, <1>2 DEF Count
<1>6. ASSUME got' = <<>> PROVE Count' = Len(stream') /\ Count' = Count - want
  BY <1>1, <1>4, <1>6 DEF Count
<1>7. ASSUME got' = <<>>, NEW j \in 1 .. Count' PROVE At(j)' = At(want + j)
  BY <1>4, <1>6, <1>7 DEF At
<1> QED BY <1>4, <1>5, <1>6, <1>7 DEF At

\* On an untorn stream the bytes of a header are those of the next frame.
LEMMA HeaderIsNext ==
    ASSUME FramingType, InOrder, InFull, readerAt = "header", HeaderLen <= Count
    PROVE  /\ LastOut + 1 \in 1 .. Len(sent)
           /\ \A j \in 1 .. HeaderLen : At(j) = <<LastOut + 1, j>>
<1> USE FramingAssumption
<1>1. Count \in Nat /\ LastOut \in Nat /\ Len(sent) \in Nat
  BY ByteType
<1>2. At(1) = <<LastOut + 1, 1>>
  <2>1. 1 <= Count
    BY <1>1
  <2>2. Ahead(1) = At(1)
    BY <2>1 DEF Ahead
  <2> QED BY <2>2 DEF InFull, Expected
<1>3. LastOut + 1 \in 1 .. Len(sent)
  BY <1>1, <1>2 DEF InOrder, Pushed
<1>4. FrameLen(LastOut + 1) \in Nat /\ HeaderLen < FrameLen(LastOut + 1)
  BY <1>3, FrameLens
<1> DEFINE T == {n \in Nat : n + 1 <= HeaderLen => At(n + 1) = <<LastOut + 1, n + 1>>}
<1>5. 0 \in T
  BY <1>2
<1>6. ASSUME NEW n \in Nat, n \in T PROVE n + 1 \in T
  <2> SUFFICES ASSUME n + 2 <= HeaderLen PROVE At(n + 2) = <<LastOut + 1, n + 2>>
    OBVIOUS
  <2>1. At(n + 1) = <<LastOut + 1, n + 1>>
    BY <1>6
  <2>2. n + 1 \in 1 .. Count /\ n + 2 \in 1 .. Count /\ (n + 1) + 1 = n + 2
    BY <1>1
  <2>3. At(n + 2) = Succ(At(n + 1))
    BY <1>1, <2>2 DEF InFull, Ahead
  <2>4. Succ(<<LastOut + 1, n + 1>>) = <<LastOut + 1, n + 2>>
    BY <1>4 DEF Succ
  <2> QED BY <2>1, <2>3, <2>4
<1>7. Nat \subseteq T
  <2> HIDE DEF T
  <2> QED BY <1>5, <1>6, Induction
<1>8. ASSUME NEW j \in 1 .. HeaderLen PROVE At(j) = <<LastOut + 1, j>>
  <2>1. j - 1 \in T /\ (j - 1) + 1 = j
    BY <1>7
  <2> QED BY <2>1
<1> QED BY <1>3, <1>8

-----------------------------------------------------------------------------
(* Steps of the reader *)

LEMMA ReaderGone ==
    ASSUME FramingType, ReaderEnds, stream' \in Seq(Bytes), read' \in Seq(Nat),
           UNCHANGED <<side, senderVars, torn>>
    PROVE  FramingInv'
<1>1. ~Reading'
  BY DEF ReaderEnds, Reading
<1>2. FramingType'
  BY DEF FramingType, ReaderEnds, Under, FrameLen, senderVars
<1> QED BY <1>1, <1>2 DEF FramingInv

\* A complete read takes want bytes off the front of those before the reader.
LEMMA OrderAfterRead ==
    ASSUME FramingType, ReaderOK, InOrder, CompleteRead, got' = <<>>, UNCHANGED senderVars,
           LastOut' < NextPush[1], \A k \in want + 1 .. Count : At(k)[1] > LastOut'
    PROVE  InOrder'
<1>1. /\ want \in Nat /\ Count \in Nat /\ want <= Count /\ Count' = Count - want
      /\ \A j \in 1 .. Count' : At(j)' = At(want + j)
  BY Consumed, ByteType DEF FramingType
<1>2. NextPush' = NextPush /\ \A j \in 1 .. Count' : Pushed(At(j))' <=> Pushed(At(want + j))
  BY <1>1 DEF NextPush, Under, senderVars, Pushed, FrameLen
<1>3. \A j \in 1 .. Count' : want + j \in want + 1 .. Count /\ want + j \in 1 .. Count
  BY <1>1
<1>4. \A j \in 1 .. Count' : Pushed(At(j))' /\ At(j)'[1] > LastOut'
  BY <1>1, <1>2, <1>3 DEF InOrder
<1>5. \A j, l \in 1 .. Count' : j < l => Before(At(j)', At(l)')
  <2> SUFFICES ASSUME NEW j \in 1 .. Count', NEW l \in 1 .. Count', j < l
               PROVE  Before(At(want + j), At(want + l))
    BY <1>1
  <2> QED BY <1>1, <1>3 DEF InOrder
<1> QED BY <1>2, <1>4, <1>5 DEF InOrder, Before

LEMMA FullAfterRead ==
    ASSUME FramingType, ReaderOK, InFull, CompleteRead, got' = <<>>, UNCHANGED senderVars,
           Ahead(want + 1) = Expected',
           readerAt' = "payload" => want' = PayloadLen[sent[LastOut' + 1]]
    PROVE  InFull'
<1>1. /\ want \in Nat /\ Count \in Nat /\ want <= Count /\ Count' = Count - want
      /\ \A j \in 1 .. Count' : At(j)' = At(want + j)
  BY Consumed, ByteType DEF FramingType
<1>2. NextPush' = NextPush
  BY DEF NextPush, Under, senderVars
<1>3. \A j \in 1 .. Count' + 1 : Ahead(j)' = Ahead(want + j)
  BY <1>1, <1>2 DEF Ahead
<1>4. Ahead(1)' = Expected'
  BY <1>1, <1>3
<1>5. ASSUME NEW j \in 1 .. Count' PROVE Ahead(j + 1)' = Succ(At(j))'
  <2>1. want + j \in 1 .. Count /\ (want + j) + 1 = want + (j + 1)
    BY <1>1
  <2>2. Ahead(want + (j + 1)) = Succ(At(want + j))
    BY <2>1 DEF InFull
  <2>3. Ahead(j + 1)' = Ahead(want + (j + 1))
    BY <1>1, <1>3
  <2>4. Succ(At(j))' = Succ(At(want + j))
    BY <1>1 DEF Succ, FrameLen, senderVars
  <2> QED BY <2>2, <2>3, <2>4
<1>6. readerAt' = "payload" => want' = PayloadLen[sent'[LastOut' + 1]]
  BY DEF senderVars
<1> QED BY <1>4, <1>5, <1>6 DEF InFull

LEMMA HeadersDiffer ==
    ASSUME FramingType, NEW i \in 1 .. Len(sent)
    PROVE  Lengths(Header(i)) = {PayloadLen[sent[i]]}
<1> USE FramingAssumption
<1>1. ASSUME NEW j \in 1 .. Len(sent), Header(i) = Header(j) PROVE i = j
  <2>1. Header(i)[1] = <<i, 1>> /\ Header(j)[1] = <<j, 1>>
    BY DEF Header
  <2> QED BY <1>1, <2>1
<1>2. {j \in 1 .. Len(sent) : Header(i) = Header(j)} = {i}
  BY <1>1
<1> QED BY <1>2 DEF Lengths

LEMMA RecvHeaderInv ==
    ASSUME FramingInv, RecvHeader
    PROVE  FramingInv'
<1> USE FramingAssumption
<1>1. /\ readerAt = "header" /\ CompleteRead
      /\ UNCHANGED <<side, senderVars, read, torn>>
      /\ FramingType /\ ReaderOK /\ InOrder /\ (~torn => InFull) /\ want = HeaderLen
  BY DEF FramingInv, RecvHeader, Reading, ReaderOK
<1>2. /\ want <= Count /\ want \in Nat /\ Count \in Nat
      /\ Whole \in Seq(Bytes) /\ Len(Whole) = want
      /\ \A j \in 1 .. want : Whole[j] = At(j)
      /\ stream' \in Seq(Bytes)
  BY <1>1, Consumed, ByteType DEF FramingType
<1>3. read' \in Seq(Nat) /\ LastOut' = LastOut
  BY <1>1 DEF FramingType, LastOut, Abstract!LastOut
<1>4. PICK n \in Lengths(Whole) :
         \/ /\ n \in 1 .. MaxFrame
            /\ readerAt' = "payload" /\ want' = n /\ got' = <<>>
         \/ n \notin 1 .. MaxFrame /\ ReaderEnds
  BY DEF RecvHeader
<1>5. CASE ReaderEnds
  BY <1>1, <1>2, <1>3, <1>5, ReaderGone
<1>6. CASE /\ n \in 1 .. MaxFrame
           /\ readerAt' = "payload" /\ want' = n /\ got' = <<>>
  <2>1. FramingType' /\ ReaderOK'
    BY <1>1, <1>2, <1>3, <1>6 DEF FramingType, Under, FrameLen, senderVars, ReaderOK
  <2>2. \A k \in want + 1 .. Count : k \in 1 .. Count
    BY <1>2
  <2>3. InOrder'
    BY <1>1, <1>3, <1>6, <2>2, OrderAfterRead DEF InOrder
  <2>4. ASSUME ~torn PROVE InFull'
    <3>1. /\ InFull /\ LastOut + 1 \in 1 .. Len(sent)
          /\ \A j \in 1 .. HeaderLen : At(j) = <<LastOut + 1, j>>
      BY <1>1, <1>2, <2>4, HeaderIsNext
    <3>2. Whole = Header(LastOut + 1)
      BY <1>1, <1>2, <3>1 DEF Header
    <3>3. n = PayloadLen[sent[LastOut + 1]]
      BY <1>1, <1>4, <3>1, <3>2, HeadersDiffer
    <3>4. HeaderLen \in 1 .. Count
      BY <1>1, <1>2
    <3>5. Ahead(want + 1) = Succ(<<LastOut + 1, HeaderLen>>)
      BY <1>1, <3>1, <3>4 DEF InFull
    <3>6. Succ(<<LastOut + 1, HeaderLen>>) = <<LastOut + 1, HeaderLen + 1>>
      BY SMTT(30), <1>1, <3>1, FrameLens DEF Succ
    <3>7. Ahead(want + 1) = Expected'
      BY <1>3, <1>6, <3>5, <3>6 DEF Expected
    <3> QED BY <1>1, <1>3, <1>6, <3>1, <3>3, <3>7, FullAfterRead
  <2> QED BY <1>1, <2>1, <2>3, <2>4 DEF FramingInv
<1> QED BY <1>4, <1>5, <1>6

\* What a payload that decodes is: the rest of a whole frame, of a message not
\* yet returned, and on an untorn stream of the next one.
LEMMA PayloadOf ==
    ASSUME FramingInv, readerAt = "payload", CompleteRead,
           NEW i \in 1 .. Len(sent), Whole = Payload(i)
    PROVE  /\ want \in 1 .. Count /\ At(want) = <<i, FrameLen(i)>>
           /\ LastOut < i /\ i < NextPush[1] /\ i <= Posted
           /\ ~torn => i = LastOut + 1
<1> USE FramingAssumption
<1>1. FramingType /\ ReaderOK /\ InOrder /\ (~torn => InFull)
  BY DEF FramingInv, Reading
<1>2. /\ want <= Count /\ want \in Nat /\ Count \in Nat /\ Len(sent) \in Nat /\ LastOut \in Nat
      /\ Len(Whole) = want
      /\ \A j \in 1 .. want : Whole[j] = At(j)
  BY <1>1, Consumed, ByteType DEF FramingType
<1>3. /\ PayloadLen[sent[i]] \in Nat \ {0} /\ FrameLen(i) \in Nat
      /\ FrameLen(i) = HeaderLen + PayloadLen[sent[i]]
  BY <1>1, FrameLens
<1>4. Len(Payload(i)) = PayloadLen[sent[i]]
  BY <1>3 DEF Payload
<1>5. want = PayloadLen[sent[i]] /\ want \in 1 .. Count /\ 1 \in 1 .. want /\ want \in 1 .. want
  BY <1>2, <1>3, <1>4
<1>6. At(want) = <<i, FrameLen(i)>> /\ At(1) = <<i, HeaderLen + 1>>
  BY <1>2, <1>3, <1>5 DEF Payload
<1>7. Pushed(<<i, FrameLen(i)>>) /\ LastOut < i
  BY <1>1, <1>5, <1>6 DEF InOrder
<1>8. i < NextPush[1] /\ i <= Posted
  <2>1. i \in 1 .. Len(sent) /\ (Under /\ i = Len(sent) => FrameLen(i) <= pushed)
    BY <1>7 DEF Pushed
  <2>2. pushed \in Nat /\ (Under => pushed < FrameLen(Len(sent)))
    BY <1>1 DEF FramingType
  <2>3. CASE Under
    <3>1. i # Len(sent)
      BY <1>3, <2>1, <2>2, <2>3
    <3>2. i < Len(sent)
      BY <1>2, <2>1, <3>1
    <3> QED BY <1>2, <2>3, <3>2 DEF NextPush, Posted
  <2>4. CASE ~Under
    <3>1. NextPush = <<Len(sent) + 1, 1>> /\ Posted = Len(sent)
      BY <2>4 DEF NextPush, Posted, Under
    <3> QED BY <1>2, <2>1, <3>1
  <2> QED BY <2>3, <2>4
<1>9. ASSUME ~torn PROVE i = LastOut + 1
  <2>1. Ahead(1) = At(1)
    BY <1>2, <1>5 DEF Ahead
  <2>2. Expected = <<LastOut + 1, HeaderLen + 1>>
    BY DEF Expected
  <2> QED BY <1>1, <1>2, <1>6, <1>9, <2>1, <2>2 DEF InFull
<1> QED BY <1>5, <1>6, <1>7, <1>8, <1>9

LEMMA RecvPayloadInv ==
    ASSUME FramingInv, RecvPayload
    PROVE  FramingInv'
<1> USE FramingAssumption
<1>1. /\ readerAt = "payload" /\ CompleteRead
      /\ UNCHANGED <<side, senderVars, torn>>
      /\ FramingType /\ ReaderOK /\ InOrder /\ (~torn => InFull)
  BY DEF FramingInv, RecvPayload, Reading
<1>2. PICK i \in 1 .. Len(sent) :
         /\ Whole = Payload(i)
         /\ read' = Append(read, i)
         /\ IF sent[i] = Goodbye THEN ReaderEnds ELSE NextRead
  BY DEF RecvPayload
<1>3. /\ want \in 1 .. Count /\ At(want) = <<i, FrameLen(i)>>
      /\ LastOut < i /\ i < NextPush[1]
      /\ ~torn => i = LastOut + 1
  BY <1>1, <1>2, PayloadOf
<1>4. read' \in Seq(Nat) /\ LastOut' = i
  <2>1. read \in Seq(Nat) /\ i \in Nat /\ read' = Append(read, i)
    BY <1>1, <1>2 DEF FramingType
  <2>2. read' \in Seq(Nat) /\ read' # <<>> /\ read'[Len(read')] = i
    BY <2>1
  <2> QED BY <2>2 DEF LastOut, Abstract!LastOut
<1>5. stream' \in Seq(Bytes) /\ Count \in Nat /\ want \in Nat
  BY <1>1, Consumed, ByteType DEF FramingType
<1>6. CASE ReaderEnds
  BY <1>1, <1>4, <1>5, <1>6, ReaderGone
<1>7. CASE NextRead
  <2>1. FramingType' /\ ReaderOK'
    BY <1>1, <1>4, <1>5, <1>7 DEF FramingType, NextRead, Under, FrameLen, senderVars, ReaderOK
  <2>2. ASSUME NEW k \in want + 1 .. Count PROVE At(k)[1] > i
    <3>1. k \in 1 .. Count /\ want < k
      BY <1>3, <1>5
    <3>2. Before(<<i, FrameLen(i)>>, At(k)) /\ Pushed(At(k))
      BY <1>1, <1>3, <3>1 DEF InOrder
    <3>3. FrameLen(i) \in Nat
      BY <1>1, FrameLens
    <3>4. At(k) \in Bytes
      BY <1>1, <3>1, ByteType
    <3> QED BY <3>2, <3>3, <3>4 DEF Before, Pushed, Bytes
  <2>3. InOrder'
    BY <1>1, <1>3, <1>4, <1>7, <2>2, OrderAfterRead DEF NextRead
  <2>4. ASSUME ~torn PROVE InFull'
    <3>1. InFull /\ i = LastOut + 1
      BY <1>1, <1>3, <2>4
    <3>2. Ahead(want + 1) = Succ(<<i, FrameLen(i)>>)
      BY <1>3, <3>1 DEF InFull
    <3>3. Succ(<<i, FrameLen(i)>>) = <<i + 1, 1>>
      BY <1>1, FrameLens DEF Succ
    <3>4. Ahead(want + 1) = Expected'
      BY <1>4, <1>7, <3>2, <3>3 DEF Expected, NextRead
    <3> QED BY <1>1, <1>7, <3>1, <3>4, FullAfterRead DEF NextRead
  <2> QED BY <1>1, <2>1, <2>3, <2>4 DEF FramingInv
<1> QED BY <1>2, <1>6, <1>7

LEMMA ReadTimesOutInv ==
    ASSUME FramingInv, ReadTimesOut
    PROVE  FramingInv'
<1> USE FramingAssumption
<1>1. /\ FramingType /\ ReaderOK /\ InOrder /\ (~torn => InFull)
      /\ stream = <<>> /\ UNCHANGED <<side, senderVars, stream, read>>
      /\ stream' \in Seq(Bytes) /\ read' \in Seq(Nat)
      /\ torn' = (torn \/ (side = "toServer" /\ MidFrame))
  BY DEF FramingInv, ReadTimesOut, Reading, FramingType
<1>2. CASE side = "toWorker"
  <2>1. ReaderEnds /\ (torn' <=> torn) /\ torn' \in BOOLEAN
    BY <1>1, <1>2 DEF ReadTimesOut
  <2>2. ~Reading'
    BY <2>1 DEF ReaderEnds, Reading
  <2>3. FramingType'
    BY <1>1, <2>1 DEF FramingType, ReaderEnds, Under, FrameLen, senderVars
  <2> QED BY <2>2, <2>3 DEF FramingInv
<1>3. CASE side = "toServer"
  <2>1. NextRead /\ (torn' <=> torn \/ MidFrame) /\ torn' \in BOOLEAN
    BY <1>1, <1>3 DEF ReadTimesOut
  <2>2. FramingType' /\ ReaderOK'
    BY <1>1, <2>1 DEF FramingType, NextRead, Under, FrameLen, senderVars, ReaderOK
  <2>3. Count' = 0 /\ NextPush' = NextPush /\ LastOut' = LastOut
    BY <1>1, <2>1 DEF Count, NextRead, NextPush, Under, senderVars, LastOut, Abstract!LastOut
  <2>4. InOrder'
    BY <1>1, <2>3 DEF InOrder
  <2>5. ASSUME ~torn' PROVE InFull'
    <3>1. InFull /\ readerAt = "header" /\ got = <<>>
      BY <1>1, <2>1, <2>5 DEF MidFrame, FramingInv, ReadTimesOut, Reading
    <3>2. Count = 0
      BY <1>1, <3>1 DEF Count
    <3>3. Ahead(1) = NextPush /\ Ahead(1)' = NextPush'
      BY <2>3, <3>2 DEF Ahead
    <3>4. Expected' = Expected /\ readerAt' # "payload"
      BY <2>1, <2>3, <3>1 DEF Expected, NextRead
    <3> QED BY <2>3, <3>1, <3>3, <3>4 DEF InFull
  <2> QED BY <2>2, <2>4, <2>5 DEF FramingInv
<1> QED BY <1>1, <1>2, <1>3 DEF FramingType

-----------------------------------------------------------------------------
(* Steps of the sender *)

\* In mid-frame of an untorn stream, the frame was posted.
LEMMA ExpectedIsPosted ==
    ASSUME FramingType, InOrder, InFull, readerAt = "payload"
    PROVE  LastOut + 1 \in 1 .. Len(sent)
<1> USE FramingAssumption
<1>1. Count \in Nat /\ Len(sent) \in Nat /\ LastOut \in Nat
  BY ByteType
<1>2. Ahead(1) = <<LastOut + 1, HeaderLen + 1>>
  BY DEF InFull, Expected
<1>3. CASE 1 <= Count
  BY <1>1, <1>2, <1>3 DEF Ahead, InOrder, Pushed
<1>4. CASE ~(1 <= Count)
  <2>1. NextPush = <<LastOut + 1, HeaderLen + 1>>
    BY <1>2, <1>4 DEF Ahead
  <2>2. Under
    BY <2>1 DEF NextPush
  <2>3. LastOut + 1 = Len(sent)
    BY <2>1, <2>2 DEF NextPush
  <2> QED BY <1>1, <2>3
<1> QED BY <1>3, <1>4

\* A step of the sender that puts no byte into the stream: it hands over or
\* withdraws a message of which no byte was pushed, or gives up a frame.
LEMMA SenderOrder ==
    ASSUME FramingType, InOrder, UNCHANGED <<stream, got, read>>, NextPush[1] <= NextPush'[1],
           NextPush'[1] \in Nat,
           \A k \in 1 .. Count : Pushed(At(k)) => Pushed(At(k))'
    PROVE  InOrder'
<1>1. Count' = Count /\ LastOut' = LastOut /\ \A k \in 1 .. Count : At(k)' = At(k)
  BY DEF Count, At, LastOut, Abstract!LastOut
<1>2. LastOut \in Nat /\ NextPush[1] \in Nat
  BY ByteType DEF FramingType, NextPush
<1>3. LastOut' < NextPush'[1]
  BY <1>1, <1>2 DEF InOrder
<1> QED BY <1>1, <1>3 DEF InOrder, Before

LEMMA SenderFull ==
    ASSUME FramingType, InOrder, InFull, UNCHANGED <<stream, readerVars>>, NextPush' = NextPush,
           \A k \in 1 .. Count : FrameLen(At(k)[1])' = FrameLen(At(k)[1]),
           readerAt = "payload" => sent'[LastOut + 1] = sent[LastOut + 1]
    PROVE  InFull'
<1>1. Count' = Count /\ LastOut' = LastOut /\ Expected' = Expected
  BY DEF Count, LastOut, Abstract!LastOut, Expected, readerVars
<1>2. \A k \in 1 .. Count : At(k)' = At(k)
  BY DEF At, readerVars
<1>3. Count \in Nat
  BY ByteType
<1>4. \A k \in 1 .. Count + 1 : Ahead(k)' = Ahead(k)
  BY <1>1, <1>2, <1>3 DEF Ahead
<1>5. \A k \in 1 .. Count : Succ(At(k))' = Succ(At(k))
  BY <1>2 DEF Succ
<1>6. \A k \in 1 .. Count : Ahead(k + 1)' = Succ(At(k))'
  BY <1>3, <1>4, <1>5 DEF InFull
<1>7. Ahead(1)' = Expected'
  BY <1>1, <1>3, <1>4 DEF InFull
<1>8. readerAt' = "payload" => want' = PayloadLen[sent'[LastOut' + 1]]
  BY <1>1 DEF InFull, readerVars
<1> QED BY <1>1, <1>6, <1>7, <1>8 DEF InFull

LEMMA StartSendInv ==
    ASSUME FramingInv, NEW m \in Messages, StartSend(m)
    PROVE  FramingInv'
<1> USE FramingAssumption
<1>1. /\ FramingType /\ senderAt \in {"idle", "leaving"} /\ ~Under
      /\ sent' = Append(sent, m) /\ pushed' = 0 /\ senderAt' = "sending"
      /\ UNCHANGED <<side, stream, readerVars, torn>>
  BY DEF FramingInv, StartSend, Under
<1>2. sent \in Seq(Messages) /\ Len(sent) \in Nat
  BY <1>1 DEF FramingType
<1>3. /\ sent' \in Seq(Messages) /\ Len(sent') = Len(sent) + 1 /\ sent' # <<>>
      /\ \A i \in 1 .. Len(sent) : sent'[i] = sent[i]
      /\ sent'[Len(sent')] = m
  BY <1>1, <1>2
<1>4. FramingType'
  <2>1. PayloadLen[m] \in 1 .. MaxFrame
    OBVIOUS
  <2>2. 0 < HeaderLen + PayloadLen[m]
    BY <2>1
  <2> QED BY <1>1, <1>3, <2>2 DEF FramingType, FrameLen, Under, readerVars
<1>5. NextPush' = NextPush
  BY <1>1, <1>3 DEF NextPush, Under
<1> SUFFICES ASSUME Reading' PROVE ReaderOK' /\ InOrder' /\ (~torn' => InFull')
  BY <1>4 DEF FramingInv
<1>6. ReaderOK /\ InOrder /\ (~torn => InFull)
  BY <1>1 DEF FramingInv, Reading, readerVars
<1>7. ReaderOK'
  BY <1>1, <1>6 DEF ReaderOK, readerVars
<1>8. \A i \in 1 .. Len(sent) : FrameLen(i)' = FrameLen(i)
  BY <1>3 DEF FrameLen
<1>9. \A k \in 1 .. Count : At(k)[1] \in 1 .. Len(sent)
  BY <1>6 DEF InOrder, Pushed
<1>10. \A k \in 1 .. Count : At(k)' = At(k)
  BY <1>1 DEF At, readerVars
<1>11. InOrder'
  <2>1. ASSUME NEW k \in 1 .. Count, Pushed(At(k)) PROVE Pushed(At(k))'
    <3>1. At(k)' = At(k)
      BY <1>10
    <3>2. At(k)[1] \in 1 .. Len(sent') /\ At(k)[1] # Len(sent')
      BY SMTT(30), <1>2, <1>3, <1>9
    <3>3. FrameLen(At(k)[1])' = FrameLen(At(k)[1])
      BY <1>8, <1>9, <3>1
    <3> QED BY <1>3, <2>1, <3>1, <3>2, <3>3 DEF Pushed
  <2>2. NextPush[1] <= NextPush'[1] /\ NextPush'[1] \in Nat
    BY <1>1, <1>2, <1>5 DEF NextPush
  <2> QED BY <1>1, <1>6, <2>1, <2>2, SenderOrder DEF readerVars
<1>12. ASSUME ~torn' PROVE InFull'
  <2>1. ASSUME NEW k \in 1 .. Count PROVE FrameLen(At(k)[1])' = FrameLen(At(k)[1])
    BY <1>8, <1>9, <1>10
  <2> QED BY <1>1, <1>3, <1>5, <1>6, <1>12, <2>1, SenderFull, ExpectedIsPosted
<1> QED BY <1>7, <1>11, <1>12

LEMMA PushInv ==
    ASSUME FramingInv, NEW k \in 1 .. BufferSize, Push(k)
    PROVE  FramingInv'
<1> USE FramingAssumption
<1> PICK n : n = Len(sent)
  OBVIOUS
<1> PICK a : a = [o \in 1 .. k |-> <<n, pushed + o>>]
  OBVIOUS
<1>1. /\ FramingType /\ Under
      /\ pushed + k <= FrameLen(n) /\ pushed' = pushed + k
      /\ stream' = stream \o a
      /\ senderAt' \in {"sending", "closed", "idle"}
      /\ senderAt' = "sending" <=> pushed + k < FrameLen(n)
      /\ UNCHANGED <<side, sent, readerVars, torn>>
  BY DEF FramingInv, Push, Under
<1>2. /\ n \in Nat \ {0} /\ pushed \in Nat /\ k \in Nat \ {0} /\ FrameLen(n) \in Nat
      /\ Count \in Nat
  <2>1. n \in Nat /\ n # 0 /\ pushed \in Nat
    BY <1>1 DEF FramingType
  <2>2. FrameLen(n) \in Nat
    BY <1>1, <2>1, FrameLens
  <2> QED BY <1>1, <2>1, <2>2, ByteType
<1>3. \A i : FrameLen(i)' = FrameLen(i)
  BY <1>1 DEF FrameLen
<1> PICK c \in Nat : c = Count
  BY <1>2
<1>4. a \in Seq(Bytes) /\ Len(a) = k /\ \A o \in 1 .. k : a[o] = <<n, pushed + o>>
  BY <1>2 DEF Bytes
<1>5. /\ stream' \in Seq(Bytes) /\ Len(stream') = Len(stream) + k
      /\ \A j \in 1 .. c : At(j)' = At(j)
      /\ \A o \in 1 .. k : At(c + o)' = <<n, pushed + o>>
  <2>1. got \in Seq(Bytes) /\ stream \in Seq(Bytes)
    BY <1>1 DEF FramingType
  <2>2. a \in Seq(Bytes)
    BY <1>4
  <2>3. /\ stream' \in Seq(Bytes) /\ Len(stream') = Len(stream) + k
        /\ \A j \in 1 .. Len(stream) : stream'[j] = stream[j]
        /\ \A o \in 1 .. k : stream'[Len(stream) + o] = a[o]
    BY SMTT(30), <1>1, <1>4, <2>1, <2>2
  <2>4. Len(got) \in Nat /\ Len(stream) \in Nat /\ c = Len(got) + Len(stream) /\ got' = got
    BY <1>1, <2>1 DEF Count, readerVars
  <2>5. ASSUME NEW j \in 1 .. c PROVE At(j)' = At(j)
    <3>1. At(j)' = IF j <= Len(got) THEN got[j] ELSE stream'[j - Len(got)]
      BY <2>4 DEF At, Nth
    <3>2. ~(j <= Len(got)) => j - Len(got) \in 1 .. Len(stream)
      BY <2>4
    <3> QED BY <2>3, <3>1, <3>2 DEF At, Nth
  <2>6. ASSUME NEW o \in 1 .. k PROVE At(c + o)' = <<n, pushed + o>>
    <3>1. c + o - Len(got) = Len(stream) + o /\ ~(c + o <= Len(got))
      BY <2>4
    <3>2. At(c + o)' = stream'[Len(stream) + o]
      BY <2>4, <3>1 DEF At, Nth
    <3> QED BY <1>4, <2>3, <3>2
  <2> QED BY <2>3, <2>5, <2>6
<1>6. Count' = c + k
  <2>1. Len(stream) \in Nat /\ Len(got) \in Nat
    BY <1>1 DEF FramingType
  <2> QED BY <1>1, <1>2, <1>5, <2>1 DEF Count, readerVars
<1>7. FramingType'
  <2>1. n = Len(sent') /\ sent' # <<>> /\ FrameLen(n)' = FrameLen(n)
    BY <1>1, <1>2, <1>3 DEF FramingType
  <2>2. senderAt' = "sending" => pushed' < FrameLen(n)'
    BY <1>1, <2>1
  <2>3. FrameLen(Len(sent))' = FrameLen(n)'
    BY <2>1 DEF FrameLen
  <2>4. Under' => sent' # <<>> /\ pushed' < FrameLen(Len(sent))'
    BY <2>1, <2>2, <2>3 DEF Under
  <2>5. pushed' \in Nat
    BY <1>1, <1>2
  <2> HIDE FramingAssumption
  <2> QED BY <1>1, <1>5, <2>4, <2>5 DEF FramingType, readerVars
<1> SUFFICES ASSUME Reading' PROVE ReaderOK' /\ InOrder' /\ (~torn' => InFull')
  BY <1>7 DEF FramingInv
<1>8. ReaderOK /\ InOrder /\ (~torn => InFull)
  BY <1>1 DEF FramingInv, Reading, readerVars
<1>9. ReaderOK'
  BY <1>1, <1>8 DEF ReaderOK, readerVars
<1>10. LastOut' = LastOut /\ Expected' = Expected /\ LastOut \in Nat /\ LastOut < n
  BY <1>1, <1>8, ByteType DEF LastOut, Abstract!LastOut, Expected, readerVars, InOrder, NextPush
<1>11. /\ NextPush = <<n, pushed + 1>>
       /\ NextPush' = IF pushed + k < FrameLen(n) THEN <<n, pushed + k + 1>> ELSE <<n + 1, 1>>
  BY <1>1, <1>2 DEF NextPush, Under
<1>12. \A j \in 1 .. Count' : j \in 1 .. c \/ \E o \in 1 .. k : j = c + o
  <2> SUFFICES ASSUME NEW j \in 1 .. Count', ~(j \in 1 .. c)
               PROVE  \E o \in 1 .. k : j = c + o
    OBVIOUS
  <2>1. j - c \in 1 .. k /\ j = c + (j - c)
    BY <1>2, <1>6
  <2> QED BY <2>1
<1>13. InOrder'
  <2>1. ASSUME NEW j \in 1 .. Count' PROVE Pushed(At(j))' /\ At(j)'[1] > LastOut'
    <3>1. CASE j \in 1 .. c
      <4>1. Pushed(At(j)) /\ At(j)[1] > LastOut /\ At(j)' = At(j) /\ At(j) \in Bytes
        BY <1>1, <1>5, <1>8, <3>1, ByteType DEF InOrder
      <4> QED BY SMTT(30), <1>1, <1>2, <1>3, <1>10, <4>1 DEF Pushed, Under, Bytes
    <3>2. ASSUME NEW o \in 1 .. k, j = c + o PROVE Pushed(At(j))' /\ At(j)'[1] > LastOut'
      <4>1. At(j)' = <<n, pushed + o>>
        BY <1>5, <3>2
      <4> QED BY SMTT(30), <1>1, <1>2, <1>3, <1>10, <4>1 DEF Pushed, Under
    <3> QED BY <1>12, <3>1, <3>2
  <2>2. ASSUME NEW j \in 1 .. Count', NEW l \in 1 .. Count', j < l
        PROVE  Before(At(j)', At(l)')
    <3>1. CASE l \in 1 .. c
      <4>1. j \in 1 .. c
        BY <1>2, <1>6, <2>2, <3>1
      <4> QED BY <1>5, <1>8, <2>2, <3>1, <4>1 DEF InOrder
    <3>2. ASSUME NEW o \in 1 .. k, l = c + o, j \in 1 .. c PROVE Before(At(j)', At(l)')
      <4>1. Pushed(At(j)) /\ At(j)' = At(j) /\ At(j) \in Bytes /\ At(l)' = <<n, pushed + o>>
        BY <1>1, <1>5, <1>8, <3>2, ByteType DEF InOrder
      <4>2. PICK x \in Nat, y \in Nat : At(j) = <<x, y>>
        BY <4>1 DEF Bytes
      <4>3. x < n \/ (x = n /\ y <= pushed)
        BY <1>1, <1>2, <4>1, <4>2 DEF Pushed
      <4> QED BY <1>2, <4>1, <4>2, <4>3 DEF Before
    <3>3. ASSUME NEW o \in 1 .. k, l = c + o, NEW p \in 1 .. k, j = c + p
          PROVE  Before(At(j)', At(l)')
      <4>1. At(j)' = <<n, pushed + p>> /\ At(l)' = <<n, pushed + o>>
        BY <1>5, <3>3
      <4>2. p < o
        BY <2>2, <3>3
      <4> QED BY <1>2, <4>1, <4>2 DEF Before
    <3> QED BY <1>12, <3>1, <3>2, <3>3
  <2>3. LastOut' < NextPush'[1]
    BY <1>2, <1>10, <1>11
  <2> QED BY <2>1, <2>2, <2>3 DEF InOrder, Before
<1>14. ASSUME ~torn' PROVE InFull'
  <2>1. InFull
    BY <1>1, <1>8, <1>14
  <2>2. /\ \A j \in 1 .. c + 1 : Ahead(j)' = Ahead(j)
        /\ \A o \in 1 .. k : Ahead(c + o)' = <<n, pushed + o>>
        /\ Ahead(c + k + 1)' = NextPush'
    <3>1. \A o \in 1 .. k : Ahead(c + o)' = <<n, pushed + o>>
      BY <1>2, <1>5, <1>6 DEF Ahead
    <3>2. \A j \in 1 .. c : Ahead(j)' = Ahead(j)
      BY <1>2, <1>5, <1>6 DEF Ahead
    <3>3. Ahead(c + 1)' = <<n, pushed + 1>>
      BY <1>2, <3>1
    <3>4. Ahead(c + 1) = <<n, pushed + 1>>
      BY <1>2, <1>11 DEF Ahead
    <3>5. Ahead(c + k + 1)' = NextPush'
      BY <1>2, <1>6 DEF Ahead
    <3>6. ASSUME NEW j \in 1 .. c + 1 PROVE Ahead(j)' = Ahead(j)
      <4>1. j \in 1 .. c \/ j = c + 1
        OBVIOUS
      <4> QED BY <3>2, <3>3, <3>4, <4>1
    <3> QED BY <3>1, <3>5, <3>6
  <2>3. ASSUME NEW j \in 1 .. Count' PROVE Ahead(j + 1)' = Succ(At(j))'
    <3>1. CASE j \in 1 .. c
      <4>1. At(j)' = At(j) /\ Ahead(j + 1)' = Ahead(j + 1) /\ Ahead(j + 1) = Succ(At(j))
        BY <1>2, <1>5, <2>1, <2>2, <3>1 DEF InFull
      <4> QED BY <1>3, <4>1 DEF Succ
    <3>2. ASSUME NEW o \in 1 .. k, j = c + o PROVE Ahead(j + 1)' = Succ(At(j))'
      <4>1. At(j)' = <<n, pushed + o>>
        BY <1>5, <3>2
      <4>2. CASE o < k
        <5>1. o + 1 \in 1 .. k /\ j + 1 = c + (o + 1)
          BY <1>2, <3>2, <4>2
        <5>2. Ahead(j + 1)' = <<n, pushed + (o + 1)>>
          BY <2>2, <5>1
        <5>3. pushed + o < FrameLen(n)
          BY <1>1, <1>2, <4>2
        <5>4. Succ(At(j))' = <<n, pushed + o + 1>>
          BY <1>3, <4>1, <5>3 DEF Succ
        <5> QED BY <1>2, <5>2, <5>4
      <4>3. CASE o = k
        <5>1. Ahead(j + 1)' = NextPush'
          BY <1>2, <2>2, <3>2, <4>3
        <5>2. Succ(At(j))' = IF pushed + k < FrameLen(n) THEN <<n, pushed + k + 1>> ELSE <<n + 1, 1>>
          BY <1>3, <4>1, <4>3 DEF Succ
        <5> QED BY <1>11, <5>1, <5>2
      <4> QED BY <1>2, <4>2, <4>3
    <3> QED BY <1>12, <3>1, <3>2
  <2>4. Ahead(1)' = Expected'
    BY <1>2, <1>10, <2>1, <2>2 DEF InFull
  <2>5. readerAt' = "payload" => want' = PayloadLen[sent'[LastOut' + 1]]
    BY <1>1, <1>10, <2>1 DEF InFull, readerVars
  <2> QED BY <2>3, <2>4, <2>5 DEF InFull
<1> QED BY <1>9, <1>13, <1>14

\* sendall gives up, by itself or with its process: a message of which no byte
\* was pushed is as if it had never been handed over; otherwise the stream is
\* torn.
LEMMA SenderQuits ==
    ASSUME FramingInv, senderAt' \in {"idle", "leaving", "closed"},
           IF Under
           THEN /\ sent' = IF pushed = 0 THEN Front(sent) ELSE sent
                /\ torn' = (torn \/ pushed # 0)
           ELSE UNCHANGED sent /\ torn' = (torn \/ FALSE),
           UNCHANGED <<side, pushed, stream, readerVars>>
    PROVE  FramingInv'
<1> USE FramingAssumption
<1>1. FramingType /\ ~Under' /\ torn' \in BOOLEAN /\ pushed \in Nat
  BY DEF FramingInv, Under, FramingType
<1>2. ASSUME Under, pushed = 0
      PROVE  /\ sent' \in Seq(Messages) /\ Len(sent') = Len(sent) - 1 /\ Len(sent) \in Nat \ {0}
             /\ \A i \in 1 .. Len(sent') : sent'[i] = sent[i]
  <2>1. sent \in Seq(Messages) /\ sent # <<>> /\ sent' = SubSeq(sent, 1, Len(sent) - 1)
    BY <1>1, <1>2 DEF FramingInv, FramingType, Front
  <2>2. Len(sent) \in Nat \ {0} /\ Len(sent) - 1 \in 0 .. Len(sent)
    BY <2>1
  <2>3. sent' \in Seq(Messages)
    BY <2>1, <2>2
  <2>4. Len(sent') = Len(sent) - 1
    <3>1. \A m \in 0 .. Len(sent) : Len(SubSeq(sent, 1, m)) = m
      BY <2>1
    <3> QED BY <2>1, <2>2, <3>1
  <2>5. \A i \in 1 .. Len(sent') : sent'[i] = sent[i]
    BY <2>1, <2>2, <2>4
  <2> QED BY <2>2, <2>3, <2>4, <2>5
<1>3. ASSUME ~(Under /\ pushed = 0) PROVE sent' = sent
  BY <1>3
<1>4. FramingType'
  <2>1. sent' \in Seq(Messages)
    BY <1>1, <1>2, <1>3 DEF FramingType
  <2> QED BY <1>1, <2>1 DEF FramingType, readerVars
<1> SUFFICES ASSUME Reading' PROVE ReaderOK' /\ InOrder' /\ (~torn' => InFull')
  BY <1>4 DEF FramingInv
<1>5. ReaderOK /\ InOrder /\ (~torn => InFull)
  BY DEF FramingInv, Reading, readerVars
<1>6. ReaderOK'
  BY <1>5 DEF ReaderOK, readerVars
<1>7. \A k \in 1 .. Count : At(k)' = At(k) /\ At(k) \in Bytes /\ Pushed(At(k))
  BY <1>1, <1>5, ByteType DEF At, readerVars, InOrder
<1>8. /\ Len(sent) \in Nat
      /\ \A k \in 1 .. Count : At(k)[1] \in 1 .. Len(sent') /\ sent'[At(k)[1]] = sent[At(k)[1]]
  <2>1. CASE Under /\ pushed = 0
    <3>1. ASSUME NEW k \in 1 .. Count PROVE At(k)[1] \in 1 .. Len(sent')
      BY <1>2, <1>7, <2>1 DEF Pushed, Bytes
    <3> QED BY <1>2, <2>1, <3>1
  <2>2. CASE ~(Under /\ pushed = 0)
    BY <1>1, <1>3, <1>7, <2>2 DEF Pushed, FramingType
  <2> QED BY <2>1, <2>2
<1>9. \A k \in 1 .. Count : FrameLen(At(k)[1])' = FrameLen(At(k)[1])
  BY <1>7, <1>8 DEF FrameLen
<1>10. InOrder'
  <2>1. \A k \in 1 .. Count : Pushed(At(k)) => Pushed(At(k))'
    BY <1>1, <1>7, <1>8, <1>9 DEF Pushed
  <2>2. NextPush[1] <= NextPush'[1] /\ NextPush'[1] \in Nat
    <3>1. CASE Under /\ pushed = 0
      BY <1>1, <1>2, <3>1 DEF NextPush
    <3>2. CASE ~(Under /\ pushed = 0)
      BY <1>1, <1>3, <1>8, <3>2 DEF NextPush
    <3> QED BY <3>1, <3>2
  <2> QED BY <1>1, <1>5, <2>1, <2>2, SenderOrder DEF readerVars
<1>11. ASSUME ~torn' PROVE InFull'
  <2>1. InFull /\ (Under => pushed = 0)
    BY <1>5, <1>11
  <2>2. NextPush' = NextPush
    <3>1. CASE Under /\ pushed = 0
      BY <1>1, <1>2, <3>1 DEF NextPush
    <3>2. CASE ~Under
      BY <1>1, <1>3, <3>2 DEF NextPush
    <3> QED BY <2>1, <3>1, <3>2
  <2>3. ASSUME readerAt = "payload" PROVE sent'[LastOut + 1] = sent[LastOut + 1]
    <3>1. CASE Under /\ pushed = 0
      <4>1. Ahead(1) = <<LastOut + 1, HeaderLen + 1>>
        BY <2>1, <2>3 DEF InFull, Expected
      <4>2. NextPush = <<Len(sent), 1>>
        BY <3>1 DEF NextPush
      <4>3. 1 <= Count
        BY <4>1, <4>2, FramingAssumption DEF Ahead
      <4>4. At(1) = <<LastOut + 1, HeaderLen + 1>>
        BY <4>1, <4>3 DEF Ahead
      <4>5. 1 \in 1 .. Count
        BY <1>1, <4>3, ByteType
      <4> QED BY <1>8, <4>4, <4>5
    <3>2. CASE ~(Under /\ pushed = 0)
      BY <1>3, <3>2
    <3> QED BY <3>1, <3>2
  <2> QED BY <1>1, <1>5, <1>9, <2>1, <2>2, <2>3, SenderFull
<1> QED BY <1>6, <1>10, <1>11

-----------------------------------------------------------------------------
(* The framing keeps the promise of the channel *)

LEMMA FramingInit == Init => FramingInv
<1> SUFFICES ASSUME Init PROVE FramingInv
  OBVIOUS
<1> USE FramingAssumption
<1>1. FramingType
  <2>1. torn \in BOOLEAN /\ side \in {"toServer", "toWorker"} /\ ~Under
    BY DEF Init, Under
  <2>2. sent = <<>> /\ stream = <<>> /\ got = <<>> /\ read = <<>> /\ pushed = 0 /\ want = HeaderLen
    BY DEF Init
  <2>3. senderAt = "idle" /\ readerAt = "header"
    BY DEF Init
  <2> QED BY <2>1, <2>2, <2>3 DEF FramingType
<1>2. Count = 0 /\ LastOut = 0 /\ NextPush = <<1, 1>> /\ Expected = <<1, 1>>
  BY DEF Init, Count, LastOut, Abstract!LastOut, NextPush, Expected, Under
<1>3. Ahead(1) = <<1, 1>>
  BY <1>2 DEF Ahead
<1>4. InOrder /\ InFull
  BY <1>2, <1>3 DEF InOrder, InFull, Init
<1>5. ReaderOK
  BY DEF ReaderOK, Init
<1> QED BY <1>1, <1>4, <1>5 DEF FramingInv

LEMMA SendTimesOutInv == FramingInv /\ SendTimesOut => FramingInv'
<1> SUFFICES ASSUME FramingInv, SendTimesOut PROVE FramingInv'
  OBVIOUS
<1>1. /\ Under /\ senderAt' \in {"idle", "leaving", "closed"}
      /\ sent' = IF pushed = 0 THEN Front(sent) ELSE sent
      /\ torn' = (torn \/ pushed # 0)
      /\ UNCHANGED <<side, pushed, stream, readerVars>>
  BY DEF SendTimesOut, Under
<1> QED BY <1>1, SenderQuits

LEMMA SenderDiesInv == FramingInv /\ SenderDies => FramingInv'
<1> SUFFICES ASSUME FramingInv, SenderDies PROVE FramingInv'
  OBVIOUS
<1>1. senderAt' = "closed" /\ UNCHANGED <<side, pushed, stream, readerVars>>
  BY DEF SenderDies
<1>2. CASE Under
  BY <1>1, <1>2, SenderQuits DEF SenderDies, Under
<1>3. CASE ~Under
  BY <1>1, <1>3, SenderQuits DEF SenderDies, Under
<1> QED BY <1>2, <1>3

LEMMA FramingStep == FramingInv /\ [Next]_vars => FramingInv'
<1> SUFFICES ASSUME FramingInv, [Next]_vars PROVE FramingInv'
  OBVIOUS
<1>1. ASSUME NEW m \in Messages, StartSend(m) PROVE FramingInv'
  BY <1>1, StartSendInv
<1>2. ASSUME NEW k \in 1 .. BufferSize, Push(k) PROVE FramingInv'
  BY <1>2, PushInv
<1>3. CASE SendTimesOut
  BY <1>3, SendTimesOutInv
<1>4. CASE SenderDies
  BY <1>4, SenderDiesInv
<1>5. ASSUME NEW k \in 1 .. BufferSize, RecvSome(k) PROVE FramingInv'
  BY <1>5, RecvSomeInv
<1>6. CASE RecvHeader
  BY <1>6, RecvHeaderInv
<1>7. CASE RecvPayload
  BY <1>7, RecvPayloadInv
<1>8. FramingType
  BY DEF FramingInv
<1>9. CASE RecvGarbage
  <2>1. ReaderOK /\ CompleteRead
    BY <1>9 DEF RecvGarbage, FramingInv, Reading
  <2>2. stream' \in Seq(Bytes)
    BY <1>8, <2>1, Consumed
  <2> QED BY <1>8, <1>9, <2>2, ReaderGone DEF RecvGarbage, FramingType
<1>10. CASE RecvEof
  BY <1>8, <1>10, ReaderGone DEF RecvEof, FramingType
<1>11. CASE ReadTimesOut
  BY <1>11, ReadTimesOutInv
<1>12. CASE ReaderLeaves
  BY <1>8, <1>12, ReaderGone DEF ReaderLeaves, FramingType
<1>13. CASE UNCHANGED vars
  <2>1. UNCHANGED <<senderVars, readerAt, want, read, torn>> /\ Count' = Count
        /\ \A j \in 1 .. Count : At(j)' = At(j)
    BY <1>13 DEF vars, readerVars, Count, At
  <2>2. FramingType' /\ (Reading' => Reading /\ (ReaderOK => ReaderOK'))
    BY <1>8, <1>13 DEF vars, senderVars, readerVars, FramingType, Under, FrameLen, Reading, ReaderOK
  <2> QED BY <1>8, <2>1, <2>2, SameBytes DEF FramingInv
<1> QED BY <1>1, <1>2, <1>3, <1>4, <1>5, <1>6, <1>7, <1>9, <1>10, <1>11, <1>12, <1>13
        DEF Next, SenderStep, ReaderStep

\* Steps of the framing as steps of the channel.
LEMMA ReaderShuts ==
    ASSUME ReaderEnds, UNCHANGED <<senderVars, read, torn>>
    PROVE  Abstract!Shut
BY DEF ReaderEnds, senderVars, Abstract!Shut, Posted

LEMMA MapsQuit ==
    ASSUME FramingInv, senderAt' \in {"idle", "leaving", "closed"},
           IF Under
           THEN /\ sent' = IF pushed = 0 THEN Front(sent) ELSE sent
                /\ torn' = (torn \/ pushed # 0)
           ELSE UNCHANGED sent /\ torn' = (torn \/ FALSE),
           UNCHANGED <<side, pushed, stream, readerVars>>
    PROVE  Abstract!Damage \/ UNCHANGED Abstract!vars
<1>1. FramingType /\ sent \in Seq(Messages) /\ Len(sent) \in Nat
  BY DEF FramingInv, FramingType
<1>5. Posted' = Len(sent')
  BY DEF Posted
<1>2. CASE Under /\ pushed = 0
  <2>1. sent # <<>> /\ sent' = SubSeq(sent, 1, Len(sent) - 1)
    BY <1>1, <1>2 DEF Front, FramingType
  <2>2. Len(sent) - 1 \in 0 .. Len(sent) /\ \A m \in 0 .. Len(sent) : Len(SubSeq(sent, 1, m)) = m
    BY <1>1, <2>1
  <2>3. Posted' = Posted /\ (torn' <=> torn) /\ torn \in BOOLEAN /\ torn' \in BOOLEAN
    BY <1>1, <1>5, <1>2, <2>1, <2>2 DEF Posted, Under, FramingType
  <2> QED BY <2>3 DEF Abstract!vars, readerVars
<1>3. CASE Under /\ pushed # 0
  <2>1. Posted' = Posted /\ torn'
    BY <1>1, <1>5, <1>3 DEF Posted, Under
  <2> QED BY <2>1 DEF Abstract!Damage, readerVars
<1>4. CASE ~Under
  <2>1. Posted' = Posted /\ (torn' <=> torn) /\ torn \in BOOLEAN /\ torn' \in BOOLEAN
    BY <1>1, <1>5, <1>4 DEF Posted, Under, FramingType
  <2> QED BY <2>1 DEF Abstract!vars, readerVars
<1> QED BY <1>2, <1>3, <1>4

LEMMA MapsSender ==
    ASSUME FramingInv, SenderStep
    PROVE  [Abstract!Next]_Abstract!vars
<1> USE FramingAssumption
<1>1. FramingType /\ sent \in Seq(Messages) /\ Len(sent) \in Nat
  BY DEF FramingInv, FramingType
<1>2. ASSUME NEW m \in Messages, StartSend(m) PROVE UNCHANGED Abstract!vars
  <2>1. Len(sent') = Len(sent) + 1
    BY <1>1, <1>2 DEF StartSend
  <2> QED BY <1>1, <1>2, <2>1 DEF StartSend, Posted, Abstract!vars, readerVars
<1>3. ASSUME NEW k \in 1 .. BufferSize, Push(k) PROVE Abstract!Post \/ UNCHANGED Abstract!vars
  <2>1. UNCHANGED <<read, torn, sent>> /\ readerAt' = readerAt
    BY <1>3 DEF Push, readerVars
  <2>2. senderAt = "sending" /\ pushed \in Nat /\ pushed' = pushed + k /\ pushed' # 0
    BY <1>1, <1>3 DEF Push, FramingType
  <2>3. Posted' = Len(sent) /\ Posted = IF pushed = 0 THEN Len(sent) - 1 ELSE Len(sent)
    BY <2>1, <2>2 DEF Posted
  <2> QED BY <1>1, <2>1, <2>3 DEF Abstract!Post, Abstract!vars
<1>5. CASE SendTimesOut
  <2>1. /\ Under /\ senderAt' \in {"idle", "leaving", "closed"}
        /\ sent' = IF pushed = 0 THEN Front(sent) ELSE sent
        /\ torn' = (torn \/ pushed # 0)
        /\ UNCHANGED <<side, pushed, stream, readerVars>>
    BY <1>5 DEF SendTimesOut, Under
  <2> QED BY <2>1, MapsQuit DEF Abstract!Next
<1>6. CASE SenderDies
  <2>1. senderAt' \in {"idle", "leaving", "closed"} /\ UNCHANGED <<side, pushed, stream, readerVars>>
    BY <1>6 DEF SenderDies
  <2>2. CASE Under
    <3>1. sent' = (IF pushed = 0 THEN Front(sent) ELSE sent) /\ torn' = (torn \/ pushed # 0)
      BY <1>6, <2>2 DEF SenderDies, Under
    <3> QED BY <2>1, <2>2, <3>1, MapsQuit DEF Abstract!Next
  <2>3. CASE ~Under
    <3>1. UNCHANGED sent /\ torn' = (torn \/ FALSE)
      BY <1>6, <2>3 DEF SenderDies, Under
    <3> QED BY <2>1, <2>3, <3>1, MapsQuit DEF Abstract!Next
  <2> QED BY <2>2, <2>3
<1> QED BY <1>2, <1>3, <1>5, <1>6 DEF SenderStep, Abstract!Next

LEMMA MapsPayload ==
    ASSUME FramingInv, RecvPayload
    PROVE  Abstract!Deliver
<1>1. /\ readerAt = "payload" /\ CompleteRead /\ FramingType
      /\ UNCHANGED <<senderVars, torn>>
  BY DEF RecvPayload, FramingInv
<1>2. PICK i \in 1 .. Len(sent) : Whole = Payload(i) /\ read' = Append(read, i)
  BY DEF RecvPayload
<1>3. LastOut < i /\ i <= Posted /\ (~torn => i = LastOut + 1)
  BY <1>1, <1>2, PayloadOf
<1>4. LastOut \in Nat /\ Posted \in Nat
  BY <1>1, <1>3, ByteType DEF Posted, FramingType
<1>5. i \in LastOut + 1 .. Posted
  BY <1>3, <1>4
<1>6. Posted' = Posted /\ torn' = torn
  BY <1>1 DEF Posted, senderVars
<1> QED BY <1>1, <1>2, <1>3, <1>5, <1>6 DEF Abstract!Deliver, LastOut

LEMMA MapsReader ==
    ASSUME FramingInv, ReaderStep \/ ReadTimesOut \/ ReaderLeaves
    PROVE  [Abstract!Next]_Abstract!vars
<1>1. FramingType
  BY DEF FramingInv
<1>2. ASSUME NEW k \in 1 .. BufferSize, RecvSome(k) PROVE UNCHANGED Abstract!vars
  BY <1>2 DEF RecvSome, Abstract!vars, Posted, senderVars
<1>3. CASE RecvHeader
  <2>1. UNCHANGED <<senderVars, read, torn>>
    BY <1>3 DEF RecvHeader
  <2>2. (readerAt = "header" /\ readerAt' = "payload") \/ ReaderEnds
    BY <1>3 DEF RecvHeader
  <2>3. CASE ReaderEnds
    BY <2>1, <2>3, ReaderShuts DEF Abstract!Next
  <2>4. CASE readerAt = "header" /\ readerAt' = "payload"
    BY <2>1, <2>4 DEF Abstract!vars, Posted, senderVars
  <2> QED BY <2>2, <2>3, <2>4
<1>4. CASE RecvPayload
  BY <1>4, MapsPayload DEF Abstract!Next
<1>5. CASE RecvGarbage
  BY <1>5, ReaderShuts DEF RecvGarbage, Abstract!Next
<1>6. CASE RecvEof
  BY <1>6, ReaderShuts DEF RecvEof, Abstract!Next
<1>7. CASE ReaderLeaves
  BY <1>7, ReaderShuts DEF ReaderLeaves, Abstract!Next
<1>8. CASE ReadTimesOut
  <2>1. /\ UNCHANGED <<side, senderVars, read>> /\ Reading
        /\ torn' = (torn \/ (side = "toServer" /\ MidFrame))
        /\ torn \in BOOLEAN /\ torn' \in BOOLEAN
    BY <1>1, <1>8 DEF ReadTimesOut, FramingType
  <2>2. Posted' = Posted
    BY <2>1 DEF Posted, senderVars
  <2>3. CASE side = "toWorker"
    <3>1. ReaderEnds /\ torn' = torn
      BY <1>1, <1>8, <2>1, <2>3 DEF ReadTimesOut
    <3> QED BY <2>1, <3>1, ReaderShuts DEF Abstract!Next
  <2>4. CASE side = "toServer"
    <3>1. readerAt' = "header" /\ readerAt # "ended"
      BY <1>8, <2>1, <2>4 DEF ReadTimesOut, NextRead, Reading
    <3>2. CASE MidFrame
      BY <2>1, <2>2, <2>4, <3>1, <3>2 DEF Abstract!Damage, Abstract!Next
    <3>3. CASE ~MidFrame
      <4>1. torn' = torn
        BY <2>1, <3>3
      <4> QED BY <2>1, <2>2, <3>1, <4>1 DEF Abstract!vars
    <3> QED BY <3>2, <3>3
  <2> QED BY <1>1, <2>3, <2>4 DEF FramingType
<1> QED BY <1>2, <1>3, <1>4, <1>5, <1>6, <1>7, <1>8 DEF ReaderStep

LEMMA ChannelInit == Init => Abstract!Init
BY DEF Init, Abstract!Init, Posted

LEMMA ChannelStep == FramingInv /\ [Next]_vars => [Abstract!Next]_Abstract!vars
<1> SUFFICES ASSUME FramingInv, [Next]_vars PROVE [Abstract!Next]_Abstract!vars
  OBVIOUS
<1>1. CASE SenderStep
  BY <1>1, MapsSender
<1>2. CASE ReaderStep \/ ReadTimesOut \/ ReaderLeaves
  BY <1>2, MapsReader
<1>3. CASE UNCHANGED vars
  BY <1>3 DEF vars, senderVars, readerVars, Abstract!vars, Posted
<1> QED BY <1>1, <1>2, <1>3 DEF Next

\* However recv cuts the stream, wherever a read, a send or the peer gives up,
\* and whatever a torn stream makes of its headers: what read_msg returns was
\* sent, comes at most once and in order, and on an untorn stream without gaps.
THEOREM FramingIsChannel == Spec => ImplementsChannel
BY FramingInit, FramingStep, ChannelInit, ChannelStep, PTL
   DEF Spec, ImplementsChannel, Abstract!Spec

-----------------------------------------------------------------------------
(* The store.  PairsAreReported is not inductive: that a pair is noticed   *)
(* rests on the store's keeping, for every x it has seen, the first point  *)
(* that came there, with which every later one is compared.                *)

\* What is stored was inserted, and every point inserted is represented at its
\* x by one that agrees with it in kind, or the pair has been reported.
FirstIsKept ==
    /\ \A x \in DOMAIN byX : byX[x] \in inserted
    /\ \A p \in inserted :
          /\ p.x \in DOMAIN byX
          /\ byX[p.x].kind # p.kind => p.x \in reported

IInv == TypeOK /\ FirstIsKept

LEMMA InitIInv == StoreInit => IInv
BY DEF StoreInit, IInv, TypeOK, FirstIsKept, NoCollision, Points

\* What every step that looks at a point knows of it.
LEMMA PointType ==
    ASSUME TypeOK, ~Free
    PROVE  /\ Point \in Points
           /\ Tail(batch) \in Seq(Points)
           /\ Point.x \in Xs /\ Point.dist \in Dists
           /\ Point.kind \in Kinds => Point \in Records
<1>1. batch \in Seq(Points) /\ batch # <<>>
  BY DEF TypeOK, Free
<1>2. Head(batch) \in Points /\ Tail(batch) \in Seq(Points)
  BY <1>1
<1>3. \A p \in Points : p.x \in Xs /\ p.dist \in Dists /\ (p.kind \in Kinds => p \in Records)
  BY DEF Points, Records
<1> QED BY <1>2, <1>3 DEF Point

\* The three ways of inserting a point agree on this much.
LEMMA GoodPointType ==
    ASSUME TypeOK, GoodPoint
    PROVE  /\ Point \in Records /\ Point.x \in Xs
           /\ Tail(batch) \in Seq(Points)
           /\ dpCount' \in Nat
           /\ inserted' = inserted \cup {Point} /\ inserted' \subseteq Records
<1>1. ~Free /\ Point.kind \in Kinds /\ inserted' = inserted \cup {Point} /\ dpCount' = dpCount + 1
  BY DEF GoodPoint, Take
<1>2. Point \in Records /\ Point.x \in Xs /\ Tail(batch) \in Seq(Points)
  BY <1>1, PointType
<1> QED BY <1>1, <1>2 DEF TypeOK

LEMMA InsertNewIInv == IInv /\ InsertNew => IInv'
<1> SUFFICES ASSUME IInv, InsertNew PROVE IInv'
  OBVIOUS
<1>1. /\ Point \in Records /\ Point.x \in Xs
      /\ Tail(batch) \in Seq(Points) /\ dpCount' \in Nat
      /\ inserted' = inserted \cup {Point} /\ inserted' \subseteq Records
  BY GoodPointType DEF IInv, InsertNew
<1>2. /\ reported' = reported /\ collision' = collision
      /\ batch' = Tail(batch)
      /\ Point.x \notin DOMAIN byX
      /\ byX' = [x \in DOMAIN byX \cup {Point.x} |-> IF x = Point.x THEN Point ELSE byX[x]]
  BY DEF InsertNew, Known
<1>3. \A x \in DOMAIN byX' : byX'[x] \in Records /\ byX'[x].x = x /\ byX'[x] \in inserted'
  BY <1>1, <1>2 DEF IInv, TypeOK, FirstIsKept
<1>4. TypeOK'
  BY <1>1, <1>2, <1>3 DEF IInv, TypeOK
<1>5. ASSUME NEW p \in inserted'
      PROVE  p.x \in DOMAIN byX' /\ (byX'[p.x].kind # p.kind => p.x \in reported')
  <2>1. CASE p = Point
    BY <1>2, <2>1
  <2>2. CASE p \in inserted
    <3>1. p.x \in DOMAIN byX /\ (byX[p.x].kind # p.kind => p.x \in reported)
      BY <2>2 DEF IInv, FirstIsKept
    <3>2. byX'[p.x] = byX[p.x]
      BY <1>2, <3>1
    <3> QED BY <1>2, <3>1, <3>2
  <2> QED BY <1>1, <2>1, <2>2
<1> QED BY <1>3, <1>4, <1>5 DEF IInv, FirstIsKept

LEMMA SkipRehitIInv == IInv /\ SkipRehit => IInv'
<1> SUFFICES ASSUME IInv, SkipRehit PROVE IInv'
  OBVIOUS
<1>1. /\ Tail(batch) \in Seq(Points) /\ dpCount' \in Nat
      /\ inserted' = inserted \cup {Point} /\ inserted' \subseteq Records
  BY GoodPointType DEF IInv, SkipRehit
<1>2. /\ reported' = reported /\ byX' = byX /\ collision' = collision
      /\ batch' = Tail(batch)
      /\ Point.x \in DOMAIN byX /\ byX[Point.x].kind = Point.kind
  BY DEF SkipRehit, Known, Prior
<1>3. TypeOK'
  BY <1>1, <1>2 DEF IInv, TypeOK
<1>4. FirstIsKept'
  BY <1>1, <1>2 DEF IInv, FirstIsKept
<1> QED BY <1>3, <1>4 DEF IInv

LEMMA CollideIInv == IInv /\ Collide => IInv'
<1> SUFFICES ASSUME IInv, Collide PROVE IInv'
  OBVIOUS
<1> DEFINE tame == IF Prior.kind = "tame" THEN Prior ELSE Point
           wild == IF Prior.kind = "tame" THEN Point ELSE Prior
<1>1. /\ Point \in Records /\ Point.x \in Xs /\ dpCount' \in Nat
      /\ inserted' = inserted \cup {Point} /\ inserted' \subseteq Records
  BY GoodPointType DEF IInv, Collide
<1>2. /\ reported' = reported \cup {Point.x} /\ byX' = byX /\ batch' = <<>>
      /\ Point.x \in DOMAIN byX
      /\ collision' = [x |-> Point.x, tame |-> tame, wild |-> wild, key |-> tame.dist - wild.dist]
  BY DEF Collide, Known
<1>3. Prior \in Records
  BY <1>2 DEF IInv, TypeOK, Prior
<1>4. tame \in Records /\ wild \in Records
  BY <1>1, <1>3
<1>5. tame.dist - wild.dist \in Int
  <2>1. \A r \in Records : r.dist \in Int
    BY DPStoreAssumption DEF Records
  <2>2. tame.dist \in Int /\ wild.dist \in Int
    BY <1>4, <2>1
  <2> QED BY <2>2
<1>6. collision' \in Collisions
  BY <1>1, <1>2, <1>4, <1>5 DEF Collisions
<1>7. TypeOK'
  BY <1>1, <1>2, <1>6 DEF IInv, TypeOK
<1>8. FirstIsKept'
  BY <1>1, <1>2 DEF IInv, FirstIsKept
<1> QED BY <1>7, <1>8 DEF IInv

LEMMA NextIInv == IInv /\ [StoreNext]_storeVars => IInv'
<1> SUFFICES ASSUME IInv, [StoreNext]_storeVars PROVE IInv'
  OBVIOUS
<1>1. CASE AddBatch(Seq(Points))
  BY <1>1 DEF AddBatch, IInv, TypeOK, FirstIsKept
<1>2. CASE InsertStep
  BY <1>2, InsertNewIInv, SkipRehitIInv, CollideIInv DEF InsertStep
<1>3. CASE RaiseBadKind
  <2>1. dpCount' \in Nat /\ batch' \in Seq(Points)
    BY <1>3 DEF RaiseBadKind, Take, IInv, TypeOK
  <2> QED BY <1>3, <2>1 DEF RaiseBadKind, IInv, TypeOK, FirstIsKept
<1>4. CASE ObservedDpRate
  BY <1>4 DEF ObservedDpRate, IInv, TypeOK, FirstIsKept
<1>5. CASE UNCHANGED storeVars
  BY <1>5 DEF storeVars, IInv, TypeOK, FirstIsKept
<1> QED BY <1>1, <1>2, <1>3, <1>4, <1>5 DEF StoreNext

\* The variables of the store keep their types: in particular every record is
\* stored under its own x.
THEOREM StoreTypeCorrect == StoreSpec => []TypeOK
<1>1. IInv => TypeOK
  BY DEF IInv
<1> QED BY <1>1, InitIInv, NextIInv, PTL DEF StoreSpec

LEMMA IInvPairs == IInv => PairsAreReported
<1> SUFFICES ASSUME IInv, NEW p \in inserted, NEW q \in inserted,
                    p.x = q.x, p.kind # q.kind
             PROVE  p.x \in reported
  BY DEF PairsAreReported
<1>1. CASE byX[p.x].kind # p.kind
  BY <1>1 DEF IInv, FirstIsKept
<1>2. CASE byX[q.x].kind # q.kind
  BY <1>2 DEF IInv, FirstIsKept
<1> QED BY <1>1, <1>2

\* However points come in, split over batches and cut short by errors and
\* early returns, a tame and a wild one inserted at one x have been reported.
THEOREM PairsReported == StoreSpec => []PairsAreReported
BY InitIInv, NextIInv, IInvPairs, PTL DEF StoreSpec

-----------------------------------------------------------------------------
(* The handler between the two *)

LEMMA WalkWires ==
    ASSUME NEW m \in DOMAIN BatchOf, NEW k \in DOMAIN BatchOf[m]
    PROVE  BatchOf[m][k] \in Walks /\ Wire(BatchOf[m][k]) \in Points
<1>1. BatchOf[m] \in Seq(Walks) /\ Wire(BatchOf[m][k]).x \in Xs
  BY DPIngestAssumption
<1>2. BatchOf[m][k] \in Walks
  BY <1>1
<1>3. \A w \in Walks : Wire(w).x \in Xs => Wire(w) \in Points
  BY DEF Walks, Wire, Points
<1> QED BY <1>1, <1>2, <1>3

LEMMA PointsOfType ==
    ASSUME NEW m \in DOMAIN BatchOf
    PROVE  PointsOf(m) \in Seq(Points)
<1>1. BatchOf[m] \in Seq(Walks)
  BY DPIngestAssumption
<1>2. DOMAIN BatchOf[m] = 1 .. Len(BatchOf[m]) /\ Len(BatchOf[m]) \in Nat
  BY <1>1
<1>3. PointsOf(m) \in [1 .. Len(BatchOf[m]) -> Points]
  BY <1>2, WalkWires DEF PointsOf
<1> QED BY <1>2, <1>3

LEMMA HandlerReads == IngestNext => [Next]_vars
BY DEF IngestNext, HandlerStep, ReadOn, HandleMessage, Insert, RaiseEndsHandler, Next, ReaderStep

\* What the handler does to the store.
LEMMA HandlerStores ==
    ASSUME IngestNext
    PROVE  \/ \E m \in DOMAIN BatchOf : AddBatch({PointsOf(m)})
           \/ InsertStep \/ RaiseBadKind \/ ObservedDpRate
           \/ UNCHANGED storeVars
<1>1. CASE HandleMessage
  BY <1>1 DEF HandleMessage
<1> QED BY <1>1 DEF IngestNext, HandlerStep, ReadOn, Insert, RaiseEndsHandler

LEMMA HandlerStoreStep == IngestNext => [StoreNext]_storeVars
<1> SUFFICES ASSUME IngestNext PROVE [StoreNext]_storeVars
  OBVIOUS
<1>1. ASSUME NEW m \in DOMAIN BatchOf, AddBatch({PointsOf(m)}) PROVE AddBatch(Seq(Points))
  BY <1>1, PointsOfType DEF AddBatch
<1> QED BY <1>1, HandlerStores DEF StoreNext

\* The handler adds nothing to what the framing may do, so the framing's promise
\* holds of the whole: the points of a batch come in once and in order.
THEOREM IngestIsChannel == IngestSpec => ImplementsChannel
<1>1. IngestInit => Init
  BY DEF IngestInit
<1>2. [IngestNext]_allVars => [Next]_vars
  BY HandlerReads DEF allVars
<1>3. IngestSpec => Spec
  BY <1>1, <1>2, PTL DEF IngestSpec, Spec
<1> QED BY <1>3, FramingIsChannel

\* A tame and a wild point that both reached the store at one x have been
\* reported, over any number of batches, exceptions and timeouts on the way.
THEOREM IngestReportsPairs == IngestSpec => []PairsAreReported
<1>1. IngestInit => StoreInit
  BY DEF IngestInit
<1>2. [IngestNext]_allVars => [StoreNext]_storeVars
  BY HandlerStoreStep DEF allVars
<1>3. IngestSpec => StoreSpec
  BY <1>1, <1>2, PTL DEF IngestSpec, StoreSpec
<1> QED BY <1>3, PairsReported

=============================================================================
