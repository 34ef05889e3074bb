------------------------ MODULE IncrementalMacProofs ------------------------
(***************************************************************************)
(* Proofs about IncrementalMac: however a content is cut into slices, the  *)
(* chunk MACs come out in order and each once, the receiver accepts the    *)
(* content of the sender and nothing else, and a refusal is final; for any *)
(* bytes, chunk size, slices and lengths of the content.                   *)
(*                                                                         *)
(* A call's loop over the bytes of its slice is a recursive function; the  *)
(* proofs go along it by induction over sets of numbers (SetInduction).    *)
(***************************************************************************)
EXTENDS IncrementalMac, SequenceTheorems, WellFoundedInduction, TLAPS

\* The objects as records, whatever the length of their buffers.
SenderState == [buf : Seq(Byte), macs : Seq(Chunk), emitted : Nat]
ReceiverState == [buf : Seq(Byte), idx : Nat, failed : BOOLEAN]

\* The number of bytes in n chunks.
Off(n) == n * ChunkSize

-----------------------------------------------------------------------------
(* Numbers *)

\* Chunks lie one behind the other.
LEMMA OffIs ==
  /\ ChunkSize \in Nat \ {0} /\ Off(0) = 0
  /\ \A n \in Nat : Off(n) \in Nat /\ Off(n + 1) = Off(n) + ChunkSize
  BY SizeAssumption DEF Off

\* More chunks hold more bytes.
LEMMA OffGrows == \A m, n \in Nat : m <= n => Off(m) <= Off(n)
  BY SizeAssumption DEF Off

\* Of n chunks, the first i.
LEMMA OffWithin ==
  \A n \in Nat : \A i \in 1 .. n :
      i \in Nat \ {0} /\ Off(i) \in Nat /\ Off(i) <= Off(n)
<1> SUFFICES ASSUME NEW n \in Nat, NEW i \in 1 .. n
             PROVE  i \in Nat \ {0} /\ Off(i) \in Nat /\ Off(i) <= Off(n)
  OBVIOUS
<1>1. i \in Nat \ {0} /\ i \in Nat /\ i <= n
  OBVIOUS
<1> QED
  BY <1>1, OffIs, OffGrows

\* ChunkCount counts the chunk that is not full.
LEMMA ChunkCountIs ==
  ASSUME NEW n \in Nat, NEW r \in Nat, r < ChunkSize
  PROVE  ChunkCount(Off(n) + r) = IF r = 0 THEN n ELSE n + 1
<1>1. \A x, k \in Nat : k * ChunkSize <= x /\ x < k * ChunkSize + ChunkSize
                        => x \div ChunkSize = k
  BY SizeAssumption
<1>2. CASE r = 0
  <2>1. /\ n * ChunkSize + 0 + ChunkSize - 1 \in Nat
        /\ n * ChunkSize <= n * ChunkSize + 0 + ChunkSize - 1
        /\ n * ChunkSize + 0 + ChunkSize - 1 < n * ChunkSize + ChunkSize
    BY SizeAssumption
  <2> QED
    BY <1>1, <1>2, <2>1 DEF ChunkCount, Off
<1>3. CASE r # 0
  <2>1. (n + 1) * ChunkSize = n * ChunkSize + ChunkSize
    BY SizeAssumption
  <2>2. /\ n * ChunkSize + r + ChunkSize - 1 \in Nat
        /\ n * ChunkSize + ChunkSize <= n * ChunkSize + r + ChunkSize - 1
        /\ n * ChunkSize + r + ChunkSize - 1
               < n * ChunkSize + ChunkSize + ChunkSize
    BY SizeAssumption, <1>3
  <2> QED
    BY <1>1, <1>3, <2>1, <2>2 DEF ChunkCount, Off
<1> QED
  BY <1>2, <1>3

\* A size is some full chunks and a rest.
LEMMA SizeSplit ==
  ASSUME NEW size \in Nat
  PROVE  \E n \in Nat : \E r \in Nat : r < ChunkSize /\ size = Off(n) + r
<1>1. \A x \in Nat : /\ x \div ChunkSize \in Nat
                     /\ (x \div ChunkSize) * ChunkSize <= x
                     /\ x < (x \div ChunkSize) * ChunkSize + ChunkSize
  BY SizeAssumption
<1> DEFINE n == size \div ChunkSize
<1>2. /\ n \in Nat /\ Off(n) \in Nat
      /\ Off(n) <= size /\ size < Off(n) + ChunkSize
  BY <1>1, SizeAssumption DEF Off
<1>3. /\ size - Off(n) \in Nat /\ size - Off(n) < ChunkSize
      /\ size = Off(n) + (size - Off(n))
  BY <1>2, SizeAssumption
<1> QED
  BY <1>2, <1>3

\* A set of numbers that is not empty has a least one.
LEMMA LeastNumber ==
  ASSUME NEW T \in SUBSET Nat, T # {}
  PROVE  \E n \in T : \A m \in T : n <= m
<1>1. PICK n \in T : \A m \in T : ~(<<m, n>> \in OpToRel(<, Nat))
  BY NatLessThanWellFounded, WFMin
<1>2. \A m \in T : ~(m < n)
  BY <1>1 DEF OpToRel
<1> QED
  BY <1>2

\* Induction, for a property given by the set of numbers that have it.
LEMMA SetInduction ==
  ASSUME NEW T \in SUBSET Nat, 0 \in T, \A n \in T : n + 1 \in T
  PROVE  T = Nat
<1> SUFFICES ASSUME Nat \ T # {} PROVE FALSE
  OBVIOUS
<1>1. PICK n \in Nat \ T : \A m \in Nat \ T : n <= m
  BY LeastNumber
<1>2. n # 0 /\ n - 1 \in Nat /\ n - 1 \in T
  BY <1>1
<1> QED
  BY <1>2

-----------------------------------------------------------------------------
(* The loops over the bytes of a slice *)

\* A loop whose step keeps to a set has a history of its states.
LEMMA LoopExists ==
  ASSUME NEW S, NEW s \in S, NEW L \in Nat, NEW g \in [1 .. L -> [S -> S]]
  PROVE  \E f \in [0 .. L -> S] :
             f[0] = s /\ \A n \in 1 .. L : f[n] = g[n][f[n - 1]]
<1> DEFINE T == {m \in Nat : m <= L =>
                    \E f \in [0 .. m -> S] :
                       f[0] = s /\ \A n \in 1 .. m : f[n] = g[n][f[n - 1]]}
<1>1. 0 \in T
  <2> DEFINE f == [n \in 0 .. 0 |-> s]
  <2>1. f \in [0 .. 0 -> S] /\ f[0] = s /\ 1 .. 0 = {}
    OBVIOUS
  <2> HIDE DEF f
  <2> QED
    BY <2>1
<1>2. ASSUME NEW m \in T PROVE m + 1 \in T
  <2>1. m \in Nat /\ m + 1 \in Nat
    OBVIOUS
  <2> SUFFICES ASSUME m + 1 <= L
               PROVE  \E f \in [0 .. m + 1 -> S] :
                         /\ f[0] = s
                         /\ \A n \in 1 .. m + 1 : f[n] = g[n][f[n - 1]]
    BY <2>1
  <2>2. PICK f \in [0 .. m -> S] :
            f[0] = s /\ \A n \in 1 .. m : f[n] = g[n][f[n - 1]]
    BY <2>1
  <2>3. f[m] \in S /\ m + 1 \in 1 .. L /\ g[m + 1][f[m]] \in S
    BY <2>1
  <2> DEFINE h == [n \in 0 .. m + 1 |-> IF n <= m THEN f[n]
                                        ELSE g[m + 1][f[m]]]
  <2>4. h \in [0 .. m + 1 -> S] /\ h[0] = s
    BY <2>1, <2>2, <2>3
  <2>5. ASSUME NEW n \in 1 .. m + 1 PROVE h[n] = g[n][h[n - 1]]
    <3>1. n - 1 \in 0 .. m /\ h[n - 1] = f[n - 1]
      BY <2>1
    <3>2. CASE n <= m
      <4>1. n \in 1 .. m /\ h[n] = f[n]
        BY <2>1, <3>2
      <4> QED
        BY <2>2, <3>1, <4>1
    <3>3. CASE ~(n <= m)
      <4>1. n = m + 1 /\ n - 1 = m /\ h[n] = g[m + 1][f[m]]
        BY <2>1, <3>3
      <4> QED
        BY <3>1, <4>1
    <3> QED
      BY <3>2, <3>3
  <2> QED
    BY <2>4, <2>5
<1> HIDE DEF T
<1>3. T = Nat
  <2>1. T \in SUBSET Nat
    BY DEF T
  <2> QED
    BY <1>1, <1>2, <2>1, SetInduction
<1>4. L \in T /\ L <= L
  BY <1>3
<1> QED
  BY <1>4 DEF T

-----------------------------------------------------------------------------
(* Chunks *)

\* buf holds the bytes of data from offset off on.
Bytes(buf, data, off) == \A j \in 1 .. Len(buf) : buf[j] = data[off + j]

\* A padded buffer is a chunk.
LEMMA PaddedIs ==
  ASSUME NEW buf \in Seq(Byte)
  PROVE  /\ Padded(buf) \in Chunk
         /\ \A j \in 1 .. ChunkSize :
               Padded(buf)[j] = IF j <= Len(buf) THEN buf[j] ELSE Zero
<1>1. /\ Len(buf) \in Nat /\ ChunkSize \in Nat /\ Zero \in Byte
      /\ \A j \in 1 .. Len(buf) : buf[j] \in Byte
  BY OffIs, ByteAssumption, ElementOfSeq, LenProperties
<1> QED
  BY <1>1 DEF Padded, Chunk

\* Chunks are equal when their bytes are.
LEMMA ChunkEqual ==
  ASSUME NEW a \in Chunk, NEW b \in Chunk, \A j \in 1 .. ChunkSize : a[j] = b[j]
  PROVE  a = b
<1>1. /\ a = [j \in 1 .. ChunkSize |-> a[j]]
      /\ b = [j \in 1 .. ChunkSize |-> b[j]]
  BY DEF Chunk
<1>2. [j \in 1 .. ChunkSize |-> a[j]] = [j \in 1 .. ChunkSize |-> b[j]]
  OBVIOUS
<1> QED
  BY <1>1, <1>2

\* The bytes of a chunk of a content.
LEMMA ChunkOfIs ==
  ASSUME NEW data \in Seq(Byte), NEW m \in Nat
  PROVE  /\ ChunkOf(data, m + 1) \in Chunk
         /\ \A j \in 1 .. ChunkSize :
               ChunkOf(data, m + 1)[j] =
                   IF Off(m) + j <= Len(data) THEN data[Off(m) + j] ELSE Zero
<1> DEFINE rest == SubSeq(data, Off(m) + 1, Len(data))
<1>1. /\ Len(data) \in Nat /\ Off(m) \in Nat /\ ChunkSize \in Nat
      /\ \A x \in 1 .. Len(data) : data[x] \in Byte
  BY OffIs, ElementOfSeq, LenProperties
<1>2. \A x \in Off(m) + 1 .. Len(data) : data[x] \in Byte
  BY <1>1
<1>3. /\ rest \in Seq(Byte)
      /\ Len(rest) = IF Off(m) + 1 <= Len(data)
                     THEN Len(data) - (Off(m) + 1) + 1 ELSE 0
      /\ \A j \in 1 .. Len(data) - (Off(m) + 1) + 1 :
             rest[j] = data[Off(m) + 1 + j - 1]
  BY <1>1, <1>2, SubSeqProperties
<1>4. ChunkOf(data, m + 1) = Padded(rest)
  <2>1. (m + 1) - 1 = m
    OBVIOUS
  <2> QED
    BY <2>1 DEF ChunkOf, Off
<1> HIDE DEF rest
<1>5. /\ Padded(rest) \in Chunk
      /\ \A j \in 1 .. ChunkSize :
             Padded(rest)[j] = IF j <= Len(rest) THEN rest[j] ELSE Zero
  BY <1>3, PaddedIs
<1>6. ASSUME NEW j \in 1 .. ChunkSize
      PROVE  Padded(rest)[j] =
                 IF Off(m) + j <= Len(data) THEN data[Off(m) + j] ELSE Zero
  <2>1. CASE Off(m) + j <= Len(data)
    <3>1. /\ j \in 1 .. Len(data) - (Off(m) + 1) + 1
          /\ j <= Len(rest) /\ Off(m) + 1 + j - 1 = Off(m) + j
      BY <1>1, <1>3, <2>1
    <3> QED
      BY <1>3, <1>5, <2>1, <3>1
  <2>2. CASE ~(Off(m) + j <= Len(data))
    <3>1. ~(j <= Len(rest))
      BY <1>1, <1>3, <2>2
    <3> QED
      BY <1>5, <2>2, <3>1
  <2> QED
    BY <2>1, <2>2
<1> QED
  BY <1>4, <1>5, <1>6

\* A buffer that is full, or holds the end of the content, is its next chunk.
LEMMA BufferIsChunk ==
  ASSUME NEW data \in Seq(Byte), NEW buf \in Seq(Byte), NEW m \in Nat,
         Bytes(buf, data, Off(m)), Len(buf) <= ChunkSize,
         Off(m) + Len(buf) <= Len(data),
         Len(buf) = ChunkSize \/ Off(m) + Len(buf) = Len(data)
  PROVE  Padded(buf) = ChunkOf(data, m + 1)
<1>1. /\ Len(data) \in Nat /\ Off(m) \in Nat /\ ChunkSize \in Nat
      /\ Len(buf) \in Nat
  BY OffIs, LenProperties
<1>2. ASSUME NEW j \in 1 .. ChunkSize
      PROVE  Padded(buf)[j] = ChunkOf(data, m + 1)[j]
  <2>1. CASE j <= Len(buf)
    <3>1. Off(m) + j <= Len(data) /\ j \in 1 .. Len(buf)
      BY <1>1, <2>1
    <3> QED
      BY <2>1, <3>1, PaddedIs, ChunkOfIs DEF Bytes
  <2>2. CASE ~(j <= Len(buf))
    <3>1. ~(Off(m) + j <= Len(data))
      BY <1>1, <2>2
    <3> QED
      BY <2>2, <3>1, PaddedIs, ChunkOfIs
  <2> QED
    BY <2>1, <2>2
<1> QED
  BY <1>2, PaddedIs, ChunkOfIs, ChunkEqual

\* Contents that agree on a chunk's bytes agree on the chunk.
LEMMA ChunkAgrees ==
  ASSUME NEW d \in Seq(Byte), NEW e \in Seq(Byte), NEW i \in Nat \ {0},
         Off(i) <= Len(d), Off(i) <= Len(e),
         \A x \in 1 .. Off(i) : d[x] = e[x]
  PROVE  ChunkOf(d, i) = ChunkOf(e, i)
<1>1. PICK m \in Nat : i = m + 1
  <2>1. i - 1 \in Nat /\ i = (i - 1) + 1
    OBVIOUS
  <2> QED
    BY <2>1
<1>2. /\ Len(d) \in Nat /\ Len(e) \in Nat /\ Off(m) \in Nat
      /\ ChunkSize \in Nat /\ Off(i) = Off(m) + ChunkSize
  BY <1>1, OffIs, LenProperties
<1>3. ASSUME NEW j \in 1 .. ChunkSize
      PROVE  ChunkOf(d, m + 1)[j] = ChunkOf(e, m + 1)[j]
  <2>1. /\ Off(m) + j <= Len(d) /\ Off(m) + j <= Len(e)
        /\ Off(m) + j \in 1 .. Off(i)
    BY <1>2
  <2> QED
    BY <2>1, ChunkOfIs
<1>4. ChunkOf(d, m + 1) \in Chunk /\ ChunkOf(e, m + 1) \in Chunk
  BY ChunkOfIs
<1>5. ChunkOf(d, m + 1) = ChunkOf(e, m + 1)
  BY <1>3, <1>4, ChunkEqual
<1> QED
  BY <1>1, <1>5

\* The reference: one MAC per chunk of the content.
LEMMA ChunksOfIs ==
  ASSUME NEW data \in Seq(Byte)
  PROVE  /\ ChunksOf(data) \in Seq(Chunk)
         /\ Len(ChunksOf(data)) = ChunkCount(Len(data))
         /\ ChunkCount(Len(data)) \in Nat
         /\ \A i \in 1 .. ChunkCount(Len(data)) :
                ChunksOf(data)[i] = ChunkOf(data, i)
<1>1. ChunkCount(Len(data)) \in Nat
  <2>1. PICK n \in Nat, r \in Nat : r < ChunkSize /\ Len(data) = Off(n) + r
    BY SizeSplit, LenProperties
  <2> QED
    BY <2>1, ChunkCountIs
<1>2. ASSUME NEW i \in 1 .. ChunkCount(Len(data))
      PROVE  ChunkOf(data, i) \in Chunk
  <2>1. i - 1 \in Nat /\ i = (i - 1) + 1
    BY <1>1
  <2> QED
    BY <2>1, ChunkOfIs
<1>3. ChunksOf(data) \in [1 .. ChunkCount(Len(data)) -> Chunk]
  BY <1>2 DEF ChunksOf
<1>4. ChunksOf(data) \in Seq(Chunk)
  BY <1>1, <1>3, SeqDef
<1>5. DOMAIN ChunksOf(data) = 1 .. ChunkCount(Len(data))
  BY DEF ChunksOf
<1>6. Len(ChunksOf(data)) = ChunkCount(Len(data))
  BY <1>1, <1>4, <1>5, LenProperties
<1> QED
  BY <1>1, <1>4, <1>6 DEF ChunksOf

\* A prefix, element by element.
LEMMA PrefixIs ==
  ASSUME NEW S, NEW s \in Seq(S), NEW t \in Seq(S)
  PROVE  IsPrefix(s, t) <=>
             Len(s) <= Len(t) /\ \A i \in 1 .. Len(s) : s[i] = t[i]
<1>1. Len(s) \in Nat /\ Len(t) \in Nat
  BY LenProperties
<1>2. SubSeq(s, 1, Len(s)) = s
  BY SubSeqFull
<1>3. CASE ~(Len(s) <= Len(t))
  BY <1>3 DEF IsPrefix
<1>4. CASE Len(s) <= Len(t)
  <2>1. \A i \in 1 .. Len(s) : t[i] \in S
    BY <1>1, <1>4, ElementOfSeq
  <2>2. /\ SubSeq(t, 1, Len(s)) \in Seq(S)
        /\ Len(SubSeq(t, 1, Len(s))) = IF 1 <= Len(s) THEN Len(s) - 1 + 1 ELSE 0
        /\ \A i \in 1 .. Len(s) - 1 + 1 :
               SubSeq(t, 1, Len(s))[i] = t[1 + i - 1]
    BY <1>1, <2>1, SubSeqProperties
  <2>3. /\ Len(SubSeq(t, 1, Len(s))) = Len(s)
        /\ \A i \in 1 .. Len(s) : SubSeq(t, 1, Len(s))[i] = t[i]
    BY <1>1, <2>2
  <2> QED
    BY <1>2, <1>4, <2>2, <2>3, SeqEqual DEF IsPrefix
<1> QED
  BY <1>3, <1>4

-----------------------------------------------------------------------------
(* The sender's loop *)

\* The sender after the first k bytes of data.
CutAt(s, data, k) ==
    /\ s \in SenderState /\ Len(s.buf) < ChunkSize
    /\ k = Off(Len(s.macs)) + Len(s.buf)
    /\ Bytes(s.buf, data, Off(Len(s.macs)))
    /\ \A i \in 1 .. Len(s.macs) : s.macs[i] = ChunkOf(data, i)

\* A record of the sender, with another buffer and flushed.
LEMMA SenderFields ==
  ASSUME NEW s \in SenderState, NEW x
  PROVE  /\ [s EXCEPT !.buf = x] =
                [buf |-> x, macs |-> s.macs, emitted |-> s.emitted]
         /\ FlushChunk([buf |-> x, macs |-> s.macs, emitted |-> s.emitted]) =
                [buf |-> <<>>, macs |-> Append(s.macs, Padded(x)),
                 emitted |-> s.emitted]
<1>1. [s EXCEPT !.buf = x] =
          [buf |-> x, macs |-> s.macs, emitted |-> s.emitted]
  BY DEF SenderState
<1> DEFINE t == [buf |-> x, macs |-> s.macs, emitted |-> s.emitted]
<1>2. t.buf = x /\ t.macs = s.macs
  OBVIOUS
<1>3. ASSUME NEW y, NEW z
      PROVE  [t EXCEPT !.macs = y, !.buf = z] =
                 [buf |-> z, macs |-> y, emitted |-> s.emitted]
  <2>1. [t EXCEPT !.macs = y, !.buf = z] = [[t EXCEPT !.macs = y] EXCEPT !.buf = z]
    OBVIOUS
  <2>2. [t EXCEPT !.macs = y] = [buf |-> x, macs |-> y, emitted |-> s.emitted]
    OBVIOUS
  <2>3. [[buf |-> x, macs |-> y, emitted |-> s.emitted] EXCEPT !.buf = z] =
            [buf |-> z, macs |-> y, emitted |-> s.emitted]
    OBVIOUS
  <2> QED
    BY <2>1, <2>2, <2>3
<1> HIDE DEF t
<1>4. FlushChunk(t) = [buf |-> <<>>, macs |-> Append(s.macs, Padded(x)),
                       emitted |-> s.emitted]
  BY <1>2, <1>3 DEF FlushChunk
<1> QED
  BY <1>1, <1>4 DEF t

\* What PutByte makes of a record.
LEMMA PutByteIs ==
  ASSUME NEW s \in SenderState, NEW b \in Byte
  PROVE  /\ Len(s.buf) + 1 = ChunkSize =>
               PutByte(s, b) = [buf |-> <<>>,
                                macs |-> Append(s.macs, Padded(Append(s.buf, b))),
                                emitted |-> s.emitted]
         /\ Len(s.buf) + 1 # ChunkSize =>
               PutByte(s, b) = [buf |-> Append(s.buf, b), macs |-> s.macs,
                                emitted |-> s.emitted]
         /\ PutByte(s, b) \in SenderState
<1>1. s.buf \in Seq(Byte) /\ s.macs \in Seq(Chunk) /\ s.emitted \in Nat
  BY DEF SenderState
<1> DEFINE buf == Append(s.buf, b)
<1>2. buf \in Seq(Byte) /\ Len(buf) = Len(s.buf) + 1
  BY <1>1, AppendProperties
<1>3. Padded(buf) \in Chunk /\ Append(s.macs, Padded(buf)) \in Seq(Chunk)
  BY <1>1, <1>2, PaddedIs, AppendProperties
<1> DEFINE put == [buf |-> buf, macs |-> s.macs, emitted |-> s.emitted]
<1>4. put.buf = buf /\ [s EXCEPT !.buf = buf] = put
  BY SenderFields
<1>5. PutByte(s, b) =
          IF Len(buf) = ChunkSize
          THEN [buf |-> <<>>, macs |-> Append(s.macs, Padded(buf)),
                emitted |-> s.emitted]
          ELSE [buf |-> buf, macs |-> s.macs, emitted |-> s.emitted]
  <2>1. FlushChunk(put) = [buf |-> <<>>, macs |-> Append(s.macs, Padded(buf)),
                           emitted |-> s.emitted]
    BY SenderFields
  <2> HIDE DEF put
  <2>2. PutByte(s, b) = IF Len(buf) = ChunkSize THEN FlushChunk(put) ELSE put
    BY <1>4 DEF PutByte
  <2> QED
    BY <2>1, <2>2 DEF put
<1>6. <<>> \in Seq(Byte)
  BY EmptySeq
<1> HIDE DEF buf
<1>7. PutByte(s, b) \in SenderState
  BY <1>1, <1>2, <1>3, <1>5, <1>6 DEF SenderState
<1> QED
  BY <1>2, <1>5, <1>7 DEF buf

\* A byte more is taken in.
LEMMA PutByteCut ==
  ASSUME NEW data \in Seq(Byte), NEW k \in Nat, k < Len(data),
         NEW s, CutAt(s, data, k)
  PROVE  /\ CutAt(PutByte(s, data[k + 1]), data, k + 1)
         /\ PutByte(s, data[k + 1]).emitted = s.emitted
         /\ Len(s.macs) <= Len(PutByte(s, data[k + 1]).macs)
<1> DEFINE b == data[k + 1]
           n == Len(s.macs)
           buf == Append(s.buf, b)
           t == PutByte(s, b)
<1>1. /\ s \in SenderState /\ s.buf \in Seq(Byte) /\ s.macs \in Seq(Chunk)
      /\ Len(s.buf) \in Nat /\ n \in Nat /\ Len(data) \in Nat
      /\ Off(n) \in Nat /\ ChunkSize \in Nat
      /\ Len(s.buf) < ChunkSize /\ k = Off(n) + Len(s.buf)
      /\ Bytes(s.buf, data, Off(n))
      /\ \A i \in 1 .. n : s.macs[i] = ChunkOf(data, i)
  BY OffIs, LenProperties DEF CutAt, SenderState
<1>2. b \in Byte
  BY <1>1, ElementOfSeq
<1>3. /\ buf \in Seq(Byte) /\ Len(buf) = Len(s.buf) + 1
      /\ \A j \in 1 .. Len(s.buf) : buf[j] = s.buf[j]
      /\ buf[Len(s.buf) + 1] = b
  BY <1>1, <1>2, AppendProperties
<1>4. k + 1 = Off(n) + Len(buf)
  BY <1>1, <1>3
<1>5. Bytes(buf, data, Off(n))
  <2> SUFFICES ASSUME NEW j \in 1 .. Len(buf) PROVE buf[j] = data[Off(n) + j]
    BY DEF Bytes
  <2>1. CASE j = Len(s.buf) + 1
    BY <1>1, <1>3, <2>1
  <2>2. CASE j # Len(s.buf) + 1
    <3>1. j \in 1 .. Len(s.buf)
      BY <1>1, <1>3, <2>2
    <3> QED
      BY <1>1, <1>3, <3>1 DEF Bytes
  <2> QED
    BY <2>1, <2>2
<1>6. CASE Len(s.buf) + 1 = ChunkSize
  <2> DEFINE macs == Append(s.macs, Padded(buf))
  <2>1. t = [buf |-> <<>>, macs |-> macs, emitted |-> s.emitted]
        /\ t \in SenderState
    BY <1>1, <1>2, <1>6, PutByteIs
  <2>2. Padded(buf) = ChunkOf(data, n + 1)
    <3>1. /\ Len(buf) = ChunkSize /\ Len(buf) <= ChunkSize
          /\ Off(n) + Len(buf) <= Len(data)
      BY <1>1, <1>3, <1>4, <1>6
    <3> HIDE DEF buf, n
    <3> QED
      BY <1>1, <1>3, <1>5, <3>1, BufferIsChunk
  <2>3. /\ Len(macs) = n + 1 /\ macs[n + 1] = ChunkOf(data, n + 1)
        /\ \A i \in 1 .. n : macs[i] = s.macs[i]
    BY <1>1, <1>3, <2>2, PaddedIs, AppendProperties
  <2> HIDE DEF macs, t, n, buf, b
  <2>4. /\ t.buf = <<>> /\ Len(t.buf) = 0 /\ t.macs = macs
        /\ t.emitted = s.emitted
    BY <2>1, EmptySeq
  <2>5. k + 1 = Off(Len(t.macs)) + Len(t.buf) /\ Len(t.buf) < ChunkSize
    <3>1. Off(n + 1) = Off(n) + ChunkSize
      BY <1>1, OffIs
    <3>2. Off(Len(t.macs)) = Off(n) + ChunkSize
      BY <2>3, <2>4, <3>1
    <3> QED
      BY <1>1, <1>3, <1>4, <1>6, <2>4, <3>2
  <2>6. Bytes(t.buf, data, Off(Len(t.macs)))
    BY <2>4 DEF Bytes
  <2>7. ASSUME NEW i \in 1 .. Len(t.macs) PROVE t.macs[i] = ChunkOf(data, i)
    <3>1. i = n + 1 \/ i \in 1 .. n
      BY <1>1, <2>3, <2>4
    <3> QED
      BY <1>1, <2>3, <2>4, <3>1
  <2>8. CutAt(t, data, k + 1)
    BY <2>1, <2>5, <2>6, <2>7 DEF CutAt
  <2>9. n <= Len(t.macs)
    BY <1>1, <2>3, <2>4
  <2> QED
    BY <2>4, <2>8, <2>9 DEF t, n, b
<1>7. CASE Len(s.buf) + 1 # ChunkSize
  <2>1. t = [buf |-> buf, macs |-> s.macs, emitted |-> s.emitted]
        /\ t \in SenderState
    BY <1>1, <1>2, <1>7, PutByteIs
  <2> HIDE DEF t, n, buf, b
  <2>2. t.buf = buf /\ t.macs = s.macs /\ t.emitted = s.emitted
    BY <2>1
  <2>3. Len(t.macs) = n /\ n <= n
    BY <1>1, <2>2 DEF n
  <2>4. Len(t.buf) < ChunkSize
    BY <1>1, <1>3, <1>7, <2>2
  <2>5. CutAt(t, data, k + 1)
    BY <1>1, <1>4, <1>5, <2>1, <2>2, <2>3, <2>4 DEF CutAt
  <2> QED
    BY <2>2, <2>3, <2>5 DEF t, n, b
<1> QED
  BY <1>6, <1>7

\* The bytes b[1], ..., b[L] can be put into the sender one after the other.
LEMMA PutBytes ==
  ASSUME NEW s \in SenderState, NEW L \in Nat, NEW b \in [1 .. L -> Byte]
  PROVE  \E f \in [0 .. L -> SenderState] :
             f[0] = s /\ \A n \in 1 .. L : f[n] = PutByte(f[n - 1], b[n])
<1>1. \A n \in 1 .. L : \A t \in SenderState : PutByte(t, b[n]) \in SenderState
  BY PutByteIs
<1>2. PICK g \in [1 .. L -> [SenderState -> SenderState]] :
          \A n \in 1 .. L : \A t \in SenderState : g[n][t] = PutByte(t, b[n])
  <2> DEFINE g == [n \in 1 .. L |-> [t \in SenderState |-> PutByte(t, b[n])]]
  <2>1. g \in [1 .. L -> [SenderState -> SenderState]]
    BY <1>1
  <2>2. \A n \in 1 .. L : \A t \in SenderState : g[n][t] = PutByte(t, b[n])
    OBVIOUS
  <2> HIDE DEF g
  <2> QED
    BY <2>1, <2>2
<1>3. PICK f \in [0 .. L -> SenderState] :
          f[0] = s /\ \A n \in 1 .. L : f[n] = g[n][f[n - 1]]
  BY LoopExists
<1>4. ASSUME NEW n \in 1 .. L PROVE f[n] = PutByte(f[n - 1], b[n])
  <2>1. f[n - 1] \in SenderState
    OBVIOUS
  <2> QED
    BY <1>2, <1>3, <2>1
<1> QED
  BY <1>3, <1>4

\* The states of the loop of update.
LEMMA FedLoop ==
  ASSUME NEW s \in SenderState, NEW slice \in Seq(Byte)
  PROVE  \E f : /\ f[0] = s /\ Fed(s, slice) = f[Len(slice)]
                /\ \A n \in 1 .. Len(slice) : f[n] = PutByte(f[n - 1], slice[n])
<1> DEFINE L == Len(slice)
           Loop(f) == f = [n \in 0 .. L |->
                              IF n = 0 THEN s ELSE PutByte(f[n - 1], slice[n])]
<1>1. L \in Nat /\ slice \in [1 .. L -> Byte]
  BY LenProperties
<1>2. PICK f \in [0 .. L -> SenderState] :
          f[0] = s /\ \A n \in 1 .. L : f[n] = PutByte(f[n - 1], slice[n])
  <2> HIDE DEF L
  <2> QED
    BY <1>1, PutBytes
<1>3. Loop(f)
  <2>1. f = [n \in 0 .. L |-> f[n]]
    OBVIOUS
  <2>2. \A n \in 0 .. L :
            f[n] = IF n = 0 THEN s ELSE PutByte(f[n - 1], slice[n])
    BY <1>1, <1>2
  <2> QED
    BY <2>1, <2>2
<1> DEFINE fed == CHOOSE h : Loop(h)
<1>4. Loop(fed)
  <2> HIDE DEF Loop
  <2> QED
    BY <1>3
<1>5. Fed(s, slice) = fed[L]
  BY DEF Fed
<1>6. /\ fed[0] = s
      /\ \A n \in 1 .. L : fed[n] = PutByte(fed[n - 1], slice[n])
  <2> HIDE DEF fed
  <2> QED
    BY <1>1, <1>4
<1> QED
  BY <1>5, <1>6

\* A call of update takes in its slice, whatever the buffer held.
LEMMA FedCut ==
  ASSUME NEW data \in Seq(Byte), NEW k \in Nat, NEW slice \in Seq(Byte),
         k + Len(slice) = Len(data),
         \A n \in 1 .. Len(slice) : data[k + n] = slice[n],
         NEW s, CutAt(s, data, k)
  PROVE  /\ CutAt(Fed(s, slice), data, Len(data))
         /\ Fed(s, slice).emitted = s.emitted
         /\ Len(s.macs) <= Len(Fed(s, slice).macs)
<1>1. s \in SenderState /\ Len(slice) \in Nat
  BY LenProperties DEF CutAt
<1>2. PICK f : /\ f[0] = s /\ Fed(s, slice) = f[Len(slice)]
               /\ \A n \in 1 .. Len(slice) : f[n] = PutByte(f[n - 1], slice[n])
  BY <1>1, FedLoop
<1> DEFINE L == Len(slice)
           T == {n \in Nat : n <= L => /\ CutAt(f[n], data, k + n)
                                       /\ f[n].emitted = s.emitted
                                       /\ Len(s.macs) <= Len(f[n].macs)}
<1>3. 0 \in T
  <2>1. k + 0 = k /\ Len(s.macs) \in Nat
    BY <1>1, LenProperties DEF SenderState
  <2> QED
    BY <1>2, <2>1
<1>4. ASSUME NEW n \in T PROVE n + 1 \in T
  <2> SUFFICES ASSUME n + 1 <= L
               PROVE  /\ CutAt(f[n + 1], data, k + (n + 1))
                      /\ f[n + 1].emitted = s.emitted
                      /\ Len(s.macs) <= Len(f[n + 1].macs)
    OBVIOUS
  <2>1. /\ n \in Nat /\ n <= L /\ n + 1 \in 1 .. L /\ k + n \in Nat
        /\ k + n < Len(data) /\ (k + n) + 1 = k + (n + 1) /\ (n + 1) - 1 = n
    BY <1>1
  <2>2. /\ CutAt(f[n], data, k + n) /\ f[n].emitted = s.emitted
        /\ Len(s.macs) <= Len(f[n].macs)
    BY <2>1
  <2> HIDE DEF T, L
  <2>3. f[n + 1] = PutByte(f[n], data[(k + n) + 1])
    BY <1>2, <2>1 DEF L
  <2>4. /\ CutAt(f[n + 1], data, (k + n) + 1)
        /\ f[n + 1].emitted = f[n].emitted
        /\ Len(f[n].macs) <= Len(f[n + 1].macs)
    <3>1. PICK j \in Nat : j = k + n
      BY <2>1
    <3>2. PICK g : g = f[n]
      OBVIOUS
    <3>3. /\ CutAt(g, data, j) /\ j < Len(data)
          /\ f[n + 1] = PutByte(g, data[j + 1])
      BY <2>1, <2>2, <2>3, <3>1, <3>2
    <3>4. /\ CutAt(PutByte(g, data[j + 1]), data, j + 1)
          /\ PutByte(g, data[j + 1]).emitted = g.emitted
          /\ Len(g.macs) <= Len(PutByte(g, data[j + 1]).macs)
      BY <3>3, PutByteCut
    <3>5. /\ CutAt(f[n + 1], data, j + 1)
          /\ f[n + 1].emitted = g.emitted
          /\ Len(g.macs) <= Len(f[n + 1].macs)
      BY <3>3, <3>4
    <3> QED
      BY <3>1, <3>2, <3>5
  <2>5. Len(s.macs) \in Nat /\ Len(f[n].macs) \in Nat /\ Len(f[n + 1].macs) \in Nat
    <3>1. s \in SenderState /\ f[n] \in SenderState /\ f[n + 1] \in SenderState
      BY <1>1, <2>2, <2>4 DEF CutAt
    <3>2. ASSUME NEW t \in SenderState PROVE Len(t.macs) \in Nat
      <4>1. t.macs \in Seq(Chunk)
        BY DEF SenderState
      <4> QED
        BY <4>1, LenProperties
    <3> QED
      BY <3>1, <3>2
  <2>6. CutAt(f[n + 1], data, k + (n + 1))
    BY <2>1, <2>4, Zenon
  <2>7. f[n + 1].emitted = s.emitted
    BY <2>2, <2>4, Zenon
  <2>8. Len(s.macs) <= Len(f[n + 1].macs)
    BY <2>2, <2>4, <2>5
  <2> QED
    BY <2>6, <2>7, <2>8
<1> HIDE DEF T
<1>5. T = Nat
  <2>1. T \in SUBSET Nat
    BY DEF T
  <2> QED
    BY <1>3, <1>4, <2>1, SetInduction
<1>6. L \in T /\ L <= L
  BY <1>1, <1>5
<1> QED
  BY <1>2, <1>6 DEF T

-----------------------------------------------------------------------------
(* The sender's calls *)

\* A cut stays one when more bytes follow.
LEMMA CutGrows ==
  ASSUME NEW d \in Seq(Byte), NEW e \in Seq(Byte), NEW s,
         CutAt(s, d, Len(d)), Len(d) <= Len(e),
         \A x \in 1 .. Len(d) : e[x] = d[x]
  PROVE  CutAt(s, e, Len(d))
<1> DEFINE n == Len(s.macs)
<1>1. /\ s \in SenderState /\ n \in Nat /\ Len(s.buf) \in Nat
      /\ Len(d) \in Nat /\ Len(e) \in Nat
      /\ Len(d) = Off(n) + Len(s.buf) /\ Len(s.buf) < ChunkSize
      /\ Bytes(s.buf, d, Off(n)) /\ Off(n) \in Nat
      /\ \A i \in 1 .. n : s.macs[i] = ChunkOf(d, i)
  BY OffIs, LenProperties DEF CutAt, SenderState
<1> HIDE DEF n
<1>2. Bytes(s.buf, e, Off(n))
  <2> SUFFICES ASSUME NEW j \in 1 .. Len(s.buf)
               PROVE  s.buf[j] = e[Off(n) + j]
    BY DEF Bytes
  <2>1. PICK x \in 1 .. Len(d) : x = Off(n) + j
    BY <1>1
  <2>2. s.buf[j] = d[Off(n) + j] /\ e[x] = d[x]
    BY <1>1 DEF Bytes
  <2> QED
    BY <2>1, <2>2, Zenon
<1>3. ASSUME NEW i \in 1 .. n PROVE s.macs[i] = ChunkOf(e, i)
  <2>1. i \in Nat \ {0} /\ Off(i) \in Nat /\ Off(i) <= Off(n)
    BY <1>1, OffWithin
  <2>2. Off(i) <= Len(d) /\ Off(i) <= Len(e)
    BY <1>1, <2>1
  <2>3. \A x \in 1 .. Off(i) : d[x] = e[x]
    BY <1>1, <2>1, <2>2
  <2>4. ChunkOf(d, i) = ChunkOf(e, i)
    BY <2>1, <2>2, <2>3, ChunkAgrees
  <2> QED
    BY <1>1, <2>4
<1> QED
  BY <1>1, <1>2, <1>3 DEF CutAt, n

\* r lists the first chunks of data.
FirstChunks(r, data) ==
    /\ r \in Seq(Chunk) /\ Len(r) <= ChunkCount(Len(data))
    /\ \A i \in 1 .. Len(r) : r[i] = ChunkOf(data, i)

\* This is to be a prefix of all the chunks.
LEMMA FirstChunksPrefix ==
  ASSUME NEW data \in Seq(Byte), NEW r \in Seq(Chunk)
  PROVE  FirstChunks(r, data) <=> IsPrefix(r, ChunksOf(data))
<1>1. /\ ChunksOf(data) \in Seq(Chunk)
      /\ Len(ChunksOf(data)) = ChunkCount(Len(data))
      /\ ChunkCount(Len(data)) \in Nat /\ Len(r) \in Nat
      /\ \A i \in 1 .. ChunkCount(Len(data)) :
             ChunksOf(data)[i] = ChunkOf(data, i)
  BY ChunksOfIs, LenProperties
<1>2. IsPrefix(r, ChunksOf(data)) <=>
          /\ Len(r) <= ChunkCount(Len(data))
          /\ \A i \in 1 .. Len(r) : r[i] = ChunksOf(data)[i]
  BY <1>1, PrefixIs
<1> QED
  BY <1>1, <1>2 DEF FirstChunks

\* The MACs of a cut are the first ones.
LEMMA CutFirst ==
  ASSUME NEW data \in Seq(Byte), NEW s, CutAt(s, data, Len(data))
  PROVE  FirstChunks(s.macs, data)
<1>1. /\ s.macs \in Seq(Chunk) /\ Len(s.macs) \in Nat /\ Len(s.buf) \in Nat
      /\ Len(data) = Off(Len(s.macs)) + Len(s.buf) /\ Len(s.buf) < ChunkSize
      /\ \A i \in 1 .. Len(s.macs) : s.macs[i] = ChunkOf(data, i)
  BY LenProperties DEF CutAt, SenderState
<1>2. Len(s.macs) <= ChunkCount(Len(data))
  <2>1. PICK n \in Nat, r \in Nat : n = Len(s.macs) /\ r = Len(s.buf)
    BY <1>1
  <2>2. ChunkCount(Off(n) + r) = IF r = 0 THEN n ELSE n + 1
    BY <1>1, <2>1, ChunkCountIs
  <2>3. n <= ChunkCount(Off(n) + r)
    BY <2>1, <2>2
  <2> QED
    BY <1>1, <2>1, <2>3
<1> QED
  BY <1>1, <1>2 DEF FirstChunks

\* finalize turns the bytes left over into the last MAC.
LEMMA FlushedIs ==
  ASSUME NEW data \in Seq(Byte), NEW s, CutAt(s, data, Len(data))
  PROVE  /\ Flushed(s) \in SenderState /\ Flushed(s).buf = <<>>
         /\ Flushed(s).emitted = s.emitted
         /\ Flushed(s).macs = ChunksOf(data)
         /\ Len(s.macs) <= Len(ChunksOf(data))
<1> DEFINE n == Len(s.macs)
           all == ChunksOf(data)
<1>1. /\ s \in SenderState /\ s.buf \in Seq(Byte) /\ s.macs \in Seq(Chunk)
      /\ s.emitted \in Nat
      /\ n \in Nat /\ Len(s.buf) \in Nat /\ Len(data) \in Nat
      /\ Len(data) = Off(n) + Len(s.buf) /\ Len(s.buf) < ChunkSize
      /\ Bytes(s.buf, data, Off(n)) /\ Off(n) \in Nat /\ ChunkSize \in Nat
      /\ \A i \in 1 .. n : s.macs[i] = ChunkOf(data, i)
  BY OffIs, LenProperties DEF CutAt, SenderState
<1>2. /\ all \in Seq(Chunk) /\ Len(all) = ChunkCount(Len(data))
      /\ \A i \in 1 .. Len(all) : all[i] = ChunkOf(data, i)
  BY ChunksOfIs
<1> HIDE DEF all
<1>3. CASE s.buf = <<>>
  <2>1. Len(all) = n
    <3>1. Len(s.buf) = 0
      BY <1>3, EmptySeq
    <3> QED
      BY <1>1, <1>2, <3>1, ChunkCountIs
  <2>2. s.macs = all
    BY <1>1, <1>2, <2>1, SeqEqual
  <2>3. Flushed(s) = s
    BY <1>3 DEF Flushed
  <2> QED
    BY <1>1, <1>3, <2>1, <2>2, <2>3 DEF all
<1>4. CASE s.buf # <<>>
  <2>1. Len(s.buf) # 0
    BY <1>1, <1>4, EmptySeq
  <2>2. Len(all) = n + 1
    BY <1>1, <1>2, <2>1, ChunkCountIs
  <2>3. Padded(s.buf) = ChunkOf(data, n + 1)
    <3>1. /\ Len(s.buf) <= ChunkSize /\ Off(n) + Len(s.buf) <= Len(data)
          /\ Off(n) + Len(s.buf) = Len(data)
      BY <1>1
    <3> HIDE DEF n
    <3> QED
      BY <1>1, <3>1, BufferIsChunk
  <2> DEFINE macs == Append(s.macs, Padded(s.buf))
  <2>4. /\ macs \in Seq(Chunk) /\ Len(macs) = n + 1
        /\ macs[n + 1] = Padded(s.buf)
        /\ \A i \in 1 .. n : macs[i] = s.macs[i]
    BY <1>1, PaddedIs, AppendProperties
  <2>5. FlushChunk(s) = [buf |-> <<>>, macs |-> macs, emitted |-> s.emitted]
    <3>1. s = [buf |-> s.buf, macs |-> s.macs, emitted |-> s.emitted]
      BY <1>1 DEF SenderState
    <3> QED
      BY <1>1, <3>1, SenderFields
  <2> HIDE DEF macs, n
  <2>6. ASSUME NEW i \in 1 .. n + 1 PROVE macs[i] = all[i]
    <3>1. i = n + 1 \/ i \in 1 .. n
      BY <1>1
    <3> QED
      BY <1>1, <1>2, <2>2, <2>3, <2>4, <3>1
  <2>7. macs = all
    BY <1>2, <2>2, <2>4, <2>6, SeqEqual
  <2>8. Flushed(s) = FlushChunk(s)
    BY <1>4 DEF Flushed
  <2>9. FlushChunk(s) \in SenderState
    BY <1>1, <2>4, <2>5, EmptySeq DEF SenderState
  <2> QED
    BY <1>1, <2>2, <2>5, <2>7, <2>8, <2>9 DEF all, n
<1> QED
  BY <1>3, <1>4

\* Lists of MACs in a row.
LEMMA MacsConcat ==
  ASSUME NEW r \in Seq(Chunk), NEW q \in Seq(Chunk)
  PROVE  /\ r \o q \in Seq(Chunk) /\ Len(r \o q) = Len(r) + Len(q)
         /\ \A i \in 1 .. Len(r) + Len(q) :
                (r \o q)[i] = IF i <= Len(r) THEN r[i] ELSE q[i - Len(r)]
  BY ConcatProperties

\* What the host has, followed by the new MACs, is the list of MACs.
LEMMA NewMacsFollow ==
  ASSUME NEW t, t.macs \in Seq(Chunk), NEW r \in Seq(Chunk),
         Len(r) = t.emitted, Len(r) <= Len(t.macs),
         \A i \in 1 .. Len(r) : r[i] = t.macs[i]
  PROVE  r \o NewMacs(t) = t.macs
<1> DEFINE e == Len(r)
           all == t.macs
           new == SubSeq(all, e + 1, Len(all))
<1>1. e \in Nat /\ Len(all) \in Nat /\ e <= Len(all)
      /\ \A i \in e + 1 .. Len(all) : all[i] \in Chunk
  BY LenProperties, ElementOfSeq
<1>2. /\ new \in Seq(Chunk)
      /\ Len(new) = IF e + 1 <= Len(all) THEN Len(all) - (e + 1) + 1 ELSE 0
      /\ \A i \in 1 .. Len(all) - (e + 1) + 1 : new[i] = all[e + 1 + i - 1]
  BY <1>1, SubSeqProperties
<1>3. NewMacs(t) = new
  BY DEF NewMacs
<1> HIDE DEF new, e
<1>4. Len(new) = Len(all) - e /\ \A i \in 1 .. Len(all) - e : new[i] = all[e + i]
  BY <1>1, <1>2
<1>5. /\ r \o new \in Seq(Chunk) /\ Len(r \o new) = Len(all)
      /\ \A i \in 1 .. Len(all) :
             (r \o new)[i] = IF i <= e THEN r[i] ELSE new[i - e]
  <2>1. /\ r \o new \in Seq(Chunk) /\ Len(r \o new) = e + Len(new)
        /\ \A i \in 1 .. e + Len(new) :
               (r \o new)[i] = IF i <= e THEN r[i] ELSE new[i - e]
    BY <1>2, MacsConcat DEF e
  <2>2. e + Len(new) = Len(all)
    BY <1>1, <1>4
  <2> QED
    BY <2>1, <2>2
<1>6. ASSUME NEW i \in 1 .. Len(all) PROVE (r \o new)[i] = all[i]
  <2>1. CASE i <= e
    <3>1. i \in 1 .. e
      BY <1>1, <2>1
    <3> QED
      BY <1>5, <2>1, <3>1 DEF e
  <2>2. CASE ~(i <= e)
    <3>1. i - e \in 1 .. Len(all) - e /\ e + (i - e) = i
      BY <1>1, <2>2
    <3> QED
      BY <1>4, <1>5, <2>2, <3>1
  <2> QED
    BY <2>1, <2>2
<1>7. r \o new = all
  BY <1>5, <1>6, SeqEqual
<1> QED
  BY <1>3, <1>7

\* The state of the sender and of its host.
SenderInv ==
    /\ sender \in SenderState /\ Len(sender.buf) < ChunkSize
    /\ input \in Seq(Byte) /\ Len(input) <= MaxInput
    /\ stage \in {"open", "final"} /\ lost \in BOOLEAN
    /\ FirstChunks(returned, input)
    /\ stage = "final" /\ ~lost => returned = ChunksOf(input)
    /\ stage = "open" /\ ~lost =>
           /\ CutAt(sender, input, Len(input))
           /\ Len(returned) = sender.emitted
           /\ sender.emitted <= Len(sender.macs)
    /\ lost => sender.buf = <<>> /\ sender.macs = <<>>

\* Nothing was fed or returned at first.
LEMMA InitSender == Init => SenderInv
<1> SUFFICES ASSUME Init PROVE SenderInv
  OBVIOUS
<1> DEFINE none == <<>>
<1>1. /\ none \in Seq(Byte) /\ none \in Seq(Chunk) /\ Len(none) = 0
  BY EmptySeq
<1>2. /\ sender = [buf |-> none, macs |-> none, emitted |-> 0]
      /\ input = none /\ returned = none /\ stage = "open" /\ lost = FALSE
  BY DEF Init
<1> HIDE DEF none
<1>3. /\ sender.buf = none /\ sender.macs = none /\ sender.emitted = 0
      /\ sender \in SenderState
  BY <1>1, <1>2 DEF SenderState
<1>4. Len(input) = Off(Len(sender.macs)) + Len(sender.buf)
  <2>1. Len(input) = 0 /\ Len(sender.macs) = 0 /\ Len(sender.buf) = 0
    BY <1>1, <1>2, <1>3
  <2>2. Off(0) + 0 = 0
    BY OffIs
  <2> QED
    BY <2>1, <2>2
<1>5. /\ Bytes(sender.buf, input, Off(Len(sender.macs)))
      /\ \A i \in 1 .. Len(sender.macs) : sender.macs[i] = ChunkOf(input, i)
  BY <1>1, <1>3 DEF Bytes
<1>6. Len(sender.buf) < ChunkSize
  BY <1>1, <1>3, OffIs
<1>7. CutAt(sender, input, Len(input))
  BY <1>3, <1>4, <1>5, <1>6 DEF CutAt
<1>8. FirstChunks(returned, input)
  <2>1. ChunkCount(Len(input)) \in Nat
    BY <1>1, <1>2, ChunksOfIs
  <2> QED
    BY <1>1, <1>2, <2>1 DEF FirstChunks
<1>9. Len(input) <= MaxInput
  BY <1>1, <1>2, SizeAssumption
<1>10. Len(returned) = sender.emitted /\ sender.emitted <= Len(sender.macs)
  BY <1>1, <1>2, <1>3
<1>11. input \in Seq(Byte) /\ stage \in {"open", "final"} /\ lost \in BOOLEAN
  BY <1>1, <1>2
<1>12. stage # "final" /\ ~lost
  BY <1>2
<1> QED
  BY <1>3, <1>6, <1>7, <1>8, <1>9, <1>10, <1>11, <1>12, Zenon DEF SenderInv

\* A slice is a sequence of bytes.
LEMMA SliceIs == ASSUME NEW slice \in Slice PROVE slice \in Seq(Byte)
<1>1. PICK m \in 0 .. MaxSlice : slice \in [1 .. m -> Byte]
  BY DEF Slice, BoundedSeq, SeqOf
<1>2. m \in Nat
  OBVIOUS
<1> QED
  BY <1>1, <1>2, SeqDef

\* A content with a slice behind it.
LEMMA BytesConcat ==
  ASSUME NEW d \in Seq(Byte), NEW e \in Seq(Byte)
  PROVE  /\ d \o e \in Seq(Byte) /\ Len(d \o e) = Len(d) + Len(e)
         /\ Len(d) \in Nat /\ Len(e) \in Nat /\ Len(d) <= Len(d \o e)
         /\ \A x \in 1 .. Len(d) : (d \o e)[x] = d[x]
         /\ \A n \in 1 .. Len(e) : (d \o e)[Len(d) + n] = e[n]
<1>1. PICK k \in Nat, l \in Nat : k = Len(d) /\ l = Len(e)
  BY LenProperties
<1>2. /\ d \o e \in Seq(Byte) /\ Len(d \o e) = k + l
      /\ \A x \in 1 .. k + l : (d \o e)[x] = IF x <= k THEN d[x] ELSE e[x - k]
  BY <1>1, ConcatProperties
<1>3. ASSUME NEW x \in 1 .. k PROVE (d \o e)[x] = d[x]
  <2>1. x \in 1 .. k + l /\ x <= k
    OBVIOUS
  <2> QED
    BY <1>2, <2>1
<1>4. ASSUME NEW n \in 1 .. l PROVE (d \o e)[k + n] = e[n]
  <2>1. k + n \in 1 .. k + l /\ ~(k + n <= k) /\ (k + n) - k = n
    OBVIOUS
  <2> QED
    BY <1>2, <2>1
<1>5. k <= k + l
  OBVIOUS
<1> QED
  BY <1>1, <1>2, <1>3, <1>4, <1>5

\* Chunks of a cut that were returned are those of the list.
LEMMA ReturnedOfCut ==
  ASSUME NEW data, NEW d, NEW r, FirstChunks(r, d), NEW k, NEW l, NEW m,
         NEW s, CutAt(s, d, k), CutAt(s, data, l), Len(r) <= Len(s.macs),
         NEW t, CutAt(t, data, m), Len(s.macs) <= Len(t.macs)
  PROVE  \A i \in 1 .. Len(r) : r[i] = t.macs[i]
<1>1. Len(s.macs) \in Nat /\ Len(t.macs) \in Nat /\ Len(r) \in Nat
  BY LenProperties DEF CutAt, SenderState, FirstChunks
<1>2. \A i \in 1 .. Len(r) : i \in 1 .. Len(s.macs) /\ i \in 1 .. Len(t.macs)
  BY <1>1
<1> QED
  BY <1>2, Zenon DEF CutAt, FirstChunks

\* A call of update, whether or not its MACs could be returned.
LEMMA UpdateSender ==
  ASSUME SenderInv, NEW slice \in Slice, Update(slice)
  PROVE  SenderInv'
<1> DEFINE data == input \o slice
           t == Fed(sender, slice)
<1>1. slice \in Seq(Byte)
  BY SliceIs
<1>2. /\ stage = "open" /\ ~lost /\ input \in Seq(Byte)
      /\ FirstChunks(returned, input)
      /\ CutAt(sender, input, Len(input)) /\ Len(returned) = sender.emitted
      /\ sender.emitted <= Len(sender.macs)
      /\ returned \in Seq(Chunk)
  BY DEF SenderInv, Update, FirstChunks
<1>3. /\ data \in Seq(Byte) /\ Len(data) = Len(input) + Len(slice)
      /\ Len(input) \in Nat /\ Len(slice) \in Nat /\ Len(input) <= Len(data)
      /\ \A x \in 1 .. Len(input) : data[x] = input[x]
      /\ \A n \in 1 .. Len(slice) : data[Len(input) + n] = slice[n]
  BY <1>1, <1>2, BytesConcat
<1>4. /\ input' = data /\ Len(input) + Len(slice) <= MaxInput
      /\ stage' = stage /\ lost' = lost
      /\ \/ /\ returned' = returned \o NewMacs(t)
            /\ sender' = [t EXCEPT !.emitted = Len(t.macs)]
         \/ sender' = t /\ returned' = returned
  BY DEF Update, UpdateUnreturned
<1> HIDE DEF data
<1>5. CutAt(sender, data, Len(input))
  BY <1>2, <1>3, CutGrows
<1>6. /\ CutAt(t, data, Len(data)) /\ t.emitted = sender.emitted
      /\ Len(sender.macs) <= Len(t.macs)
  BY <1>1, <1>3, <1>5, FedCut
<1> HIDE DEF t
<1>7. /\ t \in SenderState /\ t.macs \in Seq(Chunk) /\ Len(t.macs) \in Nat
      /\ Len(sender.macs) \in Nat /\ Len(returned) \in Nat
      /\ Len(t.buf) < ChunkSize /\ FirstChunks(t.macs, data)
  BY <1>2, <1>3, <1>6, CutFirst, LenProperties DEF CutAt, SenderState
<1>8. Len(returned) <= Len(sender.macs) /\ Len(returned) <= Len(t.macs)
  BY <1>2, <1>6, <1>7
<1>9. \A i \in 1 .. Len(returned) : returned[i] = t.macs[i]
  BY <1>2, <1>5, <1>6, <1>8, ReturnedOfCut
<1>10. /\ sender' \in SenderState /\ Len(sender'.buf) < ChunkSize
       /\ CutAt(sender', data, Len(data))
       /\ FirstChunks(returned', data)
       /\ Len(returned') = sender'.emitted
       /\ sender'.emitted <= Len(sender'.macs)
  <2>1. CASE /\ returned' = returned \o NewMacs(t)
             /\ sender' = [t EXCEPT !.emitted = Len(t.macs)]
    <3>1. returned' = t.macs
      BY <1>2, <1>6, <1>7, <1>8, <1>9, <2>1, NewMacsFollow
    <3>2. /\ sender'.buf = t.buf /\ sender'.macs = t.macs
          /\ sender'.emitted = Len(t.macs) /\ sender' \in SenderState
      BY <1>7, <2>1 DEF SenderState
    <3>3. CutAt(sender', data, Len(data))
      BY <1>6, <3>2 DEF CutAt
    <3> QED
      BY <1>7, <3>1, <3>2, <3>3
  <2>2. CASE sender' = t /\ returned' = returned
    <3>1. FirstChunks(returned, data)
      <4>1. Len(t.macs) <= ChunkCount(Len(data)) /\ ChunkCount(Len(data)) \in Nat
        BY <1>3, <1>7, ChunksOfIs DEF FirstChunks
      <4>2. Len(returned) <= ChunkCount(Len(data))
        BY <1>7, <1>8, <4>1
      <4>3. \A i \in 1 .. Len(t.macs) : t.macs[i] = ChunkOf(data, i)
        BY <1>7 DEF FirstChunks
      <4>4. \A i \in 1 .. Len(returned) : i \in 1 .. Len(t.macs)
        BY <1>7, <1>8
      <4> QED
        BY <1>2, <1>9, <4>2, <4>3, <4>4 DEF FirstChunks
    <3> QED
      BY <1>2, <1>6, <1>7, <1>8, <2>2, <3>1
  <2> QED
    BY <1>4, <2>1, <2>2
<1>11. Len(data) <= MaxInput
  BY <1>3, <1>4
<1>12. stage' # "final" /\ stage' \in {"open", "final"} /\ ~lost'
       /\ lost' \in BOOLEAN
  <2>1. lost \in BOOLEAN
    BY DEF SenderInv
  <2> QED
    BY <1>2, <1>4, <2>1
<1> QED
  BY <1>3, <1>4, <1>10, <1>11, <1>12, Zenon DEF SenderInv

\* A call of finalize; after one that failed there is nothing left.
LEMMA FinalizeSender ==
  ASSUME SenderInv, Finalize
  PROVE  SenderInv'
<1> DEFINE s == Flushed(sender)
<1>1. /\ stage = "open" /\ input \in Seq(Byte) /\ input' = input
      /\ sender \in SenderState /\ returned \in Seq(Chunk)
      /\ Len(input) <= MaxInput /\ FirstChunks(returned, input)
      /\ sender' = [s EXCEPT !.macs = <<>>]
      /\ \/ returned' = returned \o NewMacs(s) /\ stage' = "final" /\ lost' = lost
         \/ lost' = TRUE /\ returned' = returned /\ stage' = stage
  BY DEF SenderInv, Finalize, FirstChunks
<1>2. /\ s \in SenderState /\ s.buf = <<>> /\ returned \o NewMacs(s) \in Seq(Chunk)
      /\ ~lost => returned \o NewMacs(s) = ChunksOf(input)
      /\ FirstChunks(returned \o NewMacs(s), input)
  <2>1. CASE lost
    <3>1. /\ sender.buf = <<>> /\ sender.macs = <<>> /\ s = sender
      BY <2>1 DEF SenderInv, Flushed
    <3>2. NewMacs(s) = <<>>
      <4>1. Len(s.macs) = 0 /\ s.emitted \in Nat
        BY <1>1, <3>1, EmptySeq DEF SenderState
      <4>2. SubSeq(s.macs, s.emitted + 1, 0) = <<>>
        BY <4>1, SubSeqEmpty
      <4> QED
        BY <4>1, <4>2 DEF NewMacs
    <3>3. returned \o NewMacs(s) = returned
      BY <1>1, <3>2, ConcatEmptySeq
    <3> QED
      BY <1>1, <2>1, <3>1, <3>3
  <2>2. CASE ~lost
    <3>1. /\ CutAt(sender, input, Len(input)) /\ Len(returned) = sender.emitted
          /\ sender.emitted <= Len(sender.macs)
      BY <1>1, <2>2 DEF SenderInv
    <3>2. /\ s \in SenderState /\ s.buf = <<>> /\ s.emitted = sender.emitted
          /\ s.macs = ChunksOf(input) /\ Len(sender.macs) <= Len(s.macs)
      BY <1>1, <3>1, FlushedIs
    <3> HIDE DEF s
    <3>3. /\ ChunksOf(input) \in Seq(Chunk) /\ ChunkCount(Len(input)) \in Nat
          /\ Len(ChunksOf(input)) = ChunkCount(Len(input))
          /\ \A i \in 1 .. ChunkCount(Len(input)) :
                 ChunksOf(input)[i] = ChunkOf(input, i)
      BY <1>1, ChunksOfIs
    <3>4. /\ Len(returned) = s.emitted /\ Len(returned) <= Len(s.macs)
          /\ \A i \in 1 .. Len(returned) : returned[i] = s.macs[i]
      <4>1. Len(returned) <= ChunkCount(Len(input)) /\ Len(returned) \in Nat
            /\ \A i \in 1 .. Len(returned) : returned[i] = ChunkOf(input, i)
        BY <1>1, LenProperties DEF FirstChunks
      <4>2. \A i \in 1 .. Len(returned) : i \in 1 .. ChunkCount(Len(input))
        BY <3>3, <4>1
      <4> QED
        BY <3>1, <3>2, <3>3, <4>1, <4>2
    <3>5. returned \o NewMacs(s) = ChunksOf(input)
      BY <1>1, <3>2, <3>3, <3>4, NewMacsFollow
    <3>6. FirstChunks(ChunksOf(input), input)
      BY <3>3 DEF FirstChunks
    <3> QED
      BY <3>2, <3>3, <3>5, <3>6
  <2> QED
    BY <2>1, <2>2
<1> DEFINE none == <<>>
<1>3. none \in Seq(Chunk) /\ none \in Seq(Byte) /\ Len(none) = 0
  BY EmptySeq
<1>4. sender' = [s EXCEPT !.macs = none] /\ s.buf = none
  BY <1>1, <1>2
<1> HIDE DEF s, none
<1>5. /\ sender'.buf = none /\ sender'.macs = none
      /\ sender' \in SenderState /\ Len(sender'.buf) < ChunkSize
  <2>1. sender'.buf = none /\ sender'.macs = none /\ sender' \in SenderState
    BY <1>2, <1>3, <1>4 DEF SenderState
  <2> QED
    BY <1>3, <2>1, OffIs
<1>6. /\ stage' \in {"open", "final"} /\ lost' \in BOOLEAN
      /\ FirstChunks(returned', input)
      /\ stage' = "final" /\ ~lost' => returned' = ChunksOf(input)
      /\ ~(stage' = "open" /\ ~lost')
  <2>1. CASE returned' = returned \o NewMacs(s) /\ stage' = "final" /\ lost' = lost
    BY <1>2, <2>1 DEF SenderInv
  <2>2. CASE lost' = TRUE /\ returned' = returned /\ stage' = stage
    BY <1>1, <2>2
  <2> QED
    BY <1>1, <2>1, <2>2 DEF s
<1> QED
  BY <1>1, <1>5, <1>6, Zenon DEF SenderInv, none

-----------------------------------------------------------------------------
(* The receiver's loop, with the MACs it was given *)

\* The buffer, padded, is what the next MAC expects.
Matches(macs, r) == r.idx < Len(macs) /\ macs[r.idx + 1] = Padded(r.buf)

\* The chunks up to the index were verified, and the buffer holds what follows.
Verified(macs, r, data) ==
    /\ r \in ReceiverState /\ r.idx <= Len(macs)
    /\ \A i \in 1 .. r.idx : macs[i] = ChunkOf(data, i)
    /\ Bytes(r.buf, data, Off(r.idx))

\* The receiver after the first k bytes of data, none of them refused.
ReadTo(macs, r, data, k) ==
    /\ Verified(macs, r, data)
    /\ Len(r.buf) < ChunkSize /\ k = Off(r.idx) + Len(r.buf)

\* The receiver at a full chunk that it refused.
StuckIn(macs, r, data) ==
    /\ Verified(macs, r, data)
    /\ Len(r.buf) = ChunkSize /\ Off(r.idx) + ChunkSize <= Len(data)
    /\ ~Matches(macs, r)

\* None of this depends on the result of the last call.
LEMMA SameBuffer ==
  ASSUME NEW macs, NEW data, NEW k, NEW r, NEW q \in ReceiverState,
         q.buf = r.buf, q.idx = r.idx
  PROVE  /\ Matches(macs, q) <=> Matches(macs, r)
         /\ ReadTo(macs, r, data, k) => ReadTo(macs, q, data, k)
         /\ StuckIn(macs, r, data) => StuckIn(macs, q, data)
<1>1. Matches(macs, q) <=> Matches(macs, r)
  BY DEF Matches
<1>2. Verified(macs, r, data) => Verified(macs, q, data)
  BY DEF Verified
<1> QED
  BY <1>1, <1>2 DEF ReadTo, StuckIn

\* A record of the receiver with another result.
LEMMA ReceiverFields ==
  ASSUME NEW r \in ReceiverState, NEW x \in BOOLEAN
  PROVE  /\ [r EXCEPT !.failed = x] \in ReceiverState
         /\ [r EXCEPT !.failed = x].buf = r.buf
         /\ [r EXCEPT !.failed = x].idx = r.idx
         /\ [r EXCEPT !.failed = x].failed = x
  BY DEF ReceiverState

\* What verifyChunk does.
LEMMA VerifyChunkIs ==
  ASSUME NEW r \in ReceiverState
  PROVE  /\ VerifyChunk(r) \in ReceiverState
         /\ Matches(returned, r) =>
               VerifyChunk(r) = [buf |-> <<>>, idx |-> r.idx + 1, failed |-> FALSE]
         /\ ~Matches(returned, r) =>
               /\ VerifyChunk(r).buf = r.buf /\ VerifyChunk(r).idx = r.idx
               /\ VerifyChunk(r).failed
<1>1. CASE Matches(returned, r)
  <2>1. VerifyChunk(r) = [buf |-> <<>>, idx |-> r.idx + 1, failed |-> FALSE]
    BY <1>1 DEF Matches, VerifyChunk
  <2>2. r.idx + 1 \in Nat /\ <<>> \in Seq(Byte)
    BY EmptySeq DEF ReceiverState
  <2> QED
    BY <1>1, <2>1, <2>2 DEF ReceiverState
<1>2. CASE ~Matches(returned, r)
  <2>1. VerifyChunk(r) = [r EXCEPT !.failed = TRUE]
    BY <1>2 DEF Matches, VerifyChunk
  <2> QED
    BY <1>2, <2>1, ReceiverFields
<1> QED
  BY <1>1, <1>2

\* What a byte does, and that it leaves a record.
LEMMA CheckByteIs ==
  ASSUME NEW r \in ReceiverState, NEW b \in Byte
  PROVE  /\ CheckByte(r, b) \in ReceiverState
         /\ r.failed => CheckByte(r, b) = r
         /\ ~r.failed /\ Len(r.buf) = ChunkSize => CheckByte(r, b) = VerifyChunk(r)
         /\ ~r.failed /\ Len(r.buf) < ChunkSize =>
               \E put \in ReceiverState :
                   /\ put.buf = Append(r.buf, b) /\ put.idx = r.idx /\ ~put.failed
                   /\ CheckByte(r, b) = IF Len(put.buf) = ChunkSize
                                        THEN VerifyChunk(put) ELSE put
<1> DEFINE full == [r EXCEPT !.buf = Append(@, b)]
           put == IF Len(r.buf) < ChunkSize THEN full ELSE r
<1>1. r.buf \in Seq(Byte) /\ Len(r.buf) \in Nat /\ ChunkSize \in Nat
  BY OffIs, LenProperties DEF ReceiverState
<1>2. /\ full \in ReceiverState /\ full.buf = Append(r.buf, b)
      /\ full.idx = r.idx /\ full.failed = r.failed
  <2>1. Append(r.buf, b) \in Seq(Byte)
    BY <1>1, AppendProperties
  <2> QED
    BY <2>1 DEF ReceiverState
<1>3. CheckByte(r, b) = IF r.failed THEN r
                        ELSE IF Len(put.buf) = ChunkSize THEN VerifyChunk(put)
                        ELSE put
  BY DEF CheckByte
<1> HIDE DEF full
<1>4. put \in ReceiverState
  BY <1>2
<1>5. CheckByte(r, b) \in ReceiverState
  <2> HIDE DEF put
  <2> QED
    BY <1>3, <1>4, VerifyChunkIs
<1>6. ASSUME ~r.failed, Len(r.buf) = ChunkSize
      PROVE  CheckByte(r, b) = VerifyChunk(r)
  BY <1>1, <1>3, <1>6
<1>7. ASSUME ~r.failed, Len(r.buf) < ChunkSize
      PROVE  /\ put = full /\ ~full.failed
             /\ CheckByte(r, b) = IF Len(put.buf) = ChunkSize
                                  THEN VerifyChunk(put) ELSE put
  BY <1>2, <1>3, <1>7
<1> QED
  BY <1>2, <1>3, <1>5, <1>6, <1>7

\* A byte is taken in, and refused if it completes a chunk that is not the
\* expected one.
LEMMA CheckByteReads ==
  ASSUME returned \in Seq(Chunk), NEW data \in Seq(Byte), NEW k \in Nat,
         k < Len(data), NEW r, ReadTo(returned, r, data, k), ~r.failed,
         NEW q, q = CheckByte(r, data[k + 1])
  PROVE  \/ ReadTo(returned, q, data, k + 1) /\ ~q.failed
         \/ StuckIn(returned, q, data) /\ q.failed
<1> DEFINE b == data[k + 1]
<1>1. PICK n \in Nat, l \in Nat, buf \in Seq(Byte) :
          n = r.idx /\ l = Len(r.buf) /\ buf = r.buf
  BY LenProperties DEF ReadTo, Verified, ReceiverState
<1>2. /\ r \in ReceiverState /\ Len(data) \in Nat /\ Off(n) \in Nat
      /\ ChunkSize \in Nat /\ Len(returned) \in Nat /\ n <= Len(returned)
      /\ l < ChunkSize /\ k = Off(n) + l /\ Bytes(buf, data, Off(n))
      /\ Len(buf) = l
      /\ \A i \in 1 .. n : returned[i] = ChunkOf(data, i)
  BY <1>1, OffIs, LenProperties DEF ReadTo, Verified
<1>3. b \in Byte
  BY <1>2, ElementOfSeq
<1>4. PICK put \in ReceiverState :
          /\ put.buf = Append(r.buf, b) /\ put.idx = r.idx /\ ~put.failed
          /\ q = IF Len(put.buf) = ChunkSize THEN VerifyChunk(put) ELSE put
  BY <1>1, <1>2, <1>3, CheckByteIs
<1> DEFINE more == Append(buf, b)
<1>5. /\ more \in Seq(Byte) /\ Len(more) = l + 1 /\ more[l + 1] = b
      /\ \A j \in 1 .. l : more[j] = buf[j]
  BY <1>2, <1>3, AppendProperties
<1> HIDE DEF more
<1>6. put.buf = more
  BY <1>1, <1>4 DEF more
<1>7. Bytes(more, data, Off(n))
  <2> SUFFICES ASSUME NEW j \in 1 .. l + 1 PROVE more[j] = data[Off(n) + j]
    BY <1>5 DEF Bytes
  <2>1. CASE j = l + 1
    BY <1>2, <1>5, <2>1
  <2>2. CASE j # l + 1
    <3>1. j \in 1 .. l
      BY <2>2
    <3> QED
      BY <1>2, <1>5, <3>1 DEF Bytes
  <2> QED
    BY <2>1, <2>2
<1> HIDE DEF b
<1>8. Verified(returned, put, data)
  BY <1>1, <1>2, <1>4, <1>6, <1>7 DEF Verified
<1>9. CASE l + 1 # ChunkSize
  <2>1. q = put
    BY <1>4, <1>5, <1>6, <1>9
  <2>2. Len(put.buf) < ChunkSize /\ k + 1 = Off(put.idx) + Len(put.buf)
    <3>1. l + 1 < ChunkSize /\ k + 1 = Off(n) + (l + 1)
      BY <1>2, <1>9
    <3>2. Len(put.buf) = l + 1 /\ put.idx = n
      BY <1>1, <1>4, <1>5, <1>6
    <3> QED
      BY <3>1, <3>2, Zenon
  <2> QED
    BY <1>4, <1>8, <2>1, <2>2 DEF ReadTo
<1>10. CASE l + 1 = ChunkSize
  <2>1. q = VerifyChunk(put) /\ Len(put.buf) = ChunkSize
    BY <1>4, <1>5, <1>6, <1>10
  <2>2. CASE Matches(returned, put)
    <3> DEFINE none == <<>>
    <3>1. none \in Seq(Byte) /\ Len(none) = 0
      BY EmptySeq
    <3>2. q = [buf |-> none, idx |-> n + 1, failed |-> FALSE]
      BY <1>1, <1>4, <2>1, <2>2, VerifyChunkIs
    <3> HIDE DEF none
    <3>3. /\ q.buf = none /\ q.idx = n + 1 /\ ~q.failed /\ q \in ReceiverState
      BY <3>1, <3>2 DEF ReceiverState
    <3>4. n < Len(returned) /\ returned[n + 1] = Padded(more)
      BY <1>1, <1>4, <1>6, <2>2 DEF Matches
    <3>5. Padded(more) = ChunkOf(data, n + 1)
      <4>1. /\ Len(more) <= ChunkSize /\ Off(n) + Len(more) <= Len(data)
            /\ Len(more) = ChunkSize
        BY <1>2, <1>5, <1>10
      <4> QED
        BY <1>5, <1>7, <4>1, BufferIsChunk
    <3>6. ASSUME NEW i \in 1 .. n + 1 PROVE returned[i] = ChunkOf(data, i)
      <4>1. i = n + 1 \/ i \in 1 .. n
        OBVIOUS
      <4> QED
        BY <1>2, <3>4, <3>5, <4>1
    <3>7. Bytes(none, data, Off(n + 1))
      BY <3>1 DEF Bytes
    <3>8. n + 1 <= Len(returned)
      BY <1>2, <3>4
    <3>9. Verified(returned, q, data)
      BY <3>3, <3>6, <3>7, <3>8 DEF Verified
    <3>10. Len(none) < ChunkSize /\ k + 1 = Off(n + 1) + Len(none)
      <4>1. Off(n + 1) = Off(n) + ChunkSize
        BY OffIs
      <4> QED
        BY <1>2, <1>10, <3>1, <4>1
    <3> QED
      BY <3>3, <3>9, <3>10 DEF ReadTo
  <2>3. CASE ~Matches(returned, put)
    <3>1. q \in ReceiverState /\ q.buf = put.buf /\ q.idx = put.idx /\ q.failed
      BY <2>1, <2>3, VerifyChunkIs
    <3>2. Off(put.idx) + ChunkSize <= Len(data)
      BY <1>1, <1>2, <1>4, <1>10
    <3>3. StuckIn(returned, put, data)
      BY <1>8, <2>1, <2>3, <3>2 DEF StuckIn
    <3> QED
      BY <3>1, <3>3, SameBuffer
  <2> QED
    BY <2>2, <2>3
<1> QED
  BY <1>9, <1>10

\* At a refused chunk a byte is not taken in, and the call fails.
LEMMA CheckByteStuck ==
  ASSUME NEW data, NEW r, StuckIn(returned, r, data), NEW b \in Byte,
         NEW q, q = CheckByte(r, b)
  PROVE  StuckIn(returned, q, data) /\ q.failed /\ q.idx = r.idx
<1>1. r \in ReceiverState /\ Len(r.buf) = ChunkSize /\ ~Matches(returned, r)
  BY DEF StuckIn, Verified
<1>2. CASE r.failed
  BY <1>1, <1>2, CheckByteIs
<1>3. CASE ~r.failed
  <2>1. q = VerifyChunk(r)
    BY <1>1, <1>3, CheckByteIs
  <2>2. q \in ReceiverState /\ q.buf = r.buf /\ q.idx = r.idx /\ q.failed
    BY <1>1, <2>1, VerifyChunkIs
  <2> QED
    BY <2>2, SameBuffer
<1> QED
  BY <1>2, <1>3

\* A loop over bytes whose step keeps to the records of the receiver.
LEMMA CheckBytes ==
  ASSUME NEW r \in ReceiverState, NEW L \in Nat, NEW b \in [1 .. L -> Byte]
  PROVE  \E f \in [0 .. L -> ReceiverState] :
             f[0] = r /\ \A n \in 1 .. L : f[n] = CheckByte(f[n - 1], b[n])
<1>1. \A n \in 1 .. L : \A t \in ReceiverState :
          CheckByte(t, b[n]) \in ReceiverState
  BY CheckByteIs
<1>2. PICK g \in [1 .. L -> [ReceiverState -> ReceiverState]] :
          \A n \in 1 .. L : \A t \in ReceiverState : g[n][t] = CheckByte(t, b[n])
  <2> DEFINE g == [n \in 1 .. L |-> [t \in ReceiverState |-> CheckByte(t, b[n])]]
  <2>1. g \in [1 .. L -> [ReceiverState -> ReceiverState]]
    BY <1>1
  <2>2. \A n \in 1 .. L : \A t \in ReceiverState : g[n][t] = CheckByte(t, b[n])
    OBVIOUS
  <2> HIDE DEF g
  <2> QED
    BY <2>1, <2>2
<1>3. PICK f \in [0 .. L -> ReceiverState] :
          f[0] = r /\ \A n \in 1 .. L : f[n] = g[n][f[n - 1]]
  BY LoopExists
<1>4. ASSUME NEW n \in 1 .. L PROVE f[n] = CheckByte(f[n - 1], b[n])
  <2>1. f[n - 1] \in ReceiverState
    OBVIOUS
  <2> QED
    BY <1>2, <1>3, <2>1
<1> QED
  BY <1>3, <1>4

\* The states of the loop of update.
LEMMA CheckedLoop ==
  ASSUME NEW r \in ReceiverState, NEW slice \in Seq(Byte)
  PROVE  \E f : /\ f[0] = Calling(r) /\ Checked(r, slice) = f[Len(slice)]
                /\ \A n \in 1 .. Len(slice) : f[n] = CheckByte(f[n - 1], slice[n])
<1> DEFINE L == Len(slice)
           Loop(f) == f = [n \in 0 .. L |-> IF n = 0 THEN Calling(r)
                                            ELSE CheckByte(f[n - 1], slice[n])]
<1>1. L \in Nat /\ slice \in [1 .. L -> Byte]
  BY LenProperties
<1>2. Calling(r) \in ReceiverState
  BY ReceiverFields DEF Calling
<1>3. PICK f \in [0 .. L -> ReceiverState] :
          /\ f[0] = Calling(r)
          /\ \A n \in 1 .. L : f[n] = CheckByte(f[n - 1], slice[n])
  <2> HIDE DEF L
  <2> QED
    BY <1>1, <1>2, CheckBytes
<1>4. Loop(f)
  <2>1. f = [n \in 0 .. L |-> f[n]]
    OBVIOUS
  <2>2. \A n \in 0 .. L :
            f[n] = IF n = 0 THEN Calling(r) ELSE CheckByte(f[n - 1], slice[n])
    BY <1>1, <1>3
  <2> QED
    BY <2>1, <2>2
<1> DEFINE checked == CHOOSE h : Loop(h)
<1>5. Loop(checked)
  <2> HIDE DEF Loop
  <2> QED
    BY <1>4
<1>6. Checked(r, slice) = checked[L]
  BY DEF Checked
<1>7. /\ checked[0] = Calling(r)
      /\ \A n \in 1 .. L : checked[n] = CheckByte(checked[n - 1], slice[n])
  <2> HIDE DEF checked
  <2> QED
    BY <1>1, <1>5
<1> QED
  BY <1>6, <1>7

\* From a refused chunk no call gets further; one that is given bytes fails.
LEMMA CheckedStuck ==
  ASSUME NEW data, NEW r, StuckIn(returned, r, data), NEW slice \in Seq(Byte),
         NEW q, q = Checked(r, slice)
  PROVE  /\ StuckIn(returned, q, data) /\ q.idx = r.idx
         /\ slice # <<>> => q.failed
<1>1. /\ r \in ReceiverState /\ Len(slice) \in Nat
      /\ slice # <<>> => Len(slice) # 0
      /\ \A n \in 1 .. Len(slice) : slice[n] \in Byte
  BY LenProperties, EmptySeq, ElementOfSeq DEF StuckIn, Verified
<1>2. PICK f : /\ f[0] = Calling(r) /\ q = f[Len(slice)]
               /\ \A n \in 1 .. Len(slice) : f[n] = CheckByte(f[n - 1], slice[n])
  BY <1>1, CheckedLoop
<1> DEFINE L == Len(slice)
           T == {n \in Nat : n <= L => /\ StuckIn(returned, f[n], data)
                                       /\ f[n].idx = r.idx
                                       /\ n # 0 => f[n].failed}
<1>3. 0 \in T
  <2>1. /\ f[0] \in ReceiverState /\ f[0].buf = r.buf /\ f[0].idx = r.idx
    BY <1>1, <1>2, ReceiverFields DEF Calling
  <2>2. StuckIn(returned, f[0], data)
    BY <2>1, SameBuffer
  <2> QED
    BY <2>1, <2>2
<1>4. ASSUME NEW n \in T PROVE n + 1 \in T
  <2> SUFFICES ASSUME n + 1 <= L
               PROVE  /\ StuckIn(returned, f[n + 1], data)
                      /\ f[n + 1].idx = r.idx /\ f[n + 1].failed
    OBVIOUS
  <2>1. n \in Nat /\ n <= L /\ n + 1 \in 1 .. L /\ (n + 1) - 1 = n
    BY <1>1
  <2>2. StuckIn(returned, f[n], data) /\ f[n].idx = r.idx
    BY <2>1
  <2> HIDE DEF T, L
  <2>3. f[n + 1] = CheckByte(f[n], slice[n + 1]) /\ slice[n + 1] \in Byte
    BY <1>1, <1>2, <2>1 DEF L
  <2> QED
    BY <2>2, <2>3, CheckByteStuck
<1> HIDE DEF T
<1>5. T = Nat
  <2>1. T \in SUBSET Nat
    BY DEF T
  <2> QED
    BY <1>3, <1>4, <2>1, SetInduction
<1>6. L \in T /\ L <= L
  BY <1>1, <1>5
<1> QED
  BY <1>1, <1>2, <1>6 DEF T

\* A call of update by a receiver that refused nothing so far.
LEMMA CheckedReads ==
  ASSUME returned \in Seq(Chunk), NEW data \in Seq(Byte), NEW k \in Nat,
         NEW slice \in Seq(Byte), k + Len(slice) = Len(data),
         \A n \in 1 .. Len(slice) : data[k + n] = slice[n],
         NEW r, ReadTo(returned, r, data, k),
         NEW q, q = Checked(r, slice)
  PROVE  \/ ReadTo(returned, q, data, Len(data)) /\ ~q.failed
         \/ StuckIn(returned, q, data) /\ q.failed
<1>1. /\ r \in ReceiverState /\ Len(slice) \in Nat
      /\ \A n \in 1 .. Len(slice) : slice[n] \in Byte
  BY LenProperties, ElementOfSeq DEF ReadTo, Verified
<1>2. PICK f : /\ f[0] = Calling(r) /\ q = f[Len(slice)]
               /\ \A n \in 1 .. Len(slice) : f[n] = CheckByte(f[n - 1], slice[n])
  <2>1. \E f : /\ f[0] = Calling(r) /\ Checked(r, slice) = f[Len(slice)]
               /\ \A n \in 1 .. Len(slice) :
                      f[n] = CheckByte(f[n - 1], slice[n])
    BY <1>1, CheckedLoop
  <2> QED
    BY <2>1, Zenon
<1> DEFINE L == Len(slice)
           Reads(n) == ReadTo(returned, f[n], data, k + n) /\ ~f[n].failed
           Stuck(n) == StuckIn(returned, f[n], data) /\ f[n].failed
           T == {n \in Nat : n <= L => Reads(n) \/ Stuck(n)}
<1>3. 0 \in T
  <2>1. /\ f[0] \in ReceiverState /\ f[0].buf = r.buf /\ f[0].idx = r.idx
        /\ ~f[0].failed /\ k + 0 = k
    <3>1. /\ Calling(r) \in ReceiverState /\ Calling(r).buf = r.buf
          /\ Calling(r).idx = r.idx /\ ~Calling(r).failed
      BY <1>1, ReceiverFields DEF Calling
    <3>2. f[0] = Calling(r) /\ k + 0 = k
      BY <1>2
    <3> QED
      BY <3>1, <3>2, Zenon
  <2>2. ReadTo(returned, f[0], data, k)
    BY <2>1, SameBuffer
  <2>3. Reads(0)
    BY <2>1, <2>2
  <2> HIDE DEF Reads, Stuck
  <2> QED
    BY <2>3
<1>4. ASSUME NEW n \in T PROVE n + 1 \in T
  <2> SUFFICES ASSUME n + 1 <= L PROVE Reads(n + 1) \/ Stuck(n + 1)
    OBVIOUS
  <2>1. /\ n \in Nat /\ n <= L /\ n + 1 \in 1 .. L /\ (n + 1) - 1 = n
        /\ k + n \in Nat /\ k + n < Len(data) /\ (k + n) + 1 = k + (n + 1)
    BY <1>1
  <2>2. Reads(n) \/ Stuck(n)
    BY <2>1
  <2> HIDE DEF T, L
  <2>3. /\ f[n + 1] = CheckByte(f[n], slice[n + 1]) /\ slice[n + 1] \in Byte
        /\ slice[n + 1] = data[k + (n + 1)]
    BY <1>1, <1>2, <2>1 DEF L
  <2>4. CASE Reads(n)
    <3>1. f[n + 1] = CheckByte(f[n], data[(k + n) + 1])
      BY <2>1, <2>3
    <3>2. \/ ReadTo(returned, f[n + 1], data, (k + n) + 1) /\ ~f[n + 1].failed
          \/ StuckIn(returned, f[n + 1], data) /\ f[n + 1].failed
      BY <2>1, <2>4, <3>1, CheckByteReads
    <3> QED
      BY <2>1, <3>2, Zenon
  <2>5. CASE Stuck(n)
    BY <2>3, <2>5, CheckByteStuck
  <2> QED
    BY <2>2, <2>4, <2>5
<1> HIDE DEF T, Reads, Stuck
<1>5. T = Nat
  <2>1. T \in SUBSET Nat
    BY DEF T
  <2> QED
    BY <1>3, <1>4, <2>1, SetInduction
<1>6. L \in T /\ L <= L
  BY <1>1, <1>5
<1> QED
  BY <1>2, <1>6 DEF T, Reads, Stuck

-----------------------------------------------------------------------------
(* The receiver's calls *)

\* What was verified stays so when more bytes follow.
LEMMA VerifiedGrows ==
  ASSUME NEW macs, NEW d \in Seq(Byte), NEW e \in Seq(Byte), NEW r,
         Verified(macs, r, d), Off(r.idx) + Len(r.buf) <= Len(d),
         Len(d) <= Len(e), \A x \in 1 .. Len(d) : e[x] = d[x]
  PROVE  Verified(macs, r, e)
<1>1. PICK n \in Nat, l \in Nat, o \in Nat, dl \in Nat, el \in Nat :
          /\ n = r.idx /\ l = Len(r.buf) /\ o = Off(n)
          /\ dl = Len(d) /\ el = Len(e)
  BY OffIs, LenProperties DEF Verified, ReceiverState
<1>2. /\ r \in ReceiverState /\ n <= Len(macs) /\ o + l <= dl /\ dl <= el
      /\ \A j \in 1 .. l : r.buf[j] = d[o + j]
      /\ \A i \in 1 .. n : macs[i] = ChunkOf(d, i)
      /\ \A x \in 1 .. dl : e[x] = d[x]
  BY <1>1 DEF Verified, Bytes
<1>3. ASSUME NEW j \in 1 .. l PROVE r.buf[j] = e[o + j]
  <2>1. o + j \in 1 .. dl
    BY <1>2
  <2>2. e[o + j] = d[o + j]
    BY <1>2, <2>1, Zenon
  <2> QED
    BY <1>2, <2>2
<1>4. ASSUME NEW i \in 1 .. n PROVE macs[i] = ChunkOf(e, i)
  <2>1. i \in Nat \ {0} /\ Off(i) \in Nat /\ Off(i) <= o
    BY <1>1, OffWithin
  <2>2. Off(i) <= dl /\ Off(i) <= el /\ \A x \in 1 .. Off(i) : x \in 1 .. dl
    BY <1>2, <2>1
  <2>3. \A x \in 1 .. Off(i) : d[x] = e[x]
    BY <1>2, <2>2
  <2>4. ChunkOf(d, i) = ChunkOf(e, i)
    BY <1>1, <2>1, <2>2, <2>3, ChunkAgrees
  <2> QED
    BY <1>2, <2>4
<1> QED
  BY <1>1, <1>2, <1>3, <1>4 DEF Verified, Bytes

\* finalize verified the last chunk: all that was fed is verified.
DoneWith(macs, r, data) ==
    /\ Verified(macs, r, data)
    /\ r.buf = <<>> /\ r.idx = ChunkCount(Len(data))

\* Where a receiver is that was fed data: it reads, after finalize perhaps with
\* a rest that was refused; or it is stuck; or finalize verified everything.
Position(macs, r, data, isRefused, isClosed) ==
    \/ /\ ReadTo(macs, r, data, Len(data)) /\ ~isRefused
       /\ r.failed => isClosed /\ r.buf # <<>> /\ ~Matches(macs, r)
       /\ isClosed /\ r.buf # <<>> => r.failed
    \/ /\ StuckIn(macs, r, data) /\ isRefused
       /\ isClosed => r.failed
    \/ DoneWith(macs, r, data) /\ ~r.failed /\ ~isRefused /\ isClosed

\* The state of the receiver.
ReceiverInv ==
    /\ receiver \in ReceiverState
    /\ received \in Seq(Byte) /\ Len(received) <= MaxInput
    /\ refused \in BOOLEAN /\ closed \in BOOLEAN
    /\ stage = "open" =>
           /\ receiver = [buf |-> <<>>, idx |-> 0, failed |-> FALSE]
           /\ received = <<>> /\ ~refused /\ ~closed
    /\ Position(returned, receiver, received, refused, closed)

\* A receiver that was fed nothing, whatever MACs it has.
LEMMA Started ==
  ASSUME NEW macs \in Seq(Chunk), NEW r, NEW data,
         r = [buf |-> <<>>, idx |-> 0, failed |-> FALSE], data = <<>>
  PROVE  /\ r \in ReceiverState
         /\ data \in Seq(Byte) /\ Len(data) <= MaxInput
         /\ Position(macs, r, data, FALSE, FALSE)
<1> DEFINE none == <<>>
<1>1. none \in Seq(Byte) /\ Len(none) = 0 /\ Len(macs) \in Nat
  BY EmptySeq, LenProperties
<1>2. r = [buf |-> none, idx |-> 0, failed |-> FALSE] /\ data = none
  OBVIOUS
<1> HIDE DEF none
<1>3. /\ r \in ReceiverState /\ r.buf = none /\ r.idx = 0 /\ ~r.failed
      /\ Len(data) = 0
  BY <1>1, <1>2 DEF ReceiverState
<1>4. Verified(macs, r, data)
  <2>1. Bytes(none, data, Off(0))
    BY <1>1 DEF Bytes
  <2>2. 0 <= Len(macs) /\ \A i \in 1 .. 0 : macs[i] = ChunkOf(data, i)
    BY <1>1
  <2> QED
    BY <1>3, <2>1, <2>2 DEF Verified
<1>5. Len(none) < ChunkSize /\ 0 = Off(0) + Len(none)
  BY <1>1, OffIs
<1>6. ReadTo(macs, r, data, Len(data))
  BY <1>3, <1>4, <1>5 DEF ReadTo
<1>7. Len(data) <= MaxInput
  BY <1>3, SizeAssumption
<1> QED
  BY <1>1, <1>2, <1>3, <1>6, <1>7 DEF Position

\* While the sender is fed the receiver has not started.
LEMMA SenderSteps ==
  ASSUME ReceiverInv, stage = "open", returned' \in Seq(Chunk),
         UNCHANGED <<receiver, received, refused, closed>>
  PROVE  ReceiverInv'
<1>1. /\ receiver' = [buf |-> <<>>, idx |-> 0, failed |-> FALSE]
      /\ received' = <<>> /\ refused' = FALSE /\ closed' = FALSE
  BY Zenon DEF ReceiverInv
<1>2. /\ receiver' \in ReceiverState
      /\ received' \in Seq(Byte) /\ Len(received') <= MaxInput
      /\ Position(returned', receiver', received', FALSE, FALSE)
  BY <1>1, Started
<1> QED
  BY <1>1, <1>2, Zenon DEF ReceiverInv

\* A call of update by the receiver.
LEMMA ValidatingUpdateReceiver ==
  ASSUME SenderInv, ReceiverInv, NEW slice \in Slice, ValidatingUpdate(slice)
  PROVE  ReceiverInv'
<1> DEFINE data == received \o slice
           q == Checked(receiver, slice)
<1>1. slice \in Seq(Byte) /\ returned \in Seq(Chunk)
  BY SliceIs DEF SenderInv, FirstChunks
<1>2. /\ stage = "final" /\ stage' = stage /\ closed = FALSE /\ closed' = closed
      /\ Len(received) + Len(slice) <= MaxInput
      /\ receiver' = q /\ received' = data /\ refused' = (refused \/ q.failed)
      /\ returned' = returned
  BY DEF ValidatingUpdate, ReceiverInv
<1>3. /\ receiver \in ReceiverState /\ received \in Seq(Byte)
      /\ refused \in BOOLEAN
      /\ \/ ReadTo(returned, receiver, received, Len(received)) /\ ~refused
         \/ StuckIn(returned, receiver, received) /\ refused
  BY <1>2, Zenon DEF ReceiverInv, Position
<1>4. /\ data \in Seq(Byte) /\ Len(data) = Len(received) + Len(slice)
      /\ Len(received) \in Nat /\ Len(slice) \in Nat
      /\ Len(received) <= Len(data)
      /\ \A x \in 1 .. Len(received) : data[x] = received[x]
      /\ \A n \in 1 .. Len(slice) : data[Len(received) + n] = slice[n]
  BY <1>1, <1>3, BytesConcat
<1> HIDE DEF data, q
<1>5. q = Checked(receiver, slice)
  BY DEF q
<1>6. Len(data) <= MaxInput
  BY <1>2, <1>4
<1>7. \/ ReadTo(returned, q, data, Len(data)) /\ ~q.failed /\ ~refused
      \/ StuckIn(returned, q, data) /\ q.failed
      \/ StuckIn(returned, q, data) /\ refused
  <2>1. CASE ReadTo(returned, receiver, received, Len(received)) /\ ~refused
    <3>1. /\ Verified(returned, receiver, received)
          /\ Off(receiver.idx) + Len(receiver.buf) <= Len(received)
      BY <1>4, <2>1 DEF ReadTo
    <3>2. Verified(returned, receiver, data)
      BY <1>3, <1>4, <3>1, VerifiedGrows
    <3>3. ReadTo(returned, receiver, data, Len(received))
      BY <2>1, <3>2 DEF ReadTo
    <3>4. \/ ReadTo(returned, q, data, Len(data)) /\ ~q.failed
          \/ StuckIn(returned, q, data) /\ q.failed
      BY <1>1, <1>4, <1>5, <3>3, CheckedReads
    <3> QED
      BY <2>1, <3>4
  <2>2. CASE StuckIn(returned, receiver, received) /\ refused
    <3>1. /\ Verified(returned, receiver, received)
          /\ Off(receiver.idx) + Len(receiver.buf) <= Len(received)
          /\ Off(receiver.idx) + ChunkSize <= Len(received)
      BY <2>2 DEF StuckIn
    <3>2. Verified(returned, receiver, data)
      BY <1>3, <1>4, <3>1, VerifiedGrows
    <3>3. Off(receiver.idx) + ChunkSize <= Len(data)
      <4>1. Off(receiver.idx) \in Nat /\ ChunkSize \in Nat
        BY <1>3, OffIs DEF ReceiverState
      <4> QED
        BY <1>4, <3>1, <4>1
    <3>4. StuckIn(returned, receiver, data)
      BY <2>2, <3>2, <3>3 DEF StuckIn
    <3>5. StuckIn(returned, q, data)
      BY <1>1, <1>5, <3>4, CheckedStuck
    <3> QED
      BY <2>2, <3>5
  <2> QED
    BY <1>3, <2>1, <2>2
<1>8. q \in ReceiverState
  BY <1>7 DEF ReadTo, StuckIn, Verified
<1>9. q.failed \in BOOLEAN /\ refused' \in BOOLEAN
  BY <1>2, <1>3, <1>8 DEF ReceiverState
<1>10. Position(returned', receiver', received', refused', closed')
  <2>1. CASE ReadTo(returned, q, data, Len(data)) /\ ~q.failed /\ ~refused
    <3>1. ~refused' /\ ~closed'
      BY <1>2, <2>1
    <3> QED
      BY <1>2, <2>1, <3>1, Zenon DEF Position
  <2>2. CASE StuckIn(returned, q, data) /\ (q.failed \/ refused)
    <3>1. refused' /\ ~closed'
      BY <1>2, <2>2
    <3> QED
      BY <1>2, <2>2, <3>1, Zenon DEF Position
  <2> QED
    BY <1>7, <2>1, <2>2
<1> QED
  <2>1. stage' # "open" /\ closed' \in BOOLEAN
    BY <1>2
  <2> QED
    BY <1>2, <1>4, <1>6, <1>8, <1>9, <1>10, <2>1, Zenon DEF ReceiverInv

\* The rest that finalize finds in the buffer is the last chunk.
LEMMA RestIsChunk ==
  ASSUME NEW macs \in Seq(Chunk), NEW r, NEW data \in Seq(Byte),
         ReadTo(macs, r, data, Len(data)), r.buf # <<>>, Matches(macs, r),
         NEW q, q = [buf |-> <<>>, idx |-> r.idx + 1, failed |-> FALSE]
  PROVE  DoneWith(macs, q, data)
<1>1. PICK n \in Nat, l \in Nat, buf \in Seq(Byte) :
          n = r.idx /\ l = Len(r.buf) /\ buf = r.buf
  BY LenProperties DEF ReadTo, Verified, ReceiverState
<1>2. /\ Len(data) \in Nat /\ Off(n) \in Nat /\ ChunkSize \in Nat
      /\ l < ChunkSize /\ Len(data) = Off(n) + l /\ Bytes(buf, data, Off(n))
      /\ Len(buf) = l /\ Len(macs) \in Nat
      /\ \A i \in 1 .. n : macs[i] = ChunkOf(data, i)
  BY <1>1, OffIs, LenProperties DEF ReadTo, Verified
<1>3. l # 0
  BY <1>1, EmptySeq
<1>4. n < Len(macs) /\ macs[n + 1] = Padded(buf)
  BY <1>1 DEF Matches
<1>5. Padded(buf) = ChunkOf(data, n + 1)
  <2>1. /\ Len(buf) <= ChunkSize /\ Off(n) + Len(buf) <= Len(data)
        /\ Off(n) + Len(buf) = Len(data)
    BY <1>2
  <2> QED
    BY <1>2, <2>1, BufferIsChunk
<1>6. ASSUME NEW i \in 1 .. n + 1 PROVE macs[i] = ChunkOf(data, i)
  <2>1. i = n + 1 \/ i \in 1 .. n
    OBVIOUS
  <2> QED
    BY <1>2, <1>4, <1>5, <2>1
<1>7. n + 1 = ChunkCount(Len(data))
  BY <1>2, <1>3, ChunkCountIs
<1> DEFINE none == <<>>
<1>8. none \in Seq(Byte) /\ Len(none) = 0
  BY EmptySeq
<1>9. q = [buf |-> none, idx |-> n + 1, failed |-> FALSE]
  BY <1>1
<1> HIDE DEF none
<1>10. q \in ReceiverState /\ q.buf = none /\ q.idx = n + 1
  BY <1>8, <1>9 DEF ReceiverState
<1>11. n + 1 <= Len(macs)
  BY <1>2, <1>4
<1>12. Bytes(none, data, Off(n + 1))
  BY <1>8 DEF Bytes
<1>13. Verified(macs, q, data)
  BY <1>6, <1>10, <1>11, <1>12 DEF Verified
<1> QED
  BY <1>7, <1>10, <1>13 DEF DoneWith, none

\* A call of finalize by the receiver, the first or a later one.
LEMMA ValidatingFinalizeReceiver ==
  ASSUME SenderInv, ReceiverInv, ValidatingFinalize
  PROVE  ReceiverInv'
<1> DEFINE r == Calling(receiver)
<1>1. /\ returned \in Seq(Chunk) /\ received \in Seq(Byte)
      /\ receiver \in ReceiverState /\ Len(received) <= MaxInput
      /\ refused \in BOOLEAN /\ closed \in BOOLEAN
      /\ Position(returned, receiver, received, refused, closed)
  BY DEF SenderInv, FirstChunks, ReceiverInv
<1>2. /\ stage = "final" /\ stage' = stage /\ closed' = TRUE
      /\ received' = received /\ returned' = returned /\ refused' = refused
      /\ receiver.buf = <<>> => receiver' = r
      /\ receiver.buf # <<>> => receiver' = VerifyChunk(r)
  BY DEF ValidatingFinalize
<1>3. /\ r \in ReceiverState /\ r.buf = receiver.buf /\ r.idx = receiver.idx
      /\ ~r.failed
  BY <1>1, ReceiverFields DEF Calling
<1> HIDE DEF r
<1>4. receiver' \in ReceiverState
  BY <1>2, <1>3, VerifyChunkIs
<1>5. Position(returned, receiver', received, refused, TRUE)
  <2>1. CASE receiver.buf = <<>>
    <3>1. receiver' = r /\ r.buf = <<>>
      BY <1>2, <1>3, <2>1
    <3>2. CASE ReadTo(returned, receiver, received, Len(received)) /\ ~refused
      <4>1. ReadTo(returned, r, received, Len(received))
        BY <1>3, <3>2, SameBuffer
      <4> QED
        BY <1>3, <3>1, <3>2, <4>1, Zenon DEF Position
    <3>3. CASE StuckIn(returned, receiver, received) /\ refused
      <4>1. Len(receiver.buf) = ChunkSize
        BY <3>3 DEF StuckIn
      <4> QED
        BY <2>1, <4>1, EmptySeq, OffIs
    <3>4. CASE DoneWith(returned, receiver, received) /\ ~refused
      <4>1. DoneWith(returned, r, received)
        BY <1>3, <3>4 DEF DoneWith, Verified
      <4> QED
        BY <1>3, <3>1, <3>4, <4>1, Zenon DEF Position
    <3> QED
      BY <1>1, <3>2, <3>3, <3>4, Zenon DEF Position
  <2>2. CASE receiver.buf # <<>>
    <3>1. receiver' = VerifyChunk(r) /\ r.buf # <<>>
      BY <1>2, <1>3, <2>2
    <3>2. CASE ReadTo(returned, receiver, received, Len(received)) /\ ~refused
      <4>1. ReadTo(returned, r, received, Len(received))
        BY <1>3, <3>2, SameBuffer
      <4>2. CASE Matches(returned, r)
        <5>1. receiver' = [buf |-> <<>>, idx |-> r.idx + 1, failed |-> FALSE]
          BY <1>3, <3>1, <4>2, VerifyChunkIs
        <5>2. DoneWith(returned, receiver', received)
          BY <1>1, <3>1, <4>1, <4>2, <5>1, RestIsChunk
        <5>3. ~receiver'.failed
          BY <5>1
        <5> QED
          BY <3>2, <5>2, <5>3, Zenon DEF Position
      <4>3. CASE ~Matches(returned, r)
        <5>1. /\ receiver'.buf = r.buf /\ receiver'.idx = r.idx
              /\ receiver'.failed
          BY <1>3, <3>1, <4>3, VerifyChunkIs
        <5>2. /\ ReadTo(returned, receiver', received, Len(received))
              /\ ~Matches(returned, receiver')
          BY <1>4, <4>1, <4>3, <5>1, SameBuffer
        <5> QED
          BY <3>1, <3>2, <5>1, <5>2, Zenon DEF Position
      <4> QED
        BY <4>2, <4>3
    <3>3. CASE StuckIn(returned, receiver, received) /\ refused
      <4>1. ~Matches(returned, r)
        BY <1>3, <3>3, SameBuffer DEF StuckIn
      <4>2. /\ receiver'.buf = r.buf /\ receiver'.idx = r.idx
            /\ receiver'.failed
        BY <1>3, <3>1, <4>1, VerifyChunkIs
      <4>3. StuckIn(returned, receiver', received)
        BY <1>3, <1>4, <3>3, <4>2, SameBuffer
      <4> QED
        BY <3>3, <4>2, <4>3, Zenon DEF Position
    <3>4. CASE DoneWith(returned, receiver, received)
      BY <2>2, <3>4 DEF DoneWith
    <3> QED
      BY <1>1, <3>2, <3>3, <3>4, Zenon DEF Position
  <2> QED
    BY <2>1, <2>2
<1> QED
  <2>1. stage' # "open" /\ closed' \in BOOLEAN
    BY <1>2
  <2> QED
    BY <1>1, <1>2, <1>4, <1>5, <2>1, Zenon DEF ReceiverInv

-----------------------------------------------------------------------------
(* The theorems *)

\* The inductive invariant.
Inv == SenderInv /\ ReceiverInv

\* It holds at first.
LEMMA InitInv == Init => Inv
<1> SUFFICES ASSUME Init PROVE Inv
  OBVIOUS
<1>1. SenderInv
  BY InitSender
<1>2. /\ receiver = [buf |-> <<>>, idx |-> 0, failed |-> FALSE]
      /\ received = <<>> /\ refused = FALSE /\ closed = FALSE
      /\ returned \in Seq(Chunk)
  BY <1>1 DEF Init, SenderInv, FirstChunks
<1>3. /\ receiver \in ReceiverState
      /\ received \in Seq(Byte) /\ Len(received) <= MaxInput
      /\ Position(returned, receiver, received, FALSE, FALSE)
  BY <1>2, Started
<1>4. ReceiverInv
  BY <1>2, <1>3, Zenon DEF ReceiverInv
<1> QED
  BY <1>1, <1>4 DEF Inv

\* Every step keeps it.
LEMMA NextInv == Inv /\ [Next]_vars => Inv'
<1> SUFFICES ASSUME Inv, [Next]_vars PROVE Inv'
  OBVIOUS
<1>1. SenderInv /\ ReceiverInv
  BY DEF Inv
<1>2. ASSUME NEW slice \in Slice, Update(slice) PROVE Inv'
  <2>1. SenderInv'
    BY <1>1, <1>2, UpdateSender
  <2>2. returned' \in Seq(Chunk)
    BY <2>1 DEF SenderInv, FirstChunks
  <2>3. stage = "open" /\ UNCHANGED <<receiver, received, refused, closed>>
    BY <1>2 DEF Update
  <2> QED
    BY <1>1, <2>1, <2>2, <2>3, SenderSteps DEF Inv
<1>3. ASSUME Finalize PROVE Inv'
  <2>1. SenderInv'
    BY <1>1, <1>3, FinalizeSender
  <2>2. returned' \in Seq(Chunk)
    BY <2>1 DEF SenderInv, FirstChunks
  <2>3. stage = "open" /\ UNCHANGED <<receiver, received, refused, closed>>
    BY <1>3 DEF Finalize
  <2> QED
    BY <1>1, <2>1, <2>2, <2>3, SenderSteps DEF Inv
<1>4. ASSUME UNCHANGED <<sender, input, returned, stage, lost>> PROVE SenderInv'
  <2>1. /\ sender' = sender /\ input' = input /\ returned' = returned
        /\ stage' = stage /\ lost' = lost
    BY <1>4
  <2> QED
    BY <1>1, <2>1 DEF SenderInv
<1>5. ASSUME NEW slice \in Slice, ValidatingUpdate(slice) PROVE Inv'
  <2>1. UNCHANGED <<sender, input, returned, stage, lost>>
    BY <1>5 DEF ValidatingUpdate
  <2> QED
    BY <1>1, <1>4, <1>5, <2>1, ValidatingUpdateReceiver DEF Inv
<1>6. ASSUME ValidatingFinalize PROVE Inv'
  <2>1. UNCHANGED <<sender, input, returned, stage, lost>>
    BY <1>6 DEF ValidatingFinalize
  <2> QED
    BY <1>1, <1>4, <1>6, <2>1, ValidatingFinalizeReceiver DEF Inv
<1>7. ASSUME UNCHANGED vars PROVE Inv'
  <2>1. SenderInv'
    BY <1>4, <1>7 DEF vars
  <2>2. /\ receiver' = receiver /\ received' = received /\ refused' = refused
        /\ closed' = closed /\ stage' = stage /\ returned' = returned
    BY <1>7 DEF vars
  <2>3. ReceiverInv'
    BY <1>1, <2>2 DEF ReceiverInv
  <2> QED
    BY <2>1, <2>3 DEF Inv
<1> QED
  BY <1>2, <1>3, <1>5, <1>6, <1>7 DEF Next

\* In every state of every behaviour the sender's MACs are those of a cut of
\* its content, and the receiver reads, is stuck or has verified everything.
THEOREM InvCorrect == Spec => []Inv
  BY InitInv, NextInv, PTL DEF Spec

\* A short sequence.
LEMMA ShortIs ==
  ASSUME NEW S, NEW s \in Seq(S), NEW n \in Nat, Len(s) <= n
  PROVE  s \in BoundedSeq(S, n)
<1>1. Len(s) \in 0 .. n /\ s \in [1 .. Len(s) -> S]
  BY LenProperties
<1> QED
  BY <1>1 DEF BoundedSeq, SeqOf

\* Objects, histories and results keep their types and bounds, for any bytes,
\* chunk size and slices.
THEOREM TypeCorrect == Spec => []TypeOK
<1>1. Inv => TypeOK
  <2> SUFFICES ASSUME Inv PROVE TypeOK
    OBVIOUS
  <2>1. SenderInv /\ ReceiverInv
    BY DEF Inv
  <2>2. /\ sender.buf \in Seq(Byte) /\ sender.macs \in Seq(Chunk)
        /\ sender.emitted \in Nat /\ Len(sender.buf) < ChunkSize
        /\ input \in Seq(Byte) /\ Len(input) <= MaxInput
        /\ returned \in Seq(Chunk)
    BY <2>1 DEF SenderInv, SenderState, FirstChunks
  <2>3. /\ receiver.buf \in Seq(Byte) /\ receiver.idx \in Nat
        /\ receiver.failed \in BOOLEAN
        /\ received \in Seq(Byte) /\ Len(received) <= MaxInput
    BY <2>1 DEF ReceiverInv, ReceiverState
  <2>4. receiver.idx <= Len(returned) /\ Len(receiver.buf) <= ChunkSize
    <3>1. Len(<<>>) = 0 /\ ChunkSize \in Nat \ {0} /\ Len(receiver.buf) \in Nat
      BY <2>3, EmptySeq, LenProperties, OffIs
    <3> QED
      <4>1. \/ ReadTo(returned, receiver, received, Len(received))
            \/ StuckIn(returned, receiver, received)
            \/ DoneWith(returned, receiver, received)
        BY <2>1, Zenon DEF ReceiverInv, Position
      <4>2. receiver.idx <= Len(returned)
        BY <4>1, Zenon DEF ReadTo, StuckIn, DoneWith, Verified
      <4>3. \/ Len(receiver.buf) < ChunkSize
            \/ Len(receiver.buf) = ChunkSize
            \/ Len(receiver.buf) = 0
        BY <3>1, <4>1 DEF ReadTo, StuckIn, DoneWith
      <4> QED
        BY <3>1, <4>2, <4>3
  <2>5. /\ sender.buf \in BoundedSeq(Byte, ChunkSize - 1)
        /\ receiver.buf \in BoundedSeq(Byte, ChunkSize)
    <3>1. /\ Len(sender.buf) \in Nat /\ ChunkSize \in Nat /\ ChunkSize - 1 \in Nat
          /\ Len(sender.buf) <= ChunkSize - 1
      <4>1. PICK l \in Nat : l = Len(sender.buf)
        BY <2>2, LenProperties
      <4>2. ChunkSize \in Nat \ {0} /\ l < ChunkSize
        BY <2>2, <4>1, SizeAssumption
      <4> QED
        BY <4>1, <4>2
    <3> QED
      BY <2>2, <2>3, <2>4, <3>1, ShortIs
  <2>6. /\ input \in BoundedSeq(Byte, MaxInput)
        /\ received \in BoundedSeq(Byte, MaxInput)
    BY <2>2, <2>3, SizeAssumption, ShortIs
  <2>7. receiver.idx \in 0 .. Len(returned)
    BY <2>2, <2>3, <2>4, LenProperties
  <2>8. /\ stage = "open" /\ ~lost => sender.emitted <= Len(sender.macs)
        /\ stage \in {"open", "final"} /\ lost \in BOOLEAN
        /\ refused \in BOOLEAN /\ closed \in BOOLEAN
    BY <2>1, Zenon DEF SenderInv, ReceiverInv
  <2> QED
    BY <2>2, <2>3, <2>5, <2>6, <2>7, <2>8, Zenon DEF TypeOK
<1> QED
  BY <1>1, InvCorrect, PTL

\* However the content is cut into slices, and whichever results could not be
\* copied, the host gets the MACs of the content's chunks in order and each
\* once, and all of them by the time finalize succeeds without an earlier one
\* having failed.
THEOREM MacsOfContentCorrect == Spec => []MacsOfContent
<1>1. Inv => MacsOfContent
  <2> SUFFICES ASSUME Inv PROVE MacsOfContent
    OBVIOUS
  <2>1. /\ FirstChunks(returned, input) /\ input \in Seq(Byte)
        /\ stage = "final" /\ ~lost => returned = ChunksOf(input)
    BY DEF Inv, SenderInv
  <2>2. IsPrefix(returned, ChunksOf(input))
    BY <2>1, FirstChunksPrefix DEF FirstChunks
  <2> QED
    BY <2>1, <2>2 DEF MacsOfContent
<1> QED
  BY <1>1, InvCorrect, PTL

\* A receiver that has verified all it was fed has verified the sender's chunks.
LEMMA VerifiedAgrees ==
  ASSUME Inv
  PROVE  /\ receiver.idx \in Nat /\ receiver.idx <= ChunkCount(Len(input))
         /\ \A i \in 1 .. receiver.idx :
                /\ returned[i] = ChunkOf(input, i)
                /\ ChunkOf(received, i) = ChunkOf(input, i)
<1>1. Verified(returned, receiver, received)
  BY Zenon DEF Inv, ReceiverInv, Position, ReadTo, StuckIn, DoneWith
<1>2. FirstChunks(returned, input) /\ input \in Seq(Byte)
  BY DEF Inv, SenderInv
<1>3. PICK n \in Nat, l \in Nat, c \in Nat :
          n = receiver.idx /\ l = Len(returned) /\ c = ChunkCount(Len(input))
  BY <1>1, <1>2, LenProperties, ChunksOfIs
     DEF Verified, ReceiverState, FirstChunks
<1>4. n <= l /\ l <= c
  BY <1>1, <1>2, <1>3 DEF Verified, FirstChunks
<1>5. \A i \in 1 .. n : returned[i] = ChunkOf(received, i)
  BY <1>1, <1>3 DEF Verified
<1>6. \A i \in 1 .. l : returned[i] = ChunkOf(input, i)
  BY <1>2, <1>3 DEF FirstChunks
<1>7. n <= c /\ \A i \in 1 .. n : i \in 1 .. l
  BY <1>4
<1> QED
  BY <1>3, <1>5, <1>6, <1>7

\* What the receiver's calls verified is the sender's content, chunk by chunk;
\* when finalize succeeds it is everything the receiver was fed.
THEOREM AcceptedAgreesCorrect == Spec => []AcceptedAgrees
<1>1. Inv => AcceptedAgrees
  <2> SUFFICES ASSUME Inv PROVE AcceptedAgrees
    OBVIOUS
  <2>1. /\ receiver.idx \in Nat /\ receiver.idx <= ChunkCount(Len(input))
        /\ \A i \in 1 .. receiver.idx : ChunkOf(received, i) = ChunkOf(input, i)
    BY VerifiedAgrees
  <2>2. /\ received \in Seq(Byte) /\ input \in Seq(Byte)
        /\ receiver \in ReceiverState
        /\ Position(returned, receiver, received, refused, closed)
    BY DEF Inv, SenderInv, ReceiverInv
  <2>3. ASSUME closed, ~receiver.failed
        PROVE  IsPrefix(ChunksOf(received), ChunksOf(input))
    <3>1. ChunkCount(Len(received)) = receiver.idx
      <4>1. CASE ReadTo(returned, receiver, received, Len(received))
                 /\ receiver.buf = <<>>
        <5>1. PICK n \in Nat : n = receiver.idx
          BY <2>1
        <5>2. Len(received) = Off(n) + 0
          BY <4>1, <5>1, EmptySeq DEF ReadTo
        <5>3. 0 < ChunkSize
          BY OffIs
        <5> QED
          BY <5>1, <5>2, <5>3, ChunkCountIs
      <4>2. CASE DoneWith(returned, receiver, received)
        BY <4>2 DEF DoneWith
      <4> QED
        BY <2>2, <2>3, <4>1, <4>2, Zenon DEF Position
    <3>2. FirstChunks(ChunksOf(received), input)
      <4>1. /\ ChunksOf(received) \in Seq(Chunk)
            /\ Len(ChunksOf(received)) = receiver.idx
            /\ \A i \in 1 .. receiver.idx :
                   ChunksOf(received)[i] = ChunkOf(received, i)
        BY <2>2, <3>1, ChunksOfIs
      <4> QED
        BY <2>1, <4>1 DEF FirstChunks
    <3> QED
      BY <2>2, <3>2, FirstChunksPrefix DEF FirstChunks
  <2> QED
    BY <2>1, <2>3 DEF AcceptedAgrees
<1> QED
  BY <1>1, InvCorrect, PTL

\* Once an update was refused no later call gets past the chunk, whatever it is
\* given: the receiver is stuck at it.
THEOREM RefusedForGoodCorrect == Spec => RefusedForGood
<1>1. Inv /\ [Next]_vars =>
          [refused => /\ receiver'.idx = receiver.idx
                      /\ received' # received \/ closed' => receiver'.failed]_vars
  <2> SUFFICES ASSUME Inv, Next, refused
               PROVE  /\ receiver'.idx = receiver.idx
                      /\ received' # received \/ closed' => receiver'.failed
    OBVIOUS
  <2>1. /\ StuckIn(returned, receiver, received) /\ stage # "open"
        /\ received \in Seq(Byte)
    BY Zenon DEF Inv, ReceiverInv, Position
  <2>2. ASSUME NEW slice \in Slice, ValidatingUpdate(slice)
        PROVE  /\ receiver'.idx = receiver.idx
               /\ received' # received \/ closed' => receiver'.failed
    <3>1. /\ receiver' = Checked(receiver, slice) /\ ~closed'
          /\ received' = received \o slice /\ slice \in Seq(Byte)
      BY <2>2, SliceIs DEF ValidatingUpdate
    <3>2. /\ receiver'.idx = receiver.idx
          /\ slice # <<>> => receiver'.failed
      BY <2>1, <3>1, CheckedStuck
    <3>3. slice = <<>> => received' = received
      BY <2>1, <3>1, ConcatEmptySeq
    <3> QED
      BY <3>1, <3>2, <3>3
  <2>3. ASSUME ValidatingFinalize
        PROVE  receiver'.idx = receiver.idx /\ receiver'.failed
    <3> DEFINE r == Calling(receiver)
    <3>1. /\ r \in ReceiverState /\ r.buf = receiver.buf /\ r.idx = receiver.idx
      BY <2>1, ReceiverFields DEF Calling, StuckIn, Verified
    <3>2. Len(receiver.buf) = ChunkSize /\ receiver.buf # <<>>
      BY <2>1, EmptySeq, OffIs DEF StuckIn
    <3>3. receiver' = VerifyChunk(r)
      BY <2>3, <3>2 DEF ValidatingFinalize
    <3>4. ~Matches(returned, r)
      BY <2>1, <3>1, SameBuffer DEF StuckIn
    <3> HIDE DEF r
    <3> QED
      BY <3>1, <3>3, <3>4, VerifyChunkIs
  <2> QED
    BY <2>1, <2>2, <2>3 DEF Next, Update, Finalize
<1> QED
  BY <1>1, InvCorrect, PTL DEF Spec, RefusedForGood

\* A content has at least the chunks that are full.
LEMMA FullCounted ==
  ASSUME NEW n \in Nat, NEW size \in Nat, Off(n) <= size
  PROVE  n <= ChunkCount(size)
<1>1. PICK m \in Nat, r \in Nat : r < ChunkSize /\ size = Off(m) + r
  BY SizeSplit
<1>2. n <= m
  <2> SUFFICES ASSUME m + 1 <= n PROVE FALSE
    OBVIOUS
  <2>1. m + 1 \in Nat /\ Off(m + 1) = Off(m) + ChunkSize /\ Off(m) \in Nat
    BY OffIs
  <2>2. Off(m + 1) <= Off(n) /\ Off(n) \in Nat
    BY <2>1, OffGrows, OffIs
  <2> QED
    BY <1>1, <2>1, <2>2, OffIs
<1>3. m <= ChunkCount(size) /\ ChunkCount(size) \in Nat
  BY <1>1, ChunkCountIs
<1> QED
  BY <1>2, <1>3

\* A receiver that is fed the content is not stuck in it, and finds at its end
\* what it expects.
LEMMA GenuineMatches ==
  ASSUME NEW data \in Seq(Byte), NEW d \in Seq(Byte), Len(d) <= Len(data),
         \A x \in 1 .. Len(d) : d[x] = data[x], NEW r,
         \/ StuckIn(ChunksOf(data), r, d)
         \/ ReadTo(ChunksOf(data), r, d, Len(d)) /\ r.buf # <<>> /\ d = data
  PROVE  Matches(ChunksOf(data), r)
<1>1. Verified(ChunksOf(data), r, d) /\ r \in ReceiverState
  BY DEF StuckIn, ReadTo, Verified
<1>2. PICK n \in Nat, l \in Nat, buf \in Seq(Byte), k \in Nat, m \in Nat :
          /\ n = r.idx /\ buf = r.buf /\ l = Len(buf) /\ k = Len(d)
          /\ m = Len(data)
  BY <1>1, LenProperties DEF ReceiverState
<1>3. /\ Off(n) \in Nat /\ ChunkSize \in Nat /\ k <= m /\ Bytes(buf, d, Off(n))
      /\ n + 1 \in Nat \ {0} /\ Off(n + 1) = Off(n) + ChunkSize
  <2>1. Off(n) \in Nat /\ ChunkSize \in Nat /\ Off(n + 1) = Off(n) + ChunkSize
    BY OffIs
  <2>2. k <= m /\ Bytes(buf, d, Off(n))
    BY <1>1, <1>2, Zenon DEF Verified
  <2>3. n + 1 \in Nat \ {0}
    OBVIOUS
  <2> QED
    BY <2>1, <2>2, <2>3
<1>4. n + 1 <= ChunkCount(m) /\ Padded(buf) = ChunkOf(data, n + 1)
  <2>1. CASE StuckIn(ChunksOf(data), r, d)
    <3>1. l = ChunkSize /\ Off(n) + l <= k /\ Off(n + 1) <= k /\ Off(n + 1) <= m
      BY <1>2, <1>3, <2>1 DEF StuckIn
    <3>2. Padded(buf) = ChunkOf(d, n + 1)
      <4>1. Len(buf) <= ChunkSize /\ Off(n) + Len(buf) <= Len(d)
            /\ Len(buf) = ChunkSize
        BY <1>2, <1>3, <3>1
      <4> QED
        BY <1>3, <4>1, BufferIsChunk
    <3>3. \A x \in 1 .. Off(n + 1) : d[x] = data[x]
      <4>1. \A x \in 1 .. Off(n + 1) : x \in 1 .. k
        BY <1>3, <3>1
      <4> QED
        BY <1>2, <4>1
    <3>4. ChunkOf(d, n + 1) = ChunkOf(data, n + 1)
      BY <1>2, <1>3, <3>1, <3>3, ChunkAgrees
    <3>5. n + 1 <= ChunkCount(m)
      BY <1>3, <3>1, FullCounted
    <3> QED
      BY <3>2, <3>4, <3>5
  <2>2. CASE ReadTo(ChunksOf(data), r, d, Len(d)) /\ r.buf # <<>> /\ d = data
    <3>1. k = Off(n) + l /\ l < ChunkSize /\ l # 0 /\ k = m
      BY <1>2, <2>2, EmptySeq DEF ReadTo
    <3>2. Padded(buf) = ChunkOf(d, n + 1)
      <4>1. Len(buf) <= ChunkSize /\ Off(n) + Len(buf) <= Len(d)
            /\ Off(n) + Len(buf) = Len(d)
        BY <1>2, <1>3, <3>1
      <4> QED
        BY <1>3, <4>1, BufferIsChunk
    <3>3. ChunkCount(m) = n + 1
      BY <3>1, ChunkCountIs
    <3> QED
      BY <2>2, <3>2, <3>3
  <2> QED
    BY <2>1, <2>2
<1>5. ChunkCount(m) \in Nat /\ Len(ChunksOf(data)) = ChunkCount(m)
  BY <1>2, ChunksOfIs
<1>6. n < Len(ChunksOf(data)) /\ n + 1 \in 1 .. ChunkCount(m)
  BY <1>4, <1>5
<1>7. ChunksOf(data)[n + 1] = ChunkOf(data, n + 1)
  BY <1>2, <1>6, ChunksOfIs
<1> QED
  BY <1>2, <1>4, <1>6, <1>7 DEF Matches

\* The receiver's calls accept what the sender was fed: nothing fails as long as
\* the data is a prefix of the content, and finalize accepts the whole.
THEOREM GenuineAcceptedCorrect == Spec => []GenuineAccepted
<1>1. Inv => GenuineAccepted
  <2> SUFFICES ASSUME Inv, stage = "final", ~lost, IsPrefix(received, input),
                      closed => received = input, receiver.failed
               PROVE  FALSE
    BY DEF GenuineAccepted
  <2>1. /\ returned = ChunksOf(input)
        /\ received \in Seq(Byte) /\ input \in Seq(Byte)
    BY DEF Inv, SenderInv, ReceiverInv
  <2>2. /\ ~Matches(returned, receiver)
        /\ \/ StuckIn(returned, receiver, received)
           \/ /\ ReadTo(returned, receiver, received, Len(received))
              /\ receiver.buf # <<>> /\ closed
    <3>1. StuckIn(returned, receiver, received) => ~Matches(returned, receiver)
      BY DEF StuckIn
    <3> QED
      BY <3>1, Zenon DEF Inv, ReceiverInv, Position
  <2>3. /\ Len(received) <= Len(input)
        /\ \A x \in 1 .. Len(received) : received[x] = input[x]
    BY <2>1, PrefixIs
  <2>4. \/ StuckIn(ChunksOf(input), receiver, received)
        \/ /\ ReadTo(ChunksOf(input), receiver, received, Len(received))
           /\ receiver.buf # <<>> /\ received = input
    BY <2>1, <2>2
  <2>5. Matches(ChunksOf(input), receiver)
    BY ONLY <2>1, <2>3, <2>4, GenuineMatches
  <2> QED
    BY <2>1, <2>2, <2>5
<1> QED
  BY <1>1, InvCorrect, PTL
=============================================================================
