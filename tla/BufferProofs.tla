----------------------------- MODULE BufferProofs -----------------------------
(***************************************************************************)
(* Proofs about Buffer for every size of the vector, of the prepended part *)
(* and of readFd()'s extra buffer.                                         *)
(***************************************************************************)
EXTENDS Buffer, TLAPS

\* append() keeps the indices in order, in each of its three ways.
LEMMA AppendTyped ==
  ASSUME TypeOK, NEW n \in Nat, NEW data \in [0..(size - 1) -> Nat],
         NEW src \in [1..n -> Nat], AppendTo(data, n, src)
  PROVE  /\ size' \in Nat
         /\ buffer_' \in [0..(size' - 1) -> Nat]
         /\ readerIndex_' \in CheapPrepend..writerIndex_'
         /\ writerIndex_' \in CheapPrepend..size'
<1> USE BufferAssumption DEF TypeOK, readableBytes, writableBytes, prependableBytes
<1>1. CASE AppendAtEnd(data, n, src)
  BY <1>1 DEF AppendAtEnd
<1>2. CASE AppendSliding(data, n, src)
  <2> DEFINE end == CheapPrepend + readableBytes
  <2>1. end \in Nat /\ end + n <= size /\ end >= CheapPrepend
    BY <1>2 DEF AppendSliding, CanSlide
  <2>2. ASSUME NEW i \in 0..(size - 1)
        PROVE  (IF i \in end..(end + n - 1) THEN src[i - end + 1]
                ELSE IF i \in CheapPrepend..(end - 1)
                     THEN data[i - CheapPrepend + readerIndex_] ELSE data[i]) \in Nat
    BY <2>1
  <2>3. buffer_' \in [0..(size - 1) -> Nat]
    BY <1>2, <2>2 DEF AppendSliding
  <2> QED BY <1>2, <2>1, <2>3 DEF AppendSliding
<1>3. CASE AppendGrowing(data, n, src)
  BY <1>3 DEF AppendGrowing
<1> QED BY <1>1, <1>2, <1>3 DEF AppendTo

LEMMA TypeStep == TypeOK /\ [Next]_vars => TypeOK'
<1> SUFFICES ASSUME TypeOK, [Next]_vars PROVE TypeOK'
  OBVIOUS
<1> USE BufferAssumption
<1>1. ASSUME NEW n \in 0..MaxBytes, AppendBytes(n)
      PROVE  TypeOK'
  <2>1. Incoming(n) \in [1..n -> Nat]
    BY DEF Incoming, TypeOK
  <2>2. put' \in 0..MaxBytes /\ got' = got /\ intact' = intact
    BY <1>1 DEF AppendBytes, TypeOK
  <2>3. buffer_ \in [0..(size - 1) -> Nat] /\ n \in Nat
    BY DEF TypeOK
  <2>4. AppendTo(buffer_, n, Incoming(n))
    BY <1>1 DEF AppendBytes
  <2> QED BY <2>1, <2>2, <2>3, <2>4, AppendTyped DEF TypeOK
<1>2. ASSUME NEW n \in 0..MaxBytes, Retrieve(n)
      PROVE  TypeOK'
  BY <1>2 DEF Retrieve, MoveReader, readableBytes, TypeOK
<1>3. ASSUME NEW n \in 0..MaxBytes, ReadFd(n)
      PROVE  TypeOK'
  <2>1. AfterReadv(n) \in [0..(size - 1) -> Nat]
    BY DEF AfterReadv, Least, writableBytes, TypeOK
  <2>2. CASE n < writableBytes
    <3>1. /\ buffer_' = AfterReadv(n) /\ writerIndex_' = writerIndex_ + n
          /\ size' = size /\ readerIndex_' = readerIndex_
          /\ put' = put + n /\ put + n <= MaxBytes /\ got' = got
          /\ intact' \in BOOLEAN
      BY <1>3, <2>2 DEF ReadFd, writableBytes, TypeOK
    <3> QED BY <2>1, <2>2, <3>1 DEF writableBytes, TypeOK
  <2>3. CASE n >= writableBytes
    <3> DEFINE m == n - writableBytes
               src == [i \in 1..m |-> put + writableBytes + i]
    <3>1. m \in Nat /\ src \in [1..m -> Nat]
      BY <2>3 DEF writableBytes, TypeOK
    <3>2. AppendTo(AfterReadv(n), m, src)
      BY <1>3, <2>3 DEF ReadFd, writableBytes, TypeOK
    <3>3. put' \in 0..MaxBytes /\ got' = got /\ intact' \in BOOLEAN
      BY <1>3 DEF ReadFd, TypeOK
    <3> QED BY <2>1, <3>1, <3>2, <3>3, AppendTyped DEF TypeOK
  <2> QED BY <2>2, <2>3 DEF writableBytes, TypeOK
<1>4. ASSUME NEW n \in 0..MaxBytes, WriteFd(n)
      PROVE  TypeOK'
  <2>1. /\ MoveReader(n) /\ intact' = FALSE
        /\ buffer_' = buffer_ /\ size' = size /\ put' = put
    BY <1>4 DEF WriteFd
  <2>2. intact' \in BOOLEAN
    BY <2>1
  <2>3. /\ readerIndex_' \in CheapPrepend..writerIndex_'
        /\ writerIndex_' \in CheapPrepend..size
        /\ got' \in Nat
    BY <2>1 DEF MoveReader, readableBytes, TypeOK
  <2> QED BY <2>1, <2>2, <2>3 DEF TypeOK
<1>5. CASE UNCHANGED vars
  BY <1>5 DEF vars, TypeOK
<1> QED BY <1>1, <1>2, <1>3, <1>4, <1>5 DEF Next

\* The indices of a Buffer are always in order and inside the vector, whatever
\* append(), retrieve(), readFd() and writeFd() are called with: the copies
\* stay inside the vector and the unsigned differences never wrap around.
THEOREM IndicesInOrder == Spec => []TypeOK
<1>1. Init => TypeOK
  BY BufferAssumption DEF Init, TypeOK
<1> QED BY <1>1, TypeStep, PTL DEF Spec

-----------------------------------------------------------------------------
\* append() makes the next bytes of the stream readable and loses none.
LEMMA AppendKeepsBytes ==
  ASSUME TypeOK, NoByteLost, NEW n \in 0..MaxBytes, AppendBytes(n)
  PROVE  NoByteLost'
<1> USE BufferAssumption DEF readableBytes, writableBytes, prependableBytes
<1>1. put' = put + n /\ got' = got
  BY DEF AppendBytes
<1>2. \A j \in 1..n : Incoming(n)[j] = put + j
  BY DEF Incoming
<1>3. /\ n \in Nat /\ got \in Nat /\ put \in Nat /\ size \in Nat
      /\ readerIndex_ \in Nat /\ writerIndex_ \in Nat
      /\ CheapPrepend <= readerIndex_ /\ readerIndex_ <= writerIndex_
      /\ writerIndex_ <= size
      /\ writerIndex_ - readerIndex_ = put - got
  BY DEF TypeOK, NoByteLost
<1>4. \A i \in readerIndex_..(writerIndex_ - 1) :
        buffer_[i] = got + 1 + i - readerIndex_
  BY DEF NoByteLost
<1>5. CASE AppendAtEnd(buffer_, n, Incoming(n)) \/ AppendGrowing(buffer_, n, Incoming(n))
  <2>1. readerIndex_' = readerIndex_ /\ writerIndex_' = writerIndex_ + n
    BY <1>5 DEF AppendAtEnd, AppendGrowing
  <2>2. ASSUME NEW i \in readerIndex_..(writerIndex_ - 1)
        PROVE  buffer_'[i] = buffer_[i]
    BY <1>3, <1>5 DEF AppendAtEnd, AppendGrowing
  <2>3. ASSUME NEW i \in writerIndex_..(writerIndex_ + n - 1)
        PROVE  buffer_'[i] = Incoming(n)[i - writerIndex_ + 1]
    BY <1>3, <1>5 DEF AppendAtEnd, AppendGrowing
  <2>4. ASSUME NEW i \in writerIndex_..(writerIndex_ + n - 1)
        PROVE  buffer_'[i] = got + 1 + i - readerIndex_
    <3>1. i - writerIndex_ + 1 \in 1..n
      BY <1>3
    <3>2. buffer_'[i] = put + (i - writerIndex_ + 1)
      BY <1>2, <2>3, <3>1
    <3> QED BY <1>3, <3>2
  <2>5. ASSUME NEW i \in readerIndex_'..(writerIndex_' - 1)
        PROVE  buffer_'[i] = got' + 1 + i - readerIndex_'
    <3>1. CASE i < writerIndex_
      BY <1>1, <1>3, <1>4, <2>1, <2>2, <3>1
    <3>2. CASE i >= writerIndex_
      BY <1>1, <1>3, <2>1, <2>4, <3>2
    <3> QED BY <1>3, <2>1, <3>1, <3>2
  <2> QED BY <1>1, <1>3, <2>1, <2>5 DEF NoByteLost
<1>6. CASE AppendSliding(buffer_, n, Incoming(n))
  <2> DEFINE end == CheapPrepend + (writerIndex_ - readerIndex_)
  <2>1. end \in Nat /\ end + n <= size /\ end >= CheapPrepend
    BY <1>3, <1>6 DEF AppendSliding, CanSlide
  <2>2. readerIndex_' = CheapPrepend /\ writerIndex_' = end + n
    BY <1>6 DEF AppendSliding
  <2>3. buffer_' = [i \in 0..(size - 1) |->
                      IF i \in end..(end + n - 1) THEN Incoming(n)[i - end + 1]
                      ELSE IF i \in CheapPrepend..(end - 1)
                           THEN buffer_[i - CheapPrepend + readerIndex_] ELSE buffer_[i]]
    BY <1>6 DEF AppendSliding
  <2> HIDE DEF end
  <2>4. ASSUME NEW i \in end..(end + n - 1)
        PROVE  buffer_'[i] = got + 1 + i - CheapPrepend
    <3>1. i - end + 1 \in 1..n /\ i \in 0..(size - 1)
      BY <1>3, <2>1
    <3>2. buffer_'[i] = put + (i - end + 1)
      BY <1>2, <2>3, <3>1
    <3>3. put = got + (end - CheapPrepend)
      BY <1>3 DEF end
    <3> QED BY <1>3, <2>1, <3>2, <3>3
  <2>5. ASSUME NEW i \in CheapPrepend..(end - 1)
        PROVE  buffer_'[i] = got + 1 + i - CheapPrepend
    <3> DEFINE j == i - CheapPrepend + readerIndex_
    <3>1. i \in 0..(size - 1) /\ i \notin end..(end + n - 1)
      BY <1>3, <2>1
    <3>2. buffer_'[i] = buffer_[j]
      BY <2>3, <3>1
    <3>3. j \in readerIndex_..(writerIndex_ - 1)
      BY <1>3 DEF end
    <3>4. buffer_[j] = got + 1 + j - readerIndex_
      BY <1>4, <3>3
    <3> QED BY <1>3, <2>1, <3>2, <3>4
  <2>6. ASSUME NEW i \in readerIndex_'..(writerIndex_' - 1)
        PROVE  buffer_'[i] = got' + 1 + i - readerIndex_'
    <3>1. CASE i < end
      BY <1>1, <2>1, <2>2, <2>5, <3>1
    <3>2. CASE i >= end
      BY <1>1, <1>3, <2>1, <2>2, <2>4, <3>2
    <3> QED BY <1>3, <2>1, <2>2, <3>1, <3>2
  <2>7. (writerIndex_ - readerIndex_)' = put' - got'
    BY <1>1, <1>3, <2>1, <2>2 DEF end
  <2> QED BY <2>6, <2>7 DEF NoByteLost
<1> QED BY <1>5, <1>6 DEF AppendBytes, AppendTo

\* readFd() that leaves room makes the bytes readable that readv() stored.
LEMMA ReadKeepsBytes ==
  ASSUME TypeOK, NoByteLost, NEW n \in 0..MaxBytes, ReadFd(n), n < writableBytes
  PROVE  NoByteLost'
<1> USE BufferAssumption DEF readableBytes, writableBytes
<1>1. /\ put' = put + n /\ got' = got
      /\ readerIndex_' = readerIndex_ /\ writerIndex_' = writerIndex_ + n
      /\ buffer_' = AfterReadv(n)
  BY DEF ReadFd, TypeOK
<1>2. /\ n \in Nat /\ got \in Nat /\ put \in Nat /\ size \in Nat
      /\ readerIndex_ \in Nat /\ writerIndex_ \in Nat
      /\ readerIndex_ <= writerIndex_ /\ writerIndex_ + n < size
      /\ writerIndex_ - readerIndex_ = put - got
  BY DEF TypeOK, NoByteLost
<1>3. ASSUME NEW i \in readerIndex_..(writerIndex_ + n - 1)
      PROVE  buffer_'[i] = got + 1 + i - readerIndex_
  <2>1. i \in 0..(size - 1) /\ Least(n, size - writerIndex_) = n
    BY <1>2 DEF Least
  <2>2. CASE i >= writerIndex_
    <3>1. buffer_'[i] = put + i - writerIndex_ + 1
      BY <1>1, <1>2, <2>1, <2>2 DEF AfterReadv
    <3> QED BY <1>2, <3>1
  <2>3. CASE i < writerIndex_
    <3>1. buffer_'[i] = buffer_[i]
      BY <1>1, <1>2, <2>1, <2>3 DEF AfterReadv
    <3> QED BY <1>2, <2>3, <3>1 DEF NoByteLost
  <2> QED BY <1>2, <2>2, <2>3
<1> QED BY <1>1, <1>2, <1>3 DEF NoByteLost

\* append(), retrieve() and reads that leave room are exact for every size of
\* the vector and every sequence of calls, through every move and growth.
THEOREM BytesAlwaysKept == Spec => []BytesKept
<1>1. Init => TypeOK /\ BytesKept
  BY BufferAssumption DEF Init, TypeOK, BytesKept, NoByteLost, readableBytes
<1>2. TypeOK /\ BytesKept /\ [Next]_vars => TypeOK' /\ BytesKept'
  <2> SUFFICES ASSUME TypeOK, BytesKept, [Next]_vars, intact'
               PROVE  TypeOK' /\ NoByteLost'
    BY TypeStep DEF BytesKept
  <2>1. TypeOK'
    BY TypeStep
  <2>2. ASSUME NEW n \in 0..MaxBytes, AppendBytes(n)
        PROVE  NoByteLost'
    BY <2>2, AppendKeepsBytes DEF AppendBytes, BytesKept
  <2>3. ASSUME NEW n \in 0..MaxBytes, Retrieve(n)
        PROVE  NoByteLost'
    <3>1. NoByteLost
      BY <2>3 DEF Retrieve, BytesKept
    <3> QED BY <2>3, <3>1, BufferAssumption
            DEF Retrieve, MoveReader, NoByteLost, readableBytes, TypeOK
  <2>4. ASSUME NEW n \in 0..MaxBytes, ReadFd(n)
        PROVE  NoByteLost'
    <3>1. intact /\ n < writableBytes
      BY <2>4 DEF ReadFd
    <3> QED BY <2>4, <3>1, ReadKeepsBytes DEF BytesKept
  <2>5. ASSUME NEW n \in 0..MaxBytes, WriteFd(n)
        PROVE  FALSE
    BY <2>5 DEF WriteFd
  <2>6. ASSUME UNCHANGED vars
        PROVE  NoByteLost'
    <3>1. NoByteLost
      BY <2>6 DEF vars, BytesKept
    <3> QED BY <2>6, <3>1 DEF vars, NoByteLost, readableBytes
  <2> QED BY <2>1, <2>2, <2>3, <2>4, <2>5, <2>6 DEF Next
<1> QED BY <1>1, <1>2, PTL DEF Spec
=============================================================================
