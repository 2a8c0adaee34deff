-------------------------------- MODULE Buffer --------------------------------
(***************************************************************************)
(* Buffer (Buffer.h, Buffer.cc): a vector of bytes with a reader and a     *)
(* writer index.  [readerIndex_, writerIndex_) is the readable data, what  *)
(* lies behind it is writable, what lies before it can be reclaimed down   *)
(* to the CheapPrepend bytes that are always kept free.                    *)
(*                                                                         *)
(* The bytes of a stream are numbered: the i-th byte that the user or the  *)
(* socket puts into the buffer is i, so that a byte that is lost,          *)
(* overwritten or moved to the wrong place shows.  0 is the filler of the  *)
(* vector.                                                                 *)
(***************************************************************************)
EXTENDS Integers, Sequences

CONSTANTS CheapPrepend,   \* bytes kept free in front (8)
          InitialSize,    \* initial room for data (1024)
          ExtraSize,      \* readFd()'s buffer on the stack (65536)
          MaxBytes        \* bound: bytes put into the buffer in a behaviour

ASSUME BufferAssumption == /\ CheapPrepend \in Nat
                           /\ InitialSize \in Nat
                           /\ ExtraSize \in Nat
                           /\ MaxBytes \in Nat

VARIABLES
  buffer_, size,   \* the vector, indexed from 0, and buffer_.size()
  readerIndex_,
  writerIndex_,
  put,             \* history: bytes put into the buffer
  got,             \* history: bytes taken out of it
  wire,            \* history: what the last writeFd() wrote
  intact           \* history: no readFd() filled the vector, no writeFd() wrote

vars == <<buffer_, size, readerIndex_, writerIndex_, put, got, wire, intact>>

readableBytes == writerIndex_ - readerIndex_
writableBytes == size - writerIndex_
prependableBytes == readerIndex_

\* The readable data, and the next n bytes of the stream.
Content == [i \in 1..readableBytes |-> buffer_[readerIndex_ + i - 1]]
Incoming(n) == [i \in 1..n |-> put + i]

Init ==
  /\ size = CheapPrepend + InitialSize
  /\ buffer_ = [i \in 0..(size - 1) |-> 0]
  /\ readerIndex_ = CheapPrepend
  /\ writerIndex_ = CheapPrepend
  /\ put = 0
  /\ got = 0
  /\ wire = <<>>
  /\ intact = TRUE

-----------------------------------------------------------------------------
(***************************************************************************)
(* append() of the n bytes src to a vector that holds data, with           *)
(* ensureWritableBytes() and makeSpace(): there is room at the end, or the *)
(* readable data is moved to the front, or the vector grows.               *)
(***************************************************************************)
CanSlide(n) == writableBytes + prependableBytes - CheapPrepend >= n

AppendAtEnd(data, n, src) ==
  /\ writableBytes >= n
  /\ buffer_' = [i \in 0..(size - 1) |->
                   IF i \in writerIndex_..(writerIndex_ + n - 1)
                   THEN src[i - writerIndex_ + 1] ELSE data[i]]
  /\ writerIndex_' = writerIndex_ + n
  /\ UNCHANGED <<size, readerIndex_>>

\* makeSpace() that moves the data but not readerIndex_.
AppendSlidingKeepsReader(data, n, src) ==
  LET end == CheapPrepend + readableBytes IN
  /\ writableBytes < n
  /\ CanSlide(n)
  /\ buffer_' = [i \in 0..(size - 1) |->
                   IF i \in end..(end + n - 1) THEN src[i - end + 1]
                   ELSE IF i \in CheapPrepend..(end - 1)
                        THEN data[i - CheapPrepend + readerIndex_] ELSE data[i]]
  /\ writerIndex_' = end + n
  /\ UNCHANGED <<size, readerIndex_>>

AppendSliding(data, n, src) ==
  LET end == CheapPrepend + readableBytes IN
  /\ writableBytes < n
  /\ CanSlide(n)
  /\ buffer_' = [i \in 0..(size - 1) |->
                   IF i \in end..(end + n - 1) THEN src[i - end + 1]
                   ELSE IF i \in CheapPrepend..(end - 1)
                        THEN data[i - CheapPrepend + readerIndex_] ELSE data[i]]
  /\ readerIndex_' = CheapPrepend
  /\ writerIndex_' = end + n
  /\ UNCHANGED size

AppendGrowing(data, n, src) ==
  /\ writableBytes < n
  /\ ~CanSlide(n)
  /\ buffer_' = [i \in 0..(writerIndex_ + n - 1) |->
                   IF i >= writerIndex_ THEN src[i - writerIndex_ + 1] ELSE data[i]]
  /\ size' = writerIndex_ + n
  /\ writerIndex_' = writerIndex_ + n
  /\ UNCHANGED readerIndex_

AppendTo(data, n, src) == \/ AppendAtEnd(data, n, src)
                          \/ AppendSliding(data, n, src)
                          \/ AppendGrowing(data, n, src)

AppendBytes(n) ==
  /\ put + n <= MaxBytes
  /\ AppendTo(buffer_, n, Incoming(n))
  /\ put' = put + n
  /\ UNCHANGED <<got, wire, intact>>

-----------------------------------------------------------------------------
\* A retrieve() that trusts its argument.
MoveReaderUnchecked(n) ==
  /\ readerIndex_' = readerIndex_ + n
  /\ UNCHANGED writerIndex_
  /\ got' = got + n

\* retrieve(), and retrieveAll() when there is no more to read.
MoveReader(n) ==
  IF n < readableBytes
  THEN /\ readerIndex_' = readerIndex_ + n
       /\ UNCHANGED writerIndex_
       /\ got' = got + n
  ELSE /\ readerIndex_' = CheapPrepend
       /\ writerIndex_' = CheapPrepend
       /\ got' = got + readableBytes

Retrieve(n) ==
  /\ MoveReader(n)
  /\ UNCHANGED <<buffer_, size, put, wire, intact>>

-----------------------------------------------------------------------------
(***************************************************************************)
(* readFd(): readv() fills the writable part first and then the extra      *)
(* buffer; n is what it returned.  When n reaches writable only the extra  *)
(* part is appended: writerIndex_ has not been moved.                      *)
(***************************************************************************)
ReadCapacity == IF writableBytes < ExtraSize THEN writableBytes + ExtraSize
                                             ELSE writableBytes

Least(a, b) == IF a < b THEN a ELSE b

AfterReadv(n) ==
  [i \in 0..(size - 1) |->
     IF i \in writerIndex_..(writerIndex_ + Least(n, writableBytes) - 1)
     THEN put + i - writerIndex_ + 1 ELSE buffer_[i]]

\* readFd() that forgets to move writerIndex_.
ReadFdKeepsWriter(n) ==
  /\ put + n <= MaxBytes
  /\ n <= ReadCapacity
  /\ buffer_' = AfterReadv(n)
  /\ put' = put + n
  /\ intact' = (intact /\ n < writableBytes)
  /\ UNCHANGED <<size, readerIndex_, writerIndex_, got, wire>>

ReadFd(n) ==
  /\ put + n <= MaxBytes
  /\ n <= ReadCapacity
  /\ \/ /\ n < writableBytes
        /\ buffer_' = AfterReadv(n)
        /\ writerIndex_' = writerIndex_ + n
        /\ UNCHANGED <<size, readerIndex_>>
     \/ /\ n >= writableBytes
        /\ AppendTo(AfterReadv(n), n - writableBytes,
                    [i \in 1..(n - writableBytes) |-> put + writableBytes + i])
  /\ put' = put + n
  /\ intact' = (intact /\ n < writableBytes)
  /\ UNCHANGED <<got, wire>>

\* writeFd(), with the retrieve() of handleWrite(), which is called only while
\* there is output: the bytes written are those behind writerIndex_.
WriteFd(n) ==
  /\ readableBytes > 0
  /\ n <= writableBytes
  /\ wire' = [i \in 1..n |-> buffer_[writerIndex_ + i - 1]]
  /\ MoveReader(n)
  /\ intact' = FALSE
  /\ UNCHANGED <<buffer_, size, put>>

-----------------------------------------------------------------------------
Next ==
  \E n \in 0..MaxBytes :
    AppendBytes(n) \/ Retrieve(n) \/ ReadFd(n) \/ (n > 0 /\ WriteFd(n))

Spec == Init /\ [][Next]_vars

-----------------------------------------------------------------------------
(* The indices stay in order and inside the vector, and the bytes in front  *)
(* stay free, whatever append(), retrieve(), readFd() and writeFd() do: no  *)
(* copy leaves the vector and no length wraps around.                       *)
TypeOK ==
  /\ size \in Nat
  /\ buffer_ \in [0..(size - 1) -> Nat]
  /\ readerIndex_ \in CheapPrepend..writerIndex_
  /\ writerIndex_ \in CheapPrepend..size
  /\ put \in 0..MaxBytes
  /\ got \in Nat
  /\ intact \in BOOLEAN

(* Every byte put into the buffer and not yet taken out is readable, in     *)
(* order and at the right place, through every move and growth.             *)
NoByteLost ==
  /\ readableBytes = put - got
  /\ \A i \in readerIndex_..(writerIndex_ - 1) :
       buffer_[i] = got + 1 + i - readerIndex_

(* append(), retrieve() and a readFd() that leaves room in the vector lose, *)
(* repeat and misplace no byte, in any order and at any fill: NoByteLost    *)
(* holds until a readFd() fills the vector or a writeFd() is made.          *)
BytesKept == intact => NoByteLost

(* writeFd() writes the data of the buffer to the descriptor: the oldest    *)
(* readable bytes.                                                          *)
WriteFdSendsReadable ==
  [][\A n \in 1..MaxBytes :
       WriteFd(n) => \E k \in 1..readableBytes : wire' = SubSeq(Content, 1, k)]_vars
=============================================================================
