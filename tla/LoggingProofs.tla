---------------------------- MODULE LoggingProofs ----------------------------
(***************************************************************************)
(* Proofs about AsyncLogging and the LogFile behind it, for every size of  *)
(* the buffers and the files, any number of records, any clock and any     *)
(* refusals of the disk.                                                   *)
(***************************************************************************)
EXTENDS Logging, SequenceFacts

\* The vector of the thread is empty outside the write phase.
AtRest == pc # "write" => buffersToWrite = <<>>

\* TypeOK and SpareAvailable need each other: newBuffer2 stays a buffer only
\* because there is a second buffer to take it from.
LoggingInv == TypeOK /\ SpareAvailable /\ AtRest

LEMMA CollectStep ==
  ASSUME LoggingInv, Collect, pc # "write"
  PROVE  LoggingInv'
<1> USE LoggingAssumption
<1>1. /\ currentBuffer_ \in Seq(Nat) /\ buffers_ \in Seq(Seq(Nat))
      /\ newBuffer1 \in Seq(Nat) /\ newBuffer2 \in Seq(Nat) /\ newBuffer2 # Null
      /\ buffersToWrite = <<>>
  BY DEF LoggingInv, TypeOK, AtRest
<1>2. at = 1
  <2>1. Len(buffersToWrite) = 0
    BY <1>1, EmptySeq
  <2> QED BY <2>1 DEF LoggingInv, TypeOK
<1>3. buffersToWrite' \in Seq(Seq(Nat)) /\ Len(buffersToWrite') = Len(buffers_) + 1
  BY <1>1, AppendProperties DEF Collect
<1>4. Len(buffers_) \in Nat
  BY <1>1, LenProperties
<1>5. nextBuffer_ = Null => Len(buffers_) > 0
  BY <1>1, <1>4, EmptySeq DEF LoggingInv, SpareAvailable
<1>6. /\ currentBuffer_' \in Seq(Nat) /\ buffers_' = <<>> /\ newBuffer1' = Null
      /\ nextBuffer_' \in Seq(Nat) /\ nextBuffer_' # Null
      /\ newBuffer2' \in Seq(Nat) \cup {Null}
      /\ newBuffer2' = Null => nextBuffer_ = Null
      /\ pc' = "write" /\ at' = 1
      /\ UNCHANGED <<running_, logged, loggedAtStop>>
  BY <1>1, <1>2 DEF Collect, LoggingInv, TypeOK
<1>7. buffers_' \in Seq(Seq(Nat))
  BY <1>6
<1>8. at' \in 1..(Len(buffersToWrite') + 1)
  BY <1>3, <1>4, <1>6
<1>9. Len(buffersToWrite') >= IF newBuffer2' = Null THEN 2 ELSE 1
  BY <1>3, <1>4, <1>5, <1>6
<1>10. TypeOK'
  BY <1>3, <1>6, <1>7, <1>8 DEF LoggingInv, TypeOK
<1> QED BY <1>6, <1>9, <1>10 DEF LoggingInv, SpareAvailable, AtRest

\* resize(2) of a vector that has at least two elements.
LEMMA CutToTwo == \A m \in Nat : m >= 2 => (IF m > 2 THEN 2 ELSE m) = 2
OBVIOUS

LEMMA RefillStep ==
  ASSUME LoggingInv, Refill
  PROVE  LoggingInv'
<1> DEFINE n    == IF Len(buffersToWrite) > 2 THEN 2 ELSE Len(buffersToWrite)
           kept == SubSeq(buffersToWrite, 1, n)
           left == SubSeq(kept, 1, Len(kept) - 1)
<1>1. /\ pc = "write" /\ buffersToWrite \in Seq(Seq(Nat))
      /\ Len(buffersToWrite) \in Nat
      /\ newBuffer2 \in Seq(Nat) \cup {Null}
  BY LenProperties DEF Refill, LoggingInv, TypeOK
<1>2. newBuffer2 = Null => left # <<>>
  <2> SUFFICES ASSUME newBuffer2 = Null PROVE left # <<>>
    OBVIOUS
  <2>1. Len(buffersToWrite) >= 2
    BY <1>1 DEF LoggingInv, SpareAvailable
  <2>2. n = 2
    BY <1>1, <2>1, CutToTwo, Zenon
  <2>3. \A i \in 1..2 : buffersToWrite[i] \in Seq(Nat)
    BY <1>1, <2>1, ElementOfSeq
  <2>4. Len(SubSeq(buffersToWrite, 1, 2)) = 2
        /\ SubSeq(buffersToWrite, 1, 2) \in Seq(Seq(Nat))
    BY <2>3, SubSeqProperties
  <2>5. kept = SubSeq(buffersToWrite, 1, 2)
    BY <2>2
  <2> HIDE DEF kept, n
  <2>6. \A i \in 1..1 : kept[i] \in Seq(Nat)
    BY <2>4, <2>5, ElementOfSeq
  <2>7. Len(SubSeq(kept, 1, 1)) = 1
    BY <2>6, SubSeqProperties
  <2>8. left = SubSeq(kept, 1, 1)
    BY <2>4, <2>5
  <2> HIDE DEF left
  <2>9. ASSUME left = <<>> PROVE FALSE
    <3>1. Len(SubSeq(kept, 1, 1)) = Len(<<>>)
      BY <2>8, <2>9, Zenon
    <3>2. Len(<<>>) = 0
      BY EmptySeq
    <3> QED BY <2>7, <3>1, <3>2
  <2> QED BY <2>9
<1>3. newBuffer1' = <<>>
  BY DEF Refill, Reset
<1>4. newBuffer2' \in Seq(Nat)
  <2>1. CASE newBuffer2 = Null
    <3>1. newBuffer2' = <<>>
      BY <1>2, <2>1 DEF Refill, Reset
    <3> QED BY <3>1
  <2>2. CASE newBuffer2 # Null
    <3>1. newBuffer2' = newBuffer2
      BY <2>2 DEF Refill
    <3> QED BY <1>1, <2>2, <3>1
  <2> QED BY <2>1, <2>2
<1>5. /\ buffersToWrite' = <<>> /\ at' = 1 /\ pc' = "check"
      /\ UNCHANGED <<running_, currentBuffer_, nextBuffer_, buffers_, logged, loggedAtStop>>
  BY DEF Refill
<1>6. newBuffer1' \in Seq(Nat) /\ buffersToWrite' \in Seq(Seq(Nat)) /\ Len(buffersToWrite') = 0
  BY <1>3, <1>5, EmptySeq
<1>7. at' \in 1..(Len(buffersToWrite') + 1)
  BY <1>5, <1>6
<1>8. TypeOK'
  BY <1>4, <1>5, <1>6, <1>7 DEF LoggingInv, TypeOK
<1> QED BY <1>5, <1>8 DEF LoggingInv, SpareAvailable, AtRest

LEMMA LoggingStep == LoggingInv /\ [Next]_vars => LoggingInv'
<1> SUFFICES ASSUME LoggingInv, [Next]_vars PROVE LoggingInv'
  OBVIOUS
<1> USE LoggingAssumption
<1>1. CASE AppendRecord
  <2>1. logged + 1 \in Nat /\ logged' \in 0..MaxRecords
    BY <1>1 DEF AppendRecord, LoggingInv, TypeOK
  <2>2. CASE Valid(currentBuffer_)
    <3>1. /\ currentBuffer_' = Append(currentBuffer_, logged + 1)
          /\ UNCHANGED <<nextBuffer_, buffers_>>
      BY <1>1, <2>2 DEF AppendRecord
    <3>2. currentBuffer_' \in Seq(Nat)
      BY <2>1, <3>1, AppendProperties DEF LoggingInv, TypeOK
    <3> QED BY <1>1, <2>1, <3>1, <3>2
            DEF AppendRecord, LoggingInv, TypeOK, SpareAvailable, AtRest
  <2>3. CASE ~Valid(currentBuffer_)
    <3>1. /\ buffers_' = Append(buffers_, currentBuffer_)
          /\ currentBuffer_' = IF nextBuffer_ # Null THEN Append(nextBuffer_, logged + 1)
                                                     ELSE <<logged + 1>>
          /\ nextBuffer_' = Null
      BY <1>1, <2>3 DEF AppendRecord
    <3>2. buffers_' \in Seq(Seq(Nat)) /\ buffers_' # <<>>
      <4>1. buffers_ \in Seq(Seq(Nat)) /\ currentBuffer_ \in Seq(Nat)
        BY DEF LoggingInv, TypeOK
      <4>2. /\ Append(buffers_, currentBuffer_) \in Seq(Seq(Nat))
            /\ Append(buffers_, currentBuffer_) # <<>>
        BY <4>1, AppendProperties
      <4> QED BY <3>1, <4>2
    <3>3. currentBuffer_' \in Seq(Nat)
      BY <2>1, <3>1, AppendProperties DEF LoggingInv, TypeOK
    <3> QED BY <1>1, <2>1, <3>1, <3>2, <3>3
            DEF AppendRecord, LoggingInv, TypeOK, SpareAvailable, AtRest
  <2> QED BY <2>2, <2>3
<1>2. CASE Start
  BY <1>2 DEF Start, buffers, LoggingInv, TypeOK, SpareAvailable, AtRest
<1>3. CASE Stop
  BY <1>3 DEF Stop, buffers, LoggingInv, TypeOK, SpareAvailable, AtRest
<1>4. CASE CheckRunning
  <2>1. CASE Collect
    BY <1>4, <2>1, CollectStep DEF CheckRunning
  <2>2. CASE /\ pc' = "wait"
             /\ UNCHANGED <<running_, buffers, file, logged, loggedAtStop>>
    BY <1>4, <2>2 DEF CheckRunning, buffers, LoggingInv, TypeOK, SpareAvailable, AtRest
  <2> QED BY <1>4, <2>1, <2>2 DEF CheckRunning
<1>5. CASE WaitReturns
  BY <1>5, CollectStep DEF WaitReturns
<1>6. CASE WriteBuffer
  <2>1. at' \in 1..(Len(buffersToWrite) + 1)
    BY <1>6, LenProperties DEF WriteBuffer, LoggingInv, TypeOK
  <2> QED BY <1>6, <2>1 DEF WriteBuffer, LoggingInv, TypeOK, SpareAvailable, AtRest
<1>7. CASE Refill
  BY <1>7, RefillStep
<1>8. CASE Finish
  BY <1>8 DEF Finish, buffers, LoggingInv, TypeOK, SpareAvailable, AtRest
<1>9. CASE UNCHANGED vars
  BY <1>9 DEF vars, buffers, LoggingInv, TypeOK, SpareAvailable, AtRest
<1> QED BY <1>1, <1>2, <1>3, <1>4, <1>5, <1>6, <1>7, <1>8, <1>9 DEF Next, ThreadFunc

LEMMA LoggingInitially == Init => LoggingInv
<1> SUFFICES ASSUME Init PROVE LoggingInv
  OBVIOUS
<1>1. <<>> \in Seq(Nat) /\ <<>> \in Seq(Seq(Nat)) /\ Len(<<>>) = 0
  BY EmptySeq
<1>2. nextBuffer_ # Null
  BY <1>1, LoggingAssumption DEF Init
<1>3. 0 \in 0..MaxRecords
  BY LoggingAssumption
<1>4. at \in 1..(Len(buffersToWrite) + 1)
  BY <1>1 DEF Init
<1> QED BY <1>1, <1>2, <1>3, <1>4
        DEF Init, LoggingInv, TypeOK, SpareAvailable, AtRest

LEMMA LoggingAlways == Safety => []LoggingInv
BY LoggingInitially, LoggingStep, PTL DEF Safety

\* The logging thread never calls back() or pop_back() on an empty vector,
\* however many records arrive between two of its rounds.
THEOREM SpareAlwaysAvailable == Safety => []SpareAvailable
<1>1. LoggingInv => SpareAvailable
  BY DEF LoggingInv
<1> QED BY <1>1, LoggingAlways, PTL

\* The pointers that circulate are never empty where they are dereferenced.
THEOREM BuffersTyped == Safety => []TypeOK
<1>1. LoggingInv => TypeOK
  BY DEF LoggingInv
<1> QED BY <1>1, LoggingAlways, PTL
-----------------------------------------------------------------------------
\* The records from the first to the k-th.
Upto(k) == [i \in 1..k |-> i]

LEMMA UptoNext ==
  ASSUME NEW k \in Nat
  PROVE  Upto(k) \in Seq(Nat) /\ Len(Upto(k)) = k /\ Append(Upto(k), k + 1) = Upto(k + 1)
<1>1. Upto(k) \in Seq(Nat) /\ Len(Upto(k)) = k /\ \A i \in 1..k : Upto(k)[i] = i
  BY DEF Upto
<1>2. Upto(k + 1) \in Seq(Nat) /\ Len(Upto(k + 1)) = k + 1 /\ \A i \in 1..(k + 1) : Upto(k + 1)[i] = i
  BY DEF Upto
<1> DEFINE u == Append(Upto(k), k + 1)
<1>3. /\ u \in Seq(Nat) /\ Len(u) = k + 1 /\ u[k + 1] = k + 1
      /\ \A i \in 1..k : u[i] = i
  BY <1>1, AppendProperties
<1> HIDE DEF u
<1>4. ASSUME NEW i \in 1..(k + 1) PROVE u[i] = Upto(k + 1)[i]
  BY <1>2, <1>3
<1>5. u = Upto(k + 1)
  BY <1>2, <1>3, <1>4, SeqEqual
<1> QED BY <1>1, <1>5 DEF u

\* Concatenation, kept as one symbol.
Cat(f, g) == f \o g

LEMMA CatFacts ==
  /\ \A f, g \in Seq(Nat) : Cat(f, g) \in Seq(Nat)
  /\ \A f, g, h \in Seq(Nat) : Cat(Cat(f, g), h) = Cat(f, Cat(g, h))
  /\ \A f \in Seq(Nat) : Cat(f, <<>>) = f /\ Cat(<<>>, f) = f
<1>1. \A f, g \in Seq(Nat) : f \o g \in Seq(Nat)
  BY ConcatProperties
<1>2. \A f, g, h \in Seq(Nat) : (f \o g) \o h = f \o (g \o h)
  BY ConcatAssociative, SMTT(30)
<1>3. \A f \in Seq(Nat) : f \o <<>> = f /\ <<>> \o f = f
  BY ConcatEmptySeq
<1> QED BY <1>1, <1>2, <1>3, Zenon DEF Cat

\* The four parts of the log, in the order of RecordsInOrder.
Parts(f, w, k, b, c) ==
  Cat(Cat(Cat(f, FlattenSeq(SubSeq(w, k, Len(w)))), FlattenSeq(b)), c)

LEMMA FourParts ==
  ASSUME NEW f \in Seq(Nat), NEW g \in Seq(Nat), NEW h \in Seq(Nat), NEW c \in Seq(Nat),
         NEW e \in Seq(Nat)
  PROVE  /\ Cat(Cat(Cat(f, g), h), Cat(c, e)) = Cat(Cat(Cat(Cat(f, g), h), c), e)
         /\ Cat(Cat(Cat(f, g), Cat(h, c)), e) = Cat(Cat(Cat(Cat(f, g), h), c), e)
<1>1. Cat(f, g) \in Seq(Nat) /\ Cat(Cat(f, g), h) \in Seq(Nat)
  BY CatFacts
<1>2. Cat(Cat(f, g), Cat(h, c)) = Cat(Cat(Cat(f, g), h), c)
  BY <1>1, CatFacts
<1> QED BY <1>1, <1>2, CatFacts

LEMMA FlattenTyped ==
  ASSUME NEW S, NEW s \in Seq(Seq(S))
  PROVE  FlattenSeq(s) \in Seq(S)
BY EmptySeq, FlattenAppend

LEMMA RestTyped ==
  ASSUME NEW S, NEW w \in Seq(Seq(S)), NEW k \in 1..(Len(w) + 1)
  PROVE  FlattenSeq(SubSeq(w, k, Len(w))) \in Seq(S)
<1>1. Len(w) \in Nat /\ \A i \in 1..Len(w) : w[i] \in Seq(S)
  BY LenProperties, ElementOfSeq
<1>2. \A i \in k..Len(w) : w[i] \in Seq(S)
  BY <1>1
<1>3. SubSeq(w, k, Len(w)) \in Seq(Seq(S))
  BY <1>1, <1>2, SubSeqProperties
<1> QED BY <1>3, FlattenTyped

\* A record is added to the current buffer.
LEMMA PartsAppend ==
  ASSUME NEW f \in Seq(Nat), NEW w \in Seq(Seq(Nat)), NEW k \in 1..(Len(w) + 1),
         NEW b \in Seq(Seq(Nat)), NEW c \in Seq(Nat), NEW e \in Seq(Nat)
  PROVE  Parts(f, w, k, b, Cat(c, e)) = Cat(Parts(f, w, k, b, c), e)
<1> DEFINE g == FlattenSeq(SubSeq(w, k, Len(w)))
           h == FlattenSeq(b)
<1>1. g \in Seq(Nat) /\ h \in Seq(Nat)
  BY RestTyped, FlattenTyped
<1> HIDE DEF g, h
<1>2. Cat(Cat(Cat(f, g), h), Cat(c, e)) = Cat(Cat(Cat(Cat(f, g), h), c), e)
  BY <1>1, FourParts
<1> QED BY <1>2, Zenon DEF Parts, g, h

\* The full buffer joins the others and the record begins a new one.
LEMMA PartsFull ==
  ASSUME NEW f \in Seq(Nat), NEW w \in Seq(Seq(Nat)), NEW k \in 1..(Len(w) + 1),
         NEW b \in Seq(Seq(Nat)), NEW c \in Seq(Nat), NEW e \in Seq(Nat)
  PROVE  Parts(f, w, k, Append(b, c), e) = Cat(Parts(f, w, k, b, c), e)
<1> DEFINE g == FlattenSeq(SubSeq(w, k, Len(w)))
           h == FlattenSeq(b)
<1>1. g \in Seq(Nat) /\ h \in Seq(Nat)
  BY RestTyped, FlattenTyped
<1>2. FlattenSeq(Append(b, c)) = Cat(h, c)
  BY FlattenAppend DEF Cat
<1> HIDE DEF g, h
<1>3. Cat(Cat(Cat(f, g), Cat(h, c)), e) = Cat(Cat(Cat(Cat(f, g), h), c), e)
  BY <1>1, FourParts
<1> QED BY <1>2, <1>3, Zenon DEF Parts, g, h

\* All that waits is taken to be written.
LEMMA PartsCollect ==
  ASSUME NEW f \in Seq(Nat), NEW b \in Seq(Seq(Nat)), NEW c \in Seq(Nat)
  PROVE  Parts(f, Append(b, c), 1, <<>>, <<>>) = Parts(f, <<>>, 1, b, c)
<1> DEFINE h == FlattenSeq(b)
           w == Append(b, c)
<1>1. h \in Seq(Nat) /\ w \in Seq(Seq(Nat))
  BY FlattenTyped, AppendProperties
<1>2. FlattenSeq(w) = Cat(h, c)
  BY FlattenAppend DEF Cat
<1>3. SubSeq(w, 1, Len(w)) = w
  BY <1>1, SubSeqFull
<1>4. SubSeq(<<>>, 1, Len(<<>>)) = <<>>
  <2>1. SubSeq(<<>>, 1, 0) = <<>> /\ Len(<<>>) = 0
    BY SubSeqEmpty, EmptySeq
  <2> QED BY <2>1
<1> HIDE DEF h, w
<1>5. Cat(h, c) \in Seq(Nat) /\ Cat(f, <<>>) = f /\ Cat(Cat(f, h), c) = Cat(f, Cat(h, c))
  BY <1>1, CatFacts
<1>6. Cat(f, Cat(h, c)) \in Seq(Nat)
  BY <1>5, CatFacts
<1>7. Cat(Cat(Cat(f, Cat(h, c)), <<>>), <<>>) = Cat(f, Cat(h, c))
  BY <1>6, CatFacts
<1>8. Parts(f, w, 1, <<>>, <<>>) = Cat(f, Cat(h, c))
  BY <1>2, <1>3, <1>7, FlattenEmpty, Zenon DEF Parts
<1>9. Parts(f, <<>>, 1, b, c) = Cat(f, Cat(h, c))
  BY <1>4, <1>5, FlattenEmpty, Zenon DEF Parts, h
<1> QED BY <1>8, <1>9 DEF w

\* The next buffer is written.
LEMMA PartsWrite ==
  ASSUME NEW f \in Seq(Nat), NEW w \in Seq(Seq(Nat)), NEW k \in 1..Len(w), NEW b, NEW c
  PROVE  Parts(Cat(f, w[k]), w, k + 1, b, c) = Parts(f, w, k, b, c)
<1> DEFINE g == FlattenSeq(SubSeq(w, k + 1, Len(w)))
           x == w[k]
<1>1. x \in Seq(Nat) /\ g \in Seq(Nat)
  BY ElementOfSeq, FlattenFirst
<1>2. FlattenSeq(SubSeq(w, k, Len(w))) = Cat(x, g)
  BY FlattenFirst DEF Cat
<1> HIDE DEF g, x
<1>3. Cat(Cat(f, x), g) = Cat(f, Cat(x, g))
  BY <1>1, CatFacts
<1> QED BY <1>2, <1>3, Zenon DEF Parts, g, x

\* The vector is cleared.
LEMMA PartsClear ==
  ASSUME NEW f, NEW w, Len(w) \in Nat, NEW k \in Int, k > Len(w), NEW b, NEW c
  PROVE  Parts(f, <<>>, 1, b, c) = Parts(f, w, k, b, c)
<1>1. SubSeq(w, k, Len(w)) = <<>>
  BY SubSeqEmpty
<1>2. SubSeq(<<>>, 1, Len(<<>>)) = <<>>
  <2>1. SubSeq(<<>>, 1, 0) = <<>> /\ Len(<<>>) = 0
    BY SubSeqEmpty, EmptySeq
  <2> QED BY <2>1
<1> QED BY <1>1, <1>2 DEF Parts

-----------------------------------------------------------------------------
\* The buffers that circulate are empty, and while the thread writes so are
\* those of the callers.
Recycled ==
  /\ nextBuffer_ \in {<<>>, Null} /\ newBuffer1 \in {<<>>, Null} /\ newBuffer2 \in {<<>>, Null}
  /\ pc = "write" => buffers_ = <<>> /\ currentBuffer_ = <<>>

OrderInv == LoggingInv /\ Recycled /\ file \in Seq(Nat) /\ RecordsInOrder

LEMMA OrderAsParts ==
  RecordsInOrder <=> Parts(file, buffersToWrite, at, buffers_, currentBuffer_) = Upto(logged)
BY Zenon DEF RecordsInOrder, Parts, Cat, Upto

LEMMA OrderAsPartsNext ==
  RecordsInOrder' <=>
    Parts(file', buffersToWrite', at', buffers_', currentBuffer_') = Upto(logged')
BY Zenon DEF RecordsInOrder, Parts, Cat, Upto

LEMMA OrderTypes ==
  ASSUME OrderInv
  PROVE  /\ file \in Seq(Nat) /\ buffersToWrite \in Seq(Seq(Nat))
         /\ at \in 1..(Len(buffersToWrite) + 1) /\ Len(buffersToWrite) \in Nat
         /\ buffers_ \in Seq(Seq(Nat)) /\ currentBuffer_ \in Seq(Nat) /\ logged \in Nat
         /\ pc # "write" => buffersToWrite = <<>> /\ at = 1
<1>1. /\ file \in Seq(Nat) /\ buffersToWrite \in Seq(Seq(Nat))
      /\ at \in 1..(Len(buffersToWrite) + 1)
      /\ buffers_ \in Seq(Seq(Nat)) /\ currentBuffer_ \in Seq(Nat)
  BY DEF OrderInv, LoggingInv, TypeOK
<1>2. logged \in Nat
  BY LoggingAssumption DEF OrderInv, LoggingInv, TypeOK
<1>3. Len(buffersToWrite) \in Nat
  BY <1>1, LenProperties
<1>4. pc # "write" => buffersToWrite = <<>>
  BY DEF OrderInv, LoggingInv, AtRest
<1>5. pc # "write" => at = 1
  <2>1. Len(<<>>) = 0
    BY EmptySeq
  <2> QED BY <1>1, <1>4, <2>1
<1> QED BY <1>1, <1>2, <1>3, <1>4, <1>5

LEMMA OrderCollect ==
  ASSUME OrderInv, Collect, pc # "write"
  PROVE  Recycled' /\ file' \in Seq(Nat) /\ RecordsInOrder'
<1>1. /\ buffersToWrite' = Append(buffers_, currentBuffer_) /\ buffers_' = <<>>
      /\ currentBuffer_' = newBuffer1 /\ newBuffer1' = Null
      /\ nextBuffer_' \in {nextBuffer_, newBuffer2} /\ newBuffer2' \in {newBuffer2, Null}
      /\ at' = 1 /\ file' = file /\ logged' = logged
  BY OrderTypes DEF Collect
<1>2. newBuffer1 = <<>>
  <2>1. newBuffer1 \in Seq(Nat) /\ newBuffer1 \in {<<>>, Null}
    BY DEF OrderInv, LoggingInv, TypeOK, Recycled
  <2> QED BY <2>1, LoggingAssumption
<1>3. Recycled'
  BY <1>1, <1>2 DEF OrderInv, Recycled
<1>4. Parts(file, Append(buffers_, currentBuffer_), 1, <<>>, <<>>)
        = Parts(file, <<>>, 1, buffers_, currentBuffer_)
  BY OrderTypes, PartsCollect
<1>5. Parts(file, <<>>, 1, buffers_, currentBuffer_) = Upto(logged)
  BY OrderAsParts, OrderTypes DEF OrderInv
<1>6. RecordsInOrder'
  BY <1>1, <1>2, <1>4, <1>5, OrderAsPartsNext
<1> QED BY <1>1, <1>3, <1>6, OrderTypes

LEMMA OrderAppend ==
  ASSUME OrderInv, AppendRecord
  PROVE  Recycled' /\ file' \in Seq(Nat) /\ RecordsInOrder'
<1> DEFINE x == logged + 1
<1>1. /\ file \in Seq(Nat) /\ buffersToWrite \in Seq(Seq(Nat))
      /\ at \in 1..(Len(buffersToWrite) + 1)
      /\ buffers_ \in Seq(Seq(Nat)) /\ currentBuffer_ \in Seq(Nat) /\ logged \in Nat
      /\ x \in Nat
  BY OrderTypes
<1>2. /\ pc # "write" /\ pc' = pc /\ logged' = x
      /\ UNCHANGED <<newBuffer1, newBuffer2, buffersToWrite, at, file>>
  BY DEF AppendRecord
<1>3. Parts(file, buffersToWrite, at, buffers_, currentBuffer_) = Upto(logged)
  BY OrderAsParts DEF OrderInv
<1>4. Cat(Upto(logged), <<x>>) = Upto(x)
  <2>1. Upto(logged) \in Seq(Nat) /\ Append(Upto(logged), x) = Upto(x)
    BY <1>1, UptoNext
  <2> QED BY <1>1, <2>1, AppendIsConcat DEF Cat
<1>0. <<x>> \in Seq(Nat)
  BY <1>1
<1> SUFFICES /\ nextBuffer_' \in {<<>>, Null}
             /\ Parts(file, buffersToWrite, at, buffers_', currentBuffer_')
                  = Cat(Parts(file, buffersToWrite, at, buffers_, currentBuffer_), <<x>>)
  <2>1. RecordsInOrder'
    BY <1>2, <1>3, <1>4, OrderAsPartsNext
  <2>2. Recycled'
    BY <1>2 DEF OrderInv, Recycled
  <2> QED BY <1>1, <1>2, <2>1, <2>2
<1>5. CASE Valid(currentBuffer_)
  <2>1. /\ currentBuffer_' = Append(currentBuffer_, x) /\ buffers_' = buffers_
        /\ nextBuffer_' = nextBuffer_
    BY <1>5 DEF AppendRecord
  <2>2. Append(currentBuffer_, x) = Cat(currentBuffer_, <<x>>)
    BY <1>1, AppendIsConcat DEF Cat
  <2>3. Parts(file, buffersToWrite, at, buffers_, Cat(currentBuffer_, <<x>>))
          = Cat(Parts(file, buffersToWrite, at, buffers_, currentBuffer_), <<x>>)
    <3> DEFINE e == <<x>>
    <3>1. e \in Seq(Nat)
      BY <1>0
    <3> HIDE DEF e
    <3>2. Parts(file, buffersToWrite, at, buffers_, Cat(currentBuffer_, e))
            = Cat(Parts(file, buffersToWrite, at, buffers_, currentBuffer_), e)
      BY <1>1, <3>1, PartsAppend
    <3> QED BY <3>2, Zenon DEF e
  <2>4. nextBuffer_ \in {<<>>, Null}
    BY DEF OrderInv, Recycled
  <2> QED BY <2>1, <2>2, <2>3, <2>4
<1>6. CASE ~Valid(currentBuffer_)
  <2>1. /\ buffers_' = Append(buffers_, currentBuffer_) /\ nextBuffer_' = Null
        /\ currentBuffer_' = IF nextBuffer_ # Null THEN Append(nextBuffer_, x) ELSE <<x>>
    BY <1>6 DEF AppendRecord
  <2>2. currentBuffer_' = <<x>>
    <3>1. nextBuffer_ \in {<<>>, Null} /\ Append(<<>>, x) = <<x>>
      BY DEF OrderInv, Recycled
    <3> QED BY <2>1, <3>1
  <2>3. Parts(file, buffersToWrite, at, Append(buffers_, currentBuffer_), <<x>>)
          = Cat(Parts(file, buffersToWrite, at, buffers_, currentBuffer_), <<x>>)
    <3> DEFINE e == <<x>>
    <3>1. e \in Seq(Nat)
      BY <1>0
    <3> HIDE DEF e
    <3>2. Parts(file, buffersToWrite, at, Append(buffers_, currentBuffer_), e)
            = Cat(Parts(file, buffersToWrite, at, buffers_, currentBuffer_), e)
      BY <1>1, <3>1, PartsFull
    <3> QED BY <3>2, Zenon DEF e
  <2> QED BY <2>1, <2>2, <2>3
<1> QED BY <1>5, <1>6

LEMMA OrderWrite ==
  ASSUME OrderInv, WriteBuffer
  PROVE  Recycled' /\ file' \in Seq(Nat) /\ RecordsInOrder'
<1>1. /\ file' = Cat(file, buffersToWrite[at]) /\ at' = at + 1
      /\ UNCHANGED <<currentBuffer_, nextBuffer_, buffers_, newBuffer1, newBuffer2,
                     buffersToWrite, pc, logged>>
  BY DEF WriteBuffer, Cat
<1>2. /\ file \in Seq(Nat) /\ buffersToWrite \in Seq(Seq(Nat)) /\ at \in 1..Len(buffersToWrite)
  BY OrderTypes DEF WriteBuffer
<1>3. buffersToWrite[at] \in Seq(Nat)
  BY <1>2, ElementOfSeq
<1>4. file' \in Seq(Nat)
  BY <1>1, <1>2, <1>3, CatFacts
<1>5. Recycled'
  BY <1>1 DEF OrderInv, Recycled
<1>6. Parts(Cat(file, buffersToWrite[at]), buffersToWrite, at + 1, buffers_, currentBuffer_)
        = Parts(file, buffersToWrite, at, buffers_, currentBuffer_)
  BY <1>2, PartsWrite
<1>7. RecordsInOrder'
  BY <1>1, <1>6, OrderAsParts, OrderAsPartsNext DEF OrderInv
<1> QED BY <1>4, <1>5, <1>7

LEMMA OrderRefill ==
  ASSUME OrderInv, Refill
  PROVE  Recycled' /\ file' \in Seq(Nat) /\ RecordsInOrder'
<1>1. /\ at > Len(buffersToWrite) /\ newBuffer1' = <<>> /\ newBuffer2' \in {<<>>, newBuffer2, Null}
      /\ buffersToWrite' = <<>> /\ at' = 1 /\ pc' = "check"
      /\ UNCHANGED <<currentBuffer_, nextBuffer_, buffers_, file, logged>>
  BY DEF Refill, Reset
<1>2. Recycled'
  BY <1>1 DEF OrderInv, Recycled
<1>3. Parts(file, <<>>, 1, buffers_, currentBuffer_)
        = Parts(file, buffersToWrite, at, buffers_, currentBuffer_)
  BY <1>1, OrderTypes, PartsClear
<1>4. RecordsInOrder'
  BY <1>1, <1>3, OrderAsParts, OrderAsPartsNext DEF OrderInv
<1> QED BY <1>1, <1>2, <1>4, OrderTypes

LEMMA OrderKept ==
  ASSUME OrderInv, UNCHANGED <<buffers, file, logged>>, pc # "write" => pc' # "write"
  PROVE  Recycled' /\ file' \in Seq(Nat) /\ RecordsInOrder'
BY DEF OrderInv, Recycled, RecordsInOrder, buffers

LEMMA OrderStep == OrderInv /\ [Next]_vars => OrderInv'
<1> SUFFICES ASSUME OrderInv, [Next]_vars PROVE OrderInv'
  OBVIOUS
<1>1. LoggingInv'
  BY LoggingStep DEF OrderInv
<1> SUFFICES Recycled' /\ file' \in Seq(Nat) /\ RecordsInOrder'
  BY <1>1 DEF OrderInv
<1>2. CASE AppendRecord
  BY <1>2, OrderAppend
<1>3. CASE Start \/ Stop \/ Finish
  BY <1>3, OrderKept DEF Start, Stop, Finish
<1>4. CASE CheckRunning
  <2>1. CASE Collect
    BY <1>4, <2>1, OrderCollect DEF CheckRunning
  <2>2. CASE /\ pc' = "wait"
             /\ UNCHANGED <<running_, buffers, file, logged, loggedAtStop>>
    BY <2>2, OrderKept
  <2> QED BY <1>4, <2>1, <2>2 DEF CheckRunning
<1>5. CASE WaitReturns
  BY <1>5, OrderCollect DEF WaitReturns
<1>6. CASE WriteBuffer
  BY <1>6, OrderWrite
<1>7. CASE Refill
  BY <1>7, OrderRefill
<1>8. CASE UNCHANGED vars
  BY <1>8, OrderKept DEF vars
<1> QED BY <1>2, <1>3, <1>4, <1>5, <1>6, <1>7, <1>8 DEF Next, ThreadFunc

LEMMA OrderAlways == Safety => []OrderInv
<1>1. ASSUME Init PROVE Recycled /\ file \in Seq(Nat) /\ RecordsInOrder
  <2>1. Recycled /\ file \in Seq(Nat)
    BY <1>1, EmptySeq DEF Init, Recycled
  <2>2. Upto(0) = <<>>
    BY DEF Upto
  <2>3. Parts(<<>>, <<>>, 1, <<>>, <<>>) = <<>>
    <3>1. SubSeq(<<>>, 1, 0) = <<>> /\ Len(<<>>) = 0 /\ <<>> \in Seq(Nat)
      BY SubSeqEmpty, EmptySeq
    <3>2. Cat(<<>>, <<>>) = <<>>
      BY <3>1, CatFacts
    <3> QED BY <3>1, <3>2, FlattenEmpty DEF Parts
  <2>4. RecordsInOrder
    BY <1>1, <2>2, <2>3, OrderAsParts DEF Init
  <2> QED BY <2>1, <2>4
<1>2. Init => LoggingInv
  BY LoggingInitially
<1>3. Init => OrderInv
  BY <1>1, <1>2 DEF OrderInv
<1> QED BY <1>3, OrderStep, PTL DEF Safety

\* No record is lost, duplicated or reordered on its way through the buffers.
THEOREM RecordsAlwaysInOrder == Safety => []RecordsInOrder
<1>1. OrderInv => RecordsInOrder
  BY DEF OrderInv
<1> QED BY <1>1, OrderAlways, PTL

-----------------------------------------------------------------------------
FileType == [name : Nat, data : Seq(Nat), writtenBytes_ : Nat, flushed : Nat,
             late : Nat, oldest : Nat]

ClosedType == [name : Nat, data : Seq(Nat), writtenBytes_ : Nat]

OutputType == [closed : Seq(ClosedType), file_ : FileType, count_ : Nat,
               startOfPeriod_ : Nat, lastRoll_ : Nat, lastFlush_ : Nat,
               lost : SUBSET Nat, failures : Nat]

-----------------------------------------------------------------------------
\* A later time has no earlier day.
LEMMA DivMonotone ==
  ASSUME NEW K \in Nat \ {0}, NEW s \in Nat, NEW t \in Nat, s <= t
  PROVE  s \div K \in Nat /\ t \div K \in Nat /\ s \div K <= t \div K
OBVIOUS

LEMMA TimesMonotone ==
  ASSUME NEW K \in Nat, NEW a \in Nat, NEW b \in Nat, a <= b
  PROVE  a * K \in Nat /\ b * K \in Nat /\ a * K <= b * K
OBVIOUS

LEMMA PeriodMonotone ==
  ASSUME NEW s \in Nat, NEW t \in Nat, s <= t
  PROVE  PeriodOf(s) \in Nat /\ PeriodOf(t) \in Nat /\ PeriodOf(s) <= PeriodOf(t)
BY LogFileAssumption, DivMonotone, TimesMonotone DEF PeriodOf

LEMMA CountedFacts ==
  ASSUME NEW a \in Nat, NEW b \in Nat
  PROVE  /\ Counted(a) \in Nat
         /\ a <= b => Counted(a) <= Counted(b)
         /\ a <= Counted(a) /\ Counted(a) > 0
BY LogFileAssumption DEF Counted

\* The updates that the operations make, with the new values of the fields.
AppendTo(o, d, w, a, l, s, x) ==
  [o EXCEPT !.file_.data = d, !.file_.writtenBytes_ = w, !.file_.oldest = a,
            !.file_.late = l, !.lost = s, !.failures = x]

RollTo(o, t, p, q, f) ==
  [o EXCEPT !.lastFlush_ = t, !.lastRoll_ = t, !.startOfPeriod_ = p, !.closed = q, !.file_ = f]

CountTo(o, k) == [o EXCEPT !.count_ = k]

FlushTo(o, t, k) == [[o EXCEPT !.lastFlush_ = t] EXCEPT !.file_.flushed = k]

LEMMA AppendShape ==
  ASSUME NEW o \in OutputType, NEW d, NEW w, NEW a, NEW l, NEW s, NEW x,
         NEW r, r = AppendTo(o, d, w, a, l, s, x)
  PROVE  /\ r.file_ = [name |-> o.file_.name, data |-> d, writtenBytes_ |-> w,
                       flushed |-> o.file_.flushed, late |-> l, oldest |-> a]
         /\ r = [closed |-> o.closed, file_ |-> r.file_, count_ |-> o.count_,
                 startOfPeriod_ |-> o.startOfPeriod_, lastRoll_ |-> o.lastRoll_,
                 lastFlush_ |-> o.lastFlush_, lost |-> s, failures |-> x]
BY DEF AppendTo, OutputType, FileType

\* What FileUtil::append() makes of the LogFile.
Appended(o, a, chunk, n, t) ==
  LET rest == SubSeq(chunk, n + 1, Len(chunk)) IN
  /\ a \in OutputType
  /\ a.closed = o.closed /\ a.count_ = o.count_ /\ a.startOfPeriod_ = o.startOfPeriod_
  /\ a.lastRoll_ = o.lastRoll_ /\ a.lastFlush_ = o.lastFlush_
  /\ a.lost = o.lost \cup Range(rest)
  /\ a.file_.name = o.file_.name /\ a.file_.flushed = o.file_.flushed
  /\ a.file_.data = o.file_.data \o SubSeq(chunk, 1, n)
  /\ Len(a.file_.data) = Len(o.file_.data) + n
  /\ a.file_.late = IF PeriodOf(t) > o.startOfPeriod_ THEN Counted(o.file_.late) ELSE o.file_.late
  /\ a.file_.oldest = IF o.file_.flushed = Len(o.file_.data) THEN t ELSE o.file_.oldest

\* The pieces into which the disk cuts a chunk.
LEMMA Pieces ==
  ASSUME NEW chunk \in Seq(Nat), NEW n \in 0..Len(chunk)
  PROVE  /\ SubSeq(chunk, 1, n) \in Seq(Nat) /\ Len(SubSeq(chunk, 1, n)) = n
         /\ \A i \in 1..n : SubSeq(chunk, 1, n)[i] = chunk[i]
         /\ SubSeq(chunk, n + 1, Len(chunk)) \in Seq(Nat)
         /\ Len(SubSeq(chunk, n + 1, Len(chunk))) = Len(chunk) - n
         /\ Range(SubSeq(chunk, n + 1, Len(chunk))) = {chunk[i] : i \in (n + 1)..Len(chunk)}
         /\ Range(SubSeq(chunk, n + 1, Len(chunk))) \in SUBSET Nat
<1>1. Len(chunk) \in Nat /\ n \in Nat /\ n <= Len(chunk)
  BY LenProperties
<1>2. \A i \in 1..Len(chunk) : chunk[i] \in Nat
  BY ElementOfSeq
<1>3. /\ SubSeq(chunk, 1, n) \in Seq(Nat) /\ Len(SubSeq(chunk, 1, n)) = n
      /\ \A i \in 1..n : SubSeq(chunk, 1, n)[i] = chunk[i]
  BY <1>1, <1>2, SubSeqProperties
<1> DEFINE rest == SubSeq(chunk, n + 1, Len(chunk))
           k == Len(chunk)
<1>4. rest \in Seq(Nat) /\ Len(rest) = k - n /\ \A i \in 1..(k - n) : rest[i] = chunk[n + i]
  BY <1>1, <1>2, SubSeqProperties
<1>5. DOMAIN rest = 1..(k - n)
  BY <1>4, LenProperties
<1> HIDE DEF rest, k
<1>6. Range(rest) = {rest[i] : i \in 1..(k - n)}
  BY <1>5 DEF Range
<1>7. k \in Nat /\ n <= k
  BY <1>1 DEF k
<1>8. ASSUME NEW i \in (n + 1)..k PROVE i - n \in 1..(k - n) /\ rest[i - n] = chunk[i]
  BY <1>1, <1>4, <1>7
<1>9. ASSUME NEW i \in 1..(k - n) PROVE n + i \in (n + 1)..k /\ rest[i] = chunk[n + i]
  BY <1>1, <1>4, <1>7
<1>10. Range(rest) = {chunk[i] : i \in (n + 1)..k}
  BY <1>6, <1>8, <1>9
<1>11. ASSUME NEW i \in (n + 1)..k PROVE chunk[i] \in Nat
  BY <1>1, <1>2, <1>7 DEF k
<1> QED BY <1>3, <1>4, <1>10, <1>11 DEF rest, k

LEMMA AppendFields ==
  ASSUME NEW o \in OutputType, NEW chunk \in Seq(Nat), NEW n \in 0..Len(chunk), NEW t \in Nat
  PROVE  Appended(o, FileAppend(o, chunk, n, t), chunk, n, t)
<1> DEFINE rest == SubSeq(chunk, n + 1, Len(chunk))
           d == o.file_.data \o SubSeq(chunk, 1, n)
           w == IF rest = <<>> THEN o.file_.writtenBytes_ + n ELSE o.file_.writtenBytes_
           y == IF o.file_.flushed = Len(o.file_.data) THEN t ELSE o.file_.oldest
           l == IF PeriodOf(t) > o.startOfPeriod_ THEN Counted(o.file_.late) ELSE o.file_.late
           s == o.lost \cup Range(rest)
           x == IF rest = <<>> THEN o.failures ELSE o.failures + 1
           a == FileAppend(o, chunk, n, t)
<1>1. a = AppendTo(o, d, w, y, l, s, x)
  BY DEF FileAppend, AppendTo
<1>2. /\ o.file_.data \in Seq(Nat) /\ o.file_.writtenBytes_ \in Nat /\ o.file_.oldest \in Nat
      /\ o.file_.late \in Nat /\ o.lost \in SUBSET Nat /\ o.failures \in Nat
      /\ o.file_.name \in Nat /\ o.file_.flushed \in Nat
  BY DEF OutputType, FileType
<1>3. d \in Seq(Nat) /\ Len(d) = Len(o.file_.data) + n
  <2> DEFINE p == SubSeq(chunk, 1, n)
  <2>1. p \in Seq(Nat) /\ Len(p) = n
    BY Pieces
  <2> HIDE DEF p
  <2>2. o.file_.data \o p \in Seq(Nat) /\ Len(o.file_.data \o p) = Len(o.file_.data) + Len(p)
    BY <1>2, <2>1, ConcatProperties
  <2> QED BY <2>1, <2>2 DEF p
<1>4. n \in Nat
  <2>1. Len(chunk) \in Nat
    BY LenProperties
  <2> HIDE DEF rest, d, w, y, l, s, x, a
  <2> QED BY <2>1
<1>5. w \in Nat /\ y \in Nat /\ x \in Nat
  BY <1>2, <1>4, SMTT(30)
<1>6. l \in Nat
  BY <1>2, CountedFacts
<1>7. s \in SUBSET Nat
  BY <1>2, Pieces
<1> HIDE DEF d, w, y, l, s, x, a
<1>8. /\ a.file_ = [name |-> o.file_.name, data |-> d, writtenBytes_ |-> w,
                    flushed |-> o.file_.flushed, late |-> l, oldest |-> y]
      /\ a = [closed |-> o.closed, file_ |-> a.file_, count_ |-> o.count_,
              startOfPeriod_ |-> o.startOfPeriod_, lastRoll_ |-> o.lastRoll_,
              lastFlush_ |-> o.lastFlush_, lost |-> s, failures |-> x]
  BY <1>1, AppendShape
<1>9. a.file_ \in FileType
  BY <1>2, <1>3, <1>5, <1>6, <1>8 DEF FileType
<1>10. a \in OutputType
  BY <1>5, <1>7, <1>8, <1>9 DEF OutputType
<1>11. /\ a.closed = o.closed /\ a.count_ = o.count_ /\ a.startOfPeriod_ = o.startOfPeriod_
       /\ a.lastRoll_ = o.lastRoll_ /\ a.lastFlush_ = o.lastFlush_ /\ a.lost = s
  BY <1>8
<1>12. /\ a.file_.name = o.file_.name /\ a.file_.flushed = o.file_.flushed
       /\ a.file_.data = d /\ a.file_.late = l /\ a.file_.oldest = y
  BY <1>8
<1> QED BY <1>3, <1>10, <1>11, <1>12 DEF Appended, a, d, y, l, s

-----------------------------------------------------------------------------
\* rollFile() took a new file, at the time later, for one of the two reasons.
Rolled(a, b, t, later) ==
  /\ b \in OutputType
  /\ later > a.lastRoll_
  /\ b.closed = IF a.lastRoll_ = 0 THEN a.closed ELSE Append(a.closed, Closed(a.file_))
  /\ b.file_ = FileUtil(later)
  /\ b.lastRoll_ = later /\ b.lastFlush_ = later /\ b.startOfPeriod_ = PeriodOf(later)
  /\ b.lost = a.lost
  /\ a.file_.writtenBytes_ > RollSize \/ PeriodOf(t) # a.startOfPeriod_

\* The file is kept, since it need not or must not be replaced.
Kept(a, b, t, later) ==
  /\ b \in OutputType
  /\ b.closed = a.closed /\ b.file_ = a.file_ /\ b.lost = a.lost
  /\ b.lastRoll_ = a.lastRoll_ /\ b.lastFlush_ = a.lastFlush_
  /\ b.startOfPeriod_ = a.startOfPeriod_
  /\ a.file_.writtenBytes_ > RollSize => later <= a.lastRoll_
  /\ later = t \/ later <= a.lastRoll_
  /\ \/ b.count_ = Counted(a.count_)
        /\ (a.file_.writtenBytes_ > RollSize \/ Counted(a.count_) < CheckEveryN)
     \/ b.count_ = 0 /\ (PeriodOf(t) = a.startOfPeriod_ \/ later <= a.lastRoll_)

LEMMA FileUtilFields ==
  ASSUME NEW t \in Nat
  PROVE  /\ FileUtil(t) \in FileType
         /\ FileUtil(t).name = t /\ FileUtil(t).data = <<>> /\ FileUtil(t).writtenBytes_ = 0
         /\ FileUtil(t).flushed = 0 /\ FileUtil(t).late = 0
BY DEF FileUtil, FileType

LEMMA ClosedFields ==
  ASSUME NEW f \in FileType
  PROVE  /\ Closed(f) \in ClosedType
         /\ Closed(f).name = f.name /\ Closed(f).data = f.data
         /\ Closed(f).writtenBytes_ = f.writtenBytes_
BY DEF Closed, ClosedType, FileType

LEMMA RollShape ==
  ASSUME NEW o \in OutputType, NEW t \in Nat, NEW p \in Nat, NEW q \in Seq(ClosedType),
         NEW f \in FileType, NEW b, b = RollTo(o, t, p, q, f)
  PROVE  /\ b \in OutputType
         /\ b.closed = q /\ b.file_ = f /\ b.lastRoll_ = t /\ b.lastFlush_ = t
         /\ b.startOfPeriod_ = p /\ b.lost = o.lost /\ b.count_ = o.count_
BY DEF RollTo, OutputType

LEMMA CountShape ==
  ASSUME NEW o \in OutputType, NEW k \in Nat, NEW b, b = CountTo(o, k)
  PROVE  /\ b \in OutputType
         /\ b.closed = o.closed /\ b.file_ = o.file_ /\ b.lastRoll_ = o.lastRoll_
         /\ b.lastFlush_ = o.lastFlush_ /\ b.startOfPeriod_ = o.startOfPeriod_
         /\ b.lost = o.lost /\ b.count_ = k
BY DEF CountTo, OutputType

LEMMA RollFields ==
  ASSUME NEW o \in OutputType, NEW t \in Nat
  PROVE  LET b == RollFile(o, t) IN
         /\ t > o.lastRoll_ =>
              /\ b \in OutputType
              /\ b.closed = IF o.lastRoll_ = 0 THEN o.closed ELSE Append(o.closed, Closed(o.file_))
              /\ b.file_ = FileUtil(t)
              /\ b.lastRoll_ = t /\ b.lastFlush_ = t /\ b.startOfPeriod_ = PeriodOf(t)
              /\ b.lost = o.lost /\ b.count_ = o.count_
         /\ ~(t > o.lastRoll_) => b = o
<1> DEFINE p == PeriodOf(t)
           q == IF o.lastRoll_ = 0 THEN o.closed ELSE Append(o.closed, Closed(o.file_))
           f == FileUtil(t)
           b == RollFile(o, t)
<1>1. o.closed \in Seq(ClosedType) /\ o.file_ \in FileType
  BY DEF OutputType
<1>2. q \in Seq(ClosedType)
  BY <1>1, ClosedFields, AppendProperties
<1>3. p \in Nat /\ f \in FileType
  BY PeriodMonotone, FileUtilFields
<1>4. t > o.lastRoll_ => b = RollTo(o, t, p, q, f)
  BY DEF RollFile, RollTo
<1>5. ~(t > o.lastRoll_) => b = o
  BY DEF RollFile
<1> HIDE DEF p, q, f, b
<1>6. t > o.lastRoll_ =>
         /\ b \in OutputType
         /\ b.closed = q /\ b.file_ = f /\ b.lastRoll_ = t /\ b.lastFlush_ = t
         /\ b.startOfPeriod_ = p /\ b.lost = o.lost /\ b.count_ = o.count_
  BY <1>2, <1>3, <1>4, RollShape
<1> QED BY <1>5, <1>6 DEF p, q, f, b

LEMMA CheckRollCases ==
  ASSUME NEW a \in OutputType, NEW t \in Nat, NEW later \in Nat,
         ~RollIsDue(a, t) => later = t
  PROVE  \/ Rolled(a, CheckRoll(a, t, later), t, later)
         \/ Kept(a, CheckRoll(a, t, later), t, later)
<1> DEFINE b == CheckRoll(a, t, later)
           k == Counted(a.count_)
           c == CountTo(a, k)
           z == CountTo(a, 0)
<1>1. a.count_ \in Nat /\ a.file_.writtenBytes_ \in Nat /\ a.lastRoll_ \in Nat
  BY DEF OutputType, FileType
<1>2. k \in Nat
  BY <1>1, CountedFacts
<1>3. c.count_ = k
  BY <1>2, CountShape
<1> DEFINE large == a.file_.writtenBytes_ > RollSize
           other == PeriodOf(t) # a.startOfPeriod_
<1>4. \/ large /\ b = RollFile(c, later)
      \/ ~large /\ other /\ b = RollFile(z, later)
      \/ ~large /\ ~other /\ b = z /\ later = t
      \/ ~large /\ k < CheckEveryN /\ b = c /\ later = t
  <2> DEFINE looks == a.file_.writtenBytes_ <= RollSize /\ k >= CheckEveryN
             counted == [a EXCEPT !.count_ = IF looks THEN 0 ELSE k]
             due == RollIsDue(a, t)
  <2>1. b = IF due THEN RollFile(counted, later) ELSE counted
    BY DEF CheckRoll
  <2>2. looks <=> ~large /\ k >= CheckEveryN
    BY <1>1, LogFileAssumption
  <2>3. due <=> large \/ (k >= CheckEveryN /\ other)
    BY DEF RollIsDue
  <2>4. /\ looks => counted = z
        /\ ~looks => counted = c
    BY DEF CountTo
  <2>5. k >= CheckEveryN \/ k < CheckEveryN
    BY <1>2, LogFileAssumption
  <2>6. due \/ later = t
    OBVIOUS
  <2> HIDE DEF b, c, z, k, large, other, looks, counted, due
  <2> QED BY <2>1, <2>2, <2>3, <2>4, <2>5, <2>6
<1> HIDE DEF b, k
<1>5. /\ c \in OutputType
      /\ c.closed = a.closed /\ c.file_ = a.file_ /\ c.lastRoll_ = a.lastRoll_
      /\ c.lastFlush_ = a.lastFlush_ /\ c.startOfPeriod_ = a.startOfPeriod_
      /\ c.lost = a.lost
  BY <1>2, CountShape
<1>6. /\ z \in OutputType
      /\ z.closed = a.closed /\ z.file_ = a.file_ /\ z.lastRoll_ = a.lastRoll_
      /\ z.lastFlush_ = a.lastFlush_ /\ z.startOfPeriod_ = a.startOfPeriod_
      /\ z.lost = a.lost /\ z.count_ = 0
  BY CountShape
<1> HIDE DEF c, z
<1> SUFFICES Rolled(a, b, t, later) \/ Kept(a, b, t, later)
  BY DEF b
<1>7. CASE large /\ b = RollFile(c, later)
  <2>1. CASE later > a.lastRoll_
    <3>1. /\ b \in OutputType
          /\ b.closed = IF c.lastRoll_ = 0 THEN c.closed ELSE Append(c.closed, Closed(c.file_))
          /\ b.file_ = FileUtil(later)
          /\ b.lastRoll_ = later /\ b.lastFlush_ = later /\ b.startOfPeriod_ = PeriodOf(later)
          /\ b.lost = c.lost
      BY <1>5, <1>7, <2>1, RollFields, Zenon
    <3> QED BY <1>5, <1>7, <2>1, <3>1 DEF Rolled
  <2>2. CASE ~(later > a.lastRoll_)
    <3>1. b = c
      BY <1>5, <1>7, <2>2, RollFields, Zenon
    <3>2. later <= a.lastRoll_
      BY <1>1, <2>2
    <3> QED BY <1>3, <1>5, <1>7, <3>1, <3>2 DEF Kept, k
  <2> QED BY <2>1, <2>2
<1>8. CASE ~large /\ other /\ b = RollFile(z, later)
  <2>1. CASE later > a.lastRoll_
    <3>1. /\ b \in OutputType
          /\ b.closed = IF z.lastRoll_ = 0 THEN z.closed ELSE Append(z.closed, Closed(z.file_))
          /\ b.file_ = FileUtil(later)
          /\ b.lastRoll_ = later /\ b.lastFlush_ = later /\ b.startOfPeriod_ = PeriodOf(later)
          /\ b.lost = z.lost
      BY <1>6, <1>8, <2>1, RollFields, Zenon
    <3> QED BY <1>6, <1>8, <2>1, <3>1 DEF Rolled
  <2>2. CASE ~(later > a.lastRoll_)
    <3>1. b = z
      BY <1>6, <1>8, <2>2, RollFields, Zenon
    <3>2. later <= a.lastRoll_
      BY <1>1, <2>2
    <3> QED BY <1>6, <1>8, <3>1, <3>2 DEF Kept
  <2> QED BY <2>1, <2>2
<1>9. CASE ~large /\ ~other /\ b = z /\ later = t
  BY <1>6, <1>9 DEF Kept
<1>10. CASE ~large /\ k < CheckEveryN /\ b = c /\ later = t
  BY <1>3, <1>5, <1>10 DEF Kept, k
<1> QED BY <1>4, <1>7, <1>8, <1>9, <1>10

\* What checking for a flush may change.
Checked(b, c, t) ==
  /\ c \in OutputType
  /\ c.closed = b.closed /\ c.count_ = b.count_ /\ c.startOfPeriod_ = b.startOfPeriod_
  /\ c.lastRoll_ = b.lastRoll_ /\ c.lost = b.lost
  /\ c.file_.name = b.file_.name /\ c.file_.data = b.file_.data
  /\ c.file_.writtenBytes_ = b.file_.writtenBytes_
  /\ c.file_.late = b.file_.late /\ c.file_.oldest = b.file_.oldest
  /\ \/ c.lastFlush_ = t /\ c.file_.flushed = Len(c.file_.data)
     \/ /\ c.lastFlush_ = b.lastFlush_ /\ c.file_.flushed = b.file_.flushed
        /\ t <= b.lastFlush_ + FlushInterval

LEMMA FlushShape ==
  ASSUME NEW o \in OutputType, NEW t \in Nat, NEW k \in Nat, NEW c, c = FlushTo(o, t, k)
  PROVE  /\ c \in OutputType
         /\ c.closed = o.closed /\ c.count_ = o.count_ /\ c.startOfPeriod_ = o.startOfPeriod_
         /\ c.lastRoll_ = o.lastRoll_ /\ c.lost = o.lost /\ c.lastFlush_ = t
         /\ c.file_.name = o.file_.name /\ c.file_.data = o.file_.data
         /\ c.file_.writtenBytes_ = o.file_.writtenBytes_
         /\ c.file_.late = o.file_.late /\ c.file_.oldest = o.file_.oldest
         /\ c.file_.flushed = k
<1> DEFINE p == [o EXCEPT !.lastFlush_ = t]
<1>1. /\ p \in OutputType
      /\ p.closed = o.closed /\ p.count_ = o.count_ /\ p.startOfPeriod_ = o.startOfPeriod_
      /\ p.lastRoll_ = o.lastRoll_ /\ p.lost = o.lost /\ p.lastFlush_ = t
      /\ p.file_ = o.file_
  BY DEF OutputType
<1>2. c = [p EXCEPT !.file_.flushed = k]
  BY DEF FlushTo
<1> HIDE DEF p
<1> DEFINE f == [o.file_ EXCEPT !.flushed = k]
<1>3. c = [p EXCEPT !.file_ = f]
  BY <1>1, <1>2 DEF OutputType
<1>4. /\ f \in FileType
      /\ f.name = o.file_.name /\ f.data = o.file_.data /\ f.writtenBytes_ = o.file_.writtenBytes_
      /\ f.late = o.file_.late /\ f.oldest = o.file_.oldest /\ f.flushed = k
  BY DEF OutputType, FileType
<1> HIDE DEF f
<1>5. /\ c \in OutputType /\ c.file_ = f
      /\ c.closed = p.closed /\ c.count_ = p.count_ /\ c.startOfPeriod_ = p.startOfPeriod_
      /\ c.lastRoll_ = p.lastRoll_ /\ c.lost = p.lost /\ c.lastFlush_ = p.lastFlush_
  BY <1>1, <1>3, <1>4 DEF OutputType
<1> QED BY <1>1, <1>4, <1>5

LEMMA CheckFlushCases ==
  ASSUME NEW b \in OutputType, NEW t \in Nat
  PROVE  Checked(b, CheckFlush(b, t), t)
<1> DEFINE c == CheckFlush(b, t)
           k == Len(b.file_.data)
<1>1. b.lastFlush_ \in Nat /\ b.file_.data \in Seq(Nat)
  BY DEF OutputType, FileType
<1>2. k \in Nat
  BY <1>1, LenProperties
<1>3. CASE t > b.lastFlush_ + FlushInterval
  <2>1. [b EXCEPT !.lastFlush_ = t].file_ = b.file_
    BY DEF OutputType
  <2>2. c = FlushTo(b, t, k)
    BY <1>3, <2>1 DEF CheckFlush, FlushOutput, FlushTo
  <2> HIDE DEF c, k
  <2>3. Checked(b, c, t)
    <3>1. /\ c \in OutputType
          /\ c.closed = b.closed /\ c.count_ = b.count_ /\ c.startOfPeriod_ = b.startOfPeriod_
          /\ c.lastRoll_ = b.lastRoll_ /\ c.lost = b.lost /\ c.lastFlush_ = t
          /\ c.file_.name = b.file_.name /\ c.file_.data = b.file_.data
          /\ c.file_.writtenBytes_ = b.file_.writtenBytes_
          /\ c.file_.late = b.file_.late /\ c.file_.oldest = b.file_.oldest
          /\ c.file_.flushed = k
      BY <1>2, <2>2, FlushShape
    <3> QED BY <3>1 DEF Checked, k
  <2> QED BY <2>3 DEF c
<1>4. CASE ~(t > b.lastFlush_ + FlushInterval)
  <2>1. c = b
    BY <1>4 DEF CheckFlush
  <2>2. t <= b.lastFlush_ + FlushInterval
    BY <1>1, <1>4, LogFileAssumption
  <2> QED BY <2>1, <2>2 DEF Checked
<1> QED BY <1>3, <1>4

-----------------------------------------------------------------------------
\* The names of the files increase.
Named(o) ==
  \A i \in 1..Len(o.closed) :
    /\ i = Len(o.closed) => o.closed[i].name < o.file_.name
    /\ i # Len(o.closed) => o.closed[i].name < o.closed[i + 1].name

\* What holds of the LogFile whatever the clock does.
OutputOK(o) ==
  /\ o \in OutputType
  /\ o.file_.name = o.lastRoll_
  /\ o.startOfPeriod_ = PeriodOf(o.lastRoll_)
  /\ o.file_.flushed <= Len(o.file_.data)
  /\ Named(o)

\* What holds of it at the time clock, when the clock was set back so often.
Sized(o, clock) == o.file_.writtenBytes_ > RollSize => clock <= o.lastRoll_

Lagging(o, clock) ==
  /\ o.lastRoll_ <= clock /\ o.lastFlush_ <= clock
  /\ o.file_.flushed < Len(o.file_.data) =>
       /\ o.lastFlush_ <= o.file_.oldest
       /\ clock <= o.file_.oldest + FlushInterval

Late(o, clock) ==
  /\ o.file_.late < CheckEveryN /\ o.file_.late <= o.count_
  /\ o.file_.late > 0 => PeriodOf(clock) > o.startOfPeriod_

LEMMA OutputNumbers ==
  ASSUME NEW o \in OutputType
  PROVE  /\ o.file_ \in FileType /\ o.closed \in Seq(ClosedType) /\ Len(o.closed) \in Nat
         /\ o.file_.data \in Seq(Nat) /\ Len(o.file_.data) \in Nat
         /\ o.file_.name \in Nat /\ o.file_.writtenBytes_ \in Nat /\ o.file_.flushed \in Nat
         /\ o.file_.late \in Nat /\ o.file_.oldest \in Nat
         /\ o.count_ \in Nat /\ o.startOfPeriod_ \in Nat /\ o.lastRoll_ \in Nat
         /\ o.lastFlush_ \in Nat /\ o.lost \in SUBSET Nat
<1>1. o.file_ \in FileType /\ o.closed \in Seq(ClosedType) /\ o.file_.data \in Seq(Nat)
  BY DEF OutputType, FileType
<1> QED BY <1>1, LenProperties DEF OutputType, FileType

\* A file that is closed has an earlier name than the next.
LEMMA NamedRoll ==
  ASSUME NEW a \in OutputType, NEW b \in OutputType, Named(a), a.file_.name < b.file_.name,
         b.closed = Append(a.closed, Closed(a.file_))
  PROVE  Named(b)
<1> DEFINE k == Len(a.closed)
<1>1. a.closed \in Seq(ClosedType) /\ k \in Nat /\ a.file_ \in FileType
  BY OutputNumbers
<1>2. Closed(a.file_) \in ClosedType /\ Closed(a.file_).name = a.file_.name
  BY <1>1, ClosedFields
<1>3. /\ Len(b.closed) = k + 1 /\ b.closed[k + 1] = Closed(a.file_)
      /\ \A i \in 1..k : b.closed[i] = a.closed[i]
  BY <1>1, <1>2, AppendProperties
<1>4. \A i \in 1..k : /\ i = k => a.closed[i].name < a.file_.name
                      /\ i # k => a.closed[i].name < a.closed[i + 1].name
  BY DEF Named
<1> HIDE DEF k
<1>5. ASSUME NEW i \in 1..(k + 1)
      PROVE  /\ i = k + 1 => b.closed[i].name < b.file_.name
             /\ i # k + 1 => b.closed[i].name < b.closed[i + 1].name
  <2>1. CASE i = k + 1
    BY <1>2, <1>3, <2>1
  <2>2. CASE i = k
    BY <1>1, <1>2, <1>3, <1>4, <2>2
  <2>3. CASE i \in 1..k /\ i # k
    <3>1. i + 1 \in 1..k /\ i + 1 # k + 1 /\ i # k + 1
      BY <1>1, <2>3
    <3>2. b.closed[i] = a.closed[i] /\ b.closed[i + 1] = a.closed[i + 1]
      BY <1>3, <2>3, <3>1
    <3>3. a.closed[i].name < a.closed[i + 1].name
      BY <1>4, <2>3
    <3> QED BY <3>1, <3>2, <3>3
  <2>4. i = k + 1 \/ i = k \/ (i \in 1..k /\ i # k)
    BY <1>1
  <2> QED BY <2>1, <2>2, <2>3, <2>4
<1> QED BY <1>3, <1>5 DEF Named

LEMMA OutputStep ==
  ASSUME NEW o, NEW a, NEW b, NEW c, NEW chunk \in Seq(Nat), NEW n \in 0..Len(chunk),
         NEW t \in Nat, NEW later \in Nat,
         OutputOK(o), o.lastRoll_ > 0, Appended(o, a, chunk, n, t),
         Rolled(a, b, t, later) \/ Kept(a, b, t, later), Checked(b, c, t)
  PROVE  OutputOK(c)
<1>1. o \in OutputType /\ a \in OutputType /\ b \in OutputType /\ c \in OutputType
  BY DEF OutputOK, Appended, Rolled, Kept, Checked
<1>2. n \in Nat
  BY LenProperties
<1>3. /\ a.closed = o.closed /\ a.file_.name = o.file_.name /\ a.lastRoll_ = o.lastRoll_
      /\ a.startOfPeriod_ = o.startOfPeriod_ /\ a.file_.flushed = o.file_.flushed
      /\ Len(a.file_.data) = Len(o.file_.data) + n
  BY DEF Appended
<1>4. Named(a)
  BY <1>3 DEF OutputOK, Named
<1>5. a.file_.flushed <= Len(a.file_.data)
  BY <1>1, <1>2, <1>3, OutputNumbers, SMTT(30) DEF OutputOK
<1>6. a.file_.name = a.lastRoll_ /\ a.startOfPeriod_ = PeriodOf(a.lastRoll_) /\ a.lastRoll_ # 0
  BY <1>3 DEF OutputOK
<1>7. /\ b.file_.name = b.lastRoll_ /\ b.startOfPeriod_ = PeriodOf(b.lastRoll_)
      /\ b.file_.flushed <= Len(b.file_.data) /\ Named(b)
  <2>1. CASE Rolled(a, b, t, later)
    <3>1. /\ b.file_ = FileUtil(later) /\ b.lastRoll_ = later /\ b.startOfPeriod_ = PeriodOf(later)
          /\ b.closed = Append(a.closed, Closed(a.file_)) /\ a.lastRoll_ < later
      BY <1>6, <2>1 DEF Rolled
    <3>2. b.file_.name = later /\ b.file_.flushed = 0 /\ b.file_.data = <<>>
      BY <3>1, FileUtilFields
    <3>3. Len(b.file_.data) = 0
      BY <3>2, EmptySeq
    <3>4. Named(b)
      BY <1>1, <1>4, <1>6, <3>1, <3>2, NamedRoll
    <3> QED BY <3>1, <3>2, <3>3, <3>4
  <2>2. CASE Kept(a, b, t, later)
    BY <1>4, <1>5, <1>6, <2>2 DEF Kept, Named
  <2> QED BY <2>1, <2>2
<1>8. /\ c.closed = b.closed /\ c.file_.name = b.file_.name /\ c.lastRoll_ = b.lastRoll_
      /\ c.startOfPeriod_ = b.startOfPeriod_ /\ c.file_.data = b.file_.data
      /\ c.file_.flushed = b.file_.flushed \/ c.file_.flushed = Len(c.file_.data)
  BY DEF Checked
<1>9. c.file_.flushed <= Len(c.file_.data)
  BY <1>1, <1>7, <1>8, OutputNumbers
<1>10. Named(c)
  BY <1>7, <1>8 DEF Named
<1> QED BY <1>1, <1>7, <1>8, <1>9, <1>10 DEF OutputOK

LEMMA SizedStep ==
  ASSUME NEW o, NEW a, NEW b, NEW c, NEW chunk \in Seq(Nat), NEW n \in 0..Len(chunk),
         NEW t \in Nat, NEW later \in Nat, Appended(o, a, chunk, n, t),
         Rolled(a, b, t, later) \/ Kept(a, b, t, later), Checked(b, c, t)
  PROVE  Sized(c, later)
<1>1. CASE Rolled(a, b, t, later)
  <2>1. b.file_.writtenBytes_ = 0
    BY <1>1, FileUtilFields DEF Rolled
  <2> QED BY <2>1, LogFileAssumption DEF Checked, Sized
<1>2. CASE Kept(a, b, t, later)
  BY <1>2 DEF Kept, Checked, Sized
<1> QED BY <1>1, <1>2

LEMMA LaggingStep ==
  ASSUME NEW o, NEW a, NEW b, NEW c, NEW chunk \in Seq(Nat), NEW n \in 0..Len(chunk),
         NEW t \in Nat, NEW later \in Nat, NEW clock \in Nat, clock <= t, t <= later,
         OutputOK(o), Lagging(o, clock), Appended(o, a, chunk, n, t),
         Rolled(a, b, t, later) \/ Kept(a, b, t, later), Checked(b, c, t)
  PROVE  Lagging(c, later)
<1>1. o \in OutputType /\ a \in OutputType /\ b \in OutputType /\ c \in OutputType
  BY DEF OutputOK, Appended, Rolled, Kept, Checked
<1>2. n \in Nat /\ later \in Nat /\ t <= later
  BY LenProperties
<1>3. /\ a.lastRoll_ = o.lastRoll_ /\ a.lastFlush_ = o.lastFlush_
      /\ a.file_.flushed = o.file_.flushed
      /\ a.file_.oldest = IF o.file_.flushed = Len(o.file_.data) THEN t ELSE o.file_.oldest
  BY DEF Appended
<1>4. /\ o.lastRoll_ <= clock /\ o.lastFlush_ <= clock
      /\ o.file_.flushed < Len(o.file_.data) => o.lastFlush_ <= o.file_.oldest
      /\ o.file_.flushed <= Len(o.file_.data)
  BY DEF Lagging, OutputOK
<1>5. a.lastRoll_ <= t /\ a.lastFlush_ <= t /\ a.lastFlush_ <= a.file_.oldest
  BY <1>1, <1>3, <1>4, OutputNumbers
<1>6. /\ b.lastRoll_ <= later /\ b.lastFlush_ <= later
      /\ b.file_.flushed < Len(b.file_.data) => b.lastFlush_ <= b.file_.oldest /\ later = t
  <2>1. CASE Rolled(a, b, t, later)
    <3>1. b.file_ = FileUtil(later) /\ b.lastRoll_ = later /\ b.lastFlush_ = later
      BY <2>1 DEF Rolled
    <3>2. b.file_.flushed = 0 /\ b.file_.data = <<>>
      BY <1>2, <3>1, FileUtilFields
    <3>3. Len(b.file_.data) = 0
      BY <3>2, EmptySeq
    <3> QED BY <1>2, <3>1, <3>2, <3>3
  <2>2. CASE Kept(a, b, t, later)
    <3>1. /\ b.lastRoll_ = a.lastRoll_ /\ b.lastFlush_ = a.lastFlush_ /\ b.file_ = a.file_
          /\ later = t \/ later <= a.lastRoll_
      BY <2>2 DEF Kept
    <3>2. later = t
      BY <1>1, <1>2, <1>5, <3>1, OutputNumbers
    <3> QED BY <1>1, <1>2, <1>5, <3>1, <3>2, OutputNumbers
  <2> QED BY <2>1, <2>2
<1>7. /\ c.lastRoll_ = b.lastRoll_ /\ c.file_.data = b.file_.data /\ c.file_.oldest = b.file_.oldest
      /\ \/ c.lastFlush_ = t /\ c.file_.flushed = Len(c.file_.data)
         \/ /\ c.lastFlush_ = b.lastFlush_ /\ c.file_.flushed = b.file_.flushed
            /\ t <= b.lastFlush_ + FlushInterval
  BY DEF Checked
<1>8. /\ b.lastRoll_ \in Nat /\ b.lastFlush_ \in Nat /\ b.file_.flushed \in Nat
      /\ b.file_.oldest \in Nat /\ Len(b.file_.data) \in Nat /\ FlushInterval \in Nat
  BY <1>1, OutputNumbers, LogFileAssumption
<1>9. CASE c.lastFlush_ = t /\ c.file_.flushed = Len(c.file_.data)
  BY <1>2, <1>6, <1>7, <1>8, <1>9 DEF Lagging
<1>10. CASE /\ c.lastFlush_ = b.lastFlush_ /\ c.file_.flushed = b.file_.flushed
            /\ t <= b.lastFlush_ + FlushInterval
  <2> DEFINE y == b.file_.oldest
             z == b.lastFlush_
  <2>1. ASSUME b.file_.flushed < Len(b.file_.data) PROVE z <= y /\ later <= y + FlushInterval
    <3>1. z <= y /\ later = t /\ t <= z + FlushInterval /\ z \in Nat /\ y \in Nat
      BY <1>6, <1>8, <1>10, <2>1
    <3> HIDE DEF y, z
    <3> QED BY <1>2, <1>8, <3>1
  <2> QED BY <1>6, <1>7, <1>10, <2>1 DEF Lagging
<1> QED BY <1>7, <1>9, <1>10

LEMMA LateStep ==
  ASSUME NEW o, NEW a, NEW b, NEW c, NEW chunk \in Seq(Nat), NEW n \in 0..Len(chunk),
         NEW t \in Nat, NEW later \in Nat, NEW clock \in Nat, clock <= t, t <= later,
         OutputOK(o), Lagging(o, clock), Late(o, clock), Appended(o, a, chunk, n, t),
         Rolled(a, b, t, later) \/ Kept(a, b, t, later), Checked(b, c, t)
  PROVE  Late(c, later)
<1>1. o \in OutputType /\ a \in OutputType /\ b \in OutputType /\ c \in OutputType
  BY DEF OutputOK, Appended, Rolled, Kept, Checked
<1>2. later \in Nat /\ t <= later
  OBVIOUS
<1>3. c.file_.late = b.file_.late /\ c.count_ = b.count_ /\ c.startOfPeriod_ = b.startOfPeriod_
  BY DEF Checked
<1> SUFFICES Late(b, later)
  BY <1>3 DEF Late
<1>4. CASE Rolled(a, b, t, later)
  <2>1. b.file_.late = 0
    BY <1>2, <1>4, FileUtilFields DEF Rolled
  <2>2. b.count_ \in Nat
    BY <1>1, OutputNumbers
  <2> QED BY <2>1, <2>2, LogFileAssumption DEF Late
<1>5. CASE Kept(a, b, t, later)
  <2> DEFINE l == o.file_.late
             k == o.count_
             s == o.startOfPeriod_
  <2>1. /\ b.file_.late = IF PeriodOf(t) > s THEN Counted(l) ELSE l
        /\ b.startOfPeriod_ = s /\ a.count_ = k /\ a.startOfPeriod_ = s
        /\ a.lastRoll_ = o.lastRoll_
    BY <1>5 DEF Kept, Appended
  <2>2. l \in Nat /\ k \in Nat /\ s \in Nat /\ o.lastRoll_ \in Nat
    BY <1>1, OutputNumbers
  <2>3. /\ l < CheckEveryN /\ l <= k /\ o.lastRoll_ <= clock
        /\ l > 0 => PeriodOf(clock) > s
    BY DEF Late, Lagging
  <2>4. /\ PeriodOf(clock) \in Nat /\ PeriodOf(t) \in Nat /\ PeriodOf(later) \in Nat
        /\ PeriodOf(clock) <= PeriodOf(t) /\ PeriodOf(t) <= PeriodOf(later)
    BY <1>2, PeriodMonotone
  <2>5. s <= PeriodOf(t) /\ (later <= o.lastRoll_ => PeriodOf(t) = s)
    <3>1. o.lastRoll_ <= t
      BY <2>2, <2>3
    <3>2. s = PeriodOf(o.lastRoll_) /\ s <= PeriodOf(t)
      BY <2>2, <3>1, PeriodMonotone DEF OutputOK
    <3>3. later <= o.lastRoll_ => t = o.lastRoll_
      BY <1>2, <2>2, <3>1
    <3> QED BY <3>2, <3>3
  <2>6. /\ Counted(l) \in Nat /\ Counted(k) \in Nat /\ l <= Counted(k) /\ Counted(l) <= Counted(k)
    <3> HIDE DEF l, k, s
    <3>1. Counted(l) \in Nat /\ Counted(k) \in Nat /\ Counted(l) <= Counted(k)
      BY <2>2, <2>3, CountedFacts
    <3>2. k <= Counted(k)
      BY <2>2, CountedFacts
    <3> QED BY <2>2, <2>3, <3>1, <3>2
  <2>7. \/ b.count_ = Counted(k) /\ (later <= o.lastRoll_ \/ Counted(k) < CheckEveryN)
        \/ b.count_ = 0 /\ PeriodOf(t) = s
    BY <1>5, <2>1, <2>5 DEF Kept
  <2> HIDE DEF l, k, s
  <2>8. CASE PeriodOf(t) = s
    <3>1. l = 0
      BY <2>2, <2>3, <2>4, <2>8
    <3>2. b.file_.late = 0
      BY <2>1, <2>2, <2>8, <3>1
    <3> QED BY <2>6, <2>7, <3>2, LogFileAssumption DEF Late
  <2>9. CASE PeriodOf(t) > s
    <3>1. b.file_.late = Counted(l) /\ b.count_ = Counted(k) /\ Counted(k) < CheckEveryN
      BY <2>1, <2>2, <2>4, <2>5, <2>7, <2>9
    <3>2. PeriodOf(later) > s
      BY <2>2, <2>4, <2>9
    <3> QED BY <2>1, <2>6, <3>1, <3>2, LogFileAssumption DEF Late
  <2> QED BY <2>2, <2>4, <2>5, <2>8, <2>9
<1> QED BY <1>4, <1>5

-----------------------------------------------------------------------------
\* FileUtil::flush().
Flushed(o, c) ==
  /\ c \in OutputType
  /\ c.closed = o.closed /\ c.count_ = o.count_ /\ c.startOfPeriod_ = o.startOfPeriod_
  /\ c.lastRoll_ = o.lastRoll_ /\ c.lost = o.lost /\ c.lastFlush_ = o.lastFlush_
  /\ c.file_.name = o.file_.name /\ c.file_.data = o.file_.data
  /\ c.file_.writtenBytes_ = o.file_.writtenBytes_
  /\ c.file_.late = o.file_.late /\ c.file_.oldest = o.file_.oldest
  /\ c.file_.flushed = Len(c.file_.data)

LEMMA FlushFields ==
  ASSUME NEW o \in OutputType
  PROVE  Flushed(o, FlushOutput(o))
<1> DEFINE c == FlushOutput(o)
           k == Len(o.file_.data)
           f == [o.file_ EXCEPT !.flushed = k]
<1>1. c = [o EXCEPT !.file_ = f]
  BY DEF FlushOutput, OutputType
<1>2. k \in Nat
  BY OutputNumbers
<1>3. f.flushed = k
  BY DEF OutputType, FileType
<1> HIDE DEF k, c
<1>4. /\ f \in FileType
      /\ f.name = o.file_.name /\ f.data = o.file_.data /\ f.writtenBytes_ = o.file_.writtenBytes_
      /\ f.late = o.file_.late /\ f.oldest = o.file_.oldest
  BY <1>2 DEF OutputType, FileType
<1> HIDE DEF f
<1>5. /\ c \in OutputType /\ c.file_ = f
      /\ c.closed = o.closed /\ c.count_ = o.count_ /\ c.startOfPeriod_ = o.startOfPeriod_
      /\ c.lastRoll_ = o.lastRoll_ /\ c.lost = o.lost /\ c.lastFlush_ = o.lastFlush_
  BY <1>1, <1>4 DEF OutputType
<1> QED BY <1>3, <1>4, <1>5 DEF Flushed, k, c

\* The first file, which the constructor opens.
Opened(o, t) ==
  /\ o \in OutputType
  /\ o.closed = <<>> /\ o.file_ = FileUtil(t) /\ o.startOfPeriod_ = PeriodOf(t)
  /\ o.lastRoll_ = t /\ o.lastFlush_ = t /\ o.lost = {}

LEMMA OpenedOK ==
  ASSUME NEW o, NEW t \in Nat, Opened(o, t)
  PROVE  /\ OutputOK(o) /\ Sized(o, t) /\ Lagging(o, t) /\ Late(o, t)
         /\ o.file_.flushed = Len(o.file_.data)
<1>1. /\ o.file_.name = t /\ o.file_.data = <<>> /\ o.file_.writtenBytes_ = 0
      /\ o.file_.flushed = 0 /\ o.file_.late = 0
  BY FileUtilFields DEF Opened
<1>2. Len(o.file_.data) = 0 /\ Len(o.closed) = 0
  BY <1>1, EmptySeq DEF Opened
<1>3. o.lastRoll_ = t /\ o.lastFlush_ = t /\ o.startOfPeriod_ = PeriodOf(o.lastRoll_)
  BY DEF Opened
<1>4. o.count_ \in Nat /\ o \in OutputType
  BY OutputNumbers DEF Opened
<1>5. Named(o)
  BY <1>2 DEF Named
<1> QED BY <1>1, <1>2, <1>3, <1>4, <1>5, LogFileAssumption
        DEF OutputOK, Sized, Lagging, Late

LEMMA NoFileOpened == Opened(NoFile, 0)
<1>1. PeriodOf(0) = 0
  <2>1. 0 \div KRollPerSeconds_ = 0
    BY LogFileAssumption
  <2>2. 0 * KRollPerSeconds_ = 0
    BY LogFileAssumption
  <2> QED BY <2>1, <2>2 DEF PeriodOf
<1>2. FileUtil(0) \in FileType /\ <<>> \in Seq(ClosedType)
  BY FileUtilFields
<1>3. NoFile \in OutputType
  BY <1>2 DEF NoFile, OutputType
<1> QED BY <1>1, <1>3 DEF NoFile, Opened

-----------------------------------------------------------------------------
\* Before start() there is no file.
Begun == IF pc = "unstarted" THEN output = NoFile ELSE output.lastRoll_ > 0

FileInv ==
  /\ now \in Nat /\ setbacks \in Nat
  /\ OutputOK(output) /\ Begun /\ Sized(output, now)
  /\ setbacks = 0 => Lagging(output, now) /\ Late(output, now)
  /\ FlushedBetweenRounds

\* An append() with the records in between.
LEMMA AppendStages ==
  ASSUME NEW o \in OutputType, NEW chunk \in Seq(Nat), NEW n \in 0..Len(chunk),
         NEW t \in Nat, NEW later \in Nat,
         ~RollIsDue(FileAppend(o, chunk, n, t), t) => later = t
  PROVE  \E a, b : /\ Appended(o, a, chunk, n, t)
                   /\ Rolled(a, b, t, later) \/ Kept(a, b, t, later)
                   /\ Checked(b, CheckFlush(CheckRoll(FileAppend(o, chunk, n, t), t, later), t), t)
<1> DEFINE a == FileAppend(o, chunk, n, t)
           b == CheckRoll(a, t, later)
<1>1. Appended(o, a, chunk, n, t)
  BY AppendFields
<1>2. a \in OutputType /\ (~RollIsDue(a, t) => later = t)
  BY <1>1 DEF Appended
<1> HIDE DEF a
<1>3. Rolled(a, b, t, later) \/ Kept(a, b, t, later)
  BY <1>2, CheckRollCases
<1>4. b \in OutputType
  BY <1>3 DEF Rolled, Kept
<1> HIDE DEF b
<1>5. Checked(b, CheckFlush(b, t), t)
  BY <1>4, CheckFlushCases
<1> QED BY <1>1, <1>3, <1>5 DEF a, b

\* What the clock may show.
LEMMA ReadsFacts ==
  ASSUME NEW t \in 1..MaxTime, NEW later \in 1..MaxTime, Reads(t, later),
         now \in Nat, setbacks \in Nat
  PROVE  /\ t \in Nat /\ later \in Nat /\ later > 0 /\ now' = later /\ setbacks' \in Nat
         /\ setbacks' = 0 => setbacks = 0 /\ now <= t /\ t <= later
<1>1. t \in Nat /\ later \in Nat /\ later > 0
  BY LogFileAssumption
<1>2. /\ Back(now, t) \in Nat /\ Back(t, later) \in Nat
      /\ Back(now, t) = 0 => now <= t
      /\ Back(t, later) = 0 => t <= later
  BY <1>1 DEF Back
<1> DEFINE x == Back(now, t)
           y == Back(t, later)
<1>3. now' = later /\ setbacks' = setbacks + x + y
  BY DEF Reads
<1> HIDE DEF x, y
<1>4. x \in Nat /\ y \in Nat
  BY <1>2 DEF x, y
<1>5. setbacks' \in Nat /\ (setbacks' = 0 => setbacks = 0 /\ x = 0 /\ y = 0)
  BY <1>3, <1>4
<1> QED BY <1>1, <1>2, <1>3, <1>5 DEF x, y

LEMMA FileAppendStep ==
  ASSUME FileInv, pc = "write", pc' = "write", NEW chunk \in Seq(Nat), AppendChunk(chunk)
  PROVE  FileInv'
<1>1. PICK t \in 1..MaxTime, later \in 1..MaxTime, n \in 0..Len(chunk) :
        /\ ~RollIsDue(FileAppend(output, chunk, n, t), t) => later = t
        /\ Reads(t, later)
        /\ output' = CheckFlush(CheckRoll(FileAppend(output, chunk, n, t), t, later), t)
  BY DEF AppendChunk
<1>2. now \in Nat /\ setbacks \in Nat /\ OutputOK(output) /\ output.lastRoll_ > 0
  BY DEF FileInv, Begun
<1>3. /\ t \in Nat /\ later \in Nat /\ later > 0 /\ now' = later /\ setbacks' \in Nat
      /\ setbacks' = 0 => setbacks = 0 /\ now <= t /\ t <= later
  BY <1>1, <1>2, ReadsFacts
<1>4. now' \in Nat
  BY <1>3
<1>5. output \in OutputType
  BY <1>2 DEF OutputOK
<1>6. PICK a, b : /\ Appended(output, a, chunk, n, t)
                  /\ Rolled(a, b, t, later) \/ Kept(a, b, t, later)
                  /\ Checked(b, output', t)
  BY <1>1, <1>3, <1>5, AppendStages
<1>7. OutputOK(output')
  BY <1>2, <1>3, <1>4, <1>6, OutputStep
<1>8. Sized(output', now')
  BY <1>3, <1>4, <1>6, SizedStep
<1>9. setbacks' = 0 => Lagging(output', now') /\ Late(output', now')
  <2> SUFFICES ASSUME setbacks' = 0 PROVE Lagging(output', now') /\ Late(output', now')
    OBVIOUS
  <2>1. now <= t /\ t <= later /\ Lagging(output, now) /\ Late(output, now)
    BY <1>3 DEF FileInv
  <2>2. Lagging(output', now')
    BY <1>1, <1>2, <1>3, <1>6, <2>1, LaggingStep
  <2>3. Late(output', now')
    BY <1>1, <1>2, <1>3, <1>6, <2>1, LateStep
  <2> QED BY <2>2, <2>3
<1>10. output'.lastRoll_ > 0
  <2>1. a.lastRoll_ = output.lastRoll_ /\ output'.lastRoll_ = b.lastRoll_
    BY <1>6 DEF Appended, Checked
  <2>2. b.lastRoll_ = later \/ b.lastRoll_ = a.lastRoll_
    BY <1>6 DEF Rolled, Kept
  <2> QED BY <1>2, <1>3, <2>1, <2>2
<1> QED BY <1>3, <1>4, <1>7, <1>8, <1>9, <1>10 DEF FileInv, Begun, FlushedBetweenRounds

LEMMA FileFlushStep ==
  ASSUME FileInv, pc # "unstarted", pc' # "unstarted", FlushAll
  PROVE  FileInv'
<1>1. /\ now \in Nat /\ setbacks \in Nat /\ OutputOK(output) /\ output.lastRoll_ > 0
      /\ Sized(output, now)
      /\ setbacks = 0 => Lagging(output, now) /\ Late(output, now)
  BY DEF FileInv, Begun
<1>2. output \in OutputType
  BY <1>1 DEF OutputOK
<1>3. Flushed(output, output') /\ now' = now /\ setbacks' = setbacks
  BY <1>2, FlushFields DEF FlushAll
<1>4. /\ output' \in OutputType
      /\ output'.closed = output.closed /\ output'.count_ = output.count_
      /\ output'.startOfPeriod_ = output.startOfPeriod_
      /\ output'.lastRoll_ = output.lastRoll_ /\ output'.lastFlush_ = output.lastFlush_
      /\ output'.file_.name = output.file_.name
      /\ output'.file_.writtenBytes_ = output.file_.writtenBytes_
      /\ output'.file_.late = output.file_.late
      /\ output'.file_.flushed = Len(output'.file_.data)
  BY <1>3 DEF Flushed
<1>5. Len(output'.file_.data) \in Nat
  BY <1>4, OutputNumbers
<1>6. output'.file_.flushed <= Len(output'.file_.data)
      /\ ~(output'.file_.flushed < Len(output'.file_.data))
  BY <1>4, <1>5
<1>7. OutputOK(output')
  BY <1>1, <1>4, <1>6 DEF OutputOK, Named
<1>8. Sized(output', now')
  BY <1>1, <1>3, <1>4 DEF Sized
<1>9. setbacks' = 0 => Lagging(output', now')
  BY <1>1, <1>3, <1>4, <1>6 DEF Lagging
<1>10. setbacks' = 0 => Late(output', now')
  BY <1>1, <1>3, <1>4 DEF Late
<1> QED BY <1>1, <1>3, <1>4, <1>7, <1>8, <1>9, <1>10 DEF FileInv, Begun, FlushedBetweenRounds

LEMMA RollOpens ==
  ASSUME NEW o, Opened(o, 0), NEW t \in Nat, t > 0
  PROVE  Opened(RollFile(o, t), t)
<1> DEFINE c == RollFile(o, t)
<1>1. o \in OutputType /\ o.lastRoll_ = 0 /\ o.closed = <<>> /\ o.lost = {}
  BY DEF Opened
<1>2. t > o.lastRoll_
  BY <1>1
<1>3. /\ c \in OutputType
      /\ c.closed = IF o.lastRoll_ = 0 THEN o.closed ELSE Append(o.closed, Closed(o.file_))
      /\ c.file_ = FileUtil(t)
      /\ c.lastRoll_ = t /\ c.lastFlush_ = t
      /\ c.startOfPeriod_ = PeriodOf(t) /\ c.lost = o.lost
  BY <1>1, <1>2, RollFields, Zenon
<1> HIDE DEF c
<1>4. Opened(c, t)
  BY <1>1, <1>3 DEF Opened
<1> QED BY <1>4 DEF c

LEMMA FileOpenStep ==
  ASSUME FileInv, pc = "unstarted", pc' # "unstarted", Open
  PROVE  FileInv'
<1>1. PICK t \in 1..MaxTime : Reads(t, t) /\ output' = RollFile(output, t)
  BY DEF Open
<1>2. now \in Nat /\ setbacks \in Nat /\ output = NoFile
  BY DEF FileInv, Begun
<1>3. t \in Nat /\ t > 0 /\ now' = t /\ setbacks' \in Nat
  BY <1>1, <1>2, ReadsFacts
<1>4. Opened(output, 0)
  BY <1>2, NoFileOpened
<1>5. Opened(output', t)
  BY <1>1, <1>3, <1>4, RollOpens
<1>6. /\ OutputOK(output') /\ Sized(output', t) /\ Lagging(output', t) /\ Late(output', t)
      /\ output'.file_.flushed = Len(output'.file_.data)
  BY <1>3, <1>5, OpenedOK
<1>7. output'.lastRoll_ > 0
  BY <1>3, <1>5 DEF Opened
<1> QED BY <1>1, <1>3, <1>6, <1>7 DEF FileInv, Begun, FlushedBetweenRounds

LEMMA FileKept ==
  ASSUME FileInv, UNCHANGED logFileVars, pc' # "unstarted" \/ UNCHANGED pc,
         pc = "unstarted" => pc' = "unstarted", pc = "write" => pc' = "write"
  PROVE  FileInv'
BY DEF FileInv, Begun, FlushedBetweenRounds, logFileVars

LEMMA FileStep ==
  ASSUME LoggingInv, FileInv, [LoggingNext]_allVars
  PROVE  FileInv'
<1>1. CASE (AppendRecord \/ Stop) /\ UNCHANGED logFileVars
  BY <1>1, FileKept DEF AppendRecord, Stop
<1>2. CASE Start /\ Open
  BY <1>2, FileOpenStep DEF Start
<1>3. CASE (CheckRunning \/ WaitReturns) /\ UNCHANGED logFileVars
  <2>1. pc \in {"check", "wait"} /\ pc' \in {"wait", "write"}
    BY <1>3 DEF CheckRunning, WaitReturns, Collect
  <2> QED BY <1>3, <2>1, FileKept
<1>4. CASE WriteBuffer /\ AppendChunk(buffersToWrite[at])
  <2>1. buffersToWrite[at] \in Seq(Nat)
    <3>1. buffersToWrite \in Seq(Seq(Nat)) /\ at \in 1..Len(buffersToWrite)
      BY <1>4, LenProperties DEF WriteBuffer, LoggingInv, TypeOK
    <3> QED BY <3>1, ElementOfSeq
  <2>2. pc = "write" /\ pc' = "write"
    BY <1>4 DEF WriteBuffer
  <2> QED BY <1>4, <2>1, <2>2, FileAppendStep
<1>5. CASE Refill /\ FlushAll
  BY <1>5, FileFlushStep DEF Refill
<1>6. CASE Finish /\ FlushAll
  BY <1>6, FileFlushStep DEF Finish
<1>7. CASE UNCHANGED allVars
  BY <1>7, FileKept DEF allVars, vars
<1> QED BY <1>1, <1>2, <1>3, <1>4, <1>5, <1>6, <1>7 DEF LoggingNext, ThreadStep

-----------------------------------------------------------------------------
\* The logging thread with its file is the logging thread.
LEMMA LoggingIsSafe == LoggingInit /\ [][LoggingNext]_allVars => Safety
<1>1. LoggingInit => Init
  BY DEF LoggingInit
<1>2. [LoggingNext]_allVars => [Next]_vars
  BY DEF LoggingNext, ThreadStep, allVars, Next, ThreadFunc
<1> QED BY <1>1, <1>2, PTL DEF Safety

LEMMA FileAlways == LoggingSpec => [](LoggingInv /\ FileInv)
<1>1. ASSUME LoggingInit PROVE FileInv
  <2>1. output = NoFile /\ now = 0 /\ setbacks = 0 /\ pc = "unstarted"
    BY <1>1 DEF LoggingInit, LogFileInit, Init
  <2>2. /\ OutputOK(output) /\ Sized(output, 0) /\ Lagging(output, 0) /\ Late(output, 0)
        /\ output.file_.flushed = Len(output.file_.data)
    BY <2>1, NoFileOpened, OpenedOK
  <2> QED BY <2>1, <2>2 DEF FileInv, Begun, FlushedBetweenRounds
<1>2. LoggingInv /\ FileInv /\ [LoggingNext]_allVars => FileInv'
  BY FileStep
<1>3. LoggingSpec => []LoggingInv
  BY LoggingIsSafe, LoggingAlways, PTL DEF LoggingSpec
<1> QED BY <1>1, <1>2, <1>3, PTL DEF LoggingSpec

\* Whatever the clock does and the disk refuses, a file is never opened twice.
THEOREM FilesAreFresh == LoggingSpec => []FreshFiles
<1>1. ASSUME FileInv PROVE FreshFiles
  <2> DEFINE k == Len(output.closed)
             S == ClosedType \cup FileType
  <2>1. /\ output.closed \in Seq(ClosedType) /\ output.file_ \in FileType /\ k \in Nat
        /\ \A i \in 1..k : /\ i = k => output.closed[i].name < output.file_.name
                           /\ i # k => output.closed[i].name < output.closed[i + 1].name
    BY <1>1, OutputNumbers DEF FileInv, OutputOK, Named
  <2>2. output.closed \in Seq(S) /\ output.file_ \in S
    BY <2>1
  <2>3. /\ Len(Files) = k + 1 /\ Files[k + 1] = output.file_
        /\ \A i \in 1..k : Files[i] = output.closed[i]
    BY <2>2, AppendProperties DEF Files
  <2> HIDE DEF k, S
  <2>4. ASSUME NEW i \in 1..k PROVE Files[i].name < Files[i + 1].name
    <3>1. CASE i = k
      BY <2>1, <2>3, <3>1
    <3>2. CASE i # k
      <4>1. i + 1 \in 1..k
        BY <2>1, <3>2
      <4>2. Files[i] = output.closed[i] /\ Files[i + 1] = output.closed[i + 1]
        BY <2>3, <4>1
      <4>3. output.closed[i].name < output.closed[i + 1].name
        BY <2>1, <3>2
      <4> QED BY <4>2, <4>3
    <3> QED BY <3>1, <3>2
  <2>5. Len(Files) - 1 = k
    BY <2>1, <2>3
  <2> QED BY <2>4, <2>5 DEF FreshFiles
<1> QED BY <1>1, FileAlways, PTL

\* A file that is over its size by writtenBytes_ is closed by the first append()
\* that sees a later second.
THEOREM SizeIsBounded == LoggingSpec => []SizeBound
<1>1. FileInv => SizeBound
  BY DEF FileInv, Sized, SizeBound
<1> QED BY <1>1, FileAlways, PTL

\* A file takes fewer than checkEveryN_ appends of a later day.
THEOREM DayIsBounded == LoggingSpec => []DayBound
<1>1. FileInv => DayBound
  BY DEF FileInv, Late, DayBound
<1> QED BY <1>1, FileAlways, PTL

\* Nothing stays in the buffer of stdio for longer than flushInterval_ while
\* append() is called.
THEOREM LagIsBounded == LoggingSpec => []FlushLag
<1>1. FileInv => FlushLag
  BY DEF FileInv, Lagging, FlushLag
<1> QED BY <1>1, FileAlways, PTL

\* The thread leaves nothing in the buffer of stdio when it goes to wait.
THEOREM AlwaysFlushedBetweenRounds == LoggingSpec => []FlushedBetweenRounds
<1>1. FileInv => FlushedBetweenRounds
  BY DEF FileInv
<1> QED BY <1>1, FileAlways, PTL

-----------------------------------------------------------------------------
\* The step of RollsForAReason.
Reasons ==
  \A i \in 1..Len(output'.closed) :
    setbacks' = 0 /\ i > Len(output.closed) /\ output.lastRoll_ > 0 =>
      \/ output'.closed[i].writtenBytes_ > RollSize
      \/ PeriodOf(output'.lastRoll_) # PeriodOf(output.lastRoll_)

LEMMA SameClosed ==
  ASSUME output \in OutputType, output'.closed = output.closed
  PROVE  Reasons
<1>1. Len(output.closed) \in Nat
  BY OutputNumbers
<1> QED BY <1>1 DEF Reasons

LEMMA AppendReasons ==
  ASSUME FileInv, pc = "write", NEW chunk \in Seq(Nat), AppendChunk(chunk)
  PROVE  Reasons
<1>1. PICK t \in 1..MaxTime, later \in 1..MaxTime, n \in 0..Len(chunk) :
        /\ ~RollIsDue(FileAppend(output, chunk, n, t), t) => later = t
        /\ Reads(t, later)
        /\ output' = CheckFlush(CheckRoll(FileAppend(output, chunk, n, t), t, later), t)
  BY DEF AppendChunk
<1>2. /\ now \in Nat /\ setbacks \in Nat /\ output \in OutputType /\ output.lastRoll_ > 0
      /\ setbacks = 0 => output.lastRoll_ <= now
      /\ output.startOfPeriod_ = PeriodOf(output.lastRoll_)
  BY DEF FileInv, Begun, OutputOK, Lagging
<1>3. /\ t \in Nat /\ later \in Nat
      /\ setbacks' = 0 => setbacks = 0 /\ now <= t /\ t <= later
  BY <1>1, <1>2, ReadsFacts
<1>4. PICK a, b : /\ Appended(output, a, chunk, n, t)
                  /\ Rolled(a, b, t, later) \/ Kept(a, b, t, later)
                  /\ Checked(b, output', t)
  BY <1>1, <1>2, <1>3, AppendStages
<1>5. /\ a \in OutputType /\ a.closed = output.closed /\ a.lastRoll_ = output.lastRoll_
      /\ a.startOfPeriod_ = output.startOfPeriod_
      /\ output'.closed = b.closed /\ output'.lastRoll_ = b.lastRoll_
  BY <1>4 DEF Appended, Checked
<1>6. CASE Kept(a, b, t, later)
  BY <1>2, <1>5, <1>6, SameClosed DEF Kept
<1>7. CASE Rolled(a, b, t, later)
  <2> DEFINE k == Len(output.closed)
             r == output.lastRoll_
  <2>1. /\ output'.closed = Append(output.closed, Closed(a.file_)) /\ output'.lastRoll_ = later
        /\ a.file_.writtenBytes_ > RollSize \/ PeriodOf(t) # PeriodOf(r)
    BY <1>2, <1>5, <1>7 DEF Rolled
  <2>2. /\ output.closed \in Seq(ClosedType) /\ k \in Nat /\ r \in Nat
    BY <1>2, OutputNumbers
  <2>3. /\ Closed(a.file_) \in ClosedType
        /\ Closed(a.file_).writtenBytes_ = a.file_.writtenBytes_
    BY <1>5, OutputNumbers, ClosedFields
  <2>4. Len(output'.closed) = k + 1 /\ output'.closed[k + 1] = Closed(a.file_)
    BY <2>1, <2>2, <2>3, AppendProperties
  <2>5. ASSUME setbacks' = 0, PeriodOf(t) # PeriodOf(r) PROVE PeriodOf(later) # PeriodOf(r)
    <3>1. r <= t /\ t <= later
      BY <1>2, <1>3, <2>2, <2>5
    <3>2. PeriodOf(r) \in Nat /\ PeriodOf(t) \in Nat /\ PeriodOf(r) <= PeriodOf(t)
      BY <1>3, <2>2, <3>1, PeriodMonotone
    <3>3. PeriodOf(later) \in Nat /\ PeriodOf(t) <= PeriodOf(later)
      BY <1>3, <3>1, PeriodMonotone
    <3> QED BY <2>5, <3>2, <3>3
  <2> HIDE DEF k, r
  <2>6. ASSUME NEW i \in 1..Len(output'.closed), setbacks' = 0, i > k
        PROVE  \/ output'.closed[i].writtenBytes_ > RollSize
               \/ PeriodOf(output'.lastRoll_) # PeriodOf(r)
    <3>1. i = k + 1
      BY <2>2, <2>4, <2>6
    <3> QED BY <2>1, <2>3, <2>4, <2>5, <2>6, <3>1
  <2> QED BY <2>6 DEF Reasons, k, r
<1> QED BY <1>4, <1>6, <1>7

\* With a clock that is not set back, a new file is begun only for its size
\* or a new day.
THEOREM RollsHaveReasons == LoggingSpec => RollsForAReason
<1>1. ASSUME LoggingInv, FileInv, [LoggingNext]_allVars
      PROVE  [Reasons]_output
  <2>0. output \in OutputType
    BY <1>1 DEF FileInv, OutputOK
  <2>1. CASE (AppendRecord \/ Stop) /\ UNCHANGED logFileVars
    BY <2>1 DEF logFileVars
  <2>2. CASE Start /\ Open
    <3>1. output.lastRoll_ = 0
      BY <1>1, <2>2, NoFileOpened DEF Start, FileInv, Begun, Opened
    <3> QED BY <3>1 DEF Reasons
  <2>3. CASE (CheckRunning \/ WaitReturns) /\ UNCHANGED logFileVars
    BY <2>3 DEF logFileVars
  <2>4. CASE WriteBuffer /\ AppendChunk(buffersToWrite[at])
    <3>1. buffersToWrite \in Seq(Seq(Nat)) /\ at \in 1..Len(buffersToWrite) /\ pc = "write"
      BY <1>1, <2>4, LenProperties DEF WriteBuffer, LoggingInv, TypeOK
    <3>2. buffersToWrite[at] \in Seq(Nat)
      BY <3>1, ElementOfSeq
    <3> QED BY <1>1, <2>4, <3>1, <3>2, AppendReasons
  <2>5. CASE (Refill \/ Finish) /\ FlushAll
    <3>1. output'.closed = output.closed
      BY <2>0, <2>5, FlushFields DEF FlushAll, Flushed
    <3> QED BY <2>0, <3>1, SameClosed
  <2>6. CASE UNCHANGED allVars
    BY <2>6 DEF allVars, logFileVars
  <2> QED BY <1>1, <2>1, <2>2, <2>3, <2>4, <2>5, <2>6 DEF LoggingNext, ThreadStep
<1>2. LoggingInv /\ FileInv /\ [LoggingNext]_allVars => [Reasons]_output
  BY <1>1
<1>3. LoggingSpec => [][Reasons]_output
  BY <1>2, FileAlways, PTL DEF LoggingSpec
<1> QED BY <1>3 DEF Reasons, RollsForAReason

-----------------------------------------------------------------------------
\* The contents of the closed files, and of all.
ClosedData(o) == [i \in 1..Len(o.closed) |-> o.closed[i].data]
Total(o) == Cat(FlattenSeq(ClosedData(o)), o.file_.data)

\* What is left of the records f without the lost ones.
Remaining(f, lost) == [i \in 1..Len(f) |-> IF f[i] \in lost THEN <<>> ELSE <<f[i]>>]

LEMMA ClosedDataTyped ==
  ASSUME NEW o \in OutputType
  PROVE  /\ ClosedData(o) \in Seq(Seq(Nat)) /\ Len(ClosedData(o)) = Len(o.closed)
         /\ \A i \in 1..Len(o.closed) : ClosedData(o)[i] = o.closed[i].data
         /\ FlattenSeq(ClosedData(o)) \in Seq(Nat) /\ Total(o) \in Seq(Nat)
<1>1. o.closed \in Seq(ClosedType) /\ Len(o.closed) \in Nat /\ o.file_.data \in Seq(Nat)
  BY OutputNumbers
<1>2. \A i \in 1..Len(o.closed) : o.closed[i] \in ClosedType
  BY <1>1, ElementOfSeq
<1>3. \A i \in 1..Len(o.closed) : o.closed[i].data \in Seq(Nat)
  BY <1>2 DEF ClosedType
<1>4. /\ ClosedData(o) \in Seq(Seq(Nat)) /\ Len(ClosedData(o)) = Len(o.closed)
      /\ \A i \in 1..Len(o.closed) : ClosedData(o)[i] = o.closed[i].data
  BY <1>1, <1>3 DEF ClosedData
<1>5. FlattenSeq(ClosedData(o)) \in Seq(Nat)
  BY <1>4, FlattenTyped
<1>6. Total(o) \in Seq(Nat)
  BY <1>1, <1>5, CatFacts DEF Total
<1> QED BY <1>4, <1>5, <1>6

LEMMA StoredIsTotal ==
  ASSUME output \in OutputType
  PROVE  Stored = Total(output)
<1> DEFINE o == output
           k == Len(o.closed)
           S == ClosedType \cup FileType
           d == [i \in 1..Len(Files) |-> Files[i].data]
<1>1. /\ o.closed \in Seq(ClosedType) /\ o.file_ \in FileType /\ k \in Nat
      /\ o.file_.data \in Seq(Nat)
  BY OutputNumbers
<1>2. o.closed \in Seq(S) /\ o.file_ \in S
  BY <1>1
<1>3. /\ Len(Files) = k + 1 /\ Files[k + 1] = o.file_
      /\ \A i \in 1..k : Files[i] = o.closed[i]
  BY <1>2, AppendProperties DEF Files
<1>4. /\ ClosedData(o) \in Seq(Seq(Nat)) /\ Len(ClosedData(o)) = k
      /\ \A i \in 1..k : ClosedData(o)[i] = o.closed[i].data
  BY ClosedDataTyped
<1> HIDE DEF k, S
<1>5. d = [i \in 1..(k + 1) |-> Files[i].data]
  BY <1>3
<1>6. ASSUME NEW i \in 1..(k + 1) PROVE Files[i].data \in Seq(Nat)
  <2>1. CASE i = k + 1
    BY <1>1, <1>3, <2>1
  <2>2. CASE i \in 1..k
    <3>1. ClosedData(o)[i] \in Seq(Nat)
      BY <1>4, <2>2, ElementOfSeq
    <3> QED BY <1>3, <1>4, <2>2, <3>1
  <2>3. i = k + 1 \/ i \in 1..k
    BY <1>1
  <2> QED BY <2>1, <2>2, <2>3
<1>7. d \in Seq(Seq(Nat)) /\ Len(d) = k + 1
  BY <1>1, <1>5, <1>6
<1>8. /\ \A i \in 1..k : d[i] = ClosedData(o)[i]
      /\ d[k + 1] = o.file_.data
  <2>1. \A i \in 1..(k + 1) : d[i] = Files[i].data
    BY <1>5
  <2>2. \A i \in 1..k : i \in 1..(k + 1)
    BY <1>1
  <2>3. k + 1 \in 1..(k + 1)
    BY <1>1
  <2> HIDE DEF d
  <2>4. d[k + 1] = o.file_.data
    BY <1>3, <2>1, <2>3
  <2>5. ASSUME NEW i \in 1..k PROVE d[i] = ClosedData(o)[i]
    BY <1>3, <1>4, <2>1, <2>2
  <2> QED BY <2>4, <2>5
<1> HIDE DEF d
<1>9. d = Append(ClosedData(o), o.file_.data)
  BY <1>1, <1>4, <1>7, <1>8, ExtendSeq
<1>10. FlattenSeq(d) = Cat(FlattenSeq(ClosedData(o)), o.file_.data)
  BY <1>1, <1>4, <1>9, FlattenAppend DEF Cat
<1> QED BY <1>10 DEF Stored, Total, d

\* The first n records of the chunk are added to the files, the others lost.
Added(o, c, chunk, n) ==
  /\ Total(c) = Cat(Total(o), SubSeq(chunk, 1, n))
  /\ c.lost = o.lost \cup {chunk[i] : i \in (n + 1)..Len(chunk)}

LEMMA TotalStep ==
  ASSUME NEW o \in OutputType, NEW a, NEW b, NEW c, NEW chunk \in Seq(Nat),
         NEW n \in 0..Len(chunk), NEW t \in Nat, NEW later \in Nat, o.lastRoll_ > 0,
         Appended(o, a, chunk, n, t),
         Rolled(a, b, t, later) \/ Kept(a, b, t, later), Checked(b, c, t)
  PROVE  Added(o, c, chunk, n)
<1> DEFINE p == SubSeq(chunk, 1, n)
           F == FlattenSeq(ClosedData(o))
<1>1. a \in OutputType /\ b \in OutputType /\ c \in OutputType
  BY DEF Appended, Rolled, Kept, Checked
<1>2. p \in Seq(Nat) /\ F \in Seq(Nat) /\ o.file_.data \in Seq(Nat)
  BY Pieces, ClosedDataTyped, OutputNumbers
<1> HIDE DEF p, F
<1>3. a.closed = o.closed /\ a.file_.data = Cat(o.file_.data, p)
  BY DEF Appended, Cat, p
<1>4. Total(a) = Cat(Total(o), p)
  <2>1. ClosedData(a) = ClosedData(o)
    BY <1>3 DEF ClosedData
  <2>2. Cat(F, Cat(o.file_.data, p)) = Cat(Cat(F, o.file_.data), p)
    <3> DEFINE d == o.file_.data
    <3>1. d \in Seq(Nat)
      BY <1>2
    <3> HIDE DEF d
    <3>2. Cat(F, Cat(d, p)) = Cat(Cat(F, d), p)
      BY <1>2, <3>1, CatFacts
    <3> QED BY <3>2 DEF d
  <2> QED BY <1>3, <2>1, <2>2 DEF Total, F
<1>5. Total(b) = Total(a)
  <2>1. CASE Kept(a, b, t, later)
    BY <2>1 DEF Kept, Total, ClosedData
  <2>2. CASE Rolled(a, b, t, later)
    <3> DEFINE k == Len(a.closed)
    <3>1. b.closed = Append(a.closed, Closed(a.file_)) /\ b.file_ = FileUtil(later)
      BY <2>2 DEF Rolled, Appended
    <3>2. /\ a.closed \in Seq(ClosedType) /\ a.file_ \in FileType /\ k \in Nat
          /\ a.file_.data \in Seq(Nat)
      BY <1>1, OutputNumbers
    <3>3. Closed(a.file_) \in ClosedType /\ Closed(a.file_).data = a.file_.data
      BY <3>2, ClosedFields
    <3>4. /\ Len(b.closed) = k + 1 /\ b.closed[k + 1] = Closed(a.file_)
          /\ \A i \in 1..k : b.closed[i] = a.closed[i]
      BY <3>1, <3>2, <3>3, AppendProperties
    <3> DEFINE s == ClosedData(a)
               u == ClosedData(b)
    <3>5. s \in Seq(Seq(Nat)) /\ Len(s) = k /\ \A i \in 1..k : s[i] = a.closed[i].data
      BY <1>1, ClosedDataTyped
    <3>6. u \in Seq(Seq(Nat)) /\ Len(u) = k + 1 /\ \A i \in 1..(k + 1) : u[i] = b.closed[i].data
      BY <1>1, <3>4, ClosedDataTyped
    <3> HIDE DEF s, u, k
    <3>7. u[k + 1] = a.file_.data
      BY <3>2, <3>3, <3>4, <3>6
    <3>8. ASSUME NEW i \in 1..k PROVE u[i] = s[i]
      <4>1. i \in 1..(k + 1)
        BY <3>2
      <4>2. u[i] = b.closed[i].data
        BY <3>6, <4>1
      <4>3. b.closed[i] = a.closed[i]
        BY <3>4
      <4>4. s[i] = a.closed[i].data
        BY <3>5
      <4> QED BY <4>2, <4>3, <4>4
    <3>9. u = Append(s, a.file_.data)
      BY <3>2, <3>5, <3>6, <3>7, <3>8, ExtendSeq
    <3>10. FlattenSeq(u) = Cat(FlattenSeq(s), a.file_.data) /\ FlattenSeq(u) \in Seq(Nat)
      BY <3>2, <3>5, <3>9, FlattenAppend DEF Cat
    <3>11. b.file_.data = <<>>
      BY <3>1, FileUtilFields
    <3>12. Cat(FlattenSeq(u), <<>>) = FlattenSeq(u)
      BY <3>10, CatFacts
    <3> QED BY <3>10, <3>11, <3>12 DEF Total, s, u
  <2> QED BY <2>1, <2>2
<1>6. Total(c) = Total(b)
  BY DEF Checked, Total, ClosedData
<1>7. c.lost = o.lost \cup {chunk[i] : i \in (n + 1)..Len(chunk)}
  <2>1. c.lost = b.lost /\ b.lost = a.lost
    BY DEF Checked, Rolled, Kept
  <2>2. a.lost = o.lost \cup Range(SubSeq(chunk, n + 1, Len(chunk)))
    BY DEF Appended
  <2>3. Range(SubSeq(chunk, n + 1, Len(chunk))) = {chunk[i] : i \in (n + 1)..Len(chunk)}
    BY Pieces
  <2> QED BY <2>1, <2>2, <2>3
<1> QED BY <1>4, <1>5, <1>6, <1>7 DEF Added, p

\* Of the records of the chunk those that the disk took remain.
LEMMA RemainingStep ==
  ASSUME NEW f \in Seq(Nat), NEW chunk \in Seq(Nat), NEW n \in 0..Len(chunk),
         NEW lost \in SUBSET (1..Len(f)),
         \A i \in 1..Len(f) : f[i] = i,
         \A i \in 1..Len(chunk) : chunk[i] = Len(f) + i,
         NEW gone, gone = lost \cup {chunk[i] : i \in (n + 1)..Len(chunk)}
  PROVE  /\ FlattenSeq(Remaining(Cat(f, chunk), gone))
              = Cat(FlattenSeq(Remaining(f, lost)), SubSeq(chunk, 1, n))
         /\ gone \in SUBSET (1..Len(Cat(f, chunk)))
<1> DEFINE k == Len(f)
           m == Len(chunk)
           g == Cat(f, chunk)
           r == Remaining(f, lost)
           q == Ones(chunk, n, m)
           w == Remaining(g, gone)
           e == r \o q
<1>1. k \in Nat /\ m \in Nat /\ n \in Nat /\ n <= m
  BY LenProperties
<1>2. g \in Seq(Nat) /\ Len(g) = k + m
  BY ConcatProperties DEF Cat
<1>3. \A i \in 1..k : g[i] = f[i]
  <2>1. \A i \in 1..(k + m) : g[i] = IF i <= k THEN f[i] ELSE chunk[i - k]
    BY ConcatProperties DEF Cat
  <2> HIDE DEF g, k, m
  <2>2. ASSUME NEW i \in 1..k PROVE g[i] = f[i]
    <3>1. i \in 1..(k + m) /\ i <= k
      BY <1>1
    <3> QED BY <2>1, <3>1
  <2> QED BY <2>2
<1>4. \A j \in 1..m : g[k + j] = chunk[j]
  <2>1. \A i \in 1..(k + m) : g[i] = IF i <= k THEN f[i] ELSE chunk[i - k]
    BY ConcatProperties DEF Cat
  <2> HIDE DEF g, k, m
  <2>2. ASSUME NEW j \in 1..m PROVE g[k + j] = chunk[j]
    <3>1. k + j \in 1..(k + m) /\ ~(k + j <= k) /\ (k + j) - k = j
      BY <1>1
    <3> QED BY <2>1, <3>1
  <2> QED BY <2>2
<1>5. \A i \in 1..k : f[i] = i
  OBVIOUS
<1>6. \A j \in 1..m : chunk[j] = k + j
  OBVIOUS
<1>7. gone = lost \cup {chunk[i] : i \in (n + 1)..m} /\ lost \subseteq 1..k
  OBVIOUS
<1>8. q \in Seq(Seq(Nat)) /\ FlattenSeq(q) = SubSeq(chunk, 1, n)
  BY FlattenOnes
<1>9. Len(q) = m /\ \A j \in 1..m : q[j] = IF j <= n THEN <<chunk[j]>> ELSE <<>>
  BY <1>1 DEF Ones
<1>10. \A i \in 1..k : f[i] \in Nat
  BY ElementOfSeq
<1>11. r \in Seq(Seq(Nat)) /\ Len(r) = k
  <2>1. r = [i \in 1..k |-> IF f[i] \in lost THEN <<>> ELSE <<f[i]>>]
    BY DEF Remaining
  <2>2. \A i \in 1..k : (IF f[i] \in lost THEN <<>> ELSE <<f[i]>>) \in Seq(Nat)
    BY <1>10
  <2> QED BY <1>1, <2>1, <2>2
<1>12. \A i \in 1..k : r[i] = IF f[i] \in lost THEN <<>> ELSE <<f[i]>>
  BY DEF Remaining
<1>13. \A i \in 1..(k + m) : g[i] \in Nat
  BY <1>2, ElementOfSeq
<1>14. w \in Seq(Seq(Nat)) /\ Len(w) = k + m
  <2>1. w = [i \in 1..(k + m) |-> IF g[i] \in gone THEN <<>> ELSE <<g[i]>>]
    BY <1>2 DEF Remaining
  <2> HIDE DEF g, k, m
  <2>2. \A i \in 1..(k + m) : (IF g[i] \in gone THEN <<>> ELSE <<g[i]>>) \in Seq(Nat)
    BY <1>13
  <2> DEFINE v(i) == IF g[i] \in gone THEN <<>> ELSE <<g[i]>>
             z == k + m
  <2>3. z \in Nat /\ w = [i \in 1..z |-> v(i)] /\ \A i \in 1..z : v(i) \in Seq(Nat)
    BY <1>1, <2>1, <2>2
  <2> HIDE DEF v, z, w
  <2>4. w \in Seq(Seq(Nat)) /\ Len(w) = z
    BY <2>3
  <2> QED BY <2>4 DEF z
<1>15. \A i \in 1..(k + m) : w[i] = IF g[i] \in gone THEN <<>> ELSE <<g[i]>>
  BY <1>2 DEF Remaining
<1> HIDE DEF k, m, g, r, q, w
<1>16. /\ e \in Seq(Seq(Nat)) /\ Len(e) = k + m
       /\ \A i \in 1..(k + m) : e[i] = IF i <= k THEN r[i] ELSE q[i - k]
  <2>1. /\ e \in Seq(Seq(Nat)) /\ Len(e) = Len(r) + Len(q)
        /\ \A i \in 1..(Len(r) + Len(q)) : e[i] = IF i <= Len(r) THEN r[i] ELSE q[i - Len(r)]
    BY <1>8, <1>11, ConcatProperties
  <2> HIDE DEF e
  <2> QED BY <1>9, <1>11, <2>1, Zenon
<1>17. ASSUME NEW i \in 1..k PROVE i \in gone <=> i \in lost
  <2>1. ASSUME NEW j \in (n + 1)..m PROVE chunk[j] # i
    BY <1>1, <1>6
  <2> QED BY <1>7, <2>1
<1>18. ASSUME NEW j \in 1..m PROVE k + j \in gone <=> ~(j <= n)
  <2>1. k + j \notin lost
    BY <1>1, <1>7
  <2>2. ASSUME j <= n, NEW i \in (n + 1)..m PROVE chunk[i] # k + j
    BY <1>1, <1>6, <2>2
  <2>3. ASSUME ~(j <= n) PROVE j \in (n + 1)..m /\ chunk[j] = k + j
    BY <1>1, <1>6, <2>3
  <2> QED BY <1>7, <2>1, <2>2, <2>3
<1> HIDE DEF e
<1>19. ASSUME NEW i \in 1..(k + m) PROVE w[i] = e[i]
  <2>1. CASE i \in 1..k
    <3>1. i <= k /\ g[i] = i /\ f[i] = i
      BY <1>1, <1>3, <1>5, <2>1
    <3>2. e[i] = r[i]
      BY <1>16, <3>1
    <3>3. r[i] = IF i \in lost THEN <<>> ELSE <<i>>
      BY <1>12, <2>1, <3>1
    <3>4. w[i] = IF i \in gone THEN <<>> ELSE <<i>>
      BY <1>15, <3>1
    <3>5. i \in gone <=> i \in lost
      BY <1>17, <2>1
    <3> QED BY <3>2, <3>3, <3>4, <3>5
  <2>2. CASE ~(i \in 1..k)
    <3> DEFINE j == i - k
    <3>1. j \in 1..m /\ i = k + j /\ ~(i <= k)
      BY <1>1, <2>2
    <3>2. e[i] = q[j]
      BY <1>16, <3>1
    <3> HIDE DEF j
    <3>3. g[i] = k + j /\ chunk[j] = k + j
      BY <1>4, <1>6, <3>1
    <3>4. q[j] = IF j <= n THEN <<k + j>> ELSE <<>>
      BY <1>9, <3>1, <3>3
    <3>5. w[i] = IF k + j \in gone THEN <<>> ELSE <<k + j>>
      BY <1>15, <3>3
    <3>6. k + j \in gone <=> ~(j <= n)
      BY <1>18, <3>1, Zenon
    <3> QED BY <3>2, <3>4, <3>5, <3>6
  <2> QED BY <2>1, <2>2
<1>20. w = e
  BY <1>14, <1>16, <1>19, SeqEqual
<1>21. FlattenSeq(w) = FlattenSeq(r) \o FlattenSeq(q)
  BY <1>8, <1>11, <1>20, FlattenConcat DEF e
<1>22. gone \in SUBSET (1..(k + m))
  <2>1. ASSUME NEW x \in gone PROVE x \in 1..(k + m)
    <3>1. CASE x \in lost
      BY <1>1, <1>7, <3>1
    <3>2. CASE x \notin lost
      <4>1. PICK i \in (n + 1)..m : x = chunk[i]
        BY <1>7, <3>2
      <4>2. i \in 1..m
        BY <1>1
      <4>3. x = k + i
        BY <1>6, <4>1, <4>2
      <4>4. k + i \in 1..(k + m)
        BY <1>1, <4>2
      <4> QED BY <4>3, <4>4
    <3> QED BY <3>1, <3>2
  <2> QED BY <2>1
<1> QED BY <1>2, <1>8, <1>21, <1>22 DEF Cat, k, m, g, r, w

\* What precedes is a front.
LEMMA FrontOfCat ==
  ASSUME NEW f \in Seq(Nat), NEW z \in Seq(Nat), NEW n \in Nat, Cat(f, z) = Upto(n)
  PROVE  \A i \in 1..Len(f) : f[i] = i
<1> DEFINE k == Len(f)
           m == Len(z)
           g == Cat(f, z)
<1>1. k \in Nat /\ m \in Nat
  BY LenProperties
<1>2. Len(g) = k + m /\ \A i \in 1..(k + m) : g[i] = IF i <= k THEN f[i] ELSE z[i - k]
  BY ConcatProperties DEF Cat
<1>3. Len(g) = n /\ \A i \in 1..n : g[i] = i
  BY DEF Upto
<1> HIDE DEF k, m, g
<1>4. ASSUME NEW i \in 1..k PROVE f[i] = i
  <2>1. i \in 1..(k + m) /\ i <= k
    BY <1>1
  <2>2. g[i] = f[i]
    BY <1>2, <2>1
  <2>3. i \in 1..n
    BY <1>2, <1>3, <2>1
  <2> QED BY <1>3, <2>2, <2>3
<1> QED BY <1>4 DEF k

\* The records of the parts are numbered through.
LEMMA PartsCount ==
  ASSUME NEW f \in Seq(Nat), NEW w \in Seq(Seq(Nat)), NEW k \in 1..(Len(w) + 1),
         NEW b \in Seq(Seq(Nat)), NEW c \in Seq(Nat), NEW n \in Nat,
         Parts(f, w, k, b, c) = Upto(n)
  PROVE  \A i \in 1..Len(f) : f[i] = i
<1> DEFINE g == FlattenSeq(SubSeq(w, k, Len(w)))
           h == FlattenSeq(b)
<1>1. g \in Seq(Nat) /\ h \in Seq(Nat)
  BY RestTyped, FlattenTyped
<1>2. Cat(Cat(Cat(f, g), h), c) = Upto(n)
  BY Zenon DEF Parts
<1> HIDE DEF g, h
<1>3. Cat(f, g) \in Seq(Nat) /\ Cat(h, c) \in Seq(Nat)
  BY <1>1, CatFacts
<1>4. Cat(Cat(Cat(f, g), h), c) = Cat(Cat(f, g), Cat(h, c))
  BY <1>1, <1>3, CatFacts
<1>5. Cat(Cat(f, g), Cat(h, c)) = Cat(f, Cat(g, Cat(h, c))) /\ Cat(g, Cat(h, c)) \in Seq(Nat)
  BY <1>1, <1>3, CatFacts
<1> QED BY <1>2, <1>4, <1>5, FrontOfCat

-----------------------------------------------------------------------------
\* The files hold what is left of the records written.
HoldInv ==
  /\ output.lost \in SUBSET (1..Len(file))
  /\ Total(output) = FlattenSeq(Remaining(file, output.lost))

LEMMA HoldAppend ==
  ASSUME OrderInv, FileInv, HoldInv, WriteBuffer, AppendChunk(buffersToWrite[at])
  PROVE  HoldInv'
<1> DEFINE chunk == buffersToWrite[at]
<1>1. chunk \in Seq(Nat)
  <2>1. buffersToWrite \in Seq(Seq(Nat)) /\ at \in 1..Len(buffersToWrite)
    BY OrderTypes DEF WriteBuffer
  <2> QED BY <2>1, ElementOfSeq
<1>2. file' = Cat(file, chunk) /\ pc = "write"
  BY DEF WriteBuffer, Cat
<1>3. PICK t \in 1..MaxTime, later \in 1..MaxTime, n \in 0..Len(chunk) :
        /\ ~RollIsDue(FileAppend(output, chunk, n, t), t) => later = t
        /\ output' = CheckFlush(CheckRoll(FileAppend(output, chunk, n, t), t, later), t)
  BY DEF AppendChunk
<1> HIDE DEF chunk
<1>4. t \in Nat /\ later \in Nat
  BY LogFileAssumption
<1>5. output \in OutputType /\ output.lastRoll_ > 0
  BY <1>2 DEF FileInv, Begun, OutputOK
<1>6. PICK a, b : /\ Appended(output, a, chunk, n, t)
                  /\ Rolled(a, b, t, later) \/ Kept(a, b, t, later)
                  /\ Checked(b, output', t)
  BY <1>1, <1>3, <1>4, <1>5, AppendStages
<1>7. /\ Total(output') = Cat(Total(output), SubSeq(chunk, 1, n))
      /\ output'.lost = output.lost \cup {chunk[i] : i \in (n + 1)..Len(chunk)}
  <2> DEFINE c == output'
             o == output
  <2>1. /\ o \in OutputType /\ chunk \in Seq(Nat) /\ n \in 0..Len(chunk) /\ t \in Nat
        /\ later \in Nat /\ o.lastRoll_ > 0 /\ Appended(o, a, chunk, n, t)
        /\ Rolled(a, b, t, later) \/ Kept(a, b, t, later)
        /\ Checked(b, c, t)
    BY <1>1, <1>3, <1>4, <1>5, <1>6
  <2> HIDE DEF o, c
  <2>2. Added(o, c, chunk, n)
    BY <2>1, TotalStep
  <2> QED BY <2>2 DEF Added, o, c
<1>8. /\ file \in Seq(Nat) /\ Cat(file, chunk) \in Seq(Nat)
      /\ \A i \in 1..Len(file) : file[i] = i
      /\ \A i \in 1..Len(Cat(file, chunk)) : Cat(file, chunk)[i] = i
  <2>1. /\ file \in Seq(Nat) /\ buffersToWrite \in Seq(Seq(Nat)) /\ at \in 1..Len(buffersToWrite)
        /\ buffers_ \in Seq(Seq(Nat)) /\ currentBuffer_ \in Seq(Nat) /\ logged \in Nat
        /\ Len(buffersToWrite) \in Nat
    BY OrderTypes DEF WriteBuffer
  <2>2. Parts(file, buffersToWrite, at, buffers_, currentBuffer_) = Upto(logged)
    BY OrderAsParts DEF OrderInv
  <2>3. Parts(Cat(file, chunk), buffersToWrite, at + 1, buffers_, currentBuffer_) = Upto(logged)
    BY <2>1, <2>2, PartsWrite DEF chunk
  <2>4. at \in 1..(Len(buffersToWrite) + 1) /\ at + 1 \in 1..(Len(buffersToWrite) + 1)
    BY <2>1
  <2>5. Cat(file, chunk) \in Seq(Nat)
    BY <1>1, <2>1, CatFacts
  <2>6. \A i \in 1..Len(file) : file[i] = i
    BY <2>1, <2>2, <2>4, PartsCount
  <2>7. \A i \in 1..Len(Cat(file, chunk)) : Cat(file, chunk)[i] = i
    BY <2>1, <2>3, <2>4, <2>5, PartsCount
  <2> QED BY <2>1, <2>5, <2>6, <2>7
<1>9. \A i \in 1..Len(chunk) : chunk[i] = Len(file) + i
  <2> DEFINE k == Len(file)
             m == Len(chunk)
             g == Cat(file, chunk)
  <2>1. \A i \in 1..Len(g) : g[i] = i
    BY <1>8
  <2>2. Len(g) = k + m /\ \A i \in 1..(k + m) : g[i] = IF i <= k THEN file[i] ELSE chunk[i - k]
    BY <1>1, <1>8, ConcatProperties DEF Cat
  <2>3. k \in Nat /\ m \in Nat
    BY <1>1, <1>8, LenProperties
  <2> HIDE DEF k, m, g
  <2>5. ASSUME NEW i \in 1..m PROVE chunk[i] = k + i
    <3>1. k + i \in 1..(k + m) /\ ~(k + i <= k) /\ (k + i) - k = i
      BY <2>3
    <3>2. g[k + i] = chunk[i]
      BY <2>2, <3>1
    <3>3. g[k + i] = k + i
      BY <2>1, <2>2, <3>1
    <3> QED BY <3>2, <3>3
  <2> QED BY <2>5 DEF k, m
<1>10. /\ output.lost \in SUBSET (1..Len(file))
       /\ Total(output) = FlattenSeq(Remaining(file, output.lost))
  BY DEF HoldInv
<1>11. /\ FlattenSeq(Remaining(Cat(file, chunk), output'.lost))
            = Cat(FlattenSeq(Remaining(file, output.lost)), SubSeq(chunk, 1, n))
       /\ output'.lost \in SUBSET (1..Len(Cat(file, chunk)))
  BY <1>1, <1>7, <1>8, <1>9, <1>10, RemainingStep
<1> QED BY <1>2, <1>7, <1>10, <1>11 DEF HoldInv

LEMMA HoldKept ==
  ASSUME HoldInv, Total(output') = Total(output), output'.lost = output.lost, file' = file
  PROVE  HoldInv'
BY DEF HoldInv

LEMMA OpenedIsEmpty ==
  ASSUME NEW o, NEW t \in Nat, Opened(o, t)
  PROVE  Total(o) = <<>> /\ o.lost = {}
<1>1. o.closed = <<>> /\ o.file_.data = <<>> /\ o.lost = {}
  BY FileUtilFields DEF Opened
<1>2. ClosedData(o) = <<>>
  BY <1>1 DEF ClosedData
<1>3. Cat(<<>>, <<>>) = <<>>
  BY EmptySeq, CatFacts
<1> QED BY <1>1, <1>2, <1>3, FlattenEmpty DEF Total

LEMMA HoldStep ==
  ASSUME OrderInv, FileInv, HoldInv, [LoggingNext]_allVars
  PROVE  HoldInv'
<1>1. CASE UNCHANGED <<output, file>>
  BY <1>1, HoldKept
<1>2. CASE Start /\ Open
  <2>1. PICK t \in 1..MaxTime : output' = RollFile(output, t)
    BY <1>2 DEF Open
  <2>2. output = NoFile /\ file' = file
    BY <1>2 DEF FileInv, Begun, Start
  <2>3. t \in Nat /\ t > 0
    BY LogFileAssumption
  <2>4. Opened(output, 0)
    BY <2>2, NoFileOpened
  <2>5. Opened(output', t)
    BY <2>1, <2>3, <2>4, RollOpens
  <2>6. Total(output') = <<>> /\ output'.lost = {}
    BY <2>3, <2>5, OpenedIsEmpty
  <2>7. Total(output) = <<>> /\ output.lost = {}
    BY <2>4, OpenedIsEmpty
  <2> QED BY <2>2, <2>6, <2>7, HoldKept
<1>3. CASE WriteBuffer /\ AppendChunk(buffersToWrite[at])
  BY <1>3, HoldAppend
<1>4. CASE (Refill \/ Finish) /\ FlushAll
  <2>1. file' = file
    BY <1>4 DEF Refill, Finish
  <2>2. output \in OutputType
    BY DEF FileInv, OutputOK
  <2>3. Flushed(output, output')
    BY <1>4, <2>2, FlushFields DEF FlushAll
  <2>4. Total(output') = Total(output) /\ output'.lost = output.lost
    BY <2>3 DEF Flushed, Total, ClosedData
  <2> QED BY <2>1, <2>4, HoldKept
<1>5. CASE /\ AppendRecord \/ Stop \/ CheckRunning \/ WaitReturns
           /\ UNCHANGED logFileVars
  BY <1>1, <1>5 DEF AppendRecord, Stop, CheckRunning, WaitReturns, Collect, logFileVars
<1>6. CASE UNCHANGED allVars
  BY <1>1, <1>6 DEF allVars, vars, logFileVars
<1> QED BY <1>2, <1>3, <1>4, <1>5, <1>6 DEF LoggingNext, ThreadStep

\* The files, in the order of their names, hold every record that the thread
\* has written, once and in order, except for what the disk refused.
THEOREM FilesAlwaysHoldLog == LoggingSpec => []FilesHoldLog
<1>1. ASSUME LoggingInit PROVE HoldInv
  <2>1. output = NoFile /\ file = <<>>
    BY <1>1 DEF LoggingInit, LogFileInit, Init
  <2>2. Total(output) = <<>> /\ output.lost = {}
    BY <2>1, NoFileOpened, OpenedIsEmpty
  <2>3. Remaining(<<>>, {}) = <<>>
    BY DEF Remaining
  <2> QED BY <2>1, <2>2, <2>3, FlattenEmpty DEF HoldInv
<1>2. LoggingSpec => []OrderInv
  BY LoggingIsSafe, OrderAlways, PTL DEF LoggingSpec
<1>3. OrderInv /\ FileInv /\ HoldInv /\ [LoggingNext]_allVars => HoldInv'
  BY HoldStep
<1>4. ASSUME FileInv, HoldInv PROVE FilesHoldLog
  <2>1. Stored = Total(output)
    BY <1>4, StoredIsTotal DEF FileInv, OutputOK
  <2> QED BY <1>4, <2>1 DEF HoldInv, FilesHoldLog, Remaining
<1> QED BY <1>1, <1>2, <1>3, <1>4, FileAlways, PTL DEF LoggingSpec
=============================================================================
