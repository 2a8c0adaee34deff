--------------------------- MODULE EventLoopProofs ---------------------------
(***************************************************************************)
(* Proofs about EventLoop for any number of threads and functors: the      *)
(* types are right, no wakeup is lost, and the loop implements TaskQueue.  *)
(***************************************************************************)
EXTENDS EventLoop, SequenceTheorems, TLAPS

\* Every action of the owner and of the callers keeps the variables in their
\* types, and the owner's two flags say where it is.
LEMMA TypeStep == TypeOK /\ [Next]_vars => TypeOK'
<1> SUFFICES ASSUME TypeOK, [Next]_vars PROVE TypeOK'
  OBVIOUS
<1> USE DEF TypeOK, OwnerAt, Pcs, Channels, Threads
<1>1. ASSUME NEW t \in Threads, NEW f \in Functors, QueueInLoop(t, f)
      PROVE  TypeOK'
  BY <1>1, AppendProperties DEF QueueInLoop
<1>2. ASSUME NEW f \in Functors, RunInline(f)
      PROVE  TypeOK'
  BY <1>2, AppendProperties DEF RunInline
<1>3. ASSUME NEW t \in Threads, Quit(t)
      PROVE  TypeOK'
  BY <1>3 DEF Quit
<1>4. ASSUME NEW t \in Threads, Wakeup(t)
      PROVE  TypeOK'
  BY <1>4, LoopAssumption DEF Wakeup
<1>5. CASE Loop
  BY <1>5 DEF Loop
<1>6. CASE CheckQuit
  BY <1>6 DEF CheckQuit
<1>7. CASE HandleRead
  BY <1>7, LoopAssumption DEF HandleRead
<1>8. CASE HandleChannel
  BY <1>8 DEF HandleChannel
<1>9. CASE ChannelReturns \/ ChannelsHandled \/ FunctorReturns
  <2>1. CASE ChannelReturns
    BY <2>1 DEF ChannelReturns
  <2>2. CASE ChannelsHandled
    BY <2>2 DEF ChannelsHandled
  <2>3. CASE FunctorReturns
    BY <2>3 DEF FunctorReturns
  <2> QED BY <1>9, <2>1, <2>2, <2>3
<1>10. CASE BeginPending
  BY <1>10 DEF BeginPending
<1>11. CASE EndPending
  BY <1>11 DEF EndPending
<1>12. CASE SwapFunctors
  BY <1>12 DEF SwapFunctors
<1>13. CASE RunFunctor
  <2>1. Head(functors) \in Functors /\ Tail(functors) \in Seq(Functors)
    BY <1>13, HeadTailProperties DEF RunFunctor
  <2>2. ran' \in Seq(Functors)
    BY <1>13, <2>1, AppendProperties DEF RunFunctor
  <2> QED BY <1>13, <2>1, <2>2 DEF RunFunctor
<1>14. CASE Poll
  BY <1>14 DEF Poll, PollReturns
<1>15. CASE UNCHANGED vars
  BY <1>15 DEF vars
<1> QED
  BY <1>1, <1>2, <1>3, <1>4, <1>5, <1>6, <1>7, <1>8, <1>9, <1>10, <1>11,
     <1>12, <1>13, <1>14, <1>15 DEF Next, Calls, OwnerStep, RunInLoop

\* TypeOK holds in every state of an event loop: in particular
\* callingPendingFunctors_ is set exactly while doPendingFunctors() swaps and
\* runs functors, which is what queueInLoop() takes it to say.
THEOREM TypeCorrect == Safety => []TypeOK
<1>1. Init => TypeOK
  <2> SUFFICES ASSUME Init PROVE TypeOK
    OBVIOUS
  <2>1. wakeupFd_ \in 0..EventfdMax
    BY LoopAssumption DEF Init
  <2>2. pendingFunctors_ \in Seq(Functors) /\ functors \in Seq(Functors)
        /\ ran \in Seq(Functors)
    BY EmptySeq DEF Init
  <2>3. waking \in [Threads -> BOOLEAN]
    BY DEF Init
  <2> QED BY <2>1, <2>2, <2>3 DEF Init, TypeOK, Pcs
<1> QED
  BY <1>1, TypeStep, PTL DEF Safety

-----------------------------------------------------------------------------
\* What a push does to the set of queued functors.
LEMMA RangeAppend ==
  ASSUME NEW S, NEW s \in Seq(S), NEW e \in S
  PROVE  Range(Append(s, e)) = Range(s) \cup {e}
<1>1. <<e>> \in Seq(S) /\ Range(<<e>>) = {e}
  BY DEF Range
<1> QED
  <2>1. Append(s, e) = s \o <<e>>
    BY AppendIsConcat
  <2>2. Range(s \o <<e>>) = Range(s) \cup Range(<<e>>)
    BY <1>1, RangeConcatenation
  <2> QED BY <1>1, <2>1, <2>2, Zenon

\* WakeupInv is inductive: the eventfd is drained only between poll() and the
\* swap, and every push or quit() outside that window owes a wakeup().
LEMMA WakeupStep == TypeOK /\ WakeupInv /\ [Next]_vars => WakeupInv'
<1> SUFFICES ASSUME TypeOK, WakeupInv, [Next]_vars PROVE WakeupInv'
  OBVIOUS
<1> USE DEF WakeupInv, WakeupInFlight, Announced, OwnerAt
<1>1. ASSUME NEW t \in Threads, NEW f \in Functors, QueueInLoop(t, f)
      PROVE  WakeupInv'
  <2>1. Range(pendingFunctors_') = Range(pendingFunctors_) \cup {f}
    BY <1>1, RangeAppend DEF QueueInLoop, TypeOK
  <2>2. CASE t # Owner \/ callingPendingFunctors_
    <3>1. waking'[t]
      BY <1>1, <2>2 DEF QueueInLoop, TypeOK
    <3> QED BY <1>1, <3>1 DEF QueueInLoop
  <2>3. CASE t = Owner /\ ~callingPendingFunctors_
    <3>1. waking' = waking
      BY <1>1, <2>3 DEF QueueInLoop, TypeOK, CanCall
    <3>2. pc \in {"preloop", "inChannel"} /\ pc' = pc
      BY <1>1, <2>3 DEF QueueInLoop, CanCall, Running, TypeOK
    <3>3. pc = "preloop" => Announced' \subseteq Announced
      BY <1>1, <2>1, <2>3 DEF QueueInLoop
    <3> QED BY <1>1, <3>1, <3>2, <3>3 DEF QueueInLoop
  <2> QED BY <2>2, <2>3
<1>2. ASSUME NEW f \in Functors, RunInline(f)
      PROVE  WakeupInv'
  BY <1>2 DEF RunInline
<1>3. ASSUME NEW t \in Threads, Quit(t)
      PROVE  WakeupInv'
  <2>1. CASE t # Owner
    <3>1. waking'[t]
      BY <1>3, <2>1 DEF Quit, TypeOK
    <3> QED BY <1>3, <3>1 DEF Quit
  <2>2. CASE t = Owner
    <3>1. waking' = waking /\ pc # "poll"
      BY <1>3, <2>2 DEF Quit, TypeOK, CanCall, Running
    <3> QED BY <1>3, <3>1 DEF Quit
  <2> QED BY <2>1, <2>2
<1>4. ASSUME NEW t \in Threads, Wakeup(t)
      PROVE  WakeupInv'
  <2>1. wakeupFd_' > 0
    BY <1>4, LoopAssumption DEF Wakeup, TypeOK
  <2> QED BY <1>4, <2>1 DEF Wakeup
<1>5. CASE Loop
  BY <1>5 DEF Loop
<1>6. CASE CheckQuit
  BY <1>6 DEF CheckQuit
<1>7. CASE HandleRead \/ HandleChannel
  BY <1>7 DEF HandleRead, HandleChannel
<1>8. CASE ChannelReturns \/ ChannelsHandled \/ FunctorReturns
  BY <1>8 DEF ChannelReturns, ChannelsHandled, FunctorReturns
<1>9. CASE BeginPending \/ EndPending
  BY <1>9 DEF BeginPending, EndPending
<1>10. CASE SwapFunctors
  <2>1. pc' = "run"
    BY <1>10 DEF SwapFunctors
  <2>2. Range(pendingFunctors_') = {}
    BY <1>10 DEF SwapFunctors, Range
  <2> QED BY <2>1, <2>2
<1>11. CASE RunFunctor
  BY <1>11 DEF RunFunctor
<1>12. CASE Poll
  BY <1>12 DEF Poll, PollReturns
<1>13. CASE UNCHANGED vars
  BY <1>13 DEF vars
<1> QED
  BY <1>1, <1>2, <1>3, <1>4, <1>5, <1>6, <1>7, <1>8, <1>9, <1>10, <1>11,
     <1>12, <1>13 DEF Next, Calls, OwnerStep, RunInLoop

LEMMA WakeupAlways == Safety => [](TypeOK /\ WakeupInv)
<1>1. Init => WakeupInv
  BY DEF Init, WakeupInv, Announced, Range
<1> QED
  BY <1>1, TypeCorrect, WakeupStep, PTL DEF Safety

\* What is queued outside the window between poll() and the swap has its wakeup
\* ahead of it, for any number of threads and functors.
THEOREM WakeupCovers == Safety => []WakeupInv
  BY WakeupAlways, PTL

\* No wakeup is lost, for any number of threads and functors: a loop blocked
\* in poll() with a functor queued or quit() called has a readable eventfd
\* or a thread about to write it.
THEOREM WakeupSafety == Safety => []NoLostWakeup
<1>1. WakeupInv => NoLostWakeup
  BY DEF WakeupInv, NoLostWakeup
<1> QED
  BY <1>1, WakeupAlways, PTL

-----------------------------------------------------------------------------
\* The oldest element of a queue that is split in two, its first part not
\* empty, is the oldest of the first part.
LEMMA HeadTailConcat ==
  ASSUME NEW S, NEW s \in Seq(S), NEW t \in Seq(S), s # <<>>
  PROVE  /\ s \o t # <<>>
         /\ Head(s \o t) = Head(s)
         /\ Tail(s \o t) = Tail(s) \o t
<1>1. s \o t # <<>>
  BY ConcatEqualIffEmpty
<1>2. s \o t \in Seq(S) /\ Len(s) \in Nat \ {0} /\ Len(t) \in Nat
  BY ConcatProperties, EmptySeq, LenProperties
<1>3. Head(s \o t) = Head(s)
  BY <1>1, <1>2, ConcatProperties
<1>4. Tail(s) \in Seq(S) /\ Tail(s) \o t \in Seq(S) /\ Tail(s \o t) \in Seq(S)
  BY <1>1, <1>2, HeadTailProperties, ConcatProperties
<1>5. /\ Len(Tail(s)) = Len(s) - 1
      /\ \A i \in 1..Len(Tail(s)) : Tail(s)[i] = s[i + 1]
  BY HeadTailProperties
<1>6. /\ Len(s \o t) = Len(s) + Len(t)
      /\ \A i \in 1..Len(s) + Len(t) :
           (s \o t)[i] = IF i <= Len(s) THEN s[i] ELSE t[i - Len(s)]
  BY ConcatProperties
<1>7. /\ Len(Tail(s \o t)) = Len(s \o t) - 1
      /\ \A i \in 1..Len(Tail(s \o t)) : Tail(s \o t)[i] = (s \o t)[i + 1]
  BY <1>1, <1>2, HeadTailProperties
<1>8. /\ Len(Tail(s) \o t) = Len(Tail(s)) + Len(t)
      /\ \A i \in 1..Len(Tail(s)) + Len(t) :
           (Tail(s) \o t)[i] = IF i <= Len(Tail(s)) THEN Tail(s)[i]
                                                   ELSE t[i - Len(Tail(s))]
  BY <1>4, ConcatProperties
<1>9. Len(Tail(s \o t)) = Len(Tail(s) \o t)
  BY <1>2, <1>5, <1>6, <1>7, <1>8
<1>10. ASSUME NEW i \in 1..Len(Tail(s \o t))
       PROVE  Tail(s \o t)[i] = (Tail(s) \o t)[i]
  BY <1>2, <1>5, <1>6, <1>7, <1>8
<1>11. Tail(s \o t) = Tail(s) \o t
  BY <1>4, <1>9, <1>10, SeqEqual
<1> QED BY <1>1, <1>3, <1>11

\* A push onto the second part is a push onto the whole.
LEMMA AppendConcat ==
  ASSUME NEW S, NEW s \in Seq(S), NEW t \in Seq(S), NEW e \in S
  PROVE  s \o Append(t, e) = Append(s \o t, e)
<1>1. <<e>> \in Seq(S)
  OBVIOUS
<1>2. s \o t \in Seq(S)
  BY ConcatProperties
<1>3. Append(t, e) = t \o <<e>> /\ Append(s \o t, e) = (s \o t) \o <<e>>
  BY <1>2, AppendIsConcat
<1> QED BY <1>1, <1>3, ConcatAssociative

\* A functor that no vector holds and that has not been run is a fresh one.
LEMMA UnusedIsFresh ==
  ASSUME TypeOK, NEW f, Unused(f)
  PROVE  TQ!Fresh(f)
<1>1. Range(functors \o pendingFunctors_) = Range(functors) \cup Range(pendingFunctors_)
  BY RangeConcatenation DEF TypeOK
<1>2. f \notin Range(functors \o pendingFunctors_) \cup Range(ran)
  BY <1>1 DEF Unused
<1> QED BY <1>2 DEF TQ!Fresh, TQ!Range, Range

\* The loop implements TaskQueue: queueInLoop() is a Submit, one turn of the
\* for loop of doPendingFunctors() a RunOldest, and no other step, the swap
\* of the vectors included, changes what is queued or run.
THEOREM Refinement == Safety => ImplementsTaskQueue
<1>1. Init => TQ!Init
  BY ConcatEmptySeq, EmptySeq DEF Init, TQ!Init
<1>2. TypeOK /\ WakeupInv /\ [Next]_vars => [TQ!Next]_(TQ!vars)
  <2> SUFFICES ASSUME TypeOK, WakeupInv, [Next]_vars
               PROVE  [TQ!Next]_(TQ!vars)
    OBVIOUS
  <2> USE DEF TypeOK
  <2>1. ASSUME NEW t \in Threads, NEW f \in Functors, QueueInLoop(t, f)
        PROVE  TQ!Next
    <3>1. functors' \o pendingFunctors_' = Append(functors \o pendingFunctors_, f)
      BY <2>1, AppendConcat DEF QueueInLoop
    <3>2. TQ!Fresh(f)
      BY <2>1, UnusedIsFresh DEF QueueInLoop
    <3> QED BY <2>1, <3>1, <3>2 DEF QueueInLoop, TQ!Next, TQ!Submit
  <2>2. ASSUME NEW f \in Functors, RunInline(f)
        PROVE  TQ!Next
    <3>1. TQ!Fresh(f)
      BY <2>2, UnusedIsFresh DEF RunInline
    <3> QED BY <2>2, <3>1 DEF RunInline, TQ!Next, TQ!RunInline
  <2>3. CASE RunFunctor
    <3>1. /\ functors \o pendingFunctors_ # <<>>
          /\ Head(functors \o pendingFunctors_) = Head(functors)
          /\ Tail(functors \o pendingFunctors_) = Tail(functors) \o pendingFunctors_
      BY <2>3, HeadTailConcat DEF RunFunctor
    <3> QED BY <2>3, <3>1 DEF RunFunctor, TQ!Next, TQ!RunOldest
  <2>4. CASE SwapFunctors
    <3>1. functors = <<>>
      BY <2>4 DEF SwapFunctors, OwnerAt, WakeupInv
    <3>2. functors' \o pendingFunctors_' = functors \o pendingFunctors_
      BY <2>4, <3>1, ConcatEmptySeq DEF SwapFunctors
    <3> QED BY <2>4, <3>2 DEF SwapFunctors, TQ!vars
  <2>5. ASSUME NEW t \in Threads, Quit(t) \/ Wakeup(t)
        PROVE  UNCHANGED TQ!vars
    BY <2>5 DEF Quit, Wakeup, TQ!vars
  <2>6. CASE Loop \/ CheckQuit \/ HandleRead \/ HandleChannel
             \/ ChannelReturns \/ ChannelsHandled
    BY <2>6 DEF Loop, CheckQuit, HandleRead, HandleChannel, ChannelReturns,
                ChannelsHandled, TQ!vars
  <2>7. CASE BeginPending \/ FunctorReturns \/ EndPending
    BY <2>7 DEF BeginPending, FunctorReturns, EndPending, TQ!vars
  <2>8. CASE Poll
    BY <2>8 DEF Poll, PollReturns, TQ!vars
  <2>9. CASE UNCHANGED vars
    BY <2>9 DEF vars, TQ!vars
  <2> QED
    BY <2>1, <2>2, <2>3, <2>4, <2>5, <2>6, <2>7, <2>8, <2>9
       DEF Next, Calls, OwnerStep, RunInLoop
<1> QED
  BY <1>1, <1>2, WakeupAlways, PTL DEF Safety, ImplementsTaskQueue, TQ!Spec
=============================================================================
