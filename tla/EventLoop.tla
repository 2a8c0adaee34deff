------------------------------ MODULE EventLoop ------------------------------
(***************************************************************************)
(* One EventLoop (EventLoop.cc): the thread that owns it runs loop(),      *)
(* which blocks in Poller::poll(), handles the active channels and then    *)
(* runs the queued functors; other threads, and the callbacks and functors *)
(* the owner is running, call queueInLoop(), runInLoop() and quit().  A    *)
(* caller first changes the shared state and only then, in a step of its   *)
(* own, writes to the eventfd that unblocks the poll.                      *)
(*                                                                         *)
(* The channels of connections appear here only as "io": one channel that  *)
(* may be active after any poll and whose callback may call the loop.      *)
(***************************************************************************)
EXTENDS Naturals, Sequences, Functions

CONSTANTS Owner,       \* the thread that created the loop (threadId_)
          Callers,     \* the other threads that hold a pointer to it
          Functors,    \* functors, each handed over at most once
          EventfdMax   \* bound: where the eventfd's counter stops

ASSUME LoopAssumption == /\ Owner \notin Callers
                         /\ EventfdMax \in Nat \ {0}

Threads == Callers \cup {Owner}
Channels == {"wakeup", "io"}

(***************************************************************************)
(* Where the owner is.  In "preloop", "inChannel" and "inFunctor" it runs  *)
(* code of the user (before loop(), such as a ThreadInitCallback; a        *)
(* channel's callback; a functor) that may call the loop.                  *)
(***************************************************************************)
Pcs == {"preloop", "check", "poll", "handle", "inChannel",
        "begin", "swap", "run", "inFunctor", "done"}

VARIABLES
  pc,
  looping_,
  quit_,
  activeChannels_,          \* channels poll() reported and not yet handled
  wakeupFd_,                \* the counter of the eventfd
  pendingFunctors_,         \* guarded by mutex_
  functors,                 \* doPendingFunctors()'s local vector
  callingPendingFunctors_,
  waking,                   \* waking[t]: t is about to call wakeup()
  ran,                      \* history: functors in the order they were run
  early                     \* history: functors the owner queued before loop()

vars == <<pc, looping_, quit_, activeChannels_, wakeupFd_, pendingFunctors_,
          functors, callingPendingFunctors_, waking, ran, early>>

Init ==
  /\ pc = "preloop"
  /\ looping_ = FALSE
  /\ quit_ = TRUE
  /\ activeChannels_ = {}
  /\ wakeupFd_ = 0
  /\ pendingFunctors_ = <<>>
  /\ functors = <<>>
  /\ callingPendingFunctors_ = FALSE
  /\ waking = [t \in Threads |-> FALSE]
  /\ ran = <<>>
  /\ early = {}

-----------------------------------------------------------------------------
(***************************************************************************)
(* Calls from any thread.  A thread that owes a wakeup() does that first.  *)
(***************************************************************************)
Running == {"preloop", "inChannel", "inFunctor"}

CanCall(t) == /\ ~waking[t]
              /\ t = Owner => pc \in Running

Unused(f) == f \notin Range(pendingFunctors_) \cup Range(functors) \cup Range(ran)

\* Bugs a change to queueInLoop() could introduce.
QueueInLoopNoWakeupWhileCalling(t, f) ==
  /\ CanCall(t)
  /\ Unused(f)
  /\ pendingFunctors_' = Append(pendingFunctors_, f)
  /\ waking' = [waking EXCEPT ![t] = t # Owner]
  /\ early' = IF t = Owner /\ pc = "preloop" THEN early \cup {f} ELSE early
  /\ UNCHANGED <<pc, looping_, quit_, activeChannels_, wakeupFd_, functors,
                 callingPendingFunctors_, ran>>

QueueInLoopNoWakeup(t, f) ==
  /\ CanCall(t)
  /\ Unused(f)
  /\ pendingFunctors_' = Append(pendingFunctors_, f)
  /\ early' = IF t = Owner /\ pc = "preloop" THEN early \cup {f} ELSE early
  /\ UNCHANGED <<pc, looping_, quit_, activeChannels_, wakeupFd_, functors,
                 callingPendingFunctors_, waking, ran>>

\* queueInLoop(): push under the mutex; a caller that is not the owner, or
\* the owner while it runs functors, has to wake the loop up.
QueueInLoop(t, f) ==
  /\ CanCall(t)
  /\ Unused(f)
  /\ pendingFunctors_' = Append(pendingFunctors_, f)
  /\ waking' = [waking EXCEPT ![t] = t # Owner \/ callingPendingFunctors_]
  /\ early' = IF t = Owner /\ pc = "preloop" THEN early \cup {f} ELSE early
  /\ UNCHANGED <<pc, looping_, quit_, activeChannels_, wakeupFd_, functors,
                 callingPendingFunctors_, ran>>

\* runInLoop() on the owner's thread: the functor is run on the spot.
RunInline(f) ==
  /\ CanCall(Owner)
  /\ Unused(f)
  /\ ran' = Append(ran, f)
  /\ UNCHANGED <<pc, looping_, quit_, activeChannels_, wakeupFd_, functors,
                 pendingFunctors_, callingPendingFunctors_, waking, early>>

RunInLoop(t, f) ==
  \/ t = Owner /\ RunInline(f)
  \/ t # Owner /\ QueueInLoop(t, f)

\* quit() that forgets to unblock the poll.
QuitNoWakeup(t) ==
  /\ CanCall(t)
  /\ quit_' = TRUE
  /\ UNCHANGED <<pc, looping_, activeChannels_, wakeupFd_, pendingFunctors_,
                 functors, callingPendingFunctors_, waking, ran, early>>

Quit(t) ==
  /\ CanCall(t)
  /\ quit_' = TRUE
  /\ waking' = [waking EXCEPT ![t] = t # Owner]
  /\ UNCHANGED <<pc, looping_, activeChannels_, wakeupFd_, pendingFunctors_,
                 functors, callingPendingFunctors_, ran, early>>

\* wakeup() adds one to the counter of the eventfd.  Only whether that is 0 is
\* ever looked at; the counter of the kernel would stop at 2^64 - 2.
Wakeup(t) ==
  /\ waking[t]
  /\ waking' = [waking EXCEPT ![t] = FALSE]
  /\ wakeupFd_' = IF wakeupFd_ < EventfdMax THEN wakeupFd_ + 1 ELSE wakeupFd_
  /\ UNCHANGED <<pc, looping_, quit_, activeChannels_, pendingFunctors_,
                 functors, callingPendingFunctors_, ran, early>>

-----------------------------------------------------------------------------
(***************************************************************************)
(* The owner's own steps.                                                  *)
(***************************************************************************)
OwnerAt(from, to) == /\ pc = from
                     /\ pc' = to
                     /\ ~waking[Owner]

\* loop(): note that it clears quit_, whoever set it before.
Loop ==
  /\ OwnerAt("preloop", "check")
  /\ looping_' = TRUE
  /\ quit_' = FALSE
  /\ UNCHANGED <<activeChannels_, wakeupFd_, pendingFunctors_, functors,
                 callingPendingFunctors_, waking, ran, early>>

\* while(!quit_): either another round or the end of loop().
CheckQuit ==
  /\ \/ /\ ~quit_
        /\ OwnerAt("check", "poll")
        /\ activeChannels_' = {}
        /\ UNCHANGED looping_
     \/ /\ quit_
        /\ OwnerAt("check", "done")
        /\ looping_' = FALSE
        /\ UNCHANGED activeChannels_
  /\ UNCHANGED <<quit_, wakeupFd_, pendingFunctors_, functors,
                 callingPendingFunctors_, waking, ran, early>>

\* poll() returns with some of the ready channels (epoll_wait reports at most
\* as many as its event list holds), or with none: timeout or EINTR.
PollReturns(active) ==
  /\ OwnerAt("poll", "handle")
  /\ "wakeup" \in active => wakeupFd_ > 0
  /\ activeChannels_' = active
  /\ UNCHANGED <<looping_, quit_, wakeupFd_, pendingFunctors_, functors,
                 callingPendingFunctors_, waking, ran, early>>

\* handleRead(): reading the eventfd resets its counter.
HandleRead ==
  /\ "wakeup" \in activeChannels_
  /\ OwnerAt("handle", "handle")
  /\ activeChannels_' = activeChannels_ \ {"wakeup"}
  /\ wakeupFd_' = 0
  /\ UNCHANGED <<looping_, quit_, pendingFunctors_, functors,
                 callingPendingFunctors_, waking, ran, early>>

\* channel->handleEvent() of any other channel: its callback starts.
HandleChannel ==
  /\ "io" \in activeChannels_
  /\ OwnerAt("handle", "inChannel")
  /\ activeChannels_' = activeChannels_ \ {"io"}
  /\ UNCHANGED <<looping_, quit_, wakeupFd_, pendingFunctors_, functors,
                 callingPendingFunctors_, waking, ran, early>>

ChannelReturns ==
  /\ OwnerAt("inChannel", "handle")
  /\ UNCHANGED <<looping_, quit_, activeChannels_, wakeupFd_, pendingFunctors_,
                 functors, callingPendingFunctors_, waking, ran, early>>

ChannelsHandled ==
  /\ activeChannels_ = {}
  /\ OwnerAt("handle", "begin")
  /\ UNCHANGED <<looping_, quit_, activeChannels_, wakeupFd_, pendingFunctors_,
                 functors, callingPendingFunctors_, waking, ran, early>>

\* doPendingFunctors(): announce, swap under the mutex, run, withdraw.
BeginPending ==
  /\ OwnerAt("begin", "swap")
  /\ callingPendingFunctors_' = TRUE
  /\ UNCHANGED <<looping_, quit_, activeChannels_, wakeupFd_, pendingFunctors_,
                 functors, waking, ran, early>>

\* A copy instead of a swap.
SwapKeepsQueue ==
  /\ OwnerAt("swap", "run")
  /\ functors' = pendingFunctors_
  /\ UNCHANGED <<looping_, quit_, activeChannels_, wakeupFd_, pendingFunctors_,
                 callingPendingFunctors_, waking, ran, early>>

SwapFunctors ==
  /\ OwnerAt("swap", "run")
  /\ functors' = pendingFunctors_
  /\ pendingFunctors_' = functors
  /\ UNCHANGED <<looping_, quit_, activeChannels_, wakeupFd_,
                 callingPendingFunctors_, waking, ran, early>>

RunFunctor ==
  /\ functors # <<>>
  /\ OwnerAt("run", "inFunctor")
  /\ functors' = Tail(functors)
  /\ ran' = Append(ran, Head(functors))
  /\ UNCHANGED <<looping_, quit_, activeChannels_, wakeupFd_, pendingFunctors_,
                 callingPendingFunctors_, waking, early>>

FunctorReturns ==
  /\ OwnerAt("inFunctor", "run")
  /\ UNCHANGED <<looping_, quit_, activeChannels_, wakeupFd_, pendingFunctors_,
                 functors, callingPendingFunctors_, waking, ran, early>>

\* doPendingFunctors() that never withdraws its announcement.
EndPendingKeepsCalling ==
  /\ functors = <<>>
  /\ OwnerAt("run", "check")
  /\ UNCHANGED <<looping_, quit_, activeChannels_, wakeupFd_, pendingFunctors_,
                 functors, callingPendingFunctors_, waking, ran, early>>

EndPending ==
  /\ functors = <<>>
  /\ OwnerAt("run", "check")
  /\ callingPendingFunctors_' = FALSE
  /\ UNCHANGED <<looping_, quit_, activeChannels_, wakeupFd_, pendingFunctors_,
                 functors, waking, ran, early>>

-----------------------------------------------------------------------------
Calls == \/ \E t \in Threads : Quit(t) \/ Wakeup(t)
         \/ \E t \in Threads, f \in Functors : QueueInLoop(t, f) \/ RunInLoop(t, f)

\* The owner's steps that do not wait for anything.
OwnerStep == \/ Loop \/ CheckQuit
             \/ HandleRead \/ HandleChannel \/ ChannelReturns \/ ChannelsHandled
             \/ BeginPending \/ SwapFunctors
             \/ RunFunctor \/ FunctorReturns \/ EndPending

Poll == \E active \in SUBSET Channels : PollReturns(active)

Next == Calls \/ OwnerStep \/ Poll

Safety == Init /\ [][Next]_vars

\* A poll of a readable eventfd returns.  The timeout PollTimeMs is NOT
\* assumed here: what follows must not have to wait for it.
Fairness ==
  /\ WF_vars(OwnerStep)
  /\ WF_vars(wakeupFd_ > 0 /\ Poll)
  /\ \A t \in Threads : WF_vars(Wakeup(t))

Spec == Safety /\ Fairness

-----------------------------------------------------------------------------
(* The types of the variables; of the owner's two flags, looping_ is set as *)
(* long as it is in loop(), and callingPendingFunctors_, which other calls  *)
(* of the owner rely on, exactly while it swaps and runs functors.          *)
TypeOK ==
  /\ pc \in Pcs
  /\ looping_ \in BOOLEAN /\ (looping_ <=> pc \notin {"preloop", "done"})
  /\ quit_ \in BOOLEAN
  /\ activeChannels_ \in SUBSET Channels
  /\ wakeupFd_ \in 0..EventfdMax
  /\ pendingFunctors_ \in Seq(Functors)
  /\ functors \in Seq(Functors)
  /\ callingPendingFunctors_ \in BOOLEAN
  /\ callingPendingFunctors_ <=> pc \in {"swap", "run", "inFunctor"}
  /\ waking \in [Threads -> BOOLEAN]
  /\ ran \in Seq(Functors)
  /\ early \in SUBSET Functors

WakeupInFlight == wakeupFd_ > 0 \/ \E t \in Threads : waking[t]

\* Functors whose arrival the loop has been told about.
Announced == Range(pendingFunctors_) \ early

(* The loop is never blocked in poll() while a functor is queued or quit()  *)
(* has been called, unless the eventfd is readable or some thread is on its *)
(* way to write it.  The one exception is a functor that the owner itself   *)
(* queued before loop(): queueInLoop() does not wake the loop up for it.    *)
NoLostWakeup ==
  pc = "poll" /\ (Announced # {} \/ quit_) => WakeupInFlight

(* The inductive form of NoLostWakeup: the eventfd is drained only between  *)
(* poll() and the swap, so outside that window whatever arrived after the   *)
(* last swap still has its wakeup ahead of it.                              *)
WakeupInv ==
  /\ pc \in {"preloop", "check", "poll", "run", "inFunctor"} /\ Announced # {}
       => WakeupInFlight
  /\ pc = "poll" /\ quit_ => WakeupInFlight
  /\ pc \notin {"run", "inFunctor"} => functors = <<>>

(* queueInLoop() and doPendingFunctors() together implement TaskQueue:      *)
(* whatever swaps happen, every functor is queued at most once and taken    *)
(* out of the queue when it is run, in order, so that none is run twice.    *)
TQ == INSTANCE TaskQueue WITH queue <- functors \o pendingFunctors_
ImplementsTaskQueue == TQ!Spec

(* Every functor queued to a loop that does not quit is run, without        *)
(* waiting for the poll's timeout.                                          *)
PromptDispatch ==
  \A f \in Functors : f \in Announced ~> (f \in Range(ran) \/ pc = "done")

(* quit() of a loop that has started ends loop(), without waiting for the   *)
(* poll's timeout.                                                          *)
QuitStopsLoop == (quit_ /\ pc # "preloop") ~> pc = "done"
=============================================================================
