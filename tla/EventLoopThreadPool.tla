------------------------- MODULE EventLoopThreadPool -------------------------
(***************************************************************************)
(* EventLoopThreadPool, EventLoopThread and Thread: the thread of the      *)
(* server starts one thread per loop, one after the other, and waits until *)
(* each has published its loop; it then hands out the loops round robin;   *)
(* when the server is destroyed it queues connectDestroyed() for every     *)
(* connection to the connection's loop, and then quits and joins the       *)
(* threads, one after the other.  A loop lives on the stack of its thread, *)
(* and its queue with it.                                                  *)
(*                                                                         *)
(* Of the EventLoop only loop(), quit() and the queue appear; polls        *)
(* return, if only by timeout.  The connections of a loop are counted:     *)
(* those handed to it are in the server's map until it is destroyed.       *)
(***************************************************************************)
EXTENDS Naturals

CONSTANTS NumThreads,   \* numThreads_
          MaxCalls,     \* bound: calls of getNextLoop() that return one loop
          Quitters      \* workers whose own callbacks may call quit()

Workers == 1..NumThreads

ASSUME PoolAssumption == /\ NumThreads \in Nat \ {0}
                         /\ MaxCalls \in Nat
                         /\ Quitters \subseteq Workers

VARIABLES
  parent,   \* what the thread of the server does ...
  at,       \* ... and for which worker
  child,    \* child[i]: where thread i is
  loop_,    \* loop_[i]: whether EventLoopThread i has a loop to point to
  loops_,   \* the workers whose loop startLoop() returned
  quit_,    \* quit_[i]: of the loop of thread i
  next_,
  given,    \* given[i]: connections getNextLoop() put on loop i
  unqueued, \* unqueued[i]: those still in the map of the server
  queue,    \* queue[i]: connectDestroyed functors in pendingFunctors_ of i
  told,     \* told[i]: connections whose connectDestroyed() was run
  released  \* released[i]: those that went with the queue of their loop

poolVars == <<parent, at, child, loop_, loops_, quit_, next_, given>>
connVars == <<unqueued, queue, told, released>>
vars == <<poolVars, connVars>>

Init ==
  /\ parent = "start"
  /\ at = 1
  /\ child = [i \in Workers |-> "unborn"]
  /\ loop_ = [i \in Workers |-> FALSE]
  /\ loops_ = {}
  /\ quit_ = [i \in Workers |-> TRUE]
  /\ next_ = 0
  /\ given = [i \in Workers |-> 0]
  /\ unqueued = given /\ queue = given /\ told = given /\ released = given

-----------------------------------------------------------------------------
\* The loop over the threads in start().
NextStart == IF at = NumThreads THEN parent' = "serve" /\ UNCHANGED at
                                ELSE parent' = "start" /\ at' = at + 1

\* thread_.start() of the next EventLoopThread.
StartThread ==
  /\ parent = "start"
  /\ child' = [child EXCEPT ![at] = "init"]
  /\ parent' = "wait"
  /\ UNCHANGED <<at, loop_, loops_, quit_, next_, given, connVars>>

\* startLoop() that takes any return of the wait for the loop's arrival.
StartLoopAnyWakeup ==
  /\ parent = "wait"
  /\ loops_' = loops_ \cup {at}
  /\ NextStart
  /\ UNCHANGED <<child, loop_, quit_, next_, given, connVars>>

\* cond_.wait() finds no loop yet, and sleeps; the mutex is let go with it.
WaitForLoop ==
  /\ parent = "wait"
  /\ ~loop_[at]
  /\ parent' = "asleep"
  /\ UNCHANGED <<at, child, loop_, loops_, quit_, next_, given, connVars>>

\* A wakeup without a notification.
SpuriousWakeup ==
  /\ parent = "asleep"
  /\ parent' = "wait"
  /\ UNCHANGED <<at, child, loop_, loops_, quit_, next_, given, connVars>>

\* startLoop() returns when the predicate of cond_.wait() holds.
StartLoop ==
  /\ parent = "wait"
  /\ loop_[at]
  /\ loops_' = loops_ \cup {at}
  /\ NextStart
  /\ UNCHANGED <<child, loop_, quit_, next_, given, connVars>>

\* getNextLoop() that runs off the end of loops_, or never moves on.
GetNextLoopNoWrap ==
  /\ parent = "serve"
  /\ given[next_ + 1] < MaxCalls
  /\ given' = [given EXCEPT ![next_ + 1] = @ + 1]
  /\ next_' = next_ + 1
  /\ unqueued' = [unqueued EXCEPT ![next_ + 1] = @ + 1]
  /\ UNCHANGED <<parent, at, child, loop_, loops_, quit_, queue, told, released>>

GetNextLoopStays ==
  /\ parent = "serve"
  /\ given[next_ + 1] < MaxCalls
  /\ given' = [given EXCEPT ![next_ + 1] = @ + 1]
  /\ unqueued' = [unqueued EXCEPT ![next_ + 1] = @ + 1]
  /\ UNCHANGED <<parent, at, child, loop_, loops_, quit_, next_, queue, told, released>>

GetNextLoop ==
  /\ parent = "serve"
  /\ given[next_ + 1] < MaxCalls
  /\ given' = [given EXCEPT ![next_ + 1] = @ + 1]
  /\ next_' = IF next_ + 1 >= NumThreads THEN 0 ELSE next_ + 1
  /\ unqueued' = [unqueued EXCEPT ![next_ + 1] = @ + 1]
  /\ UNCHANGED <<parent, at, child, loop_, loops_, quit_, queue, told, released>>

-----------------------------------------------------------------------------
\* ~TcpServer() begins.
Destroy ==
  /\ parent = "serve"
  /\ parent' = "clear"
  /\ UNCHANGED <<at, child, loop_, loops_, quit_, next_, given, connVars>>

\* connectDestroyed() of the next connection of the map, in any order, goes
\* to the queue of its loop i.
QueueDestroyed(i) ==
  /\ parent = "clear"
  /\ unqueued[i] > 0
  /\ unqueued' = [unqueued EXCEPT ![i] = @ - 1]
  /\ queue' = [queue EXCEPT ![i] = @ + 1]
  /\ UNCHANGED <<poolVars, told, released>>

\* Then threadPool_ goes: ~EventLoopThread() for each thread in turn.
DestroyPool ==
  /\ parent = "clear"
  /\ \A i \in Workers : unqueued[i] = 0
  /\ parent' = "destroy"
  /\ at' = 1
  /\ UNCHANGED <<child, loop_, loops_, quit_, next_, given, connVars>>

NextThread == IF at = NumThreads THEN parent' = "done" /\ UNCHANGED at
                                 ELSE parent' = "destroy" /\ at' = at + 1

\* ~EventLoopThread() looks at loop_, without the lock: no loop, no join.
FindLoop ==
  /\ parent = "destroy"
  /\ \/ loop_[at] /\ parent' = "quit" /\ UNCHANGED at
     \/ ~loop_[at] /\ NextThread
  /\ UNCHANGED <<child, loop_, loops_, quit_, next_, given, connVars>>

\* loop_->quit() of the loop found, which a callback may have ended since.
\* Its wakeup() comes later, when the loop may already have ended and be gone;
\* a write to the closed descriptor is only logged.
QuitLoop ==
  /\ parent = "quit"
  /\ quit_' = [quit_ EXCEPT ![at] = TRUE]
  /\ parent' = "join"
  /\ UNCHANGED <<at, child, loop_, loops_, next_, given, connVars>>

\* ~EventLoopThread() that does not wait for the thread.
JoinForgotten ==
  /\ parent = "join"
  /\ NextThread
  /\ UNCHANGED <<child, loop_, loops_, quit_, next_, given, connVars>>

Join ==
  /\ parent = "join"
  /\ child[at] = "ended"
  /\ NextThread
  /\ UNCHANGED <<child, loop_, loops_, quit_, next_, given, connVars>>

-----------------------------------------------------------------------------
(***************************************************************************)
(* threadFunc() of thread i: construct the loop, run the init callback,    *)
(* publish the loop, loop(), withdraw the loop; the loop is destroyed.     *)
(***************************************************************************)
Moves(i, from, to) == /\ child[i] = from
                      /\ child' = [child EXCEPT ![i] = to]
                      /\ UNCHANGED <<at, loops_, next_, given>>

ChildAt(i, from, to) == Moves(i, from, to) /\ UNCHANGED parent

\* The loop is stored, but the parent is not notified.
PublishUnnotified(i) == /\ ChildAt(i, "init", "preloop")
                        /\ loop_' = [loop_ EXCEPT ![i] = TRUE]
                        /\ UNCHANGED <<quit_, connVars>>

\* Under the mutex the loop is stored and the parent notified, which wakes it
\* if it is asleep already.
Publish(i) == /\ Moves(i, "init", "preloop")
              /\ loop_' = [loop_ EXCEPT ![i] = TRUE]
              /\ parent' = IF parent = "asleep" /\ at = i THEN "wait" ELSE parent
              /\ UNCHANGED <<quit_, connVars>>

EnterLoop(i) == /\ ChildAt(i, "preloop", "check")
                /\ quit_' = [quit_ EXCEPT ![i] = FALSE]
                /\ UNCHANGED <<loop_, connVars>>

\* while(!quit_) that does not look at quit_.
CheckQuitIgnored(i) == /\ ChildAt(i, "check", "poll")
                       /\ UNCHANGED <<loop_, quit_, connVars>>

CheckQuit(i) == /\ \/ quit_[i] /\ ChildAt(i, "check", "exit")
                   \/ ~quit_[i] /\ ChildAt(i, "check", "poll")
                /\ UNCHANGED <<loop_, quit_, connVars>>

\* poll(), its channels and doPendingFunctors(): what the swap finds is run.
PollReturns(i) == /\ ChildAt(i, "poll", "check")
                  /\ told' = [told EXCEPT ![i] = @ + queue[i]]
                  /\ queue' = [queue EXCEPT ![i] = 0]
                  /\ UNCHANGED <<loop_, quit_, unqueued, released>>

\* A callback of a channel calls quit(); the functors are run all the same.
QuitByCallback(i) == /\ i \in Quitters
                     /\ ChildAt(i, "poll", "check")
                     /\ quit_' = [quit_ EXCEPT ![i] = TRUE]
                     /\ told' = [told EXCEPT ![i] = @ + queue[i]]
                     /\ queue' = [queue EXCEPT ![i] = 0]
                     /\ UNCHANGED <<loop_, unqueued, released>>

\* The parent is not to find the loop any more ...
Withdraw(i) == /\ ChildAt(i, "exit", "leaving")
               /\ loop_' = [loop_ EXCEPT ![i] = FALSE]
               /\ UNCHANGED <<quit_, connVars>>

\* ... before it goes out of scope, with the functors nobody ran.
EndThread(i) == /\ ChildAt(i, "leaving", "ended")
                /\ released' = [released EXCEPT ![i] = @ + queue[i]]
                /\ queue' = [queue EXCEPT ![i] = 0]
                /\ UNCHANGED <<loop_, quit_, unqueued, told>>

ThreadFunc(i) == \/ Publish(i) \/ EnterLoop(i) \/ CheckQuit(i)
                 \/ PollReturns(i) \/ Withdraw(i) \/ EndThread(i)

Parent == \/ StartThread \/ WaitForLoop \/ StartLoop
          \/ DestroyPool \/ FindLoop \/ QuitLoop \/ Join
          \/ \E i \in Workers : QueueDestroyed(i)

Next == \/ Parent \/ SpuriousWakeup \/ GetNextLoop \/ Destroy
        \/ \E i \in Workers : ThreadFunc(i) \/ QuitByCallback(i)

\* Every thread is scheduled; whether and when the pool is destroyed is up
\* to the server.
Fairness == WF_vars(Parent) /\ \A i \in Workers : WF_vars(ThreadFunc(i))

Spec == Init /\ [][Next]_vars /\ Fairness

-----------------------------------------------------------------------------
\* Where a thread is while its loop can be found.
Alive == {"preloop", "check", "poll", "exit"}

TypeOK ==
  /\ parent \in {"start", "wait", "asleep", "serve",
                "clear", "destroy", "quit", "join", "done"}
  /\ at \in Workers
  /\ child \in [Workers -> Alive \cup {"unborn", "init", "leaving", "ended"}]
  /\ loop_ \in [Workers -> BOOLEAN]
  /\ loops_ \subseteq Workers
  /\ quit_ \in [Workers -> BOOLEAN]
  /\ next_ \in 0..(NumThreads - 1)
  /\ given \in [Workers -> 0..MaxCalls]
  /\ unqueued \in [Workers -> 0..MaxCalls]
  /\ queue \in [Workers -> 0..MaxCalls]
  /\ told \in [Workers -> 0..MaxCalls]
  /\ released \in [Workers -> 0..MaxCalls]

\* ~EventLoopThread() of worker i has called quit().
ToldToQuit(i) == \/ parent = "done"
                 \/ parent \in {"destroy", "quit"} /\ i < at
                 \/ parent = "join" /\ i <= at

(* Each loop that startLoop() returned is there until the pool's destructor *)
(* has told it to quit, unless one of its own callbacks did: startLoop()    *)
(* returned none before it existed, getNextLoop() hands out none that is    *)
(* gone, and the destructor calls quit() of none that is gone.              *)
LoopsExist ==
  /\ \A i \in loops_ \ Quitters : child[i] \in Alive \/ ToldToQuit(i)
  /\ parent = "serve" => loops_ = Workers

(* getNextLoop() shares the connections out evenly: at any time no loop has *)
(* got two more than another.                                               *)
Balanced == \A i, j \in Workers : given[i] <= given[j] + 1

(* start() does not hang, whether the thread publishes its loop before or   *)
(* after startLoop() goes to sleep, and without spurious wakeups: startLoop() *)
(* returns the loop of every thread it starts, unless that loop was ended   *)
(* by one of its own callbacks before cond_.wait() looked.                  *)
StartReturns ==
  \A i \in Workers \ Quitters : (parent = "wait" /\ at = i) ~> (i \in loops_)

(* A loop that is running when it is told to quit ends, and its thread with *)
(* it.                                                                      *)
RunningLoopQuits ==
  \A i \in Workers : (quit_[i] /\ child[i] \in {"check", "poll"}) ~> child[i] = "ended"

(* When the destructor of the server returns, no connection is left over:   *)
(* each had its connectDestroyed() run by its loop, or was released with    *)
(* the queue of a loop that quit before it got there.  (The queue of a loop *)
(* that ended by itself is gone; its connections are not counted.)          *)
ConnectionsReleased ==
  parent = "done" => \A i \in Workers \ Quitters : told[i] + released[i] = given[i]

(* The server can be destroyed while its loops run: ~TcpServer() returns,   *)
(* whatever the loops are doing at the time.                                *)
TeardownEnds ==
  (parent = "clear" /\ \A i \in Workers : child[i] \notin {"init", "preloop"})
    ~> parent = "done"

(* Destroying the pool destroys its threads and loops, without more.        *)
PoolIsDestroyed == (parent = "destroy") ~> (parent = "done")
=============================================================================
