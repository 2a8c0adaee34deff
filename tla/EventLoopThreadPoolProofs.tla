---------------------- MODULE EventLoopThreadPoolProofs ----------------------
(***************************************************************************)
(* The thread pool and the destruction of the server, for any number of    *)
(* threads and connections.                                                *)
(***************************************************************************)
EXTENDS EventLoopThreadPool, TLAPS

\* ~EventLoopThread() of worker i has returned.
Past(i) == \/ parent = "done"
           \/ parent \in {"destroy", "quit", "join"} /\ i < at

Teardown == {"destroy", "quit", "join", "done"}

\* Every connection is in one of the four places.
Counts == \A i \in Workers :
            unqueued[i] + queue[i] + told[i] + released[i] = given[i]

\* The loops before next_ have got one connection more than the others.
Rotation ==
  \A i, j \in Workers :
    /\ ((i <= next_) <=> (j <= next_)) => given[i] = given[j]
    /\ i <= next_ /\ j > next_ => given[i] = given[j] + 1

Published == \A i \in Workers : loop_[i] <=> child[i] \in Alive

\* start() has come to worker at.
Started ==
  /\ parent \in {"start", "wait", "asleep"} => loops_ = 1..(at - 1)
  /\ parent = "start" => \A i \in Workers : i >= at => child[i] = "unborn"
  /\ parent \in {"wait", "asleep"} => \A i \in Workers : i > at => child[i] = "unborn"
  /\ parent \notin {"start", "wait", "asleep"} => loops_ = Workers
  /\ \A i \in loops_ : child[i] \notin {"unborn", "init"}

\* Only the destructor ends a loop that does not quit by itself.
EndedWhenTold ==
  \A i \in Workers \ Quitters :
    \/ child[i] \in {"exit", "leaving", "ended"}
    \/ quit_[i] /\ child[i] \in {"check", "poll"}
    => ToldToQuit(i)

\* The destructor leaves a worker with its thread ended.
Joined == \A i \in Workers \ Quitters : Past(i) => child[i] = "ended"

\* Nothing is queued any more to a loop that has ended in the teardown.
Cleared ==
  parent \in Teardown =>
    /\ \A i \in Workers : unqueued[i] = 0
    /\ \A i \in Workers \ Quitters : child[i] = "ended" => queue[i] = 0

PoolInv == /\ TypeOK /\ Counts /\ Rotation /\ Published /\ Started
           /\ EndedWhenTold /\ Joined /\ Cleared

-----------------------------------------------------------------------------
\* Workers are numbered from 1.
LEMMA WorkerNumbers ==
  /\ 1 \in Workers /\ NumThreads \in Workers
  /\ \A k \in Workers : k \in Nat /\ 1 <= k /\ k <= NumThreads
  /\ \A k \in 1..NumThreads : k \in Workers
  /\ \A k \in Workers : k # NumThreads => k + 1 \in Workers
BY PoolAssumption DEF Workers

\* One step per action, and under it one per part of PoolInv.
LEMMA PoolStep == PoolInv /\ [Next]_vars => PoolInv'
<1> SUFFICES ASSUME PoolInv, [Next]_vars PROVE PoolInv'
  OBVIOUS
<1> USE PoolAssumption, WorkerNumbers DEF PoolInv, connVars
<1>1. CASE StartThread
  <2>1. TypeOK'
    BY <1>1 DEF StartThread, TypeOK, Alive
  <2>2. Counts' /\ Rotation'
    BY <1>1 DEF StartThread, Counts, Rotation
  <2>3. Published'
    <3>1. /\ at \in Workers /\ child[at] = "unborn"
          /\ \A k \in Workers : child'[k] = IF k = at THEN "init" ELSE child[k]
          /\ loop_' = loop_
      BY <1>1 DEF StartThread, Started, TypeOK
    <3> QED BY <3>1 DEF Published, Alive
  <2>4. Started'
    <3>1. /\ at \in Workers /\ parent' = "wait" /\ UNCHANGED <<at, loops_>>
          /\ \A k \in Workers : k # at => child'[k] = child[k]
          /\ loops_ = 1..(at - 1)
          /\ \A k \in Workers : k >= at => child[k] = "unborn"
          /\ \A k \in loops_ : child[k] \notin {"unborn", "init"}
      BY <1>1 DEF StartThread, Started, TypeOK
    <3>2. \A k \in loops_ : k \in Workers /\ k # at
      BY <3>1
    <3> QED BY <3>1, <3>2 DEF Started
  <2>5. EndedWhenTold'
    BY <1>1 DEF StartThread, EndedWhenTold, ToldToQuit, TypeOK
  <2>6. Joined'
    BY <1>1 DEF StartThread, Joined, Past, TypeOK
  <2>7. Cleared'
    BY <1>1 DEF StartThread, Cleared, Teardown, TypeOK
  <2> QED BY <2>1, <2>2, <2>3, <2>4, <2>5, <2>6, <2>7
<1>2. CASE StartLoop
  <2>1. TypeOK'
    BY <1>2 DEF StartLoop, NextStart, TypeOK
  <2>2. Counts' /\ Rotation'
    BY <1>2 DEF StartLoop, NextStart, Counts, Rotation
  <2>3. Published'
    BY <1>2 DEF StartLoop, NextStart, Published
  <2>4. Started'
    <3>1. /\ at \in Workers /\ loops_ = 1..(at - 1) /\ loops_' = loops_ \cup {at}
          /\ child' = child
          /\ \A k \in Workers : k > at => child[k] = "unborn"
      BY <1>2 DEF StartLoop, Started, TypeOK
    <3>2. \A k \in loops_' : child'[k] \notin {"unborn", "init"}
      BY <1>2, <3>1 DEF StartLoop, Started, Published, Alive
    <3>3. CASE at = NumThreads
      <4>1. loops_' = Workers /\ parent' = "serve"
        BY <1>2, <3>1, <3>3 DEF StartLoop, NextStart, Workers
      <4> QED BY <3>2, <4>1 DEF Started
    <3>4. CASE at # NumThreads
      <4>1. loops_' = 1..(at' - 1) /\ parent' = "start" /\ at' = at + 1
        BY <1>2, <3>1, <3>4 DEF StartLoop, NextStart
      <4> QED BY <3>1, <3>2, <4>1 DEF Started
    <3> QED BY <3>3, <3>4
  <2>5. EndedWhenTold'
    BY <1>2 DEF StartLoop, NextStart, EndedWhenTold, ToldToQuit, TypeOK
  <2>6. Joined'
    BY <1>2 DEF StartLoop, NextStart, Joined, Past, TypeOK
  <2>7. Cleared'
    BY <1>2 DEF StartLoop, NextStart, Cleared, Teardown, TypeOK
  <2> QED BY <2>1, <2>2, <2>3, <2>4, <2>5, <2>6, <2>7
<1>3. CASE GetNextLoop
  <2>1. TypeOK'
    BY <1>3 DEF GetNextLoop, TypeOK, Counts
  <2>2. Counts'
    BY <1>3 DEF GetNextLoop, Counts, TypeOK
  <2>3. Rotation'
    BY <1>3 DEF GetNextLoop, Rotation, TypeOK
  <2>4. Published'
    BY <1>3 DEF GetNextLoop, Published
  <2>5. Started'
    BY <1>3 DEF GetNextLoop, Started, TypeOK
  <2>6. EndedWhenTold'
    BY <1>3 DEF GetNextLoop, EndedWhenTold, ToldToQuit, TypeOK
  <2>7. Joined'
    BY <1>3 DEF GetNextLoop, Joined, Past, TypeOK
  <2>8. Cleared'
    BY <1>3 DEF GetNextLoop, Cleared, Teardown, TypeOK, Counts
  <2> QED BY <2>1, <2>2, <2>3, <2>4, <2>5, <2>6, <2>7, <2>8
<1>4. CASE Destroy
  <2>1. TypeOK'
    BY <1>4 DEF Destroy, TypeOK
  <2>2. Counts' /\ Rotation'
    BY <1>4 DEF Destroy, Counts, Rotation
  <2>3. Published'
    BY <1>4 DEF Destroy, Published
  <2>4. Started'
    BY <1>4 DEF Destroy, Started, TypeOK
  <2>5. EndedWhenTold'
    BY <1>4 DEF Destroy, EndedWhenTold, ToldToQuit, TypeOK
  <2>6. Joined'
    BY <1>4 DEF Destroy, Joined, Past, TypeOK
  <2>7. Cleared'
    BY <1>4 DEF Destroy, Cleared, Teardown, TypeOK
  <2> QED BY <2>1, <2>2, <2>3, <2>4, <2>5, <2>6, <2>7
<1>5. CASE DestroyPool
  <2>1. TypeOK'
    BY <1>5 DEF DestroyPool, TypeOK
  <2>2. Counts' /\ Rotation'
    BY <1>5 DEF DestroyPool, Counts, Rotation
  <2>3. Published'
    BY <1>5 DEF DestroyPool, Published
  <2>4. Started'
    BY <1>5 DEF DestroyPool, Started, TypeOK
  <2>5. EndedWhenTold'
    BY <1>5 DEF DestroyPool, EndedWhenTold, ToldToQuit, TypeOK
  <2>6. Joined'
    BY <1>5 DEF DestroyPool, Joined, Past, TypeOK
  <2>7. Cleared'
    BY <1>5 DEF DestroyPool, Cleared, Teardown, TypeOK, EndedWhenTold,
       ToldToQuit
  <2> QED BY <2>1, <2>2, <2>3, <2>4, <2>5, <2>6, <2>7
<1>6. CASE FindLoop
  <2>1. TypeOK'
    BY <1>6 DEF FindLoop, NextThread, TypeOK
  <2>2. Counts' /\ Rotation'
    BY <1>6 DEF FindLoop, NextThread, Counts, Rotation
  <2>3. Published'
    BY <1>6 DEF FindLoop, NextThread, Published
  <2>4. Started'
    BY <1>6 DEF FindLoop, NextThread, Started, TypeOK
  <2>5. EndedWhenTold'
    BY <1>6 DEF FindLoop, NextThread, EndedWhenTold, ToldToQuit, TypeOK
  <2>6. Joined'
    <3>1. CASE loop_[at]
      BY <1>6, <3>1 DEF FindLoop, Joined, Past
    <3>2. CASE ~loop_[at]
      <4>1. at \in Workers /\ child[at] \notin Alive /\ at \in loops_
        BY <1>6, <3>2 DEF FindLoop, Published, Started, TypeOK
      <4>2. child[at] \in {"leaving", "ended"}
        BY <4>1 DEF TypeOK, Started, Alive
      <4>3. at \in Quitters
        BY <1>6, <4>1, <4>2 DEF FindLoop, EndedWhenTold, ToldToQuit
      <4>4. \A k \in Workers : Past(k)' => Past(k) \/ k = at
        BY <1>6, <3>2, <4>1 DEF FindLoop, NextThread, Past
      <4> QED BY <1>6, <4>3, <4>4 DEF FindLoop, Joined
    <3> QED BY <3>1, <3>2
  <2>7. Cleared'
    BY <1>6 DEF FindLoop, NextThread, Cleared, Teardown, TypeOK
  <2> QED BY <2>1, <2>2, <2>3, <2>4, <2>5, <2>6, <2>7
<1>7. CASE QuitLoop
  <2>1. TypeOK'
    BY <1>7 DEF QuitLoop, TypeOK
  <2>2. Counts' /\ Rotation'
    BY <1>7 DEF QuitLoop, Counts, Rotation
  <2>3. Published'
    BY <1>7 DEF QuitLoop, Published
  <2>4. Started'
    BY <1>7 DEF QuitLoop, Started, TypeOK
  <2>5. EndedWhenTold'
    BY <1>7 DEF QuitLoop, EndedWhenTold, ToldToQuit, TypeOK
  <2>6. Joined'
    BY <1>7 DEF QuitLoop, Joined, Past, TypeOK
  <2>7. Cleared'
    BY <1>7 DEF QuitLoop, Cleared, Teardown, TypeOK
  <2> QED BY <2>1, <2>2, <2>3, <2>4, <2>5, <2>6, <2>7
<1>8. CASE Join
  <2>1. TypeOK'
    BY <1>8 DEF Join, NextThread, TypeOK
  <2>2. Counts' /\ Rotation'
    BY <1>8 DEF Join, NextThread, Counts, Rotation
  <2>3. Published'
    BY <1>8 DEF Join, NextThread, Published
  <2>4. Started'
    BY <1>8 DEF Join, NextThread, Started, TypeOK
  <2>5. EndedWhenTold'
    BY <1>8 DEF Join, NextThread, EndedWhenTold, ToldToQuit, TypeOK, Joined,
       Past
  <2>6. Joined'
    <3>1. \A k \in Workers : Past(k)' => Past(k) \/ k = at
      BY <1>8 DEF Join, NextThread, Past, TypeOK
    <3> QED BY <1>8, <3>1 DEF Join, Joined
  <2>7. Cleared'
    BY <1>8 DEF Join, NextThread, Cleared, Teardown, TypeOK
  <2> QED BY <2>1, <2>2, <2>3, <2>4, <2>5, <2>6, <2>7
<1>9. ASSUME NEW i \in Workers, QueueDestroyed(i)
      PROVE  PoolInv'
  <2>1. TypeOK'
    BY <1>9 DEF QueueDestroyed, poolVars, TypeOK, Counts
  <2>2. Counts'
    BY <1>9 DEF QueueDestroyed, poolVars, Counts, TypeOK
  <2>3. Rotation'
    BY <1>9 DEF QueueDestroyed, poolVars, Rotation, TypeOK
  <2>4. Published'
    BY <1>9 DEF QueueDestroyed, poolVars, Published
  <2>5. Started'
    BY <1>9 DEF QueueDestroyed, poolVars, Started, TypeOK
  <2>6. EndedWhenTold'
    BY <1>9 DEF QueueDestroyed, poolVars, EndedWhenTold, ToldToQuit, TypeOK
  <2>7. Joined'
    BY <1>9 DEF QueueDestroyed, poolVars, Joined, Past, TypeOK
  <2>8. Cleared'
    BY <1>9 DEF QueueDestroyed, poolVars, Cleared, Teardown, TypeOK, Counts
  <2> QED BY <2>1, <2>2, <2>3, <2>4, <2>5, <2>6, <2>7, <2>8
<1>10. ASSUME NEW i \in Workers, Publish(i)
      PROVE  PoolInv'
  <2>1. TypeOK'
    BY <1>10 DEF Publish, Moves, TypeOK, Alive
  <2>2. Counts' /\ Rotation'
    BY <1>10 DEF Publish, Moves, Counts, Rotation
  <2>3. Published'
    BY <1>10 DEF Publish, Moves, Published, TypeOK, Alive
  <2>4. Started'
    BY <1>10 DEF Publish, Moves, Started, TypeOK
  <2>5. EndedWhenTold'
    BY <1>10 DEF Publish, Moves, EndedWhenTold, ToldToQuit, TypeOK
  <2>6. Joined'
    BY <1>10 DEF Publish, Moves, Joined, Past, TypeOK
  <2>7. Cleared'
    BY <1>10 DEF Publish, Moves, Cleared, Teardown, TypeOK
  <2> QED BY <2>1, <2>2, <2>3, <2>4, <2>5, <2>6, <2>7
<1>11. ASSUME NEW i \in Workers, EnterLoop(i)
      PROVE  PoolInv'
  <2>1. TypeOK'
    BY <1>11 DEF EnterLoop, ChildAt, Moves, TypeOK, Alive
  <2>2. Counts' /\ Rotation'
    BY <1>11 DEF EnterLoop, ChildAt, Moves, Counts, Rotation
  <2>3. Published'
    BY <1>11 DEF EnterLoop, ChildAt, Moves, Published, TypeOK, Alive
  <2>4. Started'
    BY <1>11 DEF EnterLoop, ChildAt, Moves, Started, TypeOK
  <2>5. EndedWhenTold'
    BY <1>11 DEF EnterLoop, ChildAt, Moves, EndedWhenTold, ToldToQuit, TypeOK
  <2>6. Joined'
    BY <1>11 DEF EnterLoop, ChildAt, Moves, Joined, Past, TypeOK
  <2>7. Cleared'
    BY <1>11 DEF EnterLoop, ChildAt, Moves, Cleared, Teardown, TypeOK
  <2> QED BY <2>1, <2>2, <2>3, <2>4, <2>5, <2>6, <2>7
<1>12. ASSUME NEW i \in Workers, CheckQuit(i)
      PROVE  PoolInv'
  <2>1. TypeOK'
    BY <1>12 DEF CheckQuit, ChildAt, Moves, TypeOK, Alive
  <2>2. Counts' /\ Rotation'
    BY <1>12 DEF CheckQuit, ChildAt, Moves, Counts, Rotation
  <2>3. Published'
    BY <1>12 DEF CheckQuit, ChildAt, Moves, Published, TypeOK, Alive
  <2>4. Started'
    <3>1. /\ UNCHANGED <<parent, at, loops_>>
          /\ \A k \in Workers : child'[k] = child[k] \/ k = i
          /\ child[i] = "check" /\ child'[i] \in {"exit", "poll"}
      BY <1>12 DEF CheckQuit, ChildAt, Moves, TypeOK
    <3>2. loops_ \subseteq Workers
      BY DEF TypeOK
    <3> QED BY <3>1, <3>2 DEF Started
  <2>5. EndedWhenTold'
    BY <1>12 DEF CheckQuit, ChildAt, Moves, EndedWhenTold, ToldToQuit, TypeOK
  <2>6. Joined'
    BY <1>12 DEF CheckQuit, ChildAt, Moves, Joined, Past, TypeOK
  <2>7. Cleared'
    BY <1>12 DEF CheckQuit, ChildAt, Moves, Cleared, Teardown, TypeOK
  <2> QED BY <2>1, <2>2, <2>3, <2>4, <2>5, <2>6, <2>7
<1>13. ASSUME NEW i \in Workers, PollReturns(i)
      PROVE  PoolInv'
  <2>1. TypeOK'
    BY <1>13 DEF PollReturns, ChildAt, Moves, TypeOK, Counts, Alive
  <2>2. Counts'
    BY <1>13 DEF PollReturns, ChildAt, Moves, Counts, TypeOK
  <2>3. Rotation'
    BY <1>13 DEF PollReturns, ChildAt, Moves, Rotation, TypeOK
  <2>4. Published'
    BY <1>13 DEF PollReturns, ChildAt, Moves, Published, TypeOK, Alive
  <2>5. Started'
    BY <1>13 DEF PollReturns, ChildAt, Moves, Started, TypeOK
  <2>6. EndedWhenTold'
    BY <1>13 DEF PollReturns, ChildAt, Moves, EndedWhenTold, ToldToQuit, TypeOK
  <2>7. Joined'
    BY <1>13 DEF PollReturns, ChildAt, Moves, Joined, Past, TypeOK
  <2>8. Cleared'
    BY <1>13 DEF PollReturns, ChildAt, Moves, Cleared, Teardown, TypeOK, Counts
  <2> QED BY <2>1, <2>2, <2>3, <2>4, <2>5, <2>6, <2>7, <2>8
<1>14. ASSUME NEW i \in Workers, Withdraw(i)
      PROVE  PoolInv'
  <2>1. TypeOK'
    BY <1>14 DEF Withdraw, ChildAt, Moves, TypeOK, Alive
  <2>2. Counts' /\ Rotation'
    BY <1>14 DEF Withdraw, ChildAt, Moves, Counts, Rotation
  <2>3. Published'
    BY <1>14 DEF Withdraw, ChildAt, Moves, Published, TypeOK, Alive
  <2>4. Started'
    BY <1>14 DEF Withdraw, ChildAt, Moves, Started, TypeOK
  <2>5. EndedWhenTold'
    BY <1>14 DEF Withdraw, ChildAt, Moves, EndedWhenTold, ToldToQuit, TypeOK
  <2>6. Joined'
    BY <1>14 DEF Withdraw, ChildAt, Moves, Joined, Past, TypeOK
  <2>7. Cleared'
    BY <1>14 DEF Withdraw, ChildAt, Moves, Cleared, Teardown, TypeOK
  <2> QED BY <2>1, <2>2, <2>3, <2>4, <2>5, <2>6, <2>7
<1>15. ASSUME NEW i \in Workers, QuitByCallback(i)
      PROVE  PoolInv'
  <2>1. TypeOK'
    BY <1>15 DEF QuitByCallback, ChildAt, Moves, TypeOK, Counts, Alive
  <2>2. Counts'
    BY <1>15 DEF QuitByCallback, ChildAt, Moves, Counts, TypeOK
  <2>3. Rotation'
    BY <1>15 DEF QuitByCallback, ChildAt, Moves, Rotation, TypeOK
  <2>4. Published'
    BY <1>15 DEF QuitByCallback, ChildAt, Moves, Published, TypeOK, Alive
  <2>5. Started'
    BY <1>15 DEF QuitByCallback, ChildAt, Moves, Started, TypeOK
  <2>6. EndedWhenTold'
    BY <1>15 DEF QuitByCallback, ChildAt, Moves, EndedWhenTold, ToldToQuit, TypeOK
  <2>7. Joined'
    BY <1>15 DEF QuitByCallback, ChildAt, Moves, Joined, Past, TypeOK
  <2>8. Cleared'
    BY <1>15 DEF QuitByCallback, ChildAt, Moves, Cleared, Teardown, TypeOK, Counts
  <2> QED BY <2>1, <2>2, <2>3, <2>4, <2>5, <2>6, <2>7, <2>8
<1>16. CASE WaitForLoop
  <2>1. TypeOK'
    BY <1>16 DEF WaitForLoop, TypeOK
  <2>2. Counts' /\ Rotation'
    BY <1>16 DEF WaitForLoop, Counts, Rotation
  <2>3. Published'
    BY <1>16 DEF WaitForLoop, Published
  <2>4. Started'
    BY <1>16 DEF WaitForLoop, Started, TypeOK
  <2>5. EndedWhenTold'
    BY <1>16 DEF WaitForLoop, EndedWhenTold, ToldToQuit, TypeOK
  <2>6. Joined'
    BY <1>16 DEF WaitForLoop, Joined, Past, TypeOK
  <2>7. Cleared'
    BY <1>16 DEF WaitForLoop, Cleared, Teardown, TypeOK
  <2> QED BY <2>1, <2>2, <2>3, <2>4, <2>5, <2>6, <2>7
<1>17. ASSUME NEW i \in Workers, EndThread(i)
      PROVE  PoolInv'
  <2>1. TypeOK'
    BY <1>17 DEF EndThread, ChildAt, Moves, TypeOK, Counts, Alive
  <2>2. Counts'
    BY <1>17 DEF EndThread, ChildAt, Moves, Counts, TypeOK
  <2>3. Rotation'
    BY <1>17 DEF EndThread, ChildAt, Moves, Rotation, TypeOK
  <2>4. Published'
    BY <1>17 DEF EndThread, ChildAt, Moves, Published, TypeOK, Alive
  <2>5. Started'
    BY <1>17 DEF EndThread, ChildAt, Moves, Started, TypeOK
  <2>6. EndedWhenTold'
    BY <1>17 DEF EndThread, ChildAt, Moves, EndedWhenTold, ToldToQuit, TypeOK
  <2>7. Joined'
    BY <1>17 DEF EndThread, ChildAt, Moves, Joined, Past, TypeOK
  <2>8. Cleared'
    BY <1>17 DEF EndThread, ChildAt, Moves, Cleared, Teardown, TypeOK, Counts
  <2> QED BY <2>1, <2>2, <2>3, <2>4, <2>5, <2>6, <2>7, <2>8
<1>18. CASE SpuriousWakeup
  <2>1. TypeOK'
    BY <1>18 DEF SpuriousWakeup, TypeOK
  <2>2. Counts' /\ Rotation'
    BY <1>18 DEF SpuriousWakeup, Counts, Rotation
  <2>3. Published'
    BY <1>18 DEF SpuriousWakeup, Published
  <2>4. Started'
    BY <1>18 DEF SpuriousWakeup, Started, TypeOK
  <2>5. EndedWhenTold'
    BY <1>18 DEF SpuriousWakeup, EndedWhenTold, ToldToQuit, TypeOK
  <2>6. Joined'
    BY <1>18 DEF SpuriousWakeup, Joined, Past, TypeOK
  <2>7. Cleared'
    BY <1>18 DEF SpuriousWakeup, Cleared, Teardown, TypeOK
  <2> QED BY <2>1, <2>2, <2>3, <2>4, <2>5, <2>6, <2>7
<1>19. CASE UNCHANGED vars
  <2>1. TypeOK' /\ Published'
    BY <1>19 DEF vars, poolVars, TypeOK, Published, Alive
  <2>2. Counts' /\ Rotation'
    BY <1>19 DEF vars, poolVars, Counts, Rotation
  <2>3. Started'
    BY <1>19 DEF vars, poolVars, Started
  <2>4. EndedWhenTold' /\ Joined'
    BY <1>19 DEF vars, poolVars, EndedWhenTold, ToldToQuit, Joined, Past
  <2>5. Cleared'
    BY <1>19 DEF vars, poolVars, Cleared, Teardown
  <2> QED BY <2>1, <2>2, <2>3, <2>4, <2>5
<1> QED
  BY <1>1, <1>2, <1>3, <1>4, <1>5, <1>6, <1>7, <1>8, <1>9, <1>10, <1>11,
     <1>12, <1>13, <1>14, <1>15, <1>16, <1>17, <1>18, <1>19
  DEF Next, Parent, ThreadFunc

\* PoolInv is inductive and holds at the start.
LEMMA PoolAlways == Spec => []PoolInv
<1>1. Init => PoolInv
  <2> SUFFICES ASSUME Init PROVE PoolInv
    OBVIOUS
  <2> USE PoolAssumption, WorkerNumbers DEF Init
  <2>1. TypeOK /\ Published
    BY DEF TypeOK, Published, Alive
  <2>2. Counts /\ Rotation
    BY DEF Counts, Rotation
  <2>3. Started
    BY DEF Started
  <2>4. EndedWhenTold /\ Joined /\ Cleared
    BY DEF EndedWhenTold, Joined, Past, Cleared, Teardown
  <2> QED BY <2>1, <2>2, <2>3, <2>4 DEF PoolInv
<1> QED
  BY <1>1, PoolStep, PTL DEF Spec

\* Every variable of the pool keeps its type; that the four counters of
\* connections stay in their range needs that together they are given.
THEOREM PoolTyped == Spec => []TypeOK
<1>1. PoolInv => TypeOK
  BY DEF PoolInv
<1> QED BY <1>1, PoolAlways, PTL

\* getNextLoop() is fair for any number of threads and connections.
THEOREM AlwaysBalanced == Spec => []Balanced
<1>1. PoolInv => Balanced
  <2> SUFFICES ASSUME PoolInv, NEW i \in Workers, NEW j \in Workers
               PROVE  given[i] <= given[j] + 1
    BY DEF Balanced
  <2>1. given[i] \in Nat /\ given[j] \in Nat /\ next_ \in Nat
    BY PoolAssumption DEF PoolInv, TypeOK
  <2> QED
    BY <2>1, WorkerNumbers DEF PoolInv, Rotation
<1> QED BY <1>1, PoolAlways, PTL

\* No loop that startLoop() returned goes before it is told to.
THEOREM LoopsAlwaysExist == Spec => []LoopsExist
<1>1. PoolInv => LoopsExist
  BY DEF PoolInv, LoopsExist, TypeOK, Started, EndedWhenTold
<1> QED BY <1>1, PoolAlways, PTL

\* ~TcpServer() leaves no connection behind, for any number of loops and
\* connections and any timing of the loops.
THEOREM AllReleased == Spec => []ConnectionsReleased
<1>1. PoolInv => ConnectionsReleased
  <2> SUFFICES ASSUME PoolInv, parent = "done", NEW i \in Workers \ Quitters
               PROVE  told[i] + released[i] = given[i]
    BY DEF ConnectionsReleased
  <2>1. unqueued[i] = 0 /\ queue[i] = 0
    BY DEF PoolInv, Joined, Past, Cleared, Teardown
  <2>2. told[i] \in Nat /\ released[i] \in Nat
    BY PoolAssumption DEF PoolInv, TypeOK
  <2> QED
    BY <2>1, <2>2 DEF PoolInv, Counts
<1> QED BY <1>1, PoolAlways, PTL
=============================================================================
