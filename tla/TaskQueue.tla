------------------------------ MODULE TaskQueue ------------------------------
(***************************************************************************)
(* What the task queue of an EventLoop promises to its users: a functor    *)
(* handed over with queueInLoop() is run exactly once, by the loop, after  *)
(* all functors handed over before it.  A functor that the loop thread     *)
(* itself passes to runInLoop() is run on the spot and may overtake the    *)
(* queue.                                                                  *)
(***************************************************************************)
EXTENDS Sequences, Functions

CONSTANT Functors   \* the functors (std::function objects) of the users

VARIABLES queue,    \* functors handed over and not yet run, oldest first
          ran       \* functors in the order in which they were run

vars == <<queue, ran>>

Init == queue = <<>> /\ ran = <<>>

\* Each functor is handed over at most once.
Fresh(f) == f \notin Range(queue) \cup Range(ran)

Submit(f) == /\ Fresh(f)
             /\ queue' = Append(queue, f)
             /\ UNCHANGED ran

RunOldest == /\ queue # <<>>
             /\ queue' = Tail(queue)
             /\ ran' = Append(ran, Head(queue))

RunInline(f) == /\ Fresh(f)
                /\ ran' = Append(ran, f)
                /\ UNCHANGED queue

Next == \/ \E f \in Functors : Submit(f) \/ RunInline(f)
        \/ RunOldest

Spec == Init /\ [][Next]_vars
=============================================================================
