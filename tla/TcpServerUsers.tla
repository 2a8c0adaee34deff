---------------------------- MODULE TcpServerUsers ----------------------------
(***************************************************************************)
(* TcpServer whose connections are also used from other threads: a thread  *)
(* of the user keeps a shared_ptr that a callback has stored, calls        *)
(* send() and shutdown(), which test state_ and then act, and lets the     *)
(* pointer go some time.  When it was the last one, the connection is      *)
(* destroyed on that thread, and its fd closed.                            *)
(*                                                                         *)
(* That the functor of send() points into the string of its caller is left *)
(* out, as are all bytes.                                                  *)
(***************************************************************************)
EXTENDS TcpServer

CONSTANTS Shared,     \* connections that the user keeps
          MaxCalls    \* bound: calls the user makes on one of them

ASSUME UsersAssumption == Shared \subseteq Conns /\ MaxCalls \in Nat

VARIABLES user,       \* user[c]: what the user's thread does with c
          calls       \* calls[c]: how many calls it has made

usersVars == <<vars, user, calls>>

UsersInit == /\ Init
             /\ user = [c \in Shared |-> "none"]
             /\ calls = [c \in Shared |-> 0]

UserAt(c, from, to) == /\ ProcessRuns
                       /\ user[c] = from
                       /\ user' = [user EXCEPT ![c] = to]

\* A callback has left a shared_ptr with the thread.
Take(c) == /\ UserAt(c, "none", "holds")
           /\ c \in connections_
           /\ conn[c].state = "KConnected"
           /\ held' = held \cup {c}
           /\ UNCHANGED <<conn, connections_, next_, channels_, queue, loopVars, calls>>

\* send() or shutdown() begins: its test of state_.
Call(c, op) == /\ UserAt(c, "holds", IF conn[c].state = "KConnected" THEN op ELSE "holds")
               /\ calls[c] < MaxCalls
               /\ calls' = [calls EXCEPT ![c] = @ + 1]
               /\ UNCHANGED vars

\* send() goes on: runInLoop() queues sendInLoop with the raw this.
SendQueues(c) == /\ UserAt(c, "send", "holds")
                 /\ queue' = [queue EXCEPT ![conn[c].loop] =
                                Append(@, Functor("sendInLoop", c))]
                 /\ UNCHANGED <<conn, connections_, next_, channels_, loopVars, held, calls>>

\* shutdown() goes on: setState(KDisconnecting), whatever the state is by now ...
ShutdownSets(c) ==
  /\ UserAt(c, "shutdown", "set")
  /\ conn' = [conn EXCEPT ![c].state = "KDisconnecting"]
  /\ UNCHANGED <<connections_, next_, channels_, queue, loopVars, held, calls>>

\* ... and then queues shutdownInLoop with the raw this.
ShutdownQueues(c) ==
  /\ UserAt(c, "set", "holds")
  /\ queue' = [queue EXCEPT ![conn[c].loop] = Append(@, Functor("shutdownInLoop", c))]
  /\ UNCHANGED <<conn, connections_, next_, channels_, loopVars, held, calls>>

\* The thread lets go; close() of the fd takes it out of the epoll.
Release(c) == /\ UserAt(c, "holds", "released")
              /\ held' = held \ {c}
              /\ UNCHANGED <<connections_, next_, channels_, queue, loopVars, calls>>
              /\ conn' = [conn EXCEPT ![c].reg = @ /\ c \in Live']

\* The loop runs sendInLoop.
RunSendInLoop(l, w) ==
  /\ LoopAt(l, "run")
  /\ batch[l] # <<>>
  /\ LET f == Head(batch[l]) IN
       /\ f.op = "sendInLoop"
       /\ Became(f.conn, SendInLoop(conn[f.conn], w))
  /\ batch' = [batch EXCEPT ![l] = Tail(@)]
  /\ spent' = [spent EXCEPT ![l] = Append(@, Head(batch[l]))]
  /\ UNCHANGED <<connections_, next_, active, phase, held, user, calls>>

UserStep(c) == SendQueues(c) \/ ShutdownSets(c) \/ ShutdownQueues(c) \/ Release(c)

SharedLoopStep(l) == \/ LoopStep(l) /\ UNCHANGED <<user, calls>>
                     \/ \E w \in Writes : RunSendInLoop(l, w)

UsersNext ==
  \/ \E c \in Conns : (PeerSends(c) \/ PeerCloses(c) \/ PeerResets(c)) /\ UNCHANGED <<user, calls>>
  \/ \E c \in Conns, fd \in Fds : Accept(c, fd) /\ UNCHANGED <<user, calls>>
  \/ \E l \in Loops : SharedLoopStep(l)
  \/ \E c \in Shared : UserStep(c) \/ Take(c) \/ \E op \in {"send", "shutdown"} : Call(c, op)

UsersSafety == UsersInit /\ [][UsersNext]_usersVars

\* The loops run, as in TcpServer; the user's calls return and it does not
\* keep a connection for ever.
UsersSpec == /\ UsersSafety
             /\ \A l \in Loops : WF_usersVars(SharedLoopStep(l))
             /\ \A c \in Shared : WF_usersVars(UserStep(c))

-----------------------------------------------------------------------------
(* Whatever other threads call, a connection that its user has been told is *)
(* down is never up again: the state does not return to KConnected and no   *)
(* second UP is reported.                                                   *)
NeverUpAgain ==
  \A c \in Conns : conn[c].downs > 0
    => conn[c].ups = 1 /\ conn[c].state \in {"KDisconnected", "KDisconnecting"}

(* "disconnected, give up writing": once a connection is down, sendInLoop() *)
(* writes no more and asks for no write event.                              *)
GivesUpWriting == \A c \in Conns : conn[c].downs > 0 => ~IsWriting(conn[c])
=============================================================================
