------------------------------ MODULE TcpServer ------------------------------
(***************************************************************************)
(* The life of a connection: TcpServer, Acceptor, TcpConnection, Channel   *)
(* and EPollPoller, on the main loop and the loops of the thread pool.     *)
(* The main loop accepts and forgets connections; the loop a connection    *)
(* was given to polls its socket, handles its events and runs the functors *)
(* connectEstablished, connectDestroyed and shutdownInLoop.  The loops     *)
(* meet only in their task queues (module EventLoop).                      *)
(*                                                                         *)
(* A connection object is alive as long as a shared_ptr to it exists: in   *)
(* connections_, in a functor, or with a thread of the user (module        *)
(* TcpServerUsers).  channel pointers in the poller and in                 *)
(* activeChannels_, and the this of shutdownInLoop and sendInLoop, are     *)
(* raw.                                                                    *)
(*                                                                         *)
(* The state starts after TcpServer::start(); the destruction of the       *)
(* server is in module EventLoopThreadPool.                                *)
(***************************************************************************)
EXTENDS Naturals, Sequences, FiniteSets, SequencesExt

CONSTANTS Conns,       \* connection objects, each accepted at most once
          Fds,         \* file descriptors the process may have for them
          NumThreads,  \* numThreads_ of the pool
          None,        \* no connection, no descriptor
          UserActs     \* what the user may call in one callback

ASSUME ServerAssumption == /\ NumThreads \in Nat \ {0}
                           /\ None \notin Conns \cup Fds
                           /\ "none" \in UserActs
                           /\ UserActs \subseteq
                                {"none", "send", "shutdown", "sendAndShutdown"}

Main == 0                    \* the loop of the server
IoLoops == 1..NumThreads     \* the loops of the pool
Loops == {Main} \cup IoLoops

VARIABLES
  conn,           \* conn[c]: the object, its channel and its socket
  connections_,   \* connections in the server's map
  next_,          \* round robin index of the pool
  channels_,      \* channels_[l][fd]: the poller's map
  active,         \* active[l]: activeChannels_ not handled yet, with revents_
  queue,          \* queue[l]: pendingFunctors_
  batch,          \* batch[l]: functors of the current batch still to be run
  spent,          \* spent[l]: those already run, whose copies still exist
  phase,          \* phase[l]: where the loop is
  held            \* connections that a thread of the user has a shared_ptr to

vars == <<conn, connections_, next_, channels_, active, queue, batch, spent, phase,
          held>>
loopVars == <<active, batch, spent, phase>>

-----------------------------------------------------------------------------
(***************************************************************************)
(* Connection records.  events: what the channel asks for; index: what the *)
(* poller believes; reg: whether the kernel's epoll holds the fd.  unread, *)
(* fin, reset, err and shutWr are the socket: data to read, end of stream, *)
(* a RST, the pending SO_ERROR and our own shutdown(SHUT_WR).  out: the    *)
(* outputBuffer_ is not empty.  ups, downs, closes count the calls of      *)
(* connectionCallback_ and closeCallback_; died: how the process ended.    *)
(***************************************************************************)
Unborn == [loop |-> Main, fd |-> None, state |-> "KConnecting", events |-> {},
           index |-> "New", reg |-> FALSE, out |-> FALSE,
           unread |-> FALSE, fin |-> FALSE, reset |-> FALSE, err |-> "none",
           shutWr |-> FALSE, ups |-> 0, downs |-> 0, closes |-> 0,
           died |-> "no"]

TcpConnection ==
  [loop: Loops, fd: Fds \cup {None},
   state: {"KConnecting", "KConnected", "KDisconnecting", "KDisconnected"},
   events: SUBSET {"R", "W"}, index: {"New", "Added", "Deleted"},
   reg: BOOLEAN, out: BOOLEAN, unread: BOOLEAN, fin: BOOLEAN, reset: BOOLEAN,
   err: {"none", "reset", "pipe"}, shutWr: BOOLEAN,
   ups: 0..1, downs: 0..3, closes: 0..3, died: {"no", "abort", "sigpipe", "dangling"}]

ProcessRuns == \A c \in Conns : conn[c].died = "no"
LoopAt(l, where) == ProcessRuns /\ phase[l] = where

Functor(op, c) == [op |-> op, conn |-> c]

\* Two functors are bound to this, the others to a shared_ptr.
Owns(f) == f.op \notin {"shutdownInLoop", "sendInLoop"}
Held(fs) == {f.conn : f \in {g \in Range(fs) : Owns(g)}}
Live == connections_ \cup held \cup
        UNION {Held(queue[l]) \cup Held(batch[l]) \cup Held(spent[l]) : l \in Loops}

Born == {c \in Conns : conn[c].fd # None}
FreeFds == Fds \ {conn[c].fd : c \in Live}

-----------------------------------------------------------------------------
(***************************************************************************)
(* EPollPoller and Channel, as functions from record to record.            *)
(***************************************************************************)
\* update(): an EPOLL_CTL_ADD of an fd that the epoll has, or a MOD of one
\* that it has not, fails and is LOG_FATAL; a failing DEL is only logged.
Update(k, operation) ==
  CASE operation = "ADD" -> [k EXCEPT !.reg = TRUE, !.died = IF k.reg THEN "abort" ELSE @]
    [] operation = "MOD" -> [k EXCEPT !.died = IF k.reg THEN @ ELSE "abort"]
    [] operation = "DEL" -> [k EXCEPT !.reg = FALSE]

\* A poller that does not set the index when it adds a channel.
UpdateChannelKeepsIndex(k) ==
  CASE k.index \in {"New", "Deleted"} -> Update(k, "ADD")
    [] k.index = "Added" /\ k.events = {} ->
         Update([k EXCEPT !.index = "Deleted"], "DEL")
    [] OTHER -> Update(k, "MOD")

\* updateChannel(); Became enters a new channel into channels_.
UpdateChannel(k) ==
  CASE k.index \in {"New", "Deleted"} -> Update([k EXCEPT !.index = "Added"], "ADD")
    [] k.index = "Added" /\ k.events = {} ->
         Update([k EXCEPT !.index = "Deleted"], "DEL")
    [] OTHER -> Update(k, "MOD")

\* removeChannel(); Became erases the channel from channels_.
RemoveChannel(k) ==
  [(IF k.index = "Added" THEN Update(k, "DEL") ELSE k) EXCEPT !.index = "New"]

EnableReading(k)  == UpdateChannel([k EXCEPT !.events = @ \cup {"R"}])
EnableWriting(k)  == UpdateChannel([k EXCEPT !.events = @ \cup {"W"}])
DisableWriting(k) == UpdateChannel([k EXCEPT !.events = @ \ {"W"}])
DisableAll(k)     == UpdateChannel([k EXCEPT !.events = {}])
IsWriting(k) == "W" \in k.events

\* What epoll_wait reports for a registered socket.
Revents(k) ==
     (IF "R" \in k.events /\ (k.unread \/ k.fin \/ k.reset) THEN {"IN"} ELSE {})
  \cup (IF IsWriting(k) THEN {"OUT"} ELSE {})
  \cup (IF k.reset \/ (k.fin /\ k.shutWr) THEN {"HUP"} ELSE {})
  \cup (IF k.err # "none" THEN {"ERR"} ELSE {})

-----------------------------------------------------------------------------
(***************************************************************************)
(* TcpConnection.  u is what the user calls in a callback: after shutdown()*)
(* neither call does anything, and send() appears at most once.            *)
(* w says whether the socket takes all that is written to it.              *)
(***************************************************************************)
Writes == {"all", "part"}

\* Socket::shutdownWrite(); its failure on a reset socket is only logged, and
\* there shutWr makes no difference to Revents.
ShutdownWrite(k) == [k EXCEPT !.shutWr = TRUE]

ShutdownInLoop(k) == IF IsWriting(k) THEN k ELSE ShutdownWrite(k)

\* write() to a socket that was reset: ECONNRESET, once; otherwise EPIPE,
\* which comes with a SIGPIPE that nobody handles.
WriteToReset(k) == IF k.err = "reset" THEN [k EXCEPT !.err = "none"]
                                      ELSE [k EXCEPT !.died = "sigpipe"]

\* sendInLoop(), which does not give up when the state is KDisconnected.  After
\* our own shutdownWrite() a write() is an EPIPE.
SendInLoop(k, w) ==
  LET buffered == [k EXCEPT !.out = TRUE] IN
  CASE IsWriting(k) -> buffered
    [] ~IsWriting(k) /\ k.out -> EnableWriting(buffered)
    [] OTHER -> CASE k.reset -> WriteToReset(k)
                  [] ~k.reset /\ k.shutWr -> [k EXCEPT !.died = "sigpipe"]
                  [] ~k.reset /\ ~k.shutWr /\ w = "all"  -> k
                  [] ~k.reset /\ ~k.shutWr /\ w = "part" -> EnableWriting(buffered)

\* send() on the connection's own thread.
Send(k, w) == IF k.state = "KConnected" THEN SendInLoop(k, w) ELSE k

\* A shutdown() that does not look at the state.
ShutdownUnchecked(k) == [k EXCEPT !.state = "KDisconnecting"]

\* shutdown(); the functor it queues is added by the action.
Shutdown(k) ==
  IF k.state = "KConnected" THEN [k EXCEPT !.state = "KDisconnecting"] ELSE k

UserCode(k, u, w) == CASE u = "none" -> k
                       [] u = "send" -> Send(k, w)
                       [] u = "shutdown" -> Shutdown(k)
                       [] u = "sendAndShutdown" -> Shutdown(Send(k, w))

\* handleClose() that does not tell the user.
HandleCloseSilent(k) ==
  LET off == DisableAll([k EXCEPT !.state = "KDisconnected"])
  IN  [off EXCEPT !.closes = @ + 1]

\* handleClose() without closeCallback_.
HandleCloseKeepsConnection(k) ==
  LET off == DisableAll([k EXCEPT !.state = "KDisconnected"])
  IN  [off EXCEPT !.downs = @ + 1]

\* handleClose() that does not change the state.
HandleCloseKeepsState(k) ==
  [DisableAll(k) EXCEPT !.downs = @ + 1, !.closes = @ + 1]

\* handleClose(); the call of removeConnection() is added by the action.
HandleClose(k) ==
  LET off == DisableAll([k EXCEPT !.state = "KDisconnected"])
  IN  [off EXCEPT !.downs = @ + 1, !.closes = @ + 1]

\* handleError(): getsockopt(SO_ERROR) also clears the error.
HandleError(k) == HandleClose([k EXCEPT !.err = "none"])

\* handleRead(): the data first, then the end of the stream, also that of a
\* reset whose error was fetched before; read() fails for the error itself.
HandleRead(k, u, w) ==
  CASE k.unread -> UserCode([k EXCEPT !.unread = FALSE], u, w)
    [] ~k.unread /\ (k.fin \/ k.err = "none") -> HandleClose(k)
    [] OTHER -> HandleError(k)

HandleWrite(k, w) ==
  CASE ~IsWriting(k) -> k
    [] IsWriting(k) /\ k.reset -> WriteToReset(k)
    [] IsWriting(k) /\ ~k.reset /\ k.shutWr -> [k EXCEPT !.died = "sigpipe"]
    [] IsWriting(k) /\ ~k.reset /\ ~k.shutWr /\ w = "part" -> k
    [] OTHER ->
         LET drained == DisableWriting([k EXCEPT !.out = FALSE])
         IN  IF k.state = "KDisconnecting" THEN ShutdownInLoop(drained) ELSE drained

\* Channel::handleEventWithGuard(): up to four callbacks, in this order.
HandleEvent(k, rev, u, w) ==
  LET k1 == IF "HUP" \in rev /\ "IN" \notin rev THEN HandleClose(k) ELSE k
      k2 == IF "ERR" \in rev THEN HandleError(k1) ELSE k1
      k3 == IF "IN" \in rev THEN HandleRead(k2, u, w) ELSE k2
  IN  IF "OUT" \in rev THEN HandleWrite(k3, w) ELSE k3

ConnectEstablished(k, u, w) ==
  LET on == EnableReading([k EXCEPT !.state = "KConnected"])
  IN  UserCode([on EXCEPT !.ups = @ + 1], u, w)

\* connectDestroyed() that leaves the channel in the poller.
ConnectDestroyedKeepsChannel(k) == k

ConnectDestroyed(k) ==
  LET off == DisableAll([k EXCEPT !.state = "KDisconnected"])
  IN  RemoveChannel(IF k.state = "KConnected" THEN [off EXCEPT !.downs = @ + 1] ELSE k)

-----------------------------------------------------------------------------
Init ==
  /\ conn = [c \in Conns |-> Unborn]
  /\ connections_ = {}
  /\ next_ = 0
  /\ channels_ = [l \in IoLoops |-> [f \in Fds |-> None]]
  /\ active = [l \in Loops |-> {}]
  /\ queue = [l \in Loops |-> <<>>]
  /\ batch = [l \in Loops |-> <<>>]
  /\ spent = [l \in Loops |-> <<>>]
  /\ phase = [l \in Loops |-> "poll"]
  /\ held = {}

(***************************************************************************)
(* What a callback on c's own loop leaves behind: the new record, the      *)
(* functors its calls of shutdown() and removeConnection() queue, and the  *)
(* poller's map, into which a channel enters when its index leaves New and *)
(* from which removeChannel() erases the fd.  A callback on an object that *)
(* is gone has no meaning: the process is taken to end there.              *)
(***************************************************************************)
Became(c, k) ==
  /\ conn' = [conn EXCEPT ![c] = IF c \in Live THEN k ELSE [k EXCEPT !.died = "dangling"]]
  /\ queue' = [queue EXCEPT
       ![Main] = @ \o [i \in 1..(k.closes - conn[c].closes)
                         |-> Functor("removeConnectionInLoop", c)],
       ![k.loop] = IF k.state = "KDisconnecting" /\ conn[c].state # "KDisconnecting"
                   THEN Append(@, Functor("shutdownInLoop", c)) ELSE @]
  /\ channels_' = [channels_ EXCEPT ![k.loop][k.fd] =
       CASE k.index = "New" -> None
         [] k.index # "New" /\ conn[c].index = "New" -> c
         [] OTHER -> @]

-----------------------------------------------------------------------------
(***************************************************************************)
(* The main loop.                                                          *)
(***************************************************************************)
\* getNextLoop(): loops_[next_], and next_ goes round.
NextIoLoop == next_ + 1

\* A round robin that runs off the end of loops_.
RotatedNoWrap == next_ + 1

Rotated == IF next_ + 1 >= NumThreads THEN 0 ELSE next_ + 1

NewConnection(c, fd) ==
  /\ conn' = [conn EXCEPT ![c] = [Unborn EXCEPT !.loop = NextIoLoop, !.fd = fd]]
  /\ connections_' = connections_ \cup {c}
  /\ next_' = Rotated
  /\ queue' = [queue EXCEPT ![NextIoLoop] =
                 Append(@, Functor("connectEstablished", c))]

\* Acceptor::handleRead() in the main loop's round: accept4() needs a free
\* fd; without one it fails and nothing changes.
Accept(c, fd) ==
  /\ LoopAt(Main, "poll")
  /\ c \notin Born
  /\ fd \in FreeFds
  /\ NewConnection(c, fd)
  /\ phase' = [phase EXCEPT ![Main] = "handle"]
  /\ UNCHANGED <<channels_, active, batch, spent, held>>

RemoveConnectionInLoop(c) ==
  /\ connections_' = connections_ \ {c}
  /\ queue' = [queue EXCEPT ![conn[c].loop] =
                 Append(@, Functor("connectDestroyed", c))]
  /\ UNCHANGED <<conn, next_, channels_>>

-----------------------------------------------------------------------------
(***************************************************************************)
(* Steps of every loop.  poll() returns with all the channels that are     *)
(* ready, or because the loop was woken up.                                *)
(***************************************************************************)
Ready(l) == {c \in Live : /\ conn[c].loop = l
                          /\ conn[c].reg
                          /\ Revents(conn[c]) # {}}

Poll(l) ==
  /\ LoopAt(l, "poll")
  /\ Ready(l) # {} \/ queue[l] # <<>>
  /\ active' = [active EXCEPT ![l] = {[conn |-> c, revents |-> Revents(conn[c])] : c \in Ready(l)}]
  /\ phase' = [phase EXCEPT ![l] = "handle"]
  /\ UNCHANGED <<conn, connections_, next_, channels_, queue, batch, spent, held>>

HandleActive(l, a, u, w) ==
  /\ LoopAt(l, "handle")
  /\ a \in active[l]
  /\ active' = [active EXCEPT ![l] = @ \ {a}]
  /\ Became(a.conn, HandleEvent(conn[a.conn], a.revents, u, w))
  /\ UNCHANGED <<connections_, next_, batch, spent, phase, held>>

SwapFunctors(l) ==
  /\ LoopAt(l, "handle")
  /\ active[l] = {}
  /\ batch' = [batch EXCEPT ![l] = queue[l]]
  /\ queue' = [queue EXCEPT ![l] = <<>>]
  /\ phase' = [phase EXCEPT ![l] = "run"]
  /\ UNCHANGED <<conn, connections_, next_, channels_, active, spent, held>>

RunFunctor(l, u, w) ==
  /\ LoopAt(l, "run")
  /\ batch[l] # <<>>
  /\ LET f == Head(batch[l])
         k == conn[f.conn]
     IN  \/ /\ f.op = "connectEstablished"
            /\ Became(f.conn, ConnectEstablished(k, u, w))
            /\ UNCHANGED <<connections_, next_>>
         \/ /\ f.op = "connectDestroyed"
            /\ Became(f.conn, ConnectDestroyed(k))
            /\ UNCHANGED <<connections_, next_>>
         \/ /\ f.op = "shutdownInLoop"
            /\ Became(f.conn, ShutdownInLoop(k))
            /\ UNCHANGED <<connections_, next_>>
         \/ /\ f.op = "removeConnectionInLoop"
            /\ RemoveConnectionInLoop(f.conn)
  /\ batch' = [batch EXCEPT ![l] = Tail(@)]
  /\ spent' = [spent EXCEPT ![l] = Append(@, Head(batch[l]))]
  /\ UNCHANGED <<active, phase, held>>

\* The local vector of doPendingFunctors() goes out of scope.
EndPending(l) ==
  /\ LoopAt(l, "run")
  /\ batch[l] = <<>>
  /\ spent' = [spent EXCEPT ![l] = <<>>]
  /\ phase' = [phase EXCEPT ![l] = "poll"]
  /\ UNCHANGED <<conn, connections_, next_, channels_, active, queue, batch, held>>

LoopStep(l) ==
  \/ Poll(l) \/ SwapFunctors(l) \/ EndPending(l)
  \/ \E u \in UserActs, w \in Writes :
       \/ RunFunctor(l, u, w)
       \/ \E a \in active[l] : HandleActive(l, a, u, w)

-----------------------------------------------------------------------------
(***************************************************************************)
(* The peer, seen through the socket.                                      *)
(***************************************************************************)
Peer(c, k) ==
  /\ ProcessRuns
  /\ c \in Live
  /\ ~conn[c].reset
  /\ conn' = [conn EXCEPT ![c] = k]
  /\ UNCHANGED <<connections_, next_, channels_, queue, loopVars, held>>

PeerSends(c) == /\ ~conn[c].fin
                /\ ~conn[c].unread
                /\ Peer(c, [conn[c] EXCEPT !.unread = TRUE])

PeerCloses(c) == /\ ~conn[c].fin
                 /\ Peer(c, [conn[c] EXCEPT !.fin = TRUE])

\* A RST after a FIN leaves EPIPE instead of ECONNRESET.
PeerResets(c) == Peer(c, [conn[c] EXCEPT !.reset = TRUE,
                                         !.err = IF conn[c].fin THEN "pipe" ELSE "reset"])

-----------------------------------------------------------------------------
Next ==
  \/ \E c \in Conns : PeerSends(c) \/ PeerCloses(c) \/ PeerResets(c)
  \/ \E c \in Conns, fd \in Fds : Accept(c, fd)
  \/ \E l \in Loops : LoopStep(l)

Safety == Init /\ [][Next]_vars

\* Every loop runs: its poll() returns when a channel is ready or the loop
\* has been woken up (EventLoop!PromptDispatch), callbacks return.
Fairness == \A l \in Loops : WF_vars(LoopStep(l))

Spec == Safety /\ Fairness

-----------------------------------------------------------------------------
TypeOK ==
  /\ conn \in [Conns -> TcpConnection]
  /\ connections_ \subseteq Born
  /\ next_ \in 0..(NumThreads - 1)
  /\ channels_ \in [IoLoops -> [Fds -> Conns \cup {None}]]
  /\ \A l \in Loops : phase[l] \in {"poll", "handle", "run"}
  /\ active[Main] = {}
  /\ held \subseteq Conns

(* No epoll_ctl() of the server is LOG_FATAL: although handleClose() may    *)
(* run several times for one connection, and each time toggles the channel  *)
(* between the epoll and out of it, the poller's index always tells whether *)
(* the kernel has the fd.                                                   *)
NoFatal == \A c \in Conns : conn[c].died # "abort"

(* Nothing points to a destroyed connection: no active channel, no entry of *)
(* a poller's map (which also has the fd's present owner), no functor, the  *)
(* raw this of shutdownInLoop included; and no registration is left in the  *)
(* epoll when the last shared_ptr goes.                                     *)
NoDangling ==
  /\ \A l \in Loops : \A a \in active[l] : a.conn \in Live
  /\ \A l \in Loops : \A f \in Range(queue[l]) \cup Range(batch[l]) : f.conn \in Live
  /\ \A l \in IoLoops, fd \in Fds : LET c == channels_[l][fd] IN
       c # None => c \in Live /\ conn[c].fd = fd /\ conn[c].loop = l
  /\ \A c \in Born \ Live : ~conn[c].reg

(* A connection is destroyed only after its user has been told that it is   *)
(* up and, later, that it is down.                                          *)
DestroyedAfterDown ==
  \A c \in Born \ Live : conn[c].ups = 1 /\ conn[c].downs >= 1

(* Once its user has been told that a connection is down it stays so and    *)
(* asks for no event: neither data that is delivered after the DOWN, nor a  *)
(* late event, functor or user call brings it back.                         *)
DownIsFinal ==
  \A c \in Conns : conn[c].downs > 0
    => conn[c].state = "KDisconnected" /\ conn[c].events = {}

(* A connection whose peer closed or reset it is destroyed, and its fd      *)
(* given back, whatever the user does in callbacks.                         *)
Gone(c) == c \in Born /\ c \notin Live
PeerGoneIsDestroyed ==
  \A c \in Conns : (c \in Born /\ (conn[c].fin \/ conn[c].reset))
                     ~> (Gone(c) \/ ~ProcessRuns)
=============================================================================
