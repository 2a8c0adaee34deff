--------------------------- MODULE TcpServerProofs ---------------------------
(***************************************************************************)
(* For any number of connections, descriptors and loops: no epoll_ctl() is *)
(* fatal, nothing points to a destroyed connection, a connection is        *)
(* destroyed only after its user was told that it is down, and a DOWN is   *)
(* final.                                                                  *)
(*                                                                         *)
(* The first part needs only that the poller's index and the epoll agree.  *)
(* The rest follows from ServerInv, which relates the functors that wait,  *)
(* the connections' records and the server's map.  Its heart is Anchored:  *)
(* a connection that a poller knows is in the map, or a                    *)
(* removeConnectionInLoop for it waits on the main loop, or a              *)
(* connectDestroyed on its own; each of them holds a shared_ptr, and each  *)
(* hands over to the next.                                                 *)
(*                                                                         *)
(* The last part is about TcpServerUsers, whose threads keep connections   *)
(* and call send() and shutdown().  ServerInv does not hold there; no      *)
(* epoll_ctl() is fatal all the same, and a connection that is down is     *)
(* never up again.                                                         *)
(***************************************************************************)
EXTENDS TcpServerRecords, TcpServerUsers, SequenceTheorems

EpollInv == \A c \in Conns : Agrees(conn[c])

-----------------------------------------------------------------------------
\* A callback on a connection, alive or not.
LEMMA BecameAgrees ==
  ASSUME NEW d, NEW k, EpollInv, conn \in [Conns -> Shape],
         d \in Conns => Agrees(k), Became(d, k)
  PROVE  EpollInv' /\ conn' \in [Conns -> Shape]
<1>1. \A c \in Conns : \/ conn'[c] = conn[c]
                       \/ c = d /\ conn'[c] = k
                       \/ c = d /\ conn'[c] = [k EXCEPT !.died = "dangling"]
  BY DEF Became
<1>2. d \in Conns => Agrees([k EXCEPT !.died = "dangling"])
  BY OtherFieldsAgree, Zenon
<1>3. \A c \in Conns : Agrees(conn'[c])
  BY <1>1, <1>2 DEF EpollInv
<1>4. conn' = [c \in Conns |-> conn'[c]]
  BY DEF Became
<1>5. \A c \in Conns : conn'[c] \in Shape
  BY <1>3 DEF Agrees
<1> QED BY <1>3, <1>4, <1>5 DEF EpollInv, Agrees

\* A new connection, and what the peer does to a socket.
LEMMA ReplacedAgrees ==
  ASSUME NEW d, NEW k, EpollInv, conn \in [Conns -> Shape],
         d \in Conns => Agrees(k), conn' = [conn EXCEPT ![d] = k]
  PROVE  EpollInv' /\ conn' \in [Conns -> Shape]
<1>1. \A c \in Conns : Agrees(conn'[c])
  BY DEF EpollInv
<1>2. \A c \in Conns : conn'[c] \in Shape
  BY <1>1 DEF Agrees
<1> QED BY <1>1, <1>2 DEF EpollInv

LEMMA StepAgrees ==
  ASSUME EpollInv, conn \in [Conns -> Shape], next_ \in Nat, [Next]_vars
  PROVE  EpollInv' /\ conn' \in [Conns -> Shape] /\ next_' \in Nat
<1>1. next_' \in Nat
  <2>1. next_' \in {next_, 0, next_ + 1}
    BY ZenonT(30) DEF Next, vars, PeerSends, PeerCloses, PeerResets, Peer, Accept, NewConnection,
           Rotated, LoopStep, Poll, HandleActive, SwapFunctors, RunFunctor,
           RemoveConnectionInLoop, EndPending
  <2> QED BY <2>1
<1>2. ASSUME NEW c \in Conns
      PROVE  Agrees(conn[c])
  BY DEF EpollInv
<1>3. ASSUME NEW c \in Conns, PeerSends(c) \/ PeerCloses(c) \/ PeerResets(c)
      PROVE  EpollInv' /\ conn' \in [Conns -> Shape]
  <2>1. /\ Agrees([conn[c] EXCEPT !.unread = TRUE])
        /\ Agrees([conn[c] EXCEPT !.fin = TRUE])
        /\ Agrees([conn[c] EXCEPT !.reset = TRUE,
                                  !.err = IF conn[c].fin THEN "pipe" ELSE "reset"])
    BY <1>2, OtherFieldsAgree, Zenon
  <2>2. CASE PeerSends(c)
    BY <2>1, <2>2, ReplacedAgrees DEF PeerSends, Peer
  <2>3. CASE PeerCloses(c)
    BY <2>1, <2>3, ReplacedAgrees DEF PeerCloses, Peer
  <2>4. CASE PeerResets(c)
    BY <2>1, <2>4, ReplacedAgrees DEF PeerResets, Peer
  <2> QED BY <1>3, <2>2, <2>3, <2>4
<1>4. ASSUME NEW c \in Conns, NEW fd \in Fds, Accept(c, fd)
      PROVE  EpollInv' /\ conn' \in [Conns -> Shape]
  <2>1. Agrees([Unborn EXCEPT !.loop = NextIoLoop, !.fd = fd])
    <3>1. Agrees(Unborn)
      BY DEF Agrees, Shape, Unborn, Main
    <3>2. NextIoLoop \in Nat
      BY DEF NextIoLoop
    <3> QED BY <3>1, <3>2 DEF Agrees, Shape
  <2> QED BY <1>4, <2>1, ReplacedAgrees DEF Accept, NewConnection
<1>5. ASSUME NEW l \in Loops, NEW u \in UserActs, NEW w \in Writes, RunFunctor(l, u, w)
      PROVE  EpollInv' /\ conn' \in [Conns -> Shape]
  <2> DEFINE f == Head(batch[l])
             k == conn[f.conn]
  <2>1. f.conn \in Conns => /\ Agrees(ConnectEstablished(k, u, w))
                            /\ Agrees(ConnectDestroyed(k))
                            /\ Agrees(ShutdownInLoop(k))
    BY <1>2, ConnectAgrees, SendAgrees
  <2>2. \/ Became(f.conn, ConnectEstablished(k, u, w))
        \/ Became(f.conn, ConnectDestroyed(k))
        \/ Became(f.conn, ShutdownInLoop(k))
        \/ RemoveConnectionInLoop(f.conn)
    BY <1>5 DEF RunFunctor
  <2> HIDE DEF f, k
  <2>3. CASE RemoveConnectionInLoop(f.conn)
    BY <2>3 DEF RemoveConnectionInLoop, EpollInv
  <2> QED BY <2>1, <2>2, <2>3, BecameAgrees
<1>6. ASSUME NEW l \in Loops, NEW u \in UserActs, NEW w \in Writes, NEW a,
             HandleActive(l, a, u, w)
      PROVE  EpollInv' /\ conn' \in [Conns -> Shape]
  <2>1. a.conn \in Conns => Agrees(HandleEvent(conn[a.conn], a.revents, u, w))
    BY <1>2, HandleEventAgrees
  <2> QED BY <1>6, <2>1, BecameAgrees DEF HandleActive
<1>7. ASSUME UNCHANGED conn
      PROVE  EpollInv' /\ conn' \in [Conns -> Shape]
  BY <1>7 DEF EpollInv
<1>8. ASSUME NEW l \in Loops, Poll(l) \/ SwapFunctors(l) \/ EndPending(l)
      PROVE  UNCHANGED conn
  BY <1>8 DEF Poll, SwapFunctors, EndPending
<1>9. UNCHANGED vars => UNCHANGED conn
  BY DEF vars
<1> QED BY <1>1, <1>3, <1>4, <1>5, <1>6, <1>7, <1>8, <1>9 DEF Next, LoopStep

-----------------------------------------------------------------------------
(* No epoll_ctl() of the server is LOG_FATAL (EPollPoller::update()), for   *)
(* any number of connections, descriptors and loops: what the poller has    *)
(* noted in a channel's index is what the kernel knows, even when           *)
(* handleClose() runs several times for one connection.                     *)
THEOREM EpollAlwaysAgrees == Safety => []NoFatal
<1> DEFINE Inv == EpollInv /\ conn \in [Conns -> Shape] /\ next_ \in Nat
<1>1. Init => Inv
  <2>1. Agrees(Unborn)
    BY DEF Agrees, Shape, Unborn, Main
  <2> QED BY <2>1 DEF Init, EpollInv, Agrees
<1>2. Inv /\ [Next]_vars => Inv'
  BY StepAgrees
<1>3. Inv => NoFatal
  BY DEF EpollInv, Agrees, NoFatal
<1> QED BY <1>1, <1>2, <1>3, PTL DEF Safety

-----------------------------------------------------------------------------
(***************************************************************************)
(* Queues of functors.                                                     *)
(***************************************************************************)
Functors == [op: {"connectEstablished", "connectDestroyed", "shutdownInLoop",
                  "sendInLoop", "removeConnectionInLoop"}, conn: Conns]
Queues == [Loops -> Seq(Functors)]

\* t is s without its first m functors and with those of e behind it.
Moves(s, t, m, e) ==
  /\ m \in {0, 1} /\ m <= Len(s)
  /\ Len(t) = Len(s) - m + Len(e)
  /\ \A i \in 1..(Len(s) - m) : t[i] = s[i + m]
  /\ \A i \in 1..Len(e) : t[Len(s) - m + i] = e[i]

\* s has the functor behind its first n.
Has(s, op, c, n) == \E i \in 1..Len(s) : i > n /\ s[i].op = op /\ s[i].conn = c

\* A functor of t is one of s or one of e.
LEMMA MovesParts ==
  ASSUME NEW s \in Seq(Functors), NEW t \in Seq(Functors), NEW e \in Seq(Functors),
         NEW m, Moves(s, t, m, e), NEW i \in 1..Len(t)
  PROVE  \/ i + m \in 1..Len(s) /\ t[i] = s[i + m]
         \/ /\ i - (Len(s) - m) \in 1..Len(e)
            /\ t[i] = e[i - (Len(s) - m)]
<1>1. Len(s) \in Nat /\ Len(t) \in Nat /\ Len(e) \in Nat
  BY LenProperties
<1>2. m \in {0, 1}
  BY DEF Moves
<1>3. CASE i <= Len(s) - m
  BY <1>1, <1>2, <1>3 DEF Moves
<1>4. CASE i > Len(s) - m
  <2>1. i - (Len(s) - m) \in 1..Len(e)
    BY <1>1, <1>2, <1>4 DEF Moves
  <2>2. Len(s) - m + (i - (Len(s) - m)) = i
    BY <1>1, <1>2
  <2> QED BY <2>1, <2>2 DEF Moves
<1> QED BY <1>1, <1>2, <1>3, <1>4

\* A functor that is not taken stays, ahead of what it was ahead of.
LEMMA HasKept ==
  ASSUME NEW s \in Seq(Functors), NEW t \in Seq(Functors), NEW e \in Seq(Functors),
         NEW m, Moves(s, t, m, e), NEW op, NEW c, NEW n \in Nat, Has(s, op, c, n),
         m > n => ~(s[1].op = op /\ s[1].conn = c)
  PROVE  /\ Has(t, op, c, 0)
         /\ n >= m => Has(t, op, c, n - m)
<1>1. Len(s) \in Nat /\ Len(t) \in Nat /\ Len(e) \in Nat /\ m \in {0, 1}
  BY LenProperties DEF Moves
<1>2. PICK i \in 1..Len(s) : i > n /\ s[i].op = op /\ s[i].conn = c
  BY DEF Has
<1>3. i > m
  BY <1>1, <1>2
<1>4. i - m \in 1..(Len(s) - m) /\ i - m \in 1..Len(t) /\ (i - m) + m = i
  BY <1>1, <1>3, SMTT(30) DEF Moves
<1>5. t[i - m] = s[i]
  BY <1>4 DEF Moves
<1>6. i - m > 0 /\ (n >= m => i - m > n - m)
  BY <1>1, <1>2, <1>3
<1> QED BY <1>2, <1>4, <1>5, <1>6 DEF Has

\* What is queued comes behind all that waits.
LEMMA HasFresh ==
  ASSUME NEW s \in Seq(Functors), NEW t \in Seq(Functors), NEW e \in Seq(Functors),
         NEW m, Moves(s, t, m, e), NEW op, NEW c, Has(e, op, c, 0),
         NEW n \in Nat, n <= Len(s) - m
  PROVE  Has(t, op, c, n)
<1>1. Len(s) \in Nat /\ Len(t) \in Nat /\ Len(e) \in Nat /\ m \in {0, 1} /\ m <= Len(s)
  BY LenProperties DEF Moves
<1>2. PICK i \in 1..Len(e) : e[i].op = op /\ e[i].conn = c
  BY DEF Has
<1>3. Len(s) - m + i \in 1..Len(t) /\ Len(s) - m + i > n
  BY <1>1 DEF Moves
<1>4. t[Len(s) - m + i] = e[i]
  BY DEF Moves
<1> QED BY <1>2, <1>3, <1>4 DEF Has

\* What waits had waited before or was queued now.
LEMMA HadBefore ==
  ASSUME NEW s \in Seq(Functors), NEW t \in Seq(Functors), NEW e \in Seq(Functors),
         NEW m, Moves(s, t, m, e), NEW op, NEW c, Has(t, op, c, 0)
  PROVE  Has(s, op, c, 0) \/ Has(e, op, c, 0)
<1>1. Len(s) \in Nat /\ Len(t) \in Nat /\ Len(e) \in Nat /\ m \in {0, 1}
  BY LenProperties DEF Moves
<1>2. PICK i \in 1..Len(t) : t[i].op = op /\ t[i].conn = c
  BY DEF Has
<1>3. CASE i + m \in 1..Len(s) /\ t[i] = s[i + m]
  <2>1. i + m > 0
    BY <1>1
  <2> QED BY <1>2, <1>3, <2>1 DEF Has
<1>4. CASE i - (Len(s) - m) \in 1..Len(e) /\ t[i] = e[i - (Len(s) - m)]
  <2>1. i - (Len(s) - m) > 0
    BY <1>1, <1>4
  <2> QED BY <1>2, <1>4, <2>1 DEF Has
<1> QED BY <1>3, <1>4, MovesParts

-----------------------------------------------------------------------------
\* The functors that wait in P, of connections K.
PlaceOK(f, l, k) ==
  /\ k.fd # None
  /\ f.op = "removeConnectionInLoop" => l = Main /\ k.closes > 0
  /\ f.op # "removeConnectionInLoop" => l = k.loop
  /\ f.op = "connectDestroyed" => k.closes > 0
  /\ f.op = "connectEstablished" <=> k.ups = 0

Places(P, K) ==
  \A l \in Loops : \A i \in 1..Len(P[l]) : PlaceOK(P[l][i], l, K[P[l][i].conn])

Once(P) ==
  \A l \in Loops : \A i, j \in 1..Len(P[l]) :
    P[l][i].op = "connectEstablished" /\ P[l][j].conn = P[l][i].conn => i = j

Order(P, M) ==
  \A l \in Loops : \A i \in 1..Len(P[l]) :
    ~Owns(P[l][i]) =>
      \/ P[l][i].conn \in M
      \/ Has(P[Main], "removeConnectionInLoop", P[l][i].conn, 0)
      \/ Has(P[l], "connectDestroyed", P[l][i].conn, i)

Anchored(P, K, M, c) ==
  \/ c \in M
  \/ Has(P[Main], "removeConnectionInLoop", c, 0)
  \/ Has(P[K[c].loop], "connectDestroyed", c, 0)

Steps(P, Q, m, E) ==
  /\ P \in Queues /\ Q \in Queues /\ E \in Queues
  /\ \A l \in Loops : Moves(P[l], Q[l], m[l], E[l])

\* The connection is gone from the map, or its removal from the queue.
Leaves(P, m, M, N, c) ==
  \/ c \in M /\ c \notin N
  \/ /\ m[Main] = 1
     /\ P[Main][1].op = "removeConnectionInLoop" /\ P[Main][1].conn = c

\* Functors stay on their loops.
LEMMA PlacesKept ==
  ASSUME NEW P, NEW Q, NEW m, NEW E, Steps(P, Q, m, E), NEW K,
         \A l \in Loops : \A i \in 1..Len(P[l]) :
           i > m[l] => PlaceOK(P[l][i], l, K[P[l][i].conn]),
         Places(E, K)
  PROVE  Places(Q, K)
<1> SUFFICES ASSUME NEW l \in Loops, NEW i \in 1..Len(Q[l])
             PROVE  PlaceOK(Q[l][i], l, K[Q[l][i].conn])
  BY DEF Places
<1>1. /\ P[l] \in Seq(Functors) /\ Q[l] \in Seq(Functors) /\ E[l] \in Seq(Functors)
      /\ Moves(P[l], Q[l], m[l], E[l])
  BY DEF Steps, Queues
<1>2. m[l] \in {0, 1} /\ Len(P[l]) \in Nat
  BY <1>1, LenProperties DEF Moves
<1>3. CASE i + m[l] \in 1..Len(P[l]) /\ Q[l][i] = P[l][i + m[l]]
  <2>1. i + m[l] > m[l]
    BY <1>2
  <2> QED BY <1>3, <2>1
<1>4. CASE i - (Len(P[l]) - m[l]) \in 1..Len(E[l])
           /\ Q[l][i] = E[l][i - (Len(P[l]) - m[l])]
  BY <1>4 DEF Places
<1> QED BY <1>1, <1>3, <1>4, MovesParts, SMTT(30)

\* connectEstablished is alone in its loop's queue about its connection.
LEMMA OnceKept ==
  ASSUME NEW P, NEW Q, NEW m, NEW E, Steps(P, Q, m, E), NEW K, Places(Q, K), Once(P),
         \A l \in Loops : \A i \in 1..Len(E[l]) :
           E[l][i].op = "connectEstablished" =>
             /\ Len(E[l]) = 1
             /\ \A j \in 1..Len(P[l]) : P[l][j].conn # E[l][i].conn
  PROVE  Once(Q)
<1> SUFFICES ASSUME NEW l \in Loops, NEW i \in 1..Len(Q[l]), NEW j \in 1..Len(Q[l]),
                    Q[l][i].op = "connectEstablished", Q[l][j].conn = Q[l][i].conn
             PROVE  i = j
  BY DEF Once
<1>1. /\ P[l] \in Seq(Functors) /\ Q[l] \in Seq(Functors) /\ E[l] \in Seq(Functors)
      /\ Moves(P[l], Q[l], m[l], E[l])
  BY DEF Steps, Queues
<1>2. m[l] \in {0, 1} /\ Len(P[l]) \in Nat /\ Len(E[l]) \in Nat
  BY <1>1, LenProperties DEF Moves
<1>3. Q[l][j].op = "connectEstablished"
  BY DEF Places, PlaceOK
<1> DEFINE n == Len(P[l]) - m[l]
           Old(x) == x + m[l] \in 1..Len(P[l]) /\ Q[l][x] = P[l][x + m[l]]
           New(x) == x - n \in 1..Len(E[l]) /\ Q[l][x] = E[l][x - n]
<1>4. (Old(i) \/ New(i)) /\ (Old(j) \/ New(j))
  <2>1. Old(i) \/ New(i)
    BY <1>1, MovesParts
  <2>2. Old(j) \/ New(j)
    BY <1>1, MovesParts
  <2> QED BY <2>1, <2>2
<1>5. CASE Old(i) /\ Old(j)
  <2>1. i + m[l] = j + m[l]
    BY <1>5 DEF Once
  <2> QED BY <1>2, <2>1
<1>6. CASE New(i) /\ New(j)
  <2>1. Len(E[l]) = 1
    BY <1>6
  <2>2. i - n = 1 /\ j - n = 1
    BY <1>2, <1>6, <2>1
  <2> QED BY <1>2, <2>2
<1>7. ~(Old(i) /\ New(j)) /\ ~(New(i) /\ Old(j))
  BY <1>3
<1> QED BY <1>4, <1>5, <1>6, <1>7

\* An anchored connection stays so, unless its connectDestroyed is taken.
LEMMA AnchoredKept ==
  ASSUME NEW P, NEW Q, NEW m, NEW E, Steps(P, Q, m, E), NEW K, NEW K2, NEW M, NEW N,
         NEW c, Anchored(P, K, M, c), K2[c].loop = K[c].loop, K[c].loop \in Loops,
         ~(/\ m[K[c].loop] = 1
           /\ P[K[c].loop][1].op = "connectDestroyed" /\ P[K[c].loop][1].conn = c),
         Leaves(P, m, M, N, c) => Has(E[K[c].loop], "connectDestroyed", c, 0)
  PROVE  Anchored(Q, K2, N, c)
<1>1. \A l \in Loops : /\ P[l] \in Seq(Functors) /\ Q[l] \in Seq(Functors)
                       /\ E[l] \in Seq(Functors)
                       /\ Moves(P[l], Q[l], m[l], E[l])
  BY DEF Steps, Queues
<1>2. \A l \in Loops : m[l] \in {0, 1} /\ Len(P[l]) \in Nat /\ m[l] <= Len(P[l])
  BY <1>1, LenProperties DEF Moves
<1>3. Main \in Loops /\ 0 \in Nat
  BY DEF Loops
<1> DEFINE l == K[c].loop
<1>4. CASE Leaves(P, m, M, N, c)
  <2>1. 0 <= Len(P[l]) - m[l]
    BY <1>2
  <2>2. Has(Q[l], "connectDestroyed", c, 0)
    BY <1>1, <1>3, <1>4, <2>1, HasFresh
  <2> QED BY <2>2 DEF Anchored
<1>5. CASE ~Leaves(P, m, M, N, c) /\ c \in M
  BY <1>5 DEF Leaves, Anchored
<1>6. CASE ~Leaves(P, m, M, N, c) /\ Has(P[Main], "removeConnectionInLoop", c, 0)
  <2>1. m[Main] > 0 => m[Main] = 1
    BY <1>2, <1>3
  <2>2. m[Main] > 0 => ~(P[Main][1].op = "removeConnectionInLoop" /\ P[Main][1].conn = c)
    BY <1>6, <2>1 DEF Leaves
  <2>3. Has(Q[Main], "removeConnectionInLoop", c, 0)
    BY <1>1, <1>3, <1>6, <2>2, HasKept
  <2> QED BY <2>3 DEF Anchored
<1>7. CASE Has(P[l], "connectDestroyed", c, 0)
  <2>1. m[l] > 0 => m[l] = 1
    BY <1>2
  <2>2. m[l] > 0 => ~(P[l][1].op = "connectDestroyed" /\ P[l][1].conn = c)
    BY <2>1
  <2>3. Has(Q[l], "connectDestroyed", c, 0)
    BY <1>1, <1>3, <1>7, <2>2, HasKept
  <2> QED BY <2>3 DEF Anchored
<1> QED BY <1>4, <1>5, <1>6, <1>7 DEF Anchored

\* Only newConnection() anchors a connection that was not.
LEMMA AnchoredBefore ==
  ASSUME NEW P, NEW Q, NEW m, NEW E, Steps(P, Q, m, E), NEW K, NEW K2, NEW M, NEW N,
         NEW c, Anchored(Q, K2, N, c), K2[c].loop = K[c].loop, K[c].loop \in Loops,
         c \in N => c \in M,
         \A l \in Loops : \/ Has(E[l], "removeConnectionInLoop", c, 0)
                          \/ Has(E[l], "connectDestroyed", c, 0)
                          => Anchored(P, K, M, c)
  PROVE  Anchored(P, K, M, c)
<1>1. \A l \in Loops : /\ P[l] \in Seq(Functors) /\ Q[l] \in Seq(Functors)
                       /\ E[l] \in Seq(Functors)
                       /\ Moves(P[l], Q[l], m[l], E[l])
  BY DEF Steps, Queues
<1>2. Main \in Loops
  BY DEF Loops
<1>3. CASE c \in N
  BY <1>3 DEF Anchored
<1>4. CASE Has(Q[Main], "removeConnectionInLoop", c, 0)
  <2>1. Has(P[Main], "removeConnectionInLoop", c, 0) \/ Has(E[Main], "removeConnectionInLoop", c, 0)
    BY <1>1, <1>2, <1>4, HadBefore
  <2> QED BY <1>2, <2>1 DEF Anchored
<1>5. CASE Has(Q[K[c].loop], "connectDestroyed", c, 0)
  <2>1. Has(P[K[c].loop], "connectDestroyed", c, 0) \/ Has(E[K[c].loop], "connectDestroyed", c, 0)
    BY <1>1, <1>5, HadBefore
  <2> QED BY <2>1 DEF Anchored
<1> QED BY <1>3, <1>4, <1>5 DEF Anchored

\* connectDestroyed waits behind every functor with a raw this.
LEMMA OrderKept ==
  ASSUME NEW P, NEW Q, NEW m, NEW E, Steps(P, Q, m, E), NEW M, NEW N, Order(P, M),
         \A l \in Loops : \A i \in 1..Len(E[l]) :
           ~Owns(E[l][i]) => E[l][i].conn \in N,
         \A l \in Loops : \A i \in 1..Len(P[l]) :
           ~Owns(P[l][i]) /\ Leaves(P, m, M, N, P[l][i].conn)
             => Has(E[l], "connectDestroyed", P[l][i].conn, 0)
  PROVE  Order(Q, N)
<1> SUFFICES ASSUME NEW l \in Loops, NEW i \in 1..Len(Q[l]), ~Owns(Q[l][i])
             PROVE  \/ Q[l][i].conn \in N
                    \/ Has(Q[Main], "removeConnectionInLoop", Q[l][i].conn, 0)
                    \/ Has(Q[l], "connectDestroyed", Q[l][i].conn, i)
  BY DEF Order
<1>1. \A x \in Loops : /\ P[x] \in Seq(Functors) /\ Q[x] \in Seq(Functors)
                       /\ E[x] \in Seq(Functors)
                       /\ Moves(P[x], Q[x], m[x], E[x])
  BY DEF Steps, Queues
<1>2. \A x \in Loops : m[x] \in {0, 1} /\ Len(P[x]) \in Nat /\ m[x] <= Len(P[x])
  BY <1>1, LenProperties DEF Moves
<1>3. Main \in Loops /\ 0 \in Nat
  BY DEF Loops
<1>4. CASE i - (Len(P[l]) - m[l]) \in 1..Len(E[l])
           /\ Q[l][i] = E[l][i - (Len(P[l]) - m[l])]
  BY <1>4
<1>5. CASE i + m[l] \in 1..Len(P[l]) /\ Q[l][i] = P[l][i + m[l]]
  <2> DEFINE c == Q[l][i].conn
             p == i + m[l]
  <2>1. /\ p \in 1..Len(P[l]) /\ ~Owns(P[l][p]) /\ P[l][p].conn = c
        /\ p \in Nat /\ p - m[l] = i /\ p >= m[l] /\ i <= Len(P[l]) - m[l] /\ i \in Nat
    BY <1>2, <1>5
  <2> HIDE DEF p, c
  <2>2. CASE Leaves(P, m, M, N, c)
    <3>1. Has(E[l], "connectDestroyed", c, 0)
      BY <2>1, <2>2
    <3>2. Has(Q[l], "connectDestroyed", c, i)
      BY <1>1, <2>1, <3>1, HasFresh
    <3> QED BY <3>2 DEF c
  <2>3. CASE ~Leaves(P, m, M, N, c)
    <3>1. \/ c \in M
          \/ Has(P[Main], "removeConnectionInLoop", c, 0)
          \/ Has(P[l], "connectDestroyed", c, p)
      BY <2>1 DEF Order
    <3>2. CASE c \in M
      BY <2>3, <3>2 DEF Leaves, c
    <3>3. CASE Has(P[Main], "removeConnectionInLoop", c, 0)
      <4>1. m[Main] > 0 => m[Main] = 1
        BY <1>2, <1>3
      <4>2. m[Main] > 0 => ~(P[Main][1].op = "removeConnectionInLoop" /\ P[Main][1].conn = c)
        BY <2>3, <4>1 DEF Leaves
      <4>3. Has(Q[Main], "removeConnectionInLoop", c, 0)
        BY <1>1, <1>3, <3>3, <4>2, HasKept
      <4> QED BY <4>3 DEF c
    <3>4. CASE Has(P[l], "connectDestroyed", c, p)
      <4>1. ~(m[l] > p)
        BY <1>2, <2>1
      <4>2. Has(Q[l], "connectDestroyed", c, p - m[l])
        BY <1>1, <2>1, <3>4, <4>1, HasKept
      <4> QED BY <2>1, <4>2 DEF c
    <3> QED BY <3>1, <3>2, <3>3, <3>4
  <2> QED BY <2>2, <2>3
<1> QED BY <1>1, <1>4, <1>5, MovesParts

-----------------------------------------------------------------------------
\* The invariant of what the loops share: the functors that wait, P, the
\* connections K and the server's map M.
InMap(K, M) ==
  /\ \A c \in M : K[c].fd # None
  /\ \A c \in Conns : K[c].fd # None /\ K[c].closes = 0 => c \in M

Anchor(P, K, M) == \A c \in Conns : K[c].index # "New" => Anchored(P, K, M, c)

OwnFd(P, K, M) ==
  \A c, d \in Conns :
    Anchored(P, K, M, c) /\ Anchored(P, K, M, d) /\ K[c].fd = K[d].fd => c = d

Core(P, K, M) ==
  /\ P \in Queues /\ K \in [Conns -> TcpConnection] /\ M \subseteq Conns
  /\ \A c \in Conns : Orderly(K[c])
  /\ Places(P, K) /\ Once(P) /\ InMap(K, M)
  /\ Anchor(P, K, M) /\ Order(P, M) /\ OwnFd(P, K, M)

\* The first functor of a queue is taken.
Pops(P, m, op, c) ==
  \E l \in Loops : m[l] = 1 /\ P[l][1].op = op /\ P[l][1].conn = c

\* What an event, a functor or the peer may do to the record k of c.
Callback(P, m, c, k, h) ==
  /\ Orderly(h) /\ h.loop = k.loop /\ h.fd = k.fd /\ h.closes >= k.closes
  /\ h.closes > k.closes => k.index # "New"
  /\ \A l \in Loops : m[l] = 1 => /\ P[l][1].conn = c
                                  /\ P[l][1].op # "removeConnectionInLoop"
  /\ \/ Pops(P, m, "connectEstablished", c)
     \/ h.ups = k.ups /\ (h.index # "New" => k.index # "New")
  /\ Pops(P, m, "connectDestroyed", c) => h.index = "New"

\* What it may queue.
Emitted(E, c, k, h) ==
  \A l \in Loops : \A i \in 1..Len(E[l]) :
    /\ E[l][i].conn = c
    /\ \/ /\ E[l][i].op = "removeConnectionInLoop"
          /\ l = Main /\ h.closes > k.closes
       \/ /\ E[l][i].op = "shutdownInLoop"
          /\ l = h.loop /\ h.state = "KDisconnecting" /\ k.state # "KDisconnecting"

\* What the invariant says of one connection.
LEMMA CoreFields ==
  ASSUME NEW P, NEW K, NEW M, Core(P, K, M), NEW c \in Conns
  PROVE  /\ K[c] \in TcpConnection /\ Orderly(K[c])
         /\ K[c].loop \in Loops /\ K[c].ups \in {0, 1} /\ K[c].closes \in {0, 1, 2, 3}
         /\ K[c].closes > 0 => K[c].ups = 1 /\ K[c].fd # None
         /\ K[c].ups = 0 => K[c].index = "New" /\ K[c].closes = 0 /\ K[c].state = "KConnecting"
         /\ K[c].ups = 1 => K[c].fd # None
         /\ K[c].fd # None => K[c].loop \in IoLoops /\ K[c].loop # Main
<1>1. K[c] \in TcpConnection /\ Orderly(K[c])
  BY DEF Core
<1>2. K[c].loop \in Loops /\ K[c].ups \in {0, 1} /\ K[c].closes \in {0, 1, 2, 3}
  BY <1>1 DEF TcpConnection
<1>3. \A l \in IoLoops : l # Main
  BY ServerAssumption DEF IoLoops, Main
<1> QED BY <1>1, <1>2, <1>3 DEF Orderly

\* What a callback leaves of it.
LEMMA CallbackFields ==
  ASSUME NEW P, NEW K, NEW M, Core(P, K, M), NEW m, NEW c \in Conns, NEW h,
         Callback(P, m, c, K[c], h), K[c].fd # None
  PROVE  /\ h \in TcpConnection /\ h.ups \in {0, 1} /\ h.closes \in {0, 1, 2, 3}
         /\ h.closes = 0 => K[c].closes = 0
         /\ h.closes > K[c].closes => h.closes > 0
         /\ K[c].closes > 0 => h.closes > 0
         /\ h.closes > 0 => h.ups = 1
         /\ h.state = "KDisconnecting" => h.ups = 1 /\ h.closes = 0
         /\ h.loop \in IoLoops /\ h.loop # Main
<1>1. h \in TcpConnection /\ Orderly(h)
  BY DEF Callback, Orderly
<1>2. h.ups \in {0, 1} /\ h.closes \in {0, 1, 2, 3}
  BY <1>1 DEF TcpConnection
<1>3. K[c].closes \in {0, 1, 2, 3} /\ K[c].loop \in IoLoops /\ K[c].loop # Main
  BY CoreFields
<1> QED BY <1>1, <1>2, <1>3 DEF Orderly, Callback

\* A functor can be taken only where there is one.
LEMMA PoppedFirst ==
  ASSUME NEW P, NEW Q, NEW m, NEW E, Steps(P, Q, m, E), NEW l \in Loops, m[l] = 1
  PROVE  1 \in 1..Len(P[l])
<1>1. P[l] \in Seq(Functors) /\ Moves(P[l], Q[l], m[l], E[l])
  BY DEF Steps, Queues
<1>2. Len(P[l]) \in Nat
  BY <1>1, LenProperties
<1> QED BY <1>1, <1>2 DEF Moves

\* The functors that wait are about connections.
LEMMA Members ==
  ASSUME NEW P \in Queues, NEW l \in Loops, NEW i \in 1..Len(P[l])
  PROVE  P[l][i] \in Functors /\ P[l][i].conn \in Conns
<1>1. P[l] \in Seq(Functors)
  BY DEF Queues
<1>2. P[l][i] \in Functors
  BY <1>1, ElementOfSeq
<1> QED BY <1>2 DEF Functors

\* A callback and the functors: their places.
LEMMA CallbackPlaces ==
  ASSUME NEW P, NEW Q, NEW m, NEW E, Steps(P, Q, m, E), NEW K, NEW M, Core(P, K, M),
         NEW c \in Conns, NEW h, Callback(P, m, c, K[c], h), Emitted(E, c, K[c], h),
         K[c].fd # None
  PROVE  LET K2 == [K EXCEPT ![c] = h]
         IN  Places(Q, K2) /\ Once(Q)
<1> DEFINE K2 == [K EXCEPT ![c] = h]
<1>1. K2[c] = h /\ \A d \in Conns : d # c => K2[d] = K[d]
  BY DEF Core
<1> HIDE DEF K2
<1>2. /\ h.ups \in {0, 1}
      /\ h.closes > K[c].closes => h.closes > 0
      /\ K[c].closes > 0 => h.closes > 0
      /\ h.closes > 0 => h.ups = 1
      /\ h.state = "KDisconnecting" => h.ups = 1
      /\ h.loop \in IoLoops /\ h.loop # Main /\ h.fd # None
      /\ h.loop = K[c].loop /\ h.fd = K[c].fd
  BY CallbackFields DEF Callback
<1>3. ASSUME NEW l \in Loops, NEW i \in 1..Len(P[l]), i > m[l]
      PROVE  PlaceOK(P[l][i], l, K2[P[l][i].conn])
  <2> DEFINE f == P[l][i]
  <2>1. f.conn \in Conns /\ PlaceOK(f, l, K[f.conn])
    BY Members DEF Core, Places
  <2>2. CASE f.conn # c
    BY <1>1, <2>1, <2>2
  <2>3. CASE f.conn = c /\ h.ups = K[c].ups
    BY <1>1, <1>2, <2>1, <2>3 DEF PlaceOK
  <2>4. CASE f.conn = c /\ Pops(P, m, "connectEstablished", c)
    <3>1. PICK x \in Loops : m[x] = 1 /\ P[x][1].op = "connectEstablished" /\ P[x][1].conn = c
      BY <2>4 DEF Pops
    <3>2. 1 \in 1..Len(P[x])
      BY <3>1, PoppedFirst
    <3>3. PlaceOK(P[x][1], x, K[c])
      BY <3>1, <3>2 DEF Core, Places
    <3>4. x = K[c].loop /\ K[c].ups = 0
      BY <3>1, <3>3 DEF PlaceOK
    <3>5. f.op = "connectEstablished" /\ l = x
      BY <2>1, <2>4, <3>4 DEF PlaceOK
    <3>6. i = 1
      BY <2>4, <3>1, <3>2, <3>5 DEF Core, Once
    <3> QED BY <1>3, <3>1, <3>5, <3>6
  <2> QED BY <2>2, <2>3, <2>4 DEF Callback
<1>4. Places(E, K2)
  <2> SUFFICES ASSUME NEW l \in Loops, NEW i \in 1..Len(E[l])
               PROVE  PlaceOK(E[l][i], l, K2[E[l][i].conn])
    BY DEF Places
  <2>1. /\ E[l][i].conn = c
        /\ \/ E[l][i].op = "removeConnectionInLoop" /\ l = Main /\ h.closes > K[c].closes
           \/ E[l][i].op = "shutdownInLoop" /\ l = h.loop /\ h.state = "KDisconnecting"
    BY DEF Emitted
  <2> QED BY <1>1, <1>2, <2>1 DEF PlaceOK
<1>5. Places(Q, K2)
  BY <1>3, <1>4, PlacesKept
<1>6. Once(Q)
  <2>1. \A l \in Loops : \A i \in 1..Len(E[l]) : E[l][i].op # "connectEstablished"
    BY DEF Emitted
  <2> QED BY <1>5, <2>1, OnceKept DEF Core
<1> QED BY <1>5, <1>6 DEF K2

\* A callback and the functors: what keeps connections alive.
LEMMA CallbackAnchors ==
  ASSUME NEW P, NEW Q, NEW m, NEW E, Steps(P, Q, m, E), NEW K, NEW M, Core(P, K, M),
         NEW c \in Conns, NEW h, Callback(P, m, c, K[c], h), Emitted(E, c, K[c], h),
         K[c].fd # None
  PROVE  LET K2 == [K EXCEPT ![c] = h]
         IN  Anchor(Q, K2, M) /\ Order(Q, M) /\ OwnFd(Q, K2, M) /\ InMap(K2, M)
<1> DEFINE K2 == [K EXCEPT ![c] = h]
<1>1. K2[c] = h /\ \A d \in Conns : d # c => K2[d] = K[d]
  BY DEF Core
<1> HIDE DEF K2
<1>2. /\ h.closes = 0 => K[c].closes = 0
      /\ h.state = "KDisconnecting" => h.closes = 0
      /\ h.fd # None /\ h.loop = K[c].loop /\ h.fd = K[c].fd
  BY CallbackFields DEF Callback
<1>3. \A d \in Conns : K2[d].loop = K[d].loop /\ K2[d].fd = K[d].fd /\ K[d].loop \in Loops
  BY <1>1, <1>2, CoreFields
<1>4. InMap(K2, M)
  BY <1>1, <1>2 DEF Core, InMap
<1>5. \A d : ~Leaves(P, m, M, M, d)
  <2>1. Main \in Loops
    BY DEF Loops
  <2> QED BY <2>1 DEF Leaves, Callback
<1>6. ASSUME NEW d \in Conns, K2[d].index # "New"
      PROVE  Anchored(Q, K2, M, d)
  <2>1. CASE K[d].index # "New"
    <3>1. Anchored(P, K, M, d) /\ K[d].loop \in Loops
      BY <1>3, <2>1 DEF Core, Anchor
    <3>2. ~(/\ m[K[d].loop] = 1
            /\ P[K[d].loop][1].op = "connectDestroyed" /\ P[K[d].loop][1].conn = d)
      <4> SUFFICES ASSUME m[K[d].loop] = 1, P[K[d].loop][1].op = "connectDestroyed",
                          P[K[d].loop][1].conn = d
                   PROVE  FALSE
        OBVIOUS
      <4>1. d = c /\ Pops(P, m, "connectDestroyed", c)
        BY <3>1 DEF Callback, Pops
      <4> QED BY <1>1, <1>6, <4>1 DEF Callback
    <3> QED BY <1>3, <1>5, <3>1, <3>2, AnchoredKept
  <2>2. CASE K[d].index = "New"
    <3>1. d = c /\ Pops(P, m, "connectEstablished", c)
      BY <1>1, <1>6, <2>2 DEF Callback
    <3>2. PICK x \in Loops : m[x] = 1 /\ P[x][1].op = "connectEstablished" /\ P[x][1].conn = c
      BY <3>1 DEF Pops
    <3>3. PlaceOK(P[x][1], x, K[c])
      BY <3>2, PoppedFirst DEF Core, Places
    <3>4. K[c].ups = 0 /\ K[c].closes = 0
      BY <3>2, <3>3, CoreFields DEF PlaceOK
    <3>5. c \in M
      BY <3>4 DEF Core, InMap
    <3> QED BY <3>1, <3>5 DEF Anchored
  <2> QED BY <2>1, <2>2
<1>7. Order(Q, M)
  <2>1. \A l \in Loops : \A i \in 1..Len(E[l]) :
          ~Owns(E[l][i]) => E[l][i].conn \in M
    <3>1. h.state = "KDisconnecting" => c \in M
      BY <1>2 DEF Core, InMap
    <3> QED BY <3>1 DEF Emitted, Owns
  <2> QED BY <1>5, <2>1, OrderKept DEF Core
<1>8. ASSUME NEW d \in Conns, Anchored(Q, K2, M, d)
      PROVE  Anchored(P, K, M, d)
  <2>1. ASSUME NEW l \in Loops, \/ Has(E[l], "removeConnectionInLoop", d, 0)
                                \/ Has(E[l], "connectDestroyed", d, 0)
        PROVE  Anchored(P, K, M, d)
    <3>1. d = c /\ h.closes > K[c].closes
      BY <2>1 DEF Has, Emitted
    <3> QED BY <3>1 DEF Callback, Core, Anchor
  <2> QED BY <1>3, <1>8, <2>1, AnchoredBefore
<1>9. OwnFd(Q, K2, M)
  BY <1>3, <1>8 DEF Core, OwnFd
<1> QED BY <1>4, <1>6, <1>7, <1>9 DEF Anchor, K2

\* An event, a functor or the peer keeps the shared invariant.
LEMMA CallbackCore ==
  ASSUME NEW P, NEW Q, NEW m, NEW E, Steps(P, Q, m, E), NEW K, NEW M, Core(P, K, M),
         NEW c \in Conns, NEW h, Callback(P, m, c, K[c], h), Emitted(E, c, K[c], h),
         K[c].fd # None
  PROVE  Core(Q, [K EXCEPT ![c] = h], M)
<1> DEFINE K2 == [K EXCEPT ![c] = h]
<1>1. h \in TcpConnection /\ Orderly(h)
  BY CallbackFields DEF Callback
<1>2. K2 \in [Conns -> TcpConnection] /\ \A d \in Conns : Orderly(K2[d])
  BY <1>1 DEF Core
<1>3. Places(Q, K2) /\ Once(Q)
  BY CallbackPlaces
<1>4. Anchor(Q, K2, M) /\ Order(Q, M) /\ OwnFd(Q, K2, M) /\ InMap(K2, M)
  BY CallbackAnchors
<1>5. Q \in Queues /\ M \subseteq Conns
  BY DEF Steps, Core
<1> HIDE DEF K2
<1>6. Core(Q, K2, M)
  BY <1>2, <1>3, <1>4, <1>5 DEF Core
<1> QED BY <1>6 DEF K2

\* newConnection(): c gets its loop and fd, and connectEstablished waits for it.
Accepted(P, K, M, m, E, c, h) ==
  /\ K[c].fd = None
  /\ Orderly(h) /\ h.fd \in Fds /\ h.fd # None /\ h.ups = 0 /\ h.closes = 0 /\ h.index = "New"
  /\ \A l \in Loops : m[l] = 0
  /\ \A d \in Conns : Anchored(P, K, M, d) => K[d].fd # h.fd
  /\ \A l \in Loops : \A i \in 1..Len(E[l]) :
       /\ E[l][i].conn = c /\ E[l][i].op = "connectEstablished"
       /\ l = h.loop /\ Len(E[l]) = 1

\* newConnection() keeps the shared invariant.
LEMMA AcceptCore ==
  ASSUME NEW P, NEW Q, NEW m, NEW E, Steps(P, Q, m, E), NEW K, NEW M, Core(P, K, M),
         NEW c \in Conns, NEW h, Accepted(P, K, M, m, E, c, h)
  PROVE  Core(Q, [K EXCEPT ![c] = h], M \cup {c})
<1> DEFINE K2 == [K EXCEPT ![c] = h]
           N  == M \cup {c}
<1>1. /\ K2[c] = h /\ \A d \in Conns : d # c => K2[d] = K[d]
      /\ K2 \in [Conns -> TcpConnection] /\ N \subseteq Conns
      /\ M \subseteq N /\ c \in N /\ \A d \in N : d # c => d \in M
  BY DEF Core, Accepted, Orderly
<1> HIDE DEF K2, N
<1>2. \A d \in Conns : Orderly(K2[d])
  BY <1>1 DEF Core, Accepted
<1>3. ASSUME NEW l \in Loops, NEW i \in 1..Len(P[l])
      PROVE  P[l][i].conn \in Conns /\ P[l][i].conn # c /\ PlaceOK(P[l][i], l, K[P[l][i].conn])
  BY Members DEF Core, Places, PlaceOK, Accepted
<1>4. Places(E, K2)
  BY <1>1 DEF Places, PlaceOK, Accepted
<1>5. Places(Q, K2)
  <2>1. \A l \in Loops : \A i \in 1..Len(P[l]) :
          i > m[l] => PlaceOK(P[l][i], l, K2[P[l][i].conn])
    BY <1>1, <1>3
  <2> QED BY <1>4, <2>1, PlacesKept
<1>6. Once(Q)
  <2>1. \A l \in Loops : \A i \in 1..Len(E[l]) :
           E[l][i].op = "connectEstablished" =>
             /\ Len(E[l]) = 1
             /\ \A j \in 1..Len(P[l]) : P[l][j].conn # E[l][i].conn
    BY <1>3 DEF Accepted
  <2> QED BY <1>5, <2>1, OnceKept DEF Core
<1>7. InMap(K2, N)
  BY <1>1 DEF Core, InMap, Accepted
<1>8. \A d : ~Leaves(P, m, M, N, d)
  <2>1. Main \in Loops /\ 0 # 1
    BY DEF Loops
  <2> QED BY <1>1, <2>1 DEF Leaves, Accepted
<1>9. Anchor(Q, K2, N)
  <2> SUFFICES ASSUME NEW d \in Conns, K2[d].index # "New"
               PROVE  Anchored(Q, K2, N, d)
    BY DEF Anchor
  <2>1. d # c /\ K2[d].loop = K[d].loop /\ K[d].loop \in Loops /\ K[d].index # "New"
    BY <1>1, CoreFields DEF Accepted
  <2>2. Anchored(P, K, M, d)
    BY <2>1 DEF Core, Anchor
  <2>3. m[K[d].loop] # 1
    BY <2>1 DEF Accepted
  <2> QED BY <1>8, <2>1, <2>2, <2>3, AnchoredKept
<1>10. Order(Q, N)
  <2>1. \A l \in Loops : \A i \in 1..Len(E[l]) : Owns(E[l][i])
    BY DEF Accepted, Owns
  <2> QED BY <1>8, <2>1, OrderKept DEF Core
<1>11. ASSUME NEW d \in Conns, d # c, Anchored(Q, K2, N, d)
       PROVE  Anchored(P, K, M, d) /\ K2[d].fd # h.fd
  <2>1. K2[d].loop = K[d].loop /\ K[d].loop \in Loops /\ (d \in N => d \in M)
    BY <1>1, <1>11, CoreFields
  <2>2. \A l \in Loops : ~Has(E[l], "removeConnectionInLoop", d, 0)
                      /\ ~Has(E[l], "connectDestroyed", d, 0)
    BY DEF Accepted, Has
  <2>3. Anchored(P, K, M, d)
    BY <1>11, <2>1, <2>2, AnchoredBefore
  <2> QED BY <1>1, <1>11, <2>3 DEF Accepted
<1>12. OwnFd(Q, K2, N)
  BY <1>1, <1>11 DEF Core, OwnFd
<1>13. Core(Q, K2, N)
  BY <1>1, <1>2, <1>5, <1>6, <1>7, <1>9, <1>10, <1>12 DEF Core, Steps
<1> QED BY <1>13 DEF K2, N

\* removeConnectionInLoop(): c leaves the map and connectDestroyed waits for it.
Removed(P, K, m, E, c) ==
  /\ m[Main] = 1 /\ P[Main][1].conn = c /\ P[Main][1].op = "removeConnectionInLoop"
  /\ \A l \in Loops : l # Main => m[l] = 0
  /\ Has(E[K[c].loop], "connectDestroyed", c, 0)
  /\ \A l \in Loops : \A i \in 1..Len(E[l]) :
       E[l][i].conn = c /\ E[l][i].op = "connectDestroyed" /\ l = K[c].loop

\* removeConnectionInLoop() keeps the shared invariant.
LEMMA RemoveCore ==
  ASSUME NEW P, NEW Q, NEW m, NEW E, Steps(P, Q, m, E), NEW K, NEW M, Core(P, K, M),
         NEW c \in Conns, Removed(P, K, m, E, c)
  PROVE  Core(Q, K, M \ {c})
<1> DEFINE N == M \ {c}
<1>1. N \subseteq Conns /\ N \subseteq M /\ c \notin N /\ \A d \in M : d # c => d \in N
  BY DEF Core
<1> HIDE DEF N
<1>2. Main \in Loops /\ 0 # 1
  BY DEF Loops
<1>3. 1 \in 1..Len(P[Main])
  BY <1>2, PoppedFirst DEF Removed
<1>4. PlaceOK(P[Main][1], Main, K[c])
  BY <1>2, <1>3 DEF Core, Places, Removed
<1>5. /\ K[c].fd # None /\ K[c].closes > 0 /\ K[c].ups = 1 /\ K[c].loop \in Loops
      /\ K[c].loop # Main
  BY <1>4, CoreFields DEF PlaceOK, Removed
<1>6. Places(Q, K)
  <2>1. Places(E, K)
    BY <1>5 DEF Places, PlaceOK, Removed
  <2> QED BY <2>1, PlacesKept DEF Core, Places
<1>7. Once(Q)
  <2>1. \A l \in Loops : \A i \in 1..Len(E[l]) : E[l][i].op # "connectEstablished"
    BY DEF Removed
  <2> QED BY <1>6, <2>1, OnceKept DEF Core
<1>8. InMap(K, N)
  <2>1. ~(K[c].closes = 0)
    BY <1>5, CoreFields
  <2> QED BY <1>1, <2>1 DEF Core, InMap
<1>9. \A d : Leaves(P, m, M, N, d) => d = c
  BY <1>1 DEF Leaves, Removed
<1>10. Anchor(Q, K, N)
  <2> SUFFICES ASSUME NEW d \in Conns, K[d].index # "New"
               PROVE  Anchored(Q, K, N, d)
    BY DEF Anchor
  <2>1. Anchored(P, K, M, d) /\ K[d].loop \in Loops
    BY CoreFields DEF Core, Anchor
  <2>2. ~(/\ m[K[d].loop] = 1
          /\ P[K[d].loop][1].op = "connectDestroyed" /\ P[K[d].loop][1].conn = d)
    <3>1. CASE K[d].loop = Main
      BY <3>1 DEF Removed
    <3>2. CASE K[d].loop # Main
      BY <1>2, <2>1, <3>2 DEF Removed
    <3> QED BY <3>1, <3>2
  <2>3. Leaves(P, m, M, N, d) => Has(E[K[d].loop], "connectDestroyed", d, 0)
    BY <1>9 DEF Removed
  <2> QED BY <2>1, <2>2, <2>3, AnchoredKept
<1>11. Order(Q, N)
  <2>1. \A l \in Loops : \A i \in 1..Len(E[l]) : Owns(E[l][i])
    BY DEF Removed, Owns
  <2>2. ASSUME NEW l \in Loops, NEW i \in 1..Len(P[l]), ~Owns(P[l][i]),
               Leaves(P, m, M, N, P[l][i].conn)
        PROVE  Has(E[l], "connectDestroyed", P[l][i].conn, 0)
    <3>1. P[l][i].conn = c
      BY <1>9, <2>2
    <3>2. l = K[c].loop
      BY <2>2, <3>1 DEF Core, Places, PlaceOK, Owns
    <3> QED BY <3>1, <3>2 DEF Removed
  <2> QED BY <2>1, <2>2, OrderKept DEF Core
<1>12. ASSUME NEW d \in Conns, Anchored(Q, K, N, d)
       PROVE  Anchored(P, K, M, d)
  <2>1. Anchored(P, K, M, c)
    <3>1. 1 > 0
      OBVIOUS
    <3>2. Has(P[Main], "removeConnectionInLoop", c, 0)
      BY <1>3, <3>1 DEF Removed, Has
    <3> QED BY <3>2 DEF Anchored
  <2>2. \A l \in Loops : (\/ Has(E[l], "removeConnectionInLoop", d, 0)
                          \/ Has(E[l], "connectDestroyed", d, 0)) => d = c
    BY DEF Removed, Has
  <2>3. K[d].loop \in Loops /\ (d \in N => d \in M)
    BY <1>1, CoreFields
  <2> QED BY <1>12, <2>1, <2>2, <2>3, AnchoredBefore
<1>13. OwnFd(Q, K, N)
  BY <1>12 DEF Core, OwnFd
<1>14. Core(Q, K, N)
  BY <1>1, <1>6, <1>7, <1>8, <1>10, <1>11, <1>13 DEF Core, Steps
<1> QED BY <1>14 DEF N

-----------------------------------------------------------------------------
(***************************************************************************)
(* The server.                                                             *)
(***************************************************************************)
\* The functors of each loop, in the order in which it will run them.
pending == [l \in Loops |-> batch[l] \o queue[l]]

Typed ==
  /\ next_ \in 0..(NumThreads - 1)
  /\ channels_ \in [IoLoops -> [Fds -> Conns \cup {None}]]
  /\ queue \in Queues /\ batch \in Queues /\ spent \in Queues
  /\ phase \in [Loops -> {"poll", "handle", "run"}]
  /\ active \in [Loops -> SUBSET [conn: Conns, revents: SUBSET {"IN", "OUT", "HUP", "ERR"}]]
  /\ held = {}

SpentBorn == \A l \in Loops : \A i \in 1..Len(spent[l]) : conn[spent[l][i].conn].fd # None

Phases ==
  /\ \A l \in Loops : /\ phase[l] # "run" => batch[l] = <<>>
                      /\ phase[l] # "handle" => active[l] = {}
  /\ active[Main] = {}

Map == \A l \in IoLoops : \A fd \in Fds : \A c \in Conns :
         channels_[l][fd] = c
           <=> conn[c].index # "New" /\ conn[c].fd = fd /\ conn[c].loop = l

ActOK(a, l, k) == k.loop = l /\ k.reg = TRUE /\ a.revents \subseteq Revents(k)
Acts == \A l \in Loops : \A a \in active[l] :
          /\ ActOK(a, l, conn[a.conn])
          /\ \A b \in active[l] : b.conn = a.conn => b = a

ServerInv == /\ Core(pending, conn, connections_)
             /\ Typed /\ SpentBorn /\ Phases /\ Map /\ Acts

-----------------------------------------------------------------------------
\* Concatenation of two queues, position by position.
LEMMA JoinIs ==
  ASSUME NEW b \in Seq(Functors), NEW q \in Seq(Functors)
  PROVE  /\ b \o q \in Seq(Functors)
         /\ Len(b) \in Nat /\ Len(q) \in Nat
         /\ Len(b \o q) = Len(b) + Len(q)
         /\ \A i \in 1..Len(b) : (b \o q)[i] = b[i]
         /\ \A i \in 1..Len(q) : (b \o q)[Len(b) + i] = q[i]
<1> DEFINE p == b \o q
           x == Len(b)
           y == Len(q)
<1>1. p \in Seq(Functors) /\ Len(p) = x + y
  BY ConcatProperties
<1>2. \A i \in 1..(x + y) : p[i] = IF i <= x THEN b[i] ELSE q[i - x]
  BY ConcatProperties
<1>3. x \in Nat /\ y \in Nat
  BY LenProperties
<1> HIDE DEF p, x, y
<1>4. \A i \in 1..x : p[i] = b[i]
  BY <1>2, <1>3
<1>5. \A i \in 1..y : p[x + i] = q[i]
  <2> SUFFICES ASSUME NEW i \in 1..y
               PROVE  p[x + i] = q[i]
    OBVIOUS
  <2>1. x + i \in 1..(x + y) /\ ~(x + i <= x) /\ (x + i) - x = i
    BY <1>3
  <2> QED BY <1>2, <2>1
<1> QED BY <1>1, <1>3, <1>4, <1>5 DEF p, x, y

\* The batch comes before the queue.
LEMMA PendingIs ==
  ASSUME queue \in Queues, batch \in Queues, NEW l \in Loops
  PROVE  /\ pending[l] = batch[l] \o queue[l] /\ pending[l] \in Seq(Functors)
         /\ batch[l] \in Seq(Functors) /\ queue[l] \in Seq(Functors)
         /\ Len(batch[l]) \in Nat /\ Len(queue[l]) \in Nat
         /\ Len(pending[l]) = Len(batch[l]) + Len(queue[l])
         /\ \A i \in 1..Len(batch[l]) : pending[l][i] = batch[l][i]
         /\ \A i \in 1..Len(queue[l]) : pending[l][Len(batch[l]) + i] = queue[l][i]
<1>1. batch[l] \in Seq(Functors) /\ queue[l] \in Seq(Functors)
  BY DEF Queues
<1>2. pending[l] = batch[l] \o queue[l]
  BY DEF pending
<1> DEFINE b == batch[l]
           q == queue[l]
<1>3. b \in Seq(Functors) /\ q \in Seq(Functors) /\ pending[l] = b \o q
  BY <1>1, <1>2
<1> HIDE DEF b, q
<1>4. /\ b \o q \in Seq(Functors)
      /\ Len(b) \in Nat /\ Len(q) \in Nat
      /\ Len(b \o q) = Len(b) + Len(q)
      /\ \A i \in 1..Len(b) : (b \o q)[i] = b[i]
      /\ \A i \in 1..Len(q) : (b \o q)[Len(b) + i] = q[i]
  BY <1>3, JoinIs
<1>5. /\ pending[l] \in Seq(Functors)
      /\ Len(pending[l]) = Len(b) + Len(q)
      /\ \A i \in 1..Len(b) : pending[l][i] = b[i]
      /\ \A i \in 1..Len(q) : pending[l][Len(b) + i] = q[i]
  BY <1>3, <1>4
<1> QED BY <1>1, <1>2, <1>4, <1>5 DEF b, q

\* The functors of a loop are those of its batch and its queue.
LEMMA PendingElements ==
  ASSUME queue \in Queues, batch \in Queues, NEW l \in Loops, NEW f
  PROVE  f \in Range(queue[l]) \cup Range(batch[l])
           <=> \E i \in 1..Len(pending[l]) : pending[l][i] = f
<1> DEFINE b == batch[l]
           q == queue[l]
           p == pending[l]
<1>1. /\ Len(b) \in Nat /\ Len(q) \in Nat /\ Len(p) = Len(b) + Len(q)
      /\ \A i \in 1..Len(b) : p[i] = b[i]
      /\ \A i \in 1..Len(q) : p[Len(b) + i] = q[i]
      /\ DOMAIN b = 1..Len(b) /\ DOMAIN q = 1..Len(q)
  BY PendingIs, LenProperties
<1>2. f \in Range(b) <=> \E i \in 1..Len(b) : b[i] = f
  BY <1>1 DEF Range
<1>3. f \in Range(q) <=> \E i \in 1..Len(q) : q[i] = f
  BY <1>1 DEF Range
<1> HIDE DEF b, q, p
<1>4. ASSUME NEW i \in 1..Len(p), p[i] = f
      PROVE  (\E j \in 1..Len(b) : b[j] = f) \/ (\E j \in 1..Len(q) : q[j] = f)
  <2>1. CASE i <= Len(b)
    BY <1>1, <1>4, <2>1
  <2>2. CASE i > Len(b)
    <3>1. i - Len(b) \in 1..Len(q) /\ Len(b) + (i - Len(b)) = i
      BY <1>1, <2>2
    <3> QED BY <1>1, <1>4, <3>1
  <2> QED BY <1>1, <2>1, <2>2
<1>5. ASSUME NEW i \in 1..Len(b), b[i] = f
      PROVE  \E j \in 1..Len(p) : p[j] = f
  BY <1>1, <1>5
<1>6. ASSUME NEW i \in 1..Len(q), q[i] = f
      PROVE  \E j \in 1..Len(p) : p[j] = f
  <2>1. Len(b) + i \in 1..Len(p)
    BY <1>1
  <2> QED BY <1>1, <1>6, <2>1
<1>7. f \in Range(q) \cup Range(b) <=> \E i \in 1..Len(p) : p[i] = f
  BY <1>2, <1>3, <1>4, <1>5, <1>6
<1> QED BY <1>7 DEF b, q, p

\* A functor that owns its connection keeps it alive.
LEMMA OwnedLive ==
  ASSUME queue \in Queues, batch \in Queues, NEW l \in Loops, NEW i \in 1..Len(pending[l]),
         Owns(pending[l][i])
  PROVE  pending[l][i].conn \in Live
<1> DEFINE f == pending[l][i]
<1>1. f \in Range(queue[l]) \cup Range(batch[l])
  BY PendingElements
<1> HIDE DEF f
<1>4. Owns(f)
  BY DEF f
<1>5. f.conn \in Held(queue[l]) \cup Held(batch[l]) \cup Held(spent[l])
  BY <1>1, <1>4 DEF Held
<1> QED BY <1>5 DEF Live, f

\* An anchored connection is alive.
LEMMA AnchoredLive ==
  ASSUME queue \in Queues, batch \in Queues, NEW c \in Conns, conn[c].loop \in Loops,
         Anchored(pending, conn, connections_, c)
  PROVE  c \in Live
<1>1. Main \in Loops
  BY DEF Loops
<1>2. CASE c \in connections_
  BY <1>2 DEF Live
<1>3. CASE Has(pending[Main], "removeConnectionInLoop", c, 0)
  BY <1>1, <1>3, OwnedLive DEF Has, Owns
<1>4. CASE Has(pending[conn[c].loop], "connectDestroyed", c, 0)
  BY <1>4, OwnedLive DEF Has, Owns
<1> QED BY <1>2, <1>3, <1>4 DEF Anchored

\* Only accepted connections are alive.
LEMMA LiveBorn ==
  ASSUME ServerInv, NEW c \in Live
  PROVE  c \in Conns /\ conn[c].fd # None
<1>1. /\ queue \in Queues /\ batch \in Queues /\ spent \in Queues /\ held = {}
      /\ Core(pending, conn, connections_)
  BY DEF ServerInv, Typed
<1>2. CASE c \in connections_
  BY <1>1, <1>2 DEF Core, InMap
<1>3. ASSUME NEW l \in Loops, c \in Held(queue[l]) \cup Held(batch[l])
      PROVE  c \in Conns /\ conn[c].fd # None
  <2>1. PICK f \in Range(queue[l]) \cup Range(batch[l]) : f.conn = c
    BY <1>3 DEF Held
  <2>2. PICK i \in 1..Len(pending[l]) : pending[l][i] = f
    BY <1>1, PendingElements
  <2> QED BY <1>1, <2>1, <2>2, Members DEF Core, Places, PlaceOK
<1>4. ASSUME NEW l \in Loops, c \in Held(spent[l])
      PROVE  c \in Conns /\ conn[c].fd # None
  <2>1. PICK f \in Range(spent[l]) : f.conn = c
    BY <1>4 DEF Held
  <2>2. DOMAIN spent[l] = 1..Len(spent[l])
    BY <1>1, LenProperties DEF Queues
  <2>3. PICK i \in 1..Len(spent[l]) : spent[l][i] = f
    BY <2>1, <2>2 DEF Range
  <2>4. spent[l][i].conn \in Conns
    BY <1>1, Members
  <2> QED BY <2>1, <2>3, <2>4 DEF ServerInv, SpentBorn
<1> QED BY <1>1, <1>2, <1>3, <1>4 DEF Live

-----------------------------------------------------------------------------
\* The first functor of a batch is taken, or none; functors are queued.
Taken(m) ==
  \/ batch' = batch /\ m = [l \in Loops |-> 0]
  \/ \E l \in Loops : /\ batch[l] # <<>>
                      /\ batch' = [batch EXCEPT ![l] = Tail(@)]
                      /\ m = [x \in Loops |-> IF x = l THEN 1 ELSE 0]

\* Taking the head of a batch and appending to a queue.
LEMMA JoinMoves ==
  ASSUME NEW b \in Seq(Functors), NEW q \in Seq(Functors), NEW e \in Seq(Functors),
         NEW b2, NEW m,
         (m = 0 /\ b2 = b) \/ (m = 1 /\ b # <<>> /\ b2 = Tail(b))
  PROVE  /\ b2 \in Seq(Functors) /\ q \o e \in Seq(Functors)
         /\ b2 \o (q \o e) \in Seq(Functors)
         /\ Moves(b \o q, b2 \o (q \o e), m, e)
<1>1. /\ b2 \in Seq(Functors) /\ Len(b2) = Len(b) - m /\ m \in {0, 1} /\ m <= Len(b)
      /\ \A i \in 1..(Len(b) - m) : b2[i] = b[i + m]
      /\ Len(b) \in Nat /\ Len(q) \in Nat /\ Len(e) \in Nat /\ Len(b2) \in Nat
  <2>1. Len(b) \in Nat /\ Len(q) \in Nat /\ Len(e) \in Nat
    BY LenProperties
  <2>2. CASE m = 0 /\ b2 = b
    BY <2>1, <2>2
  <2>3. CASE m = 1 /\ b # <<>> /\ b2 = Tail(b)
    <3>1. Len(b) \in Nat \ {0} /\ b2 \in Seq(Functors) /\ Len(b2) = Len(b) - 1
      BY <2>3, EmptySeq, HeadTailProperties
    <3>2. \A i \in 1..Len(b2) : b2[i] = b[i + 1]
      BY <2>3, HeadTailProperties
    <3> QED BY <2>1, <2>3, <3>1, <3>2
  <2> QED BY <2>2, <2>3
<1> DEFINE s == b \o q
           r == q \o e
           t == b2 \o r
           x == Len(b)
           y == Len(q)
           z == Len(e)
<1>2. /\ s \in Seq(Functors) /\ Len(s) = x + y
      /\ \A i \in 1..x : s[i] = b[i]
      /\ \A i \in 1..y : s[x + i] = q[i]
  BY JoinIs
<1>3. /\ r \in Seq(Functors) /\ Len(r) = y + z
      /\ \A i \in 1..y : r[i] = q[i]
      /\ \A i \in 1..z : r[y + i] = e[i]
  BY JoinIs
<1>4. /\ t \in Seq(Functors) /\ Len(t) = Len(b2) + Len(r)
      /\ \A i \in 1..Len(b2) : t[i] = b2[i]
      /\ \A i \in 1..Len(r) : t[Len(b2) + i] = r[i]
  BY <1>1, <1>3, JoinIs
<1>5. /\ x \in Nat /\ y \in Nat /\ z \in Nat /\ m \in {0, 1} /\ m <= x
      /\ Len(b2) = x - m /\ Len(r) = y + z /\ Len(s) = x + y /\ Len(t) = x - m + (y + z)
      /\ \A i \in 1..(x - m) : b2[i] = b[i + m]
  BY <1>1, <1>2, <1>3, <1>4
<1> HIDE DEF s, r, t, x, y, z
<1>6. ASSUME NEW i \in 1..((x + y) - m)
      PROVE  t[i] = s[i + m]
  <2>1. CASE i <= x - m
    <3>1. i \in 1..(x - m) /\ i + m \in 1..x
      BY <1>5, <2>1
    <3> QED BY <1>2, <1>4, <1>5, <3>1
  <2>2. CASE i > x - m
    <3> DEFINE j == i - (x - m)
    <3>1. j \in 1..y /\ j \in 1..(y + z) /\ (x - m) + j = i /\ x + j = i + m
      BY <1>5, <2>2
    <3> HIDE DEF j
    <3>2. t[(x - m) + j] = r[j] /\ r[j] = q[j] /\ s[x + j] = q[j]
      BY <1>2, <1>3, <1>4, <1>5, <3>1
    <3> QED BY <3>1, <3>2
  <2> QED BY <1>5, <2>1, <2>2
<1>7. ASSUME NEW i \in 1..z
      PROVE  t[(x + y) - m + i] = e[i]
  <2>1. y + i \in 1..(y + z) /\ (x - m) + (y + i) = (x + y) - m + i
    BY <1>5
  <2>2. t[(x - m) + (y + i)] = r[y + i] /\ r[y + i] = e[i]
    BY <1>3, <1>4, <1>5, <2>1
  <2> QED BY <2>1, <2>2
<1>8. m <= x + y /\ x - m + (y + z) = (x + y) - m + z
  BY <1>5
<1>9. Moves(s, t, m, e)
  <2>1. z = Len(e)
    BY DEF z
  <2> QED BY <1>5, <1>6, <1>7, <1>8, <2>1 DEF Moves
<1> QED BY <1>1, <1>3, <1>4, <1>9 DEF s, r, t

\* The same for all loops at once.
LEMMA TakenSteps ==
  ASSUME queue \in Queues, batch \in Queues, NEW E \in Queues, NEW m, Taken(m),
         \A l \in Loops : queue'[l] = queue[l] \o E[l],
         queue' = [l \in Loops |-> queue'[l]]
  PROVE  /\ Steps(pending, pending', m, E)
         /\ queue' \in Queues /\ batch' \in Queues
<1>1. ASSUME NEW l \in Loops
      PROVE  /\ batch[l] \in Seq(Functors) /\ queue[l] \in Seq(Functors) /\ E[l] \in Seq(Functors)
             /\ \/ m[l] = 0 /\ batch'[l] = batch[l]
                \/ m[l] = 1 /\ batch[l] # <<>> /\ batch'[l] = Tail(batch[l])
  BY ZenonT(30) DEF Taken, Queues
<1>2. ASSUME NEW l \in Loops
      PROVE  /\ batch'[l] \in Seq(Functors) /\ queue'[l] \in Seq(Functors)
             /\ batch'[l] \o queue'[l] \in Seq(Functors)
             /\ batch[l] \o queue[l] \in Seq(Functors)
             /\ Moves(batch[l] \o queue[l], batch'[l] \o queue'[l], m[l], E[l])
  <2> DEFINE b  == batch[l]
             b2 == batch'[l]
             q  == queue[l]
             e  == E[l]
             n  == m[l]
  <2>1. /\ b \in Seq(Functors) /\ q \in Seq(Functors) /\ e \in Seq(Functors)
        /\ (n = 0 /\ b2 = b) \/ (n = 1 /\ b # <<>> /\ b2 = Tail(b))
    BY <1>1
  <2> HIDE DEF b, b2, q, e, n
  <2>2. /\ b2 \in Seq(Functors) /\ q \o e \in Seq(Functors)
        /\ b2 \o (q \o e) \in Seq(Functors)
        /\ Moves(b \o q, b2 \o (q \o e), n, e)
    BY <2>1, JoinMoves
  <2>3. b \o q \in Seq(Functors)
    BY <2>1, JoinIs
  <2> QED BY <2>2, <2>3 DEF b, b2, q, e, n
<1>3. queue' \in Queues
  BY <1>2 DEF Queues
<1>4. batch' \in Queues
  <2>1. batch' = [l \in Loops |-> batch'[l]]
    BY DEF Taken, Queues
  <2> QED BY <1>2, <2>1 DEF Queues
<1>5. \A l \in Loops : pending[l] = batch[l] \o queue[l] /\ pending'[l] = batch'[l] \o queue'[l]
  BY DEF pending
<1>6. pending \in Queues /\ pending' \in Queues
  BY <1>2 DEF pending, Queues
<1> QED BY <1>2, <1>3, <1>4, <1>5, <1>6 DEF Steps

\* What Became queues.
LEMMA BecameEmits ==
  ASSUME queue \in Queues, NEW c \in Conns, NEW h, h.loop \in IoLoops,
         h.closes \in Nat, conn[c].closes \in Nat,
         h.closes >= conn[c].closes, Became(c, h)
  PROVE  \E E \in Queues : /\ Emitted(E, c, conn[c], h)
                           /\ \A l \in Loops : queue'[l] = queue[l] \o E[l]
                           /\ queue' = [l \in Loops |-> queue'[l]]
<1> DEFINE n    == h.closes - conn[c].closes
           rem  == Functor("removeConnectionInLoop", c)
           shut == Functor("shutdownInLoop", c)
           R    == [i \in 1..n |-> rem]
           down == h.state = "KDisconnecting" /\ conn[c].state # "KDisconnecting"
           D    == IF down THEN <<shut>> ELSE <<>>
           E    == [l \in Loops |-> IF l = Main THEN R ELSE IF l = h.loop THEN D ELSE <<>>]
<1>1. /\ Main \in Loops /\ h.loop \in Loops /\ h.loop # Main /\ n \in Nat
      /\ n > 0 => h.closes > conn[c].closes
  BY ServerAssumption DEF Loops, IoLoops, Main
<1>2. /\ rem \in Functors /\ rem.op = "removeConnectionInLoop" /\ rem.conn = c
      /\ shut \in Functors /\ shut.op = "shutdownInLoop" /\ shut.conn = c
  BY DEF Functor, Functors
<1> HIDE DEF n, rem, shut
<1>3. R \in Seq(Functors) /\ \A i \in 1..Len(R) : R[i] = rem /\ n > 0
  <2>1. R \in [1..n -> Functors]
    BY <1>2
  <2>2. R \in Seq(Functors)
    BY <1>1, <2>1, SeqDef
  <2>3. DOMAIN R = 1..Len(R) /\ DOMAIN R = 1..n
    BY <2>2, LenProperties
  <2>4. \A i \in 1..n : R[i] = rem /\ n > 0
    BY <1>1
  <2> QED BY <2>2, <2>3, <2>4
<1>4. D \in Seq(Functors) /\ \A i \in 1..Len(D) : D[i] = shut /\ down
  <2>1. CASE down
    <3>1. D = <<shut>> /\ Len(D) = 1 /\ D[1] = shut
      BY <2>1
    <3> QED BY <1>2, <2>1, <3>1
  <2>2. CASE ~down
    <3>1. D = <<>> /\ Len(D) = 0
      BY <2>2
    <3>2. D \in Seq(Functors)
      BY <3>1, EmptySeq
    <3> QED BY <3>1, <3>2
  <2> QED BY <2>1, <2>2
<1>5. \A l \in Loops : /\ l = Main => E[l] = R
                       /\ l = h.loop => E[l] = D
                       /\ l # Main /\ l # h.loop => E[l] = <<>>
  BY <1>1
<1> HIDE DEF R, D, down, E
<1>6. \A l \in Loops : E[l] \in Seq(Functors)
  BY <1>3, <1>4, <1>5, EmptySeq, ZenonT(30)
<1>7. E \in Queues
  BY <1>6 DEF Queues, E
<1>8. Emitted(E, c, conn[c], h)
  <2> SUFFICES ASSUME NEW l \in Loops, NEW i \in 1..Len(E[l])
               PROVE  /\ E[l][i].conn = c
                      /\ \/ /\ E[l][i].op = "removeConnectionInLoop"
                            /\ l = Main /\ h.closes > conn[c].closes
                         \/ /\ E[l][i].op = "shutdownInLoop"
                            /\ l = h.loop /\ h.state = "KDisconnecting"
                            /\ conn[c].state # "KDisconnecting"
    BY DEF Emitted
  <2>1. CASE l = Main
    BY <1>1, <1>2, <1>3, <1>5, <2>1
  <2>2. CASE l = h.loop
    BY <1>2, <1>4, <1>5, <2>2 DEF down
  <2>3. CASE l # Main /\ l # h.loop
    <3>1. Len(<<>>) = 0
      OBVIOUS
    <3> QED BY <1>5, <2>3, <3>1
  <2> QED BY <2>1, <2>2, <2>3
<1>9. queue' = [queue EXCEPT ![Main] = @ \o R,
                             ![h.loop] = IF down THEN Append(@, shut) ELSE @]
  BY DEF Became, R, n, down, rem, shut
<1>10. \A l \in Loops : queue[l] \in Seq(Functors) /\ queue = [x \in Loops |-> queue[x]]
  BY DEF Queues
<1>11. queue' = [l \in Loops |-> queue'[l]]
  BY <1>1, <1>9, <1>10
<1>12. ASSUME NEW l \in Loops
       PROVE  queue'[l] = queue[l] \o E[l]
  <2>1. CASE l = Main
    BY <1>1, <1>5, <1>9, <1>10, <2>1
  <2>2. CASE l = h.loop
    <3>1. queue'[l] = IF down THEN Append(queue[l], shut) ELSE queue[l]
      BY <1>1, <1>9, <1>10, <2>2
    <3>2. Append(queue[l], shut) = queue[l] \o <<shut>>
      BY <1>2, <1>10, AppendIsConcat
    <3>3. queue[l] \o <<>> = queue[l]
      BY <1>10, ConcatEmptySeq
    <3>4. E[l] = D
      BY <1>5, <2>2
    <3> QED BY <3>1, <3>2, <3>3, <3>4 DEF D
  <2>3. CASE l # Main /\ l # h.loop
    <3>1. queue'[l] = queue[l]
      BY <1>1, <1>9, <1>10, <2>3
    <3>2. queue[l] \o <<>> = queue[l]
      BY <1>10, ConcatEmptySeq
    <3> QED BY <1>5, <2>3, <3>1, <3>2
  <2> QED BY <2>1, <2>2, <2>3
<1> QED BY <1>7, <1>8, <1>11, <1>12

\* What Became does to the poller's map.
LEMMA BecameMap ==
  ASSUME ServerInv, NEW c \in Conns, NEW h, h.loop = conn[c].loop, h.fd = conn[c].fd,
         h.loop \in IoLoops, h.fd \in Fds, Became(c, h), conn' = [conn EXCEPT ![c] = h],
         Anchored(pending, conn, connections_, c)
  PROVE  Map' /\ channels_' \in [IoLoops -> [Fds -> Conns \cup {None}]]
<1>1. /\ channels_ \in [IoLoops -> [Fds -> Conns \cup {None}]] /\ Map
      /\ \A d \in Conns : conn[d].index # "New" => Anchored(pending, conn, connections_, d)
      /\ \A d \in Conns :
           Anchored(pending, conn, connections_, d) /\ conn[d].fd = conn[c].fd => d = c
      /\ conn'[c] = h /\ \A d \in Conns : d # c => conn'[d] = conn[d]
  BY DEF ServerInv, Typed, Core, Anchor, OwnFd
<1> DEFINE v == CASE h.index = "New" -> None
                  [] h.index # "New" /\ conn[c].index = "New" -> c
                  [] OTHER -> channels_[h.loop][h.fd]
<1>2. channels_' = [channels_ EXCEPT ![h.loop][h.fd] = v]
  BY DEF Became
<1>3. /\ v \in Conns \cup {None}
      /\ h.index = "New" => v = None
      /\ h.index # "New" => v = c
  BY <1>1 DEF Map
<1> HIDE DEF v
<1>4. channels_' \in [IoLoops -> [Fds -> Conns \cup {None}]]
  BY <1>1, <1>2, <1>3
<1>5. channels_'[h.loop][h.fd] = v
  BY <1>1, <1>2
<1>6. ASSUME NEW l \in IoLoops, NEW fd \in Fds, l # h.loop \/ fd # h.fd
      PROVE  channels_'[l][fd] = channels_[l][fd]
  BY <1>1, <1>2, <1>6
<1>7. ASSUME NEW l \in IoLoops, NEW fd \in Fds, NEW d \in Conns
      PROVE  channels_'[l][fd] = d
               <=> conn'[d].index # "New" /\ conn'[d].fd = fd /\ conn'[d].loop = l
  <2>1. d # None
    BY ServerAssumption
  <2>2. CASE l = h.loop /\ fd = h.fd
    <3>1. CASE d = c
      BY <1>1, <1>3, <1>5, <2>1, <2>2, <3>1
    <3>2. CASE d # c
      <4>1. v # d
        BY <1>3, <2>1, <3>2
      <4>2. ~(conn[d].index # "New" /\ conn[d].fd = fd)
        BY <1>1, <2>2, <3>2
      <4> QED BY <1>1, <1>5, <2>2, <3>2, <4>1, <4>2
    <3> QED BY <3>1, <3>2
  <2>3. CASE l # h.loop \/ fd # h.fd
    <3>1. channels_'[l][fd] = channels_[l][fd]
      BY <1>6, <2>3
    <3>2. channels_[l][fd] = d
            <=> conn[d].index # "New" /\ conn[d].fd = fd /\ conn[d].loop = l
      BY <1>1 DEF Map
    <3> QED BY <1>1, <2>3, <3>1, <3>2
  <2> QED BY <2>2, <2>3
<1> QED BY <1>4, <1>7 DEF Map

\* A callback on a live connection, with all that it leaves behind.
LEMMA BecameStep ==
  ASSUME ServerInv, NEW c \in Conns, NEW h, NEW m, Became(c, h), Taken(m),
         Callback(pending, m, c, conn[c], h), Anchored(pending, conn, connections_, c),
         conn[c].fd # None, connections_' = connections_
  PROVE  /\ Core(pending', conn', connections_') /\ conn' = [conn EXCEPT ![c] = h]
         /\ queue' \in Queues /\ batch' \in Queues
         /\ Map' /\ channels_' \in [IoLoops -> [Fds -> Conns \cup {None}]]
<1>1. Core(pending, conn, connections_) /\ queue \in Queues /\ batch \in Queues
  BY DEF ServerInv, Typed
<1>2. conn[c].loop \in Loops /\ conn[c].closes \in {0, 1, 2, 3} /\ conn[c] \in TcpConnection
  BY <1>1, CoreFields
<1>3. h.loop \in IoLoops /\ h.closes \in {0, 1, 2, 3}
  BY <1>1, CallbackFields
<1>4. h.loop = conn[c].loop /\ h.fd = conn[c].fd /\ h.closes >= conn[c].closes
  BY DEF Callback
<1>5. c \in Live
  BY <1>1, <1>2, AnchoredLive
<1>6. conn' = [conn EXCEPT ![c] = h]
  BY <1>5 DEF Became
<1>7. PICK E \in Queues : /\ Emitted(E, c, conn[c], h)
                          /\ \A l \in Loops : queue'[l] = queue[l] \o E[l]
                          /\ queue' = [l \in Loops |-> queue'[l]]
  <2>1. h.closes \in Nat /\ conn[c].closes \in Nat
    BY <1>2, <1>3
  <2> QED BY <1>1, <1>3, <1>4, <2>1, BecameEmits
<1>8. Steps(pending, pending', m, E) /\ queue' \in Queues /\ batch' \in Queues
  BY <1>1, <1>7, TakenSteps
<1>9. Core(pending', [conn EXCEPT ![c] = h], connections_)
  BY <1>1, <1>7, <1>8, CallbackCore
<1>10. conn[c].fd \in Fds
  BY <1>2 DEF TcpConnection
<1>11. Map' /\ channels_' \in [IoLoops -> [Fds -> Conns \cup {None}]]
  BY <1>3, <1>4, <1>6, <1>10, BecameMap
<1> QED BY <1>6, <1>8, <1>9, <1>11

-----------------------------------------------------------------------------
\* One event of an active channel.
LEMMA HandleActiveInv ==
  ASSUME ServerInv, NEW l \in Loops, NEW a \in active[l], NEW u \in UserActs, NEW w \in Writes,
         HandleActive(l, a, u, w)
  PROVE  ServerInv'
<1> DEFINE c == a.conn
           h == HandleEvent(conn[c], a.revents, u, w)
           m == [x \in Loops |-> 0]
<1>1. /\ Core(pending, conn, connections_) /\ Typed /\ Phases /\ Acts /\ SpentBorn
  BY DEF ServerInv
<1>2. c \in Conns /\ ActOK(a, l, conn[c])
  BY <1>1 DEF Typed, Acts
<1>3. Orderly(conn[c]) /\ conn[c].reg = TRUE /\ a.revents \subseteq Revents(conn[c])
  BY <1>1, <1>2 DEF ActOK, Core
<1>4. conn[c].index = "Added" /\ conn[c].index # "New" /\ conn[c].fd # None
  BY <1>1, <1>2, <1>3, CoreFields DEF Orderly
<1>5. Orderly(h) /\ Kin(conn[c], h) /\ h.index # "New" /\ h.closes >= conn[c].closes
  BY <1>3, EventOrderly
<1>6. Anchored(pending, conn, connections_, c)
  BY <1>1, <1>2, <1>4 DEF Core, Anchor
<1>7. Became(c, h) /\ connections_' = connections_ /\ Taken(m)
  BY DEF HandleActive, Taken
<1> HIDE DEF c, h
<1>8. Callback(pending, m, c, conn[c], h)
  <2>1. \A x \in Loops : m[x] # 1
    OBVIOUS
  <2> HIDE DEF m
  <2> QED BY <1>4, <1>5, <2>1 DEF Callback, Pops, Kin
<1> HIDE DEF m
<1>9. /\ Core(pending', conn', connections_') /\ conn' = [conn EXCEPT ![c] = h]
      /\ queue' \in Queues /\ batch' \in Queues
      /\ Map' /\ channels_' \in [IoLoops -> [Fds -> Conns \cup {None}]]
  BY <1>2, <1>4, <1>6, <1>7, <1>8, BecameStep
<1>10. /\ \A d \in Conns : conn'[d].fd = conn[d].fd
       /\ \A d \in Conns : d # c => conn'[d] = conn[d]
  BY <1>1, <1>5, <1>9 DEF Core, Kin
<1>11. /\ UNCHANGED <<next_, batch, spent, phase, held>>
       /\ active' = [active EXCEPT ![l] = @ \ {a}]
       /\ phase[l] = "handle"
  BY DEF HandleActive, LoopAt
<1>12. /\ \A x \in Loops : active'[x] \subseteq active[x]
       /\ active' \in [Loops -> SUBSET [conn: Conns, revents: SUBSET {"IN", "OUT", "HUP", "ERR"}]]
       /\ a \notin active'[l]
  BY <1>1, <1>11 DEF Typed
<1>13. Typed'
  BY <1>1, <1>9, <1>11, <1>12 DEF Typed
<1>14. SpentBorn'
  <2>1. \A x \in Loops : \A i \in 1..Len(spent[x]) : spent[x][i].conn \in Conns
    BY <1>1, Members DEF Typed
  <2> QED BY <1>1, <1>10, <1>11, <2>1 DEF SpentBorn
<1>15. Phases'
  <2>1. Main \in Loops
    BY DEF Loops
  <2> QED BY <1>1, <1>11, <1>12, <2>1 DEF Phases
<1>16. Acts'
  <2> SUFFICES ASSUME NEW x \in Loops, NEW b \in active'[x]
               PROVE  /\ ActOK(b, x, conn'[b.conn])
                      /\ \A e \in active'[x] : e.conn = b.conn => e = b
    BY DEF Acts
  <2>1. b \in active[x] /\ b.conn \in Conns /\ ActOK(b, x, conn[b.conn])
    BY <1>1, <1>12 DEF Acts, Typed
  <2>2. b.conn # c
    <3> SUFFICES ASSUME b.conn = c PROVE FALSE
      OBVIOUS
    <3>1. x = l
      BY <1>2, <2>1 DEF ActOK
    <3>2. b = a
      BY <1>1, <2>1, <3>1 DEF Acts, c
    <3> QED BY <1>12, <3>1, <3>2
  <2> QED BY <1>1, <1>10, <1>12, <2>1, <2>2 DEF Acts
<1> QED BY <1>9, <1>13, <1>14, <1>15, <1>16 DEF ServerInv

-----------------------------------------------------------------------------
\* The functor that a loop runs.
LEMMA HeadPlace ==
  ASSUME queue \in Queues, batch \in Queues, Places(pending, conn),
         NEW l \in Loops, batch[l] # <<>>
  PROVE  /\ Head(batch[l]) = pending[l][1] /\ 1 \in 1..Len(pending[l])
         /\ Head(batch[l]) \in Functors /\ Head(batch[l]).conn \in Conns
         /\ PlaceOK(Head(batch[l]), l, conn[Head(batch[l]).conn])
<1>1. batch[l] \in Seq(Functors)
  BY DEF Queues
<1>2. Len(batch[l]) \in Nat \ {0} /\ Head(batch[l]) = batch[l][1]
  BY <1>1, EmptySeq
<1>3. /\ Len(queue[l]) \in Nat /\ Len(pending[l]) = Len(batch[l]) + Len(queue[l])
      /\ \A i \in 1..Len(batch[l]) : pending[l][i] = batch[l][i]
  BY PendingIs
<1>4. 1 \in 1..Len(batch[l]) /\ 1 \in 1..Len(pending[l])
  <2>1. \A n \in Nat \ {0}, k \in Nat : 1 \in 1..n /\ 1 \in 1..(n + k)
    OBVIOUS
  <2> QED BY <1>2, <1>3, <2>1
<1>5. pending[l][1] = batch[l][1]
  BY <1>3, <1>4
<1> QED BY <1>1, <1>2, <1>4, <1>5, Members DEF Places

\* The same from ServerInv.
LEMMA FirstFunctor ==
  ASSUME ServerInv, NEW l \in Loops, batch[l] # <<>>
  PROVE  /\ Head(batch[l]) = pending[l][1] /\ 1 \in 1..Len(pending[l])
         /\ Head(batch[l]) \in Functors /\ Head(batch[l]).conn \in Conns
         /\ PlaceOK(Head(batch[l]), l, conn[Head(batch[l]).conn])
<1>1. Core(pending, conn, connections_) /\ queue \in Queues /\ batch \in Queues
  BY DEF ServerInv, Typed
<1> QED BY <1>1, HeadPlace DEF Core

\* Nothing else changes when a functor runs: no channel of its loop is active.
LEMMA FunctorRest ==
  ASSUME ServerInv, NEW l \in Loops, phase[l] = "run", batch[l] # <<>>,
         batch' = [batch EXCEPT ![l] = Tail(@)],
         spent' = [spent EXCEPT ![l] = Append(@, Head(batch[l]))],
         UNCHANGED <<active, phase, held>>,
         Core(pending', conn', connections_'), queue' \in Queues, batch' \in Queues,
         Map', channels_' \in [IoLoops -> [Fds -> Conns \cup {None}]],
         next_' = next_,
         \A d \in Conns : conn'[d].fd = conn[d].fd,
         \A d \in Conns : conn'[d] # conn[d] => conn[d].loop = l
  PROVE  ServerInv'
<1> DEFINE f == Head(batch[l])
<1>1. Typed /\ SpentBorn /\ Phases /\ Acts
  BY DEF ServerInv
<1>2. f \in Functors /\ f.conn \in Conns /\ conn[f.conn].fd # None
  BY FirstFunctor DEF PlaceOK
<1> HIDE DEF f
<1>3. /\ \A x \in Loops : spent[x] \in Seq(Functors)
      /\ spent = [x \in Loops |-> spent[x]]
  BY <1>1 DEF Typed, Queues
<1>4. /\ Append(spent[l], f) \in Seq(Functors)
      /\ Len(spent[l]) \in Nat /\ Len(Append(spent[l], f)) = Len(spent[l]) + 1
      /\ \A i \in 1..Len(spent[l]) : Append(spent[l], f)[i] = spent[l][i]
      /\ Append(spent[l], f)[Len(spent[l]) + 1] = f
  BY <1>2, <1>3, AppendProperties, LenProperties
<1>5. /\ spent' = [x \in Loops |-> IF x = l THEN Append(spent[l], f) ELSE spent[x]]
      /\ \A x \in Loops : spent'[x] = IF x = l THEN Append(spent[l], f) ELSE spent[x]
  BY <1>3 DEF f
<1>6. spent' \in Queues
  BY <1>3, <1>4, <1>5 DEF Queues
<1>7. Typed'
  BY <1>1, <1>6 DEF Typed
<1>8. SpentBorn'
  <2> SUFFICES ASSUME NEW x \in Loops, NEW i \in 1..Len(spent'[x])
               PROVE  conn'[spent'[x][i].conn].fd # None
    BY DEF SpentBorn
  <2>1. ASSUME NEW y \in Loops, NEW j \in 1..Len(spent[y])
        PROVE  spent[y][j].conn \in Conns /\ conn[spent[y][j].conn].fd # None
    BY <1>1, Members DEF Typed, SpentBorn
  <2>2. CASE x # l
    <3>1. spent'[x] = spent[x]
      BY <1>5, <2>2
    <3> QED BY <2>1, <3>1
  <2>3. CASE x = l
    <3>1. spent'[x] = Append(spent[l], f) /\ i \in 1..(Len(spent[l]) + 1)
      BY <1>4, <1>5, <2>3
    <3>2. CASE i \in 1..Len(spent[l])
      <4>1. spent'[x][i] = spent[l][i]
        BY <1>4, <3>1, <3>2
      <4> QED BY <2>1, <3>2, <4>1
    <3>3. CASE i = Len(spent[l]) + 1
      <4>1. spent'[x][i] = f
        BY <1>4, <3>1, <3>3
      <4> QED BY <1>2, <4>1
    <3> QED BY <1>4, <3>1, <3>2, <3>3
  <2> QED BY <2>2, <2>3
<1>9. Phases'
  <2>1. \A x \in Loops : phase[x] # "run" => batch'[x] = <<>>
    BY <1>1 DEF Phases, Typed, Queues
  <2> QED BY <1>1, <2>1 DEF Phases
<1>10. Acts'
  <2>1. ASSUME NEW x \in Loops, NEW b \in active[x]
        PROVE  conn'[b.conn] = conn[b.conn]
    <3>1. x # l
      <4>1. active[l] = {}
        BY <1>1 DEF Phases
      <4> QED BY <4>1
    <3>2. b.conn \in Conns /\ conn[b.conn].loop = x
      BY <1>1 DEF Typed, Acts, ActOK
    <3> QED BY <3>1, <3>2
  <2> QED BY <1>1, <2>1 DEF Acts
<1> QED BY <1>7, <1>8, <1>9, <1>10 DEF ServerInv

-----------------------------------------------------------------------------
\* connectEstablished, connectDestroyed and shutdownInLoop.
LEMMA CallbackFunctorInv ==
  ASSUME ServerInv, NEW l \in Loops, NEW u \in UserActs, NEW w \in Writes,
         RunFunctor(l, u, w), Head(batch[l]).op # "removeConnectionInLoop"
  PROVE  ServerInv'
<1> DEFINE f == Head(batch[l])
           c == f.conn
           m == [x \in Loops |-> IF x = l THEN 1 ELSE 0]
<1>1. /\ Core(pending, conn, connections_) /\ Typed
  BY DEF ServerInv
<1>2. /\ phase[l] = "run" /\ batch[l] # <<>>
      /\ batch' = [batch EXCEPT ![l] = Tail(@)]
      /\ spent' = [spent EXCEPT ![l] = Append(@, Head(batch[l]))]
      /\ UNCHANGED <<active, phase, held>>
      /\ connections_' = connections_ /\ next_' = next_
  BY DEF RunFunctor, LoopAt
<1>3. /\ f = pending[l][1] /\ 1 \in 1..Len(pending[l]) /\ c \in Conns
      /\ PlaceOK(f, l, conn[c])
  BY <1>2, FirstFunctor
<1>4. Taken(m)
  BY <1>2 DEF Taken
<1>5. /\ \A x \in Loops : m[x] = 1 => x = l
      /\ m[l] = 1
  OBVIOUS
<1> HIDE DEF f, c, m
<1>6. conn[c].fd # None /\ conn[c].loop = l /\ Orderly(conn[c]) /\ conn[c].closes \in {0, 1, 2, 3}
  BY <1>1, <1>3, CoreFields DEF PlaceOK, f
<1>7. \A op : Pops(pending, m, op, c) <=> f.op = op
  BY <1>3, <1>5 DEF Pops, c
<1>8. \A x \in Loops : m[x] = 1 => /\ pending[x][1].conn = c
                                   /\ pending[x][1].op # "removeConnectionInLoop"
  BY <1>3, <1>5 DEF f, c
<1>9. ASSUME NEW h, Became(c, h), Callback(pending, m, c, conn[c], h),
             Anchored(pending, conn, connections_, c)
      PROVE  ServerInv'
  <2>1. /\ Core(pending', conn', connections_') /\ conn' = [conn EXCEPT ![c] = h]
        /\ queue' \in Queues /\ batch' \in Queues
        /\ Map' /\ channels_' \in [IoLoops -> [Fds -> Conns \cup {None}]]
    BY <1>2, <1>3, <1>4, <1>6, <1>9, BecameStep
  <2>2. h.fd = conn[c].fd
    BY <1>9 DEF Callback
  <2>3. /\ \A d \in Conns : conn'[d].fd = conn[d].fd
        /\ \A d \in Conns : conn'[d] # conn[d] => conn[d].loop = l
    BY <1>1, <1>6, <2>1, <2>2 DEF Core
  <2> QED BY <1>2, <2>1, <2>3, FunctorRest
<1>10. CASE f.op = "connectEstablished" /\ Became(c, ConnectEstablished(conn[c], u, w))
  <2> DEFINE h == ConnectEstablished(conn[c], u, w)
  <2>1. conn[c].ups = 0 /\ conn[c].closes = 0
    BY <1>1, <1>3, <1>10, CoreFields DEF PlaceOK
  <2>2. IsUp(h) /\ h.loop = conn[c].loop /\ h.fd = conn[c].fd
    BY <1>6, <2>1, EstablishOrderly
  <2> HIDE DEF h
  <2>3. Callback(pending, m, c, conn[c], h)
    BY <1>7, <1>8, <1>10, <2>1, <2>2 DEF Callback, IsUp
  <2>4. Anchored(pending, conn, connections_, c)
    BY <1>1, <1>3, <1>6, <2>1 DEF Core, InMap, Anchored
  <2> QED BY <1>9, <1>10, <2>3, <2>4 DEF h
<1>11. CASE f.op = "connectDestroyed" /\ Became(c, ConnectDestroyed(conn[c]))
  <2> DEFINE h == ConnectDestroyed(conn[c])
  <2>1. conn[c].closes > 0
    BY <1>3, <1>11 DEF PlaceOK
  <2>2. Orderly(h) /\ Kin(conn[c], h) /\ h.closes = conn[c].closes /\ h.index = "New"
    BY <1>6, <2>1, DestroyOrderly
  <2> HIDE DEF h
  <2>3. Callback(pending, m, c, conn[c], h)
    BY <1>6, <1>7, <1>8, <2>2 DEF Callback, Kin
  <2>4. Anchored(pending, conn, connections_, c)
    <3>1. Has(pending[l], "connectDestroyed", c, 0)
      <4>1. 1 > 0
        OBVIOUS
      <4> QED BY <1>3, <1>11, <4>1 DEF Has, c
    <3> QED BY <1>6, <3>1 DEF Anchored
  <2> QED BY <1>9, <1>11, <2>3, <2>4 DEF h
<1>12. CASE f.op = "shutdownInLoop" /\ Became(c, ShutdownInLoop(conn[c]))
  <2> DEFINE h == ShutdownInLoop(conn[c])
  <2>1. Orderly(h) /\ Same(conn[c], h) /\ h.state = conn[c].state
    BY <1>6, ShutdownOrderly
  <2> HIDE DEF h
  <2>2. Callback(pending, m, c, conn[c], h)
    BY <1>6, <1>7, <1>8, <1>12, <2>1 DEF Callback, Same, Kin
  <2>3. Anchored(pending, conn, connections_, c)
    <3>1. \/ c \in connections_
          \/ Has(pending[Main], "removeConnectionInLoop", c, 0)
          \/ Has(pending[l], "connectDestroyed", c, 1)
      BY <1>1, <1>3, <1>12 DEF Core, Order, Owns, c
    <3>2. Has(pending[l], "connectDestroyed", c, 1) => Has(pending[l], "connectDestroyed", c, 0)
      <4>1. \A i : i \in 1..Len(pending[l]) /\ i > 1 => i > 0
        OBVIOUS
      <4> QED BY <4>1 DEF Has
    <3> QED BY <1>6, <3>1, <3>2 DEF Anchored
  <2> QED BY <1>9, <1>12, <2>2, <2>3 DEF h
<1> QED BY <1>10, <1>11, <1>12 DEF RunFunctor, f, c

\* removeConnectionInLoop, on the main loop.
LEMMA RemoveFunctorInv ==
  ASSUME ServerInv, NEW l \in Loops, NEW u \in UserActs, NEW w \in Writes,
         RunFunctor(l, u, w), Head(batch[l]).op = "removeConnectionInLoop"
  PROVE  ServerInv'
<1> DEFINE f == Head(batch[l])
           c == f.conn
           g == Functor("connectDestroyed", c)
           m == [x \in Loops |-> IF x = l THEN 1 ELSE 0]
           E == [x \in Loops |-> IF x = conn[c].loop THEN <<g>> ELSE <<>>]
<1>1. /\ Core(pending, conn, connections_) /\ Typed /\ Map
      /\ queue \in Queues /\ batch \in Queues
  BY DEF ServerInv, Typed
<1>2. /\ phase[l] = "run" /\ batch[l] # <<>>
      /\ batch' = [batch EXCEPT ![l] = Tail(@)]
      /\ spent' = [spent EXCEPT ![l] = Append(@, Head(batch[l]))]
      /\ UNCHANGED <<active, phase, held>>
      /\ RemoveConnectionInLoop(c)
  BY DEF RunFunctor, LoopAt
<1>3. /\ f = pending[l][1] /\ 1 \in 1..Len(pending[l]) /\ c \in Conns
      /\ PlaceOK(f, l, conn[c])
  BY <1>2, FirstFunctor
<1>4. Taken(m)
  BY <1>2 DEF Taken
<1>5. /\ \A x \in Loops : x # l => m[x] = 0
      /\ m[l] = 1
  OBVIOUS
<1>6. g \in Functors /\ g.op = "connectDestroyed" /\ g.conn = c
  BY <1>3 DEF Functors, Functor
<1>7. \A x \in Loops : E[x] = IF x = conn[c].loop THEN <<g>> ELSE <<>>
  OBVIOUS
<1>8. E \in Queues
  <2>1. <<g>> \in Seq(Functors) /\ <<>> \in Seq(Functors)
    BY <1>6, EmptySeq
  <2> QED BY <2>1 DEF Queues
<1>9. /\ connections_' = connections_ \ {c}
      /\ queue' = [queue EXCEPT ![conn[c].loop] = Append(@, g)]
      /\ UNCHANGED <<conn, next_, channels_>>
  BY <1>2 DEF RemoveConnectionInLoop
<1>10. l = Main /\ conn[c].loop \in Loops
  BY <1>1, <1>3, CoreFields DEF PlaceOK
<1> HIDE DEF f, c, m, E, g
<1>11. queue = [y \in Loops |-> queue[y]] /\ \A x \in Loops : queue[x] \in Seq(Functors)
  BY <1>1 DEF Queues
<1>12. queue' = [x \in Loops |-> queue'[x]]
  BY <1>9, <1>11
<1>13. ASSUME NEW x \in Loops
       PROVE  queue'[x] = queue[x] \o E[x]
  <2>1. Append(queue[x], g) = queue[x] \o <<g>> /\ queue[x] \o <<>> = queue[x]
    BY <1>6, <1>11, AppendIsConcat, ConcatEmptySeq
  <2>2. queue'[x] = IF x = conn[c].loop THEN Append(queue[x], g) ELSE queue[x]
    BY <1>9, <1>11
  <2> QED BY <1>7, <2>1, <2>2
<1>14. Steps(pending, pending', m, E) /\ queue' \in Queues /\ batch' \in Queues
  BY <1>1, <1>4, <1>8, <1>12, <1>13, TakenSteps
<1>15. Removed(pending, conn, m, E, c)
  <2>1. Has(<<g>>, "connectDestroyed", c, 0)
    <3>1. 1 \in 1..Len(<<g>>) /\ 1 > 0 /\ <<g>>[1] = g
      OBVIOUS
    <3> QED BY <1>6, <3>1 DEF Has
  <2>2. \A i \in 1..Len(<<g>>) : <<g>>[i] = g
    OBVIOUS
  <2>3. 1..Len(<<>>) = {}
    OBVIOUS
  <2>4. \A x \in Loops : \A i \in 1..Len(E[x]) : E[x][i] = g /\ x = conn[c].loop
    BY <1>7, <2>2, <2>3
  <2>5. E[conn[c].loop] = <<g>>
    BY <1>7, <1>10
  <2>6. pending[Main][1].conn = c /\ pending[Main][1].op = "removeConnectionInLoop"
    BY <1>3, <1>10 DEF c, f
  <2> QED BY <1>5, <1>6, <1>10, <2>1, <2>4, <2>5, <2>6 DEF Removed
<1>16. Core(pending', conn', connections_')
  BY <1>1, <1>3, <1>9, <1>14, <1>15, RemoveCore
<1>17. Map' /\ channels_' \in [IoLoops -> [Fds -> Conns \cup {None}]]
  BY <1>1, <1>9 DEF Map, Typed
<1> QED BY <1>2, <1>9, <1>14, <1>16, <1>17, FunctorRest

-----------------------------------------------------------------------------
\* Steps that leave the functors, the connections and the map as they are.
LEMMA PollInv ==
  ASSUME ServerInv, NEW l \in Loops, Poll(l)
  PROVE  ServerInv'
<1>1. /\ UNCHANGED <<conn, connections_, next_, channels_, queue, batch, spent, held>>
      /\ active' = [active EXCEPT
                      ![l] = {[conn |-> c, revents |-> Revents(conn[c])] : c \in Ready(l)}]
      /\ phase' = [phase EXCEPT ![l] = "handle"] /\ phase[l] = "poll"
  BY DEF Poll, LoopAt
<1>2. Core(pending, conn, connections_) /\ Typed /\ SpentBorn /\ Phases /\ Map /\ Acts
  BY DEF ServerInv
<1>3. Core(pending', conn', connections_')
  BY <1>1, <1>2 DEF pending
<1>4. ASSUME NEW c \in Ready(l)
      PROVE  /\ c \in Conns /\ conn[c].loop = l /\ conn[c].reg = TRUE /\ l # Main
             /\ Revents(conn[c]) \in SUBSET {"IN", "OUT", "HUP", "ERR"}
  <2>1. c \in Live /\ conn[c].loop = l /\ conn[c].reg
    BY DEF Ready
  <2>2. c \in Conns /\ conn[c].fd # None
    BY <2>1, LiveBorn
  <2>3. conn[c].reg \in BOOLEAN
    BY <1>2, <2>2, CoreFields DEF TcpConnection
  <2>4. l # Main
    BY <1>2, <2>1, <2>2, CoreFields
  <2>5. Revents(conn[c]) \in SUBSET {"IN", "OUT", "HUP", "ERR"}
    BY DEF Revents
  <2> QED BY <2>1, <2>2, <2>3, <2>4, <2>5
<1> DEFINE A == {[conn |-> c, revents |-> Revents(conn[c])] : c \in Ready(l)}
<1>5. \A a \in A : /\ a \in [conn: Conns, revents: SUBSET {"IN", "OUT", "HUP", "ERR"}]
                   /\ ActOK(a, l, conn[a.conn])
                   /\ a = [conn |-> a.conn, revents |-> Revents(conn[a.conn])]
                   /\ l # Main
  <2> SUFFICES ASSUME NEW c \in Ready(l), NEW a, a = [conn |-> c, revents |-> Revents(conn[c])]
               PROVE  /\ a \in [conn: Conns, revents: SUBSET {"IN", "OUT", "HUP", "ERR"}]
                      /\ ActOK(a, l, conn[a.conn])
                      /\ a = [conn |-> a.conn, revents |-> Revents(conn[a.conn])]
                      /\ l # Main
    OBVIOUS
  <2>1. a.conn = c /\ a.revents = Revents(conn[c])
    OBVIOUS
  <2> QED BY <1>4, <2>1 DEF ActOK
<1> HIDE DEF A
<1>6. /\ active' \in [Loops -> SUBSET [conn: Conns, revents: SUBSET {"IN", "OUT", "HUP", "ERR"}]]
      /\ active'[l] = A /\ \A x \in Loops : x # l => active'[x] = active[x]
  BY <1>1, <1>2, <1>5 DEF Typed, A
<1>7. Typed'
  BY <1>1, <1>2, <1>6 DEF Typed
<1>8. SpentBorn' /\ Map'
  BY <1>1, <1>2 DEF SpentBorn, Map
<1>9. Phases'
  <2>1. active'[Main] = {}
    <3>1. CASE l = Main
      BY <1>5, <1>6, <3>1
    <3>2. CASE l # Main
      BY <1>2, <1>6, <3>2 DEF Phases, Loops
    <3> QED BY <3>1, <3>2
  <2> QED BY <1>1, <1>2, <1>6, <2>1 DEF Phases, Typed
<1>10. Acts'
  <2> SUFFICES ASSUME NEW x \in Loops, NEW b \in active'[x]
               PROVE  /\ ActOK(b, x, conn[b.conn])
                      /\ \A e \in active'[x] : e.conn = b.conn => e = b
    BY <1>1 DEF Acts
  <2>1. CASE x = l
    <3>1. \A e \in A : e.conn = b.conn => e = b
      BY <1>5, <1>6, <2>1
    <3> QED BY <1>5, <1>6, <2>1, <3>1
  <2>2. CASE x # l
    BY <1>2, <1>6, <2>2 DEF Acts
  <2> QED BY <2>1, <2>2
<1> QED BY <1>3, <1>7, <1>8, <1>9, <1>10 DEF ServerInv

\* The swap moves the queue to the empty batch; the batch ends.
LEMMA SwapInv ==
  ASSUME ServerInv, NEW l \in Loops, SwapFunctors(l) \/ EndPending(l)
  PROVE  ServerInv'
<1>1. /\ Core(pending, conn, connections_) /\ Typed /\ SpentBorn /\ Phases /\ Map /\ Acts
      /\ batch \in Queues /\ queue \in Queues /\ spent \in Queues
  BY DEF ServerInv, Typed
<1>2. <<>> \in Seq(Functors) /\ Len(<<>>) = 0
  BY EmptySeq
<1>3. CASE SwapFunctors(l)
  <2>1. /\ batch' = [batch EXCEPT ![l] = queue[l]] /\ queue' = [queue EXCEPT ![l] = <<>>]
        /\ phase' = [phase EXCEPT ![l] = "run"] /\ phase[l] = "handle" /\ active[l] = {}
        /\ UNCHANGED <<conn, connections_, next_, channels_, active, spent, held>>
    BY <1>3 DEF SwapFunctors, LoopAt
  <2>2. /\ batch' \in Queues /\ queue' \in Queues
        /\ batch'[l] = queue[l] /\ queue'[l] = <<>>
        /\ \A x \in Loops : x # l => batch'[x] = batch[x] /\ queue'[x] = queue[x]
    BY <1>1, <1>2, <2>1 DEF Queues
  <2>3. batch[l] = <<>> /\ queue[l] \in Seq(Functors)
    BY <1>1, <2>1 DEF Phases, Queues
  <2>4. queue[l] \o <<>> = queue[l] /\ <<>> \o queue[l] = queue[l]
    BY <2>3, ConcatEmptySeq
  <2>5. \A x \in Loops : batch'[x] \o queue'[x] = batch[x] \o queue[x]
    BY <2>2, <2>3, <2>4
  <2>6. pending' = pending
    BY <2>5 DEF pending
  <2>7. Core(pending', conn', connections_')
    BY <1>1, <2>1, <2>6
  <2>8. Typed'
    BY <1>1, <2>1, <2>2 DEF Typed
  <2>9. SpentBorn' /\ Map' /\ Acts'
    BY <1>1, <2>1 DEF SpentBorn, Map, Acts
  <2>10. Phases'
    BY <1>1, <2>1, <2>2 DEF Phases, Typed
  <2> QED BY <2>7, <2>8, <2>9, <2>10 DEF ServerInv
<1>4. CASE EndPending(l)
  <2>1. /\ spent' = [spent EXCEPT ![l] = <<>>]
        /\ phase' = [phase EXCEPT ![l] = "poll"] /\ phase[l] = "run" /\ batch[l] = <<>>
        /\ UNCHANGED <<conn, connections_, next_, channels_, active, queue, batch, held>>
    BY <1>4 DEF EndPending, LoopAt
  <2>2. /\ spent' \in Queues /\ spent'[l] = <<>>
        /\ \A x \in Loops : x # l => spent'[x] = spent[x]
    BY <1>1, <1>2, <2>1 DEF Queues
  <2>3. Core(pending', conn', connections_')
    BY <1>1, <2>1 DEF pending
  <2>4. Typed'
    BY <1>1, <2>1, <2>2 DEF Typed
  <2>5. SpentBorn'
    <3> SUFFICES ASSUME NEW x \in Loops, NEW i \in 1..Len(spent'[x])
                 PROVE  conn[spent'[x][i].conn].fd # None
      BY <2>1 DEF SpentBorn
    <3>1. x # l
      BY <1>2, <2>2
    <3> QED BY <1>1, <2>2, <3>1 DEF SpentBorn
  <2>6. Map' /\ Acts'
    BY <1>1, <2>1 DEF Map, Acts
  <2>7. Phases'
    BY <1>1, <2>1 DEF Phases, Typed
  <2> QED BY <2>3, <2>4, <2>5, <2>6, <2>7 DEF ServerInv
<1> QED BY <1>3, <1>4

\* The peer.
LEMMA PeerInv ==
  ASSUME ServerInv, NEW c \in Conns, PeerSends(c) \/ PeerCloses(c) \/ PeerResets(c)
  PROVE  ServerInv'
<1>1. PICK h \in PeerOf(conn[c]) :
        /\ c \in Live /\ ~conn[c].reset /\ conn' = [conn EXCEPT ![c] = h]
        /\ UNCHANGED <<connections_, next_, channels_, queue, active, batch, spent, phase, held>>
  BY DEF PeerSends, PeerCloses, PeerResets, Peer, PeerOf, loopVars
<1>2. /\ Core(pending, conn, connections_) /\ Typed /\ SpentBorn /\ Phases /\ Map /\ Acts
      /\ batch \in Queues /\ queue \in Queues /\ conn[c].fd # None
  BY <1>1, LiveBorn DEF ServerInv, Typed
<1>3. /\ Orderly(h) /\ Kin(conn[c], h) /\ h.closes = conn[c].closes /\ h.index = conn[c].index
      /\ h.state = conn[c].state /\ h.reg = conn[c].reg /\ Revents(conn[c]) \subseteq Revents(h)
  BY <1>1, <1>2, PeerOrderly DEF Core
<1> DEFINE m == [l \in Loops |-> 0]
           E == [l \in Loops |-> <<>>]
<1>4. /\ \A l \in Loops : m[l] # 1 /\ E[l] = <<>>
      /\ Taken(m)
  BY <1>1 DEF Taken
<1>5. <<>> \in Seq(Functors) /\ 1..Len(<<>>) = {}
  BY EmptySeq
<1>6. E \in Queues
  BY <1>5 DEF Queues
<1> HIDE DEF m, E
<1>7. Steps(pending, pending', m, E)
  <2>1. queue = [y \in Loops |-> queue[y]] /\ \A l \in Loops : queue[l] \in Seq(Functors)
    BY <1>2 DEF Queues
  <2>2. \A l \in Loops : queue[l] \o E[l] = queue[l]
    BY <1>4, <2>1, ConcatEmptySeq
  <2>3. queue' = [l \in Loops |-> queue'[l]] /\ \A l \in Loops : queue'[l] = queue[l] \o E[l]
    BY <1>1, <2>1, <2>2
  <2> QED BY <1>2, <1>4, <1>6, <2>3, TakenSteps
<1>8. Callback(pending, m, c, conn[c], h)
  <2>1. conn[c].closes \in {0, 1, 2, 3}
    BY <1>2, CoreFields
  <2> QED BY <1>3, <1>4, <2>1 DEF Callback, Pops, Kin
<1>9. Emitted(E, c, conn[c], h)
  BY <1>4, <1>5 DEF Emitted
<1>10. Core(pending', conn', connections_')
  <2>1. Core(pending', [conn EXCEPT ![c] = h], connections_)
    BY <1>2, <1>7, <1>8, <1>9, CallbackCore
  <2> QED BY <1>1, <2>1
<1>11. /\ conn'[c] = h /\ \A d \in Conns : d # c => conn'[d] = conn[d]
       /\ \A d \in Conns : /\ conn'[d].fd = conn[d].fd /\ conn'[d].index = conn[d].index
                           /\ conn'[d].loop = conn[d].loop
  BY <1>1, <1>2, <1>3 DEF Core, Kin
<1>12. Typed' /\ Phases' /\ Map'
  BY <1>1, <1>2, <1>11 DEF Typed, Phases, Map
<1>13. SpentBorn'
  <2>1. \A x \in Loops : \A i \in 1..Len(spent[x]) : spent[x][i].conn \in Conns
    BY <1>2, Members DEF Typed
  <2> QED BY <1>1, <1>2, <1>11, <2>1 DEF SpentBorn
<1>14. Acts'
  <2>1. ASSUME NEW x \in Loops, NEW b \in active[x]
        PROVE  ActOK(b, x, conn'[b.conn])
    <3>1. b.conn \in Conns /\ ActOK(b, x, conn[b.conn])
      BY <1>2 DEF Typed, Acts
    <3>2. CASE b.conn = c
      BY <1>3, <1>11, <3>1, <3>2 DEF ActOK, Kin
    <3>3. CASE b.conn # c
      BY <1>11, <3>1, <3>3
    <3> QED BY <3>2, <3>3
  <2> QED BY <1>1, <1>2, <2>1 DEF Acts
<1> QED BY <1>10, <1>12, <1>13, <1>14 DEF ServerInv

\* A new connection: its fd is nobody's, no functor is about it.
LEMMA AcceptInv ==
  ASSUME ServerInv, NEW c \in Conns, NEW fd \in Fds, Accept(c, fd)
  PROVE  ServerInv'
<1> DEFINE h == [Unborn EXCEPT !.loop = NextIoLoop, !.fd = fd]
           g == Functor("connectEstablished", c)
           m == [l \in Loops |-> 0]
           E == [l \in Loops |-> IF l = NextIoLoop THEN <<g>> ELSE <<>>]
<1>1. /\ conn[c].fd = None /\ fd \in FreeFds /\ phase[Main] = "poll"
      /\ conn' = [conn EXCEPT ![c] = h]
      /\ connections_' = connections_ \cup {c}
      /\ next_' = Rotated
      /\ queue' = [queue EXCEPT ![NextIoLoop] = Append(@, g)]
      /\ phase' = [phase EXCEPT ![Main] = "handle"]
      /\ UNCHANGED <<channels_, active, batch, spent, held>>
  BY DEF Accept, NewConnection, Born, LoopAt
<1>2. /\ Core(pending, conn, connections_) /\ Typed /\ SpentBorn /\ Phases /\ Map /\ Acts
      /\ batch \in Queues /\ queue \in Queues
  BY DEF ServerInv, Typed
<1>3. next_' \in 0..(NumThreads - 1) /\ NextIoLoop \in IoLoops /\ NextIoLoop \in Loops
  <2>1. next_ \in 0..(NumThreads - 1)
    BY <1>2 DEF Typed
  <2>2. NextIoLoop \in IoLoops
    BY <2>1, ServerAssumption DEF NextIoLoop, IoLoops
  <2>3. Rotated \in 0..(NumThreads - 1)
    BY <2>1, ServerAssumption DEF Rotated
  <2> QED BY <1>1, <2>2, <2>3 DEF Loops
<1>4. /\ Orderly(h) /\ h.loop = NextIoLoop /\ h.fd = fd /\ h.ups = 0 /\ h.closes = 0
      /\ h.index = "New"
  BY <1>3, NewOrderly
<1>5. g \in Functors /\ g.op = "connectEstablished" /\ g.conn = c
  BY DEF Functors, Functor
<1>6. /\ \A l \in Loops : m[l] = 0 /\ E[l] = IF l = NextIoLoop THEN <<g>> ELSE <<>>
      /\ Taken(m)
  BY <1>1 DEF Taken
<1>7. E \in Queues
  <2>1. <<g>> \in Seq(Functors) /\ <<>> \in Seq(Functors)
    BY <1>5, EmptySeq
  <2> QED BY <2>1 DEF Queues
<1> HIDE DEF h, g, m, E
<1>8. Steps(pending, pending', m, E) /\ queue' \in Queues
  <2>1. queue = [y \in Loops |-> queue[y]] /\ \A l \in Loops : queue[l] \in Seq(Functors)
    BY <1>2 DEF Queues
  <2>2. queue' = [l \in Loops |-> queue'[l]]
    BY <1>1, <2>1
  <2>3. ASSUME NEW x \in Loops
        PROVE  queue'[x] = queue[x] \o E[x]
    <3>1. Append(queue[x], g) = queue[x] \o <<g>> /\ queue[x] \o <<>> = queue[x]
      BY <1>5, <2>1, AppendIsConcat, ConcatEmptySeq
    <3>2. queue'[x] = IF x = NextIoLoop THEN Append(queue[x], g) ELSE queue[x]
      BY <1>1, <2>1
    <3> QED BY <1>6, <3>1, <3>2
  <2> QED BY <1>2, <1>6, <1>7, <2>2, <2>3, TakenSteps
<1>9. Accepted(pending, conn, connections_, m, E, c, h)
  <2>1. \A d \in Conns : Anchored(pending, conn, connections_, d) => conn[d].fd # fd
    <3>1. ASSUME NEW d \in Conns, Anchored(pending, conn, connections_, d)
          PROVE  d \in Live
      BY <1>2, <3>1, AnchoredLive, CoreFields
    <3> QED BY <1>1, <3>1 DEF FreeFds
  <2>2. fd # None
    BY ServerAssumption
  <2>3. \A i \in 1..Len(<<g>>) : <<g>>[i] = g
    OBVIOUS
  <2>4. 1..Len(<<>>) = {} /\ Len(<<g>>) = 1
    OBVIOUS
  <2>5. \A l \in Loops : \A i \in 1..Len(E[l]) : E[l][i] = g /\ l = h.loop /\ Len(E[l]) = 1
    BY <1>4, <1>6, <2>3, <2>4
  <2> QED BY <1>1, <1>4, <1>5, <1>6, <2>1, <2>2, <2>5 DEF Accepted
<1>10. Core(pending', conn', connections_')
  <2>1. Core(pending', [conn EXCEPT ![c] = h], connections_ \cup {c})
    BY <1>2, <1>8, <1>9, AcceptCore
  <2> QED BY <1>1, <2>1
<1>11. conn'[c] = h /\ \A d \in Conns : d # c => conn'[d] = conn[d]
  BY <1>1, <1>2 DEF Core
<1>12. conn[c].index = "New" /\ conn[c].reg # TRUE
  <2>1. Orderly(conn[c]) /\ conn[c].ups \in {0, 1}
    BY <1>2, CoreFields
  <2> QED BY <1>1, <2>1 DEF Orderly
<1>13. Typed'
  BY <1>1, <1>2, <1>3, <1>8 DEF Typed
<1>14. SpentBorn'
  <2>1. \A x \in Loops : \A i \in 1..Len(spent[x]) : spent[x][i].conn \in Conns
    BY <1>2, Members DEF Typed
  <2>2. h.fd # None
    BY <1>4, ServerAssumption
  <2> QED BY <1>1, <1>2, <1>11, <2>1, <2>2 DEF SpentBorn
<1>15. Phases'
  <2>1. \A l \in Loops : phase'[l] = IF l = Main THEN "handle" ELSE phase[l]
    BY <1>1, <1>2 DEF Typed
  <2> QED BY <1>1, <1>2, <2>1 DEF Phases
<1>16. Map'
  BY <1>1, <1>2, <1>4, <1>11, <1>12 DEF Map
<1>17. Acts'
  <2>1. ASSUME NEW x \in Loops, NEW b \in active[x]
        PROVE  conn'[b.conn] = conn[b.conn]
    <3>1. b.conn \in Conns /\ conn[b.conn].reg = TRUE
      BY <1>2 DEF Typed, Acts, ActOK
    <3> QED BY <1>11, <1>12, <3>1
  <2> QED BY <1>1, <1>2, <2>1 DEF Acts
<1> QED BY <1>10, <1>13, <1>14, <1>15, <1>16, <1>17 DEF ServerInv

-----------------------------------------------------------------------------
\* The invariant is inductive.
LEMMA ServerInvInductive == Safety => []ServerInv
<1>1. Init => ServerInv
  <2> SUFFICES ASSUME Init PROVE ServerInv
    OBVIOUS
  <2> USE DEF Init
  <2>1. <<>> \in Seq(Functors) /\ Len(<<>>) = 0 /\ 1..Len(<<>>) = {} /\ <<>> \o <<>> = <<>>
    BY EmptySeq, ConcatEmptySeq
  <2>2. queue \in Queues /\ batch \in Queues /\ spent \in Queues /\ pending \in Queues
    BY <2>1 DEF Queues, pending
  <2>3. \A l \in Loops : pending[l] = <<>>
    BY <2>1 DEF pending
  <2>4. /\ Unborn \in TcpConnection
        /\ Unborn.fd = None /\ Unborn.index = "New" /\ Unborn.reg = FALSE
        /\ Unborn.ups = 0 /\ Unborn.closes = 0
    <3>1. Main \in Loops /\ {} \in SUBSET {"R", "W"} /\ 0 \in 0..1 /\ 0 \in 0..3
      BY DEF Loops
    <3> QED BY <3>1 DEF Unborn, TcpConnection
  <2>5. Orderly(Unborn)
    BY <2>4 DEF Orderly, Unborn
  <2>6. conn \in [Conns -> TcpConnection] /\ \A c \in Conns : conn[c] = Unborn
    BY <2>4
  <2>7. Core(pending, conn, connections_)
    <3>1. Main \in Loops /\ \A c \in Conns : conn[c].loop \in Loops
      BY <2>6 DEF Loops, TcpConnection
    <3>2. Places(pending, conn) /\ Once(pending) /\ Order(pending, connections_)
      BY <2>1, <2>3 DEF Places, Once, Order
    <3>3. \A c \in Conns : ~Anchored(pending, conn, connections_, c)
      BY <2>1, <2>3, <3>1 DEF Anchored, Has
    <3> QED BY <2>2, <2>4, <2>5, <2>6, <3>2, <3>3 DEF Core, InMap, Anchor, OwnFd
  <2>8. Typed
    BY <2>2, ServerAssumption DEF Typed
  <2>9. SpentBorn /\ Acts /\ Phases
    BY <2>1 DEF SpentBorn, Acts, Phases, Loops
  <2>10. Map
    BY <2>4, <2>6, ServerAssumption DEF Map
  <2> QED BY <2>7, <2>8, <2>9, <2>10 DEF ServerInv
<1>2. ServerInv /\ [Next]_vars => ServerInv'
  <2> SUFFICES ASSUME ServerInv, [Next]_vars PROVE ServerInv'
    OBVIOUS
  <2>1. CASE UNCHANGED vars
    BY <2>1 DEF vars, ServerInv, pending, Typed, SpentBorn, Phases, Map, Acts
  <2>2. CASE \E c \in Conns : PeerSends(c) \/ PeerCloses(c) \/ PeerResets(c)
    BY <2>2, PeerInv
  <2>3. CASE \E c \in Conns, fd \in Fds : Accept(c, fd)
    BY <2>3, AcceptInv
  <2>4. ASSUME NEW l \in Loops, LoopStep(l)
        PROVE  ServerInv'
    <3>1. CASE Poll(l)
      BY <3>1, PollInv
    <3>2. CASE SwapFunctors(l) \/ EndPending(l)
      BY <3>2, SwapInv
    <3>3. ASSUME NEW u \in UserActs, NEW w \in Writes, RunFunctor(l, u, w)
          PROVE  ServerInv'
      BY <3>3, CallbackFunctorInv, RemoveFunctorInv
    <3>4. ASSUME NEW u \in UserActs, NEW w \in Writes, NEW a \in active[l],
                 HandleActive(l, a, u, w)
          PROVE  ServerInv'
      BY <3>4, HandleActiveInv
    <3> QED BY <2>4, <3>1, <3>2, <3>3, <3>4 DEF LoopStep
  <2> QED BY <2>1, <2>2, <2>3, <2>4 DEF Next
<1> QED BY <1>1, <1>2, PTL DEF Safety

(* Types: connections_ holds accepted connections, next_ is an index of     *)
(* loops_, the main loop has no connection's channel, and handleClose()     *)
(* runs at most three times for a connection (closes, downs \in 0..3).      *)
THEOREM TypeCorrect == Safety => []TypeOK
<1>1. ServerInv => TypeOK
  <2> SUFFICES ASSUME ServerInv PROVE TypeOK
    OBVIOUS
  <2>1. Core(pending, conn, connections_) /\ Typed /\ Phases
    BY DEF ServerInv
  <2>2. connections_ \subseteq Born
    BY <2>1 DEF Core, InMap, Born
  <2> QED BY <2>1, <2>2 DEF TypeOK, Core, Typed, Phases
<1> QED BY <1>1, ServerInvInductive, PTL

(* Nothing points to a destroyed connection: no active channel, no entry of *)
(* a poller's map, no functor, the raw this of shutdownInLoop included; and *)
(* its fd is out of the epoll (TcpServer::removeConnectionInLoop() and      *)
(* TcpConnection::connectDestroyed()).                                      *)
THEOREM NothingDangles == Safety => []NoDangling
<1>1. ServerInv => NoDangling
  <2> SUFFICES ASSUME ServerInv PROVE NoDangling
    OBVIOUS
  <2>1. /\ Core(pending, conn, connections_) /\ Typed /\ Map /\ Acts
        /\ queue \in Queues /\ batch \in Queues
    BY DEF ServerInv, Typed
  <2>2. ASSUME NEW c \in Conns, conn[c].index # "New"
        PROVE  c \in Live
    <3>1. Anchored(pending, conn, connections_, c) /\ conn[c].loop \in Loops
      BY <2>1, <2>2, CoreFields DEF Core, Anchor
    <3> QED BY <2>1, <3>1, AnchoredLive
  <2>3. \A l \in Loops : \A a \in active[l] : a.conn \in Live
    <3> SUFFICES ASSUME NEW l \in Loops, NEW a \in active[l] PROVE a.conn \in Live
      OBVIOUS
    <3>1. a.conn \in Conns /\ conn[a.conn].reg = TRUE
      BY <2>1 DEF Typed, Acts, ActOK
    <3>2. conn[a.conn].index # "New"
      BY <2>1, <3>1, CoreFields DEF Orderly
    <3> QED BY <2>2, <3>1, <3>2
  <2>4. ASSUME NEW l \in Loops, NEW f \in Range(queue[l]) \cup Range(batch[l])
        PROVE  f.conn \in Live
    <3>1. PICK i \in 1..Len(pending[l]) : pending[l][i] = f
      BY <2>1, PendingElements
    <3>2. CASE Owns(f)
      BY <2>1, <3>1, <3>2, OwnedLive
    <3>3. CASE ~Owns(f)
      <4>1. /\ f.conn \in Conns /\ l = conn[f.conn].loop
            /\ \/ f.conn \in connections_
               \/ Has(pending[Main], "removeConnectionInLoop", f.conn, 0)
               \/ Has(pending[l], "connectDestroyed", f.conn, i)
        BY <2>1, <3>1, <3>3, Members, SMTT(30) DEF Core, Order, Places, PlaceOK, Owns
      <4>2. \A j : j \in 1..Len(pending[l]) /\ j > i => j > 0
        BY SMTT(30)
      <4>3. Anchored(pending, conn, connections_, f.conn)
        BY <4>1, <4>2, Zenon DEF Anchored, Has
      <4> QED BY <2>1, <4>1, <4>3, AnchoredLive
    <3> QED BY <3>2, <3>3
  <2>5. ASSUME NEW l \in IoLoops, NEW fd \in Fds, channels_[l][fd] # None
        PROVE  /\ channels_[l][fd] \in Live /\ conn[channels_[l][fd]].fd = fd
               /\ conn[channels_[l][fd]].loop = l
    <3>1. channels_[l][fd] \in Conns
      BY <2>1, <2>5 DEF Typed
    <3> QED BY <2>1, <2>2, <3>1 DEF Map
  <2>6. ASSUME NEW c \in Born \ Live
        PROVE  ~conn[c].reg
    <3>1. c \in Conns /\ conn[c].index = "New"
      BY <2>2 DEF Born
    <3>2. Orderly(conn[c]) /\ conn[c].reg \in BOOLEAN
      BY <2>1, <3>1, CoreFields DEF TcpConnection
    <3> QED BY <3>1, <3>2 DEF Orderly
  <2> QED BY <2>3, <2>4, <2>5, <2>6 DEF NoDangling
<1> QED BY <1>1, ServerInvInductive, PTL

(* When the last shared_ptr to a connection goes, its user has been told    *)
(* that it is up and that it is down (connectEstablished(), handleClose()). *)
THEOREM DestroyedOnlyAfterDown == Safety => []DestroyedAfterDown
<1>1. ServerInv => DestroyedAfterDown
  <2> SUFFICES ASSUME ServerInv, NEW c \in Born \ Live
               PROVE  conn[c].ups = 1 /\ conn[c].downs >= 1
    BY DEF DestroyedAfterDown
  <2>1. Core(pending, conn, connections_) /\ c \in Conns /\ conn[c].fd # None
    BY DEF ServerInv, Born
  <2>2. c \notin connections_
    BY DEF Live
  <2>3. conn[c].closes # 0
    BY <2>1, <2>2 DEF Core, InMap
  <2>4. conn[c].closes \in {0, 1, 2, 3} /\ conn[c].ups \in {0, 1} /\ Orderly(conn[c])
    BY <2>1, CoreFields
  <2>5. conn[c].ups = 1 /\ conn[c].downs = conn[c].closes
    BY <2>3, <2>4 DEF Orderly
  <2> QED BY <2>3, <2>4, <2>5
<1> QED BY <1>1, ServerInvInductive, PTL

(* After handleClose() has told the user, no late event, functor or user    *)
(* call changes the state or the interest of the connection.                *)
THEOREM DownStaysDown == Safety => []DownIsFinal
<1>1. ServerInv => DownIsFinal
  <2> SUFFICES ASSUME ServerInv, NEW c \in Conns, conn[c].downs > 0
               PROVE  conn[c].state = "KDisconnected" /\ conn[c].events = {}
    BY DEF DownIsFinal
  <2>1. Orderly(conn[c])
    BY DEF ServerInv, Core
  <2> QED BY <2>1 DEF Orderly
<1> QED BY <1>1, ServerInvInductive, PTL
-----------------------------------------------------------------------------
(***************************************************************************)
(* Threads of the user.  A connection may now be gone while a raw this     *)
(* waits for it, and its state may leave KDisconnected.  What remains of   *)
(* ServerInv: functors wait on their loops and connectEstablished once,    *)
(* events and callers refer to established connections, and the epoll      *)
(* agrees with the poller about every connection that is alive.            *)
(***************************************************************************)
UsersTyped ==
  /\ next_ \in 0..(NumThreads - 1)
  /\ queue \in Queues /\ batch \in Queues /\ spent \in Queues
  /\ phase \in [Loops -> {"poll", "handle", "run"}]
  /\ active \in [Loops -> SUBSET [conn: Conns, revents: SUBSET {"IN", "OUT", "HUP", "ERR"}]]
  /\ user \in [Shared -> {"none", "holds", "send", "shutdown", "set", "released"}]

BatchOnlyRuns == \A l \in Loops : phase[l] # "run" => batch[l] = <<>>

EventsMet == \A l \in Loops : \A a \in active[l] : conn[a.conn].ups = 1

CallersMet == \A c \in Shared : user[c] # "none" => conn[c].ups = 1

LiveAgree == \A c \in Live : c \in Conns /\ Agrees(conn[c])

RunInv == /\ UsersTyped /\ Places(pending, conn) /\ Once(pending)
          /\ BatchOnlyRuns /\ EventsMet /\ CallersMet /\ LiveAgree

\* Once the process has ended only the records matter.
RecordsInv == /\ conn \in [Conns -> Shape]
              /\ \A c \in Conns : Sound(conn[c]) /\ conn[c].died # "abort"

UsersInv == RecordsInv /\ (ProcessRuns => RunInv)

-----------------------------------------------------------------------------
\* What a callback may do to the record of c, and a call of another thread.
Moved(P, m, k, c, h) ==
  /\ h.loop = k.loop /\ h.fd = k.fd /\ h.closes >= k.closes
  /\ h.ups = k.ups \/ (h.ups = 1 /\ Pops(P, m, "connectEstablished", c))

\* What it may queue.
Leaving(E, c, h) ==
  \A l \in Loops : \A i \in 1..Len(E[l]) :
    E[l][i].conn = c /\ E[l][i].op # "connectEstablished" /\ PlaceOK(E[l][i], l, h)

LEMMA MovedPlaces ==
  ASSUME NEW P, NEW Q, NEW m, NEW E, Steps(P, Q, m, E), NEW K, Places(P, K), Once(P),
         NEW c \in Conns, NEW h, K[c].closes \in Nat, h.closes \in Nat,
         Moved(P, m, K[c], c, h), Leaving(E, c, h),
         NEW K2, K2[c] = h, \A d \in Conns : d # c => K2[d] = K[d]
  PROVE  Places(Q, K2) /\ Once(Q)
<1>1. P \in Queues
  BY DEF Steps
<1>2. ASSUME NEW l \in Loops, NEW i \in 1..Len(P[l]), i > m[l]
      PROVE  PlaceOK(P[l][i], l, K2[P[l][i].conn])
  <2> DEFINE f == P[l][i]
  <2>1. f.conn \in Conns /\ PlaceOK(f, l, K[f.conn])
    BY <1>1, Members DEF Places
  <2>2. CASE f.conn # c
    BY <2>1, <2>2
  <2>3. CASE f.conn = c
    <3>1. h.ups = K[c].ups
      <4> SUFFICES ASSUME h.ups = 1, Pops(P, m, "connectEstablished", c), K[c].ups # 1
                   PROVE  FALSE
        BY DEF Moved
      <4>1. PICK x \in Loops : /\ m[x] = 1 /\ P[x][1].op = "connectEstablished"
                               /\ P[x][1].conn = c
        BY DEF Pops
      <4>2. 1 \in 1..Len(P[x])
        BY <4>1, PoppedFirst
      <4>3. PlaceOK(P[x][1], x, K[c])
        BY <4>1, <4>2 DEF Places
      <4>4. x = K[c].loop /\ K[c].ups = 0
        BY <4>1, <4>3 DEF PlaceOK
      <4>5. f.op = "connectEstablished" /\ l = x
        BY <2>1, <2>3, <4>4 DEF PlaceOK
      <4>6. i = 1
        BY <2>3, <4>1, <4>2, <4>5 DEF Once
      <4> QED BY <1>2, <4>1, <4>5, <4>6
    <3>2. K[c].closes > 0 => h.closes > 0
      BY DEF Moved
    <3> HIDE DEF f
    <3>3. PlaceOK(f, l, h)
      BY <2>1, <2>3, <3>1, <3>2 DEF PlaceOK, Moved
    <3> QED BY <2>3, <3>3 DEF f
  <2> QED BY <2>2, <2>3
<1>3. Places(E, K2)
  BY DEF Places, Leaving
<1>4. Places(Q, K2)
  BY <1>2, <1>3, PlacesKept
<1>5. Once(Q)
  <2>1. \A l \in Loops : \A i \in 1..Len(E[l]) : E[l][i].op # "connectEstablished"
    BY DEF Leaving
  <2> QED BY <1>4, <2>1, OnceKept
<1> QED BY <1>4, <1>5

\* The connections that a vector of functors keeps alive.
LEMMA HeldIs ==
  ASSUME NEW s \in Seq(Functors), NEW c
  PROVE  c \in Held(s) <=> \E i \in 1..Len(s) : Owns(s[i]) /\ s[i].conn = c
<1>1. DOMAIN s = 1..Len(s)
  BY LenProperties
<1>2. \A f : f \in Range(s) <=> \E i \in 1..Len(s) : s[i] = f
  BY <1>1 DEF Range
<1>3. c \in Held(s) <=> \E f \in Range(s) : Owns(f) /\ f.conn = c
  BY DEF Held
<1> QED BY <1>2, <1>3

\* The functor that a loop has run stays in its vector.
Spends ==
  \/ spent' = spent
  \/ \E l \in Loops : /\ batch[l] # <<>>
                      /\ spent' = [spent EXCEPT ![l] = Append(@, Head(batch[l]))]

\* Running and queueing functors brings no connection back to life.
LEMMA LiveStep ==
  ASSUME queue \in Queues, batch \in Queues, spent \in Queues, NEW E \in Queues,
         NEW m, Taken(m), Spends,
         \A l \in Loops : queue'[l] = queue[l] \o E[l],
         NEW X, connections_' \subseteq Live \cup X, held' \subseteq Live \cup X,
         \A l \in Loops : \A i \in 1..Len(E[l]) :
           Owns(E[l][i]) => E[l][i].conn \in Live \cup X
  PROVE  Live' \subseteq Live \cup X /\ spent' \in Queues
<1>1. \A l \in Loops : /\ queue[l] \in Seq(Functors) /\ batch[l] \in Seq(Functors)
                       /\ spent[l] \in Seq(Functors) /\ E[l] \in Seq(Functors)
  BY DEF Queues
<1>2. \A l \in Loops : Held(queue[l]) \cup Held(batch[l]) \cup Held(spent[l]) \subseteq Live
  BY DEF Live
<1>3. ASSUME NEW l \in Loops
      PROVE  Held(queue'[l]) \subseteq Live \cup X
  <2> DEFINE q == queue[l]
             e == E[l]
             r == q \o e
  <2>1. q \in Seq(Functors) /\ e \in Seq(Functors)
    BY <1>1
  <2>2. /\ \A d \in Held(q) : d \in Live
        /\ \A i \in 1..Len(e) : Owns(e[i]) => e[i].conn \in Live \cup X
    BY <1>2
  <2> HIDE DEF q, e
  <2>3. /\ r \in Seq(Functors) /\ Len(r) = Len(q) + Len(e)
        /\ Len(q) \in Nat /\ Len(e) \in Nat
        /\ \A i \in 1..Len(r) : r[i] = IF i <= Len(q) THEN q[i] ELSE e[i - Len(q)]
    BY <2>1, ConcatProperties, LenProperties
  <2> HIDE DEF r
  <2>4. ASSUME NEW i \in 1..Len(r), Owns(r[i])
        PROVE  r[i].conn \in Live \cup X
    <3>1. CASE i <= Len(q)
      <4>1. i \in 1..Len(q) /\ r[i] = q[i]
        BY <2>3, <3>1
      <4>2. q[i].conn \in Held(q)
        BY <2>1, <2>4, <4>1, HeldIs
      <4> QED BY <2>2, <4>1, <4>2
    <3>2. CASE i > Len(q)
      <4>1. i - Len(q) \in 1..Len(e) /\ r[i] = e[i - Len(q)]
        BY <2>3, <3>2
      <4> QED BY <2>2, <2>4, <4>1
    <3> QED BY <2>3, <3>1, <3>2
  <2>5. \A d \in Held(r) : d \in Live \cup X
    BY <2>3, <2>4, HeldIs
  <2>6. queue'[l] = r
    BY DEF r, q, e
  <2> QED BY <2>5, <2>6
<1>4. ASSUME NEW l \in Loops
      PROVE  Held(batch'[l]) \subseteq Live
  <2>1. batch'[l] = batch[l] \/ (batch[l] # <<>> /\ batch'[l] = Tail(batch[l]))
    BY DEF Taken, Queues
  <2>2. CASE batch'[l] = batch[l]
    BY <1>2, <2>2
  <2>3. CASE batch[l] # <<>> /\ batch'[l] = Tail(batch[l])
    <3> DEFINE b == batch[l]
               t == Tail(b)
    <3>1. b \in Seq(Functors) /\ b # <<>>
      BY <1>1, <2>3
    <3> HIDE DEF b
    <3>2. /\ t \in Seq(Functors) /\ Len(b) \in Nat /\ Len(t) = Len(b) - 1
          /\ \A i \in 1..Len(t) : t[i] = b[i + 1]
      BY <3>1, HeadTailProperties, LenProperties
    <3> HIDE DEF t
    <3>3. \A i \in 1..Len(t) : i + 1 \in 1..Len(b)
      BY <3>2
    <3>4. \A d \in Held(t) : d \in Held(b)
      <4> SUFFICES ASSUME NEW d \in Held(t) PROVE d \in Held(b)
        OBVIOUS
      <4>1. PICK i \in 1..Len(t) : Owns(t[i]) /\ t[i].conn = d
        BY <3>2, HeldIs
      <4> QED BY <3>1, <3>2, <3>3, <4>1, HeldIs
    <3> QED BY <1>2, <2>3, <3>4 DEF b, t
  <2> QED BY <2>1, <2>2, <2>3
<1>5. ASSUME NEW l \in Loops
      PROVE  Held(spent'[l]) \subseteq Live /\ spent'[l] \in Seq(Functors)
  <2>1. \/ spent'[l] = spent[l]
        \/ batch[l] # <<>> /\ spent'[l] = Append(spent[l], Head(batch[l]))
    BY DEF Spends, Queues
  <2>2. CASE spent'[l] = spent[l]
    BY <1>1, <1>2, <2>2
  <2>3. CASE batch[l] # <<>> /\ spent'[l] = Append(spent[l], Head(batch[l]))
    <3> DEFINE b == batch[l]
               s == spent[l]
               f == Head(b)
               t == Append(s, f)
    <3>1. b \in Seq(Functors) /\ b # <<>> /\ s \in Seq(Functors)
      BY <1>1, <2>3
    <3> HIDE DEF b, s
    <3>2. f \in Functors /\ f = b[1] /\ 1 \in 1..Len(b)
      <4>1. Len(b) \in Nat \ {0} /\ f = b[1]
        BY <3>1, EmptySeq
      <4>2. 1 \in 1..Len(b)
        BY <4>1
      <4>3. b[1] \in Functors
        BY <3>1, <4>2, ElementOfSeq
      <4> QED BY <4>1, <4>2, <4>3
    <3>3. Owns(f) => f.conn \in Held(b)
      BY <3>1, <3>2, HeldIs
    <3> HIDE DEF f
    <3>4. /\ t \in Seq(Functors) /\ Len(s) \in Nat /\ Len(t) = Len(s) + 1
          /\ \A i \in 1..Len(s) : t[i] = s[i]
          /\ t[Len(s) + 1] = f
      BY <3>1, <3>2, AppendProperties, LenProperties
    <3> HIDE DEF t
    <3>5. \A i \in 1..Len(t) : i \in 1..Len(s) \/ i = Len(s) + 1
      BY <3>4
    <3>6. \A d \in Held(t) : d \in Held(s) \/ d \in Held(b)
      <4> SUFFICES ASSUME NEW d \in Held(t) PROVE d \in Held(s) \/ d \in Held(b)
        OBVIOUS
      <4>1. PICK i \in 1..Len(t) : Owns(t[i]) /\ t[i].conn = d
        BY <3>4, HeldIs
      <4>2. CASE i \in 1..Len(s)
        BY <3>1, <3>4, <4>1, <4>2, HeldIs
      <4>3. CASE i = Len(s) + 1
        BY <3>3, <3>4, <4>1, <4>3
      <4> QED BY <3>5, <4>2, <4>3
    <3>7. Held(t) \subseteq Live
      BY <1>2, <3>6 DEF b, s
    <3>8. spent'[l] = t
      BY <2>3 DEF t, s, f, b
    <3> QED BY <3>4, <3>7, <3>8
  <2> QED BY <2>1, <2>2, <2>3
<1>6. spent' \in Queues
  <2>1. spent' = [l \in Loops |-> spent'[l]]
    BY DEF Spends, Queues
  <2> QED BY <1>5, <2>1 DEF Queues
<1>7. Live' \subseteq Live \cup X
  BY <1>3, <1>4, <1>5 DEF Live
<1> QED BY <1>6, <1>7

-----------------------------------------------------------------------------
\* One functor is queued, or none.
QueuesOne(l, g) == queue' = [queue EXCEPT ![l] = Append(@, g)]

One(E, l, g) ==
  /\ \A x \in Loops : queue'[x] = queue[x] \o E[x]
  /\ \A x \in Loops : \A i \in 1..Len(E[x]) : E[x][i] = g /\ x = l /\ Len(E[x]) = 1
  /\ queue' = [x \in Loops |-> queue'[x]]

LEMMA OneQueued ==
  ASSUME queue \in Queues, NEW l \in Loops, NEW g \in Functors, QueuesOne(l, g)
  PROVE  \E E \in Queues : One(E, l, g)
<1>0. queue' = [queue EXCEPT ![l] = Append(@, g)]
  BY DEF QueuesOne
<1> DEFINE E == [x \in Loops |-> IF x = l THEN <<g>> ELSE <<>>]
<1>1. <<g>> \in Seq(Functors) /\ <<>> \in Seq(Functors)
  BY EmptySeq
<1>2. E \in Queues
  BY <1>1 DEF Queues
<1>3. queue = [y \in Loops |-> queue[y]] /\ \A y \in Loops : queue[y] \in Seq(Functors)
  BY DEF Queues
<1>4. queue' = [x \in Loops |-> queue'[x]]
  BY <1>0, <1>3
<1>5. ASSUME NEW x \in Loops
      PROVE  queue'[x] = queue[x] \o E[x]
  <2>1. Append(queue[x], g) = queue[x] \o <<g>> /\ queue[x] \o <<>> = queue[x]
    BY <1>3, AppendIsConcat, ConcatEmptySeq
  <2>2. queue'[x] = IF x = l THEN Append(queue[x], g) ELSE queue[x]
    BY <1>0, <1>3
  <2>3. E[x] = IF x = l THEN <<g>> ELSE <<>>
    OBVIOUS
  <2> HIDE DEF E
  <2> QED BY <2>1, <2>2, <2>3
<1>6. \A x \in Loops : \A i \in 1..Len(E[x]) : E[x][i] = g /\ x = l /\ Len(E[x]) = 1
  <2>1. 1..Len(<<>>) = {} /\ Len(<<g>>) = 1 /\ \A i \in 1..Len(<<g>>) : <<g>>[i] = g
    OBVIOUS
  <2>2. \A x \in Loops : E[x] = IF x = l THEN <<g>> ELSE <<>>
    OBVIOUS
  <2> HIDE DEF E
  <2> QED BY <2>1, <2>2
<1> HIDE DEF E
<1> QED BY <1>2, <1>4, <1>5, <1>6 DEF One

LEMMA NoneQueued ==
  ASSUME queue \in Queues, queue' = queue
  PROVE  \E E \in Queues :
           /\ \A x \in Loops : queue'[x] = queue[x] \o E[x]
           /\ \A x \in Loops : 1..Len(E[x]) = {}
           /\ queue' = [x \in Loops |-> queue'[x]]
<1> DEFINE E == [x \in Loops |-> <<>>]
<1>1. E \in Queues
  BY EmptySeq DEF Queues
<1>2. queue = [y \in Loops |-> queue[y]] /\ \A y \in Loops : queue[y] \in Seq(Functors)
  BY DEF Queues
<1>3. \A x \in Loops : queue[x] \o <<>> = queue[x]
  BY <1>2, ConcatEmptySeq
<1>4. \A x \in Loops : E[x] = <<>> /\ 1..Len(<<>>) = {}
  OBVIOUS
<1> HIDE DEF E
<1> QED BY <1>1, <1>2, <1>3, <1>4

\* A step that changes the record of one connection, alive or not: what the
\* loops and the callers have left to do stays within what it was.
Rests ==
  /\ next_' = next_ /\ phase' = phase
  /\ active' \in [Loops -> SUBSET [conn: Conns, revents: SUBSET {"IN", "OUT", "HUP", "ERR"}]]
  /\ \A l \in Loops : active'[l] \subseteq active[l]
  /\ user' \in [Shared -> {"none", "holds", "send", "shutdown", "set", "released"}]
  /\ \A c \in Shared : user[c] = "none" => user'[c] = "none" \/ conn[c].ups = 1
  /\ connections_' \subseteq Live /\ held' \subseteq Live

LEMMA MovedStep ==
  ASSUME RecordsInv, RunInv, NEW c \in Conns, NEW h, NEW m, NEW E \in Queues,
         conn' = [conn EXCEPT ![c] = h], Sound(h), Moved(pending, m, conn[c], c, h),
         Leaving(E, c, h), \A l \in Loops : queue'[l] = queue[l] \o E[l],
         queue' = [l \in Loops |-> queue'[l]],
         Taken(m), Spends, Rests, \A l \in Loops : m[l] = 1 => phase[l] = "run",
         h.died # "abort",
         \A l \in Loops : \A i \in 1..Len(E[l]) : Owns(E[l][i]) => E[l][i].conn \in Live,
         c \in Live /\ c \in Live' => Agrees(h)
  PROVE  UsersInv'
<1>1. /\ UsersTyped /\ Places(pending, conn) /\ Once(pending)
      /\ BatchOnlyRuns /\ EventsMet /\ CallersMet /\ LiveAgree
      /\ queue \in Queues /\ batch \in Queues /\ spent \in Queues
      /\ conn \in [Conns -> Shape] /\ \A d \in Conns : Sound(conn[d]) /\ conn[d].died # "abort"
  BY DEF RunInv, UsersTyped, RecordsInv
<1>2. /\ conn'[c] = h /\ \A d \in Conns : d # c => conn'[d] = conn[d]
      /\ h \in Shape /\ conn' \in [Conns -> Shape]
  BY <1>1 DEF Sound
<1>3. RecordsInv'
  BY <1>1, <1>2 DEF RecordsInv
<1>4. Steps(pending, pending', m, E) /\ queue' \in Queues /\ batch' \in Queues
  BY <1>1, TakenSteps
<1>5. h.closes \in Nat /\ conn[c].closes \in Nat
  BY <1>1, <1>2 DEF Shape
<1>6. Places(pending', conn') /\ Once(pending')
  <2> DEFINE P  == pending
             Q  == pending'
             K  == conn
             K2 == conn'
  <2>1. /\ Steps(P, Q, m, E) /\ Places(P, K) /\ Once(P)
        /\ K[c].closes \in Nat /\ h.closes \in Nat
        /\ Moved(P, m, K[c], c, h) /\ Leaving(E, c, h)
        /\ K2[c] = h /\ \A d \in Conns : d # c => K2[d] = K[d]
    BY <1>1, <1>2, <1>4, <1>5
  <2> HIDE DEF P, Q, K, K2
  <2>2. Places(Q, K2) /\ Once(Q)
    BY <2>1, MovedPlaces
  <2> QED BY <2>2 DEF Q, K2
<1>7. Live' \subseteq Live /\ spent' \in Queues
  <2> DEFINE X == {}
  <2>1. /\ connections_' \subseteq Live \cup X /\ held' \subseteq Live \cup X
        /\ \A l \in Loops : \A i \in 1..Len(E[l]) :
             Owns(E[l][i]) => E[l][i].conn \in Live \cup X
    BY DEF Rests
  <2>2. Live \cup X = Live
    OBVIOUS
  <2> HIDE DEF X
  <2>3. Live' \subseteq Live \cup X /\ spent' \in Queues
    BY <1>1, <2>1, LiveStep
  <2> QED BY <2>2, <2>3
<1>8. UsersTyped'
  BY <1>1, <1>4, <1>7 DEF UsersTyped, Rests
<1>9. BatchOnlyRuns'
  <2>1. ASSUME NEW l \in Loops, phase[l] # "run"
        PROVE  batch'[l] = <<>>
    <3>1. m[l] # 1 /\ batch[l] = <<>>
      BY <1>1, <2>1 DEF BatchOnlyRuns
    <3>2. batch'[l] = batch[l]
      BY <1>1, <3>1 DEF Taken, Queues
    <3> QED BY <3>1, <3>2
  <2> QED BY <2>1 DEF BatchOnlyRuns, Rests
<1>10. \A d \in Conns : conn[d].ups = 1 => conn'[d].ups = 1
  BY <1>2 DEF Moved
<1>11. EventsMet'
  <2>1. ASSUME NEW l \in Loops, NEW a \in active'[l]
        PROVE  conn'[a.conn].ups = 1
    <3>1. a \in active[l] /\ a.conn \in Conns
      BY <1>1 DEF Rests, UsersTyped
    <3> QED BY <1>1, <1>10, <3>1 DEF EventsMet
  <2> QED BY <2>1 DEF EventsMet
<1>12. CallersMet'
  BY <1>1, <1>10, UsersAssumption DEF CallersMet, Rests
<1>13. LiveAgree'
  <2>1. ASSUME NEW d \in Live'
        PROVE  d \in Conns /\ Agrees(conn'[d])
    <3>1. d \in Conns /\ Agrees(conn[d])
      BY <1>1, <1>7, <2>1 DEF LiveAgree
    <3>2. d \in Live
      BY <1>7, <2>1
    <3> QED BY <1>2, <2>1, <3>1, <3>2
  <2> QED BY <2>1 DEF LiveAgree
<1> QED BY <1>3, <1>6, <1>8, <1>9, <1>11, <1>12, <1>13 DEF UsersInv, RunInv

\* A callback on a connection, which ends the process when it is gone.
LEMMA BecameUsers ==
  ASSUME RecordsInv, RunInv, NEW c \in Conns, NEW h, NEW m, Became(c, h),
         IsMet(h), conn[c].fd # None, Moved(pending, m, conn[c], c, h),
         c \in Live => Agrees(h),
         Taken(m), Spends, Rests, \A l \in Loops : m[l] = 1 => phase[l] = "run"
  PROVE  UsersInv'
<1>1. /\ queue \in Queues /\ conn \in [Conns -> Shape]
      /\ \A d \in Conns : Sound(conn[d]) /\ conn[d].died # "abort"
  BY DEF RunInv, UsersTyped, RecordsInv
<1>2. h \in Shape /\ Sound(h) /\ h.ups = 1 /\ h.closes \in Nat /\ conn[c].closes \in Nat
  BY <1>1 DEF IsMet, Sound, Shape
<1>3. CASE c \notin Live
  <2> DEFINE g == [h EXCEPT !.died = "dangling"]
  <2>1. Calm(h, g)
    BY <1>2, FieldsCalm, Zenon
  <2>2. g.died = "dangling"
    BY <1>2 DEF Shape
  <2>3. conn' = [conn EXCEPT ![c] = g]
    BY <1>3 DEF Became
  <2> HIDE DEF g
  <2>4. Sound(g) /\ g \in Shape
    BY <2>1, CalmOnward DEF Onward, IsMet, Calm
  <2>5. conn'[c] = g /\ \A d \in Conns : d # c => conn'[d] = conn[d]
    BY <1>1, <2>3
  <2>6. RecordsInv'
    BY <1>1, <2>2, <2>3, <2>4, <2>5 DEF RecordsInv
  <2>7. ~ProcessRuns'
    BY <2>2, <2>5 DEF ProcessRuns
  <2> QED BY <2>6, <2>7 DEF UsersInv
<1>4. CASE c \in Live
  <2>1. conn' = [conn EXCEPT ![c] = h]
    BY <1>4 DEF Became
  <2>2. h.loop \in IoLoops /\ h.closes >= conn[c].closes
    BY <1>1 DEF Moved, Sound
  <2>3. PICK E \in Queues : /\ Emitted(E, c, conn[c], h)
                            /\ \A l \in Loops : queue'[l] = queue[l] \o E[l]
                            /\ queue' = [l \in Loops |-> queue'[l]]
    BY <1>1, <1>2, <2>2, BecameEmits
  <2>4. Leaving(E, c, h)
    <3> SUFFICES ASSUME NEW l \in Loops, NEW i \in 1..Len(E[l])
                 PROVE  /\ E[l][i].conn = c /\ E[l][i].op # "connectEstablished"
                        /\ PlaceOK(E[l][i], l, h)
      BY DEF Leaving
    <3>1. h.fd # None
      BY DEF Moved
    <3>2. h.closes > conn[c].closes => h.closes > 0
      BY <1>2
    <3>3. /\ E[l][i].conn = c
          /\ \/ E[l][i].op = "removeConnectionInLoop" /\ l = Main /\ h.closes > 0
             \/ E[l][i].op = "shutdownInLoop" /\ l = h.loop
      BY <2>3, <3>2 DEF Emitted
    <3> QED BY <1>2, <3>1, <3>3 DEF PlaceOK
  <2>5. \A l \in Loops : \A i \in 1..Len(E[l]) : E[l][i].conn \in Live
    BY <1>4, <2>3 DEF Emitted
  <2>6. Agrees(h) /\ h.died # "abort"
    BY <1>4 DEF Agrees
  <2> QED BY <1>2, <2>1, <2>3, <2>4, <2>5, <2>6, MovedStep
<1> QED BY <1>3, <1>4

-----------------------------------------------------------------------------
\* A step that leaves the functors alone.
LEMMA StillStep ==
  ASSUME RecordsInv, RunInv, NEW c \in Conns, NEW h, conn' = [conn EXCEPT ![c] = h],
         Sound(h), h.loop = conn[c].loop, h.fd = conn[c].fd, h.ups = conn[c].ups,
         h.closes >= conn[c].closes, h.died # "abort",
         UNCHANGED <<queue, batch, spent>>, Rests,
         c \in Live /\ c \in Live' => Agrees(h)
  PROVE  UsersInv'
<1> DEFINE m == [l \in Loops |-> 0]
<1>1. Taken(m) /\ Spends /\ \A l \in Loops : m[l] # 1
  BY DEF Taken, Spends
<1> HIDE DEF m
<1>2. queue \in Queues
  BY DEF RunInv, UsersTyped
<1>3. PICK E \in Queues :
        /\ \A x \in Loops : queue'[x] = queue[x] \o E[x]
        /\ \A x \in Loops : 1..Len(E[x]) = {}
        /\ queue' = [x \in Loops |-> queue'[x]]
  BY <1>2, NoneQueued
<1>4. Moved(pending, m, conn[c], c, h)
  BY DEF Moved
<1>5. /\ Leaving(E, c, h)
      /\ \A l \in Loops : \A i \in 1..Len(E[l]) : Owns(E[l][i]) => E[l][i].conn \in Live
  BY <1>3 DEF Leaving
<1> QED BY <1>1, <1>3, <1>4, <1>5, MovedStep

\* A step of a thread of the user that queues a functor.
LEMMA QueueStep ==
  ASSUME RecordsInv, RunInv, NEW c \in Conns, NEW h, conn' = [conn EXCEPT ![c] = h],
         Onward(conn[c], h), h.died # "abort",
         NEW g \in Functors, g.conn = c, ~Owns(g),
         QueuesOne(conn[c].loop, g),
         UNCHANGED <<batch, spent>>, Rests, c \in Live => Agrees(h)
  PROVE  UsersInv'
<1> DEFINE m == [l \in Loops |-> 0]
<1>1. Taken(m) /\ Spends /\ \A l \in Loops : m[l] # 1
  BY DEF Taken, Spends
<1> HIDE DEF m
<1>2. queue \in Queues
  BY DEF RunInv, UsersTyped
<1>3. /\ Sound(h) /\ h.ups = 1 /\ h.loop = conn[c].loop /\ h.fd = conn[c].fd
      /\ h.ups = conn[c].ups /\ h.closes >= conn[c].closes /\ h.fd # None
      /\ h.loop \in IoLoops
  BY DEF Onward, Kin, IsMet, Sound
<1>4. h.loop \in Loops /\ g.op \in {"shutdownInLoop", "sendInLoop"}
  BY <1>3 DEF Loops, Owns
<1>5. PICK E \in Queues : One(E, h.loop, g)
  BY <1>2, <1>3, <1>4, OneQueued
<1>6. Moved(pending, m, conn[c], c, h)
  BY <1>3 DEF Moved
<1>7. PlaceOK(g, h.loop, h)
  BY <1>3, <1>4 DEF PlaceOK
<1>8. /\ Leaving(E, c, h)
      /\ \A l \in Loops : \A i \in 1..Len(E[l]) : Owns(E[l][i]) => E[l][i].conn \in Live
  BY <1>4, <1>5, <1>7 DEF Leaving, One
<1> QED BY <1>1, <1>3, <1>5, <1>6, <1>8, MovedStep DEF One

-----------------------------------------------------------------------------
\* What a step that only changes a record needs of the rest.
LEMMA LiveParts ==
  ASSUME RunInv
  PROVE  /\ connections_ \subseteq Live /\ held \subseteq Live
         /\ active \in [Loops -> SUBSET [conn: Conns, revents: SUBSET {"IN", "OUT", "HUP", "ERR"}]]
         /\ user \in [Shared -> {"none", "holds", "send", "shutdown", "set", "released"}]
BY DEF Live, RunInv, UsersTyped

\* The thread of the user goes on with c.
LEMMA UserRests ==
  ASSUME RecordsInv, RunInv, NEW c \in Shared, NEW from, NEW to, UserAt(c, from, to),
         to \in {"holds", "send", "shutdown", "set", "released"}, conn[c].ups = 1,
         UNCHANGED <<connections_, next_, active, phase>>, held' \subseteq Live
  PROVE  Rests
<1>1. user'[c] = to /\ \A d \in Shared : d # c => user'[d] = user[d]
  BY LiveParts DEF UserAt
<1>2. user' \in [Shared -> {"none", "holds", "send", "shutdown", "set", "released"}]
  BY LiveParts DEF UserAt
<1> QED BY <1>1, <1>2, LiveParts DEF Rests

LEMMA PeerUsers ==
  ASSUME RecordsInv, RunInv, NEW c \in Conns,
         PeerSends(c) \/ PeerCloses(c) \/ PeerResets(c), UNCHANGED user
  PROVE  UsersInv'
<1>1. PICK h \in PeerOf(conn[c]) :
        /\ c \in Live /\ conn' = [conn EXCEPT ![c] = h]
        /\ UNCHANGED <<connections_, next_, channels_, queue, active, batch, spent, phase, held>>
  BY DEF PeerSends, PeerCloses, PeerResets, Peer, PeerOf, loopVars
<1>2. /\ Sound(conn[c]) /\ conn[c].died # "abort" /\ conn[c].closes \in Nat
      /\ Agrees(conn[c])
  BY <1>1 DEF RecordsInv, Sound, Shape, RunInv, LiveAgree
<1>3. Calm(conn[c], h) /\ Sound(h) /\ h.died # "abort" /\ Agrees(h)
  BY <1>2, PeerSound
<1>4. /\ h.loop = conn[c].loop /\ h.fd = conn[c].fd /\ h.ups = conn[c].ups
      /\ h.closes >= conn[c].closes
  BY <1>2, <1>3 DEF Calm, Kin
<1>5. Rests
  BY <1>1, LiveParts DEF Rests
<1> QED BY <1>1, <1>3, <1>4, <1>5, StillStep

\* The calls of the thread of the user.
LEMMA CallsUsers ==
  ASSUME RecordsInv, RunInv, NEW c \in Shared,
         Take(c) \/ \E op \in {"send", "shutdown"} : Call(c, op)
  PROVE  UsersInv'
<1>1. /\ c \in Conns /\ Sound(conn[c]) /\ conn[c].died # "abort" /\ conn[c].closes \in Nat
      /\ conn \in [Conns -> Shape]
  BY UsersAssumption DEF RecordsInv, Sound, Shape
<1>2. /\ conn[c].ups = 1
      /\ UNCHANGED <<conn, connections_, next_, active, queue, batch, spent, phase>>
      /\ held' \subseteq Live
      /\ \E from, to : UserAt(c, from, to) /\ to \in {"holds", "send", "shutdown", "set", "released"}
  <2>1. CASE Take(c)
    <3>1. conn[c].ups = 1
      BY <1>1, <2>1 DEF Take, Sound
    <3>2. held' \subseteq Live
      BY <2>1, LiveParts DEF Take
    <3>3. UserAt(c, "none", "holds")
      BY <2>1 DEF Take
    <3> QED BY <2>1, <3>1, <3>2, <3>3 DEF Take, loopVars
  <2>2. ASSUME NEW op \in {"send", "shutdown"}, Call(c, op)
        PROVE  /\ conn[c].ups = 1
               /\ UNCHANGED <<conn, connections_, next_, active, queue, batch, spent, phase>>
               /\ held' \subseteq Live
               /\ \E from, to : UserAt(c, from, to) /\ to \in {"holds", "send", "shutdown", "set", "released"}
    <3> DEFINE to == IF conn[c].state = "KConnected" THEN op ELSE "holds"
    <3>1. UserAt(c, "holds", to) /\ UNCHANGED vars
      BY <2>2 DEF Call
    <3>2. conn[c].ups = 1
      BY <3>1 DEF UserAt, RunInv, CallersMet
    <3>3. to \in {"holds", "send", "shutdown", "set", "released"}
      OBVIOUS
    <3> HIDE DEF to
    <3> QED BY <3>1, <3>2, <3>3, LiveParts DEF vars
  <2> QED BY <2>1, <2>2
<1>3. Rests
  BY <1>2, UserRests
<1>4. conn' = [conn EXCEPT ![c] = conn[c]]
  BY <1>1, <1>2
<1>5. c \in Live => Agrees(conn[c])
  BY DEF RunInv, LiveAgree
<1>6. conn[c].closes >= conn[c].closes
  BY <1>1
<1> QED BY <1>1, <1>2, <1>3, <1>4, <1>5, <1>6, StillStep

\* What send() and shutdown() leave to the loop, and the last shared_ptr.
LEMMA UserStepUsers ==
  ASSUME RecordsInv, RunInv, NEW c \in Shared, UserStep(c)
  PROVE  UsersInv'
<1>1. /\ c \in Conns /\ Sound(conn[c]) /\ conn[c].died # "abort" /\ conn[c] \in Shape
      /\ conn \in [Conns -> Shape]
  BY UsersAssumption DEF RecordsInv, Sound
<1>2. user[c] # "none" => conn[c].ups = 1
  BY DEF RunInv, CallersMet
<1>3. c \in Live => Agrees(conn[c])
  BY DEF RunInv, LiveAgree
<1>4. CASE SendQueues(c)
  <2> DEFINE g == Functor("sendInLoop", c)
  <2>1. /\ UserAt(c, "send", "holds") /\ QueuesOne(conn[c].loop, g)
        /\ UNCHANGED <<conn, connections_, next_, active, batch, spent, phase, held>>
    BY <1>4 DEF SendQueues, loopVars, QueuesOne
  <2>2. g \in Functors /\ g.conn = c /\ ~Owns(g)
    BY <1>1 DEF Functor, Functors, Owns
  <2> HIDE DEF g
  <2>3. IsMet(conn[c])
    BY <1>1, <1>2, <2>1 DEF UserAt, IsMet
  <2>4. Onward(conn[c], conn[c])
    BY <1>1, <2>3, FieldsCalm, CalmOnward, Zenon
  <2>5. Rests
    BY <2>1, <2>3, LiveParts, UserRests DEF IsMet
  <2>6. conn' = [conn EXCEPT ![c] = conn[c]]
    BY <1>1, <2>1
  <2> QED BY <1>1, <1>3, <2>1, <2>2, <2>4, <2>5, <2>6, QueueStep
<1>5. CASE ShutdownQueues(c)
  <2> DEFINE g == Functor("shutdownInLoop", c)
  <2>1. /\ UserAt(c, "set", "holds") /\ QueuesOne(conn[c].loop, g)
        /\ UNCHANGED <<conn, connections_, next_, active, batch, spent, phase, held>>
    BY <1>5 DEF ShutdownQueues, loopVars, QueuesOne
  <2>2. g \in Functors /\ g.conn = c /\ ~Owns(g)
    BY <1>1 DEF Functor, Functors, Owns
  <2> HIDE DEF g
  <2>3. IsMet(conn[c])
    BY <1>1, <1>2, <2>1 DEF UserAt, IsMet
  <2>4. Onward(conn[c], conn[c])
    BY <1>1, <2>3, FieldsCalm, CalmOnward, Zenon
  <2>5. Rests
    BY <2>1, <2>3, LiveParts, UserRests DEF IsMet
  <2>6. conn' = [conn EXCEPT ![c] = conn[c]]
    BY <1>1, <2>1
  <2> QED BY <1>1, <1>3, <2>1, <2>2, <2>4, <2>5, <2>6, QueueStep
<1>6. CASE ShutdownSets(c)
  <2> DEFINE h == ShutdownUnchecked(conn[c])
  <2>1. /\ UserAt(c, "shutdown", "set")
        /\ UNCHANGED <<connections_, next_, active, queue, batch, spent, phase, held>>
    BY <1>6 DEF ShutdownSets, loopVars
  <2>2. conn' = [conn EXCEPT ![c] = h]
    BY <1>6 DEF ShutdownSets, ShutdownUnchecked
  <2>3. IsMet(conn[c])
    BY <1>1, <1>2, <2>1 DEF UserAt, IsMet
  <2>4. Onward(conn[c], h)
    BY <2>3, ShutdownOnward
  <2>5. h.died # "abort"
    BY <1>1 DEF ShutdownUnchecked, Shape
  <2>6. c \in Live => Agrees(h)
    BY <1>3, OtherFieldsAgree, Zenon DEF ShutdownUnchecked
  <2> HIDE DEF h
  <2>7. /\ Sound(h) /\ h.loop = conn[c].loop /\ h.fd = conn[c].fd /\ h.ups = conn[c].ups
        /\ h.closes >= conn[c].closes
    BY <2>4 DEF Onward, Kin, IsMet
  <2>8. Rests
    BY <2>1, <2>3, LiveParts, UserRests DEF IsMet
  <2> QED BY <1>1, <2>1, <2>2, <2>5, <2>6, <2>7, <2>8, StillStep
<1>7. CASE Release(c)
  <2> DEFINE b == conn[c].reg /\ c \in Live'
             h == [conn[c] EXCEPT !.reg = b]
  <2>1. /\ UserAt(c, "holds", "released") /\ held' = held \ {c}
        /\ UNCHANGED <<connections_, next_, active, queue, batch, spent, phase>>
    BY <1>7 DEF Release, loopVars
  <2>2. conn' = [conn EXCEPT ![c] = h]
    BY <1>7 DEF Release
  <2>3. IsMet(conn[c])
    BY <1>1, <1>2, <2>1 DEF UserAt, IsMet
  <2>4. b \in BOOLEAN
    OBVIOUS
  <2>5. c \in Live' => b = conn[c].reg
    BY <1>1 DEF Shape
  <2> HIDE DEF b
  <2>6. Calm(conn[c], h)
    BY <1>1, <2>4, FieldsCalm, Zenon
  <2>7. h.reg = b /\ h.index = conn[c].index /\ h.died = conn[c].died /\ h \in Shape
    BY <1>1, <2>4 DEF Shape
  <2> HIDE DEF h
  <2>8. Onward(conn[c], h)
    BY <2>3, <2>6, CalmOnward
  <2>9. c \in Live /\ c \in Live' => Agrees(h)
    BY <1>3, <2>5, <2>7 DEF Agrees
  <2>10. /\ Sound(h) /\ h.loop = conn[c].loop /\ h.fd = conn[c].fd /\ h.ups = conn[c].ups
         /\ h.closes >= conn[c].closes
    BY <2>8 DEF Onward, Kin, IsMet
  <2>11. Rests
    <3>1. held' \subseteq Live
      BY <2>1, LiveParts
    <3> QED BY <2>1, <2>3, <3>1, UserRests DEF IsMet
  <2> QED BY <1>1, <2>1, <2>2, <2>7, <2>9, <2>10, <2>11, StillStep
<1> QED BY <1>4, <1>5, <1>6, <1>7 DEF UserStep

-----------------------------------------------------------------------------
\* An event of an active channel, of a connection that may be gone.
LEMMA EventUsers ==
  ASSUME RecordsInv, RunInv, NEW l \in Loops, NEW a \in active[l], NEW u \in UserActs,
         NEW w \in Writes, HandleActive(l, a, u, w), UNCHANGED user
  PROVE  UsersInv'
<1> DEFINE c == a.conn
           h == HandleEvent(conn[c], a.revents, u, w)
           m == [x \in Loops |-> 0]
<1>1. c \in Conns /\ conn[c].ups = 1
  BY LiveParts DEF RunInv, EventsMet
<1>2. IsMet(conn[c]) /\ conn[c].fd # None /\ (c \in Live => Agrees(conn[c]))
  BY <1>1 DEF RecordsInv, IsMet, Sound, RunInv, LiveAgree
<1>3. Onward(conn[c], h) /\ (c \in Live => Agrees(h))
  BY <1>2, EventOnward, HandleEventAgrees
<1>4. /\ Became(c, h)
      /\ active' = [active EXCEPT ![l] = @ \ {a}]
      /\ UNCHANGED <<connections_, next_, batch, spent, phase, held>>
  BY DEF HandleActive
<1>5. Taken(m) /\ Spends /\ \A x \in Loops : m[x] # 1
  BY <1>4 DEF Taken, Spends
<1> HIDE DEF c, h, m
<1>6. IsMet(h) /\ Moved(pending, m, conn[c], c, h)
  BY <1>3 DEF Onward, Kin, Moved
<1>7. Rests
  <2>1. /\ \A x \in Loops : active'[x] \subseteq active[x]
        /\ active' \in [Loops -> SUBSET [conn: Conns, revents: SUBSET {"IN", "OUT", "HUP", "ERR"}]]
    BY <1>4, LiveParts
  <2> QED BY <1>4, <2>1, LiveParts DEF Rests
<1> QED BY <1>1, <1>2, <1>3, <1>4, <1>5, <1>6, <1>7, BecameUsers

\* What running the first functor of a batch leaves alone.
RunsFirst(l) ==
  /\ phase[l] = "run" /\ batch[l] # <<>>
  /\ batch' = [batch EXCEPT ![l] = Tail(@)]
  /\ spent' = [spent EXCEPT ![l] = Append(@, Head(batch[l]))]
  /\ UNCHANGED <<next_, active, phase, held, user>>

\* A functor that calls back into its connection.
LEMMA FunctorUsers ==
  ASSUME RecordsInv, RunInv, NEW l \in Loops, RunsFirst(l), connections_' = connections_,
         NEW u \in UserActs, NEW w \in Writes, NEW c, c = Head(batch[l]).conn,
         NEW op, op = Head(batch[l]).op, NEW h, Became(c, h),
         \/ op = "connectEstablished" /\ h = ConnectEstablished(conn[c], u, w)
         \/ op = "connectDestroyed" /\ h = ConnectDestroyed(conn[c])
         \/ op = "shutdownInLoop" /\ h = ShutdownInLoop(conn[c])
         \/ op = "sendInLoop" /\ h = SendInLoop(conn[c], w)
  PROVE  UsersInv'
<1> DEFINE m == [x \in Loops |-> IF x = l THEN 1 ELSE 0]
<1>1. queue \in Queues /\ batch \in Queues /\ Places(pending, conn)
  BY DEF RunInv, UsersTyped
<1>2. /\ Head(batch[l]) = pending[l][1] /\ c \in Conns
      /\ PlaceOK(Head(batch[l]), l, conn[c])
  BY <1>1, HeadPlace DEF RunsFirst
<1>3. /\ Sound(conn[c]) /\ conn[c].fd # None /\ conn[c] \in Shape
      /\ c \in Live => Agrees(conn[c])
      /\ op = "connectEstablished" <=> conn[c].ups = 0
      /\ conn[c].ups \in {0, 1}
  BY <1>2 DEF PlaceOK, RecordsInv, Sound, RunInv, LiveAgree
<1>4. Taken(m) /\ Spends /\ (\A x \in Loops : m[x] = 1 => x = l) /\ m[l] = 1
  <2>1. (\A x \in Loops : m[x] = 1 => x = l) /\ m[l] = 1
    OBVIOUS
  <2>2. Taken(m) /\ Spends
    BY Zenon DEF RunsFirst, Taken, Spends
  <2> QED BY <2>1, <2>2
<1> HIDE DEF m
<1>5. Rests
  BY LiveParts DEF RunsFirst, Rests
<1>6. \A x \in Loops : m[x] = 1 => phase[x] = "run"
  BY <1>4 DEF RunsFirst
<1>7. CASE op = "connectEstablished"
  <2>1. IsMet(h) /\ h.loop = conn[c].loop /\ h.fd = conn[c].fd /\ h.closes >= conn[c].closes
    BY <1>3, <1>7, EstablishSound
  <2>2. c \in Live => Agrees(h)
    BY <1>3, <1>7, ConnectAgrees
  <2>3. Pops(pending, m, "connectEstablished", c)
    BY <1>2, <1>4, <1>7 DEF Pops
  <2>4. Moved(pending, m, conn[c], c, h)
    BY <2>1, <2>3 DEF Moved, IsMet
  <2> QED BY <1>2, <1>3, <1>4, <1>5, <1>6, <2>1, <2>2, <2>4, BecameUsers
<1>8. CASE op # "connectEstablished"
  <2>1. IsMet(conn[c])
    BY <1>3, <1>8 DEF IsMet
  <2>2. Onward(conn[c], h)
    BY <1>3, <1>8, <2>1, DestroyOnward, SendCalm, CalmOnward
  <2>3. c \in Live => Agrees(h)
    <3> SUFFICES ASSUME Agrees(conn[c]) PROVE Agrees(h)
      BY <1>3
    <3>1. /\ Agrees(ConnectDestroyed(conn[c]))
          /\ Agrees(ShutdownInLoop(conn[c])) /\ Agrees(SendInLoop(conn[c], w))
      BY ConnectAgrees, SendAgrees
    <3> QED BY <1>8, <3>1
  <2>4. IsMet(h) /\ Moved(pending, m, conn[c], c, h)
    BY <2>2 DEF Onward, Kin, Moved
  <2> QED BY <1>2, <1>3, <1>4, <1>5, <1>6, <2>3, <2>4, BecameUsers
<1> QED BY <1>7, <1>8

\* removeConnectionInLoop hands over to connectDestroyed.
LEMMA RemoveUsers ==
  ASSUME RecordsInv, RunInv, NEW l \in Loops, RunsFirst(l),
         NEW c, c = Head(batch[l]).conn, Head(batch[l]).op = "removeConnectionInLoop",
         RemoveConnectionInLoop(c)
  PROVE  UsersInv'
<1> DEFINE m == [x \in Loops |-> IF x = l THEN 1 ELSE 0]
           g == Functor("connectDestroyed", c)
<1>1. queue \in Queues /\ batch \in Queues /\ Places(pending, conn)
  BY DEF RunInv, UsersTyped
<1>2. /\ Head(batch[l]) = pending[l][1] /\ 1 \in 1..Len(pending[l]) /\ c \in Conns
      /\ PlaceOK(Head(batch[l]), l, conn[c])
  BY <1>1, HeadPlace DEF RunsFirst
<1>3. /\ conn[c].fd # None /\ conn[c].closes > 0 /\ conn[c].ups # 0
      /\ Sound(conn[c]) /\ conn[c].died # "abort" /\ conn[c].closes \in Nat
      /\ conn[c].loop \in IoLoops /\ conn \in [Conns -> Shape]
  BY <1>2 DEF PlaceOK, RecordsInv, Sound, Shape
<1>4. c \in Live
  <2>1. Owns(pending[l][1]) /\ pending[l][1].conn = c
    BY <1>2 DEF Owns
  <2> QED BY <1>1, <1>2, <2>1, OwnedLive
<1>5. g \in Functors /\ g.op = "connectDestroyed" /\ g.conn = c
  BY <1>2 DEF Functor, Functors
<1>6. Taken(m) /\ Spends /\ \A x \in Loops : m[x] = 1 => phase[x] = "run"
  <2>1. \A x \in Loops : m[x] = 1 => x = l
    OBVIOUS
  <2>2. Taken(m) /\ Spends
    BY Zenon DEF RunsFirst, Taken, Spends
  <2> QED BY <2>1, <2>2 DEF RunsFirst
<1>7. /\ connections_' = connections_ \ {c}
      /\ queue' = [queue EXCEPT ![conn[c].loop] = Append(@, g)]
      /\ conn' = [conn EXCEPT ![c] = conn[c]]
  BY <1>3 DEF RemoveConnectionInLoop
<1> HIDE DEF m, g
<1>8. Rests
  <2>1. connections_' \subseteq Live
    BY <1>7, LiveParts
  <2> QED BY <2>1, LiveParts DEF RunsFirst, Rests
<1>9. conn[c].loop \in Loops
  BY <1>3 DEF Loops
<1>10. PICK E \in Queues : One(E, conn[c].loop, g)
  <2>1. QueuesOne(conn[c].loop, g)
    BY <1>7 DEF QueuesOne
  <2> QED BY <1>1, <1>5, <1>9, <2>1, OneQueued
<1>11. PlaceOK(g, conn[c].loop, conn[c])
  BY <1>3, <1>5 DEF PlaceOK
<1>12. /\ Leaving(E, c, conn[c])
       /\ \A x \in Loops : \A i \in 1..Len(E[x]) : Owns(E[x][i]) => E[x][i].conn \in Live
  BY <1>4, <1>5, <1>10, <1>11 DEF Leaving, One
<1>13. Moved(pending, m, conn[c], c, conn[c])
  BY <1>3 DEF Moved
<1>14. Agrees(conn[c])
  BY <1>4 DEF RunInv, LiveAgree
<1>15. /\ \A x \in Loops : queue'[x] = queue[x] \o E[x]
       /\ queue' = [x \in Loops |-> queue'[x]]
  BY <1>10 DEF One
<1> QED BY <1>2, <1>3, <1>6, <1>7, <1>8, <1>12, <1>13, <1>14, <1>15, MovedStep, Zenon

-----------------------------------------------------------------------------
\* A new connection: nothing that waits or runs is about it.
LEMMA AcceptUsers ==
  ASSUME RecordsInv, RunInv, NEW c \in Conns, NEW fd \in Fds, Accept(c, fd), UNCHANGED user
  PROVE  UsersInv'
<1> DEFINE h == [Unborn EXCEPT !.loop = NextIoLoop, !.fd = fd]
           g == Functor("connectEstablished", c)
           m == [l \in Loops |-> 0]
           X == {c}
<1>1. /\ conn[c].fd = None
      /\ conn' = [conn EXCEPT ![c] = h]
      /\ connections_' = connections_ \cup X
      /\ next_' = Rotated
      /\ QueuesOne(NextIoLoop, g)
      /\ phase' = [phase EXCEPT ![Main] = "handle"] /\ phase[Main] = "poll"
      /\ UNCHANGED <<active, batch, spent, held, user>>
  BY DEF Accept, NewConnection, Born, LoopAt, QueuesOne
<1>2. /\ UsersTyped /\ Places(pending, conn) /\ Once(pending)
      /\ BatchOnlyRuns /\ EventsMet /\ CallersMet /\ LiveAgree
      /\ queue \in Queues /\ batch \in Queues /\ spent \in Queues
      /\ conn \in [Conns -> Shape] /\ \A d \in Conns : Sound(conn[d]) /\ conn[d].died # "abort"
  BY DEF RunInv, UsersTyped, RecordsInv
<1>3. next_' \in 0..(NumThreads - 1) /\ NextIoLoop \in IoLoops /\ NextIoLoop \in Loops
  <2>1. next_ \in 0..(NumThreads - 1)
    BY <1>2 DEF UsersTyped
  <2>2. NextIoLoop \in IoLoops
    BY <2>1, ServerAssumption DEF NextIoLoop, IoLoops
  <2>3. Rotated \in 0..(NumThreads - 1)
    BY <2>1, ServerAssumption DEF Rotated
  <2> QED BY <1>1, <2>2, <2>3 DEF Loops
<1>4. /\ Sound(h) /\ Agrees(h) /\ h.loop = NextIoLoop /\ h.fd = fd /\ h.ups = 0
      /\ h.died # "abort" /\ h \in Shape
  <2>1. /\ Sound(h) /\ Agrees(h) /\ h.loop = NextIoLoop /\ h.fd = fd /\ h.ups = 0
        /\ h.died = "no"
    BY <1>3, NewSound
  <2> HIDE DEF h
  <2> QED BY <2>1 DEF Sound
<1>5. g \in Functors /\ g.op = "connectEstablished" /\ g.conn = c
  BY DEF Functors, Functor
<1>6. Taken(m) /\ Spends /\ \A l \in Loops : m[l] = 0
  <2>1. \A l \in Loops : m[l] = 0
    OBVIOUS
  <2>2. Taken(m) /\ Spends
    BY <1>1, Zenon DEF Taken, Spends
  <2> QED BY <2>1, <2>2
<1> HIDE DEF h, g, m
<1>7. PICK E \in Queues : One(E, NextIoLoop, g)
  BY <1>1, <1>2, <1>3, <1>5, OneQueued
<1>8. Steps(pending, pending', m, E) /\ queue' \in Queues /\ batch' \in Queues
  BY <1>2, <1>6, <1>7, TakenSteps DEF One
<1>9. /\ conn'[c] = h /\ \A d \in Conns : d # c => conn'[d] = conn[d]
      /\ conn' \in [Conns -> Shape]
  BY <1>1, <1>2, <1>4
<1>10. conn[c].ups # 1
  BY <1>1, <1>2 DEF Sound
<1>11. ASSUME NEW l \in Loops, NEW i \in 1..Len(pending[l])
       PROVE  pending[l][i].conn \in Conns /\ pending[l][i].conn # c
  <2>1. pending \in Queues
    BY <1>8 DEF Steps
  <2>2. pending[l][i].conn \in Conns
    BY <2>1, Members
  <2> QED BY <1>1, <1>2, <2>2 DEF Places, PlaceOK
<1>12. Places(pending', conn') /\ Once(pending')
  <2> DEFINE P  == pending
             Q  == pending'
             K2 == conn'
  <2>1. \A l \in Loops : \A i \in 1..Len(P[l]) :
          /\ P[l][i].conn # c
          /\ PlaceOK(P[l][i], l, K2[P[l][i].conn])
    BY <1>2, <1>9, <1>11 DEF Places
  <2>2. Places(E, K2)
    <3>1. PlaceOK(g, NextIoLoop, conn'[g.conn])
      BY <1>4, <1>5, <1>9, ServerAssumption DEF PlaceOK
    <3> QED BY <1>7, <3>1 DEF Places, One
  <2>3. Steps(P, Q, m, E) /\ Once(P)
    BY <1>2, <1>8
  <2>4. \A l \in Loops : \A i \in 1..Len(E[l]) : E[l][i].conn = c /\ Len(E[l]) = 1
    BY <1>5, <1>7 DEF One
  <2> HIDE DEF P, Q, K2
  <2>5. Places(Q, K2)
    BY <2>1, <2>2, <2>3, PlacesKept
  <2>6. Once(Q)
    BY <2>1, <2>3, <2>4, <2>5, OnceKept
  <2> QED BY <2>5, <2>6 DEF Q, K2
<1>13. Live' \subseteq Live \cup X /\ spent' \in Queues
  <2>1. /\ connections_' \subseteq Live \cup X /\ held' \subseteq Live \cup X
        /\ \A l \in Loops : \A i \in 1..Len(E[l]) :
             Owns(E[l][i]) => E[l][i].conn \in Live \cup X
    BY <1>1, <1>2, <1>5, <1>7 DEF Live, One
  <2> HIDE DEF X
  <2> QED BY <1>2, <1>6, <1>7, <2>1, LiveStep DEF One
<1>14. RecordsInv'
  BY <1>2, <1>4, <1>9 DEF RecordsInv
<1>15. UsersTyped'
  BY <1>1, <1>2, <1>3, <1>8, <1>13 DEF UsersTyped
<1>16. BatchOnlyRuns'
  <2>1. \A l \in Loops : phase'[l] = IF l = Main THEN "handle" ELSE phase[l]
    BY <1>1, <1>2 DEF UsersTyped
  <2> QED BY <1>1, <1>2, <2>1 DEF BatchOnlyRuns
<1>17. EventsMet'
  <2>1. ASSUME NEW l \in Loops, NEW a \in active[l]
        PROVE  conn'[a.conn].ups = 1
    BY <1>2, <1>9, <1>10 DEF EventsMet, UsersTyped
  <2> QED BY <1>1, <2>1 DEF EventsMet
<1>18. CallersMet'
  BY <1>1, <1>2, <1>9, <1>10, UsersAssumption DEF CallersMet
<1>19. LiveAgree'
  BY <1>2, <1>4, <1>9, <1>13 DEF LiveAgree
<1> QED BY <1>12, <1>14, <1>15, <1>16, <1>17, <1>18, <1>19 DEF UsersInv, RunInv

\* Only an established connection is in the epoll.
LEMMA PollUsers ==
  ASSUME RecordsInv, RunInv, NEW l \in Loops, Poll(l), UNCHANGED user
  PROVE  UsersInv'
<1> DEFINE A == {[conn |-> c, revents |-> Revents(conn[c])] : c \in Ready(l)}
<1>1. /\ phase[l] = "poll" /\ active' = [active EXCEPT ![l] = A]
      /\ phase' = [phase EXCEPT ![l] = "handle"]
      /\ UNCHANGED <<conn, connections_, next_, queue, batch, spent, held, user>>
  BY DEF Poll, LoopAt
<1>2. /\ UsersTyped /\ Places(pending, conn) /\ Once(pending)
      /\ BatchOnlyRuns /\ EventsMet /\ CallersMet /\ LiveAgree
  BY DEF RunInv
<1>3. ASSUME NEW c \in Ready(l)
      PROVE  c \in Conns /\ conn[c].ups = 1
  <2>1. c \in Conns /\ conn[c].reg
    BY <1>2 DEF Ready, LiveAgree
  <2>2. Sound(conn[c])
    BY <2>1 DEF RecordsInv
  <2> QED BY <2>1, <2>2 DEF Sound
<1>4. \A a \in A : /\ a \in [conn: Conns, revents: SUBSET {"IN", "OUT", "HUP", "ERR"}]
                   /\ conn[a.conn].ups = 1
  <2> SUFFICES ASSUME NEW c \in Ready(l)
               PROVE  LET a == [conn |-> c, revents |-> Revents(conn[c])]
                      IN  /\ a \in [conn: Conns, revents: SUBSET {"IN", "OUT", "HUP", "ERR"}]
                          /\ conn[a.conn].ups = 1
    OBVIOUS
  <2>1. Revents(conn[c]) \in SUBSET {"IN", "OUT", "HUP", "ERR"}
    BY DEF Revents
  <2> QED BY <1>3, <2>1
<1> HIDE DEF A
<1>5. /\ active' \in [Loops -> SUBSET [conn: Conns, revents: SUBSET {"IN", "OUT", "HUP", "ERR"}]]
      /\ active'[l] = A /\ \A x \in Loops : x # l => active'[x] = active[x]
  BY <1>1, <1>2, <1>4 DEF UsersTyped
<1>6. UsersTyped'
  BY <1>1, <1>2, <1>5 DEF UsersTyped
<1>7. BatchOnlyRuns'
  BY <1>1, <1>2 DEF BatchOnlyRuns, UsersTyped
<1>8. EventsMet'
  BY <1>1, <1>2, <1>4, <1>5 DEF EventsMet
<1>9. /\ RecordsInv' /\ Places(pending', conn') /\ Once(pending')
      /\ CallersMet' /\ LiveAgree'
  BY <1>1, <1>2 DEF RecordsInv, pending, CallersMet, LiveAgree, Live
<1> QED BY <1>6, <1>7, <1>8, <1>9 DEF UsersInv, RunInv

LEMMA SwapUsers ==
  ASSUME RecordsInv, RunInv, NEW l \in Loops, SwapFunctors(l) \/ EndPending(l), UNCHANGED user
  PROVE  UsersInv'
<1>1. /\ UsersTyped /\ Places(pending, conn) /\ Once(pending)
      /\ BatchOnlyRuns /\ EventsMet /\ CallersMet /\ LiveAgree
      /\ batch \in Queues /\ queue \in Queues /\ spent \in Queues
  BY DEF RunInv, UsersTyped
<1>2. <<>> \in Seq(Functors) /\ Held(<<>>) = {}
  <2>1. <<>> \in Seq(Functors) /\ 1..Len(<<>>) = {}
    BY EmptySeq
  <2> QED BY <2>1, HeldIs
<1>3. /\ pending' = pending /\ UsersTyped' /\ BatchOnlyRuns' /\ Live' \subseteq Live
      /\ UNCHANGED <<conn, active>>
  <2>1. CASE SwapFunctors(l)
    <3>1. /\ batch' = [batch EXCEPT ![l] = queue[l]] /\ queue' = [queue EXCEPT ![l] = <<>>]
          /\ phase' = [phase EXCEPT ![l] = "run"] /\ phase[l] = "handle"
          /\ UNCHANGED <<conn, connections_, next_, active, spent, held, user>>
      BY <2>1 DEF SwapFunctors, LoopAt
    <3>2. /\ batch' \in Queues /\ queue' \in Queues
          /\ batch'[l] = queue[l] /\ queue'[l] = <<>>
          /\ \A x \in Loops : x # l => batch'[x] = batch[x] /\ queue'[x] = queue[x]
      BY <1>1, <1>2, <3>1 DEF Queues
    <3>3. batch[l] = <<>> /\ queue[l] \in Seq(Functors)
      BY <1>1, <3>1 DEF BatchOnlyRuns, Queues
    <3>4. queue[l] \o <<>> = queue[l] /\ <<>> \o queue[l] = queue[l]
      BY <3>3, ConcatEmptySeq
    <3>5. \A x \in Loops : batch'[x] \o queue'[x] = batch[x] \o queue[x]
      BY <3>2, <3>3, <3>4
    <3>6. pending' = pending
      BY <3>5 DEF pending
    <3>7. \A x \in Loops : Held(batch'[x]) \cup Held(queue'[x]) = Held(batch[x]) \cup Held(queue[x])
      BY <1>2, <3>2, <3>3
    <3>8. Live' \subseteq Live
      BY <3>1, <3>7 DEF Live
    <3>9. UsersTyped' /\ BatchOnlyRuns'
      BY <1>1, <3>1, <3>2 DEF UsersTyped, BatchOnlyRuns
    <3> QED BY <3>1, <3>6, <3>8, <3>9
  <2>2. CASE EndPending(l)
    <3>1. /\ spent' = [spent EXCEPT ![l] = <<>>]
          /\ phase' = [phase EXCEPT ![l] = "poll"] /\ phase[l] = "run" /\ batch[l] = <<>>
          /\ UNCHANGED <<conn, connections_, next_, active, queue, batch, held, user>>
      BY <2>2 DEF EndPending, LoopAt
    <3>2. /\ spent' \in Queues /\ spent'[l] = <<>>
          /\ \A x \in Loops : x # l => spent'[x] = spent[x]
      BY <1>1, <1>2, <3>1 DEF Queues
    <3>3. \A x \in Loops : Held(spent'[x]) \subseteq Held(spent[x])
      BY <1>2, <3>2
    <3>4. Live' \subseteq Live
      BY <3>1, <3>3 DEF Live
    <3>5. UsersTyped' /\ BatchOnlyRuns'
      BY <1>1, <3>1, <3>2 DEF UsersTyped, BatchOnlyRuns
    <3> QED BY <3>1, <3>4, <3>5 DEF pending
  <2> QED BY <2>1, <2>2
<1>4. EventsMet' /\ CallersMet' /\ LiveAgree' /\ RecordsInv'
  BY <1>1, <1>3 DEF EventsMet, CallersMet, LiveAgree, RecordsInv
<1> QED BY <1>1, <1>3, <1>4 DEF UsersInv, RunInv

-----------------------------------------------------------------------------
\* The invariant is inductive.
LEMMA UsersStep ==
  ASSUME UsersInv, [UsersNext]_usersVars
  PROVE  UsersInv'
<1>1. CASE UNCHANGED usersVars
  BY <1>1 DEF usersVars, vars, UsersInv, RecordsInv, RunInv, ProcessRuns, UsersTyped, pending,
              BatchOnlyRuns, EventsMet, CallersMet, LiveAgree, Live
<1>2. ASSUME ProcessRuns PROVE RecordsInv /\ RunInv
  BY <1>2 DEF UsersInv
<1>3. ASSUME NEW c \in Conns, PeerSends(c) \/ PeerCloses(c) \/ PeerResets(c),
             UNCHANGED <<user, calls>>
      PROVE  UsersInv'
  <2>1. ProcessRuns
    BY <1>3 DEF PeerSends, PeerCloses, PeerResets, Peer
  <2> QED BY <1>2, <1>3, <2>1, PeerUsers
<1>4. ASSUME NEW c \in Conns, NEW fd \in Fds, Accept(c, fd), UNCHANGED <<user, calls>>
      PROVE  UsersInv'
  <2>1. ProcessRuns
    BY <1>4 DEF Accept, LoopAt
  <2> QED BY <1>2, <1>4, <2>1, AcceptUsers
<1>5. ASSUME NEW l \in Loops, LoopStep(l), UNCHANGED <<user, calls>>
      PROVE  UsersInv'
  <2>1. CASE Poll(l)
    <3>1. ProcessRuns
      BY <2>1 DEF Poll, LoopAt
    <3> QED BY <1>2, <1>5, <2>1, <3>1, PollUsers
  <2>2. CASE SwapFunctors(l) \/ EndPending(l)
    <3>1. ProcessRuns
      BY <2>2 DEF SwapFunctors, EndPending, LoopAt
    <3> QED BY <1>2, <1>5, <2>2, <3>1, SwapUsers
  <2>3. ASSUME NEW u \in UserActs, NEW w \in Writes, RunFunctor(l, u, w)
        PROVE  UsersInv'
    <3> DEFINE op == Head(batch[l]).op
               c  == Head(batch[l]).conn
    <3>1. RunsFirst(l)
      <4>1. next_' = next_
        BY <2>3, Zenon DEF RunFunctor, RemoveConnectionInLoop
      <4>2. /\ phase[l] = "run" /\ batch[l] # <<>>
            /\ batch' = [batch EXCEPT ![l] = Tail(@)]
            /\ spent' = [spent EXCEPT ![l] = Append(@, Head(batch[l]))]
            /\ UNCHANGED <<active, phase, held>>
        BY <2>3 DEF RunFunctor, LoopAt
      <4> QED BY <1>5, <4>1, <4>2 DEF RunsFirst
    <3>2. ProcessRuns
      BY <2>3 DEF RunFunctor, LoopAt
    <3>3. \/ /\ connections_' = connections_
             /\ \/ /\ op = "connectEstablished"
                   /\ Became(c, ConnectEstablished(conn[c], u, w))
                \/ op = "connectDestroyed" /\ Became(c, ConnectDestroyed(conn[c]))
                \/ op = "shutdownInLoop" /\ Became(c, ShutdownInLoop(conn[c]))
          \/ op = "removeConnectionInLoop" /\ RemoveConnectionInLoop(c)
      BY <2>3 DEF RunFunctor
    <3>4. CASE op = "removeConnectionInLoop" /\ RemoveConnectionInLoop(c)
      BY <1>2, <3>1, <3>2, <3>4, RemoveUsers
    <3>5. CASE /\ connections_' = connections_
               /\ \/ /\ op = "connectEstablished"
                     /\ Became(c, ConnectEstablished(conn[c], u, w))
                  \/ op = "connectDestroyed" /\ Became(c, ConnectDestroyed(conn[c]))
                  \/ op = "shutdownInLoop" /\ Became(c, ShutdownInLoop(conn[c]))
      BY <1>2, <3>1, <3>2, <3>5, FunctorUsers
    <3> QED BY <3>3, <3>4, <3>5
  <2>4. ASSUME NEW u \in UserActs, NEW w \in Writes, NEW a \in active[l],
               HandleActive(l, a, u, w)
        PROVE  UsersInv'
    <3>1. ProcessRuns
      BY <2>4 DEF HandleActive, LoopAt
    <3> QED BY <1>2, <1>5, <2>4, <3>1, EventUsers
  <2> QED BY <1>5, <2>1, <2>2, <2>3, <2>4 DEF LoopStep
<1>6. ASSUME NEW l \in Loops, NEW w \in Writes, RunSendInLoop(l, w)
      PROVE  UsersInv'
  <2> DEFINE op == Head(batch[l]).op
             c  == Head(batch[l]).conn
  <2>1. /\ ProcessRuns /\ RunsFirst(l) /\ connections_' = connections_
        /\ op = "sendInLoop" /\ Became(c, SendInLoop(conn[c], w))
    BY <1>6 DEF RunSendInLoop, RunsFirst, LoopAt
  <2>2. "none" \in UserActs
    BY ServerAssumption
  <2> QED BY <1>2, <2>1, <2>2, FunctorUsers
<1>7. ASSUME NEW c \in Shared, UserStep(c)
      PROVE  UsersInv'
  <2>1. ProcessRuns
    BY <1>7 DEF UserStep, SendQueues, ShutdownSets, ShutdownQueues, Release, UserAt
  <2> QED BY <1>2, <1>7, <2>1, UserStepUsers
<1>8. ASSUME NEW c \in Shared, Take(c) \/ \E op \in {"send", "shutdown"} : Call(c, op)
      PROVE  UsersInv'
  <2>1. ProcessRuns
    BY <1>8 DEF Take, Call, UserAt
  <2> QED BY <1>2, <1>8, <2>1, CallsUsers
<1> QED BY <1>1, <1>3, <1>4, <1>5, <1>6, <1>7, <1>8 DEF UsersNext, SharedLoopStep

LEMMA UsersInvInductive == UsersSafety => []UsersInv
<1>1. UsersInit => UsersInv
  <2> SUFFICES ASSUME UsersInit PROVE UsersInv
    OBVIOUS
  <2> USE DEF UsersInit, Init
  <2>1. <<>> \in Seq(Functors) /\ 1..Len(<<>>) = {} /\ <<>> \o <<>> = <<>>
    BY EmptySeq, ConcatEmptySeq
  <2>2. queue \in Queues /\ batch \in Queues /\ spent \in Queues
    BY <2>1 DEF Queues
  <2>3. \A l \in Loops : pending[l] = <<>> /\ queue[l] = <<>> /\ batch[l] = <<>> /\ spent[l] = <<>>
    BY <2>1 DEF pending
  <2>4. Unborn \in Shape
    BY DEF Unborn, Shape, Main
  <2>5. Sound(Unborn) /\ Unborn.died # "abort"
    BY <2>4 DEF Sound, Unborn
  <2>6. RecordsInv
    BY <2>4, <2>5 DEF RecordsInv
  <2>7. Live = {}
    <3>1. Held(<<>>) = {}
      BY <2>1, HeldIs
    <3> QED BY <2>3, <3>1 DEF Live
  <2>8. UsersTyped
    BY <2>2, ServerAssumption DEF UsersTyped
  <2>9. Places(pending, conn) /\ Once(pending) /\ BatchOnlyRuns
    BY <2>1, <2>3 DEF Places, Once, BatchOnlyRuns
  <2>10. EventsMet /\ CallersMet /\ LiveAgree
    BY <2>7 DEF EventsMet, CallersMet, LiveAgree
  <2> QED BY <2>6, <2>8, <2>9, <2>10 DEF UsersInv, RunInv
<1>2. UsersInv /\ [UsersNext]_usersVars => UsersInv'
  BY UsersStep
<1> QED BY <1>1, <1>2, PTL DEF UsersSafety

(* No epoll_ctl() of the server is LOG_FATAL either when other threads send *)
(* on its connections, shut them down and destroy the last shared_ptr while *)
(* raw pointers to them wait.                                               *)
THEOREM NoneIsFatalWithUsers == UsersSafety => []NoFatal
<1>1. UsersInv => NoFatal
  BY DEF UsersInv, RecordsInv, NoFatal
<1> QED BY <1>1, UsersInvInductive, PTL

(* A connection that its user has been told is down is never reported up    *)
(* again and never KConnected again, in whatever order send() and           *)
(* shutdown() of other threads come to its loop's callbacks.                *)
THEOREM NeverUpAfterDown == UsersSafety => []NeverUpAgain
<1>1. UsersInv => NeverUpAgain
  <2> SUFFICES ASSUME UsersInv, NEW c \in Conns, conn[c].downs > 0
               PROVE  conn[c].ups = 1 /\ conn[c].state \in {"KDisconnected", "KDisconnecting"}
    BY DEF NeverUpAgain
  <2>1. Sound(conn[c])
    BY DEF UsersInv, RecordsInv
  <2> QED BY <2>1 DEF Sound, Downed
<1> QED BY <1>1, UsersInvInductive, PTL
=============================================================================
