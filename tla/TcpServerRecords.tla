--------------------------- MODULE TcpServerRecords ---------------------------
(***************************************************************************)
(* What the callbacks of a connection do to its record, in three           *)
(* invariants.  Agrees: the poller's index and the kernel's epoll agree;   *)
(* any callback keeps it, on any record.  Orderly: how often handleClose() *)
(* can run for a connection, and what it has left behind then; the         *)
(* callbacks keep it where the server calls them.  Sound: what is left of  *)
(* that order when other threads call send() and shutdown() too.           *)
(***************************************************************************)
EXTENDS TcpServer, TLAPS

\* Connection records, with any number of callbacks.
Shape ==
  [loop: Nat, fd: Fds \cup {None},
   state: {"KConnecting", "KConnected", "KDisconnecting", "KDisconnected"},
   events: SUBSET {"R", "W"}, index: {"New", "Added", "Deleted"},
   reg: BOOLEAN, out: BOOLEAN, unread: BOOLEAN, fin: BOOLEAN, reset: BOOLEAN,
   err: {"none", "reset", "pipe"}, shutWr: BOOLEAN,
   ups: Nat, downs: Nat, closes: Nat,
   died: {"no", "abort", "sigpipe", "dangling"}]

\* The epoll holds the fd if and only if the poller believes so.
Agrees(k) == /\ k \in Shape
             /\ k.index = "Added" <=> k.reg = TRUE
             /\ k.died # "abort"

-----------------------------------------------------------------------------
\* The poller keeps the agreement, whatever the interest is.
LEMMA UpdateChannelAgrees ==
  ASSUME NEW k, Agrees(k)
  PROVE  Agrees(UpdateChannel(k))
BY ZenonT(30) DEF Agrees, Shape, UpdateChannel, Update

LEMMA RemoveChannelAgrees ==
  ASSUME NEW k, Agrees(k)
  PROVE  Agrees(RemoveChannel(k))
BY DEF Agrees, Shape, RemoveChannel, Update

LEMMA InterestAgrees ==
  ASSUME NEW k, Agrees(k)
  PROVE  /\ Agrees(EnableReading(k)) /\ Agrees(EnableWriting(k))
         /\ Agrees(DisableWriting(k)) /\ Agrees(DisableAll(k))
<1>1. \A e \in SUBSET {"R", "W"} : Agrees([k EXCEPT !.events = e])
  BY DEF Agrees, Shape
<1>2. k.events \in SUBSET {"R", "W"}
  BY DEF Agrees, Shape
<1>3. /\ k.events \cup {"R"} \in SUBSET {"R", "W"}
      /\ k.events \cup {"W"} \in SUBSET {"R", "W"}
      /\ k.events \ {"W"} \in SUBSET {"R", "W"}
      /\ {} \in SUBSET {"R", "W"}
  BY <1>2
<1> QED
  BY <1>1, <1>3, UpdateChannelAgrees
     DEF EnableReading, EnableWriting, DisableWriting, DisableAll

-----------------------------------------------------------------------------
\* Fields that neither the poller nor the epoll looks at.
LEMMA OtherFieldsAgree ==
  ASSUME NEW k, Agrees(k)
  PROVE  /\ \A s \in {"KConnecting", "KConnected", "KDisconnecting", "KDisconnected"} :
              Agrees([k EXCEPT !.state = s])
         /\ \A b \in BOOLEAN : /\ Agrees([k EXCEPT !.out = b])
                               /\ Agrees([k EXCEPT !.unread = b])
                               /\ Agrees([k EXCEPT !.fin = b])
                               /\ Agrees([k EXCEPT !.shutWr = b])
         /\ \A e \in {"none", "reset", "pipe"} :
              /\ Agrees([k EXCEPT !.err = e])
              /\ Agrees([k EXCEPT !.reset = TRUE, !.err = e])
         /\ \A d \in {"sigpipe", "dangling"} : Agrees([k EXCEPT !.died = d])
         /\ Agrees([k EXCEPT !.ups = @ + 1])
         /\ Agrees([k EXCEPT !.downs = @ + 1])
         /\ Agrees([k EXCEPT !.downs = @ + 1, !.closes = @ + 1])
<1> USE DEF Agrees, Shape
<1>1. \A s \in {"KConnecting", "KConnected", "KDisconnecting", "KDisconnected"} :
        Agrees([k EXCEPT !.state = s])
  OBVIOUS
<1>2. \A b \in BOOLEAN : Agrees([k EXCEPT !.out = b]) /\ Agrees([k EXCEPT !.unread = b])
  OBVIOUS
<1>3. \A b \in BOOLEAN : Agrees([k EXCEPT !.fin = b]) /\ Agrees([k EXCEPT !.shutWr = b])
  OBVIOUS
<1>4. \A e \in {"none", "reset", "pipe"} : Agrees([k EXCEPT !.err = e])
  OBVIOUS
<1>5. \A e \in {"none", "reset", "pipe"} : Agrees([k EXCEPT !.reset = TRUE, !.err = e])
  OBVIOUS
<1>6. \A d \in {"sigpipe", "dangling"} : Agrees([k EXCEPT !.died = d])
  OBVIOUS
<1>7. Agrees([k EXCEPT !.ups = @ + 1])
  OBVIOUS
<1>8. Agrees([k EXCEPT !.downs = @ + 1])
  OBVIOUS
<1>9. Agrees([k EXCEPT !.downs = @ + 1, !.closes = @ + 1])
  <2>1. \A m, n \in Nat : Agrees([k EXCEPT !.downs = m, !.closes = n])
    OBVIOUS
  <2>2. k.downs + 1 \in Nat /\ k.closes + 1 \in Nat
    OBVIOUS
  <2> HIDE DEF Agrees, Shape
  <2> QED BY <2>1, <2>2
<1> HIDE DEF Agrees, Shape
<1> QED BY <1>1, <1>2, <1>3, <1>4, <1>5, <1>6, <1>7, <1>8, <1>9

\* The calls that write to the socket.
LEMMA SendAgrees ==
  ASSUME NEW k, Agrees(k), NEW w \in Writes
  PROVE  /\ Agrees(ShutdownInLoop(k))
         /\ Agrees(WriteToReset(k))
         /\ Agrees(SendInLoop(k, w))
<1>1. Agrees(ShutdownInLoop(k))
  BY OtherFieldsAgree, Zenon DEF ShutdownInLoop, ShutdownWrite
<1>2. Agrees(WriteToReset(k))
  BY OtherFieldsAgree, Zenon DEF WriteToReset
<1>3. Agrees(SendInLoop(k, w))
  <2> DEFINE buffered == [k EXCEPT !.out = TRUE]
  <2>1. Agrees(buffered)
    BY OtherFieldsAgree, Zenon
  <2>2. Agrees(EnableWriting(buffered))
    BY <2>1, InterestAgrees
  <2>3. Agrees([k EXCEPT !.died = "sigpipe"])
    BY OtherFieldsAgree, Zenon
  <2>4. k.reset \in BOOLEAN /\ k.shutWr \in BOOLEAN /\ k.out \in BOOLEAN
    BY DEF Agrees, Shape
  <2>5. \/ SendInLoop(k, w) = buffered
        \/ SendInLoop(k, w) = EnableWriting(buffered)
        \/ SendInLoop(k, w) = WriteToReset(k)
        \/ SendInLoop(k, w) = [k EXCEPT !.died = "sigpipe"]
        \/ SendInLoop(k, w) = k
    <3> HIDE DEF buffered
    <3>1. CASE IsWriting(k)
      BY <3>1 DEF SendInLoop, buffered
    <3>2. CASE ~IsWriting(k) /\ k.out
      BY <3>2 DEF SendInLoop, buffered
    <3>3. CASE ~IsWriting(k) /\ ~k.out
      BY <3>3, <2>4 DEF SendInLoop, buffered, Writes
    <3> QED BY <3>1, <3>2, <3>3
  <2> HIDE DEF buffered
  <2> QED BY <1>2, <2>1, <2>2, <2>3, <2>5
<1> QED BY <1>1, <1>2, <1>3

\* What the user may call, and the callbacks of a channel.
LEMMA UserCodeAgrees ==
  ASSUME NEW k, Agrees(k), NEW u \in UserActs, NEW w \in Writes
  PROVE  Agrees(UserCode(k, u, w))
<1>1. ASSUME NEW j, Agrees(j) PROVE Agrees(Send(j, w))
  BY <1>1, SendAgrees DEF Send
<1>2. ASSUME NEW j, Agrees(j) PROVE Agrees(Shutdown(j))
  BY <1>2, OtherFieldsAgree, Zenon DEF Shutdown
<1> QED BY <1>1, <1>2, ServerAssumption DEF UserCode

LEMMA HandleCloseAgrees ==
  ASSUME NEW k, Agrees(k)
  PROVE  Agrees(HandleClose(k)) /\ Agrees(HandleError(k))
<1>1. ASSUME NEW j, Agrees(j)
      PROVE  Agrees(HandleClose(j))
  <2> DEFINE off == DisableAll([j EXCEPT !.state = "KDisconnected"])
  <2>1. Agrees(off)
    BY <1>1, OtherFieldsAgree, InterestAgrees, Zenon
  <2> HIDE DEF off
  <2>2. Agrees([off EXCEPT !.downs = @ + 1, !.closes = @ + 1])
    BY <2>1, OtherFieldsAgree, Zenon
  <2> QED BY <2>2 DEF HandleClose, off
<1>2. Agrees([k EXCEPT !.err = "none"])
  BY OtherFieldsAgree, Zenon
<1> QED BY <1>1, <1>2 DEF HandleError

\* What handleRead() and handleWrite() may do.
LEMMA HandleReadCases ==
  ASSUME NEW k, NEW u, NEW w
  PROVE  \/ k.unread /\ HandleRead(k, u, w) = UserCode([k EXCEPT !.unread = FALSE], u, w)
         \/ ~k.unread /\ HandleRead(k, u, w) = HandleClose(k)
         \/ ~k.unread /\ HandleRead(k, u, w) = HandleError(k)
BY DEF HandleRead

LEMMA HandleWriteCases ==
  ASSUME NEW k, NEW w
  PROVE  LET drained == DisableWriting([k EXCEPT !.out = FALSE]) IN
         \/ HandleWrite(k, w) = k
         \/ HandleWrite(k, w) = WriteToReset(k)
         \/ HandleWrite(k, w) = [k EXCEPT !.died = "sigpipe"]
         \/ HandleWrite(k, w) = drained
         \/ HandleWrite(k, w) = ShutdownInLoop(drained)
BY DEF HandleWrite

LEMMA HandleReadWriteAgrees ==
  ASSUME NEW k, Agrees(k), NEW u \in UserActs, NEW w \in Writes
  PROVE  Agrees(HandleRead(k, u, w)) /\ Agrees(HandleWrite(k, w))
<1>1. Agrees(HandleRead(k, u, w))
  <2>1. Agrees([k EXCEPT !.unread = FALSE])
    BY OtherFieldsAgree, Zenon
  <2>2. \/ HandleRead(k, u, w) = UserCode([k EXCEPT !.unread = FALSE], u, w)
        \/ HandleRead(k, u, w) = HandleClose(k)
        \/ HandleRead(k, u, w) = HandleError(k)
    BY HandleReadCases
  <2> QED BY <2>1, <2>2, UserCodeAgrees, HandleCloseAgrees
<1>2. Agrees(HandleWrite(k, w))
  <2> DEFINE drained == DisableWriting([k EXCEPT !.out = FALSE])
  <2>1. Agrees(drained)
    BY OtherFieldsAgree, InterestAgrees, Zenon
  <2>2. \/ HandleWrite(k, w) = k
        \/ HandleWrite(k, w) = WriteToReset(k)
        \/ HandleWrite(k, w) = [k EXCEPT !.died = "sigpipe"]
        \/ HandleWrite(k, w) = drained
        \/ HandleWrite(k, w) = ShutdownInLoop(drained)
    BY HandleWriteCases
  <2> HIDE DEF drained
  <2>3. Agrees(ShutdownInLoop(drained))
    BY <2>1, SendAgrees
  <2>4. Agrees([k EXCEPT !.died = "sigpipe"])
    BY OtherFieldsAgree, Zenon
  <2> QED BY <2>1, <2>2, <2>3, <2>4, SendAgrees
<1> QED BY <1>1, <1>2

\* Up to four callbacks for one event.
LEMMA HandleEventAgrees ==
  ASSUME NEW k, Agrees(k), NEW rev, NEW u \in UserActs, NEW w \in Writes
  PROVE  Agrees(HandleEvent(k, rev, u, w))
<1> DEFINE k1 == IF "HUP" \in rev /\ "IN" \notin rev THEN HandleClose(k) ELSE k
           k2 == IF "ERR" \in rev THEN HandleError(k1) ELSE k1
           k3 == IF "IN" \in rev THEN HandleRead(k2, u, w) ELSE k2
           k4 == IF "OUT" \in rev THEN HandleWrite(k3, w) ELSE k3
<1>1. Agrees(k1)
  BY HandleCloseAgrees
<1>2. Agrees(k2)
  <2> HIDE DEF k1
  <2> QED BY <1>1, HandleCloseAgrees
<1>3. Agrees(k3)
  <2> HIDE DEF k2
  <2> QED BY <1>2, HandleReadWriteAgrees
<1>4. Agrees(k4)
  <2> HIDE DEF k3
  <2> QED BY <1>3, HandleReadWriteAgrees
<1>5. HandleEvent(k, rev, u, w) = k4
  BY DEF HandleEvent
<1> HIDE DEF k4
<1> QED BY <1>4, <1>5

\* The first and the last functor of a connection.
LEMMA ConnectAgrees ==
  ASSUME NEW k, Agrees(k), NEW u \in UserActs, NEW w \in Writes
  PROVE  Agrees(ConnectEstablished(k, u, w)) /\ Agrees(ConnectDestroyed(k))
<1>1. Agrees(ConnectEstablished(k, u, w))
  <2> DEFINE on == EnableReading([k EXCEPT !.state = "KConnected"])
  <2>1. Agrees(on)
    BY OtherFieldsAgree, InterestAgrees, Zenon
  <2> HIDE DEF on
  <2>2. Agrees([on EXCEPT !.ups = @ + 1])
    BY <2>1, OtherFieldsAgree, Zenon
  <2> QED BY <2>2, UserCodeAgrees DEF ConnectEstablished, on
<1>2. Agrees(ConnectDestroyed(k))
  <2> DEFINE off == DisableAll([k EXCEPT !.state = "KDisconnected"])
  <2>1. Agrees(off)
    BY OtherFieldsAgree, InterestAgrees, Zenon
  <2> HIDE DEF off
  <2>2. Agrees([off EXCEPT !.downs = @ + 1])
    BY <2>1, OtherFieldsAgree, Zenon
  <2> QED BY <2>2, RemoveChannelAgrees DEF ConnectDestroyed, off
<1> QED BY <1>1, <1>2

-----------------------------------------------------------------------------
(***************************************************************************)
(* A connection's history.  It is established once, then handleClose() may *)
(* run up to three times, each time with a DOWN: a reset socket reports    *)
(* ERR and IN, each of which closes it; the second registers the channel   *)
(* again, and the HUP that epoll then reports closes it once more.         *)
(***************************************************************************)
Orderly(k) ==
  /\ k \in TcpConnection
  /\ k.index = "Added" <=> k.reg = TRUE
  /\ k.downs = k.closes
  /\ k.err # "none" => k.reset = TRUE
  /\ k.fd # None => k.loop \in IoLoops
  /\ k.ups = 0 => /\ k.state = "KConnecting" /\ k.events = {}
                  /\ k.index = "New" /\ k.closes = 0
  /\ k.ups = 1 => k.fd # None
  /\ k.ups = 1 /\ k.closes = 0 => /\ k.state \in {"KConnected", "KDisconnecting"}
                                  /\ k.index = "Added" /\ "R" \in k.events
  /\ k.closes > 0 => k.state = "KDisconnected" /\ k.events = {}
  /\ k.closes \in {1, 3} => k.index # "Added"
  /\ k.closes = 2 => k.index # "Deleted" /\ k.err = "none" /\ k.reset = TRUE

\* What a callback of an established connection leaves alone.
Kin(k, h) == h.loop = k.loop /\ h.fd = k.fd /\ h.ups = k.ups

\* handleClose() of a channel that the poller knows, field by field.
LEMMA CloseForm ==
  ASSUME NEW k, Orderly(k), k.index # "New"
  PROVE  HandleClose(k) =
           [k EXCEPT !.state = "KDisconnected", !.events = {},
                     !.index = IF k.index = "Added" THEN "Deleted" ELSE "Added",
                     !.reg = IF k.index = "Added" THEN FALSE ELSE TRUE,
                     !.downs = @ + 1, !.closes = @ + 1]
<1>1. /\ k \in TcpConnection /\ k.index \in {"Added", "Deleted"}
      /\ k.index = "Added" <=> k.reg = TRUE
  BY DEF Orderly, TcpConnection
<1> DEFINE g == [[k EXCEPT !.state = "KDisconnected"] EXCEPT !.events = {}]
<1>2. /\ HandleClose(k) = [UpdateChannel(g) EXCEPT !.downs = @ + 1, !.closes = @ + 1]
      /\ g.index = k.index /\ g.events = {} /\ g.reg = k.reg
      /\ g \in TcpConnection
  BY <1>1 DEF HandleClose, DisableAll, TcpConnection
<1> DEFINE t(i, r) == [k EXCEPT !.state = "KDisconnected", !.events = {}, !.index = i,
                                !.reg = r, !.downs = @ + 1, !.closes = @ + 1]
<1>3. \A i, r : t(i, r) = [[[g EXCEPT !.index = i] EXCEPT !.reg = r]
                             EXCEPT !.downs = @ + 1, !.closes = @ + 1]
  BY <1>1 DEF TcpConnection
<1>4. CASE k.index = "Added"
  <2>1. UpdateChannel(g) = [[g EXCEPT !.index = "Deleted"] EXCEPT !.reg = FALSE]
    <3> HIDE DEF g
    <3> QED BY <1>2, <1>4 DEF UpdateChannel, Update
  <2> HIDE DEF t, g
  <2>2. HandleClose(k) = t("Deleted", FALSE)
    BY <1>2, <1>3, <2>1
  <2> QED BY <1>4, <2>2 DEF t
<1>5. CASE k.index = "Deleted"
  <2>1. UpdateChannel(g) = [[g EXCEPT !.index = "Added"] EXCEPT !.reg = TRUE]
    <3> HIDE DEF g
    <3>1. UpdateChannel(g) = Update([g EXCEPT !.index = "Added"], "ADD")
      BY <1>2, <1>5 DEF UpdateChannel
    <3>2. g.reg = FALSE
      BY <1>1, <1>2, <1>5 DEF TcpConnection
    <3> QED BY <1>2, <3>1, <3>2 DEF Update, TcpConnection
  <2> HIDE DEF t, g
  <2>2. HandleClose(k) = t("Added", TRUE)
    BY <1>2, <1>3, <2>1
  <2> QED BY <1>5, <2>2 DEF t
<1> QED BY <1>1, <1>4, <1>5

\* When handleClose() may run, and what it leaves behind.
MayClose(k) == /\ Orderly(k) /\ k.index # "New" /\ k.closes \in {0, 1, 2}
               /\ k.closes = 1 => k.err = "none" /\ k.reset = TRUE
ClosedOnce(k, h) == /\ Orderly(h) /\ Kin(k, h) /\ h.index # "New"
                    /\ h.closes = k.closes + 1 /\ h.state = "KDisconnected"
                    /\ h.reset = k.reset

\* handleClose() runs at most three times, and toggles the registration.
LEMMA CloseOrderly ==
  ASSUME NEW k, MayClose(k)
  PROVE  ClosedOnce(k, HandleClose(k))
<1> DEFINE h == [k EXCEPT !.state = "KDisconnected", !.events = {},
                     !.index = IF k.index = "Added" THEN "Deleted" ELSE "Added",
                     !.reg = IF k.index = "Added" THEN FALSE ELSE TRUE,
                     !.downs = @ + 1, !.closes = @ + 1]
<1> USE DEF MayClose
<1>1. k \in TcpConnection
  BY DEF Orderly
<1>2. /\ h.state = "KDisconnected" /\ h.events = {}
      /\ h.index = (IF k.index = "Added" THEN "Deleted" ELSE "Added")
      /\ h.reg = (IF k.index = "Added" THEN FALSE ELSE TRUE)
      /\ h.downs = k.downs + 1 /\ h.closes = k.closes + 1
      /\ h.loop = k.loop /\ h.fd = k.fd /\ h.ups = k.ups /\ h.err = k.err /\ h.reset = k.reset
  BY <1>1 DEF TcpConnection
<1>3. /\ k.downs = k.closes /\ k.closes \in {0, 1, 2} /\ k.ups \in {0, 1}
      /\ k.index \in {"Added", "Deleted"}
  BY <1>1 DEF Orderly, TcpConnection
<1>4. h \in TcpConnection
  <2>1. \A i \in {"New", "Added", "Deleted"}, r \in BOOLEAN, n \in 0..3 :
          [k EXCEPT !.state = "KDisconnected", !.events = {}, !.index = i, !.reg = r,
                    !.downs = n, !.closes = n] \in TcpConnection
    BY <1>1, ZenonT(30) DEF TcpConnection
  <2>2. k.downs + 1 = k.closes + 1 /\ k.closes + 1 \in 0..3
    BY <1>3
  <2> QED BY <2>1, <2>2, Zenon
<1>5. Orderly(h)
  <2> HIDE DEF h
  <2> QED BY <1>1, <1>2, <1>3, <1>4 DEF Orderly
<1>6. HandleClose(k) = h
  BY CloseForm
<1> HIDE DEF h
<1> QED BY <1>2, <1>5, <1>6 DEF Kin, ClosedOnce

\* What calls of the user and writes to the socket leave alone as well.
Same(k, h) == Kin(k, h) /\ h.closes = k.closes /\ h.index = k.index /\ h.reset = k.reset

\* A record that differs only in what the invariant does not look at.
LEMMA OrderlyByFields ==
  ASSUME NEW k, Orderly(k), NEW h \in TcpConnection, Same(k, h),
         h.err \in {k.err, "none"}, h.reg = k.reg, h.downs = k.downs,
         \/ h.events = k.events /\ h.state = k.state
         \/ k.ups = 1 /\ k.closes = 0 /\ "R" \in h.events
            /\ h.state \in {"KConnected", "KDisconnecting"}
  PROVE  Orderly(h)
<1>1. k.ups \in {0, 1}
  BY DEF Orderly, TcpConnection
<1> QED BY <1>1 DEF Orderly, Same, Kin

\* handleError(), which fetches the error first.
MayFail(k) == /\ Orderly(k) /\ k.index # "New" /\ k.closes \in {0, 1}
              /\ k.closes = 1 => k.reset = TRUE

\* handleError() is handleClose() without the error.
LEMMA ErrorOrderly ==
  ASSUME NEW k, MayFail(k)
  PROVE  ClosedOnce(k, HandleError(k)) /\ HandleError(k).err = "none"
<1> DEFINE h == [k EXCEPT !.err = "none"]
<1>1. k \in TcpConnection /\ Orderly(k)
  BY DEF MayFail, Orderly
<1>2. h \in TcpConnection /\ Same(k, h) /\ h.err = "none" /\ h.reg = k.reg
      /\ h.downs = k.downs /\ h.events = k.events /\ h.state = k.state
  BY <1>1 DEF TcpConnection, Same, Kin
<1>3. HandleError(k) = HandleClose(h)
  BY DEF HandleError
<1> HIDE DEF h
<1>4. Orderly(h)
  BY <1>1, <1>2, OrderlyByFields
<1>5. MayClose(h)
  BY <1>2, <1>4 DEF MayClose, MayFail, Same
<1>6. ClosedOnce(h, HandleClose(h))
  BY <1>5, CloseOrderly
<1>7. HandleClose(h).err = "none"
  <2>1. Orderly(h) /\ h.index # "New" /\ h \in TcpConnection /\ h.err = "none"
    BY <1>2, <1>5 DEF MayClose
  <2> DEFINE g == [h EXCEPT !.state = "KDisconnected", !.events = {},
                     !.index = IF h.index = "Added" THEN "Deleted" ELSE "Added",
                     !.reg = IF h.index = "Added" THEN FALSE ELSE TRUE,
                     !.downs = @ + 1, !.closes = @ + 1]
  <2>2. HandleClose(h) = g
    BY <2>1, CloseForm
  <2>3. g.err = h.err
    BY <2>1 DEF TcpConnection
  <2> HIDE DEF g
  <2> QED BY <2>1, <2>2, <2>3
<1> QED BY <1>2, <1>3, <1>6, <1>7 DEF Same, Kin, ClosedOnce

\* An established connection that has not been closed.
IsUp(k) == Orderly(k) /\ k.ups = 1 /\ k.closes = 0

\* What may become of it without being closed.
StaysUp(k, h) == IsUp(h) /\ Same(k, h) /\ h.err \in {k.err, "none"}

\* One callback after the other leaves a connection up.
LEMMA StaysUpTransitive ==
  ASSUME NEW k, NEW h, NEW g, StaysUp(k, h), StaysUp(h, g)
  PROVE  StaysUp(k, g)
BY DEF StaysUp, Same, Kin

\* What an established connection looks like to the poller.
LEMMA UpFields ==
  ASSUME NEW k, IsUp(k)
  PROVE  /\ k \in TcpConnection /\ k.index = "Added" /\ k.reg = TRUE
         /\ k.state \in {"KConnected", "KDisconnecting"}
         /\ k.events \in SUBSET {"R", "W"} /\ "R" \in k.events
         /\ k.out \in BOOLEAN /\ k.reset \in BOOLEAN /\ k.shutWr \in BOOLEAN
         /\ StaysUp(k, k)
BY DEF IsUp, Orderly, TcpConnection, StaysUp, Same, Kin

\* A connection that keeps its registration and its reading stays up.
LEMMA UpByFields ==
  ASSUME NEW k, IsUp(k), NEW h \in TcpConnection, Same(k, h),
         h.err \in {k.err, "none"}, h.reg = k.reg, h.downs = k.downs,
         h.state \in {"KConnected", "KDisconnecting"}, "R" \in h.events
  PROVE  StaysUp(k, h)
<1>1. Orderly(h)
  BY OrderlyByFields DEF IsUp
<1> QED BY <1>1 DEF IsUp, StaysUp, Same, Kin

\* enableWriting() and disableWriting() modify the registration.
LEMMA InterestUp ==
  ASSUME NEW k, IsUp(k)
  PROVE  /\ StaysUp(k, EnableWriting(k))
         /\ StaysUp(k, DisableWriting(k))
<1>1. /\ k \in TcpConnection /\ k.index = "Added" /\ k.reg = TRUE
      /\ k.state \in {"KConnected", "KDisconnecting"}
  BY UpFields
<1>2. ASSUME NEW e \in SUBSET {"R", "W"}, "R" \in e
      PROVE  StaysUp(k, UpdateChannel([k EXCEPT !.events = e]))
  <2> DEFINE h == [k EXCEPT !.events = e]
  <2>1. h \in TcpConnection /\ Same(k, h) /\ h.err = k.err /\ h.reg = k.reg
        /\ h.downs = k.downs /\ h.state = k.state /\ h.events = e
    BY <1>1 DEF TcpConnection, Same, Kin
  <2>2. UpdateChannel(h) = h
    BY <1>1, <1>2 DEF UpdateChannel, Update, TcpConnection
  <2> HIDE DEF h
  <2> QED BY <1>1, <1>2, <2>1, <2>2, UpByFields DEF h
<1>3. k.events \in SUBSET {"R", "W"} /\ "R" \in k.events
  BY UpFields
<1>4. k.events \cup {"W"} \in SUBSET {"R", "W"} /\ "R" \in k.events \cup {"W"}
  BY <1>3
<1>5. k.events \ {"W"} \in SUBSET {"R", "W"} /\ "R" \in k.events \ {"W"}
  BY <1>3
<1> QED BY <1>2, <1>4, <1>5 DEF EnableWriting, DisableWriting

\* Writing, reading and shutting down the socket leave the connection up.
LEMMA SocketUp ==
  ASSUME NEW k, IsUp(k), NEW w \in Writes
  PROVE  /\ StaysUp(k, [k EXCEPT !.out = TRUE]) /\ StaysUp(k, [k EXCEPT !.out = FALSE])
         /\ StaysUp(k, [k EXCEPT !.unread = FALSE])
         /\ StaysUp(k, [k EXCEPT !.died = "sigpipe"])
         /\ StaysUp(k, [k EXCEPT !.state = "KDisconnecting"])
         /\ StaysUp(k, ShutdownInLoop(k))
         /\ StaysUp(k, WriteToReset(k))
<1>1. /\ k \in TcpConnection /\ k.state \in {"KConnected", "KDisconnecting"}
      /\ StaysUp(k, k) /\ "R" \in k.events
  BY UpFields
<1>2. ASSUME NEW h \in {[k EXCEPT !.out = TRUE], [k EXCEPT !.out = FALSE],
                        [k EXCEPT !.unread = FALSE], [k EXCEPT !.died = "sigpipe"],
                        [k EXCEPT !.state = "KDisconnecting"],
                        [k EXCEPT !.shutWr = TRUE], [k EXCEPT !.err = "none"]}
      PROVE  StaysUp(k, h)
  <2>1. h \in TcpConnection
    <3>1. /\ [k EXCEPT !.out = TRUE] \in TcpConnection
          /\ [k EXCEPT !.out = FALSE] \in TcpConnection
          /\ [k EXCEPT !.unread = FALSE] \in TcpConnection
      BY <1>1 DEF TcpConnection
    <3>2. /\ [k EXCEPT !.died = "sigpipe"] \in TcpConnection
          /\ [k EXCEPT !.state = "KDisconnecting"] \in TcpConnection
      BY <1>1 DEF TcpConnection
    <3>3. /\ [k EXCEPT !.shutWr = TRUE] \in TcpConnection
          /\ [k EXCEPT !.err = "none"] \in TcpConnection
      BY <1>1 DEF TcpConnection
    <3> QED BY <1>2, <3>1, <3>2, <3>3
  <2>2. /\ Same(k, h) /\ h.err \in {k.err, "none"} /\ h.reg = k.reg /\ "R" \in h.events
        /\ h.downs = k.downs /\ h.state \in {"KConnected", "KDisconnecting"}
    BY <1>1, <1>2 DEF TcpConnection, Same, Kin
  <2> QED BY <2>1, <2>2, UpByFields
<1>3. StaysUp(k, ShutdownInLoop(k))
  BY <1>1, <1>2 DEF ShutdownInLoop, ShutdownWrite
<1>4. StaysUp(k, WriteToReset(k))
  BY <1>2 DEF WriteToReset
<1> QED BY <1>2, <1>3, <1>4

\* send() and shutdown() on the connection's own thread.
LEMMA CallsUp ==
  ASSUME NEW k, IsUp(k), NEW w \in Writes
  PROVE  StaysUp(k, Send(k, w)) /\ StaysUp(k, Shutdown(k))
<1> DEFINE buffered == [k EXCEPT !.out = TRUE]
<1>1. StaysUp(k, k) /\ k.out \in BOOLEAN /\ k.reset \in BOOLEAN /\ k.shutWr \in BOOLEAN
  BY UpFields
<1>2. StaysUp(k, buffered)
  BY SocketUp
<1>3. StaysUp(k, EnableWriting(buffered))
  <2> HIDE DEF buffered
  <2>1. IsUp(buffered)
    BY <1>2 DEF StaysUp
  <2> QED BY <1>2, <2>1, InterestUp, StaysUpTransitive
<1>4. StaysUp(k, SendInLoop(k, w))
  <2>1. CASE IsWriting(k)
    BY <1>2, <2>1 DEF SendInLoop
  <2>2. CASE ~IsWriting(k) /\ k.out
    BY <1>3, <2>2 DEF SendInLoop
  <2>3. CASE ~IsWriting(k) /\ ~k.out
    <3>1. \/ SendInLoop(k, w) = WriteToReset(k)
          \/ SendInLoop(k, w) = [k EXCEPT !.died = "sigpipe"]
          \/ SendInLoop(k, w) = k
          \/ SendInLoop(k, w) = EnableWriting(buffered)
      BY <1>1, <2>3 DEF SendInLoop, Writes
    <3> HIDE DEF buffered
    <3> QED BY <1>1, <1>3, <3>1, SocketUp
  <2> QED BY <2>1, <2>2, <2>3
<1>5. StaysUp(k, Send(k, w))
  BY <1>1, <1>4 DEF Send
<1>6. StaysUp(k, Shutdown(k))
  BY <1>1, SocketUp DEF Shutdown
<1> QED BY <1>5, <1>6

LEMMA UserCodeUp ==
  ASSUME NEW k, IsUp(k), NEW u \in UserActs, NEW w \in Writes
  PROVE  StaysUp(k, UserCode(k, u, w))
<1> DEFINE j == Send(k, w)
<1>1. StaysUp(k, k) /\ StaysUp(k, j) /\ StaysUp(k, Shutdown(k))
  BY UpFields, CallsUp
<1> HIDE DEF j
<1>2. StaysUp(j, Shutdown(j))
  BY <1>1, CallsUp DEF StaysUp
<1>3. StaysUp(k, Shutdown(j))
  BY <1>1, <1>2, StaysUpTransitive
<1> QED BY <1>1, <1>3, ServerAssumption DEF UserCode, j

\* User code does nothing to a connection that is down.
LEMMA UserCodeDown ==
  ASSUME NEW k, k.state = "KDisconnected", NEW u \in UserActs, NEW w \in Writes
  PROVE  UserCode(k, u, w) = k
BY ServerAssumption DEF UserCode, Send, Shutdown

\* handleWrite() leaves an established connection up.
LEMMA WriteUp ==
  ASSUME NEW k, IsUp(k), NEW w \in Writes
  PROVE  StaysUp(k, HandleWrite(k, w))
<1> DEFINE clear   == [k EXCEPT !.out = FALSE]
           drained == DisableWriting(clear)
<1>1. StaysUp(k, k)
  BY UpFields
<1>2. StaysUp(k, clear)
  BY SocketUp
<1>3. StaysUp(k, drained)
  <2> HIDE DEF clear
  <2>1. IsUp(clear)
    BY <1>2 DEF StaysUp
  <2> QED BY <1>2, <2>1, InterestUp, StaysUpTransitive
<1>4. StaysUp(k, ShutdownInLoop(drained))
  <2> HIDE DEF drained
  <2>1. IsUp(drained)
    BY <1>3 DEF StaysUp
  <2> QED BY <1>3, <2>1, SocketUp, StaysUpTransitive
<1>5. \/ HandleWrite(k, w) = k
      \/ HandleWrite(k, w) = WriteToReset(k)
      \/ HandleWrite(k, w) = [k EXCEPT !.died = "sigpipe"]
      \/ HandleWrite(k, w) = drained
      \/ HandleWrite(k, w) = ShutdownInLoop(drained)
  BY HandleWriteCases
<1> HIDE DEF drained
<1> QED BY <1>1, <1>3, <1>4, <1>5, SocketUp

\* One event: the callbacks of a registered channel.
LEMMA EventOrderly ==
  ASSUME NEW k, Orderly(k), k.reg = TRUE, NEW rev, rev \subseteq Revents(k),
         NEW u \in UserActs, NEW w \in Writes
  PROVE  LET h == HandleEvent(k, rev, u, w)
         IN  Orderly(h) /\ Kin(k, h) /\ h.index # "New" /\ h.closes >= k.closes
<1> DEFINE k1 == IF "HUP" \in rev /\ "IN" \notin rev THEN HandleClose(k) ELSE k
           k2 == IF "ERR" \in rev THEN HandleError(k1) ELSE k1
           k3 == IF "IN" \in rev THEN HandleRead(k2, u, w) ELSE k2
           k4 == IF "OUT" \in rev THEN HandleWrite(k3, w) ELSE k3
<1>1. HandleEvent(k, rev, u, w) = k4
  BY DEF HandleEvent
<1>2. /\ k \in TcpConnection /\ k.ups \in {0, 1} /\ k.closes \in {0, 1, 2, 3}
      /\ k.index = "Added" /\ k.reset \in BOOLEAN
  BY DEF Orderly, TcpConnection
<1>3. k.ups = 1 /\ k.closes \in {0, 2}
  BY <1>2 DEF Orderly
<1>4. "ERR" \in rev => k.err # "none" /\ k.reset = TRUE
  BY <1>2 DEF Revents, Orderly
<1>5. /\ "IN" \in rev => "R" \in k.events
      /\ "OUT" \in rev => IsWriting(k)
  BY DEF Revents
<1>6. CASE k.closes = 2
  <2>1. k.events = {} /\ k.err = "none"
    BY <1>6 DEF Orderly
  <2>2. "ERR" \notin rev /\ "IN" \notin rev /\ "OUT" \notin rev
    BY <1>4, <1>5, <2>1 DEF IsWriting
  <2>3. k4 = HandleClose(k) \/ k4 = k
    BY <2>2
  <2> HIDE DEF k4
  <2>4. CASE k4 = k
    BY <1>1, <1>2, <2>4 DEF Orderly, Kin
  <2>5. CASE k4 = HandleClose(k)
    <3>1. MayClose(k)
      BY <1>2, <1>6 DEF MayClose
    <3>2. ClosedOnce(k, k4)
      BY <2>5, <3>1, CloseOrderly
    <3> QED BY <1>1, <1>6, <3>2 DEF ClosedOnce
  <2> QED BY <2>3, <2>4, <2>5
<1>7. CASE k.closes = 0
  <2> DEFINE Closed1(h) == /\ Orderly(h) /\ Kin(k, h) /\ h.closes \in {1, 2}
                           /\ h.index # "New" /\ h.state = "KDisconnected"
                           /\ h.reset = k.reset
             Fine(h) == StaysUp(k, h) \/ Closed1(h)
  <2>1. IsUp(k) /\ StaysUp(k, k)
    BY <1>3, <1>7, UpFields DEF IsUp
  <2>2. \/ k1 = k
        \/ /\ "IN" \notin rev /\ Closed1(k1) /\ k1.closes = 1
    <3>1. MayClose(k)
      BY <1>2, <1>7 DEF MayClose
    <3>2. ClosedOnce(k, HandleClose(k))
      BY <3>1, CloseOrderly
    <3> QED BY <1>7, <3>2 DEF ClosedOnce
  <2>3. \/ StaysUp(k, k2)
        \/ /\ Closed1(k2)
           /\ "IN" \in rev => k2.closes = 1 /\ k2.reset = TRUE /\ k2.err = "none"
    <3> HIDE DEF k1
    <3>1. CASE "ERR" \notin rev
      BY <2>1, <2>2, <3>1
    <3>2. CASE "ERR" \in rev /\ k1 = k
      <4>1. k2 = HandleError(k)
        BY <3>2
      <4> HIDE DEF k2
      <4>2. MayFail(k)
        BY <1>2, <1>7 DEF MayFail
      <4>3. ClosedOnce(k, k2) /\ k2.err = "none"
        BY <4>1, <4>2, ErrorOrderly
      <4> QED BY <1>4, <1>7, <3>2, <4>3 DEF ClosedOnce
    <3>3. CASE "ERR" \in rev /\ k1 # k
      <4>1. k2 = HandleError(k1)
        BY <3>3
      <4>2. /\ Orderly(k1) /\ Kin(k, k1) /\ k1.closes = 1 /\ k1.index # "New"
            /\ k1.reset = TRUE /\ "IN" \notin rev
        BY <1>4, <2>2, <3>3
      <4> HIDE DEF k2
      <4>3. MayFail(k1)
        BY <4>2 DEF MayFail
      <4>4. ClosedOnce(k1, k2)
        BY <4>1, <4>3, ErrorOrderly
      <4>5. k2.closes = 2
        BY <4>2, <4>4 DEF ClosedOnce
      <4>6. Closed1(k2)
        BY <1>4, <3>3, <4>2, <4>4, <4>5 DEF ClosedOnce, Kin
      <4> QED BY <4>2, <4>6
    <3> QED BY <3>1, <3>2, <3>3
  <2>4. Fine(k3)
    <3> HIDE DEF k2
    <3>1. CASE "IN" \notin rev
      BY <2>3, <3>1
    <3>2. CASE "IN" \in rev /\ StaysUp(k, k2)
      <4>1. k3 = HandleRead(k2, u, w)
        BY <3>2
      <4> HIDE DEF k3
      <4>2. IsUp(k2) /\ k2 \in TcpConnection /\ k2.index = "Added" /\ k2.closes = 0
            /\ k2.reset = k.reset
        BY <3>2, UpFields DEF StaysUp, IsUp, Same
      <4>3. CASE k2.unread
        <5> DEFINE j == [k2 EXCEPT !.unread = FALSE]
        <5>1. StaysUp(k2, j)
          BY <4>2, SocketUp
        <5>2. k3 = UserCode(j, u, w)
          BY <4>1, <4>3 DEF HandleRead
        <5> HIDE DEF j
        <5>3. StaysUp(j, k3)
          BY <5>1, <5>2, UserCodeUp DEF StaysUp
        <5> QED BY <3>2, <5>1, <5>3, StaysUpTransitive
      <4>4. CASE ~k2.unread
        <5>1. k3 = HandleClose(k2) \/ k3 = HandleError(k2)
          BY <4>1, <4>4 DEF HandleRead
        <5>2. MayClose(k2) /\ MayFail(k2)
          BY <4>2 DEF MayClose, MayFail, IsUp
        <5>3. ClosedOnce(k2, k3)
          BY <5>1, <5>2, CloseOrderly, ErrorOrderly
        <5>4. k3.closes = 1
          BY <4>2, <5>3 DEF ClosedOnce
        <5> QED BY <3>2, <4>2, <5>3, <5>4 DEF StaysUp, Same, Kin, ClosedOnce
      <4> QED BY <4>3, <4>4
    <3>3. CASE "IN" \in rev /\ Closed1(k2)
      <4>1. k3 = HandleRead(k2, u, w)
        BY <3>3
      <4> HIDE DEF k3
      <4>2. Orderly(k2) /\ Kin(k, k2) /\ k2.closes \in {1, 2} /\ k2.index # "New"
            /\ k2.state = "KDisconnected" /\ k2.reset = k.reset /\ k2 \in TcpConnection
        BY <3>3 DEF Orderly
      <4>3. ~StaysUp(k, k2)
        BY <4>2 DEF StaysUp, IsUp
      <4>4. k2.closes = 1 /\ k2.reset = TRUE /\ k2.err = "none"
        BY <2>3, <3>3, <4>3
      <4>5. CASE k2.unread
        <5> DEFINE j == [k2 EXCEPT !.unread = FALSE]
        <5>1. /\ j \in TcpConnection /\ Same(k2, j) /\ j.err = k2.err /\ j.reg = k2.reg
              /\ j.downs = k2.downs /\ j.events = k2.events /\ j.state = k2.state
          BY <4>2 DEF TcpConnection, Same, Kin
        <5>2. k3 = UserCode(j, u, w)
          BY <4>1, <4>5 DEF HandleRead
        <5> HIDE DEF j
        <5>3. Orderly(j)
          BY <4>2, <5>1, OrderlyByFields
        <5>4. k3 = j
          BY <4>2, <5>1, <5>2, UserCodeDown
        <5> QED BY <4>2, <5>1, <5>3, <5>4 DEF Same, Kin
      <4>6. CASE ~k2.unread
        <5>1. k3 = HandleClose(k2)
          BY <4>1, <4>4, <4>6 DEF HandleRead
        <5>2. MayClose(k2)
          BY <4>2, <4>4 DEF MayClose
        <5>3. ClosedOnce(k2, k3)
          BY <5>1, <5>2, CloseOrderly
        <5>4. k3.closes = 2
          BY <4>4, <5>3 DEF ClosedOnce
        <5> QED BY <4>2, <5>3, <5>4 DEF Kin, ClosedOnce
      <4> QED BY <4>5, <4>6
    <3> QED BY <2>3, <3>1, <3>2, <3>3
  <2>5. Fine(k4)
    <3> HIDE DEF k3
    <3>1. CASE "OUT" \notin rev
      BY <2>4, <3>1
    <3>2. CASE "OUT" \in rev /\ StaysUp(k, k3)
      <4>1. k4 = HandleWrite(k3, w)
        BY <3>2
      <4> HIDE DEF k4
      <4>2. StaysUp(k3, k4)
        BY <3>2, <4>1, WriteUp DEF StaysUp
      <4> QED BY <3>2, <4>2, StaysUpTransitive
    <3>3. CASE "OUT" \in rev /\ Closed1(k3)
      <4>1. k4 = HandleWrite(k3, w)
        BY <3>3
      <4> HIDE DEF k4
      <4>2. ~IsWriting(k3)
        BY <3>3 DEF Orderly, IsWriting
      <4>3. k4 = k3
        BY <4>1, <4>2 DEF HandleWrite
      <4> QED BY <3>3, <4>3
    <3> QED BY <2>4, <3>1, <3>2, <3>3
  <2> HIDE DEF k4
  <2>6. CASE StaysUp(k, k4)
    <3>1. k4.index = "Added"
      BY <2>6, UpFields DEF StaysUp
    <3> QED BY <1>1, <1>7, <2>6, <3>1 DEF StaysUp, IsUp, Same
  <2>7. CASE Closed1(k4)
    BY <1>1, <1>7, <2>7
  <2> QED BY <2>5, <2>6, <2>7
<1> QED BY <1>3, <1>6, <1>7

\* connectEstablished() brings a new connection up.
LEMMA EstablishOrderly ==
  ASSUME NEW k, Orderly(k), k.ups = 0, k.fd # None, NEW u \in UserActs, NEW w \in Writes
  PROVE  LET h == ConnectEstablished(k, u, w)
         IN  IsUp(h) /\ h.loop = k.loop /\ h.fd = k.fd
<1> DEFINE on == EnableReading([k EXCEPT !.state = "KConnected"])
           h  == [on EXCEPT !.ups = @ + 1]
           g  == [k EXCEPT !.state = "KConnected", !.events = {"R"}, !.index = "Added",
                           !.reg = TRUE, !.ups = 1]
<1>1. /\ k \in TcpConnection /\ k.events = {} /\ k.index = "New" /\ k.reg = FALSE
      /\ k.closes = 0 /\ k.downs = 0 /\ k.loop \in IoLoops
  BY DEF Orderly, TcpConnection
<1>2. h = g
  <2> DEFINE j == [k EXCEPT !.state = "KConnected", !.events = {"R"}]
  <2>1. EnableReading([k EXCEPT !.state = "KConnected"]) = UpdateChannel(j)
    BY <1>1 DEF EnableReading, TcpConnection
  <2>2. UpdateChannel(j) = Update([j EXCEPT !.index = "Added"], "ADD")
    BY <1>1 DEF UpdateChannel, TcpConnection
  <2>3. UpdateChannel(j) = [k EXCEPT !.state = "KConnected", !.events = {"R"},
                                     !.index = "Added", !.reg = TRUE]
    BY <1>1, <2>2, ZenonT(30) DEF Update, TcpConnection
  <2>4. on = [k EXCEPT !.state = "KConnected", !.events = {"R"}, !.index = "Added",
                       !.reg = TRUE]
    BY <2>1, <2>3
  <2>5. on.ups = 0
    BY <1>1, <2>4 DEF TcpConnection
  <2>6. g = [on EXCEPT !.ups = 1]
    BY <1>1, <2>4 DEF TcpConnection
  <2> HIDE DEF on, g
  <2>7. on.ups + 1 = 1
    BY <2>5
  <2> QED BY <2>6, <2>7
<1>3. g \in TcpConnection
  <2>1. \A e \in SUBSET {"R", "W"}, n \in 0..1 :
          [k EXCEPT !.state = "KConnected", !.events = e, !.index = "Added",
                    !.reg = TRUE, !.ups = n] \in TcpConnection
    BY <1>1 DEF TcpConnection
  <2>2. {"R"} \in SUBSET {"R", "W"} /\ 1 \in 0..1
    OBVIOUS
  <2> QED BY <2>1, <2>2
<1>4. /\ g.state = "KConnected" /\ g.events = {"R"} /\ g.index = "Added" /\ g.reg = TRUE
      /\ g.ups = 1 /\ g.closes = 0 /\ g.downs = 0 /\ g.err = k.err /\ g.reset = k.reset
      /\ g.loop = k.loop /\ g.fd = k.fd
  BY <1>1 DEF TcpConnection
<1>5. ConnectEstablished(k, u, w) = UserCode(h, u, w)
  BY DEF ConnectEstablished
<1> HIDE DEF h, g
<1>6. IsUp(g)
  BY <1>1, <1>3, <1>4 DEF IsUp, Orderly
<1>7. StaysUp(g, ConnectEstablished(k, u, w))
  BY <1>2, <1>5, <1>6, UserCodeUp
<1> QED BY <1>4, <1>7 DEF StaysUp, Same, Kin

\* connectDestroyed() of a closed connection takes its channel away.
LEMMA DestroyOrderly ==
  ASSUME NEW k, Orderly(k), k.closes > 0
  PROVE  LET h == ConnectDestroyed(k)
         IN  /\ Orderly(h) /\ Kin(k, h) /\ h.closes = k.closes
             /\ h.index = "New" /\ h.state = "KDisconnected"
<1> DEFINE h == [k EXCEPT !.index = "New", !.reg = FALSE]
<1>1. /\ k \in TcpConnection /\ k.state = "KDisconnected"
      /\ k.index = "Added" <=> k.reg = TRUE
      /\ k.closes \in 1..3 /\ k.ups \in {0, 1} /\ k.reg \in BOOLEAN
  BY DEF Orderly, TcpConnection
<1>2. ConnectDestroyed(k) = h
  BY <1>1 DEF ConnectDestroyed, RemoveChannel, Update, TcpConnection
<1>3. h \in TcpConnection
  BY <1>1 DEF TcpConnection
<1>4. /\ h.index = "New" /\ h.reg = FALSE /\ h.state = k.state /\ h.events = k.events
      /\ h.ups = k.ups /\ h.closes = k.closes /\ h.downs = k.downs /\ h.err = k.err
      /\ h.reset = k.reset /\ h.loop = k.loop /\ h.fd = k.fd
  BY <1>1 DEF TcpConnection
<1> HIDE DEF h
<1>5. Orderly(h)
  BY <1>1, <1>3, <1>4 DEF Orderly
<1> QED BY <1>1, <1>2, <1>4, <1>5 DEF Kin

\* shutdownInLoop() touches the socket only.
LEMMA ShutdownOrderly ==
  ASSUME NEW k, Orderly(k)
  PROVE  LET h == ShutdownInLoop(k)
         IN  Orderly(h) /\ Same(k, h) /\ h.state = k.state
<1> DEFINE h == [k EXCEPT !.shutWr = TRUE]
<1>1. k \in TcpConnection
  BY DEF Orderly
<1>2. h \in TcpConnection /\ Same(k, h) /\ h.err = k.err /\ h.reg = k.reg
      /\ h.downs = k.downs /\ h.events = k.events /\ h.state = k.state
  BY <1>1 DEF TcpConnection, Same, Kin
<1> HIDE DEF h
<1>3. Orderly(h)
  BY <1>2, OrderlyByFields
<1>4. ShutdownInLoop(k) = k \/ ShutdownInLoop(k) = h
  BY DEF ShutdownInLoop, ShutdownWrite, h
<1>5. Same(k, k)
  BY DEF Same, Kin
<1> QED BY <1>2, <1>3, <1>4, <1>5

\* The peer's part of a record.
PeerOf(k) == {[k EXCEPT !.unread = TRUE], [k EXCEPT !.fin = TRUE],
              [k EXCEPT !.reset = TRUE, !.err = IF k.fin THEN "pipe" ELSE "reset"]}

\* The peer can add to what epoll_wait() reports, never take from it.
LEMMA PeerOrderly ==
  ASSUME NEW k, Orderly(k), ~k.reset, NEW h \in PeerOf(k)
  PROVE  /\ Orderly(h) /\ Kin(k, h) /\ h.closes = k.closes /\ h.index = k.index
         /\ h.state = k.state /\ h.reg = k.reg /\ Revents(k) \subseteq Revents(h)
<1>1. k \in TcpConnection /\ k.reset = FALSE
  BY DEF Orderly, TcpConnection
<1>2. h \in TcpConnection
  <2>1. [k EXCEPT !.unread = TRUE] \in TcpConnection /\ [k EXCEPT !.fin = TRUE] \in TcpConnection
    BY <1>1 DEF TcpConnection
  <2>2. \A e \in {"pipe", "reset"} : [k EXCEPT !.reset = TRUE, !.err = e] \in TcpConnection
    BY <1>1 DEF TcpConnection
  <2> QED BY <2>1, <2>2 DEF PeerOf
<1>3. /\ Kin(k, h) /\ h.closes = k.closes /\ h.index = k.index /\ h.downs = k.downs
      /\ h.state = k.state /\ h.reg = k.reg /\ h.events = k.events /\ h.shutWr = k.shutWr
  BY <1>1 DEF PeerOf, TcpConnection, Kin
<1>4. /\ k.unread => h.unread
      /\ k.fin => h.fin
      /\ h.err # "none" => h.reset = TRUE
  BY <1>1 DEF PeerOf, TcpConnection, Orderly
<1>5. k.closes # 2 /\ k.err = "none"
  BY <1>1 DEF Orderly
<1>6. Orderly(h)
  BY <1>1, <1>2, <1>3, <1>4, <1>5 DEF Orderly, Kin
<1>7. Revents(k) \subseteq Revents(h)
  <2>1. Revents(k) \subseteq {"IN", "OUT", "HUP", "ERR"}
    BY DEF Revents
  <2>2. "IN" \in Revents(k) => "IN" \in Revents(h)
    BY <1>1, <1>3, <1>4 DEF Revents
  <2>3. "OUT" \in Revents(k) => "OUT" \in Revents(h)
    BY <1>3 DEF Revents, IsWriting
  <2>4. "HUP" \in Revents(k) => "HUP" \in Revents(h)
    BY <1>1, <1>3, <1>4 DEF Revents
  <2>5. "ERR" \notin Revents(k)
    BY <1>5 DEF Revents
  <2> QED BY <2>1, <2>2, <2>3, <2>4, <2>5
<1> QED BY <1>3, <1>6, <1>7

\* A connection as newConnection() makes it.
LEMMA NewOrderly ==
  ASSUME NEW l \in IoLoops, NEW fd \in Fds
  PROVE  LET h == [Unborn EXCEPT !.loop = l, !.fd = fd]
         IN  /\ Orderly(h) /\ h.loop = l /\ h.fd = fd /\ h.ups = 0 /\ h.closes = 0
             /\ h.index = "New"
<1> DEFINE h == [Unborn EXCEPT !.loop = l, !.fd = fd]
<1>1. /\ h.loop = l /\ h.fd = fd /\ h.state = "KConnecting" /\ h.events = {}
      /\ h.index = "New" /\ h.reg = FALSE /\ h.err = "none" /\ h.reset = FALSE
      /\ h.ups = 0 /\ h.downs = 0 /\ h.closes = 0
  BY DEF Unborn
<1>2. h \in TcpConnection
  <2>1. l \in Loops /\ Main \in Loops /\ {} \in SUBSET {"R", "W"} /\ 0 \in 0..1 /\ 0 \in 0..3
    BY DEF Loops
  <2>2. Unborn \in TcpConnection
    BY <2>1 DEF Unborn, TcpConnection
  <2> HIDE DEF Unborn
  <2> QED BY <2>1, <2>2 DEF TcpConnection
<1> HIDE DEF h
<1>3. Orderly(h)
  BY <1>1, <1>2 DEF Orderly
<1> QED BY <1>1, <1>3 DEF h
-----------------------------------------------------------------------------
(***************************************************************************)
(* With calls from other threads too: what remains true of a connection's  *)
(* history wherever send() and shutdown() come between its callbacks.      *)
(***************************************************************************)
Downed == {"KDisconnected", "KDisconnecting"}

Sound(k) ==
  /\ k \in Shape
  /\ k.fd # None => k.loop \in IoLoops
  /\ k.ups \in {0, 1}
  /\ k.ups = 0 => /\ k.state = "KConnecting" /\ k.reg = FALSE
                  /\ k.downs = 0 /\ k.closes = 0
  /\ k.ups = 1 => k.fd # None /\ k.state # "KConnecting"
  /\ k.downs > 0 \/ k.closes > 0 => k.state \in Downed

\* An established connection.
IsMet(k) == Sound(k) /\ k.ups = 1

\* What the poller and the calls that only write leave alone.
Calm(k, h) == /\ h \in Shape /\ Kin(k, h)
              /\ h.state = k.state /\ h.downs = k.downs /\ h.closes = k.closes

\* What any callback of an established connection makes of it.
Onward(k, h) == IsMet(h) /\ Kin(k, h) /\ h.closes >= k.closes

LEMMA CalmTransitive ==
  ASSUME NEW k, NEW g, NEW h, Calm(k, g), Calm(g, h)
  PROVE  Calm(k, h)
BY DEF Calm, Kin

LEMMA OnwardTransitive ==
  ASSUME NEW k, NEW g, NEW h, k \in Shape, Onward(k, g), Onward(g, h)
  PROVE  Onward(k, h)
<1>1. k.closes \in Nat /\ g.closes \in Nat /\ h.closes \in Nat
  BY DEF Onward, IsMet, Sound, Shape
<1>2. h.closes >= k.closes
  BY <1>1 DEF Onward
<1> QED BY <1>2 DEF Onward, Kin

LEMMA CalmOnward ==
  ASSUME NEW k, NEW h, IsMet(k), Calm(k, h)
  PROVE  Onward(k, h)
<1>1. k.closes \in Nat /\ h.closes >= k.closes
  BY DEF IsMet, Sound, Shape, Calm
<1> QED BY <1>1 DEF IsMet, Sound, Calm, Kin, Onward

\* Fields without a part in the history.
LEMMA FieldsCalm ==
  ASSUME NEW k \in Shape
  PROVE  /\ Calm(k, k)
         /\ \A e \in SUBSET {"R", "W"} : Calm(k, [k EXCEPT !.events = e])
         /\ \A b \in BOOLEAN : /\ Calm(k, [k EXCEPT !.out = b])
                               /\ Calm(k, [k EXCEPT !.unread = b])
                               /\ Calm(k, [k EXCEPT !.fin = b])
                               /\ Calm(k, [k EXCEPT !.shutWr = b])
                               /\ Calm(k, [k EXCEPT !.reg = b])
         /\ \A e \in {"none", "reset", "pipe"} :
              /\ Calm(k, [k EXCEPT !.err = e])
              /\ Calm(k, [k EXCEPT !.reset = TRUE, !.err = e])
         /\ \A d \in {"no", "abort", "sigpipe", "dangling"} :
              /\ Calm(k, [k EXCEPT !.died = d])
              /\ Calm(k, [k EXCEPT !.reg = TRUE, !.died = d])
         /\ \A i \in {"New", "Added", "Deleted"} : Calm(k, [k EXCEPT !.index = i])
<1> USE DEF Calm, Kin, Shape
<1>1. Calm(k, k) /\ \A e \in SUBSET {"R", "W"} : Calm(k, [k EXCEPT !.events = e])
  OBVIOUS
<1>2. \A b \in BOOLEAN : Calm(k, [k EXCEPT !.out = b]) /\ Calm(k, [k EXCEPT !.unread = b])
  OBVIOUS
<1>3. \A b \in BOOLEAN : Calm(k, [k EXCEPT !.fin = b]) /\ Calm(k, [k EXCEPT !.shutWr = b])
  OBVIOUS
<1>4. \A b \in BOOLEAN : Calm(k, [k EXCEPT !.reg = b])
  OBVIOUS
<1>5. \A e \in {"none", "reset", "pipe"} : Calm(k, [k EXCEPT !.err = e])
  OBVIOUS
<1>6. \A e \in {"none", "reset", "pipe"} : Calm(k, [k EXCEPT !.reset = TRUE, !.err = e])
  OBVIOUS
<1>7. \A d \in {"no", "abort", "sigpipe", "dangling"} : Calm(k, [k EXCEPT !.died = d])
  OBVIOUS
<1>8. \A d \in {"no", "abort", "sigpipe", "dangling"} :
        Calm(k, [k EXCEPT !.reg = TRUE, !.died = d])
  OBVIOUS
<1>9. \A i \in {"New", "Added", "Deleted"} : Calm(k, [k EXCEPT !.index = i])
  OBVIOUS
<1> HIDE DEF Calm, Kin, Shape
<1> QED BY <1>1, <1>2, <1>3, <1>4, <1>5, <1>6, <1>7, <1>8, <1>9

\* The poller.
LEMMA UpdateCalm ==
  ASSUME NEW k \in Shape
  PROVE  Calm(k, UpdateChannel(k)) /\ Calm(k, RemoveChannel(k))
<1>1. k.died \in {"no", "abort", "sigpipe", "dangling"}
  BY DEF Shape
<1>2. Calm(k, UpdateChannel(k))
  <2> DEFINE g == [k EXCEPT !.index = "Added"]
             h == [k EXCEPT !.index = "Deleted"]
             d == IF g.reg THEN "abort" ELSE g.died
             b == IF k.reg THEN k.died ELSE "abort"
  <2>1. \/ UpdateChannel(k) = [g EXCEPT !.reg = TRUE, !.died = d]
        \/ UpdateChannel(k) = [h EXCEPT !.reg = FALSE]
        \/ UpdateChannel(k) = [k EXCEPT !.died = b]
    BY DEF UpdateChannel, Update, Shape
  <2>2. g.died = k.died
    BY DEF Shape
  <2>3. /\ d \in {"no", "abort", "sigpipe", "dangling"}
        /\ b \in {"no", "abort", "sigpipe", "dangling"}
    BY <1>1, <2>2
  <2>4. Calm(k, g) /\ Calm(k, h)
    BY FieldsCalm, Zenon
  <2> HIDE DEF d, b, g, h
  <2>5. g \in Shape /\ h \in Shape
    BY <2>4 DEF Calm
  <2>6. Calm(g, [g EXCEPT !.reg = TRUE, !.died = d])
    BY <2>3, <2>5, FieldsCalm, Zenon
  <2>7. Calm(h, [h EXCEPT !.reg = FALSE])
    BY <2>5, FieldsCalm, Zenon
  <2>8. Calm(k, [k EXCEPT !.died = b])
    BY <2>3, FieldsCalm, Zenon
  <2>9. Calm(k, [g EXCEPT !.reg = TRUE, !.died = d]) /\ Calm(k, [h EXCEPT !.reg = FALSE])
    BY <2>4, <2>6, <2>7, CalmTransitive
  <2> QED BY <2>1, <2>8, <2>9, Zenon
<1>3. Calm(k, RemoveChannel(k))
  <2> DEFINE g == [k EXCEPT !.reg = FALSE]
  <2>1. \/ RemoveChannel(k) = [g EXCEPT !.index = "New"]
        \/ RemoveChannel(k) = [k EXCEPT !.index = "New"]
    BY DEF RemoveChannel, Update
  <2>2. Calm(k, g) /\ Calm(k, [k EXCEPT !.index = "New"])
    BY FieldsCalm, Zenon
  <2> HIDE DEF g
  <2>3. g \in Shape
    BY <2>2 DEF Calm
  <2>4. Calm(g, [g EXCEPT !.index = "New"])
    BY <2>3, FieldsCalm, Zenon
  <2> QED BY <2>1, <2>2, <2>4, CalmTransitive
<1> QED BY <1>2, <1>3

LEMMA InterestCalm ==
  ASSUME NEW k \in Shape
  PROVE  /\ Calm(k, EnableReading(k)) /\ Calm(k, EnableWriting(k))
         /\ Calm(k, DisableWriting(k)) /\ Calm(k, DisableAll(k))
<1>1. ASSUME NEW e \in SUBSET {"R", "W"}
      PROVE  Calm(k, UpdateChannel([k EXCEPT !.events = e]))
  <2> DEFINE g == [k EXCEPT !.events = e]
  <2>1. Calm(k, g)
    BY FieldsCalm, Zenon
  <2> HIDE DEF g
  <2>2. Calm(g, UpdateChannel(g))
    BY <2>1, UpdateCalm DEF Calm
  <2>3. Calm(k, UpdateChannel(g))
    BY <2>1, <2>2, CalmTransitive
  <2> QED BY <2>3 DEF g
<1>2. k.events \in SUBSET {"R", "W"}
  BY DEF Shape
<1>3. /\ k.events \cup {"R"} \in SUBSET {"R", "W"}
      /\ k.events \cup {"W"} \in SUBSET {"R", "W"}
      /\ k.events \ {"W"} \in SUBSET {"R", "W"}
      /\ {} \in SUBSET {"R", "W"}
  BY <1>2
<1> QED BY <1>1, <1>3, Zenon DEF EnableReading, EnableWriting, DisableWriting, DisableAll

\* The calls that write to the socket.
LEMMA SendCalm ==
  ASSUME NEW k \in Shape, NEW w \in Writes
  PROVE  /\ Calm(k, ShutdownInLoop(k))
         /\ Calm(k, WriteToReset(k))
         /\ Calm(k, SendInLoop(k, w))
<1>1. Calm(k, ShutdownInLoop(k))
  BY FieldsCalm, Zenon DEF ShutdownInLoop, ShutdownWrite
<1>2. Calm(k, WriteToReset(k))
  BY FieldsCalm, Zenon DEF WriteToReset
<1>3. Calm(k, SendInLoop(k, w))
  <2> DEFINE buffered == [k EXCEPT !.out = TRUE]
  <2>1. Calm(k, buffered) /\ Calm(k, k) /\ Calm(k, [k EXCEPT !.died = "sigpipe"])
    BY FieldsCalm, Zenon
  <2>2. k.reset \in BOOLEAN /\ k.shutWr \in BOOLEAN /\ k.out \in BOOLEAN
    BY DEF Shape
  <2> HIDE DEF buffered
  <2>3. Calm(k, EnableWriting(buffered))
    <3>1. Calm(buffered, EnableWriting(buffered))
      BY <2>1, InterestCalm DEF Calm
    <3> QED BY <2>1, <3>1, CalmTransitive
  <2>4. \/ SendInLoop(k, w) = buffered
        \/ SendInLoop(k, w) = EnableWriting(buffered)
        \/ SendInLoop(k, w) = WriteToReset(k)
        \/ SendInLoop(k, w) = [k EXCEPT !.died = "sigpipe"]
        \/ SendInLoop(k, w) = k
    <3>1. CASE IsWriting(k)
      BY <3>1 DEF SendInLoop, buffered
    <3>2. CASE ~IsWriting(k) /\ k.out
      BY <3>2 DEF SendInLoop, buffered
    <3>3. CASE ~IsWriting(k) /\ ~k.out
      BY <3>3, <2>2 DEF SendInLoop, buffered, Writes
    <3> QED BY <3>1, <3>2, <3>3
  <2> QED BY <1>2, <2>1, <2>3, <2>4
<1> QED BY <1>1, <1>2, <1>3

\* A change of the state, and of the counters with it.
LEMMA StateOnward ==
  ASSUME NEW k, IsMet(k), NEW s \in Downed, NEW h \in Shape, Kin(k, h), h.state = s,
         h.closes >= k.closes
  PROVE  Onward(k, h)
BY DEF IsMet, Sound, Onward, Kin, Downed

LEMMA ShutdownOnward ==
  ASSUME NEW k, IsMet(k)
  PROVE  Onward(k, ShutdownUnchecked(k)) /\ Onward(k, Shutdown(k))
<1>1. k \in Shape /\ k.closes \in Nat
  BY DEF IsMet, Sound, Shape
<1> DEFINE h == [k EXCEPT !.state = "KDisconnecting"]
<1>2. h \in Shape /\ Kin(k, h) /\ h.state = "KDisconnecting" /\ h.closes = k.closes
  BY <1>1 DEF Shape, Kin
<1>3. Onward(k, k)
  BY <1>1, FieldsCalm, CalmOnward, Zenon
<1> HIDE DEF h
<1>4. Onward(k, h)
  BY <1>1, <1>2, StateOnward DEF Downed
<1> QED BY <1>3, <1>4 DEF h, Shutdown, ShutdownUnchecked

LEMMA UserCodeOnward ==
  ASSUME NEW k, IsMet(k), NEW u \in UserActs, NEW w \in Writes
  PROVE  Onward(k, UserCode(k, u, w))
<1> DEFINE j == Send(k, w)
<1>1. k \in Shape
  BY DEF IsMet, Sound
<1>2. Onward(k, k) /\ Onward(k, SendInLoop(k, w))
  BY <1>1, FieldsCalm, SendCalm, CalmOnward, Zenon
<1>3. Onward(k, j)
  BY <1>2 DEF Send
<1> HIDE DEF j
<1>4. Onward(j, Shutdown(j))
  BY <1>3, ShutdownOnward DEF Onward
<1>5. Onward(k, Shutdown(j))
  BY <1>1, <1>3, <1>4, OnwardTransitive
<1> QED BY <1>2, <1>3, <1>5, ShutdownOnward, ServerAssumption DEF UserCode, j

\* handleClose() and handleError().
LEMMA CloseOnward ==
  ASSUME NEW k, IsMet(k)
  PROVE  Onward(k, HandleClose(k)) /\ Onward(k, HandleError(k))
<1>1. ASSUME NEW j, IsMet(j)
      PROVE  Onward(j, HandleClose(j))
  <2> DEFINE g   == [j EXCEPT !.state = "KDisconnected"]
             off == DisableAll(g)
             h   == [off EXCEPT !.downs = @ + 1, !.closes = @ + 1]
  <2>1. j \in Shape
    BY <1>1 DEF IsMet, Sound
  <2>2. g \in Shape /\ Kin(j, g) /\ g.state = "KDisconnected" /\ g.closes = j.closes
    BY <2>1 DEF Shape, Kin
  <2> HIDE DEF g
  <2>3. Calm(g, off)
    BY <2>2, InterestCalm
  <2>4. off \in Shape /\ Kin(j, off) /\ off.state = "KDisconnected" /\ off.closes = j.closes
    BY <2>2, <2>3 DEF Calm, Kin
  <2> HIDE DEF off
  <2>5. /\ h \in Shape /\ h.loop = off.loop /\ h.fd = off.fd /\ h.ups = off.ups
        /\ h.state = off.state /\ h.closes = off.closes + 1
    <3>1. off.downs + 1 \in Nat /\ off.closes + 1 \in Nat
      BY <2>4 DEF Shape
    <3> QED BY <2>4, <3>1 DEF Shape
  <2>6. j.closes \in Nat
    BY <2>1 DEF Shape
  <2> HIDE DEF h
  <2>7. Onward(j, h)
    <3>1. Kin(j, h) /\ h.closes >= j.closes
      BY <2>4, <2>5, <2>6 DEF Kin
    <3> QED BY <1>1, <2>4, <2>5, <3>1, StateOnward DEF Downed
  <2> QED BY <2>7 DEF HandleClose, h, off, g
<1>2. Onward(k, HandleClose(k))
  BY <1>1
<1>3. Onward(k, HandleError(k))
  <2> DEFINE j == [k EXCEPT !.err = "none"]
  <2>1. k \in Shape
    BY DEF IsMet, Sound
  <2>2. Onward(k, j)
    BY <2>1, FieldsCalm, CalmOnward, Zenon
  <2> HIDE DEF j
  <2>3. Onward(j, HandleClose(j))
    BY <1>1, <2>2 DEF Onward
  <2> QED BY <2>1, <2>2, <2>3, OnwardTransitive DEF HandleError, j
<1> QED BY <1>2, <1>3

LEMMA ReadWriteOnward ==
  ASSUME NEW k, IsMet(k), NEW u \in UserActs, NEW w \in Writes
  PROVE  Onward(k, HandleRead(k, u, w)) /\ Onward(k, HandleWrite(k, w))
<1>1. k \in Shape
  BY DEF IsMet, Sound
<1>2. Onward(k, HandleRead(k, u, w))
  <2> DEFINE j == [k EXCEPT !.unread = FALSE]
  <2>1. Onward(k, j)
    BY <1>1, FieldsCalm, CalmOnward, Zenon
  <2> HIDE DEF j
  <2>2. Onward(j, UserCode(j, u, w))
    BY <2>1, UserCodeOnward DEF Onward
  <2>3. Onward(k, UserCode(j, u, w))
    BY <1>1, <2>1, <2>2, OnwardTransitive
  <2> QED BY <2>3, CloseOnward, HandleReadCases DEF j
<1>3. Onward(k, HandleWrite(k, w))
  <2> DEFINE g       == [k EXCEPT !.out = FALSE]
             drained == DisableWriting(g)
  <2>1. Calm(k, g) /\ Calm(k, k) /\ Calm(k, [k EXCEPT !.died = "sigpipe"])
    BY <1>1, FieldsCalm, Zenon
  <2>5. \/ HandleWrite(k, w) = k
        \/ HandleWrite(k, w) = WriteToReset(k)
        \/ HandleWrite(k, w) = [k EXCEPT !.died = "sigpipe"]
        \/ HandleWrite(k, w) = drained
        \/ HandleWrite(k, w) = ShutdownInLoop(drained)
    BY HandleWriteCases
  <2> HIDE DEF g
  <2>2. Calm(g, drained)
    BY <2>1, InterestCalm DEF Calm
  <2> HIDE DEF drained
  <2>3. Calm(drained, ShutdownInLoop(drained))
    BY <2>2, SendCalm DEF Calm, Writes
  <2>4. /\ Calm(k, drained) /\ Calm(k, ShutdownInLoop(drained))
        /\ Calm(k, WriteToReset(k))
    <3>1. Calm(k, drained)
      BY <2>1, <2>2, CalmTransitive
    <3>2. Calm(k, ShutdownInLoop(drained))
      BY <2>3, <3>1, CalmTransitive
    <3> QED BY <1>1, <3>1, <3>2, SendCalm
  <2> QED BY <2>1, <2>4, <2>5, CalmOnward
<1> QED BY <1>2, <1>3

\* Up to four callbacks for one event, wherever other threads come between.
LEMMA EventOnward ==
  ASSUME NEW k, IsMet(k), NEW rev, NEW u \in UserActs, NEW w \in Writes
  PROVE  Onward(k, HandleEvent(k, rev, u, w))
<1> DEFINE k1 == IF "HUP" \in rev /\ "IN" \notin rev THEN HandleClose(k) ELSE k
           k2 == IF "ERR" \in rev THEN HandleError(k1) ELSE k1
           k3 == IF "IN" \in rev THEN HandleRead(k2, u, w) ELSE k2
           k4 == IF "OUT" \in rev THEN HandleWrite(k3, w) ELSE k3
<1>1. k \in Shape /\ \A j : IsMet(j) => Onward(j, j)
  BY FieldsCalm, CalmOnward, Zenon DEF IsMet, Sound
<1>2. \A g, h : Onward(k, g) /\ Onward(g, h) => Onward(k, h)
  BY <1>1, OnwardTransitive
<1>3. Onward(k, k1)
  BY <1>1, CloseOnward
<1>4. Onward(k, k2)
  <2> HIDE DEF k1
  <2>1. Onward(k1, k2)
    BY <1>1, <1>3, CloseOnward DEF Onward
  <2> HIDE DEF k2
  <2> QED BY <1>2, <1>3, <2>1
<1>5. Onward(k, k3)
  <2> HIDE DEF k2
  <2>1. Onward(k2, k3)
    BY <1>1, <1>4, ReadWriteOnward DEF Onward
  <2> HIDE DEF k3
  <2> QED BY <1>2, <1>4, <2>1
<1>6. Onward(k, k4)
  <2> HIDE DEF k3
  <2>1. Onward(k3, k4)
    BY <1>1, <1>5, ReadWriteOnward DEF Onward
  <2> HIDE DEF k4
  <2> QED BY <1>2, <1>5, <2>1
<1>7. HandleEvent(k, rev, u, w) = k4
  BY DEF HandleEvent
<1> HIDE DEF k4
<1> QED BY <1>6, <1>7

\* The first and the last functor of a connection.
LEMMA EstablishSound ==
  ASSUME NEW k, Sound(k), k.fd # None, k.ups = 0, NEW u \in UserActs, NEW w \in Writes
  PROVE  LET h == ConnectEstablished(k, u, w)
         IN  IsMet(h) /\ h.loop = k.loop /\ h.fd = k.fd /\ h.closes >= k.closes
<1> DEFINE g  == [k EXCEPT !.state = "KConnected"]
           on == EnableReading(g)
           j  == [on EXCEPT !.ups = @ + 1]
<1>1. k \in Shape /\ k.loop \in IoLoops /\ k.downs = 0 /\ k.closes = 0
  BY DEF Sound
<1>2. /\ g \in Shape /\ Kin(k, g) /\ g.state = "KConnected"
      /\ g.downs = 0 /\ g.closes = 0
  BY <1>1 DEF Shape, Kin
<1> HIDE DEF g
<1>3. Calm(g, on)
  BY <1>2, InterestCalm
<1>4. on \in Shape /\ Kin(k, on) /\ on.state = "KConnected" /\ on.downs = 0 /\ on.closes = 0
  BY <1>2, <1>3 DEF Calm, Kin
<1> HIDE DEF on
<1>5. on.ups = 0
  BY <1>4 DEF Kin
<1>6. /\ j \in Shape /\ j.ups = 1 /\ j.loop = on.loop /\ j.fd = on.fd
      /\ j.state = on.state /\ j.downs = on.downs /\ j.closes = on.closes
  BY <1>4, <1>5 DEF Shape
<1> HIDE DEF j
<1>7. IsMet(j) /\ j.loop = k.loop /\ j.fd = k.fd /\ j.closes = k.closes
  BY <1>1, <1>4, <1>6 DEF IsMet, Sound, Kin
<1>8. Onward(j, UserCode(j, u, w))
  BY <1>7, UserCodeOnward
<1> QED BY <1>7, <1>8 DEF ConnectEstablished, j, on, g, Onward, Kin

LEMMA DestroyOnward ==
  ASSUME NEW k, IsMet(k)
  PROVE  Onward(k, ConnectDestroyed(k))
<1> DEFINE g   == [k EXCEPT !.state = "KDisconnected"]
           off == DisableAll(g)
           h   == [off EXCEPT !.downs = @ + 1]
<1>1. k \in Shape /\ k.closes \in Nat
  BY DEF IsMet, Sound, Shape
<1>2. g \in Shape /\ Kin(k, g) /\ g.state = "KDisconnected" /\ g.closes = k.closes
  BY <1>1 DEF Shape, Kin
<1> HIDE DEF g
<1>3. Calm(g, off)
  BY <1>2, InterestCalm
<1>4. off \in Shape /\ Kin(k, off) /\ off.state = "KDisconnected" /\ off.closes = k.closes
  BY <1>2, <1>3 DEF Calm, Kin
<1> HIDE DEF off
<1>5. /\ h \in Shape /\ h.loop = off.loop /\ h.fd = off.fd /\ h.ups = off.ups
      /\ h.state = off.state /\ h.closes = off.closes
  <2>1. off.downs + 1 \in Nat
    BY <1>4 DEF Shape
  <2> QED BY <1>4, <2>1 DEF Shape
<1> HIDE DEF h
<1>6. Onward(k, h)
  <2>1. Kin(k, h) /\ h.closes >= k.closes
    BY <1>1, <1>4, <1>5 DEF Kin
  <2> QED BY <1>4, <1>5, <2>1, StateOnward DEF Downed
<1>7. \A j : IsMet(j) => Onward(j, RemoveChannel(j))
  BY UpdateCalm, CalmOnward DEF IsMet, Sound
<1>8. Onward(h, RemoveChannel(h)) /\ Onward(k, RemoveChannel(k))
  BY <1>6, <1>7 DEF Onward
<1>9. Onward(k, RemoveChannel(h))
  BY <1>1, <1>6, <1>8, OnwardTransitive
<1> QED BY <1>8, <1>9 DEF ConnectDestroyed, h, off, g

\* What the peer does to the socket.
LEMMA PeerSound ==
  ASSUME NEW k, Sound(k), NEW h \in PeerOf(k)
  PROVE  Calm(k, h) /\ Sound(h) /\ h.died = k.died /\ (Agrees(k) => Agrees(h))
<1>1. k \in Shape
  BY DEF Sound
<1>2. Calm(k, h)
  BY <1>1, FieldsCalm, Zenon DEF PeerOf
<1>3. h.reg = k.reg /\ h.index = k.index /\ h.died = k.died
  BY <1>1 DEF PeerOf, Shape
<1> QED BY <1>2, <1>3 DEF Calm, Kin, Sound, Agrees

\* A new connection.
LEMMA NewSound ==
  ASSUME NEW l \in IoLoops, NEW fd \in Fds
  PROVE  LET h == [Unborn EXCEPT !.loop = l, !.fd = fd]
         IN  /\ Sound(h) /\ Agrees(h) /\ h.loop = l /\ h.fd = fd /\ h.ups = 0
             /\ h.died = "no"
<1> DEFINE h == [Unborn EXCEPT !.loop = l, !.fd = fd]
<1>1. /\ h.loop = l /\ h.fd = fd /\ h.state = "KConnecting" /\ h.index = "New"
      /\ h.reg = FALSE /\ h.ups = 0 /\ h.downs = 0 /\ h.closes = 0 /\ h.died = "no"
  BY DEF Unborn
<1>2. h \in Shape
  <2>1. Unborn \in Shape
    BY DEF Unborn, Shape, Main
  <2>2. l \in Nat /\ fd \in Fds \cup {None}
    BY DEF IoLoops
  <2> QED BY <2>1, <2>2 DEF Shape
<1> HIDE DEF h
<1>3. Sound(h) /\ Agrees(h)
  BY <1>1, <1>2 DEF Sound, Agrees
<1> QED BY <1>1, <1>3 DEF h
=============================================================================
