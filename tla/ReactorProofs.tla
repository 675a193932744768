--------------------------- MODULE ReactorProofs ---------------------------
(***************************************************************************)
(* Proofs of the reactor's safety properties, for any number of loops,     *)
(* connections, descriptors and requests.                                  *)
(***************************************************************************)
EXTENDS Reactor, WellFoundedInduction, SequenceTheorems, TLAPS

\* What the types rest on: a reported wake-up leaves its byte in the socket
\* pair and a reported listener its connection in the backlog until they are
\* handled, and only a connection is being closed.
EventsBacked ==
    /\ \A l \in Loops : \A e \in events[l] :
          /\ e.kind = "wakeup" => wake[l] > 0
          /\ e.kind = "listen" => l = Main /\ backlog # <<>>
    /\ \A l \in Loops : pc[l] = "closing" => cur[l].conn \in Conn

Item(t, c) == [type |-> t, conn |-> c]

Closes(l, c) == pc[l] = "closing" /\ cur[l].conn = c

InList(l, t, c) == \E i \in 1 .. Len(pending[l]) : pending[l][i] = Item(t, c)

Once(l, t, c) ==
    \A i, j \in 1 .. Len(pending[l]) :
        pending[l][i] = Item(t, c) /\ pending[l][j] = Item(t, c) => i = j

\* Descriptors: an open connection has one of its own, a connection that waits
\* in the backlog, or was never made, has none yet.
Descriptors ==
    /\ \A c \in open \cup closed : fd[c] # 0
    /\ \A c, d \in open : fd[c] = fd[d] => c = d
    /\ \A i \in 1 .. Len(backlog) : fd[backlog[i]] = 0 /\ peer[backlog[i]] # "none"
    /\ \A i, j \in 1 .. Len(backlog) : backlog[i] = backlog[j] => i = j
    /\ \A c \in Conn : peer[c] = "none" => fd[c] = 0

\* The loop that has connection c: c is registered there, still in the list,
\* or being closed.
Owns(l, c) == c \in reg[l] \/ InList(l, "add", c) \/ Closes(l, c)

\* A connection belongs to one loop, is open and its request not freed.
Owned ==
    /\ \A l \in Loops, c \in Conn : Owns(l, c) => c \in open /\ c \notin closed
    /\ \A l, m \in Loops, c \in Conn : Owns(l, c) /\ Owns(m, c) => l = m

\* What a loop's list says of the loop's epoll set: additions are of channels
\* not there yet, the one removal is of the connection being closed, which is
\* there for as long as the removal is in the list.
Lists ==
    \A l \in Loops, c \in Conn :
        /\ Once(l, "add", c) /\ Once(l, "remove", c)
        /\ InList(l, "add", c) => c \notin reg[l] /\ ~Closes(l, c)
        /\ InList(l, "remove", c) => Closes(l, c)
        /\ Closes(l, c) => (c \in reg[l] <=> InList(l, "remove", c))

\* The channel map leads from the descriptor of a registered connection to it.
Mapped == \A l \in Loops : \A c \in reg[l] : entries[l][fd[c]] = c

\* epoll reported each descriptor once, for a registered connection, and never
\* the one that is being closed.
Reported ==
    \A l \in Loops : \A e \in events[l] : e.kind = "conn" =>
        /\ \E c \in reg[l] : fd[c] = e.fd /\ ~Closes(l, c)
        /\ \A f \in events[l] : f.kind = "conn" /\ f.fd = e.fd => f = e

IInv == EventsBacked /\ Descriptors /\ Owned /\ Lists /\ Mapped /\ Reported

-----------------------------------------------------------------------------
(* Facts about the operators.                                              *)

\* The least-number principle for sets of natural numbers.
LEMMA LeastNumber ==
    ASSUME NEW S \in SUBSET Nat, S # {}
    PROVE  \E n \in S : \A m \in S : n <= m
<1> DEFINE R == {p \in Nat \X Nat : p[1] < p[2]}
<1>1. IsWellFoundedOn(R, Nat)
  BY NatLessThanWellFounded, Zenon DEF OpToRel
<1> HIDE DEF R
<1>2. PICK n \in S : \A m \in S : ~(<<m, n>> \in R)
  BY <1>1, WFMin, S \subseteq Nat
<1>3. \A m \in S : ~(m < n)
  BY <1>2 DEF R
<1> QED
  BY <1>3

\* accept() gives the connection a descriptor that no open connection has.
LEMMA AcceptFd ==
    ASSUME FreeFds # {}, PoolType
    PROVE  LET f == CHOOSE f \in FreeFds : \A g \in FreeFds : f <= g
           IN  f \in Fds /\ \A c \in open : fd[c] # f
<1>0. fd_limit \in Nat /\ fd_limit <= MaxFd /\ MaxFd \in Nat
  BY ReactorAssumption DEF PoolType
<1>1. FreeFds \in SUBSET Nat /\ FreeFds \subseteq Fds
  BY <1>0 DEF FreeFds, Fds
<1>2. \E f \in FreeFds : \A g \in FreeFds : f <= g
  BY <1>1, LeastNumber
<1>3. (CHOOSE f \in FreeFds : \A g \in FreeFds : f <= g) \in FreeFds
  BY <1>2
<1> QED
  BY <1>1, <1>3 DEF FreeFds

\* The pool gives out one of its loops, the main loop if it has none.
LEMMA GetLoopType ==
    ASSUME PoolType
    PROVE  /\ GetLoop \in Loops
           /\ GetLoop = Main <=> thread_number = 0
           /\ NextPosition \in 0 .. (IF thread_number = 0 THEN 0 ELSE thread_number - 1)
BY ReactorAssumption DEF PoolType, GetLoop, NextPosition, Loops, Main

\* There is one wake-up event and one event of the listening socket.
LEMMA OneOfAKind ==
    ASSUME NEW e \in Event, NEW f \in Event, e.kind = f.kind, e.kind # "conn"
    PROVE  e = f
<1> DEFINE Own == [kind : {"wakeup", "listen"}, fd : {0}, hup : {FALSE}]
<1>1. e \in Own /\ f \in Own
  BY DEF Event
<1>2. /\ e = [kind |-> e.kind, fd |-> e.fd, hup |-> e.hup] /\ e.fd = 0 /\ e.hup = FALSE
      /\ f = [kind |-> f.kind, fd |-> f.fd, hup |-> f.hup] /\ f.fd = 0 /\ f.hup = FALSE
  BY <1>1
<1> QED
  BY <1>2

\* What is registered with epoll has a descriptor.
LEMMA Registered ==
    ASSUME TypeOK, Descriptors, Owned, NEW l \in Loops, NEW c \in reg[l]
    PROVE  c \in Conn /\ fd[c] \in Fds /\ c \in open
<1>1. c \in Conn
  BY DEF TypeOK, RegistryType
<1>2. c \in open
  BY <1>1 DEF Owned, Owns
<1> QED
  BY <1>1, <1>2, ReactorAssumption DEF Descriptors, TypeOK, SocketType, Fds

\* What an append to a loop's list changes.
LEMMA ListAppend ==
    ASSUME QueueType, NEW l \in Loops, NEW t \in {"add", "remove"}, NEW c,
           pending'[l] = Append(pending[l], Item(t, c)),
           \A m \in Loops \ {l} : pending'[m] = pending[m]
    PROVE  \A m \in Loops, u \in {"add", "remove"} : \A d :
              /\ InList(m, u, d)' <=> InList(m, u, d) \/ (m = l /\ u = t /\ d = c)
              /\ Once(m, u, d) /\ ~(m = l /\ u = t /\ d = c) => Once(m, u, d)'
              /\ ~InList(m, u, d) => Once(m, u, d)'
<1> SUFFICES ASSUME NEW m \in Loops, NEW u \in {"add", "remove"}, NEW d
             PROVE  /\ InList(m, u, d)' <=> InList(m, u, d) \/ (m = l /\ u = t /\ d = c)
                    /\ Once(m, u, d) /\ ~(m = l /\ u = t /\ d = c) => Once(m, u, d)'
                    /\ ~InList(m, u, d) => Once(m, u, d)'
  OBVIOUS
<1> DEFINE n == Len(pending[l])
<1>1. n \in Nat
  BY DEF QueueType
<1>2. CASE m # l
  <2>1. pending'[m] = pending[m]
    BY <1>2 DEF QueueType
  <2> QED
    BY <1>2, <2>1 DEF InList, Once, Item
<1>3. CASE m = l
  <2>1. /\ Len(pending'[l]) = n + 1
        /\ \A i \in 1 .. n : pending'[l][i] = pending[l][i]
        /\ pending'[l][n + 1] = Item(t, c)
    BY DEF QueueType
  <2>2. Item(u, d) = Item(t, c) <=> u = t /\ d = c
    BY DEF Item
  <2>3. InList(l, u, d)' <=> InList(l, u, d) \/ (u = t /\ d = c)
    BY <1>1, <2>1, <2>2 DEF InList
  <2>4. Once(l, u, d) /\ ~(u = t /\ d = c) => Once(l, u, d)'
    BY <1>1, <2>1, <2>2 DEF Once
  <2>5. ~InList(l, u, d) => Once(l, u, d)'
    <3> SUFFICES ASSUME ~InList(l, u, d), NEW i \in 1 .. n + 1, NEW j \in 1 .. n + 1,
                        pending'[l][i] = Item(u, d), pending'[l][j] = Item(u, d)
                 PROVE  i = j
      BY <2>1 DEF Once
    <3>1. i \notin 1 .. n /\ j \notin 1 .. n
      BY <2>1 DEF InList
    <3> QED
      BY <1>1, <3>1
  <2> QED
    BY <1>3, <2>3, <2>4, <2>5
<1> QED
  BY <1>2, <1>3

\* What taking the head off a loop's list changes.
LEMMA ListTail ==
    ASSUME QueueType, NEW l \in Loops, NEW t \in {"add", "remove"}, NEW c,
           pending[l] # <<>>, Head(pending[l]) = Item(t, c),
           pending'[l] = Tail(pending[l]),
           \A m \in Loops \ {l} : pending'[m] = pending[m]
    PROVE  /\ InList(l, t, c)
           /\ Once(l, t, c) => ~InList(l, t, c)'
           /\ \A m \in Loops, u \in {"add", "remove"} : \A d :
              /\ InList(m, u, d)' => InList(m, u, d)
              /\ InList(m, u, d) /\ ~(m = l /\ u = t /\ d = c) => InList(m, u, d)'
              /\ Once(m, u, d) => Once(m, u, d)'
<1> DEFINE n == Len(pending[l])
<1>1. n \in Nat \ {0} /\ pending[l][1] = Item(t, c)
  BY DEF QueueType
<1>2. /\ Len(pending'[l]) = n - 1
      /\ \A i \in 1 .. n - 1 : pending'[l][i] = pending[l][i + 1]
  BY DEF QueueType
<1>3. InList(l, t, c) /\ (Once(l, t, c) => ~InList(l, t, c)')
  BY <1>1, <1>2 DEF InList, Once
<1>4. ASSUME NEW m \in Loops, NEW u \in {"add", "remove"}, NEW d
      PROVE  /\ InList(m, u, d)' => InList(m, u, d)
             /\ InList(m, u, d) /\ ~(m = l /\ u = t /\ d = c) => InList(m, u, d)'
             /\ Once(m, u, d) => Once(m, u, d)'
  <2>1. CASE m # l
    <3>1. pending'[m] = pending[m]
      BY <2>1 DEF QueueType
    <3> QED
      BY <2>1, <3>1 DEF InList, Once, Item
  <2>2. CASE m = l
    <3>1. Item(u, d) = Item(t, c) <=> u = t /\ d = c
      BY DEF Item
    <3>2. InList(l, u, d)' => InList(l, u, d)
      BY <1>1, <1>2 DEF InList
    <3>3. InList(l, u, d) /\ ~(u = t /\ d = c) => InList(l, u, d)'
      <4> SUFFICES ASSUME NEW i \in 1 .. n, pending[l][i] = Item(u, d), ~(u = t /\ d = c)
                   PROVE  \E j \in 1 .. n - 1 : pending'[l][j] = Item(u, d)
        BY <1>2 DEF InList
      <4>1. i - 1 \in 1 .. n - 1 /\ pending'[l][i - 1] = Item(u, d)
        BY <1>1, <1>2, <3>1
      <4> QED
        BY <4>1
    <3>4. Once(l, u, d) => Once(l, u, d)'
      <4> SUFFICES ASSUME Once(l, u, d), NEW i \in 1 .. n - 1, NEW j \in 1 .. n - 1,
                          pending'[l][i] = Item(u, d), pending'[l][j] = Item(u, d)
                   PROVE  i = j
        BY <1>2 DEF Once
      <4>1. pending[l][i + 1] = Item(u, d) /\ pending[l][j + 1] = Item(u, d)
        BY <1>2
      <4>2. i + 1 \in 1 .. n /\ j + 1 \in 1 .. n
        BY <1>1
      <4> QED
        BY <4>1, <4>2 DEF Once
    <3> QED
      BY <2>2, <3>2, <3>3, <3>4
  <2> QED
    BY <2>1, <2>2
<1> QED
  BY <1>3, <1>4

-----------------------------------------------------------------------------
\* Variables that a step leaves alone keep their types.
LEMMA TypesKept ==
    ASSUME TypeOK
    PROVE  /\ UNCHANGED thread => ThreadType'
           /\ UNCHANGED queue => QueueType'
           /\ UNCHANGED registry => RegistryType'
           /\ UNCHANGED pool => PoolType'
           /\ UNCHANGED socket => SocketType'
           /\ UNCHANGED conn => ConnType'
           /\ UNCHANGED client => ClientType'
           /\ UNCHANGED crashed => crashed' \in BOOLEAN
<1> USE DEF TypeOK
<1>1. UNCHANGED thread => ThreadType'
  BY DEF thread, ThreadType
<1>2. UNCHANGED queue => QueueType'
  BY DEF queue, QueueType
<1>3. UNCHANGED registry => RegistryType'
  BY DEF registry, RegistryType
<1>4. UNCHANGED pool => PoolType'
  BY DEF pool, PoolType
<1>5. UNCHANGED socket => SocketType'
  BY DEF socket, SocketType
<1>6. UNCHANGED conn => ConnType'
  BY DEF conn, ConnType
<1>7. UNCHANGED client => ClientType'
  BY DEF client, ClientType
<1> QED
  BY <1>1, <1>2, <1>3, <1>4, <1>5, <1>6, <1>7

\* A client's step is about its own connection.
LEMMA ClientTyped ==
    ASSUME TypeOK, NEW c \in Conn, Client(c) PROVE TypeOK'
<1>1. CASE Connect(c)
  <2>1. SocketType' /\ ClientType'
    BY <1>1 DEF Connect, TypeOK, SocketType, ClientType
  <2> QED
    BY <1>1, <2>1, TypesKept DEF Connect, TypeOK
<1>2. ASSUME NEW p \in Seq(Piece), Deliver(c, p) PROVE TypeOK'
  <2>1. ClientType'
    BY <1>2 DEF Deliver, TypeOK, ClientType
  <2> QED
    BY <1>2, <2>1, TypesKept DEF Deliver, TypeOK
<1>3. CASE Close(c) \/ Abort(c)
  <2>1. ClientType'
    BY <1>3 DEF Close, Abort, TypeOK, ClientType
  <2> QED
    BY <1>3, <2>1, TypesKept DEF Close, Abort, TypeOK
<1>4. LastPiece(c) \in Piece /\ "head" \in Piece
  BY DEF LastPiece, Piece
<1>5. /\ <<"head", LastPiece(c)>> \in Seq(Piece)
      /\ <<LastPiece(c)>> \in Seq(Piece)
      /\ <<"head">> \in Seq(Piece)
  BY <1>4
<1> QED
  BY <1>1, <1>2, <1>3, <1>5 DEF Client, Send, SendHead, SendRest

\* So is a callback's.
LEMMA HandleReadTyped ==
    ASSUME TypeOK, NEW l \in Loops, NEW e \in Event, NEW c \in Conn, HandleRead(l, e, c)
    PROVE  TypeOK'
<1>1. Received(c) \in Seq(Piece)
  BY DEF Received, TypeOK, ConnType, ClientType
<1>2. Len(Received(c)) >= 2 => SubSeq(Received(c), 3, Len(Received(c))) \in Seq(Piece)
  BY <1>1
<1>3. ASSUME ReadsData(l, e, c), peer' = peer, sent' = sent PROVE ClientType'
  BY <1>3 DEF ReadsData, TypeOK, ClientType
<1>4. ASSUME ParsesRequest(l, e, c), UNCHANGED <<data, closed>>,
             answered' \in [Conn -> Nat]
      PROVE  ConnType'
  BY <1>4, <1>2 DEF ParsesRequest, TypeOK, ConnType
<1>5. ASSUME Consume(l, e), cur' = cur, pc' \in [Loops -> LoopPc] PROVE ThreadType'
  BY <1>5 DEF Consume, TypeOK, ThreadType
<1>6. pc' = pc \/ pc' = [pc EXCEPT ![l] = "hung"] => pc' \in [Loops -> LoopPc]
  BY DEF TypeOK, ThreadType, LoopPc
<1>7. CASE ParseSpins(l, e, c)
  <2>1. ConnType'
    BY <1>7, <1>1 DEF ParseSpins, TypeOK, ConnType
  <2> QED
    BY <1>7, <2>1, <1>3, <1>5, <1>6, TypesKept DEF ParseSpins, ReadsData, TypeOK
<1>8. CASE CallbackUnset(l, e, c)
  <2>1. answered' \in [Conn -> Nat]
    BY <1>8 DEF CallbackUnset, TypeOK, ConnType
  <2>2. ConnType'
    BY <1>8, <2>1, <1>4 DEF CallbackUnset
  <2> QED
    BY <1>8, <2>2, <1>3, <1>5, <1>6, TypesKept DEF CallbackUnset, ParsesRequest, ReadsData, TypeOK
<1>9. CASE Respond(l, e, c)
  <2>1. answered' \in [Conn -> Nat]
    BY <1>9 DEF Respond, TypeOK, ConnType
  <2>2. ConnType'
    BY <1>9, <2>1, <1>4 DEF Respond
  <2>3. SocketType'
    BY <1>9 DEF Respond, TypeOK, SocketType
  <2> QED
    BY <1>9, <2>2, <2>3, <1>3, <1>5, <1>6, TypesKept DEF Respond, ParsesRequest, ReadsData, TypeOK
<1>10. CASE SendFails(l, e, c)
  <2>1. answered' \in [Conn -> Nat]
    BY <1>10 DEF SendFails, TypeOK, ConnType
  <2>2. ConnType'
    BY <1>10, <2>1, <1>4 DEF SendFails
  <2>3. pc' \in [Loops -> LoopPc] /\ crashed' \in BOOLEAN
    BY <1>10, <1>6 DEF SendFails, TypeOK
  <2> QED
    BY <1>10, <2>2, <2>3, <1>3, <1>5, TypesKept DEF SendFails, ParsesRequest, ReadsData, TypeOK
<1>11. CASE ReadEnd(l, e, c)
  <2>1. ThreadType'
    BY <1>11 DEF ReadEnd, Consume, TypeOK, ThreadType, LoopPc
  <2>2. [type |-> "remove", conn |-> c] \in Element
    BY DEF Element
  <2>3. QueueType'
    BY <1>11, <2>2 DEF ReadEnd, TypeOK, QueueType
  <2> QED
    BY <1>11, <2>1, <2>3, TypesKept DEF ReadEnd, TypeOK
<1> QED
  BY <1>7, <1>8, <1>9, <1>10, <1>11 DEF HandleRead

\* The other steps of a loop's thread.
LEMMA LoopTyped ==
    ASSUME TypeOK, IInv, NEW l \in Loops, Loop(l) PROVE TypeOK'
<1> USE ReactorAssumption DEF Main, IInv
<1>1. CASE EpollWait(l)
  <2>1. Ready(l) \in SUBSET Event
    <3>1. \A c \in reg[l] : [kind |-> "conn", fd |-> fd[c], hup |-> HangUp(c)] \in Event
      BY Registered DEF Event, HangUp
    <3>2. \A k \in {"wakeup", "listen"} : [kind |-> k, fd |-> 0, hup |-> FALSE] \in Event
      BY DEF Event
    <3> QED
      BY <3>1, <3>2 DEF Ready
  <2>2. ThreadType'
    BY <1>1, <2>1 DEF EpollWait, TypeOK, ThreadType, LoopPc
  <2> QED
    BY <1>1, <2>2, TypesKept DEF EpollWait, TypeOK
<1>2. ASSUME NEW e \in Event, HandleWakeup(l, e) PROVE TypeOK'
  <2>1. wake[l] > 0
    BY <1>2 DEF HandleWakeup, Dispatches, EventsBacked
  <2>2. ThreadType'
    BY <1>2 DEF HandleWakeup, Consume, TypeOK, ThreadType
  <2>3. wake[l] - 1 \in 0 .. WakeCap
    BY <2>1 DEF TypeOK, QueueType
  <2>4. QueueType'
    BY <1>2, <2>3 DEF HandleWakeup, TypeOK, QueueType
  <2> QED
    BY <1>2, <2>2, <2>4, TypesKept DEF HandleWakeup, TypeOK
<1>3. ASSUME NEW e \in Event, CloseHangUp(l, e) PROVE TypeOK'
  <2>1. ThreadType' /\ RegistryType' /\ SocketType'
    BY <1>3 DEF CloseHangUp, Consume, TypeOK, ThreadType, RegistryType, SocketType
  <2> QED
    BY <1>3, <2>1, TypesKept DEF CloseHangUp, TypeOK
<1>4. CASE DispatchDone(l)
  <2>1. ThreadType' /\ QueueType'
    BY <1>4 DEF DispatchDone, TypeOK, ThreadType, QueueType, LoopPc
  <2> QED
    BY <1>4, <2>1, TypesKept DEF DispatchDone, TypeOK
<1>5. ASSUME NEW t, NEW c, Handles(l, t, c), RegistryType' PROVE TypeOK'
  <2>1. ThreadType'
    BY <1>5 DEF Handles, TypeOK, ThreadType
  <2>2. Tail(pending[l]) \in Seq(Element)
    BY <1>5 DEF Handles, TypeOK, QueueType
  <2>3. QueueType'
    BY <1>5, <2>2 DEF Handles, TypeOK, QueueType
  <2> QED
    BY <1>5, <2>1, <2>3, TypesKept DEF Handles, TypeOK
<1>6. ASSUME NEW c \in Conn, PendingAdd(l, c) \/ PendingRemove(l, c) PROVE TypeOK'
  <2>1. reg' \in [Loops -> SUBSET Conn]
    BY <1>6 DEF PendingAdd, PendingRemove, registry, TypeOK, RegistryType
  <2>2. entries' \in [Loops -> [Fds -> Conn \cup {NoConn}]]
    <3> DEFINE Set(x) == [entries[l] EXCEPT ![fd[c]] = x]
    <3>1. entries \in [Loops -> [Fds -> Conn \cup {NoConn}]]
      BY DEF TypeOK, RegistryType
    <3>2. Set(c) \in [Fds -> Conn \cup {NoConn}] /\ Set(NoConn) \in [Fds -> Conn \cup {NoConn}]
      BY <3>1
    <3>3. \/ entries' = entries
          \/ entries' = [entries EXCEPT ![l] = Set(c)]
          \/ entries' = [entries EXCEPT ![l] = Set(NoConn)]
      BY <1>6, <3>1 DEF PendingAdd, PendingRemove, registry
    <3> HIDE DEF Set
    <3> QED
      BY <3>1, <3>2, <3>3
  <2>3. RegistryType'
    BY <2>1, <2>2 DEF RegistryType
  <2> QED
    BY <1>5, <1>6, <2>3 DEF PendingAdd, PendingRemove
<1>7. CASE PendingAddFailed(l)
  BY <1>5, <1>7, TypesKept DEF PendingAddFailed
<1>8. CASE PendingDone(l)
  <2>1. pc' \in [Loops -> LoopPc]
    BY <1>8 DEF PendingDone, InPending, TypeOK, ThreadType, LoopPc
  <2>2. cur' \in [Loops -> [loop : Loops, conn : Conn \cup {NoConn}]]
    BY <1>8 DEF PendingDone, TypeOK, ThreadType, Nothing, Loops
  <2>3. ThreadType'
    BY <1>8, <2>1, <2>2 DEF PendingDone, TypeOK, ThreadType
  <2>4. QueueType'
    BY <1>8 DEF PendingDone, TypeOK, QueueType
  <2>5. ConnType'
    BY <1>8 DEF PendingDone, EventsBacked, TypeOK, ConnType
  <2> QED
    BY <1>8, <2>3, <2>4, <2>5, TypesKept DEF PendingDone, TypeOK
<1> QED
  BY <1>1, <1>2, <1>3, <1>4, <1>6, <1>7, <1>8, HandleReadTyped DEF Loop

\* The steps of the acceptor.
LEMMA AcceptorTyped ==
    ASSUME TypeOK, EventsBacked, Acceptor PROVE TypeOK'
<1> USE ReactorAssumption DEF Main
<1>0. 0 \in Loops
  BY DEF Loops
<1>1. ASSUME NEW e \in Event, Accept(e) PROVE TypeOK'
  <2>1. backlog # <<>>
    BY <1>1, <1>0 DEF Accept, Dispatches, EventsBacked
  <2>2. GetLoop \in Loops /\ PoolType'
    BY <1>1, GetLoopType DEF Accept, TypeOK, PoolType
  <2>3. PICK c \in IF FreeFds = {} THEN {NoConn} ELSE {Head(backlog)} :
          /\ \/ /\ c = NoConn
                /\ UNCHANGED <<backlog, fd, open>>
             \/ /\ c # NoConn
                /\ backlog' = Tail(backlog)
                /\ fd' = [fd EXCEPT ![c] =
                            CHOOSE f \in FreeFds : \A g \in FreeFds : f <= g]
                /\ open' = open \cup {c}
          /\ pending' = [pending EXCEPT ![GetLoop] =
                            Append(@, [type |-> "add", conn |-> c])]
          /\ cur' = [cur EXCEPT ![0] = [loop |-> GetLoop, conn |-> c]]
    BY <1>1 DEF Accept
  <2>4. c \in Conn \cup {NoConn} /\ (FreeFds = {} => c = NoConn)
    BY <2>1, <2>3 DEF TypeOK, SocketType
  <2>5. ThreadType'
    BY <1>1, <2>2, <2>3, <2>4, <1>0 DEF Accept, Consume, TypeOK, ThreadType, LoopPc
  <2>6. QueueType'
    <3>1. [type |-> "add", conn |-> c] \in Element
      BY <2>4 DEF Element
    <3>2. Append(pending[GetLoop], [type |-> "add", conn |-> c]) \in Seq(Element)
      BY <2>2, <3>1 DEF TypeOK, QueueType
    <3>3. wake' = wake /\ handling' \in [Loops -> BOOLEAN]
      BY <1>1, <1>0 DEF Accept, TypeOK, QueueType
    <3> QED
      BY <2>3, <3>2, <3>3 DEF TypeOK, QueueType
  <2>7. SocketType'
    <3>1. CASE c = NoConn
      BY <1>1, <2>3, <3>1 DEF Accept, TypeOK, SocketType
    <3>2. CASE c # NoConn
      <4>1. (CHOOSE f \in FreeFds : \A g \in FreeFds : f <= g) \in 0 .. MaxFd
        BY <2>4, <3>2, AcceptFd DEF Fds, TypeOK
      <4>2. Tail(backlog) \in Seq(Conn)
        BY <2>1 DEF TypeOK, SocketType
      <4>3. shut' = shut
        BY <1>1 DEF Accept
      <4> HIDE DEF FreeFds
      <4> QED
        BY <2>3, <2>4, <3>2, <4>1, <4>2, <4>3 DEF TypeOK, SocketType
    <3> QED
      BY <3>1, <3>2
  <2> QED
    BY <1>1, <2>2, <2>5, <2>6, <2>7, TypesKept DEF Accept, TypeOK
<1>2. CASE Wakeup
  <2>1. cur[0].loop \in Loops
    BY <1>0 DEF TypeOK, ThreadType
  <2>2. ThreadType'
    BY <1>2, <1>0 DEF Wakeup, TypeOK, ThreadType, LoopPc
  <2>3. wake[cur[0].loop] + 1 \in 0 .. WakeCap
    BY <1>2, <2>1 DEF Wakeup, TypeOK, QueueType
  <2>4. QueueType'
    BY <1>2, <2>1, <2>3 DEF Wakeup, TypeOK, QueueType
  <2> QED
    BY <1>2, <2>2, <2>4, TypesKept DEF Wakeup, TypeOK
<1>3. CASE SetData
  <2>1. ThreadType'
    BY <1>3, <1>0 DEF SetData, TypeOK, ThreadType, LoopPc, Nothing
  <2>2. ConnType'
    BY <1>3, <1>0 DEF SetData, TypeOK, ThreadType, ConnType
  <2> QED
    BY <1>3, <2>1, <2>2, TypesKept DEF SetData, TypeOK
<1> QED
  BY <1>1, <1>2, <1>3 DEF Acceptor

\* Every action keeps the types.
LEMMA TypeInductive == TypeOK /\ IInv /\ [Next]_vars => TypeOK'
<1> SUFFICES ASSUME TypeOK, IInv, [Next]_vars PROVE TypeOK'
  OBVIOUS
<1>1. CASE UNCHANGED vars
  BY <1>1, TypesKept DEF vars, TypeOK
<1> QED
  BY <1>1, ClientTyped, LoopTyped, AcceptorTyped DEF Next, IInv

-----------------------------------------------------------------------------
\* A wake-up byte or a connection in the backlog is taken away only with the
\* event that reported it.
LEMMA EventsBackedInductive ==
    TypeOK /\ EventsBacked /\ [Next]_vars => EventsBacked'
<1> SUFFICES ASSUME TypeOK, EventsBacked, [Next]_vars PROVE EventsBacked'
  OBVIOUS
<1> USE ReactorAssumption DEF Main, EventsBacked
<1>0. 0 \in Loops
  BY DEF Loops
<1>1. ASSUME NEW c \in Conn, Client(c) PROVE EventsBacked'
  <2>1. CASE Connect(c)
    BY <2>1 DEF Connect, TypeOK, SocketType, thread, queue
  <2>2. CASE ~Connect(c)
    BY <1>1, <2>2 DEF Client, Send, SendHead, SendRest, Deliver, Close, Abort,
       thread, queue, socket
  <2> QED
    BY <2>1, <2>2
<1>2. ASSUME NEW l \in Loops, EpollWait(l) PROVE EventsBacked'
  <2>1. \A e \in Ready(l) : /\ e.kind = "wakeup" => wake[l] > 0
                            /\ e.kind = "listen" => l = 0 /\ backlog # <<>>
    BY DEF Ready
  <2> QED
    BY <1>2, <2>1 DEF EpollWait, TypeOK, ThreadType, queue, socket
<1>3. ASSUME NEW l \in Loops, NEW e \in Event, HandleWakeup(l, e) PROVE EventsBacked'
  <2>1. \A f \in events'[l] : f.kind # "wakeup"
    BY <1>3, OneOfAKind DEF HandleWakeup, Consume, TypeOK, ThreadType
  <2> QED
    BY <1>3, <2>1 DEF HandleWakeup, Consume, TypeOK, ThreadType, QueueType, socket
<1>4. ASSUME NEW l \in Loops, NEW e \in Event, CloseHangUp(l, e) PROVE EventsBacked'
  BY <1>4 DEF CloseHangUp, Consume, TypeOK, ThreadType, queue
<1>5. ASSUME NEW l \in Loops, NEW e \in Event, NEW c \in Conn, HandleRead(l, e, c)
      PROVE  EventsBacked'
  <2>1. CASE ReadEnd(l, e, c)
    BY <2>1 DEF ReadEnd, Consume, TypeOK, ThreadType, socket
  <2>2. CASE ~ReadEnd(l, e, c)
    <3>1. /\ Consume(l, e) /\ UNCHANGED <<cur, wake, backlog>>
          /\ pc' = pc \/ pc' = [pc EXCEPT ![l] = "hung"]
      BY <1>5, <2>2 DEF HandleRead, ParseSpins, CallbackUnset, Respond, SendFails,
         ParsesRequest, ReadsData, queue, socket
    <3> QED
      BY <3>1 DEF Consume, TypeOK, ThreadType
  <2> QED
    BY <2>1, <2>2
<1>6. ASSUME NEW l \in Loops, DispatchDone(l) PROVE EventsBacked'
  BY <1>6 DEF DispatchDone, TypeOK, ThreadType, socket
<1>7. ASSUME NEW l \in Loops, NEW t, NEW c, Handles(l, t, c) PROVE EventsBacked'
  BY <1>7 DEF Handles, socket
<1>8. ASSUME NEW l \in Loops, PendingDone(l) PROVE EventsBacked'
  BY <1>8 DEF PendingDone, InPending, TypeOK, ThreadType, socket
<1>9. ASSUME NEW e \in Event, Accept(e) PROVE EventsBacked'
  <2>1. \A f \in events'[0] : f.kind # "listen"
    BY <1>9, <1>0, OneOfAKind DEF Accept, Consume, TypeOK, ThreadType
  <2>2. /\ wake' = wake /\ Consume(0, e)
        /\ \A l \in Loops \ {0} : cur'[l] = cur[l] /\ pc'[l] = pc[l]
        /\ pc'[0] # "closing"
    BY <1>9, <1>0 DEF Accept, TypeOK, ThreadType
  <2> QED
    BY <2>1, <2>2, <1>0 DEF Consume, TypeOK, ThreadType
<1>10. CASE Wakeup
  BY <1>10, <1>0 DEF Wakeup, TypeOK, ThreadType, QueueType, socket
<1>11. CASE SetData
  BY <1>11, <1>0 DEF SetData, TypeOK, ThreadType, queue, socket
<1>12. CASE UNCHANGED vars
  BY <1>12 DEF vars, thread, queue, socket
<1> QED
  BY <1>1, <1>2, <1>3, <1>4, <1>5, <1>6, <1>7, <1>8, <1>9, <1>10, <1>11, <1>12
     DEF Next, Loop, Acceptor, PendingAdd, PendingRemove, PendingAddFailed

-----------------------------------------------------------------------------
\* A step that leaves the lists, the maps, the epoll sets and the descriptors
\* alone, reports nothing new and begins or ends no removal.
LEMMA Quiet ==
    ASSUME Owned, Lists, Mapped, Reported,
           UNCHANGED <<pending, reg, entries, fd, open, closed>>,
           \A l \in Loops : events'[l] \subseteq events[l],
           \A l \in Loops, c \in Conn : Closes(l, c)' <=> Closes(l, c),
           TypeOK
    PROVE  Owned' /\ Lists' /\ Mapped' /\ Reported'
<1>1. \A l \in Loops, t \in {"add", "remove"} : \A c : (InList(l, t, c)' <=> InList(l, t, c))
                             /\ (Once(l, t, c)' <=> Once(l, t, c))
  BY DEF InList, Once, Item
<1>2. \A l \in Loops, c \in Conn : Owns(l, c)' <=> Owns(l, c)
  BY <1>1 DEF Owns
<1>3. Owned'
  BY <1>2 DEF Owned
<1>4. Lists'
  BY <1>1 DEF Lists
<1>5. Mapped'
  BY DEF Mapped
<1>6. Reported'
  BY DEF Reported, TypeOK, RegistryType
<1> QED
  BY <1>3, <1>4, <1>5, <1>6

Core == Owned /\ Lists /\ Mapped /\ Reported

\* epoll_wait() reports each registered connection that is ready, once.
LEMMA EpollWaitCore ==
    ASSUME TypeOK, Descriptors, Core, NEW l \in Loops, EpollWait(l) PROVE Core'
<1> USE DEF Core
<1>1. \A m \in Loops, c \in Conn : Closes(m, c)' <=> Closes(m, c)
  BY DEF EpollWait, At, Closes, TypeOK, ThreadType
<1>2. UNCHANGED <<pending, reg, entries, fd, open, closed>>
  BY DEF EpollWait, queue, registry, socket, conn
<1>3. \A m \in Loops, t \in {"add", "remove"} : \A c : (InList(m, t, c)' <=> InList(m, t, c))
                             /\ (Once(m, t, c)' <=> Once(m, t, c))
  BY <1>2 DEF InList, Once, Item
<1>4. \A m \in Loops, c \in Conn : Owns(m, c)' <=> Owns(m, c)
  BY <1>1, <1>2, <1>3 DEF Owns
<1>5. Owned' /\ Lists' /\ Mapped'
  BY <1>1, <1>2, <1>3, <1>4 DEF Owned, Lists, Mapped
<1>6. \A e \in Ready(l) : e.kind = "conn" =>
         \E c \in reg[l] : e = [kind |-> "conn", fd |-> fd[c], hup |-> HangUp(c)]
  BY DEF Ready
<1>7. \A c, d \in reg[l] : fd[c] = fd[d] => c = d
  BY Registered DEF Descriptors
<1>8. \A c \in Conn : ~Closes(l, c)
  BY DEF Closes, EpollWait, At
<1>9. ASSUME NEW m \in Loops, NEW e \in events'[m], e.kind = "conn"
      PROVE  /\ \E c \in reg'[m] : fd'[c] = e.fd /\ ~Closes(m, c)'
             /\ \A f \in events'[m] : f.kind = "conn" /\ f.fd = e.fd => f = e
  <2>1. CASE m = l
    <3>1. events'[l] = Ready(l)
      BY DEF EpollWait, TypeOK, ThreadType
    <3>2. PICK c \in reg[l] : e = [kind |-> "conn", fd |-> fd[c], hup |-> HangUp(c)]
      BY <1>6, <1>9, <2>1, <3>1
    <3>3. c \in Conn
      BY Registered
    <3>4. ASSUME NEW f \in events'[m], f.kind = "conn", f.fd = e.fd PROVE f = e
      <4>1. PICK d \in reg[l] : f = [kind |-> "conn", fd |-> fd[d], hup |-> HangUp(d)]
        BY <1>6, <2>1, <3>1, <3>4
      <4> QED
        BY <1>7, <3>2, <3>4, <4>1
    <3>5. fd'[c] = e.fd /\ ~Closes(m, c)'
      BY <1>1, <1>2, <1>8, <2>1, <3>2, <3>3
    <3> QED
      BY <1>2, <2>1, <3>4, <3>5
  <2>2. CASE m # l
    <3>1. events'[m] = events[m]
      BY <2>2 DEF EpollWait, TypeOK, ThreadType
    <3>2. PICK c \in reg[m] : fd[c] = e.fd /\ ~Closes(m, c)
      BY <3>1, <1>9 DEF Reported
    <3>3. c \in Conn
      BY Registered
    <3> QED
      BY <1>1, <1>2, <1>9, <3>1, <3>2, <3>3 DEF Reported
  <2> QED
    BY <2>1, <2>2
<1>10. Reported'
  BY <1>9 DEF Reported
<1> QED
  BY <1>5, <1>10

\* The descriptor of a hung-up connection is closed; the connection was the
\* only open one with that descriptor, and in no list.
LEMMA CloseHangUpCore ==
    ASSUME TypeOK, Descriptors, Core, NEW l \in Loops, NEW e \in Event, CloseHangUp(l, e)
    PROVE  Core'
<1> USE DEF Core
<1>1. /\ Dispatches(l, e) /\ e.kind = "conn" /\ Consume(l, e)
      /\ UNCHANGED <<pc, cur, pending, entries, fd, closed>>
      /\ open' = open \ {c \in open : fd[c] = e.fd}
      /\ reg' = [reg EXCEPT ![l] = @ \ {c \in open : fd[c] = e.fd}]
  BY DEF CloseHangUp, queue, conn
<1>2. PICK g \in reg[l] : fd[g] = e.fd
  BY <1>1 DEF Dispatches, Reported
<1>3. g \in Conn /\ g \in open
  BY Registered
<1>4. {c \in open : fd[c] = e.fd} = {g}
  BY <1>2, <1>3 DEF Descriptors
<1>5. open' = open \ {g} /\ reg' = [reg EXCEPT ![l] = @ \ {g}]
  BY <1>1, <1>4
<1>6. /\ \A m \in Loops, t \in {"add", "remove"} : \A c : (InList(m, t, c)' <=> InList(m, t, c))
                                /\ (Once(m, t, c)' <=> Once(m, t, c))
      /\ \A m \in Loops, c \in Conn : Closes(m, c)' <=> Closes(m, c)
  BY <1>1 DEF InList, Once, Item, Closes
<1>7. /\ \A m \in Loops \ {l} : reg'[m] = reg[m] /\ events'[m] = events[m]
      /\ reg'[l] = reg[l] \ {g} /\ events'[l] = events[l] \ {e}
  BY <1>1, <1>5 DEF Consume, TypeOK, ThreadType, RegistryType
<1>8. \A m \in Loops : reg'[m] \subseteq reg[m] /\ reg[m] \subseteq Conn
  BY <1>7 DEF TypeOK, RegistryType
<1>9. ~InList(l, "add", g) /\ ~Closes(l, g) /\ ~InList(l, "remove", g)
  BY <1>1, <1>2, <1>3 DEF Lists, Closes, Dispatches, At
<1>10. \A m \in Loops : ~Owns(m, g)'
  BY <1>2, <1>3, <1>6, <1>7, <1>9 DEF Owned, Owns
<1>11. \A m \in Loops, c \in Conn : Owns(m, c)' => Owns(m, c)
  BY <1>6, <1>8 DEF Owns
<1>12. Owned'
  <2>1. closed' = closed
    BY <1>1
  <2> QED
    BY <2>1, <1>5, <1>10, <1>11 DEF Owned
<1>13. Lists'
  <2>1. \A m \in Loops, c \in Conn : Closes(m, c) => (c \in reg'[m] <=> c \in reg[m])
    BY <1>7, <1>9
  <2> QED
    BY <2>1, <1>6, <1>8 DEF Lists
<1>14. Mapped'
  BY <1>1, <1>8 DEF Mapped
<1>15. ASSUME NEW m \in Loops, NEW f \in events'[m], f.kind = "conn"
       PROVE  /\ \E c \in reg'[m] : fd'[c] = f.fd /\ ~Closes(m, c)'
              /\ \A h \in events'[m] : h.kind = "conn" /\ h.fd = f.fd => h = f
  <2>1. f \in events[m] /\ events'[m] \subseteq events[m]
    BY <1>7, <1>15
  <2>2. PICK c \in reg[m] : fd[c] = f.fd /\ ~Closes(m, c)
    BY <2>1, <1>15 DEF Reported
  <2>3. c \in reg'[m]
    <3>1. CASE m = l
      <4>1. f.fd # e.fd
        BY <1>1, <1>7, <1>15, <2>1, <3>1 DEF Reported, Dispatches
      <4> QED
        BY <1>2, <1>7, <2>2, <3>1, <4>1
    <3> QED
      BY <1>7, <2>2, <3>1
  <2>4. fd'[c] = f.fd /\ ~Closes(m, c)'
    BY <1>1, <1>6, <1>8, <2>2
  <2> QED
    BY <1>15, <2>1, <2>3, <2>4 DEF Reported
<1>16. Reported'
  BY <1>15 DEF Reported
<1> QED
  BY <1>12, <1>13, <1>14, <1>16

\* The end of a connection: its loop is asked to remove it.
LEMMA ReadEndCore ==
    ASSUME TypeOK, Descriptors, Core,
           NEW l \in Loops, NEW e \in Event, NEW c \in Conn, ReadEnd(l, e, c)
    PROVE  Core'
<1> USE DEF Core
<1>1. /\ Dispatches(l, e) /\ e.kind = "conn" /\ Consume(l, e)
      /\ c = entries[l][e.fd]
      /\ UNCHANGED <<reg, entries, fd, open, closed>>
      /\ pending' = [pending EXCEPT ![l] = Append(@, Item("remove", c))]
      /\ cur' = [cur EXCEPT ![l] = [loop |-> l, conn |-> c]]
      /\ pc' = [pc EXCEPT ![l] = "closing"]
  BY DEF ReadEnd, Reads, Item, registry, socket, conn
<1>2. c \in reg[l] /\ fd[c] = e.fd
  BY <1>1 DEF Dispatches, Reported, Mapped
<1>3. \A d \in Conn : /\ ~Closes(l, d) /\ (Closes(l, d)' <=> d = c)
                      /\ \A m \in Loops \ {l} : Closes(m, d)' <=> Closes(m, d)
  BY <1>1 DEF Dispatches, At, Closes, TypeOK, ThreadType
<1>4. \A d \in Conn : ~InList(l, "remove", d)
  BY <1>3 DEF Lists
<1>5. /\ QueueType
      /\ pending'[l] = Append(pending[l], Item("remove", c))
      /\ \A m \in Loops \ {l} : pending'[m] = pending[m]
  BY <1>1 DEF TypeOK, QueueType
<1>6. \A m \in Loops, u \in {"add", "remove"} : \A d :
         /\ InList(m, u, d)' <=> InList(m, u, d) \/ (m = l /\ u = "remove" /\ d = c)
         /\ Once(m, u, d) /\ ~(m = l /\ u = "remove" /\ d = c) => Once(m, u, d)'
         /\ ~InList(m, u, d) => Once(m, u, d)'
  BY <1>5, ListAppend
<1>7. \A m \in Loops, d \in Conn : Owns(m, d)' <=> Owns(m, d)
  BY <1>1, <1>2, <1>3, <1>6 DEF Owns
<1>8. Owned'
  BY <1>1, <1>7 DEF Owned
<1>9. ~InList(l, "add", c)
  BY <1>2 DEF Lists
<1>10. ASSUME NEW m \in Loops, NEW d \in Conn
       PROVE  (/\ Once(m, "add", d) /\ Once(m, "remove", d)
               /\ InList(m, "add", d) => d \notin reg[m] /\ ~Closes(m, d)
               /\ InList(m, "remove", d) => Closes(m, d)
               /\ Closes(m, d) => (d \in reg[m] <=> InList(m, "remove", d)))'
  <2>1. reg' = reg
    BY <1>1
  <2>2. CASE m = l
    BY <2>1, <2>2, <1>2, <1>3, <1>4, <1>6, <1>9 DEF Lists
  <2>3. CASE m # l
    BY <2>1, <2>3, <1>3, <1>6 DEF Lists
  <2> QED
    BY <2>2, <2>3
<1>11. Lists'
  BY <1>10 DEF Lists
<1>12. Mapped'
  BY <1>1 DEF Mapped
<1>13. \A m \in Loops : events'[m] \subseteq events[m] /\ (m = l => e \notin events'[m])
  BY <1>1 DEF Consume, TypeOK, ThreadType
<1>14. ASSUME NEW m \in Loops, NEW f \in events'[m], f.kind = "conn"
       PROVE  /\ \E d \in reg'[m] : fd'[d] = f.fd /\ ~Closes(m, d)'
              /\ \A h \in events'[m] : h.kind = "conn" /\ h.fd = f.fd => h = f
  <2>1. f \in events[m]
    BY <1>13
  <2>2. PICK d \in reg[m] : fd[d] = f.fd /\ ~Closes(m, d)
    BY <2>1, <1>14 DEF Reported
  <2>3. d \in Conn
    BY Registered
  <2>4. ~Closes(m, d)'
    <3>1. CASE m = l
      <4>1. f.fd # e.fd
        BY <1>1, <1>13, <1>14, <2>1, <3>1 DEF Reported, Dispatches
      <4> QED
        BY <1>2, <1>3, <2>2, <2>3, <3>1, <4>1
    <3> QED
      BY <1>3, <2>2, <2>3, <3>1
  <2> QED
    BY <1>1, <1>13, <1>14, <2>1, <2>2, <2>4 DEF Reported
<1>15. Reported'
  BY <1>14 DEF Reported
<1> QED
  BY <1>8, <1>11, <1>12, <1>15

\* A channel is added, or left out because its entry is occupied.
LEMMA PendingAddCore ==
    ASSUME TypeOK, Descriptors, Core, NEW l \in Loops, NEW c \in Conn, PendingAdd(l, c)
    PROVE  Core'
<1> USE DEF Core
<1>1. /\ pending[l] # <<>> /\ Head(pending[l]) = Item("add", c)
      /\ pending' = [pending EXCEPT ![l] = Tail(@)]
      /\ UNCHANGED <<pc, events, cur, fd, open, closed>>
  BY DEF PendingAdd, Handles, Item, socket, conn
<1>2. /\ QueueType
      /\ pending'[l] = Tail(pending[l])
      /\ \A m \in Loops \ {l} : pending'[m] = pending[m]
  BY <1>1 DEF TypeOK, QueueType
<1>3. /\ InList(l, "add", c)
      /\ Once(l, "add", c) => ~InList(l, "add", c)'
      /\ \A m \in Loops, u \in {"add", "remove"} : \A d :
         /\ InList(m, u, d)' => InList(m, u, d)
         /\ InList(m, u, d) /\ ~(m = l /\ u = "add" /\ d = c) => InList(m, u, d)'
         /\ Once(m, u, d) => Once(m, u, d)'
  BY <1>1, <1>2, ListTail
<1>4. c \in open /\ c \notin reg[l] /\ ~Closes(l, c) /\ ~InList(l, "add", c)'
  BY <1>3 DEF Lists, Owned, Owns
<1>5. fd[c] \in Fds
  BY <1>4, ReactorAssumption DEF Descriptors, TypeOK, SocketType, Fds
<1>6. /\ \A m \in Loops \ {l} : reg'[m] = reg[m] /\ entries'[m] = entries[m]
      /\ \/ reg'[l] = reg[l] /\ entries'[l] = entries[l]
         \/ reg'[l] = reg[l] \cup {c} /\ entries'[l] = [entries[l] EXCEPT ![fd[c]] = c]
  BY DEF PendingAdd, registry, TypeOK, RegistryType
<1>7. \A m \in Loops, d \in Conn : Closes(m, d)' <=> Closes(m, d)
  BY <1>1 DEF Closes
<1>8. \A m \in Loops, d \in Conn : Owns(m, d)' => Owns(m, d)
  BY <1>3, <1>6, <1>7 DEF Owns
<1>9. Owned'
  BY <1>1, <1>8 DEF Owned
<1>10. ASSUME NEW m \in Loops, NEW d \in Conn
       PROVE  (/\ Once(m, "add", d) /\ Once(m, "remove", d)
               /\ InList(m, "add", d) => d \notin reg[m] /\ ~Closes(m, d)
               /\ InList(m, "remove", d) => Closes(m, d)
               /\ Closes(m, d) => (d \in reg[m] <=> InList(m, "remove", d)))'
  <2>1. InList(m, "remove", d)' <=> InList(m, "remove", d)
    BY <1>3
  <2>2. CASE m = l
    BY <2>1, <2>2, <1>3, <1>4, <1>6, <1>7 DEF Lists
  <2>3. CASE m # l
    BY <2>1, <2>3, <1>3, <1>6, <1>7 DEF Lists
  <2> QED
    BY <2>2, <2>3
<1>11. Lists'
  BY <1>10 DEF Lists
<1>12. ASSUME NEW m \in Loops, NEW d \in reg'[m] PROVE entries'[m][fd'[d]] = d
  <2>1. CASE m = l /\ d # c
    <3>1. d \in reg[l]
      BY <1>6, <1>12, <2>1
    <3>2. d \in open /\ fd[d] \in Fds
      BY <3>1, Registered
    <3>3. fd[d] # fd[c]
      BY <1>4, <2>1, <3>2 DEF Descriptors
    <3>4. entries[l][fd[d]] = d /\ entries[l] \in [Fds -> Conn \cup {NoConn}]
      BY <3>1 DEF Mapped, TypeOK, RegistryType
    <3> QED
      BY <1>1, <1>6, <2>1, <3>2, <3>3, <3>4
  <2>2. CASE m = l /\ d = c
    <3>1. entries[l] \in [Fds -> Conn \cup {NoConn}]
      BY DEF TypeOK, RegistryType
    <3> QED
      BY <1>1, <1>4, <1>5, <1>6, <1>12, <2>2, <3>1
  <2>3. CASE m # l
    BY <1>1, <1>6, <1>12, <2>3 DEF Mapped
  <2> QED
    BY <2>1, <2>2, <2>3
<1>13. Mapped'
  BY <1>12 DEF Mapped
<1>14. Reported'
  <2>1. \A m \in Loops : reg[m] \subseteq reg'[m] /\ reg[m] \subseteq Conn
    BY <1>6 DEF TypeOK, RegistryType
  <2> QED
    BY <2>1, <1>1, <1>7 DEF Reported
<1> QED
  BY <1>9, <1>11, <1>13, <1>14

\* The channel of a failed accept() leaves the list and nothing else changes.
LEMMA PendingAddFailedCore ==
    ASSUME TypeOK, Core, NEW l \in Loops, PendingAddFailed(l) PROVE Core'
<1> USE DEF Core
<1>1. /\ pending[l] # <<>> /\ Head(pending[l]) = Item("add", NoConn)
      /\ pending' = [pending EXCEPT ![l] = Tail(@)]
      /\ UNCHANGED <<pc, events, cur, reg, entries, fd, open, closed>>
  BY DEF PendingAddFailed, Handles, Item, registry, socket, conn
<1>2. /\ QueueType
      /\ pending'[l] = Tail(pending[l])
      /\ \A m \in Loops \ {l} : pending'[m] = pending[m]
  BY <1>1 DEF TypeOK, QueueType
<1>3. \A m \in Loops, u \in {"add", "remove"} : \A d :
         /\ InList(m, u, d)' => InList(m, u, d)
         /\ InList(m, u, d) /\ ~(m = l /\ u = "add" /\ d = NoConn) => InList(m, u, d)'
         /\ Once(m, u, d) => Once(m, u, d)'
  BY <1>1, <1>2, ListTail
<1>4. \A m \in Loops, u \in {"add", "remove"}, d \in Conn :
         /\ InList(m, u, d)' <=> InList(m, u, d)
         /\ Once(m, u, d) => Once(m, u, d)'
  BY <1>3, ReactorAssumption
<1>5. \A m \in Loops, d \in Conn : Closes(m, d)' <=> Closes(m, d)
  BY <1>1 DEF Closes
<1>6. \A m \in Loops, d \in Conn : Owns(m, d)' <=> Owns(m, d)
  <2>1. reg' = reg
    BY <1>1
  <2> QED
    BY <2>1, <1>4, <1>5 DEF Owns
<1>7. Owned'
  BY <1>1, <1>6 DEF Owned
<1>8. Lists'
  <2>1. reg' = reg
    BY <1>1
  <2> QED
    BY <2>1, <1>4, <1>5 DEF Lists
<1>9. Mapped'
  BY <1>1 DEF Mapped
<1>10. Reported'
  BY <1>1, <1>5 DEF Reported, TypeOK, RegistryType
<1> QED
  BY <1>7, <1>8, <1>9, <1>10

\* A channel is removed from the map and from the epoll set.
LEMMA PendingRemoveCore ==
    ASSUME TypeOK, Descriptors, Core, NEW l \in Loops, NEW c \in Conn, PendingRemove(l, c)
    PROVE  Core'
<1> USE DEF Core
<1>1. /\ pending[l] # <<>> /\ Head(pending[l]) = Item("remove", c)
      /\ pending' = [pending EXCEPT ![l] = Tail(@)]
      /\ UNCHANGED <<pc, events, cur, fd, open, closed>>
  BY DEF PendingRemove, Handles, Item, socket, conn
<1>2. /\ QueueType
      /\ pending'[l] = Tail(pending[l])
      /\ \A m \in Loops \ {l} : pending'[m] = pending[m]
  BY <1>1 DEF TypeOK, QueueType
<1>3. /\ InList(l, "remove", c)
      /\ Once(l, "remove", c) => ~InList(l, "remove", c)'
      /\ \A m \in Loops, u \in {"add", "remove"} : \A d :
         /\ InList(m, u, d)' => InList(m, u, d)
         /\ InList(m, u, d) /\ ~(m = l /\ u = "remove" /\ d = c) => InList(m, u, d)'
         /\ Once(m, u, d) => Once(m, u, d)'
  BY <1>1, <1>2, ListTail
<1>4. Closes(l, c) /\ c \in reg[l] /\ ~InList(l, "remove", c)'
  BY <1>3 DEF Lists
<1>5. c \in open /\ fd[c] \in Fds /\ entries[l][fd[c]] = c
  BY <1>4, Registered DEF Mapped
<1>6. /\ \A m \in Loops \ {l} : reg'[m] = reg[m] /\ entries'[m] = entries[m]
      /\ reg'[l] = reg[l] \ {c}
      /\ entries'[l] = [entries[l] EXCEPT ![fd[c]] = NoConn]
  BY <1>5 DEF PendingRemove, TypeOK, RegistryType
<1>7. \A m \in Loops, d \in Conn : Closes(m, d)' <=> Closes(m, d)
  BY <1>1 DEF Closes
<1>8. \A d \in Conn : Closes(l, d) => d = c
  BY <1>4 DEF Closes
<1>9. \A m \in Loops, d \in Conn : Owns(m, d)' => Owns(m, d)
  BY <1>3, <1>6, <1>7 DEF Owns
<1>10. Owned'
  BY <1>1, <1>9 DEF Owned
<1>11. ASSUME NEW m \in Loops, NEW d \in Conn
       PROVE  (/\ Once(m, "add", d) /\ Once(m, "remove", d)
               /\ InList(m, "add", d) => d \notin reg[m] /\ ~Closes(m, d)
               /\ InList(m, "remove", d) => Closes(m, d)
               /\ Closes(m, d) => (d \in reg[m] <=> InList(m, "remove", d)))'
  <2>1. InList(m, "add", d)' <=> InList(m, "add", d)
    BY <1>3
  <2>2. CASE m = l
    BY <2>1, <2>2, <1>3, <1>4, <1>6, <1>7, <1>8 DEF Lists
  <2>3. CASE m # l
    BY <2>1, <2>3, <1>3, <1>6, <1>7 DEF Lists
  <2> QED
    BY <2>2, <2>3
<1>12. Lists'
  BY <1>11 DEF Lists
<1>13. ASSUME NEW m \in Loops, NEW d \in reg'[m] PROVE entries'[m][fd'[d]] = d
  <2>1. CASE m = l
    <3>1. d \in reg[l] /\ d # c
      BY <1>6, <1>13, <2>1
    <3>2. d \in open /\ fd[d] \in Fds
      BY <3>1, Registered
    <3>3. fd[d] # fd[c]
      BY <1>5, <3>1, <3>2 DEF Descriptors
    <3>4. entries[l][fd[d]] = d /\ entries[l] \in [Fds -> Conn \cup {NoConn}]
      BY <3>1 DEF Mapped, TypeOK, RegistryType
    <3> QED
      BY <1>1, <1>6, <2>1, <3>2, <3>3, <3>4
  <2>2. CASE m # l
    BY <1>1, <1>6, <1>13, <2>2 DEF Mapped
  <2> QED
    BY <2>1, <2>2
<1>14. Mapped'
  BY <1>13 DEF Mapped
<1>15. ASSUME NEW m \in Loops, NEW e \in events'[m], e.kind = "conn"
       PROVE  /\ \E d \in reg'[m] : fd'[d] = e.fd /\ ~Closes(m, d)'
              /\ \A f \in events'[m] : f.kind = "conn" /\ f.fd = e.fd => f = e
  <2>1. PICK d \in reg[m] : fd[d] = e.fd /\ ~Closes(m, d)
    BY <1>1, <1>15 DEF Reported
  <2>2. d \in Conn /\ d \in reg'[m]
    BY <1>4, <1>6, <2>1 DEF TypeOK, RegistryType
  <2>3. fd'[d] = e.fd /\ ~Closes(m, d)'
    BY <1>1, <1>7, <2>1, <2>2
  <2> QED
    BY <1>1, <1>15, <2>2, <2>3 DEF Reported
<1>16. Reported'
  BY <1>15 DEF Reported
<1> QED
  BY <1>10, <1>12, <1>14, <1>16

\* The list is empty.  A connection whose removal is done belongs to no loop.
LEMMA PendingDoneCore ==
    ASSUME TypeOK, EventsBacked, Core, NEW l \in Loops, PendingDone(l) PROVE Core'
<1> USE DEF Core
<1>1. /\ pending[l] = <<>> /\ pc[l] \in InPending
      /\ UNCHANGED <<pending, reg, entries, events, fd, open>>
      /\ closed' = IF pc[l] = "closing" THEN closed \cup {cur[l].conn} ELSE closed
      /\ cur' = IF pc[l] = "closing" THEN [cur EXCEPT ![l] = Nothing] ELSE cur
  BY DEF PendingDone, registry, socket
<1>2. /\ pc'[l] # "closing"
      /\ \A m \in Loops \ {l} : pc'[m] = pc[m] /\ cur'[m] = cur[m]
  BY DEF PendingDone, InPending, TypeOK, ThreadType
<1>3. \A m \in Loops, d \in Conn : Closes(m, d)' <=> (m # l /\ Closes(m, d))
  BY <1>2 DEF Closes
<1>4. \A m \in Loops, t \in {"add", "remove"} : \A c :
         (InList(m, t, c)' <=> InList(m, t, c)) /\ (Once(m, t, c)' <=> Once(m, t, c))
  BY <1>1 DEF InList, Once, Item
<1>5. \A m \in Loops, d \in Conn : Owns(m, d)' => Owns(m, d)
  <2>1. reg' = reg
    BY <1>1
  <2> QED
    BY <2>1, <1>3, <1>4 DEF Owns
<1>6. \A t \in {"add", "remove"} : \A c : ~InList(l, t, c)
  BY <1>1 DEF InList
<1>7. \A m \in Loops, d \in Conn : Owns(m, d)' => d \notin closed'
  <2>1. CASE pc[l] = "closing"
    <3>1. PICK c \in Conn : Closes(l, c) /\ closed' = closed \cup {c}
      BY <1>1, <2>1 DEF EventsBacked, Closes
    <3>2. c \notin reg[l]
      BY <1>6, <3>1 DEF Lists
    <3>3. Owns(l, c)
      BY <3>1 DEF Owns
    <3>4. ~Owns(l, c)'
      <4>1. reg' = reg
        BY <1>1
      <4> QED
        BY <4>1, <1>3, <1>4, <1>6, <3>1, <3>2 DEF Owns
    <3>5. \A m \in Loops : ~Owns(m, c)'
      BY <1>5, <3>1, <3>3, <3>4 DEF Owned
    <3> QED
      BY <1>5, <3>1, <3>5 DEF Owned
  <2>2. CASE pc[l] # "closing"
    BY <1>1, <1>5, <2>2 DEF Owned
  <2> QED
    BY <2>1, <2>2
<1>8. Owned'
  <2>1. open' = open
    BY <1>1
  <2> QED
    BY <2>1, <1>5, <1>7 DEF Owned
<1>9. Lists'
  <2>1. reg' = reg
    BY <1>1
  <2> QED
    BY <2>1, <1>3, <1>4, <1>6 DEF Lists
<1>10. Mapped'
  BY <1>1 DEF Mapped
<1>11. Reported'
  <2>1. UNCHANGED <<events, reg, fd>>
    BY <1>1
  <2> QED
    BY <2>1, <1>3 DEF Reported, TypeOK, RegistryType
<1> QED
  BY <1>8, <1>9, <1>10, <1>11

\* The connection taken from the backlog is new to every loop.
LEMMA AcceptCore ==
    ASSUME TypeOK, EventsBacked, Descriptors, Core, NEW e \in Event, Accept(e)
    PROVE  Core' /\ Descriptors'
<1> USE DEF Core
<1>0. Main \in Loops /\ GetLoop \in Loops /\ QueueType
  BY GetLoopType, ReactorAssumption DEF TypeOK, Loops, Main
<1>1. backlog # <<>>
  BY <1>0 DEF Accept, Dispatches, EventsBacked
<1>2. /\ Dispatches(Main, e) /\ Consume(Main, e)
      /\ UNCHANGED <<reg, entries, closed, peer>>
      /\ pc'[Main] # "closing" /\ \A m \in Loops \ {Main} : pc'[m] = pc[m] /\ cur'[m] = cur[m]
  BY <1>0 DEF Accept, TypeOK, ThreadType, registry, conn, client
<1>3. PICK c \in IF FreeFds = {} THEN {NoConn} ELSE {Head(backlog)} :
        /\ \/ /\ c = NoConn
              /\ UNCHANGED <<backlog, fd, open>>
           \/ /\ c # NoConn
              /\ backlog' = Tail(backlog)
              /\ fd' = [fd EXCEPT ![c] = CHOOSE f \in FreeFds : \A g \in FreeFds : f <= g]
              /\ open' = open \cup {c}
        /\ pending' = [pending EXCEPT ![GetLoop] = Append(@, Item("add", c))]
  BY DEF Accept, Item
<1>4. PICK l \in Loops : l = GetLoop
  BY <1>0
<1>5. /\ pending'[l] = Append(pending[l], Item("add", c))
      /\ \A m \in Loops \ {l} : pending'[m] = pending[m]
  BY <1>3, <1>4 DEF TypeOK, QueueType
<1>6. \A m \in Loops, u \in {"add", "remove"} : \A d :
         /\ InList(m, u, d)' <=> InList(m, u, d) \/ (m = l /\ u = "add" /\ d = c)
         /\ Once(m, u, d) /\ ~(m = l /\ u = "add" /\ d = c) => Once(m, u, d)'
         /\ ~InList(m, u, d) => Once(m, u, d)'
  BY <1>0, <1>5, ListAppend
<1>7. \A m \in Loops, d \in Conn : Closes(m, d)' <=> Closes(m, d)
  BY <1>2 DEF Closes, Dispatches, At
<1>8. \A m \in Loops, d \in Conn : Owns(m, d)' <=> Owns(m, d) \/ (m = l /\ d = c)
  <2>1. reg' = reg
    BY <1>2
  <2> QED
    BY <2>1, <1>6, <1>7 DEF Owns
<1>9. \A m \in Loops : events'[m] \subseteq events[m]
  BY <1>2 DEF Consume, TypeOK, ThreadType
<1>10. CASE c = NoConn
  <2>1. UNCHANGED <<backlog, fd, open>> /\ NoConn \notin Conn
    BY <1>3, <1>10, ReactorAssumption
  <2>2. UNCHANGED <<reg, entries, closed, peer>>
    BY <1>2
  <2>3. Owned'
    BY <2>1, <2>2, <1>8, <1>10 DEF Owned
  <2>4. Lists'
    BY <2>1, <2>2, <1>6, <1>7, <1>10 DEF Lists
  <2>5. Mapped'
    BY <2>1, <2>2 DEF Mapped
  <2>6. Reported'
    BY <2>1, <2>2, <1>7, <1>9 DEF Reported, TypeOK, RegistryType
  <2>7. Descriptors'
    BY <2>1, <2>2 DEF Descriptors
  <2> QED
    BY <2>3, <2>4, <2>5, <2>6, <2>7
<1>11. CASE c # NoConn
  <2>1. FreeFds # {} /\ c = backlog[1] /\ c \in Conn
    BY <1>1, <1>3, <1>11 DEF TypeOK, SocketType
  <2>2. fd[c] = 0 /\ c \notin open /\ c \notin closed /\ peer[c] # "none"
    BY <1>1, <2>1 DEF Descriptors, TypeOK, SocketType
  <2>3. PICK f \in Fds : fd' = [fd EXCEPT ![c] = f] /\ \A d \in open : fd[d] # f
    BY <1>3, <1>11, <2>1, AcceptFd DEF TypeOK
  <2>4. /\ f \in Nat \ {0} /\ fd'[c] = f
        /\ \A d \in Conn \ {c} : fd'[d] = fd[d]
    BY <2>1, <2>3, ReactorAssumption DEF TypeOK, SocketType, Fds
  <2>5. open' = open \cup {c} /\ backlog' = Tail(backlog)
    BY <1>3, <1>11
  <2>6. UNCHANGED <<reg, entries, closed, peer>>
    BY <1>2
  <2>7. \A m \in Loops : ~Owns(m, c)
    BY <2>1, <2>2 DEF Owned
  <2>8. Owned'
    BY <2>1, <2>2, <2>5, <2>6, <2>7, <1>8 DEF Owned
  <2>9. \A m \in Loops : c \notin reg[m] /\ ~InList(m, "add", c) /\ ~Closes(m, c)
    BY <2>7 DEF Owns
  <2>10. Lists'
    BY <2>1, <2>6, <2>9, <1>6, <1>7 DEF Lists
  <2>11. \A m \in Loops : \A d \in reg[m] : d \in Conn /\ fd'[d] = fd[d]
    BY <2>4, <2>9 DEF TypeOK, RegistryType
  <2>12. Mapped'
    BY <2>6, <2>11 DEF Mapped
  <2>13. Reported'
    BY <2>6, <2>11, <1>7, <1>9 DEF Reported
  <2>14. Descriptors'
    <3>1. \A d \in open' \cup closed' : fd'[d] # 0
      BY <2>2, <2>4, <2>5, <2>6 DEF Descriptors, TypeOK, SocketType, ConnType
    <3>2. \A d, g \in open' : fd'[d] = fd'[g] => d = g
      BY <2>2, <2>3, <2>4, <2>5 DEF Descriptors, TypeOK, SocketType
    <3>3. /\ Len(backlog') = Len(backlog) - 1
          /\ \A i \in 1 .. Len(backlog') : /\ i + 1 \in 1 .. Len(backlog)
                                           /\ backlog'[i] = backlog[i + 1]
      BY <1>1, <2>5 DEF TypeOK, SocketType
    <3>4. \A i, j \in 1 .. Len(backlog') : backlog'[i] = backlog'[j] => i = j
      BY <3>3 DEF Descriptors
    <3>5. \A i \in 1 .. Len(backlog') : backlog'[i] \in Conn \ {c}
      BY <1>1, <2>1, <3>3 DEF Descriptors, TypeOK, SocketType
    <3>6. \A i \in 1 .. Len(backlog') : fd'[backlog'[i]] = 0 /\ peer'[backlog'[i]] # "none"
      BY <2>4, <2>6, <3>3, <3>5 DEF Descriptors
    <3>7. \A d \in Conn : peer'[d] = "none" => fd'[d] = 0
      BY <2>2, <2>4, <2>6 DEF Descriptors
    <3> QED
      BY <3>1, <3>2, <3>4, <3>6, <3>7 DEF Descriptors
  <2> QED
    BY <2>8, <2>10, <2>12, <2>13, <2>14
<1> QED
  BY <1>10, <1>11

\* Reading data, or failing at it, disturbs neither the lists nor the maps.
LEMMA HandleReadCore ==
    ASSUME TypeOK, Descriptors, Core,
           NEW l \in Loops, NEW e \in Event, NEW c \in Conn, HandleRead(l, e, c)
    PROVE  Core' /\ Descriptors'
<1>1. CASE ReadEnd(l, e, c)
  <2>1. UNCHANGED <<backlog, fd, open, closed, peer>>
    BY <1>1 DEF ReadEnd, socket, conn, client
  <2> QED
    BY <1>1, <2>1, ReadEndCore DEF Descriptors
<1>2. CASE ~ReadEnd(l, e, c)
  <2>1. /\ Dispatches(l, e) /\ Consume(l, e)
        /\ UNCHANGED <<cur, pending, reg, entries, backlog, fd, open, closed, peer>>
        /\ pc' = pc \/ pc' = [pc EXCEPT ![l] = "hung"]
    BY <1>2 DEF HandleRead, ParseSpins, CallbackUnset, Respond, SendFails,
       ParsesRequest, ReadsData, Reads, queue, registry, socket
  <2>2. \A m \in Loops, d \in Conn : Closes(m, d)' <=> Closes(m, d)
    BY <2>1 DEF Closes, Dispatches, At, TypeOK, ThreadType
  <2>3. \A m \in Loops : events'[m] \subseteq events[m]
    BY <2>1 DEF Consume, TypeOK, ThreadType
  <2>4. Core'
    BY <2>1, <2>2, <2>3, Quiet DEF Core
  <2>5. Descriptors'
    BY <2>1 DEF Descriptors
  <2> QED
    BY <2>4, <2>5
<1> QED
  BY <1>1, <1>2

\* The steps of a loop's thread.
LEMMA LoopCore ==
    ASSUME TypeOK, IInv, NEW l \in Loops, Loop(l) PROVE Core' /\ Descriptors'
<1> USE DEF IInv
<1>0. Core
  BY DEF Core
<1>1. CASE EpollWait(l)
  <2>1. UNCHANGED <<backlog, fd, open, closed, peer>>
    BY <1>1 DEF EpollWait, socket, conn, client
  <2> QED
    BY <1>0, <1>1, <2>1, EpollWaitCore DEF Descriptors
<1>2. ASSUME NEW e \in Event, HandleWakeup(l, e) PROVE Core' /\ Descriptors'
  <2>1. UNCHANGED <<pc, cur, pending, reg, entries, backlog, fd, open, closed, peer>>
    BY <1>2 DEF HandleWakeup, registry, socket, conn, client
  <2>2. \A m \in Loops : events'[m] \subseteq events[m]
    BY <1>2 DEF HandleWakeup, Consume, TypeOK, ThreadType
  <2>3. \A m \in Loops, d \in Conn : Closes(m, d)' <=> Closes(m, d)
    BY <2>1 DEF Closes
  <2>4. Core'
    BY <2>1, <2>2, <2>3, Quiet DEF Core
  <2> QED
    BY <2>1, <2>4 DEF Descriptors
<1>3. ASSUME NEW e \in Event, CloseHangUp(l, e) PROVE Core' /\ Descriptors'
  <2>1. UNCHANGED <<backlog, fd, closed, peer>> /\ open' \subseteq open
    BY <1>3 DEF CloseHangUp, conn, client
  <2>2. Descriptors'
    BY <2>1 DEF Descriptors
  <2> QED
    BY <1>0, <1>3, <2>2, CloseHangUpCore
<1>4. CASE DispatchDone(l)
  <2>1. UNCHANGED <<events, cur, pending, reg, entries, backlog, fd, open, closed, peer>>
    BY <1>4 DEF DispatchDone, registry, socket, conn, client
  <2>2. \A m \in Loops, d \in Conn : Closes(m, d)' <=> Closes(m, d)
    BY <1>4 DEF DispatchDone, At, Closes, TypeOK, ThreadType
  <2>3. Core'
    BY <2>1, <2>2, Quiet DEF Core
  <2> QED
    BY <2>1, <2>3 DEF Descriptors
<1>5. ASSUME NEW t, NEW c, Handles(l, t, c) PROVE Descriptors'
  <2>1. UNCHANGED <<backlog, fd, open, closed, peer>>
    BY <1>5 DEF Handles, socket, conn, client
  <2> QED
    BY <2>1 DEF Descriptors
<1>6. ASSUME NEW c \in Conn, PendingAdd(l, c) \/ PendingRemove(l, c)
      PROVE  Core' /\ Descriptors'
  BY <1>0, <1>5, <1>6, PendingAddCore, PendingRemoveCore DEF PendingAdd, PendingRemove
<1>7. CASE PendingAddFailed(l)
  BY <1>0, <1>5, <1>7, PendingAddFailedCore DEF PendingAddFailed
<1>8. CASE PendingDone(l)
  <2>1. UNCHANGED <<backlog, fd, open, peer>>
    BY <1>8 DEF PendingDone, socket, client
  <2>2. closed' = closed \/ \E c \in Conn : Closes(l, c) /\ closed' = closed \cup {c}
    BY <1>8 DEF PendingDone, EventsBacked, Closes
  <2>3. \A c \in Conn : Closes(l, c) => c \in open
    BY DEF Owned, Owns
  <2>4. Descriptors'
    BY <2>1, <2>2, <2>3 DEF Descriptors
  <2> QED
    BY <1>0, <1>8, <2>4, PendingDoneCore
<1> QED
  BY <1>0, <1>1, <1>2, <1>3, <1>4, <1>6, <1>7, <1>8, HandleReadCore DEF Loop

\* The acceptor's steps.
LEMMA AcceptorCore ==
    ASSUME TypeOK, IInv, Acceptor PROVE Core' /\ Descriptors'
<1> USE DEF IInv
<1>0. Core /\ Main \in Loops
  BY ReactorAssumption DEF Core, Loops, Main
<1>1. CASE Wakeup \/ SetData
  <2>1. UNCHANGED <<events, pending, reg, entries, backlog, fd, open, closed, peer>>
    BY <1>1 DEF Wakeup, SetData, queue, registry, socket, conn, client
  <2>2. \A m \in Loops, d \in Conn : Closes(m, d)' <=> Closes(m, d)
    BY <1>0, <1>1 DEF Wakeup, SetData, At, Closes, TypeOK, ThreadType
  <2>3. Core'
    BY <2>1, <2>2, Quiet DEF Core
  <2> QED
    BY <2>1, <2>3 DEF Descriptors
<1> QED
  BY <1>0, <1>1, AcceptCore DEF Acceptor

\* A client's steps: a connection enters the backlog once.
LEMMA ClientCore ==
    ASSUME TypeOK, IInv, NEW c \in Conn, Client(c) PROVE Core' /\ Descriptors'
<1> USE DEF IInv
<1>1. UNCHANGED <<pc, cur, events, pending, reg, entries, fd, open, closed>>
  BY DEF Client, Connect, Send, SendHead, SendRest, Deliver, Close, Abort,
     thread, queue, registry, socket, conn
<1>2. \A m \in Loops, d \in Conn : Closes(m, d)' <=> Closes(m, d)
  BY <1>1 DEF Closes
<1>3. Core'
  BY <1>1, <1>2, Quiet DEF Core
<1>4. CASE Connect(c)
  <2>1. /\ peer' = [peer EXCEPT ![c] = "open"] /\ peer[c] = "none"
        /\ backlog' = Append(backlog, c)
    BY <1>4 DEF Connect, Peer
  <2>2. /\ Len(backlog') = Len(backlog) + 1 /\ backlog'[Len(backlog) + 1] = c
        /\ \A i \in 1 .. Len(backlog) : backlog'[i] = backlog[i] /\ backlog[i] \in Conn
        /\ Len(backlog) \in Nat
    BY <2>1 DEF TypeOK, SocketType
  <2>3. \A i \in 1 .. Len(backlog) : backlog[i] # c
    BY <2>1 DEF Descriptors
  <2>4. \A d \in Conn : peer'[d] # "none" <=> peer[d] # "none" \/ d = c
    BY <2>1 DEF TypeOK, ClientType
  <2>5. \A i \in 1 .. Len(backlog') : fd'[backlog'[i]] = 0 /\ peer'[backlog'[i]] # "none"
    BY <1>1, <2>1, <2>2, <2>4 DEF Descriptors
  <2>6. \A i, j \in 1 .. Len(backlog') : backlog'[i] = backlog'[j] => i = j
    BY <2>2, <2>3 DEF Descriptors
  <2> QED
    BY <1>1, <1>3, <2>4, <2>5, <2>6 DEF Descriptors
<1>5. CASE ~Connect(c)
  <2>1. backlog' = backlog /\ \A d \in Conn : peer'[d] = "none" <=> peer[d] = "none"
    BY <1>5 DEF Client, Send, SendHead, SendRest, Deliver, Close, Abort, Peer,
       socket, TypeOK, ClientType
  <2>2. \A i \in 1 .. Len(backlog) : backlog[i] \in Conn
    BY DEF TypeOK, SocketType
  <2> QED
    BY <1>1, <1>3, <2>1, <2>2 DEF Descriptors
<1> QED
  BY <1>4, <1>5

\* The inductive invariant.
LEMMA Inductive == TypeOK /\ IInv /\ [Next]_vars => TypeOK' /\ IInv'
<1> SUFFICES ASSUME TypeOK, IInv, [Next]_vars PROVE TypeOK' /\ IInv'
  OBVIOUS
<1>1. TypeOK'
  BY TypeInductive
<1>2. EventsBacked'
  BY EventsBackedInductive DEF IInv
<1>3. Core' /\ Descriptors'
  <2>1. CASE UNCHANGED vars
    <3>1. UNCHANGED <<pc, cur, events, pending, reg, entries, fd, open, closed, backlog, peer>>
      BY <2>1 DEF vars, thread, queue, registry, socket, conn, client
    <3>2. \A m \in Loops, d \in Conn : Closes(m, d)' <=> Closes(m, d)
      BY <3>1 DEF Closes
    <3>3. Core'
      BY <3>1, <3>2, Quiet DEF Core, IInv
    <3> QED
      BY <3>1, <3>3 DEF Descriptors, IInv
  <2> QED
    BY <2>1, ClientCore, LoopCore, AcceptorCore DEF Next
<1> QED
  BY <1>1, <1>2, <1>3 DEF IInv, Core

\* It holds when event_loop_run() is called.
LEMMA Initially == Init => TypeOK /\ IInv
<1> SUFFICES ASSUME Init PROVE TypeOK /\ IInv
  OBVIOUS
<1> USE ReactorAssumption DEF Init
<1>1. ThreadType
  BY DEF ThreadType, LoopPc, Nothing, Main, Loops
<1>2. QueueType
  BY DEF QueueType
<1>3. RegistryType /\ PoolType
  BY DEF RegistryType, PoolType
<1>4. SocketType /\ ConnType /\ ClientType
  BY DEF SocketType, ConnType, ClientType
<1>5. \A l \in Loops : pending[l] = <<>> /\ reg[l] = {} /\ events[l] = {} /\ pc[l] = "wait"
  OBVIOUS
<1>6. \A l \in Loops : \A t, c : ~InList(l, t, c) /\ ~Closes(l, c) /\ Once(l, t, c)
  BY <1>5 DEF InList, Closes, Once
<1>7. EventsBacked /\ Mapped /\ Reported
  BY <1>5 DEF EventsBacked, Mapped, Reported
<1>8. Owned /\ Lists
  BY <1>5, <1>6 DEF Owned, Owns, Lists
<1>9. Descriptors
  BY DEF Descriptors
<1> QED
  BY <1>1, <1>2, <1>3, <1>4, <1>7, <1>8, <1>9 DEF TypeOK, IInv

\* The type invariant: every variable of the loops, the dispatcher and the
\* connections keeps its type, so that no wake-up byte is read from an empty
\* socket pair and no connection accepted from an empty backlog.
THEOREM ReactorTypes == Spec => [](TypeOK /\ IInv)
BY Initially, Inductive, PTL DEF Spec

\* The assertions on the event path hold: whatever is reused, removed or left
\* behind in between, an event leads through the channel map to the open
\* connection that epoll reported.
THEOREM ReactorEventsMapped == Spec => []EventsMapped
<1>1. TypeOK /\ IInv => EventsMapped
  <2> SUFFICES ASSUME TypeOK, IInv, NEW l \in Loops, NEW e \in events[l], e.kind = "conn"
               PROVE  \E c \in reg[l] : /\ entries[l][e.fd] = c /\ fd[c] = e.fd
                                        /\ c \in open /\ c \notin closed
    BY DEF EventsMapped
  <2>1. PICK c \in reg[l] : fd[c] = e.fd
    BY DEF IInv, Reported
  <2>2. c \in Conn
    BY DEF TypeOK, RegistryType
  <2> QED
    BY <2>1, <2>2 DEF IInv, Mapped, Owned, Owns
<1> QED
  BY <1>1, ReactorTypes, PTL

-----------------------------------------------------------------------------
\* A list grows in the loop's own thread or just before a wake-up, and a loop
\* goes to epoll_wait() only after it has emptied its list.
LEMMA RegistrationInductive ==
    TypeOK /\ NoLostRegistration /\ [Next]_vars => NoLostRegistration'
<1> SUFFICES ASSUME TypeOK, NoLostRegistration, [Next]_vars PROVE NoLostRegistration'
  OBVIOUS
<1> USE ReactorAssumption DEF NoLostRegistration
<1>0. Main \in Loops
  BY DEF Main, Loops
<1>1. ASSUME NEW l \in Loops, pc'[l] # "wait", l # Main \/ pc[l] # "wakeup",
             \A m \in Loops \ {l} : pending'[m] = pending[m] /\ wake'[m] = wake[m]
                                    /\ pc'[m] = pc[m] /\ cur'[m] = cur[m]
      PROVE  NoLostRegistration'
  BY <1>0, <1>1
<1>2. ASSUME UNCHANGED <<pc, cur, pending, wake>> PROVE NoLostRegistration'
  BY <1>2
<1>3. ASSUME NEW c \in Conn, Client(c) PROVE NoLostRegistration'
  BY <1>2, <1>3 DEF Client, Connect, Send, SendHead, SendRest, Deliver, Close, Abort,
     thread, queue
<1>4. ASSUME NEW l \in Loops, Loop(l) PROVE NoLostRegistration'
  <2>1. CASE EpollWait(l) \/ DispatchDone(l)
    BY <1>1, <2>1 DEF EpollWait, DispatchDone, At, queue, TypeOK, ThreadType
  <2>2. ASSUME NEW e \in Event, HandleWakeup(l, e) \/ CloseHangUp(l, e)
        PROVE  NoLostRegistration'
    BY <1>1, <2>2 DEF HandleWakeup, CloseHangUp, Dispatches, At, queue, TypeOK, QueueType
  <2>3. ASSUME NEW e \in Event, NEW c \in Conn, HandleRead(l, e, c) PROVE NoLostRegistration'
    <3>1. CASE ReadEnd(l, e, c)
      BY <1>1, <3>1 DEF ReadEnd, Reads, Dispatches, At, TypeOK, ThreadType, QueueType
    <3>2. CASE ~ReadEnd(l, e, c)
      <4>1. /\ pc[l] = "dispatch" /\ UNCHANGED <<cur, pending, wake>>
            /\ pc' = pc \/ pc' = [pc EXCEPT ![l] = "hung"]
        BY <2>3, <3>2 DEF HandleRead, ParseSpins, CallbackUnset, Respond, SendFails,
           ParsesRequest, ReadsData, Reads, Dispatches, At, queue
      <4> QED
        BY <1>1, <4>1 DEF TypeOK, ThreadType
    <3> QED
      BY <3>1, <3>2
  <2>4. ASSUME NEW t, NEW c, Handles(l, t, c) PROVE NoLostRegistration'
    BY <1>1, <2>4 DEF Handles, InPending, TypeOK, QueueType
  <2>5. CASE PendingDone(l)
    <3>1. /\ pending[l] = <<>> /\ UNCHANGED <<pending, wake>>
          /\ pc[l] \in InPending
          /\ \A m \in Loops \ {l} : pc'[m] = pc[m] /\ cur'[m] = cur[m]
      BY <2>5 DEF PendingDone, TypeOK, ThreadType
    <3> QED
      BY <1>0, <3>1 DEF InPending
  <2> QED
    BY <1>4, <2>1, <2>2, <2>3, <2>4, <2>5
       DEF Loop, PendingAdd, PendingRemove, PendingAddFailed
<1>5. ASSUME NEW e \in Event, Accept(e) PROVE NoLostRegistration'
  <2>1. GetLoop \in Loops
    BY GetLoopType DEF TypeOK
  <2>2. /\ \A m \in Loops \ {GetLoop} : pending'[m] = pending[m]
        /\ \A m \in Loops \ {Main} : pc'[m] = pc[m] /\ cur'[m] = cur[m]
        /\ wake' = wake /\ pc[Main] = "dispatch" /\ cur'[Main].loop = GetLoop
    BY <1>0, <1>5, <2>1 DEF Accept, Dispatches, At, TypeOK, ThreadType, QueueType
  <2>3. IF GetLoop = Main THEN pc'[Main] = "adding" ELSE pc'[Main] = "wakeup"
    BY <1>0, <1>5 DEF Accept, TypeOK, ThreadType
  <2> QED
    BY <1>0, <2>1, <2>2, <2>3
<1>6. CASE Wakeup
  <2>1. cur[Main].loop \in Loops /\ wake \in [Loops -> Nat]
    BY <1>0 DEF TypeOK, ThreadType, QueueType
  <2>2. /\ UNCHANGED <<cur, pending>> /\ pc'[Main] = "setdata"
        /\ \A m \in Loops \ {Main} : pc'[m] = pc[m]
        /\ wake'[cur[Main].loop] > 0
        /\ \A m \in Loops \ {cur[Main].loop} : wake'[m] = wake[m]
    BY <1>0, <1>6, <2>1 DEF Wakeup, TypeOK, ThreadType
  <2> QED
    BY <1>0, <2>1, <2>2
<1>7. CASE SetData
  BY <1>0, <1>1, <1>7 DEF SetData, At, queue, TypeOK, ThreadType
<1>8. CASE UNCHANGED vars
  BY <1>2, <1>8 DEF vars, thread, queue
<1> QED
  BY <1>3, <1>4, <1>5, <1>6, <1>7, <1>8 DEF Next, Acceptor

\* A connection handed to a sub-reactor is not forgotten, whatever is in the
\* socket pair and wherever the two threads are.
THEOREM ReactorNoLostRegistration == Spec => []NoLostRegistration
<1>1. Init => NoLostRegistration
  BY DEF Init, NoLostRegistration
<1> QED
  BY <1>1, RegistrationInductive, ReactorTypes, PTL DEF Spec

-----------------------------------------------------------------------------
\* Nothing happens after a crash.
LEMMA CrashIsFinal == crashed /\ [Next]_vars => UNCHANGED vars
BY DEF Next, Client, Connect, Send, SendHead, SendRest, MaySend, Close, Abort, Peer,
   Loop, EpollWait, HandleWakeup, CloseHangUp, HandleRead, ParseSpins, CallbackUnset,
   Respond, SendFails, ReadEnd, ParsesRequest, ReadsData, Reads, Dispatches, At,
   DispatchDone, PendingAdd, PendingRemove, PendingAddFailed, Handles, PendingDone,
   Acceptor, Accept, Wakeup, SetData

\* A thread that hangs stays where it is.
LEMMA HungForever ==
    ASSUME TypeOK, [Next]_vars, NEW l \in Loops, pc[l] = "hung"
    PROVE  pc'[l] = "hung"
<1>0. Main \in Loops /\ pc \in [Loops -> LoopPc]
  BY ReactorAssumption DEF Main, Loops, TypeOK, ThreadType
<1>1. ASSUME NEW c \in Conn, Client(c) PROVE pc' = pc
  BY <1>1 DEF Client, Connect, Send, SendHead, SendRest, Deliver, Close, Abort, thread
<1>2. ASSUME NEW m \in Loops, NEW e \in Event, NEW c \in Conn, HandleRead(m, e, c)
      PROVE  pc'[l] = "hung"
  <2>1. pc[m] = "dispatch" /\ (pc' = pc \/ \E p : pc' = [pc EXCEPT ![m] = p])
    BY <1>2 DEF HandleRead, ParseSpins, CallbackUnset, Respond, SendFails, ReadEnd, ParsesRequest,
       ReadsData, Reads, Dispatches, At
  <2> QED
    BY <1>0, <2>1
<1>3. ASSUME NEW m \in Loops, Loop(m), ~\E e \in Event, c \in Conn : HandleRead(m, e, c)
      PROVE  pc'[l] = "hung"
  BY <1>3, <1>0 DEF Loop, EpollWait, HandleWakeup, CloseHangUp, DispatchDone, PendingAdd,
     PendingRemove, PendingAddFailed, Handles, PendingDone, Dispatches, At, InPending
<1>4. CASE Acceptor
  BY <1>4, <1>0 DEF Acceptor, Accept, Wakeup, SetData, Dispatches, At
<1>5. CASE UNCHANGED vars
  BY <1>5 DEF vars, thread
<1> QED
  BY <1>1, <1>2, <1>3, <1>4, <1>5 DEF Next, Loop

\* A connection to which a write may fail stays one.
LEMMA FailureLasts ==
    ASSUME TypeOK, [Next]_vars, NEW c \in Conn, WriteMayFail(c)
    PROVE  WriteMayFail(c)'
<1>1. ASSUME shut' = shut, peer' = peer PROVE WriteMayFail(c)'
  BY <1>1 DEF WriteMayFail
<1>2. ASSUME NEW d \in Conn, Client(d) PROVE WriteMayFail(c)'
  <2>1. shut' = shut /\ (peer[c] = "rst" => peer'[c] = "rst")
    BY <1>2 DEF Client, Connect, Send, SendHead, SendRest, Deliver, Close, Abort, Peer, socket,
       TypeOK, ClientType
  <2> QED
    BY <2>1 DEF WriteMayFail
<1>3. ASSUME NEW m \in Loops, NEW e \in Event, NEW d \in Conn, HandleRead(m, e, d)
      PROVE  WriteMayFail(c)'
  <2>1. peer' = peer /\ shut \subseteq shut'
    BY <1>3 DEF HandleRead, ParseSpins, CallbackUnset, Respond, SendFails, ReadEnd, socket, client
  <2> QED
    BY <2>1 DEF WriteMayFail
<1>4. ASSUME NEW m \in Loops, Loop(m), ~\E e \in Event, d \in Conn : HandleRead(m, e, d)
      PROVE  WriteMayFail(c)'
  <2>1. shut' = shut /\ peer' = peer
    BY <1>4 DEF Loop, EpollWait, HandleWakeup, CloseHangUp, DispatchDone, PendingAdd,
       PendingRemove, PendingAddFailed, Handles, PendingDone, socket, client
  <2> QED
    BY <1>1, <2>1
<1>5. CASE Acceptor
  <2>1. shut' = shut /\ peer' = peer
    BY <1>5 DEF Acceptor, Accept, Wakeup, SetData, socket, client
  <2> QED
    BY <1>1, <2>1
<1>6. CASE UNCHANGED vars
  BY <1>1, <1>6 DEF vars, socket, client
<1> QED
  BY <1>2, <1>3, <1>4, <1>5, <1>6 DEF Next, Loop

\* A piece that leaves the kernel's queue is in the buffer, and a request that
\* leaves the buffer is answered, or its answer could not be written.
LEMMA RequestsInductive ==
    TypeOK /\ RequestsConserved /\ [Next]_vars => RequestsConserved'
<1> SUFFICES ASSUME TypeOK, RequestsConserved, [Next]_vars PROVE RequestsConserved'
  OBVIOUS
<1> DEFINE Balanced(c) == sent[c] = 2 * answered[c] + Len(inbuf[c]) + Len(rcvq[c])
<1> DEFINE Given(c) == WriteMayFail(c) /\ \E l \in Loops : pc[l] = "hung"
<1>a. \A c \in Conn : Given(c) => Given(c)'
  <2>1. \A c \in Conn : WriteMayFail(c) => WriteMayFail(c)'
    BY FailureLasts
  <2>2. \A l \in Loops : pc[l] = "hung" => pc'[l] = "hung"
    BY HungForever
  <2> QED
    BY <2>1, <2>2
<1>b. ~crashed' => \A c \in Conn : Balanced(c) \/ Given(c)
  <2>1. crashed => crashed'
    BY CrashIsFinal DEF vars
  <2> QED
    BY <2>1 DEF RequestsConserved
<1>c. ASSUME \A c \in Conn : Balanced(c) => Balanced(c)' \/ Given(c)'
      PROVE  RequestsConserved'
  <2> SUFFICES ASSUME ~crashed', NEW c \in Conn PROVE Balanced(c)' \/ Given(c)'
    BY DEF RequestsConserved
  <2> QED
    BY <1>a, <1>b, <1>c
<1> HIDE DEF Given
<1>1. ASSUME UNCHANGED <<sent, answered, inbuf, rcvq>>
      PROVE  RequestsConserved'
  <2>1. \A c \in Conn : Balanced(c) => Balanced(c)'
    BY <1>1
  <2> QED
    BY <1>c, <2>1
<1>2. ASSUME NEW c \in Conn, Client(c) PROVE RequestsConserved'
  <2>1. UNCHANGED <<pc, crashed>>
    BY <1>2 DEF Client, Connect, Send, SendHead, SendRest, Deliver, Close, Abort, thread
  <2>2. ASSUME NEW p \in Seq(Piece), Deliver(c, p) PROVE RequestsConserved'
    <3>1. /\ Len(rcvq[c] \o p) = Len(rcvq[c]) + Len(p) /\ Len(p) \in Nat
          /\ \A d \in Conn : Len(rcvq[d]) \in Nat /\ Len(inbuf[d]) \in Nat
      BY DEF TypeOK, ClientType, ConnType
    <3>2. /\ rcvq'[c] = rcvq[c] \o p /\ sent'[c] = sent[c] + Len(p)
          /\ \A d \in Conn \ {c} : rcvq'[d] = rcvq[d] /\ sent'[d] = sent[d]
          /\ UNCHANGED <<answered, inbuf>>
      BY <2>2 DEF Deliver, conn, TypeOK, ClientType
    <3>3. ASSUME NEW d \in Conn, Balanced(d) PROVE Balanced(d)'
      <4>1. sent[d] \in Nat /\ answered[d] \in Nat /\ Balanced(d)
        BY <3>3 DEF TypeOK, ClientType, ConnType
      <4>2. CASE d = c
        <5>1. Len(rcvq'[d]) = Len(rcvq[d]) + Len(p) /\ sent'[d] = sent[d] + Len(p)
          BY <3>1, <3>2, <4>2
        <5>2. inbuf'[d] = inbuf[d] /\ answered'[d] = answered[d]
          BY <3>2
        <5>3. Len(rcvq[d]) \in Nat /\ Len(inbuf[d]) \in Nat /\ Len(p) \in Nat
          BY <3>1
        <5> QED
          BY <4>1, <5>1, <5>2, <5>3
      <4>3. CASE d # c
        BY <3>2, <4>1, <4>3
      <4> QED
        BY <4>2, <4>3
    <3> QED
      BY <1>c, <3>3
  <2>3. CASE Connect(c) \/ Close(c) \/ Abort(c)
    BY <1>1, <2>1, <2>3 DEF Connect, Close, Abort, conn
  <2>4. LastPiece(c) \in Piece /\ "head" \in Piece
    BY DEF LastPiece, Piece
  <2>5. /\ <<"head", LastPiece(c)>> \in Seq(Piece)
        /\ <<LastPiece(c)>> \in Seq(Piece)
        /\ <<"head">> \in Seq(Piece)
    BY <2>4
  <2> QED
    BY <1>2, <2>2, <2>3, <2>5 DEF Client, Send, SendHead, SendRest
<1>3. ASSUME NEW l \in Loops, NEW e \in Event, NEW c \in Conn, HandleRead(l, e, c)
      PROVE  RequestsConserved'
  <2>1. CASE ReadEnd(l, e, c)
    BY <1>1, <2>1 DEF ReadEnd, Reads, Dispatches, At, conn, client, TypeOK, ThreadType
  <2>2. CASE Respond(l, e, c)
    <3>1. /\ Len(Received(c)) = Len(inbuf[c]) + Len(rcvq[c])
          /\ \A d \in Conn : Len(rcvq[d]) \in Nat /\ Len(inbuf[d]) \in Nat
          /\ Received(c) \in Seq(Piece)
      BY DEF Received, TypeOK, ClientType, ConnType
    <3>2. Len(SubSeq(Received(c), 3, Len(Received(c)))) = Len(Received(c)) - 2
      <4>1. Len(Received(c)) >= 2
        BY <2>2 DEF Respond, ParsesRequest
      <4> HIDE DEF Received
      <4>2. PICK r \in Seq(Piece) : r = Received(c)
        BY <3>1
      <4>3. Len(r) \in Nat /\ \A i \in 3 .. Len(r) : r[i] \in Piece
        BY <4>2
      <4>4. Len(SubSeq(r, 3, Len(r))) = IF 3 <= Len(r) THEN Len(r) - 3 + 1 ELSE 0
        BY <4>3, SubSeqProperties
      <4>5. \A n \in Nat : n >= 2 => (IF 3 <= n THEN n - 3 + 1 ELSE 0) = n - 2
        OBVIOUS
      <4> QED
        BY <4>1, <4>2, <4>3, <4>4, <4>5, Zenon
    <3>3. /\ Len(inbuf'[c]) = Len(Received(c)) - 2 /\ rcvq'[c] = <<>>
          /\ answered'[c] = answered[c] + 1
          /\ \A d \in Conn \ {c} : /\ inbuf'[d] = inbuf[d] /\ rcvq'[d] = rcvq[d]
                                   /\ answered'[d] = answered[d]
          /\ UNCHANGED <<sent, pc, crashed>>
      BY <2>2, <3>2 DEF Respond, ParsesRequest, ReadsData, TypeOK, ClientType, ConnType
    <3>4. ASSUME NEW d \in Conn, Balanced(d) PROVE Balanced(d)'
      <4>1. sent[d] \in Nat /\ answered[d] \in Nat /\ Balanced(d)
        BY <3>4 DEF TypeOK, ClientType, ConnType
      <4>2. CASE d = c
        <5>1. Len(rcvq'[d]) = 0 /\ sent'[d] = sent[d] /\ answered'[d] = answered[d] + 1
          BY <3>3, <4>2
        <5>2. Len(rcvq[d]) \in Nat /\ Len(inbuf[d]) \in Nat
          BY <3>1
        <5>3. Len(inbuf'[d]) = (Len(inbuf[d]) + Len(rcvq[d])) - 2
          <6>1. Len(inbuf'[d]) = Len(Received(c)) - 2
            BY <3>3, <4>2
          <6>2. Len(Received(c)) = Len(inbuf[d]) + Len(rcvq[d])
            BY <3>1, <4>2
          <6> QED
            BY <6>1, <6>2
        <5>4. PICK i \in Nat, q \in Nat : i = Len(inbuf[d]) /\ q = Len(rcvq[d])
          BY <5>2
        <5>5. sent[d] = 2 * answered[d] + i + q
          BY <4>1, <5>4, Zenon
        <5>6. sent[d] = 2 * (answered[d] + 1) + (i + q - 2) + 0
          <6>1. sent[d] \in Nat /\ answered[d] \in Nat
            BY <4>1
          <6>2. PICK t \in Nat, a \in Nat : t = sent[d] /\ a = answered[d]
            BY <6>1
          <6>3. t = 2 * a + i + q
            BY <5>5, <6>2
          <6>4. t = 2 * (a + 1) + (i + q - 2) + 0
            BY <6>3
          <6> QED
            BY <6>2, <6>4
        <5> QED
          BY <5>1, <5>3, <5>4, <5>6
      <4>3. CASE d # c
        BY <3>3, <4>1, <4>3
      <4> QED
        BY <4>2, <4>3
    <3> QED
      BY <1>c, <3>4
  <2>3. CASE CallbackUnset(l, e, c)
    BY <2>3 DEF CallbackUnset, RequestsConserved
  <2>4. CASE SendFails(l, e, c)
    <3>1. CASE crashed' = TRUE
      BY <3>1 DEF RequestsConserved
    <3>2. CASE pc' = [pc EXCEPT ![l] = "hung"]
      <4>1. pc'[l] = "hung" /\ WriteMayFail(c)'
        BY <2>4, <3>2, FailureLasts DEF SendFails, TypeOK, ThreadType
      <4>2. Given(c)'
        BY <4>1 DEF Given
      <4>3. ASSUME NEW d \in Conn, Balanced(d) PROVE Balanced(d)' \/ Given(d)'
        <5>1. CASE d = c
          BY <4>2, <5>1
        <5>2. CASE d # c
          <6>1. UNCHANGED <<sent, answered>> /\ inbuf'[d] = inbuf[d] /\ rcvq'[d] = rcvq[d]
            BY <2>4, <5>2 DEF SendFails, ParsesRequest, ReadsData, TypeOK, ClientType, ConnType
          <6> QED
            BY <4>3, <6>1
        <5> QED
          BY <5>1, <5>2
      <4> QED
        BY <1>c, <4>3
    <3> QED
      BY <2>4, <3>1, <3>2 DEF SendFails
  <2>5. CASE ParseSpins(l, e, c)
    <3>1. /\ Len(Received(c)) = Len(inbuf[c]) + Len(rcvq[c])
          /\ Len(rcvq[c]) \in Nat /\ Len(inbuf[c]) \in Nat
      BY DEF Received, TypeOK, ClientType, ConnType
    <3>2. /\ inbuf'[c] = Received(c) /\ rcvq'[c] = <<>> /\ UNCHANGED <<sent, answered>>
          /\ \A d \in Conn \ {c} : inbuf'[d] = inbuf[d] /\ rcvq'[d] = rcvq[d]
      BY <2>5 DEF ParseSpins, ReadsData, TypeOK, ClientType, ConnType
    <3>3. ASSUME NEW d \in Conn, Balanced(d) PROVE Balanced(d)'
      <4>1. sent[d] \in Nat /\ answered[d] \in Nat
        BY DEF TypeOK, ClientType, ConnType
      <4>2. CASE d = c
        <5>1. Len(inbuf'[d]) = Len(inbuf[d]) + Len(rcvq[d]) /\ Len(rcvq'[d]) = 0
          BY <3>1, <3>2, <4>2
        <5>2. sent'[d] = sent[d] /\ answered'[d] = answered[d]
          BY <3>2
        <5>3. Len(rcvq[d]) \in Nat /\ Len(inbuf[d]) \in Nat
          BY <3>1, <4>2
        <5>4. PICK i \in Nat, q \in Nat, j \in {Len(inbuf'[d])} : i = Len(inbuf[d]) /\ q = Len(rcvq[d]) /\ j = Len(inbuf'[d])
          BY <5>3
        <5>5. sent[d] = 2 * answered[d] + i + q /\ j = i + q
          BY <3>3, <5>1, <5>4, Zenon
        <5>6. sent[d] = 2 * answered[d] + j + 0
          BY <4>1, <5>5
        <5>7. sent'[d] = 2 * answered'[d] + j + Len(rcvq'[d])
          BY <5>1, <5>2, <5>6, Zenon
        <5> QED
          BY <5>4, <5>7, Zenon
      <4>3. CASE d # c
        BY <3>2, <3>3, <4>3
      <4> QED
        BY <4>2, <4>3
    <3> QED
      BY <1>c, <3>3
  <2> QED
    BY <1>3, <2>1, <2>2, <2>3, <2>4, <2>5 DEF HandleRead
<1>4. ASSUME NEW l \in Loops, Loop(l),
             ~\E e \in Event, c \in Conn : HandleRead(l, e, c)
      PROVE  RequestsConserved'
  <2>1. UNCHANGED <<sent, answered, inbuf, rcvq>>
    BY <1>4 DEF Loop, EpollWait, HandleWakeup, CloseHangUp, DispatchDone, PendingAdd,
       PendingRemove, PendingAddFailed, Handles, PendingDone, conn, client
  <2> QED
    BY <1>1, <2>1
<1>5. CASE Acceptor
  <2>1. UNCHANGED <<sent, answered, inbuf, rcvq>>
    BY <1>5 DEF Acceptor, Accept, Wakeup, SetData, conn, client
  <2> QED
    BY <1>1, <2>1
<1>6. CASE UNCHANGED vars
  BY <1>1, <1>6 DEF vars, conn, client
<1> QED
  BY <1>2, <1>3, <1>4, <1>5, <1>6 DEF Next, Loop

\* No piece of a request is lost and no request answered twice, however the
\* pieces arrive, buffered behind others or half; the one exception is an
\* answer that write() did not take, after which the thread hangs.
THEOREM ReactorRequestsConserved == Spec => []RequestsConserved
<1>1. Init => RequestsConserved
  BY DEF Init, RequestsConserved
<1> QED
  BY <1>1, RequestsInductive, ReactorTypes, PTL DEF Spec

-----------------------------------------------------------------------------
(* Orderly clients: nobody aborts, every response fits, and nobody asks    *)
(* for the connection to be closed.                                        *)

Orderly == Closing = {} /\ Aborting = {} /\ Slow = {}

Kept == {"head", "keep"}

\* Orderly clients never make write() fail.
NoneShut ==
    /\ shut = {}
    /\ \A c \in Conn : peer[c] # "rst"
    /\ inbuf \in [Conn -> Seq(Kept)] /\ rcvq \in [Conn -> Seq(Kept)]

\* A connection without data is the one the main thread is accepting.
Unset ==
    \A c \in open \ data :
        pc[Main] \in {"wakeup", "setdata", "adding"} /\ cur[Main].conn = c

\* Without sub-reactors only the main loop has work, and only then does the
\* main loop add a channel itself.
Single ==
    /\ thread_number = 0 => \A l \in Loops \ {Main} : reg[l] = {} /\ pending[l] = <<>>
    /\ pc[Main] = "adding" => thread_number = 0

\* The connections of orderly clients are never shut down for writing.
LEMMA NoneShutInductive ==
    ASSUME Orderly, TypeOK, NoneShut, [Next]_vars PROVE NoneShut'
<1> USE DEF NoneShut, Orderly
<1>1. ASSUME UNCHANGED <<shut, peer, inbuf, rcvq>> PROVE NoneShut'
  BY <1>1
<1>2. ASSUME NEW c \in Conn, Client(c) PROVE NoneShut'
  <2>1. ASSUME NEW p \in Seq(Kept), Deliver(c, p) PROVE NoneShut'
    <3>1. rcvq[c] \o p \in Seq(Kept)
      OBVIOUS
    <3> QED
      BY <2>1, <3>1 DEF Deliver, socket, conn
  <2>2. CASE Connect(c) \/ Close(c)
    BY <2>2 DEF Connect, Close, socket, conn, TypeOK, ClientType
  <2>3. ~Abort(c)
    BY DEF Abort
  <2>4. LastPiece(c) \in Kept /\ "head" \in Kept
    BY DEF LastPiece, Kept
  <2>5. /\ <<"head", LastPiece(c)>> \in Seq(Kept)
        /\ <<LastPiece(c)>> \in Seq(Kept)
        /\ <<"head">> \in Seq(Kept)
    BY <2>4
  <2> QED
    BY <1>2, <2>1, <2>2, <2>3, <2>5 DEF Client, Send, SendHead, SendRest
<1>3. ASSUME NEW l \in Loops, NEW e \in Event, NEW c \in Conn, HandleRead(l, e, c)
      PROVE  NoneShut'
  <2>1. CASE ReadEnd(l, e, c)
    BY <1>1, <2>1 DEF ReadEnd, socket, conn, client
  <2>2. CASE ~ReadEnd(l, e, c)
    <3>1. Received(c) \in Seq(Kept)
      BY DEF Received
    <3>2. Len(Received(c)) >= 2 => /\ SubSeq(Received(c), 3, Len(Received(c))) \in Seq(Kept)
                                   /\ Received(c)[2] \in Kept
      BY <3>1
    <3>3. shut' = shut
      BY <1>3, <2>2, <3>2 DEF HandleRead, ParseSpins, CallbackUnset, Respond, SendFails,
         ParsesRequest, socket, Kept
    <3>4. inbuf' \in [Conn -> Seq(Kept)]
      BY <1>3, <2>2, <3>1, <3>2 DEF HandleRead, ParseSpins, CallbackUnset, Respond,
         SendFails, ParsesRequest
    <3>5. rcvq' = [rcvq EXCEPT ![c] = <<>>] /\ peer' = peer
      BY <1>3, <2>2 DEF HandleRead, ParseSpins, CallbackUnset, Respond,
         SendFails, ParsesRequest, ReadsData
    <3>6. rcvq' \in [Conn -> Seq(Kept)]
      BY <3>5
    <3> QED
      BY <3>3, <3>4, <3>5, <3>6
  <2> QED
    BY <2>1, <2>2
<1>4. ASSUME NEW l \in Loops, Loop(l),
             ~\E e \in Event, c \in Conn : HandleRead(l, e, c)
      PROVE  NoneShut'
  BY <1>1, <1>4 DEF Loop, EpollWait, HandleWakeup, CloseHangUp, DispatchDone, PendingAdd,
     PendingRemove, PendingAddFailed, Handles, PendingDone, socket, conn, client
<1>5. CASE Acceptor
  BY <1>1, <1>5 DEF Acceptor, Accept, Wakeup, SetData, socket, conn, client
<1>6. CASE UNCHANGED vars
  BY <1>1, <1>6 DEF vars, socket, conn, client
<1> QED
  BY <1>2, <1>3, <1>4, <1>5, <1>6 DEF Next, Loop

\* Only the main thread adds to what has no data, and it sets it before it
\* returns to its events.
LEMMA UnsetInductive ==
    ASSUME TypeOK, IInv, Unset, [Next]_vars PROVE Unset'
<1> USE DEF Unset
<1>0. Main \in Loops
  BY ReactorAssumption DEF Main, Loops
<1>1. ASSUME open' \subseteq open, data' = data,
             \/ pc'[Main] = pc[Main] /\ cur'[Main] = cur[Main]
             \/ pc[Main] \notin {"wakeup", "setdata", "adding"}
      PROVE  Unset'
  BY <1>1
<1>2. ASSUME NEW c \in Conn, Client(c) PROVE Unset'
  BY <1>1, <1>2 DEF Client, Connect, Send, SendHead, SendRest, Deliver, Close, Abort,
     thread, socket, conn
<1>3. ASSUME NEW l \in Loops, Loop(l) PROVE Unset'
  <2>1. CASE PendingDone(l)
    <3>1. CASE l = Main /\ pc[l] = "adding"
      <4>1. open' = open /\ data' = data /\ cur' = cur /\ pc'[Main] = "setdata"
        BY <2>1, <3>1 DEF PendingDone, socket, TypeOK, ThreadType
      <4> QED
        BY <3>1, <4>1
    <3>2. CASE l # Main \/ pc[l] # "adding"
      <4>1. open' = open /\ data' = data /\ pc[l] \in InPending
        BY <2>1 DEF PendingDone, socket
      <4>2. l # Main => pc'[Main] = pc[Main] /\ cur'[Main] = cur[Main]
        BY <1>0, <2>1 DEF PendingDone, TypeOK, ThreadType
      <4> QED
        BY <1>1, <3>2, <4>1, <4>2 DEF InPending
    <3> QED
      BY <3>1, <3>2
  <2>2. ASSUME NEW t, NEW c, Handles(l, t, c) PROVE Unset'
    BY <1>1, <2>2 DEF Handles, socket, conn
  <2>3. CASE EpollWait(l) \/ DispatchDone(l)
    BY <1>0, <1>1, <2>3 DEF EpollWait, DispatchDone, At, socket, conn, TypeOK, ThreadType
  <2>4. ASSUME NEW e \in Event, HandleWakeup(l, e) \/ CloseHangUp(l, e) PROVE Unset'
    BY <1>1, <2>4 DEF HandleWakeup, CloseHangUp, socket, conn
  <2>5. ASSUME NEW e \in Event, NEW c \in Conn, HandleRead(l, e, c) PROVE Unset'
    <3>1. /\ open' = open /\ data' = data /\ pc[l] = "dispatch"
          /\ l # Main => pc'[Main] = pc[Main] /\ cur'[Main] = cur[Main]
      BY <1>0, <2>5 DEF HandleRead, ParseSpins, CallbackUnset, Respond, SendFails, ReadEnd,
         ParsesRequest, ReadsData, Reads, Dispatches, At, socket, conn, TypeOK, ThreadType
    <3> QED
      BY <1>1, <3>1
  <2> QED
    BY <1>3, <2>1, <2>2, <2>3, <2>4, <2>5
       DEF Loop, PendingAdd, PendingRemove, PendingAddFailed
<1>4. ASSUME NEW e \in Event, Accept(e) PROVE Unset'
  <2>1. /\ pc[Main] = "dispatch" /\ data' = data
        /\ pc'[Main] \in {"wakeup", "adding"}
    BY <1>0, <1>4 DEF Accept, Dispatches, At, conn, TypeOK, ThreadType
  <2>2. open' \subseteq open \cup {cur'[Main].conn}
    BY <1>0, <1>4 DEF Accept, TypeOK, ThreadType
  <2> QED
    BY <2>1, <2>2
<1>5. CASE Wakeup
  BY <1>0, <1>5 DEF Wakeup, At, socket, conn, TypeOK, ThreadType
<1>6. CASE SetData
  <2>1. /\ open' = open /\ open \subseteq Conn /\ NoConn \notin Conn
        /\ data' = data \cup ({cur[Main].conn} \ {NoConn})
    BY <1>6, ReactorAssumption DEF SetData, socket, TypeOK, SocketType
  <2> QED
    BY <2>1
<1>7. CASE UNCHANGED vars
  BY <1>1, <1>7 DEF vars, thread, socket, conn
<1> QED
  BY <1>2, <1>3, <1>4, <1>5, <1>6, <1>7 DEF Next, Acceptor

\* A loop without connections is given none when the pool is empty.
LEMMA SingleInductive ==
    ASSUME TypeOK, IInv, Single, [Next]_vars PROVE Single'
<1> USE DEF Single
<1>0. Main \in Loops
  BY ReactorAssumption DEF Main, Loops
<1>1. ASSUME thread_number' = thread_number,
             thread_number = 0 => \A l \in Loops \ {Main} : reg'[l] \subseteq reg[l]
                                                            /\ pending'[l] = pending[l],
             pc'[Main] = "adding" => pc[Main] = "adding" \/ thread_number = 0
      PROVE  Single'
  BY <1>1
<1>2. ASSUME NEW c \in Conn, Client(c) PROVE Single'
  BY <1>1, <1>2 DEF Client, Connect, Send, SendHead, SendRest, Deliver, Close, Abort,
     thread, queue, registry, pool
<1>3. ASSUME NEW l \in Loops, Loop(l) PROVE Single'
  <2>1. CASE EpollWait(l) \/ DispatchDone(l) \/ PendingDone(l)
    BY <1>0, <1>1, <2>1 DEF EpollWait, DispatchDone, PendingDone, InPending, At, queue,
       registry, pool, TypeOK, ThreadType
  <2>2. ASSUME NEW e \in Event, HandleWakeup(l, e) \/ CloseHangUp(l, e) PROVE Single'
    BY <1>1, <2>2 DEF HandleWakeup, CloseHangUp, queue, registry, pool, TypeOK, RegistryType
  <2>3. ASSUME NEW e \in Event, NEW c \in Conn, HandleRead(l, e, c) PROVE Single'
    <3>1. /\ e \in events[l] /\ e.kind = "conn" /\ UNCHANGED <<thread_number, reg>>
          /\ pc'[Main] = "adding" => pc[Main] = "adding"
          /\ \A m \in Loops \ {l} : pending'[m] = pending[m]
      BY <1>0, <2>3 DEF HandleRead, ParseSpins, CallbackUnset, Respond, SendFails, ReadEnd,
         ParsesRequest, ReadsData, Reads, Dispatches, queue, registry, pool,
         TypeOK, ThreadType, QueueType
    <3>2. reg[l] # {}
      BY <3>1 DEF IInv, Reported
    <3> QED
      BY <1>0, <1>1, <3>1, <3>2
  <2>4. ASSUME NEW t, NEW c, Handles(l, t, c),
               \A m \in Loops \ {l} : reg'[m] = reg[m]
        PROVE  Single'
    <3>1. /\ pending[l] # <<>> /\ UNCHANGED <<thread_number, pc>>
          /\ \A m \in Loops \ {l} : pending'[m] = pending[m]
      BY <2>4 DEF Handles, pool, TypeOK, QueueType
    <3> QED
      BY <1>0, <1>1, <2>4, <3>1
  <2>5. ASSUME NEW c \in Conn, PendingAdd(l, c) \/ PendingRemove(l, c) PROVE Single'
    BY <2>4, <2>5 DEF PendingAdd, PendingRemove, registry, TypeOK, RegistryType
  <2>6. CASE PendingAddFailed(l)
    BY <2>4, <2>6 DEF PendingAddFailed, registry
  <2> QED
    BY <1>3, <2>1, <2>2, <2>3, <2>5, <2>6 DEF Loop
<1>4. ASSUME NEW e \in Event, Accept(e) PROVE Single'
  <2>1. GetLoop \in Loops /\ (GetLoop = Main <=> thread_number = 0)
    BY GetLoopType DEF TypeOK
  <2>2. /\ UNCHANGED <<thread_number, reg>>
        /\ \A m \in Loops \ {GetLoop} : pending'[m] = pending[m]
        /\ pc'[Main] = "adding" => GetLoop = Main
    BY <1>0, <1>4, <2>1 DEF Accept, registry, TypeOK, ThreadType, QueueType
  <2> QED
    BY <1>1, <2>1, <2>2
<1>5. CASE Wakeup \/ SetData
  BY <1>0, <1>1, <1>5 DEF Wakeup, SetData, queue, registry, pool, TypeOK, ThreadType
<1>6. CASE UNCHANGED vars
  BY <1>1, <1>6 DEF vars, thread, queue, registry, pool
<1> QED
  BY <1>2, <1>3, <1>4, <1>5, <1>6 DEF Next, Acceptor

\* The step that crashes is a sub-reactor's, between the hand-over of the
\* connection and the store to its data field.
LEMMA CrashInductive ==
    ASSUME Orderly, TypeOK, IInv, NoneShut, Unset, Single, CrashIsRace, [Next]_vars
    PROVE  CrashIsRace'
<1> USE DEF CrashIsRace
<1>1. CASE crashed
  <2>1. UNCHANGED <<crashed, thread_number, pc, cur, open, data>>
    BY <1>1, CrashIsFinal DEF vars, thread, pool, socket, conn
  <2> QED
    BY <1>1, <2>1
<1>2. ASSUME ~crashed, crashed' PROVE CrashIsRace'
  <2>1. PICK l \in Loops, e \in Event, c \in Conn : HandleRead(l, e, c)
    BY <1>2 DEF Next, Client, Connect, Send, SendHead, SendRest, Deliver, Close, Abort,
       Loop, EpollWait, HandleWakeup, CloseHangUp, DispatchDone, PendingAdd, PendingRemove,
       PendingAddFailed, Handles, PendingDone, Acceptor, Accept, Wakeup, SetData, vars
  <2>2. ~SendFails(l, e, c)
    BY DEF SendFails, WriteMayFail, NoneShut, Orderly
  <2>3. CallbackUnset(l, e, c)
    BY <1>2, <2>1, <2>2 DEF HandleRead, ParseSpins, Respond, ReadEnd
  <2>4. /\ e \in events[l] /\ e.kind = "conn" /\ c = entries[l][e.fd]
        /\ pc[l] = "dispatch" /\ c \notin data
        /\ UNCHANGED <<thread_number, pc, cur, open, data>>
    BY <2>3 DEF CallbackUnset, ParsesRequest, ReadsData, Reads, Dispatches, At, pool, socket
  <2>5. c \in reg[l]
    BY <2>4 DEF IInv, Reported, Mapped
  <2>6. c \in open
    BY <2>5, Registered DEF IInv
  <2>7. pc[Main] \in {"wakeup", "setdata", "adding"} /\ cur[Main].conn = c
    BY <2>4, <2>6 DEF Unset
  <2>8. thread_number # 0
    BY <2>4, <2>5, <2>7 DEF Single
  <2>9. thread_number > 0 /\ pc[Main] # "adding"
    BY <2>8, ReactorAssumption DEF Single, TypeOK, PoolType
  <2> QED
    BY <2>4, <2>6, <2>7, <2>9
<1> QED
  BY <1>1, <1>2

\* With orderly clients the process stops in one way only, the race between the
\* hand-over of a connection to a sub-reactor and the store to its data field;
\* a server without sub-reactors never stops.
THEOREM ReactorCrashIsRace ==
    ASSUME Orderly PROVE Spec => []CrashIsRace
<1>1. Init => NoneShut /\ Unset /\ Single /\ CrashIsRace
  BY ReactorAssumption DEF Init, NoneShut, Unset, Single, CrashIsRace, Main, Loops
<1>2. /\ TypeOK /\ IInv /\ NoneShut /\ Unset /\ Single /\ CrashIsRace
      /\ [Next]_vars
      => (NoneShut /\ Unset /\ Single /\ CrashIsRace)'
  BY NoneShutInductive, UnsetInductive, SingleInductive, CrashInductive
<1> QED
  BY <1>1, <1>2, ReactorTypes, PTL DEF Spec

============================================================================
