------------------------------ MODULE Reactor ------------------------------
(***************************************************************************)
(* The multi-reactor HTTP server of src/httptest-geektime: event loops     *)
(* with their pending lists and wake-up socket pairs (event_loop.c), the   *)
(* level-triggered epoll dispatcher (epoll_dispatcher.c), the acceptor     *)
(* and the round-robin choice of a loop (tcp_server.c, thread_pool.c),     *)
(* and the connection and HTTP callbacks (tcp_connection.c,                *)
(* http_server.c).                                                         *)
(*                                                                         *)
(* Loop 0 is the main thread's; loops 1..thread_number belong to the       *)
(* sub-reactor threads, and those above them are not used.  The kernel's   *)
(* side of a socket is modelled by what the code sees of it: what is       *)
(* queued to be read, whether the peer has closed or aborted, and which    *)
(* descriptors are open.                                                   *)
(***************************************************************************)
EXTENDS Integers, Sequences, FiniteSets

CONSTANTS
    MaxThreads,     \* bound: sub-reactors
    Conn,           \* the connections clients open
    NoConn,         \* no connection
    MaxFd,          \* bound: descriptors for connections
    FdLimits,       \* how many of them the process may be allowed to open
    WakeCap,        \* bytes that fit in a wake-up socket pair
    MaxReq,         \* requests a client sends on its connection
    Pipeline,       \* requests a client sends without waiting for an answer
    Closing,        \* clients that ask for "Connection: close"
    Fragmenting,    \* clients whose requests arrive in two pieces
    Aborting,       \* clients that may abort their connection
    Slow            \* clients whose socket may not take a whole response

ASSUME ReactorAssumption ==
    /\ MaxThreads \in Nat
    /\ NoConn \notin Conn
    /\ MaxFd \in Nat \ {0}
    /\ FdLimits \subseteq 1 .. MaxFd
    /\ WakeCap \in Nat \ {0}
    /\ MaxReq \in Nat /\ Pipeline \in Nat \ {0}
    /\ UNION {Closing, Fragmenting, Aborting, Slow} \subseteq Conn

Main == 0
Loops == 0 .. MaxThreads
Fds == 1 .. MaxFd

VARIABLES
    pc,        \* pc[l]: where the thread of loop l is
    events,    \* events[l]: what epoll_wait() returned and is still to handle
    cur,       \* cur[l]: the loop and connection of the running callback
    pending,   \* pending[l]: the list from pending_head to pending_tail
    handling,  \* handling[l]: is_handle_pending, set while mutex is held
    wake,      \* wake[l]: the bytes in loop l's socket pair
    entries,   \* entries[l]: the channel map, from descriptors to connections
    reg,       \* reg[l]: the connections in loop l's epoll set
    thread_number,  \* sub-reactors; 0: the main loop also serves connections
    position,  \* the thread pool's next loop
    fd_limit,  \* the descriptors the process may open for connections
    backlog,   \* connections established and not yet accepted
    fd,        \* fd[c]: the descriptor of c's channel; 0 before accept()
    open,      \* the connections whose descriptor is open
    data,      \* the connections whose data field is set
    inbuf,     \* inbuf[c]: the input_buffer
    shut,      \* the connections the server has shut down for writing
    closed,    \* the connections whose request object is freed
    answered,  \* answered[c]: the responses sent to c
    rcvq,      \* rcvq[c]: what the kernel has queued for reading on c
    peer,      \* peer[c]: the client's side of c
    sent,      \* sent[c]: the pieces of requests the client has sent
    crashed    \* the process is gone

thread   == <<pc, events, cur>>
queue    == <<pending, handling, wake>>
registry == <<entries, reg>>
pool     == <<thread_number, position, fd_limit>>
socket   == <<backlog, fd, open, shut>>
conn     == <<data, inbuf, closed, answered>>
client   == <<rcvq, peer, sent>>
vars     == <<thread, queue, registry, pool, socket, conn, client, crashed>>

LoopPc == {"wait", "dispatch", "pending", "closing", "adding",
           "wakeup", "setdata", "hung"}

Event == [kind : {"wakeup", "listen"}, fd : {0}, hup : {FALSE}]
         \cup [kind : {"conn"}, fd : Fds, hup : BOOLEAN]

\* A request arrives as its head and, with the blank line that ends it, its
\* tail; the tail tells whether it asks for the connection to be closed.
Piece == {"head", "keep", "close"}

Nothing == [loop |-> Main, conn |-> NoConn]

\* struct channel_element
Element == [type : {"add", "remove"}, conn : Conn \cup {NoConn}]

ThreadType ==
    /\ pc \in [Loops -> LoopPc]
    /\ events \in [Loops -> SUBSET Event]
    /\ cur \in [Loops -> [loop : Loops, conn : Conn \cup {NoConn}]]

QueueType ==
    /\ pending \in [Loops -> Seq(Element)]
    /\ handling \in [Loops -> BOOLEAN]
    /\ wake \in [Loops -> 0 .. WakeCap]

RegistryType ==
    /\ entries \in [Loops -> [Fds -> Conn \cup {NoConn}]]
    /\ reg \in [Loops -> SUBSET Conn]

PoolType ==
    /\ thread_number \in 0 .. MaxThreads
    /\ position \in 0 .. (IF thread_number = 0 THEN 0 ELSE thread_number - 1)
    /\ fd_limit \in FdLimits

SocketType ==
    /\ backlog \in Seq(Conn)
    /\ fd \in [Conn -> 0 .. MaxFd]
    /\ open \subseteq Conn /\ shut \subseteq Conn

ConnType ==
    /\ data \subseteq Conn /\ closed \subseteq Conn
    /\ inbuf \in [Conn -> Seq(Piece)]
    /\ answered \in [Conn -> Nat]

ClientType ==
    /\ rcvq \in [Conn -> Seq(Piece)]
    /\ peer \in [Conn -> {"none", "open", "fin", "rst"}]
    /\ sent \in [Conn -> Nat]

TypeOK ==
    /\ ThreadType /\ QueueType /\ RegistryType /\ PoolType
    /\ SocketType /\ ConnType /\ ClientType
    /\ crashed \in BOOLEAN

(***************************************************************************)
(* main() up to event_loop_run(): every loop has registered its wake-up    *)
(* channel, the main loop the listening socket, and every thread is about  *)
(* to call epoll_wait().                                                   *)
(***************************************************************************)
Init ==
    /\ pc = [l \in Loops |-> "wait"]
    /\ events = [l \in Loops |-> {}]
    /\ cur = [l \in Loops |-> Nothing]
    /\ pending = [l \in Loops |-> <<>>]
    /\ handling = [l \in Loops |-> FALSE]
    /\ wake = [l \in Loops |-> 0]
    /\ entries = [l \in Loops |-> [f \in Fds |-> NoConn]]
    /\ reg = [l \in Loops |-> {}]
    /\ thread_number \in 0 .. MaxThreads
    /\ position = 0
    /\ fd_limit \in FdLimits
    /\ backlog = <<>>
    /\ fd = [c \in Conn |-> 0]
    /\ open = {} /\ data = {} /\ shut = {} /\ closed = {}
    /\ inbuf = [c \in Conn |-> <<>>]
    /\ rcvq = [c \in Conn |-> <<>>]
    /\ answered = [c \in Conn |-> 0]
    /\ peer = [c \in Conn |-> "none"]
    /\ sent = [c \in Conn |-> 0]
    /\ crashed = FALSE

-----------------------------------------------------------------------------
(* The clients, while there is a server.                                   *)

Peer(c, state) == ~crashed /\ peer[c] = state

Connect(c) ==
    /\ Peer(c, "none")
    /\ peer' = [peer EXCEPT ![c] = "open"]
    /\ backlog' = Append(backlog, c)
    /\ UNCHANGED <<thread, queue, registry, pool, fd, open, shut, conn,
                   rcvq, sent, crashed>>

LastPiece(c) == IF c \in Closing THEN "close" ELSE "keep"

Requests(c) == (sent[c] + 1) \div 2   \* begun by the client, whole or not

MaySend(c) ==
    /\ Peer(c, "open")
    /\ sent[c] % 2 = 0
    /\ Requests(c) < MaxReq
    /\ Requests(c) - answered[c] < Pipeline
    /\ c \in Closing => sent[c] = 0

Deliver(c, pieces) ==
    /\ rcvq' = [rcvq EXCEPT ![c] = @ \o pieces]
    /\ sent' = [sent EXCEPT ![c] = @ + Len(pieces)]
    /\ UNCHANGED <<thread, queue, registry, pool, socket, conn, peer, crashed>>

Send(c) == MaySend(c) /\ Deliver(c, <<"head", LastPiece(c)>>)

SendHead(c) == c \in Fragmenting /\ MaySend(c) /\ Deliver(c, <<"head">>)

SendRest(c) ==
    /\ Peer(c, "open")
    /\ sent[c] % 2 = 1
    /\ Deliver(c, <<LastPiece(c)>>)

\* A client closes its side when it has had its answers.
Close(c) ==
    /\ Peer(c, "open")
    /\ sent[c] = 2 * answered[c]
    /\ peer' = [peer EXCEPT ![c] = "fin"]
    /\ UNCHANGED <<thread, queue, registry, pool, socket, conn, rcvq, sent, crashed>>

Abort(c) ==
    /\ c \in Aborting
    /\ Peer(c, "open") \/ Peer(c, "fin")
    /\ peer' = [peer EXCEPT ![c] = "rst"]
    /\ UNCHANGED <<thread, queue, registry, pool, socket, conn, rcvq, sent, crashed>>

-----------------------------------------------------------------------------
(* epoll_dispatch(): level-triggered, without a timeout.                   *)

HangUp(c) == peer[c] = "rst" \/ (peer[c] = "fin" /\ c \in shut)

\* Mutant: the channel is registered without EPOLLIN.
ReadableAtEnd(c) == peer[c] \in {"fin", "rst"}

Readable(c) == rcvq[c] # <<>> \/ peer[c] \in {"fin", "rst"}

Ready(l) ==
    {[kind |-> "conn", fd |-> fd[c], hup |-> HangUp(c)] :
        c \in {r \in reg[l] : Readable(r)}}
    \cup {e \in {[kind |-> "wakeup", fd |-> 0, hup |-> FALSE]} : wake[l] > 0}
    \cup {e \in {[kind |-> "listen", fd |-> 0, hup |-> FALSE]} :
             l = Main /\ backlog # <<>>}

\* The thread of loop l is at p.
At(l, p) == ~crashed /\ pc[l] = p

EpollWait(l) ==
    /\ At(l, "wait")
    /\ Ready(l) # {}
    /\ events' = [events EXCEPT ![l] = Ready(l)]
    /\ pc' = [pc EXCEPT ![l] = "dispatch"]
    /\ UNCHANGED <<cur, queue, registry, pool, socket, conn, client, crashed>>

Dispatches(l, e) == At(l, "dispatch") /\ e \in events[l]
Consume(l, e) == events' = [events EXCEPT ![l] = @ \ {e}]

\* handleWakeup(): takes one byte out of the socket pair.
HandleWakeup(l, e) ==
    /\ Dispatches(l, e) /\ e.kind = "wakeup"
    /\ Consume(l, e)
    /\ wake' = [wake EXCEPT ![l] = @ - 1]
    /\ UNCHANGED <<pc, cur, pending, handling, registry, pool, socket, conn,
                   client, crashed>>

\* EPOLLERR or EPOLLHUP: the descriptor is closed, which takes it out of the
\* epoll set, and nothing else is done.
CloseHangUp(l, e) ==
    /\ Dispatches(l, e) /\ e.kind = "conn" /\ e.hup
    /\ Consume(l, e)
    /\ LET gone == {c \in open : fd[c] = e.fd}
       IN  /\ open' = open \ gone
           /\ reg' = [reg EXCEPT ![l] = @ \ gone]
    /\ UNCHANGED <<pc, cur, queue, entries, pool, backlog, fd, shut, conn,
                   client, crashed>>

-----------------------------------------------------------------------------
(* handle_read(), reached through channel_event_activate().                *)

\* The channel comes from the map, by descriptor.
Reads(l, e, c) ==
    /\ Dispatches(l, e) /\ e.kind = "conn" /\ ~e.hup
    /\ c = entries[l][e.fd]

\* readv() has data: what input_buffer then holds.
Received(c) == inbuf[c] \o rcvq[c]

ReadsData(l, e, c) ==
    /\ Reads(l, e, c)
    /\ rcvq[c] # <<>>
    /\ rcvq' = [rcvq EXCEPT ![c] = <<>>]
    /\ Consume(l, e)

\* parse_http_request() looks for the next CRLF in the same buffer for ever.
ParseSpins(l, e, c) ==
    /\ ReadsData(l, e, c)
    /\ Len(Received(c)) < 2
    /\ inbuf' = [inbuf EXCEPT ![c] = Received(c)]
    /\ pc' = [pc EXCEPT ![l] = "hung"]
    /\ UNCHANGED <<cur, queue, registry, pool, socket, data, closed, answered,
                   peer, sent, crashed>>

\* Mutant: readIndex is not advanced past the request.
ParsesInPlace(l, e, c) ==
    /\ ReadsData(l, e, c)
    /\ Len(Received(c)) >= 2
    /\ inbuf' = [inbuf EXCEPT ![c] = Received(c)]

\* The first request in the buffer is parsed; what follows it stays there.
ParsesRequest(l, e, c) ==
    /\ ReadsData(l, e, c)
    /\ Len(Received(c)) >= 2
    /\ inbuf' = [inbuf EXCEPT ![c] = SubSeq(Received(c), 3, Len(Received(c)))]

\* http_onMessage() follows data before handle_connection_established() has
\* stored it: the field still is what malloc() returned.
CallbackUnset(l, e, c) ==
    /\ ParsesRequest(l, e, c)
    /\ c \notin data
    /\ crashed' = TRUE
    /\ UNCHANGED <<pc, cur, queue, registry, pool, socket, data, closed,
                   answered, peer, sent>>

\* The request is answered with one write() that takes all of the response,
\* and the connection shut down if the request asked for it.
Respond(l, e, c) ==
    /\ ParsesRequest(l, e, c)
    /\ c \in data
    /\ c \notin shut /\ peer[c] # "rst"
    /\ answered' = [answered EXCEPT ![c] = @ + 1]
    /\ shut' = IF Received(c)[2] = "close" THEN shut \cup {c} ELSE shut
    /\ UNCHANGED <<pc, cur, queue, registry, pool, backlog, fd, open, data,
                   closed, peer, sent, crashed>>

WriteMayFail(c) == c \in shut \cup Slow \/ peer[c] = "rst"

\* write() fails or takes a part: channel_write_event_enable() then uses the
\* tcp_connection as if it were an event_loop.  What it takes for the mutex is
\* a callback's address: the thread blocks there for ever or, if the lock call
\* returns, the assertion on is_handle_pending stops the process, as SIGPIPE
\* does after a shutdown.
SendFails(l, e, c) ==
    /\ ParsesRequest(l, e, c)
    /\ c \in data
    /\ WriteMayFail(c) = TRUE
    /\ \/ crashed' = TRUE /\ UNCHANGED pc
       \/ c \notin shut /\ pc' = [pc EXCEPT ![l] = "hung"] /\ UNCHANGED crashed
    /\ UNCHANGED <<cur, queue, registry, pool, socket, data, closed, answered,
                   peer, sent>>

\* Mutant: the end of the stream is ignored.
ReadNothing(l, e, c) ==
    /\ Reads(l, e, c)
    /\ rcvq[c] = <<>>
    /\ Consume(l, e)
    /\ UNCHANGED <<pc, cur, queue, registry, pool, socket, conn, client, crashed>>

\* readv() returns 0 or -1: handle_connection_closed() asks the loop, whose
\* thread it runs in, to remove the channel.
ReadEnd(l, e, c) ==
    /\ Reads(l, e, c)
    /\ rcvq[c] = <<>>
    /\ ~handling[l]
    /\ Consume(l, e)
    /\ pending' = [pending EXCEPT ![l] = Append(@, [type |-> "remove", conn |-> c])]
    /\ handling' = [handling EXCEPT ![l] = TRUE]
    /\ cur' = [cur EXCEPT ![l] = [loop |-> l, conn |-> c]]
    /\ pc' = [pc EXCEPT ![l] = "closing"]
    /\ UNCHANGED <<wake, registry, pool, socket, conn, client, crashed>>

-----------------------------------------------------------------------------
(* handle_connection_established(), on the main loop.                      *)

\* thread_pool_get_loop()
GetLoop == IF thread_number > 0 THEN position + 1 ELSE Main
NextPosition == IF position + 1 >= thread_number THEN 0 ELSE position + 1

FreeFds == 1 .. fd_limit \ {fd[c] : c \in open}

\* accept() gives the lowest free descriptor, or -1 when there is none, which
\* the code does not test; tcp_connection_new() appends to the loop's list.
Accept(e) ==
    /\ Dispatches(Main, e) /\ e.kind = "listen"
    /\ Consume(Main, e)
    /\ ~handling[GetLoop]
    /\ \E c \in IF FreeFds = {} THEN {NoConn} ELSE {Head(backlog)} :
          /\ \/ /\ c = NoConn
                /\ UNCHANGED <<backlog, fd, open>>
             \/ /\ c # NoConn
                /\ backlog' = Tail(backlog)
                /\ fd' = [fd EXCEPT ![c] =
                            CHOOSE f \in FreeFds : \A g \in FreeFds : f <= g]
                /\ open' = open \cup {c}
          /\ pending' = [pending EXCEPT ![GetLoop] =
                            Append(@, [type |-> "add", conn |-> c])]
          /\ cur' = [cur EXCEPT ![Main] = [loop |-> GetLoop, conn |-> c]]
    /\ position' = NextPosition
    /\ \/ /\ GetLoop # Main
          /\ pc' = [pc EXCEPT ![Main] = "wakeup"]
          /\ UNCHANGED handling
       \/ /\ GetLoop = Main
          /\ pc' = [pc EXCEPT ![Main] = "adding"]
          /\ handling' = [handling EXCEPT ![Main] = TRUE]
    /\ UNCHANGED <<wake, registry, thread_number, fd_limit, shut, conn, client,
                   crashed>>

\* Mutant: the other thread is not woken.
WakeupForgotten ==
    /\ At(Main, "wakeup")
    /\ pc' = [pc EXCEPT ![Main] = "setdata"]
    /\ UNCHANGED <<events, cur, queue, registry, pool, socket, conn, client, crashed>>

\* event_loop_wakeup(): write() blocks while the socket pair is full.
Wakeup ==
    /\ At(Main, "wakeup")
    /\ wake[cur[Main].loop] < WakeCap
    /\ wake' = [wake EXCEPT ![cur[Main].loop] = @ + 1]
    /\ pc' = [pc EXCEPT ![Main] = "setdata"]
    /\ UNCHANGED <<events, cur, pending, handling, registry, pool, socket, conn,
                   client, crashed>>

\* Mutant: the server is not stored in the connection.
SetNoData ==
    /\ At(Main, "setdata")
    /\ cur' = [cur EXCEPT ![Main] = Nothing]
    /\ pc' = [pc EXCEPT ![Main] = "dispatch"]
    /\ UNCHANGED <<events, queue, registry, pool, socket, conn, client, crashed>>

\* tcpConnection->data = tcpServer->data
SetData ==
    /\ At(Main, "setdata")
    /\ data' = data \cup ({cur[Main].conn} \ {NoConn})
    /\ cur' = [cur EXCEPT ![Main] = Nothing]
    /\ pc' = [pc EXCEPT ![Main] = "dispatch"]
    /\ UNCHANGED <<events, queue, registry, pool, socket, inbuf, closed,
                   answered, client, crashed>>

-----------------------------------------------------------------------------
(* event_loop_handle_pending_channel(), under the loop's mutex.            *)

\* All events are handled: event_loop_run() turns to the pending list.
DispatchDone(l) ==
    /\ At(l, "dispatch")
    /\ events[l] = {}
    /\ ~handling[l]
    /\ handling' = [handling EXCEPT ![l] = TRUE]
    /\ pc' = [pc EXCEPT ![l] = "pending"]
    /\ UNCHANGED <<events, cur, pending, wake, registry, pool, socket, conn,
                   client, crashed>>

InPending == {"pending", "closing", "adding"}

Handles(l, type, c) ==
    /\ ~crashed /\ pc[l] \in InPending
    /\ pending[l] # <<>>
    /\ Head(pending[l]) = [type |-> type, conn |-> c]
    /\ pending' = [pending EXCEPT ![l] = Tail(@)]
    /\ UNCHANGED <<pc, events, cur, handling, wake, pool, socket, conn, client,
                   crashed>>

\* event_loop_handle_pending_add(): an occupied entry is left alone, ...
PendingAdd(l, c) ==
    /\ Handles(l, "add", c)
    /\ \/ /\ entries[l][fd[c]] = NoConn
          /\ entries' = [entries EXCEPT ![l][fd[c]] = c]
          /\ reg' = [reg EXCEPT ![l] = @ \cup {c}]
       \/ /\ entries[l][fd[c]] # NoConn
          /\ UNCHANGED registry

\* ... and so is the channel of an accept() that failed, whose fd is -1.
PendingAddFailed(l) ==
    /\ Handles(l, "add", NoConn)
    /\ UNCHANGED registry

\* Mutant: the channel leaves the map and stays in the epoll set.
PendingForget(l, c) ==
    /\ Handles(l, "remove", c)
    /\ entries' = [entries EXCEPT ![l][fd[c]] = NoConn]
    /\ UNCHANGED reg

\* event_loop_handle_pending_remove()
PendingRemove(l, c) ==
    /\ Handles(l, "remove", c)
    /\ reg' = [reg EXCEPT ![l] = @ \ {entries[l][fd[c]]}]
    /\ entries' = [entries EXCEPT ![l][fd[c]] = NoConn]

\* The list is empty: unlock, and return to the caller.  After a removal
\* http_onConnectionClosed() frees the request; the descriptor stays open.
PendingDone(l) ==
    /\ ~crashed /\ pc[l] \in InPending
    /\ pending[l] = <<>>
    /\ handling' = [handling EXCEPT ![l] = FALSE]
    /\ pc' = [pc EXCEPT ![l] = CASE @ = "pending" -> "wait"
                                 [] @ = "closing" -> "dispatch"
                                 [] @ = "adding"  -> "setdata"]
    /\ closed' = IF pc[l] = "closing" THEN closed \cup {cur[l].conn} ELSE closed
    /\ cur' = IF pc[l] = "closing" THEN [cur EXCEPT ![l] = Nothing] ELSE cur
    /\ UNCHANGED <<events, pending, wake, registry, pool, socket, data,
                   inbuf, answered, client, crashed>>

-----------------------------------------------------------------------------
Client(c) ==
    Connect(c) \/ Send(c) \/ SendHead(c) \/ SendRest(c) \/ Close(c) \/ Abort(c)

HandleRead(l, e, c) ==
    \/ ParseSpins(l, e, c)
    \/ CallbackUnset(l, e, c)
    \/ Respond(l, e, c)
    \/ SendFails(l, e, c)
    \/ ReadEnd(l, e, c)

Loop(l) ==
    \/ EpollWait(l)
    \/ \E e \in Event :
          \/ HandleWakeup(l, e)
          \/ CloseHangUp(l, e)
          \/ \E c \in Conn : HandleRead(l, e, c)
    \/ DispatchDone(l)
    \/ \E c \in Conn : PendingAdd(l, c) \/ PendingRemove(l, c)
    \/ PendingAddFailed(l)
    \/ PendingDone(l)

Acceptor ==
    \/ \E e \in Event : Accept(e)
    \/ Wakeup
    \/ SetData

Next ==
    \/ \E c \in Conn : Client(c)
    \/ \E l \in Loops : Loop(l)
    \/ Acceptor

Spec == Init /\ [][Next]_vars

(***************************************************************************)
(* Each thread runs when it can: a loop's thread takes its next step, the  *)
(* main thread's acceptor included.  A client that has begun to send a     *)
(* request sends the rest of it.  Clients owe nothing else.                *)
(***************************************************************************)
Fairness ==
    /\ \A l \in Loops : WF_vars(Loop(l) \/ (l = Main /\ Acceptor))
    /\ \A c \in Conn : WF_vars(SendRest(c))

FairSpec == Spec /\ Fairness

-----------------------------------------------------------------------------
(* Properties.                                                             *)

\* A channel handed to a loop is not forgotten: while its pending list is not
\* empty, the loop's thread is on its way to the list, or a byte in its socket
\* pair will end epoll_wait(), or the main thread is about to write that byte.
\* (A thread that hangs in a callback never gets there.)
NoLostRegistration ==
    \A l \in Loops : pending[l] # <<>> =>
        \/ wake[l] > 0
        \/ pc[l] # "wait"
        \/ pc[Main] = "wakeup" /\ cur[Main].loop = l

\* The assertions on the event path hold: the descriptor of an event that is
\* still to be handled leads, through the channel map, to the open connection
\* that epoll reported, although descriptors are reused and entries go stale.
EventsMapped ==
    TypeOK /\ \A l \in Loops : \A e \in events[l] : e.kind = "conn" =>
        \E c \in reg[l] : /\ entries[l][e.fd] = c /\ fd[c] = e.fd
                          /\ c \in open /\ c \notin closed

\* Each piece of a request is queued, buffered or answered: none is lost and
\* no request is answered twice, whether a request comes in one read or in two,
\* alone or behind another one, and also while a thread spins over half of one.
\* Only a response that could not be written is gone, and its thread with it.
RequestsConserved ==
    ~crashed =>
        \A c \in Conn :
            \/ sent[c] = 2 * answered[c] + Len(inbuf[c]) + Len(rcvq[c])
            \/ WriteMayFail(c) /\ \E l \in Loops : pc[l] = "hung"

\* Orderly clients stop the process in one way only: a sub-reactor serves a
\* request while the main thread is still between the hand-over of its
\* connection and the store to data.  Without sub-reactors nothing does.
CrashIsRace ==
    crashed =>
        /\ thread_number > 0
        /\ pc[Main] \in {"wakeup", "setdata"}
        /\ cur[Main].conn \in open \ data

\* An accepted connection is registered with an event loop.
AcceptedIsServed ==
    \A c \in Conn : (c \in open) ~>
        (crashed \/ c \in closed \/ \E l \in Loops : c \in reg[l])

\* Every request that has arrived whole is answered.
RequestIsAnswered ==
    \A c \in Conn : (sent[c] \div 2 > answered[c]) ~>
        (crashed \/ sent[c] \div 2 = answered[c])

\* The server notices that a client has closed its connection.
CloseIsNoticed ==
    \A c \in Conn : (peer[c] = "fin") ~> (crashed \/ c \in closed \/ peer[c] = "rst")

=============================================================================
