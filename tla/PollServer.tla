----------------------------- MODULE PollServer -----------------------------
(***************************************************************************)
(* The HTTP server of src/httptest-geektime built without EPOLL_ENABLE and *)
(* with no thread of its own for connections: one event loop waits in      *)
(* poll(), accepts connections, parses requests and answers them.  Clients *)
(* send requests in pieces, read what they are sent, and go away.          *)
(*                                                                         *)
(* Descriptor 0 is the loop's socket pair, 1 the listening socket; a       *)
(* connection's descriptor is never closed and so never used again.        *)
(***************************************************************************)
EXTENDS PollDispatcher, HttpRequest, SequencesExt

CONSTANTS
    PollSizes,    \* values for INIT_POLL_SIZE
    Conns,        \* descriptors of the connections
    Kinds,        \* the requests that a client may make
    Cuts,         \* the tokens after which a request may be cut in two
    MaxRequests,  \* bound: requests of all clients together
    Room          \* what the kernel holds of the answers to a connection

ASSUME PollServerAssumption ==
    /\ PollSizes \subseteq Nat \ {0, 1}
    /\ Conns \subseteq Nat \ {0, 1}
    /\ Cuts \subseteq 1 .. 2
    /\ Room \in Nat \ {0}
    /\ MaxRequests \in Nat
    /\ DOMAIN Kinds = Conns

VARIABLES
    table,        \* event_set
    scan,         \* ready_number and i of poll_dispatch()
    fault,        \* what has become of the process, "" while it serves
    server,       \* the channel map's entry and the tcp_connection of a descriptor
    net,          \* the sockets
    client        \* the clients

vars == <<table, scan, fault, server, net, client>>

\* The requests, as tokens; the number id tells a client's requests apart.
Text(kind, id) ==
    CASE kind = "keep"    -> <<Status(id, "1.1"), Crlf, Crlf>>
      [] kind = "close"   -> <<Status(id, "1.1"), Crlf, Header("close"), Crlf, Crlf>>
      [] kind = "bare10"  -> <<Status(id, "1.0"), Crlf, Crlf>>
      [] kind = "other10" -> <<Status(id, "1.0"), Crlf, Header("other"), Crlf, Crlf>>
      [] kind = "odd"     -> <<Status(id, "1.1"), Crlf, Odd(FALSE), Crlf, Crlf>>
      [] kind = "spaced"  -> <<Status(id, "1.1"), Crlf, Odd(TRUE), Crlf, Crlf>>
      [] kind = "long"    -> <<Status(id, "1.1"), Crlf>>
                             \o [i \in 1 .. 2 * (HeaderRoom + 1) |->
                                    IF i % 2 = 1 THEN Header("none") ELSE Crlf]
                             \o <<Crlf>>

NoScan == [ready |-> 0, at |-> 0]

NoConnection == [mapped |-> FALSE, in |-> <<>>, req |-> NewRequest, shut |-> FALSE]

TypeOK ==
    /\ \A i \in Slots(table) :
          /\ table[i].fd \in {-1, 0, 1} \cup Conns
          /\ table[i].events \subseteq Events /\ table[i].revents \subseteq Events
    /\ scan.ready \in Nat /\ scan.at \in Nat
    /\ fault \in {"", "spins", "aborts", "overflows", "null", "write"}
    /\ \A c \in Conns : /\ server[c].mapped \in BOOLEAN /\ server[c].shut \in BOOLEAN
                        /\ net[c].stage \in {"none", "backlog", "accepted"}
                        /\ net[c].gone \in BOOLEAN
                        /\ Len(net[c].tx) <= Room

\* event_loop_init() and tcp_server_start() have registered their channels.
Init ==
    /\ \E n \in PollSizes : table = poll_add(poll_add(poll_init(n), 0, {"R"}), 1, {"R"})
    /\ scan = NoScan
    /\ fault = ""
    /\ server = [c \in Conns |-> NoConnection]
    /\ net = [c \in Conns |-> [stage |-> "none", rx |-> <<>>, tx |-> <<>>, gone |-> FALSE]]
    /\ client = [c \in Conns |-> [todo |-> <<>>, asked |-> <<>>, got |-> <<>>,
                                   split |-> FALSE, piped |-> FALSE]]

-----------------------------------------------------------------------------
(* Clients.                                                                *)

\* Descriptors are handed out in the order of the connections.  What clients
\* do after the server's end is left out.
Connect(c) ==
    /\ fault = ""
    /\ net[c].stage = "none"
    /\ \A d \in Conns : d < c => net[d].stage # "none"
    /\ net' = [net EXCEPT ![c].stage = "backlog"]
    /\ UNCHANGED <<table, scan, fault, server, client>>

Connected(c) == fault = "" /\ net[c].stage # "none" /\ ~net[c].gone

\* The client has all the answers it has asked for.  An answer is named by the
\* number of its request.
Answered(c) == Len(client[c].got) = Len(client[c].asked)

Asked == FoldFunction(LAMBDA x, n : Len(x.asked) + n, 0, client)

\* A request goes out whole, or a part of it now and the rest later.
Request(c, kind) ==
    /\ Connected(c)
    /\ client[c].todo = <<>>
    /\ Asked < MaxRequests
    /\ LET id == Len(client[c].asked) + 1
           text == Text(kind, id)
       IN  \E n \in Cuts \cup {Len(text)} :
             /\ net' = [net EXCEPT ![c].rx = @ \o SubSeq(text, 1, n)]
             /\ client' = [client EXCEPT ![c].asked = Append(@, kind),
                                         ![c].todo = SubSeq(text, n + 1, Len(text)),
                                         ![c].split = @ \/ n < Len(text),
                                         ![c].piped = @ \/ ~Answered(c)]
    /\ UNCHANGED <<table, scan, fault, server>>

SendRest(c) ==
    /\ Connected(c)
    /\ client[c].todo # <<>>
    /\ net' = [net EXCEPT ![c].rx = @ \o client[c].todo]
    /\ client' = [client EXCEPT ![c].todo = <<>>]
    /\ UNCHANGED <<table, scan, fault, server>>

Receive(c) ==
    /\ Connected(c)
    /\ net[c].tx # <<>>
    /\ client' = [client EXCEPT ![c].got = Append(@, Head(net[c].tx))]
    /\ net' = [net EXCEPT ![c].tx = Tail(@)]
    /\ UNCHANGED <<table, scan, fault, server>>

GoAway(c) ==
    /\ Connected(c)
    /\ net' = [net EXCEPT ![c].gone = TRUE]
    /\ UNCHANGED <<table, scan, fault, server, client>>

-----------------------------------------------------------------------------
(* The handlers of a connection, as functions of x: the connection, its    *)
(* sockets, the table and the fault they run into.                         *)

\* write() takes the whole answer.
Takes(x) == ~x.sv.shut /\ ~x.nt.gone /\ Len(x.nt.tx) < Room

\* tcp_connection_send_buffer(): if write() fails or takes a part, the path that
\* enables write events takes the tcp_connection for an event_loop and the
\* thread blocks or the process stops, as it does by SIGPIPE after a shutdown.
\* What is written to a client that has gone may also be dropped.
tcp_connection_send_buffer(x, answer) ==
    IF Takes(x) THEN {[x EXCEPT !.nt.tx = Append(@, answer)]}
    ELSE {[x EXCEPT !.fault = "write"]}
         \cup {y \in {x} : x.nt.gone /\ ~x.sv.shut}

\* Mutant: the request is not reset.
RespondOnce(c, x) ==
    UNION {{[y EXCEPT !.fault = IF @ = "" /\ a = "null" THEN "null" ELSE @,
                      !.sv.shut = @ \/ a = "close"] : a \in CloseAnswers(x.sv.req)} :
           y \in tcp_connection_send_buffer(x, x.sv.req.id)}

\* http_onMessage() with a request that is complete: answer, shut down, reset
Respond(c, x) ==
    UNION {{[y EXCEPT !.fault = IF @ = "" /\ a = "null" THEN "null" ELSE @,
                      !.sv.shut = @ \/ a = "close",
                      !.sv.req = NewRequest] : a \in CloseAnswers(x.sv.req)} :
           y \in tcp_connection_send_buffer(x, x.sv.req.id)}

\* http_onMessage(): everything that has arrived is read, one request parsed.
http_onMessage(c, x) ==
    LET parsed == {[x EXCEPT !.nt.rx = <<>>, !.sv.in = p.buf, !.sv.req = p.req, !.fault = p.fault] :
                      p \in parse_http_request(x.sv.in \o x.nt.rx, x.sv.req)}
    IN  UNION {IF y.fault = "" THEN Respond(c, y) ELSE {y} : y \in parsed}

\* handle_connection_closed(): the channel leaves table and map, the request
\* is freed, the descriptor stays open.
handle_connection_closed(c, x) ==
    [x EXCEPT !.table = poll_del(@, c), !.sv.mapped = FALSE]

\* Mutant: the end of the stream is ignored.
handle_read_data(c, x) == IF x.nt.rx # <<>> THEN http_onMessage(c, x) ELSE {x}

\* The read of a client that has gone may also fail.
handle_read(c, x) ==
    (IF x.nt.rx # <<>> THEN http_onMessage(c, x) ELSE {})
    \cup (IF x.nt.gone THEN {handle_connection_closed(c, x)} ELSE {})

-----------------------------------------------------------------------------
(* The event loop.                                                         *)

\* What poll() finds: the listening socket is readable while a connection
\* waits, a connection when something has arrived or the client has gone.
Ready(fd, events) ==
    LET readable == IF fd = 1 THEN \E c \in Conns : net[c].stage = "backlog"
                    ELSE fd \in Conns /\ (net[fd].rx # <<>> \/ net[fd].gone)
    IN  {e \in events : readable}

\* poll() returns with events; after a timeout it is called again.
Poll ==
    /\ fault = ""
    /\ scan.ready = 0
    /\ LET t == Polled(table, Ready)
       IN  /\ ReadyNumber(t) > 0
           /\ table' = t
           /\ scan' = [ready |-> ReadyNumber(t), at |-> 0]
    /\ UNCHANGED <<fault, server, net, client>>

\* The slot the scan of poll_dispatch() stops at next
At == NextEvent(table, scan.at)

Scanning == fault = "" /\ scan.ready > 0

\* Mutant: a connection that is removed is not counted.
ScannedMapped(i) == IF table'[i].fd < 0 THEN [scan EXCEPT !.at = i + 1]
                    ELSE IF scan.ready = 1 THEN NoScan
                    ELSE [ready |-> scan.ready - 1, at |-> i + 1]

\* An event has been handled; the loop ends with the last of them.
Scanned(i) == IF scan.ready = 1 THEN NoScan ELSE [ready |-> scan.ready - 1, at |-> i + 1]

\* handle_connection_established(): the connection is added to map and table.
Accept(c) ==
    /\ Scanning
    /\ At \in Slots(table) /\ table[At].fd = 1
    /\ c = Min({d \in Conns : net[d].stage = "backlog"})
    /\ net' = [net EXCEPT ![c].stage = "accepted"]
    /\ server' = [server EXCEPT ![c].mapped = TRUE]
    /\ table' = poll_add(table, c, {"R"})
    /\ scan' = Scanned(At)
    /\ UNCHANGED <<fault, client>>

\* channel_event_activate() for the events of a connection
Activate(c) ==
    /\ Scanning
    /\ At \in Slots(table) /\ table[At].fd = c
    /\ \E x \in {[sv |-> server[c], nt |-> net[c], table |-> table, fault |-> ""]} :
       \E y \in handle_read(c, x) :
          /\ server' = [server EXCEPT ![c] = y.sv]
          /\ net' = [net EXCEPT ![c] = y.nt]
          /\ table' = y.table
          /\ fault' = y.fault
    /\ scan' = Scanned(At)
    /\ UNCHANGED client

Loop == Poll \/ \E c \in Conns : Accept(c) \/ Activate(c)

Next ==
    \/ Loop
    \/ \E c \in Conns :
          \/ Connect(c) \/ SendRest(c) \/ Receive(c) \/ GoAway(c)
          \/ \E kind \in Kinds[c] : Request(c, kind)

Spec == Init /\ [][Next]_vars

\* The loop goes on, and clients read what they are sent.
FairSpec == Spec /\ WF_vars(Loop) /\ \A c \in Conns : WF_vars(Receive(c))

-----------------------------------------------------------------------------
(* Properties.                                                             *)

\* Every channel of the map has one slot and every slot but the first two is
\* that of a channel, unless there have been more connections than slots: then
\* a connection is in the map that will never be served.  While ready_number
\* is not zero there is a slot with an event: although its bound is one too
\* large, the scan never reads behind the table, also when handlers add and
\* remove slots on the way.
TableIsMap ==
    /\ TypeOK
    /\ table[0].fd = 0 /\ table[1].fd = 1
    /\ \A c \in Conns :
          /\ Cardinality(SlotOf(table, c)) <= 1
          /\ SlotOf(table, c) # {} => server[c].mapped
          /\ server[c].mapped /\ SlotOf(table, c) = {} =>
                Cardinality({d \in Conns : net[d].stage = "accepted"}) + 2 > Cardinality(Slots(table))
    /\ fault = "" /\ scan.ready > 0 => NextEvent(table, scan.at) \in Slots(table)

\* A client is sent the answers to its own requests, in their order, each once
\* and without a gap, also when several requests arrive in one read.  It is sent
\* further answers only to what the parser made a request of: the rest of a
\* header line without ": ", after the answer to the request with that line.
AnswersInOrder ==
    \A c \in Conns :
        LET answers == client[c].got \o net[c].tx
            own == SelectSeq(answers, LAMBDA a : a # Phantom)
            spaced == {i \in DOMAIN own : client[c].asked[i] = "spaced"}
        IN  /\ Len(own) <= Len(client[c].asked)
            /\ \A i \in DOMAIN own : own[i] = i
            /\ Len(answers) <= Len(own) + Cardinality(spaced)

\* A connection whose client has gone, before it was accepted, with requests
\* still to be read or with its answers not taken, leaves the channel map and
\* gives its slot back, if it had one and the server still runs.
GoneIsForgotten ==
    \A c \in Conns :
        net[c].gone ~>
            \/ net[c].stage = "accepted" /\ ~server[c].mapped /\ SlotOf(table, c) = {}
            \/ server[c].mapped /\ SlotOf(table, c) = {}
            \/ fault # ""

\* A client that asks one whole request at a time, over HTTP/1.1, and asks for
\* the connection to be closed in its last one only, gets every answer, if the
\* table had a slot for it and the server still runs.
RequestAnswered ==
    \A c \in Conns :
        client[c].asked # <<>> ~>
            \/ Answered(c)
            \/ net[c].gone \/ client[c].split \/ client[c].piped
            \/ ~ ToSet(client[c].asked) \subseteq {"keep", "close"}
            \/ "close" \in ToSet(Front(client[c].asked))
            \/ server[c].mapped /\ SlotOf(table, c) = {}
            \/ fault # ""
=============================================================================
