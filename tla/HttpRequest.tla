---------------------------- MODULE HttpRequest ----------------------------
(***************************************************************************)
(* The request parser of src/httptest-geektime/lib/http_server.c and       *)
(* http_request.c.  A stream of bytes is a sequence of tokens: the text of *)
(* a line and "crlf" are a token each, an empty line is a "crlf" alone.    *)
(***************************************************************************)
EXTENDS Integers, Sequences

CONSTANT HeaderRoom     \* the headers that request_headers has room for

ASSUME HeaderRoomAssumption == HeaderRoom \in Nat

Status(id, version) == <<"status", id, version>>
Header(connection) == <<"header", connection>>  \* "none" is one of another key
Crlf == <<"crlf">>

\* A line without ": " of more than two bytes, and what the parser leaves of
\* it: all but the first two bytes.  Either there are two spaces in that, or
\* there are not.  (What is left of a single byte is put in front of the next
\* line; such lines are left out.)
Odd(spaced) == <<"odd", spaced>>
Rest(spaced) == <<"rest", spaced>>

\* The number of a request that no client has made
Phantom == 0

\* http_request_reset()
NewRequest == [state |-> "status", id |-> Phantom, version |-> "", connection |-> "none", headers |-> 0]

\* The first header whose key is Connection counts.
http_request_add_header(r, connection) ==
    [r EXCEPT !.headers = @ + 1,
              !.connection = IF @ = "none" THEN connection ELSE @]

\* buffer_find_CRLF()
HasLine(buf) == \E i \in DOMAIN buf : buf[i] = Crlf

\* The line and its CRLF are consumed.
AfterLine(buf) == Tail(Tail(buf))

Stopped(x) == x.req.state = "done" \/ x.fault # ""

\* process_status_line(): without two spaces in the line an assertion fails.
\* With them it is a request, also when it is the rest of a header line; then
\* the version is whatever follows the second space.
StatusLine(x) ==
    LET line == Head(x.buf)
    IN  CASE line[1] = "status" ->
                 [x EXCEPT !.buf = AfterLine(@), !.req.state = "headers",
                           !.req.id = line[2], !.req.version = line[3]]
          [] line = Rest(TRUE) ->
                 [x EXCEPT !.buf = AfterLine(@), !.req.state = "headers",
                           !.req.id = Phantom, !.req.version = "none"]
          [] OTHER -> [x EXCEPT !.fault = "aborts"]

\* A line without ": " is taken for the empty one, the last: only two of its
\* bytes are consumed.
HeaderLine(x) ==
    LET line == Head(x.buf)
    IN  IF line[1] = "header"
        THEN IF x.req.headers = HeaderRoom THEN [x EXCEPT !.fault = "overflows"]
             ELSE [x EXCEPT !.buf = AfterLine(@), !.req = http_request_add_header(@, line[2])]
        ELSE [x EXCEPT !.buf = IF line = Crlf THEN Tail(@) ELSE <<Rest(line[2])>> \o Tail(@),
                       !.req.state = "done"]

\* One round of the loop: without a whole line in the buffer it spins.
ParseStep(x) ==
    IF Stopped(x) THEN x
    ELSE IF ~HasLine(x.buf) THEN [x EXCEPT !.fault = "spins"]
    ELSE IF x.req.state = "status" THEN StatusLine(x)
    ELSE HeaderLine(x)

\* The set of what the rounds of the loop leave, which has one element; a
\* round consumes a token or is the last one.
parse_http_request(buf, r) ==
    LET after[n \in Nat] == IF n = 0 THEN {[buf |-> buf, req |-> r, fault |-> ""]}
                            ELSE {ParseStep(x) : x \in after[n - 1]}
    IN  after[Len(buf) + 1]

\* http_request_close_connection(): what it may return.  Without a Connection
\* header the comparison of an HTTP/1.0 request reads a null pointer, and
\* strncmp() is compared with 1, which is one of the positive values it may have.
CloseAnswers(r) ==
    CASE r.connection = "close" -> {"close"}
      [] r.connection # "close" /\ r.version # "1.0" -> {"keep"}
      [] r.connection = "none" /\ r.version = "1.0" -> {"null"}
      [] r.connection = "keep" /\ r.version = "1.0" -> {"keep"}
      [] r.connection = "other" /\ r.version = "1.0" -> {"keep", "close"}
=============================================================================
