--------------------------- MODULE PollDispatcher ---------------------------
(***************************************************************************)
(* The table of src/httptest-geektime/lib/poll_dispatcher.c, an array of   *)
(* pollfd with a fixed number of slots, and the functions that change it.  *)
(* They are given the table and return the table they leave; its length    *)
(* is INIT_POLL_SIZE.                                                      *)
(***************************************************************************)
EXTENDS Integers, FiniteSetsExt

Slots(t) == DOMAIN t

Events == {"R"}         \* POLLRDNORM; nothing ever waits for POLLWRNORM

poll_init(size) == [i \in 0 .. size - 1 |-> [fd |-> -1, events |-> {}, revents |-> {}]]

\* Mutant: the slot waits for no event.
poll_add_deaf(t, fd, events) ==
    LET free == {i \in Slots(t) : t[i].fd < 0}
    IN  IF free = {} THEN t ELSE [t EXCEPT ![Min(free)].fd = fd]

\* The first free slot; without one the table stays as it is, and the caller
\* is not told.
poll_add(t, fd, events) ==
    LET free == {i \in Slots(t) : t[i].fd < 0}
    IN  IF free = {} THEN t
        ELSE [t EXCEPT ![Min(free)] = [@ EXCEPT !.fd = fd, !.events = events]]

SlotOf(t, fd) == {i \in Slots(t) : t[i].fd = fd}

poll_del(t, fd) ==
    IF SlotOf(t, fd) = {} THEN t ELSE [t EXCEPT ![Min(SlotOf(t, fd))].fd = -1]

\* poll(): ready(fd, events) are the events that have happened
Polled(t, ready(_, _)) ==
    [i \in Slots(t) |-> [t[i] EXCEPT !.revents = IF t[i].fd < 0 THEN {}
                                              ELSE ready(t[i].fd, t[i].events)]]

\* What poll() returns
ReadyNumber(t) == Quantify(Slots(t), LAMBDA i : t[i].revents # {})

\* The loop of poll_dispatch() from slot i on: the next slot with an event, or
\* the end of the table, which the loop's own bound does not keep it from.
NextEvent(t, i) ==
    Min({j \in Slots(t) : j >= i /\ t[j].fd >= 0 /\ t[j].revents # {}} \cup {Cardinality(Slots(t))})
=============================================================================
