--------------------------- MODULE DailyFileSink ---------------------------
(***************************************************************************)
(* daily_file_sink of the vendored spdlog with its file_helper and its     *)
(* circular_q of file names, as src/spdlog/utils/logging.cpp sets it up:   *)
(* rotation at midnight, files opened for appending.  Time is counted in   *)
(* hours and a file is named by the number of the day in its name.         *)
(*                                                                         *)
(* A sink s is a record with                                               *)
(*   disk    what each file that exists holds,                             *)
(*   file    the file that is open, None when there is no sink,            *)
(*   buf     the records in the buffer of the stdio stream,                *)
(*   rot     rotation_tp_,                                                 *)
(*   names   filenames_q_,                                                 *)
(*   lock    the thread that holds mutex_, None when it is free,           *)
(* and, read by the properties only,                                       *)
(*   opened  the hour at which the rotation after each file was last set,  *)
(*   since   the day of the oldest file that the constructor queued,       *)
(*   gone    the records in the files that were removed.                   *)
(***************************************************************************)
EXTENDS Integers, Sequences, FiniteSets, FiniteSetsExt, Functions

CONSTANTS
    MaxFiles,      \* max_files_
    DayHours,      \* hours of a day whose clock is not changed
    MaxHour,       \* bound: hours that the model looks at
    Offset         \* how far local time is ahead in each hour: 1 in summer

Hours == 0 .. MaxHour

ASSUME DailyFileSinkAssumption ==
    /\ MaxFiles \in Nat /\ MaxFiles >= 3
    /\ DayHours \in Nat /\ DayHours >= 2
    /\ MaxHour \in Nat /\ Offset \in [Hours -> {0, 1}]

None == 0

\* Local time, which skips an hour or has one twice when the offset changes.
Wall(t) == t + Offset[t]

\* now_tm(), as far as calc_filename() looks at it
Date(t) == Wall(t) \div DayHours

NoSink == [disk |-> <<>>, file |-> None, buf |-> <<>>, rot |-> None, names |-> <<>>,
           lock |-> None, opened |-> <<>>, since |-> None, gone |-> {}]

Files(s) == DOMAIN s.disk

\* fflush(): the buffer goes to the file.
Flushed(s) == [s EXCEPT !.disk[s.file] = @ \o s.buf, !.buf = <<>>]

\* Mutant: the stream is dropped with its buffer.
ClosedUnflushed(s) == IF s.file = None THEN s ELSE [s EXCEPT !.file = None, !.buf = <<>>]

\* close(): fclose() flushes.
Closed(s) == IF s.file = None THEN s ELSE [Flushed(s) EXCEPT !.file = None]

\* f with x as its value at d.
With(f, d, x) == [e \in DOMAIN f \cup {d} |-> IF e = d THEN x ELSE f[e]]

\* open(): mode "ab" keeps what the file holds and creates one that does not exist.
Open(s, day, now) ==
    LET c == Closed(s)
    IN  [c EXCEPT !.file = day,
                  !.disk = With(@, day, IF day \in Files(c) THEN c.disk[day] ELSE <<>>),
                  !.opened = With(@, day, now)]

\* Mutant: midnight of the day after the next.
NextRotationLate(now) == (Date(now) + 2) * DayHours - Offset[now]

(***************************************************************************)
(* next_rotation_tp_(): mktime() takes midnight of today by the offset in  *)
(* force now, which is never later than now, and 24 hours are added.  When *)
(* the offset changes before that, the rotation comes an hour after the    *)
(* midnight to come, or an hour before it.                                 *)
(***************************************************************************)
NextRotation(now) == Date(now) * DayHours - Offset[now] + DayHours

\* The assignment of rotation_tp_ for the file just opened.
Scheduled(s, now) ==
    [s EXCEPT !.rot = NextRotation(now), !.opened = With(@, s.file, now)]

ShouldRotate(s, time) == time >= s.rot

\* push_back() of circular_q: one item too many overruns the oldest.
PushBack(q, x) == Append(IF Len(q) = MaxFiles THEN Tail(q) ELSE q, x)

\* Mutant: the marker's place is taken from max_items.
FullSoon(q) == Len(q) = MaxFiles - 1

\* full(): head is one ahead of tail, in an array with one place more than max_items.
Full(q) == Len(q) = MaxFiles

(***************************************************************************)
(* init_filenames_q_(): from today's file back, 24 hours at a time, to the *)
(* first that is missing, at most max_files_ of them, the oldest in front. *)
(* A day is passed over, or taken twice, where the offset changed.  There  *)
(* are no files of the day that has hour 0.                                *)
(***************************************************************************)
InitNames(s, now) ==
    LET ago(j) == now - j * DayHours
        found(j) == ago(j) >= 0 /\ Date(ago(j)) \in Files(s)
        n == Max({k \in 0 .. MaxFiles : \A j \in 0 .. k - 1 : found(j)})
    IN  [i \in 1 .. n |-> Date(ago(n - i))]

\* write(): stdio may empty its buffer into the file before it takes the record.
Write(s, rec, spill) ==
    LET b == IF spill THEN Flushed(s) ELSE s
    IN  [b EXCEPT !.buf = Append(@, rec)]

\* remove_if_exists()
Remove(s, day) ==
    IF day \in Files(s)
    THEN [s EXCEPT !.disk = [d \in Files(s) \ {day} |-> s.disk[d]],
                   !.gone = @ \cup Range(s.disk[day])]
    ELSE s

\* delete_old_() where the removal succeeds.
DeleteOld(s) ==
    LET r == IF Full(s.names)
             THEN [Remove(s, Head(s.names)) EXCEPT !.names = Tail(@)]
             ELSE s
    IN  [r EXCEPT !.names = PushBack(@, s.file)]

=============================================================================
