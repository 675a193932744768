------------------------------ MODULE Logging ------------------------------
(***************************************************************************)
(* The logging facade of src/spdlog/utils: LogInit() builds one logger     *)
(* with a daily file each, threads log through GetSink(), records of level *)
(* err and above flush their file, an error in a sink ends the process,    *)
(* and SystemErrorHandler() logs a stack trace when a thread faults.       *)
(*                                                                         *)
(* The process may die and start again at any later hour and append to the *)
(* files it left.  Opening and removing files may fail, writing does not.  *)
(* The console sink, which all loggers share, holds its mutex for one      *)
(* write to the terminal only and keeps nothing: it is left out.           *)
(***************************************************************************)
EXTENDS DailyFileSink

CONSTANTS
    Threads,
    Loggers,       \* the loggers in the order in which LogInit() builds them
    LevelName,     \* the level argument of LogInit()
    Calls,         \* the calls that threads make: a logger and a level
    Frames,        \* lines of a stack trace
    Begin,         \* the hour at which the program is first started
    Moments,       \* bound: the later hours at which anything happens
    Old,           \* days before Begin whose files, empty ones, are there
    MaxCalls,      \* bound: a thread with so many records makes no further call
    MaxStarts,     \* bound: times that the process starts
    MaxFailures    \* bound: files that cannot be opened or removed

ASSUME LoggingAssumption ==
    /\ None \notin Threads
    /\ Loggers \in Seq(Range(Loggers)) /\ Loggers # <<>> /\ IsInjective(Loggers)
    /\ Calls \subseteq Range(Loggers) \X (0 .. 5)
    /\ Frames \in Nat /\ MaxCalls \in Nat
    /\ MaxStarts \in Nat \ {0} /\ MaxFailures \in Nat
    /\ Begin \in Hours /\ Date(Begin) >= 1 /\ Moments \subseteq Hours
    /\ Old \subseteq 1 .. Date(Begin) - 1

VARIABLES
    now,        \* the hour
    sink,       \* the daily file sink of each logger, and its files
    proc,       \* "init", "up", "killed", "exited"
    init,       \* where LogInit() is: a logger and a step of its sink's constructor
    handler,    \* SystemErrorHandler() is installed for SIGSEGV
    th,         \* the threads
    starts,     \* how often the process started
    failures,   \* how often the file system failed
    acked,      \* records whose call has returned, lesser ones until the process ends
    crash       \* the thread that traces, who faulted, what was acked before

vars == <<now, sink, proc, init, handler, th, starts, failures, acked, crash>>

Main == Loggers[1]
AllLoggers == Range(Loggers)

g_level_strs == <<"TRACE", "DEBUG", "INFO", "WARN", "ERROR", "CRITICAL", "OFF">>
Warn == 3
Err == 4
Critical == 5

GetLogLevel(name) ==
    IF name \in Range(g_level_strs)
    THEN CHOOSE i \in 0 .. 6 : g_level_strs[i + 1] = name
    ELSE Warn

\* A thread: where it is, its record, how many it made, the next line of its trace.
Idle(n) == [at |-> "idle", rec |-> <<>>, no |-> n, line |-> 0]
NoCrash == [tracer |-> None, faulted |-> {}, before |-> {}]

Record(t, l, lvl, time) == [by |-> t, no |-> th[t].no + 1, logger |-> l, lvl |-> lvl, time |-> time]

Init ==
    /\ now = Begin
    /\ sink = [l \in AllLoggers |->
                 [NoSink EXCEPT !.disk = [d \in Old |-> <<>>], !.opened = [d \in Old |-> Begin]]]
    /\ proc = "init"
    /\ init = [i |-> 1, step |-> "open"]
    /\ handler = FALSE
    /\ th = [t \in Threads |-> Idle(0)]
    /\ starts = 1
    /\ failures = 0
    /\ acked = {}
    /\ crash = NoCrash

-----------------------------------------------------------------------------
(* The process ends *)

\* What is left of a sink when the process is gone.
Left(s) == [NoSink EXCEPT !.disk = s.disk, !.opened = s.opened, !.gone = s.gone]

\* SIGSEGV with the default action: buffers are lost.
Kill ==
    /\ proc' = "killed"
    /\ sink' = [l \in AllLoggers |-> Left(sink[l])]
    /\ th' = [t \in Threads |-> Idle(th[t].no)]
    /\ handler' = FALSE
    /\ UNCHANGED <<now, init, starts, failures, acked>>

\* exit(): buffers are flushed.
Quit ==
    /\ proc' = "exited"
    /\ sink' = [l \in AllLoggers |-> Left(Closed(sink[l]))]
    /\ th' = [t \in Threads |-> Idle(th[t].no)]
    /\ handler' = FALSE
    /\ UNCHANGED <<now, init, starts, acked, crash>>

\* The program ends when no thread logs any more.
Return ==
    /\ proc = "up"
    /\ \A t \in Threads : th[t].at = "idle"
    /\ Quit
    /\ UNCHANGED failures

Start ==
    /\ proc \in {"killed", "exited"} /\ starts < MaxStarts
    /\ proc' = "init"
    /\ init' = [i |-> 1, step |-> "open"]
    /\ starts' = starts + 1
    /\ crash' = NoCrash
    /\ acked' = {r \in acked : r.lvl >= Err}
    /\ UNCHANGED <<now, sink, handler, th, failures>>

Tick ==
    /\ \E h \in Moments :
          /\ now < h /\ \A k \in Moments : k <= now \/ h <= k
          /\ now' = h
    /\ UNCHANGED <<sink, proc, init, handler, th, starts, failures, acked, crash>>

-----------------------------------------------------------------------------
(* LogInit(): the clock is read three times in the constructor of a sink *)

Building == Loggers[init.i]

InitOpen ==
    /\ proc = "init" /\ init.step = "open"
    /\ sink' = [sink EXCEPT ![Building] = Open(@, Date(now), now)]
    /\ init' = [init EXCEPT !.step = "rotation"]
    /\ UNCHANGED <<now, proc, handler, th, starts, failures, acked, crash>>

\* LogInit() returns false; the program goes on with the loggers there are.
InitOpenFails ==
    /\ proc = "init" /\ init.step = "open" /\ failures < MaxFailures
    /\ failures' = failures + 1
    /\ proc' = "up"
    /\ UNCHANGED <<now, sink, init, handler, th, starts, acked, crash>>

InitRotation ==
    /\ proc = "init" /\ init.step = "rotation"
    /\ sink' = [sink EXCEPT ![Building] = Scheduled(@, now)]
    /\ init' = [init EXCEPT !.step = "names"]
    /\ UNCHANGED <<now, proc, handler, th, starts, failures, acked, crash>>

\* The queue of file names, and since when it has files.
Listed(s, n) ==
    LET q == InitNames(s, n)
    IN  [s EXCEPT !.names = q, !.since = IF q = <<>> THEN Date(n) ELSE Head(q)]

InitQueue ==
    /\ proc = "init" /\ init.step = "names"
    /\ sink' = [sink EXCEPT ![Building] = Listed(@, now)]
    /\ LET last == init.i = Len(Loggers) IN
          /\ init' = [i |-> IF last THEN init.i ELSE init.i + 1, step |-> "open"]
          /\ proc' = IF last THEN "up" ELSE "init"
          /\ handler' = last
    /\ UNCHANGED <<now, th, starts, failures, acked, crash>>

-----------------------------------------------------------------------------
(* A call of LOGSINK: GetSink(), logger::log(), logger::sink_it_() *)

\* nullptr, or a level below the logger's: nothing is logged.
Passes(l, lvl) == sink[l].file # None /\ lvl >= GetLogLevel(LevelName)

\* The record takes its time before any mutex is taken.
Log(t, l, lvl) ==
    LET passes == Passes(l, lvl) IN
    [th[t] EXCEPT !.no = @ + 1,
                  !.rec = IF passes THEN Record(t, l, lvl, now) ELSE @,
                  !.at = IF passes THEN "sink" ELSE @]

Call(t) ==
    /\ proc = "up" /\ th[t].at = "idle" /\ th[t].no < MaxCalls
    /\ \E c \in Calls : th' = [th EXCEPT ![t] = Log(t, c[1], c[2])]
    /\ UNCHANGED <<now, sink, proc, init, handler, starts, failures, acked, crash>>

\* Where a thread goes when its call returns: to the program or to the handler.
Back(t) == IF th[t].line > 0 THEN "trace" ELSE "idle"

\* The record is in the sink: flush the sink from level err on, else return.
Sunk(t) ==
    IF th[t].rec.lvl >= Err
    THEN /\ th' = [th EXCEPT ![t].at = "flush"]
         /\ UNCHANGED acked
    ELSE /\ th' = [th EXCEPT ![t].at = Back(t), ![t].rec = <<>>]
         /\ acked' = acked \cup {th[t].rec}

\* base_sink::log() takes the mutex, sink_it_() has the right file open.
Sink(t) ==
    LET r == th[t].rec IN
    /\ th[t].at = "sink"
    /\ sink[r.logger].lock = None
    /\ ~ ShouldRotate(sink[r.logger], r.time)
    /\ \E spill \in BOOLEAN : sink' = [sink EXCEPT ![r.logger] = Write(@, r, spill)]
    /\ Sunk(t)
    /\ UNCHANGED <<now, proc, init, handler, starts, failures, crash>>

(***************************************************************************)
(* sink_it_() rotates: the new file has the day of the record, the next    *)
(* rotation is set by the clock.  The mutex is held until the old file is  *)
(* deleted.                                                                *)
(***************************************************************************)
MayRotate(t) ==
    LET r == th[t].rec IN
    /\ th[t].at = "sink"
    /\ sink[r.logger].lock = None
    /\ ShouldRotate(sink[r.logger], r.time)

Rotate(t) ==
    LET r == th[t].rec IN
    /\ MayRotate(t)
    /\ sink' = [sink EXCEPT ![r.logger] =
                    [Scheduled(Open(@, Date(r.time), now), now) EXCEPT !.lock = t]]
    /\ th' = [th EXCEPT ![t].at = "write"]
    /\ UNCHANGED <<now, proc, init, handler, starts, failures, acked, crash>>

\* spdlog_ex reaches the error handler of the logger, which calls exit().
RotateFails(t) ==
    /\ MayRotate(t) /\ failures < MaxFailures
    /\ failures' = failures + 1
    /\ Quit

WriteFirst(t) ==
    LET r == th[t].rec IN
    /\ th[t].at = "write"
    /\ sink' = [sink EXCEPT ![r.logger] = Write(@, r, FALSE)]
    /\ th' = [th EXCEPT ![t].at = "delete"]
    /\ UNCHANGED <<now, proc, init, handler, starts, failures, acked, crash>>

Delete(t) ==
    LET r == th[t].rec IN
    /\ th[t].at = "delete"
    /\ sink' = [sink EXCEPT ![r.logger] = [DeleteOld(@) EXCEPT !.lock = None]]
    /\ Sunk(t)
    /\ UNCHANGED <<now, proc, init, handler, starts, failures, crash>>

\* A file that cannot be removed is an error like any other.
DeleteFails(t) ==
    /\ th[t].at = "delete" /\ failures < MaxFailures
    /\ Full(sink[th[t].rec.logger].names)
    /\ failures' = failures + 1
    /\ Quit

\* logger::flush_() takes the mutex a second time; then the call returns.
Flush(t) ==
    LET r == th[t].rec IN
    /\ th[t].at = "flush"
    /\ sink[r.logger].lock = None
    /\ sink' = [sink EXCEPT ![r.logger] = Flushed(@)]
    /\ th' = [th EXCEPT ![t].at = Back(t), ![t].rec = <<>>]
    /\ acked' = acked \cup {r}
    /\ UNCHANGED <<now, proc, init, handler, starts, failures, crash>>

-----------------------------------------------------------------------------
(* SIGSEGV *)

OfMain == {r \in acked : r.logger = Main}

\* A thread faults in the program; the handler first restores the default action.
Fault(t) ==
    /\ proc = "up" /\ th[t].at = "idle"
    /\ crash' = [tracer |-> IF handler THEN t ELSE crash.tracer,
                 faulted |-> crash.faulted \cup {t},
                 before |-> IF handler THEN OfMain ELSE crash.before]
    /\ IF handler
       THEN /\ handler' = FALSE
            /\ th' = [th EXCEPT ![t].at = "trace", ![t].line = 1]
            /\ UNCHANGED <<now, sink, proc, init, starts, failures, acked>>
       ELSE Kill

\* CRITICALLOG of the header and of each frame.
Trace(t) ==
    /\ th[t].at = "trace" /\ th[t].line <= Frames + 1
    /\ th' = [th EXCEPT ![t] = [Log(t, Main, Critical) EXCEPT !.line = @ + 1]]
    /\ UNCHANGED <<now, sink, proc, init, handler, starts, failures, acked, crash>>

\* Mutant: the last line of the trace is left out.
FaultAgainSoon(t) ==
    /\ th[t].at = "trace" /\ th[t].line > Frames
    /\ Kill
    /\ UNCHANGED crash

\* The handler returns and the instruction faults again.
FaultAgain(t) ==
    /\ th[t].at = "trace" /\ th[t].line > Frames + 1
    /\ Kill
    /\ UNCHANGED crash

-----------------------------------------------------------------------------
LogInit == InitOpen \/ InitOpenFails \/ InitRotation \/ InitQueue

LogCall(t) ==
    \/ Sink(t) \/ Rotate(t) \/ RotateFails(t) \/ WriteFirst(t)
    \/ Delete(t) \/ DeleteFails(t) \/ Flush(t)

Over ==
    /\ proc \in {"killed", "exited"} /\ starts = MaxStarts
    /\ UNCHANGED vars

Next ==
    \/ LogInit \/ Tick \/ Return \/ Start \/ Over
    \/ \E t \in Threads : Call(t) \/ LogCall(t) \/ Fault(t) \/ Trace(t) \/ FaultAgain(t)

Spec == Init /\ [][Next]_vars

-----------------------------------------------------------------------------
(* Properties *)

TypeOK ==
    /\ now \in Begin .. MaxHour /\ starts \in 1 .. MaxStarts /\ failures \in 0 .. MaxFailures
    /\ proc \in {"init", "up", "killed", "exited"} /\ handler \in BOOLEAN
    /\ init.i \in DOMAIN Loggers /\ init.step \in {"open", "rotation", "names"}
    /\ \A t \in Threads :
          th[t].at \in {"idle", "sink", "write", "delete", "flush", "trace"}
    /\ \A l \in AllLoggers :
          /\ sink[l].file \in {None} \cup Files(sink[l])
          /\ sink[l].lock \in {None} \cup Threads
          /\ sink[l].lock # None => th[sink[l].lock].at \in {"write", "delete"}

\* What has been written to a file, in the buffer or not.
Content(s, d) == s.disk[d] \o (IF s.file = d THEN s.buf ELSE <<>>)

\* A record of this hour may be in a file whose rotation was set at hour o.
InPlace(time, o) ==
    \/ Date(time) <= Date(o)
    \/ Offset[o] < Offset[time] /\ Wall(time) = (Date(o) + 1) * DayHours

(***************************************************************************)
(* What is in the files of a logger, taken by day, is what each thread     *)
(* logged to it, once and in its order, through rotations, restarts and    *)
(* records that cross midnight; and a file has no record of a day after    *)
(* the one on which its rotation was set, so that a call delayed over      *)
(* midnight misfiles the records of that day and no more, but for those of *)
(* the first hour of the next day when the clock went forward since        *)
(* (sink_it_() and next_rotation_tp_()).                                   *)
(***************************************************************************)
FilesInOrder ==
    /\ TypeOK
    /\ \A l \in AllLoggers : \A d \in Files(sink[l]) :
          LET c == Content(sink[l], d) IN
          \A i \in DOMAIN c : \A e \in Files(sink[l]) :
              LET f == Content(sink[l], e) IN
              \A j \in DOMAIN f :
                 c[i].by = f[j].by /\ (d < e \/ (d = e /\ i < j)) => c[i].no < f[j].no
    /\ \A l \in AllLoggers : \A d \in Files(sink[l]) :
          \A r \in Range(Content(sink[l], d)) : InPlace(r.time, sink[l].opened[d])

OnDisk(r) ==
    \E d \in Files(sink[r.logger]) : r \in Range(sink[r.logger].disk[d])

(***************************************************************************)
(* A record of level err or above whose call has returned is in a file,    *)
(* whatever then becomes of the process, until its file is removed with    *)
(* the old ones (flush_on(err) and logger::sink_it_()).                    *)
(***************************************************************************)
ErrorsSurvive ==
    \A r \in acked : r.lvl >= Err => OnDisk(r) \/ r \in sink[r.logger].gone

(***************************************************************************)
(* When one thread alone faulted in a process whose LogInit() succeeded    *)
(* with another level than OFF, the process dies with the whole stack      *)
(* trace in the main log, and with every record that had been logged there *)
(* before (SystemErrorHandler()).                                          *)
(***************************************************************************)
TraceComplete ==
    proc = "killed" /\ crash.tracer # None /\ crash.faulted = {crash.tracer} =>
        /\ Cardinality({r \in OfMain \ crash.before : r.by = crash.tracer /\ r.lvl = Critical}) > Frames
        /\ \A r \in crash.before : OnDisk(r) \/ r \in sink[Main].gone

\* Days on which the clock goes back.
LongDays ==
    {Date(t) : t \in {h \in Hours : \E u \in Hours :
                         h < u /\ Date(h) = Date(u) /\ Offset[u] < Offset[h]}}

\* Days that a step of 24 hours passes over.
ShortDays ==
    {d \in Hours : \E t \in Hours :
        t + DayHours \in Hours /\ Date(t) < d /\ d < Date(t + DayHours)}

\* The files since the oldest one that the constructor found, going back day by day.
Own(s) == {d \in Files(s) : d >= s.since} \ ShortDays

(***************************************************************************)
(* A file is removed only when max_files_ newer ones are there, unless the *)
(* clock went back on the day of a queued file, which may then be queued   *)
(* more than once; and a process that is not rotating keeps at most        *)
(* max_files_ files from the oldest on that its constructor found, those   *)
(* of days not counted that are passed over because the clock went forward *)
(* (delete_old_() and init_filenames_q_()).                                *)
(***************************************************************************)
Retention ==
    [][\A l \in AllLoggers :
          /\ \A d \in Files(sink[l]) \ Files(sink'[l]) :
                /\ d < sink[l].file
                /\ Range(sink[l].names) \cap LongDays = {} =>
                      Cardinality({e \in Files(sink'[l]) : e > d}) >= MaxFiles
          /\ sink'[l].since # None /\ sink'[l].lock = None =>
                Cardinality(Own(sink'[l])) <= MaxFiles]_sink
=============================================================================
