--------------------------- MODULE LoggingProofs ---------------------------
(***************************************************************************)
(* Proofs about the logging facade, for any threads, loggers, hours,       *)
(* changes of the clock, restarts and failures.                            *)
(***************************************************************************)
EXTENDS Logging, FiniteSetTheorems, SequenceTheorems, WellFoundedInduction, TLAPS

(* Local time.                                                             *)

\* What is assumed of the constants.
LEMMA TimeConstants ==
    /\ DayHours \in Nat /\ DayHours >= 2 /\ MaxFiles \in Nat /\ MaxFiles >= 3
    /\ MaxHour \in Nat /\ Hours = 0 .. MaxHour
    /\ \A t \in Hours : t \in Nat /\ Offset[t] \in {0, 1} /\ Wall(t) = t + Offset[t] /\ Wall(t) \in Nat
BY DailyFileSinkAssumption DEF Hours, Wall

\* Multiples.
LEMMA Multiples ==
    ASSUME NEW k \in Nat, NEW a \in Nat, NEW b \in Nat
    PROVE  /\ a * k \in Nat /\ (a + 1) * k = a * k + k
           /\ a < b => a * k + k <= b * k
<1>1. a * k \in Nat /\ (a + 1) * k = a * k + k
  OBVIOUS
<1>2. ASSUME a < b PROVE a * k + k <= b * k
  <2>1. PICK c \in Nat : b = a + 1 + c
    <3>1. b - a - 1 \in Nat /\ b = a + 1 + (b - a - 1)
      BY <1>2
    <3> QED
      BY <3>1
  <2>2. b * k = a * k + k + c * k /\ c * k \in Nat
    BY <2>1
  <2> QED
    BY <1>1, <2>2
<1> QED
  BY <1>1, <1>2

\* The date is the number of whole days before.
LEMMA Quotient ==
    ASSUME NEW w \in Nat, NEW k \in Nat, k >= 1
    PROVE  /\ w \div k \in Nat
           /\ (w \div k) * k <= w /\ w < (w \div k) * k + k
BY SMT

LEMMA DateBounds ==
    ASSUME NEW t \in Hours
    PROVE  /\ Date(t) \in Nat /\ Date(t) * DayHours \in Nat
           /\ Date(t) * DayHours <= Wall(t) /\ Wall(t) < Date(t) * DayHours + DayHours
<1>1. Wall(t) \in Nat /\ DayHours \in Nat /\ DayHours >= 1
  BY TimeConstants
<1>2. PICK w : w = Wall(t)
  OBVIOUS
<1>3. /\ w \div DayHours \in Nat
      /\ (w \div DayHours) * DayHours <= w /\ w < (w \div DayHours) * DayHours + DayHours
  BY <1>1, <1>2, Quotient
<1>4. Date(t) = w \div DayHours
  BY <1>2 DEF Date
<1>5. Date(t) \in Nat
  BY <1>3, <1>4
<1>6. Date(t) * DayHours \in Nat
  BY <1>1, <1>5, Multiples
<1> QED
  BY <1>2, <1>3, <1>4, <1>6

\* Dates by their local time.
LEMMA DateFrom ==
    ASSUME NEW t \in Hours, NEW d \in Nat
    PROVE  /\ d * DayHours <= Wall(t) => d <= Date(t)
           /\ Wall(t) < d * DayHours + DayHours => Date(t) <= d
<1>1. PICK D, w, k : D = Date(t) /\ w = Wall(t) /\ k = DayHours
  OBVIOUS
<1>2. /\ D \in Nat /\ D * k \in Nat /\ D * k <= w /\ w < D * k + k /\ w \in Nat /\ k \in Nat
  BY <1>1, DateBounds, TimeConstants
<1>3. /\ D < d => D * k + k <= d * k
      /\ d < D => d * k + k <= D * k
      /\ d * k \in Nat
  BY <1>2, Multiples
<1>4. (d * k <= w => d <= D) /\ (w < d * k + k => D <= d)
  <2>1. PICK x, y : x = D * k /\ y = d * k
    OBVIOUS
  <2>2. /\ x \in Nat /\ y \in Nat /\ x <= w /\ w < x + k /\ (D < d => x + k <= y) /\ (d < D => y + k <= x)
    BY <1>2, <1>3, <2>1
  <2>3. (y <= w => d <= D) /\ (w < y + k => D <= d)
    BY <1>2, <2>2
  <2> QED
    BY <2>1, <2>3
<1> QED
  BY <1>1, <1>4

\* Time goes on.
LEMMA DateLater ==
    ASSUME NEW t \in Hours, NEW u \in Hours, t <= u
    PROVE  Date(t) <= Date(u)
<1>1. Wall(t) <= Wall(u)
  BY TimeConstants
<1>2. Date(t) \in Nat /\ Date(t) * DayHours <= Wall(t) /\ Date(t) * DayHours \in Nat
  BY DateBounds
<1>3. Wall(t) \in Nat /\ Wall(u) \in Nat
  BY TimeConstants
<1>4. Date(t) * DayHours <= Wall(u)
  BY <1>1, <1>2, <1>3
<1> QED
  BY <1>2, <1>4, DateFrom

\* A rotation is set for a later hour.
LEMMA RotationLater ==
    ASSUME NEW o \in Hours
    PROVE  /\ NextRotation(o) \in Nat /\ o < NextRotation(o)
           /\ NextRotation(o) = Date(o) * DayHours + DayHours - Offset[o]
<1>1. PICK x, k : x = Date(o) * DayHours /\ k = DayHours
  OBVIOUS
<1>2. x \in Nat /\ x <= Wall(o) /\ Wall(o) < x + k /\ k \in Nat /\ k >= 2
  BY <1>1, DateBounds, TimeConstants
<1>3. o \in Nat /\ Offset[o] \in {0, 1} /\ Wall(o) = o + Offset[o]
  BY TimeConstants
<1>4. NextRotation(o) = x - Offset[o] + k
  BY <1>1 DEF NextRotation
<1> QED
  BY <1>1, <1>2, <1>3, <1>4

\* What is not late for its file is in place there.
LEMMA NotLater ==
    ASSUME NEW t \in Hours, NEW o \in Hours, t <= o
    PROVE  InPlace(t, o)
BY DateLater DEF InPlace

\* What comes before the rotation is in place.
LEMMA BeforeRotation ==
    ASSUME NEW t \in Hours, NEW o \in Hours, t < NextRotation(o)
    PROVE  InPlace(t, o)
<1>1. PICK D, x, k : D = Date(o) /\ x = D * DayHours /\ k = DayHours
  OBVIOUS
<1>2. /\ D \in Nat /\ x \in Nat /\ k \in Nat
      /\ t \in Nat /\ Offset[t] \in {0, 1} /\ Offset[o] \in {0, 1} /\ Wall(t) = t + Offset[t]
  BY <1>1, DateBounds, TimeConstants
<1>3. t < x + k - Offset[o]
  BY <1>1, RotationLater
<1>4. Wall(t) < x + k \/ (Offset[o] < Offset[t] /\ Wall(t) = x + k)
  BY <1>2, <1>3
<1>5. (D + 1) * DayHours = x + k
  BY <1>1, <1>2, Multiples
<1>6. Wall(t) < x + k => Date(t) <= D
  BY <1>1, <1>2, DateFrom
<1> QED
  BY <1>1, <1>4, <1>5, <1>6 DEF InPlace

\* A rotation does not go back; it stays with its day only when the clock went
\* back, and is then set for the end of that day or later.
LEMMA AfterRotation ==
    ASSUME NEW o \in Hours, NEW t \in Hours, NEW n \in Hours, NextRotation(o) <= t, t <= n
    PROVE  /\ Date(o) <= Date(t)
           /\ Date(t) = Date(o) =>
                 Date(o) \in LongDays /\ (Date(t) + 1) * DayHours <= NextRotation(n)
<1>1. PICK D, x, k : D = Date(o) /\ x = D * DayHours /\ k = DayHours
  OBVIOUS
<1>2. /\ D \in Nat /\ x \in Nat /\ k \in Nat /\ k >= 2
      /\ t \in Nat /\ n \in Nat /\ o \in Nat
      /\ Offset[t] \in {0, 1} /\ Offset[o] \in {0, 1} /\ Offset[n] \in {0, 1}
      /\ Wall(t) = t + Offset[t] /\ Wall(n) = n + Offset[n]
  BY <1>1, DateBounds, TimeConstants
<1>3. x + k - Offset[o] <= t /\ o < t
  <2>1. NextRotation(o) = x + k - Offset[o] /\ o < NextRotation(o) /\ NextRotation(o) \in Nat
    BY <1>1, RotationLater
  <2> QED
    BY <1>2, <2>1
<1>4. x <= Wall(t)
  BY <1>2, <1>3
<1>5. D <= Date(t)
  BY <1>1, <1>2, <1>4, DateFrom
<1>6. ASSUME Date(t) = D
      PROVE  D \in LongDays /\ (Date(t) + 1) * DayHours <= NextRotation(n)
  <2>1. Wall(t) < x + k
    BY <1>1, <1>6, DateBounds
  <2>2. Offset[t] = 0 /\ Offset[o] = 1 /\ x + k - 1 <= t
    BY <1>2, <1>3, <2>1
  <2>3. D \in LongDays
    <3>1. Offset[t] < Offset[o]
      BY <2>2
    <3>2. o \in {h \in Hours : \E u \in Hours : h < u /\ Date(h) = Date(u) /\ Offset[u] < Offset[h]}
      BY <1>1, <1>3, <1>6, <3>1
    <3> QED
      BY <1>1, <3>2 DEF LongDays
  <2>4. PICK E, y : E = Date(n) /\ y = E * DayHours
    OBVIOUS
  <2>5. E \in Nat /\ y \in Nat /\ y <= Wall(n) /\ Wall(n) < y + k /\ D <= E
    BY <1>1, <1>6, <2>4, DateBounds, DateLater
  <2>6. NextRotation(n) = y + k - Offset[n]
    BY <1>1, <2>4, RotationLater
  <2>7. (D + 1) * DayHours = x + k /\ (D < E => x + k <= y)
    BY <1>1, <1>2, <2>4, <2>5, Multiples
  <2>8. CASE D = E
    <3>1. y = x
      BY <1>1, <2>4, <2>8
    <3>2. Offset[n] = 0
      BY <1>2, <2>2, <2>5, <3>1
    <3> QED
      BY <1>1, <1>2, <1>6, <2>3, <2>6, <2>7, <3>1, <3>2
  <2>9. CASE D < E
    <3>1. x + k <= y + k - Offset[n]
      BY <1>2, <2>5, <2>7, <2>9
    <3> QED
      BY <1>1, <1>6, <2>3, <2>6, <2>7, <3>1
  <2> QED
    BY <1>2, <2>5, <2>8, <2>9
<1> QED
  BY <1>1, <1>5, <1>6

\* What comes when a day is over has a later date.
LEMMA DayOver ==
    ASSUME NEW t \in Hours, NEW d \in Nat, (d + 1) * DayHours <= t
    PROVE  d < Date(t)
<1>1. t \in Nat /\ Offset[t] \in {0, 1} /\ Wall(t) = t + Offset[t] /\ DayHours \in Nat
  BY TimeConstants
<1>2. (d + 1) * DayHours \in Nat /\ d + 1 \in Nat
  BY <1>1, Multiples
<1>3. (d + 1) * DayHours <= Wall(t)
  BY <1>1, <1>2
<1>4. d + 1 <= Date(t) /\ Date(t) \in Nat
  BY <1>2, <1>3, DateFrom, DateBounds
<1> QED
  BY <1>4

\* The date of some days of 24 hours ago.
LEMMA DaysAgo ==
    ASSUME NEW u \in Hours, NEW t \in Hours, NEW m \in Nat, m >= 1, u + m * DayHours = t
    PROVE  /\ Date(u) <= Date(t)
           /\ Date(u) = Date(t) => Date(t) \in LongDays /\ m = 1
<1>1. PICK D, x, k : D = Date(t) /\ x = D * DayHours /\ k = DayHours
  OBVIOUS
<1>2. /\ D \in Nat /\ x \in Nat /\ k \in Nat /\ k >= 2 /\ Wall(t) < x + k
      /\ t \in Nat /\ u \in Nat /\ Offset[t] \in {0, 1} /\ Offset[u] \in {0, 1}
      /\ Wall(t) = t + Offset[t] /\ Wall(u) = u + Offset[u]
  BY <1>1, DateBounds, TimeConstants
<1>3. /\ m * k \in Nat /\ k <= m * k /\ (m # 1 => k + k <= m * k)
  <2>1. 1 * k = k /\ 0 * k = 0 /\ m * k \in Nat
    BY <1>2
  <2>2. m # 1 => k + k <= m * k
    <3>1. m # 1 => 1 < m
      OBVIOUS
    <3>2. 1 < m => 1 * k + k <= m * k
      BY <1>2, Multiples
    <3> QED
      BY <2>1, <3>1, <3>2
  <2>3. 0 * k + k <= m * k
    BY <1>2, Multiples
  <2> QED
    BY <1>2, <2>1, <2>2, <2>3
<1>4. PICK p : p = m * k
  OBVIOUS
<1>5. p \in Nat /\ k <= p /\ (m # 1 => k + k <= p) /\ u + p = t
  BY <1>1, <1>3, <1>4
<1>6. u < t
  BY <1>2, <1>5
<1>7. Date(u) <= Date(t)
  BY <1>2, <1>6, DateLater
<1>8. ASSUME Date(u) = D PROVE D \in LongDays /\ m = 1
  <2>1. x <= Wall(u)
    BY <1>1, <1>8, DateBounds
  <2>2. m = 1 /\ Offset[t] < Offset[u]
    BY <1>2, <1>5, <2>1
  <2>3. u \in {h \in Hours : \E v \in Hours : h < v /\ Date(h) = Date(v) /\ Offset[v] < Offset[h]}
    BY <1>1, <1>6, <1>8, <2>2
  <2> QED
    BY <1>1, <1>8, <2>2, <2>3 DEF LongDays
<1> QED
  BY <1>1, <1>7, <1>8

\* A date is not beyond the hours.
LEMMA DateIsHour ==
    ASSUME NEW t \in Hours
    PROVE  Date(t) <= t
<1>1. PICK D, k : D = Date(t) /\ k = DayHours
  OBVIOUS
<1>2. /\ D \in Nat /\ k \in Nat /\ k >= 2 /\ D * k <= Wall(t)
      /\ t \in Nat /\ Wall(t) = t + Offset[t] /\ Offset[t] \in {0, 1}
  BY <1>1, DateBounds, TimeConstants
<1>3. D + D <= D * k
  <2>1. PICK c \in Nat : k = 2 + c
    <3>1. k - 2 \in Nat /\ k = 2 + (k - 2)
      BY <1>2
    <3> QED
      BY <3>1
  <2>2. D * k = D + D + D * c /\ D * c \in Nat
    BY <1>2, <2>1
  <2> QED
    BY <1>2, <2>2
<1>4. D + D <= t + Offset[t]
  <2>1. PICK y : y = D * k
    OBVIOUS
  <2>2. y \in Nat
    BY <1>2, <2>1
  <2> QED
    BY <1>2, <1>3, <2>1, <2>2
<1>5. D <= t
  BY <1>2, <1>4
<1> QED
  BY <1>1, <1>2, <1>5

\* A day between two hours 24 hours apart is a short one.
LEMMA PassedOver ==
    ASSUME NEW u \in Hours, NEW t \in Hours, u + DayHours = t, NEW d \in Nat, Date(u) < d, d < Date(t)
    PROVE  d \in ShortDays
<1>1. d \in Hours
  <2>1. Date(t) <= t /\ Date(t) \in Nat /\ t \in Nat /\ t <= MaxHour /\ MaxHour \in Nat
        /\ Hours = 0 .. MaxHour
    BY DateIsHour, DateBounds, TimeConstants
  <2>2. d <= MaxHour
    BY <2>1
  <2> QED
    BY <2>1, <2>2
<1>2. u + DayHours \in Hours /\ d < Date(u + DayHours)
  OBVIOUS
<1> QED
  BY <1>1, <1>2 DEF ShortDays

\* The hours at which the process runs.
Times == {t \in Hours : t >= Begin}

\* The process runs on days with files.
LEMMA TimesType ==
    ASSUME NEW t \in Times
    PROVE  t \in Hours /\ t \in Nat /\ Date(t) \in Nat \ {0}
<1>1. t \in Hours /\ t >= Begin /\ Begin \in Hours /\ Date(Begin) >= 1
  BY LoggingAssumption DEF Times
<1>2. t \in Nat /\ Begin \in Nat /\ Date(t) \in Nat /\ Date(Begin) \in Nat
  BY <1>1, TimeConstants, DateBounds
<1>3. Date(Begin) <= Date(t)
  BY <1>1, <1>2, DateLater
<1> QED
  BY <1>1, <1>2, <1>3

-----------------------------------------------------------------------------
(* Types.                                                                  *)

Day == Nat \ {0}

Rec == [by : Threads, no : Nat, logger : AllLoggers, lvl : Nat, time : Times]

\* Functions on some days.
ByDay(S) == UNION {[D -> S] : D \in SUBSET Day}

Lines == Seq(Rec)
Logs == ByDay(Lines)
Dates == ByDay(Times)

Sinks == [disk : Logs, file : Nat, buf : Lines, rot : Nat, names : Seq(Day),
          lock : Threads \cup {None}, opened : Dates, since : Nat, gone : SUBSET Rec]

\* A function on some days.
LEMMA ByDayType ==
    ASSUME NEW S, NEW f \in ByDay(S)
    PROVE  /\ DOMAIN f \subseteq Day
           /\ \A d \in DOMAIN f : f[d] \in S
           /\ f = [d \in DOMAIN f |-> f[d]]
BY DEF ByDay

\* What is a function on some days.
LEMMA IsByDay ==
    ASSUME NEW S, NEW f, f = [d \in DOMAIN f |-> f[d]], DOMAIN f \subseteq Day,
           \A d \in DOMAIN f : f[d] \in S
    PROVE  f \in ByDay(S)
<1>1. f \in [DOMAIN f -> S]
  OBVIOUS
<1> QED
  BY <1>1 DEF ByDay

\* With() sets one value.
LEMMA WithType ==
    ASSUME NEW S, NEW f \in ByDay(S), NEW d \in Day, NEW x \in S, NEW g, g = With(f, d, x)
    PROVE  /\ g \in ByDay(S)
           /\ DOMAIN g = DOMAIN f \cup {d}
           /\ g[d] = x
           /\ \A e \in DOMAIN f : e # d => g[e] = f[e]
<1>1. DOMAIN f \subseteq Day /\ \A e \in DOMAIN f : f[e] \in S
  BY ByDayType
<1>2. g \in [DOMAIN f \cup {d} -> S]
  BY <1>1 DEF With
<1> QED
  BY <1>1, <1>2 DEF With, ByDay

\* A sequence of records for some days, and its values.
LEMMA LogsType ==
    /\ \A D \in Logs : DOMAIN D \subseteq Day /\ \A d \in DOMAIN D : D[d] \in Lines
    /\ \A D \in Logs, d \in Day, x \in Lines : With(D, d, x) \in Logs
    /\ \A D \in Dates, d \in Day, x \in Times : With(D, d, x) \in Dates
    /\ <<>> \in Lines
<1>1. \A D \in Logs : DOMAIN D \subseteq Day /\ \A d \in DOMAIN D : D[d] \in Lines
  BY ByDayType DEF Logs
<1>2. \A D \in Logs, d \in Day, x \in Lines : With(D, d, x) \in Logs
  BY WithType DEF Logs
<1>3. \A D \in Dates, d \in Day, x \in Times : With(D, d, x) \in Dates
  BY WithType DEF Dates
<1>4. <<>> \in Lines
  BY DEF Lines
<1> QED
  BY <1>1, <1>2, <1>3, <1>4

\* The empty function, which is the empty sequence.
LEMMA NoDays ==
    ASSUME NEW S
    PROVE  <<>> \in ByDay(S) /\ DOMAIN <<>> = {}
<1>1. DOMAIN <<>> = {} /\ <<>> \in [{} -> S]
  OBVIOUS
<1> QED
  BY <1>1 DEF ByDay

\* The fields of a sink.
LEMMA SinkFields ==
    ASSUME NEW s \in Sinks
    PROVE  /\ s.disk \in Logs /\ s.file \in Nat /\ s.buf \in Lines
           /\ s.rot \in Nat /\ s.names \in Seq(Day) /\ s.lock \in Threads \cup {None}
           /\ s.opened \in Dates /\ s.since \in Nat /\ s.gone \in SUBSET Rec
BY DEF Sinks

-----------------------------------------------------------------------------
(* The operations on a sink, field by field.                               *)

\* t is s but for its files, the file that is open and the buffer.
SameQueue(t, s) ==
    /\ t \in Sinks
    /\ t.rot = s.rot /\ t.names = s.names /\ t.lock = s.lock
    /\ t.opened = s.opened /\ t.since = s.since /\ t.gone = s.gone

\* What fflush() does to the files.
Emptied(t, s) ==
    /\ Files(t) = Files(s)
    /\ t.buf = <<>>
    /\ s.file # None => t.disk[s.file] = s.disk[s.file] \o s.buf
    /\ \A d \in Files(s) : d # s.file => t.disk[d] = s.disk[d]

\* fflush() of the open file
LEMMA FlushedFields ==
    ASSUME NEW s \in Sinks, s.file \in Files(s), NEW t, t = Flushed(s)
    PROVE  SameQueue(t, s) /\ Emptied(t, s) /\ t.file = s.file
<1>1. s.disk \in Logs /\ s.buf \in Lines /\ s.file \in Nat
  BY SinkFields
<1>2. PICK D : D = [s.disk EXCEPT ![s.file] = s.disk[s.file] \o s.buf]
  OBVIOUS
<1>3. DOMAIN D = DOMAIN s.disk /\ D[s.file] = s.disk[s.file] \o s.buf
      /\ \A d \in DOMAIN s.disk : d # s.file => D[d] = s.disk[d]
  BY <1>1, <1>2 DEF Files
<1>4. D \in Logs
  <2>1. \A d \in DOMAIN s.disk : s.disk[d] \in Lines
    BY <1>1, LogsType
  <2>2. s.disk[s.file] \o s.buf \in Lines
    BY <1>1, <2>1 DEF Files, Lines
  <2>3. \A d \in DOMAIN D : D[d] \in Lines
    BY <1>3, <2>1, <2>2
  <2>4. D = [d \in DOMAIN D |-> D[d]] /\ DOMAIN D \subseteq Day
    BY <1>1, <1>2, <1>3, LogsType
  <2> QED
    BY <2>3, <2>4, IsByDay DEF Logs
<1>5. t = [s EXCEPT !.disk = D, !.buf = <<>>]
  BY <1>2 DEF Flushed, Sinks
<1>6. /\ t \in Sinks /\ t.disk = D /\ t.file = s.file /\ t.buf = <<>>
      /\ t.rot = s.rot /\ t.names = s.names /\ t.lock = s.lock
      /\ t.opened = s.opened /\ t.since = s.since /\ t.gone = s.gone
  BY <1>4, <1>5, LogsType DEF Sinks
<1> QED
  BY <1>3, <1>6 DEF Files, SameQueue, Emptied

\* close()
LEMMA ClosedFields ==
    ASSUME NEW s \in Sinks, s.file \in {None} \cup Files(s), s.file = None => s.buf = <<>>,
           NEW t, t = Closed(s)
    PROVE  SameQueue(t, s) /\ Emptied(t, s) /\ t.file = None
<1>1. CASE s.file = None
  BY <1>1 DEF Closed, SameQueue, Emptied
<1>2. CASE s.file # None
  <2>1. PICK u : u = Flushed(s)
    OBVIOUS
  <2>2. SameQueue(u, s) /\ Emptied(u, s) /\ u.file = s.file
    BY <1>2, <2>1, FlushedFields
  <2>3. t = [u EXCEPT !.file = None]
    BY <1>2, <2>1 DEF Closed
  <2>4. u \in Sinks /\ None \in Nat
    BY <2>2 DEF SameQueue, None
  <2>5. /\ t \in Sinks /\ t.disk = u.disk /\ t.file = None /\ t.buf = u.buf
        /\ t.rot = u.rot /\ t.names = u.names /\ t.lock = u.lock
        /\ t.opened = u.opened /\ t.since = u.since /\ t.gone = u.gone
    BY <2>3, <2>4 DEF Sinks
  <2> QED
    BY <2>2, <2>5 DEF SameQueue, Emptied, Files
<1> QED
  BY <1>1, <1>2

\* What open() does after close()
Reopened(t, s, day, n) ==
    /\ t \in Sinks
    /\ t.file = day /\ t.buf = <<>>
    /\ Files(t) = Files(s) \cup {day}
    /\ day \notin Files(s) => t.disk[day] = <<>>
    /\ s.file # None => t.disk[s.file] = s.disk[s.file] \o s.buf
    /\ \A d \in Files(s) : d # s.file => t.disk[d] = s.disk[d]
    /\ DOMAIN t.opened = DOMAIN s.opened \cup {day}
    /\ t.opened[day] = n
    /\ \A d \in DOMAIN s.opened : d # day => t.opened[d] = s.opened[d]
    /\ t.rot = s.rot /\ t.names = s.names /\ t.lock = s.lock
    /\ t.since = s.since /\ t.gone = s.gone

\* open() after close()
LEMMA OpenFields ==
    ASSUME NEW s \in Sinks, s.file \in {None} \cup Files(s), s.file = None => s.buf = <<>>,
           NEW day \in Day, NEW n \in Times, NEW t, t = Open(s, day, n)
    PROVE  Reopened(t, s, day, n)
<1>1. PICK c : c = Closed(s)
  OBVIOUS
<1>2. SameQueue(c, s) /\ Emptied(c, s) /\ c \in Sinks
  BY <1>1, ClosedFields DEF SameQueue
<1>3. c.disk \in Logs /\ c.opened \in Dates /\ c.opened = s.opened
  BY <1>2, SinkFields DEF SameQueue
<1>4. PICK x : x = IF day \in Files(c) THEN c.disk[day] ELSE <<>>
  OBVIOUS
<1>5. x \in Lines
  BY <1>3, <1>4, LogsType DEF Files
<1>6. PICK D : D = With(c.disk, day, x)
  OBVIOUS
<1>7. /\ D \in Logs /\ DOMAIN D = DOMAIN c.disk \cup {day} /\ D[day] = x
      /\ \A e \in DOMAIN c.disk : e # day => D[e] = c.disk[e]
  <2>1. D \in Logs
    BY <1>3, <1>5, <1>6, LogsType
  <2> QED
    BY <1>6, <2>1 DEF With
<1>8. PICK O : O = With(c.opened, day, n)
  OBVIOUS
<1>9. /\ O \in Dates /\ DOMAIN O = DOMAIN s.opened \cup {day} /\ O[day] = n
      /\ \A e \in DOMAIN s.opened : e # day => O[e] = s.opened[e]
  <2>1. O \in Dates
    BY <1>3, <1>8, LogsType
  <2> QED
    BY <1>3, <1>8, <2>1 DEF With
<1>10. t = [c EXCEPT !.file = day, !.disk = D, !.opened = O]
  BY <1>1, <1>4, <1>6, <1>8 DEF Open
<1>11. /\ t \in Sinks /\ t.file = day /\ t.disk = D /\ t.opened = O /\ t.buf = c.buf
       /\ t.rot = c.rot /\ t.names = c.names /\ t.lock = c.lock
       /\ t.since = c.since /\ t.gone = c.gone
  <2>1. D \in Logs /\ O \in Dates /\ c \in Sinks /\ day \in Nat
    BY <1>2, <1>7, <1>9 DEF Day
  <2> QED
    BY <1>10, <2>1 DEF Sinks
<1>12. Files(t) = Files(s) \cup {day}
  BY <1>2, <1>7, <1>11 DEF Files, Emptied
<1>13. \A d \in Files(s) : t.disk[d] = c.disk[d]
  BY <1>2, <1>4, <1>7, <1>11 DEF Files, Emptied
<1>14. day \notin Files(s) => t.disk[day] = <<>>
  BY <1>2, <1>4, <1>7, <1>11 DEF Emptied
<1> QED
  BY <1>2, <1>9, <1>11, <1>12, <1>13, <1>14 DEF SameQueue, Emptied, Reopened

\* The assignment of rotation_tp_
LEMMA ScheduledFields ==
    ASSUME NEW s \in Sinks, s.file \in Day, NEW n \in Times, NEW t, t = Scheduled(s, n)
    PROVE  /\ t \in Sinks
           /\ t.rot = NextRotation(n)
           /\ DOMAIN t.opened = DOMAIN s.opened \cup {s.file}
           /\ t.opened[s.file] = n
           /\ \A d \in DOMAIN s.opened : d # s.file => t.opened[d] = s.opened[d]
           /\ t.disk = s.disk /\ t.file = s.file /\ t.buf = s.buf /\ t.names = s.names
           /\ t.lock = s.lock /\ t.since = s.since /\ t.gone = s.gone
<1>1. PICK O : O = With(s.opened, s.file, n)
  OBVIOUS
<1>2. O \in Dates
  BY <1>1, SinkFields, LogsType
<1>3. /\ DOMAIN O = DOMAIN s.opened \cup {s.file} /\ O[s.file] = n
      /\ \A e \in DOMAIN s.opened : e # s.file => O[e] = s.opened[e]
  BY <1>1 DEF With
<1>4. NextRotation(n) \in Nat
  BY TimesType, RotationLater
<1>5. t = [s EXCEPT !.rot = NextRotation(n), !.opened = O]
  BY <1>1 DEF Scheduled
<1>6. /\ t \in Sinks /\ t.rot = NextRotation(n) /\ t.opened = O
      /\ t.disk = s.disk /\ t.file = s.file /\ t.buf = s.buf /\ t.names = s.names
      /\ t.lock = s.lock /\ t.since = s.since /\ t.gone = s.gone
  BY <1>2, <1>4, <1>5 DEF Sinks
<1> QED
  BY <1>3, <1>6

\* write(), which may flush first
LEMMA WriteFields ==
    ASSUME NEW s \in Sinks, s.file \in Files(s), NEW rec \in Rec, NEW spill \in BOOLEAN,
           NEW t, t = Write(s, rec, spill)
    PROVE  /\ SameQueue(t, s) /\ t.file = s.file
           /\ \/ t.disk = s.disk /\ t.buf = Append(s.buf, rec)
              \/ \E u \in Sinks : /\ Emptied(u, s) /\ u.file = s.file /\ u.gone = s.gone
                                  /\ t.disk = u.disk /\ t.buf = <<rec>>
<1>1. PICK b : b = IF spill THEN Flushed(s) ELSE s
  OBVIOUS
<1>2. t = [b EXCEPT !.buf = Append(b.buf, rec)]
  BY <1>1 DEF Write
<1>3. SameQueue(b, s) /\ b.file = s.file /\ (spill => Emptied(b, s))
  <2>1. CASE spill
    BY <1>1, <2>1, FlushedFields
  <2>2. CASE ~spill
    BY <1>1, <2>2 DEF SameQueue
  <2> QED
    BY <2>1, <2>2
<1>4. b \in Sinks
  BY <1>3 DEF SameQueue
<1>5. b.buf \in Lines
  BY <1>4, SinkFields
<1>6. Append(b.buf, rec) \in Lines
  BY <1>5 DEF Lines
<1>7. /\ t \in Sinks /\ t.buf = Append(b.buf, rec) /\ t.disk = b.disk /\ t.file = b.file
      /\ t.rot = b.rot /\ t.names = b.names /\ t.lock = b.lock
      /\ t.opened = b.opened /\ t.since = b.since /\ t.gone = b.gone
  BY <1>2, <1>4, <1>6 DEF Sinks
<1>8. SameQueue(t, s) /\ t.file = s.file
  BY <1>3, <1>7 DEF SameQueue
<1>9. CASE spill
  <2>1. Emptied(b, s) /\ b.file = s.file /\ b.gone = s.gone
    BY <1>3, <1>9 DEF SameQueue
  <2>2. t.buf = <<rec>>
    BY <1>7, <2>1 DEF Emptied
  <2> QED
    BY <1>4, <1>7, <1>8, <2>1, <2>2
<1>10. CASE ~spill
  BY <1>1, <1>7, <1>8, <1>10
<1> QED
  BY <1>9, <1>10

\* delete_old_()
LEMMA DeleteOldFields ==
    ASSUME NEW s \in Sinks, s.file \in Day, Len(s.names) <= MaxFiles,
           NEW t, t = DeleteOld(s)
    PROVE  /\ t \in Sinks
           /\ t.file = s.file /\ t.buf = s.buf /\ t.rot = s.rot /\ t.lock = s.lock
           /\ t.opened = s.opened /\ t.since = s.since
           /\ \/ /\ ~Full(s.names) /\ t.names = Append(s.names, s.file)
                 /\ t.disk = s.disk /\ t.gone = s.gone
              \/ /\ Full(s.names) /\ s.names # <<>>
                 /\ t.names = Append(Tail(s.names), s.file)
                 /\ Files(t) = Files(s) \ {Head(s.names)}
                 /\ \A d \in Files(t) : t.disk[d] = s.disk[d]
                 /\ t.gone = s.gone \cup UNION {Range(s.disk[d]) : d \in Files(s) \ Files(t)}
<1>0. /\ s.names \in Seq(Day) /\ s.disk \in Logs /\ s.gone \in SUBSET Rec
      /\ MaxFiles \in Nat \ {0}
  BY SinkFields, DailyFileSinkAssumption
<1>1. CASE ~Full(s.names)
  <2>1. PushBack(s.names, s.file) = Append(s.names, s.file)
    BY <1>1 DEF PushBack, Full
  <2>2. t = [s EXCEPT !.names = Append(s.names, s.file)]
    BY <1>1, <2>1 DEF DeleteOld
  <2>3. Append(s.names, s.file) \in Seq(Day)
    BY <1>0
  <2>4. /\ t \in Sinks /\ t.names = Append(s.names, s.file)
        /\ t.disk = s.disk /\ t.gone = s.gone
        /\ t.file = s.file /\ t.buf = s.buf /\ t.rot = s.rot /\ t.lock = s.lock
        /\ t.opened = s.opened /\ t.since = s.since
    BY <2>2, <2>3 DEF Sinks
  <2> QED
    BY <1>1, <2>4
<1>2. CASE Full(s.names)
  <2>1. s.names # <<>> /\ Len(s.names) = MaxFiles
    BY <1>0, <1>2 DEF Full
  <2>2. PICK h : h = Head(s.names)
    OBVIOUS
  <2>3. h = s.names[1] /\ 1 \in DOMAIN s.names
    BY <1>0, <2>1, <2>2
  <2>5. PICK D : D = [d \in Files(s) \ {h} |-> s.disk[d]]
    OBVIOUS
  <2>6. D \in Logs
    <3>1. DOMAIN D = Files(s) \ {h} /\ DOMAIN D \subseteq Day
      BY <1>0, <2>5, LogsType DEF Files
    <3>2. \A d \in DOMAIN D : D[d] \in Lines
      BY <1>0, <2>5, LogsType DEF Files
    <3>3. D = [d \in DOMAIN D |-> D[d]]
      BY <2>5
    <3> QED
      BY <3>1, <3>2, <3>3, IsByDay DEF Logs
  <2>7. PICK G : G = s.gone \cup UNION {Range(s.disk[d]) : d \in Files(s) \cap {h}}
    OBVIOUS
  <2>8. G \in SUBSET Rec
    <3>1. \A d \in Files(s) : s.disk[d] \in Seq(Rec)
      BY <1>0, LogsType DEF Files, Lines
    <3>2. \A d \in Files(s) : Range(s.disk[d]) \subseteq Rec
      BY <3>1 DEF Range
    <3> QED
      BY <1>0, <2>7, <3>2
  <2>9. PICK r : r = [s EXCEPT !.disk = D, !.gone = G]
    OBVIOUS
  <2>10. Remove(s, h) = r
    <3>1. CASE h \in Files(s)
      <4>1. UNION {Range(s.disk[d]) : d \in Files(s) \cap {h}} = Range(s.disk[h])
        BY <3>1
      <4> QED
        BY <2>5, <2>7, <2>9, <3>1, <4>1 DEF Remove
    <3>2. CASE h \notin Files(s)
      <4>1. G = s.gone
        BY <2>7, <3>2
      <4>2. D = s.disk
        BY <1>0, <2>5, <3>2, ByDayType DEF Files, Logs
      <4> QED
        BY <2>9, <3>2, <4>1, <4>2 DEF Remove, Sinks
    <3> QED
      BY <3>1, <3>2
  <2>11. /\ r \in Sinks /\ r.disk = D /\ r.gone = G /\ r.names = s.names
         /\ r.file = s.file /\ r.buf = s.buf /\ r.rot = s.rot /\ r.lock = s.lock
         /\ r.opened = s.opened /\ r.since = s.since
    BY <2>6, <2>8, <2>9 DEF Sinks
  <2>12. Tail(s.names) \in Seq(Day) /\ Len(Tail(s.names)) = MaxFiles - 1
    BY <1>0, <2>1
  <2>13. PICK q : q = [r EXCEPT !.names = Tail(s.names)]
    OBVIOUS
  <2>14. /\ q \in Sinks /\ q.disk = D /\ q.gone = G /\ q.names = Tail(s.names)
         /\ q.file = s.file /\ q.buf = s.buf /\ q.rot = s.rot /\ q.lock = s.lock
         /\ q.opened = s.opened /\ q.since = s.since
    BY <2>11, <2>12, <2>13 DEF Sinks
  <2>15. PushBack(Tail(s.names), s.file) = Append(Tail(s.names), s.file)
    BY <1>0, <2>12 DEF PushBack
  <2>16. t = [q EXCEPT !.names = Append(Tail(s.names), s.file)]
    <3>1. q = [Remove(s, Head(s.names)) EXCEPT !.names = Tail(@)]
      BY <2>2, <2>10, <2>11, <2>13
    <3>2. t = [q EXCEPT !.names = PushBack(@, s.file)]
      BY <1>2, <3>1 DEF DeleteOld
    <3> QED
      BY <2>14, <2>15, <3>2
  <2>17. Append(Tail(s.names), s.file) \in Seq(Day)
    BY <2>12
  <2>18. /\ t \in Sinks /\ t.disk = D /\ t.gone = G /\ t.names = Append(Tail(s.names), s.file)
         /\ t.file = s.file /\ t.buf = s.buf /\ t.rot = s.rot /\ t.lock = s.lock
         /\ t.opened = s.opened /\ t.since = s.since
    BY <2>14, <2>16, <2>17 DEF Sinks
  <2> QED
    BY <1>2, <2>1, <2>2, <2>5, <2>7, <2>18 DEF Files
<1> QED
  BY <1>1, <1>2

\* What is left of a sink when the process is gone
LEMMA LeftFields ==
    ASSUME NEW s \in Sinks, NEW t, t = Left(s)
    PROVE  /\ t \in Sinks
           /\ t.disk = s.disk /\ t.opened = s.opened /\ t.gone = s.gone
           /\ t.file = None /\ t.buf = <<>> /\ t.rot = None /\ t.names = <<>> /\ t.lock = None
           /\ t.since = None
<1>1. s.disk \in Logs /\ s.opened \in Dates /\ s.gone \in SUBSET Rec
  BY SinkFields
<1>2. t = [disk |-> s.disk, file |-> None, buf |-> <<>>, rot |-> None, names |-> <<>>,
           lock |-> None, opened |-> s.opened, since |-> None, gone |-> s.gone]
  BY DEF Left, NoSink
<1>3. <<>> \in Seq(Day) /\ None \in Nat
  BY DEF None
<1> QED
  BY <1>1, <1>2, <1>3, LogsType DEF Sinks

-----------------------------------------------------------------------------
(* What a sink holds.                                                      *)

\* The records in the files that are there or were removed.
Stored(s) == s.gone \cup UNION {Range(s.disk[d]) : d \in Files(s)}

\* Those, and the records in the buffer.
Written(s) == Stored(s) \cup Range(s.buf)

\* The records of each file are in place there.
Timely(s) ==
    \A d \in Files(s) : \A r \in Range(Content(s, d)) : InPlace(r.time, s.opened[d])

\* Each thread's records are in order, in a file and from file to file.
Ordered(s) ==
    \A d, e \in Files(s) :
        \A i \in DOMAIN Content(s, d), j \in DOMAIN Content(s, e) :
            Content(s, d)[i].by = Content(s, e)[j].by /\ (d < e \/ (d = e /\ i < j))
                => Content(s, d)[i].no < Content(s, e)[j].no

\* The open file is the newest one.
Opened(s) ==
    /\ s \in Sinks
    /\ s.file \in {None} \cup Files(s)
    /\ s.file = None => s.buf = <<>> /\ s.lock = None /\ s.names = <<>> /\ s.since = None
    /\ s.file # None => \A d \in Files(s) : d <= s.file

\* The rotation of a file is set on its day or later, and nothing is of the future.
Dated(s, n) ==
    /\ Files(s) \subseteq DOMAIN s.opened
    /\ \A d \in Files(s) : d <= Date(s.opened[d]) /\ s.opened[d] <= n
    /\ \A d \in Files(s) : \A r \in Range(Content(s, d)) : r.time <= n

\* The next rotation is not before the day of the open file is over.
Settled(s) == (s.file + 1) * DayHours <= s.rot

(***************************************************************************)
(* filenames_q_ has days in order, more than once only if the clock went   *)
(* back then.  The open file's is among the last two, until the rotation   *)
(* has settled.  All files since the oldest one are there but the one that *)
(* has just been rotated to.                                               *)
(***************************************************************************)
InOrder(q) ==
    \A i, j \in DOMAIN q : i < j => q[i] < q[j] \/ (q[i] = q[j] /\ q[i] \in LongDays)

Queue(s) ==
    /\ Len(s.names) <= MaxFiles /\ InOrder(s.names)
    /\ \A i \in DOMAIN s.names :
          s.names[i] <= s.file /\ (s.names[i] \in Files(s) \/ s.names[i] \in LongDays)
    /\ s.lock # None => \A i \in DOMAIN s.names :
          s.names[i] < s.file \/ (s.file \in LongDays /\ Settled(s) /\ i + 2 > Len(s.names))
    /\ s.lock = None =>
          Settled(s) \/ \A i \in DOMAIN s.names : i + 2 <= Len(s.names) => s.names[i] < s.file
    /\ s.since # None =>
          Own(s) \subseteq Range(s.names) \cup {d \in {s.file} : s.lock # None}

Sound(s, n) == Opened(s) /\ Dated(s, n) /\ Queue(s) /\ Timely(s) /\ Ordered(s)

\* x is the beginning of y.
Begins(x, y) == Len(x) <= Len(y) /\ \A i \in 1 .. Len(x) : x[i] = y[i]

\* What a file holds is a sequence of records that were written.
LEMMA ContentType ==
    ASSUME NEW s \in Sinks, NEW d \in Files(s)
    PROVE  /\ Content(s, d) \in Seq(Rec)
           /\ d # s.file => Content(s, d) = s.disk[d]
           /\ d = s.file => Content(s, d) = s.disk[d] \o s.buf
           /\ Range(Content(s, d)) \subseteq Written(s)
<1>1. s.disk[d] \in Seq(Rec) /\ s.buf \in Seq(Rec)
  BY SinkFields, LogsType DEF Files, Lines
<1>2. /\ d # s.file => Content(s, d) = s.disk[d]
      /\ d = s.file => Content(s, d) = s.disk[d] \o s.buf
  <2>1. s.disk[d] \o <<>> = s.disk[d]
    BY <1>1, ConcatEmptySeq
  <2> QED
    BY <2>1 DEF Content
<1>3. Content(s, d) \in Seq(Rec)
  <2>1. s.disk[d] \o s.buf \in Seq(Rec)
    BY <1>1, ConcatProperties
  <2> QED
    BY <1>1, <1>2, <2>1
<1>4. Range(s.disk[d]) \subseteq Written(s) /\ Range(s.buf) \subseteq Written(s)
  BY DEF Written, Stored
<1>5. Range(s.disk[d] \o s.buf) = Range(s.disk[d]) \cup Range(s.buf)
  BY <1>1, RangeConcatenation
<1> QED
  BY <1>2, <1>3, <1>4, <1>5

\* Files that keep a beginning of what they held, or begin empty, stay in order.
LEMMA Carried ==
    ASSUME NEW s \in Sinks, NEW t \in Sinks, Ordered(s),
           \A d \in Files(t) :
               \/ Content(t, d) = <<>>
               \/ /\ d \in Files(s) /\ Begins(Content(t, d), Content(s, d))
                  /\ \A r \in Range(Content(s, d)) : InPlace(r.time, t.opened[d])
    PROVE  Timely(t) /\ Ordered(t)
<1>1. /\ \A d \in Files(t) : Content(t, d) \in Seq(Rec)
      /\ \A d \in Files(s) : Content(s, d) \in Seq(Rec)
  BY ContentType
<1>2. ASSUME NEW d \in Files(t), NEW i \in DOMAIN Content(t, d)
      PROVE  /\ d \in Files(s) /\ (\A r \in Range(Content(s, d)) : InPlace(r.time, t.opened[d]))
             /\ i \in DOMAIN Content(s, d) /\ Content(t, d)[i] = Content(s, d)[i]
             /\ i \in Nat /\ Content(t, d)[i] \in Rec
  <2>1. Content(t, d) # <<>>
    BY <1>1, <1>2
  <2>2. /\ d \in Files(s) /\ Begins(Content(t, d), Content(s, d))
        /\ \A r \in Range(Content(s, d)) : InPlace(r.time, t.opened[d])
    BY <2>1
  <2>3. PICK x : x = Content(t, d)
    OBVIOUS
  <2>4. PICK y : y = Content(s, d)
    OBVIOUS
  <2>5. x \in Seq(Rec) /\ y \in Seq(Rec) /\ Begins(x, y) /\ i \in DOMAIN x
    BY <1>1, <1>2, <2>2, <2>3, <2>4
  <2>6. i \in DOMAIN y /\ x[i] = y[i] /\ i \in Nat /\ x[i] \in Rec
    BY <2>5 DEF Begins
  <2> QED
    BY <2>2, <2>3, <2>4, <2>6
<1>3. Timely(t)
  <2> SUFFICES ASSUME NEW d \in Files(t), NEW r \in Range(Content(t, d))
               PROVE  InPlace(r.time, t.opened[d])
    BY DEF Timely
  <2>1. PICK i \in DOMAIN Content(t, d) : r = Content(t, d)[i]
    BY DEF Range
  <2>2. r \in Range(Content(s, d)) /\ \A x \in Range(Content(s, d)) : InPlace(x.time, t.opened[d])
    BY <1>2, <2>1 DEF Range
  <2> QED
    BY <2>2
<1>4. Ordered(t)
  <2> SUFFICES ASSUME NEW d \in Files(t), NEW e \in Files(t),
                      NEW i \in DOMAIN Content(t, d), NEW j \in DOMAIN Content(t, e),
                      Content(t, d)[i].by = Content(t, e)[j].by,
                      d < e \/ (d = e /\ i < j)
               PROVE  Content(t, d)[i].no < Content(t, e)[j].no
    BY DEF Ordered
  <2>1. d \in Files(s) /\ i \in DOMAIN Content(s, d) /\ Content(t, d)[i] = Content(s, d)[i]
    BY <1>2
  <2>2. e \in Files(s) /\ j \in DOMAIN Content(s, e) /\ Content(t, e)[j] = Content(s, e)[j]
    BY <1>2
  <2> QED
    BY <2>1, <2>2 DEF Ordered
<1> QED
  BY <1>3, <1>4

\* fflush() moves the buffer to the file: nothing else changes.
LEMMA EmptiedContent ==
    ASSUME NEW s \in Sinks, Opened(s), NEW t \in Sinks, Emptied(t, s), t.gone = s.gone
    PROVE  /\ \A d \in Files(s) : Content(t, d) = Content(s, d)
           /\ Stored(t) = Written(s)
<1>1. s.buf \in Seq(Rec) /\ \A d \in Files(s) : s.disk[d] \in Seq(Rec) /\ t.disk[d] \in Seq(Rec)
  BY SinkFields, LogsType DEF Files, Lines, Emptied
<1>2. ASSUME NEW d \in Files(s) PROVE t.disk[d] = Content(s, d)
  <2>1. CASE d = s.file
    <3>1. s.file # None
      BY <2>1, SinkFields, LogsType DEF Files, None, Day
    <3> QED
      BY <2>1, <3>1, ContentType DEF Emptied
  <2>2. CASE d # s.file
    BY <2>2, ContentType DEF Emptied
  <2> QED
    BY <2>1, <2>2
<1>3. ASSUME NEW d \in Files(s) PROVE Content(t, d) = t.disk[d]
  <2>1. t.disk[d] \o <<>> = t.disk[d]
    BY <1>1, ConcatEmptySeq
  <2> QED
    BY <2>1 DEF Content, Emptied
<1>4. Stored(t) = s.gone \cup UNION {Range(Content(s, d)) : d \in Files(s)}
  BY <1>2 DEF Stored, Emptied
<1>5. \A d \in Files(s) : Range(Content(s, d)) =
         Range(s.disk[d]) \cup (IF d = s.file THEN Range(s.buf) ELSE {})
  <2> SUFFICES ASSUME NEW d \in Files(s)
               PROVE  Range(Content(s, d)) =
                         Range(s.disk[d]) \cup (IF d = s.file THEN Range(s.buf) ELSE {})
    OBVIOUS
  <2>1. Range(s.disk[d] \o s.buf) = Range(s.disk[d]) \cup Range(s.buf)
    BY <1>1, RangeConcatenation
  <2> QED
    BY <2>1, ContentType
<1>6. Range(<<>>) = {}
  BY DEF Range
<1>7. Stored(t) = Written(s)
  <2>1. CASE s.file = None
    <3>1. s.buf = <<>> /\ \A d \in Files(s) : d # s.file
      BY <2>1, SinkFields, LogsType DEF Opened, Files, None, Day
    <3> QED
      BY <1>4, <1>5, <1>6, <3>1 DEF Stored, Written
  <2>2. CASE s.file \in Files(s)
    BY <1>4, <1>5, <2>2 DEF Stored, Written
  <2> QED
    BY <2>1, <2>2 DEF Opened
<1> QED
  BY <1>2, <1>3, <1>7

-----------------------------------------------------------------------------
(* The operations keep a sink sound.                                       *)

\* The days of the files.
LEMMA FileDays ==
    ASSUME NEW s \in Sinks
    PROVE  /\ Files(s) \subseteq Nat \ {0} /\ None \notin Files(s)
           /\ DOMAIN s.opened \subseteq Nat \ {0}
           /\ \A d \in DOMAIN s.opened : s.opened[d] \in Times
<1>1. s.disk \in Logs /\ s.opened \in Dates
  BY SinkFields
<1>2. DOMAIN s.opened \subseteq Day /\ \A d \in DOMAIN s.opened : s.opened[d] \in Times
  BY <1>1, ByDayType DEF Dates
<1> QED
  BY <1>1, <1>2, LogsType DEF Files, None, Day

\* A sequence begins itself, and is begun by the empty one.
LEMMA BeginsSelf ==
    \A x \in Seq(Rec) : Begins(x, x) /\ Begins(<<>>, x)
BY DEF Begins

\* The beginning of a sequence has some of its entries.
LEMMA BegunRange ==
    ASSUME NEW x, x \in Seq(Rec), NEW y, y \in Seq(Rec), Begins(x, y)
    PROVE  Range(x) \subseteq Range(y)
BY DEF Begins, Range

\* The times of the records.
LEMMA RecordTimes ==
    ASSUME NEW s \in Sinks
    PROVE  \A d \in Files(s) : \A r \in Range(Content(s, d)) :
               r \in Rec /\ r.time \in Times /\ r.time \in Nat
<1> SUFFICES ASSUME NEW d \in Files(s), NEW r \in Range(Content(s, d))
             PROVE  r \in Rec /\ r.time \in Times /\ r.time \in Nat
  OBVIOUS
<1>1. Content(s, d) \in Seq(Rec)
  BY ContentType
<1>2. r \in Rec
  BY <1>1 DEF Range
<1>3. r.time \in Times
  BY <1>2 DEF Rec
<1> QED
  BY <1>2, <1>3, TimesType

\* Time goes on.
LEMMA SoundLater ==
    ASSUME NEW s, NEW n \in Nat, NEW m \in Nat, n <= m, Sound(s, n)
    PROVE  Sound(s, m)
<1>1. s \in Sinks /\ Files(s) \subseteq DOMAIN s.opened
  BY DEF Sound, Opened, Dated
<1>2. \A d \in Files(s) : s.opened[d] \in Nat
  BY <1>1, FileDays, TimesType
<1>3. \A d \in Files(s) : \A r \in Range(Content(s, d)) : r.time \in Nat
  BY <1>1, RecordTimes
<1>4. Dated(s, m)
  BY <1>2, <1>3 DEF Sound, Dated
<1> QED
  BY <1>4 DEF Sound

\* The files hold what they held, in t as in s.
SameFiles(t, s) ==
    /\ Files(t) = Files(s)
    /\ \A d \in Files(s) : Content(t, d) = Content(s, d)
    /\ t.opened = s.opened

\* Order is a matter of the contents.
LEMMA SameOrder ==
    ASSUME NEW s \in Sinks, NEW t \in Sinks, SameFiles(t, s)
    PROVE  /\ Timely(s) => Timely(t)
           /\ Ordered(s) => Ordered(t)
           /\ \A n : Dated(s, n) => Dated(t, n)
BY DEF SameFiles, Timely, Ordered, Dated

\* fflush()
LEMMA FlushedSound ==
    ASSUME NEW n \in Nat, NEW s, Sound(s, n), s.file # None, NEW t, t = Flushed(s)
    PROVE  /\ Sound(t, n) /\ SameQueue(t, s) /\ t.file = s.file /\ Files(t) = Files(s)
           /\ Stored(t) = Written(s) /\ Written(t) = Written(s)
<1>1. s \in Sinks /\ s.file \in Files(s) /\ Opened(s)
  BY DEF Sound, Opened
<1>2. SameQueue(t, s) /\ Emptied(t, s) /\ t.file = s.file
  BY <1>1, FlushedFields
<1>3. t \in Sinks /\ t.gone = s.gone
  BY <1>2 DEF SameQueue
<1>4. SameFiles(t, s) /\ Stored(t) = Written(s)
  BY <1>1, <1>2, <1>3, EmptiedContent DEF SameFiles, SameQueue, Emptied
<1>5. Timely(t) /\ Ordered(t) /\ Dated(t, n)
  BY <1>1, <1>3, <1>4, SameOrder DEF Sound
<1>6. Queue(t)
  BY <1>2, <1>4 DEF Sound, Queue, Own, SameQueue, SameFiles, Settled
<1>7. Opened(t)
  BY <1>1, <1>2, <1>3 DEF Opened, Emptied, SameQueue
<1>8. Written(t) = Stored(t)
  BY <1>2 DEF Written, Emptied, Range
<1> QED
  BY <1>2, <1>4, <1>5, <1>6, <1>7, <1>8 DEF Sound, SameFiles

\* A process that is gone leaves its files in order; what was in a buffer is lost.
LEMMA LeftSound ==
    ASSUME NEW n \in Nat, NEW s, Sound(s, n), NEW t, t = Left(s)
    PROVE  /\ Sound(t, n) /\ t.file = None /\ t.lock = None /\ Files(t) = Files(s)
           /\ Stored(t) = Stored(s) /\ Written(t) = Stored(s)
<1>1. s \in Sinks /\ Files(s) \subseteq DOMAIN s.opened
  BY DEF Sound, Opened, Dated
<1>2. /\ t \in Sinks
      /\ t.disk = s.disk /\ t.opened = s.opened /\ t.gone = s.gone
      /\ t.file = None /\ t.buf = <<>> /\ t.rot = None /\ t.names = <<>> /\ t.lock = None
      /\ t.since = None
  BY <1>1, LeftFields
<1>3. Files(t) = Files(s) /\ Stored(t) = Stored(s)
  BY <1>2 DEF Files, Stored
<1>4. Written(t) = Stored(t)
  BY <1>2 DEF Written, Range
<1>5. ASSUME NEW d \in Files(t)
      PROVE  Begins(Content(t, d), Content(s, d))
  <2>1. Content(t, d) = s.disk[d] /\ s.disk[d] \in Seq(Rec)
    <3>1. d # t.file /\ d \in Files(s)
      BY <1>2, <1>3, FileDays
    <3>2. Content(t, d) = t.disk[d] /\ Content(t, d) \in Seq(Rec)
      BY <1>2, <3>1, ContentType
    <3> QED
      BY <1>2, <3>2
  <2>2. CASE d # s.file
    BY <1>1, <1>3, <2>1, <2>2, BeginsSelf, ContentType
  <2>3. CASE d = s.file
    <3>1. Content(s, d) = s.disk[d] \o s.buf /\ s.buf \in Seq(Rec)
      BY <1>1, <1>3, <2>3, SinkFields, ContentType DEF Lines
    <3>2. PICK x, y : x = s.disk[d] /\ y = s.buf
      OBVIOUS
    <3>3. x \in Seq(Rec) /\ y \in Seq(Rec)
      BY <2>1, <3>1, <3>2
    <3>4. Begins(x, x \o y)
      BY <3>3, ConcatProperties DEF Begins
    <3> QED
      BY <2>1, <3>1, <3>2, <3>4
  <2> QED
    BY <2>2, <2>3
<1>7. Timely(t) /\ Ordered(t)
  <2>1. \A d \in Files(t) : d \in Files(s) /\ \A r \in Range(Content(s, d)) : InPlace(r.time, t.opened[d])
    BY <1>2, <1>3 DEF Sound, Timely
  <2> QED
    BY <1>1, <1>2, <1>5, <2>1, Carried DEF Sound
<1>8. Dated(t, n)
  <2>1. \A d \in Files(t) : Range(Content(t, d)) \subseteq Range(Content(s, d))
    BY <1>1, <1>2, <1>3, <1>5, ContentType, BegunRange
  <2> QED
    BY <1>2, <1>3, <2>1 DEF Sound, Dated
<1>9. Opened(t)
  BY <1>2 DEF Opened
<1>10. Queue(t)
  <2>1. Len(t.names) = 0 /\ DOMAIN t.names = {} /\ 0 <= MaxFiles
    BY <1>2, DailyFileSinkAssumption
  <2> QED
    BY <1>2, <2>1 DEF Queue, InOrder
<1> QED
  BY <1>2, <1>3, <1>4, <1>7, <1>8, <1>9, <1>10 DEF Sound

\* exit() closes the file first.
LEMMA QuitSound ==
    ASSUME NEW n \in Nat, NEW s, Sound(s, n), NEW t, t = Left(Closed(s))
    PROVE  /\ Sound(t, n) /\ t.file = None /\ t.lock = None /\ Files(t) = Files(s)
           /\ Stored(t) = Written(s) /\ Written(t) = Written(s)
<1>1. s \in Sinks /\ Opened(s)
  BY DEF Sound, Opened
<1>2. PICK c : c = Closed(s)
  OBVIOUS
<1>3. SameQueue(c, s) /\ Emptied(c, s) /\ c.file = None
  BY <1>1, <1>2, ClosedFields DEF Opened
<1>4. c \in Sinks /\ c.gone = s.gone
  BY <1>3 DEF SameQueue
<1>5. SameFiles(c, s) /\ Stored(c) = Written(s)
  BY <1>1, <1>3, <1>4, EmptiedContent DEF SameFiles, SameQueue, Emptied
<1>6. Timely(c) /\ Ordered(c) /\ Dated(c, n)
  BY <1>1, <1>4, <1>5, SameOrder DEF Sound
<1>7. PICK u : u = Left(c)
  OBVIOUS
<1>8. /\ u \in Sinks
      /\ u.disk = c.disk /\ u.opened = c.opened /\ u.gone = c.gone
      /\ u.file = None /\ u.buf = <<>> /\ u.rot = None /\ u.names = <<>> /\ u.lock = None
      /\ u.since = None
  BY <1>4, <1>7, LeftFields
<1>9. c.buf = <<>>
  BY <1>3 DEF Emptied
<1>10. SameFiles(u, c) /\ Stored(u) = Stored(c) /\ Written(u) = Stored(u)
  BY <1>3, <1>8, <1>9 DEF SameFiles, Content, Files, Stored, Written, Range
<1>11. Timely(u) /\ Ordered(u) /\ Dated(u, n)
  BY <1>4, <1>6, <1>8, <1>10, SameOrder
<1>12. Opened(u)
  BY <1>8 DEF Opened
<1>13. Queue(u)
  <2>1. Len(u.names) = 0 /\ DOMAIN u.names = {} /\ 0 <= MaxFiles
    BY <1>8, DailyFileSinkAssumption
  <2> QED
    BY <1>8, <2>1 DEF Queue, InOrder
<1> QED
  BY <1>2, <1>5, <1>7, <1>8, <1>10, <1>11, <1>12, <1>13 DEF Sound, SameFiles

\* The next rotation of the open file is set.
Built(s) == s.rot = NextRotation(s.opened[s.file])

\* open() of the newest day
LEMMA OpenContent ==
    ASSUME NEW n \in Times, NEW s, Sound(s, n), NEW day \in Day, day <= Date(n),
           \A d \in Files(s) : d <= day, NEW t, t = Open(s, day, n)
    PROVE  /\ t \in Sinks
           /\ t.file = day /\ t.buf = <<>> /\ Files(t) = Files(s) \cup {day}
           /\ DOMAIN t.opened = DOMAIN s.opened \cup {day} /\ t.opened[day] = n
           /\ t.rot = s.rot /\ t.names = s.names /\ t.lock = s.lock /\ t.since = s.since
           /\ Timely(t) /\ Ordered(t) /\ Dated(t, n)
           /\ Stored(t) = Written(s) /\ Written(t) = Written(s)
<1>1. s \in Sinks /\ Opened(s)
  BY DEF Sound, Opened
<1>2. /\ t \in Sinks
      /\ t.file = day /\ t.buf = <<>>
      /\ Files(t) = Files(s) \cup {day}
      /\ day \notin Files(s) => t.disk[day] = <<>>
      /\ s.file # None => t.disk[s.file] = s.disk[s.file] \o s.buf
      /\ \A d \in Files(s) : d # s.file => t.disk[d] = s.disk[d]
      /\ DOMAIN t.opened = DOMAIN s.opened \cup {day}
      /\ t.opened[day] = n
      /\ \A d \in DOMAIN s.opened : d # day => t.opened[d] = s.opened[d]
      /\ t.rot = s.rot /\ t.names = s.names /\ t.lock = s.lock
      /\ t.since = s.since /\ t.gone = s.gone
  <2>1. s.file \in {None} \cup Files(s) /\ (s.file = None => s.buf = <<>>)
    BY <1>1 DEF Opened
  <2>2. Reopened(t, s, day, n)
    BY <1>1, <2>1, OpenFields
  <2> QED
    BY <2>2 DEF Reopened
<1>3. ASSUME NEW d \in Files(t) PROVE Content(t, d) = t.disk[d]
  <2>1. t.disk[d] \in Seq(Rec)
    BY <1>2, SinkFields, LogsType DEF Files, Lines
  <2>2. t.disk[d] \o <<>> = t.disk[d]
    BY <2>1, ConcatEmptySeq
  <2> QED
    BY <1>2, <2>2 DEF Content
<1>4. PICK c : c = Closed(s)
  OBVIOUS
<1>5. SameQueue(c, s) /\ Emptied(c, s) /\ c \in Sinks /\ c.gone = s.gone
  <2>1. SameQueue(c, s) /\ Emptied(c, s)
    BY <1>1, <1>4, ClosedFields DEF Opened
  <2> QED
    BY <2>1 DEF SameQueue
<1>6. (\A d \in Files(s) : Content(c, d) = Content(s, d)) /\ Stored(c) = Written(s)
  BY <1>1, <1>5, EmptiedContent
<1>7. ASSUME NEW d \in Files(s) PROVE t.disk[d] = c.disk[d] /\ Content(t, d) = Content(s, d)
  <2>1. t.disk[d] = c.disk[d]
    <3>1. d = s.file => s.file # None
      BY <1>1, FileDays
    <3> QED
      BY <1>2, <1>5, <3>1 DEF Emptied
  <2>2. c.disk[d] \in Seq(Rec) /\ c.buf = <<>>
    BY <1>5, SinkFields, LogsType DEF Files, Lines, Emptied
  <2>3. Content(c, d) = c.disk[d]
    <3>1. c.disk[d] \o <<>> = c.disk[d]
      BY <2>2, ConcatEmptySeq
    <3> QED
      BY <2>2, <3>1 DEF Content
  <2> QED
    BY <1>2, <1>3, <1>6, <2>1, <2>3
<1>8. Stored(t) = Stored(c)
  <2>1. Stored(t) = s.gone \cup UNION {Range(t.disk[d]) : d \in Files(s)}
    <3>1. day \notin Files(s) => Range(t.disk[day]) = {}
      BY <1>2 DEF Range
    <3> QED
      BY <1>2, <3>1 DEF Stored
  <2> QED
    BY <1>5, <1>7, <2>1 DEF Stored, Emptied
<1>9. Written(t) = Stored(t)
  BY <1>2 DEF Written, Range
<1>10. /\ \A d \in Files(s) : /\ d \in DOMAIN s.opened /\ d \in Nat
                              /\ d <= Date(s.opened[d]) /\ s.opened[d] <= n
                              /\ \A r \in Range(Content(s, d)) : r.time <= n
       /\ n \in Nat /\ n <= n
  BY <1>1, FileDays, TimesType DEF Sound, Dated
<1>11. ASSUME NEW d \in Files(s)
       PROVE  \A r \in Range(Content(s, d)) : InPlace(r.time, t.opened[d])
  <2>1. CASE d = day
    <3>1. \A r \in Range(Content(s, d)) : r.time \in Hours /\ r.time <= n
      BY <1>1, <1>10, RecordTimes, TimesType
    <3> QED
      BY <1>2, <2>1, <3>1, NotLater, TimesType
  <2>2. CASE d # day
    BY <1>2, <1>10, <2>2 DEF Sound, Timely
  <2> QED
    BY <2>1, <2>2
<1>12. Dated(t, n)
  <2>1. \A d \in Files(t) : d <= Date(t.opened[d]) /\ t.opened[d] <= n
    BY <1>2, <1>10
  <2>2. ASSUME NEW d \in Files(t), NEW r \in Range(Content(t, d)) PROVE r.time <= n
    <3>1. CASE d \in Files(s)
      BY <1>7, <1>10, <3>1
    <3>2. CASE d \notin Files(s)
      BY <1>2, <1>3, <3>2 DEF Range
    <3> QED
      BY <3>1, <3>2
  <2>3. Files(t) \subseteq DOMAIN t.opened
    BY <1>2, <1>10
  <2> QED
    BY <2>1, <2>2, <2>3 DEF Dated
<1>13. Timely(t) /\ Ordered(t)
  <2>1. ASSUME NEW d \in Files(t)
        PROVE  \/ Content(t, d) = <<>>
               \/ /\ d \in Files(s) /\ Begins(Content(t, d), Content(s, d))
                  /\ \A r \in Range(Content(s, d)) : InPlace(r.time, t.opened[d])
    <3>1. CASE d \in Files(s)
      BY <1>1, <1>7, <1>11, <3>1, ContentType, BeginsSelf
    <3>2. CASE d \notin Files(s)
      BY <1>2, <1>3, <3>2
    <3> QED
      BY <3>1, <3>2
  <2> QED
    BY <1>1, <1>2, <2>1, Carried DEF Sound
<1> QED
  BY <1>2, <1>6, <1>8, <1>9, <1>12, <1>13

\* There is no file of a day to come.
LEMMA NoLaterFile ==
    ASSUME NEW n \in Times, NEW s, Sound(s, n)
    PROVE  \A d \in Files(s) : d \in Nat /\ d <= Date(n)
<1> SUFFICES ASSUME NEW d \in Files(s) PROVE d \in Nat /\ d <= Date(n)
  OBVIOUS
<1>1. s \in Sinks
  BY DEF Sound, Opened
<1>2. d \in Nat /\ s.opened[d] \in Times /\ d <= Date(s.opened[d]) /\ s.opened[d] <= n
  BY <1>1, FileDays DEF Sound, Dated
<1>3. Date(s.opened[d]) <= Date(n) /\ Date(s.opened[d]) \in Nat /\ Date(n) \in Nat
  BY <1>2, DateLater, TimesType
<1> QED
  BY <1>2, <1>3

\* The constructor of a sink opens the file of the day.
LEMMA InitOpenSound ==
    ASSUME NEW n \in Times, NEW s, Sound(s, n), s.file = None,
           NEW t, t = Open(s, Date(n), n)
    PROVE  /\ Sound(t, n) /\ t.file = Date(n) /\ t.lock = None /\ t.names = <<>>
           /\ Files(t) = Files(s) \cup {Date(n)}
           /\ Stored(t) = Written(s) /\ Written(t) = Written(s)
<1>1. s \in Sinks /\ s.lock = None /\ s.names = <<>> /\ s.since = None
  BY DEF Sound, Opened
<1>2. Date(n) \in Day /\ Date(n) <= Date(n) /\ \A d \in Files(s) : d <= Date(n) /\ d \in Nat
  BY NoLaterFile, TimesType DEF Day
<1>3. /\ t \in Sinks
      /\ t.file = Date(n) /\ t.buf = <<>> /\ Files(t) = Files(s) \cup {Date(n)}
      /\ t.names = s.names /\ t.lock = s.lock /\ t.since = s.since
      /\ Timely(t) /\ Ordered(t) /\ Dated(t, n)
      /\ Stored(t) = Written(s) /\ Written(t) = Written(s)
  BY <1>2, OpenContent
<1>4. Opened(t)
  BY <1>2, <1>3 DEF Opened, Day, None
<1>5. Queue(t)
  <2>1. t.names = <<>> /\ t.since = None
    BY <1>1, <1>3
  <2>2. Len(t.names) = 0 /\ DOMAIN t.names = {} /\ 0 <= MaxFiles
    BY <2>1, DailyFileSinkAssumption
  <2> QED
    BY <2>1, <2>2 DEF Queue, InOrder
<1> QED
  BY <1>1, <1>3, <1>4, <1>5 DEF Sound

\* The assignment of rotation_tp_
LEMMA ScheduledContent ==
    ASSUME NEW n \in Times, NEW s \in Sinks, s.file \in Files(s), NEW t, t = Scheduled(s, n),
           Timely(s), Ordered(s), Dated(s, n), s.file <= Date(n)
    PROVE  /\ t \in Sinks /\ Files(t) = Files(s)
           /\ t.rot = NextRotation(n) /\ t.opened[t.file] = n /\ Built(t)
           /\ t.file = s.file /\ t.buf = s.buf /\ t.names = s.names
           /\ t.lock = s.lock /\ t.since = s.since
           /\ Timely(t) /\ Ordered(t) /\ Dated(t, n)
           /\ Stored(t) = Stored(s) /\ Written(t) = Written(s)
<1>1. s.file \in Day
  BY FileDays DEF Day
<1>2. /\ t \in Sinks
      /\ t.rot = NextRotation(n)
      /\ DOMAIN t.opened = DOMAIN s.opened \cup {s.file}
      /\ t.opened[s.file] = n
      /\ \A d \in DOMAIN s.opened : d # s.file => t.opened[d] = s.opened[d]
      /\ t.disk = s.disk /\ t.file = s.file /\ t.buf = s.buf /\ t.names = s.names
      /\ t.lock = s.lock /\ t.since = s.since /\ t.gone = s.gone
  BY <1>1, ScheduledFields
<1>3. Files(t) = Files(s) /\ Stored(t) = Stored(s) /\ Written(t) = Written(s)
      /\ \A d : Content(t, d) = Content(s, d)
  BY <1>2 DEF Files, Stored, Written, Content
<1>4. \A d \in Files(s) : /\ d \in DOMAIN s.opened /\ d <= Date(s.opened[d]) /\ s.opened[d] <= n
                           /\ \A r \in Range(Content(s, d)) : r.time <= n
  BY DEF Dated
<1>5. n <= n /\ \A d \in Files(s) : t.opened[d] <= n /\ d <= Date(t.opened[d])
  BY <1>2, <1>4, TimesType
<1>6. Dated(t, n)
  BY <1>2, <1>3, <1>4, <1>5 DEF Dated
<1>7. Timely(t) /\ Ordered(t)
  <2>1. ASSUME NEW d \in Files(s)
        PROVE  \A r \in Range(Content(s, d)) : InPlace(r.time, t.opened[d])
    <3>1. CASE d = s.file
      <4>1. \A r \in Range(Content(s, d)) : r.time \in Hours /\ r.time <= n
        BY <1>4, RecordTimes, TimesType
      <4> QED
        BY <1>2, <3>1, <4>1, NotLater, TimesType
    <3>2. CASE d # s.file
      BY <1>2, <1>4, <3>2 DEF Timely
    <3> QED
      BY <3>1, <3>2
  <2>2. \A d \in Files(t) : d \in Files(s) /\ Begins(Content(t, d), Content(s, d))
    BY <1>3, ContentType, BeginsSelf
  <2> QED
    BY <1>2, <2>1, <2>2, Carried
<1> QED
  BY <1>2, <1>3, <1>6, <1>7 DEF Built

\* The first assignment of rotation_tp_, in the constructor of a sink
LEMMA InitRotationSound ==
    ASSUME NEW n \in Times, NEW s, Sound(s, n), s.file # None, s.names = <<>>,
           NEW t, t = Scheduled(s, n)
    PROVE  /\ Sound(t, n) /\ Built(t)
           /\ t.file = s.file /\ t.lock = s.lock /\ t.names = s.names
           /\ Files(t) = Files(s)
           /\ Stored(t) = Stored(s) /\ Written(t) = Written(s)
<1>1. s \in Sinks /\ s.file \in Files(s) /\ Timely(s) /\ Ordered(s) /\ Dated(s, n)
      /\ s.file <= Date(n)
  BY NoLaterFile DEF Sound, Opened
<1>2. /\ t \in Sinks /\ Files(t) = Files(s) /\ Built(t)
      /\ t.file = s.file /\ t.buf = s.buf /\ t.names = s.names
      /\ t.lock = s.lock /\ t.since = s.since
      /\ Timely(t) /\ Ordered(t) /\ Dated(t, n)
      /\ Stored(t) = Stored(s) /\ Written(t) = Written(s)
  BY <1>1, ScheduledContent
<1>3. Opened(t)
  BY <1>2 DEF Sound, Opened
<1>4. Queue(t)
  <2>1. t.names = <<>> /\ Len(t.names) = 0 /\ DOMAIN t.names = {} /\ 0 <= MaxFiles
    BY <1>2, DailyFileSinkAssumption
  <2> QED
    BY <1>2, <2>1 DEF Sound, Queue, InOrder, Own
<1> QED
  BY <1>2, <1>3, <1>4 DEF Sound

\* The sink after the first part of a rotation
Rotated(s, day, n, holder) == [Scheduled(Open(s, day, n), n) EXCEPT !.lock = holder]

\* A rotation, up to the write
LEMMA RotateSound ==
    ASSUME NEW n \in Times, NEW s, Sound(s, n), s.file # None, s.lock = None, Built(s),
           NEW time \in Times, time >= s.rot, time <= n, NEW holder \in Threads,
           NEW day, day = Date(time), NEW t, t = Rotated(s, day, n, holder)
    PROVE  /\ Sound(t, n) /\ Built(t)
           /\ t.file = day /\ t.lock = holder /\ t.opened[t.file] = n
           /\ Files(t) = Files(s) \cup {day}
           /\ Stored(t) = Written(s) /\ Written(t) = Written(s)
<1>1. s \in Sinks /\ s.file \in Files(s)
  BY DEF Sound, Opened
<1>2. /\ s.file \in Nat /\ s.file <= day /\ day \in Day /\ day <= Date(n)
      /\ \A d \in Files(s) : d <= day /\ d \in Nat
      /\ s.file = day => day \in LongDays /\ (day + 1) * DayHours <= NextRotation(n)
  <2>1. PICK o : o = s.opened[s.file]
    OBVIOUS
  <2>2. o \in Times /\ s.file <= Date(o) /\ s.file \in Nat /\ NextRotation(o) <= time
    <3>1. o \in Times /\ s.file <= Date(o) /\ s.file \in Nat
      BY <1>1, <2>1, FileDays DEF Sound, Dated
    <3>2. s.rot = NextRotation(o) /\ NextRotation(o) \in Nat /\ time \in Nat
      BY <2>1, <3>1, RotationLater, TimesType DEF Built
    <3> QED
      BY <3>1, <3>2
  <2>3. /\ o \in Hours /\ time \in Hours /\ n \in Hours
        /\ day \in Nat \ {0} /\ Date(o) \in Nat /\ Date(n) \in Nat
    BY <2>2, TimesType
  <2>4. /\ Date(o) <= day
        /\ day = Date(o) => Date(o) \in LongDays /\ (day + 1) * DayHours <= NextRotation(n)
    BY <2>2, <2>3, AfterRotation
  <2>5. day <= Date(n)
    BY <2>3, DateLater
  <2>6. \A d \in Files(s) : d \in Nat /\ d <= s.file
    BY <1>1, FileDays DEF Sound, Opened
  <2>7. s.file <= day /\ (s.file = day => day = Date(o))
    BY <2>2, <2>3, <2>4
  <2> QED
    BY <2>2, <2>3, <2>4, <2>5, <2>6, <2>7 DEF Day
<1>3. PICK u : u = Open(s, day, n)
  OBVIOUS
<1>4. /\ u \in Sinks
      /\ u.file = day /\ u.buf = <<>> /\ Files(u) = Files(s) \cup {day}
      /\ u.names = s.names /\ u.lock = s.lock /\ u.since = s.since
      /\ Timely(u) /\ Ordered(u) /\ Dated(u, n)
      /\ Stored(u) = Written(s) /\ Written(u) = Written(s)
  BY <1>2, <1>3, OpenContent
<1>5. PICK v : v = Scheduled(u, n)
  OBVIOUS
<1>6. /\ v \in Sinks /\ Files(v) = Files(u)
      /\ v.rot = NextRotation(n) /\ v.opened[v.file] = n /\ Built(v)
      /\ v.file = u.file /\ v.buf = u.buf /\ v.names = u.names
      /\ v.lock = u.lock /\ v.since = u.since
      /\ Timely(v) /\ Ordered(v) /\ Dated(v, n)
      /\ Stored(v) = Stored(u) /\ Written(v) = Written(u)
  BY <1>2, <1>4, <1>5, ScheduledContent
<1>7. t = [v EXCEPT !.lock = holder]
  BY <1>3, <1>5 DEF Rotated
<1>8. /\ t \in Sinks /\ t.lock = holder
      /\ t.disk = v.disk /\ t.file = v.file /\ t.buf = v.buf /\ t.names = v.names
      /\ t.rot = v.rot /\ t.since = v.since /\ t.opened = v.opened /\ t.gone = v.gone
  BY <1>6, <1>7 DEF Sinks
<1>9. SameFiles(t, v) /\ Stored(t) = Stored(v) /\ Written(t) = Written(v) /\ Built(t)
  <2>1. Built(t)
    BY <1>6, <1>8 DEF Built
  <2>2. Files(t) = Files(v) /\ \A d : Content(t, d) = Content(v, d)
    BY <1>8 DEF Content, Files
  <2>3. Stored(t) = Stored(v)
    BY <1>8, <2>2 DEF Stored
  <2>4. Written(t) = Written(v)
    BY <1>8, <2>3 DEF Written
  <2> QED
    BY <1>8, <2>1, <2>2, <2>3, <2>4 DEF SameFiles
<1>10. Timely(t) /\ Ordered(t) /\ Dated(t, n)
  BY <1>6, <1>8, <1>9, SameOrder
<1>11. holder # None
  BY LoggingAssumption
<1>12. Files(t) = Files(s) \cup {day} /\ t.file = day /\ t.names = s.names /\ t.since = s.since
  BY <1>4, <1>6, <1>8, <1>9 DEF SameFiles
<1>13. Opened(t)
  <2>1. t.file # None /\ t.file \in Files(t) /\ \A d \in Files(t) : d <= t.file
    BY <1>2, <1>12 DEF Day, None
  <2> QED
    BY <1>8, <2>1 DEF Opened
<1>14. Queue(t)
  <2>1. /\ Len(s.names) <= MaxFiles /\ InOrder(s.names) /\ s.names \in Seq(Day)
        /\ \A i \in DOMAIN s.names :
              s.names[i] <= s.file /\ (s.names[i] \in Files(s) \/ s.names[i] \in LongDays)
        /\ Settled(s) \/ \A i \in DOMAIN s.names : i + 2 <= Len(s.names) => s.names[i] < s.file
        /\ s.since # None => Own(s) \subseteq Range(s.names)
    BY <1>1, SinkFields DEF Sound, Queue
  <2>2. \A i \in DOMAIN s.names : s.names[i] \in Nat /\ i \in Nat /\ Len(s.names) \in Nat
    BY <2>1 DEF Day
  <2>3. \A i \in DOMAIN s.names : s.names[i] <= day /\ (s.names[i] \in Files(t) \/ s.names[i] \in LongDays)
    BY <1>2, <1>12, <2>1, <2>2 DEF Day
  <2>4. CASE s.file < day
    <3>1. \A i \in DOMAIN s.names : s.names[i] < day
      BY <1>2, <2>1, <2>2, <2>4 DEF Day
    <3>2. Own(t) \subseteq Own(s) \cup {day}
      BY <1>12 DEF Own
    <3> QED
      BY <1>8, <1>11, <1>12, <2>1, <2>3, <3>1, <3>2 DEF Queue
  <2>5. CASE s.file = day
    <3>1. ~Settled(s)
      <4>1. ASSUME Settled(s) PROVE FALSE
        <5>1. (s.file + 1) * DayHours <= s.rot /\ s.rot \in Nat /\ time \in Nat /\ time \in Hours
          BY <1>1, <4>1, SinkFields, TimesType DEF Settled
        <5>2. (s.file + 1) * DayHours \in Nat
          BY <1>2, Multiples, TimeConstants
        <5>3. (s.file + 1) * DayHours <= time
          BY <5>1, <5>2
        <5>4. s.file < Date(time)
          BY <1>2, <5>1, <5>3, DayOver
        <5> QED
          BY <1>2, <2>5, <5>4
      <4> QED
        BY <4>1
    <3>2. Settled(t) /\ day \in LongDays
      BY <1>2, <1>6, <1>8, <1>12, <2>5 DEF Settled
    <3>3. \A i \in DOMAIN s.names : s.names[i] < day \/ i + 2 > Len(s.names)
      BY <2>1, <2>2, <2>5, <3>1
    <3>4. Own(t) \subseteq Own(s) \cup {day}
      BY <1>12 DEF Own
    <3> QED
      BY <1>8, <1>11, <1>12, <2>1, <2>3, <3>2, <3>3, <3>4 DEF Queue
  <2> QED
    BY <1>2, <2>4, <2>5 DEF Day
<1> QED
  BY <1>4, <1>6, <1>8, <1>9, <1>10, <1>12, <1>13, <1>14 DEF Sound

\* Records are appended to the open file, whether or not its buffer is emptied.
LEMMA WriteContent ==
    ASSUME NEW s \in Sinks, Opened(s), s.file # None, NEW rec \in Rec, NEW spill \in BOOLEAN,
           NEW t, t = Write(s, rec, spill)
    PROVE  /\ Files(t) = Files(s)
           /\ \A d \in Files(s) : Content(t, d) = IF d = s.file THEN Append(Content(s, d), rec)
                                                  ELSE Content(s, d)
           /\ Stored(s) \subseteq Stored(t)
           /\ Written(t) = Written(s) \cup {rec}
<1>1. s.file \in Files(s)
  BY DEF Opened
<1>2. PICK f : f = s.file
  OBVIOUS
<1>3. s.buf \in Seq(Rec) /\ s.disk[f] \in Seq(Rec)
  BY <1>1, <1>2, SinkFields, LogsType DEF Files, Lines
<1>4. SameQueue(t, s) /\ t.file = f /\ t.gone = s.gone /\ t \in Sinks
  BY <1>1, <1>2, WriteFields DEF SameQueue
<1>5. CASE t.disk = s.disk /\ t.buf = Append(s.buf, rec)
  <2>1. Files(t) = Files(s) /\ Stored(t) = Stored(s)
    BY <1>4, <1>5 DEF Files, Stored
  <2>2. PICK q : q = <<rec>>
    OBVIOUS
  <2>3. t.buf = s.buf \o q /\ q \in Seq(Rec) /\ Range(q) = {rec}
    BY <1>3, <1>5, <2>2, AppendIsConcat DEF Range
  <2>4. \A d \in Files(s) : d # f => Content(t, d) = Content(s, d)
    BY <1>2, <1>4, <1>5 DEF Content
  <2>5. Content(t, f) = Append(Content(s, f), rec)
    <3>1. Content(t, f) = t.disk[f] \o t.buf /\ Content(s, f) = s.disk[f] \o s.buf
      BY <1>2, <1>4 DEF Content
    <3>2. s.disk[f] \o (s.buf \o q) = (s.disk[f] \o s.buf) \o q
      <4>1. PICK x, y : x = s.disk[f] /\ y = s.buf
        OBVIOUS
      <4>2. x \in Seq(Rec) /\ y \in Seq(Rec)
        BY <1>3, <4>1
      <4>3. (x \o y) \o q = x \o (y \o q)
        BY <2>3, <4>2, ConcatAssociative
      <4> QED
        BY <4>1, <4>3
    <3>3. s.disk[f] \o s.buf \in Seq(Rec)
      BY <1>3, ConcatProperties
    <3>4. Append(s.disk[f] \o s.buf, rec) = (s.disk[f] \o s.buf) \o q
      BY <2>2, <3>3, AppendIsConcat
    <3> QED
      BY <1>5, <2>3, <3>1, <3>2, <3>4
  <2>6. Range(s.buf \o q) = Range(s.buf) \cup Range(q)
    BY <1>3, <2>3, RangeConcatenation
  <2>7. Range(t.buf) = Range(s.buf) \cup {rec}
    BY <2>3, <2>6
  <2> QED
    BY <1>2, <2>1, <2>4, <2>5, <2>7 DEF Written
<1>6. CASE \E u \in Sinks : /\ Emptied(u, s) /\ u.file = s.file /\ u.gone = s.gone
                            /\ t.disk = u.disk /\ t.buf = <<rec>>
  <2>1. PICK u \in Sinks : /\ Emptied(u, s) /\ u.file = s.file /\ u.gone = s.gone
                           /\ t.disk = u.disk /\ t.buf = <<rec>>
    BY <1>6
  <2>2. (\A d \in Files(s) : Content(u, d) = Content(s, d)) /\ Stored(u) = Written(s)
    BY <2>1, EmptiedContent
  <2>3. Files(u) = Files(s) /\ u.buf = <<>>
    BY <2>1 DEF Emptied
  <2>4. Files(t) = Files(s) /\ Stored(t) = Stored(u)
    BY <1>4, <2>1, <2>3 DEF Files, Stored
  <2>5. u.disk[f] \in Seq(Rec) /\ u.disk[f] = Content(s, f)
    <3>1. f \in Files(u) /\ f = u.file
      BY <1>1, <1>2, <2>1, <2>3
    <3>2. u.disk[f] \in Seq(Rec)
      BY <2>1, <3>1, SinkFields, LogsType DEF Files, Lines
    <3>3. u.disk[f] \o <<>> = u.disk[f]
      BY <3>2, ConcatEmptySeq
    <3> QED
      BY <1>1, <1>2, <2>2, <2>3, <3>1, <3>2, <3>3 DEF Content
  <2>6. Content(t, f) = Append(Content(s, f), rec)
    <3>1. Content(t, f) = u.disk[f] \o <<rec>>
      BY <1>4, <2>1 DEF Content
    <3> QED
      BY <2>5, <3>1, AppendIsConcat
  <2>7. \A d \in Files(s) : d # f => Content(t, d) = Content(s, d)
    BY <1>2, <1>4, <2>1, <2>2 DEF Content
  <2>8. Range(t.buf) = {rec}
    BY <2>1 DEF Range
  <2> QED
    BY <1>2, <2>2, <2>4, <2>6, <2>7, <2>8 DEF Written
<1> QED
  BY <1>1, <1>5, <1>6, WriteFields

\* write() of a record that is newer than those of its thread
LEMMA WriteSound ==
    ASSUME NEW n \in Nat, NEW s, Sound(s, n), s.file # None, NEW rec \in Rec, NEW spill \in BOOLEAN,
           rec.time <= n, InPlace(rec.time, s.opened[s.file]),
           \A r \in Written(s) : r.by = rec.by => r.no < rec.no,
           NEW t, t = Write(s, rec, spill)
    PROVE  /\ Sound(t, n) /\ SameQueue(t, s) /\ t.file = s.file /\ Files(t) = Files(s)
           /\ Stored(s) \subseteq Stored(t)
           /\ Written(t) = Written(s) \cup {rec}
<1>1. s \in Sinks /\ s.file \in Files(s) /\ Opened(s)
  BY DEF Sound, Opened
<1>2. /\ Files(t) = Files(s)
      /\ \A d \in Files(s) : Content(t, d) = IF d = s.file THEN Append(Content(s, d), rec)
                                             ELSE Content(s, d)
      /\ Stored(s) \subseteq Stored(t)
      /\ Written(t) = Written(s) \cup {rec}
  BY <1>1, WriteContent
<1>3. SameQueue(t, s) /\ t.file = s.file /\ t \in Sinks
  BY <1>1, WriteFields DEF SameQueue
<1>5. Queue(t)
  BY <1>2, <1>3 DEF Sound, Queue, SameQueue, Own, Settled
<1>6. Opened(t)
  BY <1>1, <1>2, <1>3 DEF Opened, SameQueue
<1>7. \A d \in Files(s) : Content(s, d) \in Seq(Rec) /\ Content(t, d) \in Seq(Rec)
                          /\ Range(Content(s, d)) \subseteq Written(s)
  BY <1>1, <1>2, <1>3, ContentType
\* An entry of a file was there or is the new one, at the end.
<1>8. ASSUME NEW d \in Files(s), NEW i \in DOMAIN Content(t, d)
      PROVE  /\ i \in Nat
             /\ \/ i \in DOMAIN Content(s, d) /\ Content(t, d)[i] = Content(s, d)[i]
                   /\ Content(t, d)[i] \in Written(s)
                \/ d = s.file /\ i = Len(Content(t, d)) /\ Content(t, d)[i] = rec
  <2>1. PICK x, y : x = Content(s, d) /\ y = Content(t, d)
    OBVIOUS
  <2>2. x \in Seq(Rec) /\ y \in Seq(Rec) /\ (y = x \/ (d = s.file /\ y = Append(x, rec)))
    BY <1>2, <1>7, <2>1
  <2>3. i \in DOMAIN y
    BY <2>1
  <2>4. /\ i \in Nat
        /\ \/ i \in DOMAIN x /\ y[i] = x[i]
           \/ d = s.file /\ i = Len(y) /\ y[i] = rec
    BY <2>2, <2>3
  <2>5. i \in DOMAIN x => x[i] \in Written(s)
    BY <1>7, <2>1 DEF Range
  <2> QED
    BY <2>1, <2>4, <2>5
<1>9. Timely(t) /\ Dated(t, n)
  <2> SUFFICES ASSUME NEW d \in Files(t), NEW r \in Range(Content(t, d))
               PROVE  InPlace(r.time, t.opened[d]) /\ r.time <= n
    <3>1. Files(t) \subseteq DOMAIN t.opened
      BY <1>2, <1>3 DEF Sound, Dated, SameQueue
    <3>2. \A d \in Files(t) : d <= Date(t.opened[d]) /\ t.opened[d] <= n
      BY <1>2, <1>3 DEF Sound, Dated, SameQueue
    <3> QED
      BY <3>1, <3>2 DEF Timely, Dated
  <2>1. PICK i \in DOMAIN Content(t, d) : r = Content(t, d)[i]
    BY DEF Range
  <2>2. d \in Files(s) /\ t.opened = s.opened
    BY <1>2, <1>3 DEF SameQueue
  <2>3. CASE i \in DOMAIN Content(s, d) /\ Content(t, d)[i] = Content(s, d)[i]
    BY <2>1, <2>2, <2>3 DEF Sound, Timely, Dated, Range
  <2>4. CASE d = s.file /\ Content(t, d)[i] = rec
    BY <2>1, <2>2, <2>4
  <2> QED
    BY <1>8, <2>2, <2>3, <2>4
<1>10. Ordered(t)
  <2> SUFFICES ASSUME NEW d \in Files(t), NEW e \in Files(t),
                      NEW i \in DOMAIN Content(t, d), NEW j \in DOMAIN Content(t, e),
                      Content(t, d)[i].by = Content(t, e)[j].by,
                      d < e \/ (d = e /\ i < j)
               PROVE  Content(t, d)[i].no < Content(t, e)[j].no
    BY DEF Ordered
  <2>1. d \in Files(s) /\ e \in Files(s)
    BY <1>2
  <2>2. \/ i \in DOMAIN Content(s, d) /\ Content(t, d)[i] = Content(s, d)[i]
           /\ Content(t, d)[i] \in Written(s)
        \/ d = s.file /\ i = Len(Content(t, d)) /\ Content(t, d)[i] = rec
    BY <1>8, <2>1
  <2>3. \/ j \in DOMAIN Content(s, e) /\ Content(t, e)[j] = Content(s, e)[j]
           /\ Content(t, e)[j] \in Written(s)
        \/ e = s.file /\ j = Len(Content(t, e)) /\ Content(t, e)[j] = rec
    BY <1>8, <2>1
  <2>4. ~(d = s.file /\ i = Len(Content(t, d)))
    <3>1. d \in Nat /\ e \in Nat
      BY <1>1, <2>1, FileDays
    <3>2. d = s.file => e <= d
      BY <1>1, <2>1 DEF Opened
    <3>3. PICK z : z = Content(t, e)
      OBVIOUS
    <3>4. z \in Seq(Rec) /\ j \in DOMAIN z
      BY <1>7, <2>1, <3>3
    <3>5. j <= Len(z) /\ j \in Nat /\ Len(z) \in Nat
      BY <3>4
    <3>6. i \in Nat
      BY <1>8, <2>1
    <3>7. CASE d < e
      BY <3>1, <3>2, <3>7
    <3>8. CASE d = e /\ i < j
      BY <3>3, <3>5, <3>6, <3>8
    <3> QED
      BY <3>7, <3>8
  <2>5. CASE j \in DOMAIN Content(s, e) /\ Content(t, e)[j] = Content(s, e)[j]
    BY <2>1, <2>2, <2>4, <2>5 DEF Sound, Ordered
  <2>6. CASE Content(t, e)[j] = rec
    BY <2>2, <2>4, <2>6
  <2> QED
    BY <2>3, <2>5, <2>6
<1> QED
  BY <1>2, <1>3, <1>5, <1>6, <1>9, <1>10 DEF Sound

\* A sequence of days in order has as many days as entries.
LEMMA IncreasingRange ==
    ASSUME NEW q \in Seq(Day), \A i, j \in DOMAIN q : i < j => q[i] < q[j]
    PROVE  IsFiniteSet(Range(q)) /\ Cardinality(Range(q)) = Len(q)
<1>1. DOMAIN q = 1 .. Len(q) /\ Len(q) \in Nat
  OBVIOUS
<1>2. IsFiniteSet(1 .. Len(q)) /\ Cardinality(1 .. Len(q)) = Len(q)
  BY <1>1, FS_Interval
<1>3. q \in Surjection(1 .. Len(q), Range(q))
  BY <1>1 DEF Surjection, Range
<1>4. \A i, j \in 1 .. Len(q) : q[i] = q[j] => i = j
  <2> SUFFICES ASSUME NEW i \in 1 .. Len(q), NEW j \in 1 .. Len(q), i # j
               PROVE  q[i] # q[j]
    OBVIOUS
  <2>1. q[i] \in Nat /\ q[j] \in Nat
    BY <1>1 DEF Day
  <2>2. i < j \/ j < i
    BY <1>1
  <2>3. q[i] < q[j] \/ q[j] < q[i]
    BY <1>1, <2>2
  <2> QED
    BY <2>1, <2>3
<1>5. q \in Injection(1 .. Len(q), Range(q))
  BY <1>3, <1>4 DEF Surjection, Injection, IsInjective
<1> QED
  BY <1>2, <1>3, <1>5, FS_Surjection

\* A sequence has no more values than entries.
LEMMA FewValues ==
    ASSUME NEW q \in Seq(Day)
    PROVE  IsFiniteSet(Range(q)) /\ Cardinality(Range(q)) <= Len(q)
<1>1. DOMAIN q = 1 .. Len(q) /\ Len(q) \in Nat
  OBVIOUS
<1>2. IsFiniteSet(1 .. Len(q)) /\ Cardinality(1 .. Len(q)) = Len(q)
  BY <1>1, FS_Interval
<1>3. q \in Surjection(1 .. Len(q), Range(q))
  BY <1>1 DEF Surjection, Range
<1> QED
  BY <1>2, <1>3, FS_Surjection

\* There are finitely many files.
LEMMA FilesFinite ==
    ASSUME NEW n \in Times, NEW s, Sound(s, n)
    PROVE  IsFiniteSet(Files(s))
<1>1. Files(s) \in SUBSET Nat /\ Date(n) \in Nat /\ \A d \in Files(s) : d <= Date(n)
  BY NoLaterFile, TimesType
<1> QED
  BY <1>1, FS_BoundedSetOfNaturals

\* What is removed is older than the open file, and has max_files_ newer ones
\* unless the clock went back on the day of a queued file.
Recent(t, s) ==
    \A d \in Files(s) \ Files(t) :
        /\ d < s.file
        /\ Range(s.names) \cap LongDays = {} => Cardinality({e \in Files(t) : e > d}) >= MaxFiles

\* delete_old_() at the end of a rotation
LEMMA DeleteSound ==
    ASSUME NEW n \in Times, NEW s, Sound(s, n), s.file # None, s.lock # None,
           NEW t, t = [DeleteOld(s) EXCEPT !.lock = None]
    PROVE  /\ Sound(t, n) /\ t.lock = None
           /\ t.file = s.file /\ t.rot = s.rot /\ t.opened = s.opened /\ t.since = s.since
           /\ Stored(t) = Stored(s) /\ Written(t) = Written(s)
           /\ Recent(t, s)
<1>1. s \in Sinks /\ s.file \in Files(s) /\ Opened(s)
  BY DEF Sound, Opened
<1>2. /\ Len(s.names) <= MaxFiles /\ InOrder(s.names)
      /\ \A i \in DOMAIN s.names :
            /\ s.names[i] <= s.file /\ (s.names[i] \in Files(s) \/ s.names[i] \in LongDays)
            /\ s.names[i] < s.file \/ (s.file \in LongDays /\ Settled(s) /\ i + 2 > Len(s.names))
      /\ s.since # None => Own(s) \subseteq Range(s.names) \cup {s.file}
  BY DEF Sound, Queue
<1>3. /\ s.names \in Seq(Day) /\ s.file \in Day /\ Files(s) \subseteq Nat
      /\ MaxFiles \in Nat /\ MaxFiles >= 3
  BY <1>1, SinkFields, FileDays, TimeConstants DEF Day
<1>4. PICK u : u = DeleteOld(s)
  OBVIOUS
<1>5. /\ u \in Sinks
      /\ u.file = s.file /\ u.buf = s.buf /\ u.rot = s.rot /\ u.lock = s.lock
      /\ u.opened = s.opened /\ u.since = s.since
      /\ \/ /\ ~Full(s.names) /\ u.names = Append(s.names, s.file)
            /\ u.disk = s.disk /\ u.gone = s.gone
         \/ /\ Full(s.names) /\ s.names # <<>>
            /\ u.names = Append(Tail(s.names), s.file)
            /\ Files(u) = Files(s) \ {Head(s.names)}
            /\ \A d \in Files(u) : u.disk[d] = s.disk[d]
            /\ u.gone = s.gone \cup UNION {Range(s.disk[d]) : d \in Files(s) \ Files(u)}
  BY <1>1, <1>2, <1>3, <1>4, DeleteOldFields
<1>6. t = [u EXCEPT !.lock = None]
  BY <1>4
<1>7. /\ t \in Sinks /\ t.lock = None
      /\ t.disk = u.disk /\ t.file = s.file /\ t.buf = s.buf /\ t.names = u.names
      /\ t.rot = s.rot /\ t.since = s.since /\ t.opened = s.opened /\ t.gone = u.gone
  BY <1>5, <1>6 DEF Sinks
<1>8. Files(t) = Files(u)
  BY <1>7 DEF Files
<1>9. /\ Files(t) \subseteq Files(s)
      /\ \A d \in Files(t) : Content(t, d) = Content(s, d)
  <2>1. Files(t) \subseteq Files(s) /\ \A d \in Files(t) : t.disk[d] = s.disk[d]
    <3>1. CASE ~Full(s.names)
      BY <1>5, <1>7, <3>1 DEF Files
    <3>2. CASE Full(s.names)
      BY <1>5, <1>7, <1>8, <3>2
    <3> QED
      BY <3>1, <3>2
  <2> QED
    BY <1>7, <2>1 DEF Content
<1>10. Dated(t, n)
  BY <1>7, <1>9 DEF Sound, Dated
<1>11. Timely(t) /\ Ordered(t)
  BY <1>7, <1>9 DEF Sound, Timely, Ordered
<1>12. Stored(t) = Stored(s) /\ Written(t) = Written(s)
  <2>1. Stored(t) = Stored(s)
    <3>1. CASE ~Full(s.names)
      BY <1>5, <1>7, <3>1 DEF Stored, Files
    <3>2. CASE Full(s.names)
      <4>1. /\ Files(t) \subseteq Files(s)
            /\ t.gone = s.gone \cup UNION {Range(s.disk[d]) : d \in Files(s) \ Files(t)}
            /\ \A d \in Files(t) : t.disk[d] = s.disk[d]
        BY <1>5, <1>7, <1>8, <3>2
      <4>2. ASSUME NEW x PROVE x \in Stored(t) <=> x \in Stored(s)
        <5>1. x \in Stored(t) <=> x \in t.gone \/ \E d \in Files(t) : x \in Range(t.disk[d])
          BY DEF Stored
        <5>2. x \in Stored(s) <=> x \in s.gone \/ \E d \in Files(s) : x \in Range(s.disk[d])
          BY DEF Stored
        <5>3. x \in t.gone <=> x \in s.gone \/ \E d \in Files(s) \ Files(t) : x \in Range(s.disk[d])
          BY <4>1
        <5> QED
          BY <4>1, <5>1, <5>2, <5>3
      <4> QED
        BY <4>2
    <3> QED
      BY <3>1, <3>2
  <2> QED
    BY <1>7, <2>1 DEF Written
\* The names stay in order.
<1>13. /\ Queue(t) /\ s.file \in Files(t) /\ Recent(t, s)
  <2>1. PICK q, f, F : q = s.names /\ f = s.file /\ F = Files(t)
    OBVIOUS
  <2>2. /\ q \in Seq(Day) /\ f \in Day /\ f \in Files(s) /\ Len(q) <= MaxFiles
        /\ InOrder(q)
        /\ \A i \in DOMAIN q :
              /\ q[i] <= f /\ (q[i] \in Files(s) \/ q[i] \in LongDays)
              /\ q[i] < f \/ (f \in LongDays /\ Settled(s) /\ i + 2 > Len(q))
        /\ s.since # None => Own(s) \subseteq Range(q) \cup {f}
    BY <1>1, <1>2, <1>3, <2>1
  <2>3. Own(t) \subseteq Own(s) \cap F
    BY <1>7, <1>9, <2>1 DEF Own
  <2>4. Settled(t) <=> Settled(s)
    BY <1>7 DEF Settled
  <2>5. CASE ~Full(s.names)
    <3>1. PICK p : p = Append(q, f)
      OBVIOUS
    <3>2. t.names = p /\ F = Files(s) /\ Len(q) # MaxFiles
      BY <1>5, <1>7, <2>1, <2>5, <3>1 DEF Files, Full
    <3>3. /\ DOMAIN p = DOMAIN q \cup {Len(q) + 1} /\ Len(q) + 1 \notin DOMAIN q
          /\ p[Len(q) + 1] = f /\ \A i \in DOMAIN q : p[i] = q[i]
          /\ Len(p) = Len(q) + 1 /\ Len(q) \in Nat /\ \A i \in DOMAIN q : i \in 1 .. Len(q)
      BY <2>2, <3>1
    <3>4. Range(p) = Range(q) \cup {f}
      BY <3>3 DEF Range
    <3>5. Len(p) <= MaxFiles
      BY <1>3, <2>2, <3>2, <3>3
    <3>6. InOrder(p)
      <4> SUFFICES ASSUME NEW i \in DOMAIN p, NEW j \in DOMAIN p, i < j
                   PROVE  p[i] < p[j] \/ (p[i] = p[j] /\ p[i] \in LongDays)
        BY DEF InOrder
      <4>1. CASE j \in DOMAIN q
        <5>1. i \in DOMAIN q
          BY <3>3, <4>1
        <5> QED
          BY <2>2, <3>3, <4>1, <5>1 DEF InOrder
      <4>2. CASE j = Len(q) + 1
        <5>1. i \in DOMAIN q
          BY <3>3, <4>2
        <5>2. q[i] <= f /\ (q[i] < f \/ f \in LongDays) /\ q[i] \in Nat /\ f \in Nat
          BY <2>2, <5>1 DEF Day
        <5> QED
          BY <3>3, <4>2, <5>1, <5>2
      <4> QED
        BY <3>3, <4>1, <4>2
    <3>7. \A i \in DOMAIN p : p[i] <= f /\ (p[i] \in F \/ p[i] \in LongDays)
      BY <2>2, <3>2, <3>3 DEF Day
    <3>8. Settled(t) \/ \A i \in DOMAIN p : i + 2 <= Len(p) => p[i] < f
      <4> SUFFICES ASSUME ~Settled(s), NEW i \in DOMAIN p, i + 2 <= Len(p) PROVE p[i] < f
        BY <2>4
      <4>1. i \in DOMAIN q
        BY <3>3
      <4> QED
        BY <2>2, <3>3, <4>1
    <3>9. t.since # None => Own(t) \subseteq Range(p)
      BY <1>7, <2>2, <2>3, <3>4
    <3>10. Queue(t)
      BY <1>7, <2>1, <3>2, <3>5, <3>6, <3>7, <3>8, <3>9 DEF Queue
    <3>11. Recent(t, s)
      BY <2>1, <3>2 DEF Recent
    <3> QED
      BY <2>1, <2>2, <3>2, <3>10, <3>11
  <2>6. CASE Full(s.names)
    <3>1. PICK h, p : h = Head(q) /\ p = Append(Tail(q), f)
      OBVIOUS
    <3>2. /\ q # <<>> /\ Len(q) = MaxFiles /\ t.names = p
          /\ F = Files(s) \ {h}
      BY <1>5, <1>7, <1>8, <2>1, <2>6, <3>1 DEF Full
    <3>3. /\ p \in Seq(Day) /\ Len(p) = Len(q)
          /\ \A i \in 1 .. Len(q) - 1 : p[i] = q[i + 1]
          /\ p[Len(q)] = f
      BY <2>2, <3>1, <3>2
    <3>4. h = q[1] /\ 1 \in DOMAIN q /\ h < f /\ h \in Nat /\ f \in Nat
      <4>1. h = q[1] /\ 1 \in DOMAIN q /\ ~(1 + 2 > Len(q))
        BY <1>3, <2>2, <3>1, <3>2
      <4> QED
        BY <2>2, <4>1 DEF Day
    <3>5. \A i \in DOMAIN p : \/ i \in 1 .. Len(q) - 1 /\ p[i] = q[i + 1] /\ i + 1 \in DOMAIN q
                              \/ i = Len(q) /\ p[i] = f
      BY <1>3, <3>2, <3>3
    <3>6. Len(p) <= MaxFiles /\ f \in F
      BY <1>3, <2>2, <3>2, <3>3, <3>4
    <3>7. \A i \in DOMAIN p : p[i] \in Nat /\ p[i] <= f /\ (p[i] \in F \/ p[i] \in LongDays)
      <4> SUFFICES ASSUME NEW i \in DOMAIN p
                   PROVE  p[i] \in Nat /\ p[i] <= f /\ (p[i] \in F \/ p[i] \in LongDays)
        OBVIOUS
      <4>1. CASE i \in 1 .. Len(q) - 1 /\ p[i] = q[i + 1] /\ i + 1 \in DOMAIN q
        <5>1. 1 < i + 1
          BY <4>1
        <5>2. q[i + 1] \in Nat /\ q[i + 1] <= f /\ (q[i + 1] \in Files(s) \/ q[i + 1] \in LongDays)
          BY <2>2, <4>1 DEF Day
        <5>3. q[i + 1] = h => q[i + 1] \in LongDays
          BY <2>2, <3>4, <4>1, <5>1, <5>2 DEF InOrder
        <5> QED
          BY <3>2, <4>1, <5>2, <5>3
      <4>2. CASE p[i] = f
        BY <3>4, <3>6, <4>2
      <4> QED
        BY <3>5, <4>1, <4>2
    <3>8. InOrder(p)
      <4> SUFFICES ASSUME NEW i \in DOMAIN p, NEW j \in DOMAIN p, i < j
                   PROVE  p[i] < p[j] \/ (p[i] = p[j] /\ p[i] \in LongDays)
        BY DEF InOrder
      <4>1. i \in 1 .. Len(q) - 1 /\ p[i] = q[i + 1] /\ i + 1 \in DOMAIN q
        BY <1>3, <3>2, <3>3, <3>5
      <4>2. CASE j \in 1 .. Len(q) - 1 /\ p[j] = q[j + 1] /\ j + 1 \in DOMAIN q
        <5>1. i + 1 < j + 1
          BY <4>1, <4>2
        <5> QED
          BY <2>2, <4>1, <4>2, <5>1 DEF InOrder
      <4>3. CASE p[j] = f
        <5>1. q[i + 1] \in Nat /\ q[i + 1] <= f /\ (q[i + 1] < f \/ f \in LongDays)
          BY <2>2, <4>1 DEF Day
        <5> QED
          BY <3>4, <4>1, <4>3, <5>1
      <4> QED
        BY <3>5, <4>2, <4>3
    <3>9. Settled(t) \/ \A i \in DOMAIN p : i + 2 <= Len(p) => p[i] < f
      <4> SUFFICES ASSUME ~Settled(s), NEW i \in DOMAIN p, i + 2 <= Len(p) PROVE p[i] < f
        BY <2>4
      <4>1. p[i] = q[i + 1] /\ i + 1 \in DOMAIN q
        BY <1>3, <3>2, <3>3, <3>5
      <4> QED
        BY <2>2, <4>1
    <3>10. f \in Range(p) /\ \A x \in Range(q) : x # h => x \in Range(p)
      <4>1. f \in Range(p)
        BY <1>3, <3>2, <3>3 DEF Range
      <4>2. \A x \in Range(q) : x # h => x \in Range(p)
        <5> SUFFICES ASSUME NEW i \in DOMAIN q, q[i] # h PROVE q[i] \in Range(p)
          BY DEF Range
        <5>1. i \in 1 .. Len(q) /\ i # 1
          BY <2>2, <3>4
        <5>2. i - 1 \in 1 .. Len(q) - 1 /\ i - 1 \in DOMAIN p /\ (i - 1) + 1 = i
          BY <2>2, <3>3, <5>1
        <5> QED
          BY <3>3, <5>2 DEF Range
      <4> QED
        BY <4>1, <4>2
    <3>11. t.since # None => Own(t) \subseteq Range(p)
      BY <1>7, <2>2, <2>3, <3>2, <3>10
    <3>12. Queue(t)
      BY <1>7, <2>1, <3>2, <3>6, <3>7, <3>8, <3>9, <3>11 DEF Queue
    <3>13. Recent(t, s)
      <4> SUFFICES ASSUME Range(q) \cap LongDays = {}
                   PROVE  Cardinality({e \in F : e > h}) >= MaxFiles
        BY <2>1, <3>2, <3>4 DEF Recent
      <4>1. \A i \in DOMAIN q : q[i] \notin LongDays
        BY DEF Range
      <4>2. \A i \in DOMAIN q : q[i] \in Nat /\ q[i] < f
        <5> SUFFICES ASSUME NEW i \in DOMAIN q PROVE q[i] \in Nat /\ q[i] < f
          OBVIOUS
        <5>1. q[i] \in Nat /\ q[i] <= f /\ (q[i] < f \/ f \in LongDays) /\ q[i] \notin LongDays
          BY <2>2, <4>1 DEF Day
        <5> QED
          BY <3>4, <5>1
      <4>3. \A i, j \in DOMAIN p : i < j => p[i] < p[j]
        <5> SUFFICES ASSUME NEW i \in DOMAIN p, NEW j \in DOMAIN p, i < j PROVE p[i] < p[j]
          OBVIOUS
        <5>1. p[i] = q[i + 1] /\ i + 1 \in DOMAIN q
          BY <1>3, <3>2, <3>3, <3>5
        <5> QED
          BY <3>8, <4>1, <5>1 DEF InOrder
      <4>4. \A i \in DOMAIN p : p[i] \in F /\ p[i] > h
        <5> SUFFICES ASSUME NEW i \in DOMAIN p PROVE p[i] \in F /\ p[i] > h
          OBVIOUS
        <5>1. CASE i \in 1 .. Len(q) - 1 /\ p[i] = q[i + 1] /\ i + 1 \in DOMAIN q
          <6>1. 1 < i + 1 /\ q[i + 1] \notin LongDays /\ q[i + 1] \in Nat
            BY <4>1, <4>2, <5>1
          <6>2. q[1] < q[i + 1] \/ (q[1] = q[i + 1] /\ q[1] \in LongDays)
            BY <2>2, <3>4, <5>1, <6>1 DEF InOrder
          <6> QED
            BY <3>4, <3>7, <5>1, <6>1, <6>2
        <5>2. CASE p[i] = f
          BY <3>4, <3>6, <5>2
        <5> QED
          BY <3>5, <5>1, <5>2
      <4>5. IsFiniteSet(Range(p)) /\ Cardinality(Range(p)) = MaxFiles
        BY <3>2, <3>3, <4>3, IncreasingRange
      <4>6. IsFiniteSet(Files(s))
        BY FilesFinite
      <4>7. PICK N : N = {e \in F : e > h}
        OBVIOUS
      <4>8. Range(p) \in SUBSET N /\ N \in SUBSET Files(s)
        BY <3>2, <4>4, <4>7 DEF Range
      <4>9. IsFiniteSet(N)
        BY <4>6, <4>8, FS_Subset
      <4>10. Cardinality(Range(p)) <= Cardinality(N) /\ Cardinality(N) \in Nat
        BY <4>8, <4>9, FS_Subset, FS_CardinalityType
      <4> QED
        BY <1>3, <4>5, <4>7, <4>10
    <3> QED
      BY <2>1, <3>6, <3>12, <3>13
  <2> QED
    BY <2>5, <2>6
<1>15. Opened(t)
  BY <1>1, <1>7, <1>9, <1>13 DEF Opened
<1> QED
  BY <1>7, <1>10, <1>11, <1>12, <1>13, <1>15 DEF Sound

\* The least-number principle.
LEMMA LeastNumber ==
    ASSUME NEW S \in SUBSET Nat, S # {}
    PROVE  \E n \in S : \A m \in S : n <= m
<1> DEFINE Less == {p \in Nat \X Nat : p[1] < p[2]}
<1>1. IsWellFoundedOn(Less, Nat)
  BY NatLessThanWellFounded, Zenon DEF OpToRel
<1> HIDE DEF Less
<1>2. PICK n \in S : \A m \in S : ~(<<m, n>> \in Less)
  BY <1>1, WFMin, S \subseteq Nat
<1>3. \A m \in S : ~(m < n)
  BY <1>2 DEF Less
<1> QED
  BY <1>3

\* A bounded set of numbers has a maximum.
LEMMA Maximum ==
    ASSUME NEW b \in Nat, NEW K \in SUBSET (0 .. b), 0 \in K
    PROVE  Max(K) \in K /\ \A k \in K : Max(K) >= k
<1> DEFINE U == {u \in Nat : \A k \in K : k <= u}
<1>1. b \in U
  OBVIOUS
<1>2. PICK u \in U : \A m \in U : u <= m
  BY <1>1, LeastNumber
<1>3. u \in K
  <2> SUFFICES ASSUME u \notin K PROVE FALSE
    OBVIOUS
  <2>1. \A k \in K : k \in Nat /\ k <= u /\ k # u
    BY <1>2
  <2>2. u \in Nat /\ u # 0 /\ u - 1 \in Nat
    BY <1>2, <2>1
  <2>3. u - 1 \in U
    BY <2>1, <2>2
  <2> QED
    BY <1>2, <2>2, <2>3
<1>4. \A k \in K : u >= k
  BY <1>2
<1>5. \E x \in K : \A y \in K : x >= y
  BY <1>3, <1>4
<1> QED
  BY <1>5 DEF Max

\* The hour some days of 24 hours before n
Ago(n, j) == n - j * DayHours

(***************************************************************************)
(* init_filenames_q_() lists the dates of today and of 24 hours ago, and   *)
(* so on: in order, twice only if the clock went back, and without a gap   *)
(* but for short days.                                                     *)
(***************************************************************************)
LEMMA InitNamesFields ==
    ASSUME NEW n \in Times, NEW s, NEW q, q = InitNames(s, n)
    PROVE  \E m \in 0 .. MaxFiles :
             /\ q = [i \in 1 .. m |-> Date(Ago(n, m - i))]
             /\ \A i \in 1 .. m : Ago(n, m - i) \in Hours /\ Date(Ago(n, m - i)) \in Files(s)
             /\ m = 0 => Date(n) \notin Files(s)
<1>1. /\ n \in Nat /\ n \in Hours /\ Hours = 0 .. MaxHour /\ MaxHour \in Nat
      /\ DayHours \in Nat /\ MaxFiles \in Nat /\ MaxFiles >= 3
  BY TimesType, TimeConstants
<1> DEFINE found(j) == Ago(n, j) >= 0 /\ Date(Ago(n, j)) \in Files(s)
           K == {k \in 0 .. MaxFiles : \A j \in 0 .. k - 1 : found(j)}
           m == Max(K)
<1>2. K \in SUBSET (0 .. MaxFiles) /\ 0 \in K
  BY <1>1
<1>3. m \in K /\ \A k \in K : m >= k
  BY <1>1, <1>2, Maximum
<1>4. q = [i \in 1 .. m |-> Date(Ago(n, m - i))]
  BY DEF InitNames, Ago
<1>5. m \in 0 .. MaxFiles /\ \A j \in 0 .. m - 1 : found(j)
  BY <1>3
<1>6. ASSUME NEW i \in 1 .. m
      PROVE  Ago(n, m - i) \in Hours /\ Date(Ago(n, m - i)) \in Files(s)
  <2>1. m - i \in 0 .. m - 1 /\ m - i \in Nat
    BY <1>5
  <2>2. PICK j : j = m - i
    OBVIOUS
  <2>3. found(j) /\ j \in Nat
    BY <1>5, <2>1, <2>2
  <2>4. j * DayHours \in Nat
    BY <1>1, <2>3, Multiples
  <2>5. Ago(n, j) \in Hours
    BY <1>1, <2>3, <2>4 DEF Ago
  <2> QED
    BY <2>2, <2>3, <2>5
<1>7. ASSUME m = 0, Date(n) \in Files(s) PROVE FALSE
  <2>1. 0 * DayHours = 0
    BY <1>1
  <2>2. Ago(n, 0) = n
    BY <1>1, <2>1 DEF Ago
  <2>3. found(0)
    BY <1>1, <1>7, <2>2
  <2>4. 1 \in K
    <3>1. \A j \in 0 .. 1 - 1 : j = 0
      OBVIOUS
    <3> QED
      BY <1>1, <2>3, <3>1
  <2> QED
    BY <1>3, <1>7, <2>4
<1> HIDE DEF m
<1> QED
  BY <1>4, <1>5, <1>6, <1>7

\* Two of these dates
LEMMA AgoDates ==
    ASSUME NEW n \in Times, NEW i \in Nat, NEW j \in Nat, i < j,
           Ago(n, i) \in Hours, Ago(n, j) \in Hours
    PROVE  /\ Date(Ago(n, j)) <= Date(Ago(n, i))
           /\ Date(Ago(n, j)) = Date(Ago(n, i)) => Date(Ago(n, i)) \in LongDays /\ j = i + 1
           /\ j = i + 1 => Ago(n, j) + DayHours = Ago(n, i)
<1>1. n \in Nat /\ DayHours \in Nat
  BY TimesType, TimeConstants
<1>2. PICK m \in Nat : j = i + m /\ m >= 1
  <2>1. j - i \in Nat /\ j = i + (j - i) /\ j - i >= 1
    OBVIOUS
  <2> QED
    BY <2>1
<1>3. PICK a, b : a = Ago(n, j) /\ b = Ago(n, i)
  OBVIOUS
<1>4. a + m * DayHours = b
  <2>1. j * DayHours = i * DayHours + m * DayHours
    BY <1>1, <1>2
  <2>2. i * DayHours \in Nat /\ m * DayHours \in Nat
    BY <1>1, Multiples
  <2>3. a = n - (i * DayHours + m * DayHours) /\ b = n - i * DayHours
    BY <1>3, <2>1 DEF Ago
  <2> QED
    BY <1>1, <2>2, <2>3
<1>5. /\ Date(a) <= Date(b)
      /\ Date(a) = Date(b) => Date(b) \in LongDays /\ m = 1
  BY <1>2, <1>3, <1>4, DaysAgo
<1>6. j = i + 1 => m = 1 /\ m * DayHours = DayHours
  BY <1>1, <1>2
<1> QED
  BY <1>2, <1>3, <1>4, <1>5, <1>6

\* init_filenames_q_() at the end of the constructor of a sink
LEMMA InitQueueSound ==
    ASSUME NEW n \in Times, NEW s, Sound(s, n), s.file # None, s.lock = None,
           NEW t, t = Listed(s, n)
    PROVE  /\ Sound(t, n) /\ Files(t) = Files(s)
           /\ t.file = s.file /\ t.lock = None /\ t.rot = s.rot /\ t.opened = s.opened
           /\ Stored(t) = Stored(s) /\ Written(t) = Written(s)
<1>1. /\ s \in Sinks /\ Files(s) \subseteq Day /\ s.file \in Files(s)
      /\ n \in Nat /\ n \in Hours /\ Date(n) \in Day /\ MaxFiles \in Nat /\ MaxFiles >= 3
  BY FileDays, TimeConstants, TimesType DEF Sound, Opened, Day
<1>2. PICK q : q = InitNames(s, n)
  OBVIOUS
<1>3. PICK m \in 0 .. MaxFiles :
             /\ q = [i \in 1 .. m |-> Date(Ago(n, m - i))]
             /\ \A i \in 1 .. m : Ago(n, m - i) \in Hours /\ Date(Ago(n, m - i)) \in Files(s)
             /\ m = 0 => Date(n) \notin Files(s)
  BY <1>2, InitNamesFields
<1>4. /\ q \in Seq(Day) /\ Len(q) = m /\ DOMAIN q = 1 .. m /\ m \in Nat
      /\ \A i \in 1 .. m : q[i] = Date(Ago(n, m - i)) /\ q[i] \in Files(s)
  <2>1. m \in Nat /\ \A i \in 1 .. m : q[i] = Date(Ago(n, m - i)) /\ q[i] \in Files(s)
    BY <1>3
  <2>2. q \in [1 .. m -> Day]
    BY <1>1, <1>3
  <2> QED
    BY <2>1, <2>2
<1>5. PICK z : z = IF q = <<>> THEN Date(n) ELSE Head(q)
  OBVIOUS
<1>6. z \in Day /\ (m = 0 => z = Date(n)) /\ (m > 0 => z = q[1])
  BY <1>1, <1>4, <1>5
<1>7. t = [s EXCEPT !.names = q, !.since = z]
  BY <1>2, <1>5 DEF Listed
<1>8. /\ t \in Sinks /\ t.names = q /\ t.since = z
      /\ t.disk = s.disk /\ t.file = s.file /\ t.buf = s.buf /\ t.lock = s.lock
      /\ t.rot = s.rot /\ t.opened = s.opened /\ t.gone = s.gone
  BY <1>1, <1>4, <1>6, <1>7 DEF Sinks, Day
<1>9. SameFiles(t, s) /\ Stored(t) = Stored(s) /\ Written(t) = Written(s)
  <2>1. Files(t) = Files(s) /\ \A d : Content(t, d) = Content(s, d)
    BY <1>8 DEF Content, Files
  <2>2. Stored(t) = Stored(s)
    BY <1>8, <2>1 DEF Stored
  <2>3. Written(t) = Written(s)
    BY <1>8, <2>2 DEF Written
  <2> QED
    BY <1>8, <2>1, <2>2, <2>3 DEF SameFiles
<1>10. Timely(t) /\ Ordered(t) /\ Dated(t, n)
  BY <1>1, <1>8, <1>9, SameOrder DEF Sound
<1>11. Opened(t)
  BY <1>8, <1>9 DEF Sound, Opened, SameFiles
\* Neighbours and others in the queue
<1>12. ASSUME NEW i \in 1 .. m, NEW j \in 1 .. m, i < j
       PROVE  /\ q[i] < q[j] \/ (q[i] = q[j] /\ q[i] \in LongDays /\ j = i + 1)
              /\ j = i + 1 => \A d \in Nat : q[i] < d /\ d < q[j] => d \in ShortDays
  <2>1. PICK x, y : x = m - i /\ y = m - j
    OBVIOUS
  <2>2. x \in Nat /\ y \in Nat /\ y < x /\ (x = y + 1 <=> j = i + 1)
    BY <1>4, <1>12, <2>1
  <2>3. PICK a, b : a = Ago(n, x) /\ b = Ago(n, y)
    OBVIOUS
  <2>4. a \in Hours /\ b \in Hours /\ q[i] = Date(a) /\ q[j] = Date(b)
    BY <1>3, <1>4, <2>1, <2>3
  <2>5. /\ Date(a) <= Date(b)
        /\ Date(a) = Date(b) => Date(b) \in LongDays /\ x = y + 1
        /\ x = y + 1 => a + DayHours = b
    BY <2>2, <2>3, <2>4, AgoDates
  <2>6. Date(a) \in Nat /\ Date(b) \in Nat
    BY <2>4, DateBounds
  <2>7. x = y + 1 => \A d \in Nat : Date(a) < d /\ d < Date(b) => d \in ShortDays
    BY <2>4, <2>5, PassedOver
  <2> QED
    BY <2>2, <2>4, <2>5, <2>6, <2>7
<1>13. m > 0 => q[m] = Date(n) /\ q[m] = s.file
  <2> SUFFICES ASSUME m > 0 PROVE q[m] = Date(n) /\ q[m] = s.file
    OBVIOUS
  <2>1. m \in 1 .. m /\ m - m = 0
    BY <1>4
  <2>2. Ago(n, 0) = n
    <3>1. 0 * DayHours = 0
      BY TimeConstants
    <3> QED
      BY <1>1, <3>1 DEF Ago
  <2>3. q[m] = Date(n) /\ q[m] \in Files(s)
    BY <1>4, <2>1, <2>2
  <2>4. Date(n) <= s.file /\ s.file <= Date(n) /\ s.file \in Nat
    BY <1>1, <2>3, NoLaterFile DEF Sound, Opened
  <2> QED
    BY <1>1, <2>3, <2>4 DEF Day
<1>14. Queue(t)
  <2>1. Len(q) <= MaxFiles /\ InOrder(q)
    BY <1>3, <1>4, <1>12 DEF InOrder
  <2>2. \A i \in DOMAIN q : q[i] <= s.file /\ q[i] \in Files(s)
    BY <1>1, <1>4 DEF Sound, Opened
  <2>3. \A i \in DOMAIN q : i + 2 <= Len(q) => q[i] < s.file
    <3> SUFFICES ASSUME NEW i \in DOMAIN q, i + 2 <= Len(q) PROVE q[i] < s.file
      OBVIOUS
    <3>1. i \in 1 .. m /\ m \in 1 .. m /\ i < m /\ m # i + 1 /\ m > 0
      BY <1>4
    <3>2. q[i] < q[m]
      BY <1>12, <3>1
    <3> QED
      BY <1>13, <3>1, <3>2
  <2>4. Own(t) \subseteq Range(q)
    <3> SUFFICES ASSUME NEW d \in Files(s), d >= z, d \notin ShortDays PROVE d \in Range(q)
      BY <1>8, <1>9 DEF Own, SameFiles
    <3>1. d \in Nat /\ d <= Date(n) /\ z \in Nat /\ Date(n) \in Nat
      BY <1>1, <1>6, NoLaterFile DEF Day
    <3>2. m # 0
      BY <1>3, <1>6, <3>1
    <3> DEFINE S == {k \in 0 .. m : k = 0 \/ q[k] <= d}
    <3>3. S \in SUBSET (0 .. m) /\ 0 \in S
      BY <1>4
    <3>4. PICK k : k = Max(S)
      OBVIOUS
    <3>5. k \in S /\ \A x \in S : k >= x
      BY <1>4, <3>3, <3>4, Maximum
    <3>6. 1 \in S
      BY <1>4, <1>6, <3>1, <3>2
    <3>7. k \in 1 .. m /\ q[k] <= d /\ q[k] \in Nat
      <4>1. k \in 0 .. m /\ k >= 1 /\ (k = 0 \/ q[k] <= d)
        BY <3>5, <3>6
      <4>2. k \in 1 .. m
        BY <1>4, <4>1
      <4> QED
        BY <1>1, <1>4, <4>1, <4>2 DEF Day
    <3>8. CASE k = m
      BY <1>4, <1>13, <3>1, <3>2, <3>7, <3>8 DEF Range
    <3>9. CASE k # m
      <4>1. k + 1 \in 1 .. m /\ k < k + 1 /\ k + 1 \in 0 .. m
        BY <1>4, <3>7, <3>9
      <4>2. k + 1 \notin S
        BY <3>5, <3>7
      <4>3. d < q[k + 1]
        <5>1. q[k + 1] \in Nat /\ ~(q[k + 1] <= d)
          BY <1>1, <1>4, <4>1, <4>2 DEF Day
        <5> QED
          BY <3>1, <5>1
      <4>4. ~(q[k] < d)
        BY <1>12, <3>1, <3>7, <4>1, <4>3
      <4>5. q[k] = d
        BY <3>1, <3>7, <4>4
      <4> QED
        BY <1>4, <3>7, <4>5 DEF Range
    <3> QED
      BY <3>8, <3>9
  <2> QED
    BY <1>8, <1>9, <2>1, <2>2, <2>3, <2>4 DEF Queue, SameFiles
<1> QED
  BY <1>8, <1>9, <1>10, <1>11, <1>14 DEF Sound, SameFiles

\* A process that is not rotating keeps max_files_ of the files since the oldest one.
LEMMA OwnFew ==
    ASSUME NEW n \in Times, NEW s, Sound(s, n), s.since # None, s.lock = None
    PROVE  Cardinality(Own(s)) <= MaxFiles
<1>1. /\ s.names \in Seq(Day) /\ Len(s.names) <= MaxFiles /\ Len(s.names) \in Nat
      /\ Own(s) \subseteq Range(s.names)
  BY SinkFields DEF Sound, Opened, Queue
<1>2. IsFiniteSet(Range(s.names)) /\ Cardinality(Range(s.names)) <= Len(s.names)
  BY <1>1, FewValues
<1>3. /\ IsFiniteSet(Own(s)) /\ Cardinality(Own(s)) <= Cardinality(Range(s.names))
      /\ Cardinality(Own(s)) \in Nat /\ Cardinality(Range(s.names)) \in Nat
  BY <1>1, <1>2, FS_Subset, FS_CardinalityType
<1> QED
  BY <1>1, <1>2, <1>3, TimeConstants

-----------------------------------------------------------------------------
(* The inductive invariant.                                                *)

Thds == [at : {"idle", "sink", "write", "delete", "flush", "trace"},
         rec : Rec \cup {<<>>}, no : Nat, line : Nat]

\* The variables have their types, and finitely many calls returned.
Types ==
    /\ now \in Times /\ starts \in 1 .. MaxStarts /\ failures \in 0 .. MaxFailures
    /\ proc \in {"init", "up", "killed", "exited"} /\ handler \in BOOLEAN
    /\ init \in [i : DOMAIN Loggers, step : {"open", "rotation", "names"}]
    /\ sink \in [AllLoggers -> Sinks]
    /\ th \in [Threads -> Thds]
    /\ acked \in SUBSET Rec /\ IsFiniteSet(acked)
    /\ crash \in [tracer : Threads \cup {None}, faulted : SUBSET Threads, before : SUBSET Rec]

SinksSound == \A l \in AllLoggers : Sound(sink[l], now)

\* How far LogInit() is, and what is left when the process is gone.
Constructed ==
    /\ \A l \in AllLoggers :
          \/ sink[l].file = None
          \/ Built(sink[l])
          \/ proc = "init" /\ l = Building /\ init.step = "rotation"
    /\ proc = "init" =>
          /\ \A l \in AllLoggers : sink[l].lock = None
          /\ \A j \in DOMAIN Loggers : j < init.i => sink[Loggers[j]].file # None
          /\ \A j \in DOMAIN Loggers : j > init.i => sink[Loggers[j]].file = None
          /\ IF init.step = "open"
             THEN sink[Building].file = None
             ELSE sink[Building].file # None /\ sink[Building].names = <<>>
    /\ proc \in {"killed", "exited"} => \A l \in AllLoggers : sink[l].file = None
    /\ handler => proc = "up" /\ sink[Main].file # None

Busy(t) == th[t].at \in {"sink", "write", "delete", "flush"}
Holds(t) == th[t].at \in {"write", "delete"}

\* A thread in a call has its record, and the mutex from the rotation to its end.
Calling ==
    /\ proc # "up" => \A t \in Threads : th[t].at = "idle" /\ th[t].line = 0
    /\ \A t \in Threads : Busy(t) =>
          /\ th[t].rec \in Rec /\ th[t].rec.by = t /\ th[t].rec.no = th[t].no
          /\ th[t].rec.time <= now
          /\ sink[th[t].rec.logger].file # None
    /\ \A t \in Threads : Holds(t) => sink[th[t].rec.logger].lock = t
    /\ \A l \in AllLoggers : sink[l].lock # None =>
          Holds(sink[l].lock) /\ th[sink[l].lock].rec.logger = l
    /\ \A t \in Threads : th[t].at = "write" =>
          th[t].rec.time <= sink[th[t].rec.logger].opened[sink[th[t].rec.logger].file]

\* No record is newer than its thread's last, and one in flight is newer than all.
Fresh ==
    /\ \A l \in AllLoggers : \A r \in Written(sink[l]) :
          r.no <= th[r.by].no /\ (th[r.by].at \in {"sink", "write"} => r.no < th[r.by].no)
    /\ \A r \in acked : r.no <= th[r.by].no /\ (Busy(r.by) => r.no < th[r.by].no)

\* A call that returned has written its record, and stored it from level err on.
Kept ==
    /\ \A r \in acked : r.lvl >= Err => r \in Stored(sink[r.logger])
    /\ proc # "killed" => \A r \in acked : r \in Written(sink[r.logger])
    /\ \A t \in Threads : th[t].at \in {"delete", "flush"} =>
          th[t].rec \in Written(sink[th[t].rec.logger])

Safe == Types /\ SinksSound /\ Constructed /\ Calling /\ Fresh /\ Kept

-----------------------------------------------------------------------------
(* The steps of a call.                                                    *)

(***************************************************************************)
(* What a step of a call of t does that returns from nothing but the call: *)
(* u is the sink after it, w the thread.                                   *)
(***************************************************************************)
CallStep(t, u, w) ==
    LET r == th[t].rec
        s == sink[r.logger]
    IN  /\ Busy(t)
        /\ sink' = [sink EXCEPT ![r.logger] = u]
        /\ th' = [th EXCEPT ![t] = w]
        /\ UNCHANGED <<now, proc, init, handler, starts, failures, crash>>
        /\ Sound(u, now) /\ Built(u) /\ u.file # None
        /\ s.lock \in {None, t} /\ u.lock \in {None, t}
        /\ w \in Thds /\ w.no = th[t].no /\ w.line = th[t].line
        /\ w.at \in {"write", "delete"} <=> u.lock = t
        /\ w.at = "write" => th[t].at = "sink" /\ r.time <= u.opened[u.file]
        /\ Written(s) \subseteq Written(u) /\ Written(u) \subseteq Written(s) \cup {r}
        /\ Stored(s) \subseteq Stored(u) /\ Recent(u, s)
        /\ \/ /\ w.at \in {"write", "delete", "flush"} /\ w.rec = r
              /\ acked' = acked
              /\ IF w.at = "write" THEN Written(u) = Written(s) ELSE r \in Written(u)
           \/ /\ w.at = Back(t)
              /\ acked' = acked \cup {r}
              /\ r \in Written(u)
              /\ r.lvl >= Err => Stored(u) = Written(u)

\* Types of what a call has.
LEMMA CallTypes ==
    ASSUME Safe, NEW t \in Threads, Busy(t)
    PROVE  /\ proc = "up" /\ t # None
           /\ th[t] \in Thds /\ th[t].rec \in Rec /\ th[t].rec.logger \in AllLoggers
           /\ th[t].rec.by = t /\ th[t].rec.no = th[t].no /\ th[t].rec.time <= now
           /\ th[t].rec.time \in Times /\ th[t].no \in Nat /\ th[t].rec.lvl \in Nat
           /\ now \in Times
           /\ sink[th[t].rec.logger] \in Sinks
           /\ Sound(sink[th[t].rec.logger], now)
           /\ sink[th[t].rec.logger].file # None /\ Built(sink[th[t].rec.logger])
<1>1. proc = "up"
  BY DEF Safe, Calling, Busy
<1>2. th[t] \in Thds /\ th[t].rec \in Rec /\ sink[th[t].rec.logger].file # None
      /\ th[t].rec.by = t /\ th[t].rec.no = th[t].no /\ th[t].rec.time <= now
  BY DEF Safe, Calling, Types
<1>3. th[t].rec.logger \in AllLoggers /\ th[t].rec.time \in Times /\ th[t].rec.lvl \in Nat
  BY <1>2 DEF Rec
<1>4. th[t].no \in Nat
  BY <1>2 DEF Thds
<1>5. now \in Times
  BY DEF Safe, Types
<1>6. Sound(sink[th[t].rec.logger], now) /\ sink[th[t].rec.logger] \in Sinks
  BY <1>3 DEF Safe, SinksSound, Types
<1>7. Built(sink[th[t].rec.logger])
  BY <1>1, <1>2, <1>3 DEF Safe, Constructed
<1>8. t # None
  BY LoggingAssumption
<1> QED
  BY <1>1, <1>2, <1>3, <1>4, <1>5, <1>6, <1>7, <1>8

\* Such a step keeps the invariant.
LEMMA CallSafe ==
    ASSUME Safe, NEW t \in Threads, NEW u, NEW w, CallStep(t, u, w)
    PROVE  Safe'
<1> DEFINE r == th[t].rec
           l == r.logger
           s == sink[l]
<1>1. /\ Busy(t)
      /\ sink' = [sink EXCEPT ![l] = u]
      /\ th' = [th EXCEPT ![t] = w]
      /\ now' = now /\ proc' = proc /\ init' = init /\ handler' = handler
      /\ starts' = starts /\ failures' = failures /\ crash' = crash
  BY DEF CallStep
<1>2. /\ Sound(u, now) /\ Built(u) /\ u.file # None
      /\ s.lock \in {None, t} /\ u.lock \in {None, t}
      /\ w \in Thds /\ w.no = th[t].no /\ w.line = th[t].line
      /\ w.at \in {"write", "delete"} <=> u.lock = t
      /\ w.at = "write" => th[t].at = "sink" /\ r.time <= u.opened[u.file]
  BY DEF CallStep
<1>3. /\ Written(s) \subseteq Written(u) /\ Written(u) \subseteq Written(s) \cup {r}
      /\ Stored(s) \subseteq Stored(u)
      /\ \/ /\ w.at \in {"write", "delete", "flush"} /\ w.rec = r
            /\ acked' = acked
            /\ IF w.at = "write" THEN Written(u) = Written(s) ELSE r \in Written(u)
         \/ /\ w.at \in {"trace", "idle"}
            /\ acked' = acked \cup {r}
            /\ r \in Written(u)
            /\ r.lvl >= Err => Stored(u) = Written(u)
  BY DEF CallStep, Back
<1>4. /\ proc = "up" /\ t # None
      /\ th[t] \in Thds /\ r \in Rec /\ l \in AllLoggers
      /\ r.by = t /\ r.no = th[t].no /\ r.time <= now /\ th[t].no \in Nat
  BY <1>1, CallTypes
<1>5. u \in Sinks
  BY <1>2 DEF Sound, Opened
<1>6. sink \in [AllLoggers -> Sinks] /\ th \in [Threads -> Thds]
  BY DEF Safe, Types
<1>7. /\ sink' \in [AllLoggers -> Sinks] /\ sink'[l] = u
      /\ \A m \in AllLoggers : m # l => sink'[m] = sink[m]
  BY <1>1, <1>4, <1>5, <1>6
<1>8. /\ th' \in [Threads -> Thds] /\ th'[t] = w
      /\ \A x \in Threads : x # t => th'[x] = th[x]
  BY <1>1, <1>2, <1>6
<1>9. Types'
  <2>1. acked' \in SUBSET Rec /\ IsFiniteSet(acked')
    <3>1. acked \in SUBSET Rec /\ IsFiniteSet(acked)
      BY DEF Safe, Types
    <3>2. IsFiniteSet(acked \cup {r})
      BY <3>1, FS_AddElement
    <3> QED
      BY <1>3, <1>4, <3>1, <3>2
  <2> QED
    BY <1>1, <1>7, <1>8, <2>1 DEF Safe, Types
<1>10. SinksSound'
  BY <1>1, <1>2, <1>7 DEF Safe, SinksSound
<1>11. Constructed'
  BY <1>1, <1>2, <1>4, <1>7 DEF Safe, Constructed
\* Another thread with a mutex has that of another sink.
<1>12. \A x \in Threads : x # t /\ Holds(x) => th[x].rec.logger # l
  BY <1>2, LoggingAssumption DEF Safe, Calling
<1>13. Calling'
  <2>1. \A x \in Threads : Busy(x)' =>
          /\ th'[x].rec \in Rec /\ th'[x].rec.by = x /\ th'[x].rec.no = th'[x].no
          /\ th'[x].rec.time <= now'
          /\ sink'[th'[x].rec.logger].file # None
    <3> SUFFICES ASSUME NEW x \in Threads, Busy(x)'
                 PROVE  /\ th'[x].rec \in Rec /\ th'[x].rec.by = x /\ th'[x].rec.no = th'[x].no
                        /\ th'[x].rec.time <= now'
                        /\ sink'[th'[x].rec.logger].file # None
      OBVIOUS
    <3>1. CASE x = t
      <4>1. w.rec = r
        BY <1>3, <1>8, <3>1 DEF Busy
      <4> QED
        BY <1>1, <1>2, <1>4, <1>7, <1>8, <3>1, <4>1
    <3>2. CASE x # t
      <4>1. th'[x] = th[x] /\ Busy(x)
        BY <1>8, <3>2 DEF Busy
      <4>2. /\ th[x].rec \in Rec /\ th[x].rec.by = x /\ th[x].rec.no = th[x].no
            /\ th[x].rec.time <= now /\ sink[th[x].rec.logger].file # None
            /\ th[x].rec.logger \in AllLoggers
        BY <4>1, CallTypes
      <4>3. sink'[th[x].rec.logger].file # None
        BY <1>2, <1>7, <4>2
      <4> QED
        BY <1>1, <4>1, <4>2, <4>3
    <3> QED
      BY <3>1, <3>2
  <2>2. \A x \in Threads : Holds(x)' => sink'[th'[x].rec.logger].lock = x
    <3> SUFFICES ASSUME NEW x \in Threads, Holds(x)'
                 PROVE  sink'[th'[x].rec.logger].lock = x
      OBVIOUS
    <3>1. CASE x = t
      <4>1. w.at \in {"write", "delete"}
        BY <1>8, <3>1 DEF Holds
      <4> QED
        BY <1>2, <1>3, <1>7, <1>8, <3>1, <4>1
    <3>2. CASE x # t
      <4>1. th'[x] = th[x] /\ Holds(x) /\ Busy(x)
        BY <1>8, <3>2 DEF Holds, Busy
      <4>2. th[x].rec.logger \in AllLoggers /\ th[x].rec.logger # l
        BY <1>12, <3>2, <4>1, CallTypes
      <4> QED
        BY <1>7, <4>1, <4>2 DEF Safe, Calling
    <3> QED
      BY <3>1, <3>2
  <2>3. \A m \in AllLoggers : sink'[m].lock # None =>
          th'[sink'[m].lock].at \in {"write", "delete"} /\ th'[sink'[m].lock].rec.logger = m
    <3> SUFFICES ASSUME NEW m \in AllLoggers, sink'[m].lock # None
                 PROVE  th'[sink'[m].lock].at \in {"write", "delete"}
                        /\ th'[sink'[m].lock].rec.logger = m
      OBVIOUS
    <3>1. CASE m = l
      <4>1. u.lock = t /\ w.at \in {"write", "delete"} /\ w.rec = r
        BY <1>2, <1>3, <1>7, <3>1
      <4> QED
        BY <1>7, <1>8, <3>1, <4>1
    <3>2. CASE m # l
      <4>1. sink'[m] = sink[m] /\ sink[m].lock \in Threads
        BY <1>6, <1>7, <3>2 DEF Sinks
      <4>2. Holds(sink[m].lock) /\ th[sink[m].lock].rec.logger = m
        BY <4>1 DEF Safe, Calling
      <4>3. sink[m].lock # t
        BY <3>2, <4>2
      <4> QED
        BY <1>8, <4>1, <4>2, <4>3 DEF Holds
    <3> QED
      BY <3>1, <3>2
  <2>4. \A x \in Threads : th'[x].at = "write" =>
          th'[x].rec.time <= sink'[th'[x].rec.logger].opened[sink'[th'[x].rec.logger].file]
    <3> SUFFICES ASSUME NEW x \in Threads, th'[x].at = "write"
                 PROVE  th'[x].rec.time <=
                           sink'[th'[x].rec.logger].opened[sink'[th'[x].rec.logger].file]
      OBVIOUS
    <3>1. CASE x = t
      BY <1>2, <1>3, <1>7, <1>8, <3>1
    <3>2. CASE x # t
      <4>1. th'[x] = th[x] /\ Holds(x) /\ Busy(x)
        BY <1>8, <3>2 DEF Holds, Busy
      <4>2. th[x].rec.logger \in AllLoggers /\ th[x].rec.logger # l
        BY <1>12, <3>2, <4>1, CallTypes
      <4>3. th[x].rec.time <= sink[th[x].rec.logger].opened[sink[th[x].rec.logger].file]
        BY <4>1 DEF Safe, Calling
      <4> QED
        BY <1>7, <4>1, <4>2, <4>3
    <3> QED
      BY <3>1, <3>2
  <2> QED
    BY <1>1, <1>4, <2>1, <2>2, <2>3, <2>4 DEF Calling, Holds
<1>14. Fresh'
  <2>1. ASSUME NEW m \in AllLoggers, NEW e \in Written(sink'[m])
        PROVE  /\ e.no <= th'[e.by].no
               /\ th'[e.by].at \in {"sink", "write"} => e.no < th'[e.by].no
    <3>1. CASE e \in Written(sink[m])
      <4>1. /\ e.no <= th[e.by].no
            /\ th[e.by].at \in {"sink", "write"} => e.no < th[e.by].no
        BY <3>1 DEF Safe, Fresh
      <4>2. CASE e.by # t
        <5>1. th'[e.by] = th[e.by]
          BY <1>1, <4>2
        <5> QED
          BY <4>1, <5>1
      <4>3. CASE e.by = t
        <5>1. w.at \in {"sink", "write"} => th[t].at \in {"sink", "write"}
          <6>1. w.at # "sink"
            BY <1>3
          <6>2. w.at = "write" => th[t].at = "sink"
            BY <1>2
          <6> QED
            BY <6>1, <6>2
        <5> QED
          BY <1>2, <1>8, <4>1, <4>3, <5>1
      <4> QED
        BY <4>2, <4>3
    <3>2. CASE m = l /\ e = r /\ w.at # "write"
      BY <1>2, <1>3, <1>4, <1>8, <3>2
    <3> QED
      BY <1>3, <1>7, <3>1, <3>2
  <2>2. ASSUME NEW e \in acked'
        PROVE  /\ e.no <= th'[e.by].no
               /\ Busy(e.by)' => e.no < th'[e.by].no
    <3>1. CASE e \in acked
      <4>1. e.no <= th[e.by].no /\ (Busy(e.by) => e.no < th[e.by].no)
        BY <3>1 DEF Safe, Fresh
      <4>2. CASE e.by # t
        <5>1. th'[e.by] = th[e.by]
          BY <1>1, <4>2
        <5> QED
          BY <4>1, <5>1 DEF Busy
      <4>3. CASE e.by = t
        BY <1>1, <1>2, <1>8, <4>1, <4>3
      <4> QED
        BY <4>2, <4>3
    <3>2. CASE e = r /\ w.at \in {"trace", "idle"}
      <4>1. e.by = t /\ e.no = th[t].no
        BY <1>4, <3>2
      <4>2. ~Busy(e.by)'
        BY <1>8, <3>2, <4>1 DEF Busy
      <4> QED
        BY <1>2, <1>4, <1>8, <4>1, <4>2
    <3> QED
      BY <1>3, <3>1, <3>2
  <2> QED
    BY <2>1, <2>2 DEF Fresh, Busy
<1>15. Kept'
  <2>1. \A m \in AllLoggers : Written(sink[m]) \subseteq Written(sink'[m])
                              /\ Stored(sink[m]) \subseteq Stored(sink'[m])
    BY <1>3, <1>7
  <2>2. ASSUME NEW e \in acked'
        PROVE  /\ e.lvl >= Err => e \in Stored(sink'[e.logger])
               /\ e \in Written(sink'[e.logger])
    <3>1. CASE e \in acked
      <4>1. e.logger \in AllLoggers
        BY <3>1 DEF Safe, Types, Rec
      <4>2. (e.lvl >= Err => e \in Stored(sink[e.logger])) /\ e \in Written(sink[e.logger])
        BY <1>4, <3>1 DEF Safe, Kept
      <4> QED
        BY <2>1, <4>1, <4>2
    <3>2. CASE e = r /\ r \in Written(u) /\ (r.lvl >= Err => Stored(u) = Written(u))
      BY <1>7, <3>2
    <3> QED
      BY <1>3, <3>1, <3>2
  <2>3. ASSUME NEW x \in Threads, th'[x].at \in {"delete", "flush"}
        PROVE  th'[x].rec \in Written(sink'[th'[x].rec.logger])
    <3>1. CASE x = t
      BY <1>3, <1>7, <1>8, <2>3, <3>1
    <3>2. CASE x # t
      <4>1. th'[x] = th[x] /\ Busy(x)
        BY <1>8, <2>3, <3>2 DEF Busy
      <4>2. th[x].rec.logger \in AllLoggers
        BY <4>1, CallTypes
      <4>3. th[x].rec \in Written(sink[th[x].rec.logger])
        BY <2>3, <4>1 DEF Safe, Kept
      <4> QED
        BY <2>1, <4>1, <4>2, <4>3
    <3> QED
      BY <3>1, <3>2
  <2> QED
    BY <2>2, <2>3 DEF Kept
<1> QED
  BY <1>9, <1>10, <1>11, <1>13, <1>14, <1>15 DEF Safe

\* The end of a call, or the way to its flush
Returned(t, w) ==
    /\ th' = [th EXCEPT ![t] = w]
    /\ w \in Thds /\ w.no = th[t].no /\ w.line = th[t].line
    /\ \/ w.at = "flush" /\ w.rec = th[t].rec /\ acked' = acked
       \/ w.at = Back(t) /\ acked' = acked \cup {th[t].rec} /\ ~(th[t].rec.lvl >= Err)

\* logger::sink_it_() sends a record from level err on to its flush and returns
\* from the call of any other.
LEMMA SunkThread ==
    ASSUME NEW t \in Threads, th[t] \in Thds, Sunk(t)
    PROVE  \E w : Returned(t, w)
<1>1. CASE th[t].rec.lvl >= Err
  <2>1. PICK w : w = [th[t] EXCEPT !.at = "flush"]
    OBVIOUS
  <2>2. th' = [th EXCEPT ![t] = w] /\ acked' = acked
    BY <1>1, <2>1 DEF Sunk
  <2>3. w \in Thds /\ w.at = "flush" /\ w.rec = th[t].rec /\ w.no = th[t].no /\ w.line = th[t].line
    BY <2>1 DEF Thds
  <2> QED
    BY <2>2, <2>3 DEF Returned
<1>2. CASE ~(th[t].rec.lvl >= Err)
  <2>1. PICK w : w = [th[t] EXCEPT !.at = Back(t), !.rec = <<>>]
    OBVIOUS
  <2>2. th' = [th EXCEPT ![t] = w] /\ acked' = acked \cup {th[t].rec}
    BY <1>2, <2>1 DEF Sunk
  <2>3. Back(t) \in {"idle", "trace"}
    BY DEF Back
  <2>4. w \in Thds /\ w.at = Back(t) /\ w.no = th[t].no /\ w.line = th[t].line
    BY <2>1, <2>3 DEF Thds
  <2> QED
    BY <1>2, <2>2, <2>4 DEF Returned
<1> QED
  BY <1>1, <1>2

\* sink_it_() without a rotation
LEMMA SinkIsCallStep ==
    ASSUME Safe, NEW t \in Threads, Sink(t)
    PROVE  \E u, w : CallStep(t, u, w)
<1>1. PICK r, l, s : r = th[t].rec /\ l = r.logger /\ s = sink[l]
  OBVIOUS
<1>2. Busy(t) /\ s.lock = None /\ ~ShouldRotate(s, r.time)
  BY <1>1 DEF Sink, Busy
<1>3. /\ proc = "up" /\ t # None
      /\ th[t] \in Thds /\ r \in Rec /\ l \in AllLoggers
      /\ r.by = t /\ r.no = th[t].no /\ r.time <= now
      /\ r.time \in Times /\ th[t].no \in Nat /\ r.lvl \in Nat
      /\ now \in Times
      /\ s \in Sinks /\ Sound(s, now) /\ s.file # None /\ Built(s)
  BY <1>1, <1>2, CallTypes
<1>4. PICK spill \in BOOLEAN : sink' = [sink EXCEPT ![l] = Write(sink[l], r, spill)]
  BY <1>1 DEF Sink
<1>5. PICK u : u = Write(s, r, spill)
  OBVIOUS
<1>6. InPlace(r.time, s.opened[s.file])
  <2>1. s.file \in DOMAIN s.opened
    BY <1>3 DEF Sound, Opened, Dated
  <2>2. PICK time, o : time = r.time /\ o = s.opened[s.file]
    OBVIOUS
  <2>3. o \in Hours /\ time \in Hours /\ time \in Nat
    BY <1>3, <2>1, <2>2, FileDays, TimesType
  <2>4. NextRotation(o) \in Nat
    BY <2>3, RotationLater
  <2>5. time < NextRotation(o)
    BY <1>2, <1>3, <2>2, <2>3, <2>4 DEF ShouldRotate, Built
  <2> QED
    BY <2>2, <2>3, <2>5, BeforeRotation
<1>7. \A e \in Written(s) : e.by = r.by => e.no < r.no
  <2>1. th[t].at = "sink"
    BY DEF Sink
  <2> QED
    BY <1>1, <1>3, <2>1 DEF Safe, Fresh
<1>8. /\ Sound(u, now) /\ SameQueue(u, s) /\ u.file = s.file /\ Files(u) = Files(s)
      /\ Stored(s) \subseteq Stored(u)
      /\ Written(u) = Written(s) \cup {r}
  <2>1. now \in Nat
    BY <1>3, TimesType
  <2> QED
    BY <1>3, <1>5, <1>6, <1>7, <2>1, WriteSound
<1>9. Built(u) /\ u.lock = None /\ Recent(u, s)
  BY <1>2, <1>3, <1>8 DEF Built, SameQueue, Recent
<1>10. PICK w : Returned(t, w)
  BY <1>3, SunkThread DEF Sink
<1>11. w.at \notin {"write", "delete"}
  BY <1>10 DEF Returned, Back
<1>12. sink' = [sink EXCEPT ![l] = u]
  BY <1>1, <1>4, <1>5
<1>13. UNCHANGED <<now, proc, init, handler, starts, failures, crash>>
  BY DEF Sink
<1>14. CallStep(t, u, w)
  BY <1>1, <1>2, <1>3, <1>8, <1>9, <1>10, <1>11, <1>12, <1>13 DEF CallStep, Returned
<1> QED
  BY <1>14

\* sink_it_() opens the next file.
LEMMA RotateIsCallStep ==
    ASSUME Safe, NEW t \in Threads, Rotate(t)
    PROVE  \E u, w : CallStep(t, u, w)
<1>1. PICK r, l, s : r = th[t].rec /\ l = r.logger /\ s = sink[l]
  OBVIOUS
<1>2. th[t].at = "sink" /\ Busy(t) /\ s.lock = None /\ ShouldRotate(s, r.time)
  BY <1>1 DEF Rotate, MayRotate, Busy
<1>3. /\ proc = "up" /\ t # None
      /\ th[t] \in Thds /\ r \in Rec /\ l \in AllLoggers
      /\ r.time <= now /\ r.time \in Times /\ now \in Times
      /\ s \in Sinks /\ Sound(s, now) /\ s.file # None /\ Built(s)
  BY <1>1, <1>2, CallTypes
<1>4. PICK u : u = [Scheduled(Open(s, Date(r.time), now), now) EXCEPT !.lock = t]
  OBVIOUS
<1>5. r.time >= s.rot
  BY <1>2 DEF ShouldRotate
<1>6. PICK n, time, day : n = now /\ time = r.time /\ day = Date(time)
  OBVIOUS
<1>7. /\ Sound(u, n) /\ Built(u)
      /\ u.file = day /\ u.lock = t /\ u.opened[u.file] = n
      /\ Files(u) = Files(s) \cup {day}
      /\ Stored(u) = Written(s) /\ Written(u) = Written(s)
  <2>1. n \in Times /\ time \in Times /\ Sound(s, n) /\ s.file # None /\ s.lock = None /\ Built(s)
        /\ time >= s.rot /\ time <= n /\ day = Date(time) /\ u = Rotated(s, day, n, t)
    BY <1>2, <1>3, <1>4, <1>5, <1>6 DEF Rotated
  <2> QED
    BY <2>1, RotateSound
<1>8. u.file # None /\ Stored(s) \subseteq Stored(u) /\ Recent(u, s)
  BY <1>3, <1>6, <1>7, TimesType DEF None, Written, Recent
<1>9. PICK w : w = [th[t] EXCEPT !.at = "write"]
  OBVIOUS
<1>10. w \in Thds /\ w.at = "write" /\ w.rec = r /\ w.no = th[t].no /\ w.line = th[t].line
  BY <1>1, <1>3, <1>9 DEF Thds
<1>11. /\ sink' = [sink EXCEPT ![l] = u] /\ th' = [th EXCEPT ![t] = w] /\ acked' = acked
       /\ UNCHANGED <<now, proc, init, handler, starts, failures, crash>>
  BY <1>1, <1>4, <1>9 DEF Rotate
<1>12. CallStep(t, u, w)
  BY <1>1, <1>2, <1>3, <1>6, <1>7, <1>8, <1>10, <1>11 DEF CallStep
<1> QED
  BY <1>12

\* sink_it_() writes to the file it opened.
LEMMA WriteFirstIsCallStep ==
    ASSUME Safe, NEW t \in Threads, WriteFirst(t)
    PROVE  \E u, w : CallStep(t, u, w)
<1>1. PICK r, l, s : r = th[t].rec /\ l = r.logger /\ s = sink[l]
  OBVIOUS
<1>2. th[t].at = "write" /\ Busy(t) /\ Holds(t)
  BY DEF WriteFirst, Busy, Holds
<1>3. /\ proc = "up" /\ t # None
      /\ th[t] \in Thds /\ r \in Rec /\ l \in AllLoggers
      /\ r.by = t /\ r.no = th[t].no /\ now \in Times /\ r.time \in Times /\ r.time <= now
      /\ s \in Sinks /\ Sound(s, now) /\ s.file # None /\ Built(s)
  BY <1>1, <1>2, CallTypes
<1>4. PICK spill, u : spill \in BOOLEAN /\ spill = FALSE /\ u = Write(s, r, spill)
  OBVIOUS
<1>5. r.time <= s.opened[s.file] /\ s.lock = t
  BY <1>1, <1>2 DEF Safe, Calling
<1>6. \A e \in Written(s) : e.by = r.by => e.no < r.no
  BY <1>1, <1>2, <1>3 DEF Safe, Fresh
<1>7. /\ Sound(u, now) /\ SameQueue(u, s) /\ u.file = s.file /\ Files(u) = Files(s)
      /\ Stored(s) \subseteq Stored(u)
      /\ Written(u) = Written(s) \cup {r}
  <2>1. now \in Nat /\ r.time \in Hours
    BY <1>3, TimesType
  <2>2. s.opened[s.file] \in Hours
    BY <1>3, FileDays, TimesType DEF Sound, Opened, Dated
  <2>3. InPlace(r.time, s.opened[s.file])
    BY <1>5, <2>1, <2>2, NotLater
  <2> QED
    BY <1>3, <1>4, <1>6, <2>1, <2>3, WriteSound
<1>8. Built(u) /\ u.lock = t /\ Recent(u, s)
  BY <1>3, <1>5, <1>7 DEF Built, SameQueue, Recent
<1>9. PICK w : w = [th[t] EXCEPT !.at = "delete"]
  OBVIOUS
<1>10. w \in Thds /\ w.at = "delete" /\ w.rec = r /\ w.no = th[t].no /\ w.line = th[t].line
  BY <1>1, <1>3, <1>9 DEF Thds
<1>11. /\ sink' = [sink EXCEPT ![l] = u] /\ th' = [th EXCEPT ![t] = w] /\ acked' = acked
       /\ UNCHANGED <<now, proc, init, handler, starts, failures, crash>>
  BY <1>1, <1>4, <1>9 DEF WriteFirst
<1>12. CallStep(t, u, w)
  BY <1>1, <1>2, <1>3, <1>5, <1>7, <1>8, <1>10, <1>11 DEF CallStep
<1> QED
  BY <1>12

\* delete_old_()
LEMMA DeleteIsCallStep ==
    ASSUME Safe, NEW t \in Threads, Delete(t)
    PROVE  \E u, w : CallStep(t, u, w)
<1>1. PICK r, l, s : r = th[t].rec /\ l = r.logger /\ s = sink[l]
  OBVIOUS
<1>2. th[t].at = "delete" /\ Busy(t) /\ Holds(t)
  BY DEF Delete, Busy, Holds
<1>3. /\ proc = "up" /\ t # None
      /\ th[t] \in Thds /\ r \in Rec /\ l \in AllLoggers /\ now \in Times
      /\ s \in Sinks /\ Sound(s, now) /\ s.file # None /\ Built(s)
  BY <1>1, <1>2, CallTypes
<1>4. PICK u : u = [DeleteOld(s) EXCEPT !.lock = None]
  OBVIOUS
<1>5. s.lock = t /\ r \in Written(s)
  BY <1>1, <1>2 DEF Safe, Calling, Kept
<1>6. /\ Sound(u, now) /\ u.lock = None
      /\ u.file = s.file /\ u.rot = s.rot /\ u.opened = s.opened
      /\ Stored(u) = Stored(s) /\ Written(u) = Written(s) /\ Recent(u, s)
  <2>1. s.lock # None
    BY <1>3, <1>5
  <2> QED
    BY <1>3, <1>4, <2>1, DeleteSound
<1>7. Built(u)
  BY <1>3, <1>6 DEF Built
<1>8. PICK w : Returned(t, w)
  BY <1>3, SunkThread DEF Delete
<1>9. w.at \notin {"write", "delete"}
  BY <1>8 DEF Returned, Back
<1>10. /\ sink' = [sink EXCEPT ![l] = u]
       /\ UNCHANGED <<now, proc, init, handler, starts, failures, crash>>
  BY <1>1, <1>4 DEF Delete
<1>11. CallStep(t, u, w)
  BY <1>1, <1>2, <1>3, <1>5, <1>6, <1>7, <1>8, <1>9, <1>10 DEF CallStep, Returned
<1> QED
  BY <1>11

\* logger::flush_()
LEMMA FlushIsCallStep ==
    ASSUME Safe, NEW t \in Threads, Flush(t)
    PROVE  \E u, w : CallStep(t, u, w)
<1>1. PICK r, l, s : r = th[t].rec /\ l = r.logger /\ s = sink[l]
  OBVIOUS
<1>2. th[t].at = "flush" /\ Busy(t) /\ s.lock = None
  BY <1>1 DEF Flush, Busy
<1>3. /\ proc = "up" /\ t # None
      /\ th[t] \in Thds /\ r \in Rec /\ l \in AllLoggers /\ now \in Times
      /\ s \in Sinks /\ Sound(s, now) /\ s.file # None /\ Built(s)
  BY <1>1, <1>2, CallTypes
<1>4. PICK u : u = Flushed(s)
  OBVIOUS
<1>5. r \in Written(s)
  BY <1>1, <1>2 DEF Safe, Kept
<1>6. /\ Sound(u, now) /\ SameQueue(u, s) /\ u.file = s.file /\ Files(u) = Files(s)
      /\ Stored(u) = Written(s) /\ Written(u) = Written(s)
  <2>1. now \in Nat
    BY <1>3, TimesType
  <2> QED
    BY <1>3, <1>4, <2>1, FlushedSound
<1>7. Built(u) /\ u.lock = None /\ Stored(s) \subseteq Stored(u) /\ Recent(u, s)
  BY <1>2, <1>3, <1>6 DEF Built, SameQueue, Written, Recent
<1>8. PICK w : w = [th[t] EXCEPT !.at = Back(t), !.rec = <<>>]
  OBVIOUS
<1>9. Back(t) \in {"idle", "trace"}
  BY DEF Back
<1>10. w \in Thds /\ w.at = Back(t) /\ w.no = th[t].no /\ w.line = th[t].line
  BY <1>3, <1>8, <1>9 DEF Thds
<1>11. /\ sink' = [sink EXCEPT ![l] = u] /\ th' = [th EXCEPT ![t] = w]
       /\ acked' = acked \cup {r}
       /\ UNCHANGED <<now, proc, init, handler, starts, failures, crash>>
  BY <1>1, <1>4, <1>8 DEF Flush
<1>12. CallStep(t, u, w)
  BY <1>1, <1>2, <1>3, <1>5, <1>6, <1>7, <1>9, <1>10, <1>11 DEF CallStep
<1> QED
  BY <1>12
-----------------------------------------------------------------------------
(* The other steps keep the invariant.                                     *)

\* What is written are records.
LEMMA WrittenType ==
    ASSUME NEW s \in Sinks
    PROVE  Written(s) \subseteq Rec
<1>1. s.gone \subseteq Rec /\ s.buf \in Seq(Rec) /\ \A d \in Files(s) : s.disk[d] \in Seq(Rec)
  BY SinkFields, LogsType DEF Files, Lines
<1>2. \A q \in Seq(Rec) : Range(q) \subseteq Rec
  BY DEF Range
<1> QED
  BY <1>1, <1>2 DEF Written, Stored

\* A thread that is between calls
LEMMA IdleType ==
    ASSUME NEW n \in Nat
    PROVE  Idle(n) \in Thds /\ Idle(n).at = "idle" /\ Idle(n).line = 0 /\ Idle(n).no = n
BY DEF Idle, Thds

(***************************************************************************)
(* What the end of the process leaves: S are the sinks.  What was stored,  *)
(* and what was written unless the process was killed, is still there.     *)
(***************************************************************************)
Ended(S) ==
    /\ proc = "up"
    /\ sink' = S /\ S \in [AllLoggers -> Sinks]
    /\ \A l \in AllLoggers :
          /\ Sound(S[l], now) /\ S[l].file = None /\ S[l].lock = None
          /\ Files(S[l]) = Files(sink[l])
          /\ Stored(sink[l]) \subseteq Stored(S[l]) /\ Stored(S[l]) = Written(S[l])
          /\ Written(S[l]) \subseteq Written(sink[l])
          /\ proc' # "killed" => Written(S[l]) = Written(sink[l])
    /\ proc' \in {"killed", "exited"} /\ handler' = FALSE
    /\ th' = [t \in Threads |-> Idle(th[t].no)]
    /\ UNCHANGED <<now, init, starts, acked>>

\* The end of a process, killed or left through exit(), keeps the invariant.
LEMMA EndedSafe ==
    ASSUME Safe, NEW S, Ended(S), failures' \in 0 .. MaxFailures,
           crash' \in [tracer : Threads \cup {None}, faulted : SUBSET Threads, before : SUBSET Rec]
    PROVE  Safe'
<1>1. /\ th \in [Threads -> Thds] /\ acked \in SUBSET Rec
      /\ \A t \in Threads : th[t].no \in Nat
  BY DEF Safe, Types, Thds
<1>2. /\ th' \in [Threads -> Thds]
      /\ \A t \in Threads : th'[t].at = "idle" /\ th'[t].line = 0 /\ th'[t].no = th[t].no
  BY <1>1, IdleType DEF Ended
<1>3. Types'
  BY <1>2 DEF Safe, Types, Ended
<1>4. SinksSound'
  BY DEF SinksSound, Ended
<1>5. Constructed'
  BY DEF Constructed, Ended
<1>6. Calling'
  BY <1>2 DEF Calling, Busy, Holds, Ended
<1>7. Fresh'
  <2>1. ASSUME NEW l \in AllLoggers, NEW r \in Written(sink'[l])
        PROVE  r.no <= th'[r.by].no /\ th'[r.by].at = "idle"
    <3>1. r \in Written(sink[l])
      BY DEF Ended
    <3>2. r \in Rec
      BY <3>1, WrittenType DEF Safe, Types
    <3> QED
      BY <1>2, <3>1, <3>2 DEF Safe, Fresh, Rec
  <2>2. ASSUME NEW r \in acked'
        PROVE  r.no <= th'[r.by].no /\ th'[r.by].at = "idle"
    <3>1. r \in acked /\ r \in Rec /\ r.by \in Threads
      BY <1>1 DEF Ended, Rec
    <3> QED
      BY <1>2, <3>1 DEF Safe, Fresh
  <2> QED
    BY <2>1, <2>2 DEF Fresh, Busy
<1>8. Kept'
  <2>1. ASSUME NEW r \in acked'
        PROVE  /\ r.lvl >= Err => r \in Stored(sink'[r.logger])
               /\ proc' # "killed" => r \in Written(sink'[r.logger])
    <3>1. r \in acked /\ r.logger \in AllLoggers
      BY <1>1 DEF Ended, Rec
    <3>2. r.lvl >= Err => r \in Stored(sink[r.logger])
      BY <3>1 DEF Safe, Kept
    <3>3. r \in Written(sink[r.logger])
      BY <3>1 DEF Safe, Kept, Ended
    <3> QED
      BY <3>1, <3>2, <3>3 DEF Ended
  <2> QED
    BY <1>2, <2>1 DEF Kept
<1> QED
  BY <1>3, <1>4, <1>5, <1>6, <1>7, <1>8 DEF Safe

\* exit() flushes and closes the files.
LEMMA QuitEnds ==
    ASSUME Safe, Quit, proc = "up"
    PROVE  \E S : Ended(S)
<1>1. now \in Nat /\ \A l \in AllLoggers : Sound(sink[l], now)
  BY TimesType DEF Safe, Types, SinksSound
<1>2. PICK S : S = [l \in AllLoggers |-> Left(Closed(sink[l]))]
  OBVIOUS
<1>3. ASSUME NEW l \in AllLoggers
      PROVE  /\ S[l] \in Sinks
             /\ Sound(S[l], now) /\ S[l].file = None /\ S[l].lock = None
             /\ Files(S[l]) = Files(sink[l])
             /\ Stored(S[l]) = Written(sink[l]) /\ Written(S[l]) = Written(sink[l])
  <2>1. PICK s, t : s = sink[l] /\ t = Left(Closed(s))
    OBVIOUS
  <2>2. Sound(s, now)
    BY <1>1, <2>1
  <2>3. /\ Sound(t, now) /\ t.file = None /\ t.lock = None /\ Files(t) = Files(s)
        /\ Stored(t) = Written(s) /\ Written(t) = Written(s)
    BY <1>1, <2>1, <2>2, QuitSound
  <2>4. t \in Sinks
    BY <2>3 DEF Sound, Opened
  <2> QED
    BY <1>2, <2>1, <2>3, <2>4
<1>4. S \in [AllLoggers -> Sinks] /\ sink' = S
  BY <1>2, <1>3 DEF Quit
<1>5. \A l \in AllLoggers : Stored(sink[l]) \subseteq Written(sink[l])
  BY DEF Written
<1>6. /\ proc' = "exited" /\ handler' = FALSE
      /\ th' = [t \in Threads |-> Idle(th[t].no)]
      /\ UNCHANGED <<now, init, starts, acked>>
  BY DEF Quit
<1>7. Ended(S)
  BY <1>3, <1>4, <1>5, <1>6 DEF Ended
<1> QED
  BY <1>7

\* A process that is killed loses its buffers.
LEMMA KillEnds ==
    ASSUME Safe, Kill, proc = "up"
    PROVE  \E S : Ended(S)
<1>1. now \in Nat /\ \A l \in AllLoggers : Sound(sink[l], now)
  BY TimesType DEF Safe, Types, SinksSound
<1>2. PICK S : S = [l \in AllLoggers |-> Left(sink[l])]
  OBVIOUS
<1>3. ASSUME NEW l \in AllLoggers
      PROVE  /\ S[l] \in Sinks
             /\ Sound(S[l], now) /\ S[l].file = None /\ S[l].lock = None
             /\ Files(S[l]) = Files(sink[l])
             /\ Stored(S[l]) = Stored(sink[l]) /\ Written(S[l]) = Stored(sink[l])
  <2>1. PICK s, t : s = sink[l] /\ t = Left(s)
    OBVIOUS
  <2>2. Sound(s, now)
    BY <1>1, <2>1
  <2>3. /\ Sound(t, now) /\ t.file = None /\ t.lock = None /\ Files(t) = Files(s)
        /\ Stored(t) = Stored(s) /\ Written(t) = Stored(s)
    BY <1>1, <2>1, <2>2, LeftSound
  <2>4. t \in Sinks
    BY <2>3 DEF Sound, Opened
  <2> QED
    BY <1>2, <2>1, <2>3, <2>4
<1>4. S \in [AllLoggers -> Sinks] /\ sink' = S
  BY <1>2, <1>3 DEF Kill
<1>5. \A l \in AllLoggers : Stored(sink[l]) \subseteq Written(sink[l])
  BY DEF Written
<1>6. /\ proc' = "killed" /\ handler' = FALSE
      /\ th' = [t \in Threads |-> Idle(th[t].no)]
      /\ UNCHANGED <<now, init, starts, acked>>
  BY DEF Kill
<1>7. Ended(S)
  BY <1>3, <1>4, <1>5, <1>6 DEF Ended
<1> QED
  BY <1>7

\* LOGSINK: the thread begins a call, or logs nothing.
Begun(t, w) ==
    /\ proc = "up" /\ ~Busy(t)
    /\ th' = [th EXCEPT ![t] = w]
    /\ w \in Thds /\ w.no = th[t].no + 1
    /\ \/ w.at = th[t].at
       \/ /\ w.at = "sink" /\ w.rec \in Rec
          /\ w.rec.by = t /\ w.rec.no = w.no /\ w.rec.time <= now
          /\ sink[w.rec.logger].file # None
    /\ UNCHANGED <<now, sink, proc, init, handler, starts, failures, acked, crash>>

\* The beginning of a call keeps the invariant: its record is newer than all that
\* the thread has written.
LEMMA BegunSafe ==
    ASSUME Safe, NEW t \in Threads, NEW w, Begun(t, w)
    PROVE  Safe'
<1>1. /\ th' = [th EXCEPT ![t] = w] /\ w \in Thds /\ w.no = th[t].no + 1
      /\ now' = now /\ sink' = sink /\ proc' = proc /\ init' = init /\ handler' = handler
      /\ starts' = starts /\ failures' = failures /\ acked' = acked /\ crash' = crash
      /\ proc = "up" /\ ~Busy(t)
  BY DEF Begun
<1>2. \/ w.at = th[t].at
      \/ /\ w.at = "sink" /\ w.rec \in Rec
         /\ w.rec.by = t /\ w.rec.no = w.no /\ w.rec.time <= now
         /\ sink[w.rec.logger].file # None
  BY DEF Begun
<1>3. th \in [Threads -> Thds] /\ th[t].no \in Nat
  BY DEF Safe, Types, Thds
<1>4. /\ th' \in [Threads -> Thds] /\ th'[t] = w
      /\ \A x \in Threads : x # t => th'[x] = th[x]
  BY <1>1, <1>3
<1>5. Types'
  BY <1>1, <1>4 DEF Safe, Types
<1>6. SinksSound' /\ Constructed'
  BY <1>1 DEF Safe, SinksSound, Constructed, Building
<1>7. w.at \notin {"write", "delete", "flush"}
  BY <1>1, <1>2 DEF Busy
<1>8. Calling'
  <2>1. \A x \in Threads : Busy(x)' =>
          /\ th'[x].rec \in Rec /\ th'[x].rec.by = x /\ th'[x].rec.no = th'[x].no
          /\ th'[x].rec.time <= now'
          /\ sink'[th'[x].rec.logger].file # None
    <3> SUFFICES ASSUME NEW x \in Threads, Busy(x)'
                 PROVE  /\ th'[x].rec \in Rec /\ th'[x].rec.by = x /\ th'[x].rec.no = th'[x].no
                        /\ th'[x].rec.time <= now'
                        /\ sink'[th'[x].rec.logger].file # None
      OBVIOUS
    <3>1. CASE x = t
      BY <1>1, <1>2, <1>4, <3>1 DEF Busy
    <3>2. CASE x # t
      <4>1. th'[x] = th[x] /\ Busy(x)
        BY <1>4, <3>2 DEF Busy
      <4> QED
        BY <1>1, <4>1 DEF Safe, Calling
    <3> QED
      BY <3>1, <3>2
  <2>2. \A x \in Threads : th'[x].at \in {"write", "delete"} => th'[x] = th[x]
    BY <1>4, <1>7
  <2>3. \A l \in AllLoggers : sink[l].lock # None => th'[sink[l].lock] = th[sink[l].lock]
    <3> SUFFICES ASSUME NEW l \in AllLoggers, sink[l].lock # None
                 PROVE  th'[sink[l].lock] = th[sink[l].lock]
      OBVIOUS
    <3>1. Holds(sink[l].lock)
      BY DEF Safe, Calling
    <3>2. sink[l].lock # t
      BY <1>1, <3>1 DEF Holds, Busy
    <3> QED
      BY <1>1, <3>2
  <2> QED
    BY <1>1, <2>1, <2>2, <2>3 DEF Safe, Calling, Holds
<1>9. Fresh'
  <2>1. ASSUME NEW e \in Rec, e.no <= th[e.by].no
        PROVE  e.no <= th'[e.by].no /\ (e.by = t => e.no < th'[e.by].no)
    <3>1. e.no \in Nat /\ e.by \in Threads
      BY DEF Rec
    <3>2. CASE e.by = t
      BY <1>1, <1>3, <1>4, <2>1, <3>1, <3>2
    <3>3. CASE e.by # t
      BY <1>4, <2>1, <3>1, <3>3
    <3> QED
      BY <3>2, <3>3
  <2>2. ASSUME NEW l \in AllLoggers, NEW e \in Written(sink[l])
        PROVE  /\ e.no <= th'[e.by].no
               /\ th'[e.by].at \in {"sink", "write"} => e.no < th'[e.by].no
    <3>1. e \in Rec /\ e.by \in Threads
      BY WrittenType DEF Safe, Types, Rec
    <3>2. /\ e.no <= th[e.by].no
          /\ th[e.by].at \in {"sink", "write"} => e.no < th[e.by].no
      BY DEF Safe, Fresh
    <3>3. e.by # t => th'[e.by] = th[e.by]
      BY <1>4, <3>1
    <3> QED
      BY <2>1, <3>1, <3>2, <3>3
  <2>3. ASSUME NEW e \in acked
        PROVE  /\ e.no <= th'[e.by].no
               /\ Busy(e.by)' => e.no < th'[e.by].no
    <3>1. e \in Rec /\ e.by \in Threads
      BY DEF Safe, Types, Rec
    <3>2. e.no <= th[e.by].no /\ (Busy(e.by) => e.no < th[e.by].no)
      BY DEF Safe, Fresh
    <3>3. e.by # t => th'[e.by] = th[e.by]
      BY <1>4, <3>1
    <3> QED
      BY <2>1, <3>1, <3>2, <3>3 DEF Busy
  <2> QED
    BY <1>1, <2>2, <2>3 DEF Fresh, Busy
<1>10. Kept'
  <2>1. \A x \in Threads : th'[x].at \in {"delete", "flush"} => th'[x] = th[x]
    BY <1>4, <1>7
  <2> QED
    BY <1>1, <2>1 DEF Safe, Kept
<1> QED
  BY <1>5, <1>6, <1>8, <1>9, <1>10 DEF Safe
\* The loggers are different, and the main one is one of them.
LEMMA LoggerNames ==
    /\ DOMAIN Loggers = 1 .. Len(Loggers) /\ Len(Loggers) \in Nat \ {0}
    /\ \A i \in DOMAIN Loggers : Loggers[i] \in AllLoggers
    /\ \A i, j \in DOMAIN Loggers : Loggers[i] = Loggers[j] => i = j
    /\ \A l \in AllLoggers : \E i \in DOMAIN Loggers : l = Loggers[i]
    /\ 1 \in DOMAIN Loggers /\ Main \in AllLoggers
<1>1. Loggers \in Seq(AllLoggers) /\ Loggers # <<>> /\ IsInjective(Loggers)
  BY LoggingAssumption DEF AllLoggers
<1>2. /\ DOMAIN Loggers = 1 .. Len(Loggers) /\ Len(Loggers) \in Nat \ {0}
      /\ \A i \in DOMAIN Loggers : Loggers[i] \in AllLoggers
      /\ 1 \in DOMAIN Loggers
  BY <1>1
<1>3. \A i, j \in DOMAIN Loggers : Loggers[i] = Loggers[j] => i = j
  BY <1>1 DEF IsInjective
<1>4. \A l \in AllLoggers : \E i \in DOMAIN Loggers : l = Loggers[i]
  BY DEF AllLoggers, Range
<1> QED
  BY <1>2, <1>3, <1>4 DEF Main

\* The thread after LOGSINK
LEMMA LogFields ==
    ASSUME Safe, NEW t \in Threads, NEW l \in AllLoggers, NEW lvl \in Nat, NEW w, w = Log(t, l, lvl)
    PROVE  /\ w \in Thds /\ w.no = th[t].no + 1 /\ w.line = th[t].line
           /\ ~Passes(l, lvl) => w.at = th[t].at
           /\ Passes(l, lvl) => /\ w.at = "sink" /\ w.rec \in Rec
                                /\ w.rec.by = t /\ w.rec.no = w.no /\ w.rec.time <= now
                                /\ w.rec.logger = l /\ w.rec.lvl = lvl
                                /\ sink[l].file # None
<1>1. th[t] \in Thds /\ th[t].no \in Nat /\ now \in Times /\ now <= now
  BY TimesType DEF Safe, Types, Thds
<1>2. CASE Passes(l, lvl)
  <2>1. PICK r : r = Record(t, l, lvl, now)
    OBVIOUS
  <2>2. /\ r \in Rec /\ r.by = t /\ r.no = th[t].no + 1 /\ r.time = now
        /\ r.logger = l /\ r.lvl = lvl
    BY <1>1, <2>1 DEF Record, Rec
  <2>3. w = [th[t] EXCEPT !.no = th[t].no + 1, !.rec = r, !.at = "sink"]
    BY <1>2, <2>1 DEF Log
  <2>4. w \in Thds /\ w.no = th[t].no + 1 /\ w.line = th[t].line /\ w.at = "sink" /\ w.rec = r
    <3>1. PICK v, k : v = th[t] /\ k = th[t].no + 1
      OBVIOUS
    <3>2. v \in Thds /\ k \in Nat /\ w = [v EXCEPT !.no = k, !.rec = r, !.at = "sink"]
      BY <1>1, <2>3, <3>1
    <3>3. r \in Rec \cup {<<>>}
      BY <2>2
    <3>4. w \in Thds /\ w.no = k /\ w.line = v.line /\ w.at = "sink" /\ w.rec = r
      BY <3>2, <3>3 DEF Thds
    <3> QED
      BY <3>1, <3>4
  <2> QED
    BY <1>1, <1>2, <2>2, <2>4 DEF Passes
<1>3. CASE ~Passes(l, lvl)
  <2>1. w = [th[t] EXCEPT !.no = th[t].no + 1, !.rec = th[t].rec, !.at = th[t].at]
    BY <1>3 DEF Log
  <2>2. w \in Thds /\ w.no = th[t].no + 1 /\ w.line = th[t].line /\ w.at = th[t].at
    <3>1. PICK v, k : v = th[t] /\ k = th[t].no + 1
      OBVIOUS
    <3>2. v \in Thds /\ k \in Nat /\ w = [v EXCEPT !.no = k, !.rec = v.rec, !.at = v.at]
      BY <1>1, <2>1, <3>1
    <3>3. w \in Thds /\ w.no = k /\ w.line = v.line /\ w.at = v.at
      BY <3>2 DEF Thds
    <3> QED
      BY <3>1, <3>3
  <2> QED
    BY <1>3, <2>2
<1> QED
  BY <1>2, <1>3

\* A thread of the program logs.
LEMMA CallBegins ==
    ASSUME Safe, NEW t \in Threads, Call(t)
    PROVE  \E w : Begun(t, w) /\ w.line = th[t].line /\ w.at \in {"idle", "sink"}
<1>1. PICK c \in Calls : th' = [th EXCEPT ![t] = Log(t, c[1], c[2])]
  BY DEF Call
<1>0. PICK l, lvl : l = c[1] /\ lvl = c[2]
  OBVIOUS
<1>2. lvl \in Nat /\ l \in AllLoggers
  BY <1>0, LoggingAssumption DEF AllLoggers
<1>3. PICK w : w = Log(t, l, lvl)
  OBVIOUS
<1>4. /\ w \in Thds /\ w.no = th[t].no + 1 /\ w.line = th[t].line
      /\ ~Passes(l, lvl) => w.at = th[t].at
      /\ Passes(l, lvl) => /\ w.at = "sink" /\ w.rec \in Rec
                           /\ w.rec.by = t /\ w.rec.no = w.no /\ w.rec.time <= now
                           /\ w.rec.logger = l /\ sink[l].file # None
  BY <1>2, <1>3, LogFields
<1>5. /\ proc = "up" /\ th[t].at = "idle" /\ ~Busy(t)
      /\ UNCHANGED <<now, sink, proc, init, handler, starts, failures, acked, crash>>
  BY DEF Call, Busy
<1>6. Begun(t, w)
  BY <1>0, <1>1, <1>2, <1>3, <1>4, <1>5 DEF Begun
<1> QED
  BY <1>4, <1>5, <1>6

\* The handler logs a line.
LEMMA TraceBegins ==
    ASSUME Safe, NEW t \in Threads, Trace(t)
    PROVE  \E w : /\ Begun(t, w) /\ w.line = th[t].line + 1 /\ w.at \in {"trace", "sink"}
                  /\ Passes(Main, Critical) => /\ w.at = "sink" /\ w.rec.lvl = Critical
                                               /\ w.rec.logger = Main
<1>1. PICK v : v = Log(t, Main, Critical)
  OBVIOUS
<1>2. Critical \in Nat /\ Main \in AllLoggers
  BY LoggerNames DEF Critical
<1>3. /\ v \in Thds /\ v.no = th[t].no + 1 /\ v.line = th[t].line
      /\ ~Passes(Main, Critical) => v.at = th[t].at
      /\ Passes(Main, Critical) => /\ v.at = "sink" /\ v.rec \in Rec
                                   /\ v.rec.by = t /\ v.rec.no = v.no /\ v.rec.time <= now
                                   /\ v.rec.logger = Main /\ v.rec.lvl = Critical
                                   /\ sink[Main].file # None
  BY <1>1, <1>2, LogFields
<1>4. PICK w : w = [v EXCEPT !.line = v.line + 1]
  OBVIOUS
<1>5. w \in Thds /\ w.no = v.no /\ w.line = th[t].line + 1 /\ w.at = v.at /\ w.rec = v.rec
  BY <1>3, <1>4 DEF Thds
<1>6. /\ th' = [th EXCEPT ![t] = w] /\ th[t].at = "trace" /\ ~Busy(t)
      /\ UNCHANGED <<now, sink, proc, init, handler, starts, failures, acked, crash>>
  BY <1>1, <1>4 DEF Trace, Busy
<1>7. proc = "up"
  BY <1>6 DEF Safe, Calling
<1>8. Begun(t, w)
  BY <1>3, <1>5, <1>6, <1>7 DEF Begun
<1> QED
  BY <1>3, <1>5, <1>6, <1>8

\* A fault enters the handler.
LEMMA FaultSafe ==
    ASSUME Safe, NEW t \in Threads, Fault(t), handler
    PROVE  Safe'
<1>1. PICK w : w = [th[t] EXCEPT !.at = "trace", !.line = 1]
  OBVIOUS
<1>2. th \in [Threads -> Thds] /\ th[t] \in Thds /\ th[t].no \in Nat
  BY DEF Safe, Types, Thds
<1>3. w \in Thds /\ w.at = "trace" /\ w.line = 1 /\ w.no = th[t].no
  BY <1>1, <1>2 DEF Thds
<1>4. /\ th' = [th EXCEPT ![t] = w] /\ proc = "up" /\ th[t].at = "idle" /\ handler' = FALSE
      /\ now' = now /\ sink' = sink /\ proc' = proc /\ init' = init
      /\ starts' = starts /\ failures' = failures /\ acked' = acked
      /\ crash' = [tracer |-> t, faulted |-> crash.faulted \cup {t}, before |-> OfMain]
  BY <1>1 DEF Fault
<1>5. /\ th' \in [Threads -> Thds] /\ th'[t] = w
      /\ \A x \in Threads : x # t => th'[x] = th[x]
  BY <1>2, <1>3, <1>4
<1>6. crash' \in [tracer : Threads \cup {None}, faulted : SUBSET Threads, before : SUBSET Rec]
  BY <1>4 DEF Safe, Types, OfMain
<1>7. Types'
  BY <1>4, <1>5, <1>6 DEF Safe, Types
<1>8. SinksSound' /\ Constructed'
  BY <1>4 DEF Safe, SinksSound, Constructed
<1>9. \A x \in Threads : th'[x].at \in {"sink", "write", "delete", "flush"} => th'[x] = th[x]
  BY <1>3, <1>5
<1>10. Calling'
  <2>1. \A l \in AllLoggers : sink[l].lock # None => th'[sink[l].lock] = th[sink[l].lock]
    <3> SUFFICES ASSUME NEW l \in AllLoggers, sink[l].lock # None
                 PROVE  th'[sink[l].lock] = th[sink[l].lock]
      OBVIOUS
    <3>1. Holds(sink[l].lock)
      BY DEF Safe, Calling
    <3>2. sink[l].lock # t
      BY <1>4, <3>1 DEF Holds
    <3> QED
      BY <1>4, <3>2
  <2> QED
    BY <1>4, <1>9, <2>1 DEF Safe, Calling, Holds, Busy
<1>11. \A x \in Threads : th'[x].no = th[x].no
  BY <1>3, <1>5
<1>12. Fresh'
  <2>1. ASSUME NEW l \in AllLoggers, NEW e \in Written(sink[l])
        PROVE  /\ e.no <= th'[e.by].no
               /\ th'[e.by].at \in {"sink", "write"} => e.no < th'[e.by].no
    <3>1. e.by \in Threads
      BY WrittenType DEF Safe, Types, Rec
    <3> QED
      BY <1>9, <1>11, <3>1 DEF Safe, Fresh
  <2>2. ASSUME NEW e \in acked
        PROVE  /\ e.no <= th'[e.by].no
               /\ th'[e.by].at \in {"sink", "write", "delete", "flush"} => e.no < th'[e.by].no
    <3>1. e.by \in Threads
      BY DEF Safe, Types, Rec
    <3> QED
      BY <1>9, <1>11, <3>1 DEF Safe, Fresh, Busy
  <2> QED
    BY <1>4, <2>1, <2>2 DEF Fresh, Busy
<1>13. Kept'
  BY <1>4, <1>9 DEF Safe, Kept
<1> QED
  BY <1>7, <1>8, <1>10, <1>12, <1>13 DEF Safe
\* A step in the constructor of a sink, which is u afterwards
Constructing(u) ==
    /\ proc = "init" /\ proc' \in {"init", "up"}
    /\ sink' = [sink EXCEPT ![Building] = u]
    /\ Sound(u, now) /\ u.file # None /\ u.lock = None
    /\ Written(u) = Written(sink[Building]) /\ Stored(sink[Building]) \subseteq Stored(u)
    /\ Files(sink[Building]) \subseteq Files(u)
    /\ init' \in [i : DOMAIN Loggers, step : {"open", "rotation", "names"}]
    /\ handler' \in BOOLEAN
    /\ UNCHANGED <<now, th, starts, failures, acked, crash>>

\* What LogInit() builds, and what it keeps of the invariant.
LEMMA BuildingType ==
    ASSUME Safe
    PROVE  /\ Building \in AllLoggers /\ Sound(sink[Building], now) /\ now \in Times
           /\ init.i \in DOMAIN Loggers
<1>1. init.i \in DOMAIN Loggers
  BY DEF Safe, Types
<1>2. Building \in AllLoggers
  BY <1>1, LoggerNames DEF Building
<1> QED
  BY <1>1, <1>2 DEF Safe, SinksSound, Types

\* A step of a sink's constructor keeps what the invariant says of the files and
\* changes no other sink.
LEMMA ConstructingSafe ==
    ASSUME Safe, NEW u, Constructing(u)
    PROVE  /\ Types' /\ SinksSound' /\ Calling' /\ Fresh' /\ Kept'
           /\ sink'[Building] = u
           /\ \A m \in AllLoggers : m # Building => sink'[m] = sink[m]
<1>1. PICK b : b = Building
  OBVIOUS
<1>2. b \in AllLoggers
  BY <1>1, BuildingType
<1>3. /\ proc = "init" /\ proc' \in {"init", "up"}
      /\ sink' = [sink EXCEPT ![b] = u]
      /\ Sound(u, now) /\ u.file # None /\ u.lock = None
      /\ Written(u) = Written(sink[b]) /\ Stored(sink[b]) \subseteq Stored(u)
      /\ now' = now /\ th' = th /\ starts' = starts /\ failures' = failures
      /\ acked' = acked /\ crash' = crash
  BY <1>1 DEF Constructing
<1>4. u \in Sinks /\ sink \in [AllLoggers -> Sinks]
  BY <1>3 DEF Sound, Opened, Safe, Types
<1>5. /\ sink' \in [AllLoggers -> Sinks] /\ sink'[b] = u
      /\ \A m \in AllLoggers : m # b => sink'[m] = sink[m]
  BY <1>2, <1>3, <1>4
<1>6. Types'
  BY <1>3, <1>5 DEF Safe, Types, Constructing
<1>7. SinksSound'
  BY <1>3, <1>5 DEF Safe, SinksSound
<1>8. \A t \in Threads : th[t].at = "idle" /\ th[t].line = 0
  BY <1>3 DEF Safe, Calling
<1>9. \A m \in AllLoggers : /\ sink'[m].lock = None
                            /\ Written(sink'[m]) = Written(sink[m])
                            /\ Stored(sink[m]) \subseteq Stored(sink'[m])
  BY <1>3, <1>5 DEF Safe, Constructed
<1>10. Calling'
  BY <1>3, <1>8, <1>9 DEF Calling, Busy, Holds
<1>11. Fresh'
  BY <1>3, <1>9 DEF Safe, Fresh, Busy
<1>12. Kept'
  <2>1. \A r \in acked : r.logger \in AllLoggers
    BY DEF Safe, Types, Rec
  <2>2. \A r \in acked : /\ r.lvl >= Err => r \in Stored(sink[r.logger])
                         /\ r \in Written(sink[r.logger])
    BY <1>3 DEF Safe, Kept
  <2> QED
    BY <1>3, <1>8, <1>9, <2>1, <2>2 DEF Kept
<1> QED
  BY <1>1, <1>5, <1>6, <1>7, <1>10, <1>11, <1>12

\* The sink's first file is opened.
LEMMA InitOpenSafe ==
    ASSUME Safe, InitOpen
    PROVE  Safe' /\ \E u : Constructing(u)
<1>1. PICK b, s, n : b = Building /\ s = sink[b] /\ n = now
  OBVIOUS
<1>2. b \in AllLoggers /\ Sound(s, n) /\ n \in Times /\ init.i \in DOMAIN Loggers
  BY <1>1, BuildingType
<1>3. /\ proc = "init" /\ init.step = "open" /\ s.file = None
  BY <1>1 DEF InitOpen, Safe, Constructed
<1>4. PICK u : u = Open(s, Date(n), n)
  OBVIOUS
<1>5. /\ Sound(u, n) /\ u.file = Date(n) /\ u.lock = None /\ u.names = <<>>
      /\ Files(u) = Files(s) \cup {Date(n)} /\ Date(n) \in Day
      /\ Stored(u) = Written(s) /\ Written(u) = Written(s)
  BY <1>2, <1>3, <1>4, InitOpenSound, TimesType DEF Day
<1>6. /\ proc' = "init" /\ init' = [init EXCEPT !.step = "rotation"] /\ handler' = handler
      /\ sink' = [sink EXCEPT ![b] = u]
      /\ UNCHANGED <<now, th, starts, failures, acked, crash>>
  BY <1>1, <1>4 DEF InitOpen
<1>7. init \in [i : DOMAIN Loggers, step : {"open", "rotation", "names"}] /\ handler \in BOOLEAN
  BY DEF Safe, Types
<1>8. /\ init' \in [i : DOMAIN Loggers, step : {"open", "rotation", "names"}]
      /\ init'.i = init.i /\ init'.step = "rotation"
  BY <1>6, <1>7
<1>9. Constructing(u)
  BY <1>1, <1>2, <1>3, <1>5, <1>6, <1>7, <1>8 DEF Constructing, Day, None, Written
<1>10. /\ Types' /\ SinksSound' /\ Calling' /\ Fresh' /\ Kept'
       /\ sink'[b] = u /\ \A m \in AllLoggers : m # b => sink'[m] = sink[m]
  BY <1>1, <1>9, ConstructingSafe
<1>11. Building' = b
  BY <1>1, <1>8 DEF Building
<1>12. Constructed'
  <2>1. \A j \in DOMAIN Loggers : j # init.i => Loggers[j] # b /\ Loggers[j] \in AllLoggers
    BY <1>1, <1>2, LoggerNames DEF Building
  <2>2. \A m \in AllLoggers : m # b => sink[m].file = None \/ Built(sink[m])
    BY <1>1, <1>3 DEF Safe, Constructed
  <2>3. /\ \A m \in AllLoggers : sink[m].lock = None
        /\ \A j \in DOMAIN Loggers : j < init.i => sink[Loggers[j]].file # None
        /\ \A j \in DOMAIN Loggers : j > init.i => sink[Loggers[j]].file = None
        /\ ~handler
    BY <1>3 DEF Safe, Constructed
  <2>4. u.file # None
    BY <1>9 DEF Constructing
  <2>5. \A m \in AllLoggers : sink'[m].lock = None
    BY <1>5, <1>10, <2>3
  <2>6. \A j \in DOMAIN Loggers : /\ j < init.i => sink'[Loggers[j]].file # None
                                  /\ j > init.i => sink'[Loggers[j]].file = None
    <3> SUFFICES ASSUME NEW j \in DOMAIN Loggers
                 PROVE  /\ j < init.i => sink'[Loggers[j]].file # None
                        /\ j > init.i => sink'[Loggers[j]].file = None
      OBVIOUS
    <3>1. j \in Nat /\ init.i \in Nat
      BY <1>2, LoggerNames
    <3>2. j # init.i => sink'[Loggers[j]] = sink[Loggers[j]]
      BY <1>10, <2>1
    <3> QED
      BY <2>3, <3>1, <3>2
  <2> QED
    BY <1>5, <1>6, <1>8, <1>10, <1>11, <2>2, <2>3, <2>4, <2>5, <2>6 DEF Constructed
<1> QED
  BY <1>9, <1>10, <1>12 DEF Safe

\* Its rotation is set.
LEMMA InitRotationSafe ==
    ASSUME Safe, InitRotation
    PROVE  Safe' /\ \E u : Constructing(u)
<1>1. PICK b, s, n : b = Building /\ s = sink[b] /\ n = now
  OBVIOUS
<1>2. b \in AllLoggers /\ Sound(s, n) /\ n \in Times /\ init.i \in DOMAIN Loggers
  BY <1>1, BuildingType
<1>3. /\ proc = "init" /\ init.step = "rotation" /\ s.file # None /\ s.names = <<>> /\ s.lock = None
  BY <1>1, <1>2 DEF InitRotation, Safe, Constructed
<1>4. PICK u : u = Scheduled(s, n)
  OBVIOUS
<1>5. /\ Sound(u, n) /\ Built(u)
      /\ u.file = s.file /\ u.lock = s.lock /\ u.names = s.names
      /\ Files(u) = Files(s)
      /\ Stored(u) = Stored(s) /\ Written(u) = Written(s)
  BY <1>2, <1>3, <1>4, InitRotationSound
<1>6. /\ proc' = "init" /\ init' = [init EXCEPT !.step = "names"] /\ handler' = handler
      /\ sink' = [sink EXCEPT ![b] = u]
      /\ UNCHANGED <<now, th, starts, failures, acked, crash>>
  BY <1>1, <1>4 DEF InitRotation
<1>7. init \in [i : DOMAIN Loggers, step : {"open", "rotation", "names"}] /\ handler \in BOOLEAN
  BY DEF Safe, Types
<1>8. /\ init' \in [i : DOMAIN Loggers, step : {"open", "rotation", "names"}]
      /\ init'.i = init.i /\ init'.step = "names"
  BY <1>6, <1>7
<1>9. Constructing(u)
  BY <1>1, <1>3, <1>5, <1>6, <1>7, <1>8 DEF Constructing
<1>10. /\ Types' /\ SinksSound' /\ Calling' /\ Fresh' /\ Kept'
       /\ sink'[b] = u /\ \A m \in AllLoggers : m # b => sink'[m] = sink[m]
  BY <1>1, <1>9, ConstructingSafe
<1>11. Building' = b
  BY <1>1, <1>8 DEF Building
<1>12. Constructed'
  <2>1. \A j \in DOMAIN Loggers : j # init.i => Loggers[j] # b /\ Loggers[j] \in AllLoggers
    BY <1>1, <1>2, LoggerNames DEF Building
  <2>2. \A m \in AllLoggers : m # b => sink[m].file = None \/ Built(sink[m])
    BY <1>1, <1>3 DEF Safe, Constructed
  <2>3. /\ \A m \in AllLoggers : sink[m].lock = None
        /\ \A j \in DOMAIN Loggers : j < init.i => sink[Loggers[j]].file # None
        /\ \A j \in DOMAIN Loggers : j > init.i => sink[Loggers[j]].file = None
        /\ ~handler
    BY <1>3 DEF Safe, Constructed
  <2>4. \A m \in AllLoggers : sink'[m].lock = None
    BY <1>3, <1>5, <1>10, <2>3
  <2>5. \A j \in DOMAIN Loggers : /\ j < init.i => sink'[Loggers[j]].file # None
                                  /\ j > init.i => sink'[Loggers[j]].file = None
    <3> SUFFICES ASSUME NEW j \in DOMAIN Loggers
                 PROVE  /\ j < init.i => sink'[Loggers[j]].file # None
                        /\ j > init.i => sink'[Loggers[j]].file = None
      OBVIOUS
    <3>1. j \in Nat /\ init.i \in Nat
      BY <1>2, LoggerNames
    <3>2. j # init.i => sink'[Loggers[j]] = sink[Loggers[j]]
      BY <1>10, <2>1
    <3> QED
      BY <2>3, <3>1, <3>2
  <2>6. \A m \in AllLoggers : sink'[m].file = None \/ Built(sink'[m])
    BY <1>5, <1>10, <2>2
  <2> QED
    BY <1>3, <1>5, <1>6, <1>8, <1>10, <1>11, <2>3, <2>4, <2>5, <2>6 DEF Constructed
<1> QED
  BY <1>9, <1>10, <1>12 DEF Safe

\* Its file names are listed; the next sink follows, or the program.
LEMMA InitQueueSafe ==
    ASSUME Safe, InitQueue
    PROVE  Safe' /\ \E u : Constructing(u)
<1>1. PICK b, s, n : b = Building /\ s = sink[b] /\ n = now
  OBVIOUS
<1>2. b \in AllLoggers /\ Sound(s, n) /\ n \in Times /\ init.i \in DOMAIN Loggers
  BY <1>1, BuildingType
<1>3. /\ proc = "init" /\ init.step = "names" /\ s.file # None /\ s.names = <<>> /\ s.lock = None
      /\ Built(s)
  BY <1>1, <1>2 DEF InitQueue, Safe, Constructed
<1>4. PICK u : u = Listed(s, n)
  OBVIOUS
<1>5. /\ Sound(u, n) /\ Files(u) = Files(s)
      /\ u.file = s.file /\ u.lock = None /\ u.rot = s.rot /\ u.opened = s.opened
      /\ Stored(u) = Stored(s) /\ Written(u) = Written(s)
  BY <1>2, <1>3, <1>4, InitQueueSound
<1>6. Built(u)
  BY <1>3, <1>5 DEF Built
<1>7. /\ sink' = [sink EXCEPT ![b] = u]
      /\ UNCHANGED <<now, th, starts, failures, acked, crash>>
  BY <1>1, <1>4 DEF InitQueue
<1>8. /\ init.i = Len(Loggers) =>
            init' = [i |-> init.i, step |-> "open"] /\ proc' = "up" /\ handler' = TRUE
      /\ init.i # Len(Loggers) =>
            init' = [i |-> init.i + 1, step |-> "open"] /\ proc' = "init" /\ handler' = FALSE
  BY DEF InitQueue
<1>9. /\ init' \in [i : DOMAIN Loggers, step : {"open", "rotation", "names"}]
      /\ init'.step = "open"
      /\ init.i # Len(Loggers) => init'.i = init.i + 1
  <2>1. init.i # Len(Loggers) => init.i + 1 \in DOMAIN Loggers
    BY <1>2, LoggerNames
  <2>2. \E k \in DOMAIN Loggers : init' = [i |-> k, step |-> "open"]
                                 /\ (init.i # Len(Loggers) => k = init.i + 1)
    BY <1>2, <1>8, <2>1
  <2> QED
    BY <2>2
<1>10. Constructing(u)
  <2>1. proc' \in {"init", "up"} /\ handler' \in BOOLEAN
    BY <1>8
  <2> QED
    BY <1>1, <1>3, <1>5, <1>7, <1>9, <2>1 DEF Constructing
<1>11. /\ Types' /\ SinksSound' /\ Calling' /\ Fresh' /\ Kept'
       /\ sink'[b] = u /\ \A m \in AllLoggers : m # b => sink'[m] = sink[m]
  BY <1>1, <1>10, ConstructingSafe
<1>12. Constructed'
  <2>1. \A j \in DOMAIN Loggers : j # init.i => Loggers[j] # b /\ Loggers[j] \in AllLoggers
    BY <1>1, <1>2, LoggerNames DEF Building
  <2>2. \A m \in AllLoggers : m # b => sink[m].file = None \/ Built(sink[m])
    BY <1>1, <1>3 DEF Safe, Constructed
  <2>3. /\ \A m \in AllLoggers : sink[m].lock = None
        /\ \A j \in DOMAIN Loggers : j < init.i => sink[Loggers[j]].file # None
        /\ \A j \in DOMAIN Loggers : j > init.i => sink[Loggers[j]].file = None
    BY <1>3 DEF Safe, Constructed
  <2>4. \A m \in AllLoggers : sink'[m].lock = None
    BY <1>5, <1>11, <2>3
  <2>5. \A j \in DOMAIN Loggers : /\ j <= init.i => sink'[Loggers[j]].file # None
                                  /\ j > init.i => sink'[Loggers[j]].file = None
    <3> SUFFICES ASSUME NEW j \in DOMAIN Loggers
                 PROVE  /\ j <= init.i => sink'[Loggers[j]].file # None
                        /\ j > init.i => sink'[Loggers[j]].file = None
      OBVIOUS
    <3>1. j \in Nat /\ init.i \in Nat
      BY <1>2, LoggerNames
    <3>2. j # init.i => sink'[Loggers[j]] = sink[Loggers[j]]
      BY <1>11, <2>1
    <3>3. j = init.i => sink'[Loggers[j]].file # None
      BY <1>1, <1>3, <1>5, <1>11 DEF Building
    <3> QED
      BY <2>3, <3>1, <3>2, <3>3
  <2>6. \A m \in AllLoggers : sink'[m].file = None \/ Built(sink'[m])
    BY <1>6, <1>11, <2>2
  <2>7. CASE init.i = Len(Loggers)
    <3>1. proc' = "up" /\ 1 \in DOMAIN Loggers /\ 1 <= init.i
      BY <1>2, <1>8, <2>7, LoggerNames
    <3>2. sink'[Main].file # None
      <4>1. PICK k \in DOMAIN Loggers : k = 1 /\ k <= init.i
        BY <3>1
      <4>2. sink'[Loggers[k]].file # None
        BY <2>5, <4>1
      <4> QED
        BY <4>1, <4>2 DEF Main
    <3> QED
      BY <2>6, <3>1, <3>2 DEF Constructed
  <2>8. CASE init.i # Len(Loggers)
    <3>1. proc' = "init" /\ handler' = FALSE /\ init'.i = init.i + 1 /\ init.i \in Nat
      BY <1>2, <1>8, <1>9, <2>8, LoggerNames
    <3>2. \A j \in DOMAIN Loggers : /\ j < init'.i => sink'[Loggers[j]].file # None
                                    /\ j > init'.i => sink'[Loggers[j]].file = None
      BY <2>5, <3>1, LoggerNames
    <3>3. sink'[Building'].file = None
      <4>1. init'.i \in DOMAIN Loggers /\ init'.i > init.i
        BY <1>9, <3>1
      <4> QED
        BY <2>5, <4>1 DEF Building
    <3>4. /\ \A j \in DOMAIN Loggers : j < init'.i => sink'[Loggers[j]].file # None
          /\ \A j \in DOMAIN Loggers : j > init'.i => sink'[Loggers[j]].file = None
      BY <3>2
    <3>5. init'.step = "open" /\ proc' = "init" /\ handler' = FALSE
      BY <1>9, <3>1
    <3> QED
      BY <2>4, <2>6, <3>3, <3>4, <3>5 DEF Constructed
  <2> QED
    BY <2>7, <2>8
<1> QED
  BY <1>10, <1>11, <1>12 DEF Safe
\* LogInit() gives up.
LEMMA InitOpenFailsSafe ==
    ASSUME Safe, InitOpenFails
    PROVE  Safe'
<1>1. /\ proc = "init" /\ init.step = "open" /\ failures < MaxFailures
      /\ failures' = failures + 1 /\ proc' = "up"
      /\ now' = now /\ sink' = sink /\ init' = init /\ handler' = handler /\ th' = th
      /\ starts' = starts /\ acked' = acked /\ crash' = crash
  BY DEF InitOpenFails
<1>2. failures' \in 0 .. MaxFailures
  BY <1>1, LoggingAssumption DEF Safe, Types
<1>3. Types'
  BY <1>1, <1>2 DEF Safe, Types
<1>4. SinksSound' /\ Fresh'
  BY <1>1 DEF Safe, SinksSound, Fresh, Busy
<1>5. Constructed'
  BY <1>1 DEF Safe, Constructed
<1>6. Calling'
  BY <1>1 DEF Safe, Calling, Busy, Holds
<1>7. Kept'
  BY <1>1 DEF Safe, Kept
<1> QED
  BY <1>3, <1>4, <1>5, <1>6, <1>7 DEF Safe

\* An hour comes.
LEMMA TickSafe ==
    ASSUME Safe, Tick
    PROVE  Safe'
<1>1. /\ now < now' /\ now' \in Moments
      /\ sink' = sink /\ proc' = proc /\ init' = init /\ handler' = handler /\ th' = th
      /\ starts' = starts /\ failures' = failures /\ acked' = acked /\ crash' = crash
  BY DEF Tick
<1>2. now \in Nat /\ now' \in Nat /\ now <= now' /\ now' \in Times
  <2>1. now' \in Hours /\ now \in Hours /\ Begin \in Hours /\ now >= Begin
    BY <1>1, LoggingAssumption DEF Safe, Types, Times
  <2>2. now \in Nat /\ now' \in Nat /\ Begin \in Nat
    BY <2>1, TimeConstants
  <2> QED
    BY <1>1, <2>1, <2>2 DEF Times
<1>3. Types'
  BY <1>1, <1>2 DEF Safe, Types
<1>4. SinksSound'
  <2>1. PICK n, m : n = now /\ m = now'
    OBVIOUS
  <2>2. \A l \in AllLoggers : Sound(sink[l], n)
    BY <2>1 DEF Safe, SinksSound
  <2>3. \A l \in AllLoggers : Sound(sink[l], m)
    BY <1>2, <2>1, <2>2, SoundLater
  <2> QED
    BY <1>1, <2>1, <2>3 DEF SinksSound
<1>5. Constructed' /\ Fresh' /\ Kept'
  BY <1>1 DEF Safe, Constructed, Building, Fresh, Busy, Kept
<1>6. Calling'
  <2>1. ASSUME NEW t \in Threads, Busy(t)
        PROVE  th[t].rec.time <= now'
    <3>1. th[t].rec.time \in Nat /\ th[t].rec.time <= now
      BY <2>1, CallTypes, TimesType
    <3> QED
      BY <1>1, <1>2, <3>1
  <2> QED
    BY <1>1, <2>1 DEF Safe, Calling, Busy, Holds
<1> QED
  BY <1>3, <1>4, <1>5, <1>6 DEF Safe

\* The process starts again, in the files that are there.
LEMMA StartSafe ==
    ASSUME Safe, Start
    PROVE  Safe'
<1>1. /\ proc \in {"killed", "exited"} /\ starts < MaxStarts /\ proc' = "init"
      /\ init' = [i |-> 1, step |-> "open"] /\ starts' = starts + 1 /\ crash' = NoCrash
      /\ acked' = {r \in acked : r.lvl >= Err}
      /\ now' = now /\ sink' = sink /\ handler' = handler /\ th' = th /\ failures' = failures
  BY DEF Start
<1>2. starts' \in 1 .. MaxStarts
  BY <1>1, LoggingAssumption DEF Safe, Types
<1>3. /\ init' \in [i : DOMAIN Loggers, step : {"open", "rotation", "names"}]
      /\ init'.i = 1 /\ init'.step = "open"
  BY <1>1, LoggerNames
<1>4. crash' \in [tracer : Threads \cup {None}, faulted : SUBSET Threads, before : SUBSET Rec]
  BY <1>1 DEF NoCrash
<1>5. acked' \in SUBSET acked /\ acked' \in SUBSET Rec /\ IsFiniteSet(acked')
  <2>1. acked \in SUBSET Rec /\ IsFiniteSet(acked)
    BY DEF Safe, Types
  <2>2. acked' \in SUBSET acked
    BY <1>1
  <2> QED
    BY <2>1, <2>2, FS_Subset
<1>6. Types'
  BY <1>1, <1>2, <1>3, <1>4, <1>5 DEF Safe, Types
<1>7. SinksSound'
  BY <1>1 DEF Safe, SinksSound
<1>8. Fresh'
  BY <1>1, <1>5 DEF Safe, Fresh, Busy
<1>9. Calling'
  BY <1>1 DEF Safe, Calling, Busy, Holds
<1>10. Kept'
  <2>1. \A s : Stored(s) \subseteq Written(s)
    BY DEF Written
  <2> QED
    BY <1>1, <2>1 DEF Safe, Kept
<1>11. Constructed'
  <2>1. \A l \in AllLoggers : sink'[l].file = None /\ sink'[l].lock = None
    BY <1>1 DEF Safe, Constructed, SinksSound, Sound, Opened
  <2>2. Building' \in AllLoggers /\ \A j \in DOMAIN Loggers : Loggers[j] \in AllLoggers /\ ~(j < 1)
    BY <1>3, LoggerNames DEF Building
  <2>3. ~handler'
    BY <1>1 DEF Safe, Constructed
  <2> QED
    BY <1>1, <1>3, <2>1, <2>2, <2>3 DEF Constructed
<1> QED
  BY <1>6, <1>7, <1>8, <1>9, <1>10, <1>11 DEF Safe

\* It holds at first.
LEMMA InitSafe ==
    Init => Safe
<1> SUFFICES ASSUME Init PROVE Safe
  OBVIOUS
<1>0. PICK x : x = [NoSink EXCEPT !.disk = [d \in Old |-> <<>>], !.opened = [d \in Old |-> Begin]]
  OBVIOUS
<1>1. /\ now = Begin /\ proc = "init" /\ init = [i |-> 1, step |-> "open"] /\ handler = FALSE
      /\ starts = 1 /\ failures = 0 /\ acked = {} /\ crash = NoCrash
      /\ sink = [l \in AllLoggers |-> x]
      /\ th = [t \in Threads |-> Idle(0)]
  BY <1>0 DEF Init
<1>2. /\ x \in Sinks /\ Files(x) = Old /\ x.file = None /\ x.buf = <<>> /\ x.since = None
      /\ x.names = <<>> /\ x.lock = None /\ x.gone = {}
      /\ x.disk = [d \in Old |-> <<>>] /\ x.opened = [d \in Old |-> Begin]
  <2>1. <<>> \in Lines /\ <<>> \in Seq(Day) /\ None \in Nat
        /\ {} \in SUBSET Rec /\ None \in Threads \cup {None}
    BY LogsType DEF None
  <2>2. PICK D, O : D = [d \in Old |-> <<>>] /\ O = [d \in Old |-> Begin]
    OBVIOUS
  <2>3. Old \subseteq Day /\ Begin \in Times
    <3>1. Begin \in Hours /\ Old \subseteq 1 .. Date(Begin) - 1
      BY LoggingAssumption
    <3>2. Begin \in Nat /\ Date(Begin) \in Nat
      BY <3>1, TimeConstants, DateBounds
    <3> QED
      BY <3>1, <3>2 DEF Day, Times
  <2>4. D \in Logs /\ O \in Dates /\ DOMAIN D = Old
    <3>1. D \in [Old -> Lines] /\ O \in [Old -> Times]
      BY <2>1, <2>2, <2>3
    <3>2. D \in ByDay(Lines) /\ O \in ByDay(Times)
      BY <2>3, <3>1 DEF ByDay
    <3> QED
      BY <2>2, <3>2 DEF Logs, Dates
  <2>5. x = [disk |-> D, file |-> None, buf |-> <<>>, rot |-> None, names |-> <<>>,
             lock |-> None, opened |-> O, since |-> None, gone |-> {}]
    BY <1>0, <2>2 DEF NoSink
  <2>6. x \in Sinks
    BY <2>1, <2>4, <2>5 DEF Sinks
  <2> QED
    BY <2>2, <2>4, <2>5, <2>6 DEF Files
<1>3. Sound(x, Begin) /\ Written(x) = {}
  <2>1. \A d \in Files(x) : Content(x, d) = <<>> /\ x.disk[d] = <<>> /\ x.opened[d] = Begin
    <3> SUFFICES ASSUME NEW d \in Files(x)
                 PROVE  Content(x, d) = <<>> /\ x.disk[d] = <<>> /\ x.opened[d] = Begin
      OBVIOUS
    <3>1. d # x.file
      BY <1>2, FileDays
    <3>2. Content(x, d) = x.disk[d]
      BY <1>2, <3>1, ContentType
    <3> QED
      BY <1>2, <3>2
  <2>2. Range(<<>>) = {} /\ DOMAIN <<>> = {}
    BY DEF Range
  <2>3. Opened(x)
    BY <1>2 DEF Opened
  <2>4. Timely(x) /\ Ordered(x)
    BY <2>1, <2>2 DEF Timely, Ordered
  <2>5. Dated(x, Begin)
    <3>1. \A d \in Old : d <= Date(Begin) /\ Begin <= Begin
      <4>1. Begin \in Hours /\ Old \subseteq 1 .. Date(Begin) - 1
        BY LoggingAssumption
      <4>2. Begin \in Nat /\ Date(Begin) \in Nat
        BY <4>1, TimeConstants, DateBounds
      <4> QED
        BY <4>1, <4>2
    <3> QED
      BY <1>2, <2>1, <2>2, <3>1 DEF Dated
  <2>6. Queue(x)
    <3>1. Len(x.names) = 0 /\ DOMAIN x.names = {} /\ 0 <= MaxFiles
      BY <1>2, DailyFileSinkAssumption
    <3> QED
      BY <1>2, <3>1 DEF Queue, InOrder
  <2>7. Written(x) = {}
    BY <1>2, <2>1, <2>2 DEF Written, Stored
  <2> QED
    BY <2>3, <2>4, <2>5, <2>6, <2>7 DEF Sound
<1>4. \A t \in Threads : th[t] \in Thds /\ th[t].at = "idle" /\ th[t].line = 0
  BY <1>1, IdleType
<1>5. Types
  <2>1. Begin \in Times /\ 1 \in 1 .. MaxStarts /\ 0 \in 0 .. MaxFailures
    BY LoggingAssumption, TimeConstants DEF Times
  <2>2. crash \in [tracer : Threads \cup {None}, faulted : SUBSET Threads, before : SUBSET Rec]
    BY <1>1 DEF NoCrash
  <2>3. init \in [i : DOMAIN Loggers, step : {"open", "rotation", "names"}]
    BY <1>1, LoggerNames
  <2>4. sink \in [AllLoggers -> Sinks] /\ th \in [Threads -> Thds]
    BY <1>1, <1>2, <1>4
  <2>5. IsFiniteSet(acked) /\ acked \in SUBSET Rec
    BY <1>1, FS_EmptySet
  <2> QED
    BY <1>1, <2>1, <2>2, <2>3, <2>4, <2>5 DEF Types
<1>6. SinksSound
  BY <1>1, <1>3 DEF SinksSound
<1>7. Constructed
  <2>1. init.i = 1 /\ init.step = "open" /\ Building \in AllLoggers
    BY <1>1, LoggerNames DEF Building
  <2>2. \A j \in DOMAIN Loggers : Loggers[j] \in AllLoggers /\ ~(j < 1)
    BY LoggerNames
  <2> QED
    BY <1>1, <1>2, <2>1, <2>2 DEF Constructed
<1>8. Calling
  BY <1>1, <1>2, <1>4 DEF Calling, Busy, Holds
<1>9. Fresh /\ Kept
  BY <1>1, <1>3, <1>4 DEF Fresh, Kept
<1> QED
  BY <1>5, <1>6, <1>7, <1>8, <1>9 DEF Safe

\* A call ends, or goes on.
LEMMA LogCallSteps ==
    ASSUME Safe, NEW t \in Threads, LogCall(t)
    PROVE  \/ \E u, w : CallStep(t, u, w)
           \/ /\ Quit /\ proc = "up" /\ failures' \in 0 .. MaxFailures
<1>1. CASE RotateFails(t) \/ DeleteFails(t)
  <2>1. Quit /\ failures < MaxFailures /\ failures' = failures + 1 /\ Busy(t)
    BY <1>1 DEF RotateFails, DeleteFails, MayRotate, Busy
  <2>2. failures' \in 0 .. MaxFailures
    BY <2>1, LoggingAssumption DEF Safe, Types
  <2> QED
    BY <2>1, <2>2, CallTypes
<1> QED
  BY <1>1, SinkIsCallStep, RotateIsCallStep, WriteFirstIsCallStep, DeleteIsCallStep,
     FlushIsCallStep DEF LogCall
\* A fault without the handler, or a second one in it, kills the process.
LEMMA FaultKills ==
    ASSUME Safe, NEW t \in Threads, FaultAgain(t) \/ (Fault(t) /\ ~handler)
    PROVE  /\ Kill /\ proc = "up" /\ failures' = failures
           /\ crash' \in [tracer : Threads \cup {None}, faulted : SUBSET Threads, before : SUBSET Rec]
<1>1. crash \in [tracer : Threads \cup {None}, faulted : SUBSET Threads, before : SUBSET Rec]
  BY DEF Safe, Types
<1>2. CASE FaultAgain(t)
  <2>1. Kill /\ crash' = crash /\ th[t].at = "trace"
    BY <1>2 DEF FaultAgain
  <2>2. proc = "up"
    BY <2>1 DEF Safe, Calling
  <2> QED
    BY <1>1, <2>1, <2>2 DEF Kill
<1>3. CASE Fault(t) /\ ~handler
  <2>1. Kill /\ proc = "up"
        /\ crash' = [tracer |-> crash.tracer, faulted |-> crash.faulted \cup {t},
                     before |-> crash.before]
    BY <1>3 DEF Fault
  <2> QED
    BY <1>1, <2>1 DEF Kill
<1> QED
  BY <1>2, <1>3

\* The invariant is kept.
LEMMA NextSafe ==
    ASSUME Safe, [Next]_vars
    PROVE  Safe'
<1>1. CASE LogInit
  BY <1>1, InitOpenSafe, InitOpenFailsSafe, InitRotationSafe, InitQueueSafe DEF LogInit
<1>2. CASE Tick \/ Start
  BY <1>2, TickSafe, StartSafe
<1>3. CASE Return
  <2>1. Quit /\ proc = "up" /\ failures' = failures /\ crash' = crash
    BY <1>3 DEF Return, Quit
  <2>2. PICK S : Ended(S)
    BY <2>1, QuitEnds
  <2> QED
    BY <2>1, <2>2, EndedSafe DEF Safe, Types
<1>4. ASSUME NEW t \in Threads, LogCall(t) PROVE Safe'
  <2>1. CASE \E u, w : CallStep(t, u, w)
    BY <2>1, CallSafe
  <2>2. CASE Quit /\ proc = "up" /\ failures' \in 0 .. MaxFailures
    <3>1. PICK S : Ended(S)
      BY <2>2, QuitEnds
    <3>2. crash' = crash
      BY <2>2 DEF Quit
    <3> QED
      BY <2>2, <3>1, <3>2, EndedSafe DEF Safe, Types
  <2> QED
    BY <1>4, <2>1, <2>2, LogCallSteps
<1>5. ASSUME NEW t \in Threads, Call(t) \/ Trace(t) PROVE Safe'
  <2>1. PICK w : Begun(t, w)
    BY <1>5, CallBegins, TraceBegins
  <2> QED
    BY <2>1, BegunSafe
<1>6. ASSUME NEW t \in Threads, FaultAgain(t) \/ (Fault(t) /\ ~handler) PROVE Safe'
  <2>1. /\ Kill /\ proc = "up" /\ failures' = failures
        /\ crash' \in [tracer : Threads \cup {None}, faulted : SUBSET Threads, before : SUBSET Rec]
    BY <1>6, FaultKills
  <2>2. PICK S : Ended(S)
    BY <2>1, KillEnds
  <2> QED
    BY <2>1, <2>2, EndedSafe DEF Safe, Types
<1>7. ASSUME NEW t \in Threads, Fault(t), handler PROVE Safe'
  BY <1>7, FaultSafe
<1>8. CASE UNCHANGED vars
  BY <1>8 DEF vars, Safe, Types, SinksSound, Constructed, Building, Calling, Busy, Holds, Fresh, Kept
<1> QED
  BY <1>1, <1>2, <1>3, <1>4, <1>5, <1>6, <1>7, <1>8 DEF Next, Over

\* The inductive invariant of the facade holds throughout.
LEMMA SpecSafe == Spec => []Safe
BY InitSafe, NextSafe, PTL DEF Spec

-----------------------------------------------------------------------------
(* What the invariant says.                                                *)

(***************************************************************************)
(* However calls, rotations, midnights, failures, faults and restarts come *)
(* together, each thread's records are in the files in its order, and no   *)
(* file has a record of a later day than its rotation was set on, but for  *)
(* those of the first hour of the next day when the clock went forward     *)
(* since (sink_it_() and next_rotation_tp_()).                             *)
(***************************************************************************)
THEOREM LoggingFilesInOrder == Spec => []FilesInOrder
<1>1. ASSUME Safe PROVE FilesInOrder
  <2>1. \A l \in AllLoggers : sink[l] \in Sinks /\ Opened(sink[l]) /\ Timely(sink[l])
                              /\ Ordered(sink[l])
    BY <1>1 DEF Safe, SinksSound, Sound, Opened
  <2>2. TypeOK
    <3>1. \A t \in Threads : th[t].at \in {"idle", "sink", "write", "delete", "flush", "trace"}
      BY <1>1 DEF Safe, Types, Thds
    <3>2. \A l \in AllLoggers :
            /\ sink[l].file \in {None} \cup Files(sink[l])
            /\ sink[l].lock \in {None} \cup Threads
            /\ sink[l].lock # None => th[sink[l].lock].at \in {"write", "delete"}
      BY <1>1, <2>1, SinkFields DEF Safe, Calling, Holds, Opened
    <3>3. init.i \in DOMAIN Loggers /\ init.step \in {"open", "rotation", "names"}
      BY <1>1 DEF Safe, Types
    <3>4. now \in Begin .. MaxHour
      <4>1. now \in Hours /\ now >= Begin /\ Begin \in Hours
        BY <1>1, LoggingAssumption DEF Safe, Types, Times
      <4> QED
        BY <4>1, TimeConstants
    <3> QED
      BY <1>1, <3>1, <3>2, <3>3, <3>4 DEF Safe, Types, TypeOK
  <2>3. ASSUME NEW l \in AllLoggers, NEW d \in Files(sink[l]), NEW i \in DOMAIN Content(sink[l], d),
               NEW e \in Files(sink[l]), NEW j \in DOMAIN Content(sink[l], e),
               Content(sink[l], d)[i].by = Content(sink[l], e)[j].by,
               d < e \/ (d = e /\ i < j)
        PROVE  Content(sink[l], d)[i].no < Content(sink[l], e)[j].no
    BY <2>1, <2>3 DEF Ordered
  <2>4. \A l \in AllLoggers : \A d \in Files(sink[l]) :
           \A r \in Range(Content(sink[l], d)) : InPlace(r.time, sink[l].opened[d])
    BY <2>1 DEF Timely
  <2> QED
    BY <2>2, <2>3, <2>4 DEF FilesInOrder
<1> QED
  BY <1>1, SpecSafe, PTL

(***************************************************************************)
(* A record of level err or above whose call has returned stays in a file  *)
(* until that file is removed with the old ones, whatever becomes of the   *)
(* process (flush_on(err) and logger::sink_it_()).                         *)
(***************************************************************************)
THEOREM LoggingErrorsSurvive == Spec => []ErrorsSurvive
<1>1. ASSUME Safe PROVE ErrorsSurvive
  <2>1. \A r \in acked : r.lvl >= Err => r \in Stored(sink[r.logger])
    BY <1>1 DEF Safe, Kept
  <2> QED
    BY <2>1 DEF ErrorsSurvive, OnDisk, Stored
<1> QED
  BY <1>1, SpecSafe, PTL

\* Files are removed by rotations only.
LEMMA NextRecent ==
    ASSUME Safe, [Next]_vars, NEW l \in AllLoggers
    PROVE  Recent(sink'[l], sink[l])
<1>1. sink \in [AllLoggers -> Sinks]
  BY DEF Safe, Types
<1> SUFFICES Files(sink[l]) \subseteq Files(sink'[l]) \/ Recent(sink'[l], sink[l])
  BY DEF Recent
<1>2. CASE sink' = sink
  BY <1>2
<1>3. CASE \E u : Constructing(u)
  <2>1. PICK u : Constructing(u)
    BY <1>3
  <2>2. sink'[Building] = u /\ \A m \in AllLoggers : m # Building => sink'[m] = sink[m]
    BY <2>1, ConstructingSafe
  <2> QED
    BY <2>1, <2>2 DEF Constructing
<1>4. CASE \E S : Ended(S)
  BY <1>4 DEF Ended
<1>5. ASSUME NEW t \in Threads, NEW u, NEW w, CallStep(t, u, w)
      PROVE  Recent(sink'[l], sink[l]) \/ sink'[l] = sink[l]
  <2>1. sink' = [sink EXCEPT ![th[t].rec.logger] = u] /\ Recent(u, sink[th[t].rec.logger])
    BY <1>5 DEF CallStep
  <2> QED
    BY <1>1, <2>1
<1>6. CASE LogInit
  BY <1>2, <1>3, <1>6, InitOpenSafe, InitRotationSafe, InitQueueSafe DEF LogInit, InitOpenFails
<1>7. CASE Tick \/ Start \/ UNCHANGED vars
  BY <1>2, <1>7 DEF Tick, Start, vars
<1>8. CASE Return
  BY <1>4, <1>8, QuitEnds DEF Return
<1>9. ASSUME NEW t \in Threads, LogCall(t)
      PROVE  (\E S : Ended(S)) \/ \E u, w : CallStep(t, u, w)
  BY <1>9, LogCallSteps, QuitEnds
<1>10. ASSUME NEW t \in Threads, Call(t) \/ Trace(t) PROVE sink' = sink
  BY <1>10 DEF Call, Trace
<1>11. ASSUME NEW t \in Threads, FaultAgain(t) \/ Fault(t)
       PROVE  sink' = sink \/ \E S : Ended(S)
  <2>1. CASE FaultAgain(t) \/ (Fault(t) /\ ~handler)
    BY <2>1, FaultKills, KillEnds
  <2>2. CASE Fault(t) /\ handler
    BY <2>2 DEF Fault
  <2> QED
    BY <1>11, <2>1, <2>2
<1> QED
  BY <1>2, <1>4, <1>5, <1>6, <1>7, <1>8, <1>9, <1>10, <1>11 DEF Next, Over

(***************************************************************************)
(* A file is removed only when max_files_ newer ones are there, unless one *)
(* of the queued names is of a day on which the clock went back; and a     *)
(* process that is not rotating keeps at most max_files_ files from the    *)
(* oldest on that its constructor found, those of days not counted that    *)
(* are passed over because the clock went forward (delete_old_() and       *)
(* init_filenames_q_()).                                                   *)
(***************************************************************************)
THEOREM LoggingRetention == Spec => Retention
<1>1. ASSUME Safe, [Next]_vars
      PROVE  \A l \in AllLoggers :
                /\ \A d \in Files(sink[l]) \ Files(sink'[l]) :
                      /\ d < sink[l].file
                      /\ Range(sink[l].names) \cap LongDays = {} =>
                            Cardinality({e \in Files(sink'[l]) : e > d}) >= MaxFiles
                /\ sink'[l].since # None /\ sink'[l].lock = None =>
                      Cardinality(Own(sink'[l])) <= MaxFiles
  <2> SUFFICES ASSUME NEW l \in AllLoggers
               PROVE  /\ \A d \in Files(sink[l]) \ Files(sink'[l]) :
                            /\ d < sink[l].file
                            /\ Range(sink[l].names) \cap LongDays = {} =>
                                  Cardinality({e \in Files(sink'[l]) : e > d}) >= MaxFiles
                      /\ sink'[l].since # None /\ sink'[l].lock = None =>
                            Cardinality(Own(sink'[l])) <= MaxFiles
    OBVIOUS
  <2>1. Recent(sink'[l], sink[l])
    BY <1>1, NextRecent
  <2>2. PICK s, n : s = sink'[l] /\ n = now'
    OBVIOUS
  <2>3. Sound(s, n) /\ n \in Times
    <3>1. Safe'
      BY <1>1, NextSafe
    <3> QED
      BY <2>2, <3>1 DEF Safe, SinksSound, Types
  <2>4. s.since # None /\ s.lock = None => Cardinality(Own(s)) <= MaxFiles
    BY <2>3, OwnFew
  <2> QED
    BY <2>1, <2>2, <2>4 DEF Recent
<1> QED
  BY <1>1, SpecSafe, PTL DEF Spec, Retention
-----------------------------------------------------------------------------
(* The stack trace.                                                        *)

\* The lines of the trace that are logged.
Traced == {r \in OfMain \ crash.before : r.by = crash.tracer /\ r.lvl = Critical}

\* Thread t is in the handler: the lines it has passed are logged, and what was
\* logged before the fault is stored with the first of them.
Tracer(t) ==
    /\ th[t].line >= 1 /\ th[t].at # "idle"
    /\ sink[Main].file # None
    /\ crash.before \subseteq OfMain
    /\ Busy(t) => th[t].line >= 2 /\ th[t].rec.lvl = Critical /\ th[t].rec.logger = Main
    /\ Cardinality(Traced) >= th[t].line - (IF Busy(t) THEN 2 ELSE 1)
    /\ th[t].line >= (IF Busy(t) THEN 3 ELSE 2) => crash.before \subseteq Stored(sink[Main])

Tracing ==
    /\ crash.tracer # None => ~handler
    /\ proc = "init" => crash.tracer = None
    /\ \A t \in Threads : th[t].line > 0 \/ th[t].at = "trace" => t = crash.tracer
    /\ proc = "up" /\ crash.tracer # None => Tracer(crash.tracer)
    /\ TraceComplete

\* The trace passes the level of the loggers.
LEMMA TracePasses ==
    ASSUME LevelName # "OFF"
    PROVE  Critical >= GetLogLevel(LevelName)
<1>1. /\ DOMAIN g_level_strs = 1 .. 7
      /\ g_level_strs[7] = "OFF"
  BY DEF g_level_strs
<1>2. CASE LevelName \in Range(g_level_strs)
  <2>1. PICK j \in 1 .. 7 : LevelName = g_level_strs[j]
    BY <1>1, <1>2 DEF Range
  <2>2. \E i \in 0 .. 6 : g_level_strs[i + 1] = LevelName
    <3>1. j - 1 \in 0 .. 6 /\ (j - 1) + 1 = j
      BY <2>1
    <3> QED
      BY <2>1, <3>1
  <2>3. PICK i : i = CHOOSE k \in 0 .. 6 : g_level_strs[k + 1] = LevelName
    OBVIOUS
  <2>4. i \in 0 .. 6 /\ g_level_strs[i + 1] = LevelName
    BY <2>2, <2>3
  <2>5. i # 6
    BY <1>1, <2>4
  <2>6. GetLogLevel(LevelName) = i
    BY <1>2, <2>3 DEF GetLogLevel
  <2> QED
    BY <2>4, <2>5, <2>6 DEF Critical
<1>3. CASE LevelName \notin Range(g_level_strs)
  BY <1>3 DEF GetLogLevel, Warn, Critical
<1> QED
  BY <1>2, <1>3

\* The lines of the trace can be counted.
LEMMA TracedFinite ==
    ASSUME Safe
    PROVE  IsFiniteSet(Traced) /\ Cardinality(Traced) \in Nat
<1>1. IsFiniteSet(acked) /\ Traced \in SUBSET acked
  BY DEF Safe, Types, Traced, OfMain
<1> QED
  BY <1>1, FS_Subset, FS_CardinalityType

\* A step of a call
LEMMA CallTracing ==
    ASSUME Safe, Safe', Tracing, NEW t \in Threads, NEW u, NEW w, CallStep(t, u, w)
    PROVE  Tracing'
<1>1. PICK r, c : r = th[t].rec /\ c = crash.tracer
  OBVIOUS
<1>2. /\ Busy(t) /\ proc = "up" /\ t # None
      /\ th[t] \in Thds /\ r \in Rec /\ r.logger \in AllLoggers /\ r.by = t /\ r.no = th[t].no
      /\ sink[r.logger].file # None
  BY <1>1, CallTypes DEF CallStep
<1>3. /\ sink' = [sink EXCEPT ![r.logger] = u]
      /\ th' = [th EXCEPT ![t] = w]
      /\ proc' = proc /\ handler' = handler /\ crash' = crash
      /\ u.file # None
      /\ w \in Thds /\ w.line = th[t].line
      /\ Stored(sink[r.logger]) \subseteq Stored(u) /\ Written(sink[r.logger]) \subseteq Written(u)
  BY <1>1 DEF CallStep
<1>4. \/ /\ w.at \in {"write", "delete", "flush"} /\ w.rec = r /\ acked' = acked
      \/ /\ w.at = (IF th[t].line > 0 THEN "trace" ELSE "idle")
         /\ acked' = acked \cup {r}
         /\ r.lvl >= Err => Stored(u) = Written(u)
  BY <1>1 DEF CallStep, Back
<1>5. /\ sink \in [AllLoggers -> Sinks] /\ th \in [Threads -> Thds]
      /\ Main \in AllLoggers /\ c \in Threads \cup {None}
  BY <1>1, LoggerNames DEF Safe, Types
<1>6. /\ th'[t] = w /\ \A x \in Threads : x # t => th'[x] = th[x]
      /\ sink'[r.logger] = u /\ \A m \in AllLoggers : m # r.logger => sink'[m] = sink[m]
  BY <1>2, <1>3, <1>5
<1>7. \A x \in Threads : th'[x].line > 0 \/ th'[x].at = "trace" => x = c
  <2>1. \A x \in Threads : th[x].line > 0 \/ th[x].at = "trace" => x = c
    BY <1>1 DEF Tracing
  <2>2. w.at = "trace" => th[t].line > 0
    BY <1>4
  <2> QED
    BY <1>3, <1>6, <2>1, <2>2
<1>8. c # None => Tracer(c)'
  <2> SUFFICES ASSUME c # None PROVE Tracer(c)'
    OBVIOUS
  <2>1. /\ c \in Threads /\ th[c] \in Thds
        /\ th[c].line >= 1 /\ th[c].at # "idle" /\ sink[Main].file # None
        /\ crash.before \subseteq OfMain
        /\ Busy(c) => th[c].line >= 2 /\ th[c].rec.lvl = Critical /\ th[c].rec.logger = Main
        /\ Cardinality(Traced) >= th[c].line - (IF Busy(c) THEN 2 ELSE 1)
        /\ th[c].line >= (IF Busy(c) THEN 3 ELSE 2) => crash.before \subseteq Stored(sink[Main])
        /\ th[c].line \in Nat
    BY <1>1, <1>2, <1>5 DEF Tracing, Tracer, Thds
  <2>2. sink'[Main].file # None /\ Stored(sink[Main]) \subseteq Stored(sink'[Main])
    BY <1>3, <1>5, <1>6, <2>1
  <2>3. OfMain \subseteq OfMain' /\ Traced \subseteq Traced'
    BY <1>3, <1>4 DEF OfMain, Traced
  <2>4. /\ Cardinality(Traced) \in Nat /\ Cardinality(Traced') \in Nat
        /\ Cardinality(Traced) <= Cardinality(Traced')
    <3>1. PICK A, B : A = Traced /\ B = Traced'
      OBVIOUS
    <3>2. IsFiniteSet(A) /\ Cardinality(A) \in Nat
      BY <3>1, TracedFinite
    <3>3. IsFiniteSet(B) /\ Cardinality(B) \in Nat
      <4>1. PICK C : C = acked'
        OBVIOUS
      <4>2. IsFiniteSet(C) /\ B \in SUBSET C
        BY <3>1, <4>1 DEF Safe, Types, Traced, OfMain
      <4> QED
        BY <4>2, FS_Subset, FS_CardinalityType
    <3>4. A \in SUBSET B
      BY <2>3, <3>1
    <3>5. Cardinality(A) <= Cardinality(B)
      BY <3>3, <3>4, FS_Subset
    <3> QED
      BY <3>1, <3>2, <3>3, <3>5
  <2>5. CASE c # t
    <3>1. th'[c] = th[c] /\ (Busy(c)' <=> Busy(c))
      BY <1>6, <2>1, <2>5 DEF Busy
    <3>2. PICK k : k = IF Busy(c) THEN 2 ELSE 1
      OBVIOUS
    <3>3. Cardinality(Traced') >= th[c].line - k
      BY <2>1, <2>4, <3>2
    <3>4. crash'.before = crash.before /\ crash.before \subseteq OfMain'
      BY <1>3, <2>1, <2>3
    <3>5. th[c].line >= (IF Busy(c) THEN 3 ELSE 2) => crash.before \subseteq Stored(sink'[Main])
      BY <2>1, <2>2
    <3>6. Busy(c)' => th'[c].line >= 2 /\ th'[c].rec.lvl = Critical /\ th'[c].rec.logger = Main
      BY <2>1, <3>1
    <3>7. Cardinality(Traced') >= th'[c].line - (IF Busy(c)' THEN 2 ELSE 1)
      BY <3>1, <3>2, <3>3
    <3>8. th'[c].line >= (IF Busy(c)' THEN 3 ELSE 2) => crash'.before \subseteq Stored(sink'[Main])
      BY <3>1, <3>4, <3>5
    <3> QED
      BY <2>1, <2>2, <3>1, <3>4, <3>6, <3>7, <3>8 DEF Tracer
  <2>6. CASE c = t
    <3>1. /\ Busy(c) /\ r.lvl = Critical /\ r.logger = Main
          /\ th[c].line >= 2 /\ th[c].line \in Nat /\ th[c].line > 0
          /\ Cardinality(Traced) >= th[c].line - 2
          /\ th[c].line >= 3 => crash.before \subseteq Stored(sink[Main])
      BY <1>1, <1>2, <2>1, <2>6
    <3>2. th'[c] = w /\ w.line = th[c].line /\ sink'[Main] = u
      BY <1>3, <1>6, <2>6, <3>1
    <3>3. crash'.before = crash.before /\ crash.before \subseteq OfMain'
      BY <1>3, <2>1, <2>3
    <3>4. CASE w.at \in {"write", "delete", "flush"} /\ w.rec = r /\ acked' = acked
      <4>1. Busy(c)' /\ w.at # "idle"
        BY <3>2, <3>4 DEF Busy
      <4>2. Cardinality(Traced') >= th'[c].line - 2
        BY <2>4, <3>1, <3>2
      <4>3. th'[c].line >= 3 => crash'.before \subseteq Stored(sink'[Main])
        BY <2>2, <3>1, <3>2, <3>3
      <4>4. th'[c].line >= 2 /\ th'[c].line >= 1 /\ th'[c].rec = r
        BY <3>1, <3>2, <3>4
      <4> QED
        BY <2>2, <3>1, <3>2, <3>3, <4>1, <4>2, <4>3, <4>4 DEF Tracer
    <3>5. CASE w.at = "trace" /\ acked' = acked \cup {r} /\ Stored(u) = Written(u)
      <4>1. ~Busy(c)' /\ w.at # "idle"
        BY <3>2, <3>5 DEF Busy
      <4>2. r \notin acked
        <5>1. \A e \in acked : Busy(e.by) => e.no < th[e.by].no
          BY DEF Safe, Fresh
        <5>2. r.no \in Nat /\ ~(r.no < r.no)
          BY <1>2 DEF Rec
        <5> QED
          BY <1>2, <5>1, <5>2
      <4>3. r \in Traced' /\ r \notin Traced
        <5>1. r \notin crash.before
          BY <2>1, <4>2 DEF OfMain
        <5> QED
          BY <1>1, <1>2, <1>3, <2>6, <3>1, <3>5, <4>2, <5>1 DEF Traced, OfMain
      <4>4. Cardinality(Traced') >= th'[c].line - 1
        <5>1. PICK A, B, C : A = Traced /\ B = Traced' /\ C = acked'
          OBVIOUS
        <5>2. IsFiniteSet(A)
          BY <5>1, TracedFinite
        <5>3. IsFiniteSet(B)
          <6>1. IsFiniteSet(C) /\ B \in SUBSET C
            BY <5>1 DEF Safe, Types, Traced, OfMain
          <6> QED
            BY <6>1, FS_Subset
        <5>4. Cardinality(A \cup {r}) = Cardinality(A) + 1
          BY <4>3, <5>1, <5>2, FS_AddElement
        <5>5. A \cup {r} \in SUBSET B
          BY <2>3, <4>3, <5>1
        <5>6. Cardinality(A \cup {r}) <= Cardinality(B)
          BY <5>3, <5>5, FS_Subset
        <5>7. Cardinality(A) \in Nat /\ Cardinality(B) \in Nat
          BY <2>4, <5>1
        <5> QED
          BY <3>1, <3>2, <5>1, <5>4, <5>6, <5>7
      <4>5. crash'.before \subseteq Stored(sink'[Main])
        <5>1. \A e \in acked : e \in Written(sink[e.logger])
          BY <1>2 DEF Safe, Kept
        <5>2. crash.before \subseteq Written(sink[Main])
          BY <2>1, <5>1 DEF OfMain
        <5> QED
          BY <1>3, <3>1, <3>2, <3>3, <3>5, <5>2
      <4>6. th'[c].line >= 1
        BY <3>1, <3>2
      <4> QED
        BY <2>2, <3>2, <3>3, <4>1, <4>4, <4>5, <4>6 DEF Tracer
    <3>6. r.lvl >= Err
      BY <3>1 DEF Critical, Err
    <3> QED
      BY <1>4, <2>6, <3>1, <3>4, <3>5, <3>6
  <2> QED
    BY <2>5, <2>6
<1>9. TraceComplete'
  BY <1>2, <1>3 DEF TraceComplete
<1> QED
  BY <1>1, <1>2, <1>3, <1>7, <1>8, <1>9 DEF Tracing
\* The program logs.
LEMMA BegunTracing ==
    ASSUME Safe, Tracing, NEW t \in Threads, NEW w, Begun(t, w),
           \/ th[t].at = "idle" /\ w.line = th[t].line /\ w.at \in {"idle", "sink"}
           \/ /\ th[t].at = "trace" /\ w.line = th[t].line + 1 /\ w.at = "sink"
              /\ w.rec.lvl = Critical /\ w.rec.logger = Main
    PROVE  Tracing'
<1>1. PICK c : c = crash.tracer
  OBVIOUS
<1>2. /\ proc = "up" /\ th' = [th EXCEPT ![t] = w]
      /\ sink' = sink /\ proc' = proc /\ handler' = handler /\ acked' = acked /\ crash' = crash
  BY DEF Begun
<1>3. th \in [Threads -> Thds] /\ c \in Threads \cup {None} /\ \A x \in Threads : th[x].line \in Nat
  BY <1>1 DEF Safe, Types, Thds
<1>4. th'[t] = w /\ \A x \in Threads : x # t => th'[x] = th[x]
  BY <1>2, <1>3
<1>5. \A x \in Threads : th[x].line > 0 \/ th[x].at = "trace" => x = c
  BY <1>1 DEF Tracing
<1>6. \A x \in Threads : th'[x].line > 0 \/ th'[x].at = "trace" => x = c
  BY <1>4, <1>5
<1>7. Traced' = Traced /\ OfMain' = OfMain
  BY <1>2 DEF Traced, OfMain
<1>8. c # None => Tracer(c)'
  <2> SUFFICES ASSUME c # None PROVE Tracer(c)'
    OBVIOUS
  <2>1. Tracer(c) /\ c \in Threads
    BY <1>1, <1>2, <1>3 DEF Tracing
  <2>2. CASE c # t
    <3>1. th'[c] = th[c]
      BY <1>4, <2>1, <2>2
    <3> QED
      BY <1>2, <1>7, <2>1, <3>1 DEF Tracer, Busy
  <2>3. CASE c = t
    <3>1. /\ th[c].at = "trace" /\ w.line = th[c].line + 1 /\ w.at = "sink"
          /\ w.rec.lvl = Critical /\ w.rec.logger = Main
      BY <2>1, <2>3 DEF Tracer
    <3>2. /\ th[c].line >= 1 /\ th[c].line \in Nat
          /\ sink[Main].file # None /\ crash.before \subseteq OfMain
          /\ Cardinality(Traced) >= th[c].line - 1
          /\ th[c].line >= 2 => crash.before \subseteq Stored(sink[Main])
      BY <1>3, <2>1, <3>1 DEF Tracer, Busy
    <3>3. th'[c] = w /\ Busy(c)'
      BY <1>4, <2>3, <3>1 DEF Busy
    <3>4. Cardinality(Traced) \in Nat
      BY TracedFinite
    <3>5. w.line >= 2 /\ w.line >= 1 /\ Cardinality(Traced) >= w.line - 2
          /\ (w.line >= 3 => th[c].line >= 2)
      BY <3>1, <3>2, <3>4
    <3> QED
      BY <1>2, <1>7, <3>1, <3>2, <3>3, <3>5 DEF Tracer
  <2> QED
    BY <2>2, <2>3
<1>9. TraceComplete'
  BY <1>2 DEF TraceComplete
<1> QED
  BY <1>1, <1>2, <1>6, <1>8, <1>9 DEF Tracing

\* The first fault
LEMMA FaultTracing ==
    ASSUME Safe, Safe', Tracing, NEW t \in Threads, Fault(t), handler
    PROVE  Tracing'
<1>1. /\ th' = [th EXCEPT ![t].at = "trace", ![t].line = 1] /\ proc = "up" /\ handler' = FALSE
      /\ sink' = sink /\ proc' = proc /\ acked' = acked
      /\ crash' = [tracer |-> t, faulted |-> crash.faulted \cup {t}, before |-> OfMain]
  BY DEF Fault
<1>2. th \in [Threads -> Thds] /\ th[t] \in Thds
  BY DEF Safe, Types
<1>3. /\ th'[t].at = "trace" /\ th'[t].line = 1
      /\ \A x \in Threads : x # t => th'[x] = th[x]
  BY <1>1, <1>2 DEF Thds
<1>4. crash.tracer = None /\ t # None
  BY LoggingAssumption DEF Tracing
<1>5. \A x \in Threads : ~(th[x].line > 0 \/ th[x].at = "trace")
  BY <1>4, LoggingAssumption DEF Tracing
<1>6. sink'[Main].file # None
  BY <1>1 DEF Safe, Constructed
<1>7. OfMain' = OfMain /\ crash'.before = OfMain /\ crash'.tracer = t
  BY <1>1 DEF OfMain
<1>8. Cardinality(Traced') >= 0
  <2>1. PICK B, C : B = Traced' /\ C = acked'
    OBVIOUS
  <2>2. IsFiniteSet(C) /\ B \in SUBSET C
    BY <2>1 DEF Safe, Types, Traced, OfMain
  <2>3. Cardinality(B) \in Nat
    BY <2>2, FS_Subset, FS_CardinalityType
  <2> QED
    BY <2>1, <2>3
<1>9. Tracer(t)'
  BY <1>3, <1>6, <1>7, <1>8 DEF Tracer, Busy
<1>10. TraceComplete'
  BY <1>1 DEF TraceComplete
<1> QED
  BY <1>1, <1>3, <1>5, <1>7, <1>9, <1>10 DEF Tracing

\* The process ends: when it is killed in the handler, all lines are logged.
LEMMA KillTracing ==
    ASSUME Safe, Tracing, NEW t \in Threads, FaultAgain(t) \/ (Fault(t) /\ ~handler),
           NEW S, Ended(S), proc' = "killed"
    PROVE  Tracing'
<1>1. /\ sink' = S /\ handler' = FALSE /\ acked' = acked /\ proc = "up"
      /\ th' = [x \in Threads |-> Idle(th[x].no)]
      /\ \A l \in AllLoggers : Stored(sink[l]) \subseteq Stored(S[l])
  BY DEF Ended
<1>2. \A x \in Threads : ~(th'[x].line > 0 \/ th'[x].at = "trace")
  BY <1>1 DEF Idle
<1>3. OfMain' = OfMain
  BY <1>1 DEF OfMain
<1>4. TraceComplete'
  <2> SUFFICES ASSUME crash'.tracer # None, crash'.faulted = {crash'.tracer}
               PROVE  /\ Cardinality({r \in OfMain' \ crash'.before :
                                         r.by = crash'.tracer /\ r.lvl = Critical}) > Frames
                      /\ \A r \in crash'.before : OnDisk(r)' \/ r \in sink'[Main].gone
    BY DEF TraceComplete
  <2>1. CASE Fault(t) /\ ~handler
    <3>1. /\ crash' = [tracer |-> crash.tracer, faulted |-> crash.faulted \cup {t},
                       before |-> crash.before]
          /\ th[t].at = "idle"
      BY <2>1 DEF Fault
    <3>2. crash.tracer # None /\ t = crash.tracer
      BY <3>1
    <3> QED
      BY <1>1, <3>1, <3>2 DEF Tracing, Tracer
  <2>2. CASE FaultAgain(t)
    <3>1. crash' = crash /\ th[t].at = "trace" /\ th[t].line > Frames + 1 /\ ~Busy(t)
      BY <2>2 DEF FaultAgain, Busy
    <3>2. t = crash.tracer /\ Tracer(t)
      BY <1>1, <3>1 DEF Tracing
    <3>3. th[t].line \in Nat /\ Frames \in Nat /\ Cardinality(Traced) \in Nat
      BY LoggingAssumption, TracedFinite DEF Safe, Types, Thds
    <3>4. Cardinality(Traced) >= th[t].line - 1
      BY <3>1, <3>2 DEF Tracer
    <3>5. Cardinality(Traced) > Frames
      BY <3>1, <3>3, <3>4
    <3>6. th[t].line >= 2
      BY <3>1, <3>3
    <3>7. crash.before \subseteq Stored(sink[Main]) /\ crash.before \subseteq OfMain
      BY <3>1, <3>2, <3>6 DEF Tracer
    <3>8. \A r \in crash.before : OnDisk(r)' \/ r \in sink'[Main].gone
      <4> SUFFICES ASSUME NEW r \in crash.before PROVE OnDisk(r)' \/ r \in sink'[Main].gone
        OBVIOUS
      <4>1. r.logger = Main /\ r \in Stored(sink'[Main])
        BY <1>1, <3>7, LoggerNames DEF OfMain
      <4> QED
        BY <4>1 DEF OnDisk, Stored
    <3> QED
      BY <1>3, <3>1, <3>5, <3>8 DEF Traced
  <2> QED
    BY <2>1, <2>2
<1> QED
  BY <1>1, <1>2, <1>4 DEF Tracing

\* The trace is kept by every step.
LEMMA NextTracing ==
    ASSUME LevelName # "OFF", Safe, Safe', Tracing, [Next]_vars
    PROVE  Tracing'
<1>1. ASSUME NEW S, Ended(S), crash' = crash, proc' # "killed"
      PROVE  Tracing'
  <2>1. proc' = "exited" /\ handler' = FALSE /\ th' = [x \in Threads |-> Idle(th[x].no)]
    BY <1>1 DEF Ended
  <2>2. \A x \in Threads : ~(th'[x].line > 0 \/ th'[x].at = "trace")
    BY <2>1 DEF Idle
  <2> QED
    BY <2>1, <2>2 DEF Tracing, TraceComplete
<1>2. CASE LogInit
  <2>1. proc = "init" /\ proc' # "killed" /\ th' = th /\ crash' = crash
    BY <1>2 DEF LogInit, InitOpen, InitOpenFails, InitRotation, InitQueue
  <2>2. crash.tracer = None
    BY <2>1 DEF Tracing
  <2> QED
    BY <2>1, <2>2 DEF Tracing, TraceComplete
<1>3. CASE Tick \/ UNCHANGED vars
  <2>1. /\ sink' = sink /\ proc' = proc /\ handler' = handler /\ th' = th
        /\ acked' = acked /\ crash' = crash
    BY <1>3 DEF Tick, vars
  <2> QED
    BY <2>1 DEF Tracing, Tracer, Traced, TraceComplete, OfMain, OnDisk, Busy
<1>4. CASE Start
  <2>1. proc' = "init" /\ crash' = NoCrash /\ th' = th /\ proc # "up"
    BY <1>4 DEF Start
  <2>2. \A x \in Threads : ~(th'[x].line > 0 \/ th'[x].at = "trace")
    BY <2>1 DEF Safe, Calling
  <2> QED
    BY <2>1, <2>2 DEF Tracing, TraceComplete, NoCrash
<1>5. CASE Return
  <2>1. Quit /\ proc = "up"
    BY <1>5 DEF Return
  <2>2. crash' = crash /\ proc' = "exited"
    BY <2>1 DEF Quit
  <2> QED
    BY <1>1, <2>1, <2>2, QuitEnds
<1>6. ASSUME NEW t \in Threads, LogCall(t) PROVE Tracing'
  <2>1. CASE \E u, w : CallStep(t, u, w)
    BY <2>1, CallTracing
  <2>2. CASE Quit /\ proc = "up"
    <3>1. crash' = crash /\ proc' = "exited"
      BY <2>2 DEF Quit
    <3> QED
      BY <1>1, <2>2, <3>1, QuitEnds
  <2> QED
    BY <1>6, <2>1, <2>2, LogCallSteps
<1>7. ASSUME NEW t \in Threads, Call(t) PROVE Tracing'
  <2>1. PICK w : Begun(t, w) /\ w.line = th[t].line /\ w.at \in {"idle", "sink"}
    BY <1>7, CallBegins
  <2>2. th[t].at = "idle"
    BY <1>7 DEF Call
  <2> QED
    BY <2>1, <2>2, BegunTracing
<1>8. ASSUME NEW t \in Threads, Trace(t) PROVE Tracing'
  <2>1. PICK w : /\ Begun(t, w) /\ w.line = th[t].line + 1 /\ w.at \in {"trace", "sink"}
                 /\ Passes(Main, Critical) => /\ w.at = "sink" /\ w.rec.lvl = Critical
                                              /\ w.rec.logger = Main
    BY <1>8, TraceBegins
  <2>2. th[t].at = "trace"
    BY <1>8 DEF Trace
  <2>3. sink[Main].file # None
    <3>1. proc = "up"
      BY <2>1 DEF Begun
    <3>2. t = crash.tracer /\ t # None
      BY <2>2, LoggingAssumption DEF Tracing
    <3> QED
      BY <3>1, <3>2 DEF Tracing, Tracer
  <2>4. Passes(Main, Critical)
    BY <2>3, TracePasses DEF Passes
  <2> QED
    BY <2>1, <2>2, <2>4, BegunTracing
<1>9. ASSUME NEW t \in Threads, FaultAgain(t) \/ (Fault(t) /\ ~handler) PROVE Tracing'
  <2>1. Kill /\ proc = "up"
    BY <1>9, FaultKills
  <2>2. proc' = "killed"
    BY <2>1 DEF Kill
  <2>3. PICK S : Ended(S)
    BY <2>1, KillEnds
  <2> QED
    BY <1>9, <2>2, <2>3, KillTracing
<1>10. ASSUME NEW t \in Threads, Fault(t), handler PROVE Tracing'
  BY <1>10, FaultTracing
<1> QED
  BY <1>2, <1>3, <1>4, <1>5, <1>6, <1>7, <1>8, <1>9, <1>10 DEF Next, Over

(***************************************************************************)
(* Unless logging is off, a process in which one thread alone faulted dies *)
(* with its whole stack trace in the main log, and with all that had been  *)
(* logged there before (SystemErrorHandler()).                             *)
(***************************************************************************)
THEOREM LoggingTraceComplete ==
    ASSUME LevelName # "OFF"
    PROVE  Spec => []TraceComplete
<1>1. Init => Tracing
  BY DEF Init, Tracing, TraceComplete, NoCrash, Idle
<1>2. Safe /\ Safe' /\ Tracing /\ [Next]_vars => Tracing'
  BY NextTracing
<1>3. Tracing => TraceComplete
  BY DEF Tracing
<1> QED
  BY <1>1, <1>2, <1>3, SpecSafe, PTL DEF Spec
=============================================================================
