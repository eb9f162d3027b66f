------------------------------- MODULE Logger -------------------------------
(***************************************************************************)
(* Logging: LoggerManager, which makes the logger when it is first asked   *)
(* for, on a reload and again after a shutdown, and LoggerSink, which      *)
(* writes one level's messages to files, turns to a new file by size and   *)
(* by time, and then removes old files.                                    *)
(*                                                                         *)
(* The directory is the sequence of the sink's files in the order of their *)
(* last writes.  A name is the time the series began and the counter; a    *)
(* message is its size and the time it was logged.  Time is in ticks.      *)
(***************************************************************************)
EXTENDS Integers, Sequences, FiniteSetsExt, SequencesExt

CONSTANTS
    MaxSize, Overall,    \* maxSize_ and the limit for all files
    Retention, Period,   \* retentionDays_ and the time of a rotation, in ticks
    MaxMessage,          \* bound: size of a message
    MaxTime, MaxStarts,  \* bounds: ticks, loggers made since a rotation
    MaxMessages          \* bound: messages

VARIABLES
    now,
    dir,          \* the files: name, size, last write, periods of its messages
    initialized,  \* LoggerManager::initialized_
    logger,       \* LoggerManager::logger_ has its sinks
    base,         \* currentFileName
    fileCounter,  \* fileCounter_
    currentSize,  \* currentSize_
    nextRotationTime,
    logged,       \* the time of the last message, and the number of messages
    starts,       \* history: files begun since the last cleanup
    world         \* what the surroundings do

vars == <<now, dir, initialized, logger, base, fileCounter, currentSize, nextRotationTime, logged,
          starts, world>>

\* A clean world; times of files that are too coarse to tell them apart; files
\* that cannot be removed; messages that the queue delays over a tick; a logger
\* made in the same second as the one before.
Worlds == {"clean", "coarse", "stuck", "late", "again"}

Init ==
    /\ now = 0 /\ dir = <<>> /\ initialized = FALSE /\ logger = FALSE
    /\ base = 0 /\ fileCounter = 0 /\ currentSize = 0 /\ nextRotationTime = 0
    /\ logged = <<0, 0>> /\ starts = 0 /\ world \in Worlds
-----------------------------------------------------------------------------
(* Files *)

currentName == <<base, fileCounter>>
Named(d, n) == {i \in DOMAIN d : d[i].name = n}
Size(d, I) == MapThenSumSet(LAMBDA i : d[i].size, I)
Keep(d, I) == SelectSeq([i \in DOMAIN d |-> <<i, d[i]>>], LAMBDA p : p[1] \in I)
Files(d, I) == LET k == Keep(d, I) IN [i \in DOMAIN k |-> k[i][2]]

\* getNextHourRotationTime, getNextDayRotationTime
getNextRotationTime == (now \div Period + 1) * Period

\* openCurrentFile: a file of this name is continued.
Opened(d, n) ==
    IF Named(d, n) # {} THEN d ELSE Append(d, [name |-> n, size |-> 0, at |-> now, periods |-> {}])
SizeOf(d, n) == Size(d, Named(d, n))

\* The orders in which files may be sorted by their last write.
Sorted(d) ==
    LET k == Len(d)
    IN IF world = "coarse" /\ k > 1 /\ d[k].at = d[k - 1].at
       THEN {d, SubSeq(d, 1, k - 2) \o <<d[k], d[k - 1]>>} ELSE {d}

\* Seeded bug: the newest files go first.
cleanupOldFilesNewest(d) ==
    LET Stuck == IF world = "stuck" THEN {1} ELSE {}
        left(i) == Size(d, DOMAIN d) - Size(d, (i + 1 .. Len(d)) \ Stuck)
    IN Files(d, {i \in DOMAIN d : i \in Stuck \/ (left(i) <= Overall /\ now - d[i].at <= Retention)})

\* The oldest files go until the rest is within the limit, whether or not one
\* of them cannot be removed; then the files that are too old.
cleanupOldFiles(d) ==
    LET Stuck == IF world = "stuck" THEN {1} ELSE {}
        left(i) == Size(d, DOMAIN d) - Size(d, (1 .. i - 1) \ Stuck)
    IN Files(d, {i \in DOMAIN d : i \in Stuck \/ (left(i) <= Overall /\ now - d[i].at <= Retention)})
-----------------------------------------------------------------------------
(* LoggerManager *)

\* createLogger makes the sink, which opens a file and removes none.  Without
\* sinks in the configuration there is no logger.
createLogger(sinks) ==
    /\ starts < MaxStarts
    /\ dir = <<>> \/ now > base \/ world = "again"
    /\ initialized' = TRUE
    /\ logger' = sinks
    /\ IF sinks
       THEN /\ base' = now /\ fileCounter' = 0
            /\ dir' = Opened(dir, <<now, 0>>)
            /\ currentSize' = SizeOf(dir', <<now, 0>>)
            /\ nextRotationTime' = getNextRotationTime
            /\ starts' = starts + 1
       ELSE UNCHANGED <<base, fileCounter, dir, currentSize, nextRotationTime, starts>>
    /\ UNCHANGED <<now, logged, world>>

\* getLogger makes the logger if there is none yet, or after a shutdown.
initialize == ~initialized /\ \E sinks \in BOOLEAN : createLogger(sinks)

\* The old logger is dropped for one of the new configuration.
reloadConfig == initialized /\ \E sinks \in BOOLEAN : createLogger(sinks)

\* shutdown flushes a logger that it takes to be there.
shutdown ==
    /\ initialized /\ logger
    /\ initialized' = FALSE /\ logger' = FALSE
    /\ UNCHANGED <<now, dir, base, fileCounter, currentSize, nextRotationTime, logged, starts, world>>
-----------------------------------------------------------------------------
(* LoggerSink *)

\* Seeded bug: size alone turns to a new file.
shouldRotateBySize(t) == currentSize >= MaxSize

shouldRotate(t) == t >= nextRotationTime \/ currentSize >= MaxSize

\* rotateFile: size counts on in the series, time begins a new one.
NextName == IF currentSize >= MaxSize THEN <<base, fileCounter + 1>> ELSE <<now, 0>>

\* The message goes to the file that is open, which may have been removed.
Write(d, n, m, t) ==
    LET old == Named(d, n)
        f(i) == [d[i] EXCEPT !.size = @ + m, !.at = now, !.periods = @ \cup {t \div Period}]
    IN IF old = {} THEN d
       ELSE LET i == CHOOSE i \in old : TRUE IN Append(Files(d, DOMAIN d \ {i}), f(i))

sink_it_(m, t) ==
    /\ logger
    /\ t >= logged[1] /\ logged[2] < MaxMessages /\ logged' = <<t, logged[2] + 1>>
    /\ IF shouldRotate(t)
       THEN \E s \in Sorted(Opened(dir, NextName)) :
                LET n == NextName
                    d == cleanupOldFiles(s)
                IN /\ base' = n[1] /\ fileCounter' = n[2]
                   /\ nextRotationTime' = getNextRotationTime
                   /\ dir' = Write(d, n, m, t)
                   /\ currentSize' = SizeOf(s, n) + m
                   /\ starts' = 1
       ELSE /\ dir' = Write(dir, currentName, m, t)
            /\ currentSize' = currentSize + m
            /\ UNCHANGED <<base, fileCounter, nextRotationTime, starts>>
    /\ UNCHANGED <<now, initialized, logger, world>>

tick ==
    /\ now < MaxTime
    /\ now' = now + 1
    /\ UNCHANGED <<dir, initialized, logger, base, fileCounter, currentSize, nextRotationTime, logged,
                   starts, world>>

\* The queue of the asynchronous logger may hold a message back.
Times == IF world = "late" /\ now > 0 THEN {now - 1, now} ELSE {now}

Next ==
    \/ initialize \/ reloadConfig \/ shutdown \/ tick
    \/ \E m \in 1 .. MaxMessage, t \in Times : sink_it_(m, t)

Spec == Init /\ [][Next]_vars
-----------------------------------------------------------------------------
(* Properties *)

\* The file that messages go to is never among the files that are removed, as
\* long as last writes can be told apart, old files can be removed and no file
\* of another logger is continued.
CurrentKept == (logger /\ world \in {"clean", "late"}) => Named(dir, currentName) # {}

\* The files stay within the limit, plus one file, which may exceed its own
\* limit by less than a message, for every logger made since the last cleanup.
SizeBounded ==
    world # "stuck" => Size(dir, DOMAIN dir) <= Overall + starts * (MaxSize + MaxMessage - 1)

\* A file holds the messages of one hour or day, unless a message is so late
\* that the rotation it causes happens in the next one, or a file of another
\* logger is continued.
OnePeriod == world \notin {"late", "again"} => \A i \in DOMAIN dir : Cardinality(dir[i].periods) <= 1
=============================================================================
