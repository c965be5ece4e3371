---------------------------- MODULE HistoryStore ----------------------------
(***************************************************************************)
(* The downsampled long-term store of internal/history/history.go, opened  *)
(* by cmd/nodevitals/main.go and read through GET /v1/history              *)
(* (internal/httpapi/server.go).                                           *)
(*                                                                         *)
(* A sample is the number of the Ingest call that brought it: taken[x] is  *)
(* the clock reading of call x.  An accumulator's sum and count are        *)
(* abstracted to the set of samples folded in, and a stored average to the *)
(* set it averages, so that "which samples does this point stand for" is   *)
(* in the state.  Ingest holds s.mu throughout and bbolt commits a flush   *)
(* as one transaction, so Ingest is one action; a crash falls between two  *)
(* of them.  Times count from the Unix epoch; 0 stands for the zero Time.  *)
(***************************************************************************)
EXTENDS Integers, FiniteSets, Sequences

CONSTANTS Series,         \* seriesKeyFor values (metric, node, tier, device, labels)
          Allowed,        \* series whose metric is in the allowlist
          FlushInterval,  \* history.intervalMinutes
          RetentionDays,  \* history.retentionDays
          Day,            \* 24 * time.Hour
          DurationSpan,   \* number of values of a time.Duration: 2^64 in the code
          KeySpan,        \* number of values of a timestamp key: 2^64 in the code
          Ranges,         \* values ?range= may hold
          MaxRange,       \* maxRangeDays
          MaxPoints,      \* maxHistoryResponsePoints
          Start,          \* clock reading of the first process start
          Horizon,        \* bound: latest clock reading
          MaxIngests,     \* bound: Ingest calls
          MaxCrashes,     \* bound: crashes
          MaxStepsBack    \* bound: backward steps of the wall clock (0: monotone)

ASSUME StoreAssumption ==
  /\ Allowed \subseteq Series
  /\ FlushInterval \in Nat \ {0} /\ RetentionDays \in Nat \ {0} /\ Day \in Nat \ {0}
  /\ DurationSpan \in Nat \ {0} /\ KeySpan \in Nat \ {0}
  /\ Ranges \subseteq Nat /\ MaxRange \in Nat /\ MaxPoints \in Nat
  /\ Start \in Nat \ {0} /\ Horizon \in Nat
  /\ MaxIngests \in Nat /\ MaxCrashes \in Nat /\ MaxStepsBack \in Nat

VARIABLES now,      \* the wall clock
          next,     \* s.next: next flush boundary, 0 until the first Ingest
          acc,      \* s.acc: samples folded in since the last successful flush
          db,       \* the bbolt file: a set of points per series bucket
          taken,    \* clock reading of every Ingest call so far
          fed,      \* <<series, sample>> pairs Ingest accepted
          expired,  \* pairs whose point aged out of the configured retention
          lost,     \* pairs in memory when the process died
          rewound,  \* a process started with the clock behind its stored points
          crashes, stepsBack

vars == <<now, next, acc, db, taken, fed, expired, lost, rewound, crashes, stepsBack>>
-----------------------------------------------------------------------------
\* A stored average stands for at least one sample (line 164).
Point == [at : Nat, of : (SUBSET Nat) \ {{}}]

\* int64 arithmetic on a Duration, and uint64(t.Unix()) as an ordered key.
wrapDuration(d) == ((d + DurationSpan \div 2) % DurationSpan) - DurationSpan \div 2
encodeTimestamp(t) == t % KeySpan

\* main.go line 193: time.Duration(RetentionDays) * 24 * time.Hour.
retention == wrapDuration(RetentionDays * Day)

truncate(t) == t - (t % FlushInterval)

noAcc == [s \in Series |-> {}]
pairsOf(f) == UNION {{s} \X f[s] : s \in Series}
stored(d) == [s \in Series |-> UNION {p.of : p \in d[s]}]

\* A name that ends in Bug is a deliberately wrong variant of the definition
\* that follows it; the mutants of PROJECT.json use them to show that a
\* property can fail.

firstBoundaryBug == IF next = 0 THEN truncate(now) ELSE next

\* Lines 102-104: the boundary this call works towards.
firstBoundary == IF next = 0 THEN truncate(now) + FlushInterval ELSE next

\* Lines 105-117: fold the allowlisted samples of call x into their series.
fold(batch, x) == [s \in Series |-> IF s \in batch \cap Allowed THEN acc[s] \cup {x} ELSE acc[s]]

\* Lines 129-133: b is the last boundary, counting from first, that now has reached.
lastClosed(first, b) == (b - first) % FlushInterval = 0 /\ now < b + FlushInterval

prunablePreEpochBug(points, ts) ==
  {p \in points : encodeTimestamp(p.at) < encodeTimestamp(ts - retention)}

\* Lines 156-161 and 174-182: the keys of a bucket that a flush at ts deletes.
\* A cutoff before the epoch skips the pass.
prunable(points, ts) ==
  IF ts - retention < 0 THEN {}
  ELSE {p \in points : encodeTimestamp(p.at) < encodeTimestamp(ts - retention)}

flushedBug(s, a, ts) ==
  LET put == {p \in db[s] : p.at # ts} \cup {[at |-> ts, of |-> a[s]]}
  IN  put \ prunable(put, ts)

\* Lines 163-184 for series s: nothing without samples, else put and prune.
flushed(s, a, ts) ==
  IF a[s] = {} THEN db[s]
  ELSE LET put == {p \in db[s] : p.at # ts} \cup {[at |-> ts, of |-> a[s]]}
       IN  put \ prunable(put, ts)

\* The points of series s that have aged out at ts by the configured retention.
agedOut(s, ts) == {p \in db[s] : p.at + RetentionDays * Day < ts}
-----------------------------------------------------------------------------
Init ==
  /\ now = Start /\ next = 0
  /\ acc = noAcc /\ db = noAcc
  /\ taken = <<>> /\ fed = {} /\ expired = {} /\ lost = {}
  /\ rewound = FALSE /\ crashes = 0 /\ stepsBack = 0

flushOutcomeBug(a, ts, ok) ==
  IF ok
  THEN /\ db' = [s \in Series |-> flushed(s, a, ts)]
       /\ expired' = expired \cup pairsOf([s \in Series |->
                       IF a[s] = {} THEN {} ELSE UNION {p.of : p \in agedOut(s, ts)}])
       /\ acc' = a
  ELSE acc' = a /\ UNCHANGED <<db, expired>>

\* flushLocked: on success the points are written and every accumulator is
\* reset; a failed transaction leaves the file and the accumulators as they were.
flushOutcome(a, ts, ok) ==
  IF ok
  THEN /\ db' = [s \in Series |-> flushed(s, a, ts)]
       /\ expired' = expired \cup pairsOf([s \in Series |->
                       IF a[s] = {} THEN {} ELSE UNION {p.of : p \in agedOut(s, ts)}])
       /\ acc' = noAcc
  ELSE acc' = a /\ UNCHANGED <<db, expired>>

\* One Ingest call with samples of the series in batch; ok is whether bbolt
\* commits, should the call flush.
Ingest(batch, ok) ==
  LET x == Len(taken) + 1
      folded == fold(batch, x)
  IN  /\ x <= MaxIngests
      /\ taken' = Append(taken, now)
      /\ fed' = fed \cup ((batch \cap Allowed) \X {x})
      /\ rewound' = (rewound \/ \E s \in Series : \E p \in db[s] :
                                   next = 0 /\ p.at > now)
      /\ \/ /\ firstBoundary > now
            /\ next' = firstBoundary
            /\ acc' = folded
            /\ UNCHANGED <<db, expired>>
         \/ \E b \in firstBoundary .. now :
              /\ lastClosed(firstBoundary, b)
              /\ next' = b + FlushInterval
              /\ flushOutcome(folded, b, ok)
      /\ UNCHANGED <<now, lost, crashes, stepsBack>>

\* The process dies or is stopped: Close does not flush, and the next Open
\* starts with no accumulators and no boundary.
Crash ==
  /\ crashes < MaxCrashes
  /\ crashes' = crashes + 1
  /\ lost' = lost \cup pairsOf(acc)
  /\ acc' = noAcc /\ next' = 0
  /\ UNCHANGED <<now, db, taken, fed, expired, rewound, stepsBack>>

AdvanceClock ==
  /\ \E t \in (now + 1) .. Horizon : now' = t
  /\ UNCHANGED <<next, acc, db, taken, fed, expired, lost, rewound, crashes, stepsBack>>

StepClockBack ==
  /\ stepsBack < MaxStepsBack
  /\ stepsBack' = stepsBack + 1
  /\ \E t \in Start .. (now - 1) : now' = t
  /\ UNCHANGED <<next, acc, db, taken, fed, expired, lost, rewound, crashes>>

Next ==
  \/ \E batch \in SUBSET Series, ok \in BOOLEAN : Ingest(batch, ok)
  \/ Crash
  \/ AdvanceClock
  \/ StepClockBack

Spec == Init /\ [][Next]_vars
-----------------------------------------------------------------------------
(***************************************************************************)
(* Reading back: GET /v1/history/{metric}?range=...; range 0 is the empty  *)
(* string, no lower bound.                                                 *)
(***************************************************************************)
validRange(r) == r <= MaxRange

\* Store.Query with the since of parseRange: Seek compares encoded keys.
Query(s, r) ==
  IF r = 0 THEN db[s]
  ELSE {p \in db[s] : encodeTimestamp(p.at) >= encodeTimestamp(now - r)}

\* The handler's status for the series in set S.
status(S, r) ==
  IF ~validRange(r) THEN 400
  ELSE IF Cardinality(UNION {{s} \X Query(s, r) : s \in S}) > MaxPoints THEN 413
  ELSE 200
-----------------------------------------------------------------------------
(***************************************************************************)
(* Properties                                                              *)
(***************************************************************************)

\* Every variable has its type.
TypeOK ==
  /\ now \in Nat /\ next \in Nat
  /\ acc \in [Series -> SUBSET Nat]
  /\ db \in [Series -> SUBSET Point]
  /\ taken \in Seq(Nat)
  /\ fed \subseteq Series \X Nat /\ expired \subseteq Series \X Nat
  /\ lost \subseteq Series \X Nat
  /\ rewound \in BOOLEAN /\ crashes \in Nat /\ stepsBack \in Nat

\* Every accepted sample is waiting in its accumulator, averaged into a stored
\* point, aged out by the configured retention, or was in memory at a crash,
\* and exactly one of the four: none is averaged twice, overwritten or pruned
\* early, through failed transactions, gaps of several windows, a clock that
\* steps back and restarts (history.go lines 98-191).  The one exception is a
\* process that starts with the clock behind the points it finds: its first
\* boundary may be the key of a stored point.
EverySampleAccountedFor == ~rewound =>
  /\ fed = pairsOf(acc) \cup pairsOf(stored(db)) \cup expired \cup lost
  /\ pairsOf(acc) \cap pairsOf(stored(db)) = {}
  /\ (pairsOf(acc) \cup pairsOf(stored(db))) \cap (expired \cup lost) = {}

\* Points of a series are stamped in the order of the samples they average, and
\* no sample is in two points, even when the wall clock steps back under the
\* process (the catch-up stamping of lines 119-138).
PointsInOrder == ~rewound =>
  \A s \in Series : \A p, q \in db[s] :
    p.at < q.at => \A x \in p.of, y \in q.of : x < y

\* A point never carries a sample taken at or after the boundary that follows
\* its stamp: the catch-up flush stamps the most recent boundary (lines 124-127).
StampIsCurrent ==
  \A s \in Series : \A p \in db[s] : \A x \in p.of : taken[x] < p.at + FlushInterval

\* A stored point is never changed in place: no later flush, and no flush after
\* a restart, lands on a key that exists (lines 102-104 and 171), unless the
\* process started with the clock behind its points.
PointsAreImmutable ==
  [][~rewound' => \A s \in Series : \A p \in db[s], q \in db'[s] : p.at = q.at => p = q]_vars

\* What has been stored stands: flushes that fail and are retried, gaps, restarts
\* and a clock that steps back change no point, put none out of order and stamp
\* none with a window that had closed before its samples were taken.
PointsStand == PointsAreImmutable /\ []PointsInOrder /\ []StampIsCurrent

\* A flush deletes only points older than the configured retention
\* (main.go line 193, history.go lines 146-161).
PruneOnlyExpired ==
  [][\A s \in Series : \A p \in db[s] :
       (\A q \in db'[s] : q.at # p.at) => p.at + RetentionDays * Day < now]_vars

\* The point a successful flush writes is still there after it: the prune pass
\* of the same transaction leaves it alone (lines 148-155).
FlushedPointSurvives ==
  [][\A s \in Series : acc[s] # {} /\ acc'[s] = {} /\ crashes' = crashes
       => \E p \in db'[s] : acc[s] \subseteq p.of]_vars

\* Within a series nothing older than the retention remains next to its newest
\* point (lines 174-182).
SpanWithinRetention == ~rewound =>
  \A s \in Series : \A p, q \in db[s] : p.at - q.at <= RetentionDays * Day

\* Retention keeps exactly what it promises: a flush deletes nothing young and
\* never the point it has just written, also when the cutoff lies before the
\* epoch, and leaves nothing old in a series it writes to.
RetentionIsExact == PruneOnlyExpired /\ FlushedPointSurvives /\ []SpanWithinRetention

\* No point in the store is older than the retention counted from a boundary
\* that was flushed later, whatever series it belongs to: what the comment on
\* Ingest (lines 93-95) says of every series bucket, and what keeps the file of
\* a node whose devices are replaced from growing.
NothingOutlivesRetention ==
  \A s, t \in Series : \A p \in db[s], q \in db[t] : p.at - q.at <= RetentionDays * Day

\* A history request answered 200 holds every stored point of the range it asked
\* for (history.go lines 193-196); one that would be cut is refused instead
\* (server.go lines 57-72).
AnswersAreComplete ==
  \A S \in SUBSET Series, r \in Ranges :
    status(S, r) = 200 =>
      \A s \in S : {p \in db[s] : r = 0 \/ p.at >= now - r} = Query(s, r)
=============================================================================
