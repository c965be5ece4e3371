------------------------ MODULE HistoryStore_proofs -------------------------
(***************************************************************************)
(* Proofs about HistoryStore, for any series, flush interval, retention    *)
(* and clock: the type invariant, that stored points stand, that every     *)
(* sample is accounted for, that retention is exact and that answers are   *)
(* complete.  Where an integer of the code might wrap, the theorem names   *)
(* the range in which it does not.                                         *)
(***************************************************************************)
EXTENDS HistoryStore, SequenceTheorems, TLAPS

(***************************************************************************)
(* The inductive invariant.                                                *)
(***************************************************************************)
(* Samples are numbers of Ingest calls that have happened.                 *)
SamplesAreTaken ==
    \A s \in Series : /\ acc[s] \subseteq 1..Len(taken)
                      /\ \A p \in db[s] : p.of \subseteq 1..Len(taken)

(* What waits in an accumulator is newer than what its series has stored,  *)
(* and was taken before the boundary it waits for.                         *)
AccIsNewer == \A s \in Series : \A x \in acc[s] :
                  /\ taken[x] < next
                  /\ \A p \in db[s] : \A y \in p.of : y < x

(* A bucket has one value per key.                                         *)
OneValuePerKey == \A s \in Series : \A p, q \in db[s] : p.at = q.at => p = q

(* The next boundary is behind every stored key.                           *)
KeysBehindNext == ~rewound /\ next # 0 => \A s \in Series : \A p \in db[s] : p.at < next

HistoryInv == /\ TypeOK /\ SamplesAreTaken /\ AccIsNewer /\ OneValuePerKey
              /\ KeysBehindNext /\ PointsInOrder /\ StampIsCurrent
-----------------------------------------------------------------------------
(***************************************************************************)
(* What an Ingest call does to the store: it keeps its samples in memory   *)
(* (no boundary closed, or bbolt failed), or it flushes at boundary b.     *)
(***************************************************************************)
folded(batch) == fold(batch, Len(taken) + 1)

newPoint(batch, s, b) == [at |-> b, of |-> folded(batch)[s]]

Records(batch) ==
    /\ taken' = Append(taken, now)
    /\ fed' = fed \cup ((batch \cap Allowed) \X {Len(taken) + 1})
    /\ rewound' = (rewound \/ \E s \in Series : \E p \in db[s] : next = 0 /\ p.at > now)
    /\ UNCHANGED <<now, lost, crashes, stepsBack>>

Keeps(batch) ==
    /\ next' \in Nat /\ now < next' /\ firstBoundary <= next'
    /\ acc' = folded(batch) /\ UNCHANGED <<db, expired>>

Flushes(batch, b) ==
    /\ b \in Nat /\ firstBoundary <= b /\ b <= now /\ now < b + FlushInterval
    /\ next' = b + FlushInterval
    /\ db' = [s \in Series |-> flushed(s, folded(batch), b)]
    /\ expired' = expired \cup pairsOf([s \in Series |->
                      IF folded(batch)[s] = {} THEN {} ELSE UNION {p.of : p \in agedOut(s, b)}])
    /\ acc' = noAcc

(* The first boundary after a start is behind the clock.                   *)
LEMMA BoundaryFacts ==
    ASSUME TypeOK
    PROVE  /\ firstBoundary \in Nat /\ firstBoundary > 0
           /\ next = 0 => now < firstBoundary
           /\ next # 0 => firstBoundary = next
<1>1. now % FlushInterval \in 0..(FlushInterval - 1) /\ now % FlushInterval <= now
    BY StoreAssumption DEF TypeOK
<1> QED
    BY <1>1, StoreAssumption DEF TypeOK, firstBoundary, truncate

LEMMA IngestShape ==
    ASSUME TypeOK, NEW batch \in SUBSET Series, NEW ok \in BOOLEAN, Ingest(batch, ok)
    PROVE  Records(batch) /\ (Keeps(batch) \/ \E b \in Nat : Flushes(batch, b))
<1>1. CASE /\ firstBoundary > now /\ next' = firstBoundary
           /\ acc' = folded(batch) /\ UNCHANGED <<db, expired>>
    BY <1>1, BoundaryFacts DEF Keeps, Ingest, Records
<1>2. ASSUME NEW b \in firstBoundary .. now, lastClosed(firstBoundary, b),
             next' = b + FlushInterval, flushOutcome(folded(batch), b, ok)
      PROVE  Keeps(batch) \/ Flushes(batch, b)
    <2>1. b \in Nat /\ firstBoundary <= b /\ b <= now /\ now < b + FlushInterval
        BY <1>2, BoundaryFacts DEF TypeOK, lastClosed
    <2>2. CASE ok
        BY <1>2, <2>1, <2>2 DEF Flushes, flushOutcome
    <2>3. CASE ~ok
        BY <1>2, <2>1, <2>3, BoundaryFacts, StoreAssumption DEF Keeps, flushOutcome
    <2> QED
        BY <2>2, <2>3
<1>3. \A b \in firstBoundary .. now : b \in Nat
    BY BoundaryFacts DEF TypeOK
<1> QED
    BY <1>1, <1>2, <1>3 DEF Ingest, Records, folded

(* The accumulators after folding in the samples of a call.                *)
LEMMA FoldFacts ==
    ASSUME TypeOK, SamplesAreTaken, NEW batch \in SUBSET Series
    PROVE  /\ folded(batch) \in [Series -> SUBSET Nat]
           /\ \A s \in Series : /\ acc[s] \subseteq folded(batch)[s]
                                 /\ folded(batch)[s] \subseteq acc[s] \cup {Len(taken) + 1}
                                 /\ folded(batch)[s] \subseteq 1..(Len(taken) + 1)
<1> DEFINE n == Len(taken)
<1>1. n \in Nat
    BY LenProperties DEF TypeOK
<1>2. folded(batch) = [s \in Series |-> IF s \in batch \cap Allowed THEN acc[s] \cup {n + 1} ELSE acc[s]]
    BY DEF folded, fold
<1>3. \A s \in Series : acc[s] \subseteq 1..n
    BY DEF SamplesAreTaken
<1> HIDE DEF n
<1>4. ASSUME NEW s \in Series
      PROVE  /\ acc[s] \subseteq folded(batch)[s]
             /\ folded(batch)[s] \subseteq acc[s] \cup {n + 1}
    BY <1>2
<1>5. \A i \in 1..n : i \in 1..(n + 1)
    BY <1>1
<1>6. n + 1 \in 1..(n + 1) /\ \A i \in 1..(n + 1) : i \in Nat
    BY <1>1
<1>7. ASSUME NEW s \in Series
      PROVE  folded(batch)[s] \subseteq 1..(n + 1)
    BY <1>3, <1>4, <1>5, <1>6
<1>8. \A s \in Series : folded(batch)[s] \in SUBSET Nat
    BY <1>6, <1>7
<1>9. folded(batch) \in [Series -> SUBSET Nat]
    BY <1>2, <1>8
<1> QED
    BY <1>4, <1>7, <1>9 DEF n

(* A bucket after a flush holds points it held before and the new one, and *)
(* the new one has its key to itself.                                      *)
LEMMA FlushedFacts ==
    ASSUME TypeOK, SamplesAreTaken, NEW batch \in SUBSET Series, NEW b \in Nat, NEW s \in Series
    PROVE  /\ flushed(s, folded(batch), b) \subseteq Point
           /\ \A p \in flushed(s, folded(batch), b) :
                 \/ p \in db[s] /\ (folded(batch)[s] = {} \/ p.at # b)
                 \/ folded(batch)[s] # {} /\ p = newPoint(batch, s, b)
<1>1. folded(batch)[s] \in SUBSET Nat /\ db[s] \subseteq Point
    BY FoldFacts DEF TypeOK
<1>2. ASSUME folded(batch)[s] # {} PROVE newPoint(batch, s, b) \in Point
    <2> DEFINE a == folded(batch)[s]
    <2>1. a \in (SUBSET Nat) \ {{}}
        BY <1>1, <1>2
    <2> HIDE DEF a
    <2>2. [at |-> b, of |-> a] \in Point
        BY <2>1 DEF Point
    <2> QED
        BY <2>2 DEF newPoint, a
<1>3. \A p \in flushed(s, folded(batch), b) :
          \/ p \in db[s] /\ (folded(batch)[s] = {} \/ p.at # b)
          \/ folded(batch)[s] # {} /\ p = newPoint(batch, s, b)
    BY DEF flushed, newPoint
<1> QED
    BY <1>1, <1>2, <1>3
(* Pairs of a series and a sample.                                         *)
LEMMA PairsOf ==
    ASSUME NEW f, NEW z
    PROVE  z \in pairsOf(f) <=> \E s \in Series : \E x \in f[s] : z = <<s, x>>
BY DEF pairsOf

LEMMA PairsType ==
    ASSUME NEW f, NEW S, \A s \in Series : f[s] \subseteq S
    PROVE  pairsOf(f) \subseteq Series \X S
BY PairsOf

(* What every Ingest call records keeps its type.                          *)
LEMMA RecordsType ==
    ASSUME TypeOK, NEW batch \in SUBSET Series, Records(batch)
    PROVE  /\ taken' \in Seq(Nat) /\ fed' \subseteq Series \X Nat /\ rewound' \in BOOLEAN
           /\ now' \in Nat /\ lost' \subseteq Series \X Nat /\ crashes' \in Nat /\ stepsBack' \in Nat
<1>1. taken' \in Seq(Nat)
    BY DEF TypeOK, Records
<1>2. fed' \subseteq Series \X Nat
    <2>1. Len(taken) + 1 \in Nat
        BY LenProperties DEF TypeOK
    <2> QED
        BY <2>1 DEF TypeOK, Records
<1>3. rewound' \in BOOLEAN
    BY DEF Records
<1> QED
    BY <1>1, <1>2, <1>3 DEF TypeOK, Records

(* The clock readings after an Ingest call.                                *)
LEMMA TakenFacts ==
    ASSUME TypeOK, NEW batch, Records(batch)
    PROVE  /\ Len(taken) \in Nat /\ Len(taken') = Len(taken) + 1
           /\ \A x \in 1..Len(taken) : taken'[x] = taken[x] /\ taken[x] \in Nat
           /\ taken'[Len(taken) + 1] = now
BY DEF TypeOK, Records

(* Unless the process has started with the clock behind its points, every  *)
(* stored key is behind the boundary the call works towards.               *)
LEMMA KeysBehindBoundary ==
    ASSUME HistoryInv, NEW batch, Records(batch), ~rewound'
    PROVE  ~rewound /\ \A s \in Series : \A p \in db[s] : p.at \in Nat /\ p.at < firstBoundary
<1>1. ~rewound /\ \A s \in Series : \A p \in db[s] : ~(next = 0 /\ p.at > now)
    BY DEF Records
<1>2. ASSUME NEW s \in Series, NEW p \in db[s]
      PROVE  p.at \in Nat /\ p.at < firstBoundary
    <2>1. p.at \in Nat
        BY DEF HistoryInv, TypeOK, Point
    <2>2. CASE next = 0
        BY <1>1, <2>1, <2>2, BoundaryFacts DEF HistoryInv, TypeOK
    <2>3. CASE next # 0
        BY <1>1, <2>1, <2>3, BoundaryFacts DEF HistoryInv, KeysBehindNext
    <2> QED
        BY <2>1, <2>2, <2>3
<1> QED
    BY <1>1, <1>2

(* A sample of the call that flushes, or from before, is younger than what *)
(* is stored and was taken before the next boundary.                       *)
LEMMA FoldedAreNewer ==
    ASSUME HistoryInv, NEW batch \in SUBSET Series, Records(batch),
           NEW s \in Series, NEW x \in folded(batch)[s]
    PROVE  /\ x \in 1..(Len(taken) + 1)
           /\ taken'[x] \in Nat
           /\ taken'[x] <= now \/ taken'[x] < firstBoundary
           /\ \A p \in db[s] : \A y \in p.of : y < x
<1>1. x \in 1..(Len(taken) + 1) /\ x \in acc[s] \cup {Len(taken) + 1} /\ Len(taken) \in Nat
    BY FoldFacts, TakenFacts DEF HistoryInv
<1>2. CASE x \in acc[s]
    <2>1. x \in 1..Len(taken) /\ taken'[x] = taken[x] /\ taken[x] \in Nat /\ taken[x] < next
        BY <1>2, TakenFacts DEF HistoryInv, SamplesAreTaken, AccIsNewer
    <2>2. next = firstBoundary
        BY <2>1, BoundaryFacts DEF HistoryInv, TypeOK
    <2> QED
        BY <1>1, <1>2, <2>1, <2>2 DEF HistoryInv, AccIsNewer
<1>3. CASE x = Len(taken) + 1
    <2>1. taken'[x] = now /\ now \in Nat
        BY <1>3, TakenFacts DEF HistoryInv, TypeOK
    <2>2. \A p \in db[s] : \A y \in p.of : y \in 1..Len(taken)
        BY DEF HistoryInv, SamplesAreTaken
    <2> QED
        BY <1>1, <1>3, <2>1, <2>2
<1> QED
    BY <1>1, <1>2, <1>3

(* The cases of a point that is in its bucket after a flush.               *)
LEMMA AfterFlush ==
    ASSUME HistoryInv, NEW batch \in SUBSET Series, NEW b \in Nat, Flushes(batch, b),
           NEW s \in Series, NEW p \in db'[s]
    PROVE  \/ p \in db[s] /\ (folded(batch)[s] = {} \/ p.at # b)
           \/ folded(batch)[s] # {} /\ p.at = b /\ p.of = folded(batch)[s] /\ p = newPoint(batch, s, b)
<1>1. p \in flushed(s, folded(batch), b)
    BY DEF Flushes
<1>2. newPoint(batch, s, b).at = b /\ newPoint(batch, s, b).of = folded(batch)[s]
    BY DEF newPoint
<1> QED
    BY <1>1, <1>2, FlushedFacts DEF HistoryInv
-----------------------------------------------------------------------------
(***************************************************************************)
(* The steps preserve the invariant, part by part.                         *)
(***************************************************************************)

(* Every step preserves the types.                                         *)
LEMMA TypeStep == HistoryInv /\ [Next]_vars => TypeOK'
<1> SUFFICES ASSUME HistoryInv, [Next]_vars PROVE TypeOK'
    OBVIOUS
<1>1. ASSUME NEW batch \in SUBSET Series, Records(batch), Keeps(batch) PROVE TypeOK'
    <2>1. acc' \in [Series -> SUBSET Nat]
        BY <1>1, FoldFacts DEF HistoryInv, Keeps
    <2> QED
        BY <1>1, <2>1, RecordsType DEF HistoryInv, TypeOK, Keeps
<1>2. ASSUME NEW batch \in SUBSET Series, NEW b \in Nat, Records(batch), Flushes(batch, b)
      PROVE  TypeOK'
    <2>1. acc' \in [Series -> SUBSET Nat] /\ next' \in Nat
        BY <1>2, StoreAssumption DEF Flushes, noAcc
    <2>2. db' \in [Series -> SUBSET Point]
        <3>1. \A s \in Series : flushed(s, folded(batch), b) \in SUBSET Point
            BY FlushedFacts DEF HistoryInv
        <3> QED
            BY <1>2, <3>1 DEF Flushes
    <2>3. expired' \subseteq Series \X Nat
        <3> DEFINE out == [s \in Series |->
                            IF folded(batch)[s] = {} THEN {} ELSE UNION {p.of : p \in agedOut(s, b)}]
        <3>1. \A s \in Series : \A p \in agedOut(s, b) : p.of \subseteq Nat
            BY DEF HistoryInv, TypeOK, agedOut, Point
        <3>2. \A s \in Series : out[s] \subseteq Nat
            BY <3>1
        <3>3. expired' = expired \cup pairsOf(out)
            BY <1>2 DEF Flushes
        <3> HIDE DEF out
        <3>4. pairsOf(out) \subseteq Series \X Nat
            BY <3>2, PairsType
        <3> QED
            BY <3>3, <3>4 DEF HistoryInv, TypeOK
    <2> QED
        BY <1>2, <2>1, <2>2, <2>3, RecordsType DEF HistoryInv, TypeOK
<1>3. CASE Crash
    <2>1. pairsOf(acc) \subseteq Series \X Nat
        BY PairsType DEF HistoryInv, TypeOK
    <2> QED
        BY <1>3, <2>1 DEF HistoryInv, TypeOK, Crash, noAcc
<1>4. CASE AdvanceClock \/ StepClockBack
    BY <1>4, StoreAssumption DEF HistoryInv, TypeOK, AdvanceClock, StepClockBack
<1>5. CASE UNCHANGED vars
    BY <1>5 DEF HistoryInv, vars, TypeOK
<1> QED
    BY <1>1, <1>2, <1>3, <1>4, <1>5, IngestShape DEF Next, HistoryInv
(* Every step folds and stores only samples of calls that have happened.   *)
LEMMA SamplesStep == HistoryInv /\ [Next]_vars => SamplesAreTaken'
<1> SUFFICES ASSUME HistoryInv, [Next]_vars PROVE SamplesAreTaken'
    OBVIOUS
<1>1. ASSUME NEW batch \in SUBSET Series, Records(batch), Keeps(batch) PROVE SamplesAreTaken'
    <2>1. Len(taken) \in Nat /\ Len(taken') = Len(taken) + 1
        BY <1>1, TakenFacts DEF HistoryInv
    <2>2. \A s \in Series : acc'[s] \subseteq 1..Len(taken')
        BY <1>1, <2>1, FoldFacts DEF HistoryInv, Keeps
    <2>3. \A s \in Series : \A p \in db'[s] : p.of \subseteq 1..Len(taken')
        BY <1>1, <2>1 DEF HistoryInv, SamplesAreTaken, Keeps
    <2> QED
        BY <2>2, <2>3 DEF SamplesAreTaken
<1>2. ASSUME NEW batch \in SUBSET Series, NEW b \in Nat, Records(batch), Flushes(batch, b)
      PROVE  SamplesAreTaken'
    <2>1. Len(taken) \in Nat /\ Len(taken') = Len(taken) + 1
        BY <1>2, TakenFacts DEF HistoryInv
    <2>2. \A s \in Series : acc'[s] = {}
        BY <1>2 DEF Flushes, noAcc
    <2>3. ASSUME NEW s \in Series, NEW p \in db'[s] PROVE p.of \subseteq 1..Len(taken')
        <3>1. CASE p \in db[s]
            BY <2>1, <3>1 DEF HistoryInv, SamplesAreTaken
        <3>2. CASE p.of = folded(batch)[s]
            BY <2>1, <3>2, FoldFacts DEF HistoryInv
        <3> QED
            BY <1>2, <3>1, <3>2, AfterFlush
    <2> QED
        BY <2>2, <2>3 DEF SamplesAreTaken
<1>3. CASE Crash
    BY <1>3 DEF HistoryInv, SamplesAreTaken, Crash, noAcc
<1>4. CASE AdvanceClock \/ StepClockBack
    BY <1>4 DEF HistoryInv, SamplesAreTaken, AdvanceClock, StepClockBack
<1>5. CASE UNCHANGED vars
    BY <1>5 DEF HistoryInv, vars, SamplesAreTaken
<1> QED
    BY <1>1, <1>2, <1>3, <1>4, <1>5, IngestShape DEF Next, HistoryInv

(* What waits stays newer than what is stored.                             *)
LEMMA NewerStep == HistoryInv /\ [Next]_vars => AccIsNewer'
<1> SUFFICES ASSUME HistoryInv, [Next]_vars PROVE AccIsNewer'
    OBVIOUS
<1>1. ASSUME NEW batch \in SUBSET Series, Records(batch), Keeps(batch) PROVE AccIsNewer'
    <2> SUFFICES ASSUME NEW s \in Series, NEW x \in folded(batch)[s]
                 PROVE  taken'[x] < next' /\ \A p \in db[s] : \A y \in p.of : y < x
        BY <1>1 DEF Keeps, AccIsNewer
    <2>1. next' \in Nat /\ now < next' /\ firstBoundary <= next' /\ now \in Nat /\ firstBoundary \in Nat
        BY <1>1, BoundaryFacts DEF Keeps, HistoryInv, TypeOK
    <2> QED
        BY <1>1, <2>1, FoldedAreNewer
<1>2. ASSUME NEW batch \in SUBSET Series, NEW b \in Nat, Records(batch), Flushes(batch, b)
      PROVE  AccIsNewer'
    BY <1>2 DEF Flushes, noAcc, AccIsNewer
<1>3. CASE Crash
    BY <1>3 DEF Crash, noAcc, AccIsNewer
<1>4. CASE AdvanceClock \/ StepClockBack
    BY <1>4 DEF HistoryInv, AccIsNewer, AdvanceClock, StepClockBack
<1>5. CASE UNCHANGED vars
    BY <1>5 DEF HistoryInv, vars, AccIsNewer
<1> QED
    BY <1>1, <1>2, <1>3, <1>4, <1>5, IngestShape DEF Next, HistoryInv

(* bbolt replaces the value of a key that is put again.                    *)
LEMMA OneValueStep == HistoryInv /\ [Next]_vars => OneValuePerKey'
<1> SUFFICES ASSUME HistoryInv, [Next]_vars PROVE OneValuePerKey'
    OBVIOUS
<1>1. ASSUME NEW batch \in SUBSET Series, Records(batch), Keeps(batch) PROVE OneValuePerKey'
    BY <1>1 DEF HistoryInv, OneValuePerKey, Keeps
<1>2. ASSUME NEW batch \in SUBSET Series, NEW b \in Nat, Records(batch), Flushes(batch, b)
      PROVE  OneValuePerKey'
    <2> SUFFICES ASSUME NEW s \in Series, NEW p \in db'[s], NEW q \in db'[s], p.at = q.at
                 PROVE  p = q
        BY DEF OneValuePerKey
    <2>1. CASE p \in db[s] /\ q \in db[s]
        BY <2>1 DEF HistoryInv, OneValuePerKey
    <2>2. CASE p = newPoint(batch, s, b) /\ q = newPoint(batch, s, b)
        BY <2>2
    <2> QED
        BY <1>2, <2>1, <2>2, AfterFlush
<1>3. CASE Crash
    BY <1>3 DEF HistoryInv, OneValuePerKey, Crash
<1>4. CASE AdvanceClock \/ StepClockBack
    BY <1>4 DEF HistoryInv, OneValuePerKey, AdvanceClock, StepClockBack
<1>5. CASE UNCHANGED vars
    BY <1>5 DEF HistoryInv, vars, OneValuePerKey
<1> QED
    BY <1>1, <1>2, <1>3, <1>4, <1>5, IngestShape DEF Next, HistoryInv

(* The next boundary moves only forward, and starts behind the clock.      *)
LEMMA KeysStep == HistoryInv /\ [Next]_vars => KeysBehindNext'
<1> SUFFICES ASSUME HistoryInv, [Next]_vars PROVE KeysBehindNext'
    OBVIOUS
<1>1. ASSUME NEW batch \in SUBSET Series, Records(batch), Keeps(batch) PROVE KeysBehindNext'
    BY <1>1, KeysBehindBoundary, BoundaryFacts DEF HistoryInv, KeysBehindNext, Keeps
<1>2. ASSUME NEW batch \in SUBSET Series, NEW b \in Nat, Records(batch), Flushes(batch, b)
      PROVE  KeysBehindNext'
    <2> SUFFICES ASSUME ~rewound', NEW s \in Series, NEW p \in db'[s] PROVE p.at < next'
        BY DEF KeysBehindNext
    <2>1. next' = b + FlushInterval /\ firstBoundary <= b /\ firstBoundary \in Nat
        BY <1>2, BoundaryFacts DEF Flushes, HistoryInv
    <2>2. CASE p \in db[s]
        BY <1>2, <2>1, <2>2, KeysBehindBoundary, StoreAssumption
    <2>3. CASE p.at = b
        BY <2>1, <2>3, StoreAssumption
    <2> QED
        BY <1>2, <2>2, <2>3, AfterFlush
<1>3. CASE Crash
    BY <1>3 DEF Crash, KeysBehindNext
<1>4. CASE AdvanceClock \/ StepClockBack
    BY <1>4 DEF HistoryInv, KeysBehindNext, AdvanceClock, StepClockBack
<1>5. CASE UNCHANGED vars
    BY <1>5 DEF HistoryInv, vars, KeysBehindNext
<1> QED
    BY <1>1, <1>2, <1>3, <1>4, <1>5, IngestShape DEF Next, HistoryInv

(* A new point is stamped behind all the others and averages newer samples.*)
LEMMA OrderStep == HistoryInv /\ [Next]_vars => PointsInOrder'
<1> SUFFICES ASSUME HistoryInv, [Next]_vars PROVE PointsInOrder'
    OBVIOUS
<1>1. ASSUME NEW batch \in SUBSET Series, Records(batch), Keeps(batch) PROVE PointsInOrder'
    BY <1>1, KeysBehindBoundary DEF HistoryInv, PointsInOrder, Keeps
<1>2. ASSUME NEW batch \in SUBSET Series, NEW b \in Nat, Records(batch), Flushes(batch, b)
      PROVE  PointsInOrder'
    <2> SUFFICES ASSUME ~rewound', NEW s \in Series, NEW p \in db'[s], NEW q \in db'[s], p.at < q.at,
                        NEW x \in p.of, NEW y \in q.of
                 PROVE  x < y
        BY DEF PointsInOrder
    <2>1. firstBoundary <= b /\ firstBoundary \in Nat
        BY <1>2, BoundaryFacts DEF Flushes, HistoryInv
    <2>2. \A r \in db[s] : r.at \in Nat /\ r.at < b
        BY <1>2, <2>1, KeysBehindBoundary
    <2>3. ~(p.at = b)
        BY <1>2, <2>2, AfterFlush
    <2>4. p \in db[s]
        BY <1>2, <2>3, AfterFlush
    <2>5. CASE q \in db[s]
        BY <1>2, <2>4, <2>5, KeysBehindBoundary DEF HistoryInv, PointsInOrder
    <2>6. CASE q.of = folded(batch)[s]
        BY <1>2, <2>4, <2>6, FoldedAreNewer
    <2> QED
        BY <1>2, <2>5, <2>6, AfterFlush
<1>3. CASE Crash
    BY <1>3 DEF HistoryInv, PointsInOrder, Crash
<1>4. CASE AdvanceClock \/ StepClockBack
    BY <1>4 DEF HistoryInv, PointsInOrder, AdvanceClock, StepClockBack
<1>5. CASE UNCHANGED vars
    BY <1>5 DEF HistoryInv, vars, PointsInOrder
<1> QED
    BY <1>1, <1>2, <1>3, <1>4, <1>5, IngestShape DEF Next, HistoryInv

(* A flush stamps its samples with the boundary they were taken before, or *)
(* with the last one that has closed.                                      *)
LEMMA StampStep == HistoryInv /\ [Next]_vars => StampIsCurrent'
<1> SUFFICES ASSUME HistoryInv, [Next]_vars PROVE StampIsCurrent'
    OBVIOUS
<1>1. ASSUME NEW batch \in SUBSET Series, Records(batch), Keeps(batch) PROVE StampIsCurrent'
    <2>1. \A s \in Series : \A p \in db[s] : \A x \in p.of : taken'[x] = taken[x]
        BY <1>1, TakenFacts DEF HistoryInv, SamplesAreTaken
    <2> QED
        BY <1>1, <2>1 DEF HistoryInv, StampIsCurrent, Keeps
<1>2. ASSUME NEW batch \in SUBSET Series, NEW b \in Nat, Records(batch), Flushes(batch, b)
      PROVE  StampIsCurrent'
    <2> SUFFICES ASSUME NEW s \in Series, NEW p \in db'[s], NEW x \in p.of
                 PROVE  taken'[x] < p.at + FlushInterval
        BY DEF StampIsCurrent
    <2>1. CASE p \in db[s]
        <3>1. taken'[x] = taken[x]
            BY <1>2, <2>1, TakenFacts DEF HistoryInv, SamplesAreTaken
        <3> QED
            BY <2>1, <3>1 DEF HistoryInv, StampIsCurrent
    <2>2. CASE p.at = b /\ p.of = folded(batch)[s]
        <3>1. /\ firstBoundary <= b /\ now < b + FlushInterval
              /\ firstBoundary \in Nat /\ now \in Nat /\ FlushInterval \in Nat \ {0}
            BY <1>2, BoundaryFacts, StoreAssumption DEF Flushes, HistoryInv, TypeOK
        <3>2. taken'[x] \in Nat /\ (taken'[x] <= now \/ taken'[x] < firstBoundary)
            BY <1>2, <2>2, FoldedAreNewer
        <3> QED
            BY <2>2, <3>1, <3>2
    <2> QED
        BY <1>2, <2>1, <2>2, AfterFlush
<1>3. CASE Crash
    BY <1>3 DEF HistoryInv, StampIsCurrent, Crash
<1>4. CASE AdvanceClock \/ StepClockBack
    BY <1>4 DEF HistoryInv, StampIsCurrent, AdvanceClock, StepClockBack
<1>5. CASE UNCHANGED vars
    BY <1>5 DEF HistoryInv, vars, StampIsCurrent
<1> QED
    BY <1>1, <1>2, <1>3, <1>4, <1>5, IngestShape DEF Next, HistoryInv

(* An empty store.                                                         *)
LEMMA HistoryInvInit == Init => HistoryInv
<1> SUFFICES ASSUME Init PROVE HistoryInv
    OBVIOUS
<1>1. TypeOK
    <2>1. now \in Nat /\ next \in Nat /\ crashes \in Nat /\ stepsBack \in Nat /\ rewound \in BOOLEAN
        BY StoreAssumption DEF Init
    <2>2. acc \in [Series -> SUBSET Nat] /\ db \in [Series -> SUBSET Point]
        BY DEF Init, noAcc
    <2>3. taken \in Seq(Nat)
        BY EmptySeq DEF Init
    <2>4. fed \subseteq Series \X Nat /\ expired \subseteq Series \X Nat /\ lost \subseteq Series \X Nat
        BY DEF Init
    <2> QED
        BY <2>1, <2>2, <2>3, <2>4 DEF TypeOK
<1>2. SamplesAreTaken /\ AccIsNewer /\ OneValuePerKey /\ KeysBehindNext /\ PointsInOrder /\ StampIsCurrent
    BY DEF Init, noAcc, SamplesAreTaken, AccIsNewer, OneValuePerKey, KeysBehindNext, PointsInOrder,
           StampIsCurrent
<1> QED
    BY <1>1, <1>2 DEF HistoryInv

(* HistoryInv is an invariant.                                             *)
LEMMA HistoryInvStep == HistoryInv /\ [Next]_vars => HistoryInv'
BY TypeStep, SamplesStep, NewerStep, OneValueStep, KeysStep, OrderStep, StampStep DEF HistoryInv

THEOREM HistoryInvHolds == Spec => []HistoryInv
BY HistoryInvInit, HistoryInvStep, PTL DEF Spec

(* Every variable of the store keeps its type; in particular a stored      *)
(* point averages at least one sample.                                     *)
THEOREM TypeCorrect == Spec => []TypeOK
BY HistoryInvHolds, PTL DEF HistoryInv

(* No flush lands on a key that is there.                                  *)
LEMMA ImmutableStep ==
    HistoryInv /\ [Next]_vars
        => [~rewound' => \A s \in Series : \A p \in db[s], q \in db'[s] : p.at = q.at => p = q]_vars
<1> SUFFICES ASSUME HistoryInv, Next, ~rewound',
                    NEW s \in Series, NEW p \in db[s], NEW q \in db'[s], p.at = q.at
             PROVE  p = q
    OBVIOUS
<1>1. CASE q \in db[s]
    BY <1>1 DEF HistoryInv, OneValuePerKey
<1>2. ASSUME NEW batch \in SUBSET Series, NEW b \in Nat, Records(batch), Flushes(batch, b), q \notin db[s]
      PROVE  FALSE
    <2>1. q.at = b
        BY <1>2, AfterFlush
    <2>2. p.at < b
        BY <1>2, KeysBehindBoundary, BoundaryFacts DEF Flushes, HistoryInv
    <2> QED
        BY <2>1, <2>2
<1>3. CASE Crash \/ AdvanceClock \/ StepClockBack
    BY <1>1, <1>3 DEF Crash, AdvanceClock, StepClockBack
<1>4. ASSUME NEW batch \in SUBSET Series, Keeps(batch)
      PROVE  q \in db[s]
    BY <1>4 DEF Keeps
<1> QED
    BY <1>1, <1>2, <1>3, <1>4, IngestShape DEF Next, HistoryInv

(* What has been stored stands, through flushes that fail and are retried, *)
(* gaps of several windows, restarts and a clock that steps back: no point *)
(* is changed, put out of order or stamped with a window that had closed   *)
(* before its samples were taken.  No bound on any integer is needed.      *)
THEOREM StoredPointsStand == Spec => PointsStand
<1>1. HistoryInv => PointsInOrder /\ StampIsCurrent
    BY DEF HistoryInv
<1>2. Spec => PointsAreImmutable
    BY HistoryInvHolds, ImmutableStep, PTL DEF Spec, PointsAreImmutable
<1> QED
    BY <1>1, <1>2, HistoryInvHolds, PTL DEF PointsStand
-----------------------------------------------------------------------------
(***************************************************************************)
(* Retention and accounting, for a configuration and a clock whose         *)
(* integers do not wrap.  retention and encodeTimestamp are then what they *)
(* stand for.                                                              *)
(***************************************************************************)
(* retentionDays days are a time.Duration: at most 106751 in the code.     *)
RetentionFits == RetentionDays * Day < DurationSpan \div 2

(* The seconds since the epoch that the clock may show are a uint64.       *)
ClockFits == Start < KeySpan /\ Horizon < KeySpan

ClockInSpan == /\ now < KeySpan
               /\ \A s \in Series : \A p \in db[s] : p.at < KeySpan

LEMMA RetentionIsConfigured ==
    ASSUME RetentionFits
    PROVE  RetentionDays * Day \in Nat /\ retention = RetentionDays * Day
<1> DEFINE d == RetentionDays * Day
           h == DurationSpan \div 2
<1>1. d \in Nat /\ h \in Nat /\ h + h <= DurationSpan
    BY StoreAssumption
<1>2. d < h /\ DurationSpan \in Nat \ {0}
    BY StoreAssumption DEF RetentionFits
<1>3. retention = ((d + h) % DurationSpan) - h
    BY DEF retention, wrapDuration
<1> HIDE DEF d, h
<1>4. (d + h) % DurationSpan = d + h
    BY <1>1, <1>2
<1> QED
    BY <1>1, <1>3, <1>4 DEF d

LEMMA KeyIsTime == \A t \in Nat : t < KeySpan => encodeTimestamp(t) = t
BY StoreAssumption DEF encodeTimestamp

(* What a flush at b prunes is what has aged out.                          *)
LEMMA PruneIsAge ==
    ASSUME RetentionFits, NEW points \in SUBSET Point, NEW b \in Nat, b < KeySpan,
           \A p \in points : p.at < KeySpan
    PROVE  prunable(points, b) = {p \in points : p.at + RetentionDays * Day < b}
<1> DEFINE d == RetentionDays * Day
<1>1. d \in Nat /\ retention = d
    BY RetentionIsConfigured
<1>2. \A p \in points : p.at \in Nat /\ encodeTimestamp(p.at) = p.at
    BY KeyIsTime DEF Point
<1> HIDE DEF d
<1>3. CASE b - d < 0
    <2>1. prunable(points, b) = {}
        BY <1>1, <1>3 DEF prunable
    <2>2. \A p \in points : ~(p.at + d < b)
        BY <1>1, <1>2, <1>3
    <2> QED
        BY <2>1, <2>2 DEF d
<1>4. CASE b - d >= 0
    <2>1. b - d \in Nat /\ b - d < KeySpan
        BY <1>1, <1>4, StoreAssumption
    <2>2. encodeTimestamp(b - d) = b - d
        BY <2>1, KeyIsTime
    <2>3. prunable(points, b) = {p \in points : encodeTimestamp(p.at) < b - d}
        BY <1>1, <2>1, <2>2 DEF prunable
    <2>4. \A p \in points : encodeTimestamp(p.at) < b - d <=> p.at + d < b
        BY <1>1, <1>2, <2>1
    <2> QED
        BY <2>3, <2>4 DEF d
<1> QED
    BY <1>1, <1>3, <1>4

aged(p, b) == p.at + RetentionDays * Day < b

(* The bucket a flush leaves behind.                                       *)
LEMMA FlushIsExact ==
    ASSUME HistoryInv, ClockInSpan, RetentionFits,
           NEW batch \in SUBSET Series, NEW b \in Nat, Flushes(batch, b), NEW s \in Series
    PROVE  /\ folded(batch)[s] = {} => db'[s] = db[s]
           /\ folded(batch)[s] # {} =>
                 db'[s] = {p \in db[s] : p.at # b /\ ~aged(p, b)} \cup {newPoint(batch, s, b)}
<1>1. db'[s] = flushed(s, folded(batch), b)
    BY DEF Flushes
<1>2. folded(batch)[s] = {} => db'[s] = db[s]
    BY <1>1 DEF flushed
<1>3. ASSUME folded(batch)[s] # {}
      PROVE  db'[s] = {p \in db[s] : p.at # b /\ ~aged(p, b)} \cup {newPoint(batch, s, b)}
    <2> DEFINE new == newPoint(batch, s, b)
               put == {p \in db[s] : p.at # b} \cup {new}
    <2>1. db'[s] = put \ prunable(put, b)
        BY <1>1, <1>3 DEF flushed, newPoint
    <2>2. new.at = b /\ new \in Point /\ db[s] \in SUBSET Point
        <3>1. new.at = b /\ new.of = folded(batch)[s]
            BY DEF newPoint
        <3>2. folded(batch)[s] \in (SUBSET Nat) \ {{}}
            BY <1>3, FoldFacts DEF HistoryInv
        <3>3. new \in Point
            BY <3>2 DEF newPoint, Point
        <3> QED
            BY <3>1, <3>3 DEF HistoryInv, TypeOK
    <2>3. b < KeySpan
        BY StoreAssumption DEF Flushes, ClockInSpan, HistoryInv, TypeOK
    <2> HIDE DEF new
    <2>4. put \in SUBSET Point /\ \A p \in put : p.at < KeySpan
        BY <2>2, <2>3 DEF ClockInSpan
    <2>5. prunable(put, b) = {p \in put : aged(p, b)}
        BY <2>3, <2>4, PruneIsAge DEF aged
    <2>6. ~aged(new, b)
        BY <2>2, RetentionIsConfigured DEF aged
    <2> QED
        BY <2>1, <2>5, <2>6 DEF new
<1> QED
    BY <1>2, <1>3


(* The clock stays within its span, and the keys with it.                  *)
LEMMA ClockStep == HistoryInv /\ ClockInSpan /\ ClockFits /\ [Next]_vars => ClockInSpan'
<1> SUFFICES ASSUME HistoryInv, ClockInSpan, ClockFits, [Next]_vars PROVE ClockInSpan'
    OBVIOUS
<1>1. ASSUME NEW batch \in SUBSET Series, Records(batch), Keeps(batch) PROVE ClockInSpan'
    BY <1>1 DEF Keeps, Records, ClockInSpan
<1>2. ASSUME NEW batch \in SUBSET Series, NEW b \in Nat, Records(batch), Flushes(batch, b)
      PROVE  ClockInSpan'
    <2>1. now' = now /\ b <= now /\ now \in Nat
        BY <1>2 DEF Records, Flushes, HistoryInv, TypeOK
    <2>2. ASSUME NEW s \in Series, NEW p \in db'[s] PROVE p.at < KeySpan
        BY <1>2, <2>1, AfterFlush, StoreAssumption DEF ClockInSpan
    <2> QED
        BY <2>1, <2>2 DEF ClockInSpan
<1>3. CASE Crash
    BY <1>3 DEF Crash, ClockInSpan
<1>4. CASE AdvanceClock \/ StepClockBack
    BY <1>4, StoreAssumption DEF HistoryInv, TypeOK, ClockFits, ClockInSpan, AdvanceClock, StepClockBack
<1>5. CASE UNCHANGED vars
    BY <1>5 DEF HistoryInv, vars, ClockInSpan
<1> QED
    BY <1>1, <1>2, <1>3, <1>4, <1>5, IngestShape DEF Next, HistoryInv

(* A flush leaves nothing older than the retention next to its point.      *)
LEMMA SpanStep == HistoryInv /\ ClockInSpan /\ RetentionFits /\ SpanWithinRetention /\ [Next]_vars => SpanWithinRetention'
<1> SUFFICES ASSUME HistoryInv, ClockInSpan, RetentionFits, SpanWithinRetention, [Next]_vars PROVE SpanWithinRetention'
    OBVIOUS
<1>1. ASSUME NEW batch \in SUBSET Series, Records(batch), Keeps(batch) PROVE SpanWithinRetention'
    BY <1>1, KeysBehindBoundary DEF HistoryInv, SpanWithinRetention, Keeps
<1>2. ASSUME NEW batch \in SUBSET Series, NEW b \in Nat, Records(batch), Flushes(batch, b)
      PROVE  SpanWithinRetention'
    <2> SUFFICES ASSUME ~rewound', NEW s \in Series, NEW p \in db'[s], NEW q \in db'[s]
                 PROVE  p.at - q.at <= RetentionDays * Day
        BY DEF SpanWithinRetention
    <2>1. ~rewound /\ \A r \in db[s] : r.at \in Nat /\ r.at < b
        BY <1>2, KeysBehindBoundary, BoundaryFacts DEF Flushes, HistoryInv
    <2>2. CASE folded(batch)[s] = {}
        BY <1>2, <2>1, <2>2, FlushIsExact DEF SpanWithinRetention
    <2>3. CASE folded(batch)[s] # {}
        <3>1. RetentionDays * Day \in Nat
            BY RetentionIsConfigured
        <3>2. newPoint(batch, s, b).at = b
            BY DEF newPoint
        <3>3. ASSUME NEW r \in db'[s]
              PROVE  r.at \in Nat /\ r.at <= b /\ b <= r.at + RetentionDays * Day
            <4>1. CASE r = newPoint(batch, s, b)
                BY <3>1, <3>2, <4>1
            <4>2. CASE r \in db[s] /\ ~aged(r, b)
                BY <2>1, <3>1, <4>2 DEF aged
            <4> QED
                BY <1>2, <2>3, <4>1, <4>2, FlushIsExact
        <3> QED
            BY <3>1, <3>3
    <2> QED
        BY <2>2, <2>3
<1>3. CASE Crash
    BY <1>3 DEF SpanWithinRetention, Crash
<1>4. CASE AdvanceClock \/ StepClockBack
    BY <1>4 DEF SpanWithinRetention, AdvanceClock, StepClockBack
<1>5. CASE UNCHANGED vars
    BY <1>5 DEF HistoryInv, vars, SpanWithinRetention
<1> QED
    BY <1>1, <1>2, <1>3, <1>4, <1>5, IngestShape DEF Next, HistoryInv
(* A point that goes away has aged out.                                    *)
LEMMA PruneStep ==
    HistoryInv /\ ClockInSpan /\ RetentionFits /\ [Next]_vars
        => [\A s \in Series : \A p \in db[s] :
               (\A q \in db'[s] : q.at # p.at) => p.at + RetentionDays * Day < now]_vars
<1> SUFFICES ASSUME HistoryInv, ClockInSpan, RetentionFits, Next,
                    NEW s \in Series, NEW p \in db[s], \A q \in db'[s] : q.at # p.at
             PROVE  p.at + RetentionDays * Day < now
    OBVIOUS
<1>1. CASE db' = db
    BY <1>1
<1>2. ASSUME NEW batch \in SUBSET Series, NEW b \in Nat, Flushes(batch, b)
      PROVE  p.at + RetentionDays * Day < now
    <2>1. db'[s] # db[s]
        OBVIOUS
    <2>2. db'[s] = {r \in db[s] : r.at # b /\ ~aged(r, b)} \cup {newPoint(batch, s, b)}
        BY <1>2, <2>1, FlushIsExact
    <2>3. newPoint(batch, s, b).at = b
        BY DEF newPoint
    <2>4. aged(p, b)
        BY <2>2, <2>3
    <2>5. b <= now /\ now \in Nat /\ p.at \in Nat /\ RetentionDays * Day \in Nat
        BY <1>2, RetentionIsConfigured DEF Flushes, HistoryInv, TypeOK, Point
    <2> QED
        BY <2>4, <2>5 DEF aged
<1>3. CASE Crash \/ AdvanceClock \/ StepClockBack
    BY <1>1, <1>3 DEF Crash, AdvanceClock, StepClockBack
<1>4. ASSUME NEW batch \in SUBSET Series, Keeps(batch)
      PROVE  db' = db
    BY <1>4 DEF Keeps
<1> QED
    BY <1>1, <1>2, <1>3, <1>4, IngestShape DEF Next, HistoryInv

(* The point a flush writes is there after it, with all that was waiting.  *)
LEMMA SurvivesStep ==
    HistoryInv /\ ClockInSpan /\ RetentionFits /\ [Next]_vars
        => [\A s \in Series : acc[s] # {} /\ acc'[s] = {} /\ crashes' = crashes
               => \E p \in db'[s] : acc[s] \subseteq p.of]_vars
<1> SUFFICES ASSUME HistoryInv, ClockInSpan, RetentionFits, Next,
                    NEW s \in Series, acc[s] # {}, acc'[s] = {}, crashes' = crashes
             PROVE  \E p \in db'[s] : acc[s] \subseteq p.of
    OBVIOUS
<1>1. ASSUME NEW batch \in SUBSET Series, Keeps(batch) PROVE FALSE
    BY <1>1, FoldFacts DEF Keeps, HistoryInv
<1>2. ASSUME NEW batch \in SUBSET Series, NEW b \in Nat, Flushes(batch, b)
      PROVE  \E p \in db'[s] : acc[s] \subseteq p.of
    <2>1. acc[s] \subseteq folded(batch)[s]
        BY FoldFacts DEF HistoryInv
    <2>2. newPoint(batch, s, b) \in db'[s] /\ newPoint(batch, s, b).of = folded(batch)[s]
        BY <1>2, <2>1, FlushIsExact DEF newPoint
    <2> QED
        BY <2>1, <2>2
<1>3. CASE Crash
    BY <1>3 DEF Crash, HistoryInv, TypeOK
<1>4. CASE AdvanceClock \/ StepClockBack
    BY <1>4 DEF AdvanceClock, StepClockBack
<1> QED
    BY <1>1, <1>2, <1>3, <1>4, IngestShape DEF Next, HistoryInv

(* While no integer wraps, a flush deletes only points older than the      *)
(* configured retention, never the one it has just written, and leaves     *)
(* nothing older in a series it writes to.                                 *)
THEOREM RetentionIsAlwaysExact ==
    ASSUME RetentionFits, ClockFits
    PROVE  Spec => RetentionIsExact
<1>1. Init => ClockInSpan /\ SpanWithinRetention
    BY DEF Init, noAcc, ClockFits, ClockInSpan, SpanWithinRetention
<1>2. HistoryInv /\ ClockInSpan /\ [Next]_vars => ClockInSpan'
    BY ClockStep
<1>3. HistoryInv /\ ClockInSpan /\ SpanWithinRetention /\ [Next]_vars => SpanWithinRetention'
    BY SpanStep
<1>4. Spec => [](HistoryInv /\ ClockInSpan /\ SpanWithinRetention)
    BY <1>1, <1>2, <1>3, HistoryInvHolds, PTL DEF Spec
<1>5. Spec => PruneOnlyExpired
    <2>1. HistoryInv /\ ClockInSpan /\ [Next]_vars
            => [\A s \in Series : \A p \in db[s] :
                   (\A q \in db'[s] : q.at # p.at) => p.at + RetentionDays * Day < now]_vars
        BY PruneStep
    <2> QED
        BY <1>4, <2>1, PTL DEF Spec, PruneOnlyExpired
<1>6. Spec => FlushedPointSurvives
    <2>1. HistoryInv /\ ClockInSpan /\ [Next]_vars
            => [\A s \in Series : acc[s] # {} /\ acc'[s] = {} /\ crashes' = crashes
                   => \E p \in db'[s] : acc[s] \subseteq p.of]_vars
        BY SurvivesStep
    <2> QED
        BY <1>4, <2>1, PTL DEF Spec, FlushedPointSurvives
<1> QED
    BY <1>4, <1>5, <1>6, PTL DEF RetentionIsExact
-----------------------------------------------------------------------------
(***************************************************************************)
(* Accounting, sample by sample.                                           *)
(***************************************************************************)
holds(s, x) == \E p \in db[s] : x \in p.of

accounted(s, x) ==
    /\ <<s, x>> \in fed <=> x \in acc[s] \/ holds(s, x) \/ <<s, x>> \in expired \/ <<s, x>> \in lost
    /\ ~(x \in acc[s] /\ holds(s, x))
    /\ ~((x \in acc[s] \/ holds(s, x)) /\ (<<s, x>> \in expired \/ <<s, x>> \in lost))

AllAccounted == ~rewound => \A s \in Series : \A x \in Nat : accounted(s, x)

(* Ingest accepts samples under the number of their call.                  *)
FedAreTaken == \A s \in Series : \A x \in Nat : <<s, x>> \in fed => x <= Len(taken)

(* The pairwise form is the property.                                      *)
LEMMA AccountedPairwise == TypeOK /\ AllAccounted => EverySampleAccountedFor
<1> SUFFICES ASSUME TypeOK, AllAccounted, ~rewound
             PROVE  /\ fed = pairsOf(acc) \cup pairsOf(stored(db)) \cup expired \cup lost
                    /\ pairsOf(acc) \cap pairsOf(stored(db)) = {}
                    /\ (pairsOf(acc) \cup pairsOf(stored(db))) \cap (expired \cup lost) = {}
    BY DEF EverySampleAccountedFor
<1>1. /\ \A s \in Series : \A x \in Nat : x \in stored(db)[s] <=> holds(s, x)
      /\ \A s \in Series : stored(db)[s] \subseteq Nat /\ acc[s] \subseteq Nat
    <2>1. \A s \in Series : stored(db)[s] = UNION {p.of : p \in db[s]}
        BY DEF stored
    <2>2. \A s \in Series : \A p \in db[s] : p.of \subseteq Nat
        BY DEF TypeOK, Point
    <2> QED
        BY <2>1, <2>2 DEF TypeOK, holds
<1>2. pairsOf(acc) \subseteq Series \X Nat /\ pairsOf(stored(db)) \subseteq Series \X Nat
    BY <1>1, PairsType
<1>3. ASSUME NEW s \in Series, NEW x \in Nat
      PROVE  /\ <<s, x>> \in pairsOf(acc) <=> x \in acc[s]
             /\ <<s, x>> \in pairsOf(stored(db)) <=> holds(s, x)
    BY <1>1, PairsOf
<1>4. \A s \in Series : \A x \in Nat : accounted(s, x)
    BY DEF AllAccounted
<1>5. \A z : z \in Series \X Nat <=> \E s \in Series : \E x \in Nat : z = <<s, x>>
    OBVIOUS
<1>6. ASSUME NEW s \in Series, NEW x \in Nat
      PROVE  /\ <<s, x>> \in fed
                   <=> <<s, x>> \in pairsOf(acc) \cup pairsOf(stored(db)) \cup expired \cup lost
             /\ <<s, x>> \notin pairsOf(acc) \cap pairsOf(stored(db))
             /\ <<s, x>> \notin (pairsOf(acc) \cup pairsOf(stored(db))) \cap (expired \cup lost)
    BY <1>3, <1>4 DEF accounted
<1>7. fed \subseteq Series \X Nat /\ expired \subseteq Series \X Nat /\ lost \subseteq Series \X Nat
    BY DEF TypeOK
<1> QED
    BY <1>2, <1>5, <1>6, <1>7

(* A sample is accepted once, under a number that grows.                   *)
LEMMA FedStep == HistoryInv /\ FedAreTaken /\ [Next]_vars => FedAreTaken'
<1> SUFFICES ASSUME HistoryInv, FedAreTaken, [Next]_vars PROVE FedAreTaken'
    OBVIOUS
<1>1. ASSUME NEW batch \in SUBSET Series, Records(batch), Keeps(batch) PROVE FedAreTaken'
    BY <1>1, TakenFacts DEF HistoryInv, FedAreTaken, Records
<1>2. ASSUME NEW batch \in SUBSET Series, NEW b \in Nat, Records(batch), Flushes(batch, b)
      PROVE  FedAreTaken'
    BY <1>2, TakenFacts DEF HistoryInv, FedAreTaken, Records
<1>3. CASE Crash
    BY <1>3 DEF FedAreTaken, Crash
<1>4. CASE AdvanceClock \/ StepClockBack
    BY <1>4 DEF FedAreTaken, AdvanceClock, StepClockBack
<1>5. CASE UNCHANGED vars
    BY <1>5 DEF HistoryInv, vars, FedAreTaken
<1> QED
    BY <1>1, <1>2, <1>3, <1>4, <1>5, IngestShape DEF Next, HistoryInv

(* What an Ingest call accepts.                                            *)
LEMMA RecordedFacts ==
    ASSUME HistoryInv, NEW batch \in SUBSET Series, Records(batch), NEW s \in Series, NEW x \in Nat
    PROVE  LET new == x = Len(taken) + 1 /\ s \in batch \cap Allowed
           IN  /\ <<s, x>> \in fed' <=> <<s, x>> \in fed \/ new
               /\ x \in folded(batch)[s] <=> x \in acc[s] \/ new
               /\ lost' = lost
<1>1. <<s, x>> \in fed' <=> <<s, x>> \in fed \/ (x = Len(taken) + 1 /\ s \in batch \cap Allowed)
    BY DEF Records
<1>2. x \in folded(batch)[s] <=> x \in acc[s] \/ (x = Len(taken) + 1 /\ s \in batch \cap Allowed)
    BY DEF folded, fold
<1> QED
    BY <1>1, <1>2 DEF Records

(* What a flush moves to the store and out of it, unless the process has   *)
(* started with the clock behind its points.                               *)
LEMMA FlushMoves ==
    ASSUME HistoryInv, ClockInSpan, RetentionFits, ~rewound',
           NEW batch \in SUBSET Series, NEW b \in Nat, Records(batch), Flushes(batch, b),
           NEW s \in Series, NEW x \in Nat
    PROVE  LET written == folded(batch)[s] # {}
               out == written /\ \E p \in db[s] : x \in p.of /\ aged(p, b)
           IN  /\ acc'[s] = {}
               /\ holds(s, x)' <=> x \in folded(batch)[s] \/ (holds(s, x) /\ ~out)
               /\ <<s, x>> \in expired' <=> <<s, x>> \in expired \/ out
<1> DEFINE written == folded(batch)[s] # {}
           out == written /\ \E p \in db[s] : x \in p.of /\ aged(p, b)
<1>1. acc'[s] = {}
    BY DEF Flushes, noAcc
<1>2. <<s, x>> \in expired' <=> <<s, x>> \in expired \/ out
    <2> DEFINE gone == [t \in Series |->
                         IF folded(batch)[t] = {} THEN {} ELSE UNION {p.of : p \in agedOut(t, b)}]
    <2>1. expired' = expired \cup pairsOf(gone)
        BY DEF Flushes
    <2>2. x \in gone[s] <=> out
        BY DEF agedOut, aged
    <2> HIDE DEF gone, out
    <2>3. <<s, x>> \in pairsOf(gone) <=> x \in gone[s]
        BY PairsOf
    <2> QED
        BY <2>1, <2>2, <2>3
<1>3. ~rewound /\ \A p \in db[s] : p.at < b /\ p.at # b
    BY KeysBehindBoundary, BoundaryFacts DEF Flushes, HistoryInv
<1>4. CASE ~written
    <2>1. db'[s] = db[s]
        BY <1>4, FlushIsExact
    <2> QED
        BY <1>1, <1>2, <1>4, <2>1 DEF holds
<1>5. CASE written
    <2>1. db'[s] = {p \in db[s] : ~aged(p, b)} \cup {newPoint(batch, s, b)}
        BY <1>3, <1>5, FlushIsExact
    <2>2. newPoint(batch, s, b).of = folded(batch)[s]
        BY DEF newPoint
    <2>3. ASSUME NEW p \in db[s], NEW q \in db[s], x \in p.of, x \in q.of PROVE p = q
        <3>1. p.at \in Nat /\ q.at \in Nat
            BY DEF HistoryInv, TypeOK, Point
        <3>2. ~(p.at < q.at) /\ ~(q.at < p.at)
            BY <1>3, <2>3 DEF HistoryInv, PointsInOrder
        <3> QED
            BY <3>1, <3>2 DEF HistoryInv, OneValuePerKey
    <2>4. holds(s, x)' <=> x \in folded(batch)[s] \/ \E p \in db[s] : x \in p.of /\ ~aged(p, b)
        BY <2>1, <2>2 DEF holds
    <2>5. (\E p \in db[s] : x \in p.of /\ ~aged(p, b))
             <=> holds(s, x) /\ ~(\E p \in db[s] : x \in p.of /\ aged(p, b))
        BY <2>3 DEF holds
    <2> QED
        BY <1>1, <1>2, <1>5, <2>4, <2>5
<1> QED
    BY <1>4, <1>5

(* Every step moves samples, and loses or copies none.                     *)
LEMMA AccountStep == HistoryInv /\ ClockInSpan /\ RetentionFits /\ FedAreTaken /\ AllAccounted /\ [Next]_vars => AllAccounted'
<1> SUFFICES ASSUME HistoryInv, ClockInSpan, RetentionFits, FedAreTaken, AllAccounted, [Next]_vars
             PROVE  AllAccounted'
    OBVIOUS
<1>1. ASSUME NEW batch \in SUBSET Series, Records(batch), Keeps(batch) PROVE AllAccounted'
    <2> SUFFICES ASSUME ~rewound', NEW s \in Series, NEW x \in Nat PROVE accounted(s, x)'
        BY DEF AllAccounted
    <2>1. accounted(s, x)
        BY <1>1 DEF AllAccounted, Records
    <2>2. x = Len(taken) + 1 => <<s, x>> \notin fed
        BY <1>1, TakenFacts DEF FedAreTaken, HistoryInv
    <2>3. holds(s, x)' = holds(s, x) /\ acc'[s] = folded(batch)[s] /\ expired' = expired
        BY <1>1 DEF Keeps, holds
    <2> QED
        BY <1>1, <2>1, <2>2, <2>3, RecordedFacts DEF accounted
<1>2. ASSUME NEW batch \in SUBSET Series, NEW b \in Nat, Records(batch), Flushes(batch, b)
      PROVE  AllAccounted'
    <2> SUFFICES ASSUME ~rewound', NEW s \in Series, NEW x \in Nat PROVE accounted(s, x)'
        BY DEF AllAccounted
    <2> DEFINE out == folded(batch)[s] # {} /\ \E p \in db[s] : x \in p.of /\ aged(p, b)
               new == x = Len(taken) + 1 /\ s \in batch \cap Allowed
    <2>1. accounted(s, x)
        BY <1>2 DEF AllAccounted, Records
    <2>2. new => <<s, x>> \notin fed
        BY <1>2, TakenFacts DEF FedAreTaken, HistoryInv
    <2>3. out => holds(s, x)
        BY DEF holds
    <2>4. /\ acc'[s] = {}
          /\ holds(s, x)' <=> x \in folded(batch)[s] \/ (holds(s, x) /\ ~out)
          /\ <<s, x>> \in expired' <=> <<s, x>> \in expired \/ out
        BY <1>2, FlushMoves
    <2>5. /\ <<s, x>> \in fed' <=> <<s, x>> \in fed \/ new
          /\ x \in folded(batch)[s] <=> x \in acc[s] \/ new
          /\ lost' = lost
        BY <1>2, RecordedFacts
    <2> HIDE DEF out, new
    <2> QED
        BY <2>1, <2>2, <2>3, <2>4, <2>5 DEF accounted
<1>3. CASE Crash
    <2> SUFFICES ASSUME ~rewound', NEW s \in Series, NEW x \in Nat PROVE accounted(s, x)'
        BY DEF AllAccounted
    <2>1. accounted(s, x)
        BY <1>3 DEF AllAccounted, Crash
    <2>2. acc'[s] = {} /\ (<<s, x>> \in lost' <=> <<s, x>> \in lost \/ x \in acc[s])
        BY <1>3, PairsOf DEF Crash, noAcc
    <2>3. holds(s, x)' = holds(s, x) /\ fed' = fed /\ expired' = expired
        BY <1>3 DEF Crash, holds
    <2> QED
        BY <2>1, <2>2, <2>3 DEF accounted
<1>4. CASE AdvanceClock \/ StepClockBack
    BY <1>4 DEF AllAccounted, accounted, holds, AdvanceClock, StepClockBack
<1>5. CASE UNCHANGED vars
    BY <1>5 DEF HistoryInv, vars, AllAccounted, accounted, holds
<1> QED
    BY <1>1, <1>2, <1>3, <1>4, <1>5, IngestShape DEF Next, HistoryInv

(* While no integer wraps, every sample Ingest accepted is in exactly one  *)
(* place: in memory, in one stored point, aged out by the configured       *)
(* retention, or lost in a crash; through failed transactions, gaps of     *)
(* several windows, restarts and a clock that steps back.                  *)
THEOREM SamplesAreAccountedFor ==
    ASSUME RetentionFits, ClockFits
    PROVE  Spec => []EverySampleAccountedFor
<1>1. Init => ClockInSpan /\ FedAreTaken /\ AllAccounted
    BY DEF Init, noAcc, ClockFits, ClockInSpan, FedAreTaken, AllAccounted, accounted, holds
<1>2. HistoryInv /\ ClockInSpan /\ FedAreTaken /\ AllAccounted /\ [Next]_vars
        => ClockInSpan' /\ FedAreTaken' /\ AllAccounted'
    BY ClockStep, FedStep, AccountStep
<1>3. HistoryInv /\ AllAccounted => EverySampleAccountedFor
    BY AccountedPairwise DEF HistoryInv
<1> QED
    BY <1>1, <1>2, <1>3, HistoryInvHolds, PTL DEF Spec

=============================================================================
