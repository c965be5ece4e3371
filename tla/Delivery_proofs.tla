-------------------------- MODULE Delivery_proofs ---------------------------
(***************************************************************************)
(* Proofs about Delivery, for any number of goroutines, events, sinks and  *)
(* attempts: the type invariant, that a nil error is a receipt, how much   *)
(* is done after a cancellation, and how often a receiver gets an event.   *)
(***************************************************************************)
EXTENDS Delivery, FiniteSetTheorems, TLAPS

(* What is true of one frame c while the sink's receiver got log r.        *)
Progress(c, r) ==
    /\ c.pc \in {"delay", "sleep"} => c.at = 1
    /\ c.pc = "emit" => \A i \in 1..(c.at - 1) : c.batch[i] \in Elems(r)
    /\ c.pc = "ok" => Elems(c.batch) \subseteq Elems(r)

(* The inductive invariant: posts that were answered 2xx in this attempt   *)
(* are exactly the events before "at", and a call is never idle in a sink. *)
DeliveryInv == /\ TypeOK
               /\ \A p \in Procs : call[p].pc # "idle" =>
                      /\ call[p] \in Frame
                      /\ Progress(call[p], received[call[p].sink])

Busy(c) == c.attempt < MaxAttempts /\ c.at \in 1..Len(c.batch)

(* A batch is a non-empty sequence of events.                              *)
LEMMA BatchIsSeq == \A b \in Batches : /\ b \in Seq(Events)
                                       /\ Len(b) \in Nat \ {0}
                                       /\ DOMAIN b = 1..Len(b)
                                       /\ \A i \in 1..Len(b) : b[i] \in Events
<1> SUFFICES ASSUME NEW n \in 1..MaxBatch, NEW b \in [1..n -> Events]
             PROVE  /\ b \in Seq(Events)
                    /\ Len(b) \in Nat \ {0}
                    /\ DOMAIN b = 1..Len(b)
                    /\ \A i \in 1..Len(b) : b[i] \in Events
    BY DEF Batches
<1>1. n \in Nat \ {0}
    BY DeliveryAssumption
<1>2. b \in Seq(Events) /\ Len(b) = n
    BY <1>1
<1> QED BY <1>1, <1>2

(* The record Call starts with.                                            *)
LEMMA EnterType ==
    ASSUME NEW s \in Sinks, NEW b \in Batches
    PROVE  /\ enter(s, b) \in Frame
           /\ enter(s, b).pc \in {"loop", "failed"}
           /\ active(enter(s, b)) => Busy(enter(s, b))
<1>1. Len(b) \in Nat \ {0}
    BY BatchIsSeq
<1> QED BY <1>1, DeliveryAssumption DEF enter, Frame, Pcs, active, Busy

(* The head of the loop keeps the frame's sink and batch.                  *)
LEMMA HeadType ==
    ASSUME ctxDone \in BOOLEAN, NEW c \in Frame, Busy(c)
    PROVE  /\ head(c) \in Frame
           /\ head(c).sink = c.sink /\ head(c).batch = c.batch
           /\ head(c).at = 1 /\ head(c).attempt = c.attempt
           /\ head(c).pc \in {"failed", "delay", "emit"}
           /\ ctxDone => head(c).pc = "failed"
<1> DEFINE pc == IF ctxDone THEN "failed" ELSE IF c.attempt > 0 THEN "delay" ELSE "emit"
<1>1. pc \in {"failed", "delay", "emit"} /\ (ctxDone => pc = "failed")
    OBVIOUS
<1>2. head(c) = [c EXCEPT !.pc = pc, !.at = 1]
    BY DEF head
<1> HIDE DEF pc
<1>3. pc \in Pcs /\ 1 \in Nat
    BY <1>1 DEF Pcs
<1>4. /\ head(c) \in Frame /\ head(c).pc = pc
      /\ head(c).sink = c.sink /\ head(c).batch = c.batch
      /\ head(c).at = 1 /\ head(c).attempt = c.attempt
    BY <1>2, <1>3 DEF Frame
<1> QED BY <1>1, <1>4

(* An accepted post moves to the next event or returns nil.                *)
LEMMA AcceptedType ==
    ASSUME NEW c \in Frame, c.pc = "emit", Busy(c)
    PROVE  /\ accepted(c) \in Frame
           /\ accepted(c).sink = c.sink /\ accepted(c).batch = c.batch
           /\ accepted(c).attempt = c.attempt
           /\ \/ accepted(c).pc = "ok" /\ accepted(c).at = c.at /\ c.at = Len(c.batch)
              \/ accepted(c).pc = "emit" /\ accepted(c).at = c.at + 1 /\ c.at # Len(c.batch)
<1>1. CASE c.at = Len(c.batch)
    BY <1>1 DEF accepted, Frame, Pcs
<1>2. CASE c.at # Len(c.batch)
  <2> DEFINE n == c.at + 1
  <2>1. n \in Nat
      BY DEF Frame
  <2>2. accepted(c) = [c EXCEPT !.at = n]
      BY <1>2 DEF accepted
  <2>3. n = c.at + 1
      OBVIOUS
  <2> HIDE DEF n
  <2> QED BY <1>2, <2>1, <2>2, <2>3 DEF Frame, Pcs
<1> QED BY <1>1, <1>2

(* A refused post ends the attempt.                                        *)
LEMMA RefusedType ==
    ASSUME NEW c \in Frame, c.pc = "emit", Busy(c)
    PROVE  /\ refused(c) \in Frame
           /\ refused(c).sink = c.sink /\ refused(c).batch = c.batch
           /\ refused(c).at = c.at /\ refused(c).attempt = c.attempt + 1
           /\ refused(c).pc \in {"failed", "loop"}
           /\ refused(c).pc = "loop" => refused(c).attempt < MaxAttempts
<1> DEFINE n == c.attempt + 1
           pc == IF n = MaxAttempts THEN "failed" ELSE "loop"
<1>1. n \in Nat /\ n <= MaxAttempts
    BY DeliveryAssumption DEF Frame, Busy
<1>2. pc \in {"failed", "loop"} /\ (pc = "loop" => n < MaxAttempts)
    BY <1>1, DeliveryAssumption
<1>3. refused(c) = [c EXCEPT !.attempt = n, !.pc = pc]
    BY DEF refused
<1>4. n = c.attempt + 1
    OBVIOUS
<1> HIDE DEF pc, n
<1> QED BY <1>1, <1>2, <1>3, <1>4 DEF Frame, Pcs

(* One more sleep or post is counted.                                      *)
LEMMA OneMore ==
    ASSUME NEW l \in [sleeps : Nat, posts : Nat]
    PROVE  /\ [l EXCEPT !.sleeps = @ + 1] \in [sleeps : Nat, posts : Nat]
           /\ [l EXCEPT !.posts = @ + 1] \in [sleeps : Nat, posts : Nat]
<1> DEFINE m == l.sleeps + 1
           n == l.posts + 1
<1>1. m \in Nat /\ n \in Nat
    OBVIOUS
<1> HIDE DEF m, n
<1>2. [l EXCEPT !.sleeps = m] \in [sleeps : Nat, posts : Nat]
    BY <1>1
<1>3. [l EXCEPT !.posts = n] \in [sleeps : Nat, posts : Nat]
    BY <1>1
<1> QED BY <1>2, <1>3 DEF m, n

(* What an append adds to a log.                                           *)
LEMMA AppendElems ==
    ASSUME NEW r \in Seq(Events), NEW e \in Events
    PROVE  Elems(r) \cup {e} \subseteq Elems(Append(r, e))
<1>1. Elems(r) \subseteq Elems(Append(r, e))
    BY DEF Elems
<1>2. /\ Len(r) + 1 \in DOMAIN Append(r, e)
      /\ Append(r, e)[Len(r) + 1] = e
    OBVIOUS
<1>3. e \in Elems(Append(r, e))
    BY <1>2 DEF Elems
<1> QED BY <1>1, <1>3

(* Receipts are never taken back: a longer log keeps a frame's progress.   *)
LEMMA ProgressMonotone ==
    ASSUME NEW c, NEW r \in Seq(Events), NEW e \in Events, Progress(c, r)
    PROVE  Progress(c, Append(r, e))
<1>1. Elems(r) \subseteq Elems(Append(r, e))
    BY AppendElems
<1> QED BY <1>1 DEF Progress

(* DeliveryInv is inductive: one step per action, and in each the frame of *)
(* the goroutine that moves and the frames of the others.                  *)
LEMMA DeliveryInvInductive == DeliveryInv /\ [Next]_deliveryVars => DeliveryInv'
<1> SUFFICES ASSUME DeliveryInv, [Next]_deliveryVars
             PROVE  DeliveryInv'
    OBVIOUS
<1> USE DEF DeliveryInv
<1>0. /\ TypeOK
      /\ call \in [Procs -> Frame \cup {noFrame}]
      /\ received \in [Sinks -> Seq(Events)]
      /\ ctxDone \in BOOLEAN
      /\ asked \in [Sinks -> SUBSET Events]
      /\ lost \in 0..MaxLost
      /\ late \in [Procs -> [sleeps : Nat, posts : Nat]]
    BY DEF TypeOK
<1>a. ASSUME NEW p \in Procs, active(call[p])
      PROVE  call[p] \in Frame /\ Busy(call[p]) /\ call[p].sink \in Sinks
    BY <1>a DEF TypeOK, active, Busy, Frame
<1>1. ASSUME NEW p \in Procs, NEW c \in Frame, c.pc # "idle",
             call' = [call EXCEPT ![p] = c],
             received' \in [Sinks -> Seq(Events)],
             asked' \in [Sinks -> SUBSET Events], ctxDone' \in BOOLEAN,
             lost' \in 0..MaxLost, late' \in [Procs -> [sleeps : Nat, posts : Nat]],
             active(c) => Busy(c), Progress(c, received'[c.sink]),
             \A q \in Procs : call[q].pc # "idle" =>
                 Progress(call[q], received'[call[q].sink])
      PROVE  DeliveryInv'
  <2>1. call' \in [Procs -> Frame \cup {noFrame}]
      BY <1>0, <1>1
  <2>2. \A q \in Procs : call'[q] = IF q = p THEN c ELSE call[q]
      BY <1>0, <1>1
  <2>3. TypeOK'
      BY <2>1, <2>2, <1>0, <1>1 DEF TypeOK, Busy, active
  <2>4. ASSUME NEW q \in Procs, call'[q].pc # "idle"
        PROVE  call'[q] \in Frame /\ Progress(call'[q], received'[call'[q].sink])
    <3>1. CASE q = p
        BY <3>1, <2>2, <1>1
    <3>2. CASE q # p
        BY <3>2, <2>2, <2>4, <1>1
    <3> QED BY <3>1, <3>2
  <2> QED BY <2>3, <2>4 DEF Progress, Elems
<1>2. ASSUME NEW p \in Procs, CheckContext(p)
      PROVE  DeliveryInv'
  <2> DEFINE c == head(call[p])
  <2>1. call[p] \in Frame /\ Busy(call[p])
      BY <1>2, <1>a DEF CheckContext, active
  <2>2. /\ c \in Frame /\ c.pc \in {"failed", "delay", "emit"}
        /\ c.at = 1 /\ c.attempt = call[p].attempt /\ c.batch = call[p].batch
        /\ call' = [call EXCEPT ![p] = c] /\ UNCHANGED <<received, asked, lost, ctxDone, late>>
      BY <2>1, HeadType, <1>0, <1>2 DEF CheckContext
  <2> HIDE DEF c
  <2>3. Progress(c, received'[c.sink]) /\ c.pc # "idle"
      BY <2>2 DEF Progress
  <2>4. Busy(c)
      BY <2>1, <2>2 DEF Busy
  <2> QED BY <2>2, <2>3, <2>4, <1>1, <1>0
<1>3. ASSUME NEW p \in Procs, Wake(p)
      PROVE  DeliveryInv'
  <2> DEFINE c == [call[p] EXCEPT !.pc = "emit"]
  <2>1. call[p] \in Frame /\ Busy(call[p]) /\ call[p].pc = "sleep"
      BY <1>3, <1>a DEF Wake, active
  <2>2. /\ c \in Frame /\ c.pc = "emit" /\ c.at = call[p].at
        /\ c.attempt = call[p].attempt /\ c.batch = call[p].batch
      BY <2>1 DEF Frame, Pcs
  <2>3. call' = [call EXCEPT ![p] = c] /\ UNCHANGED <<received, asked, lost, ctxDone, late>>
      BY <1>3 DEF Wake
  <2>4. c.at = 1
      BY <2>1, <2>2 DEF Progress
  <2> HIDE DEF c
  <2>5. Progress(c, received'[c.sink]) /\ c.pc # "idle" /\ Busy(c)
      BY <2>1, <2>2, <2>4 DEF Progress, Busy
  <2> QED BY <2>2, <2>3, <2>5, <1>1, <1>0
<1>4. ASSUME NEW p \in Procs, call[p].pc = "emit",
             received' = [received EXCEPT ![call[p].sink] = Append(@, posting(p))],
             NEW c \in Frame, c.sink = call[p].sink, c.pc # "idle",
             call' = [call EXCEPT ![p] = c], UNCHANGED <<asked, ctxDone, late>>, lost' \in 0..MaxLost,
             active(c) => Busy(c), Progress(c, received'[c.sink])
      PROVE  DeliveryInv'
  <2>1. call[p] \in Frame /\ Busy(call[p]) /\ call[p].sink \in Sinks
      BY <1>4, <1>a DEF active
  <2>2. posting(p) \in Events
      BY <2>1, BatchIsSeq DEF posting, Busy, Frame
  <2>3. received' \in [Sinks -> Seq(Events)]
      BY <2>1, <2>2, <1>0, <1>4
  <2>4. ASSUME NEW q \in Procs, call[q].pc # "idle"
        PROVE  Progress(call[q], received'[call[q].sink])
    <3>1. call[q].sink \in Sinks
        BY <2>4 DEF Frame
    <3>2. CASE call[q].sink = call[p].sink
        BY <3>1, <3>2, <2>2, <2>4, <1>0, <1>4, ProgressMonotone
    <3>3. CASE call[q].sink # call[p].sink
        BY <3>1, <3>3, <2>4, <1>0, <1>4
    <3> QED BY <3>2, <3>3
  <2> QED BY <2>3, <2>4, <1>0, <1>4, <1>1
<1>5. ASSUME NEW p \in Procs, PostAccepted(p)
      PROVE  DeliveryInv'
  <2> DEFINE c == accepted(call[p])
             s == call[p].sink
  <2>1. call[p] \in Frame /\ Busy(call[p]) /\ s \in Sinks /\ call[p].pc = "emit"
      BY <1>5, <1>a DEF PostAccepted, active
  <2>2. /\ c \in Frame /\ c.sink = s /\ c.batch = call[p].batch
        /\ c.attempt = call[p].attempt
        /\ \/ c.pc = "ok" /\ c.at = call[p].at /\ call[p].at = Len(call[p].batch)
           \/ c.pc = "emit" /\ c.at = call[p].at + 1 /\ call[p].at # Len(call[p].batch)
        /\ call' = [call EXCEPT ![p] = c]
      BY <2>1, AcceptedType, <1>5 DEF PostAccepted
  <2> HIDE DEF c
  <2>3. /\ call[p].batch \in Seq(Events) /\ Len(call[p].batch) \in Nat
        /\ DOMAIN call[p].batch = 1..Len(call[p].batch)
        /\ posting(p) \in Events /\ call[p].at \in Nat
      BY <2>1, BatchIsSeq DEF posting, Busy, Frame
  <2>4. received'[s] = Append(received[s], posting(p)) /\ received[s] \in Seq(Events)
      BY <2>1, <1>5, <1>0 DEF PostAccepted
  <2>5. Elems(received[s]) \cup {posting(p)} \subseteq Elems(received'[s])
      BY <2>3, <2>4, AppendElems
  <2>6. \A i \in 1..call[p].at : call[p].batch[i] \in Elems(received'[s])
    <3>1. \A i \in 1..(call[p].at - 1) : call[p].batch[i] \in Elems(received[s])
        BY <2>1 DEF Progress
    <3> QED BY <3>1, <2>3, <2>5 DEF posting
  <2>7. Progress(c, received'[c.sink])
    <3>1. CASE c.pc = "ok"
        BY <3>1, <2>2, <2>3, <2>6 DEF Progress, Elems
    <3>2. CASE c.pc = "emit"
        BY <3>2, <2>2, <2>3, <2>6 DEF Progress
    <3> QED BY <3>1, <3>2, <2>2
  <2>8. c.pc # "idle" /\ (active(c) => Busy(c))
      BY <2>1, <2>2, <2>3 DEF Busy, active
  <2> QED BY <2>1, <2>2, <2>7, <2>8, <1>0, <1>4, <1>5 DEF PostAccepted
<1>6. ASSUME NEW p \in Procs, PostAnswerLost(p) \/ PostFailed(p)
      PROVE  DeliveryInv'
  <2> DEFINE c == refused(call[p])
  <2>1. call[p] \in Frame /\ Busy(call[p]) /\ call[p].pc = "emit"
      BY <1>6, <1>a DEF PostAnswerLost, PostFailed, active
  <2>2. /\ c \in Frame /\ c.sink = call[p].sink /\ c.batch = call[p].batch
        /\ c.at = call[p].at /\ c.pc \in {"failed", "loop"}
        /\ c.pc = "loop" => c.attempt < MaxAttempts
        /\ call' = [call EXCEPT ![p] = c]
      BY <2>1, RefusedType, <1>6 DEF PostAnswerLost, PostFailed
  <2> HIDE DEF c
  <2>3. /\ c.pc # "idle" /\ (active(c) => Busy(c)) /\ Progress(c, received'[c.sink])
      BY <2>1, <2>2 DEF Busy, active, Progress
  <2>4. CASE PostAnswerLost(p)
    <3>1. lost' \in 0..MaxLost
        BY <2>4, <1>0, DeliveryAssumption DEF PostAnswerLost
    <3> QED BY <3>1, <2>1, <2>2, <2>3, <2>4, <1>4 DEF PostAnswerLost
  <2>5. CASE PostFailed(p)
    <3>1. late' \in [Procs -> [sleeps : Nat, posts : Nat]]
      <4>1. [late[p] EXCEPT !.posts = @ + 1] \in [sleeps : Nat, posts : Nat]
          BY <1>0, OneMore
      <4>2. late' = late \/ late' = [late EXCEPT ![p] = [late[p] EXCEPT !.posts = @ + 1]]
          BY <2>5 DEF PostFailed
      <4> QED BY <4>1, <4>2, <1>0
    <3> QED BY <3>1, <2>2, <2>3, <2>5, <1>1, <1>0 DEF PostFailed
  <2> QED BY <2>4, <2>5, <1>6
<1>7. ASSUME NEW p \in Procs, NEW s \in Sinks, NEW b \in Batches, Call(p, s, b)
      PROVE  DeliveryInv'
  <2> DEFINE c == enter(s, b)
  <2>1. /\ c \in Frame /\ c.pc \in {"loop", "failed"} /\ (active(c) => Busy(c))
        /\ call' = [call EXCEPT ![p] = c] /\ UNCHANGED <<received, lost, ctxDone, late>>
      BY EnterType, <1>7 DEF Call
  <2> HIDE DEF c
  <2>2. Progress(c, received'[c.sink]) /\ c.pc # "idle"
      BY <2>1 DEF Progress
  <2>3. Elems(b) \subseteq Events
      BY BatchIsSeq DEF Elems
  <2>4. asked' \in [Sinks -> SUBSET Events]
      BY <2>3, <1>0, <1>7 DEF Call
  <2> QED BY <2>1, <2>2, <2>4, <1>1, <1>0
<1>8. ASSUME Cancel \/ UNCHANGED deliveryVars
      PROVE  DeliveryInv'
  <2>1. UNCHANGED <<call, received, asked, lost, late>> /\ ctxDone' \in BOOLEAN
      BY <1>8, <1>0 DEF Cancel, deliveryVars
  <2>2. TypeOK'
      BY <2>1 DEF TypeOK, active
  <2> QED BY <2>1, <2>2 DEF Progress, Elems
<1>9. ASSUME NEW p \in Procs, StartSleep(p)
      PROVE  DeliveryInv'
  <2> DEFINE c == [call[p] EXCEPT !.pc = "sleep"]
  <2>1. call[p] \in Frame /\ Busy(call[p]) /\ call[p].pc = "delay"
      BY <1>9, <1>a DEF StartSleep, active
  <2>2. /\ c \in Frame /\ c.pc = "sleep" /\ c.at = call[p].at
        /\ c.attempt = call[p].attempt /\ c.batch = call[p].batch
      BY <2>1 DEF Frame, Pcs
  <2>3. call' = [call EXCEPT ![p] = c] /\ UNCHANGED <<received, asked, lost, ctxDone>>
      BY <1>9 DEF StartSleep
  <2>4. late' \in [Procs -> [sleeps : Nat, posts : Nat]]
    <3>1. [late[p] EXCEPT !.sleeps = @ + 1] \in [sleeps : Nat, posts : Nat]
        BY <1>0, OneMore
    <3>2. late' = late \/ late' = [late EXCEPT ![p] = [late[p] EXCEPT !.sleeps = @ + 1]]
        BY <1>9 DEF StartSleep
    <3> QED BY <3>1, <3>2, <1>0
  <2>5. c.at = 1
      BY <2>1, <2>2 DEF Progress
  <2> HIDE DEF c
  <2>6. Progress(c, received'[c.sink]) /\ c.pc # "idle" /\ Busy(c)
      BY <2>1, <2>2, <2>5 DEF Progress, Busy
  <2> QED BY <2>2, <2>3, <2>4, <2>6, <1>1, <1>0
<1> QED BY <1>2, <1>3, <1>5, <1>6, <1>7, <1>8, <1>9 DEF Next, Step, Post

(* The type invariant holds initially, without any call.                   *)
LEMMA DeliveryInvInit == Init => DeliveryInv
<1> SUFFICES ASSUME Init PROVE DeliveryInv
    OBVIOUS
<1>1. \A p \in Procs : call[p] = noFrame /\ call[p].pc = "idle"
    BY DEF Init, noFrame
<1>2. call \in [Procs -> Frame \cup {noFrame}]
    BY DEF Init
<1>3. received \in [Sinks -> Seq(Events)] /\ asked \in [Sinks -> SUBSET Events]
    BY DEF Init
<1>4. ctxDone \in BOOLEAN
    BY DEF Init
<1>5. lost \in 0..MaxLost
    BY DeliveryAssumption DEF Init
<1>6. late \in [Procs -> [sleeps : Nat, posts : Nat]]
    BY DEF Init, onTime
<1>7. TypeOK
    BY <1>1, <1>2, <1>3, <1>4, <1>5, <1>6 DEF TypeOK, active
<1> QED BY <1>1, <1>7 DEF DeliveryInv

(* DeliveryInv is an invariant of the specification.                       *)
LEMMA DeliveryInvHolds == Spec => []DeliveryInv
BY DeliveryInvInit, DeliveryInvInductive, PTL DEF Spec

(* The loop variables of DeliverWithRetry and EmitEvents stay within the   *)
(* attempts and the batch, for every number of goroutines and sinks.       *)
THEOREM DeliveryTypeCorrect == Spec => []TypeOK
<1>1. DeliveryInv => TypeOK
    BY DEF DeliveryInv
<1> QED BY <1>1, DeliveryInvHolds, PTL

(* DeliverWithRetry never returns nil for an event its receiver did not    *)
(* get, whatever was lost, retried or delivered by other goroutines.       *)
THEOREM NilMeansReceived == Spec => []OkMeansReceived
<1>1. DeliveryInv => OkMeansReceived
    BY DEF DeliveryInv, OkMeansReceived, Progress
<1> QED BY <1>1, DeliveryInvHolds, PTL

(* What a goroutine with frame c may have done since the cancellation: one *)
(* that is about to sleep nothing at all, one that may still post has not  *)
(* posted.                                                                 *)
LateFor(c, l) == /\ l.sleeps <= 1 /\ l.posts <= 1
                 /\ c.pc = "delay" => l.sleeps = 0
                 /\ c.pc \in {"delay", "sleep", "emit"} => l.posts = 0

(* The invariant behind LateWorkBounded.                                   *)
LateInv == \A p \in Procs : /\ ~ctxDone => late[p] = onTime
                            /\ LateFor(call[p], late[p])

LEMMA LateInvInductive == DeliveryInv /\ LateInv /\ [Next]_deliveryVars => LateInv'
<1> SUFFICES ASSUME DeliveryInv, LateInv, [Next]_deliveryVars PROVE LateInv'
    OBVIOUS
<1>0. /\ call \in [Procs -> Frame \cup {noFrame}] /\ ctxDone \in BOOLEAN
      /\ late \in [Procs -> [sleeps : Nat, posts : Nat]]
    BY DEF DeliveryInv, TypeOK
<1>1. \A p \in Procs : /\ LateFor(call[p], late[p]) /\ late[p] \in [sleeps : Nat, posts : Nat]
                       /\ ~ctxDone => late[p].sleeps = 0 /\ late[p].posts = 0
    BY <1>0 DEF LateInv, onTime
<1>2. ASSUME NEW p \in Procs, \A q \in Procs \ {p} : call'[q] = call[q] /\ late'[q] = late[q],
             ctxDone' = ctxDone, ~ctxDone => late' = late, LateFor(call'[p], late'[p])
      PROVE  LateInv'
    BY <1>2 DEF LateInv, LateFor, onTime
<1>3. ASSUME NEW p \in Procs, CheckContext(p) PROVE LateInv'
  <2>1. call[p] \in Frame /\ Busy(call[p])
      BY <1>3 DEF CheckContext, DeliveryInv, TypeOK, active, Busy
  <2>2. head(call[p]).pc \in {"failed", "delay", "emit"} /\ (ctxDone => head(call[p]).pc = "failed")
      BY <2>1, <1>0, HeadType
  <2>3. call'[p].pc = head(call[p]).pc /\ late' = late /\ ctxDone' = ctxDone
      BY <1>3, <1>0 DEF CheckContext
  <2>4. LateFor(call'[p], late'[p])
      BY <2>2, <2>3, <1>1 DEF LateFor
  <2> QED BY <2>3, <2>4, <1>2, <1>3, <1>0 DEF CheckContext
<1>4. ASSUME NEW p \in Procs, StartSleep(p) PROVE LateInv'
  <2>1. /\ call[p].pc = "delay" /\ call'[p].pc = "sleep" /\ ctxDone' = ctxDone
        /\ late'[p].posts = late[p].posts
        /\ late'[p].sleeps = IF ctxDone THEN late[p].sleeps + 1 ELSE late[p].sleeps
      BY <1>4, <1>0 DEF StartSleep, noFrame, Frame
  <2>2. LateFor(call'[p], late'[p])
      BY <2>1, <1>1 DEF LateFor
  <2> QED BY <2>1, <2>2, <1>2, <1>4, <1>0 DEF StartSleep
<1>5. ASSUME NEW p \in Procs, Wake(p) PROVE LateInv'
  <2>1. call[p].pc = "sleep" /\ call'[p].pc = "emit" /\ ctxDone' = ctxDone /\ late' = late
      BY <1>5, <1>0 DEF Wake, noFrame, Frame
  <2>2. LateFor(call'[p], late'[p])
      BY <2>1, <1>1 DEF LateFor
  <2> QED BY <2>1, <2>2, <1>2, <1>5, <1>0 DEF Wake
<1>6. ASSUME NEW p \in Procs, PostAccepted(p) \/ PostAnswerLost(p) PROVE LateInv'
  <2>1. ~ctxDone /\ late' = late /\ ctxDone' = ctxDone
      BY <1>6 DEF PostAccepted, PostAnswerLost
  <2>2. LateFor(call'[p], late'[p])
      BY <2>1, <1>1 DEF LateFor
  <2> QED BY <2>1, <2>2, <1>2, <1>6, <1>0 DEF PostAccepted, PostAnswerLost
<1>7. ASSUME NEW p \in Procs, PostFailed(p) PROVE LateInv'
  <2>1. call[p] \in Frame /\ Busy(call[p]) /\ call[p].pc = "emit"
      BY <1>7 DEF PostFailed, DeliveryInv, TypeOK, active, Busy
  <2>2. call'[p].pc \in {"failed", "loop"}
      BY <2>1, <1>7, <1>0, RefusedType DEF PostFailed
  <2>3. /\ ctxDone' = ctxDone /\ late'[p].sleeps = late[p].sleeps
        /\ late'[p].posts = IF ctxDone THEN late[p].posts + 1 ELSE late[p].posts
      BY <1>7, <1>0 DEF PostFailed
  <2>4. LateFor(call'[p], late'[p])
      BY <2>1, <2>2, <2>3, <1>1 DEF LateFor
  <2> QED BY <2>3, <2>4, <1>2, <1>7, <1>0 DEF PostFailed
<1>8. ASSUME NEW p \in Procs, NEW s \in Sinks, NEW b \in Batches, Call(p, s, b)
      PROVE  LateInv'
  <2>1. call'[p].pc \in {"loop", "failed"} /\ late' = late /\ ctxDone' = ctxDone
      BY <1>8, <1>0, EnterType DEF Call
  <2>2. LateFor(call'[p], late'[p])
      BY <2>1, <1>1 DEF LateFor
  <2> QED BY <2>1, <2>2, <1>2, <1>8, <1>0 DEF Call
<1>9. ASSUME Cancel \/ UNCHANGED deliveryVars PROVE LateInv'
    BY <1>9 DEF Cancel, deliveryVars, LateInv, LateFor, onTime
<1> QED BY <1>3, <1>4, <1>5, <1>6, <1>7, <1>8, <1>9 DEF Next, Step, Post

(* Nobody is late before the cancellation.                                 *)
LEMMA LateInvInit == Init => LateInv
BY DEF Init, LateInv, LateFor, onTime, noFrame

LEMMA LateInvBounds == LateInv => LateWorkBounded
BY DEF LateInv, LateFor, LateWorkBounded

(* From a cancellation on a goroutine begins at most one more sleep and    *)
(* ends at most one more post, whatever the steps it is caught between and *)
(* for any number of goroutines, sinks, attempts and events.               *)
THEOREM CancelBoundsWork == Spec => []LateWorkBounded
<1>1. Init => DeliveryInv /\ LateInv
    BY DeliveryInvInit, LateInvInit
<1>2. DeliveryInv /\ LateInv /\ [Next]_deliveryVars => (DeliveryInv /\ LateInv)'
    BY DeliveryInvInductive, LateInvInductive
<1> QED BY <1>1, <1>2, LateInvBounds, PTL DEF Spec

-----------------------------------------------------------------------------
(***************************************************************************)
(* How often a receiver gets an event.                                     *)
(***************************************************************************)

(* How often event e occurs in the log r.                                  *)
count(r, e) == Cardinality({i \in DOMAIN r : r[i] = e})

(* The attempt that frame c is in has posted the i-th event of its batch.  *)
posted(c, i) == IF c.pc = "emit" /\ i < c.at THEN 1 ELSE 0

(* What the log r of its receiver says of frame c: each finished attempt   *)
(* posted a prefix of the batch at most once, and the attempt under way    *)
(* has posted exactly the events before "at" once more.                    *)
Counts(c, r) ==
    /\ \A i, j \in DOMAIN c.batch : i < j =>
           count(r, c.batch[j]) + posted(c, i) <= count(r, c.batch[i]) + posted(c, j)
    /\ active(c) => \A i \in DOMAIN c.batch :
                       count(r, c.batch[i]) <= c.attempt + posted(c, i)

(* Only what a sink was asked to deliver is in its receiver's log, and no  *)
(* two calls were asked to deliver the same event to the same sink.        *)
Asked == /\ \A s \in Sinks : Elems(received[s]) \subseteq asked[s]
         /\ \A p \in Procs : call[p].pc # "idle" =>
                /\ Injective(call[p].batch)
                /\ Elems(call[p].batch) \subseteq asked[call[p].sink]
         /\ \A p, q \in Procs :
                /\ p # q /\ call[p].pc # "idle" /\ call[q].pc # "idle"
                /\ call[p].sink = call[q].sink
                => Elems(call[p].batch) \cap Elems(call[q].batch) = {}

(* The invariant behind ReceiptsBounded.                                   *)
ReceiptInv == /\ Asked
              /\ \A s \in Sinks, e \in Events : count(received[s], e) <= MaxAttempts
              /\ \A p \in Procs : call[p].pc # "idle" =>
                     Counts(call[p], received[call[p].sink])

(* A count is a number, it is zero for what is not in the log, and an      *)
(* append adds one to the count of what it appends.                        *)
LEMMA CountAppend ==
    ASSUME NEW r \in Seq(Events), NEW e \in Events, NEW x
    PROVE  /\ count(r, x) \in Nat
           /\ x \notin Elems(r) => count(r, x) = 0
           /\ count(Append(r, e), x) = IF x = e THEN count(r, x) + 1 ELSE count(r, x)
<1> DEFINE I == {i \in DOMAIN r : r[i] = x}
           J == {i \in DOMAIN Append(r, e) : Append(r, e)[i] = x}
           n == Len(r) + 1
<1>1. IsFiniteSet(I)
  <2>1. IsFiniteSet(1..Len(r)) /\ DOMAIN r = 1..Len(r)
      BY FS_Interval
  <2> QED BY <2>1, FS_Subset
<1>2. Cardinality(I) \in Nat
    BY <1>1, FS_CardinalityType
<1>3. x \notin Elems(r) => I = {}
    BY DEF Elems
<1>4. n \notin I /\ J = IF x = e THEN I \cup {n} ELSE I
    OBVIOUS
<1>5. Cardinality(I \cup {n}) = Cardinality(I) + 1
    BY <1>1, <1>4, FS_AddElement
<1> QED BY <1>2, <1>3, <1>4, <1>5, FS_EmptySet DEF count

(* Events that other calls append do not disturb what is known of a frame. *)
LEMMA CountsOfOthers ==
    ASSUME NEW c \in Frame, NEW r \in Seq(Events), NEW e \in Events,
           e \notin Elems(c.batch), Counts(c, r)
    PROVE  Counts(c, Append(r, e))
<1>1. \A i \in DOMAIN c.batch : count(Append(r, e), c.batch[i]) = count(r, c.batch[i])
    BY CountAppend DEF Elems
<1> QED BY <1>1 DEF Counts

(* The frame's own post: it appends the event at "at", and then either the *)
(* attempt goes on behind it or the attempt is over.                       *)
LEMMA CountsOfPost ==
    ASSUME NEW c \in Frame, c.pc = "emit", Busy(c), Injective(c.batch),
           NEW r \in Seq(Events), Counts(c, r), NEW d \in Frame, d.batch = c.batch,
           \/ d.pc = "ok"
           \/ d.pc = "emit" /\ d.at = c.at + 1 /\ d.attempt = c.attempt
           \/ d.pc \in {"loop", "failed"} /\ d.attempt = c.attempt + 1
    PROVE  Counts(d, Append(r, c.batch[c.at]))
<1> DEFINE b == c.batch
           e == c.batch[c.at]
           n(i) == count(r, b[i])
           m(i) == count(Append(r, e), b[i])
<1>1. /\ c.at \in DOMAIN b /\ DOMAIN b \subseteq Nat /\ e \in Events
      /\ c.at \in Nat /\ c.attempt \in Nat
    BY BatchIsSeq DEF Busy, Frame
<1>2. \A i \in DOMAIN b : n(i) \in Nat /\ m(i) = IF i = c.at THEN n(i) + 1 ELSE n(i)
    BY <1>1, CountAppend DEF Injective
<1>3. \A i, j \in DOMAIN b : i < j => n(j) + posted(c, i) <= n(i) + posted(c, j)
    BY DEF Counts
<1>4. \A i \in DOMAIN b : n(i) <= c.attempt + posted(c, i)
    BY DEF Counts, active
<1> HIDE DEF n, m
<1>5. \A i, j \in DOMAIN b : i < j => m(j) + posted(d, i) <= m(i) + posted(d, j)
    BY <1>1, <1>2, <1>3 DEF posted
<1>6. active(d) => \A i \in DOMAIN b : m(i) <= d.attempt + posted(d, i)
    BY <1>1, <1>2, <1>4 DEF posted, active
<1> QED BY <1>5, <1>6 DEF Counts, m

(* The steps that post nothing: before the first post of an attempt, or    *)
(* when a post fails, what was known of the frame still holds.             *)
LEMMA CountsOfQuietStep ==
    ASSUME NEW c \in Frame, active(c), Busy(c), NEW r \in Seq(Events), Counts(c, r),
           NEW d \in Frame, d.batch = c.batch,
           \/ c.pc # "emit" /\ d.at = 1 /\ d.attempt = c.attempt
           \/ d.pc \in {"loop", "failed"} /\ d.attempt = c.attempt + 1
    PROVE  Counts(d, r)
<1> DEFINE b == c.batch
           n(i) == count(r, b[i])
<1>1. /\ DOMAIN b \subseteq Nat \ {0} /\ c.at \in Nat /\ c.attempt \in Nat
    BY BatchIsSeq DEF Busy, Frame
<1>2. \A i \in DOMAIN b : n(i) \in Nat
  <2>1. \A i \in DOMAIN b : b[i] \in Events
      BY BatchIsSeq DEF Frame
  <2> QED BY <2>1, CountAppend
<1>3. \A i, j \in DOMAIN b : i < j => n(j) + posted(c, i) <= n(i) + posted(c, j)
    BY DEF Counts
<1>4. \A i \in DOMAIN b : n(i) <= c.attempt + posted(c, i)
    BY DEF Counts
<1> HIDE DEF n
<1>5. \A i, j \in DOMAIN b : i < j => n(j) + posted(d, i) <= n(i) + posted(d, j)
    BY <1>1, <1>2, <1>3 DEF posted
<1>6. active(d) => \A i \in DOMAIN b : n(i) <= d.attempt + posted(d, i)
    BY <1>1, <1>2, <1>4 DEF posted, active
<1> QED BY <1>5, <1>6 DEF Counts, n

(* A call that starts has posted nothing.                                  *)
LEMMA CountsOfCall ==
    ASSUME NEW s \in Sinks, NEW b \in Batches, NEW r \in Seq(Events),
           Elems(b) \cap Elems(r) = {}
    PROVE  Counts(enter(s, b), r)
<1> DEFINE c == enter(s, b)
<1>1. c.batch = b /\ c.attempt = 0 /\ c.pc # "emit"
    BY DEF enter
<1>2. \A i \in DOMAIN b : count(r, b[i]) = 0
  <2> SUFFICES ASSUME NEW i \in DOMAIN b PROVE count(r, b[i]) = 0
      OBVIOUS
  <2>1. b[i] \in Events /\ b[i] \notin Elems(r)
      BY BatchIsSeq DEF Elems
  <2> QED BY <2>1, CountAppend
<1> HIDE DEF c
<1>3. \A i, j \in DOMAIN b : count(r, b[j]) + posted(c, i) <= count(r, b[i]) + posted(c, j)
    BY <1>1, <1>2 DEF posted
<1>4. \A i \in DOMAIN b : count(r, b[i]) <= c.attempt + posted(c, i)
    BY <1>1, <1>2 DEF posted
<1> QED BY <1>1, <1>3, <1>4 DEF Counts, c

(* ReceiptInv is inductive, given DeliveryInv.                             *)
LEMMA ReceiptInvInductive ==
    DeliveryInv /\ ReceiptInv /\ [Next]_deliveryVars => ReceiptInv'
<1> SUFFICES ASSUME DeliveryInv, ReceiptInv, [Next]_deliveryVars
             PROVE  ReceiptInv'
    OBVIOUS
<1>0. /\ call \in [Procs -> Frame \cup {noFrame}]
      /\ received \in [Sinks -> Seq(Events)]
      /\ asked \in [Sinks -> SUBSET Events]
      /\ ctxDone \in BOOLEAN
      /\ \A p \in Procs : call[p].pc # "idle" => call[p] \in Frame /\ call[p].sink \in Sinks
    BY DEF DeliveryInv, TypeOK, Frame
<1>a. ASSUME NEW p \in Procs, active(call[p])
      PROVE  /\ call[p] \in Frame /\ Busy(call[p]) /\ call[p].sink \in Sinks
             /\ call[p].pc # "idle"
             /\ Injective(call[p].batch)
             /\ Counts(call[p], received[call[p].sink])
    BY <1>0, <1>a DEF DeliveryInv, TypeOK, active, Busy, ReceiptInv, Asked
<1>1. ASSUME NEW p \in Procs, call[p].pc # "idle", NEW c \in Frame, c.pc # "idle",
             c.sink = call[p].sink, c.batch = call[p].batch,
             call' = [call EXCEPT ![p] = c], UNCHANGED asked,
             \A s \in Sinks : Elems(received'[s]) \subseteq asked[s],
             \A s \in Sinks, e \in Events : count(received'[s], e) <= MaxAttempts,
             Counts(c, received'[c.sink]),
             \A q \in Procs \ {p} : call[q].pc # "idle" =>
                 Counts(call[q], received'[call[q].sink])
      PROVE  ReceiptInv'
  <2>1. \A q \in Procs : /\ call'[q] = IF q = p THEN c ELSE call[q]
                         /\ call'[q].pc # "idle" <=> call[q].pc # "idle"
                         /\ call[q].pc # "idle" => /\ call'[q].sink = call[q].sink
                                                   /\ call'[q].batch = call[q].batch
      BY <1>0, <1>1
  <2>2. Asked'
    <3>1. \A q \in Procs : call'[q].pc # "idle" =>
              /\ Injective(call'[q].batch)
              /\ Elems(call'[q].batch) \subseteq asked'[call'[q].sink]
        BY <2>1, <1>1 DEF ReceiptInv, Asked
    <3>2. \A q, u \in Procs :
              /\ q # u /\ call'[q].pc # "idle" /\ call'[u].pc # "idle"
              /\ call'[q].sink = call'[u].sink
              => Elems(call'[q].batch) \cap Elems(call'[u].batch) = {}
        BY <2>1 DEF ReceiptInv, Asked
    <3> QED BY <3>1, <3>2, <1>1 DEF Asked, Elems, Injective
  <2>3. \A q \in Procs : call'[q].pc # "idle" => Counts(call'[q], received'[call'[q].sink])
      BY <2>1, <1>1
  <2> QED BY <2>2, <2>3, <1>1 DEF ReceiptInv, Counts, posted, count, active
<1>2. ASSUME NEW p \in Procs, active(call[p]), NEW c \in Frame, c.pc # "idle",
             c.sink = call[p].sink, c.batch = call[p].batch,
             call' = [call EXCEPT ![p] = c], UNCHANGED <<asked, received>>,
             \/ call[p].pc # "emit" /\ c.at = 1 /\ c.attempt = call[p].attempt
             \/ c.pc \in {"loop", "failed"} /\ c.attempt = call[p].attempt + 1
      PROVE  ReceiptInv'
  <2>1. Counts(c, received[c.sink])
      BY <1>0, <1>2, <1>a, CountsOfQuietStep
  <2> QED BY <2>1, <1>a, <1>1, <1>2 DEF ReceiptInv, Asked
<1>3. ASSUME NEW p \in Procs, call[p].pc = "emit", NEW c \in Frame, c.pc # "idle",
             c.sink = call[p].sink, c.batch = call[p].batch,
             call' = [call EXCEPT ![p] = c], UNCHANGED asked,
             received' = [received EXCEPT ![call[p].sink] = Append(@, posting(p))],
             \/ c.pc = "ok"
             \/ c.pc = "emit" /\ c.at = call[p].at + 1 /\ c.attempt = call[p].attempt
             \/ c.pc \in {"loop", "failed"} /\ c.attempt = call[p].attempt + 1
      PROVE  ReceiptInv'
  <2> DEFINE s == call[p].sink
             e == posting(p)
             r == received[s]
  <2>1. /\ call[p] \in Frame /\ Busy(call[p]) /\ s \in Sinks /\ call[p].pc # "idle"
        /\ Injective(call[p].batch) /\ Counts(call[p], r)
      BY <1>3, <1>a DEF active
  <2>2. /\ e \in Events /\ e \in Elems(call[p].batch) /\ call[p].at \in DOMAIN call[p].batch
        /\ call[p].attempt \in Nat /\ call[p].attempt < MaxAttempts /\ r \in Seq(Events)
      BY <2>1, <1>0, BatchIsSeq DEF posting, Busy, Frame, Elems
  <2>3. \A t \in Sinks : received'[t] = IF t = s THEN Append(r, e) ELSE received[t]
      BY <1>0, <1>3
  <2>4. \A t \in Sinks : Elems(received'[t]) \subseteq asked[t]
    <3>1. Elems(Append(r, e)) \subseteq Elems(r) \cup {e}
        BY <2>2 DEF Elems
    <3>2. e \in asked[s] /\ \A t \in Sinks : Elems(received[t]) \subseteq asked[t]
        BY <2>1, <2>2 DEF ReceiptInv, Asked
    <3> QED BY <3>1, <3>2, <2>3
  <2>5. Counts(c, received'[c.sink])
    <3>1. Counts(c, Append(r, call[p].batch[call[p].at]))
        BY <2>1, <2>2, <1>3, CountsOfPost
    <3> QED BY <3>1, <2>1, <2>3, <1>3 DEF posting
  <2>6. ASSUME NEW t \in Sinks, NEW x \in Events
        PROVE  count(received'[t], x) <= MaxAttempts
    <3>1. count(received[t], x) <= MaxAttempts
        BY DEF ReceiptInv
    <3>2. count(r, e) <= call[p].attempt
      <4>1. count(r, call[p].batch[call[p].at]) <= call[p].attempt + posted(call[p], call[p].at)
          BY <2>1, <2>2, <1>3 DEF Counts, active
      <4>2. posted(call[p], call[p].at) = 0
          BY <2>1 DEF posted, Frame
      <4> QED BY <4>1, <4>2, <2>2 DEF posting
    <3>3. /\ count(Append(r, e), x) = IF x = e THEN count(r, x) + 1 ELSE count(r, x)
          /\ count(r, x) \in Nat
        BY <2>2, CountAppend
    <3> QED BY <3>1, <3>2, <3>3, <2>2, <2>3, DeliveryAssumption
  <2>7. ASSUME NEW q \in Procs \ {p}, call[q].pc # "idle"
        PROVE  Counts(call[q], received'[call[q].sink])
    <3>1. /\ call[q] \in Frame /\ call[q].sink \in Sinks
          /\ Counts(call[q], received[call[q].sink])
        BY <1>0, <2>7 DEF ReceiptInv
    <3>2. call[q].sink = s => e \notin Elems(call[q].batch)
        BY <2>1, <2>2, <2>7 DEF ReceiptInv, Asked
    <3> QED BY <3>1, <3>2, <2>2, <2>3, CountsOfOthers
  <2> QED BY <2>1, <2>4, <2>5, <2>6, <2>7, <1>1, <1>3
<1>4. ASSUME NEW p \in Procs, CheckContext(p) PROVE ReceiptInv'
  <2>1. active(call[p]) /\ call[p].pc = "loop" /\ call[p] \in Frame /\ Busy(call[p])
      BY <1>4, <1>a DEF CheckContext, active
  <2> QED BY <2>1, <1>0, <1>2, <1>4, HeadType DEF CheckContext
<1>5. ASSUME NEW p \in Procs, Wake(p) PROVE ReceiptInv'
  <2> DEFINE c == [call[p] EXCEPT !.pc = "emit"]
  <2>1. /\ active(call[p]) /\ call[p].pc = "sleep" /\ call[p] \in Frame
        /\ call[p].at = 1
      BY <1>5, <1>a DEF Wake, active, DeliveryInv, Progress
  <2>2. /\ c \in Frame /\ c.pc = "emit" /\ c.at = 1 /\ c.sink = call[p].sink
        /\ c.attempt = call[p].attempt /\ c.batch = call[p].batch
      BY <2>1 DEF Frame, Pcs
  <2>3. call' = [call EXCEPT ![p] = c] /\ UNCHANGED <<asked, received>>
      BY <1>5 DEF Wake
  <2> HIDE DEF c
  <2> QED BY <2>1, <2>2, <2>3, <1>2
<1>b. ASSUME NEW p \in Procs, StartSleep(p) PROVE ReceiptInv'
  <2> DEFINE c == [call[p] EXCEPT !.pc = "sleep"]
  <2>1. /\ active(call[p]) /\ call[p].pc = "delay" /\ call[p] \in Frame
        /\ call[p].at = 1
      BY <1>b, <1>a DEF StartSleep, active, DeliveryInv, Progress
  <2>2. /\ c \in Frame /\ c.pc = "sleep" /\ c.at = 1 /\ c.sink = call[p].sink
        /\ c.attempt = call[p].attempt /\ c.batch = call[p].batch
      BY <2>1 DEF Frame, Pcs
  <2>3. call' = [call EXCEPT ![p] = c] /\ UNCHANGED <<asked, received>>
      BY <1>b DEF StartSleep
  <2> HIDE DEF c
  <2> QED BY <2>1, <2>2, <2>3, <1>2
<1>6. ASSUME NEW p \in Procs, PostAccepted(p) PROVE ReceiptInv'
  <2>1. call[p].pc = "emit" /\ call[p] \in Frame /\ Busy(call[p])
      BY <1>6, <1>a DEF PostAccepted, active
  <2> QED BY <2>1, <1>3, <1>6, AcceptedType DEF PostAccepted
<1>7. ASSUME NEW p \in Procs, PostAnswerLost(p) \/ PostFailed(p) PROVE ReceiptInv'
  <2>1. call[p].pc = "emit" /\ call[p] \in Frame /\ Busy(call[p]) /\ active(call[p])
      BY <1>7, <1>a DEF PostAnswerLost, PostFailed, active
  <2>2. CASE PostAnswerLost(p)
      BY <2>1, <2>2, <1>3, RefusedType DEF PostAnswerLost
  <2>3. CASE PostFailed(p)
      BY <2>1, <2>3, <1>2, RefusedType DEF PostFailed
  <2> QED BY <2>2, <2>3, <1>7
<1>8. ASSUME NEW p \in Procs, NEW s \in Sinks, NEW b \in Batches, Call(p, s, b)
      PROVE  ReceiptInv'
  <2> DEFINE c == enter(s, b)
  <2>1. /\ c \in Frame /\ c.pc # "idle" /\ c.sink = s /\ c.batch = b
      BY EnterType DEF enter
  <2>2. /\ Elems(b) \cap asked[s] = {} /\ Injective(b)
        /\ call' = [call EXCEPT ![p] = c]
        /\ asked' = [asked EXCEPT ![s] = @ \cup Elems(b)]
        /\ UNCHANGED received
      BY <1>8 DEF Call
  <2>3. Counts(c, received[s])
    <3>1. Elems(b) \cap Elems(received[s]) = {}
        BY <2>2 DEF ReceiptInv, Asked
    <3> QED BY <3>1, <1>0, CountsOfCall
  <2> HIDE DEF c
  <2>4. /\ \A q \in Procs : call'[q] = IF q = p THEN c ELSE call[q]
        /\ \A t \in Sinks : asked'[t] = IF t = s THEN asked[t] \cup Elems(b) ELSE asked[t]
      BY <2>2, <1>0
  <2>5. Asked'
    <3>1. \A t \in Sinks : Elems(received'[t]) \subseteq asked'[t]
        BY <2>2, <2>4 DEF ReceiptInv, Asked
    <3>2. ASSUME NEW q \in Procs, call'[q].pc # "idle"
          PROVE  Injective(call'[q].batch) /\ Elems(call'[q].batch) \subseteq asked'[call'[q].sink]
        BY <3>2, <2>1, <2>2, <2>4, <1>0 DEF ReceiptInv, Asked
    <3>3. ASSUME NEW q \in Procs, NEW u \in Procs, q # u, call'[q].pc # "idle",
                 call'[u].pc # "idle", call'[q].sink = call'[u].sink
          PROVE  Elems(call'[q].batch) \cap Elems(call'[u].batch) = {}
      <4>1. \A w \in Procs : call[w].pc # "idle" =>
                Elems(call[w].batch) \subseteq asked[call[w].sink]
          BY DEF ReceiptInv, Asked
      <4>2. CASE q = p
          BY <4>1, <4>2, <3>3, <2>1, <2>2, <2>4
      <4>3. CASE u = p
          BY <4>1, <4>3, <3>3, <2>1, <2>2, <2>4
      <4>4. CASE q # p /\ u # p
          BY <4>4, <3>3, <2>4 DEF ReceiptInv, Asked
      <4> QED BY <4>2, <4>3, <4>4
    <3> QED BY <3>1, <3>2, <3>3 DEF Asked, Elems, Injective
  <2>6. \A q \in Procs : call'[q].pc # "idle" => Counts(call'[q], received'[call'[q].sink])
      BY <2>1, <2>2, <2>3, <2>4 DEF ReceiptInv
  <2> QED BY <2>2, <2>5, <2>6 DEF ReceiptInv, Counts, posted, count, active
<1>9. ASSUME Cancel \/ UNCHANGED deliveryVars PROVE ReceiptInv'
  <2>1. UNCHANGED <<call, received, asked>>
      BY <1>9 DEF Cancel, deliveryVars
  <2> QED BY <2>1 DEF ReceiptInv, Asked
<1> QED BY <1>b, <1>4, <1>5, <1>6, <1>7, <1>8, <1>9 DEF Next, Step, Post

(* Nothing was asked for and nothing received at the start.                *)
LEMMA ReceiptInvInit == Init => ReceiptInv
<1> SUFFICES ASSUME Init PROVE ReceiptInv
    OBVIOUS
<1>1. \A p \in Procs : call[p].pc = "idle"
    BY DEF Init, noFrame
<1>2. \A s \in Sinks : received[s] = <<>> /\ Elems(received[s]) = {}
    BY DEF Init, Elems
<1>3. ASSUME NEW s \in Sinks, NEW e \in Events PROVE count(received[s], e) = 0
  <2>1. <<>> \in Seq(Events)
      OBVIOUS
  <2>2. received[s] \in Seq(Events) /\ e \notin Elems(received[s])
      BY <2>1, <1>2
  <2> QED BY <2>2, CountAppend
<1>4. \A s \in Sinks : asked[s] = {}
    BY DEF Init
<1> QED BY <1>1, <1>2, <1>3, <1>4, DeliveryAssumption DEF ReceiptInv, Asked

(* ReceiptsBounded is what ReceiptInv says of finished attempts.           *)
LEMMA ReceiptInvBounds == DeliveryInv /\ ReceiptInv => ReceiptsBounded
<1> SUFFICES ASSUME DeliveryInv, ReceiptInv PROVE ReceiptsBounded
    OBVIOUS
<1>1. \A s \in Sinks, e \in Events : copies(s, e) = count(received[s], e)
    BY DEF copies, count
<1>2. ASSUME NEW p \in Procs, call[p].pc # "idle",
             NEW i \in DOMAIN call[p].batch, NEW j \in DOMAIN call[p].batch, i < j
      PROVE  copies(call[p].sink, call[p].batch[i]) >= copies(call[p].sink, call[p].batch[j])
  <2> DEFINE c == call[p]
             r == received[c.sink]
  <2>1. /\ c \in Frame /\ c.sink \in Sinks /\ c.at \in Nat /\ r \in Seq(Events)
        /\ i \in Nat /\ j \in Nat /\ c.batch[i] \in Events /\ c.batch[j] \in Events
      BY <1>2, BatchIsSeq DEF DeliveryInv, TypeOK, Frame
  <2>2. count(r, c.batch[j]) + posted(c, i) <= count(r, c.batch[i]) + posted(c, j)
      BY <1>2 DEF ReceiptInv, Counts
  <2>3. count(r, c.batch[i]) \in Nat /\ count(r, c.batch[j]) \in Nat
      BY <2>1, CountAppend
  <2>4. posted(c, i) \in 0..1 /\ posted(c, j) \in 0..1 /\ posted(c, j) <= posted(c, i)
      BY <2>1, <1>2 DEF posted
  <2> QED BY <2>1, <2>2, <2>3, <2>4, <1>1
<1> QED BY <1>1, <1>2 DEF ReceiptInv, ReceiptsBounded

(* Retrying never multiplies an event beyond the attempts, and a receiver  *)
(* gets the events of a batch in non-increasing numbers, for every number  *)
(* of goroutines, sinks and attempts and any pattern of lost answers.      *)
THEOREM ReceiptsAreBounded == Spec => []ReceiptsBounded
<1>1. Init => DeliveryInv /\ ReceiptInv
    BY DeliveryInvInit, ReceiptInvInit
<1>2. DeliveryInv /\ ReceiptInv /\ [Next]_deliveryVars => (DeliveryInv /\ ReceiptInv)'
    BY DeliveryInvInductive, ReceiptInvInductive
<1> QED BY <1>1, <1>2, ReceiptInvBounds, PTL DEF Spec
=============================================================================
