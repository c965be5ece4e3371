---------------------------- MODULE Agent_proofs ----------------------------
(***************************************************************************)
(* Proofs about Agent, for any number of event sources, sinks, labels,     *)
(* events and attempts: what the run loop and the drain goroutines pass to *)
(* DeliverWithRetry, what the drop counter and the four views say while    *)
(* they interleave, and that together they implement AlertChannel.         *)
(***************************************************************************)
EXTENDS Agent, Delivery_proofs

Steps == {"collect", "snapshot", "metrics", "history", "evaluate", "record",
          "deliver", "await", "select", "returned"}

Views == {"compat", "snapshot", "metrics", "history"}

(* The agent's own part of ATypeOK.                                        *)
AgentTypes ==
    /\ ctl \in [Procs -> [step : Steps, batch : Batches \cup {<<>>}, sink : 0..(NSinks + 1)]]
    /\ \A p \in Procs : ctl[p].batch = <<>> <=>
          ctl[p].step \notin {"record", "deliver", "await"}
    /\ views \in [Views -> 0..(Gens - 1)]
    /\ due \in BOOLEAN /\ exited \in BOOLEAN /\ open \subseteq Drains
    /\ emitted \in [Procs -> Nat] /\ \A p \in Procs : emitted[p] <= Budget[p]
    /\ counted \in [Events -> 0..1] /\ dropped \in [Names -> Nat]
    /\ settled \in [Sinks -> SUBSET Events]

(* A goroutine carries the events that it emitted last, in order.          *)
CarriesLatest ==
    \A p \in Procs : \A i \in DOMAIN ctl[p].batch :
        ctl[p].batch[i] = <<p, emitted[p] - Len(ctl[p].batch) + i>>

(* Only emitted events are counted, and only counted ones are handed to a  *)
(* sink or settled there.                                                  *)
CountedFirst ==
    /\ \A e \in Events : counted[e] > 0 => e[2] <= emitted[e[1]]
    /\ \A s \in Sinks : \A e \in asked[s] \cup settled[s] : counted[e] > 0

(* Where a goroutine is with its batch: not counted yet, or counted and    *)
(* new to the sinks that the loop has still to reach.                      *)
OnItsWay(p) ==
    LET c == ctl[p]  b == Elems(ctl[p].batch) IN
    /\ c.step = "record" => \A e \in b : counted[e] = 0
    /\ c.step \in {"deliver", "await"} =>
          /\ c.sink > 0
          /\ \A e \in b : counted[e] > 0
          /\ \A s \in Sinks : s >= c.sink => b \cap settled[s] = {}
          /\ \A s \in Sinks : s > c.sink => b \cap asked[s] = {}
    /\ c.step = "deliver" /\ c.sink \in Sinks => b \cap asked[c.sink] = {}

(* A goroutine that waits is in the call it made, and in no other.         *)
InOwnCall(p) ==
    IF ctl[p].step = "await"
      THEN /\ call[p].pc # "idle"
           /\ call[p].batch = ctl[p].batch /\ call[p].sink = ctl[p].sink
      ELSE ~active(call[p])

(* The inductive invariant of the agent.                                   *)
AgentInv == /\ DeliveryInv /\ ReceiptInv
            /\ AgentTypes /\ CarriesLatest /\ CountedFirst
            /\ \A p \in Procs : OnItsWay(p) /\ InOwnCall(p)

(* The views that are one poll behind while Tick is at a step.             *)
stale(step) == CASE step = "snapshot" -> {"snapshot", "metrics", "history"}
                 [] step = "metrics"  -> {"metrics", "history"}
                 [] step = "history"  -> {"history"}
                 [] OTHER             -> {}

ViewsInv == \A v \in Views : \/ views[v] = views.compat
                             \/ /\ v \in stale(ctl[Tick].step)
                                /\ views.compat = nextGen(views[v])

(* What was settled at the sinks of label n and never received.            *)
Missing(n) == {se \in Sinks \X Events :
                  /\ NameOf[se[1]] = n
                  /\ se[2] \in settled[se[1]] \ Elems(received[se[1]])}

LossInv == \A n \in Names : /\ IsFiniteSet(Missing(n))
                            /\ Cardinality(Missing(n)) <= dropped[n]

(* Index i of log r is the first at which e occurs.                        *)
IsFirst(r, i, e) == /\ i \in DOMAIN r /\ r[i] = e
                    /\ \A j \in 1..(i - 1) : r[j] # e

(* Every event has a first receipt, and an earlier event of the same       *)
(* goroutine that was received at all was received before it.              *)
LogInOrder(r) ==
    /\ \A e \in Elems(r) : \E i \in DOMAIN r : IsFirst(r, i, e)
    /\ \A i \in DOMAIN r : \A d \in Elems(r) :
          d[1] = r[i][1] /\ d[2] < r[i][2] => \E j \in 1..(i - 1) : r[j] = d

OrderInv == \A s \in Sinks : LogInOrder(received[s])

-----------------------------------------------------------------------------
(***************************************************************************)
(* Batches.                                                                *)
(***************************************************************************)

CtlFrame == [step : Steps, batch : Batches \cup {<<>>}, sink : 0..(NSinks + 1)]

Loaded == {"record", "deliver", "await"}

(* The batch a goroutine carries consists of its own, distinct, emitted    *)
(* events.                                                                 *)
LEMMA Carried ==
    ASSUME AgentTypes, CarriesLatest, NEW p \in Procs, ctl[p].step \in Loaded
    PROVE  /\ ctl[p].batch \in Batches
           /\ ctl[p].batch \in Seq(Events)
           /\ Len(ctl[p].batch) \in 1..emitted[p]
           /\ DOMAIN ctl[p].batch = 1..Len(ctl[p].batch)
           /\ Injective(ctl[p].batch)
           /\ \A i \in DOMAIN ctl[p].batch :
                 /\ ctl[p].batch[i] \in Events
                 /\ ctl[p].batch[i] = <<p, emitted[p] - Len(ctl[p].batch) + i>>
           /\ \A e \in Elems(ctl[p].batch) : e \in Events /\ e[1] = p /\ e[2] <= emitted[p]
<1> DEFINE b == ctl[p].batch
<1>1. b \in Batches /\ b # <<>>
    BY DEF AgentTypes, CtlFrame, Loaded
<1>2. /\ b \in Seq(Events) /\ Len(b) \in Nat \ {0} /\ DOMAIN b = 1..Len(b)
      /\ \A i \in 1..Len(b) : b[i] \in Events
    BY <1>1, BatchIsSeq
<1>3. emitted[p] \in Nat
    BY DEF AgentTypes
<1>4. \A i \in DOMAIN b : b[i] = <<p, emitted[p] - Len(b) + i>>
    BY DEF CarriesLatest
<1> HIDE DEF b
<1>5. b[1] = <<p, emitted[p] - Len(b) + 1>> /\ b[1] \in Events
    BY <1>2, <1>4
<1>6. emitted[p] - Len(b) + 1 \in 1..Budget[p]
    BY <1>5, AgentAssumption
<1>7. Len(b) \in 1..emitted[p]
    BY <1>2, <1>3, <1>6, AgentAssumption
<1>8. Injective(b)
    BY <1>2, <1>3, <1>4 DEF Injective
<1>9. \A e \in Elems(b) : e \in Events /\ e[1] = p /\ e[2] <= emitted[p]
    BY <1>2, <1>3, <1>4 DEF Elems
<1> QED BY <1>1, <1>2, <1>4, <1>7, <1>8, <1>9 DEF b

(* Two goroutines never carry the same event.                              *)
LEMMA CarriedApart ==
    ASSUME AgentTypes, CarriesLatest, NEW p \in Procs, NEW q \in Procs, p # q
    PROVE  Elems(ctl[p].batch) \cap Elems(ctl[q].batch) = {}
<1>1. \A u \in Procs : \A e \in Elems(ctl[u].batch) : e[1] = u
    BY DEF CarriesLatest, Elems
<1> QED BY <1>1

(* What Evaluate and Receive emit: the next events of the goroutine.       *)
LEMMA NextEvents ==
    ASSUME AgentTypes, NEW p \in Procs, NEW k \in 0..MaxBatch, emitted[p] + k <= Budget[p]
    PROVE  /\ k = 0 => nextEvents(p, k) = <<>>
           /\ k # 0 => nextEvents(p, k) \in Batches /\ nextEvents(p, k) # <<>>
           /\ Len(nextEvents(p, k)) = k
           /\ DOMAIN nextEvents(p, k) = 1..k
           /\ \A i \in 1..k : nextEvents(p, k)[i] = <<p, emitted[p] + i>>
<1> DEFINE b == nextEvents(p, k)
<1>1. k \in Nat /\ emitted[p] \in Nat /\ Budget[p] \in Nat
    BY DeliveryAssumption, AgentAssumption DEF AgentTypes
<1>2. \A i \in 1..k : <<p, emitted[p] + i>> \in Events
  <2> SUFFICES ASSUME NEW i \in 1..k PROVE <<p, emitted[p] + i>> \in Events
      OBVIOUS
  <2>1. <<p, emitted[p] + i>> \in {p} \X (1..Budget[p])
      BY <1>1
  <2> QED BY <2>1, AgentAssumption
<1>3. b \in [1..k -> Events]
    BY <1>2 DEF nextEvents
<1>4. b \in Seq(Events) /\ Len(b) = k
    BY <1>1, <1>3
<1>5. k = 0 => b = <<>>
    BY <1>4
<1>6. k # 0 => b \in Batches /\ b # <<>>
    BY <1>1, <1>3, <1>4 DEF Batches
<1> QED BY <1>4, <1>5, <1>6 DEF nextEvents

-----------------------------------------------------------------------------
(***************************************************************************)
(* The agent respects the contract of DeliverWithRetry.                    *)
(***************************************************************************)

(* Every step of the agent is a step of Delivery or leaves it alone: what  *)
(* Tick and the drains pass to DeliverWithRetry is what Delivery assumes.  *)
LEMMA DeliverySide == AgentInv /\ [ANext]_vars => [Next]_deliveryVars
<1> SUFFICES ASSUME AgentInv, ANext PROVE [Next]_deliveryVars
    BY DEF vars
<1>1. ASSUME NEW p \in Procs, Work(p) PROVE [Next]_deliveryVars
  <2>1. CASE RecordEvents(p) \/ FinishDelivery(p) \/ EndDelivery(p)
      BY <2>1 DEF RecordEvents, FinishDelivery, EndDelivery
  <2>2. CASE StartDelivery(p)
    <3>1. ctl[p].sink \in Sinks /\ ctl[p].step = "deliver"
        BY <2>2 DEF StartDelivery, at
    <3>2. ctl[p].batch \in Batches
        BY <3>1, Carried DEF AgentInv, Loaded
    <3> QED BY <3>1, <3>2, <2>2 DEF StartDelivery, Next
  <2>3. CASE DeliveryStep(p)
      BY <2>3 DEF DeliveryStep, Next
  <2> QED BY <1>1, <2>1, <2>2, <2>3 DEF Work
<1>2. CASE TickWork
    BY <1>1, <1>2, AgentAssumption DEF TickWork, Collect, StoreSnapshot, UpdateMetrics,
                                       IngestHistory, Publish, Evaluate
<1>3. CASE TickerFires \/ SelectTick \/ Exit \/ \E p \in Procs : SelectDone(p)
    BY <1>3 DEF TickerFires, SelectTick, Exit, SelectDone
<1>4. CASE Signal
    BY <1>4 DEF Signal, Next
<1>5. ASSUME NEW p \in Drains, Work(p) \/ Receive(p) \/ SourceCloses(p) \/ DrainEnds(p)
      PROVE  [Next]_deliveryVars
    BY <1>1, <1>5 DEF Drains, Receive, SourceCloses, DrainEnds
<1> QED BY <1>2, <1>3, <1>4, <1>5 DEF ANext

(* So Delivery's invariants hold in the agent too.                         *)
LEMMA DeliveryPart == AgentInv /\ [ANext]_vars => DeliveryInv' /\ ReceiptInv'
BY DeliverySide, DeliveryInvInductive, ReceiptInvInductive DEF AgentInv

-----------------------------------------------------------------------------
(***************************************************************************)
(* AgentInv is inductive.  The actions fall into a few kinds of moves, one *)
(* lemma each; AgentSide is what is left to show of AgentInv.              *)
(***************************************************************************)

AgentSide == /\ AgentTypes /\ CarriesLatest /\ CountedFirst
             /\ \A p \in Procs : OnItsWay(p) /\ InOwnCall(p)

(* A goroutine without a batch, or done with it, goes to a step that needs *)
(* none: the publishing steps, select and its cases, the end of delivery.  *)
LEMMA IdleMove ==
    ASSUME AgentInv, NEW p \in Procs, NEW c \in CtlFrame,
           ctl[p].step # "await", c.step \in Steps \ Loaded, c.batch = <<>>,
           ctl' = [ctl EXCEPT ![p] = c],
           views' \in [Views -> 0..(Gens - 1)], due' \in BOOLEAN,
           UNCHANGED <<deliveryVars, emitted, counted, dropped, settled, open, exited>>
    PROVE  AgentSide'
<1>1. /\ ctl \in [Procs -> CtlFrame]
      /\ \A q \in Procs : ctl'[q] = IF q = p THEN c ELSE ctl[q]
    BY DEF AgentInv, AgentTypes, CtlFrame
<1>2. UNCHANGED <<call, asked>>
    BY DEF deliveryVars
<1>3. AgentTypes'
  <2>1. ctl' \in [Procs -> CtlFrame]
      BY <1>1
  <2>2. \A q \in Procs : ctl'[q].batch = <<>> <=> ctl'[q].step \notin Loaded
      BY <1>1 DEF AgentInv, AgentTypes, Loaded
  <2> QED BY <2>1, <2>2 DEF AgentInv, AgentTypes, CtlFrame, Loaded
<1>4. CarriesLatest'
    BY <1>1 DEF AgentInv, CarriesLatest
<1>5. CountedFirst'
    BY <1>2 DEF AgentInv, CountedFirst
<1>6. ASSUME NEW q \in Procs PROVE OnItsWay(q)' /\ InOwnCall(q)'
    BY <1>1, <1>2 DEF AgentInv, OnItsWay, InOwnCall, Loaded, active
<1> QED BY <1>3, <1>4, <1>5, <1>6 DEF AgentSide

(* Steps that move no goroutine: the ticker, a source that closes, the     *)
(* signal and the end of the process.                                      *)
LEMMA OutsideMove ==
    ASSUME AgentInv, due' \in BOOLEAN, exited' \in BOOLEAN, open' \subseteq Drains,
           UNCHANGED <<call, asked, ctl, views, emitted, counted, dropped, settled>>
    PROVE  AgentSide'
<1>1. AgentTypes'
    BY DEF AgentInv, AgentTypes
<1>2. CarriesLatest' /\ CountedFirst'
    BY DEF AgentInv, CarriesLatest, CountedFirst
<1>3. ASSUME NEW q \in Procs PROVE OnItsWay(q)' /\ InOwnCall(q)'
    BY DEF AgentInv, OnItsWay, InOwnCall, active
<1> QED BY <1>1, <1>2, <1>3 DEF AgentSide

(* A goroutine emits its next events and has them counted next.            *)
LEMMA EmitMove ==
    ASSUME AgentInv, NEW p \in Procs, NEW k \in 1..MaxBatch, emitted[p] + k <= Budget[p],
           ctl[p].step \notin Loaded,
           emitted' = [emitted EXCEPT ![p] = @ + k],
           ctl' = [ctl EXCEPT ![p].step = "record", ![p].batch = nextEvents(p, k)],
           UNCHANGED <<deliveryVars, views, due, counted, dropped, settled, open, exited>>
    PROVE  AgentSide'
<1> DEFINE b == nextEvents(p, k)
           c == [ctl[p] EXCEPT !.step = "record", !.batch = b]
<1>0. k \in Nat \ {0} /\ k \in 0..MaxBatch
    BY DeliveryAssumption
<1>1. /\ b \in Batches /\ b # <<>> /\ Len(b) = k /\ DOMAIN b = 1..k
      /\ \A i \in 1..k : b[i] = <<p, emitted[p] + i>>
    BY <1>0, NextEvents DEF AgentInv
<1> HIDE DEF b
<1>2. /\ ctl \in [Procs -> CtlFrame] /\ emitted \in [Procs -> Nat]
      /\ counted \in [Events -> 0..1]
    BY DEF AgentInv, AgentTypes, CtlFrame
<1>3. c \in CtlFrame /\ c.step = "record" /\ c.batch = b
    BY <1>1, <1>2 DEF CtlFrame, Steps
<1>4. ctl' = [ctl EXCEPT ![p] = c]
    BY DEF b
<1> HIDE DEF c
<1>5. /\ \A q \in Procs : ctl'[q] = IF q = p THEN c ELSE ctl[q]
      /\ \A q \in Procs : emitted'[q] = IF q = p THEN emitted[p] + k ELSE emitted[q]
    BY <1>2, <1>4
<1>6. UNCHANGED <<call, asked>>
    BY DEF deliveryVars
<1>7. AgentTypes'
  <2>1. ctl' \in [Procs -> CtlFrame]
      BY <1>2, <1>3, <1>4
  <2>2. \A q \in Procs : ctl'[q].batch = <<>> <=> ctl'[q].step \notin Loaded
      BY <1>1, <1>3, <1>5 DEF AgentInv, AgentTypes, Loaded
  <2>3. emitted' \in [Procs -> Nat] /\ \A q \in Procs : emitted'[q] <= Budget[q]
      BY <1>0, <1>2, <1>5 DEF AgentInv, AgentTypes
  <2> QED BY <2>1, <2>2, <2>3 DEF AgentInv, AgentTypes, CtlFrame, Loaded
<1>8. CarriesLatest'
  <2> SUFFICES ASSUME NEW q \in Procs, NEW i \in DOMAIN ctl'[q].batch
               PROVE  ctl'[q].batch[i] = <<q, emitted'[q] - Len(ctl'[q].batch) + i>>
      BY DEF CarriesLatest
  <2>1. CASE q = p
    <3>1. i \in 1..k /\ ctl'[q].batch[i] = <<p, emitted[p] + i>>
        BY <2>1, <1>1, <1>3, <1>5
    <3>2. emitted'[q] = emitted[p] + k /\ Len(ctl'[q].batch) = k
        BY <2>1, <1>1, <1>3, <1>5
    <3>3. \A m, n : m = emitted[p] + k /\ n = k => m - n + i = emitted[p] + i
        BY <3>1, <1>0, <1>2
    <3>4. emitted'[q] - Len(ctl'[q].batch) + i = emitted[p] + i
        BY ONLY <3>2, <3>3
    <3> QED BY <3>1, <3>4, <2>1, Zenon
  <2>2. CASE q # p
      BY <2>2, <1>5 DEF AgentInv, CarriesLatest
  <2> QED BY <2>1, <2>2
<1>9. CountedFirst'
  <2>1. \A e \in Events : e[1] \in Procs /\ e[2] \in Nat
      BY AgentAssumption
  <2>2. \A e \in Events : counted[e] > 0 => e[2] <= emitted'[e[1]]
      BY <2>1, <1>0, <1>2, <1>5 DEF AgentInv, CountedFirst
  <2> QED BY <2>2, <1>6 DEF AgentInv, CountedFirst
<1>10. ASSUME NEW q \in Procs PROVE OnItsWay(q)' /\ InOwnCall(q)'
  <2>1. CASE q = p
    <3>1. ASSUME NEW e \in Elems(b) PROVE counted[e] = 0
      <4>1. PICK i \in 1..k : e = <<p, emitted[p] + i>>
          BY <1>1 DEF Elems
      <4>2. e \in Events
          BY <1>1, BatchIsSeq DEF Elems
      <4>3. ~(e[2] <= emitted[e[1]])
          BY <4>1, <1>0, <1>2
      <4>4. counted[e] \in 0..1 /\ ~(counted[e] > 0)
          BY <4>2, <4>3, <1>2 DEF AgentInv, CountedFirst
      <4> QED BY <4>4
    <3>2. ~active(call[p])
        BY DEF AgentInv, InOwnCall, Loaded
    <3>3. ctl'[p].step = "record" /\ ctl'[p].batch = b
        BY <1>3, <1>5
    <3> QED BY <2>1, <3>1, <3>2, <3>3, <1>6 DEF OnItsWay, InOwnCall, active
  <2>2. CASE q # p
      BY <2>2, <1>5, <1>6 DEF AgentInv, OnItsWay, InOwnCall, active
  <2> QED BY <2>1, <2>2
<1> QED BY <1>7, <1>8, <1>9, <1>10 DEF AgentSide

(* RecordEvents: the batch is counted, once, and is new to every sink.     *)
LEMMA RecordMove ==
    ASSUME AgentInv, NEW p \in Procs, RecordEvents(p)
    PROVE  AgentSide'
<1> DEFINE b == Elems(ctl[p].batch)
           c == [ctl[p] EXCEPT !.step = "deliver", !.sink = 1]
<1>1. /\ ctl[p].step = "record"
      /\ counted' = [e \in Events |-> IF e \in b THEN counted[e] + 1 ELSE counted[e]]
      /\ ctl' = [ctl EXCEPT ![p] = c]
      /\ UNCHANGED <<call, asked, views, due, emitted, dropped, settled, open, exited>>
    BY DEF RecordEvents, at, deliveryVars
<1>2. /\ ctl \in [Procs -> CtlFrame] /\ counted \in [Events -> 0..1]
      /\ emitted \in [Procs -> Nat] /\ settled \in [Sinks -> SUBSET Events]
      /\ asked \in [Sinks -> SUBSET Events]
    BY DEF AgentInv, AgentTypes, CtlFrame, DeliveryInv, TypeOK
<1>3. /\ c \in CtlFrame /\ c.step = "deliver" /\ c.sink = 1 /\ c.batch = ctl[p].batch
  <2>1. 1 \in 0..(NSinks + 1) /\ "deliver" \in Steps
      BY DeliveryAssumption DEF Steps
  <2> QED BY <2>1, <1>2 DEF CtlFrame
<1> HIDE DEF c
<1>4. \A q \in Procs : ctl'[q] = IF q = p THEN c ELSE ctl[q]
    BY <1>1, <1>2
<1>5. \A e \in b : counted[e] = 0 /\ e \in Events /\ e[1] = p /\ e[2] <= emitted[p]
    BY <1>1, Carried DEF AgentInv, OnItsWay, Loaded
<1>6. counted' \in [Events -> 0..1] /\ \A e \in Events : counted'[e] > 0 <=> counted[e] > 0 \/ e \in b
  <2> HIDE DEF b
  <2>1. \A e \in Events : counted'[e] = IF e \in b THEN counted[e] + 1 ELSE counted[e]
      BY <1>1
  <2>2. \A e \in Events : counted[e] \in 0..1 /\ (e \in b => counted[e] = 0)
      BY <1>2, <1>5
  <2>3. \A e \in Events : counted'[e] \in 0..1 /\ (counted'[e] > 0 <=> counted[e] > 0 \/ e \in b)
      BY <2>1, <2>2
  <2> QED BY <2>3, <1>1
<1>7. AgentTypes'
  <2>1. ctl' \in [Procs -> CtlFrame]
      BY <1>1, <1>2, <1>3
  <2>2. \A q \in Procs : ctl'[q].batch = <<>> <=> ctl'[q].step \notin Loaded
      BY <1>1, <1>3, <1>4 DEF AgentInv, AgentTypes, Loaded
  <2> QED BY <2>1, <2>2, <1>1, <1>6 DEF AgentInv, AgentTypes, CtlFrame, Loaded
<1>8. CarriesLatest'
    BY <1>1, <1>3, <1>4 DEF AgentInv, CarriesLatest
<1>9. CountedFirst'
    BY <1>1, <1>2, <1>5, <1>6 DEF AgentInv, CountedFirst
<1>10. ASSUME NEW q \in Procs PROVE OnItsWay(q)' /\ InOwnCall(q)'
  <2>1. CASE q = p
    <3>1. \A s \in Sinks : b \cap settled[s] = {} /\ b \cap asked[s] = {}
        BY <1>2, <1>5 DEF AgentInv, CountedFirst
    <3>2. \A e \in b : counted'[e] > 0
        BY <1>5, <1>6
    <3>3. ~active(call[p])
        BY <1>1 DEF AgentInv, InOwnCall
    <3>4. ctl'[p].step = "deliver" /\ ctl'[p].batch = ctl[p].batch /\ ctl'[p].sink = 1
        BY <1>3, <1>4
    <3> QED BY <2>1, <3>1, <3>2, <3>3, <3>4, <1>1 DEF OnItsWay, InOwnCall, active
  <2>2. CASE q # p
    <3>1. ctl'[q] = ctl[q]
        BY <2>2, <1>4
    <3>2. Elems(ctl[q].batch) \cap b = {}
        BY <2>2, CarriedApart DEF AgentInv
    <3>3. ctl[q].step \in Loaded => Elems(ctl[q].batch) \subseteq Events
        BY Carried DEF AgentInv
    <3>4. OnItsWay(q)'
        BY <3>1, <3>2, <3>3, <1>1, <1>2, <1>6 DEF AgentInv, OnItsWay, Loaded
    <3> QED BY <3>1, <3>4, <1>1 DEF AgentInv, InOwnCall, active
  <2> QED BY <2>1, <2>2
<1> QED BY <1>7, <1>8, <1>9, <1>10 DEF AgentSide

(* StartDelivery: the sink is asked for the batch, and the call is its own.*)
LEMMA StartMove ==
    ASSUME AgentInv, NEW p \in Procs, StartDelivery(p)
    PROVE  AgentSide'
<1> DEFINE b == Elems(ctl[p].batch)
           s == ctl[p].sink
           c == [ctl[p] EXCEPT !.step = "await"]
           f == enter(s, ctl[p].batch)
<1>1. /\ ctl[p].step = "deliver" /\ s \in Sinks
      /\ ctl' = [ctl EXCEPT ![p] = c]
      /\ call' = [call EXCEPT ![p] = f]
      /\ asked' = [asked EXCEPT ![s] = @ \cup b]
      /\ UNCHANGED <<views, due, emitted, counted, dropped, settled, open, exited>>
    BY DEF StartDelivery, at, goto, Call
<1>2. /\ ctl \in [Procs -> CtlFrame] /\ asked \in [Sinks -> SUBSET Events]
      /\ call \in [Procs -> Frame \cup {noFrame}]
    BY DEF AgentInv, AgentTypes, CtlFrame, DeliveryInv, TypeOK
<1>3. /\ c \in CtlFrame /\ c.step = "await" /\ c.sink = s /\ c.batch = ctl[p].batch
    BY <1>2 DEF CtlFrame, Steps
<1>4. f.pc # "idle" /\ f.batch = ctl[p].batch /\ f.sink = s
    BY DEF enter
<1> HIDE DEF c, f
<1>5. /\ \A q \in Procs : ctl'[q] = IF q = p THEN c ELSE ctl[q]
      /\ \A q \in Procs : call'[q] = IF q = p THEN f ELSE call[q]
      /\ \A t \in Sinks : asked'[t] = IF t = s THEN asked[t] \cup b ELSE asked[t]
    BY <1>1, <1>2
<1>6. AgentTypes'
  <2>1. ctl' \in [Procs -> CtlFrame]
      BY <1>1, <1>2, <1>3
  <2>2. \A q \in Procs : ctl'[q].batch = <<>> <=> ctl'[q].step \notin Loaded
      BY <1>1, <1>3, <1>5 DEF AgentInv, AgentTypes, Loaded
  <2> QED BY <2>1, <2>2, <1>1 DEF AgentInv, AgentTypes, CtlFrame, Loaded
<1>7. CarriesLatest'
    BY <1>1, <1>3, <1>5 DEF AgentInv, CarriesLatest
<1>8. CountedFirst'
  <2>1. \A e \in b : counted[e] > 0
      BY <1>1 DEF AgentInv, OnItsWay
  <2> QED BY <2>1, <1>1, <1>5 DEF AgentInv, CountedFirst
<1>9. ASSUME NEW q \in Procs PROVE OnItsWay(q)' /\ InOwnCall(q)'
  <2>1. CASE q = p
    <3>1. /\ ctl'[p].step = "await" /\ ctl'[p].batch = ctl[p].batch /\ ctl'[p].sink = s
          /\ s \in Nat
        BY <1>1, <1>3, <1>5, DeliveryAssumption DEF Sinks
    <3>2. OnItsWay(p)
        BY DEF AgentInv
    <3>3. ASSUME NEW t \in Sinks, t > s PROVE asked'[t] = asked[t]
      <4>1. t # s
          BY <3>1, <3>3, DeliveryAssumption DEF Sinks
      <4> QED BY <4>1, <1>5
    <3>4. /\ s > 0 /\ \A e \in b : counted[e] > 0
          /\ \A t \in Sinks : t >= s => b \cap settled[t] = {}
          /\ \A t \in Sinks : t > s => b \cap asked'[t] = {}
        BY <3>2, <3>3, <1>1 DEF OnItsWay
    <3>5. OnItsWay(p)'
        BY <3>1, <3>4, <1>1 DEF OnItsWay
    <3> QED BY <2>1, <3>1, <3>5, <1>4, <1>5 DEF InOwnCall
  <2>2. CASE q # p
    <3>1. ctl'[q] = ctl[q] /\ call'[q] = call[q]
        BY <2>2, <1>5
    <3>2. Elems(ctl[q].batch) \cap b = {}
        BY <2>2, CarriedApart DEF AgentInv
    <3>3. OnItsWay(q)'
        BY <3>1, <3>2, <1>1, <1>5 DEF AgentInv, OnItsWay
    <3> QED BY <3>1, <3>3 DEF AgentInv, InOwnCall, active
  <2> QED BY <2>1, <2>2
<1> QED BY <1>6, <1>7, <1>8, <1>9 DEF AgentSide

(* DeliveryStep: only a goroutine that waits is in a call, and the call    *)
(* keeps its batch and its sink.                                           *)
LEMMA CallMove ==
    ASSUME AgentInv, NEW p \in Procs, DeliveryStep(p)
    PROVE  AgentSide' /\ ctl[p].step = "await" /\ UNCHANGED <<asked, ctxDone>>
<1>1. Step(p) /\ UNCHANGED agentVars
    BY DEF DeliveryStep
<1>2. UNCHANGED <<ctl, views, due, emitted, counted, dropped, settled, open, exited>>
    BY <1>1 DEF agentVars
<1>3. /\ call \in [Procs -> Frame \cup {noFrame}] /\ ctxDone \in BOOLEAN
      /\ active(call[p])
    BY <1>1 DEF AgentInv, DeliveryInv, TypeOK, Step, CheckContext, StartSleep, Wake, Post,
                PostAccepted, PostAnswerLost, PostFailed, active
<1>4. call[p] \in Frame /\ Busy(call[p])
    BY <1>3 DEF AgentInv, DeliveryInv, TypeOK, Busy, active
<1>5. ctl[p].step = "await"
    BY <1>3 DEF AgentInv, InOwnCall
<1>6. PICK c \in Frame : /\ call' = [call EXCEPT ![p] = c]
                         /\ c.pc # "idle" /\ c.sink = call[p].sink /\ c.batch = call[p].batch
  <2>1. CASE CheckContext(p)
      BY <2>1, <1>3, <1>4, HeadType DEF CheckContext
  <2>2. CASE Wake(p)
    <3> DEFINE c == [call[p] EXCEPT !.pc = "emit"]
    <3>1. call' = [call EXCEPT ![p] = c]
        BY <2>2 DEF Wake
    <3>2. /\ c \in Frame /\ c.pc = "emit" /\ c.sink = call[p].sink
          /\ c.batch = call[p].batch
        BY <1>4 DEF Frame, Pcs
    <3> HIDE DEF c
    <3> QED BY <3>1, <3>2
  <2>3. CASE StartSleep(p)
    <3> DEFINE c == [call[p] EXCEPT !.pc = "sleep"]
    <3>1. call' = [call EXCEPT ![p] = c]
        BY <2>3 DEF StartSleep
    <3>2. /\ c \in Frame /\ c.pc = "sleep" /\ c.sink = call[p].sink
          /\ c.batch = call[p].batch
        BY <1>4 DEF Frame, Pcs
    <3> HIDE DEF c
    <3> QED BY <3>1, <3>2
  <2>4. CASE PostAccepted(p)
      BY <2>4, <1>4, AcceptedType DEF PostAccepted
  <2>5. CASE PostAnswerLost(p) \/ PostFailed(p)
      BY <2>5, <1>4, RefusedType DEF PostAnswerLost, PostFailed
  <2> QED BY <2>1, <2>2, <2>3, <2>4, <2>5, <1>1 DEF Step, Post
<1>7. UNCHANGED <<asked, ctxDone>>
    BY <1>1 DEF Step, CheckContext, StartSleep, Wake, Post, PostAccepted, PostAnswerLost, PostFailed
<1>8. \A q \in Procs : call'[q] = IF q = p THEN c ELSE call[q]
    BY <1>3, <1>6
<1>9. AgentTypes' /\ CarriesLatest' /\ CountedFirst'
    BY <1>2, <1>7 DEF AgentInv, AgentTypes, CarriesLatest, CountedFirst
<1>10. ASSUME NEW q \in Procs PROVE OnItsWay(q)' /\ InOwnCall(q)'
  <2>1. OnItsWay(q)'
      BY <1>2, <1>7 DEF AgentInv, OnItsWay
  <2>2. InOwnCall(q)'
    <3>1. InOwnCall(q)
        BY DEF AgentInv
    <3> QED BY <3>1, <1>2, <1>5, <1>6, <1>8 DEF InOwnCall, active
  <2> QED BY <2>1, <2>2
<1> QED BY <1>5, <1>7, <1>9, <1>10 DEF AgentSide

(* FinishDelivery: the batch is settled at this sink only, and the loop    *)
(* goes on with the next.                                                  *)
LEMMA FinishMove ==
    ASSUME AgentInv, NEW p \in Procs, FinishDelivery(p)
    PROVE  AgentSide'
<1> DEFINE b == Elems(ctl[p].batch)
           s == ctl[p].sink
           c == [ctl[p] EXCEPT !.step = "deliver", !.sink = s + 1]
           n == NameOf[s]
<1>1. /\ ctl[p].step = "await" /\ returned(call[p])
      /\ RecordDropped(p)
      /\ ctl' = [ctl EXCEPT ![p] = c]
      /\ settled' = [settled EXCEPT ![s] = @ \cup b]
      /\ UNCHANGED <<call, asked, views, due, emitted, counted, open, exited>>
    BY DEF FinishDelivery, at, deliveryVars
<1>2. /\ ctl \in [Procs -> CtlFrame] /\ settled \in [Sinks -> SUBSET Events]
      /\ dropped \in [Names -> Nat]
    BY DEF AgentInv, AgentTypes, CtlFrame
<1>3. s \in Sinks /\ s \in Nat
  <2>1. s \in Sinks
      BY <1>1 DEF AgentInv, InOwnCall, DeliveryInv, Frame
  <2> QED BY <2>1, DeliveryAssumption DEF Sinks
<1>4. /\ c \in CtlFrame /\ c.step = "deliver" /\ c.sink = s + 1 /\ c.batch = ctl[p].batch
  <2> DEFINE t == s + 1
  <2>1. t \in 0..(NSinks + 1) /\ "deliver" \in Steps
      BY <1>3, DeliveryAssumption DEF Steps, Sinks
  <2> HIDE DEF t
  <2>2. [ctl[p] EXCEPT !.step = "deliver", !.sink = t] \in CtlFrame
      BY <2>1, <1>2 DEF CtlFrame
  <2> QED BY <2>2, <1>2 DEF t, CtlFrame
<1> HIDE DEF c
<1>5. /\ \A q \in Procs : ctl'[q] = IF q = p THEN c ELSE ctl[q]
      /\ \A t \in Sinks : settled'[t] = IF t = s THEN settled[t] \cup b ELSE settled[t]
    BY <1>1, <1>2
<1>6. /\ b \subseteq Events /\ Len(ctl[p].batch) \in Nat
    BY <1>1, Carried DEF AgentInv, Loaded
<1>7. AgentTypes'
  <2>1. ctl' \in [Procs -> CtlFrame]
      BY <1>1, <1>2, <1>4
  <2>2. \A q \in Procs : ctl'[q].batch = <<>> <=> ctl'[q].step \notin Loaded
      BY <1>1, <1>4, <1>5 DEF AgentInv, AgentTypes, Loaded
  <2>3. settled' \in [Sinks -> SUBSET Events]
      BY <1>1, <1>2, <1>3, <1>6
  <2>4. dropped' \in [Names -> Nat]
    <3>1. n \in Names
        BY <1>3, AgentAssumption
    <3>2. dropped[n] \in Nat /\ dropped[n] + Len(ctl[p].batch) \in Nat
        BY <3>1, <1>2, <1>6
    <3>3. dropped' = [dropped EXCEPT ![n] = dropped[n] + Len(ctl[p].batch)]
          \/ dropped' = [dropped EXCEPT ![n] = dropped[n]]
        BY <1>1 DEF RecordDropped
    <3> QED BY <3>1, <3>2, <3>3, <1>2
  <2> QED BY <2>1, <2>2, <2>3, <2>4, <1>1 DEF AgentInv, AgentTypes, CtlFrame, Loaded
<1>8. CarriesLatest'
    BY <1>1, <1>4, <1>5 DEF AgentInv, CarriesLatest
<1>9. CountedFirst'
  <2>1. \A e \in b : counted[e] > 0
      BY <1>1 DEF AgentInv, OnItsWay
  <2> QED BY <2>1, <1>1, <1>5 DEF AgentInv, CountedFirst
<1>10. ASSUME NEW q \in Procs PROVE OnItsWay(q)' /\ InOwnCall(q)'
  <2>1. CASE q = p
    <3>1. /\ ctl'[p].step = "deliver" /\ ctl'[p].batch = ctl[p].batch
          /\ ctl'[p].sink = s + 1
        BY <1>4, <1>5
    <3>2. /\ \A e \in b : counted[e] > 0
          /\ \A t \in Sinks : t >= s => b \cap settled[t] = {}
          /\ \A t \in Sinks : t > s => b \cap asked[t] = {}
        BY <1>1 DEF AgentInv, OnItsWay
    <3>3. ASSUME NEW t \in Sinks, t >= s + 1
          PROVE  b \cap settled'[t] = {} /\ b \cap asked[t] = {}
      <4>1. t # s /\ t >= s /\ t > s
          BY <3>3, <1>3, DeliveryAssumption DEF Sinks
      <4> QED BY <4>1, <3>2, <1>5
    <3>4. ASSUME NEW t \in Sinks, t > s + 1 PROVE t >= s + 1
        BY <3>4, <1>3, DeliveryAssumption DEF Sinks
    <3>5. s + 1 > 0 /\ s + 1 >= s + 1
        BY <1>3
    <3>6. OnItsWay(p)'
        BY <3>1, <3>2, <3>3, <3>4, <3>5, <1>1 DEF OnItsWay
    <3> QED BY <2>1, <3>1, <3>6, <1>1 DEF InOwnCall, returned, active
  <2>2. CASE q # p
    <3>1. ctl'[q] = ctl[q]
        BY <2>2, <1>5
    <3>2. Elems(ctl[q].batch) \cap b = {}
        BY <2>2, CarriedApart DEF AgentInv
    <3>3. OnItsWay(q)'
        BY <3>1, <3>2, <1>1, <1>5 DEF AgentInv, OnItsWay
    <3> QED BY <3>1, <3>3, <1>1 DEF AgentInv, InOwnCall, active
  <2> QED BY <2>1, <2>2
<1> QED BY <1>7, <1>8, <1>9, <1>10 DEF AgentSide

(* A goroutine at an idle step goes to another one.                        *)
LEMMA GotoMove ==
    ASSUME AgentInv, NEW p \in Procs, NEW t \in Steps \ Loaded,
           ctl[p].step \notin Loaded, goto(p, t),
           views' \in [Views -> 0..(Gens - 1)], due' \in BOOLEAN,
           UNCHANGED <<deliveryVars, emitted, counted, dropped, settled, open, exited>>
    PROVE  AgentSide'
<1> DEFINE c == [ctl[p] EXCEPT !.step = t]
<1>1. ctl[p] \in CtlFrame /\ ctl[p].batch = <<>> /\ ctl[p].step # "await"
    BY DEF AgentInv, AgentTypes, CtlFrame, Loaded
<1>2. c \in CtlFrame /\ c.step = t /\ c.batch = <<>>
    BY <1>1 DEF CtlFrame
<1>3. ctl' = [ctl EXCEPT ![p] = c]
    BY DEF goto
<1> HIDE DEF c
<1> QED BY <1>1, <1>2, <1>3, IdleMove

(* The three publishing steps and the collection show polls.               *)
LEMMA ViewsType ==
    ASSUME AgentInv, NEW v \in Views
    PROVE  /\ [views EXCEPT ![v] = views.compat] \in [Views -> 0..(Gens - 1)]
           /\ [views EXCEPT !.compat = nextGen(@)] \in [Views -> 0..(Gens - 1)]
<1>1. views \in [Views -> 0..(Gens - 1)] /\ Gens \in Nat \ {0}
    BY AgentAssumption DEF AgentInv, AgentTypes
<1>2. "compat" \in Views
    BY DEF Views
<1>3. views.compat \in 0..(Gens - 1)
    BY <1>1, <1>2
<1>4. (views.compat + 1) % Gens \in 0..(Gens - 1)
    BY <1>1, <1>3
<1> QED BY <1>1, <1>2, <1>3, <1>4 DEF nextGen

(* Evaluate without events is over.                                        *)
LEMMA EvaluateNothing ==
    ASSUME AgentInv, Evaluate(0)
    PROVE  AgentSide' /\ UNCHANGED emitted
<1> DEFINE c == [ctl[Tick] EXCEPT !.step = "select", !.batch = <<>>]
<1>0. Tick \in Procs /\ 0 \in 0..MaxBatch
    BY AgentAssumption, DeliveryAssumption
<1>1. /\ ctl[Tick] \in CtlFrame /\ ctl[Tick].step = "evaluate"
      /\ emitted \in [Procs -> Nat] /\ views \in [Views -> 0..(Gens - 1)] /\ due \in BOOLEAN
    BY <1>0 DEF AgentInv, AgentTypes, CtlFrame, Evaluate, at
<1>2. nextEvents(Tick, 0) = <<>>
    BY <1>0, NextEvents DEF Evaluate, AgentInv
<1>3. UNCHANGED emitted
    BY <1>0, <1>1 DEF Evaluate
<1>4. ctl' = [ctl EXCEPT ![Tick] = c]
    BY <1>2 DEF Evaluate
<1>5. c \in CtlFrame /\ c.step = "select" /\ c.batch = <<>>
    BY <1>1 DEF CtlFrame, Steps
<1>6. UNCHANGED <<deliveryVars, counted, dropped, settled, open, exited>> /\ UNCHANGED <<views, due>>
    BY DEF Evaluate
<1> HIDE DEF c
<1>7. "select" \in Steps \ Loaded /\ ctl[Tick].step # "await"
    BY <1>1 DEF Steps, Loaded
<1> QED BY <1>0, <1>1, <1>3, <1>4, <1>5, <1>6, <1>7, IdleMove

(* The end of the loop over the webhooks.                                  *)
LEMMA EndMove ==
    ASSUME AgentInv, NEW p \in Procs, EndDelivery(p)
    PROVE  AgentSide'
<1> DEFINE c == [ctl[p] EXCEPT !.step = "select", !.batch = <<>>, !.sink = 0]
<1>1. /\ ctl[p] \in CtlFrame /\ ctl[p].step = "deliver"
      /\ views \in [Views -> 0..(Gens - 1)] /\ due \in BOOLEAN
    BY DEF AgentInv, AgentTypes, CtlFrame, EndDelivery, at
<1>2. 0 \in 0..(NSinks + 1) /\ "select" \in Steps \ Loaded
    BY DeliveryAssumption DEF Steps, Loaded
<1>3. c \in CtlFrame /\ c.step = "select" /\ c.batch = <<>>
    BY <1>1, <1>2 DEF CtlFrame
<1>4. ctl' = [ctl EXCEPT ![p] = c]
    BY DEF EndDelivery
<1>5. /\ UNCHANGED <<deliveryVars, emitted, counted, dropped, settled, open, exited>>
      /\ UNCHANGED <<views, due>>
    BY DEF EndDelivery
<1> HIDE DEF c
<1> QED BY <1>1, <1>2, <1>3, <1>4, <1>5, IdleMove

(* AgentInv is inductive: one step per action.                             *)
LEMMA AgentInvInductive == AgentInv /\ [ANext]_vars => AgentInv'
<1> SUFFICES ASSUME AgentInv, [ANext]_vars PROVE AgentInv'
    OBVIOUS
<1>0. /\ Tick \in Procs /\ Drains \subseteq Procs
      /\ views \in [Views -> 0..(Gens - 1)] /\ due \in BOOLEAN /\ exited \in BOOLEAN
      /\ open \subseteq Drains
    BY AgentAssumption DEF Drains, AgentInv, AgentTypes
<1>1. ASSUME AgentSide' PROVE AgentInv'
    BY <1>1, DeliveryPart DEF AgentInv, AgentSide
<1>2. CASE UNCHANGED vars
    BY <1>0, <1>1, <1>2, OutsideMove DEF vars, agentVars, deliveryVars
<1>3. ASSUME NEW p \in Procs, Work(p) PROVE AgentInv'
    BY <1>1, <1>3, RecordMove, StartMove, CallMove, FinishMove, EndMove DEF Work
<1>4. CASE Collect
    BY <1>0, <1>1, <1>4, GotoMove, ViewsType DEF Collect, at, Steps, Loaded, Views
<1>5. CASE StoreSnapshot \/ UpdateMetrics \/ IngestHistory
    BY <1>0, <1>1, <1>5, GotoMove, ViewsType
       DEF StoreSnapshot, UpdateMetrics, IngestHistory, Publish, at, Steps, Loaded, Views
<1>6. ASSUME NEW k \in 0..MaxBatch, Evaluate(k) PROVE AgentInv'
  <2>1. CASE k = 0
      BY <2>1, <1>1, <1>6, EvaluateNothing
  <2>2. CASE k # 0
    <3>1. k \in 1..MaxBatch /\ ctl[Tick].step \notin Loaded
        BY <2>2, <1>6, DeliveryAssumption DEF Evaluate, at, Loaded
    <3>2. ctl' = [ctl EXCEPT ![Tick].step = "record", ![Tick].batch = nextEvents(Tick, k)]
        BY <2>2, <1>6 DEF Evaluate
    <3> QED BY <3>1, <3>2, <1>0, <1>1, <1>6, EmitMove DEF Evaluate
  <2> QED BY <2>1, <2>2
<1>7. CASE TickWork
    BY <1>0, <1>3, <1>4, <1>5, <1>6, <1>7 DEF TickWork
<1>8. CASE SelectTick
    BY <1>0, <1>1, <1>8, GotoMove DEF SelectTick, at, Steps, Loaded
<1>9. ASSUME NEW p \in Procs, SelectDone(p) PROVE AgentInv'
    BY <1>0, <1>1, <1>9, GotoMove DEF SelectDone, at, Steps, Loaded
<1>10. ASSUME NEW p \in Drains, DrainEnds(p) PROVE AgentInv'
    BY <1>0, <1>1, <1>10, GotoMove DEF DrainEnds, at, Steps, Loaded
<1>11. CASE TickerFires \/ Exit \/ \E p \in Drains : SourceCloses(p)
    BY <1>0, <1>1, <1>11, OutsideMove DEF TickerFires, Exit, SourceCloses, deliveryVars
<1>12. CASE Signal
    BY <1>0, <1>1, <1>12, OutsideMove DEF Signal, Cancel, agentVars
<1>13. ASSUME NEW p \in Drains, Receive(p) PROVE AgentInv'
  <2>1. 1 \in 1..MaxBatch /\ ctl[p].step \notin Loaded /\ p \in Procs
      BY <1>0, <1>13, DeliveryAssumption, AgentAssumption DEF Receive, at, Loaded
  <2>2. emitted[p] + 1 <= Budget[p]
    <3>1. emitted[p] \in Nat /\ Budget[p] \in Nat /\ emitted[p] < Budget[p]
        BY <2>1, <1>13, AgentAssumption DEF Receive, AgentInv, AgentTypes
    <3> QED BY <3>1
  <2> QED BY <2>1, <2>2, <1>1, <1>13, EmitMove DEF Receive
<1> QED BY <1>0, <1>2, <1>3, <1>7, <1>8, <1>9, <1>10, <1>11, <1>12, <1>13 DEF ANext

(* At the start the loop collects, the drains wait, nothing is counted.    *)
LEMMA AgentInvInit == AInit => AgentInv
<1> SUFFICES ASSUME AInit PROVE AgentInv
    OBVIOUS
<1>1. DeliveryInv /\ ReceiptInv
    BY DeliveryInvInit, ReceiptInvInit DEF AInit
<1>2. /\ ctl \in [Procs -> CtlFrame]
      /\ \A p \in Procs : ctl[p].batch = <<>> /\ ctl[p].step \in {"collect", "select"}
    BY DeliveryAssumption DEF AInit, CtlFrame, Steps
<1>3. AgentTypes
  <2>1. views \in [Views -> 0..(Gens - 1)]
      BY AgentAssumption DEF AInit, Views
  <2>2. emitted \in [Procs -> Nat] /\ \A p \in Procs : emitted[p] <= Budget[p]
      BY AgentAssumption DEF AInit
  <2>3. \A p \in Procs : ctl[p].batch = <<>> <=> ctl[p].step \notin {"record", "deliver", "await"}
      BY <1>2
  <2>4. /\ counted \in [Events -> 0..1] /\ dropped \in [Names -> Nat]
        /\ settled \in [Sinks -> SUBSET Events]
      BY DEF AInit
  <2>5. due \in BOOLEAN /\ exited \in BOOLEAN /\ open \subseteq Drains
      BY DEF AInit
  <2> QED BY <1>2, <2>1, <2>2, <2>3, <2>4, <2>5 DEF AgentTypes, CtlFrame
<1>4. CarriesLatest
    BY <1>2 DEF CarriesLatest
<1>5. CountedFirst
    BY DEF AInit, Init, CountedFirst
<1>6. ASSUME NEW p \in Procs PROVE OnItsWay(p) /\ InOwnCall(p)
    BY <1>2 DEF AInit, Init, noFrame, OnItsWay, InOwnCall, active
<1> QED BY <1>1, <1>3, <1>4, <1>5, <1>6 DEF AgentInv

(* AgentInv is an invariant of the agent: every call passes a batch of     *)
(* distinct, counted events that its sink was never asked for before, and  *)
(* the frames of DeliverWithRetry belong to the goroutines that wait.      *)
THEOREM AgentInvHolds == ASpec => []AgentInv
BY AgentInvInit, AgentInvInductive, PTL DEF ASpec

(* Every goroutine is at a step of its function, the loop over the sinks   *)
(* stays within their number and no event is counted twice.                *)
THEOREM AgentTypeCorrect == ASpec => []ATypeOK
<1>1. AgentInv => ATypeOK
    BY DEF AgentInv, DeliveryInv, AgentTypes, ATypeOK, Steps, Views
<1> QED BY <1>1, AgentInvHolds, PTL

(* In the agent, too, a nil error of DeliverWithRetry is a receipt.        *)
THEOREM AgentNilMeansReceived == ASpec => []OkMeansReceived
<1>1. AgentInv => OkMeansReceived
    BY DEF AgentInv, DeliveryInv, OkMeansReceived, Progress
<1> QED BY <1>1, AgentInvHolds, PTL

(* In the agent, too, no retry multiplies an event beyond the attempts.    *)
THEOREM AgentReceiptsBounded == ASpec => []ReceiptsBounded
<1>1. AgentInv => ReceiptsBounded
    BY ReceiptInvBounds DEF AgentInv
<1> QED BY <1>1, AgentInvHolds, PTL

(* From the signal to the end of the process a goroutine of the agent      *)
(* begins at most one sleep and ends at most one post, whatever sinks its  *)
(* batch has still to go to and whatever polls and sources raise.          *)
THEOREM AgentCancelBoundsWork == ASpec => []LateWorkBounded
<1>1. AInit => LateInv
    BY LateInvInit DEF AInit
<1>2. AgentInv /\ LateInv /\ [ANext]_vars => LateInv'
    BY DeliverySide, LateInvInductive DEF AgentInv
<1> QED BY <1>1, <1>2, AgentInvHolds, LateInvBounds, PTL DEF ASpec

-----------------------------------------------------------------------------
(***************************************************************************)
(* The four views.                                                         *)
(***************************************************************************)

(* Apart from Collect and the publishing steps, no step of the agent       *)
(* touches a view, and none takes Tick out of the publishing steps.        *)
LEMMA ViewsStay ==
    ASSUME AgentInv, [ANext]_vars, ~Collect, ~StoreSnapshot, ~UpdateMetrics, ~IngestHistory
    PROVE  /\ UNCHANGED views
           /\ \/ ctl'[Tick].step = ctl[Tick].step
              \/ ctl[Tick].step \notin {"snapshot", "metrics", "history"}
<1> DEFINE Fine == /\ UNCHANGED views
                   /\ \/ ctl'[Tick].step = ctl[Tick].step
                      \/ ctl[Tick].step \notin {"snapshot", "metrics", "history"}
<1>0. Tick \in Procs /\ Drains \subseteq Procs /\ ctl \in [Procs -> CtlFrame]
    BY AgentAssumption DEF Drains, AgentInv, AgentTypes, CtlFrame
<1>1. ASSUME NEW p \in Procs, Work(p) PROVE Fine
  <2>1. CASE RecordEvents(p)
      BY <2>1, <1>0 DEF RecordEvents, at
  <2>2. CASE StartDelivery(p)
      BY <2>2, <1>0 DEF StartDelivery, at, goto
  <2>3. CASE DeliveryStep(p)
      BY <2>3 DEF DeliveryStep, agentVars
  <2>4. CASE FinishDelivery(p)
      BY <2>4, <1>0 DEF FinishDelivery, at
  <2>5. CASE EndDelivery(p)
      BY <2>5, <1>0 DEF EndDelivery, at
  <2> QED BY <1>1, <2>1, <2>2, <2>3, <2>4, <2>5 DEF Work
<1>2. ASSUME NEW k \in 0..MaxBatch, Evaluate(k) PROVE Fine
    BY <1>2 DEF Evaluate, at
<1>3. CASE TickerFires \/ Signal \/ Exit \/ UNCHANGED vars \/ \E p \in Drains : SourceCloses(p)
    BY <1>3 DEF TickerFires, Signal, Exit, SourceCloses, vars, agentVars
<1>4. CASE SelectTick
    BY <1>4 DEF SelectTick, at
<1>5. ASSUME NEW p \in Procs, SelectDone(p) \/ DrainEnds(p) PROVE Fine
    BY <1>0, <1>5 DEF SelectDone, DrainEnds, at, goto
<1>6. ASSUME NEW p \in Procs, Receive(p) PROVE Fine
    BY <1>0, <1>6 DEF Receive, at
<1> QED BY <1>0, <1>1, <1>2, <1>3, <1>4, <1>5, <1>6 DEF ANext, TickWork

(* ViewsInv is inductive: Collect leaves the three other views one poll    *)
(* behind, and each publishing step takes one of them out of stale.        *)
LEMMA ViewsInvInductive == AgentInv /\ ViewsInv /\ [ANext]_vars => ViewsInv'
<1> SUFFICES ASSUME AgentInv, ViewsInv, [ANext]_vars PROVE ViewsInv'
    OBVIOUS
<1>0. /\ Tick \in Procs /\ ctl \in [Procs -> CtlFrame]
      /\ views \in [Views -> 0..(Gens - 1)]
    BY AgentAssumption DEF AgentInv, AgentTypes, CtlFrame
<1>1. CASE Collect
  <2>1. ctl[Tick].step = "collect" /\ ctl'[Tick].step = "snapshot"
      BY <1>0, <1>1 DEF Collect, at, goto
  <2>2. \A v \in Views : views[v] = views.compat
      BY <2>1 DEF ViewsInv, stale
  <2>3. views' = [views EXCEPT !.compat = nextGen(@)]
      BY <1>1 DEF Collect
  <2>4. \A v \in Views : views'[v] = IF v = "compat" THEN nextGen(views.compat) ELSE views.compat
      BY <2>2, <2>3, <1>0
  <2>5. "compat" \in Views /\ Views \ {"compat"} = stale("snapshot")
      BY DEF Views, stale
  <2> QED BY <2>1, <2>4, <2>5 DEF ViewsInv, nextGen
<1>2. ASSUME NEW v \in Views \ {"compat"}, NEW from, NEW to, Publish(v, from, to),
             stale(from) \subseteq stale(to) \cup {v}
      PROVE  ViewsInv'
  <2>1. ctl[Tick].step = from /\ ctl'[Tick].step = to
      BY <1>0, <1>2 DEF Publish, at, goto
  <2>2. \A w \in Views : views'[w] = IF w = v THEN views.compat ELSE views[w]
      BY <1>0, <1>2 DEF Publish
  <2>3. "compat" \in Views
      BY DEF Views
  <2>4. views'.compat = views.compat
      BY <2>2, <2>3
  <2>5. ASSUME NEW w \in Views
        PROVE  \/ views'[w] = views'.compat
               \/ w \in stale(to) /\ views'.compat = nextGen(views'[w])
      BY <2>1, <2>2, <2>4, <1>2 DEF ViewsInv
  <2> QED BY <2>1, <2>5 DEF ViewsInv, nextGen
<1>3. CASE StoreSnapshot
    BY <1>2, <1>3 DEF StoreSnapshot, stale, Views
<1>4. CASE UpdateMetrics
    BY <1>2, <1>4 DEF UpdateMetrics, stale, Views
<1>5. CASE IngestHistory
    BY <1>2, <1>5 DEF IngestHistory, stale, Views
<1>6. CASE ~Collect /\ ~StoreSnapshot /\ ~UpdateMetrics /\ ~IngestHistory
  <2>1. /\ UNCHANGED views
        /\ \/ ctl'[Tick].step = ctl[Tick].step
           \/ ctl[Tick].step \notin {"snapshot", "metrics", "history"}
      BY <1>6, ViewsStay
  <2>2. ctl[Tick].step \notin {"snapshot", "metrics", "history"} => stale(ctl[Tick].step) = {}
      BY DEF stale
  <2> QED BY <2>1, <2>2 DEF ViewsInv, nextGen
<1> QED BY <1>1, <1>3, <1>4, <1>5, <1>6

(* The snapshot, the metrics, history and the compat exporters show the    *)
(* same poll outside the publishing steps of Tick, however long a delivery *)
(* hangs and whatever the drains do, for every number of goroutines.       *)
THEOREM ViewsAlwaysAgree == ASpec => []ViewsAgree
<1>1. AInit => ViewsInv
    BY DEF AInit, ViewsInv, Views
<1>2. AgentInv /\ ViewsInv => ViewsAgree
  <2> SUFFICES ASSUME AgentInv, ViewsInv PROVE ViewsAgree
      OBVIOUS
  <2>1. DOMAIN views = Views
      BY DEF AgentInv, AgentTypes
  <2>2. ctl[Tick].step \notin {"snapshot", "metrics", "history"} => stale(ctl[Tick].step) = {}
      BY DEF stale
  <2> QED BY <2>1, <2>2 DEF ViewsInv, ViewsAgree
<1> QED BY <1>1, <1>2, AgentInvHolds, ViewsInvInductive, PTL DEF ASpec

-----------------------------------------------------------------------------
(***************************************************************************)
(* What the receivers, the drop counter and the event counter see.         *)
(***************************************************************************)

(* Only three actions touch the logs and the counters.                     *)
LEMMA CounterSteps ==
    ASSUME [ANext]_vars
    PROVE  \/ UNCHANGED <<received, counted, settled, dropped>>
           \/ \E p \in Procs : RecordEvents(p) \/ DeliveryStep(p) \/ FinishDelivery(p)
<1> DEFINE Same == UNCHANGED <<received, counted, settled, dropped>>
           Three == \E p \in Procs : RecordEvents(p) \/ DeliveryStep(p) \/ FinishDelivery(p)
<1>0. Tick \in Procs /\ Drains \subseteq Procs
    BY AgentAssumption DEF Drains
<1>1. ASSUME NEW p \in Procs, Work(p) PROVE Same \/ Three
  <2>1. CASE StartDelivery(p) \/ EndDelivery(p)
      BY <2>1 DEF StartDelivery, Call, EndDelivery, deliveryVars
  <2> QED BY <1>1, <2>1 DEF Work
<1>2. CASE TickWork
    BY <1>0, <1>1, <1>2 DEF TickWork, Collect, StoreSnapshot, UpdateMetrics, IngestHistory,
                            Publish, Evaluate, deliveryVars
<1>3. CASE TickerFires \/ SelectTick \/ Signal \/ Exit \/ UNCHANGED vars
    BY <1>3 DEF TickerFires, SelectTick, Signal, Cancel, Exit, vars, agentVars, deliveryVars
<1>4. ASSUME NEW p \in Procs, SelectDone(p) \/ Receive(p) \/ SourceCloses(p) \/ DrainEnds(p)
      PROVE  Same
    BY <1>4 DEF SelectDone, Receive, SourceCloses, DrainEnds, deliveryVars
<1> QED BY <1>0, <1>1, <1>2, <1>3, <1>4 DEF ANext

(* A step inside a call posts an event of the goroutine's batch to its     *)
(* sink, or nothing.                                                       *)
LEMMA PostOfBatch ==
    ASSUME AgentInv, NEW p \in Procs, DeliveryStep(p)
    PROVE  /\ ctl[p].step = "await" /\ ctl[p].sink \in Sinks
           /\ UNCHANGED <<counted, settled, dropped>>
           /\ \/ UNCHANGED received
              \/ /\ call[p].pc = "emit" /\ call[p].at \in DOMAIN ctl[p].batch
                 /\ received' = [received EXCEPT ![ctl[p].sink] =
                                      Append(@, ctl[p].batch[call[p].at])]
<1>1. ctl[p].step = "await"
    BY CallMove
<1>2. /\ call[p].pc # "idle" /\ call[p] \in Frame
      /\ call[p].batch = ctl[p].batch /\ call[p].sink = ctl[p].sink /\ ctl[p].sink \in Sinks
    BY <1>1 DEF AgentInv, InOwnCall, DeliveryInv, Frame
<1>3. UNCHANGED <<counted, settled, dropped>>
    BY DEF DeliveryStep, agentVars
<1>4. call[p].pc = "emit" => call[p].at \in DOMAIN ctl[p].batch
    BY <1>1, <1>2, Carried DEF AgentInv, DeliveryInv, TypeOK, active, Loaded
<1>5. CASE CheckContext(p) \/ StartSleep(p) \/ Wake(p) \/ PostFailed(p)
    BY <1>1, <1>2, <1>3, <1>5 DEF CheckContext, StartSleep, Wake, PostFailed
<1>6. CASE PostAccepted(p) \/ PostAnswerLost(p)
    BY <1>1, <1>2, <1>3, <1>4, <1>6 DEF PostAccepted, PostAnswerLost, posting
<1> QED BY <1>5, <1>6 DEF DeliveryStep, Step, Post

(* The log of a receiver gains at most the event that is posted.           *)
LEMMA LogOfStep ==
    ASSUME AgentInv, NEW p \in Procs, DeliveryStep(p), ~UNCHANGED received,
           NEW s \in Sinks
    PROVE  LET e == ctl[p].batch[call[p].at] IN
           /\ e \in Events /\ e \in Elems(ctl[p].batch)
           /\ received[s] \in Seq(Events)
           /\ received'[s] = IF s = ctl[p].sink THEN Append(received[s], e) ELSE received[s]
           /\ Elems(received'[s]) = IF s = ctl[p].sink THEN Elems(received[s]) \cup {e}
                                                       ELSE Elems(received[s])
<1> DEFINE e == ctl[p].batch[call[p].at]
<1>1. /\ ctl[p].step = "await" /\ ctl[p].sink \in Sinks
      /\ call[p].at \in DOMAIN ctl[p].batch
      /\ received' = [received EXCEPT ![ctl[p].sink] = Append(@, e)]
    BY PostOfBatch
<1>2. e \in Events /\ e \in Elems(ctl[p].batch)
    BY <1>1, Carried DEF AgentInv, Loaded, Elems
<1>3. received \in [Sinks -> Seq(Events)]
    BY DEF AgentInv, DeliveryInv, TypeOK
<1> HIDE DEF e
<1>4. received'[s] = IF s = ctl[p].sink THEN Append(received[s], e) ELSE received[s]
    BY <1>1, <1>3
<1>5. Elems(Append(received[s], e)) = Elems(received[s]) \cup {e}
  <2>1. Elems(Append(received[s], e)) \subseteq Elems(received[s]) \cup {e}
      BY <1>2, <1>3 DEF Elems
  <2> QED BY <2>1, <1>2, <1>3, AppendElems
<1> QED BY <1>2, <1>3, <1>4, <1>5 DEF e

(* LossInv is inductive: a failed batch adds at most its length to what is *)
(* missing, and just that is added to the counter; a batch that was        *)
(* answered with nil, and a late receipt, add nothing.                     *)
LEMMA LossInvInductive == AgentInv /\ LossInv /\ [ANext]_vars => LossInv'
<1> SUFFICES ASSUME AgentInv, LossInv, [ANext]_vars, NEW n \in Names
             PROVE  (IsFiniteSet(Missing(n)) /\ Cardinality(Missing(n)) <= dropped[n])'
    BY DEF LossInv
<1> DEFINE Goal == IsFiniteSet(Missing(n)') /\ Cardinality(Missing(n)') <= dropped'[n]
<1>0. /\ IsFiniteSet(Missing(n)) /\ Cardinality(Missing(n)) <= dropped[n]
      /\ Cardinality(Missing(n)) \in Nat /\ dropped[n] \in Nat
      /\ settled \in [Sinks -> SUBSET Events] /\ dropped \in [Names -> Nat]
    BY FS_CardinalityType DEF LossInv, AgentInv, AgentTypes
<1>1. ASSUME Missing(n)' \subseteq Missing(n), dropped'[n] = dropped[n] PROVE Goal
  <2>1. /\ IsFiniteSet(Missing(n)') /\ Cardinality(Missing(n)') <= Cardinality(Missing(n))
        /\ Cardinality(Missing(n)') \in Nat
      BY <1>0, <1>1, FS_Subset, FS_CardinalityType
  <2> QED BY <2>1, <1>0, <1>1
<1>2. CASE UNCHANGED <<received, settled, dropped>>
    BY <1>1, <1>2 DEF Missing
<1>3. ASSUME NEW p \in Procs, DeliveryStep(p) PROVE Goal
  <2>1. CASE UNCHANGED received
      BY <2>1, <1>2, <1>3, PostOfBatch
  <2>2. CASE ~UNCHANGED received
    <3>1. UNCHANGED <<settled, dropped>>
        BY <1>3, PostOfBatch
    <3>2. \A s \in Sinks : Elems(received[s]) \subseteq Elems(received'[s])
        BY <2>2, <1>3, LogOfStep
    <3>3. Missing(n)' \subseteq Missing(n)
        BY <3>1, <3>2 DEF Missing
    <3> QED BY <3>1, <3>3, <1>1
  <2> QED BY <2>1, <2>2
<1>4. ASSUME NEW p \in Procs, FinishDelivery(p) PROVE Goal
  <2> DEFINE s == ctl[p].sink
             b == Elems(ctl[p].batch)
             New == {s} \X b
  <2>1. /\ ctl[p].step = "await" /\ returned(call[p]) /\ RecordDropped(p)
        /\ settled' = [settled EXCEPT ![s] = @ \cup b] /\ UNCHANGED received
      BY <1>4 DEF FinishDelivery, at, deliveryVars
  <2>2. /\ call[p].pc # "idle" /\ call[p].batch = ctl[p].batch /\ call[p].sink = s
        /\ s \in Sinks
      BY <2>1 DEF AgentInv, InOwnCall, DeliveryInv, Frame
  <2>3. /\ NameOf[s] \in Names /\ Len(ctl[p].batch) \in Nat
        /\ DOMAIN ctl[p].batch = 1..Len(ctl[p].batch)
      BY <2>1, <2>2, Carried, AgentAssumption DEF AgentInv, Loaded
  <2>4. \A t \in Sinks : settled'[t] = IF t = s THEN settled[t] \cup b ELSE settled[t]
      BY <2>1, <1>0
  <2>5. CASE call[p].pc = "ok"
    <3>1. b \subseteq Elems(received[s])
        BY <2>2, <2>5 DEF AgentInv, DeliveryInv, Progress
    <3>2. dropped' = dropped
        BY <2>1, <2>5, <1>0, <2>3 DEF RecordDropped
    <3>3. Missing(n)' \subseteq Missing(n)
        BY <3>1, <2>1, <2>4 DEF Missing
    <3> QED BY <3>2, <3>3, <1>1
  <2>6. CASE call[p].pc = "failed"
    <3>1. dropped'[n] = IF n = NameOf[s] THEN dropped[n] + Len(ctl[p].batch) ELSE dropped[n]
        BY <2>1, <2>3, <2>6, <1>0 DEF RecordDropped
    <3>2. CASE n # NameOf[s]
      <4>1. Missing(n)' \subseteq Missing(n)
          BY <3>2, <2>1, <2>4 DEF Missing
      <4> QED BY <4>1, <3>1, <3>2, <1>1
    <3>3. CASE n = NameOf[s]
      <4>1. Missing(n)' \subseteq Missing(n) \cup New
          BY <2>1, <2>4 DEF Missing
      <4>2. IsFiniteSet(New) /\ Cardinality(New) <= Len(ctl[p].batch) /\ Cardinality(New) \in Nat
        <5> DEFINE f == [i \in 1..Len(ctl[p].batch) |-> <<s, ctl[p].batch[i]>>]
        <5>1. IsFiniteSet(1..Len(ctl[p].batch)) /\ Cardinality(1..Len(ctl[p].batch)) = Len(ctl[p].batch)
            BY <2>3, FS_Interval
        <5>2. f \in Surjection(1..Len(ctl[p].batch), New)
            BY <2>3 DEF Surjection, Elems
        <5> HIDE DEF f, New
        <5> QED BY <5>1, <5>2, FS_Surjection, FS_CardinalityType
      <4> HIDE DEF New
      <4>3. /\ IsFiniteSet(Missing(n) \cup New)
            /\ Cardinality(Missing(n) \cup New) <= Cardinality(Missing(n)) + Cardinality(New)
            /\ Cardinality(Missing(n) \cup New) \in Nat
        <5>1. IsFiniteSet(Missing(n) \cap New) /\ Cardinality(Missing(n) \cap New) \in Nat
            BY <1>0, FS_Intersection, FS_CardinalityType
        <5>2. /\ IsFiniteSet(Missing(n) \cup New)
              /\ Cardinality(Missing(n) \cup New) =
                     Cardinality(Missing(n)) + Cardinality(New) - Cardinality(Missing(n) \cap New)
            BY <1>0, <4>2, FS_Union
        <5>3. Cardinality(Missing(n) \cup New) \in Nat
            BY <5>2, FS_CardinalityType
        <5> QED BY <5>1, <5>2, <5>3, <4>2, <1>0
      <4>4. /\ IsFiniteSet(Missing(n)')
            /\ Cardinality(Missing(n)') <= Cardinality(Missing(n) \cup New)
            /\ Cardinality(Missing(n)') \in Nat
          BY <4>1, <4>3, FS_Subset, FS_CardinalityType
      <4> QED BY <4>2, <4>3, <4>4, <3>1, <3>3, <2>3, <1>0
    <3> QED BY <3>2, <3>3
  <2> QED BY <2>1, <2>5, <2>6 DEF returned
<1>5. ASSUME NEW p \in Procs, RecordEvents(p) PROVE Goal
    BY <1>2, <1>5 DEF RecordEvents, deliveryVars
<1> QED BY <1>2, <1>3, <1>4, <1>5, CounterSteps

(* No loss is silent: per label, nodevitals_delivery_dropped_total is at   *)
(* least the number of events that a sink of that label was done with and  *)
(* never received, for any number of sinks that share the label.           *)
THEOREM NoLossIsSilent == ASpec => []NoSilentLoss
<1>1. AInit => LossInv
  <2> SUFFICES ASSUME AInit, NEW n \in Names
               PROVE  IsFiniteSet(Missing(n)) /\ Cardinality(Missing(n)) <= dropped[n]
      BY DEF LossInv
  <2>1. Missing(n) = {} /\ dropped[n] = 0
      BY DEF AInit, Missing
  <2> QED BY <2>1, FS_EmptySet
<1>2. AgentInv /\ LossInv => NoSilentLoss
  <2> SUFFICES ASSUME AgentInv, LossInv, NEW n \in Names
               PROVE  dropped[n] >= Cardinality(Missing(n))
      BY DEF NoSilentLoss, Missing
  <2>1. /\ Cardinality(Missing(n)) \in Nat /\ dropped[n] \in Nat
        /\ Cardinality(Missing(n)) <= dropped[n]
      BY FS_CardinalityType DEF LossInv, AgentInv, AgentTypes
  <2> QED BY <2>1
<1> QED BY <1>1, <1>2, AgentInvHolds, LossInvInductive, PTL DEF ASpec

-----------------------------------------------------------------------------
(***************************************************************************)
(* The order of first receipts.                                            *)
(***************************************************************************)

(* An append keeps a log in order when the event is in it already, or when *)
(* no later event of the same goroutine is.                                *)
LEMMA AppendInOrder ==
    ASSUME NEW r \in Seq(Events), NEW e \in Events, LogInOrder(r),
           e \notin Elems(r) => \A d \in Elems(r) : ~(d[1] = e[1] /\ e[2] < d[2])
    PROVE  LogInOrder(Append(r, e))
<1> DEFINE a == Append(r, e)
           n == Len(r) + 1
<1>1. /\ n \in Nat /\ Len(r) \in Nat /\ DOMAIN r = 1..Len(r) /\ DOMAIN a = 1..n
      /\ a[n] = e /\ \A i \in 1..Len(r) : a[i] = r[i]
    OBVIOUS
<1>2. Elems(a) = Elems(r) \cup {e}
  <2>1. Elems(a) \subseteq Elems(r) \cup {e}
      BY <1>1 DEF Elems
  <2> QED BY <2>1, AppendElems
<1> HIDE DEF a
<1>3. ASSUME NEW i \in DOMAIN r PROVE 1..(i - 1) \subseteq 1..Len(r) /\ i \in DOMAIN a /\ a[i] = r[i]
    BY <1>1
<1>4. ASSUME NEW x \in Elems(a) PROVE \E i \in DOMAIN a : IsFirst(a, i, x)
  <2>1. CASE x \in Elems(r)
    <3>1. PICK i \in DOMAIN r : IsFirst(r, i, x)
        BY <2>1 DEF LogInOrder
    <3>2. IsFirst(a, i, x)
        BY <3>1, <1>1, <1>3 DEF IsFirst
    <3> QED BY <3>2, <1>3
  <2>2. CASE x \notin Elems(r)
    <3>1. x = e
        BY <2>2, <1>2, <1>4
    <3>2. \A j \in 1..(n - 1) : j \in DOMAIN r /\ a[j] = r[j]
        BY <1>1
    <3>3. \A j \in 1..(n - 1) : a[j] # x
        BY <3>2, <2>2 DEF Elems
    <3>4. n \in DOMAIN a
        BY <1>1
    <3> QED BY <3>1, <3>3, <3>4, <1>1 DEF IsFirst
  <2> QED BY <2>1, <2>2
<1>5. ASSUME NEW i \in DOMAIN a, NEW d \in Elems(a), d[1] = a[i][1], d[2] < a[i][2]
      PROVE  \E j \in 1..(i - 1) : a[j] = d
  <2>1. CASE i \in DOMAIN r
    <3>1. a[i] = r[i] /\ r[i] \in Elems(r)
        BY <2>1, <1>3 DEF Elems
    <3>2. d \in Elems(r)
        BY <3>1, <1>2, <1>5
    <3>3. PICK j \in 1..(i - 1) : r[j] = d
        BY <2>1, <3>1, <3>2, <1>5 DEF LogInOrder
    <3>4. a[j] = r[j]
        BY <2>1, <3>3, <1>1, <1>3
    <3> QED BY <3>3, <3>4
  <2>2. CASE i \notin DOMAIN r
    <3>1. i = n /\ a[i] = e
        BY <2>2, <1>1
    <3>2. CASE d = e
      <4>1. e[2] \in Nat
          BY AgentAssumption
      <4> QED BY <4>1, <3>1, <3>2, <1>5
    <3>3. CASE d # e
      <4>1. PICK j \in DOMAIN r : r[j] = d
          BY <3>3, <1>2 DEF Elems
      <4>2. j \in 1..(i - 1) /\ a[j] = d
          BY <4>1, <3>1, <1>1
      <4> QED BY <4>2
    <3> QED BY <3>2, <3>3
  <2> QED BY <2>1, <2>2
<1>6. LogInOrder(a)
    BY <1>4, <1>5 DEF LogInOrder
<1> QED BY <1>6 DEF a

(* OrderInv is inductive: when an event is posted for the first time, no   *)
(* later one of its batch was received (ReceiptInv), and none of a later   *)
(* batch was even emitted.                                                 *)
LEMMA OrderInvInductive == AgentInv /\ OrderInv /\ [ANext]_vars => OrderInv'
<1> SUFFICES ASSUME AgentInv, OrderInv, [ANext]_vars PROVE OrderInv'
    OBVIOUS
<1>1. CASE UNCHANGED received
    BY <1>1 DEF OrderInv
<1>2. ASSUME NEW p \in Procs, DeliveryStep(p), ~UNCHANGED received PROVE OrderInv'
  <2> SUFFICES ASSUME NEW s \in Sinks PROVE LogInOrder(received'[s])
      BY DEF OrderInv
  <2> DEFINE b == ctl[p].batch
             k == call[p].at
             e == b[k]
             r == received[s]
  <2>0. LogInOrder(r)
      BY DEF OrderInv
  <2>1. /\ e \in Events /\ r \in Seq(Events)
        /\ received'[s] = IF s = ctl[p].sink THEN Append(r, e) ELSE r
      BY <1>2, LogOfStep
  <2>2. CASE s # ctl[p].sink
      BY <2>0, <2>1, <2>2
  <2>3. CASE s = ctl[p].sink
    <3>1. /\ ctl[p].step = "await" /\ call[p].pc = "emit" /\ k \in DOMAIN b
        BY <1>2, PostOfBatch
    <3>2. call[p].batch = b /\ call[p].sink = s
        BY <3>1, <2>3 DEF AgentInv, InOwnCall
    <3>3. /\ b \in Seq(Events) /\ Len(b) \in Nat /\ DOMAIN b = 1..Len(b)
          /\ emitted[p] \in Nat
          /\ \A i \in DOMAIN b : b[i] \in Events /\ b[i] = <<p, emitted[p] - Len(b) + i>>
        BY <3>1, Carried DEF AgentInv, Loaded, AgentTypes
    <3>4. ASSUME e \notin Elems(r), NEW d \in Elems(r), d[1] = e[1], e[2] < d[2]
          PROVE  FALSE
      <4>1. d \in Events /\ counted[d] > 0
        <5>1. d \in asked[s] /\ asked[s] \in SUBSET Events
            BY <3>4 DEF AgentInv, ReceiptInv, Asked, DeliveryInv, TypeOK
        <5> QED BY <5>1 DEF AgentInv, CountedFirst
      <4>2. e = <<p, emitted[p] - Len(b) + k>>
          BY <3>1, <3>3
      <4>3. d[1] = p /\ d[2] \in Nat /\ d = <<d[1], d[2]>>
        <5>1. PICK q \in Procs : d \in {q} \X (1..Budget[q])
            BY <4>1, AgentAssumption
        <5>2. Budget[q] \in Nat
            BY AgentAssumption
        <5> QED BY <5>1, <5>2, <4>2, <3>4
      <4>4. d[2] <= emitted[p]
          BY <4>1, <4>3 DEF AgentInv, CountedFirst
      <4> DEFINE m == d[2] - emitted[p] + Len(b)
      <4>5. m \in DOMAIN b /\ k < m /\ k \in Nat /\ emitted[p] - Len(b) + m = d[2]
        <5>1. e[2] = emitted[p] - Len(b) + k
            BY <4>2
        <5>2. k \in 1..Len(b) /\ emitted[p] - Len(b) + k < d[2]
            BY <5>1, <3>1, <3>3, <3>4
        <5>3. ASSUME NEW l \in Nat, NEW n \in Nat, NEW x \in Nat, NEW i \in 1..l,
                     n - l + i < x, x <= n
              PROVE  /\ x - n + l \in 1..l /\ i < x - n + l /\ i \in Nat
                     /\ n - l + (x - n + l) = x
            BY <5>3
        <5> QED BY <5>2, <5>3, <3>3, <4>3, <4>4
      <4> HIDE DEF m
      <4>6. b[m] = d
          BY <4>3, <4>5, <3>3
      <4>7. count(r, d) + posted(call[p], k) <= count(r, e) + posted(call[p], m)
          BY <4>5, <4>6, <3>1, <3>2 DEF AgentInv, ReceiptInv, Counts
      <4>8. posted(call[p], k) = 0 /\ posted(call[p], m) = 0
        <5>1. m \in Nat /\ ~(m < k) /\ ~(k < k)
            BY <4>5, <3>3
        <5> QED BY <5>1 DEF posted
      <4>9. count(r, e) = 0 /\ count(r, d) \in Nat
          BY <2>1, <3>4, CountAppend
      <4>10. count(r, d) > 0
        <5> DEFINE I == {i \in DOMAIN r : r[i] = d}
        <5>1. IsFiniteSet(I) /\ I # {}
          <6>1. IsFiniteSet(1..Len(r)) /\ DOMAIN r = 1..Len(r)
              BY <2>1, FS_Interval
          <6> QED BY <6>1, <3>4, FS_Subset DEF Elems
        <5>2. Cardinality(I) # 0 /\ Cardinality(I) \in Nat
            BY <5>1, FS_EmptySet, FS_CardinalityType
        <5> QED BY <5>2 DEF count
      <4> QED BY <4>7, <4>8, <4>9, <4>10
    <3>5. LogInOrder(Append(r, e))
        BY <3>4, <2>0, <2>1, AppendInOrder
    <3> QED BY <3>5, <2>1, <2>3
  <2> QED BY <2>2, <2>3
<1>3. ASSUME NEW p \in Procs, RecordEvents(p) \/ FinishDelivery(p) PROVE UNCHANGED received
    BY <1>3 DEF RecordEvents, FinishDelivery, deliveryVars
<1> QED BY <1>1, <1>2, <1>3, CounterSteps

(* The first receipts of a goroutine's events are in the order of their    *)
(* emission at every sink, whatever is lost, retried or abandoned, for any *)
(* number of goroutines, events and attempts.                              *)
THEOREM FirstReceiptsAlwaysInOrder == ASpec => []FirstReceiptsInOrder
<1>1. AInit => OrderInv
    BY DEF AInit, Init, OrderInv, LogInOrder, Elems
<1>2. AgentInv /\ OrderInv => FirstReceiptsInOrder
  <2> SUFFICES ASSUME AgentInv, OrderInv, NEW s \in Sinks,
                      NEW d \in Elems(received[s]), NEW e \in Elems(received[s]),
                      d[1] = e[1], d[2] < e[2]
               PROVE  firstAt(s, d) < firstAt(s, e)
      BY DEF FirstReceiptsInOrder
  <2> DEFINE r == received[s]
  <2>1. LogInOrder(r) /\ r \in Seq(Events)
      BY DEF OrderInv, AgentInv, DeliveryInv, TypeOK
  <2>2. ASSUME NEW x \in Elems(r) PROVE IsFirst(r, firstAt(s, x), x)
    <3>1. \E i \in DOMAIN r : r[i] = x /\ \A j \in 1..(i - 1) : r[j] # x
        BY <2>1, <2>2 DEF LogInOrder, IsFirst
    <3> QED BY <3>1 DEF firstAt, IsFirst
  <2> DEFINE i == firstAt(s, d)
             k == firstAt(s, e)
  <2>3. IsFirst(r, i, d) /\ IsFirst(r, k, e)
      BY <2>2
  <2> HIDE DEF i, k
  <2>4. PICK j \in 1..(k - 1) : r[j] = d
      BY <2>1, <2>3 DEF LogInOrder, IsFirst
  <2>5. i \in Nat /\ k \in Nat /\ j \in Nat /\ j < k /\ j >= 1
      BY <2>1, <2>3, <2>4 DEF IsFirst
  <2>6. ~(j < i)
      BY <2>3, <2>4, <2>5 DEF IsFirst
  <2>7. i < k
      BY <2>5, <2>6
  <2> QED BY <2>7 DEF i, k
<1> QED BY <1>1, <1>2, AgentInvHolds, OrderInvInductive, PTL DEF ASpec

-----------------------------------------------------------------------------
(***************************************************************************)
(* What the end of the process cuts off.                                   *)
(***************************************************************************)

(* What goroutine p emitted and a sink is not done with is in the batch    *)
(* that p carries, and the loop over the sinks has not passed that sink.   *)
(* A drain carries one event.                                              *)
Left(p) ==
    /\ \A e \in Events, s \in Sinks :
          e[1] = p /\ e[2] <= emitted[p] /\ e \notin settled[s] =>
             /\ ctl[p].step \in Loaded
             /\ e \in Elems(ctl[p].batch)
             /\ ctl[p].step = "record" \/ s >= ctl[p].sink
    /\ p \in Drains /\ ctl[p].step \in Loaded => Len(ctl[p].batch) = 1

LeftInv == /\ exited => ctl[Tick].step = "returned"
           /\ \A p \in Procs : Left(p)

(* Only goroutine p moves, and sinks are never less done than before.      *)
MovesOnly(p) ==
    /\ ~exited /\ ~exited'
    /\ \A q \in Procs \ {p} : ctl'[q] = ctl[q] /\ emitted'[q] = emitted[q]
    /\ \A s \in Sinks : settled[s] \subseteq settled'[s]

LEMMA MoverLeaves ==
    ASSUME LeftInv, NEW p \in Procs, MovesOnly(p), Left(p)'
    PROVE  LeftInv'
<1>1. ASSUME NEW q \in Procs \ {p} PROVE Left(q)'
  <2>1. Left(q) /\ ctl'[q] = ctl[q] /\ emitted'[q] = emitted[q]
      BY DEF LeftInv, MovesOnly
  <2> QED BY <2>1 DEF Left, MovesOnly
<1> QED BY <1>1 DEF LeftInv, MovesOnly

(* A goroutine without a batch goes on without one.                        *)
LEMMA LeftIdle ==
    ASSUME AgentInv, LeftInv, NEW p \in Procs, ~exited,
           ctl[p].step \notin Loaded, ctl'[p].step \notin Loaded,
           \A q \in Procs \ {p} : ctl'[q] = ctl[q],
           UNCHANGED <<emitted, settled, exited>>
    PROVE  LeftInv'
<1>1. MovesOnly(p)
    BY DEF MovesOnly
<1>2. Left(p)'
    BY DEF LeftInv, Left
<1> QED BY <1>1, <1>2, MoverLeaves

(* All that was emitted before is settled; the batch is what is emitted now*)
LEMMA LeftEmit ==
    ASSUME AgentInv, LeftInv, NEW p \in Procs, NEW k \in 1..MaxBatch, ~exited,
           emitted[p] + k <= Budget[p], p \in Drains => k = 1,
           ctl[p].step \notin Loaded,
           emitted' = [emitted EXCEPT ![p] = @ + k],
           ctl' = [ctl EXCEPT ![p].step = "record", ![p].batch = nextEvents(p, k)],
           UNCHANGED <<settled, exited>>
    PROVE  LeftInv'
<1> DEFINE b == nextEvents(p, k)
<1>0. k \in Nat \ {0} /\ k \in 0..MaxBatch
    BY DeliveryAssumption
<1>1. /\ Len(b) = k /\ DOMAIN b = 1..k
      /\ \A i \in 1..k : b[i] = <<p, emitted[p] + i>>
    BY <1>0, NextEvents DEF AgentInv
<1>2. ctl \in [Procs -> CtlFrame] /\ emitted \in [Procs -> Nat]
    BY DEF AgentInv, AgentTypes, CtlFrame
<1>3. /\ ctl'[p].step = "record" /\ ctl'[p].batch = b /\ emitted'[p] = emitted[p] + k
      /\ \A q \in Procs \ {p} : ctl'[q] = ctl[q] /\ emitted'[q] = emitted[q]
    BY <1>2 DEF CtlFrame
<1> HIDE DEF b
<1>4. MovesOnly(p)
    BY <1>3 DEF MovesOnly
<1>5. ASSUME NEW e \in Events, NEW s \in Sinks,
             e[1] = p, e[2] <= emitted'[p], e \notin settled[s]
      PROVE  e \in Elems(b)
  <2>1. PICK q \in Procs : e \in {q} \X (1..Budget[q])
      BY AgentAssumption
  <2>2. e = <<p, e[2]>> /\ e[2] \in Nat
      BY <2>1, <1>5, AgentAssumption
  <2>3. ~(e[2] <= emitted[p])
      BY <1>5 DEF LeftInv, Left
  <2> DEFINE i == e[2] - emitted[p]
  <2>4. i \in 1..k /\ e[2] = emitted[p] + i
      BY <2>2, <2>3, <1>0, <1>2, <1>3, <1>5
  <2>5. b[i] = e
      BY <2>2, <2>4, <1>1
  <2> QED BY <2>4, <2>5, <1>1 DEF Elems
<1>6. Left(p)'
    BY <1>1, <1>3, <1>5 DEF Left, Loaded
<1> QED BY <1>4, <1>6, MoverLeaves

(* Steps that move no goroutine.                                           *)
LEMMA LeftOutside ==
    ASSUME LeftInv, UNCHANGED <<ctl, emitted, settled>>,
           exited' => ctl[Tick].step = "returned"
    PROVE  LeftInv'
BY DEF LeftInv, Left

(* The steps of a delivery: the sinks behind the one at hand are the ones  *)
(* still to do, and a sink is settled when the loop leaves it.             *)
LEMMA LeftWork ==
    ASSUME AgentInv, LeftInv, NEW p \in Procs, Work(p)
    PROVE  LeftInv'
<1>0. /\ ctl \in [Procs -> CtlFrame] /\ settled \in [Sinks -> SUBSET Events]
      /\ Left(p) /\ NSinks \in Nat
    BY DeliveryAssumption DEF AgentInv, AgentTypes, CtlFrame, LeftInv
<1>1. CASE RecordEvents(p)
  <2>1. /\ ctl[p].step = "record" /\ ctl'[p] = [ctl[p] EXCEPT !.step = "deliver", !.sink = 1]
        /\ UNCHANGED <<emitted, settled, exited>> /\ ~exited
        /\ \A q \in Procs \ {p} : ctl'[q] = ctl[q]
      BY <1>0, <1>1 DEF RecordEvents, at
  <2>2. ctl'[p].step = "deliver" /\ ctl'[p].sink = 1 /\ ctl'[p].batch = ctl[p].batch
      BY <2>1, <1>0 DEF CtlFrame
  <2>3. \A s \in Sinks : s >= 1
      BY <1>0 DEF Sinks
  <2>4. Left(p)'
      BY <2>1, <2>2, <2>3, <1>0 DEF Left, Loaded
  <2> QED BY <2>1, <2>4, MoverLeaves DEF MovesOnly
<1>2. CASE StartDelivery(p)
  <2>1. /\ ctl[p].step = "deliver" /\ ctl'[p] = [ctl[p] EXCEPT !.step = "await"]
        /\ UNCHANGED <<emitted, settled, exited>> /\ ~exited
        /\ \A q \in Procs \ {p} : ctl'[q] = ctl[q]
      BY <1>0, <1>2 DEF StartDelivery, at, goto
  <2>2. /\ ctl'[p].step = "await" /\ ctl'[p].sink = ctl[p].sink
        /\ ctl'[p].batch = ctl[p].batch
      BY <2>1, <1>0 DEF CtlFrame
  <2>3. Left(p)'
      BY <2>1, <2>2, <1>0 DEF Left, Loaded
  <2> QED BY <2>1, <2>3, MoverLeaves DEF MovesOnly
<1>3. CASE DeliveryStep(p)
    BY <1>3, LeftOutside DEF DeliveryStep, agentVars
<1>4. CASE FinishDelivery(p)
  <2> DEFINE t == ctl[p].sink
             B == Elems(ctl[p].batch)
  <2>1. /\ ctl[p].step = "await"
        /\ ctl'[p] = [ctl[p] EXCEPT !.step = "deliver", !.sink = @ + 1]
        /\ settled' = [settled EXCEPT ![t] = @ \cup B]
        /\ UNCHANGED <<emitted, exited>> /\ ~exited
        /\ \A q \in Procs \ {p} : ctl'[q] = ctl[q]
      BY <1>0, <1>4 DEF FinishDelivery, at
  <2>2. /\ ctl'[p].step = "deliver" /\ ctl'[p].sink = t + 1 /\ t \in Nat
        /\ ctl'[p].batch = ctl[p].batch
      BY <2>1, <1>0 DEF CtlFrame
  <2>3. \A s \in Sinks : settled'[s] = IF s = t THEN settled[s] \cup B ELSE settled[s]
      BY <2>1, <1>0
  <2> HIDE DEF t
  <2>4. ASSUME NEW e \in Events, NEW s \in Sinks,
               e[1] = p, e[2] <= emitted[p], e \notin settled'[s]
        PROVE  e \in B /\ s >= t + 1
    <3>1. e \notin settled[s] /\ (s = t => e \notin B)
        BY <2>3, <2>4
    <3>2. e \in B /\ s >= t
        BY <3>1, <2>1, <2>4, <1>0 DEF Left, t
    <3> QED BY <3>1, <3>2, <2>2, <1>0 DEF Sinks
  <2>5. Left(p)'
      BY <2>1, <2>2, <2>4, <1>0 DEF Left, Loaded
  <2> QED BY <2>1, <2>3, <2>5, MoverLeaves DEF MovesOnly
<1>5. CASE EndDelivery(p)
  <2>1. /\ ctl[p].step = "deliver" /\ ctl[p].sink \notin Sinks
        /\ ctl'[p] = [ctl[p] EXCEPT !.step = "select", !.batch = <<>>, !.sink = 0]
        /\ UNCHANGED <<emitted, settled, exited>> /\ ~exited
        /\ \A q \in Procs \ {p} : ctl'[q] = ctl[q]
      BY <1>0, <1>5 DEF EndDelivery, at
  <2>2. ctl'[p].step = "select" /\ ctl[p].sink = NSinks + 1
    <3>1. ctl[p].sink \in 0..(NSinks + 1) /\ ctl[p].sink > 0
        BY <2>1, <1>0 DEF AgentInv, OnItsWay, CtlFrame
    <3> QED BY <3>1, <2>1, <1>0 DEF CtlFrame, Sinks
  <2>3. \A s \in Sinks : ~(s >= ctl[p].sink)
      BY <2>2, <1>0 DEF Sinks
  <2>4. Left(p)'
      BY <2>1, <2>2, <2>3, <1>0 DEF Left, Loaded
  <2> QED BY <2>1, <2>4, MoverLeaves DEF MovesOnly
<1> QED BY <1>1, <1>2, <1>3, <1>4, <1>5 DEF Work

(* LeftInv is inductive: one step per action.                              *)
LEMMA LeftInvInductive == AgentInv /\ LeftInv /\ [ANext]_vars => LeftInv'
<1> SUFFICES ASSUME AgentInv, LeftInv, [ANext]_vars PROVE LeftInv'
    OBVIOUS
<1>0. /\ Tick \in Procs /\ Tick \notin Drains /\ Drains \subseteq Procs
      /\ ctl \in [Procs -> CtlFrame] /\ emitted \in [Procs -> Nat]
    BY AgentAssumption DEF Drains, AgentInv, AgentTypes, CtlFrame
<1>1. ASSUME NEW p \in Procs, NEW from \in Steps \ Loaded, NEW to \in Steps \ Loaded,
             at(p, from), goto(p, to), UNCHANGED <<emitted, settled, exited>>
      PROVE  LeftInv'
  <2>1. /\ ctl[p].step = from /\ ctl'[p].step = to /\ ~exited
        /\ \A q \in Procs \ {p} : ctl'[q] = ctl[q]
      BY <1>0, <1>1 DEF at, goto, CtlFrame
  <2> QED BY <2>1, <1>1, LeftIdle
<1>2. CASE Collect \/ StoreSnapshot \/ UpdateMetrics \/ IngestHistory
    BY <1>0, <1>1, <1>2 DEF Collect, StoreSnapshot, UpdateMetrics, IngestHistory, Publish,
                            Steps, Loaded
<1>3. ASSUME NEW k \in 0..MaxBatch, Evaluate(k) PROVE LeftInv'
  <2>1. CASE k = 0
    <3>1. UNCHANGED emitted
        BY <2>1, <1>3, EvaluateNothing
    <3>2. /\ ctl[Tick].step = "evaluate" /\ ctl'[Tick].step = "select" /\ ~exited
          /\ \A q \in Procs \ {Tick} : ctl'[q] = ctl[q]
          /\ UNCHANGED <<settled, exited>>
        BY <2>1, <1>0, <1>3 DEF Evaluate, at, CtlFrame
    <3> QED BY <3>1, <3>2, <1>0, LeftIdle DEF Loaded
  <2>2. CASE k # 0
    <3>1. k \in 1..MaxBatch /\ ctl[Tick].step \notin Loaded /\ ~exited
        BY <2>2, <1>3, DeliveryAssumption DEF Evaluate, at, Loaded
    <3>2. ctl' = [ctl EXCEPT ![Tick].step = "record", ![Tick].batch = nextEvents(Tick, k)]
        BY <2>2, <1>3 DEF Evaluate
    <3> QED BY <3>1, <3>2, <1>0, <1>3, LeftEmit DEF Evaluate
  <2> QED BY <2>1, <2>2
<1>4. CASE SelectTick
    BY <1>0, <1>1, <1>4 DEF SelectTick, Steps, Loaded
<1>5. ASSUME NEW p \in Procs, SelectDone(p) PROVE LeftInv'
    BY <1>1, <1>5 DEF SelectDone, Steps, Loaded
<1>6. ASSUME NEW p \in Drains, DrainEnds(p) PROVE LeftInv'
    BY <1>0, <1>1, <1>6 DEF DrainEnds, Steps, Loaded
<1>7. ASSUME NEW p \in Drains, Receive(p) PROVE LeftInv'
  <2>1. 1 \in 1..MaxBatch /\ ctl[p].step \notin Loaded /\ p \in Procs /\ ~exited
      BY <1>0, <1>7, DeliveryAssumption, AgentAssumption DEF Receive, at, Loaded
  <2>2. emitted[p] + 1 <= Budget[p]
    <3>1. emitted[p] \in Nat /\ Budget[p] \in Nat /\ emitted[p] < Budget[p]
        BY <2>1, <1>0, <1>7, AgentAssumption DEF Receive
    <3> QED BY <3>1
  <2> QED BY <2>1, <2>2, <1>7, LeftEmit DEF Receive
<1>8. CASE TickerFires \/ Exit \/ Signal \/ UNCHANGED vars \/ \E p \in Drains : SourceCloses(p)
  <2>1. UNCHANGED <<ctl, emitted, settled>> /\ (exited' => ctl[Tick].step = "returned")
      BY <1>8 DEF TickerFires, Exit, Signal, SourceCloses, vars, agentVars, at, LeftInv
  <2> QED BY <2>1, LeftOutside
<1> QED BY <1>0, <1>2, <1>3, <1>4, <1>5, <1>6, <1>7, <1>8, LeftWork DEF ANext, TickWork

(* When the process ends, which does not wait for the drains, every event  *)
(* that a poll raised is received or counted as dropped at every sink, and *)
(* so is all but the last event of each source, for any number of sinks,   *)
(* goroutines and events.                                                  *)
THEOREM ExitOnlyCutsDrains == ASpec => []ExitCutsOnlyDrains
<1>1. AInit => LeftInv
  <2> SUFFICES ASSUME AInit PROVE LeftInv
      OBVIOUS
  <2>1. \A p \in Procs : ctl[p].step \notin Loaded /\ emitted[p] = 0
      BY DEF AInit, Loaded
  <2>2. \A e \in Events : e[1] \in Procs /\ ~(e[2] <= 0)
      BY AgentAssumption
  <2> QED BY <2>1, <2>2 DEF AInit, LeftInv, Left
<1>2. AgentInv /\ LeftInv => ExitCutsOnlyDrains
  <2> SUFFICES ASSUME AgentInv, LeftInv, exited, NEW s \in Sinks, NEW e \in Events,
                      e[2] <= emitted[e[1]], e \notin settled[s]
               PROVE  e[1] # Tick /\ e[2] = emitted[e[1]]
      BY DEF ExitCutsOnlyDrains
  <2> DEFINE p == e[1]
  <2>1. p \in Procs
      BY AgentAssumption
  <2>2. ctl[p].step \in Loaded /\ e \in Elems(ctl[p].batch)
      BY <2>1 DEF LeftInv, Left
  <2>3. p # Tick
      BY <2>2 DEF LeftInv, Loaded
  <2>4. Len(ctl[p].batch) = 1
      BY <2>1, <2>2, <2>3 DEF LeftInv, Left, Drains
  <2>5. PICK i \in DOMAIN ctl[p].batch : e = ctl[p].batch[i]
      BY <2>2 DEF Elems
  <2>6. i = 1 /\ e = <<p, emitted[p] - 1 + 1>>
    <3>1. /\ DOMAIN ctl[p].batch = 1..Len(ctl[p].batch)
          /\ ctl[p].batch[i] = <<p, emitted[p] - Len(ctl[p].batch) + i>>
        BY <2>1, <2>2, <2>5, Carried DEF AgentInv
    <3>2. i = 1
        BY <3>1, <2>4, <2>5
    <3> QED BY <3>1, <3>2, <2>4, <2>5
  <2>7. emitted[p] \in Nat
      BY <2>1 DEF AgentInv, AgentTypes
  <2> QED BY <2>3, <2>6, <2>7
<1> QED BY <1>1, <1>2, AgentInvHolds, LeftInvInductive, PTL DEF ASpec

-----------------------------------------------------------------------------
(***************************************************************************)
(* The agent implements AlertChannel.                                      *)
(***************************************************************************)

(* The refinement mapping: what AlertChannel's variables are in the agent. *)
raisedBar == {e \in Events : counted[e] > 0}
gotBar == [s \in Sinks |-> Elems(received[s])]

(* A batch counts for as many events as it is long.                        *)
LEMMA BatchSize ==
    ASSUME NEW b \in Seq(Events), Injective(b)
    PROVE  IsFiniteSet(Elems(b)) /\ Cardinality(Elems(b)) = Len(b)
<1>1. Len(b) \in Nat /\ DOMAIN b = 1..Len(b)
    OBVIOUS
<1>2. IsFiniteSet(1..Len(b)) /\ Cardinality(1..Len(b)) = Len(b)
    BY <1>1, FS_Interval
<1>3. b \in Surjection(1..Len(b), Elems(b))
    BY <1>1 DEF Surjection, Elems
<1>4. b \in Injection(1..Len(b), Elems(b))
    BY <1>1, <1>3 DEF Surjection, Injection, IsInjective, Injective
<1> QED BY <1>2, <1>3, <1>4, FS_Surjection

(* RecordEvents raises its batch, whose events were not raised before.     *)
LEMMA RecordRaises ==
    ASSUME AgentInv, NEW p \in Procs, RecordEvents(p)
    PROVE  \E B \in SUBSET (Events \ raisedBar) :
              /\ raisedBar' = raisedBar \cup B
              /\ UNCHANGED <<gotBar, settled, dropped>>
<1> DEFINE B == Elems(ctl[p].batch)
<1>1. /\ ctl[p].step = "record" /\ UNCHANGED <<received, settled, dropped>>
      /\ counted' = [e \in Events |-> IF e \in B THEN counted[e] + 1 ELSE counted[e]]
    BY DEF RecordEvents, at, deliveryVars
<1>2. /\ B \subseteq Events /\ \A e \in B : counted[e] = 0
      /\ counted \in [Events -> 0..1]
    BY <1>1, Carried DEF AgentInv, Loaded, OnItsWay, AgentTypes
<1> HIDE DEF B
<1>3. \A e \in Events : counted'[e] > 0 <=> counted[e] > 0 \/ e \in B
  <2>1. \A e \in Events : counted[e] \in 0..1 /\ (e \in B => counted[e] = 0)
      BY <1>2
  <2>2. \A e \in Events : counted'[e] = IF e \in B THEN counted[e] + 1 ELSE counted[e]
      BY <1>1
  <2> QED BY <2>1, <2>2
<1>4. raisedBar' = raisedBar \cup B
    BY <1>2, <1>3 DEF raisedBar
<1>5. B \in SUBSET (Events \ raisedBar)
    BY <1>2 DEF raisedBar
<1>6. UNCHANGED <<gotBar, settled, dropped>>
    BY <1>1 DEF gotBar
<1> QED BY <1>4, <1>5, <1>6

(* A post that reaches the receiver is a receipt of a pending event, or a  *)
(* repetition that the abstract channel does not see.                      *)
LEMMA PostReceives ==
    ASSUME AgentInv, NEW p \in Procs, DeliveryStep(p)
    PROVE  /\ UNCHANGED <<raisedBar, settled, dropped>>
           /\ \/ UNCHANGED gotBar
              \/ \E s \in Sinks, e \in Events :
                    /\ e \in raisedBar \ settled[s]
                    /\ gotBar' = [gotBar EXCEPT ![s] = @ \cup {e}]
<1> DEFINE s == ctl[p].sink
           e == ctl[p].batch[call[p].at]
<1>1. /\ ctl[p].step = "await" /\ s \in Sinks /\ UNCHANGED <<counted, settled, dropped>>
    BY PostOfBatch
<1>2. UNCHANGED raisedBar
    BY <1>1 DEF raisedBar
<1>3. CASE UNCHANGED received
    BY <1>1, <1>2, <1>3 DEF gotBar
<1>4. CASE ~UNCHANGED received
  <2>1. /\ e \in Events /\ e \in Elems(ctl[p].batch)
        /\ \A t \in Sinks : Elems(received'[t]) = IF t = s THEN Elems(received[t]) \cup {e}
                                                          ELSE Elems(received[t])
      BY <1>1, <1>4, LogOfStep
  <2>2. e \in raisedBar \ settled[s]
    <3>1. s >= s
        BY <1>1, DeliveryAssumption DEF Sinks
    <3> QED BY <3>1, <2>1, <1>1 DEF AgentInv, OnItsWay, raisedBar
  <2> HIDE DEF e, s
  <2>3. gotBar' = [gotBar EXCEPT ![s] = @ \cup {e}]
    <3>1. gotBar' = [t \in Sinks |-> Elems(received'[t])]
        BY DEF gotBar
    <3>2. [gotBar EXCEPT ![s] = @ \cup {e}] =
              [t \in Sinks |-> IF t = s THEN Elems(received[t]) \cup {e} ELSE Elems(received[t])]
        BY <1>1 DEF gotBar
    <3> QED BY <3>1, <3>2, <2>1
  <2> QED BY <2>1, <2>2, <2>3, <1>1, <1>2
<1> QED BY <1>3, <1>4

(* FinishDelivery settles its batch: received in full, or counted as       *)
(* dropped in full under the label of the sink.                            *)
LEMMA FinishSettles ==
    ASSUME AgentInv, NEW p \in Procs, FinishDelivery(p)
    PROVE  \E s \in Sinks : \E B \in SUBSET (raisedBar \ settled[s]) :
              /\ settled' = [settled EXCEPT ![s] = @ \cup B]
              /\ \/ B \subseteq gotBar[s] /\ UNCHANGED dropped
                 \/ dropped' = [dropped EXCEPT ![NameOf[s]] = @ + Cardinality(B)]
              /\ UNCHANGED <<raisedBar, gotBar>>
<1> DEFINE s == ctl[p].sink
           B == Elems(ctl[p].batch)
<1>1. /\ ctl[p].step = "await" /\ returned(call[p]) /\ RecordDropped(p)
      /\ settled' = [settled EXCEPT ![s] = @ \cup B] /\ UNCHANGED <<received, counted>>
    BY DEF FinishDelivery, at, deliveryVars
<1>2. /\ call[p].pc # "idle" /\ call[p].batch = ctl[p].batch /\ call[p].sink = s
      /\ s \in Sinks
    BY <1>1 DEF AgentInv, InOwnCall, DeliveryInv, Frame
<1>3. /\ B \subseteq Events /\ ctl[p].batch \in Seq(Events) /\ Injective(ctl[p].batch)
    BY <1>1, Carried DEF AgentInv, Loaded
<1>4. B \in SUBSET (raisedBar \ settled[s])
  <2>1. s >= s
      BY <1>2, DeliveryAssumption DEF Sinks
  <2> QED BY <2>1, <1>1, <1>2, <1>3 DEF AgentInv, OnItsWay, raisedBar
<1>5. UNCHANGED <<raisedBar, gotBar>>
    BY <1>1 DEF raisedBar, gotBar
<1>6. CASE call[p].pc = "ok"
  <2>1. B \subseteq gotBar[s]
      BY <1>2, <1>6 DEF AgentInv, DeliveryInv, Progress, gotBar
  <2>2. UNCHANGED dropped
    <3>1. dropped \in [Names -> Nat] /\ NameOf[s] \in Names
        BY <1>2, AgentAssumption DEF AgentInv, AgentTypes
    <3> QED BY <3>1, <1>1, <1>6 DEF RecordDropped
  <2> QED BY <2>1, <2>2, <1>1, <1>2, <1>4, <1>5
<1>7. CASE call[p].pc = "failed"
  <2>1. Cardinality(B) = Len(ctl[p].batch)
      BY <1>3, BatchSize
  <2>2. dropped' = [dropped EXCEPT ![NameOf[s]] = @ + Cardinality(B)]
      BY <2>1, <1>1, <1>7 DEF RecordDropped
  <2> QED BY <2>2, <1>1, <1>2, <1>4, <1>5
<1> QED BY <1>1, <1>6, <1>7 DEF returned

(* AlertChannel counts with the same Cardinality.                          *)
LEMMA SameCardinality == ASSUME NEW B PROVE Channel!Cardinality(B) = Cardinality(B)
BY DEF Channel!Cardinality, Cardinality

(* Every step of the agent is a step of AlertChannel or leaves it alone.   *)
LEMMA ChannelStep == AgentInv /\ [ANext]_vars => [Channel!Next]_(Channel!channelVars)
<1> SUFFICES ASSUME AgentInv, [ANext]_vars
             PROVE  Channel!Next \/ UNCHANGED <<raisedBar, gotBar, settled, dropped>>
    BY DEF Channel!channelVars, raisedBar, gotBar
<1>1. CASE UNCHANGED <<received, counted, settled, dropped>>
    BY <1>1 DEF raisedBar, gotBar
<1>2. ASSUME NEW p \in Procs, RecordEvents(p) PROVE Channel!Next
    BY <1>2, RecordRaises DEF Channel!Next, Channel!Raise, raisedBar, gotBar
<1>3. ASSUME NEW p \in Procs, DeliveryStep(p)
      PROVE  Channel!Next \/ UNCHANGED <<raisedBar, gotBar, settled, dropped>>
    BY <1>3, PostReceives DEF Channel!Next, Channel!Receive, Channel!pending, raisedBar, gotBar
<1>4. ASSUME NEW p \in Procs, FinishDelivery(p) PROVE Channel!Next
  <2>1. PICK s \in Sinks : \E B \in SUBSET (raisedBar \ settled[s]) :
                  /\ settled' = [settled EXCEPT ![s] = @ \cup B]
                  /\ \/ B \subseteq gotBar[s] /\ UNCHANGED dropped
                     \/ dropped' = [dropped EXCEPT ![NameOf[s]] = @ + Cardinality(B)]
                  /\ UNCHANGED <<raisedBar, gotBar>>
      BY <1>4, FinishSettles
  <2>2. PICK B \in SUBSET (raisedBar \ settled[s]) :
                  /\ settled' = [settled EXCEPT ![s] = @ \cup B]
                  /\ \/ B \subseteq gotBar[s] /\ UNCHANGED dropped
                     \/ dropped' = [dropped EXCEPT ![NameOf[s]] = @ + Cardinality(B)]
                  /\ UNCHANGED <<raisedBar, gotBar>>
      BY <2>1
  <2>3. Channel!Settle(s, B)
    <3>1. \/ B \subseteq [t \in Sinks |-> Elems(received[t])][s] /\ UNCHANGED dropped
          \/ dropped' = [dropped EXCEPT ![NameOf[s]] = @ + Cardinality(B)]
        BY <2>2 DEF gotBar
    <3>2. UNCHANGED <<raisedBar, gotBar>>
        BY <2>2
    <3>3. settled' = [settled EXCEPT ![s] = @ \cup B]
        BY <2>2
    <3>4. UNCHANGED <<{e \in Events : counted[e] > 0}, [t \in Sinks |-> Elems(received[t])]>>
        BY <3>2 DEF raisedBar, gotBar
    <3> QED BY <3>1, <3>3, <3>4, SameCardinality DEF Channel!Settle
  <2>4. B \in SUBSET Channel!pending(s)
      BY <2>2 DEF Channel!pending, raisedBar
  <2> QED BY <2>3, <2>4 DEF Channel!Next
<1> QED BY <1>1, <1>2, <1>3, <1>4, CounterSteps

(* The run loop, the drains, their attempts and a cancellation at any      *)
(* point implement AlertChannel, for every value of the constants: nothing *)
(* is posted before it is counted or after it is settled, and no batch is  *)
(* settled that is neither received in full nor counted as dropped in full.*)
THEOREM AgentImplementsChannel == ASpec => ImplementsChannel
<1>1. AInit => Channel!Init
  <2> SUFFICES ASSUME AInit PROVE Channel!Init
      OBVIOUS
  <2>1. raisedBar = {}
      BY DEF AInit, raisedBar
  <2>2. gotBar = [s \in Sinks |-> {}]
    <3>1. \A s \in Sinks : Elems(received[s]) = {}
        BY DEF AInit, Init, Elems
    <3> QED BY <3>1 DEF gotBar
  <2> QED BY <2>1, <2>2 DEF AInit, Channel!Init, raisedBar, gotBar
<1> QED BY <1>1, ChannelStep, AgentInvHolds, PTL DEF ASpec, ImplementsChannel, Channel!Spec

=============================================================================
