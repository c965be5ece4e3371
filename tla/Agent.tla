------------------------------- MODULE Agent --------------------------------
(***************************************************************************)
(* internal/agent/agent.go: the run loop and the drain goroutines.  Tick   *)
(* collects, publishes the samples to three views one after the other,     *)
(* evaluates them, and delivers the events to every webhook in turn; each  *)
(* drain goroutine does the same for the events of its source.  They share *)
(* the metrics registry, the receivers and the context, and nothing else.  *)
(*                                                                         *)
(* Samples are abstracted to the poll that read them, a generation counted *)
(* modulo Gens so that the loop may run for ever; which events a poll      *)
(* raises (EventEngine) and what history keeps of it (HistoryStore) are    *)
(* the subject of other modules.  Event <<p, n>> is the n-th event that    *)
(* goroutine p emits; Budget bounds n.                                     *)
(***************************************************************************)
EXTENDS Delivery

CONSTANTS Tick,       \* the run loop's goroutine, a member of Procs
          Names,      \* values of the sink label
          NameOf,     \* Webhook.Name of each sink: scheme and host only
          Budget,     \* bound on the events each goroutine emits
          Gens        \* polls are numbered modulo Gens

ASSUME AgentAssumption == /\ Tick \in Procs
                          /\ NameOf \in [Sinks -> Names]
                          /\ Budget \in [Procs -> Nat]
                          /\ Gens \in Nat \ {0}
                          /\ MaxBatch > 0
                          /\ Events = UNION {{p} \X (1..Budget[p]) : p \in Procs}

VARIABLES ctl,       \* where each goroutine is, and the batch it delivers
          views,     \* the poll shown by each surface
          due,       \* t.C: the ticker's channel holds at most one tick
          emitted,   \* how many events each goroutine has emitted
          counted,   \* nodevitals_events_total, per event
          dropped,   \* nodevitals_delivery_dropped_total, per sink label
          settled,   \* events whose delivery to a sink has been decided
          open,      \* the sources whose Events() channel is open
          exited     \* main has returned

agentVars == <<ctl, views, due, emitted, counted, dropped, settled, open, exited>>
vars == <<deliveryVars, agentVars>>

Drains == Procs \ {Tick}

at(p, step) == ctl[p].step = step /\ ~exited

goto(p, step) == ctl' = [ctl EXCEPT ![p].step = step]

nextGen(g) == (g + 1) % Gens

AInit == /\ Init
         /\ ctl = [p \in Procs |-> [step |-> IF p = Tick THEN "collect" ELSE "select",
                                    batch |-> <<>>, sink |-> 0]]
         /\ views = [v \in {"compat", "snapshot", "metrics", "history"} |-> 0]
         /\ due = FALSE
         /\ emitted = [p \in Procs |-> 0]
         /\ counted = [e \in Events |-> 0]
         /\ dropped = [n \in Names |-> 0]
         /\ settled = [s \in Sinks |-> {}]
         /\ open = Drains
         /\ exited = FALSE

-----------------------------------------------------------------------------
(***************************************************************************)
(* Tick.  Every collector has run when CollectAll returns; the gpu and     *)
(* smart collectors have by then updated their compat exporters.           *)
(***************************************************************************)
Collect == /\ at(Tick, "collect")
           /\ views' = [views EXCEPT !.compat = nextGen(@)]
           /\ goto(Tick, "snapshot")
           /\ UNCHANGED <<deliveryVars, due, emitted, counted, dropped, settled, open, exited>>

(* The snapshot under a.mu, Metrics.Update under its own lock, and Ingest  *)
(* (which folds the samples into its accumulators even when it returns an  *)
(* error, and Tick only logs that) are three separate steps: a request     *)
(* served between two of them sees two polls.                              *)
Publish(v, from, to) ==
    /\ at(Tick, from)
    /\ views' = [views EXCEPT ![v] = views.compat]
    /\ goto(Tick, to)
    /\ UNCHANGED <<deliveryVars, due, emitted, counted, dropped, settled, open, exited>>

StoreSnapshot == Publish("snapshot", "snapshot", "metrics")

UpdateMetricsBug == Publish("snapshot", "metrics", "history")

UpdateMetrics == Publish("metrics", "metrics", "history")

IngestHistory == Publish("history", "history", "evaluate")

nextEvents(p, k) == [i \in 1..k |-> <<p, emitted[p] + i>>]

EvaluateBug(k) ==
    /\ at(Tick, "evaluate")
    /\ emitted[Tick] + k <= Budget[Tick]
    /\ emitted' = [emitted EXCEPT ![Tick] = @ + k]
    /\ ctl' = [ctl EXCEPT ![Tick].step = "record", ![Tick].batch = nextEvents(Tick, k)]
    /\ UNCHANGED <<deliveryVars, views, due, counted, dropped, settled, open, exited>>

(* Evaluate raises some events, in order; without any the tick is over.    *)
Evaluate(k) ==
    /\ at(Tick, "evaluate")
    /\ emitted[Tick] + k <= Budget[Tick]
    /\ emitted' = [emitted EXCEPT ![Tick] = @ + k]
    /\ ctl' = [ctl EXCEPT ![Tick].step = IF k = 0 THEN "select" ELSE "record",
                          ![Tick].batch = nextEvents(Tick, k)]
    /\ UNCHANGED <<deliveryVars, views, due, counted, dropped, settled, open, exited>>

-----------------------------------------------------------------------------
(***************************************************************************)
(* Drain goroutines: receive one event, or see the channel closed.         *)
(***************************************************************************)
Receive(p) ==
    /\ p \in open /\ at(p, "select") /\ emitted[p] < Budget[p]
    /\ emitted' = [emitted EXCEPT ![p] = @ + 1]
    /\ ctl' = [ctl EXCEPT ![p].step = "record", ![p].batch = nextEvents(p, 1)]
    /\ UNCHANGED <<deliveryVars, views, due, counted, dropped, settled, open, exited>>

SourceCloses(p) ==
    /\ p \in open /\ ~exited
    /\ open' = open \ {p}
    /\ UNCHANGED <<deliveryVars, ctl, views, due, emitted, counted, dropped, settled, exited>>

DrainEnds(p) ==
    /\ p \in Drains \ open /\ at(p, "select")
    /\ goto(p, "returned")
    /\ UNCHANGED <<deliveryVars, views, due, emitted, counted, dropped, settled, open, exited>>

-----------------------------------------------------------------------------
(***************************************************************************)
(* Common to both: count the events, then one call per sink, in order.     *)
(***************************************************************************)
RecordEvents(p) ==
    /\ at(p, "record")
    /\ counted' = [e \in Events |-> IF e \in Elems(ctl[p].batch) THEN counted[e] + 1
                                                                 ELSE counted[e]]
    /\ ctl' = [ctl EXCEPT ![p].step = "deliver", ![p].sink = 1]
    /\ UNCHANGED <<deliveryVars, views, due, emitted, dropped, settled, open, exited>>

(* The range over a.webhooks calls DeliverWithRetry with the whole batch.  *)
StartDelivery(p) ==
    /\ at(p, "deliver") /\ ctl[p].sink \in Sinks
    /\ Call(p, ctl[p].sink, ctl[p].batch)
    /\ goto(p, "await")
    /\ UNCHANGED <<views, due, emitted, counted, dropped, settled, open, exited>>

DeliveryStep(p) == ~exited /\ Step(p) /\ UNCHANGED agentVars

RecordDroppedSetBug(p) == dropped' = [dropped EXCEPT ![NameOf[ctl[p].sink]] =
                          IF call[p].pc = "failed" THEN Len(ctl[p].batch) ELSE @]

RecordDroppedBug(p) == dropped' = [dropped EXCEPT ![NameOf[ctl[p].sink]] =
                                       IF call[p].pc = "failed" THEN @ + 1 ELSE @]

RecordDropped(p) == dropped' = [dropped EXCEPT ![NameOf[ctl[p].sink]] =
                          IF call[p].pc = "failed" THEN @ + Len(ctl[p].batch) ELSE @]

(* An error is logged and the whole batch counted as dropped; either way   *)
(* the loop goes on with the next sink.                                    *)
FinishDeliveryBug(p) ==
    /\ at(p, "await") /\ returned(call[p])
    /\ RecordDropped(p)
    /\ settled' = [settled EXCEPT ![ctl[p].sink] = @ \cup Elems(ctl[p].batch)]
    /\ ctl' = IF call[p].pc = "failed"
                THEN [ctl EXCEPT ![p].step = "select", ![p].batch = <<>>, ![p].sink = 0]
                ELSE [ctl EXCEPT ![p].step = "deliver", ![p].sink = @ + 1]
    /\ UNCHANGED <<deliveryVars, views, due, emitted, counted, open, exited>>

FinishDelivery(p) ==
    /\ at(p, "await") /\ returned(call[p])
    /\ RecordDropped(p)
    /\ settled' = [settled EXCEPT ![ctl[p].sink] = @ \cup Elems(ctl[p].batch)]
    /\ ctl' = [ctl EXCEPT ![p].step = "deliver", ![p].sink = @ + 1]
    /\ UNCHANGED <<deliveryVars, views, due, emitted, counted, open, exited>>

EndDelivery(p) ==
    /\ at(p, "deliver") /\ ctl[p].sink \notin Sinks
    /\ ctl' = [ctl EXCEPT ![p].step = "select", ![p].batch = <<>>, ![p].sink = 0]
    /\ UNCHANGED <<deliveryVars, views, due, emitted, counted, dropped, settled, open, exited>>

-----------------------------------------------------------------------------
(***************************************************************************)
(* Run's select, the ticker, the signal and the end of the process.        *)
(***************************************************************************)
TickerFires == /\ ~due /\ ~exited /\ ctl[Tick].step # "returned"
               /\ due' = TRUE
               /\ UNCHANGED <<deliveryVars, ctl, views, emitted, counted, dropped,
                              settled, open, exited>>

SelectTick == /\ at(Tick, "select") /\ due
              /\ due' = FALSE
              /\ goto(Tick, "collect")
              /\ UNCHANGED <<deliveryVars, views, emitted, counted, dropped,
                             settled, open, exited>>

(* Go's select picks among the ready cases: a due tick may win.            *)
SelectDone(p) == /\ at(p, "select") /\ ctxDone
                 /\ goto(p, "returned")
                 /\ UNCHANGED <<deliveryVars, views, due, emitted, counted, dropped,
                                settled, open, exited>>

Signal == ~exited /\ Cancel /\ UNCHANGED agentVars

ExitBug == /\ ctxDone /\ ~exited
           /\ exited' = TRUE
           /\ UNCHANGED <<deliveryVars, ctl, views, due, emitted, counted, dropped,
                          settled, open>>

(* Run does not wait for the drain goroutines: main shuts the HTTP server  *)
(* down and returns, which ends them wherever they are.                    *)
Exit == /\ at(Tick, "returned")
        /\ exited' = TRUE
        /\ UNCHANGED <<deliveryVars, ctl, views, due, emitted, counted, dropped,
                       settled, open>>

Work(p) == \/ RecordEvents(p) \/ StartDelivery(p) \/ DeliveryStep(p)
           \/ FinishDelivery(p) \/ EndDelivery(p)

TickWork == \/ Collect \/ StoreSnapshot \/ UpdateMetrics \/ IngestHistory
            \/ \E k \in 0..MaxBatch : Evaluate(k)
            \/ Work(Tick)

ANext == \/ TickWork \/ TickerFires \/ SelectTick \/ Signal \/ Exit
         \/ \E p \in Procs : SelectDone(p)
         \/ \E p \in Drains : Work(p) \/ Receive(p) \/ SourceCloses(p) \/ DrainEnds(p)

(* The goroutines run, sleeps and posts end (WF); the ticker ticks; of the *)
(* ready cases of a select each is picked eventually (SF: Go picks at      *)
(* random, so a case that is ready again and again is not passed over for  *)
(* ever).  Nothing is assumed of the sources or of the signal.             *)
Fairness == /\ WF_vars(TickWork) /\ WF_vars(TickerFires) /\ WF_vars(Exit)
            /\ SF_vars(SelectTick)
            /\ \A p \in Procs : SF_vars(SelectDone(p))
            /\ \A p \in Drains : WF_vars(Work(p))

ASpec == AInit /\ [][ANext]_vars /\ Fairness

-----------------------------------------------------------------------------
(***************************************************************************)
(* Properties.                                                             *)
(***************************************************************************)

(* Every goroutine is at a step of its function and of DeliverWithRetry,   *)
(* the loop over the webhooks stays within their number, no empty batch is *)
(* recorded or delivered and no event is counted twice.                    *)
ATypeOK == /\ TypeOK
           /\ ctl \in [Procs -> [step : {"collect", "snapshot", "metrics", "history",
                                         "evaluate", "record", "deliver", "await",
                                         "select", "returned"},
                                 batch : Batches \cup {<<>>}, sink : 0..(NSinks + 1)]]
           /\ \A p \in Procs : ctl[p].batch = <<>> <=>
                 ctl[p].step \notin {"record", "deliver", "await"}
           /\ views \in [{"compat", "snapshot", "metrics", "history"} -> 0..(Gens - 1)]
           /\ due \in BOOLEAN /\ exited \in BOOLEAN /\ open \subseteq Drains
           /\ emitted \in [Procs -> Nat] /\ \A p \in Procs : emitted[p] <= Budget[p]
           /\ counted \in [Events -> 0..1] /\ dropped \in [Names -> Nat]
           /\ settled \in [Sinks -> SUBSET Events]

(* No loss is silent: nodevitals_delivery_dropped_total is, per label, at  *)
(* least the number of events that a sink of that label was done with and  *)
(* never received, however attempts, batches, sinks that share a host and  *)
(* the goroutines interleave ("so operators can alert on otherwise-silent  *)
(* delivery loss", metrics.go).                                            *)
NoSilentLoss ==
    \A n \in Names :
        dropped[n] >= Cardinality({se \in Sinks \X Events :
                          /\ NameOf[se[1]] = n
                          /\ se[2] \in settled[se[1]] \ Elems(received[se[1]])})

(* The first receipts of a goroutine's events are in the order in which it *)
(* emitted them, at every sink, even though failed batches are abandoned   *)
(* and retried batches start over.                                         *)
firstAt(s, e) == CHOOSE i \in DOMAIN received[s] :
                     received[s][i] = e /\ \A j \in 1..(i - 1) : received[s][j] # e

FirstReceiptsInOrder ==
    \A s \in Sinks : \A d, e \in Elems(received[s]) :
        d[1] = e[1] /\ d[2] < e[2] => firstAt(s, d) < firstAt(s, e)

(* Run returns without waiting for the drain goroutines (agent.go line 99),*)
(* so the end of the process may cut deliveries short, but no more than    *)
(* these: every event that a poll raised has been received or counted as   *)
(* dropped at every sink, and of each source all but the last one received *)
(* from its channel.                                                       *)
ExitCutsOnlyDrains ==
    exited => \A s \in Sinks, e \in Events :
        e[2] <= emitted[e[1]] /\ e \notin settled[s] => e[1] # Tick /\ e[2] = emitted[e[1]]

(* Outside the three publishing steps of Tick, so also while a delivery    *)
(* hangs, /v1/state, /metrics, history and the compat exporters show the   *)
(* same poll; between them the later views are one poll behind.            *)
ViewsAgree ==
    \A v \in DOMAIN views :
        \/ views[v] = views.compat
        \/ /\ ctl[Tick].step \in {"snapshot", "metrics", "history"}
           /\ views.compat = nextGen(views[v])

(* A signal ends the run loop, and with it the process, even in the middle *)
(* of retries to a receiver that never answers.                            *)
SignalEndsRun == ctxDone ~> exited

(* A receiver that fails for ever holds up the sinks behind it and the     *)
(* next poll, but not for good: every counted event is decided at every    *)
(* sink unless the process ends, and a tick that is due is taken.          *)
EverySinkIsTried ==
    /\ \A e \in Events, s \in Sinks : counted[e] > 0 ~> (e \in settled[s] \/ exited)
    /\ due ~> (ctl[Tick].step = "collect" \/ ctxDone)

(* The run loop, the drains, their attempts and a cancellation at any      *)
(* point implement AlertChannel: raising an event is counting it in        *)
(* nodevitals_events_total, and a sink has what its receiver got at least  *)
(* once.  Nothing is posted before it is counted or after the agent is     *)
(* done with it, and no batch is done with that is neither received in     *)
(* full nor counted as dropped in full.                                    *)
Channel == INSTANCE AlertChannel
               WITH raised <- {e \in Events : counted[e] > 0},
                    got <- [s \in Sinks |-> Elems(received[s])],
                    settled <- settled,
                    dropped <- dropped
ImplementsChannel == Channel!Spec

(* "RecordDropped ... Called when DeliverWithRetry exhausts its retries    *)
(* and the batch is lost": every event counted as dropped was lost.        *)
DroppedWereLost ==
    \A n \in Names :
        dropped[n] <= Cardinality({se \in Sinks \X Events :
                          /\ NameOf[se[1]] = n
                          /\ se[2] \in settled[se[1]] \ Elems(received[se[1]])})
=============================================================================
