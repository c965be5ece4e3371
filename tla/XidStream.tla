------------------------------ MODULE XidStream ------------------------------
(***************************************************************************)
(* The XID event path of the gpu tier: three goroutines chained by two     *)
(* unbuffered channels, and the shutdown of the NVML reader.               *)
(*                                                                         *)
(*   watchXid  (gpu_nvml.go)  set.Wait -> xidCh                            *)
(*   forward   (gpu.go)       xidCh -> toEvent -> events                   *)
(*   drain     (agent.go)     events -> webhook delivery                   *)
(*                                                                         *)
(* A send on an unbuffered channel and its receive are one joint step.     *)
(* Close may be called by several goroutines; sync.Once runs its body      *)
(* once and makes the others wait for it.  An XID is its number in the     *)
(* order NVML reported it.                                                 *)
(***************************************************************************)
EXTENDS Naturals, Sequences

CONSTANTS Closers,  \* goroutines that may call nvmlReader.Close
          MaxXid    \* bound: XIDs NVML reports

ASSUME XidAssumption == MaxXid \in Nat

VARIABLES wpc, wheld,    \* watchXid and the raw XID it holds (0: none)
          fpc, fheld,    \* the forwarding goroutine and the event it holds
          dpc, dheld,    \* drainEventSource and the event it delivers
          cpc,           \* every closer
          once,          \* closeOnce: "new", "running" or "done"
          done, xidClosed, stopped, eventsClosed,  \* closed channels
          nvml,          \* the event set: "live", "freed" or "shutdown"
          ctxDone,       \* the agent's context is cancelled
          seen,          \* XIDs NVML reported so far
          delivered      \* events handed to webhook delivery, in order

vars == <<wpc, wheld, fpc, fheld, dpc, dheld, cpc, once, done, xidClosed, stopped,
          eventsClosed, nvml, ctxDone, seen, delivered>>
watchVars == <<wpc, wheld>>
forwardVars == <<fpc, fheld>>
drainVars == <<dpc, dheld, delivered>>
closeVars == <<cpc, once, done, nvml>>
-----------------------------------------------------------------------------
Init ==
  /\ wpc = "check" /\ wheld = 0
  /\ fpc = "recv" /\ fheld = 0
  /\ dpc = "select" /\ dheld = 0
  /\ cpc = [c \in Closers |-> "idle"] /\ once = "new"
  /\ done = FALSE /\ xidClosed = FALSE /\ stopped = FALSE /\ eventsClosed = FALSE
  /\ nvml = "live" /\ ctxDone = FALSE
  /\ seen = 0 /\ delivered = <<>>

\* A name that ends in Bug is a deliberately wrong variant of the definition
\* that follows it; the mutants of PROJECT.json use them to show that a
\* property can fail.

(***************************************************************************)
(* watchXid, gpu_nvml.go lines 106-135                                     *)
(***************************************************************************)
WatchCheck ==
  /\ wpc = "check"
  /\ wpc' = IF done THEN "closeXid" ELSE "wait"
  /\ UNCHANGED <<wheld, forwardVars, drainVars, closeVars, xidClosed, stopped, eventsClosed,
                 ctxDone, seen>>

\* set.Wait(1000) times out or fails.
WatchTimeout ==
  /\ wpc = "wait" /\ wpc' = "check"
  /\ UNCHANGED <<wheld, forwardVars, drainVars, closeVars, xidClosed, stopped, eventsClosed,
                 ctxDone, seen>>

\* set.Wait returns an XID.
WatchEvent ==
  /\ wpc = "wait" /\ seen < MaxXid
  /\ wpc' = "send" /\ wheld' = seen + 1 /\ seen' = seen + 1
  /\ UNCHANGED <<forwardVars, drainVars, closeVars, xidClosed, stopped, eventsClosed, ctxDone>>

\* The send case of the select meets the forwarder's receive.
SendRaw ==
  /\ wpc = "send" /\ fpc = "recv"
  /\ wpc' = "check" /\ wheld' = 0
  /\ fpc' = "push" /\ fheld' = wheld
  /\ UNCHANGED <<drainVars, closeVars, xidClosed, stopped, eventsClosed, ctxDone, seen>>

WatchAbandonKeepBug ==
  /\ wpc = "send" /\ done
  /\ wpc' = "closeXid"
  /\ UNCHANGED <<wheld, forwardVars, drainVars, closeVars, xidClosed, stopped, eventsClosed,
                 ctxDone, seen>>
WatchAbandonDropBug ==
  /\ wpc = "send" /\ fpc # "recv"
  /\ wpc' = "check" /\ wheld' = 0
  /\ UNCHANGED <<forwardVars, drainVars, closeVars, xidClosed, stopped, eventsClosed,
                 ctxDone, seen>>
WatchAbandonNeverBug == FALSE

\* The done case of the select: the held XID is dropped.
WatchAbandon ==
  /\ wpc = "send" /\ done
  /\ wpc' = "closeXid" /\ wheld' = 0
  /\ UNCHANGED <<forwardVars, drainVars, closeVars, xidClosed, stopped, eventsClosed,
                 ctxDone, seen>>

\* The deferred closes, last in first out.
WatchCloseXid ==
  /\ wpc = "closeXid" /\ wpc' = "closeStopped" /\ xidClosed' = TRUE
  /\ UNCHANGED <<wheld, forwardVars, drainVars, closeVars, stopped, eventsClosed, ctxDone, seen>>

WatchCloseStopped ==
  /\ wpc = "closeStopped" /\ wpc' = "gone" /\ stopped' = TRUE
  /\ UNCHANGED <<wheld, forwardVars, drainVars, closeVars, xidClosed, eventsClosed, ctxDone, seen>>

(***************************************************************************)
(* The forwarding goroutine of NewGPUCollector, gpu.go lines 83-88         *)
(***************************************************************************)
ForwardEndBug ==
  /\ fpc = "recv" /\ xidClosed
  /\ fpc' = "gone"
  /\ UNCHANGED <<watchVars, fheld, drainVars, closeVars, xidClosed, stopped, eventsClosed,
                 ctxDone, seen>>

ForwardEnd ==
  /\ fpc = "recv" /\ xidClosed
  /\ fpc' = "gone" /\ eventsClosed' = TRUE
  /\ UNCHANGED <<watchVars, fheld, drainVars, closeVars, xidClosed, stopped, ctxDone, seen>>

\* The send on events meets the receive case of drainEventSource's select.
SendEvent ==
  /\ fpc = "push" /\ dpc = "select"
  /\ fpc' = "recv" /\ fheld' = 0
  /\ dpc' = "deliver" /\ dheld' = fheld /\ delivered' = Append(delivered, fheld)
  /\ UNCHANGED <<watchVars, closeVars, xidClosed, stopped, eventsClosed, ctxDone, seen>>

(***************************************************************************)
(* drainEventSource, agent.go lines 124-147; delivery itself is Delivery   *)
(***************************************************************************)
DrainDelivered ==
  /\ dpc = "deliver" /\ dpc' = "select" /\ dheld' = 0
  /\ UNCHANGED <<watchVars, forwardVars, delivered, closeVars, xidClosed, stopped, eventsClosed,
                 ctxDone, seen>>

DrainReturn ==
  /\ dpc = "select"
  /\ ctxDone \/ eventsClosed
  /\ dpc' = "gone"
  /\ UNCHANGED <<watchVars, forwardVars, dheld, delivered, closeVars, xidClosed, stopped,
                 eventsClosed, ctxDone, seen>>

Cancel ==
  /\ ~ctxDone /\ ctxDone' = TRUE
  /\ UNCHANGED <<watchVars, forwardVars, drainVars, closeVars, xidClosed, stopped, eventsClosed,
                 seen>>

(***************************************************************************)
(* nvmlReader.Close, gpu_nvml.go lines 243-251                             *)
(***************************************************************************)
\* closeOnce.Do: the first caller runs the body, which starts with close(done).
CloseFirst(c) ==
  /\ cpc[c] = "idle" /\ once = "new"
  /\ once' = "running" /\ done' = TRUE
  /\ cpc' = [cpc EXCEPT ![c] = "await"]
  /\ UNCHANGED <<watchVars, forwardVars, drainVars, nvml, xidClosed, stopped, eventsClosed,
                 ctxDone, seen>>

CloseFreeBug(c) ==
  /\ cpc[c] = "await"
  /\ nvml' = "freed" /\ cpc' = [cpc EXCEPT ![c] = "shutdown"]
  /\ UNCHANGED <<watchVars, forwardVars, drainVars, once, done, xidClosed, stopped, eventsClosed,
                 ctxDone, seen>>

\* <-r.stopped, then set.Free.
CloseFree(c) ==
  /\ cpc[c] = "await" /\ stopped
  /\ nvml' = "freed" /\ cpc' = [cpc EXCEPT ![c] = "shutdown"]
  /\ UNCHANGED <<watchVars, forwardVars, drainVars, once, done, xidClosed, stopped, eventsClosed,
                 ctxDone, seen>>

CloseShutdown(c) ==
  /\ cpc[c] = "shutdown"
  /\ nvml' = "shutdown" /\ once' = "done" /\ cpc' = [cpc EXCEPT ![c] = "returned"]
  /\ UNCHANGED <<watchVars, forwardVars, drainVars, done, xidClosed, stopped, eventsClosed,
                 ctxDone, seen>>

\* A later caller blocks in Do while the body runs, then returns.
CloseAgain(c) ==
  /\ cpc[c] = "idle" /\ once # "new"
  /\ cpc' = [cpc EXCEPT ![c] = "blocked"]
  /\ UNCHANGED <<watchVars, forwardVars, drainVars, once, done, nvml, xidClosed, stopped,
                 eventsClosed, ctxDone, seen>>

CloseReleased(c) ==
  /\ cpc[c] = "blocked" /\ once = "done"
  /\ cpc' = [cpc EXCEPT ![c] = "returned"]
  /\ UNCHANGED <<watchVars, forwardVars, drainVars, once, done, nvml, xidClosed, stopped,
                 eventsClosed, ctxDone, seen>>

Watch == WatchCheck \/ WatchTimeout \/ WatchEvent \/ WatchAbandon \/ WatchCloseXid \/ WatchCloseStopped
CloseStep(c) == CloseFree(c) \/ CloseShutdown(c) \/ CloseReleased(c)

Next ==
  \/ Watch \/ SendRaw \/ ForwardEnd \/ SendEvent \/ DrainDelivered \/ DrainReturn \/ Cancel
  \/ \E c \in Closers : CloseFirst(c) \/ CloseAgain(c) \/ CloseStep(c)

\* A goroutine that can run does: the Go scheduler is preemptive and Wait has a
\* one-second timeout.  A select with several ready cases picks at random, so a
\* case that is ready again and again is taken.  Nobody has to call Close or
\* cancel the context, and NVML has to report nothing.
Fairness ==
  /\ WF_vars(WatchCheck) /\ WF_vars(WatchTimeout \/ WatchEvent) /\ WF_vars(SendRaw)
  /\ WF_vars(WatchAbandon) /\ WF_vars(WatchCloseXid) /\ WF_vars(WatchCloseStopped)
  /\ WF_vars(ForwardEnd) /\ WF_vars(SendEvent) /\ WF_vars(DrainDelivered) /\ SF_vars(DrainReturn)
  /\ \A c \in Closers : WF_vars(CloseStep(c))

Spec == Init /\ [][Next]_vars /\ Fairness
-----------------------------------------------------------------------------
(***************************************************************************)
(* Properties                                                              *)
(***************************************************************************)

\* Every variable has its type.
TypeOK ==
  /\ wpc \in {"check", "wait", "send", "closeXid", "closeStopped", "gone"}
  /\ fpc \in {"recv", "push", "gone"}
  /\ dpc \in {"select", "deliver", "gone"}
  /\ cpc \in [Closers -> {"idle", "await", "shutdown", "blocked", "returned"}]
  /\ once \in {"new", "running", "done"}
  /\ nvml \in {"live", "freed", "shutdown"}
  /\ {done, xidClosed, stopped, eventsClosed, ctxDone} \subseteq BOOLEAN
  /\ seen \in 0 .. MaxXid
  /\ {wheld, fheld, dheld} \subseteq 0 .. MaxXid
  /\ (wpc = "send") = (wheld # 0) /\ (fpc = "push") = (fheld # 0) /\ (dpc = "deliver") = (dheld # 0)
  /\ delivered \in Seq(1 .. MaxXid)

\* Free and Shutdown never race a live set.Wait: once the event set is freed the
\* watcher is gone for good, and it is freed once (gpu_nvml.go lines 237-242).
NoWaitAfterFree == nvml # "live" => wpc = "gone" /\ stopped /\ xidClosed

\* Nobody sends on, or closes again, a channel its owner has closed.
NoUseAfterClose ==
  /\ xidClosed => wpc \notin {"check", "wait", "send", "closeXid"}
  /\ eventsClosed => fpc = "gone"
  /\ stopped => wpc = "gone"

\* A Close that returned left NVML shut down, the first or a later call alike.
CloseReturnsAfterShutdown == \A c \in Closers : cpc[c] = "returned" => nvml = "shutdown"

\* A shutdown from any state and by several callers is safe: nothing is used that
\* has been freed or closed, and Close returns only when all is released.
ShutdownIsSafe == NoWaitAfterFree /\ NoUseAfterClose /\ CloseReturnsAfterShutdown

\* The XIDs handed to delivery are the first ones NVML reported, in order and
\* without a gap: only shutdown drops any, and only the newest.
DeliveredInOrder == \A i \in DOMAIN delivered : delivered[i] = i

\* Every Close call returns, even while both channels are blocked on a slow
\* webhook delivery (gpu_nvml.go line 131).
CloseReturns == \A c \in Closers : cpc[c] # "idle" ~> cpc[c] = "returned"

\* While the agent's context lives, closing the reader ends the whole chain.
CloseEndsChain == ([]~ctxDone) => (xidClosed ~> (fpc = "gone" /\ dpc = "gone"))

\* Cancelling the agent ends its drain goroutine, whatever the GPU reports.
CancelEndsDrain == ctxDone ~> dpc = "gone"

\* No goroutine that delivers is left waiting for a source or a context that is
\* gone (drainEventSource in agent.go; gpu.go lines 83-88).
ChainEnds == CloseEndsChain /\ CancelEndsDrain

\* "Both the goroutine and the Events() channel end when r.XidEvents() closes"
\* (gpu.go lines 74-75): whatever has become of the drain goroutine.
ForwarderEnds == xidClosed ~> (fpc = "gone" /\ eventsClosed)
=============================================================================
