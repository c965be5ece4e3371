-------------------------- MODULE XidStream_proofs --------------------------
(***************************************************************************)
(* Proofs about XidStream, for any set of closers and any number of XIDs:  *)
(* the type invariant, that shutdown never uses what was freed or closed,  *)
(* and that XIDs are delivered in order without a gap.                     *)
(***************************************************************************)
EXTENDS XidStream, TLAPS

(* The body of closeOnce has at most one runner, and where it is tells     *)
(* what has been released.                                                 *)
Runner == {"await", "shutdown"}

OneRunner ==
    /\ \A c, d \in Closers : cpc[c] \in Runner /\ cpc[d] \in Runner => c = d
    /\ \A c \in Closers :
          /\ cpc[c] = "await" => once = "running" /\ nvml = "live"
          /\ cpc[c] = "shutdown" => once = "running" /\ nvml = "freed"
          /\ cpc[c] = "returned" => once = "done"
    /\ once = "new" => nvml = "live"
    /\ once = "done" => nvml = "shutdown"

(* A channel is closed exactly when the goroutine that owns it is past the *)
(* close, and the event set outlives the watcher.                          *)
ClosedByOwner ==
    /\ xidClosed <=> wpc \in {"closeStopped", "gone"}
    /\ stopped <=> wpc = "gone"
    /\ eventsClosed <=> fpc = "gone"
    /\ nvml # "live" => wpc = "gone"

(* Until the watcher leaves its loop, the XIDs reported are those          *)
(* delivered, then the one the forwarder holds, then the one the watcher   *)
(* holds.                                                                  *)
inForward == IF fheld = 0 THEN 0 ELSE 1

InFlightInOrder ==
    /\ DeliveredInOrder
    /\ fheld # 0 => fheld = Len(delivered) + 1
    /\ wpc \in {"check", "wait"} => seen = Len(delivered) + inForward
    /\ wpc = "send" => wheld = seen /\ seen = Len(delivered) + inForward + 1

XidInv == TypeOK /\ OneRunner /\ ClosedByOwner /\ InFlightInOrder

(* Every step preserves the types. *)
LEMMA TypeStep == XidInv /\ [Next]_vars => TypeOK'
<1> SUFFICES ASSUME XidInv, [Next]_vars PROVE TypeOK'
    OBVIOUS
<1> USE XidAssumption DEF XidInv, TypeOK
<1>1. CASE WatchCheck
    BY <1>1 DEF WatchCheck, watchVars, forwardVars, drainVars, closeVars
<1>2. CASE WatchTimeout
    BY <1>2 DEF WatchTimeout, watchVars, forwardVars, drainVars, closeVars
<1>3. CASE WatchEvent
    BY <1>3 DEF WatchEvent, watchVars, forwardVars, drainVars, closeVars
<1>4. CASE WatchAbandon
    BY <1>4 DEF WatchAbandon, watchVars, forwardVars, drainVars, closeVars
<1>5. CASE WatchCloseXid
    BY <1>5 DEF WatchCloseXid, watchVars, forwardVars, drainVars, closeVars
<1>6. CASE WatchCloseStopped
    BY <1>6 DEF WatchCloseStopped, watchVars, forwardVars, drainVars, closeVars
<1>7. CASE SendRaw
    BY <1>7 DEF SendRaw, watchVars, forwardVars, drainVars, closeVars
<1>8. CASE ForwardEnd
    BY <1>8 DEF ForwardEnd, watchVars, forwardVars, drainVars, closeVars
<1>9. CASE SendEvent
    BY <1>9 DEF SendEvent, watchVars, forwardVars, drainVars, closeVars
<1>10. CASE DrainDelivered
    BY <1>10 DEF DrainDelivered, watchVars, forwardVars, drainVars, closeVars
<1>11. CASE DrainReturn
    BY <1>11 DEF DrainReturn, watchVars, forwardVars, drainVars, closeVars
<1>12. CASE Cancel
    BY <1>12 DEF Cancel, watchVars, forwardVars, drainVars, closeVars
<1>13. ASSUME NEW c \in Closers, CloseFirst(c) PROVE TypeOK'
    BY <1>13 DEF CloseFirst, watchVars, forwardVars, drainVars, closeVars
<1>14. ASSUME NEW c \in Closers, CloseAgain(c) PROVE TypeOK'
    BY <1>14 DEF CloseAgain, watchVars, forwardVars, drainVars, closeVars
<1>15. ASSUME NEW c \in Closers, CloseFree(c) PROVE TypeOK'
    BY <1>15 DEF CloseFree, watchVars, forwardVars, drainVars, closeVars
<1>16. ASSUME NEW c \in Closers, CloseShutdown(c) PROVE TypeOK'
    BY <1>16 DEF CloseShutdown, watchVars, forwardVars, drainVars, closeVars
<1>17. ASSUME NEW c \in Closers, CloseReleased(c) PROVE TypeOK'
    BY <1>17 DEF CloseReleased, watchVars, forwardVars, drainVars, closeVars
<1>18. CASE UNCHANGED vars
    BY <1>18 DEF vars
<1> QED
    BY <1>1, <1>2, <1>3, <1>4, <1>5, <1>6, <1>7, <1>8, <1>9, <1>10, <1>11, <1>12, <1>13, <1>14, <1>15, <1>16, <1>17, <1>18 DEF Next, Watch, CloseStep

(* sync.Once admits one runner and releases the others when it is done. *)
LEMMA RunnerStep == XidInv /\ [Next]_vars => OneRunner'
<1> SUFFICES ASSUME XidInv, [Next]_vars PROVE OneRunner'
    OBVIOUS
<1> USE XidAssumption DEF XidInv, TypeOK, OneRunner, ClosedByOwner, Runner
<1>1. CASE WatchCheck
    BY <1>1 DEF WatchCheck, watchVars, forwardVars, drainVars, closeVars
<1>2. CASE WatchTimeout
    BY <1>2 DEF WatchTimeout, watchVars, forwardVars, drainVars, closeVars
<1>3. CASE WatchEvent
    BY <1>3 DEF WatchEvent, watchVars, forwardVars, drainVars, closeVars
<1>4. CASE WatchAbandon
    BY <1>4 DEF WatchAbandon, watchVars, forwardVars, drainVars, closeVars
<1>5. CASE WatchCloseXid
    BY <1>5 DEF WatchCloseXid, watchVars, forwardVars, drainVars, closeVars
<1>6. CASE WatchCloseStopped
    BY <1>6 DEF WatchCloseStopped, watchVars, forwardVars, drainVars, closeVars
<1>7. CASE SendRaw
    BY <1>7 DEF SendRaw, watchVars, forwardVars, drainVars, closeVars
<1>8. CASE ForwardEnd
    BY <1>8 DEF ForwardEnd, watchVars, forwardVars, drainVars, closeVars
<1>9. CASE SendEvent
    BY <1>9 DEF SendEvent, watchVars, forwardVars, drainVars, closeVars
<1>10. CASE DrainDelivered
    BY <1>10 DEF DrainDelivered, watchVars, forwardVars, drainVars, closeVars
<1>11. CASE DrainReturn
    BY <1>11 DEF DrainReturn, watchVars, forwardVars, drainVars, closeVars
<1>12. CASE Cancel
    BY <1>12 DEF Cancel, watchVars, forwardVars, drainVars, closeVars
<1>13. ASSUME NEW c \in Closers, CloseFirst(c) PROVE OneRunner'
    BY <1>13 DEF CloseFirst, watchVars, forwardVars, drainVars, closeVars
<1>14. ASSUME NEW c \in Closers, CloseAgain(c) PROVE OneRunner'
    BY <1>14 DEF CloseAgain, watchVars, forwardVars, drainVars, closeVars
<1>15. ASSUME NEW c \in Closers, CloseFree(c) PROVE OneRunner'
    BY <1>15 DEF CloseFree, watchVars, forwardVars, drainVars, closeVars
<1>16. ASSUME NEW c \in Closers, CloseShutdown(c) PROVE OneRunner'
    BY <1>16 DEF CloseShutdown, watchVars, forwardVars, drainVars, closeVars
<1>17. ASSUME NEW c \in Closers, CloseReleased(c) PROVE OneRunner'
    BY <1>17 DEF CloseReleased, watchVars, forwardVars, drainVars, closeVars
<1>18. CASE UNCHANGED vars
    BY <1>18 DEF vars
<1> QED
    BY <1>1, <1>2, <1>3, <1>4, <1>5, <1>6, <1>7, <1>8, <1>9, <1>10, <1>11, <1>12, <1>13, <1>14, <1>15, <1>16, <1>17, <1>18 DEF Next, Watch, CloseStep

(* Only the owner closes a channel, and only a stopped watcher is freed. *)
LEMMA OwnerStep == XidInv /\ [Next]_vars => ClosedByOwner'
<1> SUFFICES ASSUME XidInv, [Next]_vars PROVE ClosedByOwner'
    OBVIOUS
<1> USE XidAssumption DEF XidInv, TypeOK, OneRunner, ClosedByOwner
<1>1. CASE WatchCheck
    BY <1>1 DEF WatchCheck, watchVars, forwardVars, drainVars, closeVars
<1>2. CASE WatchTimeout
    BY <1>2 DEF WatchTimeout, watchVars, forwardVars, drainVars, closeVars
<1>3. CASE WatchEvent
    BY <1>3 DEF WatchEvent, watchVars, forwardVars, drainVars, closeVars
<1>4. CASE WatchAbandon
    BY <1>4 DEF WatchAbandon, watchVars, forwardVars, drainVars, closeVars
<1>5. CASE WatchCloseXid
    BY <1>5 DEF WatchCloseXid, watchVars, forwardVars, drainVars, closeVars
<1>6. CASE WatchCloseStopped
    BY <1>6 DEF WatchCloseStopped, watchVars, forwardVars, drainVars, closeVars
<1>7. CASE SendRaw
    BY <1>7 DEF SendRaw, watchVars, forwardVars, drainVars, closeVars
<1>8. CASE ForwardEnd
    BY <1>8 DEF ForwardEnd, watchVars, forwardVars, drainVars, closeVars
<1>9. CASE SendEvent
    BY <1>9 DEF SendEvent, watchVars, forwardVars, drainVars, closeVars
<1>10. CASE DrainDelivered
    BY <1>10 DEF DrainDelivered, watchVars, forwardVars, drainVars, closeVars
<1>11. CASE DrainReturn
    BY <1>11 DEF DrainReturn, watchVars, forwardVars, drainVars, closeVars
<1>12. CASE Cancel
    BY <1>12 DEF Cancel, watchVars, forwardVars, drainVars, closeVars
<1>13. ASSUME NEW c \in Closers, CloseFirst(c) PROVE ClosedByOwner'
    BY <1>13 DEF CloseFirst, watchVars, forwardVars, drainVars, closeVars
<1>14. ASSUME NEW c \in Closers, CloseAgain(c) PROVE ClosedByOwner'
    BY <1>14 DEF CloseAgain, watchVars, forwardVars, drainVars, closeVars
<1>15. ASSUME NEW c \in Closers, CloseFree(c) PROVE ClosedByOwner'
    BY <1>15 DEF CloseFree, watchVars, forwardVars, drainVars, closeVars
<1>16. ASSUME NEW c \in Closers, CloseShutdown(c) PROVE ClosedByOwner'
    BY <1>16 DEF CloseShutdown, watchVars, forwardVars, drainVars, closeVars
<1>17. ASSUME NEW c \in Closers, CloseReleased(c) PROVE ClosedByOwner'
    BY <1>17 DEF CloseReleased, watchVars, forwardVars, drainVars, closeVars
<1>18. CASE UNCHANGED vars
    BY <1>18 DEF vars
<1> QED
    BY <1>1, <1>2, <1>3, <1>4, <1>5, <1>6, <1>7, <1>8, <1>9, <1>10, <1>11, <1>12, <1>13, <1>14, <1>15, <1>16, <1>17, <1>18 DEF Next, Watch, CloseStep

(* No step loses or reorders an XID in flight before shutdown. *)
LEMMA OrderStep == XidInv /\ [Next]_vars => InFlightInOrder'
<1> SUFFICES ASSUME XidInv, [Next]_vars PROVE InFlightInOrder'
    OBVIOUS
<1> USE XidAssumption DEF XidInv, TypeOK, InFlightInOrder, DeliveredInOrder, inForward
<1>1. CASE WatchCheck
    BY <1>1 DEF WatchCheck, watchVars, forwardVars, drainVars, closeVars
<1>2. CASE WatchTimeout
    BY <1>2 DEF WatchTimeout, watchVars, forwardVars, drainVars, closeVars
<1>3. CASE WatchEvent
    BY <1>3 DEF WatchEvent, watchVars, forwardVars, drainVars, closeVars
<1>4. CASE WatchAbandon
    BY <1>4 DEF WatchAbandon, watchVars, forwardVars, drainVars, closeVars
<1>5. CASE WatchCloseXid
    BY <1>5 DEF WatchCloseXid, watchVars, forwardVars, drainVars, closeVars
<1>6. CASE WatchCloseStopped
    BY <1>6 DEF WatchCloseStopped, watchVars, forwardVars, drainVars, closeVars
<1>7. CASE SendRaw
    BY <1>7 DEF SendRaw, watchVars, forwardVars, drainVars, closeVars
<1>8. CASE ForwardEnd
    BY <1>8 DEF ForwardEnd, watchVars, forwardVars, drainVars, closeVars
<1>9. CASE SendEvent
    BY <1>9 DEF SendEvent, watchVars, forwardVars, drainVars, closeVars
<1>10. CASE DrainDelivered
    BY <1>10 DEF DrainDelivered, watchVars, forwardVars, drainVars, closeVars
<1>11. CASE DrainReturn
    BY <1>11 DEF DrainReturn, watchVars, forwardVars, drainVars, closeVars
<1>12. CASE Cancel
    BY <1>12 DEF Cancel, watchVars, forwardVars, drainVars, closeVars
<1>13. ASSUME NEW c \in Closers, CloseFirst(c) PROVE InFlightInOrder'
    BY <1>13 DEF CloseFirst, watchVars, forwardVars, drainVars, closeVars
<1>14. ASSUME NEW c \in Closers, CloseAgain(c) PROVE InFlightInOrder'
    BY <1>14 DEF CloseAgain, watchVars, forwardVars, drainVars, closeVars
<1>15. ASSUME NEW c \in Closers, CloseFree(c) PROVE InFlightInOrder'
    BY <1>15 DEF CloseFree, watchVars, forwardVars, drainVars, closeVars
<1>16. ASSUME NEW c \in Closers, CloseShutdown(c) PROVE InFlightInOrder'
    BY <1>16 DEF CloseShutdown, watchVars, forwardVars, drainVars, closeVars
<1>17. ASSUME NEW c \in Closers, CloseReleased(c) PROVE InFlightInOrder'
    BY <1>17 DEF CloseReleased, watchVars, forwardVars, drainVars, closeVars
<1>18. CASE UNCHANGED vars
    BY <1>18 DEF vars
<1> QED
    BY <1>1, <1>2, <1>3, <1>4, <1>5, <1>6, <1>7, <1>8, <1>9, <1>10, <1>11, <1>12, <1>13, <1>14, <1>15, <1>16, <1>17, <1>18 DEF Next, Watch, CloseStep

(* The initial state: nothing in flight, nothing closed, no Close call.    *)
LEMMA XidInvInit == Init => XidInv
<1> SUFFICES ASSUME Init PROVE XidInv
    OBVIOUS
<1> USE DEF Init
<1>1. TypeOK
    <2>1. {done, xidClosed, stopped, eventsClosed, ctxDone} \subseteq BOOLEAN
        OBVIOUS
    <2>2. /\ seen \in 0 .. MaxXid /\ {wheld, fheld, dheld} \subseteq 0 .. MaxXid
          /\ delivered \in Seq(1 .. MaxXid)
        BY XidAssumption
    <2>3. cpc \in [Closers -> {"idle", "await", "shutdown", "blocked", "returned"}]
        OBVIOUS
    <2>4. /\ (wpc = "send") = (wheld # 0) /\ (fpc = "push") = (fheld # 0)
          /\ (dpc = "deliver") = (dheld # 0)
        OBVIOUS
    <2> QED
        BY <2>1, <2>2, <2>3, <2>4 DEF TypeOK
<1>2. OneRunner
    BY DEF OneRunner, Runner
<1>3. ClosedByOwner
    BY DEF ClosedByOwner
<1>4. InFlightInOrder
    BY DEF InFlightInOrder, DeliveredInOrder, inForward
<1> QED
    BY <1>1, <1>2, <1>3, <1>4 DEF XidInv

(* XidInv is an invariant.                                                 *)
THEOREM XidInvHolds == Spec => []XidInv
<1>1. XidInv /\ [Next]_vars => XidInv'
    BY TypeStep, RunnerStep, OwnerStep, OrderStep DEF XidInv
<1> QED
    BY XidInvInit, <1>1, PTL DEF Spec

(* Every variable of the three goroutines and of Close keeps its type, and *)
(* a goroutine holds an XID exactly while it is sending or delivering it.  *)
THEOREM TypeCorrect == Spec => []TypeOK
BY XidInvHolds, PTL DEF XidInv

(* nvmlReader.Close, called from any state and by any number of            *)
(* goroutines, frees the event set only behind a watcher that is gone, no  *)
(* channel is used after its close, and every call that has returned left  *)
(* NVML shut down.                                                         *)
THEOREM ShutdownIsAlwaysSafe == Spec => []ShutdownIsSafe
<1>1. XidInv => NoWaitAfterFree
    BY DEF XidInv, ClosedByOwner, NoWaitAfterFree
<1>2. XidInv => NoUseAfterClose
    BY DEF XidInv, ClosedByOwner, NoUseAfterClose
<1>3. XidInv => CloseReturnsAfterShutdown
    BY DEF XidInv, OneRunner, CloseReturnsAfterShutdown
<1> QED
    BY <1>1, <1>2, <1>3, XidInvHolds, PTL DEF ShutdownIsSafe

(* However many XIDs are reported and however slow delivery is, what drain *)
(* hands to the webhook is a gapless prefix of what NVML reported.         *)
THEOREM AlwaysDeliveredInOrder == Spec => []DeliveredInOrder
BY XidInvHolds, PTL DEF XidInv, InFlightInOrder

=============================================================================
