------------------------------ MODULE Delivery ------------------------------
(***************************************************************************)
(* queue.DeliverWithRetry (internal/queue/queue.go) driving a webhook sink *)
(* (internal/sink/webhook.go).  Several goroutines are in it at once: the  *)
(* run loop's Tick and one drain goroutine per event source.  A call posts *)
(* its batch event by event; the first error ends the attempt and the next *)
(* attempt starts again from the first event, so what a receiver sees is   *)
(* at least once, in order, with repeats.                                  *)
(*                                                                         *)
(* Delays are abstracted: a sleep (Full Jitter, at most Backoff.Max) and a *)
(* post (at most the client's timeout) both end, at an unspecified time.   *)
(* The receiver is outside the program: a post is accepted and answered    *)
(* 2xx, or received but not answered so, or not received.                  *)
(***************************************************************************)
EXTENDS Naturals, Sequences, FiniteSets

CONSTANTS Procs,        \* goroutines that deliver
          Events,       \* hardware events
          NSinks,       \* webhook sinks, numbered in configuration order
          MaxAttempts,  \* the maxAttempts argument, 5 in agent.go
          MaxBatch,     \* bound on the length of a batch
          MaxLost       \* bound on the received events answered by an error

ASSUME DeliveryAssumption == /\ NSinks \in Nat
                             /\ MaxAttempts \in Nat
                             /\ MaxBatch \in Nat
                             /\ MaxLost \in Nat

VARIABLES call,      \* each goroutine's DeliverWithRetry frame
          received,  \* what each receiver got, in order, repeats included
          asked,     \* the events each sink has been asked to deliver
          lost,      \* how many answers were lost so far
          ctxDone,   \* the signal context is cancelled
          late       \* what each goroutine has done since it was cancelled

deliveryVars == <<call, received, asked, lost, ctxDone, late>>

Sinks == 1..NSinks

(* Batches a caller may pass: EmitEvents is never called without events.   *)
Batches == UNION {[1..n -> Events] : n \in 1..MaxBatch}

Elems(b) == {b[i] : i \in DOMAIN b}

Injective(b) == \A i, j \in DOMAIN b : b[i] = b[j] => i = j

(* "ok" and "failed" are the values returned: nil and an error.            *)
Pcs == {"idle", "loop", "delay", "sleep", "emit", "ok", "failed"}

Frame == [pc : Pcs, sink : Sinks, batch : Batches, attempt : Nat, at : Nat]

returned(c) == c.pc \in {"ok", "failed"}

active(c) == c.pc \in {"loop", "delay", "sleep", "emit"}

noFrame == [pc |-> "idle", sink |-> 0, batch |-> <<>>, attempt |-> 0, at |-> 0]

(* late counts, for each goroutine, the sleeps begun and the posts ended    *)
(* after the cancellation; it exists only to state properties.             *)
onTime == [sleeps |-> 0, posts |-> 0]

Init == /\ call = [p \in Procs |-> noFrame]
        /\ received = [s \in Sinks |-> <<>>]
        /\ asked = [s \in Sinks |-> {}]
        /\ lost = 0
        /\ ctxDone = FALSE
        /\ late = [p \in Procs |-> onTime]

(***************************************************************************)
(* The call: a maxAttempts that is not positive is refused at once.        *)
(***************************************************************************)
enter(s, b) == [pc |-> IF MaxAttempts = 0 THEN "failed" ELSE "loop",
                sink |-> s, batch |-> b, attempt |-> 0, at |-> 1]

(* An event is handed to a sink once: Tick and drainEventSource make one   *)
(* call per sink and never queue a batch again.                            *)
Call(p, s, b) ==
    /\ ~active(call[p])
    /\ Injective(b) /\ Elems(b) \cap asked[s] = {}
    /\ call' = [call EXCEPT ![p] = enter(s, b)]
    /\ asked' = [asked EXCEPT ![s] = @ \cup Elems(b)]
    /\ UNCHANGED <<received, lost, ctxDone, late>>

(* The head of the loop: a cancelled context ends the call, a retry sleeps *)
(* before it posts again.                                                  *)
headSpinBug(c) == IF ctxDone THEN c
                  ELSE [c EXCEPT !.pc = IF c.attempt > 0 THEN "delay" ELSE "emit",
                                 !.at = 1]

headBug(c) == [c EXCEPT !.pc = IF c.attempt > 0 THEN "delay" ELSE "emit", !.at = 1]

head(c) == [c EXCEPT !.pc = IF ctxDone THEN "failed"
                            ELSE IF c.attempt > 0 THEN "delay" ELSE "emit",
                     !.at = 1]

CheckContext(p) ==
    /\ call[p].pc = "loop"
    /\ call' = [call EXCEPT ![p] = head(@)]
    /\ UNCHANGED <<received, asked, lost, ctxDone, late>>

(* The delay is drawn and time.Sleep begins: the context is not looked at  *)
(* again, so a cancellation after the check is slept over.                 *)
StartSleep(p) ==
    /\ call[p].pc = "delay"
    /\ call' = [call EXCEPT ![p].pc = "sleep"]
    /\ late' = IF ctxDone THEN [late EXCEPT ![p].sleeps = @ + 1] ELSE late
    /\ UNCHANGED <<received, asked, lost, ctxDone>>

(* time.Sleep does not listen to the context: a cancelled call still       *)
(* sleeps out its delay and then tries to post.                            *)
Wake(p) ==
    /\ call[p].pc = "sleep"
    /\ call' = [call EXCEPT ![p].pc = "emit"]
    /\ UNCHANGED <<received, asked, lost, ctxDone, late>>

(***************************************************************************)
(* EmitEvents, one post at a time.                                         *)
(***************************************************************************)
posting(p) == call[p].batch[call[p].at]

(* A nil error from EmitEvents, after the last event, is a nil error from  *)
(* DeliverWithRetry.                                                       *)
accepted(c) == IF c.at = Len(c.batch) THEN [c EXCEPT !.pc = "ok"]
                                      ELSE [c EXCEPT !.at = @ + 1]

(* An error returned by EmitEvents: the events after it are not posted.    *)
refusedSkipBug(c) == accepted(c)

refusedContinueBug(c) ==
    IF c.at < Len(c.batch) THEN [c EXCEPT !.at = @ + 1]
    ELSE [c EXCEPT !.attempt = @ + 1,
                   !.pc = IF c.attempt + 1 = MaxAttempts THEN "failed" ELSE "loop"]

refusedOnceMoreBug(c) ==
    [c EXCEPT !.attempt = @ + 1,
              !.pc = IF c.attempt > MaxAttempts THEN "failed" ELSE "loop"]

refused(c) == [c EXCEPT !.attempt = @ + 1,
                        !.pc = IF c.attempt + 1 = MaxAttempts THEN "failed" ELSE "loop"]

PostAccepted(p) ==
    /\ call[p].pc = "emit" /\ ~ctxDone
    /\ received' = [received EXCEPT ![call[p].sink] = Append(@, posting(p))]
    /\ call' = [call EXCEPT ![p] = accepted(@)]
    /\ UNCHANGED <<asked, lost, ctxDone, late>>

(* The event reached the receiver but the caller sees an error: the answer *)
(* was not 2xx, came after the client's timeout, or the context was        *)
(* cancelled while waiting for it.                                         *)
PostAnswerLost(p) ==
    /\ call[p].pc = "emit" /\ ~ctxDone /\ lost < MaxLost
    /\ lost' = lost + 1
    /\ received' = [received EXCEPT ![call[p].sink] = Append(@, posting(p))]
    /\ call' = [call EXCEPT ![p] = refused(@)]
    /\ UNCHANGED <<asked, ctxDone, late>>

(* Nothing reached the receiver; the only outcome once the context is done.*)
PostFailed(p) ==
    /\ call[p].pc = "emit"
    /\ call' = [call EXCEPT ![p] = refused(@)]
    /\ late' = IF ctxDone THEN [late EXCEPT ![p].posts = @ + 1] ELSE late
    /\ UNCHANGED <<received, asked, lost, ctxDone>>

Post(p) == PostAccepted(p) \/ PostAnswerLost(p) \/ PostFailed(p)

(* SIGINT or SIGTERM.                                                      *)
Cancel == /\ ~ctxDone
          /\ ctxDone' = TRUE
          /\ UNCHANGED <<call, received, asked, lost, late>>

Step(p) == CheckContext(p) \/ StartSleep(p) \/ Wake(p) \/ Post(p)

Next == \/ \E p \in Procs : Step(p)
        \/ \E p \in Procs, s \in Sinks, b \in Batches : Call(p, s, b)
        \/ Cancel

(* A goroutine that can run does: the scheduler is fair, sleeps end, and   *)
(* the HTTP client gives up after its timeout.                             *)
Spec == Init /\ [][Next]_deliveryVars /\ \A p \in Procs : WF_deliveryVars(Step(p))

-----------------------------------------------------------------------------
(***************************************************************************)
(* Properties.                                                             *)
(***************************************************************************)

(* The frames, queues and flags have the types the code declares, and the  *)
(* loop variables stay within the batch and the number of attempts.        *)
TypeOK == /\ call \in [Procs -> Frame \cup {noFrame}]
          /\ received \in [Sinks -> Seq(Events)]
          /\ asked \in [Sinks -> SUBSET Events]
          /\ lost \in 0..MaxLost
          /\ ctxDone \in BOOLEAN
          /\ late \in [Procs -> [sleeps : Nat, posts : Nat]]
          /\ \A p \in Procs : active(call[p]) =>
                /\ call[p].attempt < MaxAttempts
                /\ call[p].at \in 1..Len(call[p].batch)

(* A nil error is a receipt: when DeliverWithRetry returns nil, every      *)
(* event of the batch reached the receiver, whatever attempts failed half  *)
(* way before (the caller only counts a batch as dropped on an error, so a *)
(* nil error for an event nobody received would be a silent loss).         *)
OkMeansReceived ==
    \A p \in Procs : call[p].pc = "ok" =>
        Elems(call[p].batch) \subseteq Elems(received[call[p].sink])

(* How often a receiver got event e.                                       *)
copies(s, e) == Cardinality({i \in DOMAIN received[s] : received[s][i] = e})

(* Retrying never multiplies an event beyond the number of attempts, even  *)
(* when the answers of accepted posts are lost; and as an error stops the  *)
(* attempt and the next one starts over, a receiver gets earlier events of *)
(* a batch at least as often as later ones.                                *)
ReceiptsBounded ==
    /\ \A s \in Sinks, e \in Events : copies(s, e) <= MaxAttempts
    /\ \A p \in Procs : call[p].pc # "idle" =>
          LET c == call[p] IN
          \A i, j \in DOMAIN c.batch :
              i < j => copies(c.sink, c.batch[i]) >= copies(c.sink, c.batch[j])

(* How much work is left when the context is cancelled, in the gap between *)
(* the check (queue.go line 48) and the sleep (line 52) too: until the     *)
(* process ends a goroutine begins at most one more sleep and ends at most *)
(* one more post, which fails, whatever sinks its batch still has to go to *)
(* and whatever it raises in the meantime.                                 *)
LateWorkBounded == \A p \in Procs : late[p].sleeps <= 1 /\ late[p].posts <= 1
=============================================================================
