---------------------------- MODULE AlertChannel ----------------------------
(***************************************************************************)
(* What the agent promises about its events, without goroutines, batches   *)
(* under way, attempts, sleeps and cancellation: an event is raised once;  *)
(* it reaches a sink only after it was raised and only until the agent is  *)
(* done with it there; and the agent is done with a batch either because   *)
(* the sink has all of it or by counting all of it as dropped under the    *)
(* sink's label.                                                           *)
(***************************************************************************)
EXTENDS Naturals, FiniteSets

CONSTANTS Events, Sinks,
          Names,    \* labels of the drop counter
          NameOf    \* the label of each sink

VARIABLES raised,   \* the events raised so far
          got,      \* what each sink has received
          settled,  \* what the agent is done with, per sink
          dropped   \* the drop counter, per label

channelVars == <<raised, got, settled, dropped>>

Init == /\ raised = {}
        /\ got = [s \in Sinks |-> {}]
        /\ settled = [s \in Sinks |-> {}]
        /\ dropped = [n \in Names |-> 0]

Raise(B) == /\ raised' = raised \cup B
            /\ UNCHANGED <<got, settled, dropped>>

Receive(s, e) == /\ got' = [got EXCEPT ![s] = @ \cup {e}]
                 /\ UNCHANGED <<raised, settled, dropped>>

Settle(s, B) == /\ settled' = [settled EXCEPT ![s] = @ \cup B]
                /\ \/ B \subseteq got[s] /\ UNCHANGED dropped
                   \/ dropped' = [dropped EXCEPT ![NameOf[s]] = @ + Cardinality(B)]
                /\ UNCHANGED <<raised, got>>

(* The events that sink s may still receive.                               *)
pending(s) == raised \ settled[s]

Next == \/ \E B \in SUBSET (Events \ raised) : Raise(B)
        \/ \E s \in Sinks : \/ \E e \in pending(s) : Receive(s, e)
                            \/ \E B \in SUBSET pending(s) : Settle(s, B)

Spec == Init /\ [][Next]_channelVars
=============================================================================
