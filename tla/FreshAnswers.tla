---------------------------- MODULE FreshAnswers ----------------------------
(***************************************************************************)
(* What the kube_* surface promises a scraper, without its cache, its lock *)
(* and its requests: every scrape is answered by an error or by one pair   *)
(* of reads of the API server, the node's first and the pods' within the   *)
(* timeouts of two requests; the pods were read no longer ago than one     *)
(* timeout, in which the reply was on its way, and the TTL.  Two answers   *)
(* are the same or were read a TTL apart, the later one given later.       *)
(*                                                                         *)
(* The revision of the cluster at time t is t itself: the cluster is taken *)
(* to change at every tick, so a read at time t returns revision t.        *)
(***************************************************************************)
EXTENDS Naturals

CONSTANTS Scrapers, TTL, RequestTimeout, Horizon

VARIABLES now,     \* the clock
          answer   \* the last answer each scraper got

Snapshots == [node : 0..Horizon, pods : 0..Horizon]

noAnswer == [ok |-> FALSE, snap |-> {}]

promised(sn) == /\ sn \in Snapshots
                /\ sn.node <= sn.pods /\ sn.pods <= sn.node + 2 * RequestTimeout
                /\ sn.pods <= now /\ now < sn.pods + RequestTimeout + TTL
                /\ \A s \in Scrapers : \A old \in answer[s].snap : old = sn \/ old.pods + TTL <= sn.node

Init == now = 0 /\ answer = [s \in Scrapers |-> noAnswer]

Tick == now < Horizon /\ now' = now + 1 /\ UNCHANGED answer

Reply(s) == /\ \/ answer' = [answer EXCEPT ![s] = noAnswer]
               \/ \E sn \in Snapshots : /\ promised(sn)
                                        /\ answer' = [answer EXCEPT ![s] = [ok |-> TRUE, snap |-> {sn}]]
            /\ UNCHANGED now

Next == Tick \/ \E s \in Scrapers : Reply(s)

Spec == Init /\ [][Next]_<<now, answer>>
=============================================================================
