------------------------------ MODULE MCAgent -------------------------------
(* The agent with one event source and two webhooks on the same host.      *)
EXTENDS Agent

CONSTANTS drain,        \* the source's goroutine
          TickBudget,   \* events raised by polls
          DrainBudget   \* events of the source

MCProcs == {Tick, drain}
MCNames == {"webhook:https://host"}
MCNameOf == [s \in 1..NSinks |-> "webhook:https://host"]
MCBudget == [p \in MCProcs |-> IF p = Tick THEN TickBudget ELSE DrainBudget]
MCEvents == UNION {{p} \X (1..MCBudget[p]) : p \in MCProcs}
=============================================================================
