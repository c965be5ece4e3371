--------------------------- MODULE MCEventEngine ---------------------------
(* Small instances of EventEngine for TLC. *)
EXTENDS EventEngine

MCTiers == {"common", "smart"}
MCTierOf == [m \in Metrics |-> IF m = "temp" THEN "smart" ELSE "common"]

\* A wildcard rule that debounces both edges, and an exact-device rule on the
\* same metric and of the same condition whose enterFor is left at zero
\* (clamped to 1).
MCRules ==
  << [metric |-> "temp", device |-> AnyDevice, condition |-> "hot",
      threshold |-> 1, enterFor |-> 2, exitFor |-> 2],
     [metric |-> "temp", device |-> "sda", condition |-> "hot",
      threshold |-> 1, enterFor |-> 0, exitFor |-> 1] >>

\* Warning and critical thresholds of one condition, as an operator escalates.
MCEscalation ==
  << [metric |-> "temp", device |-> AnyDevice, condition |-> "hot",
      threshold |-> 1, enterFor |-> 1, exitFor |-> 1],
     [metric |-> "temp", device |-> AnyDevice, condition |-> "hot",
      threshold |-> 2, enterFor |-> 1, exitFor |-> 1] >>

\* One rule on a metric reported once per label set, such as PSI some / full.
MCOneRule ==
  << [metric |-> "temp", device |-> AnyDevice, condition |-> "hot",
      threshold |-> 1, enterFor |-> 2, exitFor |-> 2] >>
=============================================================================
