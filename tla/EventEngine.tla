---------------------------- MODULE EventEngine ----------------------------
(***************************************************************************)
(* The threshold engine of internal/event/event.go: Engine.Evaluate turns  *)
(* a batch of samples into ENTER / EXIT events with one hysteresis state   *)
(* per (rule, device).                                                     *)
(*                                                                         *)
(* Evaluate runs on the agent's tick goroutine only, so its two nested     *)
(* loops (samples outer, rules inner) are one process: an Evaluate step    *)
(* handles one (sample, rule) pair, and Begin / Return open and close the  *)
(* call.  Restart is the process dying and NewEngine building fresh state: *)
(* the engine persists nothing.                                            *)
(*                                                                         *)
(* emitted logs every event the calls append to their out slices.  It and  *)
(* obs, the record of what each (rule, device) state was fed, exist only   *)
(* to state properties.                                                    *)
(***************************************************************************)
EXTENDS Integers, Sequences

CONSTANTS Rules,      \* config.Rules, in construction order
          Devices,    \* concrete device names
          Metrics,    \* metric names
          Labels,     \* label sets that tell apart series of one metric and device
          Tiers,      \* collector tiers
          TierOf,     \* the tier whose collector emits a metric
          Values,     \* sample values
          Times,      \* sample timestamps
          AnyDevice,  \* the empty rule device: wildcard
          MaxBatch,   \* bound: samples per Evaluate call
          MaxSteps,   \* bound: samples fed to the engine in a behaviour
          MaxRuns     \* bound: process lifetimes

Rule == [metric : Metrics, device : Devices \cup {AnyDevice}, condition : STRING,
         threshold : Int, enterFor : Int, exitFor : Int]

Sample == [tier : Tiers, device : Devices, metric : Metrics, labels : Labels,
           value : Int, ts : Int]

ASSUME RulesAssumption ==
  /\ Rules \in Seq(Rule)
  /\ AnyDevice \notin Devices
  /\ TierOf \in [Metrics -> Tiers]
  /\ Values \subseteq Int
  /\ Times \subseteq Int
  /\ MaxBatch \in Nat /\ MaxSteps \in Nat /\ MaxRuns \in Nat

RuleIds == 1 .. Len(Rules)

VARIABLES devices,   \* devices[r][d]: deviceState of rule r for device d
          samples,   \* the batch being evaluated
          si, ri,    \* loop cursors: next sample, next rule
          emitted,   \* log of every event appended to an out slice
          run,       \* number of the process lifetime
          obs,       \* what each (rule, device) was fed in this lifetime
          fed        \* samples fed in the behaviour (bounded by MaxSteps)

vars == <<devices, samples, si, ri, emitted, run, obs, fed>>
-----------------------------------------------------------------------------
Phases == {"ENTER", "EXIT"}

deviceState == [active : BOOLEAN, breachRun : Nat, clearRun : Nat, seq : Nat, startedAt : Int]

\* The zero deviceState; a map entry that does not exist yet is created with
\* exactly this value at its first use, so absent and zero are one state here.
zeroState == [active |-> FALSE, breachRun |-> 0, clearRun |-> 0, seq |-> 0, startedAt |-> 0]

Event == [run : Nat, rule : RuleIds, tier : Tiers, device : Devices, condition : STRING,
          phase : Phases, seq : Nat, startedAt : Int, endedAt : Int]

\* What obs records of a sample: which series it belongs to and its side of the threshold.
Observation == [labels : Labels, breach : BOOLEAN]

max1(n) == IF n < 1 THEN 1 ELSE n

enterFor(r) == max1(Rules[r].enterFor)
exitFor(r) == max1(Rules[r].exitFor)

\* A name that ends in Bug is a deliberately wrong variant of the definition
\* that follows it; the mutants of PROJECT.json use them to show that a
\* property can fail.

\* Lines 65-70: does rule r apply to sample s?
matches(r, s) ==
  /\ Rules[r].metric = s.metric
  /\ Rules[r].device \in {AnyDevice, s.device}

breaches(r, s) == s.value > Rules[r].threshold

observeBug(r, ds, s) ==
  IF breaches(r, s)
  THEN [ds EXCEPT !.breachRun = @ + 1]
  ELSE [ds EXCEPT !.clearRun = @ + 1, !.breachRun = 0]

\* Lines 76-82: count the sample into the run of its kind, reset the other.
observe(r, ds, s) ==
  IF breaches(r, s)
  THEN [ds EXCEPT !.breachRun = @ + 1, !.clearRun = 0]
  ELSE [ds EXCEPT !.clearRun = @ + 1, !.breachRun = 0]

\* The two cases of the switch, on the state after observe.
enters(r, ds) == ~ds.active /\ ds.breachRun >= enterFor(r)
exits(r, ds) == ds.active /\ ds.clearRun >= exitFor(r)

transitionBug(r, ds, s) ==
  IF enters(r, ds) THEN [ds EXCEPT !.active = TRUE, !.seq = @ + 1]
  ELSE IF exits(r, ds) THEN [ds EXCEPT !.active = FALSE, !.seq = @ + 1]
  ELSE ds

transition(r, ds, s) ==
  IF enters(r, ds) THEN [ds EXCEPT !.active = TRUE, !.seq = @ + 1, !.startedAt = s.ts]
  ELSE IF exits(r, ds) THEN [ds EXCEPT !.active = FALSE, !.seq = @ + 1]
  ELSE ds

\* The event appended to out when state ds (after observe) transitions on s;
\* the zero EndedAt is 0.
eventOf(r, ds, s) ==
  [run |-> run, rule |-> r, tier |-> s.tier, device |-> s.device,
   condition |-> Rules[r].condition, phase |-> IF ds.active THEN "EXIT" ELSE "ENTER",
   seq |-> ds.seq + 1, startedAt |-> IF ds.active THEN ds.startedAt ELSE s.ts,
   endedAt |-> IF ds.active THEN s.ts ELSE 0]

FingerprintBug(e) == <<e.tier, e.condition>>

\* Event.Fingerprint and the ID built from it.  The node name is one constant
\* and the truncated hash is taken to be injective on its four inputs.
Fingerprint(e) == <<e.tier, e.device, e.condition>>
ID(e) == <<Fingerprint(e), e.phase, e.seq>>
-----------------------------------------------------------------------------
NewEngine == [r \in RuleIds |-> [d \in Devices |-> zeroState]]
noObs == [r \in RuleIds |-> [d \in Devices |-> <<>>]]

Init ==
  /\ devices = NewEngine
  /\ samples = <<>> /\ si = 1 /\ ri = 1
  /\ emitted = <<>>
  /\ run = 1 /\ obs = noObs /\ fed = 0

Idle == si > Len(samples)

\* One Evaluate call begins on a batch some collectors returned.
Begin ==
  /\ Idle /\ samples = <<>> /\ fed < MaxSteps
  /\ \E n \in 1 .. MaxBatch :
       /\ fed + n <= MaxSteps
       /\ \E batch \in [1 .. n -> {x \in [tier : Tiers, device : Devices, metric : Metrics,
                                          labels : Labels, value : Values, ts : Times] :
                                     x.tier = TierOf[x.metric]}] :
            samples' = batch
       /\ fed' = fed + n
  /\ si' = 1 /\ ri' = 1
  /\ UNCHANGED <<devices, emitted, run, obs>>

\* Next rule; after the last rule, the first rule of the next sample.
advance ==
  IF ri < Len(Rules) THEN ri' = ri + 1 /\ si' = si ELSE ri' = 1 /\ si' = si + 1

\* The body of the inner loop for sample s under rule r.
EvaluateStep(s, r) ==
  LET seen == observe(r, devices[r][s.device], s)
  IN  IF matches(r, s)
      THEN /\ devices' = [devices EXCEPT ![r][s.device] = transition(r, seen, s)]
           /\ obs' = [obs EXCEPT ![r][s.device] =
                        Append(@, [labels |-> s.labels, breach |-> breaches(r, s)])]
           /\ emitted' = IF enters(r, seen) \/ exits(r, seen)
                         THEN Append(emitted, eventOf(r, seen, s))
                         ELSE emitted
      ELSE UNCHANGED <<devices, obs, emitted>>

Evaluate ==
  /\ ~Idle
  /\ ri <= Len(Rules)
  /\ EvaluateStep(samples[si], ri)
  /\ advance
  /\ UNCHANGED <<samples, run, fed>>

Return ==
  /\ samples # <<>>
  /\ Idle \/ ri > Len(Rules)
  /\ samples' = <<>> /\ si' = 1 /\ ri' = 1
  /\ UNCHANGED <<devices, emitted, run, obs, fed>>

\* The process dies, between or inside calls, and starts again.
Restart ==
  /\ run < MaxRuns
  /\ run' = run + 1
  /\ devices' = NewEngine /\ obs' = noObs
  /\ samples' = <<>> /\ si' = 1 /\ ri' = 1
  /\ UNCHANGED <<emitted, fed>>

Next == Begin \/ Evaluate \/ Return \/ Restart

Spec == Init /\ [][Next]_vars
-----------------------------------------------------------------------------
(***************************************************************************)
(* Properties                                                              *)
(***************************************************************************)

\* Every variable has the type the Go declarations give it.
TypeOK ==
  /\ devices \in [RuleIds -> [Devices -> deviceState]]
  /\ samples \in Seq(Sample)
  /\ si \in Nat \ {0} /\ ri \in Nat \ {0}
  /\ emitted \in Seq(Event)
  /\ run \in Nat /\ fed \in Nat
  /\ obs \in [RuleIds -> [Devices -> Seq(Observation)]]

\* The n observations of history h that end at position k all breach / all clear.
breachWindow(h, k, n) == k >= n /\ \A i \in (k - n + 1) .. k : h[i].breach
clearWindow(h, k, n) == k >= n /\ \A i \in (k - n + 1) .. k : ~h[i].breach

\* What hysteresis means, read off the history alone: some window of enterFor
\* consecutive breaches, and no window of exitFor consecutive clears ending
\* after it.
alertDue(r, h) ==
  \E k \in 1 .. Len(h) :
    /\ breachWindow(h, k, enterFor(r))
    /\ \A m \in (k + 1) .. Len(h) : ~clearWindow(h, m, exitFor(r))

\* The counters, the active flag and the order of the switch cases of Evaluate
\* (event.go lines 76-105) keep each device's alert on exactly while the
\* hysteresis rule over everything that device was fed says it is due.
HysteresisMatchesHistory ==
  \A r \in RuleIds, d \in Devices : devices[r][d].active <=> alertDue(r, obs[r][d])

\* The run counters of ds are the lengths of the longest all-breach and
\* all-clear suffixes of h: what makes HysteresisMatchesHistory inductive.
tracksRuns(h, ds) ==
  /\ ds.breachRun <= Len(h) /\ ds.clearRun <= Len(h)
  /\ \A i \in (Len(h) - ds.breachRun + 1) .. Len(h) : h[i].breach
  /\ \A i \in (Len(h) - ds.clearRun + 1) .. Len(h) : ~h[i].breach
  /\ ds.breachRun < Len(h) => ~h[Len(h) - ds.breachRun].breach
  /\ ds.clearRun < Len(h) => h[Len(h) - ds.clearRun].breach

CountersMatchHistory ==
  \A r \in RuleIds, d \in Devices : tracksRuns(obs[r][d], devices[r][d])

\* Positions in a log of the events of rule r and device d in lifetime n.
eventsOf(log, n, r, d) ==
  {i \in DOMAIN log : log[i].run = n /\ log[i].rule = r /\ log[i].device = d}

\* Event i opens with ENTER number 1, or follows the event with the previous
\* seq and the other phase; an EXIT carries the startedAt of the ENTER it ends.
followsItsPair(log, i) ==
  IF log[i].seq = 1
  THEN log[i].phase = "ENTER"
  ELSE \E j \in eventsOf(log, log[i].run, log[i].rule, log[i].device) :
         /\ j < i
         /\ log[j].seq = log[i].seq - 1
         /\ log[j].phase # log[i].phase
         /\ log[i].phase = "EXIT" => log[j].startedAt = log[i].startedAt

\* The events of a rule and device alternate ENTER, EXIT, ... with seq 1, 2, ...
\* and no gap, and an EXIT names the start of the alert it closes (event.go
\* lines 85-104): what a receiver needs to pair them and to spot a lost one.
EventsAlternate == \A i \in DOMAIN emitted : followsItsPair(emitted, i)

\* A device's alert is on exactly when the last event logged for it in this
\* lifetime is an ENTER: no transition happens without its event.
ActiveMeansOpenInLog ==
  \A r \in RuleIds, d \in Devices :
    devices[r][d].active <=>
      \E i \in eventsOf(emitted, run, r, d) :
        emitted[i].phase = "ENTER" /\ \A j \in eventsOf(emitted, run, r, d) : j <= i

\* A receiver that has every event can rebuild the state of every alert: events
\* pair up, and the pair left open is the alert that is on.
EventsPairUp == EventsAlternate /\ ActiveMeansOpenInLog

\* The log up to now: seq grows along the events of a rule and device, ends at
\* the seq of the live state, and the last event agrees with the live state.
\* The inductive strengthening of the two properties above and the one below.
logGrows(log) ==
  \A i, j \in DOMAIN log :
    /\ i < j
    /\ log[i].run = log[j].run /\ log[i].rule = log[j].rule /\ log[i].device = log[j].device
    => log[i].seq < log[j].seq

logMatchesState(log, n, r, d, ds) ==
  /\ \A i \in eventsOf(log, n, r, d) : log[i].seq \in 1 .. ds.seq
  /\ ds.seq = 0 => ~ds.active
  /\ ds.seq > 0 => \E i \in eventsOf(log, n, r, d) :
                      /\ log[i].seq = ds.seq
                      /\ (log[i].phase = "ENTER") <=> ds.active
                      /\ ds.active => log[i].startedAt = ds.startedAt

LogInv ==
  /\ \A i \in DOMAIN emitted :
       /\ emitted[i].run <= run
       /\ emitted[i].condition = Rules[emitted[i].rule].condition
       /\ Rules[emitted[i].rule].device \in {AnyDevice, emitted[i].device}
  /\ logGrows(emitted)
  /\ \A r \in RuleIds, d \in Devices : logMatchesState(emitted, run, r, d, devices[r][d])

\* Within one process lifetime an ID, the Webhook-Id receivers deduplicate on
\* (event.go line 109), is repeated only by another rule that shares the
\* condition and applies to the same device: the rule is not part of the
\* fingerprint.  The transitions of one rule, of any two devices, and of rules
\* with conditions of their own never share one.
IdsIdentifyTransitions ==
  \A i, j \in DOMAIN emitted :
    LET a == emitted[i]
        b == emitted[j]
    IN  i # j /\ a.run = b.run /\ ID(a) = ID(b) =>
          /\ a.device = b.device /\ a.rule # b.rule
          /\ Rules[a.rule].condition = Rules[b.rule].condition
          /\ {Rules[a.rule].device, Rules[b.rule].device} \subseteq {AnyDevice, a.device}

\* Within one process lifetime no two events carry the same ID, as section 6 of
\* the design document says of every transition.
UniqueIds ==
  \A i, j \in DOMAIN emitted :
    emitted[i].run = emitted[j].run /\ ID(emitted[i]) = ID(emitted[j]) => i = j

\* No two events ever carry the same ID, process restarts included.
UniqueIdsAcrossRestarts ==
  \A i, j \in DOMAIN emitted : ID(emitted[i]) = ID(emitted[j]) => i = j

\* A series (device and label set) whose last enterFor samples all breached has
\* its alert on: enterFor consecutive breaches raise the ENTER event.
SeriesBreachRaisesAlert ==
  \A r \in RuleIds, d \in Devices, l \in Labels :
    LET own(o) == o.labels = l
        h == SelectSeq(obs[r][d], own)
    IN  /\ obs[r][d] # <<>>
        /\ obs[r][d][Len(obs[r][d])].labels = l
        /\ breachWindow(h, Len(h), enterFor(r))
        => devices[r][d].active
=============================================================================
