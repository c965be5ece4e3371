------------------------- MODULE EventEngine_proofs -------------------------
(***************************************************************************)
(* Theorems about EventEngine, for every rule list, threshold, enterFor    *)
(* and exitFor, every set of devices and every stream of samples.          *)
(***************************************************************************)
EXTENDS EventEngine, TLAPS

\* One engine step on a matching sample, as a fact about the two functions.
LEMMA RuleFields ==
  ASSUME NEW r \in RuleIds
  PROVE  /\ Rules[r] \in Rule
         /\ enterFor(r) \in Nat \ {0}
         /\ exitFor(r) \in Nat \ {0}
<1>1. Rules[r] \in Rule
  BY RulesAssumption DEF RuleIds
<1>2. Rules[r].enterFor \in Int /\ Rules[r].exitFor \in Int
  BY <1>1 DEF Rule
<1>. QED
  BY <1>1, <1>2 DEF enterFor, exitFor, max1

\* observe, transition and eventOf stay inside their types.
LEMMA StepTypes ==
  ASSUME NEW r \in RuleIds, NEW ds \in deviceState, NEW s \in Sample, run \in Nat
  PROVE  /\ observe(r, ds, s) \in deviceState
         /\ transition(r, ds, s) \in deviceState
         /\ eventOf(r, ds, s) \in Event
         /\ breaches(r, s) \in BOOLEAN
<1>1. Rules[r] \in Rule
  BY RuleFields
<1>2. /\ s.tier \in Tiers /\ s.device \in Devices /\ s.ts \in Int
      /\ s.value \in Int /\ Rules[r].threshold \in Int /\ Rules[r].condition \in STRING
  BY <1>1 DEF Sample, Rule
<1>3. breaches(r, s) \in BOOLEAN
  BY <1>2 DEF breaches
<1> DEFINE b == ds.breachRun + 1
           c == ds.clearRun + 1
           q == ds.seq + 1
<1>4. b \in Nat /\ c \in Nat /\ q \in Nat
  BY DEF deviceState
<1>5. observe(r, ds, s) \in deviceState /\ transition(r, ds, s) \in deviceState
  <2> HIDE DEF b, c, q
  <2>1. [ds EXCEPT !.breachRun = b, !.clearRun = 0] \in deviceState
    BY <1>4 DEF deviceState
  <2>2. [ds EXCEPT !.clearRun = c, !.breachRun = 0] \in deviceState
    BY <1>4 DEF deviceState
  <2>3. [ds EXCEPT !.active = TRUE, !.seq = q, !.startedAt = s.ts] \in deviceState
    BY <1>2, <1>4 DEF deviceState
  <2>4. [ds EXCEPT !.active = FALSE, !.seq = q] \in deviceState
    BY <1>4 DEF deviceState
  <2>. QED
    BY <2>1, <2>2, <2>3, <2>4 DEF observe, transition, b, c, q
<1>6. eventOf(r, ds, s) \in Event
  BY <1>2 DEF eventOf, Event, deviceState, Phases
<1>. QED
  BY <1>3, <1>5, <1>6

\* The engine's variables keep their types.
THEOREM TypeCorrect == Spec => []TypeOK
<1>1. Init => TypeOK
  BY RulesAssumption DEF Init, TypeOK, NewEngine, noObs, zeroState, deviceState, RuleIds
<1>2. TypeOK /\ [Next]_vars => TypeOK'
  <2> SUFFICES ASSUME TypeOK, [Next]_vars PROVE TypeOK'
    OBVIOUS
  <2> USE DEF TypeOK
  <2>1. CASE Begin
    <3>1. PICK n \in 1 .. MaxBatch :
            /\ \E batch \in [1 .. n -> {x \in [tier : Tiers, device : Devices, metric : Metrics,
                                               labels : Labels, value : Values, ts : Times] :
                                          x.tier = TierOf[x.metric]}] : samples' = batch
            /\ fed' = fed + n
      BY <2>1 DEF Begin
    <3>2. samples' \in [1 .. n -> Sample]
      BY <3>1, RulesAssumption DEF Sample
    <3>3. samples' \in Seq(Sample)
      BY <3>2, RulesAssumption
    <3>. QED
      BY <2>1, <3>1, <3>3, RulesAssumption DEF Begin
  <2>2. CASE Evaluate
    <3> DEFINE s == samples[si]
    <3>1. s \in Sample /\ ri \in RuleIds
      BY <2>2 DEF Evaluate, Idle, RuleIds
    <3>2. s.device \in Devices /\ s.labels \in Labels
      BY <3>1 DEF Sample
    <3>3. devices[ri][s.device] \in deviceState
      BY <3>1, <3>2
    <3> DEFINE seen == observe(ri, devices[ri][s.device], s)
    <3>4. seen \in deviceState
      BY <3>1, <3>3, StepTypes
    <3>5. /\ transition(ri, seen, s) \in deviceState
          /\ eventOf(ri, seen, s) \in Event
          /\ breaches(ri, s) \in BOOLEAN
      BY <3>1, <3>4, StepTypes
    <3>6. EvaluateStep(s, ri)
      BY <2>2 DEF Evaluate
    <3> HIDE DEF s
    <3>7. /\ devices' \in [RuleIds -> [Devices -> deviceState]]
          /\ emitted' \in Seq(Event)
          /\ obs' \in [RuleIds -> [Devices -> Seq(Observation)]]
      <4>1. CASE matches(ri, s)
        <5> HIDE DEF seen
        <5>1. /\ devices' = [devices EXCEPT ![ri][s.device] = transition(ri, seen, s)]
              /\ obs' = [obs EXCEPT ![ri][s.device] =
                           Append(@, [labels |-> s.labels, breach |-> breaches(ri, s)])]
              /\ emitted' = IF enters(ri, seen) \/ exits(ri, seen)
                            THEN Append(emitted, eventOf(ri, seen, s)) ELSE emitted
          BY <3>6, <4>1 DEF EvaluateStep, seen
        <5>2. [labels |-> s.labels, breach |-> breaches(ri, s)] \in Observation
          BY <3>2, <3>5 DEF Observation
        <5>3. devices' \in [RuleIds -> [Devices -> deviceState]]
          BY <5>1, <3>1, <3>2, <3>5
        <5>4. emitted' \in Seq(Event)
          BY <5>1, <3>5
        <5>5. obs[ri][s.device] \in Seq(Observation)
          BY <3>1, <3>2
        <5>6. obs' \in [RuleIds -> [Devices -> Seq(Observation)]]
          BY <5>1, <5>2, <5>5, <3>1, <3>2
        <5>. QED
          BY <5>3, <5>4, <5>6
      <4>2. CASE ~matches(ri, s)
        BY <3>6, <4>2 DEF EvaluateStep
      <4>. QED
        BY <4>1, <4>2
    <3>8. si' \in Nat \ {0} /\ ri' \in Nat \ {0}
      BY <2>2 DEF Evaluate, advance
    <3>. QED
      BY <2>2, <3>7, <3>8 DEF Evaluate
  <2>3. CASE Return
    BY <2>3 DEF Return
  <2>4. CASE Restart
    BY <2>4 DEF Restart, NewEngine, noObs, zeroState, deviceState
  <2>5. CASE UNCHANGED vars
    BY <2>5 DEF vars
  <2>. QED
    BY <2>1, <2>2, <2>3, <2>4, <2>5 DEF Next
<1>. QED
  BY <1>1, <1>2, PTL DEF Spec
-----------------------------------------------------------------------------
\* Appending an observation: the old positions are kept, the new one is last.
LEMMA AppendHistory ==
  ASSUME NEW h \in Seq(Observation), NEW o \in Observation
  PROVE  /\ Append(h, o) \in Seq(Observation)
         /\ Len(h) \in Nat
         /\ Len(Append(h, o)) = Len(h) + 1
         /\ \A i \in 1 .. Len(h) : Append(h, o)[i] = h[i]
         /\ Append(h, o)[Len(h) + 1] = o
OBVIOUS

\* The fields observe leaves behind.
LEMMA ObserveFields ==
  ASSUME NEW r \in RuleIds, NEW ds \in deviceState, NEW s \in Sample
  PROVE  /\ observe(r, ds, s).active = ds.active
         /\ observe(r, ds, s).seq = ds.seq
         /\ observe(r, ds, s).startedAt = ds.startedAt
         /\ breaches(r, s) => /\ observe(r, ds, s).breachRun = ds.breachRun + 1
                              /\ observe(r, ds, s).clearRun = 0
         /\ ~breaches(r, s) => /\ observe(r, ds, s).breachRun = 0
                               /\ observe(r, ds, s).clearRun = ds.clearRun + 1
BY DEF observe, deviceState

\* The fields transition leaves behind.
LEMMA TransitionFields ==
  ASSUME NEW r \in RuleIds, NEW ds \in deviceState, NEW s \in Sample
  PROVE  /\ transition(r, ds, s).breachRun = ds.breachRun
         /\ transition(r, ds, s).clearRun = ds.clearRun
         /\ enters(r, ds) => /\ transition(r, ds, s).active = TRUE
                             /\ transition(r, ds, s).seq = ds.seq + 1
                             /\ transition(r, ds, s).startedAt = s.ts
         /\ exits(r, ds) => /\ transition(r, ds, s).active = FALSE
                            /\ transition(r, ds, s).seq = ds.seq + 1
                            /\ transition(r, ds, s).startedAt = ds.startedAt
         /\ ~enters(r, ds) /\ ~exits(r, ds) => transition(r, ds, s) = ds
<1>1. enters(r, ds) => ~exits(r, ds)
  BY DEF enters, exits
<1>. QED
  BY <1>1 DEF transition, deviceState

\* observe keeps the counters equal to the suffix lengths.
LEMMA TracksStep ==
  ASSUME NEW r \in RuleIds, NEW ds \in deviceState, NEW s \in Sample,
         NEW h \in Seq(Observation), NEW o \in Observation,
         o.breach = breaches(r, s), tracksRuns(h, ds)
  PROVE  tracksRuns(Append(h, o), observe(r, ds, s))
<1> DEFINE g == Append(h, o)
           os == observe(r, ds, s)
           n == Len(h)
<1>1. /\ n \in Nat /\ Len(g) = n + 1
      /\ \A i \in 1 .. n : g[i] = h[i]
      /\ g[n + 1] = o
  BY AppendHistory
<1>2. ds.breachRun \in Nat /\ ds.clearRun \in Nat
  BY DEF deviceState
<1>3. CASE breaches(r, s)
  <2>1. os.breachRun = ds.breachRun + 1 /\ os.clearRun = 0
    BY <1>3, ObserveFields
  <2>2. o.breach
    BY <1>3
  <2> HIDE DEF g, os
  <2>3. os.breachRun <= Len(g) /\ os.clearRun <= Len(g)
    BY <1>1, <1>2, <2>1 DEF tracksRuns
  <2>4. ASSUME NEW i \in (Len(g) - os.breachRun + 1) .. Len(g) PROVE g[i].breach
    <3>1. CASE i = n + 1
      BY <3>1, <1>1, <2>2
    <3>2. CASE i # n + 1
      <4>1. i \in (n - ds.breachRun + 1) .. n /\ i \in 1 .. n
        BY <3>2, <1>1, <1>2, <2>1 DEF tracksRuns
      <4>. QED
        BY <4>1, <1>1 DEF tracksRuns
    <3>. QED
      BY <3>1, <3>2
  <2>5. ASSUME os.breachRun < Len(g) PROVE ~g[Len(g) - os.breachRun].breach
    <3>1. ds.breachRun < n /\ Len(g) - os.breachRun = n - ds.breachRun /\ n - ds.breachRun \in 1 .. n
      BY <2>5, <1>1, <1>2, <2>1
    <3>. QED
      BY <3>1, <1>1 DEF tracksRuns
  <2>6. (Len(g) - os.clearRun + 1) .. Len(g) = {} /\ Len(g) - os.clearRun = n + 1
    BY <1>1, <2>1
  <2>7. tracksRuns(g, os)
    BY <2>2, <2>3, <2>4, <2>5, <2>6, <1>1 DEF tracksRuns
  <2>. QED
    BY <2>7 DEF g, os
<1>4. CASE ~breaches(r, s)
  <2>1. os.clearRun = ds.clearRun + 1 /\ os.breachRun = 0
    BY <1>4, ObserveFields
  <2>2. ~o.breach
    BY <1>4
  <2> HIDE DEF g, os
  <2>3. os.clearRun <= Len(g) /\ os.breachRun <= Len(g)
    BY <1>1, <1>2, <2>1 DEF tracksRuns
  <2>4. ASSUME NEW i \in (Len(g) - os.clearRun + 1) .. Len(g) PROVE ~g[i].breach
    <3>1. CASE i = n + 1
      BY <3>1, <1>1, <2>2
    <3>2. CASE i # n + 1
      <4>1. i \in (n - ds.clearRun + 1) .. n /\ i \in 1 .. n
        BY <3>2, <1>1, <1>2, <2>1 DEF tracksRuns
      <4>. QED
        BY <4>1, <1>1 DEF tracksRuns
    <3>. QED
      BY <3>1, <3>2
  <2>5. ASSUME os.clearRun < Len(g) PROVE g[Len(g) - os.clearRun].breach
    <3>1. ds.clearRun < n /\ Len(g) - os.clearRun = n - ds.clearRun /\ n - ds.clearRun \in 1 .. n
      BY <2>5, <1>1, <1>2, <2>1
    <3>. QED
      BY <3>1, <1>1 DEF tracksRuns
  <2>6. (Len(g) - os.breachRun + 1) .. Len(g) = {} /\ Len(g) - os.breachRun = n + 1
    BY <1>1, <2>1
  <2>7. tracksRuns(g, os)
    BY <2>2, <2>3, <2>4, <2>5, <2>6, <1>1 DEF tracksRuns
  <2>. QED
    BY <2>7 DEF g, os
<1>. QED
  BY <1>3, <1>4

\* With tracked counters, a window ending at the last observation is a counter test.
LEMMA WindowIsCounter ==
  ASSUME NEW h \in Seq(Observation), NEW ds \in deviceState, NEW k \in Nat \ {0},
         tracksRuns(h, ds)
  PROVE  /\ breachWindow(h, Len(h), k) <=> ds.breachRun >= k
         /\ clearWindow(h, Len(h), k) <=> ds.clearRun >= k
<1>1. Len(h) \in Nat /\ ds.breachRun \in Nat /\ ds.clearRun \in Nat
  BY DEF deviceState
<1>2. breachWindow(h, Len(h), k) <=> ds.breachRun >= k
  <2>1. ASSUME ds.breachRun >= k PROVE breachWindow(h, Len(h), k)
    BY <1>1, <2>1 DEF breachWindow, tracksRuns
  <2>2. ASSUME ds.breachRun < k, breachWindow(h, Len(h), k) PROVE FALSE
    <3>1. Len(h) - ds.breachRun \in (Len(h) - k + 1) .. Len(h) /\ ds.breachRun < Len(h)
      BY <1>1, <2>2 DEF breachWindow
    <3>. QED
      BY <3>1, <2>2 DEF breachWindow, tracksRuns
  <2>. QED
    BY <1>1, <2>1, <2>2
<1>3. clearWindow(h, Len(h), k) <=> ds.clearRun >= k
  <2>1. ASSUME ds.clearRun >= k PROVE clearWindow(h, Len(h), k)
    BY <1>1, <2>1 DEF clearWindow, tracksRuns
  <2>2. ASSUME ds.clearRun < k, clearWindow(h, Len(h), k) PROVE FALSE
    <3>1. Len(h) - ds.clearRun \in (Len(h) - k + 1) .. Len(h) /\ ds.clearRun < Len(h)
      BY <1>1, <2>2 DEF clearWindow
    <3>. QED
      BY <3>1, <2>2 DEF clearWindow, tracksRuns
  <2>. QED
    BY <1>1, <2>1, <2>2
<1>. QED
  BY <1>2, <1>3
\* How one more observation changes whether an alert is due.
LEMMA DueStep ==
  ASSUME NEW r \in RuleIds, NEW h \in Seq(Observation), NEW o \in Observation
  PROVE  LET g == Append(h, o)
         IN  alertDue(r, g) <=> \/ breachWindow(g, Len(g), enterFor(r))
                                \/ alertDue(r, h) /\ ~clearWindow(g, Len(g), exitFor(r))
<1> DEFINE g == Append(h, o)
           n == Len(h)
           e == enterFor(r)
           x == exitFor(r)
<1>1. /\ n \in Nat /\ Len(g) = n + 1
      /\ \A i \in 1 .. n : g[i] = h[i]
  BY AppendHistory
<1>2. e \in Nat \ {0} /\ x \in Nat \ {0}
  BY RuleFields
<1> HIDE DEF g, e, x
<1>3. ASSUME NEW k \in 1 .. n
      PROVE  /\ breachWindow(g, k, e) <=> breachWindow(h, k, e)
             /\ clearWindow(g, k, x) <=> clearWindow(h, k, x)
  <2>1. ASSUME k >= e PROVE \A i \in (k - e + 1) .. k : i \in 1 .. n
    BY <1>1, <1>2, <2>1
  <2>2. ASSUME k >= x PROVE \A i \in (k - x + 1) .. k : i \in 1 .. n
    BY <1>1, <1>2, <2>2
  <2>. QED
    BY <1>1, <2>1, <2>2 DEF breachWindow, clearWindow
<1>4. ASSUME breachWindow(g, Len(g), e)
      PROVE  \E k \in 1 .. Len(g) : /\ breachWindow(g, k, e)
                                    /\ \A m \in (k + 1) .. Len(g) : ~clearWindow(g, m, x)
  <2>1. (Len(g) + 1) .. Len(g) = {} /\ Len(g) \in 1 .. Len(g)
    BY <1>1
  <2>. QED
    BY <1>4, <2>1
<1>5. ASSUME alertDue(r, h), ~clearWindow(g, Len(g), x)
      PROVE  \E k \in 1 .. Len(g) : /\ breachWindow(g, k, e)
                                    /\ \A m \in (k + 1) .. Len(g) : ~clearWindow(g, m, x)
  <2>1. PICK k \in 1 .. n : /\ breachWindow(h, k, e)
                            /\ \A m \in (k + 1) .. n : ~clearWindow(h, m, x)
    BY <1>5 DEF alertDue, e, x
  <2>2. breachWindow(g, k, e) /\ k \in 1 .. Len(g)
    BY <2>1, <1>1, <1>3
  <2>3. ASSUME NEW m \in (k + 1) .. Len(g) PROVE ~clearWindow(g, m, x)
    <3>1. CASE m = Len(g)
      BY <3>1, <1>5
    <3>2. CASE m # Len(g)
      <4>1. m \in (k + 1) .. n /\ m \in 1 .. n
        BY <3>2, <1>1
      <4>. QED
        BY <4>1, <2>1, <1>3
    <3>. QED
      BY <3>1, <3>2
  <2>. QED
    BY <2>2, <2>3
<1>6. ASSUME alertDue(r, g), ~breachWindow(g, Len(g), e)
      PROVE  alertDue(r, h) /\ ~clearWindow(g, Len(g), x)
  <2>1. PICK k \in 1 .. Len(g) : /\ breachWindow(g, k, e)
                                 /\ \A m \in (k + 1) .. Len(g) : ~clearWindow(g, m, x)
    BY <1>6 DEF alertDue, e, x
  <2>2. k \in 1 .. n /\ Len(g) \in (k + 1) .. Len(g)
    BY <1>1, <1>6, <2>1
  <2>3. breachWindow(h, k, e)
    BY <2>1, <2>2, <1>3
  <2>4. ASSUME NEW m \in (k + 1) .. n PROVE ~clearWindow(h, m, x)
    <3>1. m \in 1 .. n /\ m \in (k + 1) .. Len(g)
      BY <1>1, <2>2
    <3>. QED
      BY <3>1, <2>1, <1>3
  <2>. QED
    BY <2>1, <2>2, <2>3, <2>4 DEF alertDue, e, x
<1>7. alertDue(r, g) <=> breachWindow(g, Len(g), e) \/ (alertDue(r, h) /\ ~clearWindow(g, Len(g), x))
  BY <1>4, <1>5, <1>6 DEF alertDue, e, x
<1>. QED
  BY <1>7 DEF g, e, x

\* One engine step keeps counters and flag in agreement with the history.
LEMMA AgreementStep ==
  ASSUME NEW r \in RuleIds, NEW ds \in deviceState, NEW s \in Sample,
         NEW h \in Seq(Observation), NEW o \in Observation,
         o.breach = breaches(r, s), run \in Nat,
         tracksRuns(h, ds), ds.active <=> alertDue(r, h)
  PROVE  LET after == transition(r, observe(r, ds, s), s)
         IN  /\ tracksRuns(Append(h, o), after)
             /\ after.active <=> alertDue(r, Append(h, o))
<1> DEFINE g == Append(h, o)
           os == observe(r, ds, s)
           after == transition(r, os, s)
<1>1. g \in Seq(Observation) /\ os \in deviceState
  BY AppendHistory, StepTypes
<1>2. tracksRuns(g, os)
  BY TracksStep
<1>3. after.breachRun = os.breachRun /\ after.clearRun = os.clearRun
  BY <1>1, TransitionFields
<1>4. tracksRuns(g, after)
  BY <1>2, <1>3 DEF tracksRuns
<1>5. /\ breachWindow(g, Len(g), enterFor(r)) <=> os.breachRun >= enterFor(r)
      /\ clearWindow(g, Len(g), exitFor(r)) <=> os.clearRun >= exitFor(r)
  BY <1>1, <1>2, RuleFields, WindowIsCounter
<1>6. alertDue(r, g) <=> \/ breachWindow(g, Len(g), enterFor(r))
                         \/ alertDue(r, h) /\ ~clearWindow(g, Len(g), exitFor(r))
  BY DueStep
<1>7. ~(os.breachRun >= enterFor(r) /\ os.clearRun >= exitFor(r))
  BY RuleFields, ObserveFields
<1>8. os.active = ds.active /\ ds.active \in BOOLEAN
  BY ObserveFields DEF deviceState
<1>9. /\ enters(r, os) => after.active = TRUE
      /\ exits(r, os) => after.active = FALSE
      /\ ~enters(r, os) /\ ~exits(r, os) => after.active = os.active
  BY <1>1, TransitionFields
<1> HIDE DEF g, os, after
<1>10. after.active <=> alertDue(r, g)
  BY <1>5, <1>6, <1>7, <1>8, <1>9 DEF enters, exits
<1>. QED
  BY <1>4, <1>10 DEF g, os, after
\* What an Evaluate step does, with every operand in its type: nothing, or one
\* device state moves on one observation and the log grows by at most its event.
LEMMA EvaluateEffect ==
  ASSUME TypeOK, Evaluate
  PROVE  LET s == samples[si]
             seen == observe(ri, devices[ri][s.device], s)
             o == [labels |-> s.labels, breach |-> breaches(ri, s)]
         IN  /\ s \in Sample /\ s.device \in Devices /\ ri \in RuleIds
             /\ devices[ri][s.device] \in deviceState
             /\ seen \in deviceState
             /\ obs[ri][s.device] \in Seq(Observation)
             /\ o \in Observation /\ o.breach = breaches(ri, s)
             /\ eventOf(ri, seen, s) \in Event
             /\ UNCHANGED run
             /\ \/ UNCHANGED <<devices, obs, emitted>>
                \/ /\ matches(ri, s)
                   /\ devices' = [devices EXCEPT ![ri][s.device] = transition(ri, seen, s)]
                   /\ obs' = [obs EXCEPT ![ri][s.device] = Append(@, o)]
                   /\ emitted' = IF enters(ri, seen) \/ exits(ri, seen)
                                 THEN Append(emitted, eventOf(ri, seen, s))
                                 ELSE emitted
<1> DEFINE s == samples[si]
           seen == observe(ri, devices[ri][s.device], s)
           o == [labels |-> s.labels, breach |-> breaches(ri, s)]
<1>1. s \in Sample /\ ri \in RuleIds
  BY DEF TypeOK, Evaluate, Idle, RuleIds
<1>2. s.device \in Devices /\ s.labels \in Labels
  BY <1>1 DEF Sample
<1>3. devices[ri][s.device] \in deviceState /\ obs[ri][s.device] \in Seq(Observation)
  BY <1>1, <1>2 DEF TypeOK
<1>4. run \in Nat
  BY DEF TypeOK
<1>5. seen \in deviceState /\ breaches(ri, s) \in BOOLEAN
  BY <1>1, <1>3, <1>4, StepTypes
<1>6. eventOf(ri, seen, s) \in Event
  BY <1>1, <1>4, <1>5, StepTypes
<1>7. o \in Observation /\ o.breach = breaches(ri, s)
  BY <1>2, <1>5 DEF Observation
<1>8. EvaluateStep(s, ri) /\ UNCHANGED run
  BY DEF Evaluate
<1>. QED
  BY <1>1, <1>2, <1>3, <1>5, <1>6, <1>7, <1>8 DEF EvaluateStep

\* For every rule list and every stream of samples, each alert is on exactly
\* while the hysteresis rule over the device's history says it is due.
THEOREM Hysteresis == Spec => []HysteresisMatchesHistory
<1> DEFINE IInv == CountersMatchHistory /\ HysteresisMatchesHistory
<1>1. Init => IInv
  <2> SUFFICES ASSUME Init, NEW r \in RuleIds, NEW d \in Devices
               PROVE  /\ tracksRuns(obs[r][d], devices[r][d])
                      /\ devices[r][d].active <=> alertDue(r, obs[r][d])
    BY DEF CountersMatchHistory, HysteresisMatchesHistory
  <2>1. obs[r][d] = <<>> /\ devices[r][d] = zeroState
    BY DEF Init, noObs, NewEngine
  <2>2. tracksRuns(<<>>, zeroState)
    BY DEF tracksRuns, zeroState
  <2>3. ~alertDue(r, <<>>) /\ ~zeroState.active
    BY DEF alertDue, zeroState
  <2>. QED
    BY <2>1, <2>2, <2>3
<1>2. TypeOK /\ IInv /\ [Next]_vars => IInv'
  <2> SUFFICES ASSUME TypeOK, IInv, [Next]_vars, NEW r \in RuleIds, NEW d \in Devices
               PROVE  /\ tracksRuns(obs'[r][d], devices'[r][d])
                      /\ devices'[r][d].active <=> alertDue(r, obs'[r][d])
    BY DEF CountersMatchHistory, HysteresisMatchesHistory, alertDue, breachWindow, clearWindow,
           tracksRuns, enterFor, exitFor, max1
  <2>0. /\ tracksRuns(obs[r][d], devices[r][d])
        /\ devices[r][d].active <=> alertDue(r, obs[r][d])
    BY DEF CountersMatchHistory, HysteresisMatchesHistory
  <2>1. CASE Evaluate
    <3> DEFINE s == samples[si]
               seen == observe(ri, devices[ri][s.device], s)
               o == [labels |-> s.labels, breach |-> breaches(ri, s)]
    <3>1. CASE UNCHANGED <<devices, obs, emitted>>
      BY <3>1, <2>0
    <3>2. CASE ~UNCHANGED <<devices, obs, emitted>>
      <4>1. /\ devices' = [devices EXCEPT ![ri][s.device] = transition(ri, seen, s)]
            /\ obs' = [obs EXCEPT ![ri][s.device] = Append(@, o)]
        BY <3>2, <2>1, EvaluateEffect
      <4>2. CASE r = ri /\ d = s.device
        <5>1. /\ devices'[r][d] = transition(r, observe(r, devices[r][d], s), s)
              /\ obs'[r][d] = Append(obs[r][d], o)
          BY <4>1, <4>2 DEF TypeOK
        <5>2. /\ s \in Sample /\ devices[r][d] \in deviceState
              /\ obs[r][d] \in Seq(Observation)
              /\ o \in Observation /\ o.breach = breaches(r, s) /\ run \in Nat
          BY <4>2, <2>1, EvaluateEffect DEF TypeOK
        <5>. QED
          BY <5>1, <5>2, <2>0, AgreementStep
      <4>3. CASE ~(r = ri /\ d = s.device)
        <5>1. devices'[r][d] = devices[r][d] /\ obs'[r][d] = obs[r][d]
          BY <4>1, <4>3 DEF TypeOK
        <5>. QED
          BY <5>1, <2>0
      <4>. QED
        BY <4>2, <4>3
    <3>. QED
      BY <3>1, <3>2
  <2>2. CASE Restart
    <3>1. obs'[r][d] = <<>> /\ devices'[r][d] = zeroState
      BY <2>2 DEF Restart, noObs, NewEngine
    <3>2. tracksRuns(<<>>, zeroState)
      BY DEF tracksRuns, zeroState
    <3>3. ~alertDue(r, <<>>) /\ ~zeroState.active
      BY DEF alertDue, zeroState
    <3>. QED
      BY <3>1, <3>2, <3>3
  <2>3. CASE Begin \/ Return \/ UNCHANGED vars
    <3>1. UNCHANGED <<devices, obs>>
      BY <2>3 DEF Begin, Return, vars
    <3>. QED
      BY <3>1, <2>0
  <2>. QED
    BY <2>1, <2>2, <2>3 DEF Next
<1>. QED
  BY <1>1, <1>2, TypeCorrect, PTL DEF Spec
-----------------------------------------------------------------------------
\* A step that appends no event and leaves the devices and the lifetime alone.
LEMMA LogStutter ==
  ASSUME LogInv, EventsAlternate, UNCHANGED <<devices, emitted, run>>
  PROVE  LogInv' /\ EventsAlternate'
BY DEF LogInv, EventsAlternate

\* A device state that moves without an event keeps what the log says about it.
LEMMA LogQuiet ==
  ASSUME TypeOK, LogInv, EventsAlternate, Evaluate, emitted' = emitted
  PROVE  LogInv' /\ EventsAlternate'
<1> DEFINE s == samples[si]
           old == devices[ri][s.device]
           seen == observe(ri, old, s)
<1>0. CASE UNCHANGED <<devices, obs, emitted>>
  BY <1>0, EvaluateEffect, LogStutter
<1>1. CASE ~UNCHANGED <<devices, obs, emitted>>
  <2>1. /\ s \in Sample /\ s.device \in Devices /\ ri \in RuleIds
        /\ old \in deviceState /\ seen \in deviceState /\ run' = run
        /\ devices' = [devices EXCEPT ![ri][s.device] = transition(ri, seen, s)]
        /\ emitted' = IF enters(ri, seen) \/ exits(ri, seen)
                      THEN Append(emitted, eventOf(ri, seen, s)) ELSE emitted
    BY <1>1, EvaluateEffect
  <2>2. ~enters(ri, seen) /\ ~exits(ri, seen)
    <3>1. Len(Append(emitted, eventOf(ri, seen, s))) = Len(emitted) + 1 /\ Len(emitted) \in Nat
      BY DEF TypeOK
    <3>. QED
      BY <3>1, <2>1
  <2>3. transition(ri, seen, s) = seen
    BY <2>1, <2>2, TransitionFields
  <2>4. seen.active = old.active /\ seen.seq = old.seq /\ seen.startedAt = old.startedAt
    BY <2>1, ObserveFields
  <2>5. ASSUME NEW r \in RuleIds, NEW d \in Devices
        PROVE  /\ devices'[r][d].active = devices[r][d].active
               /\ devices'[r][d].seq = devices[r][d].seq
               /\ devices'[r][d].startedAt = devices[r][d].startedAt
    <3>1. CASE r = ri /\ d = s.device
      BY <3>1, <2>1, <2>3, <2>4 DEF TypeOK
    <3>2. CASE ~(r = ri /\ d = s.device)
      BY <3>2, <2>1 DEF TypeOK
    <3>. QED
      BY <3>1, <3>2
  <2>6. ASSUME NEW r \in RuleIds, NEW d \in Devices PROVE logMatchesState(emitted', run', r, d, devices'[r][d])
    <3>1. logMatchesState(emitted, run, r, d, devices[r][d])
      BY DEF LogInv
    <3>. QED
      BY <3>1, <2>1, <2>5 DEF logMatchesState
  <2>7. LogInv'
    BY <2>1, <2>6 DEF LogInv
  <2>8. EventsAlternate'
    BY DEF EventsAlternate
  <2>. QED
    BY <2>7, <2>8
<1>. QED
  BY <1>0, <1>1

\* An appended event carries the next seq and the phase that follows the last one.
LEMMA LogAppend ==
  ASSUME TypeOK, LogInv, EventsAlternate, Evaluate, emitted' # emitted
  PROVE  LogInv' /\ EventsAlternate'
<1> DEFINE s == samples[si]
           old == devices[ri][s.device]
           seen == observe(ri, old, s)
           new == transition(ri, seen, s)
           ev == eventOf(ri, seen, s)
           n == Len(emitted)
<1>1. /\ s \in Sample /\ s.device \in Devices /\ ri \in RuleIds
      /\ old \in deviceState /\ seen \in deviceState /\ run' = run
      /\ devices' = [devices EXCEPT ![ri][s.device] = new]
      /\ emitted' = Append(emitted, ev) /\ ev \in Event
      /\ enters(ri, seen) \/ exits(ri, seen)
  BY EvaluateEffect
<1>2. /\ n \in Nat /\ DOMAIN emitted = 1 .. n /\ DOMAIN emitted' = 1 .. (n + 1)
      /\ \A i \in 1 .. n : emitted'[i] = emitted[i] /\ emitted[i] \in Event
      /\ emitted'[n + 1] = ev
  BY <1>1 DEF TypeOK
<1>3. seen.active = old.active /\ seen.seq = old.seq /\ seen.startedAt = old.startedAt
  BY <1>1, ObserveFields
<1>4. /\ ev.run = run /\ ev.rule = ri /\ ev.device = s.device
      /\ ev.condition = Rules[ri].condition /\ ev.seq = old.seq + 1
      /\ ev.phase = IF old.active THEN "EXIT" ELSE "ENTER"
      /\ ev.startedAt = IF old.active THEN old.startedAt ELSE s.ts
  BY <1>3 DEF eventOf
<1>5. /\ new.active <=> ~old.active
      /\ new.seq = old.seq + 1
      /\ ~old.active => new.startedAt = s.ts
  <2>0. seen \in deviceState /\ ri \in RuleIds /\ s \in Sample
    BY <1>1
  <2> HIDE DEF s, seen, old
  <2>1. CASE enters(ri, seen)
    <3>1. new.active = TRUE /\ new.seq = seen.seq + 1 /\ new.startedAt = s.ts
      BY <2>0, <2>1, TransitionFields
    <3>2. ~old.active
      BY <2>1, <1>3 DEF enters
    <3>. QED
      BY <3>1, <3>2, <1>3
  <2>2. CASE exits(ri, seen)
    <3>1. new.active = FALSE /\ new.seq = seen.seq + 1
      BY <2>0, <2>2, TransitionFields
    <3>2. old.active
      BY <2>2, <1>3 DEF exits
    <3>. QED
      BY <3>1, <3>2, <1>3
  <2>. QED
    BY <1>1, <2>1, <2>2 DEF s, seen, old
<1>6. logMatchesState(emitted, run, ri, s.device, old) /\ old.seq \in Nat /\ old.active \in BOOLEAN /\ run \in Nat
  BY <1>1 DEF LogInv, deviceState, TypeOK
<1>7. /\ devices'[ri][s.device] = new
      /\ \A r \in RuleIds, d \in Devices :
           ~(r = ri /\ d = s.device) => devices'[r][d] = devices[r][d]
  BY <1>1 DEF TypeOK
<1>8. ASSUME NEW r \in RuleIds, NEW d \in Devices, NEW k
      PROVE  eventsOf(emitted', k, r, d) = eventsOf(emitted, k, r, d)
                \cup (IF k = run /\ r = ri /\ d = s.device THEN {n + 1} ELSE {})
  <2> HIDE DEF ev, s, n
  <2>1. \A i : i \in 1 .. (n + 1) <=> i \in 1 .. n \/ i = n + 1
    BY <1>2
  <2>2. n + 1 \notin 1 .. n
    BY <1>2
  <2>. QED
    BY <1>2, <1>4, <2>1, <2>2 DEF eventsOf
<1>9. Rules[ri].device \in {AnyDevice, s.device}
  BY <1>1, EvaluateEffect DEF matches
<1> HIDE DEF s, old, seen, new, ev, n
<1>10. logGrows(emitted')
  <2> SUFFICES ASSUME NEW i \in 1 .. (n + 1), NEW j \in 1 .. (n + 1), i < j,
                      emitted'[i].run = emitted'[j].run,
                      emitted'[i].rule = emitted'[j].rule,
                      emitted'[i].device = emitted'[j].device
               PROVE  emitted'[i].seq < emitted'[j].seq
    BY <1>2 DEF logGrows
  <2>1. CASE j \in 1 .. n
    <3>1. i \in 1 .. n
      BY <2>1, <1>2
    <3>. QED
      BY <2>1, <3>1, <1>2 DEF LogInv, logGrows
  <2>2. CASE j = n + 1
    <3>1. i \in 1 .. n
      BY <2>2, <1>2
    <3>2. i \in eventsOf(emitted, run, ri, s.device)
      BY <3>1, <2>2, <1>2, <1>4 DEF eventsOf
    <3>3. emitted[i].seq \in 1 .. old.seq
      BY <3>2, <1>6 DEF logMatchesState, old
    <3>. QED
      BY <3>1, <3>3, <2>2, <1>2, <1>4, <1>6
  <2>. QED
    BY <2>1, <2>2, <1>2
<1>11. ASSUME NEW r \in RuleIds, NEW d \in Devices PROVE logMatchesState(emitted', run', r, d, devices'[r][d])
  <2>0. logMatchesState(emitted, run, r, d, devices[r][d])
    BY DEF LogInv
  <2>1. CASE r = ri /\ d = s.device
    <3>1. n + 1 \in eventsOf(emitted', run, r, d)
      BY <1>8, <2>1
    <3>2. /\ emitted'[n + 1].seq = new.seq
          /\ (emitted'[n + 1].phase = "ENTER") <=> new.active
          /\ new.active => emitted'[n + 1].startedAt = new.startedAt
      BY <1>2, <1>4, <1>5, <1>6
    <3>3. ASSUME NEW i \in eventsOf(emitted', run, r, d) PROVE emitted'[i].seq \in 1 .. new.seq
      <4>1. CASE i = n + 1
        BY <4>1, <3>2, <1>4, <1>5, <1>6
      <4>2. CASE i # n + 1
        <5>1. i \in eventsOf(emitted, run, r, d)
          BY <4>2, <1>8
        <5>2. i \in 1 .. n /\ emitted[i].seq \in 1 .. old.seq
          BY <5>1, <1>2, <2>0, <2>1 DEF logMatchesState, eventsOf, old
        <5>. QED
          BY <5>2, <1>2, <1>5, <1>6
      <4>. QED
        BY <4>1, <4>2
    <3>4. new.seq > 0
      BY <1>5, <1>6
    <3>5. logMatchesState(emitted', run, r, d, new)
      BY <3>1, <3>2, <3>3, <3>4 DEF logMatchesState
    <3>. QED
      BY <3>5, <2>1, <1>1, <1>7
  <2>2. CASE ~(r = ri /\ d = s.device)
    <3>1. eventsOf(emitted', run, r, d) = eventsOf(emitted, run, r, d) /\ devices'[r][d] = devices[r][d]
      <4>1. eventsOf(emitted', run, r, d) = eventsOf(emitted, run, r, d) \cup {}
        BY <2>2, <1>8
      <4>. QED
        BY <4>1, <2>2, <1>7
    <3>2. \A i \in eventsOf(emitted, run, r, d) : emitted'[i] = emitted[i]
      BY <1>2 DEF eventsOf
    <3>. QED
      BY <3>1, <3>2, <2>0, <1>1 DEF logMatchesState
  <2>. QED
    BY <2>1, <2>2
<1>12. LogInv'
  <2>1. ASSUME NEW i \in 1 .. (n + 1)
        PROVE  /\ emitted'[i].run <= run
               /\ emitted'[i].condition = Rules[emitted'[i].rule].condition
               /\ Rules[emitted'[i].rule].device \in {AnyDevice, emitted'[i].device}
    <3>1. CASE i \in 1 .. n
      BY <3>1, <1>2 DEF LogInv
    <3>2. CASE i = n + 1
      BY <3>2, <1>2, <1>4, <1>6, <1>9
    <3>. QED
      BY <3>1, <3>2, <1>2
  <2>. QED
    BY <2>1, <1>1, <1>2, <1>10, <1>11 DEF LogInv
<1>13. EventsAlternate'
  <2> SUFFICES ASSUME NEW i \in 1 .. (n + 1) PROVE followsItsPair(emitted', i)
    BY <1>2 DEF EventsAlternate
  <2>1. CASE i \in 1 .. n
    <3>1. followsItsPair(emitted, i) /\ emitted'[i] = emitted[i]
      BY <2>1, <1>2 DEF EventsAlternate
    <3>2. ASSUME NEW j \in eventsOf(emitted, emitted[i].run, emitted[i].rule, emitted[i].device)
          PROVE  /\ j \in eventsOf(emitted', emitted'[i].run, emitted'[i].rule, emitted'[i].device)
                 /\ emitted'[j] = emitted[j]
      BY <2>1, <1>2 DEF eventsOf
    <3>. QED
      BY <3>1, <3>2 DEF followsItsPair
  <2>2. CASE i = n + 1
    <3>1. emitted'[i] = ev
      BY <2>2, <1>2
    <3>2. CASE old.seq = 0
      <4>1. ~old.active
        BY <3>2, <1>6 DEF logMatchesState, old
      <4>. QED
        BY <3>1, <3>2, <4>1, <1>4 DEF followsItsPair
    <3>3. CASE old.seq # 0
      <4>1. PICK j \in eventsOf(emitted, run, ri, s.device) :
              /\ emitted[j].seq = old.seq
              /\ (emitted[j].phase = "ENTER") <=> old.active
              /\ old.active => emitted[j].startedAt = old.startedAt
        BY <3>3, <1>6 DEF logMatchesState, old
      <4>2. j \in 1 .. n /\ emitted'[j] = emitted[j] /\ j < i
        BY <2>2, <1>2 DEF eventsOf
      <4>3. j \in eventsOf(emitted', run, ri, s.device)
        BY <1>8, <1>1
      <4>4. /\ emitted'[j].seq = ev.seq - 1 /\ emitted'[j].phase # ev.phase
            /\ ev.phase = "EXIT" => emitted'[j].startedAt = ev.startedAt
            /\ ev.seq # 1
        BY <4>1, <4>2, <1>4, <1>6, <3>3
      <4>5. j \in eventsOf(emitted', ev.run, ev.rule, ev.device)
        BY <4>3, <1>4, <1>1
      <4>. QED
        BY <3>1, <4>2, <4>4, <4>5 DEF followsItsPair
    <3>. QED
      BY <3>2, <3>3
  <2>. QED
    BY <2>1, <2>2, <1>2
<1>. QED
  BY <1>12, <1>13
\* The alternation of the log with everything it rests on.
LEMMA LogInductive == Spec => [](LogInv /\ EventsAlternate)
<1>1. Init => LogInv /\ EventsAlternate
  <2> SUFFICES ASSUME Init PROVE LogInv /\ EventsAlternate
    OBVIOUS
  <2>1. emitted = <<>> /\ DOMAIN emitted = {}
    BY DEF Init
  <2>2. \A r \in RuleIds, d \in Devices : devices[r][d] = zeroState
    BY DEF Init, NewEngine
  <2>3. zeroState.seq = 0 /\ ~zeroState.active
    BY DEF zeroState
  <2>. QED
    BY <2>1, <2>2, <2>3 DEF LogInv, EventsAlternate, logGrows, logMatchesState, eventsOf
<1>2. TypeOK /\ LogInv /\ EventsAlternate /\ [Next]_vars => (LogInv /\ EventsAlternate)'
  <2> SUFFICES ASSUME TypeOK, LogInv, EventsAlternate, [Next]_vars
               PROVE  LogInv' /\ EventsAlternate'
    OBVIOUS
  <2>1. CASE Evaluate
    BY <2>1, LogQuiet, LogAppend
  <2>2. CASE Restart
    <3>1. /\ run' = run + 1 /\ emitted' = emitted /\ run \in Nat
          /\ \A r \in RuleIds, d \in Devices : devices'[r][d] = zeroState
      BY <2>2 DEF Restart, NewEngine, TypeOK
    <3>2. \A i \in DOMAIN emitted : emitted[i].run <= run /\ emitted[i].run \in Nat
      <4>1. \A i \in DOMAIN emitted : emitted[i] \in Event
        BY DEF TypeOK
      <4>2. \A i \in DOMAIN emitted : emitted[i].run \in Nat
        BY <4>1 DEF Event
      <4>. QED
        BY <4>2 DEF LogInv
    <3>3. ASSUME NEW r \in RuleIds, NEW d \in Devices PROVE eventsOf(emitted, run', r, d) = {}
      BY <3>1, <3>2 DEF eventsOf
    <3>4. zeroState.seq = 0 /\ ~zeroState.active
      BY DEF zeroState
    <3>5. ASSUME NEW r \in RuleIds, NEW d \in Devices
          PROVE  logMatchesState(emitted', run', r, d, devices'[r][d])
      BY <3>1, <3>3, <3>4 DEF logMatchesState
    <3>6. \A i \in DOMAIN emitted : emitted[i].run <= run'
      BY <3>1, <3>2
    <3>7. LogInv'
      BY <3>1, <3>5, <3>6 DEF LogInv
    <3>. QED
      BY <3>1, <3>7 DEF EventsAlternate
  <2>3. CASE Begin \/ Return \/ UNCHANGED vars
    <3>1. UNCHANGED <<devices, emitted, run>>
      BY <2>3 DEF Begin, Return, vars
    <3>. QED
      BY <3>1, LogStutter
  <2>. QED
    BY <2>1, <2>2, <2>3 DEF Next
<1>. QED
  BY <1>1, <1>2, TypeCorrect, PTL DEF Spec

\* Events of a rule and device alternate, are numbered without a gap, and an
\* EXIT names the ENTER it closes, through any number of restarts.
THEOREM Alternation == Spec => []EventsAlternate
BY LogInductive, PTL

\* No alert is on, or goes off, without the log saying so.
THEOREM OpenInLog == Spec => []ActiveMeansOpenInLog
<1>1. TypeOK /\ LogInv => ActiveMeansOpenInLog
  <2> SUFFICES ASSUME TypeOK, LogInv, NEW r \in RuleIds, NEW d \in Devices
               PROVE  devices[r][d].active <=>
                        \E i \in eventsOf(emitted, run, r, d) :
                          /\ emitted[i].phase = "ENTER"
                          /\ \A j \in eventsOf(emitted, run, r, d) : j <= i
    BY DEF ActiveMeansOpenInLog
  <2> DEFINE ds == devices[r][d]
             E == eventsOf(emitted, run, r, d)
  <2>1. logMatchesState(emitted, run, r, d, ds) /\ ds.seq \in Nat
    BY DEF LogInv, TypeOK, deviceState
  <2>2. ASSUME NEW i \in E
        PROVE  /\ i \in Nat /\ emitted[i].seq \in 1 .. ds.seq
               /\ \A j \in E : i < j => emitted[i].seq < emitted[j].seq
    BY <2>1 DEF LogInv, logGrows, logMatchesState, eventsOf, TypeOK
  <2> HIDE DEF ds, E
  <2>3. ASSUME ds.seq > 0
        PROVE  \E i \in E : /\ (emitted[i].phase = "ENTER") <=> ds.active
                            /\ emitted[i].seq = ds.seq
                            /\ \A j \in E : j <= i
    <3>1. PICK i \in E : emitted[i].seq = ds.seq /\ ((emitted[i].phase = "ENTER") <=> ds.active)
      BY <2>1, <2>3 DEF logMatchesState, E
    <3>2. ASSUME NEW j \in E PROVE j <= i
      <4>1. emitted[j].seq \in 1 .. ds.seq /\ (i < j => emitted[i].seq < emitted[j].seq)
        BY <2>2
      <4>2. i \in Nat /\ j \in Nat
        BY <2>2
      <4>. QED
        BY <4>1, <4>2, <3>1, <2>1
    <3>. QED
      BY <3>1, <3>2
  <2>4. ASSUME ds.active
        PROVE  \E i \in E : emitted[i].phase = "ENTER" /\ \A j \in E : j <= i
    <3>1. ds.seq > 0
      BY <2>1, <2>4 DEF logMatchesState
    <3>. QED
      BY <3>1, <2>3, <2>4
  <2>5. ASSUME NEW i \in E, emitted[i].phase = "ENTER", \A j \in E : j <= i PROVE ds.active
    <3>1. ds.seq > 0
      BY <2>1, <2>2
    <3>2. PICK k \in E : ((emitted[k].phase = "ENTER") <=> ds.active) /\ \A j \in E : j <= k
      BY <3>1, <2>3
    <3>3. k = i
      <4>1. k <= i /\ i <= k
        BY <3>2, <2>5
      <4>2. i \in Nat /\ k \in Nat
        BY <2>2
      <4>. QED
        BY <4>1, <4>2
    <3>. QED
      BY <3>2, <3>3, <2>5
  <2>. QED
    BY <2>4, <2>5 DEF ds, E
<1>. QED
  BY <1>1, LogInductive, TypeCorrect, PTL

\* The events of a process tell the state of every alert.
THEOREM PairUp == Spec => []EventsPairUp
BY Alternation, OpenInLog, PTL DEF EventsPairUp

\* Only rules that share a condition on a device can repeat an ID within one
\* process lifetime, whatever the rule list.
THEOREM IdsIdentify == Spec => []IdsIdentifyTransitions
<1>1. TypeOK /\ LogInv => IdsIdentifyTransitions
  <2> SUFFICES ASSUME TypeOK, LogInv, NEW i \in DOMAIN emitted, NEW j \in DOMAIN emitted, i # j,
                      emitted[i].run = emitted[j].run, ID(emitted[i]) = ID(emitted[j])
               PROVE  /\ emitted[i].device = emitted[j].device
                      /\ emitted[i].rule # emitted[j].rule
                      /\ Rules[emitted[i].rule].condition = Rules[emitted[j].rule].condition
                      /\ {Rules[emitted[i].rule].device, Rules[emitted[j].rule].device}
                           \subseteq {AnyDevice, emitted[i].device}
    BY DEF IdsIdentifyTransitions
  <2>1. /\ emitted[i].device = emitted[j].device
        /\ emitted[i].condition = emitted[j].condition
        /\ emitted[i].seq = emitted[j].seq
    BY DEF ID, Fingerprint
  <2>2. /\ emitted[i] \in Event /\ emitted[j] \in Event /\ i \in Nat /\ j \in Nat
    BY DEF TypeOK
  <2>3. emitted[i].seq \in Nat /\ emitted[j].seq \in Nat
    BY <2>2 DEF Event
  <2>4. i < j \/ j < i
    BY <2>2
  <2>5. emitted[i].rule # emitted[j].rule
    BY <2>1, <2>3, <2>4 DEF LogInv, logGrows
  <2>. QED
    BY <2>1, <2>5 DEF LogInv
<1>. QED
  BY <1>1, LogInductive, TypeCorrect, PTL
=============================================================================
