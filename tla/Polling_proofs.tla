--------------------------- MODULE Polling_proofs ---------------------------
(***************************************************************************)
(* Proofs about Polling, for any disks, GPUs, sensors and any reads that   *)
(* fail.  A property speaks of what is published, so each tier has an      *)
(* invariant that says of which reads and which hardware the gathered and  *)
(* the published samples are: GpuInv, SmartInv, CoreInv; CpuInv relates    *)
(* the baseline of cpuCollector to the time that has passed since.  The    *)
(* rest is about the collectors as functions of what could be read.        *)
(***************************************************************************)
EXTENDS Polling, TLAPS

Eccs == [Gpus -> [aggregate : Nat, volatile : Nat]]

notAhead(E, F) == \A g \in Gpus : E[g].aggregate <= F[g].aggregate

(* The exporter and the samples of a gpu poll are those of one Read, and   *)
(* the published ones of a Read of earlier counters.                       *)
GpuPublished ==
    IF polled
    THEN \E E \in Eccs :
            /\ notAhead(E, ecc)
            /\ metrics = gpuCollect(gpuReads \ lost, answers(E)).out
            /\ next = 1 => compat = toDCGMDevices(Read(gpuReads \ lost, answers(E)))
    ELSE metrics = {}

GpuInv ==
    tier = "gpu" =>
        /\ next \in {1, 2} /\ ecc \in Eccs
        /\ next = 1 => failed = {} /\ out = {}
        /\ next = 2 => /\ out = gpuCollect(gpuReads \ failed, answers(ecc)).out
                       /\ compat = toDCGMDevices(Read(gpuReads \ failed, answers(ecc)))
        /\ GpuPublished

-----------------------------------------------------------------------------
(* Facts about the steps.                                                  *)
LEMMA OneCollector ==
    ASSUME tier \in {"smart", "gpu"}
    PROVE  collectors = <<tier>> /\ Len(collectors) = 1
  BY DEF collectors

LEMMA HardwareStep ==
    ASSUME Hardware
    PROVE  /\ next = 1 /\ UNCHANGED pollVars
           /\ tier = "core" => UNCHANGED ecc
           /\ tier = "gpu" => \E g \in Gpus : EccError(g) \/ DriverReload(g)
           /\ tier # "smart"
<1>1. ASSUME NEW m \in Modes, Runs(m) PROVE tier = "core" /\ next = 1 /\ UNCHANGED <<ecc, pollVars>>
  BY <1>1, Zenon DEF Runs, between
<1>2. ASSUME NEW d, NEW m \in Modes, GoesBack(d, m)
      PROVE  tier = "core" /\ next = 1 /\ UNCHANGED <<ecc, pollVars>>
  BY <1>2, Zenon DEF GoesBack, between
<1>3. ASSUME HotPlug PROVE tier = "core" /\ next = 1 /\ UNCHANGED <<ecc, pollVars>>
  BY <1>3, Zenon DEF HotPlug, between
<1>4. ASSUME NEW g \in Gpus, EccError(g) \/ DriverReload(g)
      PROVE  tier = "gpu" /\ next = 1 /\ UNCHANGED pollVars
  BY <1>4, Zenon DEF EccError, DriverReload, between
<1> QED
  BY <1>1, <1>2, <1>3, <1>4 DEF Hardware

(* Collector c runs and the reads of F fail.                               *)
collectsWith(c, F) ==
    /\ F \subseteq reads(c)
    /\ out' = out \cup taken(collect(c, reads(c) \ F))
    /\ next' = next + 1 /\ failed' = failed \cup F
    /\ compat' = Update(c, reads(c) \ F)
    /\ prev' = baseline(c, reads(c) \ F)
    /\ since' = sinceThen(c, reads(c) \ F)
    /\ UNCHANGED <<tier, metrics, lost, polled, stat, ecc>>

LEMMA CollectStep ==
    ASSUME Collect
    PROVE  next <= Len(collectors) /\ \E F : collectsWith(collectors[next], F)
<1> DEFINE c == collectors[next]
<1>1. /\ next <= Len(collectors)
      /\ \E F \in {{}} \cup {{a, b} : a, b \in reads(c)} : CollectOne(F)
  BY DEF Collect
<1> HIDE DEF c
<1>2. PICK F : F \subseteq reads(c) /\ CollectOne(F)
  <2>1. \A F \in {{}} \cup {{a, b} : a, b \in reads(c)} : F \subseteq reads(c)
    OBVIOUS
  <2> QED
    BY <1>1, <2>1
<1> USE DEF c
<1>3. collectsWith(c, F)
  BY <1>2, Zenon DEF CollectOne, after, collectsWith
<1> QED
  BY <1>1, <1>3

LEMMA MetricsStep == ASSUME [Next]_vars PROVE Publish \/ UNCHANGED <<metrics, lost, polled>>
<1>1. ASSUME Hardware PROVE UNCHANGED <<metrics, lost, polled>>
  BY <1>1, HardwareStep DEF pollVars
<1>2. ASSUME Collect PROVE UNCHANGED <<metrics, lost, polled>>
  BY <1>2, CollectStep DEF collectsWith
<1>3. ASSUME UNCHANGED vars PROVE UNCHANGED <<metrics, lost, polled>>
  BY <1>3 DEF vars, pollVars
<1> QED
  BY <1>1, <1>2, <1>3 DEF Next

LEMMA TierStays == ASSUME [Next]_vars PROVE tier' = tier
<1>1. ASSUME Hardware PROVE tier' = tier
  BY <1>1, HardwareStep DEF pollVars
<1>2. ASSUME Collect PROVE tier' = tier
  BY <1>2, CollectStep DEF collectsWith
<1>3. ASSUME Publish \/ UNCHANGED vars PROVE tier' = tier
  BY <1>3 DEF Publish, vars, pollVars
<1> QED
  BY <1>1, <1>2, <1>3 DEF Next

LEMMA EccGrows ==
    ASSUME ecc \in Eccs, NEW g \in Gpus, EccError(g) \/ DriverReload(g)
    PROVE  ecc' \in Eccs /\ notAhead(ecc, ecc')
  BY DEF Eccs, notAhead, EccError, DriverReload

LEMMA GpuStep == ASSUME GpuInv, [Next]_vars PROVE GpuInv'
<1> SUFFICES ASSUME tier = "gpu", tier' = "gpu" PROVE GpuInv'
  BY TierStays DEF GpuInv
<1>0. collectors = <<"gpu">> /\ Len(collectors) = 1
  BY OneCollector
<1>1. /\ next \in {1, 2} /\ ecc \in Eccs
      /\ next = 1 => failed = {} /\ out = {}
      /\ next = 2 => /\ out = gpuCollect(gpuReads \ failed, answers(ecc)).out
                     /\ compat = toDCGMDevices(Read(gpuReads \ failed, answers(ecc)))
      /\ GpuPublished
  BY DEF GpuInv
<1>2. ASSUME UNCHANGED vars PROVE GpuInv'
  BY <1>1, <1>2 DEF GpuInv, GpuPublished, vars, hwVars, pollVars
<1>3. ASSUME NEW g \in Gpus, EccError(g) \/ DriverReload(g) PROVE GpuInv'
  <2>1. ecc' \in Eccs /\ notAhead(ecc, ecc')
    BY <1>1, <1>3, EccGrows
  <2>2. next = 1 /\ UNCHANGED pollVars
    BY <1>3 DEF EccError, DriverReload, between
  <2>3. GpuPublished'
    <3>1. CASE ~polled
      BY <1>1, <2>2, <3>1 DEF GpuPublished, pollVars
    <3>2. CASE polled
      <4>1. PICK E \in Eccs :
                /\ notAhead(E, ecc)
                /\ metrics = gpuCollect(gpuReads \ lost, answers(E)).out
                /\ compat = toDCGMDevices(Read(gpuReads \ lost, answers(E)))
        BY <1>1, <2>2, <3>2 DEF GpuPublished
      <4>2. notAhead(E, ecc')
        BY <1>1, <2>1, <4>1 DEF notAhead, Eccs
      <4> QED
        BY <2>2, <3>2, <4>1, <4>2 DEF GpuPublished, pollVars
    <3> QED BY <3>1, <3>2
  <2> QED
    BY <1>1, <2>1, <2>2, <2>3 DEF GpuInv, pollVars
<1>4. ASSUME Collect PROVE GpuInv'
  <2>1. next = 1
    BY <1>0, <1>1, <1>4 DEF Collect
  <2>2. PICK F : collectsWith(collectors[next], F)
    BY <1>4, CollectStep
  <2>3. /\ next' = 2 /\ failed' = F
        /\ out' = gpuCollect(gpuReads \ F, hw).out
        /\ compat' = toDCGMDevices(Read(gpuReads \ F, hw))
        /\ UNCHANGED <<metrics, lost, polled, ecc>>
    <3>1. collectors[next] = "gpu" /\ reads("gpu") = gpuReads
      BY <1>0, <2>1 DEF reads
    <3>2. /\ collect("gpu", gpuReads \ F) = gpuCollect(gpuReads \ F, hw)
          /\ Update("gpu", gpuReads \ F) = toDCGMDevices(Read(gpuReads \ F, hw))
      BY Zenon DEF collect, Update
    <3>3. taken(gpuCollect(gpuReads \ F, hw)) = gpuCollect(gpuReads \ F, hw).out
      BY DEF taken, gpuCollect
    <3> QED
      BY <1>1, <2>1, <2>2, <3>1, <3>2, <3>3 DEF collectsWith
  <2>4. hw = answers(ecc) /\ gpuCollect(gpuReads \ F, hw) = gpuCollect(gpuReads \ F, answers(ecc))
    BY DEF hw
  <2> QED
    BY <1>1, <2>1, <2>3, <2>4 DEF GpuInv, GpuPublished
<1>5. ASSUME Publish PROVE GpuInv'
  <2>1. next = 2
    BY <1>0, <1>1, <1>5 DEF Publish
  <2>2. /\ next' = 1 /\ failed' = {} /\ out' = {} /\ polled'
        /\ metrics' = out /\ lost' = failed /\ UNCHANGED <<compat, ecc>>
    BY <1>5 DEF Publish
  <2>3. notAhead(ecc, ecc')
    BY <1>1, <2>2 DEF notAhead, Eccs
  <2> QED
    BY <1>1, <2>1, <2>2, <2>3 DEF GpuInv, GpuPublished
<1> QED
  BY <1>2, <1>3, <1>4, <1>5, HardwareStep DEF Next
-----------------------------------------------------------------------------
(* What the samples of one GPU are.                                        *)
idOf(d) == <<d.uuid, d.name, d.pciBusId>>

LEMMA GpuSampleShape ==
    ASSUME NEW d, NEW s
    PROVE  s \in gpuSamples(d) <=>
             \/ \E m \in nativeMetrics :
                   s = [device |-> <<d.index>>, metric |-> m[1],
                        value |-> native(m[2], d.field[m[2]]), labels |-> idOf(d)]
             \/ s = [device |-> <<d.index>>, metric |-> "gpu_throttle_reasons",
                     value |-> d.throttle, labels |-> idOf(d)]
             \/ \E r \in decodeThrottle(d.throttle) \ benignThrottleReasons :
                   s = [device |-> <<d.index>>, metric |-> "gpu_throttle_active",
                        value |-> 1, labels |-> Append(idOf(d), r)]
  BY DEF gpuSamples, idOf

LEMMA NativeNames ==
    ASSUME NEW m \in nativeMetrics
    PROVE  m[1] \notin {"gpu_throttle_reasons", "gpu_throttle_active", "cpu_util_pct"}
  BY DEF nativeMetrics

(* Samples of a poll with the same device are of the same GPU.             *)
LEMMA GpuSampleOf ==
    ASSUME NEW ok, NEW h, NEW s \in gpuCollect(ok, h).out
    PROVE  \E g \in Gpus : /\ <<g, "GetIndex">> \in ok /\ s.device = <<g>>
                           /\ s \in gpuSamples(readDevice(g, ok, h))
<1>1. PICK d \in Read(ok, h) : s \in gpuSamples(d)
  BY DEF gpuCollect
<1>2. PICK g \in Gpus : <<g, "GetIndex">> \in ok /\ d = readDevice(g, ok, h)
  BY DEF Read
<1>3. d.index = g
  BY <1>2 DEF readDevice
<1>4. s.device = <<g>>
  BY <1>1, <1>3, GpuSampleShape
<1> QED
  BY <1>1, <1>2, <1>4

LEMMA GpuSampleIn ==
    ASSUME NEW ok, NEW h, NEW g \in Gpus, <<g, "GetIndex">> \in ok,
           NEW s \in gpuSamples(readDevice(g, ok, h))
    PROVE  s \in gpuCollect(ok, h).out
  BY DEF gpuCollect, Read

LEMMA ThrottleOfOnePoll ==
    ASSUME NEW ok, NEW h, metrics = gpuCollect(ok, h).out,
           NEW s \in shown("gpu_throttle_reasons")
    PROVE  {a.labels[4] : a \in {a \in shown("gpu_throttle_active") : a.device = s.device}}
               = limiting \cap decodeThrottle(s.value)
<1>1. s \in metrics /\ s.metric = "gpu_throttle_reasons"
  BY DEF shown
<1>2. PICK g \in Gpus : <<g, "GetIndex">> \in ok /\ s.device = <<g>>
                         /\ s \in gpuSamples(readDevice(g, ok, h))
  BY <1>1, GpuSampleOf
<1> DEFINE d == readDevice(g, ok, h)
<1>3. d.index = g /\ s.value = d.throttle
  <2>1. d.index = g
    BY DEF readDevice
  <2>2. s.value = d.throttle
    BY <1>1, <1>2, GpuSampleShape, NativeNames
  <2> QED BY <2>1, <2>2
<1>4. limiting \cap decodeThrottle(d.throttle) = decodeThrottle(d.throttle) \ benignThrottleReasons
  BY DEF limiting, decodeThrottle, throttleBits, benignThrottleReasons
<1>5. ASSUME NEW a \in shown("gpu_throttle_active"), a.device = s.device
      PROVE  a.labels[4] \in decodeThrottle(d.throttle) \ benignThrottleReasons
  <2>1. a \in metrics /\ a.metric = "gpu_throttle_active"
    BY <1>5 DEF shown
  <2>2. PICK g2 \in Gpus : a.device = <<g2>> /\ a \in gpuSamples(readDevice(g2, ok, h))
    BY <2>1, GpuSampleOf
  <2>3. g2 = g
    BY <1>2, <1>5, <2>2
  <2>4. PICK r \in decodeThrottle(d.throttle) \ benignThrottleReasons : a.labels = Append(idOf(d), r)
    BY <2>1, <2>2, <2>3, GpuSampleShape, NativeNames
  <2> QED
    BY <2>4 DEF idOf
<1>6. ASSUME NEW r \in decodeThrottle(d.throttle) \ benignThrottleReasons
      PROVE  \E a \in shown("gpu_throttle_active") : a.device = s.device /\ a.labels[4] = r
  <2> DEFINE a == [device |-> <<d.index>>, metric |-> "gpu_throttle_active",
                   value |-> 1, labels |-> Append(idOf(d), r)]
  <2>1. a \in gpuSamples(d)
    BY GpuSampleShape
  <2>2. a \in shown("gpu_throttle_active")
    BY <1>2, <2>1, GpuSampleIn DEF shown
  <2>3. a.device = s.device /\ a.labels[4] = r
    BY <1>2, <1>3 DEF idOf
  <2> QED
    BY <2>2, <2>3
<1> HIDE DEF d
<1> QED
  BY <1>3, <1>4, <1>5, <1>6

(* The mask and the active reasons of a GPU come from one answer.          *)
LEMMA ThrottleFollows == ASSUME GpuInv PROVE ThrottleActiveIffLimited
<1> SUFFICES ASSUME published("gpu"), NEW s \in shown("gpu_throttle_reasons")
             PROVE  {a.labels[4] : a \in {a \in shown("gpu_throttle_active") : a.device = s.device}}
                        = limiting \cap decodeThrottle(s.value)
  BY DEF ThrottleActiveIffLimited
<1>1. PICK E \in Eccs : metrics = gpuCollect(gpuReads \ lost, answers(E)).out
  BY DEF GpuInv, GpuPublished, published
<1> QED
  BY <1>1, ThrottleOfOnePoll

-----------------------------------------------------------------------------
LEMMA DcgmSeriesShape ==
    ASSUME NEW d, NEW x \in dcgmSeries(d), x.family # "VGPU_LICENSE_STATUS"
    PROVE  \E m \in metricDefs :
               x = [family |-> m[1], device |-> <<d.index>>,
                    value |-> rendered(m[2], d.field[m[2]]), labels |-> idOf(d)]
  BY DEF dcgmSeries, idOf

LEMMA DcgmFamilies ==
    ASSUME NEW m \in metricDefs
    PROVE  \E p \in behind, n \in nativeMetrics :
               /\ p[1] = m[1] /\ n[1] = p[2] /\ n[2] = m[2]
               /\ m[2] \in dcgmFields
               /\ m[1] \in {"FB_FREE", "FB_USED", "FB_RESERVED"} <=> m[2] \in memFields
               /\ m[1] = "TOTAL_ENERGY_CONSUMPTION" <=> m[2] = "EnergyMilliJoules"
  BY DEF metricDefs, behind, nativeMetrics, dcgmFields, filledBy, memFields

(* What is asked of a GPU is what its counters and its telemetry say.      *)
LEMMA AnswerOf ==
    ASSUME NEW g \in Gpus, NEW E, NEW f \in telemetryFields
    PROVE  /\ answers(E)[g][f] = Telemetry[g][f] /\ Telemetry[g][f] \in Nat
           /\ \A e \in eccFields : answers(E)[g][e] = E[g].aggregate
<1>1. DOMAIN Telemetry[g] = telemetryFields /\ Telemetry[g][f] \in Nat
  BY TelemetryAssumption
<1>2. f \notin eccFields /\ f # "volatile" /\ "volatile" \notin eccFields
  BY DEF telemetryFields, eccFields, filledBy, memFields
<1> HIDE DEF telemetryFields, eccFields
<1>3. answers(E)[g] = [k \in telemetryFields \cup eccFields \cup {"volatile"} |->
                  CASE k = "volatile" -> E[g].volatile
                    [] k \in eccFields -> E[g].aggregate
                    [] OTHER -> Telemetry[g][k]]
  BY <1>1 DEF answers
<1> QED
  BY <1>1, <1>2, <1>3

LEMMA EnergyIsWhole ==
    ASSUME NEW g \in Gpus, NEW ok, NEW E \in Eccs
    PROVE  LET v == readDevice(g, ok, answers(E)).field["EnergyMilliJoules"]
           IN v \in Nat /\ (v \div 1000) * 1000 = v
<1>1. "EnergyMilliJoules" \in telemetryFields /\ "EnergyMilliJoules" \in DOMAIN filledBy
      /\ "EnergyMilliJoules" \notin memFields
  BY DEF telemetryFields, filledBy, memFields, eccFields
<1>2. answers(E)[g]["EnergyMilliJoules"] = Telemetry[g]["EnergyMilliJoules"]
  BY <1>1, AnswerOf
<1>3. readDevice(g, ok, answers(E)).field["EnergyMilliJoules"] \in {Telemetry[g]["EnergyMilliJoules"], 0}
  BY <1>1, <1>2 DEF readDevice, value, inWatts
<1>4. Telemetry[g]["EnergyMilliJoules"] \in Nat /\ Telemetry[g]["EnergyMilliJoules"] % 1000 = 0
  BY <1>1, AnswerOf, TelemetryAssumption
<1> QED
  BY <1>3, <1>4

(* A DCGM series of a device has a native sample of the same device.       *)
LEMMA DcgmHasNative ==
    ASSUME NEW g \in Gpus, NEW ok, NEW E \in Eccs, <<g, "GetIndex">> \in ok,
           NEW x \in dcgmCollect({[readDevice(g, ok, answers(E)) EXCEPT !.field =
                                      [f \in dcgmFields |-> readDevice(g, ok, answers(E)).field[f]]]}),
           x.family # "VGPU_LICENSE_STATUS"
    PROVE  \E p \in behind, s \in gpuCollect(ok, answers(E)).out :
               /\ p[1] = x.family /\ s.metric = p[2]
               /\ s.device = x.device /\ s.labels = x.labels
               /\ inUnitsOf(x.family, s.value) = x.value
<1> DEFINE d == readDevice(g, ok, answers(E))
           c == [d EXCEPT !.field = [f \in dcgmFields |-> d.field[f]]]
<1>1. /\ c.index = d.index /\ idOf(c) = idOf(d)
      /\ \A f \in dcgmFields : c.field[f] = d.field[f]
  BY DEF readDevice, idOf
<1>2. d.field["EnergyMilliJoules"] \in Nat
      /\ (d.field["EnergyMilliJoules"] \div 1000) * 1000 = d.field["EnergyMilliJoules"]
  BY EnergyIsWhole
<1>3. x \in dcgmSeries(c)
  BY DEF dcgmCollect
<1> HIDE DEF c
<1>4. PICK m \in metricDefs :
          x = [family |-> m[1], device |-> <<c.index>>,
               value |-> rendered(m[2], c.field[m[2]]), labels |-> idOf(c)]
  BY <1>3, DcgmSeriesShape
<1>5. PICK p \in behind, n \in nativeMetrics :
               /\ p[1] = m[1] /\ n[1] = p[2] /\ n[2] = m[2]
               /\ m[2] \in dcgmFields
               /\ m[1] \in {"FB_FREE", "FB_USED", "FB_RESERVED"} <=> m[2] \in memFields
               /\ m[1] = "TOTAL_ENERGY_CONSUMPTION" <=> m[2] = "EnergyMilliJoules"
  BY DcgmFamilies
<1> DEFINE s == [device |-> <<d.index>>, metric |-> n[1],
                 value |-> native(n[2], d.field[n[2]]), labels |-> idOf(d)]
<1>6. s \in gpuCollect(ok, answers(E)).out
  BY GpuSampleShape, GpuSampleIn
<1>7. inUnitsOf(x.family, s.value) = x.value
  <2>1. x.family = m[1] /\ x.value = rendered(m[2], d.field[m[2]])
    BY <1>1, <1>4, <1>5
  <2>2. "EnergyMilliJoules" \notin memFields
    BY DEF memFields
  <2> HIDE DEF d
  <2> QED
    BY <1>2, <1>5, <2>1, <2>2 DEF inUnitsOf, rendered, native
<1> QED
  BY <1>1, <1>4, <1>5, <1>6, <1>7

(* Both surfaces come from one Read.                                       *)
LEMMA GpuSurfacesFollow == ASSUME GpuInv PROVE GpuSurfacesAgree
<1> SUFFICES ASSUME published("gpu"), NEW x \in dcgmCollect(compat), x.family # "VGPU_LICENSE_STATUS"
             PROVE  \E p \in behind, s \in metrics :
                        /\ p[1] = x.family /\ s.metric = p[2]
                        /\ s.device = x.device /\ s.labels = x.labels
                        /\ inUnitsOf(x.family, s.value) = x.value
  BY DEF GpuSurfacesAgree
<1> DEFINE ok == gpuReads \ lost
<1>1. PICK E \in Eccs : /\ metrics = gpuCollect(ok, answers(E)).out
                        /\ compat = toDCGMDevices(Read(ok, answers(E)))
  BY DEF GpuInv, GpuPublished, published
<1>2. PICK c \in compat : x \in dcgmSeries(c)
  BY DEF dcgmCollect
<1>3. PICK g \in Gpus : /\ <<g, "GetIndex">> \in ok
                        /\ c = [readDevice(g, ok, answers(E)) EXCEPT !.field =
                                  [f \in dcgmFields |-> readDevice(g, ok, answers(E)).field[f]]]
  BY <1>1, <1>2 DEF toDCGMDevices, Read
<1>4. x \in dcgmCollect({c})
  BY <1>2 DEF dcgmCollect
<1> HIDE DEF ok
<1> QED
  BY <1>1, <1>3, <1>4, DcgmHasNative

-----------------------------------------------------------------------------
LEMMA EccSample ==
    ASSUME NEW ok, NEW E \in Eccs, NEW s \in gpuCollect(ok, answers(E)).out, s.metric \in counters
    PROVE  \E g \in Gpus : /\ s.device = <<g>>
                           /\ s.value = IF <<g, eccCall(s.metric)>> \in ok THEN E[g].aggregate ELSE 0
<1>1. PICK g \in Gpus : s.device = <<g>> /\ s \in gpuSamples(readDevice(g, ok, answers(E)))
  BY GpuSampleOf
<1>2. PICK m \in nativeMetrics : s.metric = m[1]
             /\ s.value = native(m[2], readDevice(g, ok, answers(E)).field[m[2]])
  BY <1>1, GpuSampleShape DEF counters
<1>3. m[2] \in eccFields /\ m[2] \in DOMAIN filledBy /\ m[2] \notin memFields
      /\ m[2] # "EnergyMilliJoules" /\ m[2] # "PowerW"
      /\ filledBy[m[2]] = eccCall(s.metric)
  BY <1>2 DEF counters, nativeMetrics, eccFields, filledBy, memFields, eccCall
<1>4. readDevice(g, ok, answers(E)).field[m[2]] = value(g, m[2], ok, answers(E))
  BY <1>3 DEF readDevice
<1>5. answers(E)[g][m[2]] = E[g].aggregate
  BY <1>3, AnswerOf DEF telemetryFields
<1>6. s.value = IF <<g, filledBy[m[2]]>> \in ok THEN E[g].aggregate ELSE 0
  BY <1>2, <1>3, <1>4, <1>5 DEF value, inWatts, native
<1> QED
  BY <1>1, <1>3, <1>6

(* A published total is at most what the counter has reached, so a smaller *)
(* one is the zero of a call that failed.                                  *)
LEMMA GpuDrops ==
    ASSUME GpuInv, [Next]_vars, tier = "gpu",
           NEW s \in metrics, NEW t \in metrics', drops(s, t)
    PROVE  t.value = 0 /\ <<t.device[1], eccCall(t.metric)>> \in lost'
<1>1. /\ s.device = t.device /\ s.metric = t.metric /\ s.metric \in counters /\ t.value < s.value
  BY DEF drops
<1>2. ecc \in Eccs /\ GpuPublished /\ next \in {1, 2}
      /\ (next = 2 => out = gpuCollect(gpuReads \ failed, answers(ecc)).out)
  BY DEF GpuInv
<1>3. polled
  BY <1>2 DEF GpuPublished
<1>4. PICK E \in Eccs : notAhead(E, ecc) /\ metrics = gpuCollect(gpuReads \ lost, answers(E)).out
  BY <1>2, <1>3 DEF GpuPublished
<1>5. PICK g \in Gpus :
          /\ s.device = <<g>>
          /\ s.value = IF <<g, eccCall(s.metric)>> \in gpuReads \ lost THEN E[g].aggregate ELSE 0
  BY <1>1, <1>4, EccSample
<1>6. s.value <= ecc[g].aggregate /\ s.value \in Nat /\ ecc[g].aggregate \in Nat
  BY <1>2, <1>4, <1>5 DEF notAhead, Eccs
<1>7. CASE Publish
  <2>1. next = 2 /\ metrics' = out /\ lost' = failed
    BY <1>2, <1>7, OneCollector DEF Publish
  <2>2. PICK h \in Gpus :
          /\ t.device = <<h>>
          /\ t.value = IF <<h, eccCall(t.metric)>> \in gpuReads \ failed THEN ecc[h].aggregate ELSE 0
    <3>1. t \in gpuCollect(gpuReads \ failed, answers(ecc)).out /\ t.metric \in counters
      BY <1>1, <1>2, <2>1
    <3> QED
      BY <1>2, <3>1, EccSample
  <2>3. h = g
    <3>1. <<h>> = <<g>>
      BY <1>1, <1>5, <2>2, Zenon
    <3> QED
      BY <3>1
  <2>4. <<h, eccCall(t.metric)>> \in gpuReads
        /\ eccCall(t.metric) \in {"GetTotalEccErrors/U", "GetTotalEccErrors/C"}
    BY DEF gpuReads, gpuCalls, filledBy, eccCall
  <2>5. t.value = 0 /\ <<h, eccCall(t.metric)>> \in failed
    BY <1>1, <1>6, <2>2, <2>3, <2>4
  <2> QED
    BY <2>1, <2>2, <2>4, <2>5
<1>8. CASE metrics' = metrics
  <2>1. PICK h \in Gpus :
          /\ t.device = <<h>>
          /\ t.value = IF <<h, eccCall(t.metric)>> \in gpuReads \ lost THEN E[h].aggregate ELSE 0
    <3>1. t \in gpuCollect(gpuReads \ lost, answers(E)).out /\ t.metric \in counters
      BY <1>1, <1>4, <1>8
    <3> QED
      BY <3>1, EccSample
  <2>2. t.value = s.value
    <3>1. <<h>> = <<g>>
      BY <1>1, <1>5, <2>1, Zenon
    <3>2. h = g
      BY <3>1
    <3> QED
      BY <1>1, <1>5, <2>1, <3>2
  <2> QED
    BY <1>1, <1>6, <2>2
<1> QED
  BY <1>7, <1>8, MetricsStep

-----------------------------------------------------------------------------
(* The smart tier: samples and exporter are those of one probe.            *)
SmartInv ==
    tier = "smart" =>
        /\ next \in {1, 2}
        /\ next = 1 => failed = {} /\ out = {}
        /\ next = 2 => /\ out = smartCollect(smartReads \ failed).out
                       /\ compat = toSmartctlDevices(probe(smartReads \ failed))
        /\ IF polled
           THEN /\ metrics = smartCollect(smartReads \ lost).out
                /\ next = 1 => compat = toSmartctlDevices(probe(smartReads \ lost))
           ELSE metrics = {}

LEMMA SmartStep == ASSUME SmartInv, [Next]_vars PROVE SmartInv'
<1> SUFFICES ASSUME tier = "smart", tier' = "smart" PROVE SmartInv'
  BY TierStays DEF SmartInv
<1>0. collectors = <<"smart">> /\ Len(collectors) = 1
  BY OneCollector
<1>1. /\ next \in {1, 2}
      /\ next = 1 => failed = {} /\ out = {}
      /\ next = 2 => /\ out = smartCollect(smartReads \ failed).out
                     /\ compat = toSmartctlDevices(probe(smartReads \ failed))
      /\ polled => metrics = smartCollect(smartReads \ lost).out
      /\ ~polled => metrics = {}
  BY DEF SmartInv
<1>2. ASSUME UNCHANGED vars PROVE SmartInv'
  BY <1>2 DEF SmartInv, vars, hwVars, pollVars
<1>3. ASSUME Hardware PROVE SmartInv'
  BY <1>3, HardwareStep
<1>4. ASSUME Collect PROVE SmartInv'
  <2>1. next = 1
    BY <1>0, <1>1, <1>4 DEF Collect
  <2>2. PICK F : collectsWith(collectors[next], F)
    BY <1>4, CollectStep
  <2>3. collectors[next] = "smart" /\ reads("smart") = smartReads
    BY <1>0, <2>1 DEF reads
  <2>4. /\ collect("smart", smartReads \ F) = smartCollect(smartReads \ F)
        /\ Update("smart", smartReads \ F) = toSmartctlDevices(probe(smartReads \ F))
    BY Zenon DEF collect, Update
  <2>5. taken(smartCollect(smartReads \ F)) = smartCollect(smartReads \ F).out
    BY DEF taken, smartCollect
  <2>6. /\ next' = 2 /\ failed' = F
        /\ out' = smartCollect(smartReads \ F).out
        /\ compat' = toSmartctlDevices(probe(smartReads \ F))
    BY <1>1, <2>1, <2>2, <2>3, <2>4, <2>5 DEF collectsWith
  <2> QED
    BY <1>1, <2>2, <2>6 DEF SmartInv, collectsWith
<1>5. ASSUME Publish PROVE SmartInv'
  <2>1. next = 2
    BY <1>0, <1>1, <1>5 DEF Publish
  <2>2. /\ next' = 1 /\ failed' = {} /\ out' = {} /\ polled'
        /\ metrics' = out /\ lost' = failed /\ UNCHANGED compat
    BY <1>5 DEF Publish
  <2> QED
    BY <1>1, <2>1, <2>2 DEF SmartInv
<1> QED
  BY <1>2, <1>3, <1>4, <1>5 DEF Next

-----------------------------------------------------------------------------
(* What a poll of the disks finds.                                         *)
whole == {n \in DOMAIN Disks : isWholeDevice(n)}
probed(n, ok) == IF Disks[n].kind = "sata" THEN probeSata(n, Disks[n], ok)
                                           ELSE probeNvme(n, Disks[n], ok)
found(ok) == {n \in supported : <<"glob">> \in ok /\ needed(n) \subseteq ok}

LEMMA SupportedDisk ==
    ASSUME NEW n \in supported
    PROVE  /\ n \in whole
           /\ Disks[n].kind = "sata" \/ Disks[n].kind = "nvme"
           /\ Disks[n].kind = "sata" => isSata(n)
           /\ Disks[n].kind = "nvme" => isNvme(n)
           /\ ~(isSata(n) /\ isNvme(n))
  BY DisksAssumption DEF supported, whole, isSata, isNvme

LEMMA ProbeFinds ==
    ASSUME NEW ok
    PROVE  probe(ok) = {probed(n, ok) : n \in found(ok)}
<1>1. ASSUME <<"glob">> \notin ok PROVE probe(ok) = {} /\ found(ok) = {}
  BY <1>1 DEF probe, found
<1>2. ASSUME <<"glob">> \in ok PROVE probe(ok) = {probed(n, ok) : n \in found(ok)}
  <2>1. ASSUME NEW n \in whole
        PROVE  /\ n \in found(ok) => probeDevice(n, ok) = {probed(n, ok)}
               /\ n \notin found(ok) => probeDevice(n, ok) = {}
    <3>1. n \in found(ok) <=> needed(n) \subseteq ok /\ Disks[n].kind \in {"sata", "nvme"}
      BY <1>2 DEF found, supported, whole
    <3>2. ASSUME n \in found(ok) PROVE probeDevice(n, ok) = {probed(n, ok)}
      <4>1. CASE Disks[n].kind = "sata"
        BY <3>1, <3>2, <4>1 DEF probeDevice, probed
      <4>2. CASE Disks[n].kind = "nvme"
        BY <3>1, <3>2, <4>2 DEF probeDevice, probed
      <4> QED
        BY <3>1, <3>2, <4>1, <4>2
    <3>3. ASSUME n \notin found(ok) PROVE probeDevice(n, ok) = {}
      BY <3>1, <3>3 DEF probeDevice
    <3> QED
      BY <3>2, <3>3
  <2>2. found(ok) \subseteq whole
    BY DEF found, supported, whole
  <2>3. probe(ok) = UNION {probeDevice(n, ok) : n \in whole}
    BY <1>2 DEF probe, whole
  <2> QED
    BY <2>1, <2>2, <2>3
<1> QED
  BY <1>1, <1>2

LEMMA NeededAreRead ==
    ASSUME NEW n \in supported
    PROVE  {<<"glob">>} \cup needed(n) \subseteq smartReads
<1>1. ASSUME NEW r \in needed(n) PROVE r \in smartReads
  <2>1. PICK c \in {"open", "generic", "data"} : r = Append(n, c)
    BY <1>1 DEF needed
  <2> QED
    BY <2>1, SupportedDisk DEF smartReads, whole
<1> QED
  BY <1>1 DEF smartReads

LEMMA FoundAreReadable ==
    ASSUME NEW L
    PROVE  found(smartReads \ L) = {d \in supported : L \cap ({<<"glob">>} \cup needed(d)) = {}}
  BY NeededAreRead DEF found

-----------------------------------------------------------------------------
(* The native readings of a disk by metric, and the compat ones by family. *)
diskSample(n, metric, v) == [device |-> n, metric |-> metric, value |-> v, labels |-> <<>>]

LEMMA SmartSampleShape ==
    ASSUME NEW d, NEW s
    PROVE  s \in smartSamples(d) <=>
             \E q \in nativeDefs(d) : \E v \in q[2] : s = diskSample(d.name, q[1], v)
  BY DEF smartSamples, diskSample

(* The names of the five raw attributes are of no other reading.           *)
LEMMA AttrNames ==
    ASSUME NEW ok, NEW n \in supported, NEW a \in probed(n, ok).ataAttrs
    PROVE  \E b \in sataAttrMetrics : a[1] = b[2]
<1>1. CASE Disks[n].kind = "sata"
  BY <1>1 DEF probed, probeSata
<1>2. CASE Disks[n].kind # "sata"
  BY <1>2 DEF probed, probeNvme
<1> QED
  BY <1>1, <1>2

(* The metrics of IDENTIFY and of the NVMe health log, and their fields.   *)
infoMetrics == [smart_capacity_bytes |-> "bytes", smart_logical_block_size_bytes |-> "logical",
                smart_rotation_rate_rpm |-> "rotation",
                smart_interface_speed_bits_per_second |-> "speed"]
nvmeMetrics == [nvme_percentage_used |-> "percentageUsed", nvme_available_spare |-> "availableSpare",
                nvme_available_spare_threshold |-> "spareThreshold", nvme_media_errors |-> "mediaErrors",
                nvme_critical_warning |-> "criticalWarning", nvme_bytes_read_total |-> "bytesRead",
                nvme_bytes_written_total |-> "bytesWritten",
                nvme_error_log_entries |-> "numErrLogEntries"]

rawReading(d, metric) == {a[2] : a \in {a \in d.ataAttrs : a[1] = metric}}

diskReading(d, metric) ==
    CASE metric = "smart_temperature_celsius" -> d.temperature
      [] metric = "smart_power_on_hours" -> d.powerOnHours
      [] metric = "smart_power_cycles" -> d.powerCycles
      [] metric = "smart_health_passed" -> {one(b) : b \in d.healthy}
      [] metric = "smart_error_log_count" -> d.errorLog

diskMetrics == {"smart_temperature_celsius", "smart_power_on_hours", "smart_power_cycles",
                "smart_health_passed", "smart_error_log_count"}
attrMetrics == {b[2] : b \in sataAttrMetrics}

(* What a metric shows of one disk.                                        *)
reading(d, metric) ==
    IF metric \in attrMetrics THEN rawReading(d, metric)
    ELSE IF metric \in DOMAIN infoMetrics THEN infoField(d, infoMetrics[metric])
    ELSE IF metric \in DOMAIN nvmeMetrics THEN nvmeField(d, nvmeMetrics[metric])
    ELSE diskReading(d, metric)

readMetrics == diskMetrics \cup DOMAIN infoMetrics \cup DOMAIN nvmeMetrics \cup attrMetrics

LEMMA MetricDomains ==
    /\ DOMAIN infoMetrics = {"smart_capacity_bytes", "smart_logical_block_size_bytes",
                             "smart_rotation_rate_rpm", "smart_interface_speed_bits_per_second"}
    /\ DOMAIN nvmeMetrics = {"nvme_percentage_used", "nvme_available_spare",
                             "nvme_available_spare_threshold", "nvme_media_errors",
                             "nvme_critical_warning", "nvme_bytes_read_total",
                             "nvme_bytes_written_total", "nvme_error_log_entries"}
    /\ attrMetrics = {"smart_reallocated_sectors", "smart_reported_uncorrectable",
                      "smart_command_timeout", "smart_pending_sectors", "smart_offline_uncorrectable"}
  BY DEF infoMetrics, nvmeMetrics, attrMetrics, sataAttrMetrics

(* The entries of nativeDefs, kind by kind.                                *)
LEMMA NativeEntries ==
    ASSUME NEW d, NEW m, NEW S
    PROVE  <<m, S>> \in nativeDefs(d) <=>
              \/ m = "smart_temperature_celsius" /\ S = d.temperature
              \/ m = "smart_power_on_hours" /\ S = d.powerOnHours
              \/ m = "smart_power_cycles" /\ S = d.powerCycles
              \/ m = "smart_health_passed" /\ S = {one(b) : b \in d.healthy}
              \/ m = "smart_error_log_count" /\ S = d.errorLog
              \/ m \in DOMAIN infoMetrics /\ S = infoField(d, infoMetrics[m])
              \/ m \in DOMAIN nvmeMetrics /\ S = nvmeField(d, nvmeMetrics[m])
              \/ \E a \in d.ataAttrs : m = a[1] /\ S = {a[2]}
<1>1. m \in DOMAIN infoMetrics /\ S = infoField(d, infoMetrics[m]) <=>
         \/ m = "smart_capacity_bytes" /\ S = infoField(d, "bytes")
         \/ m = "smart_logical_block_size_bytes" /\ S = infoField(d, "logical")
         \/ m = "smart_rotation_rate_rpm" /\ S = infoField(d, "rotation")
         \/ m = "smart_interface_speed_bits_per_second" /\ S = infoField(d, "speed")
  BY DEF infoMetrics
<1>2. m \in DOMAIN nvmeMetrics /\ S = nvmeField(d, nvmeMetrics[m]) <=>
         \/ m = "nvme_percentage_used" /\ S = nvmeField(d, "percentageUsed")
         \/ m = "nvme_available_spare" /\ S = nvmeField(d, "availableSpare")
         \/ m = "nvme_available_spare_threshold" /\ S = nvmeField(d, "spareThreshold")
         \/ m = "nvme_media_errors" /\ S = nvmeField(d, "mediaErrors")
         \/ m = "nvme_critical_warning" /\ S = nvmeField(d, "criticalWarning")
         \/ m = "nvme_bytes_read_total" /\ S = nvmeField(d, "bytesRead")
         \/ m = "nvme_bytes_written_total" /\ S = nvmeField(d, "bytesWritten")
         \/ m = "nvme_error_log_entries" /\ S = nvmeField(d, "numErrLogEntries")
  BY DEF nvmeMetrics
<1> QED
  BY <1>1, <1>2, SMT DEF nativeDefs

LEMMA NativePairs ==
    ASSUME NEW d, NEW q \in nativeDefs(d)
    PROVE  q = <<q[1], q[2]>>
  BY DEF nativeDefs

LEMMA ReadingsAre ==
    ASSUME NEW d
    PROVE  /\ reading(d, "smart_temperature_celsius") = d.temperature
           /\ reading(d, "smart_power_on_hours") = d.powerOnHours
           /\ reading(d, "smart_power_cycles") = d.powerCycles
           /\ reading(d, "smart_health_passed") = {one(b) : b \in d.healthy}
           /\ reading(d, "smart_error_log_count") = d.errorLog
           /\ \A m \in DOMAIN infoMetrics : reading(d, m) = infoField(d, infoMetrics[m])
           /\ \A m \in DOMAIN nvmeMetrics : reading(d, m) = nvmeField(d, nvmeMetrics[m])
           /\ \A m \in attrMetrics : reading(d, m) = rawReading(d, m)
           /\ reading(d, "nvme_percentage_used") = nvmeField(d, "percentageUsed")
<1>1. \A m \in diskMetrics : reading(d, m) = diskReading(d, m)
  BY MetricDomains DEF reading, diskMetrics
<1>2. /\ diskReading(d, "smart_temperature_celsius") = d.temperature
      /\ diskReading(d, "smart_power_on_hours") = d.powerOnHours
      /\ diskReading(d, "smart_power_cycles") = d.powerCycles
      /\ diskReading(d, "smart_health_passed") = {one(b) : b \in d.healthy}
      /\ diskReading(d, "smart_error_log_count") = d.errorLog
  BY DEF diskReading
<1>3. \A m \in DOMAIN infoMetrics : reading(d, m) = infoField(d, infoMetrics[m])
  BY MetricDomains DEF reading
<1>4. \A m \in DOMAIN nvmeMetrics : reading(d, m) = nvmeField(d, nvmeMetrics[m])
  BY MetricDomains DEF reading
<1>5. \A m \in attrMetrics : reading(d, m) = rawReading(d, m)
  BY MetricDomains DEF reading
<1>6. nvmeMetrics["nvme_percentage_used"] = "percentageUsed"
  BY DEF nvmeMetrics
<1>7. diskMetrics = {"smart_temperature_celsius", "smart_power_on_hours", "smart_power_cycles",
                     "smart_health_passed", "smart_error_log_count"}
  BY DEF diskMetrics
<1> QED
  BY <1>1, <1>2, <1>3, <1>4, <1>5, <1>6, <1>7, MetricDomains

LEMMA ReadingOf ==
    ASSUME NEW ok, NEW n \in supported, NEW metric \in readMetrics, NEW v
    PROVE  LET d == probed(n, ok) IN
           v \in reading(d, metric) <=> \E q \in nativeDefs(d) : q[1] = metric /\ v \in q[2]
<1> DEFINE d == probed(n, ok)
<1>1. ASSUME NEW a \in d.ataAttrs PROVE a[1] \in attrMetrics
  BY AttrNames DEF attrMetrics
<1> HIDE DEF d
<1>2. (\E q \in nativeDefs(d) : q[1] = metric /\ v \in q[2]) <=> \E S : <<metric, S>> \in nativeDefs(d) /\ v \in S
  <2>1. ASSUME NEW q \in nativeDefs(d), q[1] = metric, v \in q[2]
        PROVE  \E S : <<metric, S>> \in nativeDefs(d) /\ v \in S
    <3>1. <<metric, q[2]>> \in nativeDefs(d)
      BY <2>1, NativePairs
    <3> QED
      BY <2>1, <3>1
  <2>2. ASSUME NEW S, <<metric, S>> \in nativeDefs(d), v \in S
        PROVE  \E q \in nativeDefs(d) : q[1] = metric /\ v \in q[2]
    <3>1. <<metric, S>>[1] = metric /\ <<metric, S>>[2] = S
      OBVIOUS
    <3> QED
      BY <2>2, <3>1
  <2> QED
    BY <2>1, <2>2
<1>3. ASSUME metric \in attrMetrics
      PROVE  v \in reading(d, metric) <=> \E q \in nativeDefs(d) : q[1] = metric /\ v \in q[2]
  <2>1. reading(d, metric) = rawReading(d, metric)
    BY <1>3, ReadingsAre
  <2>2. \A S : <<metric, S>> \in nativeDefs(d) <=> \E a \in d.ataAttrs : metric = a[1] /\ S = {a[2]}
    BY <1>3, MetricDomains, NativeEntries
  <2>3. v \in rawReading(d, metric) <=> \E a \in d.ataAttrs : a[1] = metric /\ v = a[2]
    BY DEF rawReading
  <2>4. (\E S : <<metric, S>> \in nativeDefs(d) /\ v \in S) <=> \E a \in d.ataAttrs : a[1] = metric /\ v = a[2]
    <3>1. ASSUME NEW a \in d.ataAttrs, a[1] = metric, v = a[2]
          PROVE  \E S : <<metric, S>> \in nativeDefs(d) /\ v \in S
      <4>1. <<metric, {v}>> \in nativeDefs(d)
        BY <2>2, <3>1
      <4> QED
        BY <4>1
    <3>2. ASSUME NEW S, <<metric, S>> \in nativeDefs(d), v \in S
          PROVE  \E a \in d.ataAttrs : a[1] = metric /\ v = a[2]
      BY <2>2, <3>2
    <3> QED
      BY <3>1, <3>2
  <2> QED
    BY <1>2, <2>1, <2>3, <2>4
<1>4. ASSUME metric \notin attrMetrics
      PROVE  v \in reading(d, metric) <=> \E q \in nativeDefs(d) : q[1] = metric /\ v \in q[2]
  <2>1. \A S : ~\E a \in d.ataAttrs : metric = a[1] /\ S = {a[2]}
    BY <1>1, <1>4
  <2>2. \A S : <<metric, S>> \in nativeDefs(d) <=> S = reading(d, metric)
    <3>1. CASE metric \in diskMetrics
      <4>1. metric \notin DOMAIN infoMetrics /\ metric \notin DOMAIN nvmeMetrics
        BY <3>1, MetricDomains DEF diskMetrics
      <4>2. \A S : <<metric, S>> \in nativeDefs(d) <=>
                      \/ metric = "smart_temperature_celsius" /\ S = d.temperature
                      \/ metric = "smart_power_on_hours" /\ S = d.powerOnHours
                      \/ metric = "smart_power_cycles" /\ S = d.powerCycles
                      \/ metric = "smart_health_passed" /\ S = {one(b) : b \in d.healthy}
                      \/ metric = "smart_error_log_count" /\ S = d.errorLog
        BY <2>1, <4>1, NativeEntries
      <4> DEFINE H == {one(b) : b \in d.healthy}
      <4>3. /\ metric = "smart_temperature_celsius" => reading(d, metric) = d.temperature
            /\ metric = "smart_power_on_hours" => reading(d, metric) = d.powerOnHours
            /\ metric = "smart_power_cycles" => reading(d, metric) = d.powerCycles
            /\ metric = "smart_health_passed" => reading(d, metric) = H
            /\ metric = "smart_error_log_count" => reading(d, metric) = d.errorLog
        BY ReadingsAre
      <4>4. \A S : <<metric, S>> \in nativeDefs(d) <=>
                      \/ metric = "smart_temperature_celsius" /\ S = d.temperature
                      \/ metric = "smart_power_on_hours" /\ S = d.powerOnHours
                      \/ metric = "smart_power_cycles" /\ S = d.powerCycles
                      \/ metric = "smart_health_passed" /\ S = H
                      \/ metric = "smart_error_log_count" /\ S = d.errorLog
        BY <4>2
      <4> HIDE DEF H
      <4> QED
        BY <3>1, <4>3, <4>4 DEF diskMetrics
    <3>2. CASE metric \in DOMAIN infoMetrics
      <4>1. metric \notin diskMetrics /\ metric \notin DOMAIN nvmeMetrics
        BY <3>2, MetricDomains DEF diskMetrics
      <4>2. reading(d, metric) = infoField(d, infoMetrics[metric])
        BY <3>2, ReadingsAre
      <4> QED
        BY <2>1, <3>2, <4>1, <4>2, NativeEntries DEF diskMetrics
    <3>3. CASE metric \in DOMAIN nvmeMetrics
      <4>1. metric \notin diskMetrics /\ metric \notin DOMAIN infoMetrics
        BY <3>3, MetricDomains DEF diskMetrics
      <4>2. reading(d, metric) = nvmeField(d, nvmeMetrics[metric])
        BY <3>3, ReadingsAre
      <4> QED
        BY <2>1, <3>3, <4>1, <4>2, NativeEntries DEF diskMetrics
    <3> QED
      BY <1>4, <3>1, <3>2, <3>3 DEF readMetrics
  <2> QED
    BY <1>2, <2>2
<1> QED
  BY <1>3, <1>4 DEF d

LEMMA ProbedName ==
    ASSUME NEW ok, NEW n \in supported
    PROVE  probed(n, ok).name = n
  BY DEF probed, probeSata, probeNvme

LEMMA ShownOf ==
    ASSUME NEW ok, metrics = smartCollect(ok).out, NEW metric \in readMetrics, NEW s
    PROVE  s \in shown(metric) <=>
               \E n \in found(ok) : \E v \in reading(probed(n, ok), metric) : s = diskSample(n, metric, v)
<1>1. s \in metrics <=> \E n \in found(ok) : s \in smartSamples(probed(n, ok))
  BY ProbeFinds DEF smartCollect
<1>2. found(ok) \subseteq supported
  BY DEF found
<1>3. ASSUME NEW n \in found(ok)
      PROVE  s \in smartSamples(probed(n, ok)) /\ s.metric = metric <=>
                \E v \in reading(probed(n, ok), metric) : s = diskSample(n, metric, v)
  <2> DEFINE d == probed(n, ok)
  <2>1. d.name = n
    BY <1>2, ProbedName
  <2>2. \A v : v \in reading(d, metric) <=> \E q \in nativeDefs(d) : q[1] = metric /\ v \in q[2]
    BY <1>2, ReadingOf
  <2> HIDE DEF d
  <2>3. ASSUME s \in smartSamples(d), s.metric = metric
        PROVE  \E v \in reading(d, metric) : s = diskSample(n, metric, v)
    <3>0. PICK q \in nativeDefs(d) : \E v \in q[2] : s = diskSample(d.name, q[1], v)
      BY <2>3, SmartSampleShape
    <3>1. PICK v \in q[2] : s = diskSample(d.name, q[1], v)
      BY <3>0
    <3>2. q[1] = metric
      BY <2>3, <3>1 DEF diskSample
    <3>3. v \in reading(d, metric)
      BY <2>2, <3>2
    <3> QED
      BY <2>1, <3>1, <3>2, <3>3
  <2>4. ASSUME NEW v \in reading(d, metric), s = diskSample(n, metric, v)
        PROVE  s \in smartSamples(d) /\ s.metric = metric
    <3>1. s.metric = metric
      BY <2>4 DEF diskSample
    <3>2. \E q \in nativeDefs(d) : \E w \in q[2] : s = diskSample(d.name, q[1], w)
      <4>1. PICK q \in nativeDefs(d) : q[1] = metric /\ v \in q[2]
        BY <2>2
      <4> QED
        BY <2>1, <2>4, <4>1
    <3> QED
      BY <3>1, <3>2, SmartSampleShape
  <2> QED
    BY <2>3, <2>4 DEF d
<1> QED
  BY <1>1, <1>3 DEF shown, diskSample

-----------------------------------------------------------------------------
(* A verdict is judged by the pre-failure attributes with a threshold.     *)
LEMMA VerdictHasEvidence ==
    ASSUME NEW page, NEW T,
           \A i \in DOMAIN page : page[i].current \in Nat, \A i \in DOMAIN T : T[i] \in Nat,
           NEW b \in ataHealthy(ataFullAttrs(page, T))
    PROVE  LET E == {i \in DOMAIN page \cap DOMAIN T : "prefailure" \in page[i].flags /\ T[i] > 0}
           IN E # {} /\ (one(b) = 0 <=> \E i \in E : page[i].current <= T[i])
<1> DEFINE E == {i \in DOMAIN page \cap DOMAIN T : "prefailure" \in page[i].flags /\ T[i] > 0}
           attr(i) == [id |-> i, flags |-> page[i].flags, raw |-> page[i].raw,
                       current |-> page[i].current, worst |-> page[i].worst,
                       threshold |-> {T[j] : j \in {i} \cap DOMAIN T}]
           attrs == {attr(i) : i \in DOMAIN page}
           judged == {a \in attrs : "prefailure" \in a.flags /\ a.threshold \notin {{}, {0}}}
           sound == \A a \in judged : \A t \in a.threshold : a.current > t
<1>1. b \in IF judged = {} THEN {} ELSE {sound}
  BY DEF ataHealthy, ataFullAttrs
<1>2. ASSUME NEW i \in DOMAIN page
      PROVE  /\ attr(i) \in judged <=> i \in E
             /\ i \in E => attr(i).threshold = {T[i]} /\ attr(i).current = page[i].current
  <2>1. i \notin DOMAIN T => attr(i).threshold = {}
    OBVIOUS
  <2>2. i \in DOMAIN T => attr(i).threshold = {T[i]}
    OBVIOUS
  <2>3. attr(i).flags = page[i].flags /\ attr(i).current = page[i].current /\ attr(i) \in attrs
    OBVIOUS
  <2> HIDE DEF attr, attrs
  <2>4. attr(i) \in judged <=> "prefailure" \in page[i].flags /\ attr(i).threshold \notin {{}, {0}}
    BY <2>3
  <2>5. attr(i).threshold \notin {{}, {0}} <=> i \in DOMAIN T /\ T[i] > 0
    <3>1. CASE i \in DOMAIN T
      BY <2>2, <3>1
    <3> QED
      BY <2>1, <3>1
  <2> QED
    BY <2>2, <2>3, <2>4, <2>5
<1>3. \A a \in judged : \E i \in E : a = attr(i)
  BY <1>2
<1>4. judged # {} /\ b = sound
  BY <1>1
<1> HIDE DEF judged, attr, attrs
<1>5. E # {}
  BY <1>3, <1>4
<1>6. sound <=> \A i \in E : page[i].current > T[i]
  <2>1. ASSUME NEW i \in E
        PROVE  attr(i) \in judged /\ attr(i).threshold = {T[i]} /\ attr(i).current = page[i].current
    BY <1>2
  <2> QED
    BY <1>3, <2>1
<1>7. one(b) = 0 <=> ~sound
  BY <1>4 DEF one
<1> QED
  BY <1>5, <1>6, <1>7

LEMMA HealthFollows == ASSUME SmartInv PROVE HealthIsEvidenced
<1> SUFFICES ASSUME published("smart"), NEW s \in shown("smart_health_passed"), isSata(s.device)
             PROVE  LET x == Disks[s.device]
                        evidence == {i \in DOMAIN x.page \cap DOMAIN x.thresholds :
                                        "prefailure" \in x.page[i].flags /\ x.thresholds[i] > 0}
                    IN /\ Append(s.device, "thresholds") \notin lost /\ evidence # {}
                       /\ s.value = 0 <=> \E i \in evidence : x.page[i].current <= x.thresholds[i]
  BY DEF HealthIsEvidenced
<1> DEFINE ok == smartReads \ lost
           n == s.device
           x == Disks[n]
           T == IF Append(n, "thresholds") \in ok THEN x.thresholds ELSE <<>>
<1>1. metrics = smartCollect(ok).out
  BY DEF SmartInv, published
<1>2. "smart_health_passed" \in readMetrics
  BY DEF readMetrics, diskMetrics
<1> HIDE DEF ok
<1>3. \E m \in found(ok) : \E v \in reading(probed(m, ok), "smart_health_passed") :
          s = diskSample(m, "smart_health_passed", v)
  BY <1>1, <1>2, ShownOf
<1>4. n \in found(ok) /\ s.value \in reading(probed(n, ok), "smart_health_passed")
  BY <1>3 DEF diskSample
<1>5. n \in supported /\ x.kind = "sata" /\ n \in whole
  <2>1. n \in supported
    BY <1>4 DEF found
  <2> QED
    BY <2>1, SupportedDisk
<1>6. probed(n, ok).healthy = ataHealthy(ataFullAttrs(x.page, T))
  BY <1>5 DEF probed, probeSata
<1>7. PICK b \in ataHealthy(ataFullAttrs(x.page, T)) : s.value = one(b)
  BY <1>4, <1>6, ReadingsAre
<1>8. /\ \A i \in DOMAIN x.page : x.page[i].current \in Nat
      /\ \A i \in DOMAIN x.thresholds : x.thresholds[i] \in Nat
  <2>1. /\ \A i \in DOMAIN x.page : x.page[i].current \in 0..255
        /\ \A i \in DOMAIN x.thresholds : x.thresholds[i] \in 0..255
    BY <1>5, DisksAssumption DEF whole
  <2>2. 0..255 \subseteq Nat
    OBVIOUS
  <2> HIDE DEF x
  <2> QED
    BY <2>1, <2>2
<1>9. \A i \in DOMAIN T : T[i] \in Nat
  BY <1>8
<1> DEFINE E(t) == {i \in DOMAIN x.page \cap DOMAIN t : "prefailure" \in x.page[i].flags /\ t[i] > 0}
<1>10. E(T) # {} /\ (one(b) = 0 <=> \E i \in E(T) : x.page[i].current <= T[i])
  <2> HIDE DEF T, x
  <2> QED BY <1>7, <1>8, <1>9, VerdictHasEvidence
<1>11. Append(n, "thresholds") \in ok
  BY <1>10
<1>12. T = x.thresholds /\ Append(n, "thresholds") \notin lost
  BY <1>11 DEF ok
<1> QED
  BY <1>7, <1>10, <1>12

-----------------------------------------------------------------------------
LEMMA DevicesShown ==
    ASSUME NEW ok, metrics = smartCollect(ok).out, NEW metric \in readMetrics
    PROVE  {s.device : s \in shown(metric)} = {n \in found(ok) : reading(probed(n, ok), metric) # {}}
<1>1. ASSUME NEW s \in shown(metric)
      PROVE  s.device \in found(ok) /\ reading(probed(s.device, ok), metric) # {}
  <2>1. PICK n \in found(ok) : \E v \in reading(probed(n, ok), metric) : s = diskSample(n, metric, v)
    BY ShownOf
  <2>2. s.device = n
    BY <2>1 DEF diskSample
  <2> QED
    BY <2>1, <2>2
<1>2. ASSUME NEW n \in found(ok), reading(probed(n, ok), metric) # {}
      PROVE  \E s \in shown(metric) : s.device = n
  <2>1. PICK v \in reading(probed(n, ok), metric) : TRUE
    BY <1>2
  <2>2. diskSample(n, metric, v) \in shown(metric)
    BY ShownOf
  <2>3. diskSample(n, metric, v).device = n
    BY DEF diskSample
  <2> QED
    BY <2>2, <2>3
<1> QED
  BY <1>1, <1>2

(* Every disk that could be read has a temperature, the NVMe ones and no   *)
(* others an endurance.                                                    *)
LEMMA DisksFollow ==
    ASSUME metrics = smartCollect(smartReads \ lost).out
    PROVE  disksAreReported
<1> DEFINE ok == smartReads \ lost
<1>1. found(ok) = {d \in supported : lost \cap ({<<"glob">>} \cup needed(d)) = {}}
  BY FoundAreReadable
<1>2. found(ok) \subseteq supported
  BY DEF found
<1>0. metrics = smartCollect(ok).out
  OBVIOUS
<1> HIDE DEF ok
<1>3. "smart_temperature_celsius" \in readMetrics /\ "nvme_percentage_used" \in readMetrics
  BY MetricDomains DEF readMetrics, diskMetrics
<1>4. ASSUME NEW n \in found(ok)
      PROVE  /\ reading(probed(n, ok), "smart_temperature_celsius") # {}
             /\ isNvme(n) <=> reading(probed(n, ok), "nvme_percentage_used") # {}
  <2>1. n \in supported
    BY <1>2, <1>4
  <2>2. CASE Disks[n].kind = "sata"
    <3>1. ~isNvme(n)
      BY <2>1, <2>2, SupportedDisk
    <3>2. probed(n, ok).temperature # {} /\ probed(n, ok).nvme = {}
      BY <2>2 DEF probed, probeSata
    <3> QED
      BY <3>1, <3>2, ReadingsAre DEF nvmeField
  <2>3. CASE Disks[n].kind = "nvme"
    <3>1. isNvme(n)
      BY <2>1, <2>3, SupportedDisk
    <3>2. probed(n, ok).temperature # {} /\ probed(n, ok).nvme # {}
      BY <2>3 DEF probed, probeNvme
    <3> QED
      BY <3>1, <3>2, ReadingsAre DEF nvmeField
  <2> QED
    BY <2>1, <2>2, <2>3, SupportedDisk
<1>5. {s.device : s \in shown("smart_temperature_celsius")} = found(ok)
  <2>1. {s.device : s \in shown("smart_temperature_celsius")}
            = {n \in found(ok) : reading(probed(n, ok), "smart_temperature_celsius") # {}}
    BY <1>0, <1>3, DevicesShown
  <2> QED
    BY <1>4, <2>1
<1>6. {s.device : s \in shown("nvme_percentage_used")} = {n \in found(ok) : isNvme(n)}
  <2>1. {s.device : s \in shown("nvme_percentage_used")}
            = {n \in found(ok) : reading(probed(n, ok), "nvme_percentage_used") # {}}
    BY <1>0, <1>3, DevicesShown
  <2>2. \A n \in found(ok) : isNvme(n) <=> reading(probed(n, ok), "nvme_percentage_used") # {}
    BY <1>4
  <2> QED
    BY <2>1, <2>2
<1>7. {s.device : s \in metrics} = found(ok)
  <2>1. ASSUME NEW s \in metrics PROVE s.device \in found(ok)
    <3>1. PICK n \in found(ok) : s \in smartSamples(probed(n, ok))
      BY <1>0, ProbeFinds DEF smartCollect
    <3>2. s.device = probed(n, ok).name
      BY <3>1, SmartSampleShape DEF diskSample
    <3> QED
      BY <1>2, <3>2, ProbedName
  <2>2. found(ok) \subseteq {s.device : s \in metrics}
    BY <1>5 DEF shown
  <2> QED
    BY <2>1, <2>2
<1> QED
  BY <1>1, <1>5, <1>6, <1>7 DEF disksAreReported

-----------------------------------------------------------------------------
(* The exporter's side.                                                    *)
stripped(d) == [f \in DOMAIN d \ {"ataAttrs"} |-> d[f]]

LEMMA StrippedKeeps ==
    ASSUME NEW ok, NEW n \in supported
    PROVE  LET d == probed(n, ok)
               c == stripped(d)
           IN /\ c.name = n /\ c.temperature = d.temperature /\ c.powerOnHours = d.powerOnHours
              /\ c.powerCycles = d.powerCycles /\ c.healthy = d.healthy /\ c.info = d.info
              /\ c.nvme = d.nvme /\ c.errorLog = d.errorLog /\ c.attrs = d.attrs
<1>1. CASE Disks[n].kind = "sata"
  BY <1>1 DEF stripped, probed, probeSata
<1>2. CASE Disks[n].kind # "sata"
  BY <1>2 DEF stripped, probed, probeNvme
<1> QED
  BY <1>1, <1>2

(* The shared series, and what each of them shows of one disk.             *)
nvmeScalars == [percentage_used |-> "percentageUsed", available_spare |-> "availableSpare",
                available_spare_threshold |-> "spareThreshold", media_errors |-> "mediaErrors",
                critical_warning |-> "criticalWarning", num_err_log_entries |-> "numErrLogEntries",
                bytes_read |-> "bytesRead", bytes_written |-> "bytesWritten"]
diskScalars == {"power_on_seconds", "power_cycle_count", "smart_status", "capacity_bytes",
                "rotation_rate"}

diskScalar(d, family) ==
    CASE family = "power_on_seconds" -> {h * 3600 : h \in d.powerOnHours}
      [] family = "power_cycle_count" -> d.powerCycles
      [] family = "smart_status" -> {one(b) : b \in d.healthy}
      [] family = "capacity_bytes" -> infoField(d, "bytes")
      [] family = "rotation_rate" -> infoField(d, "rotation")

scalarReading(d, family) ==
    IF family \in DOMAIN nvmeScalars THEN nvmeField(d, nvmeScalars[family]) ELSE diskScalar(d, family)

sharedScalars == diskScalars \cup DOMAIN nvmeScalars

partReading(d, family) ==
    CASE family = "temperature" -> d.temperature
      [] family = "block_size" -> infoField(d, "logical")
      [] family = "interface_speed" -> infoField(d, "speed")
      [] family = "error_log_count" -> d.errorLog

sharedParts == {<<"temperature", <<"current">>>>, <<"block_size", <<"logical">>>>,
                <<"interface_speed", <<"current">>>>, <<"error_log_count", <<"summary">>>>}

idReading(d, i) == {a.raw : a \in {a \in d.attrs : a.id = i}}

LEMMA SeriesFields ==
    ASSUME NEW f, NEW n, NEW l, NEW v
    PROVE  /\ series(f, n, l, v).family = f /\ series(f, n, l, v).device = n
           /\ series(f, n, l, v).value = v /\ series(f, n, l, v).labels = l
  BY DEF series

LEMMA PartFamilies ==
    ASSUME NEW d, NEW n, NEW x
    PROVE  /\ x \in collectInfo(d, n) => x.family = "device" /\ x.device = n
           /\ x \in collectTemperature(d, n) =>
                 x.family = "temperature" /\ x.device = n /\ x.value \in d.temperature
           /\ x \in collectBlockSize(d, n) => x.family = "block_size" /\ x.device = n
           /\ x \in collectInterfaceSpeed(d, n) =>
                 /\ x.family = "interface_speed" /\ x.device = n
                 /\ infoField(d, "speed") # {} \/ infoField(d, "speedMax") # {}
           /\ x \in collectErrorLogCount(d, n) =>
                 x.family = "error_log_count" /\ x.device = n /\ x.value \in d.errorLog
           /\ x \in collectAttributes(d, n) => x.family = "attribute" /\ x.device = n /\ d.attrs # {}
<1>1. x \in collectInfo(d, n) => x.family = "device" /\ x.device = n
  BY SeriesFields DEF collectInfo
<1>2. x \in collectTemperature(d, n) =>
                 x.family = "temperature" /\ x.device = n /\ x.value \in d.temperature
  BY SeriesFields DEF collectTemperature
<1>3. x \in collectBlockSize(d, n) => x.family = "block_size" /\ x.device = n
  BY SeriesFields DEF collectBlockSize
<1>4. x \in collectInterfaceSpeed(d, n) =>
                 /\ x.family = "interface_speed" /\ x.device = n
                 /\ infoField(d, "speed") # {} \/ infoField(d, "speedMax") # {}
  BY SeriesFields DEF collectInterfaceSpeed
<1>5. x \in collectErrorLogCount(d, n) =>
                 x.family = "error_log_count" /\ x.device = n /\ x.value \in d.errorLog
  BY SeriesFields DEF collectErrorLogCount
<1>6. x \in collectAttributes(d, n) => x.family = "attribute" /\ x.device = n /\ d.attrs # {}
  <2>1. ASSUME NEW a, NEW kind, NEW v
        PROVE  attribute(n, a, kind, v).family = "attribute" /\ attribute(n, a, kind, v).device = n
    <3>1. PICK l : attribute(n, a, kind, v) = series("attribute", n, l, v)
      BY Zenon DEF attribute
    <3> QED
      BY <3>1, SeriesFields
  <2> QED
    BY <2>1 DEF collectAttributes
<1> QED
  BY <1>1, <1>2, <1>3, <1>4, <1>5, <1>6

LEMMA SeriesSame ==
    ASSUME NEW n, NEW f, NEW l, NEW v, NEW g, NEW k, NEW w
    PROVE  series(f, n, l, v) = series(g, n, k, w) <=> f = g /\ l = k /\ v = w
  BY SeriesFields DEF series

LEMMA ScalarShape ==
    ASSUME NEW d, NEW n, NEW x
    PROVE  x \in collectScalars(d, n) <=> \E def \in scalarDefs(d) : \E v \in def[2] :
                                            x = series(def[1], n, <<>>, v)
  BY DEF collectScalars

(* Which series each part writes.                                          *)
LEMMA ScalarSeries ==
    ASSUME NEW d, NEW n, NEW f, NEW l, NEW v
    PROVE  series(f, n, l, v) \in collectScalars(d, n) <=>
              l = <<>> /\ \E def \in scalarDefs(d) : def[1] = f /\ v \in def[2]
  BY ScalarShape, SeriesSame

LEMMA PartSeries ==
    ASSUME NEW d, NEW n, NEW f, NEW l, NEW v
    PROVE  LET x == series(f, n, l, v) IN
           /\ x \in collectInfo(d, n) => f = "device"
           /\ x \in collectTemperature(d, n) <=>
                 f = "temperature" /\ l = <<"current">> /\ v \in d.temperature
           /\ x \in collectBlockSize(d, n) <=>
                 /\ f = "block_size"
                 /\ \E i \in {i \in d.info : i.logical # 0} :
                        (l = <<"logical">> /\ v = i.logical) \/ (l = <<"physical">> /\ v = i.physical)
           /\ x \in collectInterfaceSpeed(d, n) <=>
                 /\ f = "interface_speed"
                 /\ \/ l = <<"current">> /\ v \in infoField(d, "speed")
                    \/ l = <<"max">> /\ v \in infoField(d, "speedMax")
           /\ x \in collectErrorLogCount(d, n) <=>
                 f = "error_log_count" /\ l = <<"summary">> /\ v \in d.errorLog
           /\ x \in collectAttributes(d, n) <=>
                 /\ f = "attribute"
                 /\ \E a \in d.attrs :
                        \/ l = <<a.id, "raw">> /\ v = a.raw
                        \/ l = <<a.id, "value">> /\ v = a.current
                        \/ l = <<a.id, "worst">> /\ v = a.worst
                        \/ l = <<a.id, "thresh">> /\ v \in a.threshold
<1> DEFINE x == series(f, n, l, v)
<1>0. \A g, k, w : x = series(g, n, k, w) <=> f = g /\ l = k /\ v = w
  BY SeriesSame
<1> HIDE DEF x
<1>1. x \in collectInfo(d, n) => f = "device"
  BY <1>0 DEF collectInfo
<1>2. x \in collectTemperature(d, n) <=> f = "temperature" /\ l = <<"current">> /\ v \in d.temperature
  BY <1>0 DEF collectTemperature
<1>3. x \in collectBlockSize(d, n) <=>
         /\ f = "block_size"
         /\ \E i \in {i \in d.info : i.logical # 0} :
                (l = <<"logical">> /\ v = i.logical) \/ (l = <<"physical">> /\ v = i.physical)
  <2>1. \A w : /\ x = series("block_size", n, <<"logical">>, w) <=>
                      f = "block_size" /\ l = <<"logical">> /\ v = w
               /\ x = series("block_size", n, <<"physical">>, w) <=>
                      f = "block_size" /\ l = <<"physical">> /\ v = w
    BY <1>0
  <2>2. x \in collectBlockSize(d, n) <=> \E i \in {i \in d.info : i.logical # 0} :
               \/ x = series("block_size", n, <<"logical">>, i.logical)
               \/ x = series("block_size", n, <<"physical">>, i.physical)
    BY DEF collectBlockSize
  <2>3. ASSUME NEW i
        PROVE  \/ x = series("block_size", n, <<"logical">>, i.logical)
               \/ x = series("block_size", n, <<"physical">>, i.physical)
               <=> /\ f = "block_size"
                   /\ (l = <<"logical">> /\ v = i.logical) \/ (l = <<"physical">> /\ v = i.physical)
    BY <2>1
  <2> QED
    BY <2>2, <2>3, Zenon
<1>4. x \in collectInterfaceSpeed(d, n) <=>
         /\ f = "interface_speed"
         /\ \/ l = <<"current">> /\ v \in infoField(d, "speed")
            \/ l = <<"max">> /\ v \in infoField(d, "speedMax")
  <2>1. \A w : /\ x = series("interface_speed", n, <<"current">>, w) <=>
                      f = "interface_speed" /\ l = <<"current">> /\ v = w
               /\ x = series("interface_speed", n, <<"max">>, w) <=>
                      f = "interface_speed" /\ l = <<"max">> /\ v = w
    BY <1>0
  <2>2. x \in collectInterfaceSpeed(d, n) <=>
           \/ \E w \in infoField(d, "speed") : x = series("interface_speed", n, <<"current">>, w)
           \/ \E w \in infoField(d, "speedMax") : x = series("interface_speed", n, <<"max">>, w)
    BY DEF collectInterfaceSpeed
  <2> QED
    BY <2>1, <2>2, Zenon
<1>5. x \in collectErrorLogCount(d, n) <=>
         f = "error_log_count" /\ l = <<"summary">> /\ v \in d.errorLog
  BY <1>0 DEF collectErrorLogCount
<1>6. x \in collectAttributes(d, n) <=>
         /\ f = "attribute"
         /\ \E a \in d.attrs :
                \/ l = <<a.id, "raw">> /\ v = a.raw
                \/ l = <<a.id, "value">> /\ v = a.current
                \/ l = <<a.id, "worst">> /\ v = a.worst
                \/ l = <<a.id, "thresh">> /\ v \in a.threshold
  <2>1. ASSUME NEW a, NEW kind, NEW w
        PROVE  x = attribute(n, a, kind, w) <=> f = "attribute" /\ l = <<a.id, kind>> /\ v = w
    BY <1>0 DEF attribute
  <2>2. x \in collectAttributes(d, n) <=> \E a \in d.attrs :
                \/ x = attribute(n, a, "raw", a.raw)
                \/ x = attribute(n, a, "value", a.current)
                \/ x = attribute(n, a, "worst", a.worst)
                \/ \E t \in a.threshold : x = attribute(n, a, "thresh", t)
    BY DEF collectAttributes
  <2> QED
    BY <2>1, <2>2
<1> QED
  BY <1>1, <1>2, <1>3, <1>4, <1>5, <1>6 DEF x

(* Every series of a disk carries its name.                                *)
LEMMA OwnSeries ==
    ASSUME NEW d, NEW n, NEW x \in seriesOf(d, n)
    PROVE  x = series(x.family, n, x.labels, x.value)
<1>1. \A f, l, v : series(f, n, l, v).family = f /\ series(f, n, l, v).labels = l
                    /\ series(f, n, l, v).value = v
  BY DEF series
<1>2. \E f, l, v : x = series(f, n, l, v)
  <2>1. CASE x \in collectScalars(d, n)
    BY <2>1, ScalarShape
  <2>2. CASE x \in collectAttributes(d, n)
    <3>1. \A a, k, w : \E l : attribute(n, a, k, w) = series("attribute", n, l, w)
      BY Zenon DEF attribute
    <3>2. \E a, k, w : x = attribute(n, a, k, w)
      BY <2>2 DEF collectAttributes
    <3> QED
      BY <3>1, <3>2
  <2>3. CASE x \in collectInfo(d, n) \cup collectTemperature(d, n) \cup collectBlockSize(d, n)
    BY <2>3 DEF collectInfo, collectTemperature, collectBlockSize
  <2>4. CASE x \in collectInterfaceSpeed(d, n) \cup collectErrorLogCount(d, n)
    BY <2>4 DEF collectInterfaceSpeed, collectErrorLogCount
  <2> QED
    BY <2>1, <2>2, <2>3, <2>4 DEF seriesOf
<1> QED
  BY <1>1, <1>2

LEMMA ScalarDomains ==
    /\ DOMAIN nvmeScalars = {"percentage_used", "available_spare", "available_spare_threshold",
                             "media_errors", "critical_warning", "num_err_log_entries",
                             "bytes_read", "bytes_written"}
    /\ nvmeScalars["percentage_used"] = "percentageUsed"
    /\ nvmeScalars["available_spare"] = "availableSpare"
    /\ nvmeScalars["available_spare_threshold"] = "spareThreshold"
    /\ nvmeScalars["media_errors"] = "mediaErrors"
    /\ nvmeScalars["critical_warning"] = "criticalWarning"
    /\ nvmeScalars["num_err_log_entries"] = "numErrLogEntries"
    /\ nvmeScalars["bytes_read"] = "bytesRead" /\ nvmeScalars["bytes_written"] = "bytesWritten"
  BY DEF nvmeScalars

LEMMA ScalarEntries ==
    ASSUME NEW d, NEW f, NEW S
    PROVE  <<f, S>> \in scalarDefs(d) <=>
              \/ f = "power_on_seconds" /\ S = {h * 3600 : h \in d.powerOnHours}
              \/ f = "power_cycle_count" /\ S = d.powerCycles
              \/ f = "smart_status" /\ S = {one(b) : b \in d.healthy}
              \/ f = "capacity_bytes" /\ S = infoField(d, "bytes")
              \/ f = "rotation_rate" /\ S = infoField(d, "rotation")
              \/ f = "capacity_blocks" /\ S = infoField(d, "blocks")
              \/ f = "nvme_capacity_bytes" /\ S = infoField(d, "nvmeBytes")
              \/ f \in DOMAIN nvmeScalars /\ S = nvmeField(d, nvmeScalars[f])
<1>1. f \in DOMAIN nvmeScalars /\ S = nvmeField(d, nvmeScalars[f]) <=>
         \/ f = "percentage_used" /\ S = nvmeField(d, "percentageUsed")
         \/ f = "available_spare" /\ S = nvmeField(d, "availableSpare")
         \/ f = "available_spare_threshold" /\ S = nvmeField(d, "spareThreshold")
         \/ f = "media_errors" /\ S = nvmeField(d, "mediaErrors")
         \/ f = "critical_warning" /\ S = nvmeField(d, "criticalWarning")
         \/ f = "num_err_log_entries" /\ S = nvmeField(d, "numErrLogEntries")
         \/ f = "bytes_read" /\ S = nvmeField(d, "bytesRead")
         \/ f = "bytes_written" /\ S = nvmeField(d, "bytesWritten")
  BY DEF nvmeScalars
<1> QED
  BY <1>1, SMT DEF scalarDefs

LEMMA ScalarPairs ==
    ASSUME NEW d, NEW q \in scalarDefs(d)
    PROVE  q = <<q[1], q[2]>> /\ q[1] \in sharedScalars \cup {"capacity_blocks", "nvme_capacity_bytes"}
  BY ScalarDomains DEF scalarDefs, sharedScalars, diskScalars

(* The scalars hold the readings, and nothing else has their names.        *)
LEMMA ScalarReadings ==
    ASSUME NEW d, NEW n, NEW f \in sharedScalars, NEW v
    PROVE  series(f, n, <<>>, v) \in seriesOf(d, n) <=> v \in scalarReading(d, f)
<1>1. \A S : <<f, S>> \in scalarDefs(d) <=> S = scalarReading(d, f)
  <2>1. CASE f \in DOMAIN nvmeScalars
    <3>1. f \notin diskScalars \cup {"capacity_blocks", "nvme_capacity_bytes"}
      BY <2>1, ScalarDomains DEF diskScalars
    <3> QED
      BY <2>1, <3>1, ScalarEntries DEF scalarReading, diskScalars
  <2>2. CASE f \notin DOMAIN nvmeScalars
    <3> DEFINE A == {h * 3600 : h \in d.powerOnHours}
               B == {one(b) : b \in d.healthy}
    <3>1. f \in diskScalars /\ f \notin {"capacity_blocks", "nvme_capacity_bytes"}
      BY <2>2 DEF sharedScalars, diskScalars
    <3>2. /\ f = "power_on_seconds" => scalarReading(d, f) = A
          /\ f = "power_cycle_count" => scalarReading(d, f) = d.powerCycles
          /\ f = "smart_status" => scalarReading(d, f) = B
          /\ f = "capacity_bytes" => scalarReading(d, f) = infoField(d, "bytes")
          /\ f = "rotation_rate" => scalarReading(d, f) = infoField(d, "rotation")
      BY <2>2 DEF scalarReading, diskScalar
    <3>3. \A S : <<f, S>> \in scalarDefs(d) <=>
              \/ f = "power_on_seconds" /\ S = A
              \/ f = "power_cycle_count" /\ S = d.powerCycles
              \/ f = "smart_status" /\ S = B
              \/ f = "capacity_bytes" /\ S = infoField(d, "bytes")
              \/ f = "rotation_rate" /\ S = infoField(d, "rotation")
      BY <2>2, <3>1, ScalarEntries
    <3> HIDE DEF A, B
    <3> QED
      BY <3>1, <3>2, <3>3 DEF diskScalars
  <2> QED
    BY <2>1, <2>2
<1>2. (\E q \in scalarDefs(d) : q[1] = f /\ v \in q[2]) <=> v \in scalarReading(d, f)
  <2>1. ASSUME NEW q \in scalarDefs(d), q[1] = f, v \in q[2]
        PROVE  v \in scalarReading(d, f)
    <3>1. <<f, q[2]>> \in scalarDefs(d)
      BY <2>1, ScalarPairs
    <3> QED
      BY <1>1, <2>1, <3>1
  <2>2. ASSUME v \in scalarReading(d, f)
        PROVE  \E q \in scalarDefs(d) : q[1] = f /\ v \in q[2]
    <3>1. <<f, scalarReading(d, f)>> \in scalarDefs(d)
      BY <1>1
    <3>2. <<f, scalarReading(d, f)>>[1] = f /\ <<f, scalarReading(d, f)>>[2] = scalarReading(d, f)
      OBVIOUS
    <3> QED
      BY <2>2, <3>1, <3>2
  <2> QED
    BY <2>1, <2>2
<1>3. f \notin {"device", "temperature", "block_size", "interface_speed", "error_log_count", "attribute"}
  BY ScalarDomains DEF sharedScalars, diskScalars
<1> DEFINE x == series(f, n, <<>>, v)
<1>4. /\ x \notin collectInfo(d, n) /\ x \notin collectTemperature(d, n)
      /\ x \notin collectBlockSize(d, n) /\ x \notin collectInterfaceSpeed(d, n)
      /\ x \notin collectErrorLogCount(d, n) /\ x \notin collectAttributes(d, n)
  BY <1>3, PartSeries
<1>5. x \in collectScalars(d, n) <=> v \in scalarReading(d, f)
  BY <1>2, ScalarSeries
<1> QED
  BY <1>4, <1>5 DEF seriesOf

LEMMA PartReadings ==
    ASSUME NEW d, NEW n, NEW f, NEW l, <<f, l>> \in sharedParts, NEW v
    PROVE  series(f, n, l, v) \in seriesOf(d, n) <=> v \in partReading(d, f)
<1> DEFINE x == series(f, n, l, v)
<1>1. /\ f \in {"temperature", "block_size", "interface_speed", "error_log_count"}
      /\ l # <<>> /\ l # <<"physical">> /\ l # <<"max">>
      /\ f = "temperature" => l = <<"current">>
      /\ f = "block_size" => l = <<"logical">>
      /\ f = "interface_speed" => l = <<"current">>
      /\ f = "error_log_count" => l = <<"summary">>
  BY DEF sharedParts
<1>2. x \notin collectScalars(d, n)
  BY <1>1, ScalarSeries
<1>3. x \notin collectInfo(d, n) /\ x \notin collectAttributes(d, n)
  BY <1>1, PartSeries
<1>4. x \in collectTemperature(d, n) <=> f = "temperature" /\ v \in d.temperature
  <2>1. x \in collectTemperature(d, n) <=> f = "temperature" /\ l = <<"current">> /\ v \in d.temperature
    BY PartSeries
  <2> QED
    BY <1>1, <2>1
<1>5. x \in collectBlockSize(d, n) <=> f = "block_size" /\ v \in infoField(d, "logical")
  <2>1. x \in collectBlockSize(d, n) <=> f = "block_size" /\ \E i \in {i \in d.info : i.logical # 0} :
            (l = <<"logical">> /\ v = i.logical) \/ (l = <<"physical">> /\ v = i.physical)
    BY PartSeries
  <2>2. v \in infoField(d, "logical") <=> \E i \in d.info : i.logical # 0 /\ v = i.logical
    BY DEF infoField
  <2> HIDE DEF x
  <2> QED
    BY <1>1, <2>1, <2>2
<1>6. x \in collectInterfaceSpeed(d, n) <=> f = "interface_speed" /\ v \in infoField(d, "speed")
  <2>1. x \in collectInterfaceSpeed(d, n) <=>
                 /\ f = "interface_speed"
                 /\ \/ l = <<"current">> /\ v \in infoField(d, "speed")
                    \/ l = <<"max">> /\ v \in infoField(d, "speedMax")
    BY PartSeries
  <2> QED
    BY <1>1, <2>1
<1>7. x \in collectErrorLogCount(d, n) <=> f = "error_log_count" /\ v \in d.errorLog
  <2>1. x \in collectErrorLogCount(d, n) <=>
                 f = "error_log_count" /\ l = <<"summary">> /\ v \in d.errorLog
    BY PartSeries
  <2> QED
    BY <1>1, <2>1
<1>8. /\ f = "temperature" => partReading(d, f) = d.temperature
      /\ f = "block_size" => partReading(d, f) = infoField(d, "logical")
      /\ f = "interface_speed" => partReading(d, f) = infoField(d, "speed")
      /\ f = "error_log_count" => partReading(d, f) = d.errorLog
  BY DEF partReading
<1> HIDE DEF x
<1>9. x \in seriesOf(d, n) <=> \/ x \in collectTemperature(d, n) \/ x \in collectBlockSize(d, n)
                                \/ x \in collectInterfaceSpeed(d, n) \/ x \in collectErrorLogCount(d, n)
  BY <1>2, <1>3 DEF seriesOf
<1>10. x \in seriesOf(d, n) <=> v \in partReading(d, f)
  BY <1>1, <1>4, <1>5, <1>6, <1>7, <1>8, <1>9
<1> QED
  BY <1>10 DEF x

LEMMA RawReadings ==
    ASSUME NEW d, NEW n, NEW i, NEW v
    PROVE  series("attribute", n, <<i, "raw">>, v) \in seriesOf(d, n) <=> v \in idReading(d, i)
<1> DEFINE l == <<i, "raw">>
           x == series("attribute", n, l, v)
<1>1. l # <<>>
  OBVIOUS
<1>2. \A j, k : l = <<j, k>> <=> i = j /\ k = "raw"
  OBVIOUS
<1> HIDE DEF l
<1>3. x \notin collectScalars(d, n)
  BY <1>1, ScalarSeries
<1>4. /\ x \notin collectInfo(d, n) /\ x \notin collectTemperature(d, n)
      /\ x \notin collectBlockSize(d, n) /\ x \notin collectInterfaceSpeed(d, n)
      /\ x \notin collectErrorLogCount(d, n)
  BY PartSeries
<1>5. x \in collectAttributes(d, n) <=> \E a \in d.attrs :
                        \/ l = <<a.id, "raw">> /\ v = a.raw
                        \/ l = <<a.id, "value">> /\ v = a.current
                        \/ l = <<a.id, "worst">> /\ v = a.worst
                        \/ l = <<a.id, "thresh">> /\ v \in a.threshold
  BY PartSeries
<1> HIDE DEF x
<1>6. x \in collectAttributes(d, n) <=> \E a \in d.attrs : a.id = i /\ v = a.raw
  BY <1>2, <1>5
<1>7. x \in seriesOf(d, n) <=> v \in idReading(d, i)
  BY <1>3, <1>4, <1>6 DEF seriesOf, idReading
<1> QED
  BY <1>7 DEF x, l

-----------------------------------------------------------------------------
(* Metric by metric, the two surfaces read the same thing.                 *)
compatReading(d, p) ==
    IF p[2] = "attribute" THEN idReading(d, p[3][1])
    ELSE IF p[3] = <<>> THEN scalarReading(d, p[2])
    ELSE partReading(d, p[2])

(* The metrics other than the raw attributes, and their series.            *)
scalarMetrics == {<<"smart_power_on_hours", "power_on_seconds">>, <<"smart_power_cycles", "power_cycle_count">>,
                  <<"smart_health_passed", "smart_status">>, <<"smart_capacity_bytes", "capacity_bytes">>,
                  <<"smart_rotation_rate_rpm", "rotation_rate">>}
nvmeScalarMetrics ==
    {<<"nvme_percentage_used", "percentage_used">>, <<"nvme_available_spare", "available_spare">>,
     <<"nvme_available_spare_threshold", "available_spare_threshold">>,
     <<"nvme_media_errors", "media_errors">>, <<"nvme_critical_warning", "critical_warning">>,
     <<"nvme_error_log_entries", "num_err_log_entries">>,
     <<"nvme_bytes_read_total", "bytes_read">>, <<"nvme_bytes_written_total", "bytes_written">>}
partMetrics == {<<"smart_temperature_celsius", "temperature", <<"current">>>>,
                <<"smart_logical_block_size_bytes", "block_size", <<"logical">>>>,
                <<"smart_interface_speed_bits_per_second", "interface_speed", <<"current">>>>,
                <<"smart_error_log_count", "error_log_count", <<"summary">>>>}

LEMMA ReadingKinds ==
    ASSUME NEW p \in sameReading
    PROVE  \/ <<p[1], p[2]>> \in scalarMetrics /\ p[3] = <<>>
           \/ <<p[1], p[2]>> \in nvmeScalarMetrics /\ p[3] = <<>>
           \/ <<p[1], p[2], p[3]>> \in partMetrics
           \/ \E a \in sataAttrMetrics : p[1] = a[2] /\ p[2] = "attribute" /\ p[3] = <<a[1], "raw">>
<1>1. CASE \E a \in sataAttrMetrics : p = <<a[2], "attribute", <<a[1], "raw">>>>
  BY <1>1
<1>2. CASE ~\E a \in sataAttrMetrics : p = <<a[2], "attribute", <<a[1], "raw">>>>
  BY <1>2 DEF sameReading, scalarMetrics, nvmeScalarMetrics, partMetrics
<1> QED
  BY <1>1, <1>2

LEMMA MetricsAreRead ==
    ASSUME NEW p \in sameReading
    PROVE  p[1] \in readMetrics /\ p[2] \notin {"devices", "device"}
<1>1. CASE <<p[1], p[2]>> \in scalarMetrics
  BY <1>1, MetricDomains DEF scalarMetrics, readMetrics, diskMetrics
<1>2. CASE <<p[1], p[2]>> \in nvmeScalarMetrics
  BY <1>2, MetricDomains DEF nvmeScalarMetrics, readMetrics
<1>3. CASE <<p[1], p[2], p[3]>> \in partMetrics
  BY <1>3, MetricDomains DEF partMetrics, readMetrics, diskMetrics
<1>4. CASE \E a \in sataAttrMetrics : p[1] = a[2] /\ p[2] = "attribute" /\ p[3] = <<a[1], "raw">>
  BY <1>4 DEF attrMetrics, readMetrics
<1> QED
  BY <1>1, <1>2, <1>3, <1>4, ReadingKinds

LEMMA FamilyOf ==
    ASSUME NEW d, NEW p \in sameReading
    PROVE  {<<x.device, x.value>> : x \in {x \in smartctlSeries(d) : x.family = p[2] /\ x.labels = p[3]}}
               = {<<smartctlName(d.name), v>> : v \in compatReading(d, p)}
<1> DEFINE n == smartctlName(d.name)
<1>1. ASSUME NEW v
      PROVE  series(p[2], n, p[3], v) \in seriesOf(d, n) <=> v \in compatReading(d, p)
  <2>1. CASE <<p[1], p[2]>> \in scalarMetrics /\ p[3] = <<>>
    <3>1. p[2] \in sharedScalars /\ p[2] # "attribute"
      BY <2>1 DEF scalarMetrics, sharedScalars, diskScalars
    <3>2. compatReading(d, p) = scalarReading(d, p[2])
      BY <2>1, <3>1 DEF compatReading
    <3> QED
      BY <2>1, <3>1, <3>2, ScalarReadings
  <2>2. CASE <<p[1], p[2]>> \in nvmeScalarMetrics /\ p[3] = <<>>
    <3>1. p[2] \in sharedScalars /\ p[2] # "attribute"
      BY <2>2, ScalarDomains DEF nvmeScalarMetrics, sharedScalars
    <3>2. compatReading(d, p) = scalarReading(d, p[2])
      BY <2>2, <3>1 DEF compatReading
    <3> QED
      BY <2>2, <3>1, <3>2, ScalarReadings
  <2>3. CASE <<p[1], p[2], p[3]>> \in partMetrics
    <3>1. <<p[2], p[3]>> \in sharedParts /\ p[2] # "attribute" /\ p[3] # <<>>
      <4>1. \/ p[2] = "temperature" /\ p[3] = <<"current">>
            \/ p[2] = "block_size" /\ p[3] = <<"logical">>
            \/ p[2] = "interface_speed" /\ p[3] = <<"current">>
            \/ p[2] = "error_log_count" /\ p[3] = <<"summary">>
        BY <2>3 DEF partMetrics
      <4>2. <<p[2], p[3]>> \in sharedParts
        BY <4>1 DEF sharedParts
      <4> QED
        BY <4>1, <4>2
    <3>2. compatReading(d, p) = partReading(d, p[2])
      BY <3>1 DEF compatReading
    <3> QED
      BY <3>1, <3>2, PartReadings
  <2>4. CASE \E a \in sataAttrMetrics : p[1] = a[2] /\ p[2] = "attribute" /\ p[3] = <<a[1], "raw">>
    <3>1. PICK i : p[2] = "attribute" /\ p[3] = <<i, "raw">>
      BY <2>4
    <3>2. compatReading(d, p) = idReading(d, i)
      BY <3>1 DEF compatReading
    <3> QED
      BY <3>1, <3>2, RawReadings
  <2> QED
    BY <2>1, <2>2, <2>3, <2>4, ReadingKinds
<1>2. smartctlSeries(d) = seriesOf(d, n)
  BY DEF smartctlSeries
<1> HIDE DEF n
<1>3. ASSUME NEW x \in seriesOf(d, n), x.family = p[2], x.labels = p[3]
      PROVE  x.device = n /\ x.value \in compatReading(d, p)
  <2>1. x = series(p[2], n, p[3], x.value)
    BY <1>3, OwnSeries
  <2>2. x.device = n
    BY <2>1, SeriesFields
  <2> QED
    BY <1>1, <2>1, <2>2
<1>4. ASSUME NEW v \in compatReading(d, p)
      PROVE  \E x \in seriesOf(d, n) : x.family = p[2] /\ x.labels = p[3] /\ x.device = n /\ x.value = v
  <2>1. series(p[2], n, p[3], v) \in seriesOf(d, n)
    BY <1>1
  <2> QED
    BY <2>1, SeriesFields
<1> QED
  BY <1>2, <1>3, <1>4 DEF n

LEMMA AttrIds ==
    \A a, b \in sataAttrMetrics : a[1] = b[1] <=> a[2] = b[2]
  BY DEF sataAttrMetrics

(* The five raw attributes are those of the table.                         *)
LEMMA RawReadingsAgree ==
    ASSUME NEW ok, NEW n \in supported, NEW a \in sataAttrMetrics
    PROVE  rawReading(probed(n, ok), a[2]) = idReading(probed(n, ok), a[1])
<1> DEFINE d == probed(n, ok)
           page == Disks[n].page
           T == IF Append(n, "thresholds") \in ok THEN Disks[n].thresholds ELSE <<>>
<1>1. CASE Disks[n].kind = "sata"
  <2>1. /\ d.ataAttrs = {<<b[2], page[b[1]].raw>> : b \in {b \in sataAttrMetrics : b[1] \in DOMAIN page}}
        /\ d.attrs = ataFullAttrs(page, T)
    BY <1>1 DEF probed, probeSata
  <2> HIDE DEF d, page, T
  <2>2. \A v : v \in rawReading(d, a[2]) <=> a[1] \in DOMAIN page /\ v = page[a[1]].raw
    <3>1. ASSUME NEW v
          PROVE  v \in rawReading(d, a[2]) <=>
                    \E b \in sataAttrMetrics : b[1] \in DOMAIN page /\ b[2] = a[2] /\ v = page[b[1]].raw
      <4>1. v \in rawReading(d, a[2]) <=> \E e \in d.ataAttrs : e[1] = a[2] /\ v = e[2]
        BY DEF rawReading
      <4>2. \A e : e \in d.ataAttrs <=>
                   \E b \in sataAttrMetrics : b[1] \in DOMAIN page /\ e = <<b[2], page[b[1]].raw>>
        BY <2>1
      <4>3. ASSUME NEW b \in sataAttrMetrics, b[1] \in DOMAIN page
            PROVE  <<b[2], page[b[1]].raw>> \in d.ataAttrs
        BY <4>2, <4>3
      <4>4. \A x, y : <<x, y>>[1] = x /\ <<x, y>>[2] = y
        OBVIOUS
      <4>5. (\E e \in d.ataAttrs : e[1] = a[2] /\ v = e[2]) =>
               \E b \in sataAttrMetrics : b[1] \in DOMAIN page /\ b[2] = a[2] /\ v = page[b[1]].raw
        BY <4>2, <4>4
      <4>6. ASSUME NEW b \in sataAttrMetrics, b[1] \in DOMAIN page, b[2] = a[2], v = page[b[1]].raw
            PROVE  \E e \in d.ataAttrs : e[1] = a[2] /\ v = e[2]
        BY <4>3, <4>4, <4>6
      <4> QED
        BY <4>1, <4>5, <4>6
    <3> QED
      BY <3>1, AttrIds
  <2>3. \A v : v \in idReading(d, a[1]) <=> a[1] \in DOMAIN page /\ v = page[a[1]].raw
    <3>1. ASSUME NEW v
          PROVE  v \in idReading(d, a[1]) <=> \E e \in ataFullAttrs(page, T) : e.id = a[1] /\ v = e.raw
      BY <2>1 DEF idReading
    <3>2. ASSUME NEW v
          PROVE  (\E e \in ataFullAttrs(page, T) : e.id = a[1] /\ v = e.raw)
                    <=> \E i \in DOMAIN page : i = a[1] /\ v = page[i].raw
      <4> DEFINE entry(i) == [id |-> i, flags |-> page[i].flags, raw |-> page[i].raw,
                              current |-> page[i].current, worst |-> page[i].worst,
                              threshold |-> {T[k] : k \in {i} \cap DOMAIN T}]
      <4>1. ataFullAttrs(page, T) = {entry(i) : i \in DOMAIN page}
        BY DEF ataFullAttrs
      <4>2. \A i : entry(i).id = i /\ entry(i).raw = page[i].raw
        OBVIOUS
      <4> HIDE DEF entry
      <4> QED
        BY <4>1, <4>2
    <3> QED
      BY <3>1, <3>2
  <2>4. rawReading(d, a[2]) = idReading(d, a[1])
    BY <2>2, <2>3
  <2> QED
    BY <2>4 DEF d
<1>2. CASE Disks[n].kind # "sata"
  <2>1. d.ataAttrs = {} /\ d.attrs = {}
    BY <1>2 DEF probed, probeNvme
  <2> QED
    BY <2>1 DEF rawReading, idReading
<1> QED
  BY <1>1, <1>2

LEMMA SameReadings ==
    ASSUME NEW ok, NEW n \in supported, NEW p \in sameReading
    PROVE  LET d == probed(n, ok) IN
           compatReading(stripped(d), p) = {inSmartctlUnits(p[1], v) : v \in reading(d, p[1])}
<1> DEFINE d == probed(n, ok)
           c == stripped(d)
<1>1. /\ c.temperature = d.temperature /\ c.powerOnHours = d.powerOnHours
      /\ c.powerCycles = d.powerCycles /\ c.healthy = d.healthy /\ c.info = d.info
      /\ c.nvme = d.nvme /\ c.errorLog = d.errorLog /\ c.attrs = d.attrs
  BY StrippedKeeps
<1>2. \A a \in sataAttrMetrics : rawReading(d, a[2]) = idReading(d, a[1])
  BY RawReadingsAgree
<1> HIDE DEF d, c
<1>3. \A f : infoField(c, f) = infoField(d, f) /\ nvmeField(c, f) = nvmeField(d, f)
  BY <1>1 DEF infoField, nvmeField
<1> DEFINE hours == {h * 3600 : h \in d.powerOnHours}
           verdict == {one(b) : b \in d.healthy}
<1>4. compatReading(c, p) = IF p[1] = "smart_power_on_hours" THEN hours ELSE reading(d, p[1])
  <2>1. CASE <<p[1], p[2]>> \in scalarMetrics /\ p[3] = <<>>
    <3>1. /\ p[2] = "power_on_seconds" <=> p[1] = "smart_power_on_hours"
          /\ p[2] = "power_cycle_count" => p[1] = "smart_power_cycles"
          /\ p[2] = "smart_status" => p[1] = "smart_health_passed"
          /\ p[2] = "capacity_bytes" => p[1] = "smart_capacity_bytes"
          /\ p[2] = "rotation_rate" => p[1] = "smart_rotation_rate_rpm"
          /\ p[2] \in diskScalars
      BY <2>1 DEF scalarMetrics, diskScalars
    <3>2. compatReading(c, p) = diskScalar(c, p[2])
      BY <2>1, <3>1, ScalarDomains DEF compatReading, scalarReading, diskScalars
    <3>3. /\ p[2] = "power_on_seconds" => diskScalar(c, p[2]) = hours
          /\ p[2] = "power_cycle_count" => diskScalar(c, p[2]) = d.powerCycles
          /\ p[2] = "smart_status" => diskScalar(c, p[2]) = verdict
          /\ p[2] = "capacity_bytes" => diskScalar(c, p[2]) = infoField(d, "bytes")
          /\ p[2] = "rotation_rate" => diskScalar(c, p[2]) = infoField(d, "rotation")
      BY <1>1, <1>3 DEF diskScalar
    <3>4. /\ reading(d, "smart_power_cycles") = d.powerCycles
          /\ reading(d, "smart_health_passed") = verdict
          /\ reading(d, "smart_capacity_bytes") = infoField(d, "bytes")
          /\ reading(d, "smart_rotation_rate_rpm") = infoField(d, "rotation")
      BY ReadingsAre, MetricDomains DEF infoMetrics
    <3> HIDE DEF hours, verdict
    <3> QED
      BY <3>1, <3>2, <3>3, <3>4 DEF diskScalars
  <2>2. CASE <<p[1], p[2]>> \in nvmeScalarMetrics /\ p[3] = <<>>
    <3>1. /\ p[1] \in DOMAIN nvmeMetrics /\ p[1] # "smart_power_on_hours"
          /\ p[2] \in DOMAIN nvmeScalars /\ nvmeScalars[p[2]] = nvmeMetrics[p[1]]
      BY <2>2 DEF nvmeScalarMetrics, nvmeScalars, nvmeMetrics
    <3>2. compatReading(c, p) = nvmeField(c, nvmeScalars[p[2]])
      BY <2>2, <3>1, ScalarDomains DEF compatReading, scalarReading
    <3> QED
      BY <1>3, <3>1, <3>2, ReadingsAre
  <2>3. CASE <<p[1], p[2], p[3]>> \in partMetrics
    <3>1. /\ p[1] # "smart_power_on_hours" /\ p[3] # <<>>
          /\ p[2] = "temperature" => p[1] = "smart_temperature_celsius"
          /\ p[2] = "block_size" => p[1] = "smart_logical_block_size_bytes"
          /\ p[2] = "interface_speed" => p[1] = "smart_interface_speed_bits_per_second"
          /\ p[2] = "error_log_count" => p[1] = "smart_error_log_count"
          /\ p[2] \in {"temperature", "block_size", "interface_speed", "error_log_count"}
      BY <2>3 DEF partMetrics
    <3>2. compatReading(c, p) = partReading(c, p[2])
      BY <3>1 DEF compatReading
    <3>3. /\ p[2] = "temperature" => partReading(c, p[2]) = d.temperature
          /\ p[2] = "block_size" => partReading(c, p[2]) = infoField(d, "logical")
          /\ p[2] = "interface_speed" => partReading(c, p[2]) = infoField(d, "speed")
          /\ p[2] = "error_log_count" => partReading(c, p[2]) = d.errorLog
      BY <1>1, <1>3 DEF partReading
    <3>4. /\ reading(d, "smart_temperature_celsius") = d.temperature
          /\ reading(d, "smart_logical_block_size_bytes") = infoField(d, "logical")
          /\ reading(d, "smart_interface_speed_bits_per_second") = infoField(d, "speed")
          /\ reading(d, "smart_error_log_count") = d.errorLog
      BY ReadingsAre, MetricDomains DEF infoMetrics
    <3> QED
      BY <3>1, <3>2, <3>3, <3>4
  <2>4. CASE \E a \in sataAttrMetrics : p[1] = a[2] /\ p[2] = "attribute" /\ p[3] = <<a[1], "raw">>
    <3>1. PICK a \in sataAttrMetrics : p[1] = a[2] /\ p[2] = "attribute" /\ p[3] = <<a[1], "raw">>
      BY <2>4
    <3>2. compatReading(c, p) = idReading(c, a[1])
      BY <3>1 DEF compatReading
    <3>3. p[1] \in attrMetrics /\ p[1] # "smart_power_on_hours"
      BY <3>1, MetricDomains DEF attrMetrics
    <3>4. reading(d, p[1]) = rawReading(d, p[1])
      BY <3>3, ReadingsAre
    <3>5. idReading(c, a[1]) = idReading(d, a[1])
      BY <1>1 DEF idReading
    <3> QED
      BY <1>2, <3>1, <3>2, <3>3, <3>4, <3>5
  <2> QED
    BY <2>1, <2>2, <2>3, <2>4, ReadingKinds
<1>5. compatReading(c, p) = {inSmartctlUnits(p[1], v) : v \in reading(d, p[1])}
  <2>1. CASE p[1] = "smart_power_on_hours"
    <3>1. \A v : inSmartctlUnits(p[1], v) = v * 3600
      BY <2>1 DEF inSmartctlUnits
    <3>2. reading(d, p[1]) = d.powerOnHours
      BY <2>1, ReadingsAre
    <3> QED
      BY <1>4, <2>1, <3>1, <3>2
  <2>2. CASE p[1] # "smart_power_on_hours"
    <3>1. \A v : inSmartctlUnits(p[1], v) = v
      BY <2>2 DEF inSmartctlUnits
    <3> QED
      BY <1>4, <2>2, <3>1
  <2> QED
    BY <2>1, <2>2
<1> QED
  BY <1>5 DEF d, c

LEMMA ReadingsAgree ==
    ASSUME NEW ok, metrics = smartCollect(ok).out, compat = toSmartctlDevices(probe(ok)),
           NEW p \in sameReading
    PROVE  {<<smartctlName(s.device), inSmartctlUnits(p[1], s.value)>> : s \in shown(p[1])}
               = {<<x.device, x.value>> : x \in {x \in smartctlCollect(compat) :
                                                   x.family = p[2] /\ x.labels = p[3]}}
<1> DEFINE common == UNION {{<<smartctlName(n), inSmartctlUnits(p[1], v)>> :
                                v \in reading(probed(n, ok), p[1])} : n \in found(ok)}
           here(c) == {<<x.device, x.value>> : x \in {x \in smartctlSeries(c) :
                                                        x.family = p[2] /\ x.labels = p[3]}}
<1>1. found(ok) \subseteq supported
  BY DEF found
<1>2. p[1] \in readMetrics /\ p[2] # "devices"
  BY MetricsAreRead
<1>3. {<<smartctlName(s.device), inSmartctlUnits(p[1], s.value)>> : s \in shown(p[1])} = common
  <2>1. ASSUME NEW s \in shown(p[1])
        PROVE  <<smartctlName(s.device), inSmartctlUnits(p[1], s.value)>> \in common
    <3>1. PICK n \in found(ok) : \E v \in reading(probed(n, ok), p[1]) : s = diskSample(n, p[1], v)
      BY <1>2, ShownOf
    <3>2. PICK v \in reading(probed(n, ok), p[1]) : s = diskSample(n, p[1], v)
      BY <3>1
    <3>3. s.device = n /\ s.value = v
      BY <3>2 DEF diskSample
    <3> QED
      BY <3>2, <3>3
  <2>2. ASSUME NEW n \in found(ok), NEW v \in reading(probed(n, ok), p[1])
        PROVE  \E s \in shown(p[1]) : s.device = n /\ s.value = v
    <3>1. diskSample(n, p[1], v) \in shown(p[1])
      BY <1>2, ShownOf
    <3>2. diskSample(n, p[1], v).device = n /\ diskSample(n, p[1], v).value = v
      BY DEF diskSample
    <3> QED
      BY <3>1, <3>2
  <2> QED
    BY <2>1, <2>2
<1>4. compat = {stripped(probed(n, ok)) : n \in found(ok)}
  BY ProbeFinds DEF toSmartctlDevices, stripped
<1>5. ASSUME NEW n \in found(ok)
      PROVE  here(stripped(probed(n, ok)))
                 = {<<smartctlName(n), inSmartctlUnits(p[1], v)>> : v \in reading(probed(n, ok), p[1])}
  <2> DEFINE c == stripped(probed(n, ok))
  <2>1. c.name = n
    BY <1>1, StrippedKeeps
  <2>2. compatReading(c, p) = {inSmartctlUnits(p[1], v) : v \in reading(probed(n, ok), p[1])}
    BY <1>1, SameReadings
  <2> HIDE DEF c
  <2>3. here(c) = {<<smartctlName(c.name), v>> : v \in compatReading(c, p)}
    BY FamilyOf
  <2> QED
    BY <2>1, <2>2, <2>3 DEF c
<1>6. {<<x.device, x.value>> : x \in {x \in smartctlCollect(compat) : x.family = p[2] /\ x.labels = p[3]}}
          = UNION {here(c) : c \in compat}
  <2>1. \A x : x.family = p[2] => (x \in smartctlCollect(compat) <=> \E c \in compat : x \in smartctlSeries(c))
    BY <1>2, SeriesFields DEF smartctlCollect
  <2> QED
    BY <2>1
<1> HIDE DEF here
<1>7. UNION {here(c) : c \in compat} = common
  BY <1>4, <1>5
<1> QED
  BY <1>3, <1>6, <1>7

(* Every series is compared or known to be the compat surface's own.       *)
LEMMA SeriesAreCompared ==
    ASSUME NEW x \in smartctlCollect(compat)
    PROVE  onlyInSmartctl(x) \/ \E p \in sameReading : p[2] = x.family /\ p[3] = x.labels
<1>1. ASSUME x.family \in counted \cup {"capacity_blocks", "nvme_capacity_bytes"}
      PROVE  onlyInSmartctl(x)
  BY <1>1 DEF onlyInSmartctl
<1>2. CASE x = series("devices", <<>>, <<>>, Cardinality(compat))
  <2>1. x.family = "devices"
    BY <1>2, SeriesFields
  <2> QED
    BY <1>1, <2>1 DEF counted
<1>3. CASE \E c \in compat : x \in smartctlSeries(c)
  <2>1. PICK c \in compat : x \in smartctlSeries(c)
    BY <1>3
  <2> DEFINE n == smartctlName(c.name)
             f == x.family
             l == x.labels
  <2>2. x \in seriesOf(c, n)
    BY <2>1 DEF smartctlSeries
  <2>3. x = series(f, n, l, x.value)
    BY <2>2, OwnSeries
  <2>4. CASE x \in collectScalars(c, n)
    <3>1. l = <<>> /\ \E q \in scalarDefs(c) : q[1] = f
      BY <2>3, <2>4, ScalarSeries
    <3>2. f \in sharedScalars \cup {"capacity_blocks", "nvme_capacity_bytes"}
      BY <3>1, ScalarPairs
    <3>3. ASSUME f \in sharedScalars PROVE \E m : <<m, f, <<>>>> \in sameReading
      BY <3>3, ScalarDomains DEF sharedScalars, diskScalars, sameReading
    <3>4. ASSUME f \in sharedScalars PROVE \E p \in sameReading : p[2] = f /\ p[3] = l
      <4>1. PICK m : <<m, f, <<>>>> \in sameReading
        BY <3>3, <3>4
      <4>2. <<m, f, <<>>>>[2] = f /\ <<m, f, <<>>>>[3] = l
        BY <3>1
      <4> QED
        BY <4>1, <4>2
    <3> QED
      BY <1>1, <3>2, <3>4
  <2>5. CASE x \in collectInfo(c, n)
    <3>1. f = "device"
      BY <2>3, <2>5, PartSeries
    <3> QED
      BY <1>1, <3>1 DEF counted
  <2>6. CASE x \in collectTemperature(c, n) \cup collectErrorLogCount(c, n)
    <3>1. <<f, l>> \in {<<"temperature", <<"current">>>>, <<"error_log_count", <<"summary">>>>}
      BY <2>3, <2>6, PartSeries
    <3>2. \E m : <<m, f, l>> \in sameReading
      BY <3>1 DEF sameReading
    <3>3. \A m : <<m, f, l>>[2] = f /\ <<m, f, l>>[3] = l
      OBVIOUS
    <3> QED
      BY <3>2, <3>3
  <2>7. CASE x \in collectBlockSize(c, n)
    <3>1. f = "block_size" /\ (l = <<"logical">> \/ l = <<"physical">>)
      BY <2>3, <2>7, PartSeries
    <3>2. CASE l = <<"physical">>
      BY <3>1, <3>2 DEF onlyInSmartctl
    <3>3. CASE l = <<"logical">>
      <4>1. <<"smart_logical_block_size_bytes", f, l>> \in sameReading
        BY <3>1, <3>3 DEF sameReading
      <4>2. \A m : <<m, f, l>>[2] = f /\ <<m, f, l>>[3] = l
        OBVIOUS
      <4> QED
        BY <4>1, <4>2
    <3> QED
      BY <3>1, <3>2, <3>3
  <2>8. CASE x \in collectInterfaceSpeed(c, n)
    <3>1. f = "interface_speed" /\ (l = <<"current">> \/ l = <<"max">>)
      BY <2>3, <2>8, PartSeries
    <3>2. CASE l = <<"max">>
      BY <3>1, <3>2 DEF onlyInSmartctl
    <3>3. CASE l = <<"current">>
      <4>1. <<"smart_interface_speed_bits_per_second", f, l>> \in sameReading
        BY <3>1, <3>3 DEF sameReading
      <4>2. \A m : <<m, f, l>>[2] = f /\ <<m, f, l>>[3] = l
        OBVIOUS
      <4> QED
        BY <4>1, <4>2
    <3> QED
      BY <3>1, <3>2, <3>3
  <2>9. CASE x \in collectAttributes(c, n)
    <3>1. f = "attribute"
      BY <2>3, <2>9, PartSeries
    <3>2. CASE \A a \in sataAttrMetrics : l # <<a[1], "raw">>
      BY <3>1, <3>2 DEF onlyInSmartctl
    <3>3. CASE \E a \in sataAttrMetrics : l = <<a[1], "raw">>
      <4>1. PICK a \in sataAttrMetrics : l = <<a[1], "raw">>
        BY <3>3
      <4>2. <<a[2], f, l>> \in sameReading
        <5>1. <<a[2], "attribute", <<a[1], "raw">>>> \in sameReading
          BY DEF sameReading
        <5> QED
          BY <3>1, <4>1, <5>1
      <4>3. \A m : <<m, f, l>>[2] = f /\ <<m, f, l>>[3] = l
        OBVIOUS
      <4> QED
        BY <4>2, <4>3
    <3> QED
      BY <3>2, <3>3
  <2> QED
    BY <2>2, <2>4, <2>5, <2>6, <2>7, <2>8, <2>9 DEF seriesOf
<1> QED
  BY <1>2, <1>3 DEF smartctlCollect

-----------------------------------------------------------------------------
(* What an NVMe disk does not have, and what a SATA one does not.          *)
LEMMA NvmeHasNot ==
    ASSUME NEW ok, NEW n \in supported, isNvme(n)
    PROVE  LET c == stripped(probed(n, ok)) IN
           /\ infoField(c, "rotation") = {} /\ infoField(c, "speed") = {} /\ infoField(c, "speedMax") = {}
           /\ c.errorLog = {} /\ c.attrs = {}
<1> DEFINE d == probed(n, ok)
           c == stripped(d)
<1>1. Disks[n].kind = "nvme"
  BY SupportedDisk
<1>2. d.errorLog = {} /\ d.attrs = {} /\ d.info \subseteq {nvmeInfo(Disks[n].identify)}
  BY <1>1 DEF probed, probeNvme
<1>3. /\ nvmeInfo(Disks[n].identify).rotation = 0 /\ nvmeInfo(Disks[n].identify).speed = 0
      /\ nvmeInfo(Disks[n].identify).speedMax = 0
  BY DEF nvmeInfo
<1>4. c.errorLog = d.errorLog /\ c.attrs = d.attrs /\ c.info = d.info
  BY StrippedKeeps
<1> HIDE DEF d, c
<1>5. /\ infoField(c, "rotation") = {} /\ infoField(c, "speed") = {} /\ infoField(c, "speedMax") = {}
  BY <1>2, <1>3, <1>4 DEF infoField
<1> QED
  BY <1>2, <1>4, <1>5 DEF d, c

LEMMA SataHasNot ==
    ASSUME NEW ok, NEW n \in supported, ~isNvme(n)
    PROVE  LET c == stripped(probed(n, ok)) IN c.nvme = {} /\ infoField(c, "nvmeBytes") = {}
<1> DEFINE d == probed(n, ok)
           c == stripped(d)
<1>1. Disks[n].kind = "sata"
  BY SupportedDisk
<1>2. d.nvme = {} /\ d.info \subseteq {ataInfo(Disks[n].identify)}
  BY <1>1 DEF probed, probeSata
<1>3. ataInfo(Disks[n].identify).nvmeBytes = 0
  BY DEF ataInfo
<1>4. c.nvme = d.nvme /\ c.info = d.info
  BY StrippedKeeps
<1> HIDE DEF d, c
<1>5. infoField(c, "nvmeBytes") = {}
  BY <1>2, <1>3, <1>4 DEF infoField
<1> QED
  BY <1>2, <1>4, <1>5 DEF d, c

LEMMA NameStart ==
    ASSUME NEW n \in supported
    PROVE  smartctlName(n)[1] = IF isNvme(n) THEN "nvme" ELSE "sd"
<1>1. n \in Seq(STRING) /\ (isSata(n) \/ isNvme(n))
  BY DisksAssumption DEF supported, isWholeDevice
<1>2. CASE isNvme(n)
  <2>1. Len(n) = 3 /\ n[1] = "nvme"
    BY <1>2 DEF isNvme
  <2>2. SubSeq(n, 1, 2)[1] = n[1]
    BY <1>1, <2>1
  <2> QED
    BY <1>2, <2>1, <2>2 DEF smartctlName
<1>3. CASE ~isNvme(n)
  BY <1>1, <1>3 DEF smartctlName, isSata
<1> QED
  BY <1>2, <1>3

LEMMA TransportsFollow ==
    ASSUME NEW ok, compat = toSmartctlDevices(probe(ok))
    PROVE  transportFamilies
<1>0. compat = {stripped(probed(n, ok)) : n \in found(ok)}
  BY ProbeFinds DEF toSmartctlDevices, stripped
<1> DEFINE sata == {"rotation_rate", "interface_speed", "error_log_count", "attribute"}
           nvme == {"bytes_read", "bytes_written", "num_err_log_entries", "percentage_used",
                    "nvme_capacity_bytes"}
<1> SUFFICES ASSUME NEW x \in smartctlCollect(compat)
             PROVE  /\ x.family \in sata => x.device[1] = "sd"
                    /\ x.family \in nvme => x.device[1] = "nvme"
  BY DEF transportFamilies
<1>1. CASE x = series("devices", <<>>, <<>>, Cardinality(compat))
  BY <1>1, SeriesFields
<1>2. CASE \E c \in compat : x \in smartctlSeries(c)
  <2>1. PICK n \in found(ok) : x \in smartctlSeries(stripped(probed(n, ok)))
    BY <1>0, <1>2
  <2> DEFINE c == stripped(probed(n, ok))
             m == smartctlName(n)
  <2>2. n \in supported
    BY DEF found
  <2>3. c.name = n /\ m[1] = IF isNvme(n) THEN "nvme" ELSE "sd"
    BY <2>2, StrippedKeeps, NameStart
  <2>4. isNvme(n) => /\ infoField(c, "rotation") = {} /\ infoField(c, "speed") = {}
                     /\ infoField(c, "speedMax") = {} /\ c.errorLog = {} /\ c.attrs = {}
    BY <2>2, NvmeHasNot
  <2>5. ~isNvme(n) => c.nvme = {} /\ infoField(c, "nvmeBytes") = {}
    BY <2>2, SataHasNot
  <2>6. x \in seriesOf(c, m)
    BY <2>1, <2>3 DEF smartctlSeries
  <2> HIDE DEF c, m
  <2>7. CASE x \in collectScalars(c, m)
    <3>1. PICK def \in scalarDefs(c) : \E v \in def[2] : x = series(def[1], m, <<>>, v)
      BY <2>7, ScalarShape
    <3>2. x.family = def[1] /\ x.device = m /\ def[2] # {}
      BY <3>1, SeriesFields
    <3>3. CASE isNvme(n)
      <4>1. def[1] \notin sata
        BY <2>4, <3>2, <3>3 DEF scalarDefs
      <4> QED
        BY <2>3, <3>2, <3>3, <4>1
    <3>4. CASE ~isNvme(n)
      <4>1. \A f : nvmeField(c, f) = {}
        BY <2>5, <3>4 DEF nvmeField
      <4>2. def[1] \notin nvme
        BY <2>5, <3>2, <3>4, <4>1 DEF scalarDefs
      <4> QED
        BY <2>3, <3>2, <3>4, <4>2
    <3> QED
      BY <3>3, <3>4
  <2>8. CASE x \in collectInfo(c, m) \cup collectTemperature(c, m) \cup collectBlockSize(c, m)
    <3>1. x.family \in {"device", "temperature", "block_size"}
      BY <2>8, PartFamilies
    <3> QED
      BY <3>1
  <2>9. CASE x \in collectInterfaceSpeed(c, m) \cup collectErrorLogCount(c, m) \cup collectAttributes(c, m)
    <3>1. ~isNvme(n)
      BY <2>4, <2>9, PartFamilies
    <3>2. x.device = m /\ x.family \in {"interface_speed", "error_log_count", "attribute"}
      BY <2>9, PartFamilies
    <3> QED
      BY <2>3, <3>1, <3>2
  <2> QED
    BY <2>6, <2>7, <2>8, <2>9 DEF seriesOf
<1> QED
  BY <1>1, <1>2 DEF smartctlCollect

LEMMA SmartSurfacesFollow == ASSUME SmartInv PROVE SmartSurfacesAgree
<1> SUFFICES ASSUME published("smart") PROVE
        /\ disksAreReported /\ transportFamilies
        /\ \A p \in sameReading :
              {<<smartctlName(s.device), inSmartctlUnits(p[1], s.value)>> : s \in shown(p[1])}
                  = {<<x.device, x.value>> : x \in {x \in smartctlCollect(compat) :
                                                      x.family = p[2] /\ x.labels = p[3]}}
        /\ \A x \in smartctlCollect(compat) :
              onlyInSmartctl(x) \/ \E p \in sameReading : p[2] = x.family /\ p[3] = x.labels
  BY DEF SmartSurfacesAgree
<1>1. /\ metrics = smartCollect(smartReads \ lost).out
      /\ compat = toSmartctlDevices(probe(smartReads \ lost))
  BY DEF SmartInv, published
<1> QED
  BY <1>1, DisksFollow, TransportsFollow, ReadingsAgree, SeriesAreCompared

-----------------------------------------------------------------------------
(* The core tier.  Apart from cpu, a collector depends on the reads only.  *)
still(c, ok) == coreCollect(c, ok, <<>>, <<>>)

stillNames == {"heartbeat", "loadavg", "mem", "net", "disk", "hwmon", "psi", "power", "pcie_aer"}

LEMMA CoreOrder ==
    /\ Len(coreTier) = 10
    /\ \A i \in 1..10 : coreTier[i] \in stillNames \cup {"cpu"}
    /\ \A i, j \in 1..10 : coreTier[i] = coreTier[j] => i = j
  BY DEF coreTier, stillNames

LEMMA CoreIsStill ==
    ASSUME NEW c \in stillNames, NEW ok, NEW st, NEW pr
    PROVE  coreCollect(c, ok, st, pr) = still(c, ok)
  BY SMT DEF coreCollect, still, stillNames

LEMMA StillIs ==
    ASSUME NEW ok
    PROVE  /\ still("heartbeat", ok) = heartbeat /\ still("loadavg", ok) = loadAvg(ok)
           /\ still("mem", ok) = mem(ok) /\ still("net", ok) = net(ok) /\ still("disk", ok) = disk(ok)
           /\ still("hwmon", ok) = hwmon(ok) /\ still("psi", ok) = psi(ok)
           /\ still("power", ok) = power(ok) /\ still("pcie_aer", ok) = pcieAER(ok)
  BY SMT DEF coreCollect, still

LEMMA ReturnsOut == ASSUME NEW X PROVE returns(X).out = X /\ ~returns(X).err
  BY DEF returns

LEMMA HwmonOut ==
    ASSUME NEW ok, NEW s
    PROVE  s \in hwmon(ok).out <=>
             /\ <<"hwmon">> \in ok
             /\ \E chip \in DOMAIN Hwmon :
                   <<"hwmon", chip>> \in ok /\ \E f \in inputs(chip) : s \in sensor(ok, chip, f)
<1> DEFINE all == UNION {UNION {sensor(ok, chip, f) : f \in inputs(chip)} :
                            chip \in {c \in DOMAIN Hwmon : <<"hwmon", c>> \in ok}}
<1>1. hwmon(ok).out = IF <<"hwmon">> \notin ok THEN {} ELSE all
  BY ReturnsOut DEF hwmon
<1>2. s \in all <=> \E chip \in DOMAIN Hwmon :
                       <<"hwmon", chip>> \in ok /\ \E f \in inputs(chip) : s \in sensor(ok, chip, f)
  <2> DEFINE ofChip(chip) == UNION {sensor(ok, chip, f) : f \in inputs(chip)}
  <2>1. \A chip : s \in ofChip(chip) <=> \E f \in inputs(chip) : s \in sensor(ok, chip, f)
    OBVIOUS
  <2>2. all = UNION {ofChip(chip) : chip \in {c \in DOMAIN Hwmon : <<"hwmon", c>> \in ok}}
    OBVIOUS
  <2> HIDE DEF ofChip, all
  <2> QED
    BY <2>1, <2>2
<1> HIDE DEF all
<1> QED
  BY <1>1, <1>2

LEMMA PsiOut ==
    ASSUME NEW ok, NEW s
    PROVE  s \in psi(ok).out <=>
             \E res \in psiResources :
                <<"pressure", res>> \in ok /\ \E sh \in DOMAIN Psi[res] : s \in psiSamples(res, sh, Psi[res][sh])
<1>1. psi(ok).out = UNION {UNION {psiSamples(res, sh, Psi[res][sh]) : sh \in DOMAIN Psi[res]} :
                              res \in {res \in psiResources : <<"pressure", res>> \in ok}}
  BY DEF psi
<1> QED
  BY <1>1

zoneSample(z, ok) == sample(<<z>>, "power_energy_joules_total", Powercap[z].uj \div 1000000,
                            IF <<"powercap", z, "name">> \in ok THEN <<Powercap[z].name>> ELSE <<>>)

LEMMA PowerOut ==
    ASSUME NEW ok, NEW s
    PROVE  s \in power(ok).out <=>
             /\ <<"powercap">> \in ok
             /\ \E z \in DOMAIN Powercap :
                   Powercap[z].rapl /\ <<"powercap", z>> \in ok /\ s = zoneSample(z, ok)
<1> DEFINE all == {zoneSample(z, ok) : z \in {e \in DOMAIN Powercap : Powercap[e].rapl /\ <<"powercap", e>> \in ok}}
<1>1. power(ok).out = IF <<"powercap">> \notin ok THEN {} ELSE all
  BY ReturnsOut, SMT DEF power, zoneSample
<1>2. s \in all <=> \E z \in DOMAIN Powercap :
                       Powercap[z].rapl /\ <<"powercap", z>> \in ok /\ s = zoneSample(z, ok)
  OBVIOUS
<1> HIDE DEF all
<1> QED
  BY <1>1, <1>2

LEMMA AerOut ==
    ASSUME NEW ok, NEW s
    PROVE  s \in pcieAER(ok).out <=>
             /\ <<"pci">> \in ok
             /\ \E a \in DOMAIN Aer : \E f \in DOMAIN Aer[a] :
                   <<"pci", a, f>> \in ok /\ s \in readAERFile(a, f)
<1> DEFINE all == UNION {UNION {readAERFile(a, f) : f \in {f \in DOMAIN Aer[a] : <<"pci", a, f>> \in ok}} :
                            a \in DOMAIN Aer}
<1>1. pcieAER(ok).out = IF <<"pci">> \notin ok THEN {} ELSE all
  BY ReturnsOut DEF pcieAER
<1>2. s \in all <=> \E a \in DOMAIN Aer : \E f \in DOMAIN Aer[a] :
                       <<"pci", a, f>> \in ok /\ s \in readAERFile(a, f)
  OBVIOUS
<1> HIDE DEF all
<1> QED
  BY <1>1, <1>2

taboo == counters \cup {"cpu_util_pct"}

(* No collector but cpu and gpu publishes their metrics.                   *)
LEMMA StillMetrics ==
    ASSUME NEW c \in stillNames, NEW ok, NEW s \in still(c, ok).out
    PROVE  s.metric \notin taboo
<1> USE DEF taboo, counters, sample, returns, fails
<1>1. ASSUME c = "heartbeat" PROVE s.metric \notin taboo
  BY <1>1, StillIs DEF heartbeat
<1>2. ASSUME c = "loadavg" PROVE s.metric \notin taboo
  BY <1>2, StillIs DEF loadAvg
<1>3. ASSUME c = "mem" PROVE s.metric \notin taboo
  BY <1>3, StillIs DEF mem, memSamples
<1>4. ASSUME c = "net" PROVE s.metric \notin taboo
  BY <1>4, StillIs DEF net, netSamples
<1>5. ASSUME c = "disk" PROVE s.metric \notin taboo
  BY <1>5, StillIs DEF disk, diskSamples
<1>6. ASSUME c = "hwmon" PROVE s.metric \notin taboo
  <2>1. PICK chip, f : s \in sensor(ok, chip, f)
    BY <1>6, StillIs, HwmonOut
  <2> QED
    BY <2>1, SMT DEF sensor
<1>7. ASSUME c = "psi" PROVE s.metric \notin taboo
  <2>1. PICK res, sh : s \in psiSamples(res, sh, Psi[res][sh])
    BY <1>7, StillIs, PsiOut
  <2> QED
    BY <2>1, SMT DEF psiSamples
<1>8. ASSUME c = "power" PROVE s.metric \notin taboo
  <2>1. PICK z : s = zoneSample(z, ok)
    BY <1>8, StillIs, PowerOut
  <2> QED
    BY <2>1, SMT DEF zoneSample
<1>9. ASSUME c = "pcie_aer" PROVE s.metric \notin taboo
  <2>0. PICK a \in DOMAIN Aer : \E f \in DOMAIN Aer[a] : s \in readAERFile(a, f)
    BY <1>9, StillIs, AerOut
  <2>1. PICK f \in {"aer_dev_correctable", "aer_dev_nonfatal", "aer_dev_fatal"} : s \in readAERFile(a, f)
    BY <2>0, AerAssumption
  <2>2. s.metric = aerMetric(f)
    BY <2>1 DEF readAERFile
  <2> QED
    BY <2>2, SMT DEF aerMetric
<1> QED
  BY <1>1, <1>2, <1>3, <1>4, <1>5, <1>6, <1>7, <1>8, <1>9 DEF stillNames

-----------------------------------------------------------------------------
(* The reads of a collector start with its own file or directory.          *)
root(c) == CASE c = "loadavg" -> "loadavg" [] c = "cpu" -> "stat" [] c = "mem" -> "meminfo"
             [] c = "net" -> "net" [] c = "disk" -> "diskstats" [] c = "hwmon" -> "hwmon"
             [] c = "psi" -> "pressure" [] c = "power" -> "powercap" [] c = "pcie_aer" -> "pci"
             [] OTHER -> "none"

LEMMA ReadsStart ==
    ASSUME NEW c \in stillNames \cup {"cpu"}, NEW r \in coreReads(c)
    PROVE  r[1] = root(c)
<1>1. CASE c = "hwmon"
  BY <1>1, SMT DEF coreReads, root
<1>2. CASE c = "psi"
  BY <1>2, SMT DEF coreReads, root
<1>3. CASE c = "power"
  BY <1>3, SMT DEF coreReads, root
<1>4. CASE c = "pcie_aer"
  BY <1>4, SMT DEF coreReads, root
<1>5. CASE c \in {"heartbeat", "loadavg", "cpu", "mem", "net", "disk"}
  BY <1>5, SMT DEF coreReads, root
<1> QED
  BY <1>1, <1>2, <1>3, <1>4, <1>5 DEF stillNames

LEMMA ReadsDisjoint ==
    ASSUME NEW c \in stillNames \cup {"cpu"}, NEW d \in stillNames \cup {"cpu"}, c # d
    PROVE  coreReads(c) \cap coreReads(d) = {}
<1>1. c = "heartbeat" => coreReads(c) = {}
  BY SMT DEF coreReads
<1>2. d = "heartbeat" => coreReads(d) = {}
  BY SMT DEF coreReads
<1>3. CASE c # "heartbeat" /\ d # "heartbeat"
  <2>1. root(c) # root(d)
    BY <1>3, SMT DEF root, stillNames
  <2> QED
    BY <2>1, ReadsStart
<1> QED
  BY <1>1, <1>2, <1>3

-----------------------------------------------------------------------------
(* All the reads of a collector but those of L.                            *)
without(c, L) == taken(still(c, coreReads(c) \ L))

(* A collector that reads one file returns everything or an error, psi     *)
(* everything or samples with an error.                                    *)
LEMMA AllOrNothing ==
    ASSUME NEW c \in {"heartbeat", "loadavg", "mem", "net", "disk", "psi"}, NEW L
    PROVE  /\ L \cap coreReads(c) = {} => without(c, L) = still(c, coreReads(c)).out
           /\ L \cap coreReads(c) # {} => without(c, L) = {}
<1>1. ASSUME L \cap coreReads(c) = {} PROVE without(c, L) = taken(still(c, coreReads(c)))
  <2>1. coreReads(c) \ L = coreReads(c)
    BY <1>1
  <2> QED
    BY <2>1 DEF without
<1>2. ASSUME c \in {"heartbeat", "loadavg", "mem", "net", "disk"}
      PROVE  /\ taken(still(c, coreReads(c))) = still(c, coreReads(c)).out
             /\ L \cap coreReads(c) # {} => without(c, L) = {}
  <2>1. taken(fails) = {} /\ \A X : taken(returns(X)) = X
    BY DEF taken, fails, returns
  <2>2. CASE c = "heartbeat"
    BY <2>1, <2>2, StillIs, ReturnsOut DEF heartbeat, coreReads
  <2>3. CASE c = "loadavg"
    <3>1. coreReads(c) = {<<"loadavg">>}
      BY <2>3, SMT DEF coreReads
    <3> QED
      BY <2>1, <2>3, <3>1, StillIs, ReturnsOut DEF loadAvg, without
  <2>4. CASE c = "mem"
    <3>1. coreReads(c) = {<<"meminfo">>}
      BY <2>4, SMT DEF coreReads
    <3> QED
      BY <2>1, <2>4, <3>1, StillIs, ReturnsOut DEF mem, without
  <2>5. CASE c = "net"
    <3>1. coreReads(c) = {<<"net">>}
      BY <2>5, SMT DEF coreReads
    <3> QED
      BY <2>1, <2>5, <3>1, StillIs, ReturnsOut DEF net, without
  <2>6. CASE c = "disk"
    <3>1. coreReads(c) = {<<"diskstats">>}
      BY <2>6, SMT DEF coreReads
    <3> QED
      BY <2>1, <2>6, <3>1, StillIs, ReturnsOut DEF disk, without
  <2> QED
    BY <1>2, <2>2, <2>3, <2>4, <2>5, <2>6
<1>3. ASSUME c = "psi"
      PROVE  /\ taken(still(c, coreReads(c))) = still(c, coreReads(c)).out
             /\ L \cap coreReads(c) # {} => without(c, L) = {}
  <2>1. coreReads(c) = {<<"pressure", res>> : res \in psiResources}
    BY <1>3, SMT DEF coreReads
  <2>2. \A ok : psi(ok).err <=> \E res \in psiResources : <<"pressure", res>> \notin ok
    BY DEF psi
  <2>3. \A ok : still(c, ok) = psi(ok)
    BY <1>3, StillIs
  <2>4. ~psi(coreReads(c)).err
    BY <2>1, <2>2
  <2>5. ASSUME L \cap coreReads(c) # {} PROVE psi(coreReads(c) \ L).err
    BY <2>1, <2>2, <2>5
  <2> QED
    BY <2>3, <2>4, <2>5 DEF taken, without
<1> QED
  BY <1>1, <1>2, <1>3

-----------------------------------------------------------------------------
(* The sample of a sensor, a zone and an AER file.                         *)
chipName(ok, chip) == IF <<"hwmon", chip, "name">> \in ok THEN Hwmon[chip].name ELSE chip
isTemp(chip, f) == Hwmon[chip].sensors[f].kind = "temp"
sensorSample(name, chip, f, v) ==
    sample(<<chip, name, f>>, IF isTemp(chip, f) THEN "temp_celsius" ELSE "fan_rpm",
           IF isTemp(chip, f) THEN v \div 1000 ELSE v, <<>>)

(* s is the reading of sensor f of a chip that goes by that name.          *)
isReading(s, name, chip, f) ==
    \E v \in Hwmon[chip].sensors[f].value : s = sensorSample(name, chip, f, v)

LEMMA SensorShape ==
    ASSUME NEW ok, NEW chip, NEW f, NEW s
    PROVE  s \in sensor(ok, chip, f) <=>
             /\ <<"hwmon", chip, f>> \in ok
             /\ isReading(s, chipName(ok, chip), chip, f)
<1>1. CASE isTemp(chip, f)
  BY <1>1, SMT DEF sensor, isReading, sensorSample, chipName, isTemp
<1>2. CASE ~isTemp(chip, f)
  BY <1>2, SMT DEF sensor, isReading, sensorSample, chipName, isTemp
<1> QED
  BY <1>1, <1>2

LEMMA SampleFields ==
    ASSUME NEW d, NEW m, NEW v, NEW l
    PROVE  /\ sample(d, m, v, l).device = d /\ sample(d, m, v, l).metric = m
           /\ sample(d, m, v, l).value = v /\ sample(d, m, v, l).labels = l
  BY DEF sample

(* The files that s is read from are none of L.                            *)
sensorLeft(s, L, name, chip, f) ==
    <<"hwmon", chip>> \notin L /\ <<"hwmon", chip, f>> \notin L /\ isReading(s, name, chip, f)

LEMMA HwmonReads ==
    /\ <<"hwmon">> \in coreReads("hwmon")
    /\ \A chip \in DOMAIN Hwmon : <<"hwmon", chip>> \in coreReads("hwmon")
    /\ \A chip \in DOMAIN Hwmon : \A f \in {"name"} \cup inputs(chip) :
          <<"hwmon", chip, f>> \in coreReads("hwmon")
<1> DEFINE R == coreReads("hwmon")
<1>1. R = {<<"hwmon">>} \cup UNION {{<<"hwmon", chip>>} \cup
                            {<<"hwmon", chip, f>> : f \in {"name"} \cup inputs(chip)} :
                               chip \in DOMAIN Hwmon}
  BY SMT DEF coreReads
<1> HIDE DEF R
<1>2. /\ <<"hwmon">> \in R /\ \A chip \in DOMAIN Hwmon : <<"hwmon", chip>> \in R
      /\ \A chip \in DOMAIN Hwmon : \A f \in {"name"} \cup inputs(chip) : <<"hwmon", chip, f>> \in R
  BY <1>1
<1> QED
  BY <1>2 DEF R

LEMMA HwmonWithout ==
    ASSUME NEW L, NEW s
    PROVE  s \in without("hwmon", L) <=>
             /\ <<"hwmon">> \notin L
             /\ \E chip \in DOMAIN Hwmon : \E f \in inputs(chip) :
                   sensorLeft(s, L, chipName(coreReads("hwmon") \ L, chip), chip, f)
<1> DEFINE R == coreReads("hwmon")
<1>2. /\ <<"hwmon">> \in R /\ \A chip \in DOMAIN Hwmon : <<"hwmon", chip>> \in R
      /\ \A chip \in DOMAIN Hwmon : \A f \in inputs(chip) : <<"hwmon", chip, f>> \in R
  BY HwmonReads
<1>3. without("hwmon", L) = hwmon(R \ L).out
  <2>1. still("hwmon", R \ L) = hwmon(R \ L) /\ ~hwmon(R \ L).err
    BY StillIs, ReturnsOut DEF hwmon
  <2> QED
    BY <2>1 DEF without, taken
<1> HIDE DEF R
<1>4. s \in hwmon(R \ L).out <=>
             /\ <<"hwmon">> \in R \ L
             /\ \E chip \in DOMAIN Hwmon :
                   <<"hwmon", chip>> \in R \ L /\ \E f \in inputs(chip) : s \in sensor(R \ L, chip, f)
  BY HwmonOut
<1>5. \A chip \in DOMAIN Hwmon : \A f \in inputs(chip) :
          s \in sensor(R \ L, chip, f) <=>
             <<"hwmon", chip, f>> \notin L /\ isReading(s, chipName(R \ L, chip), chip, f)
  <2> TAKE chip \in DOMAIN Hwmon
  <2> TAKE f \in inputs(chip)
  <2>1. <<"hwmon", chip, f>> \in R
    BY <1>2
  <2>2. s \in sensor(R \ L, chip, f) <=>
             /\ <<"hwmon", chip, f>> \in R \ L
             /\ isReading(s, chipName(R \ L, chip), chip, f)
    BY SensorShape
  <2> QED
    BY <2>1, <2>2
<1>6. s \in without("hwmon", L) <=>
             /\ <<"hwmon">> \notin L
             /\ \E chip \in DOMAIN Hwmon : \E f \in inputs(chip) :
                   sensorLeft(s, L, chipName(R \ L, chip), chip, f)
  BY <1>2, <1>3, <1>4, <1>5 DEF sensorLeft
<1> QED
  BY <1>6 DEF R

(* s is the sample of zone z, whose file is none of L.                     *)
zoneLeft(s, L, z, ok) == <<"powercap", z>> \notin L /\ s = zoneSample(z, ok)

zones == {z \in DOMAIN Powercap : Powercap[z].rapl}

LEMMA PowerReads ==
    /\ <<"powercap">> \in coreReads("power")
    /\ \A z \in zones : <<"powercap", z>> \in coreReads("power")
                        /\ <<"powercap", z, "name">> \in coreReads("power")
<1> DEFINE R == coreReads("power")
<1>1. R = {<<"powercap">>} \cup UNION {{<<"powercap", z>>, <<"powercap", z, "name">>} : z \in zones}
  BY SMT DEF coreReads, zones
<1> HIDE DEF R
<1>2. /\ <<"powercap">> \in R
      /\ \A z \in zones : <<"powercap", z>> \in R /\ <<"powercap", z, "name">> \in R
  BY <1>1
<1> QED
  BY <1>2 DEF R

LEMMA PowerWithout ==
    ASSUME NEW L, NEW s
    PROVE  s \in without("power", L) <=>
             /\ <<"powercap">> \notin L
             /\ \E z \in zones : zoneLeft(s, L, z, coreReads("power") \ L)
<1> DEFINE R == coreReads("power")
<1>1. <<"powercap">> \in R /\ \A z \in zones : <<"powercap", z>> \in R
  BY PowerReads
<1>2. without("power", L) = power(R \ L).out
  <2>1. still("power", R \ L) = power(R \ L)
    BY StillIs
  <2>2. ~power(R \ L).err
    BY SMT DEF power, returns
  <2> QED
    BY <2>1, <2>2 DEF without, taken
<1> HIDE DEF R
<1>3. s \in power(R \ L).out <=>
             /\ <<"powercap">> \in R \ L
             /\ \E z \in DOMAIN Powercap :
                   Powercap[z].rapl /\ <<"powercap", z>> \in R \ L /\ s = zoneSample(z, R \ L)
  BY PowerOut
<1>4. s \in without("power", L) <=>
             <<"powercap">> \notin L /\ \E z \in zones : zoneLeft(s, L, z, R \ L)
  BY <1>1, <1>2, <1>3 DEF zoneLeft, zones
<1> QED
  BY <1>4 DEF R

-----------------------------------------------------------------------------
(* s is a line of an AER file that is none of L.                           *)
lineLeft(s, L, a, f) == <<"pci", a, f>> \notin L /\ s \in readAERFile(a, f)

LEMMA AerReads ==
    /\ <<"pci">> \in coreReads("pcie_aer")
    /\ \A a \in DOMAIN Aer : \A f \in DOMAIN Aer[a] : <<"pci", a, f>> \in coreReads("pcie_aer")
<1> DEFINE R == coreReads("pcie_aer")
<1>1. R = {<<"pci">>} \cup UNION {{<<"pci", a, f>> : f \in DOMAIN Aer[a]} : a \in DOMAIN Aer}
  BY SMT DEF coreReads
<1> HIDE DEF R
<1>2. <<"pci">> \in R /\ \A a \in DOMAIN Aer : \A f \in DOMAIN Aer[a] : <<"pci", a, f>> \in R
  BY <1>1
<1> QED
  BY <1>2 DEF R

LEMMA AerWithout ==
    ASSUME NEW L, NEW s
    PROVE  s \in without("pcie_aer", L) <=>
             /\ <<"pci">> \notin L
             /\ \E a \in DOMAIN Aer : \E f \in DOMAIN Aer[a] : lineLeft(s, L, a, f)
<1> DEFINE R == coreReads("pcie_aer")
<1>1. <<"pci">> \in R /\ \A a \in DOMAIN Aer : \A f \in DOMAIN Aer[a] : <<"pci", a, f>> \in R
  BY AerReads
<1>2. without("pcie_aer", L) = pcieAER(R \ L).out
  <2>1. still("pcie_aer", R \ L) = pcieAER(R \ L)
    BY StillIs
  <2>2. ~pcieAER(R \ L).err
    BY Zenon, ReturnsOut DEF pcieAER
  <2> QED
    BY <2>1, <2>2 DEF without, taken
<1> HIDE DEF R
<1>3. s \in pcieAER(R \ L).out <=>
             /\ <<"pci">> \in R \ L
             /\ \E a \in DOMAIN Aer : \E f \in DOMAIN Aer[a] :
                   <<"pci", a, f>> \in R \ L /\ s \in readAERFile(a, f)
  BY AerOut
<1>4. s \in without("pcie_aer", L) <=>
             <<"pci">> \notin L /\ \E a \in DOMAIN Aer : \E f \in DOMAIN Aer[a] : lineLeft(s, L, a, f)
  BY <1>1, <1>2, <1>3 DEF lineLeft
<1> QED
  BY <1>4 DEF R

-----------------------------------------------------------------------------
(* What the files hold against what a collector returns.                   *)
LEMMA HeldIs ==
    ASSUME NEW S, NEW needs, NEW naming, NEW x
    PROVE  /\ x \in held(S, needs, naming) =>
                 x.sample \in S /\ x.needs = needs /\ x.naming = naming
           /\ \A s \in S : \E y \in held(S, needs, naming) :
                 y.sample = s /\ y.needs = needs /\ y.naming = naming
<1> DEFINE entry(s) == [sample |-> s, needs |-> needs, naming |-> naming]
<1>1. \A s : entry(s).sample = s /\ entry(s).needs = needs /\ entry(s).naming = naming
  OBVIOUS
<1>2. \A y : y \in held(S, needs, naming) <=> \E s \in S : y = entry(s)
  BY DEF held
<1> HIDE DEF entry
<1> QED
  BY <1>1, <1>2

(* A collector that reads one file, and psi, holds all of it or nothing.   *)
LEMMA WholeIs ==
    ASSUME NEW c \in {"heartbeat", "loadavg", "mem", "net", "disk", "psi"}
    PROVE  /\ \A x \in contents(c) : /\ x.sample \in still(c, coreReads(c)).out
                                     /\ x.needs = coreReads(c) /\ x.naming = {}
           /\ \A s \in still(c, coreReads(c)).out : \E x \in contents(c) :
                 x.sample = s /\ x.needs = coreReads(c)
<1>1. CASE c = "heartbeat"
  <2>1. contents(c) = held(heartbeat.out, {}, {}) /\ coreReads(c) = {}
    BY <1>1, SMT DEF contents, coreReads
  <2>2. still(c, coreReads(c)) = heartbeat
    BY <1>1, StillIs
  <2> QED
    BY <2>1, <2>2, HeldIs
<1>2. CASE c = "loadavg"
  <2>1. /\ contents(c) = held({sample(<<"cpu">>, "load1", LoadAvg, <<>>)}, {<<"loadavg">>}, {})
        /\ coreReads(c) = {<<"loadavg">>}
    BY <1>2, SMT DEF contents, coreReads
  <2>2. still(c, coreReads(c)).out = {sample(<<"cpu">>, "load1", LoadAvg, <<>>)}
    BY <1>2, <2>1, StillIs, ReturnsOut DEF loadAvg
  <2> QED
    BY <2>1, <2>2, HeldIs
<1>3. CASE c = "mem"
  <2>1. contents(c) = held(memSamples, {<<"meminfo">>}, {}) /\ coreReads(c) = {<<"meminfo">>}
    BY <1>3, SMT DEF contents, coreReads
  <2>2. still(c, coreReads(c)).out = memSamples
    BY <1>3, <2>1, StillIs, ReturnsOut DEF mem
  <2> QED
    BY <2>1, <2>2, HeldIs
<1>4. CASE c = "net"
  <2>1. contents(c) = held(netSamples, {<<"net">>}, {}) /\ coreReads(c) = {<<"net">>}
    BY <1>4, SMT DEF contents, coreReads
  <2>2. still(c, coreReads(c)).out = netSamples
    BY <1>4, <2>1, StillIs, ReturnsOut DEF net
  <2> QED
    BY <2>1, <2>2, HeldIs
<1>5. CASE c = "disk"
  <2>1. contents(c) = held(diskSamples, {<<"diskstats">>}, {}) /\ coreReads(c) = {<<"diskstats">>}
    BY <1>5, SMT DEF contents, coreReads
  <2>2. still(c, coreReads(c)).out = diskSamples
    BY <1>5, <2>1, StillIs, ReturnsOut DEF disk
  <2> QED
    BY <2>1, <2>2, HeldIs
<1>6. CASE c = "psi"
  <2> DEFINE R == {<<"pressure", r>> : r \in psiResources}
             S(res, sh) == psiSamples(res, sh, Psi[res][sh])
             H(res, sh) == held(S(res, sh), R, {})
             all == UNION {UNION {H(res, sh) : sh \in DOMAIN Psi[res]} : res \in psiResources}
  <2>1. contents(c) = all /\ coreReads(c) = R
    BY <1>6, SMT DEF contents, coreReads
  <2>2. \A res \in psiResources : <<"pressure", res>> \in R
    OBVIOUS
  <2>3. \A s : s \in still(c, R).out <=>
                  \E res \in psiResources : \E sh \in DOMAIN Psi[res] : s \in S(res, sh)
    <3>1. still(c, R) = psi(R)
      BY <1>6, StillIs
    <3> HIDE DEF R
    <3>2. \A s : s \in psi(R).out <=>
                  \E res \in psiResources : /\ <<"pressure", res>> \in R
                                            /\ \E sh \in DOMAIN Psi[res] : s \in S(res, sh)
      BY PsiOut
    <3> QED
      BY <2>2, <3>1, <3>2
  <2>4. \A res, sh, x : /\ x \in H(res, sh) => x.sample \in S(res, sh) /\ x.needs = R /\ x.naming = {}
                        /\ \A s \in S(res, sh) : \E y \in H(res, sh) : y.sample = s /\ y.needs = R
    <3> HIDE DEF R, S
    <3> TAKE res, sh, x
    <3>1. /\ x \in held(S(res, sh), R, {}) => x.sample \in S(res, sh) /\ x.needs = R /\ x.naming = {}
          /\ \A s \in S(res, sh) : \E y \in held(S(res, sh), R, {}) : y.sample = s /\ y.needs = R
      BY HeldIs
    <3> QED
      BY <3>1
  <2> HIDE DEF R, S, H
  <2>5. \A x : x \in all <=> \E res \in psiResources : \E sh \in DOMAIN Psi[res] : x \in H(res, sh)
    OBVIOUS
  <2> HIDE DEF all
  <2>6. \A x \in contents(c) : /\ x.sample \in still(c, coreReads(c)).out
                               /\ x.needs = coreReads(c) /\ x.naming = {}
    BY <2>1, <2>3, <2>4, <2>5
  <2>7. \A s \in still(c, coreReads(c)).out : \E x \in contents(c) : x.sample = s /\ x.needs = coreReads(c)
    BY <2>1, <2>3, <2>4, <2>5
  <2> QED
    BY <2>6, <2>7
<1> QED
  BY <1>1, <1>2, <1>3, <1>4, <1>5, <1>6

LEMMA HwmonHolds ==
    ASSUME NEW x
    PROVE  x \in contents("hwmon") <=>
             \E chip \in DOMAIN Hwmon : \E f \in inputs(chip) :
                 x \in held(sensorFile(chip, f),
                            {<<"hwmon">>, <<"hwmon", chip>>, <<"hwmon", chip, f>>},
                            {<<"hwmon", chip, "name">>})
<1>1. contents("hwmon") =
        UNION {UNION {held(sensorFile(chip, f),
                           {<<"hwmon">>, <<"hwmon", chip>>, <<"hwmon", chip, f>>},
                           {<<"hwmon", chip, "name">>}) : f \in inputs(chip)} : chip \in DOMAIN Hwmon}
  BY SMT DEF contents
<1> DEFINE H(chip, f) == held(sensorFile(chip, f),
                              {<<"hwmon">>, <<"hwmon", chip>>, <<"hwmon", chip, f>>},
                              {<<"hwmon", chip, "name">>})
<1>2. contents("hwmon") = UNION {UNION {H(chip, f) : f \in inputs(chip)} : chip \in DOMAIN Hwmon}
  BY <1>1
<1> HIDE DEF H
<1>3. x \in contents("hwmon") <=> \E chip \in DOMAIN Hwmon : \E f \in inputs(chip) : x \in H(chip, f)
  BY <1>2
<1> QED
  BY <1>3 DEF H

LEMMA PowerHolds ==
    ASSUME NEW x
    PROVE  x \in contents("power") <=>
             \E z \in zones : x \in held(zoneFile(z), {<<"powercap">>, <<"powercap", z>>},
                                         {<<"powercap", z, "name">>})
<1>1. contents("power") =
        UNION {held(zoneFile(z), {<<"powercap">>, <<"powercap", z>>},
                    {<<"powercap", z, "name">>}) : z \in zones}
  BY SMT DEF contents, zones
<1> DEFINE H(z) == held(zoneFile(z), {<<"powercap">>, <<"powercap", z>>}, {<<"powercap", z, "name">>})
<1>2. contents("power") = UNION {H(z) : z \in zones}
  BY <1>1
<1> HIDE DEF H
<1>3. x \in contents("power") <=> \E z \in zones : x \in H(z)
  BY <1>2
<1> QED
  BY <1>3 DEF H

LEMMA AerHolds ==
    ASSUME NEW x
    PROVE  x \in contents("pcie_aer") <=>
             \E a \in DOMAIN Aer : \E f \in DOMAIN Aer[a] :
                 x \in held(readAERFile(a, f), {<<"pci">>, <<"pci", a, f>>}, {})
<1>1. contents("pcie_aer") =
        UNION {UNION {held(readAERFile(a, f), {<<"pci">>, <<"pci", a, f>>}, {}) :
                         f \in DOMAIN Aer[a]} : a \in DOMAIN Aer}
  BY SMT DEF contents
<1> DEFINE H(a, f) == held(readAERFile(a, f), {<<"pci">>, <<"pci", a, f>>}, {})
<1>2. contents("pcie_aer") = UNION {UNION {H(a, f) : f \in DOMAIN Aer[a]} : a \in DOMAIN Aer}
  BY <1>1
<1> HIDE DEF H
<1>3. x \in contents("pcie_aer") <=> \E a \in DOMAIN Aer : \E f \in DOMAIN Aer[a] : x \in H(a, f)
  BY <1>2
<1> QED
  BY <1>3 DEF H

(* The file of a sensor holds its readings under the name of its chip.     *)
LEMMA SensorFileIs ==
    ASSUME NEW chip, NEW f, NEW s
    PROVE  s \in sensorFile(chip, f) <=> isReading(s, Hwmon[chip].name, chip, f)
<1>1. CASE isTemp(chip, f)
  BY <1>1, SMT DEF sensorFile, isReading, sensorSample, isTemp
<1>2. CASE ~isTemp(chip, f)
  BY <1>2, SMT DEF sensorFile, isReading, sensorSample, isTemp
<1> QED
  BY <1>1, <1>2

(* The same reading under another name.                                    *)
LEMMA ReadingsAlike ==
    ASSUME NEW s, NEW n, NEW m, NEW chip, NEW f, isReading(s, n, chip, f)
    PROVE  \E t : isReading(t, m, chip, f) /\ alike(s, t) /\ alike(t, s)
<1>1. PICK v \in Hwmon[chip].sensors[f].value : s = sensorSample(n, chip, f, v)
  BY DEF isReading
<1>2. \A k : /\ sensorSample(k, chip, f, v).device = <<chip, k, f>>
             /\ sensorSample(k, chip, f, v).metric = IF isTemp(chip, f) THEN "temp_celsius" ELSE "fan_rpm"
             /\ sensorSample(k, chip, f, v).value = IF isTemp(chip, f) THEN v \div 1000 ELSE v
  BY SampleFields DEF sensorSample
<1>3. \A k : <<chip, k, f>>[1] = chip
  BY SMT
<1>4. alike(s, sensorSample(m, chip, f, v)) /\ alike(sensorSample(m, chip, f, v), s)
  BY <1>1, <1>2, <1>3, SMT DEF alike
<1>5. isReading(sensorSample(m, chip, f, v), m, chip, f)
  BY DEF isReading
<1> QED
  BY <1>4, <1>5

LEMMA ZoneAlike ==
    ASSUME NEW z, NEW ok, NEW s \in zoneFile(z)
    PROVE  /\ alike(s, zoneSample(z, ok)) /\ alike(zoneSample(z, ok), s)
           /\ <<"powercap", z, "name">> \in ok => zoneSample(z, ok) = s
<1>1. s = sample(<<z>>, "power_energy_joules_total", Powercap[z].uj \div 1000000, <<Powercap[z].name>>)
  BY DEF zoneFile
<1> DEFINE l == IF <<"powercap", z, "name">> \in ok THEN <<Powercap[z].name>> ELSE <<>>
<1>2. zoneSample(z, ok) = sample(<<z>>, "power_energy_joules_total", Powercap[z].uj \div 1000000, l)
  BY SMT DEF zoneSample
<1>3. <<"powercap", z, "name">> \in ok => zoneSample(z, ok) = s
  BY <1>1, SMT DEF zoneSample
<1>4. alike(s, zoneSample(z, ok)) /\ alike(zoneSample(z, ok), s)
  BY <1>1, <1>2, SampleFields, SMT DEF alike
<1> QED
  BY <1>3, <1>4

LEMMA AlikeItself == \A s : alike(s, s)
  BY DEF alike

(* A sample whose reads are none of L is returned, under its own name if   *)
(* the name could be read.                                                 *)
keeps(x, c, L) ==
    /\ x.naming \cap L = {} => x.sample \in without(c, L)
    /\ \E s \in without(c, L) : alike(s, x.sample)

LEMMA ReadIsReturned ==
    ASSUME NEW c \in stillNames, NEW L, NEW x \in contents(c), x.needs \cap L = {}
    PROVE  keeps(x, c, L)
<1>1. CASE c \in {"heartbeat", "loadavg", "mem", "net", "disk", "psi"}
  <2>1. x.sample \in still(c, coreReads(c)).out /\ x.needs = coreReads(c)
    BY <1>1, WholeIs
  <2>2. L \cap coreReads(c) = {}
    BY <2>1
  <2>3. x.sample \in without(c, L)
    BY <1>1, <2>1, <2>2, AllOrNothing
  <2> QED
    BY <2>3, AlikeItself DEF keeps
<1>2. CASE c = "hwmon"
  <2> DEFINE R == coreReads("hwmon")
  <2>0. PICK chip \in DOMAIN Hwmon : \E f \in inputs(chip) :
            x \in held(sensorFile(chip, f),
                       {<<"hwmon">>, <<"hwmon", chip>>, <<"hwmon", chip, f>>},
                       {<<"hwmon", chip, "name">>})
    BY <1>2, HwmonHolds
  <2>1. PICK f \in inputs(chip) :
            x \in held(sensorFile(chip, f),
                       {<<"hwmon">>, <<"hwmon", chip>>, <<"hwmon", chip, f>>},
                       {<<"hwmon", chip, "name">>})
    BY <2>0
  <2>2. /\ x.sample \in sensorFile(chip, f) /\ x.naming = {<<"hwmon", chip, "name">>}
        /\ <<"hwmon">> \notin L /\ <<"hwmon", chip>> \notin L /\ <<"hwmon", chip, f>> \notin L
    BY <2>1, HeldIs
  <2>3. isReading(x.sample, Hwmon[chip].name, chip, f)
    BY <2>2, SensorFileIs
  <2>4. <<"hwmon", chip, "name">> \in R
    BY HwmonReads
  <2>5. \A s : isReading(s, chipName(R \ L, chip), chip, f) => s \in without("hwmon", L)
    <3> TAKE s
    <3> HAVE isReading(s, chipName(R \ L, chip), chip, f)
    <3>1. sensorLeft(s, L, chipName(R \ L, chip), chip, f)
      BY <2>2 DEF sensorLeft
    <3> QED
      BY <2>2, <3>1, HwmonWithout
  <2> HIDE DEF R
  <2>6. \E s \in without("hwmon", L) : alike(s, x.sample)
    BY <2>3, <2>5, ReadingsAlike
  <2>7. ASSUME x.naming \cap L = {} PROVE x.sample \in without("hwmon", L)
    <3>1. <<"hwmon", chip, "name">> \in R \ L
      BY <2>2, <2>4, <2>7
    <3>2. chipName(R \ L, chip) = Hwmon[chip].name
      BY <3>1, Zenon DEF chipName
    <3> QED
      BY <2>3, <2>5, <3>2
  <2> QED
    BY <1>2, <2>6, <2>7 DEF keeps
<1>3. CASE c = "power"
  <2> DEFINE R == coreReads("power")
  <2>1. PICK z \in zones : x \in held(zoneFile(z), {<<"powercap">>, <<"powercap", z>>},
                                      {<<"powercap", z, "name">>})
    BY <1>3, PowerHolds
  <2>2. /\ x.sample \in zoneFile(z) /\ x.naming = {<<"powercap", z, "name">>}
        /\ <<"powercap">> \notin L /\ <<"powercap", z>> \notin L
    BY <2>1, HeldIs
  <2>3. zoneSample(z, R \ L) \in without("power", L)
    <3>1. zoneLeft(zoneSample(z, R \ L), L, z, R \ L)
      BY <2>2 DEF zoneLeft
    <3> QED
      BY <2>2, <3>1, PowerWithout
  <2>4. <<"powercap", z, "name">> \in R
    BY PowerReads
  <2> HIDE DEF R
  <2>5. x.naming \cap L = {} => zoneSample(z, R \ L) = x.sample
    BY <2>2, <2>4, ZoneAlike
  <2>6. alike(zoneSample(z, R \ L), x.sample)
    BY <2>2, ZoneAlike
  <2> QED
    BY <1>3, <2>3, <2>5, <2>6 DEF keeps
<1>4. CASE c = "pcie_aer"
  <2>0. PICK a \in DOMAIN Aer : \E f \in DOMAIN Aer[a] :
            x \in held(readAERFile(a, f), {<<"pci">>, <<"pci", a, f>>}, {})
    BY <1>4, AerHolds
  <2>1. PICK f \in DOMAIN Aer[a] : x \in held(readAERFile(a, f), {<<"pci">>, <<"pci", a, f>>}, {})
    BY <2>0
  <2>2. x.sample \in readAERFile(a, f) /\ <<"pci">> \notin L /\ <<"pci", a, f>> \notin L
    BY <2>1, HeldIs
  <2>3. lineLeft(x.sample, L, a, f)
    BY <2>2 DEF lineLeft
  <2>4. x.sample \in without("pcie_aer", L)
    BY <2>2, <2>3, AerWithout
  <2> QED
    BY <1>4, <2>4, AlikeItself DEF keeps
<1> QED
  BY <1>1, <1>2, <1>3, <1>4 DEF stillNames

(* What is returned was held by files that are none of L.                  *)
LEMMA ReturnedWasRead ==
    ASSUME NEW c \in stillNames, NEW L, NEW s \in without(c, L)
    PROVE  \E x \in contents(c) : x.needs \cap L = {} /\ alike(s, x.sample)
<1>1. CASE c \in {"heartbeat", "loadavg", "mem", "net", "disk", "psi"}
  <2>1. L \cap coreReads(c) = {} /\ s \in still(c, coreReads(c)).out
    BY <1>1, AllOrNothing
  <2>2. PICK x \in contents(c) : x.sample = s /\ x.needs = coreReads(c)
    BY <1>1, <2>1, WholeIs
  <2> QED
    BY <2>1, <2>2, AlikeItself
<1>2. CASE c = "hwmon"
  <2> DEFINE R == coreReads("hwmon")
  <2>1. PICK chip \in DOMAIN Hwmon : \E f \in inputs(chip) :
            sensorLeft(s, L, chipName(R \ L, chip), chip, f)
    BY <1>2, HwmonWithout
  <2>2. PICK f \in inputs(chip) : sensorLeft(s, L, chipName(R \ L, chip), chip, f)
    BY <2>1
  <2> DEFINE needs == {<<"hwmon">>, <<"hwmon", chip>>, <<"hwmon", chip, f>>}
             naming == {<<"hwmon", chip, "name">>}
  <2>3. needs \cap L = {}
    BY <1>2, <2>2, HwmonWithout DEF sensorLeft
  <2>4. isReading(s, chipName(R \ L, chip), chip, f)
    BY <2>2 DEF sensorLeft
  <2>5. PICK t : isReading(t, Hwmon[chip].name, chip, f) /\ alike(s, t)
    BY <2>4, ReadingsAlike
  <2>6. t \in sensorFile(chip, f)
    BY <2>5, SensorFileIs
  <2>7. PICK x \in held(sensorFile(chip, f), needs, naming) : x.sample = t /\ x.needs = needs
    BY <2>6, HeldIs
  <2>8. x \in contents("hwmon")
    BY <2>7, HwmonHolds
  <2> QED
    BY <1>2, <2>3, <2>5, <2>7, <2>8
<1>3. CASE c = "power"
  <2> DEFINE R == coreReads("power")
  <2>1. PICK z \in zones : <<"powercap", z>> \notin L /\ s = zoneSample(z, R \ L)
    BY <1>3, PowerWithout DEF zoneLeft
  <2> DEFINE needs == {<<"powercap">>, <<"powercap", z>>}
             naming == {<<"powercap", z, "name">>}
  <2>2. needs \cap L = {}
    BY <1>3, <2>1, PowerWithout
  <2>3. PICK t : t \in zoneFile(z)
    BY DEF zoneFile
  <2>4. alike(s, t)
    BY <2>1, <2>3, ZoneAlike
  <2>5. PICK x \in held(zoneFile(z), needs, naming) : x.sample = t /\ x.needs = needs
    BY <2>3, HeldIs
  <2>6. x \in contents("power")
    BY <2>5, PowerHolds
  <2> QED
    BY <1>3, <2>2, <2>4, <2>5, <2>6
<1>4. CASE c = "pcie_aer"
  <2>1. PICK a \in DOMAIN Aer : \E f \in DOMAIN Aer[a] : lineLeft(s, L, a, f)
    BY <1>4, AerWithout
  <2>2. PICK f \in DOMAIN Aer[a] : lineLeft(s, L, a, f)
    BY <2>1
  <2> DEFINE needs == {<<"pci">>, <<"pci", a, f>>}
  <2>3. needs \cap L = {} /\ s \in readAERFile(a, f)
    BY <1>4, <2>2, AerWithout DEF lineLeft
  <2>4. PICK x \in held(readAERFile(a, f), needs, {}) : x.sample = s /\ x.needs = needs
    BY <2>3, HeldIs
  <2>5. x \in contents("pcie_aer")
    BY <2>4, AerHolds
  <2> QED
    BY <1>4, <2>3, <2>4, <2>5, AlikeItself
<1> QED
  BY <1>1, <1>2, <1>3, <1>4 DEF stillNames

-----------------------------------------------------------------------------
(* After the first k collectors O holds what the failed reads of L leave,  *)
(* and otherwise only utilisations.                                        *)
covers(O, L, k) ==
    /\ \A i \in 1..k : coreTier[i] # "cpu" => without(coreTier[i], L) \subseteq O
    /\ \A s \in O : \/ s.metric = "cpu_util_pct"
                    \/ \E i \in 1..k : coreTier[i] # "cpu" /\ s \in without(coreTier[i], L)

CoreInv ==
    tier = "core" =>
        /\ next \in 1..11
        /\ \A r \in failed : \E i \in 1..(next - 1) : r \in coreReads(coreTier[i])
        /\ covers(out, failed, next - 1)
        /\ IF polled THEN covers(metrics, lost, 10) ELSE metrics = {}

LEMMA CoreCollectors10 ==
    ASSUME tier = "core"
    PROVE  /\ collectors = coreTier /\ Len(collectors) = 10
           /\ \A i \in 1..10 : collectors[i] \in stillNames \cup {"cpu"}
           /\ \A c \in stillNames \cup {"cpu"} : reads(c) = coreReads(c)
<1>1. collectors = coreTier
  BY Zenon DEF collectors
<1>2. \A c \in stillNames \cup {"cpu"} : reads(c) = coreReads(c)
  BY DEF reads, stillNames
<1> QED
  BY <1>1, <1>2, CoreOrder

LEMMA CollectIsStill ==
    ASSUME NEW c \in stillNames, NEW ok
    PROVE  collect(c, ok) = still(c, ok)
<1>1. collect(c, ok) = coreCollect(c, ok, stat, prev)
  <2>1. c # "smart" /\ c # "gpu"
    BY DEF stillNames
  <2> QED
    BY <2>1, Zenon DEF collect
<1> QED
  BY <1>1, CoreIsStill

LEMMA CollectIsCpu == ASSUME NEW ok PROVE collect("cpu", ok) = cpu(ok, stat, prev)
<1>1. collect("cpu", ok) = coreCollect("cpu", ok, stat, prev)
  BY Zenon DEF collect
<1>2. coreCollect("cpu", ok, stat, prev) = cpu(ok, stat, prev)
  BY SMT DEF coreCollect
<1> QED
  BY <1>1, <1>2

LEMMA CpuSamples ==
    ASSUME NEW ok, NEW s \in taken(collect("cpu", ok))
    PROVE  /\ <<"stat">> \in ok
           /\ \E d \in DOMAIN stat \cap DOMAIN prev : s \in cpuUtil(d, stat[d], prev[d])
<1>1. s \in taken(cpu(ok, stat, prev))
  BY CollectIsCpu
<1>2. <<"stat">> \in ok
  BY <1>1 DEF cpu, taken, fails
<1>3. s \in UNION {cpuUtil(d, stat[d], prev[d]) : d \in DOMAIN stat \cap DOMAIN prev}
  BY <1>1, <1>2 DEF cpu, taken, returns
<1> QED
  BY <1>2, <1>3

LEMMA UtilShape ==
    ASSUME NEW d, NEW x, NEW p, NEW s \in cpuUtil(d, x, p)
    PROVE  /\ ~(busy(x) - busy(p) < 0) /\ ~(idle(x) - idle(p) < 0)
           /\ ~((busy(x) - busy(p)) + (idle(x) - idle(p)) <= 0)
           /\ s.device = <<d>> /\ s.metric = "cpu_util_pct"
           /\ s.value = (100 * (busy(x) - busy(p)))
                            \div ((busy(x) - busy(p)) + (idle(x) - idle(p)))
<1> DEFINE db == busy(x) - busy(p)
           di == idle(x) - idle(p)
           q == (100 * db) \div (db + di)
           util == sample(<<d>>, "cpu_util_pct", q, <<>>)
<1>1. cpuUtil(d, x, p) = IF db < 0 \/ di < 0 \/ db + di <= 0 THEN {} ELSE {util}
  BY DEF cpuUtil
<1> HIDE DEF db, di, q
<1>2. /\ util.device = <<d>> /\ util.metric = "cpu_util_pct" /\ util.value = q
  BY SampleFields
<1> HIDE DEF util
<1>3. ~(db < 0) /\ ~(di < 0) /\ ~(db + di <= 0) /\ s = util
  <2>1. CASE db < 0 \/ di < 0 \/ db + di <= 0
    <3>1. cpuUtil(d, x, p) = {}
      BY <1>1, <2>1, Zenon
    <3> QED
      BY <3>1, Zenon
  <2>2. CASE ~(db < 0 \/ di < 0 \/ db + di <= 0)
    <3>1. cpuUtil(d, x, p) = {util}
      BY <1>1, <2>2, Zenon
    <3> QED
      BY <2>2, <3>1, Zenon
  <2> QED
    BY <2>1, <2>2, Zenon
<1>4. /\ ~(db < 0) /\ ~(di < 0) /\ ~(db + di <= 0) /\ s.device = <<d>> /\ s.metric = "cpu_util_pct"
      /\ s.value = q
  BY <1>2, <1>3, Zenon
<1> QED
  BY <1>4, Zenon DEF db, di, q

(* The reads of the other collectors do not matter to this one.            *)
LEMMA WithoutOthers ==
    ASSUME NEW c, NEW L, NEW M, L \cap coreReads(c) = M \cap coreReads(c)
    PROVE  without(c, L) = without(c, M)
<1>1. coreReads(c) \ L = coreReads(c) \ M
  OBVIOUS
<1> QED
  BY <1>1 DEF without

LEMMA CoreStep == ASSUME CoreInv, [Next]_vars PROVE CoreInv'
<1> SUFFICES ASSUME tier = "core", tier' = "core" PROVE CoreInv'
  BY TierStays DEF CoreInv
<1>1. /\ next \in 1..11
      /\ \A r \in failed : \E i \in 1..(next - 1) : r \in coreReads(coreTier[i])
      /\ covers(out, failed, next - 1)
      /\ polled => covers(metrics, lost, 10)
      /\ ~polled => metrics = {}
  BY DEF CoreInv
<1>2. ASSUME UNCHANGED pollVars PROVE CoreInv'
  BY <1>1, <1>2 DEF CoreInv, pollVars
<1>3. ASSUME Collect PROVE CoreInv'
  <2> DEFINE c == coreTier[next]
  <2>1. next \in 1..10 /\ collectors = coreTier /\ c \in stillNames \cup {"cpu"} /\ reads(c) = coreReads(c)
    <3>1. next <= 10
      <4>1. next <= Len(collectors)
        BY <1>3 DEF Collect
      <4>2. Len(collectors) = 10
        BY CoreCollectors10
      <4> QED
        BY <4>1, <4>2, Zenon
    <3>2. next \in 1..10
      BY <1>1, <3>1
    <3>3. collectors = coreTier
      BY CoreCollectors10, Zenon
    <3>4. coreTier[next] \in stillNames \cup {"cpu"}
      BY <3>2, CoreOrder, Zenon
    <3>5. reads(coreTier[next]) = coreReads(coreTier[next])
      BY <3>4, CoreCollectors10, Zenon
    <3> QED
      BY <3>2, <3>3, <3>4, <3>5
  <2>2. PICK F : collectsWith(c, F)
    BY <1>3, <2>1, CollectStep
  <2>3. /\ F \subseteq coreReads(c) /\ next' = next + 1 /\ failed' = failed \cup F
        /\ out' = out \cup taken(collect(c, coreReads(c) \ F))
        /\ UNCHANGED <<metrics, lost, polled>>
    BY <2>1, <2>2 DEF collectsWith
  <2>4. \A i \in 1..10 : i # next => coreReads(coreTier[i]) \cap coreReads(c) = {}
    BY <2>1, CoreOrder, ReadsDisjoint
  <2>5. \A i \in 1..(next - 1) : without(coreTier[i], failed') = without(coreTier[i], failed)
    <3> TAKE i \in 1..(next - 1)
    <3>1. coreReads(coreTier[i]) \cap coreReads(c) = {}
      BY <2>1, <2>4
    <3>2. failed' \cap coreReads(coreTier[i]) = failed \cap coreReads(coreTier[i])
      BY <2>3, <3>1
    <3> QED
      BY <3>2, WithoutOthers
  <2>6. failed \cap coreReads(c) = {}
    <3>1. \A r \in failed : \E i \in 1..10 : i # next /\ r \in coreReads(coreTier[i])
      BY <1>1, <2>1
    <3> QED
      BY <2>4, <3>1
  <2>7. without(c, failed') = taken(still(c, coreReads(c) \ F))
    <3>1. failed' \cap coreReads(c) = F \cap coreReads(c)
      BY <2>3, <2>6
    <3>2. without(c, failed') = without(c, F)
      BY <3>1, WithoutOthers
    <3> QED
      BY <3>2 DEF without
  <2>8. CASE c = "cpu"
    <3>1. \A s \in taken(collect(c, coreReads(c) \ F)) : s.metric = "cpu_util_pct"
      BY <2>8, CpuSamples, UtilShape
    <3> HIDE DEF c
    <3>2. covers(out', failed', next' - 1)
      <4>1. next' - 1 = next /\ \A i \in 1..next : i = next \/ i \in 1..(next - 1)
        BY <2>1, <2>3
      <4>2. coreTier[next] = "cpu"
        BY <2>8 DEF c
      <4>3. \A i \in 1..next : coreTier[i] # "cpu" => without(coreTier[i], failed') \subseteq out'
        BY <1>1, <2>3, <2>5, <4>1, <4>2 DEF covers
      <4>4. ASSUME NEW s \in out'
            PROVE  \/ s.metric = "cpu_util_pct"
                   \/ \E i \in 1..next : coreTier[i] # "cpu" /\ s \in without(coreTier[i], failed')
        <5>1. CASE s \in out
          <6>1. \/ s.metric = "cpu_util_pct"
                \/ \E i \in 1..(next - 1) : coreTier[i] # "cpu" /\ s \in without(coreTier[i], failed)
            BY <1>1, <5>1 DEF covers
          <6> QED
            BY <2>1, <2>5, <6>1
        <5> QED
          BY <2>3, <3>1, <5>1
      <4> QED
        BY <4>1, <4>3, <4>4 DEF covers
    <3>3. \A r \in failed' : \E i \in 1..(next' - 1) : r \in coreReads(coreTier[i])
      BY <1>1, <2>1, <2>3 DEF c
    <3> QED
      BY <1>1, <2>1, <2>3, <3>2, <3>3 DEF CoreInv
  <2>9. CASE c # "cpu"
    <3>1. taken(collect(c, coreReads(c) \ F)) = without(c, failed')
      BY <2>1, <2>7, <2>9, CollectIsStill
    <3>2. covers(out', failed', next' - 1)
      <4>1. next' - 1 = next /\ \A i \in 1..next : i = next \/ i \in 1..(next - 1)
        BY <2>1, <2>3
      <4>3. \A i \in 1..next : coreTier[i] # "cpu" => without(coreTier[i], failed') \subseteq out'
        BY <1>1, <2>3, <2>5, <3>1, <4>1 DEF covers
      <4>4. ASSUME NEW s \in out'
            PROVE  \/ s.metric = "cpu_util_pct"
                   \/ \E i \in 1..next : coreTier[i] # "cpu" /\ s \in without(coreTier[i], failed')
        <5>1. CASE s \in out
          <6>1. \/ s.metric = "cpu_util_pct"
                \/ \E i \in 1..(next - 1) : coreTier[i] # "cpu" /\ s \in without(coreTier[i], failed)
            BY <1>1, <5>1 DEF covers
          <6> QED
            BY <2>1, <2>5, <6>1
        <5>2. CASE s \in without(c, failed')
          BY <2>1, <2>9, <5>2
        <5> QED
          BY <2>3, <3>1, <5>1, <5>2
      <4> QED
        BY <4>1, <4>3, <4>4 DEF covers
    <3>3. \A r \in failed' : \E i \in 1..(next' - 1) : r \in coreReads(coreTier[i])
      BY <1>1, <2>1, <2>3 DEF c
    <3> QED
      BY <1>1, <2>1, <2>3, <3>2, <3>3 DEF CoreInv
  <2> QED
    BY <2>8, <2>9
<1>4. ASSUME Publish PROVE CoreInv'
  <2>0. next > 10
    BY <1>4, CoreCollectors10, Zenon DEF Publish
  <2>1. next = 11
    BY <1>1, <2>0
  <2>2. /\ next' = 1 /\ failed' = {} /\ out' = {} /\ polled'
        /\ metrics' = out /\ lost' = failed
    BY <1>4 DEF Publish
  <2>3. covers({}, {}, 0)
    BY DEF covers
  <2> QED
    BY <1>1, <2>1, <2>2, <2>3 DEF CoreInv
<1> QED
  BY <1>2, <1>3, <1>4, HardwareStep DEF Next, vars

LEMMA FaultsFollow == ASSUME CoreInv PROVE FaultsHideOnlyTheirOwn
<1> SUFFICES ASSUME published("core") PROVE FaultsHideOnlyTheirOwn
  BY DEF FaultsHideOnlyTheirOwn
<1>1. tier = "core" /\ covers(metrics, lost, 10)
  BY DEF CoreInv, published
<1>2. collectors = coreTier /\ DOMAIN collectors = 1..10
  BY <1>1, CoreCollectors10 DEF coreTier
<1>3. contents("cpu") = {}
  BY SMT DEF contents
<1>4. ASSUME NEW i \in DOMAIN collectors, NEW x \in contents(collectors[i]), x.needs \cap lost = {}
      PROVE  /\ x.naming \cap lost = {} => x.sample \in metrics
             /\ \E s \in metrics : alike(s, x.sample)
  <2> DEFINE c == collectors[i]
  <2>1. c # "cpu"
    BY <1>3, <1>4
  <2>2. c \in stillNames
    BY <1>2, <2>1, CoreOrder
  <2>3. without(c, lost) \subseteq metrics
    BY <1>1, <1>2, <2>1 DEF covers
  <2> HIDE DEF c
  <2>4. keeps(x, c, lost)
    BY <1>4, <2>2, ReadIsReturned DEF c
  <2> QED
    BY <2>3, <2>4 DEF keeps
<1>5. ASSUME NEW s \in metrics, s.metric # "cpu_util_pct"
      PROVE  \E i \in DOMAIN collectors : \E x \in contents(collectors[i]) :
                 x.needs \cap lost = {} /\ alike(s, x.sample)
  <2>1. PICK i \in 1..10 : coreTier[i] # "cpu" /\ s \in without(coreTier[i], lost)
    BY <1>1, <1>5 DEF covers
  <2>2. coreTier[i] \in stillNames
    BY <2>1, CoreOrder
  <2>3. \E x \in contents(coreTier[i]) : x.needs \cap lost = {} /\ alike(s, x.sample)
    BY <2>1, <2>2, ReturnedWasRead
  <2> QED
    BY <1>2, <2>3
<1> QED
  BY <1>4, <1>5, Zenon DEF FaultsHideOnlyTheirOwn

-----------------------------------------------------------------------------
(* Processor time: what has passed since prev was read is known as long as *)
(* no counter went back.                                                   *)
Times == [CpuModes -> Nat]
Cpus == {"cpu", "cpu0"}

tracks(d, x, p, w) ==
    w.steady => busy(x) = busy(p) + w.busy /\ idle(x) = idle(p) + w.idle

CpuInv ==
    tier = "core" =>
        /\ DOMAIN stat \subseteq Cpus /\ "cpu" \in DOMAIN stat /\ DOMAIN prev \subseteq Cpus
        /\ \A d \in DOMAIN stat : stat[d] \in Times
        /\ \A d \in DOMAIN prev : prev[d] \in Times
        /\ since \in [Cpus -> [busy : Nat, idle : Nat, steady : BOOLEAN, known : BOOLEAN]]
        /\ \A d \in Cpus : since[d].known => d \in DOMAIN prev
        /\ \A d \in DOMAIN prev : since[d].known
        /\ \A d \in DOMAIN stat \cap DOMAIN prev : tracks(d, stat[d], prev[d], since[d])

LEMMA TimesAreNat == ASSUME NEW s \in Times PROVE busy(s) \in Nat /\ idle(s) \in Nat
  BY DEF Times, CpuModes, busy, idle

LEMMA TimePasses ==
    ASSUME NEW s \in Times, NEW m \in CpuModes, NEW t, t = [s EXCEPT ![m] = @ + 1]
    PROVE  /\ t \in Times
           /\ m \in {"idle", "iowait"} => busy(t) = busy(s) /\ idle(t) = idle(s) + 1
           /\ m \notin {"idle", "iowait"} => busy(t) = busy(s) + 1 /\ idle(t) = idle(s)
  BY DEF Times, CpuModes, busy, idle

LEMMA UtilBounded ==
    ASSUME NEW db \in Int, NEW di \in Int, ~(db < 0), ~(di < 0), ~(db + di <= 0)
    PROVE  (100 * db) \div (db + di) <= 100
<1> DEFINE n == db + di
           q == (100 * db) \div n
<1>1. n \in Nat \ {0} /\ db <= n /\ 100 * db \in Nat
  OBVIOUS
<1> HIDE DEF n
<1>2. q \in Int /\ n * q <= 100 * db
  BY <1>1
<1> HIDE DEF q
<1>3. ASSUME q >= 101 PROVE FALSE
  <2>1. n * q >= n * 101
    BY <1>1, <1>2, <1>3
  <2> QED
    BY <1>1, <1>2, <2>1
<1> QED
  BY <1>2, <1>3 DEF q, n

LEMMA CpuStep == ASSUME CpuInv, [Next]_vars PROVE CpuInv'
<1> SUFFICES ASSUME tier = "core", tier' = "core" PROVE CpuInv'
  BY TierStays DEF CpuInv
<1>0. /\ DOMAIN stat \subseteq Cpus /\ "cpu" \in DOMAIN stat /\ DOMAIN prev \subseteq Cpus
      /\ \A d \in DOMAIN stat : stat[d] \in Times
      /\ \A d \in DOMAIN prev : prev[d] \in Times
      /\ since \in [Cpus -> [busy : Nat, idle : Nat, steady : BOOLEAN, known : BOOLEAN]]
      /\ \A d \in Cpus : since[d].known => d \in DOMAIN prev
      /\ \A d \in DOMAIN prev : since[d].known
      /\ \A d \in DOMAIN stat \cap DOMAIN prev : tracks(d, stat[d], prev[d], since[d])
  BY DEF CpuInv
<1>1. ASSUME UNCHANGED <<stat, prev, since>> PROVE CpuInv'
  BY <1>0, <1>1 DEF CpuInv
<1>2. ASSUME NEW m \in Modes, Runs(m) PROVE CpuInv'
  <2>1. /\ stat' = [d \in DOMAIN stat |-> [stat[d] EXCEPT ![m] = @ + 1]] /\ prev' = prev
        /\ since' = [d \in DOMAIN since |->
                        IF d \notin DOMAIN stat THEN since[d]
                        ELSE IF m \in {"idle", "iowait"} THEN [since[d] EXCEPT !.idle = @ + 1]
                        ELSE [since[d] EXCEPT !.busy = @ + 1]]
    BY <1>2 DEF Runs, pollVars
  <2>2. m \in CpuModes
    BY TiersAssumption
  <2>3. \A d \in DOMAIN stat : stat'[d] = [stat[d] EXCEPT ![m] = @ + 1] /\ stat'[d] \in Times
    BY <1>0, <2>1, <2>2, TimePasses
  <2>4. since' \in [Cpus -> [busy : Nat, idle : Nat, steady : BOOLEAN, known : BOOLEAN]]
        /\ \A d \in Cpus : since'[d].known = since[d].known
    BY <1>0, <2>1
  <2>5. ASSUME NEW d \in DOMAIN stat \cap DOMAIN prev
        PROVE  tracks(d, stat'[d], prev[d], since'[d])
    <3>1. tracks(d, stat[d], prev[d], since[d]) /\ stat[d] \in Times /\ prev[d] \in Times
      BY <1>0
    <3>2. /\ m \in {"idle", "iowait"} => busy(stat'[d]) = busy(stat[d]) /\ idle(stat'[d]) = idle(stat[d]) + 1
          /\ m \notin {"idle", "iowait"} => busy(stat'[d]) = busy(stat[d]) + 1 /\ idle(stat'[d]) = idle(stat[d])
      <4> DEFINE t == stat'[d]
      <4>1. t = [stat[d] EXCEPT ![m] = @ + 1]
        BY <2>3
      <4> HIDE DEF t
      <4>2. /\ m \in {"idle", "iowait"} => busy(t) = busy(stat[d]) /\ idle(t) = idle(stat[d]) + 1
            /\ m \notin {"idle", "iowait"} => busy(t) = busy(stat[d]) + 1 /\ idle(t) = idle(stat[d])
        BY <2>2, <3>1, <4>1, TimePasses
      <4> QED
        BY <4>2 DEF t
    <3>3. /\ since'[d].steady = since[d].steady
          /\ m \in {"idle", "iowait"} => since'[d].busy = since[d].busy /\ since'[d].idle = since[d].idle + 1
          /\ m \notin {"idle", "iowait"} => since'[d].busy = since[d].busy + 1 /\ since'[d].idle = since[d].idle
      BY <1>0, <2>1
    <3>4. /\ since[d].busy \in Nat /\ since[d].idle \in Nat
          /\ busy(stat[d]) \in Nat /\ idle(stat[d]) \in Nat /\ busy(prev[d]) \in Nat /\ idle(prev[d]) \in Nat
      BY <1>0, <3>1, TimesAreNat
    <3> QED
      BY <3>1, <3>2, <3>3, <3>4 DEF tracks
  <2>6. DOMAIN stat' = DOMAIN stat
    BY <2>1
  <2> QED
    BY <1>0, <2>1, <2>3, <2>4, <2>5, <2>6 DEF CpuInv
<1>3. ASSUME NEW d \in Cpus, NEW m \in Modes, GoesBack(d, m) PROVE CpuInv'
  <2>1. /\ d \in DOMAIN stat /\ stat' = [stat EXCEPT ![d][m] = 0] /\ prev' = prev
        /\ since' = [since EXCEPT ![d].steady = FALSE]
    BY <1>3 DEF GoesBack, pollVars
  <2>2. m \in CpuModes
    BY TiersAssumption
  <2>3. DOMAIN stat' = DOMAIN stat /\ \A e \in DOMAIN stat : stat'[e] \in Times
    BY <1>0, <2>1, <2>2 DEF Times
  <2>4. since' \in [Cpus -> [busy : Nat, idle : Nat, steady : BOOLEAN, known : BOOLEAN]]
        /\ \A e \in Cpus : since'[e].known = since[e].known
    BY <1>0, <2>1
  <2>5. ASSUME NEW e \in DOMAIN stat \cap DOMAIN prev
        PROVE  tracks(e, stat'[e], prev[e], since'[e])
    <3>1. CASE e = d
      BY <1>0, <2>1, <3>1 DEF tracks
    <3>2. CASE e # d
      <4>1. stat'[e] = stat[e] /\ since'[e] = since[e]
        BY <1>0, <2>1, <3>2
      <4> QED
        BY <1>0, <4>1
    <3> QED
      BY <3>1, <3>2
  <2> QED
    BY <1>0, <2>1, <2>3, <2>4, <2>5 DEF CpuInv
<1>4. ASSUME HotPlug PROVE CpuInv'
  <2>1. /\ stat' = IF "cpu0" \in DOMAIN stat THEN [d \in {"cpu"} |-> stat[d]]
                   ELSE [d \in Cpus |-> IF d = "cpu0" THEN rest ELSE stat[d]]
        /\ since' = [since EXCEPT !["cpu0"].steady = FALSE] /\ prev' = prev
    BY <1>4 DEF HotPlug, pollVars, Cpus
  <2>2. /\ DOMAIN stat' \subseteq Cpus /\ "cpu" \in DOMAIN stat' /\ stat'["cpu"] = stat["cpu"]
        /\ "cpu0" \in DOMAIN stat' => stat'["cpu0"] = rest
    BY <2>1 DEF Cpus
  <2>3. \A e \in DOMAIN stat' : stat'[e] \in Times
    BY <1>0, <2>2 DEF Cpus, Times, rest
  <2>4. since' \in [Cpus -> [busy : Nat, idle : Nat, steady : BOOLEAN, known : BOOLEAN]]
        /\ (\A e \in Cpus : since'[e].known = since[e].known)
        /\ since'["cpu"] = since["cpu"] /\ ~since'["cpu0"].steady
    BY <1>0, <2>1 DEF Cpus
  <2>5. ASSUME NEW e \in DOMAIN stat' \cap DOMAIN prev
        PROVE  tracks(e, stat'[e], prev[e], since'[e])
    BY <1>0, <2>2, <2>4 DEF tracks, Cpus
  <2> QED
    BY <1>0, <2>1, <2>2, <2>3, <2>4, <2>5 DEF CpuInv
<1>5. ASSUME Hardware PROVE CpuInv'
  <2>1. ~\E g \in Gpus : EccError(g) \/ DriverReload(g)
    BY DEF EccError, DriverReload, between
  <2> QED
    BY <1>2, <1>3, <1>4, <1>5, <2>1 DEF Hardware, Cpus
<1>6. ASSUME Collect PROVE CpuInv'
  <2>1. PICK c, F : collectsWith(c, F)
    BY <1>6, CollectStep
  <2>2. UNCHANGED stat /\ prev' = baseline(c, reads(c) \ F) /\ since' = sinceThen(c, reads(c) \ F)
    BY <2>1 DEF collectsWith
  <2>3. CASE c = "cpu" /\ <<"stat">> \in reads(c) \ F
    <3>1. prev' = stat /\ since' = [d \in DOMAIN since |-> nothingSince(d \in DOMAIN stat)]
      BY <2>2, <2>3, Zenon DEF baseline, sinceThen
    <3>2. /\ since' \in [Cpus -> [busy : Nat, idle : Nat, steady : BOOLEAN, known : BOOLEAN]]
          /\ \A d \in Cpus : /\ since'[d].known = (d \in DOMAIN stat)
                             /\ since'[d].busy = 0 /\ since'[d].idle = 0
      BY <1>0, <3>1 DEF nothingSince
    <3>3. \A d \in DOMAIN stat : tracks(d, stat[d], stat[d], since'[d])
      BY <1>0, <3>2, TimesAreNat DEF tracks
    <3> QED
      BY <1>0, <2>2, <3>1, <3>2, <3>3 DEF CpuInv
  <2>4. CASE ~(c = "cpu" /\ <<"stat">> \in reads(c) \ F)
    <3>1. prev' = prev /\ since' = since
      BY <2>2, <2>4, Zenon DEF baseline, sinceThen
    <3> QED
      BY <1>1, <2>2, <3>1
  <2> QED
    BY <2>3, <2>4
<1>7. ASSUME Publish PROVE CpuInv'
  BY <1>1, <1>7 DEF Publish
<1>8. ASSUME UNCHANGED vars PROVE CpuInv'
  BY <1>1, <1>8 DEF vars, hwVars, pollVars
<1> QED
  BY <1>5, <1>6, <1>7, <1>8 DEF Next

-----------------------------------------------------------------------------
(* A utilisation comes from the cpu collector, an ECC total from gpu.      *)
LEMMA SmartNames ==
    ASSUME NEW ok, NEW s \in smartCollect(ok).out
    PROVE  s.metric \notin taboo
<1>1. PICK n \in found(ok) : s \in smartSamples(probed(n, ok))
  BY ProbeFinds DEF smartCollect
<1>2. n \in supported
  BY DEF found
<1> DEFINE d == probed(n, ok)
<1>3. ASSUME NEW a \in d.ataAttrs PROVE a[1] \notin taboo
  BY <1>2, AttrNames DEF sataAttrMetrics, taboo, counters
<1> HIDE DEF d
<1>4. PICK q \in nativeDefs(d) : \E v \in q[2] : s = diskSample(d.name, q[1], v)
  BY <1>1, SmartSampleShape DEF d
<1>5. q[1] \notin taboo
  BY <1>3 DEF nativeDefs, taboo, counters
<1> QED
  BY <1>4, <1>5 DEF diskSample

LEMMA GpuNames ==
    ASSUME NEW ok, NEW h, NEW s \in gpuCollect(ok, h).out
    PROVE  s.metric # "cpu_util_pct"
<1>1. PICK d : s \in gpuSamples(d)
  BY GpuSampleOf
<1> QED
  BY <1>1, GpuSampleShape, NativeNames

LEMMA OutGrows ==
    ASSUME [Next]_vars, NEW s \in out', s \notin out
    PROVE  /\ next <= Len(collectors)
           /\ \E F : collectsWith(collectors[next], F)
                     /\ s \in taken(collect(collectors[next], reads(collectors[next]) \ F))
<1>1. ASSUME Hardware PROVE FALSE
  BY <1>1, HardwareStep DEF pollVars
<1>2. ASSUME Publish \/ UNCHANGED vars PROVE FALSE
  BY <1>2 DEF Publish, vars, pollVars
<1>3. Collect
  BY <1>1, <1>2 DEF Next
<1> QED
  BY <1>3, CollectStep DEF collectsWith

tierKnown == tier \in {"core", "smart", "gpu"}

LEMMA UtilFollows ==
    ASSUME tierKnown, GpuInv, SmartInv, CoreInv, CpuInv, [Next]_vars,
           NEW s \in out' \ out, s.metric = "cpu_util_pct"
    PROVE  LET w == since[s.device[1]] IN
           /\ w.known /\ s.value <= 100
           /\ w.steady => s.value = (100 * w.busy) \div (w.busy + w.idle)
<1>1. PICK F : s \in taken(collect(collectors[next], reads(collectors[next]) \ F))
  BY OutGrows
<1> DEFINE c == collectors[next]
           ok == reads(c) \ F
<1>2. next <= Len(collectors)
  BY OutGrows
<1>3. ASSUME tier = "smart" PROVE FALSE
  <2>1. c = "smart"
    <3>1. collectors = <<"smart">> /\ Len(collectors) = 1
      BY <1>3, OneCollector
    <3>2. next \in {1, 2}
      BY <1>3 DEF SmartInv
    <3>3. next = 1
      BY <1>2, <3>1, <3>2
    <3> QED
      BY <3>1, <3>3
  <2>2. collect("smart", ok) = smartCollect(ok)
    BY Zenon DEF collect
  <2>3. taken(smartCollect(ok)) = smartCollect(ok).out
    BY DEF taken, smartCollect
  <2>4. s \in smartCollect(ok).out
    BY <1>1, <2>1, <2>2, <2>3, Zenon
  <2> QED
    BY <2>4, SmartNames DEF taboo
<1>4. ASSUME tier = "gpu" PROVE FALSE
  <2>1. c = "gpu"
    <3>1. collectors = <<"gpu">> /\ Len(collectors) = 1
      BY <1>4, OneCollector
    <3>2. next \in {1, 2}
      BY <1>4 DEF GpuInv
    <3>3. next = 1
      BY <1>2, <3>1, <3>2
    <3> QED
      BY <3>1, <3>3
  <2>2. collect("gpu", ok) = gpuCollect(ok, hw)
    BY Zenon DEF collect
  <2>3. taken(gpuCollect(ok, hw)) = gpuCollect(ok, hw).out
    BY DEF taken, gpuCollect
  <2>4. s \in gpuCollect(ok, hw).out
    BY <1>1, <2>1, <2>2, <2>3, Zenon
  <2> QED
    BY <2>4, GpuNames
<1>5. tier = "core"
  BY <1>3, <1>4 DEF tierKnown
<1>6. c \in stillNames \cup {"cpu"}
  <2>1. Len(collectors) = 10 /\ \A i \in 1..10 : collectors[i] \in stillNames \cup {"cpu"}
    BY <1>5, CoreCollectors10
  <2>2. next \in 1..10
    BY <1>2, <1>5, <2>1 DEF CoreInv
  <2> QED
    BY <2>1, <2>2
<1> HIDE DEF c, ok
<1>7. c = "cpu"
  <2>1. ASSUME c \in stillNames PROVE FALSE
    <3>1. s \in still(c, ok).out
      BY <1>1, <2>1, CollectIsStill DEF c, ok, taken
    <3> QED
      BY <2>1, <3>1, StillMetrics DEF taboo
  <2> QED
    BY <1>6, <2>1
<1>8. PICK d \in DOMAIN stat \cap DOMAIN prev : s \in cpuUtil(d, stat[d], prev[d])
  <2>1. s \in taken(collect("cpu", ok))
    BY <1>1, <1>7 DEF c, ok
  <2> QED
    BY <2>1, CpuSamples
<1> DEFINE db == busy(stat[d]) - busy(prev[d])
           di == idle(stat[d]) - idle(prev[d])
           w == since[d]
<1>9. /\ ~(db < 0) /\ ~(di < 0) /\ ~(db + di <= 0)
      /\ s.device = <<d>> /\ s.value = (100 * db) \div (db + di)
  BY <1>8, UtilShape
<1>10. s.device[1] = d
  BY <1>9
<1>11. /\ stat[d] \in Times /\ prev[d] \in Times /\ w.known
       /\ tracks(d, stat[d], prev[d], w) /\ w.busy \in Nat /\ w.idle \in Nat
  BY <1>5 DEF CpuInv
<1>12. /\ busy(stat[d]) \in Nat /\ idle(stat[d]) \in Nat
       /\ busy(prev[d]) \in Nat /\ idle(prev[d]) \in Nat
  BY <1>11, TimesAreNat
<1>13. db \in Int /\ di \in Int
  BY <1>12
<1>14. w.steady => db = w.busy /\ di = w.idle
  BY <1>11, <1>12 DEF tracks
<1> HIDE DEF db, di, w
<1>15. s.value <= 100
  BY <1>9, <1>13, UtilBounded
<1>16. w.known /\ s.value <= 100 /\ (w.steady => s.value = (100 * w.busy) \div (w.busy + w.idle))
  BY <1>9, <1>11, <1>14, <1>15, Zenon
<1> QED
  BY <1>10, <1>16 DEF w

LEMMA OnlyGpuCounts ==
    ASSUME tier \in {"core", "smart"}, SmartInv, CoreInv, NEW s \in metrics
    PROVE  s.metric \notin counters
<1>1. CASE tier = "smart"
  <2>1. \E ok : s \in smartCollect(ok).out
    BY <1>1 DEF SmartInv
  <2> QED
    BY <2>1, SmartNames DEF taboo
<1>2. CASE tier = "core"
  <2>1. covers(metrics, lost, 10)
    BY <1>2 DEF CoreInv
  <2>2. CASE s.metric = "cpu_util_pct"
    BY <2>2 DEF counters
  <2>3. CASE s.metric # "cpu_util_pct"
    <3>1. PICK i \in 1..10 : coreTier[i] # "cpu" /\ s \in without(coreTier[i], lost)
      BY <2>1, <2>3 DEF covers
    <3>2. coreTier[i] \in stillNames
      BY <3>1, CoreOrder
    <3>3. s \in still(coreTier[i], coreReads(coreTier[i]) \ lost).out
      BY <3>1 DEF without, taken
    <3> QED
      BY <3>2, <3>3, StillMetrics DEF taboo
  <2> QED
    BY <2>2, <2>3
<1> QED
  BY <1>1, <1>2

LEMMA EccFollows ==
    ASSUME tierKnown, GpuInv, SmartInv, CoreInv, [Next]_vars,
           NEW s \in metrics, NEW t \in metrics', drops(s, t)
    PROVE  t.value = 0 /\ <<t.device[1], eccCall(t.metric)>> \in lost'
<1>1. CASE tier = "gpu"
  BY <1>1, GpuDrops
<1>2. CASE tier # "gpu"
  <2>1. s.metric \in counters
    BY DEF drops
  <2> QED
    BY <1>2, <2>1, OnlyGpuCounts DEF tierKnown
<1> QED
  BY <1>1, <1>2

-----------------------------------------------------------------------------
PollInv == tierKnown /\ GpuInv /\ SmartInv /\ CoreInv /\ CpuInv

LEMMA PollInit == Init => PollInv
<1> SUFFICES ASSUME Init PROVE PollInv
  OBVIOUS
<1>1. /\ tier \in Tiers /\ next = 1 /\ failed = {} /\ out = {} /\ metrics = {} /\ polled = FALSE
      /\ stat = [d \in {"cpu", "cpu0"} |-> rest] /\ prev = <<>>
      /\ since = [d \in {"cpu", "cpu0"} |-> nothingSince(FALSE)]
      /\ ecc = [g \in Gpus |-> [aggregate |-> 0, volatile |-> 0]]
  BY DEF Init
<1>2. tierKnown
  BY <1>1, TiersAssumption DEF tierKnown
<1>3. GpuInv /\ SmartInv
  BY <1>1 DEF GpuInv, GpuPublished, Eccs, SmartInv
<1>4. CoreInv
  <2>1. covers({}, {}, 0)
    BY DEF covers
  <2> QED
    BY <1>1, <2>1 DEF CoreInv
<1>5. CpuInv
  <2>1. DOMAIN prev = {} /\ DOMAIN stat = Cpus /\ rest \in Times
    BY <1>1 DEF Cpus, Times, rest
  <2>2. since \in [Cpus -> [busy : Nat, idle : Nat, steady : BOOLEAN, known : BOOLEAN]]
        /\ \A d \in Cpus : ~since[d].known
    BY <1>1 DEF Cpus, nothingSince
  <2> QED
    BY <1>1, <2>1, <2>2 DEF CpuInv, Cpus
<1> QED
  BY <1>2, <1>3, <1>4, <1>5 DEF PollInv

LEMMA PollStep == PollInv /\ [Next]_vars => PollInv'
  BY TierStays, GpuStep, SmartStep, CoreStep, CpuStep, Zenon DEF PollInv, tierKnown

(* The samples CollectAll has gathered, the exporters' snapshots and the   *)
(* published samples are in every state those of one pass over what could  *)
(* be read, and cpuCollector.prev is the /proc/stat since which            *)
(* processor time is counted: the inductive invariant behind the others.   *)
THEOREM PollingIsCoherent == Spec => []PollInv
  BY PollInit, PollStep, PTL DEF Spec

(* A failed read costs the samples it carries and no others, and none of   *)
(* those published shows a value a faultless poll would not: for any       *)
(* hardware and any set of reads that fail, in any poll of the core tier.  *)
THEOREM FaultsAreContained == Spec => []FaultsHideOnlyTheirOwn
<1>1. PollInv => FaultsHideOnlyTheirOwn
  BY FaultsFollow DEF PollInv
<1> QED
  BY <1>1, PollingIsCoherent, PTL

(* cpuCollector's utilisation is of the interval since the last successful *)
(* poll, within 0..100 whatever the counters did, and only for a processor *)
(* that poll knew.                                                         *)
THEOREM UtilisationIsOfInterval == Spec => UtilIsOfInterval
<1>1. PollInv /\ [Next]_vars =>
         [\A s \in out' \ out : s.metric = "cpu_util_pct" =>
            LET w == since[s.device[1]] IN
            /\ w.known /\ s.value <= 100
            /\ w.steady => s.value = (100 * w.busy) \div (w.busy + w.idle)]_vars
  <2> SUFFICES ASSUME PollInv, [Next]_vars, NEW s \in out' \ out, s.metric = "cpu_util_pct"
               PROVE  LET w == since[s.device[1]] IN
                      /\ w.known /\ s.value <= 100
                      /\ w.steady => s.value = (100 * w.busy) \div (w.busy + w.idle)
    OBVIOUS
  <2>1. tierKnown /\ GpuInv /\ SmartInv /\ CoreInv /\ CpuInv
    BY DEF PollInv
  <2> QED
    BY <2>1, UtilFollows
<1> QED
  BY <1>1, PollingIsCoherent, PTL DEF Spec, UtilIsOfInterval

(* A SATA verdict needs the threshold page and a pre-failure attribute     *)
(* with a threshold, and is negative exactly when one has reached it: "no  *)
(* data" is never published as "passed" by smartCollector.                 *)
THEOREM VerdictsAreEvidenced == Spec => []HealthIsEvidenced
<1>1. PollInv => HealthIsEvidenced
  BY HealthFollows DEF PollInv
<1> QED
  BY <1>1, PollingIsCoherent, PTL

(* Between polls the native SMART metrics and smartctlcompat show the same *)
(* disks with the same readings, whatever failed in the last poll.         *)
THEOREM SmartInLockstep == Spec => []SmartSurfacesAgree
<1>1. PollInv => SmartSurfacesAgree
  BY SmartSurfacesFollow DEF PollInv
<1> QED
  BY <1>1, PollingIsCoherent, PTL

(* Between polls every reading of dcgmcompat but the constant licence      *)
(* status is a native one too, with the same identity and value.           *)
THEOREM GpuInLockstep == Spec => []GpuSurfacesAgree
<1>1. PollInv => GpuSurfacesAgree
  BY GpuSurfacesFollow DEF PollInv
<1> QED
  BY <1>1, PollingIsCoherent, PTL

(* gpu_throttle_active is published for exactly the reasons in the         *)
(* published mask that limit performance, whatever the mask.               *)
THEOREM ThrottleIsLimiting == Spec => []ThrottleActiveIffLimited
<1>1. PollInv => ThrottleActiveIffLimited
  BY ThrottleFollows DEF PollInv
<1> QED
  BY <1>1, PollingIsCoherent, PTL

(* An ECC total goes back only to zero, and only in a poll in which NVML   *)
(* did not answer the call for that total of that GPU.                     *)
THEOREM EccDropsAreUnanswered == Spec => EccDropsOnlyUnanswered
<1>1. PollInv /\ [Next]_vars =>
         [\A s \in metrics, t \in metrics' : drops(s, t) =>
            t.value = 0 /\ <<t.device[1], eccCall(t.metric)>> \in lost']_vars
  <2> SUFFICES ASSUME PollInv, [Next]_vars, NEW s \in metrics, NEW t \in metrics', drops(s, t)
               PROVE  t.value = 0 /\ <<t.device[1], eccCall(t.metric)>> \in lost'
    OBVIOUS
  <2> QED
    BY EccFollows DEF PollInv
<1> QED
  BY <1>1, PollingIsCoherent, PTL DEF Spec, EccDropsOnlyUnanswered
=============================================================================
