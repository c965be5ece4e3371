------------------------------ MODULE Polling -------------------------------
(***************************************************************************)
(* A poll: Registry.CollectAll runs the collectors of the tier one after   *)
(* the other and Metrics.Update publishes what they returned.  The smart   *)
(* and gpu collectors update their compat exporters inside their Collect.  *)
(*                                                                         *)
(* Any read may fail in any poll.  Between polls processors run, come and  *)
(* go, and GPU errors are counted.  MaxFaults and MaxUpsets bound what goes *)
(* wrong in a behaviour, not its polls.                                    *)
(***************************************************************************)
EXTENDS CoreCollectors, SmartSurface, GpuSurface

CONSTANTS Tiers,      \* the tiers that run as a DaemonSet of their own
          Telemetry,  \* what each GPU answers, apart from its ECC counters
          Modes,      \* kinds of processor time that pass in the model
          MaxFaults,  \* bound on the failed reads of a behaviour, per tier
          MaxUpsets   \* bound on failed reads and hardware steps, per tier

VARIABLES tier,    \* the tier of this process
          next,    \* the next collector of CollectAll
          failed,  \* the reads that failed in this poll
          out,     \* CollectAll's samples so far
          stat,    \* /proc/stat: processor time per device and mode
          prev,    \* cpuCollector.prev
          since,   \* what the processors did since prev was read
          ecc,     \* the ECC counters of each GPU
          steps,   \* how many steps the hardware has taken
          faults,  \* how many reads have failed
          compat,  \* the devices the smart or gpu compat exporter holds
          metrics, \* Metrics.snapshot
          lost,    \* the failed reads of the poll behind metrics
          polled   \* a poll has been published

hwVars == <<stat, since, ecc, steps>>
pollVars == <<tier, next, failed, faults, out, prev, compat, metrics, lost, polled>>
vars == <<hwVars, pollVars>>

collectors == CASE tier = "core" -> coreTier [] tier = "smart" -> <<"smart">> [] OTHER -> <<"gpu">>

CpuModes == {"user", "nice", "system", "irq", "softirq", "steal", "idle", "iowait"}
rest == [m \in CpuModes |-> 0]
nothingSince(known) == [busy |-> 0, idle |-> 0, steady |-> TRUE, known |-> known]

eccFields == {"EccUncorrected", "EccCorrected"}

(* What the GPUs answer when their ECC counters are E.                     *)
answers(E) == [g \in Gpus |-> [f \in DOMAIN Telemetry[g] \cup eccFields \cup {"volatile"} |->
                  CASE f = "volatile" -> E[g].volatile
                    [] f \in eccFields -> E[g].aggregate
                    [] OTHER -> Telemetry[g][f]]]

hw == answers(ecc)

telemetryFields == ((DOMAIN filledBy \cup memFields) \ eccFields) \cup {"throttle"}

(* Joules are whole numbers here, floating-point ones in the code.         *)
ASSUME TelemetryAssumption ==
    /\ Telemetry \in [Gpus -> [telemetryFields -> Nat]]
    /\ \A g \in Gpus : Telemetry[g]["EnergyMilliJoules"] % 1000 = 0

ASSUME TiersAssumption == Tiers \subseteq {"core", "smart", "gpu"} /\ Modes \subseteq CpuModes

Init == /\ tier \in Tiers /\ next = 1 /\ failed = {} /\ out = {}
        /\ stat = [d \in {"cpu", "cpu0"} |-> rest]
        /\ prev = <<>>
        /\ since = [d \in {"cpu", "cpu0"} |-> nothingSince(FALSE)]
        /\ ecc = [g \in Gpus |-> [aggregate |-> 0, volatile |-> 0]]
        /\ steps = 0 /\ faults = 0 /\ compat = {} /\ metrics = {} /\ lost = {} /\ polled = FALSE

-----------------------------------------------------------------------------
(* The hardware, between polls.                                            *)
between(t) == tier = t /\ next = 1 /\ steps + faults < MaxUpsets[t]

Runs(m) ==
    /\ between("core") /\ steps' = steps + 1
    /\ stat' = [d \in DOMAIN stat |-> [stat[d] EXCEPT ![m] = @ + 1]]
    /\ since' = [d \in DOMAIN since |->
                    IF d \notin DOMAIN stat THEN since[d]
                    ELSE IF m \in {"idle", "iowait"} THEN [since[d] EXCEPT !.idle = @ + 1]
                    ELSE [since[d] EXCEPT !.busy = @ + 1]]
    /\ UNCHANGED <<ecc, pollVars>>

(* A counter goes back: the kernel lets iowait decrease.                   *)
GoesBack(d, m) ==
    /\ between("core") /\ steps' = steps + 1
    /\ d \in DOMAIN stat /\ stat[d][m] > 0
    /\ stat' = [stat EXCEPT ![d][m] = 0]
    /\ since' = [since EXCEPT ![d].steady = FALSE]
    /\ UNCHANGED <<ecc, pollVars>>

(* A processor is taken offline, or comes back with its counters at zero.  *)
HotPlug ==
    /\ between("core") /\ steps' = steps + 1
    /\ stat' = IF "cpu0" \in DOMAIN stat THEN [d \in {"cpu"} |-> stat[d]]
               ELSE [d \in {"cpu", "cpu0"} |-> IF d = "cpu0" THEN rest ELSE stat[d]]
    /\ since' = [since EXCEPT !["cpu0"].steady = FALSE]
    /\ UNCHANGED <<ecc, pollVars>>

EccError(g) ==
    /\ between("gpu") /\ steps' = steps + 1
    /\ ecc' = [ecc EXCEPT ![g] = [aggregate |-> @.aggregate + 1, volatile |-> @.volatile + 1]]
    /\ UNCHANGED <<stat, since, pollVars>>

(* A driver reload clears the volatile counters only.                      *)
DriverReload(g) ==
    /\ between("gpu") /\ steps' = steps + 1
    /\ ecc[g].volatile > 0
    /\ ecc' = [ecc EXCEPT ![g].volatile = 0]
    /\ UNCHANGED <<stat, since, pollVars>>

Hardware == \/ \E m \in Modes : Runs(m)
            \/ \E d \in {"cpu", "cpu0"}, m \in Modes : GoesBack(d, m)
            \/ HotPlug
            \/ \E g \in Gpus : EccError(g) \/ DriverReload(g)

-----------------------------------------------------------------------------
(* CollectAll.                                                             *)
reads(c) == CASE c = "smart" -> smartReads [] c = "gpu" -> gpuReads [] OTHER -> coreReads(c)

collect(c, ok) == CASE c = "smart" -> smartCollect(ok)
                    [] c = "gpu" -> gpuCollect(ok, hw)
                    [] OTHER -> coreCollect(c, ok, stat, prev)

UpdateBug(c, ok) == CASE c = "smart" -> IF probe(ok) = {} THEN compat
                                        ELSE toSmartctlDevices(probe(ok))
                      [] c = "gpu" -> toDCGMDevices(Read(ok, hw))
                      [] OTHER -> compat

UpdateKeepsGoneBug(c, ok) ==
    CASE c = "smart" -> toSmartctlDevices(probe(ok))
      [] c = "gpu" -> LET new == toDCGMDevices(Read(ok, hw))
                      IN new \cup {d \in compat : \A e \in new : e.index # d.index}
      [] OTHER -> compat

(* The exporter's snapshot is replaced, also by an empty one.              *)
Update(c, ok) == CASE c = "smart" -> toSmartctlDevices(probe(ok))
                   [] c = "gpu" -> toDCGMDevices(Read(ok, hw))
                   [] OTHER -> compat

(* c.prev = cur, only when /proc/stat could be read.                       *)
baseline(c, ok) == IF c = "cpu" /\ <<"stat">> \in ok THEN stat ELSE prev

sinceThen(c, ok) == IF c = "cpu" /\ <<"stat">> \in ok
                    THEN [d \in DOMAIN since |-> nothingSince(d \in DOMAIN stat)] ELSE since

(* The samples of a collector that returned an error are dropped.          *)
taken(r) == IF r.err THEN {} ELSE r.out

(* Either way the next collector runs.                                     *)
after(r) == next + 1

CollectOne(F) ==
    LET c == collectors[next]
        ok == reads(c) \ F
        r == collect(c, ok)
    IN /\ out' = out \cup taken(r)
       /\ next' = after(r)
       /\ prev' = baseline(c, ok)
       /\ since' = sinceThen(c, ok)
       /\ compat' = Update(c, ok)
       /\ failed' = failed \cup F /\ faults' = faults + Cardinality(F)
       /\ UNCHANGED <<tier, metrics, lost, polled, stat, ecc, steps>>

(* At most two reads of one collector fail.                                *)
Collect == /\ next <= Len(collectors)
           /\ \E F \in {{}} \cup {{a, b} : a, b \in reads(collectors[next])} :
                 /\ faults + Cardinality(F) <= MaxFaults[tier]
                 /\ steps + faults + Cardinality(F) <= MaxUpsets[tier]
                 /\ CollectOne(F)

(* Tick publishes; the next poll starts from an empty slice.               *)
Publish == /\ next > Len(collectors)
           /\ metrics' = out /\ lost' = failed /\ polled' = TRUE
           /\ out' = {} /\ failed' = {} /\ next' = 1
           /\ UNCHANGED <<tier, prev, compat, stat, since, ecc, steps, faults>>

Next == Hardware \/ Collect \/ Publish

Spec == Init /\ [][Next]_vars

-----------------------------------------------------------------------------
(***************************************************************************)
(* Properties.                                                             *)
(***************************************************************************)

(* A poll of tier t has been published and the next has not begun; metrics *)
(* only changes when one is published.                                     *)
published(t) == tier = t /\ polled /\ next = 1

(* What the files of the node hold, as samples: the reads it takes to get  *)
(* one at all, and those that only give it its name.  psi is the exception *)
(* to one file, one read: see PsiClassesSurvive.                           *)
held(S, needs, naming) == {[sample |-> s, needs |-> needs, naming |-> naming] : s \in S}

sensorFile(chip, f) ==
    LET x == Hwmon[chip].sensors[f] IN
    {IF x.kind = "temp" THEN sample(<<chip, Hwmon[chip].name, f>>, "temp_celsius", v \div 1000, <<>>)
                        ELSE sample(<<chip, Hwmon[chip].name, f>>, "fan_rpm", v, <<>>) : v \in x.value}

zoneFile(z) == {sample(<<z>>, "power_energy_joules_total", Powercap[z].uj \div 1000000,
                       <<Powercap[z].name>>)}

contents(c) ==
    CASE c = "heartbeat" -> held(heartbeat.out, {}, {})
      [] c = "loadavg" -> held({sample(<<"cpu">>, "load1", LoadAvg, <<>>)}, {<<"loadavg">>}, {})
      [] c = "mem" -> held(memSamples, {<<"meminfo">>}, {})
      [] c = "net" -> held(netSamples, {<<"net">>}, {})
      [] c = "disk" -> held(diskSamples, {<<"diskstats">>}, {})
      [] c = "hwmon" -> UNION {UNION {held(sensorFile(chip, f),
                            {<<"hwmon">>, <<"hwmon", chip>>, <<"hwmon", chip, f>>},
                            {<<"hwmon", chip, "name">>}) : f \in inputs(chip)} : chip \in DOMAIN Hwmon}
      [] c = "psi" -> UNION {UNION {held(psiSamples(res, sh, Psi[res][sh]),
                            {<<"pressure", r>> : r \in psiResources}, {}) : sh \in DOMAIN Psi[res]} :
                                res \in psiResources}
      [] c = "power" -> UNION {held(zoneFile(z), {<<"powercap">>, <<"powercap", z>>},
                            {<<"powercap", z, "name">>}) : z \in {z \in DOMAIN Powercap : Powercap[z].rapl}}
      [] c = "pcie_aer" -> UNION {UNION {held(readAERFile(a, f), {<<"pci">>, <<"pci", a, f>>}, {}) :
                            f \in DOMAIN Aer[a]} : a \in DOMAIN Aer}
      [] OTHER -> {}

alike(s, t) == s.metric = t.metric /\ s.value = t.value /\ s.device[1] = t.device[1]

(* A failed read costs what its file holds and nothing else, in its own    *)
(* collector and in the ones after it: every sample of the core tier whose *)
(* own reads succeeded is published, under another name if only the name   *)
(* could not be read, and what could not be read never shows up as a zero  *)
(* or as an old value.  The exception is psi, which loses all three        *)
(* classes with one pressure file.                                         *)
FaultsHideOnlyTheirOwn ==
    published("core") =>
        /\ \A i \in DOMAIN collectors : \A x \in contents(collectors[i]) :
              x.needs \cap lost = {} =>
                 /\ x.naming \cap lost = {} => x.sample \in metrics
                 /\ \E s \in metrics : alike(s, x.sample)
        /\ \A s \in metrics : s.metric # "cpu_util_pct" =>
              \E i \in DOMAIN collectors : \E x \in contents(collectors[i]) :
                  x.needs \cap lost = {} /\ alike(s, x.sample)

(* A utilisation is that of the time since the last successful poll,       *)
(* however many polls failed in between, lies in 0..100 even when counters *)
(* went back, and is shown only for a processor that poll knew.            *)
UtilIsOfInterval ==
    [][\A s \in out' \ out : s.metric = "cpu_util_pct" =>
          LET w == since[s.device[1]] IN
          /\ w.known /\ s.value <= 100
          /\ w.steady => s.value = (100 * w.busy) \div (w.busy + w.idle)]_vars

(* "one missing class can't hide the others": a pressure file that was     *)
(* read is published.                                                      *)
PsiClassesSurvive ==
    published("core") =>
        \A res \in psiResources : <<"pressure", res>> \notin lost =>
            \A sh \in DOMAIN Psi[res] : psiSamples(res, sh, Psi[res][sh]) \subseteq metrics

-----------------------------------------------------------------------------
supported == {d \in DOMAIN Disks : isWholeDevice(d) /\ Disks[d].kind \in {"sata", "nvme"}}
shown(metric) == {s \in metrics : s.metric = metric}

(* "no data" must not read as "passed": a SATA verdict needs the threshold *)
(* page and a pre-failure attribute with a threshold, and it is negative   *)
(* exactly when one of them has reached it.                                *)
HealthIsEvidenced ==
    published("smart") =>
        \A s \in shown("smart_health_passed") : isSata(s.device) =>
            LET x == Disks[s.device]
                evidence == {i \in DOMAIN x.page \cap DOMAIN x.thresholds :
                                "prefailure" \in x.page[i].flags /\ x.thresholds[i] > 0}
            IN /\ Append(s.device, "thresholds") \notin lost /\ evidence # {}
               /\ s.value = 0 <=> \E i \in evidence : x.page[i].current <= x.thresholds[i]

(* The native metric of a smartctl series.                                 *)
sameReading ==
    {<<"smart_power_on_hours", "power_on_seconds", <<>>>>, <<"smart_power_cycles", "power_cycle_count", <<>>>>,
     <<"smart_health_passed", "smart_status", <<>>>>, <<"smart_capacity_bytes", "capacity_bytes", <<>>>>,
     <<"smart_rotation_rate_rpm", "rotation_rate", <<>>>>,
     <<"nvme_percentage_used", "percentage_used", <<>>>>, <<"nvme_available_spare", "available_spare", <<>>>>,
     <<"nvme_available_spare_threshold", "available_spare_threshold", <<>>>>,
     <<"nvme_media_errors", "media_errors", <<>>>>, <<"nvme_critical_warning", "critical_warning", <<>>>>,
     <<"nvme_error_log_entries", "num_err_log_entries", <<>>>>,
     <<"nvme_bytes_read_total", "bytes_read", <<>>>>, <<"nvme_bytes_written_total", "bytes_written", <<>>>>,
     <<"smart_temperature_celsius", "temperature", <<"current">>>>,
     <<"smart_logical_block_size_bytes", "block_size", <<"logical">>>>,
     <<"smart_interface_speed_bits_per_second", "interface_speed", <<"current">>>>,
     <<"smart_error_log_count", "error_log_count", <<"summary">>>>}
    \cup {<<a[2], "attribute", <<a[1], "raw">>>> : a \in sataAttrMetrics}

(* The series that have no native metric: identity and counts, and the     *)
(* readings EveryFieldIsNative is about.                                   *)
counted == {"device", "devices"}
onlyInSmartctl(x) ==
    \/ x.family \in counted \cup {"capacity_blocks", "nvme_capacity_bytes"}
    \/ x.family = "block_size" /\ x.labels = <<"physical">>
    \/ x.family = "interface_speed" /\ x.labels = <<"max">>
    \/ x.family = "attribute" /\ \A a \in sataAttrMetrics : x.labels # <<a[1], "raw">>

inSmartctlUnits(metric, v) == IF metric = "smart_power_on_hours" THEN v * 3600 ELSE v

(* Every disk whose health data was read is reported natively, and only    *)
(* those: a bridge that refuses IDENTIFY, the thresholds or the error log  *)
(* costs neither temperature nor wear, and a disk that fails costs no      *)
(* other one.                                                              *)
disksAreReported ==
    LET readable == {d \in supported : lost \cap ({<<"glob">>} \cup needed(d)) = {}} IN
    /\ {s.device : s \in shown("smart_temperature_celsius")} = readable
    /\ {s.device : s \in shown("nvme_percentage_used")} = {d \in readable : isNvme(d)}
    /\ {s.device : s \in metrics} = readable

(* "Serving a family the original omits would break the contract": each    *)
(* transport has the families smartctl_exporter gives it and no others.    *)
transportFamilies ==
    \A x \in smartctlCollect(compat) :
        /\ x.family \in {"rotation_rate", "interface_speed", "error_log_count", "attribute"}
              => x.device[1] = "sd"
        /\ x.family \in {"bytes_read", "bytes_written", "num_err_log_entries",
                          "percentage_used", "nvme_capacity_bytes"} => x.device[1] = "nvme"

(* Lockstep: between polls both surfaces show the disks that could be read *)
(* and no others, with the same readings, in smartctl's units, names and   *)
(* families on the compat side, also when a poll finds no disk at all and  *)
(* for the namespaces of one controller.  Every smartctl series is either  *)
(* compared or one of those that onlyInSmartctl names.                     *)
SmartSurfacesAgree ==
    published("smart") =>
        /\ disksAreReported /\ transportFamilies
        /\ \A p \in sameReading :
              {<<smartctlName(s.device), inSmartctlUnits(p[1], s.value)>> : s \in shown(p[1])}
                  = {<<x.device, x.value>> : x \in {x \in smartctlCollect(compat) :
                                                      x.family = p[2] /\ x.labels = p[3]}}
        /\ \A x \in smartctlCollect(compat) :
              onlyInSmartctl(x) \/ \E p \in sameReading : p[2] = x.family /\ p[3] = x.labels

(* "Every field this surface carries also exists natively": behind every   *)
(* smartctl reading is a native one of the same disk with that value.      *)
EveryFieldIsNative ==
    published("smart") =>
        \A x \in smartctlCollect(compat) : x.family \notin counted =>
            \E s \in metrics : /\ smartctlName(s.device) = x.device
                               /\ inSmartctlUnits(s.metric, s.value) = x.value

(* "keeping the smartctl_* compat surface in lockstep with the native      *)
(* samples": no two disks are exported under one family, name and labels,  *)
(* of which the registry would serve the first and drop the others.        *)
SeriesTellDisksApart ==
    published("smart") =>
        \A d, e \in compat : d # e =>
            \A x \in smartctlSeries(d), y \in smartctlSeries(e) :
                <<x.family, x.device, x.labels>> # <<y.family, y.device, y.labels>>

-----------------------------------------------------------------------------
behind == {<<"SM_CLOCK", "gpu_sm_clock_mhz">>, <<"MEM_CLOCK", "gpu_mem_clock_mhz">>,
           <<"MEMORY_TEMP", "gpu_memory_temperature_celsius">>,
           <<"GPU_TEMP", "gpu_temperature_celsius">>, <<"POWER_USAGE", "gpu_power_watts">>,
           <<"TOTAL_ENERGY_CONSUMPTION", "gpu_energy_joules_total">>,
           <<"PCIE_REPLAY_COUNTER", "gpu_pcie_replay_total">>, <<"GPU_UTIL", "gpu_utilization_pct">>,
           <<"MEM_COPY_UTIL", "gpu_mem_copy_util_pct">>, <<"ENC_UTIL", "gpu_encoder_util_pct">>,
           <<"DEC_UTIL", "gpu_decoder_util_pct">>, <<"FB_FREE", "gpu_mem_free_bytes">>,
           <<"FB_USED", "gpu_mem_used_bytes">>, <<"FB_RESERVED", "gpu_mem_reserved_bytes">>,
           <<"UNCORRECTABLE_REMAPPED_ROWS", "gpu_remapped_rows_uncorrected_total">>,
           <<"CORRECTABLE_REMAPPED_ROWS", "gpu_remapped_rows_corrected_total">>,
           <<"ROW_REMAP_FAILURE", "gpu_row_remap_failed">>}

inUnitsOf(family, v) == CASE family \in {"FB_FREE", "FB_USED", "FB_RESERVED"} -> v \div mib
                          [] family = "TOTAL_ENERGY_CONSUMPTION" -> v * 1000
                          [] OTHER -> v

(* Between polls every DCGM_FI_* reading is there natively, for the same   *)
(* GPU under the same identity and with the same value, whichever calls    *)
(* failed or fell back ("without the compat shim ever becoming the richer  *)
(* surface"); only the constant vGPU licence status is not.                *)
GpuSurfacesAgree ==
    published("gpu") =>
        \A x \in dcgmCollect(compat) : x.family # "VGPU_LICENSE_STATUS" =>
            \E p \in behind, s \in metrics :
                /\ p[1] = x.family /\ s.metric = p[2]
                /\ s.device = x.device /\ s.labels = x.labels
                /\ inUnitsOf(x.family, s.value) = x.value

limiting == {"sw_power_cap", "hw_slowdown", "sw_thermal_slowdown", "hw_thermal_slowdown",
             "hw_power_brake_slowdown"}

(* gpu_throttle_active is there for exactly the reasons in the published   *)
(* mask that limit performance: an idle GPU never fires an alert on it.    *)
ThrottleActiveIffLimited ==
    published("gpu") =>
        \A s \in shown("gpu_throttle_reasons") :
            {a.labels[4] : a \in {a \in shown("gpu_throttle_active") : a.device = s.device}}
                = limiting \cap decodeThrottle(s.value)

drops(s, t) == s.device = t.device /\ s.metric = t.metric /\ s.metric \in counters /\ t.value < s.value

(* The call behind each ECC total.                                         *)
eccCall(metric) == IF metric = "gpu_ecc_uncorrected_total" THEN "GetTotalEccErrors/U"
                   ELSE "GetTotalEccErrors/C"

(* An ECC total goes back only to zero and only in a poll in which NVML    *)
(* did not answer the call for that total of that GPU, never because the   *)
(* driver was reloaded.                                                    *)
EccDropsOnlyUnanswered ==
    [][\A s \in metrics, t \in metrics' : drops(s, t) =>
          t.value = 0 /\ <<t.device[1], eccCall(t.metric)>> \in lost']_vars

(* "the gpu_ecc_*_total metrics are KindCounters and must be monotonic".   *)
EccIsMonotonic == [][\A s \in metrics, t \in metrics' : ~drops(s, t)]_vars
=============================================================================
