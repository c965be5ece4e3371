---------------------------- MODULE SmartSurface ----------------------------
(***************************************************************************)
(* The smart tier: internal/collector/smart_probe_linux.go reads every     *)
(* whole disk over ioctl, smart.go turns the result into samples, and      *)
(* internal/smartctlcompat renders the same result as smartctl_* series.   *)
(*                                                                         *)
(* A disk's name is the sequence of its parts: <<"sd", "a">>, its          *)
(* partition <<"sd", "a", "1">>, <<"nvme", "0", "1">> for nvme0n1.  A read *)
(* is the name followed by the command; ok is the set of reads that        *)
(* succeeded in this poll.  A nil pointer is {}, any other {x}.  Model,    *)
(* serial, firmware and attribute names are opaque text and left out.      *)
(***************************************************************************)
EXTENDS Naturals, Sequences, FiniteSets

CONSTANT Disks   \* name |-> what the device would answer

isSata(name) == name[1] = "sd" /\ Len(name) = 2
isNvme(name) == name[1] = "nvme" /\ Len(name) = 3

(* Not a partition, a loop device or a device-mapper node.                 *)
isWholeDevice(name) == isSata(name) \/ isNvme(name)

(* The kernel names SATA disks sd* and NVMe namespaces nvme*n*, and the    *)
(* normalised values and thresholds are bytes.                             *)
ASSUME DisksAssumption ==
    /\ DOMAIN Disks \subseteq Seq(STRING)
    /\ \A n \in {n \in DOMAIN Disks : isWholeDevice(n)} : LET x == Disks[n] IN
          /\ x.kind = "sata" => /\ isSata(n)
                                /\ \A i \in DOMAIN x.page : x.page[i].current \in 0..255
                                /\ \A i \in DOMAIN x.thresholds : x.thresholds[i] \in 0..255
          /\ x.kind = "nvme" => isNvme(n)

(* The frozen SATA attributes and their metrics.                           *)
sataAttrMetrics == {<<5, "smart_reallocated_sectors">>, <<187, "smart_reported_uncorrectable">>,
                    <<188, "smart_command_timeout">>, <<197, "smart_pending_sectors">>,
                    <<198, "smart_offline_uncorrectable">>}

(* The whole attribute table, with thresholds where that page was read.    *)
ataFullAttrs(page, thresholds) ==
    {[id |-> i, flags |-> page[i].flags, raw |-> page[i].raw, current |-> page[i].current,
      worst |-> page[i].worst,
      threshold |-> {thresholds[j] : j \in {i} \cap DOMAIN thresholds}] : i \in DOMAIN page}

ataHealthyBug(attrs) ==
    LET judged == {a \in attrs : "prefailure" \in a.flags /\ a.threshold # {}}
    IN {\A a \in judged : \A t \in a.threshold : a.current > t}

(* A pre-failure attribute at or below a threshold other than 0 is a       *)
(* failure; without one that has such a threshold nothing is known.        *)
ataHealthy(attrs) ==
    LET judged == {a \in attrs : "prefailure" \in a.flags /\ a.threshold \notin {{}, {0}}}
    IN IF judged = {} THEN {} ELSE {\A a \in judged : \A t \in a.threshold : a.current > t}

(* IDENTIFY word 106 (its bits as a set, its low nibble as an exponent)    *)
(* and words 117-118.                                                      *)
ataBlockSizes(id) ==
    LET valid == 14 \in id.bits106 /\ 15 \notin id.bits106
        logical == IF valid /\ 12 \in id.bits106 /\ id.sectorWords > 0
                   THEN 2 * id.sectorWords ELSE 512
    IN [logical |-> logical, physical |-> IF valid THEN logical * 2^id.exp106 ELSE logical]

ataRotationRate(raw) == IF raw <= 1 THEN 0 ELSE raw

(* In units of 100 Mbit/s.                                                 *)
sataLinkSpeeds == [g \in 0..3 |-> <<0, 15, 30, 60>>[g + 1]]

ataInterfaceSpeed(id) ==
    LET gens == id.caps \cap 1..3
    IN [current |-> IF id.gen \in 0..3 THEN sataLinkSpeeds[id.gen] ELSE 0,
        max |-> IF gens = {} THEN 0
                ELSE sataLinkSpeeds[CHOOSE g \in gens : \A h \in gens : h <= g]]

ataInfo(id) ==
    LET sizes == ataBlockSizes(id)
        speed == ataInterfaceSpeed(id)
        blocks == IF id.lba48 = 0 THEN id.lba28 ELSE id.lba48
    IN [logical |-> sizes.logical, physical |-> sizes.physical, blocks |-> blocks,
        bytes |-> blocks * sizes.logical, rotation |-> ataRotationRate(id.rotation),
        speed |-> speed.current, speedMax |-> speed.max, nvmeBytes |-> 0]

(* The first namespace with a size gives the geometry; shift is log2 of    *)
(* its block size, 0 when unreported.                                      *)
nvmeInfo(ctrl) ==
    LET active == SelectSeq(ctrl.namespaces, LAMBDA ns : ns.size # 0)
        geometry(ns) == LET b == IF ns.shift > 0 THEN 2^ns.shift ELSE 512
                        IN <<b, ns.size, ns.size * b>>
        g == IF active = <<>> THEN <<512, 0, 0>> ELSE geometry(active[1])
    IN [logical |-> g[1], physical |-> 0, blocks |-> g[2], bytes |-> g[3], rotation |-> 0,
        speed |-> 0, speedMax |-> 0, nvmeBytes |-> ctrl.tnvmcap]

(* A data unit is 1000 blocks of 512 bytes.                                *)
nvmeHealth(log) == [log EXCEPT !.bytesRead = @ * 512000, !.bytesWritten = @ * 512000]

needed(name) == {Append(name, c) : c \in {"open", "generic", "data"}}

(* ReadGenericAttributes sets temperature, hours and cycles, 0 for what    *)
(* the disk leaves out.                                                    *)
probeSata(name, x, ok) ==
    LET got(c) == Append(name, c) \in ok
        attrs == ataFullAttrs(x.page, IF got("thresholds") THEN x.thresholds ELSE <<>>)
    IN [name |-> name, temperature |-> {x.generic.temperature},
        powerOnHours |-> {x.generic.powerOnHours}, powerCycles |-> {x.generic.powerCycles},
        transport |-> "sata", nvme |-> {}, attrs |-> attrs,
        ataAttrs |-> {<<a[2], x.page[a[1]].raw>> : a \in {a \in sataAttrMetrics : a[1] \in DOMAIN x.page}},
        healthy |-> ataHealthy(attrs),
        info |-> IF got("identify") THEN {ataInfo(x.identify)} ELSE {},
        errorLog |-> IF got("errorlog") THEN {x.errors} ELSE {}]

probeNvme(name, x, ok) ==
    [name |-> name, temperature |-> {x.generic.temperature},
     powerOnHours |-> {x.generic.powerOnHours}, powerCycles |-> {x.generic.powerCycles},
     transport |-> "nvme", nvme |-> {nvmeHealth(x.log)}, attrs |-> {}, ataAttrs |-> {},
     healthy |-> {x.log.criticalWarning = 0},
     info |-> IF Append(name, "identify") \in ok THEN {nvmeInfo(x.identify)} ELSE {},
     errorLog |-> {}]

(* A disk that cannot be opened or read is skipped, and so is one that is  *)
(* neither SATA nor NVMe; IDENTIFY, thresholds and error log may fail.     *)
probeDevice(name, ok) ==
    IF ~(needed(name) \subseteq ok) THEN {}
    ELSE CASE Disks[name].kind = "sata" -> {probeSata(name, Disks[name], ok)}
           [] Disks[name].kind = "nvme" -> {probeNvme(name, Disks[name], ok)}
           [] OTHER -> {}

smartReads == {<<"glob">>} \cup UNION {{Append(n, c) : c \in {"open", "generic", "data", "identify"} \cup
                         IF isSata(n) THEN {"thresholds", "errorlog"} ELSE {}} :
                        n \in {n \in DOMAIN Disks : isWholeDevice(n)}}

(* NewDevProbe: a directory that cannot be read is an empty one to         *)
(* filepath.Glob, and no error.                                            *)
probe(ok) == IF <<"glob">> \notin ok THEN {}
             ELSE UNION {probeDevice(n, ok) : n \in {n \in DOMAIN Disks : isWholeDevice(n)}}

-----------------------------------------------------------------------------
(* smartCollector.Collect: the native samples of one disk.                 *)
one(b) == IF b THEN 1 ELSE 0

(* 0 is an unreported geometry, not a value.                               *)
infoField(d, f) == {i[f] : i \in d.info} \ {0}

nvmeField(d, f) == {n[f] : n \in d.nvme}

nativeDefs(d) ==
    {<<"smart_temperature_celsius", d.temperature>>, <<"smart_power_on_hours", d.powerOnHours>>,
     <<"nvme_percentage_used", nvmeField(d, "percentageUsed")>>,
     <<"nvme_available_spare", nvmeField(d, "availableSpare")>>,
     <<"nvme_available_spare_threshold", nvmeField(d, "spareThreshold")>>,
     <<"nvme_media_errors", nvmeField(d, "mediaErrors")>>,
     <<"nvme_critical_warning", nvmeField(d, "criticalWarning")>>,
     <<"nvme_bytes_read_total", nvmeField(d, "bytesRead")>>,
     <<"nvme_bytes_written_total", nvmeField(d, "bytesWritten")>>,
     <<"nvme_error_log_entries", nvmeField(d, "numErrLogEntries")>>,
     <<"smart_power_cycles", d.powerCycles>>,
     <<"smart_health_passed", {one(b) : b \in d.healthy}>>,
     <<"smart_error_log_count", d.errorLog>>,
     <<"smart_capacity_bytes", infoField(d, "bytes")>>,
     <<"smart_logical_block_size_bytes", infoField(d, "logical")>>,
     <<"smart_rotation_rate_rpm", infoField(d, "rotation")>>,
     <<"smart_interface_speed_bits_per_second", infoField(d, "speed")>>}
    \cup {<<a[1], {a[2]}>> : a \in d.ataAttrs}

smartSamples(d) ==
    UNION {{[device |-> d.name, metric |-> def[1], value |-> v, labels |-> <<>>] : v \in def[2]} :
              def \in nativeDefs(d)}

smartCollect(ok) == [err |-> FALSE, out |-> UNION {smartSamples(d) : d \in probe(ok)}]

(* Everything but the five raw attributes is handed to the exporter.       *)
toSmartctlDevices(devices) ==
    {[f \in DOMAIN d \ {"ataAttrs"} |-> d[f]] : d \in devices}

-----------------------------------------------------------------------------
(* smartctlcompat: smartctl names the controller, not the namespace.       *)
smartctlName(name) == IF isNvme(name) THEN SubSeq(name, 1, 2) ELSE name

series(family, name, labels, value) ==
    [family |-> family, device |-> name, labels |-> labels, value |-> value]

(* One value per device, in smartctl's units (seconds, not hours).         *)
scalarDefs(d) ==
    {<<"power_on_seconds", {h * 3600 : h \in d.powerOnHours}>>,
     <<"power_cycle_count", d.powerCycles>>,
     <<"smart_status", {one(b) : b \in d.healthy}>>,
     <<"capacity_blocks", infoField(d, "blocks")>>, <<"capacity_bytes", infoField(d, "bytes")>>,
     <<"rotation_rate", infoField(d, "rotation")>>,
     <<"nvme_capacity_bytes", infoField(d, "nvmeBytes")>>,
     <<"percentage_used", nvmeField(d, "percentageUsed")>>,
     <<"available_spare", nvmeField(d, "availableSpare")>>,
     <<"available_spare_threshold", nvmeField(d, "spareThreshold")>>,
     <<"media_errors", nvmeField(d, "mediaErrors")>>,
     <<"critical_warning", nvmeField(d, "criticalWarning")>>,
     <<"num_err_log_entries", nvmeField(d, "numErrLogEntries")>>,
     <<"bytes_read", nvmeField(d, "bytesRead")>>, <<"bytes_written", nvmeField(d, "bytesWritten")>>}

(* The identity lives in the labels.                                       *)
collectInfo(d, n) == {series("device", n, <<d.transport>>, 1) : i \in d.info}

collectTemperature(d, n) == {series("temperature", n, <<"current">>, t) : t \in d.temperature}

(* The physical size is shown even when it is 0, as it is on NVMe.         *)
collectBlockSize(d, n) ==
    UNION {{series("block_size", n, <<"logical">>, i.logical),
            series("block_size", n, <<"physical">>, i.physical)} : i \in {i \in d.info : i.logical # 0}}

collectInterfaceSpeed(d, n) ==
    {series("interface_speed", n, <<"current">>, v) : v \in infoField(d, "speed")}
    \cup {series("interface_speed", n, <<"max">>, v) : v \in infoField(d, "speedMax")}

collectErrorLogCount(d, n) == {series("error_log_count", n, <<"summary">>, c) : c \in d.errorLog}

attribute(n, a, kind, value) == series("attribute", n, <<a.id, kind>>, value)

(* Raw, normalised and worst value of every attribute, and the threshold   *)
(* only where it is known.                                                 *)
collectAttributes(d, n) ==
    UNION {{attribute(n, a, "raw", a.raw), attribute(n, a, "value", a.current),
            attribute(n, a, "worst", a.worst)}
           \cup {attribute(n, a, "thresh", t) : t \in a.threshold} : a \in d.attrs}

collectScalars(d, n) == UNION {{series(def[1], n, <<>>, v) : v \in def[2]} : def \in scalarDefs(d)}

seriesOf(d, n) ==
    collectScalars(d, n) \cup collectInfo(d, n) \cup collectTemperature(d, n) \cup collectBlockSize(d, n)
    \cup collectInterfaceSpeed(d, n) \cup collectErrorLogCount(d, n) \cup collectAttributes(d, n)

smartctlSeries(d) == seriesOf(d, smartctlName(d.name))

(* Exporter.Collect, with the count of what the probe found.               *)
smartctlCollect(devices) ==
    {series("devices", <<>>, <<>>, Cardinality(devices))}
    \cup UNION {smartctlSeries(d) : d \in devices}
=============================================================================
