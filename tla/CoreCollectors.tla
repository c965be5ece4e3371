--------------------------- MODULE CoreCollectors ---------------------------
(***************************************************************************)
(* internal/collector: the ten collectors of the core tier, as functions   *)
(* from what a poll could read to the samples and the error it returns.    *)
(*                                                                         *)
(* ok is the set of reads that succeeded in this poll.  A read is named by *)
(* the path of its file or directory; what the file holds is a constant,   *)
(* except /proc/stat.  Values that do not parse are the empty set.  Node,  *)
(* tier, kind and time stamp of a sample are left out.                     *)
(***************************************************************************)
EXTENDS Integers, Sequences, FiniteSets

CONSTANTS Version,    \* main.version, "" when it was not injected
          LoadAvg,    \* the 1-minute load
          MemInfo,    \* field |-> bytes, for the fields the kernel reports
          NetDev,     \* interface |-> its four counters
          DiskStats,  \* disk |-> its four counters
          Hwmon,      \* chip |-> [name, sensors : file |-> [kind, value]]
          Psi,        \* resource |-> share |-> line
          Powercap,   \* entry |-> [rapl, uj, name]
          Aer         \* address |-> file |-> set of [name, value]

sample(device, metric, value, labels) ==
    [device |-> device, metric |-> metric, value |-> value, labels |-> labels]

returns(out) == [err |-> FALSE, out |-> out]
fails == [err |-> TRUE, out |-> {}]

(* NewHeartbeat: "An un-injected version becomes "unknown"".               *)
buildVersion == IF Version = "" THEN "unknown" ELSE Version

heartbeat == returns({sample(<<"agent">>, "nodevitals_up", 1, <<>>),
                      sample(<<"agent">>, "nodevitals_build_info", 1, <<buildVersion>>)})

loadAvg(ok) == IF <<"loadavg">> \in ok THEN returns({sample(<<"cpu">>, "load1", LoadAvg, <<>>)})
                                       ELSE fails

busy(s) == s.user + s.nice + s.system + s.irq + s.softirq + s.steal
idle(s) == s.idle + s.iowait

cpuUtilBug(d, s, p) ==
    LET db == busy(s) - busy(p)  di == idle(s) - idle(p)
    IN IF db < 0 \/ db + di <= 0 THEN {}
       ELSE {sample(<<d>>, "cpu_util_pct", (100 * db) \div (db + di), <<>>)}

(* No sample when a counter went back on either axis or none moved.        *)
cpuUtil(d, s, p) ==
    LET db == busy(s) - busy(p)  di == idle(s) - idle(p)
    IN IF db < 0 \/ di < 0 \/ db + di <= 0 THEN {}
       ELSE {sample(<<d>>, "cpu_util_pct", (100 * db) \div (db + di), <<>>)}

(* stat is what /proc/stat shows, prev what the last successful poll read. *)
cpu(ok, stat, prev) ==
    IF <<"stat">> \notin ok THEN fails
    ELSE returns(UNION {cpuUtil(d, stat[d], prev[d]) : d \in DOMAIN stat \cap DOMAIN prev})

memSamples ==
    LET with(fields) == {m \in {MemInfo} : fields \subseteq DOMAIN m}
        s(metric, v) == sample(<<"mem">>, metric, v, <<>>)
    IN {s("mem_total_bytes", m.MemTotal) : m \in with({"MemTotal"})}
       \cup {s("mem_available_bytes", m.MemAvailable) : m \in with({"MemAvailable"})}
       \cup {s("mem_used_bytes", m.MemTotal - m.MemAvailable) :
                m \in with({"MemTotal", "MemAvailable"})}
       \cup {s("swap_used_bytes", m.SwapTotal - m.SwapFree) :
                m \in with({"SwapTotal", "SwapFree"})}

mem(ok) == IF <<"meminfo">> \in ok THEN returns(memSamples) ELSE fails

netSamples == UNION {{sample(<<i>>, "net_rx_bytes_total", NetDev[i].rxBytes, <<>>),
                      sample(<<i>>, "net_tx_bytes_total", NetDev[i].txBytes, <<>>),
                      sample(<<i>>, "net_rx_errors_total", NetDev[i].rxErrors, <<>>),
                      sample(<<i>>, "net_tx_errors_total", NetDev[i].txErrors, <<>>)} :
                        i \in DOMAIN NetDev \ {"lo"}}

net(ok) == IF <<"net">> \in ok THEN returns(netSamples) ELSE fails

(* Sectors are 512 bytes whatever the disk.                                *)
diskSamples == UNION {{sample(<<d>>, "disk_read_bytes_total", DiskStats[d].readSectors * 512, <<>>),
                       sample(<<d>>, "disk_write_bytes_total", DiskStats[d].writeSectors * 512, <<>>),
                       sample(<<d>>, "disk_read_ios_total", DiskStats[d].readIOs, <<>>),
                       sample(<<d>>, "disk_write_ios_total", DiskStats[d].writeIOs, <<>>)} :
                         d \in DOMAIN DiskStats}

disk(ok) == IF <<"diskstats">> \in ok THEN returns(diskSamples) ELSE fails

(* The files temp*_input and fan*_input of a chip.                         *)
inputs(chip) == {f \in DOMAIN Hwmon[chip].sensors : Hwmon[chip].sensors[f].kind \in {"temp", "fan"}}

(* A missing tree is no error, a chip without a name is called by its      *)
(* directory, and a sensor that cannot be read or parsed is skipped.       *)
sensor(ok, chip, f) ==
    LET name == IF <<"hwmon", chip, "name">> \in ok THEN Hwmon[chip].name ELSE chip
        dev == <<chip, name, f>>
        x == Hwmon[chip].sensors[f]
    IN IF <<"hwmon", chip, f>> \notin ok THEN {}
       ELSE IF x.kind = "temp" THEN {sample(dev, "temp_celsius", v \div 1000, <<>>) : v \in x.value}
       ELSE {sample(dev, "fan_rpm", v, <<>>) : v \in x.value}

hwmonBug(ok) ==
    IF <<"hwmon">> \notin ok THEN returns({})
    ELSE IF \E chip \in DOMAIN Hwmon : \E f \in inputs(chip) : <<"hwmon", chip, f>> \notin ok THEN fails
    ELSE returns(UNION {UNION {sensor(ok, chip, f) : f \in inputs(chip)} :
                           chip \in {c \in DOMAIN Hwmon : <<"hwmon", c>> \in ok}})

hwmon(ok) ==
    returns(IF <<"hwmon">> \notin ok THEN {} ELSE
        UNION {UNION {sensor(ok, chip, f) : f \in inputs(chip)} :
                  chip \in {c \in DOMAIN Hwmon : <<"hwmon", c>> \in ok}})

psiResources == {"cpu", "memory", "io"}

psiSamples(res, share, line) ==
    LET s(metric, v) == sample(<<res>>, metric, v, <<share>>)
    IN {s("psi_stall_ratio_avg10", line.avg10), s("psi_stall_ratio_avg60", line.avg60),
        s("psi_stall_ratio_avg300", line.avg300),
        s("psi_stall_seconds_total", line.total \div 1000000)}

(* The samples of the readable classes come with the first error.          *)
psi(ok) ==
    LET good == {res \in psiResources : <<"pressure", res>> \in ok}
    IN [err |-> good # psiResources,
        out |-> UNION {UNION {psiSamples(res, sh, Psi[res][sh]) : sh \in DOMAIN Psi[res]} :
                          res \in good}]

(* Without powercap, or without the privilege to read it, no samples and   *)
(* no error; a zone without a name has no zone label.                      *)
power(ok) ==
    returns(IF <<"powercap">> \notin ok THEN {} ELSE
        {sample(<<z>>, "power_energy_joules_total", Powercap[z].uj \div 1000000,
                IF <<"powercap", z, "name">> \in ok THEN <<Powercap[z].name>> ELSE <<>>) :
            z \in {e \in DOMAIN Powercap : Powercap[e].rapl /\ <<"powercap", e>> \in ok}})

aerMetric(f) == CASE f = "aer_dev_correctable" -> "pcie_aer_correctable_total"
                  [] f = "aer_dev_nonfatal" -> "pcie_aer_nonfatal_total"
                  [] f = "aer_dev_fatal" -> "pcie_aer_fatal_total"

ASSUME AerAssumption ==
    \A a \in DOMAIN Aer : DOMAIN Aer[a] \subseteq {"aer_dev_correctable", "aer_dev_nonfatal", "aer_dev_fatal"}

(* A line that is not a name and a number is skipped.                      *)
readAERFile(addr, f) ==
    UNION {{sample(<<addr>>, aerMetric(f), v, <<line.name>>) : v \in line.value} :
              line \in Aer[addr][f]}

pcieAER(ok) ==
    returns(IF <<"pci">> \notin ok THEN {} ELSE
        UNION {UNION {readAERFile(a, f) : f \in {f \in DOMAIN Aer[a] : <<"pci", a, f>> \in ok}} :
                  a \in DOMAIN Aer})

(* The order of main.go's case "core".                                     *)
coreTier == <<"heartbeat", "loadavg", "cpu", "mem", "net", "disk", "hwmon", "psi",
              "power", "pcie_aer">>

(* What each collector reads.                                              *)
coreReads(c) ==
    CASE c = "heartbeat" -> {}
      [] c = "loadavg" -> {<<"loadavg">>}
      [] c = "cpu" -> {<<"stat">>}
      [] c = "mem" -> {<<"meminfo">>}
      [] c = "net" -> {<<"net">>}
      [] c = "disk" -> {<<"diskstats">>}
      [] c = "hwmon" -> {<<"hwmon">>} \cup UNION {{<<"hwmon", chip>>} \cup
                            {<<"hwmon", chip, f>> : f \in {"name"} \cup inputs(chip)} :
                               chip \in DOMAIN Hwmon}
      [] c = "psi" -> {<<"pressure", res>> : res \in psiResources}
      [] c = "power" -> {<<"powercap">>} \cup UNION {{<<"powercap", z>>, <<"powercap", z, "name">>} :
                            z \in {e \in DOMAIN Powercap : Powercap[e].rapl}}
      [] c = "pcie_aer" -> {<<"pci">>} \cup UNION {{<<"pci", a, f>> : f \in DOMAIN Aer[a]} :
                               a \in DOMAIN Aer}

coreCollect(c, ok, stat, prev) ==
    CASE c = "heartbeat" -> heartbeat
      [] c = "loadavg" -> loadAvg(ok)
      [] c = "cpu" -> cpu(ok, stat, prev)
      [] c = "mem" -> mem(ok)
      [] c = "net" -> net(ok)
      [] c = "disk" -> disk(ok)
      [] c = "hwmon" -> hwmon(ok)
      [] c = "psi" -> psi(ok)
      [] c = "power" -> power(ok)
      [] c = "pcie_aer" -> pcieAER(ok)
=============================================================================
