----------------------------- MODULE MCPolling ------------------------------
(* One small node per tier.                                                *)
EXTENDS Polling, TLC

MCMemInfo == [MemTotal |-> 9, MemAvailable |-> 4, SwapTotal |-> 3]
MCNetDev == [lo |-> [rxBytes |-> 1, txBytes |-> 1, rxErrors |-> 1, txErrors |-> 1],
             eth0 |-> [rxBytes |-> 11, txBytes |-> 12, rxErrors |-> 13, txErrors |-> 14]]
MCDiskStats == [sda |-> [readSectors |-> 2, writeSectors |-> 3, readIOs |-> 4, writeIOs |-> 5]]
MCHwmon == [hwmon0 |-> [name |-> "coretemp",
                        sensors |-> [temp1 |-> [kind |-> "temp", value |-> {45000}],
                                     temp2 |-> [kind |-> "temp", value |-> {}],
                                     fan1 |-> [kind |-> "fan", value |-> {900}],
                                     in0 |-> [kind |-> "in", value |-> {12}]]]]
MCLine(n) == [avg10 |-> n, avg60 |-> n + 1, avg300 |-> n + 2, total |-> n * 1000000]
MCPsi == [cpu |-> [some |-> MCLine(21)],
          memory |-> [some |-> MCLine(31), full |-> MCLine(41)],
          io |-> [some |-> MCLine(51), full |-> MCLine(61)]]
MCPowercap == [rapl0 |-> [rapl |-> TRUE, uj |-> 7000000, name |-> "package-0"],
               dtpm |-> [rapl |-> FALSE, uj |-> 1, name |-> "x"]]
MCAer == [root |-> [aer_dev_correctable |-> {[name |-> "BadTLP", value |-> {3}],
                                             [name |-> "Torn", value |-> {}]},
                    aer_dev_fatal |-> {[name |-> "TLP", value |-> {2}]}]]

attr(fl, raw, cur) == [flags |-> fl, raw |-> raw, current |-> cur, worst |-> cur]
MCController ==
    [kind |-> "nvme",
     generic |-> [temperature |-> 40, powerOnHours |-> 9, powerCycles |-> 5],
     log |-> [percentageUsed |-> 2, availableSpare |-> 100, spareThreshold |-> 10,
              mediaErrors |-> 0, criticalWarning |-> 1, bytesRead |-> 3, bytesWritten |-> 4,
              numErrLogEntries |-> 6],
     identify |-> [tnvmcap |-> 8, namespaces |-> <<[size |-> 0, shift |-> 9], [size |-> 3, shift |-> 12]>>]]
(* Both namespaces of the controller answer for it; it warms up by a       *)
(* degree between the two.                                                 *)
MCDisks ==
    <<"sd", "a">> :> [kind |-> "sata",
        generic |-> [temperature |-> 30, powerOnHours |-> 7, powerCycles |-> 3],
        page |-> 5 :> attr({"prefailure"}, 8, 10) @@ 9 :> attr({}, 70, 1)
                 @@ 197 :> attr({"prefailure"}, 2, 1),
        thresholds |-> 5 :> 10 @@ 9 :> 50 @@ 197 :> 0,
        identify |-> [bits106 |-> {14, 12}, exp106 |-> 3, sectorWords |-> 256, lba48 |-> 0, lba28 |-> 6,
                      rotation |-> 7200, gen |-> 3, caps |-> {1, 2}],
        errors |-> 4]
    @@ <<"sd", "b">> :> [kind |-> "sata",
        generic |-> [temperature |-> 0, powerOnHours |-> 1, powerCycles |-> 1],
        page |-> 9 :> attr({}, 1, 1) @@ 197 :> attr({"prefailure"}, 2, 1),
        thresholds |-> 197 :> 0,
        identify |-> [bits106 |-> {15}, exp106 |-> 0, sectorWords |-> 0, lba48 |-> 5, lba28 |-> 6,
                      rotation |-> 1, gen |-> 0, caps |-> {}],
        errors |-> 0]
    @@ <<"nvme", "0", "1">> :> MCController
    @@ <<"nvme", "0", "2">> :> [MCController EXCEPT !.generic.temperature = 41]
    @@ <<"nvme", "0", "1", "1">> :> [kind |-> "nvme"]
    @@ <<"loop", "0">> :> [kind |-> "scsi"]

gpuFields == <<"UtilGPU", "MemCopyUtil", "TempC", "MemTempC", "EncUtil", "DecUtil",
               "SMClockMHz", "MemClockMHz", "PcieReplayTotal", "RemappedCorr", "RemappedUnc">>
MCMib == 2
MCTelemetry(g) ==
    [f \in {gpuFields[i] : i \in DOMAIN gpuFields} |-> 10 + CHOOSE i \in DOMAIN gpuFields : gpuFields[i] = f]
    @@ [RemapFailed |-> 1, PowerW |-> 250000, EnergyMilliJoules |-> 5000, MemUsedBytes |-> 2 * 30,
        MemTotalBytes |-> 2 * 60, MemFreeBytes |-> 2 * 20, MemReservedBytes |-> 2 * 10,
        throttle |-> IF g = "gpu0" THEN 1 + 16 ELSE 4 + 64 + 512]
MCAllTelemetry == [g \in Gpus |-> MCTelemetry(g)]
MCFaults == [core |-> 2, smart |-> 3, gpu |-> 2]
MCUpsets == [core |-> 4, smart |-> 3, gpu |-> 3]
=============================================================================
