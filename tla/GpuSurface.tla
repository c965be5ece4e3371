----------------------------- MODULE GpuSurface -----------------------------
(***************************************************************************)
(* The gpu tier's poll: nvmlReader.Read asks NVML for one GPU after the    *)
(* other, gpuCollector turns the result into samples, and                  *)
(* internal/dcgmcompat renders the same result as DCGM_FI_* series.        *)
(*                                                                         *)
(* A read is <<GPU, NVML call>>; ok is the set of calls that succeeded in  *)
(* this poll.  hw[g] is what the hardware of g would answer: a number per  *)
(* field, and the mask of throttle reasons.                                *)
(***************************************************************************)
EXTENDS Naturals, Sequences, FiniteSets

CONSTANTS Gpus,  \* the devices enumerated at start-up
          mib    \* 2^20 in the code: bytes per MiB

(* The NVML call that fills each field of gpuDevice; GetMemoryInfo_v2 is   *)
(* special, see memory.                                                    *)
filledBy == [UtilGPU |-> "GetUtilizationRates", MemCopyUtil |-> "GetUtilizationRates",
             TempC |-> "GetTemperature", MemTempC |-> "GetFieldValues",
             PowerW |-> "GetPowerUsage", EnergyMilliJoules |-> "GetTotalEnergyConsumption",
             EncUtil |-> "GetEncoderUtilization", DecUtil |-> "GetDecoderUtilization",
             SMClockMHz |-> "GetClockInfo/SM", MemClockMHz |-> "GetClockInfo/MEM",
             PcieReplayTotal |-> "GetPcieReplayCounter",
             RemappedCorr |-> "GetRemappedRows", RemappedUnc |-> "GetRemappedRows",
             RemapFailed |-> "GetRemappedRows",
             EccUncorrected |-> "GetTotalEccErrors/U", EccCorrected |-> "GetTotalEccErrors/C"]

memFields == {"MemUsedBytes", "MemTotalBytes", "MemFreeBytes", "MemReservedBytes"}

gpuCalls == {"GetIndex", "GetUUID", "GetName", "GetPciInfo", "GetCurrentClocksEventReasons",
             "GetMemoryInfo_v2", "GetMemoryInfo"} \cup {filledBy[f] : f \in DOMAIN filledBy}

gpuReads == Gpus \X gpuCalls

(* The v2 call fills all four, the v1 call of older drivers only three.    *)
memory(g, f, ok, hw) ==
    IF \/ <<g, "GetMemoryInfo_v2">> \in ok
       \/ <<g, "GetMemoryInfo">> \in ok /\ f # "MemReservedBytes"
    THEN hw[g][f] ELSE 0

inWatts(f, v) == IF f = "PowerW" THEN v \div 1000 ELSE v

valueBug(g, f, ok, hw) ==
    IF <<g, filledBy[f]>> \notin ok THEN 0
    ELSE IF f \in {"EccUncorrected", "EccCorrected"} THEN hw[g].volatile
    ELSE inWatts(f, hw[g][f])

(* A call that fails leaves the zero value; NVML reports power in mW.  The *)
(* ECC totals are the aggregate ones, which survive a reset of the GPU.    *)
value(g, f, ok, hw) == IF <<g, filledBy[f]>> \in ok THEN inWatts(f, hw[g][f]) ELSE 0

text(g, call, ok) == IF <<g, call>> \in ok THEN g ELSE ""

readDevice(g, ok, hw) ==
    [index |-> g, uuid |-> text(g, "GetUUID", ok), name |-> text(g, "GetName", ok),
     pciBusId |-> text(g, "GetPciInfo", ok),
     throttle |-> IF <<g, "GetCurrentClocksEventReasons">> \in ok THEN hw[g].throttle ELSE 0,
     field |-> [f \in memFields \cup DOMAIN filledBy |->
                   IF f \in memFields THEN memory(g, f, ok, hw) ELSE value(g, f, ok, hw)]]

(* Only a GPU that cannot be identified is left out; Read never fails.     *)
Read(ok, hw) == {readDevice(g, ok, hw) : g \in {g \in Gpus : <<g, "GetIndex">> \in ok}}

-----------------------------------------------------------------------------
(* gpuCollector.Collect.                                                   *)
nativeMetrics ==
    {<<"gpu_utilization_pct", "UtilGPU">>, <<"gpu_mem_used_bytes", "MemUsedBytes">>,
     <<"gpu_mem_total_bytes", "MemTotalBytes">>, <<"gpu_temperature_celsius", "TempC">>,
     <<"gpu_power_watts", "PowerW">>, <<"gpu_ecc_uncorrected_total", "EccUncorrected">>,
     <<"gpu_ecc_corrected_total", "EccCorrected">>, <<"gpu_mem_free_bytes", "MemFreeBytes">>,
     <<"gpu_mem_reserved_bytes", "MemReservedBytes">>, <<"gpu_mem_copy_util_pct", "MemCopyUtil">>,
     <<"gpu_encoder_util_pct", "EncUtil">>, <<"gpu_decoder_util_pct", "DecUtil">>,
     <<"gpu_sm_clock_mhz", "SMClockMHz">>, <<"gpu_mem_clock_mhz", "MemClockMHz">>,
     <<"gpu_memory_temperature_celsius", "MemTempC">>, <<"gpu_pcie_replay_total", "PcieReplayTotal">>,
     <<"gpu_energy_joules_total", "EnergyMilliJoules">>,
     <<"gpu_remapped_rows_corrected_total", "RemappedCorr">>,
     <<"gpu_remapped_rows_uncorrected_total", "RemappedUnc">>, <<"gpu_row_remap_failed", "RemapFailed">>}

counters == {"gpu_ecc_uncorrected_total", "gpu_ecc_corrected_total"}

native(field, v) == IF field = "EnergyMilliJoules" THEN v \div 1000 ELSE v

throttleBits == [gpu_idle |-> 1, app_clocks_setting |-> 2, sw_power_cap |-> 4, hw_slowdown |-> 8,
                 sync_boost |-> 16, sw_thermal_slowdown |-> 32, hw_thermal_slowdown |-> 64,
                 hw_power_brake_slowdown |-> 128, display_clock_setting |-> 256]

(* Bits without a name are ignored.                                        *)
decodeThrottle(mask) == {r \in DOMAIN throttleBits : (mask \div throttleBits[r]) % 2 = 1}

benignThrottleReasonsBug == {"gpu_idle", "app_clocks_setting", "display_clock_setting"}

benignThrottleReasons == {"gpu_idle", "app_clocks_setting", "sync_boost", "display_clock_setting"}

gpuSamples(d) ==
    LET id == <<d.uuid, d.name, d.pciBusId>>
        mk(metric, v, labels) ==
            [device |-> <<d.index>>, metric |-> metric, value |-> v, labels |-> labels]
    IN {mk(m[1], native(m[2], d.field[m[2]]), id) : m \in nativeMetrics}
       \cup {mk("gpu_throttle_reasons", d.throttle, id)}
       \cup {mk("gpu_throttle_active", 1, Append(id, r)) :
                r \in decodeThrottle(d.throttle) \ benignThrottleReasons}

gpuCollect(ok, hw) == [err |-> FALSE, out |-> UNION {gpuSamples(d) : d \in Read(ok, hw)}]

-----------------------------------------------------------------------------
(* dcgmcompat: the exporter's families, and the native field behind each.  *)
dcgmFields == (DOMAIN filledBy \cup memFields) \ {"MemTotalBytes", "EccUncorrected", "EccCorrected"}

toDCGMDevices(devices) == {[d EXCEPT !.field = [f \in dcgmFields |-> d.field[f]]] : d \in devices}

metricDefs ==
    {<<"SM_CLOCK", "SMClockMHz">>, <<"MEM_CLOCK", "MemClockMHz">>, <<"MEMORY_TEMP", "MemTempC">>,
     <<"GPU_TEMP", "TempC">>, <<"POWER_USAGE", "PowerW">>,
     <<"TOTAL_ENERGY_CONSUMPTION", "EnergyMilliJoules">>,
     <<"PCIE_REPLAY_COUNTER", "PcieReplayTotal">>, <<"GPU_UTIL", "UtilGPU">>,
     <<"MEM_COPY_UTIL", "MemCopyUtil">>, <<"ENC_UTIL", "EncUtil">>, <<"DEC_UTIL", "DecUtil">>,
     <<"FB_FREE", "MemFreeBytes">>, <<"FB_USED", "MemUsedBytes">>, <<"FB_RESERVED", "MemReservedBytes">>,
     <<"UNCORRECTABLE_REMAPPED_ROWS", "RemappedUnc">>, <<"CORRECTABLE_REMAPPED_ROWS", "RemappedCorr">>,
     <<"ROW_REMAP_FAILURE", "RemapFailed">>}

(* Framebuffer sizes are rendered in MiB.                                  *)
rendered(field, v) == IF field \in memFields THEN v \div mib ELSE v

dcgmSeries(d) ==
    LET mk(family, v) == [family |-> family, device |-> <<d.index>>, value |-> v,
                          labels |-> <<d.uuid, d.name, d.pciBusId>>]
    IN {mk(m[1], rendered(m[2], d.field[m[2]])) : m \in metricDefs}
       \cup {mk("VGPU_LICENSE_STATUS", 0)}

dcgmCollect(devices) == UNION {dcgmSeries(d) : d \in devices}
=============================================================================
