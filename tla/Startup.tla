------------------------------ MODULE Startup -------------------------------
(***************************************************************************)
(* cmd/nodevitals/main.go: from the configuration file to the end of the   *)
(* process.  main builds everything in order and ends the process at the   *)
(* first thing that is not as configured; then it serves HTTP and polls    *)
(* until a signal, lets requests finish for at most ten seconds and closes *)
(* the history store.                                                      *)
(*                                                                         *)
(* Init picks a configuration file and an environment.  What may go either *)
(* way at run time (NVML, the kingpin parser, the service-account files,   *)
(* the database, the listener, requests and signals) is a choice at the    *)
(* step that meets it.  Texts that are taken apart are sequences.          *)
(***************************************************************************)
EXTENDS Naturals, Integers, Sequences, SequencesExt, FiniteSets

CONSTANTS Files,     \* configuration files
          Envs,      \* environments: [nodeName, vars : name |-> text]
          Upstream,  \* node_exporter's collectors, and whether each is on
          Requests,  \* HTTP requests that may be in progress at once
          Second,      \* a second in units of a time.Duration: 10^9 in the code
          DurationSpan \* number of values of a time.Duration: 2^64 in the code

VARIABLES file, env,  \* what the process was started with
          pc,         \* where main is
          cfg,        \* what config.Load returned
          todo,       \* the tiers main has still to build
          reg,        \* the tiers whose collectors are registered
          surfaces,   \* the exporters registered with the metrics registry
          upstream,   \* the node_exporter collectors that are active
          nvml,       \* NVML is initialised
          store,      \* the history store
          http,       \* the HTTP server's goroutine
          inflight,   \* requests being served
          cut,        \* requests that found the store closed
          timedOut,   \* Shutdown gave up waiting
          signalled   \* SIGINT or SIGTERM has been sent

given == <<file, env>>
built == <<cfg, todo, reg, surfaces, upstream, nvml>>
served == <<store, http, inflight, cut, timedOut>>
vars == <<given, pc, built, served, signalled>>

ended == {"exited", "fatal", "killed", "crashed"}
building == {"load", "tiers", "nvmlCount", "nvmlEvents", "gpu", "exporter", "ksm", "history"}
serving == {"serve", "notify", "ticker", "run", "shutdown", "drain", "close", "panic"}
up == pc \in serving \cup {"exited", "crashed"}

-----------------------------------------------------------------------------
unset == ""   \* a text field that the file does not give

(* What the YAML decoder makes of a file: every field has its Go type and  *)
(* any value of it.                                                        *)
FileType == [node : STRING, tier : STRING, tiers : Seq(STRING), interval : Int,
             secrets : Seq(Seq(STRING)), dcgm : BOOLEAN, smartctl : BOOLEAN,
             ne : [enabled : BOOLEAN, native : BOOLEAN, rootfs : STRING,
                   extraFlags : Seq(STRING \X STRING)],
             ksm : [enabled : BOOLEAN, mode : STRING],
             history : [enabled : BOOLEAN, retentionDays : Int, intervalMinutes : Int]]

ASSUME StartupAssumption ==
    /\ Files \subseteq FileType
    /\ \A e \in Envs : /\ e.nodeName \in STRING
                       /\ \A n \in DOMAIN e.vars : e.vars[n] \in Seq(STRING)
    /\ Second \in Nat \ {0} /\ DurationSpan \in Nat \ {0}

-----------------------------------------------------------------------------
(***************************************************************************)
(* config.Load.                                                            *)
(***************************************************************************)

refOpens == <<"$", "{">>
refCloses == <<"}">>
notInName == {"$", "{", "}", " "}

(* The variable of a text that is exactly ${NAME}, as a set of at most one.*)
envRef(s) ==
    IF /\ Len(s) >= 4
       /\ SubSeq(s, 1, 2) = refOpens /\ SubSeq(s, Len(s), Len(s)) = refCloses
       /\ \A i \in 3..(Len(s) - 1) : s[i] \notin notInName
    THEN {SubSeq(s, 3, Len(s) - 1)} ELSE {}

Getenv(e, name) == IF name \in DOMAIN e.vars THEN e.vars[name] ELSE <<>>

resolvableBug(e, s) == \A n \in envRef(s) : n \in DOMAIN e.vars

(* "refusing to sign with an empty key"                                    *)
resolvable(e, s) == \A n \in envRef(s) : Getenv(e, n) # <<>>

resolve(e, s) == IF envRef(s) = {} THEN s ELSE Getenv(e, CHOOSE n \in envRef(s) : TRUE)

orDefault(n, d) == IF n <= 0 THEN d ELSE n

historyDefaults(h) ==
    IF h.enabled THEN [enabled |-> TRUE,
                       retentionDays |-> orDefault(h.retentionDays, 1825),
                       intervalMinutes |-> orDefault(h.intervalMinutes, 5)]
    ELSE h

loaded(f, e) == [f EXCEPT
    !.node = IF f.node = unset THEN e.nodeName ELSE f.node,
    !.secrets = [i \in DOMAIN f.secrets |-> resolve(e, f.secrets[i])],
    !.history = historyDefaults(f.history)]

(* The numbers of the file become Durations by multiplications of int64s.  *)
Minute == 60 * Second
Day == 1440 * Minute

wrapDuration(d) == ((d + DurationSpan \div 2) % DurationSpan) - DurationSpan \div 2

IntervalBug(c) == wrapDuration(c.interval * Second)

Interval(c) == IF c.interval <= 0 THEN 15 * Second ELSE wrapDuration(c.interval * Second)

flushInterval(h) == wrapDuration(h.intervalMinutes * Minute)

retention(h) == wrapDuration(h.retentionDays * Day)

ResolvedTiersBug(c) == IF c.tiers = <<>> THEN <<IF c.tier = unset THEN "core" ELSE c.tier>>
                       ELSE SelectSeq(c.tiers, LAMBDA t : t # unset)

(* The names of a list that are not empty, each where it comes first.      *)
distinct(src) == FoldLeft(LAMBDA acc, t : IF t = unset \/ t \in ToSet(acc) THEN acc
                                          ELSE Append(acc, t), <<>>, src)

(* Tiers wins over the legacy Tier; nothing at all means core.             *)
listed(c) == IF c.tiers = <<>> THEN <<c.tier>> ELSE c.tiers

ResolvedTiers(c) == LET out == distinct(listed(c))
                    IN IF out = <<>> THEN <<"core">> ELSE out

Init == /\ file \in Files /\ env \in Envs
        /\ pc = "load" /\ cfg = file /\ todo = <<>>
        /\ reg = <<>> /\ surfaces = {} /\ upstream = {} /\ nvml = FALSE
        /\ store = "none" /\ http = "none" /\ inflight = {} /\ cut = {}
        /\ timedOut = FALSE /\ signalled = FALSE

(* os.Exit(1): the deferred calls do not run.                              *)
Fatal == /\ pc' = "fatal"
         /\ UNCHANGED <<given, built, served, signalled>>

LoadFails == pc = "load" /\ Fatal

Load == /\ pc = "load"
        /\ \A i \in DOMAIN file.secrets : resolvable(env, file.secrets[i])
        /\ cfg' = loaded(file, env) /\ todo' = ResolvedTiers(cfg')
        /\ pc' = "tiers"
        /\ UNCHANGED <<given, reg, surfaces, upstream, nvml, served, signalled>>

-----------------------------------------------------------------------------
(***************************************************************************)
(* The loop over the tiers.                                                *)
(***************************************************************************)
at(tier) == pc = "tiers" /\ todo # <<>> /\ Head(todo) = tier

(* reg.Add, after the tier's compat exporter, if it is enabled, has been   *)
(* registered; a registration that is refused is fatal.                    *)
AddTier(tier, surface, enabled) ==
    \/ enabled /\ Fatal
    \/ /\ surfaces' = IF enabled THEN surfaces \cup {surface} ELSE surfaces
       /\ reg' = Append(reg, tier)
       /\ todo' = Tail(todo) /\ pc' = "tiers"
       /\ UNCHANGED <<given, cfg, upstream, nvml, served, signalled>>

AddCore == at("core") /\ AddTier("core", unset, FALSE)

AddSmart == at("smart") /\ AddTier("smart", "smartctl", cfg.smartctl)

UnknownTier == /\ pc = "tiers" /\ todo # <<>> /\ Head(todo) \notin {"core", "smart", "gpu"}
               /\ Fatal

(* A reader that cannot be had is fatal when gpu is the only tier, and     *)
(* otherwise only the tier is left out.                                    *)
readerFailed ==
    /\ nvml' = FALSE
    /\ IF Len(ResolvedTiers(cfg)) = 1 THEN pc' = "fatal" /\ todo' = todo
                                      ELSE pc' = "tiers" /\ todo' = Tail(todo)
    /\ UNCHANGED <<given, cfg, reg, surfaces, upstream, served, signalled>>

nvmlGoesOn(next) == /\ pc' = next /\ nvml' = TRUE
                    /\ UNCHANGED <<given, cfg, todo, reg, surfaces, upstream, served, signalled>>

(* NewNVMLReader: Init, DeviceGetCount and EventSetCreate may fail, the    *)
(* last two shut NVML down again.  Handles and subscriptions of single     *)
(* devices are best effort.                                                *)
NvmlInit == at("gpu") /\ (readerFailed \/ nvmlGoesOn("nvmlCount"))

DeviceGetCount == pc = "nvmlCount" /\ (readerFailed \/ nvmlGoesOn("nvmlEvents"))

EventSetCreate == pc = "nvmlEvents" /\ (readerFailed \/ nvmlGoesOn("gpu"))

AddGpu == pc = "gpu" /\ AddTier("gpu", "dcgm", cfg.dcgm)

goOn(next) == pc' = next /\ UNCHANGED <<given, built, served, signalled>>

TiersDone == pc = "tiers" /\ todo = <<>> /\ goOn("exporter")

-----------------------------------------------------------------------------
(***************************************************************************)
(* The node_* surface.  A flag is <<"collector", name>> to turn a          *)
(* collector on, <<"no-collector", name>> to turn it off, or <<other, ..>>.*)
(***************************************************************************)

(* nodecompat's collectors and the upstream collector each one replaces.   *)
subs == <<<<"loadavg", "loadavg">>, <<"filefd", "filefd">>, <<"entropy", "entropy">>,
          <<"vmstat", "vmstat">>, <<"uname", "uname">>, <<"osrelease", "os">>>>

SupersededCollectors == {s[2] : s \in ToSet(subs)}

NoCollectorFlags == [i \in DOMAIN subs |-> <<"no-collector", subs[i][2]>>]

nodeExporterFlagsBug(ne) == (IF ne.native THEN NoCollectorFlags ELSE <<>>) \o ne.extraFlags

nodeExporterFlags(ne) == ne.extraFlags \o (IF ne.native THEN NoCollectorFlags ELSE <<>>)

validateExtraFlags(flags) == \A f \in ToSet(flags) : f[1] \in {"collector", "no-collector"}

(* Without the host's root the filesystem collector is turned off.         *)
args(ne) == (IF ne.rootfs = unset THEN <<<<"no-collector", "filesystem">>>> ELSE <<>>)
            \o nodeExporterFlags(ne)

(* kingpin refuses a flag it does not know, and may refuse a repeated one; *)
(* if it does not, the last one counts.                                    *)
mustRefuse(flags) == \E f \in ToSet(flags) : f[2] \notin DOMAIN Upstream

isOn(flags, n) ==
    LET named == {i \in DOMAIN flags : flags[i][2] = n}
    IN IF named = {} THEN Upstream[n]
       ELSE flags[CHOOSE i \in named : \A j \in named : j <= i][1] = "collector"

Enabled(flags) == {n \in DOMAIN Upstream : isOn(flags, n)}

(* nodecompat's or the exporter's registration, the flags, the parser, the *)
(* constructor of a single collector (NewNodeCollector calls them all) or  *)
(* an empty set of collectors: any of them ends the process.               *)
NodeExporterRefused == pc = "exporter" /\ cfg.ne.enabled /\ Fatal

NodeExporter ==
    /\ pc = "exporter" /\ cfg.ne.enabled
    /\ validateExtraFlags(nodeExporterFlags(cfg.ne)) /\ ~mustRefuse(args(cfg.ne))
    /\ Enabled(args(cfg.ne)) # {}
    /\ upstream' = Enabled(args(cfg.ne))
    /\ surfaces' = surfaces \cup {"node_exporter"} \cup (IF cfg.ne.native THEN {"nodecompat"} ELSE {})
    /\ pc' = "ksm"
    /\ UNCHANGED <<given, cfg, todo, reg, nvml, served, signalled>>

NoNodeExporter == pc = "exporter" /\ ~cfg.ne.enabled /\ goOn("ksm")

(* ksmcompat.New: mode and node name are checked, and the token and the CA *)
(* have to be there.                                                       *)
KsmRefused == pc = "ksm" /\ cfg.ksm.enabled /\ Fatal

Ksm == /\ pc = "ksm" /\ cfg.ksm.enabled
       /\ cfg.ksm.mode \in {unset, "node"} /\ cfg.node # unset
       /\ surfaces' = surfaces \cup {"ksm"}
       /\ pc' = "history"
       /\ UNCHANGED <<given, cfg, todo, reg, upstream, nvml, served, signalled>>

NoKsm == pc = "ksm" /\ ~cfg.ksm.enabled /\ goOn("history")

HistoryRefused == pc = "history" /\ cfg.history.enabled /\ Fatal

OpenHistory == /\ pc = "history" /\ cfg.history.enabled
               /\ store' = "open" /\ pc' = "serve"
               /\ UNCHANGED <<given, built, http, inflight, cut, timedOut, signalled>>

NoHistory == pc = "history" /\ ~cfg.history.enabled /\ goOn("serve")

-----------------------------------------------------------------------------
(***************************************************************************)
(* Serving.  The server's goroutine starts before the signals are caught;  *)
(* a listener that cannot be opened is only logged.                        *)
(***************************************************************************)
Serve == /\ pc = "serve"
         /\ http' = "starting" /\ pc' = "notify"
         /\ UNCHANGED <<given, built, store, inflight, cut, timedOut, signalled>>

NotifyContext == pc = "notify" /\ goOn("ticker")

(* Run starts with time.NewTicker, which panics on an interval that is not *)
(* positive; the panic runs main's deferred calls and ends the process.    *)
NewTicker == pc = "ticker" /\ Interval(cfg) > 0 /\ goOn("run")

TickerPanics == pc = "ticker" /\ Interval(cfg) <= 0 /\ goOn("panic")

Listen == /\ http = "starting" /\ pc \notin ended
          /\ http' \in {"listening", "failed"}
          /\ UNCHANGED <<given, pc, built, store, inflight, cut, timedOut, signalled>>

Request(r) == /\ http = "listening" /\ pc \notin ended /\ r \notin inflight
              /\ inflight' = inflight \cup {r}
              /\ UNCHANGED <<given, pc, built, store, http, cut, timedOut, signalled>>

(* The handler of /v1/history reads the store last.                        *)
Respond(r) == /\ r \in inflight /\ pc \notin ended
              /\ inflight' = inflight \ {r}
              /\ cut' = IF store = "closed" THEN cut \cup {r} ELSE cut
              /\ UNCHANGED <<given, pc, built, store, http, timedOut, signalled>>

(* Before NotifyContext a signal ends the process, afterwards it is caught;*)
(* a panic runs the deferred stop, and then a signal ends the process.     *)
Signal == /\ ~signalled /\ pc \notin ended
          /\ signalled' = TRUE
          /\ \/ pc \notin building \cup {"serve", "notify"} /\ pc' = pc
             \/ pc \in building \cup {"serve", "notify", "panic"} /\ pc' = "killed"
          /\ UNCHANGED <<given, built, served>>

(* Agent.Run returns once the context is done: see Agent.                  *)
RunReturns == pc = "run" /\ signalled /\ goOn("shutdown")

(* srv.Shutdown closes the listener; a ListenAndServe that comes later     *)
(* returns ErrServerClosed.                                                *)
Shutdown == /\ pc = "shutdown"
            /\ http' = "closed" /\ pc' = "drain"
            /\ UNCHANGED <<given, built, store, inflight, cut, timedOut, signalled>>

DrainedBug == pc = "drain" /\ goOn("close")

Drained == pc = "drain" /\ inflight = {} /\ goOn("close")

DrainTimesOutBug == FALSE /\ goOn("close")

DrainTimesOut == /\ pc = "drain" /\ inflight # {}
                 /\ timedOut' = TRUE /\ pc' = "close"
                 /\ UNCHANGED <<given, built, store, http, inflight, cut, signalled>>

(* The deferred hist.Close; a request may still be running, then main      *)
(* returns and the process ends.                                           *)
CloseHistory == /\ pc \in {"close", "panic"} /\ store = "open"
                /\ store' = "closed"
                /\ UNCHANGED <<given, pc, built, http, inflight, cut, timedOut, signalled>>

Exit == pc = "close" /\ store # "open" /\ goOn("exited")

Crash == pc = "panic" /\ store # "open" /\ goOn("crashed")

Building == \/ LoadFails \/ Load \/ AddCore \/ AddSmart \/ UnknownTier
            \/ NvmlInit \/ DeviceGetCount \/ EventSetCreate \/ AddGpu \/ TiersDone
            \/ NodeExporterRefused \/ NodeExporter \/ NoNodeExporter
            \/ KsmRefused \/ Ksm \/ NoKsm \/ HistoryRefused \/ OpenHistory \/ NoHistory
            \/ Serve \/ NotifyContext \/ NewTicker \/ TickerPanics

Stopping == RunReturns \/ Shutdown \/ Drained \/ DrainTimesOut \/ CloseHistory \/ Exit \/ Crash

Next == \/ Building \/ Stopping \/ Listen \/ Signal
        \/ \E r \in Requests : Request(r) \/ Respond(r)

(* main runs, its calls return (bbolt waits at most five seconds for the   *)
(* file), and Shutdown stops waiting.  Nothing is assumed of clients,      *)
(* handlers or signals.                                                    *)
Spec == Init /\ [][Next]_vars /\ WF_vars(Building) /\ WF_vars(Stopping)
-----------------------------------------------------------------------------
(***************************************************************************)
(* Properties.                                                             *)
(***************************************************************************)

(* Every variable has its type, and the numbers of a history section that  *)
(* is on are positive once the file is loaded.                             *)
TypeOK == /\ pc \in building \cup serving \cup ended
          /\ ToSet(reg) \subseteq {"core", "smart", "gpu"} /\ upstream \subseteq DOMAIN Upstream
          /\ surfaces \subseteq {"smartctl", "dcgm", "node_exporter", "nodecompat", "ksm"}
          /\ store \in {"none", "open", "closed"}
          /\ http \in {"none", "starting", "listening", "failed", "closed"}
          /\ inflight \subseteq Requests /\ cut \subseteq Requests
          /\ {nvml, timedOut, signalled} \subseteq BOOLEAN
          /\ up /\ cfg.history.enabled => cfg.history.intervalMinutes > 0 /\ cfg.history.retentionDays > 0

(* A number of the file, or its default, as a Duration that did not wrap.  *)
meant(n, default, unit) == (IF n > 0 THEN n ELSE default) * unit
fits(d) == d < DurationSpan \div 2

(* main works with the interval, the flush interval and the retention that *)
(* the file means, and with the documented default for a number that is    *)
(* not positive, as long as that period is a time.Duration at all (292     *)
(* years); Run panics for no other file than one whose interval is not.    *)
PeriodsAreMeant ==
    up => LET interval == meant(file.interval, 15, Second)
              minutes == meant(file.history.intervalMinutes, 5, Minute)
              days == meant(file.history.retentionDays, 1825, Day)
          IN /\ fits(interval) => Interval(cfg) = interval /\ pc \notin {"panic", "crashed"}
             /\ file.history.enabled /\ fits(minutes) => flushInterval(cfg.history) = minutes
             /\ file.history.enabled /\ fits(days) => retention(cfg.history) = days

(* "Interval returns the collection interval, defaulting to 15s": for any  *)
(* number the file may give, when Run asks for a ticker of that interval.  *)
IntervalIsConfigured == pc \in {"run", "panic"} => Interval(cfg) = meant(file.interval, 15, Second)

asked == LET names == ToSet(listed(file))
         IN IF names \subseteq {unset} THEN {"core"} ELSE names \ {unset}

(* What ResolvedTiers is to make of the list of a file: its names without  *)
(* the empty ones and without repeats.                                     *)
NoRepeats(s) == \A i, j \in DOMAIN s : s[i] = s[j] => i = j

DistinctIsExact ==
    \A f \in Files : /\ distinct(listed(f)) \in Seq(ToSet(listed(f)) \ {unset})
                     /\ ToSet(distinct(listed(f))) = ToSet(listed(f)) \ {unset}
                     /\ NoRepeats(distinct(listed(f)))

(* What runs is what the file asks for, nothing twice and nothing silently *)
(* missing: only the gpu tier, and only next to another tier, may be left  *)
(* out, with its DCGM surface; no compat surface is served without the     *)
(* tier that feeds it, no node_* surface without a collector, and NVML is  *)
(* initialised exactly when its reader is in use, whichever of the three   *)
(* calls of NewNVMLReader failed.                                          *)
AsConfigured ==
    up => /\ reg # <<>> /\ Cardinality(ToSet(reg)) = Len(reg)
          /\ ToSet(reg) \in {asked, asked \ {"gpu"}}
          /\ surfaces = {x \in {"smartctl"} : "smart" \in ToSet(reg) /\ file.smartctl}
                        \cup {x \in {"dcgm"} : "gpu" \in ToSet(reg) /\ file.dcgm}
                        \cup {x \in {"node_exporter"} : file.ne.enabled}
                        \cup {x \in {"nodecompat"} : file.ne.enabled /\ file.ne.native}
                        \cup {x \in {"ksm"} : file.ksm.enabled}
          /\ file.ne.enabled <=> upstream # {}
          /\ file.history.enabled <=> store # "none"
          /\ nvml <=> "gpu" \in ToSet(reg)

(* No node_* family has two owners, whatever flags the operator adds: an   *)
(* upstream collector that a native one replaces is never active with it   *)
(* (the scrape would silently lose the family and still answer 200).       *)
OneOwnerPerFamily == "nodecompat" \in surfaces => upstream \cap SupersededCollectors = {}

(* A running agent signs with the key that was meant: a secret that is a   *)
(* ${NAME} reference with its non-empty value, any other one as written;   *)
(* only a secret written as empty leaves a webhook unsigned.               *)
SignedOrRefused ==
    up => \A i \in DOMAIN file.secrets :
        LET written == file.secrets[i]  used == cfg.secrets[i] IN
        /\ used = <<>> => written = <<>>
        /\ used # written => \E n \in DOMAIN env.vars :
              written = refOpens \o n \o refCloses /\ used = env.vars[n]

(* The history file is released and not under a reader's hands: a process  *)
(* that ends by itself, by returning from main, by os.Exit (which skips    *)
(* the deferred Close) or by a panic, does not leave it open, and it is    *)
(* closed under a request only when Shutdown has waited for that in vain   *)
(* or when Run panicked.                                                   *)
StoreReleased == /\ pc \in {"exited", "fatal", "crashed"} => store # "open"
                 /\ cut # {} => timedOut \/ pc \in {"panic", "crashed", "killed"}

(* Start-up comes to a decision for every list of tiers and whatever NVML  *)
(* does, and a signal ends the process at whatever point it arrives,       *)
(* although requests may never finish.                                     *)
SignalEndsProcess == /\ <>(up \/ pc \in ended)
                     /\ signalled ~> pc \in ended
=============================================================================
