--------------------------- MODULE Startup_proofs ---------------------------
(***************************************************************************)
(* Proofs about start-up and shutdown: for every configuration file, every *)
(* environment, every set of node_exporter collectors and any number of    *)
(* requests.                                                               *)
(*                                                                         *)
(* StartInv is inductive.  Its parts say what main has done by the time it *)
(* is somewhere: which configuration it works with, who may have           *)
(* registered a surface, and how far the server and the store are.         *)
(***************************************************************************)
EXTENDS Startup, FiniteSetTheorems, SequenceTheorems, TLAPS

tiersLoop == {"tiers", "nvmlCount", "nvmlEvents", "gpu"}

StartTypes ==
    /\ file \in Files /\ env \in Envs
    /\ pc \in building \cup serving \cup ended
    /\ reg \in Seq({"core", "smart", "gpu"}) /\ upstream \subseteq DOMAIN Upstream
    /\ surfaces \subseteq {"smartctl", "dcgm", "node_exporter", "nodecompat", "ksm"}
    /\ store \in {"none", "open", "closed"}
    /\ http \in {"none", "starting", "listening", "failed", "closed"}
    /\ inflight \subseteq Requests /\ cut \subseteq Requests
    /\ nvml \in BOOLEAN /\ timedOut \in BOOLEAN /\ signalled \in BOOLEAN

(* Once Load has returned, main works with what it made of the file, and   *)
(* every secret could be resolved.                                         *)
CfgIsLoaded ==
    pc \notin {"load", "fatal", "killed"} =>
        /\ cfg = loaded(file, env)
        /\ \A i \in DOMAIN file.secrets : resolvable(env, file.secrets[i])

(* The tiers register the first two surfaces only, and node_exporter's     *)
(* collectors are chosen after them.                                       *)
OwnersByStep ==
    /\ pc \in {"load", "exporter"} \cup tiersLoop => upstream = {} /\ surfaces \subseteq {"smartctl", "dcgm"}
    /\ OneOwnerPerFamily

(* The store is opened after everything that may be fatal, and closed      *)
(* after the server or by a panic; only a drain that timed out, or the     *)
(* panic, leaves requests behind.                                          *)
StoreByStep ==
    /\ pc \in building \cup {"fatal"} => store = "none"
    /\ store = "closed" => pc \in {"close", "panic", "exited", "crashed", "killed"}
    /\ pc \in {"exited", "crashed"} => store # "open"
    /\ pc \in {"drain", "close", "exited"} => http = "closed"
    /\ pc = "close" => timedOut \/ inflight = {}
    /\ cut # {} => timedOut \/ pc \in {"panic", "crashed", "killed"}

(* Run panics for one reason only.                                         *)
Panicked == pc \in {"panic", "crashed"} => Interval(cfg) <= 0

StartInv == StartTypes /\ CfgIsLoaded /\ OwnersByStep /\ StoreByStep /\ Panicked

-----------------------------------------------------------------------------
(* A text that is a reference is exactly "${", the name and "}".           *)
LEMMA EnvRefIsWhole ==
    ASSUME NEW s \in Seq(STRING), NEW n \in envRef(s)
    PROVE  /\ envRef(s) = {n}
           /\ s = refOpens \o n \o refCloses
<1> DEFINE L == Len(s)
<1>1. /\ L >= 4
      /\ SubSeq(s, 1, 2) = refOpens /\ SubSeq(s, L, L) = refCloses
      /\ envRef(s) = {SubSeq(s, 3, L - 1)}
  BY Zenon DEF envRef
<1>2. L \in Nat
  BY LenProperties
<1> HIDE DEF L
<1>3. n = SubSeq(s, 3, L - 1)
  BY <1>1
<1>4. refOpens \o n = SubSeq(s, 1, L - 1)
  <2>1. /\ 1 \in 1..(Len(s) + 1) /\ 2 \in (1 - 1)..Len(s) /\ L - 1 \in 2..Len(s)
    BY <1>1, <1>2 DEF L
  <2>2. SubSeq(s, 1, 2) \o SubSeq(s, 2 + 1, L - 1) = SubSeq(s, 1, L - 1)
    BY <2>1, ConcatAdjacentSubSeq
  <2>3. 2 + 1 = 3
    OBVIOUS
  <2> QED
    BY <1>1, <1>3, <2>2, <2>3
<1>5. SubSeq(s, 1, L - 1) \o refCloses = SubSeq(s, 1, L)
  <2>1. /\ 1 \in 1..(Len(s) + 1) /\ L - 1 \in (1 - 1)..Len(s) /\ L \in (L - 1)..Len(s)
        /\ L - 1 + 1 = L
    BY <1>1, <1>2 DEF L
  <2>2. SubSeq(s, 1, L - 1) \o SubSeq(s, L - 1 + 1, L) = SubSeq(s, 1, L)
    BY <2>1, ConcatAdjacentSubSeq
  <2> QED
    BY <1>1, <2>1, <2>2
<1>6. SubSeq(s, 1, L) = s
  BY SubSeqFull DEF L
<1> QED
  BY <1>1, <1>3, <1>4, <1>5, <1>6

HistoryType == [enabled : BOOLEAN, retentionDays : Int, intervalMinutes : Int]

(* A history section that is on gets positive numbers.                     *)
LEMMA HistoryIsPositive ==
    ASSUME NEW h \in HistoryType
    PROVE  /\ historyDefaults(h) \in HistoryType
           /\ historyDefaults(h).enabled = h.enabled
           /\ h.enabled => /\ historyDefaults(h).intervalMinutes > 0
                           /\ historyDefaults(h).retentionDays > 0
<1>1. h.retentionDays \in Int /\ h.intervalMinutes \in Int
  BY DEF HistoryType
<1>2. PICK days \in Int : days = orDefault(h.retentionDays, 1825) /\ days > 0
  BY <1>1 DEF orDefault
<1>3. PICK minutes \in Int : minutes = orDefault(h.intervalMinutes, 5) /\ minutes > 0
  BY <1>1 DEF orDefault
<1>4. CASE h.enabled
  <2>1. historyDefaults(h) = [enabled |-> TRUE, retentionDays |-> days, intervalMinutes |-> minutes]
    BY <1>2, <1>3, <1>4 DEF historyDefaults
  <2> QED
    BY <1>2, <1>3, <1>4, <2>1 DEF HistoryType
<1>5. CASE ~h.enabled
  BY <1>5 DEF historyDefaults, HistoryType
<1> QED
  BY <1>4, <1>5

(* What a secret resolves to is a text.                                    *)
LEMMA ResolvesToText ==
    ASSUME env \in Envs, NEW s \in Seq(STRING)
    PROVE  resolve(env, s) \in Seq(STRING)
<1>1. \A n \in DOMAIN env.vars : env.vars[n] \in Seq(STRING)
  BY StartupAssumption
<1>2. <<>> \in Seq(STRING)
  BY EmptySeq
<1>3. \A n : Getenv(env, n) \in Seq(STRING)
  BY <1>1, <1>2, Zenon DEF Getenv
<1> QED
  BY <1>3, Zenon DEF resolve

(* Load keeps every field but the three it fills in, and gives the numbers *)
(* of a history section that is on a positive value.                       *)
LEMMA LoadedFields ==
    ASSUME file \in Files, env \in Envs
    PROVE  /\ loaded(file, env).tiers = file.tiers /\ loaded(file, env).tier = file.tier
           /\ loaded(file, env).ne = file.ne /\ loaded(file, env).ksm = file.ksm
           /\ loaded(file, env).dcgm = file.dcgm /\ loaded(file, env).smartctl = file.smartctl
           /\ loaded(file, env).history.enabled = file.history.enabled
           /\ loaded(file, env).interval = file.interval
           /\ loaded(file, env).history = historyDefaults(file.history)
           /\ loaded(file, env).history.enabled => /\ loaded(file, env).history.intervalMinutes > 0
                                        /\ loaded(file, env).history.retentionDays > 0
           /\ loaded(file, env).secrets = [i \in DOMAIN file.secrets |-> resolve(env, file.secrets[i])]
<1>1. file \in FileType
  BY StartupAssumption
<1>2. file.history \in HistoryType
  BY <1>1 DEF FileType, HistoryType
<1> DEFINE node == IF file.node = unset THEN env.nodeName ELSE file.node
           secrets == [i \in DOMAIN file.secrets |-> resolve(env, file.secrets[i])]
           history == historyDefaults(file.history)
<1>4. loaded(file, env) = [file EXCEPT !.node = node, !.secrets = secrets, !.history = history]
  BY Zenon DEF loaded
<1> HIDE DEF node, secrets, history
<1>5. /\ loaded(file, env).tiers = file.tiers /\ loaded(file, env).tier = file.tier
      /\ loaded(file, env).ne = file.ne /\ loaded(file, env).ksm = file.ksm
      /\ loaded(file, env).dcgm = file.dcgm /\ loaded(file, env).smartctl = file.smartctl
      /\ loaded(file, env).history = history /\ loaded(file, env).interval = file.interval
      /\ loaded(file, env).secrets = secrets
  BY <1>1, <1>4 DEF FileType
<1> QED
  BY <1>2, <1>5, HistoryIsPositive DEF history, secrets

(* The process starts in the invariant.                                    *)
LEMMA StartInvInit == Init => StartInv
<1> SUFFICES ASSUME Init PROVE StartInv
  OBVIOUS
<1>1. StartTypes
  BY EmptySeq DEF Init, StartTypes, building
<1>2. CfgIsLoaded
  BY DEF Init, CfgIsLoaded
<1>3. OwnersByStep
  BY DEF Init, OwnersByStep, OneOwnerPerFamily
<1>4. StoreByStep /\ Panicked
  BY DEF Init, StoreByStep, Panicked
<1> QED
  BY <1>1, <1>2, <1>3, <1>4 DEF StartInv

-----------------------------------------------------------------------------
(* The last of three lists is at the end of their concatenation.           *)
LEMMA LastOfThree ==
    ASSUME NEW S, NEW x \in Seq(S), NEW y \in Seq(S), NEW z \in Seq(S),
           NEW a, a = x \o (y \o z)
    PROVE  /\ Len(x \o y) \in Nat
           /\ DOMAIN a = 1..(Len(x \o y) + Len(z))
           /\ \A i \in 1..Len(z) : a[Len(x \o y) + i] = z[i]
<1>1. a = (x \o y) \o z
  BY ConcatAssociative
<1>2. PICK w \in Seq(S) : w = x \o y
  BY ConcatProperties, Zenon
<1>3. DOMAIN (w \o z) = 1..(Len(w) + Len(z))
  OBVIOUS
<1>4. \A i \in 1..Len(z) : (w \o z)[Len(w) + i] = z[i]
  OBVIOUS
<1>5. Len(w) \in Nat
  OBVIOUS
<1> QED
  BY <1>1, <1>2, <1>3, <1>4, <1>5, Zenon

(* The generated flags come last, so among the flags that name a collector *)
(* which a native one replaces the last one turns it off.                  *)
LEMMA NativeTurnsOff ==
    ASSUME NEW ne \in [enabled : BOOLEAN, native : BOOLEAN, rootfs : STRING,
                       extraFlags : Seq(STRING \X STRING)],
           ne.native
    PROVE  Enabled(args(ne)) \cap SupersededCollectors = {}
<1> DEFINE off(n) == <<"no-collector", n>>
           fs == IF ne.rootfs = unset THEN <<off("filesystem")>> ELSE <<>>
           Flag == (STRING \X STRING) \cup {off("filesystem")} \cup {off(subs[i][2]) : i \in 1..6}
           a == args(ne)
<1>1. /\ DOMAIN subs = 1..6
      /\ \A i, j \in 1..6 : subs[i][2] = subs[j][2] => i = j
  BY DEF subs
<1>2. /\ \A i \in 1..6 : off(subs[i][2]) \in Flag /\ off(subs[i][2])[1] = "no-collector"
                                               /\ off(subs[i][2])[2] = subs[i][2]
      /\ off("filesystem") \in Flag
      /\ STRING \X STRING \subseteq Flag
  OBVIOUS
<1>3. SupersededCollectors = {subs[i][2] : i \in 1..6}
  BY <1>1 DEF SupersededCollectors, ToSet
<1> HIDE DEF Flag
<1>4. /\ NoCollectorFlags \in Seq(Flag) /\ Len(NoCollectorFlags) = 6
      /\ \A i \in 1..6 : NoCollectorFlags[i] = off(subs[i][2])
  BY <1>1, <1>2 DEF NoCollectorFlags
<1>5. /\ fs \in Seq(Flag) /\ ne.extraFlags \in Seq(Flag)
  <2>1. ne.extraFlags \in Seq(Flag)
    BY <1>2, SeqMonotonic
  <2>2. <<off("filesystem")>> \in Seq(Flag) /\ <<>> \in Seq(Flag)
    BY <1>2
  <2> QED
    BY <2>1, <2>2
<1> HIDE DEF fs
<1>6. a = fs \o (ne.extraFlags \o NoCollectorFlags)
  BY Zenon DEF args, nodeExporterFlags, fs
<1>7. SUFFICES ASSUME NEW k \in 1..6, isOn(a, subs[k][2])
               PROVE  FALSE
  BY <1>3 DEF Enabled
<1> HIDE DEF a
<1>8. PICK front \in Nat : /\ DOMAIN a = 1..(front + Len(NoCollectorFlags))
                           /\ \A i \in 1..Len(NoCollectorFlags) : a[front + i] = NoCollectorFlags[i]
  <2>1. PICK x \in Seq(Flag) : x = fs
    BY <1>5, Zenon
  <2>2. PICK y \in Seq(Flag) : y = ne.extraFlags
    BY <1>5, Zenon
  <2>3. PICK z \in Seq(Flag) : z = NoCollectorFlags
    BY <1>4, Zenon
  <2>4. a = x \o (y \o z)
    BY <1>6, <2>1, <2>2, <2>3, Zenon
  <2>5. /\ Len(x \o y) \in Nat
        /\ DOMAIN a = 1..(Len(x \o y) + Len(z))
        /\ \A i \in 1..Len(z) : a[Len(x \o y) + i] = z[i]
    BY <2>4, LastOfThree, SMTT(30)
  <2> QED
    BY <2>3, <2>5, Zenon
<1> DEFINE named == {i \in DOMAIN a : a[i][2] = subs[k][2]}
           last == front + k
<1>9. /\ DOMAIN a = 1..(front + 6)
      /\ \A i \in 1..6 : a[front + i] = off(subs[i][2])
  BY <1>4, <1>8
<1>10. last \in named /\ a[last][1] = "no-collector"
  BY <1>2, <1>8, <1>9
<1>11. ASSUME NEW j \in named PROVE j \in Int /\ j <= last
  <2>1. j \in 1..(front + 6) /\ a[j][2] = subs[k][2]
    BY <1>9
  <2>2. CASE j <= front
    BY <2>1, <2>2, <1>8
  <2>3. CASE j > front
    <3>1. PICK i \in 1..6 : j = front + i
      <4>1. j - front \in 1..6 /\ j = front + (j - front)
        BY <2>1, <2>3, <1>8
      <4> QED
        BY <4>1
    <3>2. subs[i][2] = subs[k][2]
      BY <3>1, <2>1, <1>2, <1>9
    <3> QED
      BY <3>1, <3>2, <1>1, <1>8
  <2> QED
    BY <2>1, <2>2, <2>3, <1>8
<1>12. (CHOOSE i \in named : \A j \in named : j <= i) = last
  <2> DEFINE m == CHOOSE i \in named : \A j \in named : j <= i
  <2> HIDE DEF named
  <2>1. m \in named /\ \A j \in named : j <= m
    BY <1>10, <1>11
  <2>2. m <= last /\ last <= m /\ m \in Int /\ last \in Int
    BY <2>1, <1>8, <1>10, <1>11
  <2> HIDE DEF m
  <2>3. m = last
    BY <2>2
  <2> QED
    BY <2>3 DEF m
<1>13. a[last][1] = "collector"
  BY <1>7, <1>10, <1>12, Zenon DEF isOn
<1> QED
  BY <1>10, <1>13

-----------------------------------------------------------------------------
(* AddTier either ends the process or registers the tier.                  *)
Added(tier, surface, enabled) ==
    /\ surfaces' = IF enabled THEN surfaces \cup {surface} ELSE surfaces
    /\ reg' = Append(reg, tier) /\ todo' = Tail(todo) /\ pc' = "tiers"
    /\ UNCHANGED <<given, cfg, upstream, nvml, served, signalled>>

(* A call of AddTier is one of the two.                                    *)
LEMMA AddTierSteps ==
    ASSUME NEW tier, NEW surface, NEW enabled, AddTier(tier, surface, enabled)
    PROVE  Fatal \/ Added(tier, surface, enabled)
BY Zenon DEF AddTier, Added

(* Every step keeps the types.                                             *)
LEMMA TypesStep == StartTypes /\ OwnersByStep /\ [Next]_vars => StartTypes'
<1> SUFFICES ASSUME StartTypes, OwnersByStep, [Next]_vars PROVE StartTypes'
  OBVIOUS
<1> USE DEF given, built, served
<1>1. CASE LoadFails
  BY <1>1 DEF LoadFails, Fatal, StartTypes, building, serving, ended
<1>2. CASE Load
  BY <1>2 DEF Load, StartTypes, building, serving, ended
<1>3. CASE AddCore
  <2>1. CASE Fatal
    BY <2>1 DEF Fatal, StartTypes, building, serving, ended
  <2>2. CASE Added("core", unset, FALSE)
    <3>1. reg' \in Seq({"core", "smart", "gpu"})
      BY <2>2 DEF Added, StartTypes
    <3>2. surfaces' \subseteq {"smartctl", "dcgm", "node_exporter", "nodecompat", "ksm"}
      BY <2>2 DEF Added, StartTypes
    <3> QED
      BY <2>2, <3>1, <3>2 DEF Added, StartTypes, building, serving, ended
  <2> QED
    BY <1>3, <2>1, <2>2, AddTierSteps DEF AddCore
<1>4. CASE AddSmart
  <2>1. CASE Fatal
    BY <2>1 DEF Fatal, StartTypes, building, serving, ended
  <2>2. CASE Added("smart", "smartctl", cfg.smartctl)
    <3>1. reg' \in Seq({"core", "smart", "gpu"})
      BY <2>2 DEF Added, StartTypes
    <3>2. surfaces' \subseteq {"smartctl", "dcgm", "node_exporter", "nodecompat", "ksm"}
      BY <2>2 DEF Added, StartTypes
    <3> QED
      BY <2>2, <3>1, <3>2 DEF Added, StartTypes, building, serving, ended
  <2> QED
    BY <1>4, <2>1, <2>2, AddTierSteps DEF AddSmart
<1>5. CASE UnknownTier
  BY <1>5 DEF UnknownTier, Fatal, StartTypes, building, serving, ended
<1>6. CASE NvmlInit
  BY <1>6 DEF NvmlInit, readerFailed, nvmlGoesOn, at, StartTypes, building, serving, ended
<1>7. CASE DeviceGetCount
  BY <1>7 DEF DeviceGetCount, readerFailed, nvmlGoesOn, StartTypes, building, serving, ended
<1>8. CASE EventSetCreate
  BY <1>8 DEF EventSetCreate, readerFailed, nvmlGoesOn, StartTypes, building, serving, ended
<1>9. CASE AddGpu
  <2>1. CASE Fatal
    BY <2>1 DEF Fatal, StartTypes, building, serving, ended
  <2>2. CASE Added("gpu", "dcgm", cfg.dcgm)
    <3>1. reg' \in Seq({"core", "smart", "gpu"})
      BY <2>2 DEF Added, StartTypes
    <3>2. surfaces' \subseteq {"smartctl", "dcgm", "node_exporter", "nodecompat", "ksm"}
      BY <2>2 DEF Added, StartTypes
    <3> QED
      BY <2>2, <3>1, <3>2 DEF Added, StartTypes, building, serving, ended
  <2> QED
    BY <1>9, <2>1, <2>2, AddTierSteps DEF AddGpu
<1>10. CASE TiersDone
  BY <1>10 DEF TiersDone, goOn, StartTypes, building, serving, ended
<1>11. CASE NodeExporterRefused
  BY <1>11 DEF NodeExporterRefused, Fatal, StartTypes, building, serving, ended
<1>12. CASE NodeExporter
  <2>1. upstream' \subseteq DOMAIN Upstream
    BY <1>12 DEF NodeExporter, Enabled
  <2>2. surfaces' \subseteq {"smartctl", "dcgm", "node_exporter", "nodecompat", "ksm"}
    BY <1>12 DEF NodeExporter, StartTypes
  <2> QED
    BY <1>12, <2>1, <2>2 DEF NodeExporter, StartTypes, building, serving, ended
<1>13. CASE NoNodeExporter
  BY <1>13 DEF NoNodeExporter, goOn, StartTypes, building, serving, ended
<1>14. CASE KsmRefused
  BY <1>14 DEF KsmRefused, Fatal, StartTypes, building, serving, ended
<1>15. CASE Ksm
  BY <1>15 DEF Ksm, StartTypes, building, serving, ended
<1>16. CASE NoKsm
  BY <1>16 DEF NoKsm, goOn, StartTypes, building, serving, ended
<1>17. CASE HistoryRefused
  BY <1>17 DEF HistoryRefused, Fatal, StartTypes, building, serving, ended
<1>18. CASE OpenHistory
  BY <1>18 DEF OpenHistory, StartTypes, building, serving, ended
<1>19. CASE NoHistory
  BY <1>19 DEF NoHistory, goOn, StartTypes, building, serving, ended
<1>20. CASE Serve
  BY <1>20 DEF Serve, StartTypes, building, serving, ended
<1>21. CASE NotifyContext
  BY <1>21 DEF NotifyContext, goOn, StartTypes, building, serving, ended
<1>22. CASE RunReturns
  BY <1>22 DEF RunReturns, goOn, StartTypes, building, serving, ended
<1>23. CASE Shutdown
  BY <1>23 DEF Shutdown, StartTypes, building, serving, ended
<1>24. CASE Drained
  BY <1>24 DEF Drained, goOn, StartTypes, building, serving, ended
<1>25. CASE DrainTimesOut
  BY <1>25 DEF DrainTimesOut, StartTypes, building, serving, ended
<1>26. CASE CloseHistory
  BY <1>26 DEF CloseHistory, StartTypes, building, serving, ended
<1>27. CASE Exit
  BY <1>27 DEF Exit, goOn, StartTypes, building, serving, ended
<1>28. CASE Listen
  BY <1>28 DEF Listen, StartTypes, building, serving, ended
<1>29. CASE Signal
  BY <1>29 DEF Signal, StartTypes, building, serving, ended
<1>30. CASE \E r \in Requests : Request(r)
  BY <1>30 DEF Request, StartTypes, building, serving, ended
<1>31. CASE \E r \in Requests : Respond(r)
  BY <1>31 DEF Respond, StartTypes, building, serving, ended
<1>32. CASE UNCHANGED vars
  BY <1>32 DEF vars, given, built, served, StartTypes, building, serving, ended
<1>33. CASE NewTicker
  BY <1>33 DEF NewTicker, goOn, StartTypes, building, serving, ended
<1>34. CASE TickerPanics
  BY <1>34 DEF TickerPanics, goOn, StartTypes, building, serving, ended
<1>35. CASE Crash
  BY <1>35 DEF Crash, goOn, StartTypes, building, serving, ended
<1> QED
  BY <1>1, <1>2, <1>3, <1>4, <1>5, <1>6, <1>7, <1>8, <1>9, <1>10, <1>11, <1>12, <1>13, <1>14, <1>15, <1>16, <1>17, <1>18, <1>19, <1>20, <1>21, <1>22, <1>23, <1>24, <1>25, <1>26, <1>27, <1>28, <1>29, <1>30, <1>31, <1>32, <1>33, <1>34, <1>35 DEF Next, Building, Stopping

(* The store, the server and the requests are where main's place says.     *)
LEMMA StoreStep == StartTypes /\ StoreByStep /\ [Next]_vars => StoreByStep'
<1> SUFFICES ASSUME StartTypes, StoreByStep, [Next]_vars PROVE StoreByStep'
  OBVIOUS
<1> USE DEF given, built, served, StartTypes
<1>1. CASE LoadFails
  BY <1>1 DEF LoadFails, Fatal, StoreByStep, building, serving, ended
<1>2. CASE Load
  BY <1>2 DEF Load, StoreByStep, building, serving, ended
<1>3. CASE AddCore
  BY <1>3 DEF AddCore, AddTier, at, StoreByStep, building, serving, ended
<1>4. CASE AddSmart
  BY <1>4 DEF AddSmart, AddTier, at, Fatal, StoreByStep, building, serving, ended
<1>5. CASE UnknownTier
  BY <1>5 DEF UnknownTier, Fatal, StoreByStep, building, serving, ended
<1>6. CASE NvmlInit
  BY <1>6 DEF NvmlInit, readerFailed, nvmlGoesOn, at, StoreByStep, building, serving, ended
<1>7. CASE DeviceGetCount
  BY <1>7 DEF DeviceGetCount, readerFailed, nvmlGoesOn, StoreByStep, building, serving, ended
<1>8. CASE EventSetCreate
  BY <1>8 DEF EventSetCreate, readerFailed, nvmlGoesOn, StoreByStep, building, serving, ended
<1>9. CASE AddGpu
  BY <1>9 DEF AddGpu, AddTier, Fatal, StoreByStep, building, serving, ended
<1>10. CASE TiersDone
  BY <1>10 DEF TiersDone, goOn, StoreByStep, building, serving, ended
<1>11. CASE NodeExporterRefused
  BY <1>11 DEF NodeExporterRefused, Fatal, StoreByStep, building, serving, ended
<1>12. CASE NodeExporter
  BY <1>12 DEF NodeExporter, StoreByStep, building, serving, ended
<1>13. CASE NoNodeExporter
  BY <1>13 DEF NoNodeExporter, goOn, StoreByStep, building, serving, ended
<1>14. CASE KsmRefused
  BY <1>14 DEF KsmRefused, Fatal, StoreByStep, building, serving, ended
<1>15. CASE Ksm
  BY <1>15 DEF Ksm, StoreByStep, building, serving, ended
<1>16. CASE NoKsm
  BY <1>16 DEF NoKsm, goOn, StoreByStep, building, serving, ended
<1>17. CASE HistoryRefused
  BY <1>17 DEF HistoryRefused, Fatal, StoreByStep, building, serving, ended
<1>18. CASE OpenHistory
  BY <1>18 DEF OpenHistory, StoreByStep, building, serving, ended
<1>19. CASE NoHistory
  BY <1>19 DEF NoHistory, goOn, StoreByStep, building, serving, ended
<1>20. CASE Serve
  BY <1>20 DEF Serve, StoreByStep, building, serving, ended
<1>21. CASE NotifyContext
  BY <1>21 DEF NotifyContext, goOn, StoreByStep, building, serving, ended
<1>22. CASE RunReturns
  BY <1>22 DEF RunReturns, goOn, StoreByStep, building, serving, ended
<1>23. CASE Shutdown
  BY <1>23 DEF Shutdown, StoreByStep, building, serving, ended
<1>24. CASE Drained
  BY <1>24 DEF Drained, goOn, StoreByStep, building, serving, ended
<1>25. CASE DrainTimesOut
  BY <1>25 DEF DrainTimesOut, StoreByStep, building, serving, ended
<1>26. CASE CloseHistory
  BY <1>26 DEF CloseHistory, StoreByStep, building, serving, ended
<1>27. CASE Exit
  BY <1>27 DEF Exit, goOn, StoreByStep, building, serving, ended
<1>28. CASE Listen
  BY <1>28 DEF Listen, StoreByStep, building, serving, ended
<1>29. CASE Signal
  BY <1>29 DEF Signal, StoreByStep, building, serving, ended
<1>30. CASE \E r \in Requests : Request(r)
  BY <1>30 DEF Request, StoreByStep, building, serving, ended
<1>31. CASE \E r \in Requests : Respond(r)
  BY <1>31 DEF Respond, StoreByStep, building, serving, ended
<1>32. CASE UNCHANGED vars
  BY <1>32 DEF vars, given, built, served, StoreByStep, building, serving, ended
<1>33. CASE NewTicker
  BY <1>33 DEF NewTicker, goOn, StoreByStep, building, serving, ended
<1>34. CASE TickerPanics
  BY <1>34 DEF TickerPanics, goOn, StoreByStep, building, serving, ended
<1>35. CASE Crash
  BY <1>35 DEF Crash, goOn, StoreByStep, building, serving, ended
<1> QED
  BY <1>1, <1>2, <1>3, <1>4, <1>5, <1>6, <1>7, <1>8, <1>9, <1>10, <1>11, <1>12, <1>13, <1>14, <1>15, <1>16, <1>17, <1>18, <1>19, <1>20, <1>21, <1>22, <1>23, <1>24, <1>25, <1>26, <1>27, <1>28, <1>29, <1>30, <1>31, <1>32, <1>33, <1>34, <1>35 DEF Next, Building, Stopping

-----------------------------------------------------------------------------
(* The steps that build nothing: main ends, serves or stops, or it is not  *)
(* main that steps.  What was built stands, and so does whether there is a *)
(* store.                                                                  *)
Quiet == \/ LoadFails \/ UnknownTier \/ NodeExporterRefused \/ KsmRefused \/ HistoryRefused
         \/ Serve \/ NotifyContext \/ NewTicker \/ TickerPanics \/ Stopping \/ Listen \/ Signal
         \/ \E r \in Requests : Request(r) \/ Respond(r)
         \/ UNCHANGED vars

Stands == /\ UNCHANGED <<given, built>>
          /\ pc' = pc \/ pc' \in {"fatal", "killed"} \/ (up /\ up')
          /\ store' = "none" <=> store = "none"

(* A quiet step leaves standing what was built.                            *)
LEMMA QuietStands ==
    ASSUME StartTypes, Quiet
    PROVE  Stands
<1> USE DEF given, built, served
<1>1. CASE LoadFails
  BY <1>1 DEF LoadFails, Fatal, Stands, up, building, serving, ended, StartTypes
<1>2. CASE UnknownTier
  BY <1>2 DEF UnknownTier, Fatal, Stands, up, building, serving, ended, StartTypes
<1>3. CASE NodeExporterRefused
  BY <1>3 DEF NodeExporterRefused, Fatal, Stands, up, building, serving, ended, StartTypes
<1>4. CASE KsmRefused
  BY <1>4 DEF KsmRefused, Fatal, Stands, up, building, serving, ended, StartTypes
<1>5. CASE HistoryRefused
  BY <1>5 DEF HistoryRefused, Fatal, Stands, up, building, serving, ended, StartTypes
<1>6. CASE Serve
  BY <1>6 DEF Serve, Stands, up, building, serving, ended, StartTypes
<1>7. CASE NotifyContext
  BY <1>7 DEF NotifyContext, goOn, Stands, up, building, serving, ended, StartTypes
<1>8. CASE RunReturns
  BY <1>8 DEF RunReturns, goOn, Stands, up, building, serving, ended, StartTypes
<1>9. CASE Shutdown
  BY <1>9 DEF Shutdown, Stands, up, building, serving, ended, StartTypes
<1>10. CASE Drained
  BY <1>10 DEF Drained, goOn, Stands, up, building, serving, ended, StartTypes
<1>11. CASE DrainTimesOut
  BY <1>11 DEF DrainTimesOut, Stands, up, building, serving, ended, StartTypes
<1>12. CASE CloseHistory
  BY <1>12 DEF CloseHistory, Stands, up, building, serving, ended, StartTypes
<1>13. CASE Exit
  BY <1>13 DEF Exit, goOn, Stands, up, building, serving, ended, StartTypes
<1>14. CASE Listen
  BY <1>14 DEF Listen, Stands, up, building, serving, ended, StartTypes
<1>15. CASE Signal
  BY <1>15 DEF Signal, Stands, up, building, serving, ended, StartTypes
<1>16. CASE \E r \in Requests : Request(r)
  BY <1>16 DEF Request, Stands, up, building, serving, ended, StartTypes
<1>17. CASE \E r \in Requests : Respond(r)
  BY <1>17 DEF Respond, Stands, up, building, serving, ended, StartTypes
<1>18. CASE UNCHANGED vars
  BY <1>18 DEF vars, Stands
<1>19. CASE NewTicker
  BY <1>19 DEF NewTicker, goOn, Stands, up, building, serving, ended, StartTypes
<1>20. CASE TickerPanics
  BY <1>20 DEF TickerPanics, goOn, Stands, up, building, serving, ended, StartTypes
<1>21. CASE Crash
  BY <1>21 DEF Crash, goOn, Stands, up, building, serving, ended, StartTypes
<1> QED
  BY <1>1, <1>2, <1>3, <1>4, <1>5, <1>6, <1>7, <1>8, <1>9, <1>10, <1>11, <1>12, <1>13, <1>14, <1>15, <1>16, <1>17, <1>18, <1>19, <1>20, <1>21 DEF Quiet, Stopping

(* Every other step is one of main's building steps.                       *)
LEMMA LoudOrQuiet ==
    ASSUME [Next]_vars
    PROVE  Load \/ AddCore \/ AddSmart \/ NvmlInit \/ DeviceGetCount \/ EventSetCreate \/ AddGpu
           \/ TiersDone \/ NodeExporter \/ NoNodeExporter \/ Ksm \/ NoKsm \/ OpenHistory \/ NoHistory \/ Quiet
BY DEF Next, Building, Quiet

(* What Load makes of the file depends on nothing that changes.            *)
LEMMA GivenStands ==
    ASSUME UNCHANGED given
    PROVE  /\ loaded(file, env)' = loaded(file, env)
           /\ (\A i \in DOMAIN file.secrets : resolvable(env, file.secrets[i]))'
              <=> (\A i \in DOMAIN file.secrets : resolvable(env, file.secrets[i]))
<1>1. file' = file /\ env' = env
  BY DEF given
<1> QED
  BY <1>1

(* main keeps working with what Load returned.                             *)
LEMMA CfgStep == StartTypes /\ CfgIsLoaded /\ [Next]_vars => CfgIsLoaded'
<1> SUFFICES ASSUME StartTypes, CfgIsLoaded, [Next]_vars PROVE CfgIsLoaded'
  OBVIOUS
<1> DEFINE resolved == \A i \in DOMAIN file.secrets : resolvable(env, file.secrets[i])
           past == pc \notin {"load", "fatal", "killed"}
<1>a. CASE Load
  <2>1. cfg' = loaded(file, env) /\ UNCHANGED given /\ resolved
    BY <1>a DEF Load, given
  <2> QED
    BY <2>1, GivenStands DEF CfgIsLoaded
<1>b. CASE ~Load
  <2>1. UNCHANGED given /\ cfg' = cfg /\ (past' => past)
    <3> USE <1>b DEF given, built, served
    <3>1. CASE Load
      BY <3>1 DEF Load, StartTypes
    <3>2. CASE AddCore
      BY <3>2 DEF AddCore, AddTier, at, StartTypes
    <3>3. CASE AddSmart
      BY <3>3 DEF AddSmart, AddTier, at, Fatal, StartTypes
    <3>4. CASE NvmlInit
      BY <3>4 DEF NvmlInit, readerFailed, nvmlGoesOn, at, StartTypes
    <3>5. CASE DeviceGetCount
      BY <3>5 DEF DeviceGetCount, readerFailed, nvmlGoesOn, StartTypes
    <3>6. CASE EventSetCreate
      BY <3>6 DEF EventSetCreate, readerFailed, nvmlGoesOn, StartTypes
    <3>7. CASE AddGpu
      BY <3>7 DEF AddGpu, AddTier, Fatal, StartTypes
    <3>8. CASE TiersDone
      BY <3>8 DEF TiersDone, goOn, StartTypes
    <3>9. CASE NodeExporter
      BY <3>9 DEF NodeExporter, StartTypes
    <3>10. CASE NoNodeExporter
      BY <3>10 DEF NoNodeExporter, goOn, StartTypes
    <3>11. CASE Ksm
      BY <3>11 DEF Ksm, StartTypes
    <3>12. CASE NoKsm
      BY <3>12 DEF NoKsm, goOn, StartTypes
    <3>13. CASE OpenHistory
      BY <3>13 DEF OpenHistory, StartTypes
    <3>14. CASE NoHistory
      BY <3>14 DEF NoHistory, goOn, StartTypes
    <3>15. CASE Quiet
      BY <3>15, QuietStands DEF Stands, up, serving
    <3> QED
      BY <3>1, <3>2, <3>3, <3>4, <3>5, <3>6, <3>7, <3>8, <3>9, <3>10, <3>11, <3>12, <3>13, <3>14, <3>15, LoudOrQuiet
  <2>2. past => cfg = loaded(file, env) /\ resolved
    BY Zenon DEF CfgIsLoaded
  <2> QED
    BY <2>1, <2>2, GivenStands DEF CfgIsLoaded
<1> QED
  BY <1>a, <1>b

(* The surfaces of a family keep one owner.                                *)
LEMMA OwnersStep == StartTypes /\ CfgIsLoaded /\ OwnersByStep /\ [Next]_vars => OwnersByStep'
<1> SUFFICES ASSUME StartTypes, CfgIsLoaded, OwnersByStep, [Next]_vars PROVE OwnersByStep'
  OBVIOUS
<1> USE DEF given, built, served
<1>1. CASE Load
  BY <1>1 DEF Load, OwnersByStep, OneOwnerPerFamily, tiersLoop
<1>2. CASE AddCore
  BY <1>2 DEF AddCore, AddTier, at, OwnersByStep, OneOwnerPerFamily, tiersLoop
<1>3. CASE AddSmart
  BY <1>3 DEF AddSmart, AddTier, at, Fatal, OwnersByStep, OneOwnerPerFamily, tiersLoop
<1>4. CASE NvmlInit
  BY <1>4 DEF NvmlInit, readerFailed, nvmlGoesOn, at, OwnersByStep, OneOwnerPerFamily, tiersLoop
<1>5. CASE DeviceGetCount
  BY <1>5 DEF DeviceGetCount, readerFailed, nvmlGoesOn, OwnersByStep, OneOwnerPerFamily, tiersLoop
<1>6. CASE EventSetCreate
  BY <1>6 DEF EventSetCreate, readerFailed, nvmlGoesOn, OwnersByStep, OneOwnerPerFamily, tiersLoop
<1>7. CASE AddGpu
  BY <1>7 DEF AddGpu, AddTier, Fatal, OwnersByStep, OneOwnerPerFamily, tiersLoop
<1>8. CASE TiersDone
  BY <1>8 DEF TiersDone, goOn, OwnersByStep, OneOwnerPerFamily, tiersLoop
<1>9. CASE NodeExporter
  <2>1. cfg.ne = file.ne
    BY <1>9, LoadedFields DEF NodeExporter, CfgIsLoaded, StartTypes
  <2>2. cfg.ne \in [enabled : BOOLEAN, native : BOOLEAN, rootfs : STRING,
                    extraFlags : Seq(STRING \X STRING)]
    BY <2>1, StartupAssumption DEF StartTypes, FileType
  <2>3. upstream' = Enabled(args(cfg.ne)) /\ pc' = "ksm"
    BY <1>9 DEF NodeExporter
  <2>4. "nodecompat" \in surfaces' => cfg.ne.native
    BY <1>9 DEF NodeExporter, OwnersByStep, tiersLoop
  <2>5. "nodecompat" \in surfaces' => upstream' \cap SupersededCollectors = {}
    BY <2>2, <2>3, <2>4, NativeTurnsOff
  <2>6. OneOwnerPerFamily'
    BY <2>5, Zenon DEF OneOwnerPerFamily
  <2> QED
    BY <2>3, <2>6 DEF OwnersByStep, tiersLoop
<1>10. CASE NoNodeExporter
  BY <1>10 DEF NoNodeExporter, goOn, OwnersByStep, OneOwnerPerFamily, tiersLoop
<1>11. CASE Ksm
  BY <1>11 DEF Ksm, OwnersByStep, OneOwnerPerFamily, tiersLoop
<1>12. CASE NoKsm
  BY <1>12 DEF NoKsm, goOn, OwnersByStep, OneOwnerPerFamily, tiersLoop
<1>13. CASE OpenHistory
  BY <1>13 DEF OpenHistory, OwnersByStep, OneOwnerPerFamily, tiersLoop
<1>14. CASE NoHistory
  BY <1>14 DEF NoHistory, goOn, OwnersByStep, OneOwnerPerFamily, tiersLoop
<1>15. CASE Quiet
  BY <1>15, QuietStands DEF Stands, up, serving, OwnersByStep, OneOwnerPerFamily, tiersLoop
<1> QED
  BY <1>1, <1>2, <1>3, <1>4, <1>5, <1>6, <1>7, <1>8, <1>9, <1>10, <1>11, <1>12, <1>13, <1>14, <1>15, LoudOrQuiet

(* Only a ticker that is refused makes Run panic, and the interval stands. *)
LEMMA PanicStep == StartTypes /\ Panicked /\ [Next]_vars => Panicked'
<1> SUFFICES ASSUME StartTypes, Panicked, [Next]_vars, pc' \in {"panic", "crashed"}
             PROVE  Interval(cfg') <= 0
  BY DEF Panicked
<1>1. TickerPanics \/ (cfg' = cfg /\ pc \in {"panic", "crashed"})
  <2> USE DEF given, built, served
  <2>1. CASE Load \/ AddCore \/ AddSmart \/ NvmlInit \/ DeviceGetCount \/ EventSetCreate \/ AddGpu
    BY <2>1 DEF Load, AddCore, AddSmart, NvmlInit, DeviceGetCount, EventSetCreate, AddGpu, AddTier,
       Fatal, readerFailed, nvmlGoesOn
  <2>2. CASE \/ TiersDone \/ NodeExporter \/ NoNodeExporter \/ Ksm \/ NoKsm \/ OpenHistory \/ NoHistory
    BY <2>2 DEF TiersDone, NodeExporter, NoNodeExporter, Ksm, NoKsm, OpenHistory, NoHistory, goOn
  <2>3. CASE Quiet
    <3>1. CASE \/ LoadFails \/ UnknownTier \/ NodeExporterRefused \/ KsmRefused \/ HistoryRefused
               \/ Serve \/ NotifyContext \/ NewTicker \/ TickerPanics
      BY <3>1 DEF LoadFails, UnknownTier, NodeExporterRefused, KsmRefused, HistoryRefused, Fatal,
         Serve, NotifyContext, NewTicker, goOn
    <3>2. CASE Stopping
      BY <3>2 DEF Stopping, RunReturns, Shutdown, Drained, DrainTimesOut, CloseHistory, Exit, Crash, goOn
    <3>3. CASE Listen \/ Signal \/ (\E r \in Requests : Request(r) \/ Respond(r)) \/ UNCHANGED vars
      BY <3>3 DEF Listen, Signal, Request, Respond, vars
    <3> QED
      BY <2>3, <3>1, <3>2, <3>3, Zenon DEF Quiet
  <2> QED
    BY <2>1, <2>2, <2>3, LoudOrQuiet
<1>2. CASE TickerPanics
  BY <1>2 DEF TickerPanics, goOn, built
<1>3. CASE cfg' = cfg /\ pc \in {"panic", "crashed"}
  BY <1>3 DEF Panicked
<1> QED
  BY <1>1, <1>2, <1>3

-----------------------------------------------------------------------------
(* The inductive invariant of start-up holds in every state main reaches.  *)
THEOREM StartInvHolds == Spec => []StartInv
<1>1. StartInv /\ [Next]_vars => StartInv'
  BY TypesStep, StoreStep, CfgStep, OwnersStep, PanicStep DEF StartInv
<1> QED
  BY StartInvInit, <1>1, PTL DEF Spec

(* Every variable keeps its type, and the numbers of a history section     *)
(* that is on are positive, whatever the file gives (config.Load).         *)
THEOREM TypeCorrect == Spec => []TypeOK
<1>1. StartInv => TypeOK
  <2> SUFFICES ASSUME StartInv PROVE TypeOK
    OBVIOUS
  <2>1. ToSet(reg) \subseteq {"core", "smart", "gpu"}
    BY DEF StartInv, StartTypes, ToSet
  <2>2. up /\ cfg.history.enabled => cfg.history.intervalMinutes > 0 /\ cfg.history.retentionDays > 0
    BY LoadedFields DEF StartInv, StartTypes, CfgIsLoaded, up, serving
  <2>3. {nvml, timedOut, signalled} \subseteq BOOLEAN
    BY Zenon DEF StartInv, StartTypes
  <2> QED
    BY <2>1, <2>2, <2>3, Zenon DEF TypeOK, StartInv, StartTypes
<1> QED
  BY <1>1, StartInvHolds, PTL

(* A Duration that fits is what the multiplication says.                   *)
LEMMA FitsIsExact ==
    ASSUME NEW d \in Nat, fits(d)
    PROVE  wrapDuration(d) = d
<1> DEFINE h == DurationSpan \div 2
<1>1. h \in Nat /\ h + h <= DurationSpan /\ DurationSpan \in Nat \ {0}
  BY StartupAssumption
<1>2. d < h
  BY DEF fits
<1>3. wrapDuration(d) = ((d + h) % DurationSpan) - h
  BY DEF wrapDuration
<1> HIDE DEF h
<1>4. (d + h) % DurationSpan = d + h
  BY <1>1, <1>2
<1> QED
  BY <1>1, <1>3, <1>4

(* For every file, every second's length and every width of a Duration:    *)
(* the interval, the flush interval and the retention are the file's, or   *)
(* the default, whenever that period is a Duration; and the agent comes up *)
(* without a panic unless its interval is not (config.go's Interval, the   *)
(* arguments of history.Open in main.go, NewTicker in agent.go).           *)
THEOREM PeriodsAreAlwaysMeant == Spec => []PeriodsAreMeant
<1>1. StartInv => PeriodsAreMeant
  <2> SUFFICES ASSUME StartInv, up PROVE PeriodsAreMeant
    BY DEF PeriodsAreMeant
  <2> DEFINE interval == meant(file.interval, 15, Second)
             minutes == meant(file.history.intervalMinutes, 5, Minute)
             days == meant(file.history.retentionDays, 1825, Day)
  <2>1. file \in FileType
    BY StartupAssumption DEF StartInv, StartTypes
  <2>2. /\ file.interval \in Int /\ file.history \in HistoryType
        /\ file.history.retentionDays \in Int /\ file.history.intervalMinutes \in Int
    BY <2>1 DEF FileType, HistoryType
  <2>3. Second \in Nat /\ Second > 0 /\ Minute \in Nat /\ Day \in Nat
    BY StartupAssumption DEF Minute, Day
  <2>4. cfg.interval = file.interval /\ cfg.history = historyDefaults(file.history)
    BY LoadedFields DEF StartInv, StartTypes, CfgIsLoaded, up, serving
  <2>5. fits(interval) => Interval(cfg) = interval /\ interval > 0
    <3>1. CASE file.interval <= 0
      BY <2>2, <2>3, <2>4, <3>1 DEF Interval, meant
    <3>2. CASE file.interval > 0
      <4> DEFINE d == file.interval * Second
      <4>1. d \in Nat /\ d > 0 /\ interval = d /\ Interval(cfg) = wrapDuration(d)
        BY <2>2, <2>3, <2>4, <3>2 DEF Interval, meant
      <4> QED
        BY <4>1, FitsIsExact
    <3> QED
      BY <2>2, <3>1, <3>2
  <2>6. ASSUME file.history.enabled
        PROVE  /\ fits(minutes) => flushInterval(cfg.history) = minutes
               /\ fits(days) => retention(cfg.history) = days
    <3>1. /\ cfg.history.intervalMinutes = orDefault(file.history.intervalMinutes, 5)
          /\ cfg.history.retentionDays = orDefault(file.history.retentionDays, 1825)
      <4>1. PICK h : h = file.history
        OBVIOUS
      <4>2. PICK n, d : n = orDefault(h.intervalMinutes, 5) /\ d = orDefault(h.retentionDays, 1825)
        OBVIOUS
      <4>3. historyDefaults(h) = [enabled |-> TRUE, retentionDays |-> d, intervalMinutes |-> n]
        BY <2>6, <4>1, <4>2 DEF historyDefaults
      <4>4. historyDefaults(h).intervalMinutes = n /\ historyDefaults(h).retentionDays = d
        BY <4>3
      <4> QED
        BY <2>4, <4>1, <4>2, <4>4
    <3>2. \A n, m \in Int : orDefault(n, m) = IF n > 0 THEN n ELSE m
      BY DEF orDefault
    <3>3. /\ minutes = cfg.history.intervalMinutes * Minute
          /\ days = cfg.history.retentionDays * Day
      BY <2>2, <3>1, <3>2 DEF meant
    <3>4. cfg.history.intervalMinutes \in Nat /\ cfg.history.retentionDays \in Nat
      BY <2>2, <3>1, <3>2
    <3>5. minutes \in Nat /\ days \in Nat
      BY <2>3, <3>3, <3>4
    <3> QED
      BY <3>3, <3>5, FitsIsExact DEF flushInterval, retention
  <2>7. pc \in {"panic", "crashed"} => Interval(cfg) <= 0
    BY DEF StartInv, Panicked
  <2>8. fits(interval) => pc \notin {"panic", "crashed"}
    <3> HIDE DEF interval
    <3> SUFFICES ASSUME fits(interval), pc \in {"panic", "crashed"} PROVE FALSE
      OBVIOUS
    <3>1. interval \in Int
      BY <2>2, <2>3 DEF interval, meant
    <3> QED
      BY <2>5, <2>7, <3>1
  <2> QED
    BY <2>5, <2>6, <2>8 DEF PeriodsAreMeant
<1> QED
  BY <1>1, StartInvHolds, PTL

(* Whatever flags the operator adds, no upstream collector that a native   *)
(* one replaces is active with it (main.go's order of the flags).          *)
THEOREM AlwaysOneOwner == Spec => []OneOwnerPerFamily
<1>1. StartInv => OneOwnerPerFamily
  BY DEF StartInv, OwnersByStep
<1> QED
  BY <1>1, StartInvHolds, PTL

(* The history file is not left open by a process that ends by itself, and *)
(* is closed under a request only after Shutdown waited in vain, or when   *)
(* Run panicked.                                                           *)
THEOREM StoreAlwaysReleased == Spec => []StoreReleased
<1>1. StartInv => StoreReleased
  BY DEF StartInv, StoreByStep, StoreReleased
<1> QED
  BY <1>1, StartInvHolds, PTL

(* Every webhook of a running agent is signed with the key that was meant, *)
(* for every text a secret may be and every environment (config.Load).     *)
THEOREM AlwaysSignedOrRefused == Spec => []SignedOrRefused
<1>1. StartInv => SignedOrRefused
  <2> SUFFICES ASSUME StartInv, up, NEW i \in DOMAIN file.secrets
               PROVE  /\ cfg.secrets[i] = <<>> => file.secrets[i] = <<>>
                      /\ cfg.secrets[i] # file.secrets[i] => \E n \in DOMAIN env.vars :
                            /\ file.secrets[i] = refOpens \o n \o refCloses
                            /\ cfg.secrets[i] = env.vars[n]
    BY Zenon DEF SignedOrRefused
  <2> DEFINE s == file.secrets[i]
  <2>1. file \in FileType
    BY StartupAssumption DEF StartInv, StartTypes
  <2>2. s \in Seq(STRING)
    BY <2>1, ElementOfSeq DEF FileType
  <2>3. resolvable(env, s) /\ cfg = loaded(file, env)
    BY DEF StartInv, CfgIsLoaded, up, serving
  <2>4. cfg.secrets[i] = resolve(env, s)
    BY <2>3, LoadedFields DEF StartInv, StartTypes
  <2> HIDE DEF s
  <2>5. CASE envRef(s) = {}
    BY <2>4, <2>5, Zenon DEF resolve, s
  <2>6. CASE envRef(s) # {}
    <3>1. PICK n \in envRef(s) : TRUE
      BY <2>6
    <3>2. envRef(s) = {n} /\ s = refOpens \o n \o refCloses
      BY <2>2, <3>1, EnvRefIsWhole
    <3>3. (CHOOSE x \in envRef(s) : TRUE) = n
      BY <3>2
    <3>4. resolve(env, s) = Getenv(env, n)
      BY <2>6, <3>3, Zenon DEF resolve
    <3>5. Getenv(env, n) # <<>>
      BY <2>3, <3>1 DEF resolvable
    <3>6. n \in DOMAIN env.vars /\ Getenv(env, n) = env.vars[n]
      BY <3>5, Zenon DEF Getenv
    <3> QED
      BY <2>4, <3>2, <3>4, <3>5, <3>6, Zenon DEF s
  <2> QED
    BY <2>5, <2>6
<1> QED
  BY <1>1, StartInvHolds, PTL
-----------------------------------------------------------------------------
(***************************************************************************)
(* What runs is what the file asks for.  That distinct drops the empty and *)
(* the repeated names and nothing else is a fact about a fold, which the   *)
(* provers cannot show by induction; it is a hypothesis here, and TLC      *)
(* checks it for the lists of its instance.                                *)
(***************************************************************************)
probing == {"nvmlCount", "nvmlEvents", "gpu"}

rest == IF pc \in tiersLoop THEN ToSet(todo) ELSE {}

(* The tiers that are registered or still to come are those asked for,     *)
(* but for a gpu tier that was left out next to another one.               *)
Chosen == /\ ToSet(reg) \subseteq asked
          /\ asked \ {"gpu"} \subseteq ToSet(reg) \cup rest
          /\ asked \subseteq {"gpu"} => asked \subseteq ToSet(reg) \cup rest

TiersInv ==
    /\ IsFiniteSet(ToSet(reg)) /\ Cardinality(ToSet(reg)) = Len(reg)
    /\ pc = "load" => reg = <<>> /\ nvml = FALSE
    /\ pc \notin {"load", "fatal", "killed"} =>
          /\ Chosen
          /\ pc \notin probing => (nvml = TRUE <=> "gpu" \in ToSet(reg))
    /\ pc \in tiersLoop =>
          /\ todo \in Seq(asked) /\ NoRepeats(todo)
          /\ ToSet(todo) \cap ToSet(reg) = {}
    /\ pc \in probing => nvml = TRUE /\ todo # <<>> /\ Head(todo) = "gpu"

(* The elements of a sequence with one more at its end.                    *)
LEMMA ToSetOfAppend ==
    ASSUME NEW S, NEW s \in Seq(S), NEW e
    PROVE  ToSet(Append(s, e)) = ToSet(s) \cup {e}
<1> DEFINE t == Append(s, e)
<1>1. DOMAIN t = 1..(Len(s) + 1) /\ DOMAIN s = 1..Len(s) /\ Len(s) \in Nat
  OBVIOUS
<1>2. (\A i \in 1..Len(s) : t[i] = s[i]) /\ t[Len(s) + 1] = e
  OBVIOUS
<1>3. \A i \in 1..(Len(s) + 1) : i \in 1..Len(s) \/ i = Len(s) + 1
  BY <1>1
<1>4. Len(s) + 1 \in 1..(Len(s) + 1) /\ 1..Len(s) \subseteq 1..(Len(s) + 1)
  BY <1>1
<1> HIDE DEF t
<1> QED
  BY <1>1, <1>2, <1>3, <1>4 DEF ToSet, t

(* The elements of the tail of a sequence without repeats.                 *)
LEMMA ToSetOfTail ==
    ASSUME NEW S, NEW s \in Seq(S), s # <<>>, NoRepeats(s)
    PROVE  /\ Tail(s) \in Seq(S) /\ NoRepeats(Tail(s))
           /\ Head(s) \in ToSet(s) /\ ToSet(Tail(s)) = ToSet(s) \ {Head(s)}
<1> DEFINE t == Tail(s)
<1>1. /\ Len(s) \in Nat /\ Len(s) > 0 /\ DOMAIN s = 1..Len(s) /\ Head(s) = s[1]
      /\ t \in Seq(S) /\ DOMAIN t = 1..(Len(s) - 1)
      /\ \A i \in 1..(Len(s) - 1) : t[i] = s[i + 1]
  OBVIOUS
<1> HIDE DEF t
<1>2. NoRepeats(t)
  <2> SUFFICES ASSUME NEW i \in DOMAIN t, NEW j \in DOMAIN t, t[i] = t[j] PROVE i = j
    BY Zenon DEF NoRepeats
  <2>1. i \in Int /\ j \in Int /\ i + 1 \in DOMAIN s /\ j + 1 \in DOMAIN s
    BY <1>1
  <2>2. i + 1 = j + 1
    BY <1>1, <2>1 DEF NoRepeats
  <2> QED
    BY <2>1, <2>2
<1>3. Head(s) \in ToSet(s)
  BY <1>1 DEF ToSet
<1>4. ASSUME NEW x \in ToSet(t) PROVE x \in ToSet(s) /\ x # Head(s)
  <2>1. PICK i \in 1..(Len(s) - 1) : x = s[i + 1]
    BY <1>1 DEF ToSet
  <2>2. i + 1 \in 1..Len(s) /\ i + 1 # 1
    BY <1>1
  <2> QED
    BY <1>1, <2>1, <2>2 DEF ToSet, NoRepeats
<1>5. ASSUME NEW x \in ToSet(s), x # Head(s) PROVE x \in ToSet(t)
  <2>1. PICK i \in 1..Len(s) : x = s[i]
    BY <1>1 DEF ToSet
  <2>2. i - 1 \in 1..(Len(s) - 1) /\ i - 1 + 1 = i
    BY <1>1, <1>5, <2>1
  <2>3. t[i - 1] = x
    BY <1>1, <2>1, <2>2
  <2> QED
    BY <1>1, <2>2, <2>3 DEF ToSet
<1> QED
  BY <1>1, <1>2, <1>3, <1>4, <1>5 DEF t

(* main's list of tiers is what the file asks for, each once.              *)
LEMMA TiersAreAsked ==
    ASSUME DistinctIsExact, file \in Files, env \in Envs
    PROVE  /\ ResolvedTiers(loaded(file, env)) \in Seq(asked) /\ NoRepeats(ResolvedTiers(loaded(file, env)))
           /\ ToSet(ResolvedTiers(loaded(file, env))) = asked
<1> DEFINE out == distinct(listed(file))
           names == ToSet(listed(file))
           T == ResolvedTiers(loaded(file, env))
<1>1. listed(loaded(file, env)) = listed(file)
  BY LoadedFields DEF listed
<1>2. T = IF out = <<>> THEN <<"core">> ELSE out
  BY <1>1 DEF ResolvedTiers
<1>3. out \in Seq(names \ {unset}) /\ ToSet(out) = names \ {unset} /\ NoRepeats(out)
  BY Zenon DEF DistinctIsExact
<1>4. asked = IF names \subseteq {unset} THEN {"core"} ELSE names \ {unset}
  BY Zenon DEF asked
<1> HIDE DEF out, names, T
<1>5. CASE out = <<>>
  <2>1. ToSet(out) = {}
    BY <1>5 DEF ToSet
  <2>2. asked = {"core"} /\ T = <<"core">>
    BY <1>2, <1>3, <1>4, <1>5, <2>1
  <2> QED
    BY <2>2 DEF T, NoRepeats, ToSet
<1>6. CASE out # <<>>
  <2>1. ToSet(out) # {}
    BY <1>3, <1>6 DEF ToSet
  <2>2. asked = names \ {unset} /\ T = out
    BY <1>2, <1>3, <1>4, <1>6, <2>1
  <2> QED
    BY <1>3, <2>2 DEF T
<1> QED
  BY <1>5, <1>6

-----------------------------------------------------------------------------
ofTiers == {x \in {"smartctl"} : "smart" \in ToSet(reg) /\ file.smartctl}
           \cup {x \in {"dcgm"} : "gpu" \in ToSet(reg) /\ file.dcgm}

ofNode == {x \in {"node_exporter"} : file.ne.enabled}
          \cup {x \in {"nodecompat"} : file.ne.enabled /\ file.ne.native}

ofKsm == {x \in {"ksm"} : file.ksm.enabled}

(* The surfaces come with the tiers first, then those of the node, then    *)
(* the cluster's; the store is opened last.                                *)
SurfacesInv ==
    /\ pc = "load" => surfaces = {}
    /\ pc \in {"exporter"} \cup tiersLoop => surfaces = ofTiers
    /\ pc = "ksm" => surfaces = ofTiers \cup ofNode
    /\ pc = "history" \/ up => surfaces = ofTiers \cup ofNode \cup ofKsm
    /\ pc \in {"ksm", "history"} \/ up => (file.ne.enabled <=> upstream # {})
    /\ up => (file.history.enabled <=> store # "none")

-----------------------------------------------------------------------------
(* Where main moves without touching the tiers, they are as before.        *)
LEMMA TiersKept ==
    ASSUME TiersInv, UNCHANGED <<file, reg, todo, nvml>>,
           \/ pc' = pc \/ pc' \in {"fatal", "killed"}
           \/ /\ pc \notin {"load", "fatal", "killed"} \cup tiersLoop
              /\ pc' \notin {"load", "fatal", "killed"} \cup tiersLoop
    PROVE  TiersInv'
<1>1. asked' = asked /\ ToSet(reg') = ToSet(reg) /\ ToSet(todo') = ToSet(todo)
  BY DEF asked
<1>2. CASE pc' = pc
  <2>1. rest' = rest
    BY <1>1, <1>2 DEF rest
  <2> QED
    BY <1>1, <1>2, <2>1 DEF TiersInv, Chosen
<1>3. CASE pc' \in {"fatal", "killed"}
  BY <1>1, <1>3 DEF TiersInv, tiersLoop, probing
<1>4. CASE /\ pc \notin {"load", "fatal", "killed"} \cup tiersLoop
           /\ pc' \notin {"load", "fatal", "killed"} \cup tiersLoop
  <2>1. rest = {} /\ rest' = {}
    BY <1>4 DEF rest
  <2>2. Chosen /\ (nvml = TRUE <=> "gpu" \in ToSet(reg)) /\ pc' \notin probing
    BY <1>4 DEF TiersInv, probing, tiersLoop
  <2>3. Chosen'
    BY <1>1, <2>1, <2>2 DEF Chosen
  <2> QED
    BY <1>1, <1>4, <2>2, <2>3 DEF TiersInv, tiersLoop
<1> QED
  BY <1>2, <1>3, <1>4

(* A tier that is added leaves the list and joins the registry.            *)
LEMMA TierAdded ==
    ASSUME StartTypes, TiersInv, NEW tier, NEW surface, NEW enabled,
           pc \in tiersLoop, todo # <<>>, Head(todo) = tier,
           tier \in {"core", "smart", "gpu"}, tier = "gpu" <=> pc \in probing,
           Added(tier, surface, enabled)
    PROVE  TiersInv'
<1>1. /\ reg' = Append(reg, tier) /\ todo' = Tail(todo) /\ pc' = "tiers"
      /\ UNCHANGED <<file, nvml>>
  BY DEF Added, given
<1>2. asked' = asked
  BY <1>1 DEF asked
<1>3. /\ todo \in Seq(asked) /\ NoRepeats(todo) /\ ToSet(todo) \cap ToSet(reg) = {}
  BY DEF TiersInv
<1>4. /\ todo' \in Seq(asked) /\ NoRepeats(todo')
      /\ tier \in ToSet(todo) /\ ToSet(todo') = ToSet(todo) \ {tier}
  BY <1>1, <1>3, ToSetOfTail
<1>5. ToSet(reg') = ToSet(reg) \cup {tier}
  BY <1>1, ToSetOfAppend DEF StartTypes
<1>6. tier \in asked
  BY <1>3
<1>7. tier \notin ToSet(reg)
  BY <1>3, <1>4
<1>8. IsFiniteSet(ToSet(reg')) /\ Cardinality(ToSet(reg')) = Len(reg')
  <2>1. IsFiniteSet(ToSet(reg)) /\ Cardinality(ToSet(reg)) = Len(reg)
    BY DEF TiersInv
  <2>2. Len(reg') = Len(reg) + 1
    BY <1>1 DEF StartTypes
  <2> QED
    BY <1>5, <1>7, <2>1, <2>2, FS_AddElement
<1>9. rest = ToSet(todo) /\ rest' = ToSet(todo')
  BY <1>1 DEF rest, tiersLoop
<1>10. Chosen
  BY DEF TiersInv, tiersLoop
<1>11. Chosen'
  BY <1>2, <1>4, <1>5, <1>6, <1>9, <1>10 DEF Chosen
<1>12. (nvml' = TRUE <=> "gpu" \in ToSet(reg'))
  <2>1. CASE tier = "gpu"
    BY <1>1, <1>5, <2>1 DEF TiersInv
  <2>2. CASE tier # "gpu"
    BY <1>1, <1>5, <2>2 DEF TiersInv, tiersLoop
  <2> QED
    BY <2>1, <2>2
<1> QED
  BY <1>1, <1>2, <1>3, <1>4, <1>5, <1>8, <1>11, <1>12 DEF TiersInv, tiersLoop, probing

(* While NVML is probed the list stands.                                   *)
LEMMA TierProbed ==
    ASSUME TiersInv, NEW next \in probing,
           pc \in tiersLoop, todo # <<>>, Head(todo) = "gpu", nvmlGoesOn(next)
    PROVE  TiersInv'
<1>1. pc' = next /\ nvml' = TRUE /\ UNCHANGED <<file, reg, todo>>
  BY DEF nvmlGoesOn, given
<1>2. asked' = asked /\ ToSet(reg') = ToSet(reg) /\ ToSet(todo') = ToSet(todo)
  BY <1>1 DEF asked
<1>3. rest' = rest
  BY <1>1, <1>2 DEF rest, tiersLoop, probing
<1>4. Chosen
  BY DEF TiersInv, tiersLoop
<1>5. Chosen'
  BY <1>2, <1>3, <1>4 DEF Chosen
<1> QED
  BY <1>1, <1>2, <1>5 DEF TiersInv, tiersLoop, probing

(* The gpu tier is left out only next to another tier.                     *)
LEMMA TierSkipped ==
    ASSUME DistinctIsExact, StartInv, TiersInv,
           pc \in tiersLoop, todo # <<>>, Head(todo) = "gpu", readerFailed
    PROVE  TiersInv'
<1>1. nvml' = FALSE /\ UNCHANGED <<file, reg>>
  BY DEF readerFailed, given
<1>2. asked' = asked /\ ToSet(reg') = ToSet(reg)
  BY <1>1 DEF asked
<1>3. CASE Len(ResolvedTiers(cfg)) = 1
  <2>1. pc' = "fatal"
    BY <1>3 DEF readerFailed
  <2> QED
    BY <1>1, <1>2, <2>1 DEF TiersInv, tiersLoop, probing
<1>4. CASE Len(ResolvedTiers(cfg)) # 1
  <2>1. pc' = "tiers" /\ todo' = Tail(todo)
    BY <1>4 DEF readerFailed
  <2>2. /\ todo \in Seq(asked) /\ NoRepeats(todo) /\ ToSet(todo) \cap ToSet(reg) = {}
    BY DEF TiersInv
  <2>3. /\ todo' \in Seq(asked) /\ NoRepeats(todo')
        /\ "gpu" \in ToSet(todo) /\ ToSet(todo') = ToSet(todo) \ {"gpu"}
    BY <2>1, <2>2, ToSetOfTail
  <2>4. cfg = loaded(file, env) /\ file \in Files /\ env \in Envs
    BY DEF StartInv, StartTypes, CfgIsLoaded, tiersLoop
  <2> DEFINE T == ResolvedTiers(cfg)
  <2>5. T \in Seq(asked) /\ NoRepeats(T) /\ ToSet(T) = asked
    BY <2>4, TiersAreAsked
  <2> HIDE DEF T
  <2>6. asked # {}
    BY <2>2
  <2>7. ~(asked \subseteq {"gpu"})
    <3>1. Len(T) \in Nat /\ DOMAIN T = 1..Len(T) /\ Len(T) # 1
      BY <1>4, <2>5 DEF T
    <3>2. Len(T) # 0
      BY <2>5, <2>6, <3>1 DEF ToSet
    <3>3. 1 \in DOMAIN T /\ 2 \in DOMAIN T
      BY <3>1, <3>2
    <3>4. T[1] \in asked /\ T[2] \in asked /\ T[1] # T[2]
      BY <2>5, <3>3 DEF NoRepeats, ToSet
    <3> QED
      BY <3>4
  <2>8. rest = ToSet(todo) /\ rest' = ToSet(todo')
    BY <2>1 DEF rest, tiersLoop
  <2>9. Chosen
    BY DEF TiersInv, tiersLoop
  <2>10. Chosen'
    BY <1>2, <2>3, <2>7, <2>8, <2>9 DEF Chosen
  <2>11. "gpu" \notin ToSet(reg)
    BY <2>2, <2>3
  <2>12. (nvml' = TRUE <=> "gpu" \in ToSet(reg')) /\ ToSet(todo') \cap ToSet(reg') = {}
    <3>1. (nvml' = TRUE <=> "gpu" \in ToSet(reg'))
      BY <1>1, <1>2, <2>11
    <3>2. ToSet(todo') \cap ToSet(reg') = {}
      BY <1>2, <2>2, <2>3
    <3> QED
      BY <3>1, <3>2
  <2>13. IsFiniteSet(ToSet(reg')) /\ Cardinality(ToSet(reg')) = Len(reg')
    BY <1>1, <1>2 DEF TiersInv
  <2> QED
    BY <1>2, <2>1, <2>3, <2>10, <2>12, <2>13 DEF TiersInv, tiersLoop, probing
<1> QED
  BY <1>3, <1>4

(* Every step keeps the tiers as they were asked for.                      *)
LEMMA TiersStep ==
    ASSUME DistinctIsExact, StartInv, TiersInv, [Next]_vars
    PROVE  TiersInv'
<1> USE DEF given, built, served
<1>1. CASE Load
  <2>1. /\ pc = "load" /\ pc' = "tiers" /\ UNCHANGED <<file, env, reg, nvml>>
        /\ todo' = ResolvedTiers(loaded(file, env))
    BY <1>1 DEF Load
  <2>2. /\ todo' \in Seq(asked) /\ NoRepeats(todo') /\ ToSet(todo') = asked
    BY <2>1, TiersAreAsked DEF StartInv, StartTypes
  <2>3. reg = <<>> /\ nvml = FALSE /\ ToSet(reg) = {}
    BY <2>1 DEF TiersInv, ToSet
  <2>4. asked' = asked /\ ToSet(reg') = ToSet(reg)
    BY <2>1 DEF asked
  <2>5. rest' = asked
    BY <2>1, <2>2 DEF rest, tiersLoop
  <2>6. Chosen'
    BY <2>3, <2>4, <2>5 DEF Chosen
  <2>7. (nvml' = TRUE <=> "gpu" \in ToSet(reg')) /\ ToSet(todo') \cap ToSet(reg') = {}
    <3>1. "gpu" \notin ToSet(reg') /\ nvml' = FALSE
      BY <2>1, <2>3, <2>4
    <3>2. (nvml' = TRUE <=> "gpu" \in ToSet(reg'))
      BY <3>1
    <3>3. ToSet(todo') \cap ToSet(reg') = {}
      BY <2>3, <2>4
    <3> QED
      BY <3>2, <3>3
  <2>8. IsFiniteSet(ToSet(reg')) /\ Cardinality(ToSet(reg')) = Len(reg')
    BY <2>1, <2>4 DEF TiersInv
  <2> QED
    BY <2>1, <2>2, <2>4, <2>6, <2>7, <2>8 DEF TiersInv, tiersLoop, probing
<1>2. CASE AddCore
  <2>1. CASE Fatal
    BY <2>1, TiersKept DEF Fatal
  <2>2. CASE Added("core", unset, FALSE)
    <3>1. pc \in tiersLoop /\ todo # <<>> /\ Head(todo) = "core" /\ pc \notin probing
      BY <1>2 DEF AddCore, at, tiersLoop, TiersInv, probing
    <3>2. StartTypes /\ "core" \in {"core", "smart", "gpu"} /\ ("core" = "gpu" <=> pc \in probing)
      BY <3>1 DEF StartInv
    <3> QED
      BY <2>2, <3>1, <3>2, TierAdded, Zenon
  <2> QED
    BY <1>2, <2>1, <2>2, AddTierSteps DEF AddCore
<1>3. CASE AddSmart
  <2>1. CASE Fatal
    BY <2>1, TiersKept DEF Fatal
  <2>2. CASE Added("smart", "smartctl", cfg.smartctl)
    <3>1. pc \in tiersLoop /\ todo # <<>> /\ Head(todo) = "smart" /\ pc \notin probing
      BY <1>3 DEF AddSmart, at, tiersLoop, TiersInv, probing
    <3>2. StartTypes /\ "smart" \in {"core", "smart", "gpu"} /\ ("smart" = "gpu" <=> pc \in probing)
      BY <3>1 DEF StartInv
    <3> QED
      BY <2>2, <3>1, <3>2, TierAdded, Zenon
  <2> QED
    BY <1>3, <2>1, <2>2, AddTierSteps DEF AddSmart
<1>4. CASE NvmlInit
  <2>1. pc \in tiersLoop /\ todo # <<>> /\ Head(todo) = "gpu"
    BY <1>4 DEF NvmlInit, at, tiersLoop, TiersInv, probing
  <2>2. readerFailed \/ nvmlGoesOn("nvmlCount")
    BY <1>4 DEF NvmlInit
  <2> QED
    BY <2>1, <2>2, TierSkipped, TierProbed DEF probing
<1>5. CASE DeviceGetCount
  <2>1. pc \in tiersLoop /\ todo # <<>> /\ Head(todo) = "gpu"
    BY <1>5 DEF DeviceGetCount, at, tiersLoop, TiersInv, probing
  <2>2. readerFailed \/ nvmlGoesOn("nvmlEvents")
    BY <1>5 DEF DeviceGetCount
  <2> QED
    BY <2>1, <2>2, TierSkipped, TierProbed DEF probing
<1>6. CASE EventSetCreate
  <2>1. pc \in tiersLoop /\ todo # <<>> /\ Head(todo) = "gpu"
    BY <1>6 DEF EventSetCreate, at, tiersLoop, TiersInv, probing
  <2>2. readerFailed \/ nvmlGoesOn("gpu")
    BY <1>6 DEF EventSetCreate
  <2> QED
    BY <2>1, <2>2, TierSkipped, TierProbed DEF probing
<1>7. CASE AddGpu
  <2>1. CASE Fatal
    BY <2>1, TiersKept DEF Fatal
  <2>2. CASE Added("gpu", "dcgm", cfg.dcgm)
    <3>1. pc \in tiersLoop /\ todo # <<>> /\ Head(todo) = "gpu" /\ pc \in probing
      BY <1>7 DEF AddGpu, at, tiersLoop, TiersInv, probing
    <3>2. StartTypes /\ "gpu" \in {"core", "smart", "gpu"} /\ ("gpu" = "gpu" <=> pc \in probing)
      BY <3>1 DEF StartInv
    <3> QED
      BY <2>2, <3>1, <3>2, TierAdded, Zenon
  <2> QED
    BY <1>7, <2>1, <2>2, AddTierSteps DEF AddGpu
<1>8. CASE TiersDone
  <2>1. pc = "tiers" /\ todo = <<>> /\ pc' = "exporter" /\ UNCHANGED <<file, reg, todo, nvml>>
    BY <1>8 DEF TiersDone, goOn
  <2>2. ToSet(todo) = {}
    BY <2>1 DEF ToSet
  <2>3. rest = {} /\ rest' = {}
    BY <2>1, <2>2 DEF rest, tiersLoop
  <2>4. asked' = asked /\ ToSet(reg)' = ToSet(reg)
    BY <2>1 DEF asked
  <2> QED
    BY <2>1, <2>3, <2>4 DEF TiersInv, Chosen, tiersLoop, probing
<1>9. CASE NodeExporter
  <2>1. /\ UNCHANGED <<file, reg, todo, nvml>>
        /\ pc \notin {"load", "fatal", "killed"} \cup tiersLoop
        /\ pc' \notin {"load", "fatal", "killed"} \cup tiersLoop
    BY <1>9 DEF NodeExporter, tiersLoop
  <2> QED
    BY <2>1, TiersKept
<1>10. CASE NoNodeExporter
  <2>1. /\ UNCHANGED <<file, reg, todo, nvml>>
        /\ pc \notin {"load", "fatal", "killed"} \cup tiersLoop
        /\ pc' \notin {"load", "fatal", "killed"} \cup tiersLoop
    BY <1>10 DEF NoNodeExporter, goOn, tiersLoop
  <2> QED
    BY <2>1, TiersKept
<1>11. CASE Ksm
  <2>1. /\ UNCHANGED <<file, reg, todo, nvml>>
        /\ pc \notin {"load", "fatal", "killed"} \cup tiersLoop
        /\ pc' \notin {"load", "fatal", "killed"} \cup tiersLoop
    BY <1>11 DEF Ksm, tiersLoop
  <2> QED
    BY <2>1, TiersKept
<1>12. CASE NoKsm
  <2>1. /\ UNCHANGED <<file, reg, todo, nvml>>
        /\ pc \notin {"load", "fatal", "killed"} \cup tiersLoop
        /\ pc' \notin {"load", "fatal", "killed"} \cup tiersLoop
    BY <1>12 DEF NoKsm, goOn, tiersLoop
  <2> QED
    BY <2>1, TiersKept
<1>13. CASE OpenHistory
  <2>1. /\ UNCHANGED <<file, reg, todo, nvml>>
        /\ pc \notin {"load", "fatal", "killed"} \cup tiersLoop
        /\ pc' \notin {"load", "fatal", "killed"} \cup tiersLoop
    BY <1>13 DEF OpenHistory, tiersLoop
  <2> QED
    BY <2>1, TiersKept
<1>14. CASE NoHistory
  <2>1. /\ UNCHANGED <<file, reg, todo, nvml>>
        /\ pc \notin {"load", "fatal", "killed"} \cup tiersLoop
        /\ pc' \notin {"load", "fatal", "killed"} \cup tiersLoop
    BY <1>14 DEF NoHistory, goOn, tiersLoop
  <2> QED
    BY <2>1, TiersKept
<1>15. CASE Quiet
  <2>1. Stands
    BY <1>15, QuietStands DEF StartInv
  <2> QED
    BY <2>1, TiersKept DEF Stands, up, serving, tiersLoop
<1> QED
  BY <1>1, <1>2, <1>3, <1>4, <1>5, <1>6, <1>7, <1>8, <1>9, <1>10, <1>11, <1>12, <1>13, <1>14, <1>15, LoudOrQuiet

(* Load keeps what the surfaces depend on.                                 *)
LEMMA CfgFields ==
    ASSUME StartInv, pc \notin {"load", "fatal", "killed"}
    PROVE  /\ cfg.ne = file.ne /\ cfg.ksm = file.ksm
           /\ cfg.smartctl = file.smartctl /\ cfg.dcgm = file.dcgm
           /\ cfg.history.enabled = file.history.enabled
BY LoadedFields DEF StartInv, StartTypes, CfgIsLoaded

(* The surfaces called for change only with the registered tiers.          *)
LEMMA SurfacesOfSame ==
    ASSUME UNCHANGED <<file, reg>>
    PROVE  ofTiers' = ofTiers /\ ofNode' = ofNode /\ ofKsm' = ofKsm
<1>1. ToSet(reg') = ToSet(reg)
  OBVIOUS
<1> QED
  BY <1>1 DEF ofTiers, ofNode, ofKsm

(* Every step registers the surfaces that the file and the tiers call for. *)
LEMMA SurfacesStep ==
    ASSUME StartInv, TiersInv, SurfacesInv, [Next]_vars
    PROVE  SurfacesInv'
<1> USE DEF given, built, served
<1>1. CASE Load
  <2>1. pc = "load" /\ pc' = "tiers" /\ UNCHANGED <<file, reg, surfaces>>
    BY <1>1 DEF Load
  <2>2. reg' = <<>> /\ surfaces' = {}
    BY <2>1 DEF TiersInv, SurfacesInv
  <2>3. ToSet(reg') = {}
    BY <2>2 DEF ToSet
  <2>4. ofTiers' = {}
    BY <2>3 DEF ofTiers
  <2> QED
    BY <2>1, <2>2, <2>4 DEF SurfacesInv, tiersLoop, up, serving
<1>2. CASE AddCore
  <2>1. CASE Fatal
    BY <2>1 DEF Fatal, SurfacesInv, tiersLoop, up, serving
  <2>2. CASE Added("core", unset, FALSE)
    <3>1. /\ pc \in tiersLoop /\ pc' = "tiers" /\ reg' = Append(reg, "core") /\ UNCHANGED file
          /\ surfaces' = IF FALSE THEN surfaces \cup {unset} ELSE surfaces
      BY <1>2, <2>2 DEF AddCore, Added, at, tiersLoop
    <3>2. ToSet(reg') = ToSet(reg) \cup {"core"}
      BY <3>1, ToSetOfAppend DEF StartInv, StartTypes
    <3>3. surfaces = ofTiers
      BY <3>1 DEF SurfacesInv
    <3>4. cfg.smartctl = file.smartctl /\ cfg.dcgm = file.dcgm
      BY <3>1, CfgFields DEF tiersLoop
    <3>5. ofTiers' = IF FALSE THEN ofTiers \cup {unset} ELSE ofTiers
      BY <3>1, <3>2, <3>4 DEF ofTiers
    <3> QED
      BY <3>1, <3>3, <3>5 DEF SurfacesInv, tiersLoop, up, serving
  <2> QED
    BY <1>2, <2>1, <2>2, AddTierSteps DEF AddCore
<1>3. CASE AddSmart
  <2>1. CASE Fatal
    BY <2>1 DEF Fatal, SurfacesInv, tiersLoop, up, serving
  <2>2. CASE Added("smart", "smartctl", cfg.smartctl)
    <3>1. /\ pc \in tiersLoop /\ pc' = "tiers" /\ reg' = Append(reg, "smart") /\ UNCHANGED file
          /\ surfaces' = IF cfg.smartctl THEN surfaces \cup {"smartctl"} ELSE surfaces
      BY <1>3, <2>2 DEF AddSmart, Added, at, tiersLoop
    <3>2. ToSet(reg') = ToSet(reg) \cup {"smart"}
      BY <3>1, ToSetOfAppend DEF StartInv, StartTypes
    <3>3. surfaces = ofTiers
      BY <3>1 DEF SurfacesInv
    <3>4. cfg.smartctl = file.smartctl /\ cfg.dcgm = file.dcgm
      BY <3>1, CfgFields DEF tiersLoop
    <3>5. ofTiers' = IF cfg.smartctl THEN ofTiers \cup {"smartctl"} ELSE ofTiers
      BY <3>1, <3>2, <3>4 DEF ofTiers
    <3> QED
      BY <3>1, <3>3, <3>5 DEF SurfacesInv, tiersLoop, up, serving
  <2> QED
    BY <1>3, <2>1, <2>2, AddTierSteps DEF AddSmart
<1>4. CASE NvmlInit
  <2>1. UNCHANGED <<file, reg, surfaces, upstream>>
    BY <1>4 DEF NvmlInit, readerFailed, nvmlGoesOn, at
  <2>2. ofTiers' = ofTiers /\ ofNode' = ofNode /\ ofKsm' = ofKsm
    BY <2>1, SurfacesOfSame
  <2> QED
    BY <1>4, <2>1, <2>2 DEF NvmlInit, readerFailed, nvmlGoesOn, at, SurfacesInv, tiersLoop, building, ended, up, serving
<1>5. CASE DeviceGetCount
  <2>1. UNCHANGED <<file, reg, surfaces, upstream>>
    BY <1>5 DEF DeviceGetCount, readerFailed, nvmlGoesOn
  <2>2. ofTiers' = ofTiers /\ ofNode' = ofNode /\ ofKsm' = ofKsm
    BY <2>1, SurfacesOfSame
  <2> QED
    BY <1>5, <2>1, <2>2 DEF DeviceGetCount, readerFailed, nvmlGoesOn, SurfacesInv, tiersLoop, building, ended, up, serving
<1>6. CASE EventSetCreate
  <2>1. UNCHANGED <<file, reg, surfaces, upstream>>
    BY <1>6 DEF EventSetCreate, readerFailed, nvmlGoesOn
  <2>2. ofTiers' = ofTiers /\ ofNode' = ofNode /\ ofKsm' = ofKsm
    BY <2>1, SurfacesOfSame
  <2> QED
    BY <1>6, <2>1, <2>2 DEF EventSetCreate, readerFailed, nvmlGoesOn, SurfacesInv, tiersLoop, building, ended, up, serving
<1>7. CASE AddGpu
  <2>1. CASE Fatal
    BY <2>1 DEF Fatal, SurfacesInv, tiersLoop, up, serving
  <2>2. CASE Added("gpu", "dcgm", cfg.dcgm)
    <3>1. /\ pc \in tiersLoop /\ pc' = "tiers" /\ reg' = Append(reg, "gpu") /\ UNCHANGED file
          /\ surfaces' = IF cfg.dcgm THEN surfaces \cup {"dcgm"} ELSE surfaces
      BY <1>7, <2>2 DEF AddGpu, Added, at, tiersLoop
    <3>2. ToSet(reg') = ToSet(reg) \cup {"gpu"}
      BY <3>1, ToSetOfAppend DEF StartInv, StartTypes
    <3>3. surfaces = ofTiers
      BY <3>1 DEF SurfacesInv
    <3>4. cfg.smartctl = file.smartctl /\ cfg.dcgm = file.dcgm
      BY <3>1, CfgFields DEF tiersLoop
    <3>5. ofTiers' = IF cfg.dcgm THEN ofTiers \cup {"dcgm"} ELSE ofTiers
      BY <3>1, <3>2, <3>4 DEF ofTiers
    <3> QED
      BY <3>1, <3>3, <3>5 DEF SurfacesInv, tiersLoop, up, serving
  <2> QED
    BY <1>7, <2>1, <2>2, AddTierSteps DEF AddGpu
<1>8. CASE TiersDone
  <2>1. UNCHANGED <<file, reg, surfaces, upstream>>
    BY <1>8 DEF TiersDone, goOn
  <2>2. ofTiers' = ofTiers /\ ofNode' = ofNode /\ ofKsm' = ofKsm
    BY <2>1, SurfacesOfSame
  <2> QED
    BY <1>8, <2>1, <2>2 DEF TiersDone, goOn, SurfacesInv, tiersLoop, building, ended, up, serving
<1>9. CASE NodeExporter
  <2>1. /\ pc = "exporter" /\ pc' = "ksm" /\ UNCHANGED <<file, reg>>
        /\ cfg.ne.enabled /\ upstream' # {}
        /\ surfaces' = surfaces \cup {"node_exporter"} \cup (IF cfg.ne.native THEN {"nodecompat"} ELSE {})
    BY <1>9 DEF NodeExporter
  <2>2. ofTiers' = ofTiers /\ ofNode' = ofNode
    BY <2>1, SurfacesOfSame
  <2>3. cfg.ne = file.ne
    BY <2>1, CfgFields
  <2>4. surfaces = ofTiers
    BY <2>1 DEF SurfacesInv
  <2>5. ofNode = {"node_exporter"} \cup (IF cfg.ne.native THEN {"nodecompat"} ELSE {})
    BY <2>1, <2>3 DEF ofNode
  <2>6. surfaces' = ofTiers' \cup ofNode'
    BY <2>1, <2>2, <2>4, <2>5
  <2> QED
    BY <2>1, <2>3, <2>6 DEF SurfacesInv, tiersLoop, up, serving
<1>10. CASE NoNodeExporter
  <2>1. UNCHANGED <<file, reg, surfaces, upstream>>
    BY <1>10 DEF NoNodeExporter, goOn
  <2>2. ofTiers' = ofTiers /\ ofNode' = ofNode /\ ofKsm' = ofKsm
    BY <2>1, SurfacesOfSame
  <2>3. cfg.ne = file.ne /\ cfg.ksm = file.ksm /\ cfg.history.enabled = file.history.enabled
    BY <1>10, CfgFields DEF NoNodeExporter, goOn
  <2>4. pc = "exporter" => upstream = {}
    BY DEF StartInv, OwnersByStep
  <2>5. pc = "history" => store = "none"
    BY DEF StartInv, StoreByStep, building
  <2> QED
    BY <1>10, <2>1, <2>2, <2>3, <2>4, <2>5 DEF NoNodeExporter, goOn, ofNode, ofKsm, SurfacesInv, tiersLoop, building, ended, up, serving
<1>11. CASE Ksm
  <2>1. /\ pc = "ksm" /\ pc' = "history" /\ UNCHANGED <<file, reg, upstream>>
        /\ cfg.ksm.enabled /\ surfaces' = surfaces \cup {"ksm"}
    BY <1>11 DEF Ksm
  <2>2. ofTiers' = ofTiers /\ ofNode' = ofNode /\ ofKsm' = ofKsm
    BY <2>1, SurfacesOfSame
  <2>3. ofKsm = {"ksm"}
    BY <2>1, CfgFields DEF ofKsm
  <2> QED
    BY <2>1, <2>2, <2>3 DEF SurfacesInv, tiersLoop, up, serving
<1>12. CASE NoKsm
  <2>1. UNCHANGED <<file, reg, surfaces, upstream>>
    BY <1>12 DEF NoKsm, goOn
  <2>2. ofTiers' = ofTiers /\ ofNode' = ofNode /\ ofKsm' = ofKsm
    BY <2>1, SurfacesOfSame
  <2>3. cfg.ne = file.ne /\ cfg.ksm = file.ksm /\ cfg.history.enabled = file.history.enabled
    BY <1>12, CfgFields DEF NoKsm, goOn
  <2>4. pc = "exporter" => upstream = {}
    BY DEF StartInv, OwnersByStep
  <2>5. pc = "history" => store = "none"
    BY DEF StartInv, StoreByStep, building
  <2> QED
    BY <1>12, <2>1, <2>2, <2>3, <2>4, <2>5 DEF NoKsm, goOn, ofNode, ofKsm, SurfacesInv, tiersLoop, building, ended, up, serving
<1>13. CASE OpenHistory
  <2>1. UNCHANGED <<file, reg, surfaces, upstream>>
    BY <1>13 DEF OpenHistory
  <2>2. ofTiers' = ofTiers /\ ofNode' = ofNode /\ ofKsm' = ofKsm
    BY <2>1, SurfacesOfSame
  <2>3. cfg.ne = file.ne /\ cfg.ksm = file.ksm /\ cfg.history.enabled = file.history.enabled
    BY <1>13, CfgFields DEF OpenHistory
  <2>4. pc = "exporter" => upstream = {}
    BY DEF StartInv, OwnersByStep
  <2>5. pc = "history" => store = "none"
    BY DEF StartInv, StoreByStep, building
  <2> QED
    BY <1>13, <2>1, <2>2, <2>3, <2>4, <2>5 DEF OpenHistory, ofNode, ofKsm, SurfacesInv, tiersLoop, building, ended, up, serving
<1>14. CASE NoHistory
  <2>1. UNCHANGED <<file, reg, surfaces, upstream>>
    BY <1>14 DEF NoHistory, goOn
  <2>2. ofTiers' = ofTiers /\ ofNode' = ofNode /\ ofKsm' = ofKsm
    BY <2>1, SurfacesOfSame
  <2>3. cfg.ne = file.ne /\ cfg.ksm = file.ksm /\ cfg.history.enabled = file.history.enabled
    BY <1>14, CfgFields DEF NoHistory, goOn
  <2>4. pc = "exporter" => upstream = {}
    BY DEF StartInv, OwnersByStep
  <2>5. pc = "history" => store = "none"
    BY DEF StartInv, StoreByStep, building
  <2> QED
    BY <1>14, <2>1, <2>2, <2>3, <2>4, <2>5 DEF NoHistory, goOn, ofNode, ofKsm, SurfacesInv, tiersLoop, building, ended, up, serving
<1>15. CASE Quiet
  <2>1. Stands
    BY <1>15, QuietStands DEF StartInv
  <2>2. ofTiers' = ofTiers /\ ofNode' = ofNode /\ ofKsm' = ofKsm
    BY <2>1, SurfacesOfSame DEF Stands
  <2> QED
    BY <2>1, <2>2 DEF Stands, SurfacesInv, tiersLoop, up, serving
<1> QED
  BY <1>1, <1>2, <1>3, <1>4, <1>5, <1>6, <1>7, <1>8, <1>9, <1>10, <1>11, <1>12, <1>13, <1>14, <1>15, LoudOrQuiet

(* What runs is what the file asks for, or nothing runs: for every file    *)
(* whose list of tiers distinct handles as it should, whatever NVML, the   *)
(* flag parser, the API server's files and the database do (main.go).      *)
THEOREM AlwaysAsConfigured ==
    ASSUME DistinctIsExact
    PROVE  Spec => []AsConfigured
<1>1. Init => TiersInv /\ SurfacesInv
  <2> SUFFICES ASSUME Init PROVE TiersInv /\ SurfacesInv
    OBVIOUS
  <2>1. ToSet(reg) = {}
    BY DEF Init, ToSet
  <2>2. IsFiniteSet(ToSet(reg)) /\ Cardinality(ToSet(reg)) = Len(reg)
    BY <2>1, FS_EmptySet DEF Init
  <2> QED
    BY <2>2 DEF Init, TiersInv, SurfacesInv, tiersLoop, probing, up, serving
<1>2. StartInv /\ TiersInv /\ SurfacesInv /\ [Next]_vars => TiersInv' /\ SurfacesInv'
  BY TiersStep, SurfacesStep
<1>3. StartInv /\ TiersInv /\ SurfacesInv => AsConfigured
  <2> SUFFICES ASSUME StartInv, TiersInv, SurfacesInv, up PROVE AsConfigured
    BY DEF AsConfigured
  <2>1. pc \notin {"load", "fatal", "killed"} \cup tiersLoop
    BY DEF up, serving, tiersLoop
  <2>2. Chosen /\ rest = {}
    BY <2>1 DEF TiersInv, rest
  <2>3. /\ ToSet(reg) \subseteq asked /\ asked \ {"gpu"} \subseteq ToSet(reg)
        /\ asked \subseteq {"gpu"} => asked \subseteq ToSet(reg)
    BY <2>2 DEF Chosen
  <2>4. asked # {}
    BY DEF asked
  <2>5. ToSet(reg) \in {asked, asked \ {"gpu"}}
    BY <2>3
  <2>6. reg # <<>>
    <3>1. ToSet(reg) # {}
      BY <2>3, <2>4
    <3> QED
      BY <3>1 DEF ToSet
  <2>7. nvml <=> "gpu" \in ToSet(reg)
    <3>1. nvml = TRUE <=> "gpu" \in ToSet(reg)
      BY <2>1 DEF TiersInv, probing, tiersLoop
    <3>2. nvml \in BOOLEAN
      BY DEF StartInv, StartTypes
    <3> QED
      BY <3>1, <3>2, Zenon
  <2>8. Cardinality(ToSet(reg)) = Len(reg)
    BY DEF TiersInv
  <2>9. surfaces = ofTiers \cup ofNode \cup ofKsm
    BY DEF SurfacesInv
  <2>10. (file.ne.enabled <=> upstream # {}) /\ (file.history.enabled <=> store # "none")
    BY DEF SurfacesInv
  <2>11. surfaces = {x \in {"smartctl"} : "smart" \in ToSet(reg) /\ file.smartctl}
                    \cup {x \in {"dcgm"} : "gpu" \in ToSet(reg) /\ file.dcgm}
                    \cup {x \in {"node_exporter"} : file.ne.enabled}
                    \cup {x \in {"nodecompat"} : file.ne.enabled /\ file.ne.native}
                    \cup {x \in {"ksm"} : file.ksm.enabled}
    BY <2>9 DEF ofTiers, ofNode, ofKsm
  <2> QED
    BY <2>5, <2>6, <2>7, <2>8, <2>10, <2>11, Zenon DEF AsConfigured
<1> QED
  BY <1>1, <1>2, <1>3, StartInvHolds, PTL DEF Spec
=============================================================================
