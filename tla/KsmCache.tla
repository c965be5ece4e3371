------------------------------ MODULE KsmCache ------------------------------
(***************************************************************************)
(* internal/ksmcompat: the kube_* surface.  A scrape asks the API server   *)
(* for the node and then for its pods, or takes both from a cache that is  *)
(* at most CacheTTL old; one mutex covers the check and the two requests.  *)
(* Each request takes at most RequestTimeout and may fail (transport,      *)
(* status other than 200, or a body that does not decode).                 *)
(*                                                                         *)
(* time.Since reads the monotonic clock, so now only advances.  The        *)
(* revision of the cluster at time t is t: a read at time t returns the    *)
(* objects nodeObj[t] and podObjs[t].  The API server reads them at some   *)
(* time between the request and the arrival of its reply.                  *)
(***************************************************************************)
EXTENDS Integers, Sequences, FiniteSets

CONSTANTS Scrapers,        \* concurrent requests for /metrics
          TTL,             \* Config.CacheTTL
          RequestTimeout,  \* the HTTP client's timeout
          Horizon,         \* bound on the clock
          nodeObj,         \* the node object at each time
          podObjs          \* the pods of the node at each time

ASSUME KsmAssumption == /\ TTL \in Nat \ {0}
                        /\ RequestTimeout \in Nat /\ Horizon \in Nat
                        /\ DOMAIN nodeObj = 0..Horizon /\ DOMAIN podObjs = 0..Horizon

VARIABLES now,        \* the monotonic clock
          pc,         \* where each scrape is
          lock,       \* e.mu: the set of its holders
          reqAt,      \* when the request under way was sent
          nodeRead,   \* the revision of the node the holder has read
          cached,     \* e.cached: no snapshot or one
          lastFetch,  \* e.lastFetch
          answer      \* the last answer of each scraper

vars == <<now, pc, lock, reqAt, nodeRead, cached, lastFetch, answer>>

noAnswer == [ok |-> FALSE, snap |-> {}]

Init == /\ now = 0
        /\ pc = [s \in Scrapers |-> "idle"]
        /\ lock = {} /\ reqAt = 0 /\ nodeRead = 0
        /\ cached = {} /\ lastFetch = 0
        /\ answer = [s \in Scrapers |-> noAnswer]

(* e.cached != nil && time.Since(e.lastFetch) < e.ttl                      *)
fresh == cached # {} /\ now - lastFetch < TTL

Tick == /\ now < Horizon
        /\ lock # {} => now - reqAt < RequestTimeout
        /\ now' = now + 1
        /\ UNCHANGED <<pc, lock, reqAt, nodeRead, cached, lastFetch, answer>>

Scrape(s) == /\ pc[s] = "idle"
             /\ pc' = [pc EXCEPT ![s] = "waiting"]
             /\ UNCHANGED <<now, lock, reqAt, nodeRead, cached, lastFetch, answer>>

(* load() under the mutex: a fresh snapshot is returned at once.           *)
Hit(s) == /\ pc[s] = "waiting" /\ lock = {} /\ fresh
          /\ pc' = [pc EXCEPT ![s] = "idle"]
          /\ answer' = [answer EXCEPT ![s] = [ok |-> TRUE, snap |-> cached]]
          /\ UNCHANGED <<now, lock, reqAt, nodeRead, cached, lastFetch>>

MissBug(s) == /\ pc[s] = "waiting" /\ lock \subseteq Scrapers /\ ~fresh
              /\ lock' = lock \cup {s} /\ reqAt' = now
              /\ pc' = [pc EXCEPT ![s] = "node"]
              /\ UNCHANGED <<now, nodeRead, cached, lastFetch, answer>>

(* Otherwise the node is requested, with the mutex held.                   *)
Miss(s) == /\ pc[s] = "waiting" /\ lock = {} /\ ~fresh
           /\ lock' = {s} /\ reqAt' = now
           /\ pc' = [pc EXCEPT ![s] = "node"]
           /\ UNCHANGED <<now, nodeRead, cached, lastFetch, answer>>

NodeReply(s) == /\ pc[s] = "node"
                /\ \E t \in reqAt..now : nodeRead' = t
                /\ reqAt' = now
                /\ pc' = [pc EXCEPT ![s] = "pods"]
                /\ UNCHANGED <<now, lock, cached, lastFetch, answer>>

(* The snapshot is stored only when both requests have succeeded, and is   *)
(* as old as its replies when lastFetch starts to count.                   *)
PodsReply(s) == /\ pc[s] = "pods"
                /\ \E t \in reqAt..now : cached' = {[node |-> nodeRead, pods |-> t]}
                /\ lastFetch' = now
                /\ answer' = [answer EXCEPT ![s] = [ok |-> TRUE, snap |-> cached']]
                /\ lock' = lock \ {s}
                /\ pc' = [pc EXCEPT ![s] = "idle"]
                /\ UNCHANGED <<now, reqAt, nodeRead>>

FailKeepsLockBug(s) == /\ pc[s] \in {"node", "pods"}
                       /\ answer' = [answer EXCEPT ![s] = noAnswer]
                       /\ pc' = [pc EXCEPT ![s] = "idle"]
                       /\ UNCHANGED <<now, lock, reqAt, nodeRead, cached, lastFetch>>

FailServesStaleBug(s) == /\ pc[s] \in {"node", "pods"}
                         /\ answer' = [answer EXCEPT ![s] = [ok |-> cached # {}, snap |-> cached]]
                         /\ lock' = lock \ {s}
                         /\ pc' = [pc EXCEPT ![s] = "idle"]
                         /\ UNCHANGED <<now, reqAt, nodeRead, cached, lastFetch>>

(* A request fails: the scrape carries the error and no kube_* series, and *)
(* the cache is left as it was, expired.                                   *)
Fail(s) == /\ pc[s] \in {"node", "pods"}
           /\ answer' = [answer EXCEPT ![s] = noAnswer]
           /\ lock' = lock \ {s}
           /\ pc' = [pc EXCEPT ![s] = "idle"]
           /\ UNCHANGED <<now, reqAt, nodeRead, cached, lastFetch>>

Enter(s) == Hit(s) \/ Miss(s)

Requested(s) == NodeReply(s) \/ PodsReply(s) \/ Fail(s)

Next == Tick \/ \E s \in Scrapers : Scrape(s) \/ Enter(s) \/ Requested(s)

(* A request ends, at the latest by its timeout (WF).  sync.Mutex hands    *)
(* itself to a waiter that has been passed over for a millisecond, so a    *)
(* waiting scrape gets it although others come and go (SF).  Nobody has to *)
(* scrape.                                                                 *)
Spec == /\ Init /\ [][Next]_vars
        /\ \A s \in Scrapers : SF_vars(Enter(s)) /\ WF_vars(Requested(s))

-----------------------------------------------------------------------------
(***************************************************************************)
(* Rendering a snapshot: collectNode, collectPods, collectQuantities.  A   *)
(* series is its family, its labels other than the node's name, and its    *)
(* value.                                                                  *)
(***************************************************************************)
podPhases == {"Pending", "Running", "Succeeded", "Failed", "Unknown"}

nodeConditionStates == {"true", "false", "unknown"}

conditionState(st) ==
    CASE st = "True" -> "true" [] st = "False" -> "false" [] OTHER -> "unknown"

point(family, labels, value) == [family |-> family, labels |-> labels, value |-> value]

(* A quantity is a sequence of characters.                                 *)
digits == {"0", "1", "2", "3", "4", "5", "6", "7", "8", "9"}

numeric == digits \cup {"."}

signs == {"+", "-"}

(* Each suffix with the base and the power of its multiplier.              *)
multipliers == {<<<<>>, 10, 0>>, <<<<"m">>, 10, -3>>, <<<<"k">>, 10, 3>>, <<<<"M">>, 10, 6>>,
                <<<<"G">>, 10, 9>>, <<<<"T">>, 10, 12>>, <<<<"P">>, 10, 15>>, <<<<"E">>, 10, 18>>,
                <<<<"K", "i">>, 2, 10>>, <<<<"M", "i">>, 2, 20>>, <<<<"G", "i">>, 2, 30>>,
                <<<<"T", "i">>, 2, 40>>, <<<<"P", "i">>, 2, 50>>, <<<<"E", "i">>, 2, 60>>}

suffixes == {x[1] : x \in multipliers}

afterSign(s) == IF s # <<>> /\ s[1] \in signs THEN 2 ELSE 1

(* strconv.ParseFloat: a sign, digits with at most one dot among them, and *)
(* an exponent with a sign of its own.  Its other forms need characters or *)
(* magnitudes that no quantity has (QuantityAssumption).                   *)
isNumber(s) == LET body == afterSign(s)..Len(s) IN
                   /\ \A i \in body : s[i] \in numeric
                   /\ \E i \in body : s[i] \in digits
                   /\ \A i, j \in body : s[i] = "." /\ s[j] = "." => i = j

isExponent(s) == afterSign(s) <= Len(s) /\ \A i \in afterSign(s)..Len(s) : s[i] \in digits

before(s, k) == SubSeq(s, 1, k - 1)
after(s, k) == SubSeq(s, k + 1, Len(s))

(* Mantissa and exponent of the number, or nothing.                        *)
ParseFloat(s) ==
    {f \in {<<s, <<>>>>} : isNumber(s)}
    \cup {<<before(s, k), after(s, k)>> : k \in {k \in 1..Len(s) :
               s[k] \in {"e", "E"} /\ isNumber(before(s, k)) /\ isExponent(after(s, k))}}

front(s, n) == SubSeq(s, 1, Len(s) - n)
last(s, n) == SubSeq(s, Len(s) - n + 1, Len(s))

(* The last n characters are taken for a suffix when they are one and a    *)
(* digit or a dot comes before them.                                       *)
hasSuffix(s, n) == /\ Len(s) > n
                   /\ last(s, n) \in suffixes
                   /\ s[Len(s) - n] \in numeric

suffixLen(s) == IF hasSuffix(s, 2) THEN 2 ELSE IF hasSuffix(s, 1) THEN 1 ELSE 0

reading(f, base, power) == [mantissa |-> f[1], exponent |-> f[2], base |-> base, power |-> power]

(* The number times the multiplier, or nothing.                            *)
parseQuantity(s) ==
    LET n == suffixLen(s) IN
    UNION {{reading(f, x[2], x[3]) : f \in ParseFloat(front(s, n))} :
              x \in {x \in multipliers : x[1] = last(s, n)}}

collectQuantities(family, res) ==
    UNION {{point(family, <<r>>, v) : v \in parseQuantity(res[r])} : r \in DOMAIN res}

collectNode(n) ==
    {point("kube_node_info", <<>>, 1)}
    \cup {point("kube_node_status_condition", <<t, st>>,
                IF st = conditionState(n.conditions[t]) THEN 1 ELSE 0) :
             t \in DOMAIN n.conditions, st \in nodeConditionStates}
    \cup collectQuantities("kube_node_status_capacity", n.capacity)
    \cup collectQuantities("kube_node_status_allocatable", n.allocatable)

collectPodBug(p, obj) ==
    {point("kube_pod_info", <<p, IF obj.owners = <<>> THEN "" ELSE obj.owners[1]>>, 1)}
    \cup {point("kube_pod_status_phase", <<p, obj.phase>>, 1)}
    \cup {point("kube_pod_container_status_ready", <<p, c>>,
                IF obj.containers[c].ready THEN 1 ELSE 0) : c \in DOMAIN obj.containers}
    \cup {point("kube_pod_container_status_restarts_total", <<p, c>>,
                obj.containers[c].restarts) : c \in DOMAIN obj.containers}

collectPod(p, obj) ==
    {point("kube_pod_info", <<p, IF obj.owners = <<>> THEN "" ELSE obj.owners[1]>>, 1)}
    \cup {point("kube_pod_status_phase", <<p, ph>>, IF ph = obj.phase THEN 1 ELSE 0) :
             ph \in podPhases}
    \cup {point("kube_pod_container_status_ready", <<p, c>>,
                IF obj.containers[c].ready THEN 1 ELSE 0) : c \in DOMAIN obj.containers}
    \cup {point("kube_pod_container_status_restarts_total", <<p, c>>,
                obj.containers[c].restarts) : c \in DOMAIN obj.containers}

collectPods(pods) == UNION {collectPod(p, pods[p]) : p \in DOMAIN pods}

(* Collect: an error is handed to the registry instead of any series.      *)
Collect(a) == UNION {collectNode(nodeObj[sn.node]) \cup collectPods(podObjs[sn.pods]) :
                        sn \in IF a.ok THEN a.snap ELSE {}}

-----------------------------------------------------------------------------
(***************************************************************************)
(* Properties.                                                             *)
(***************************************************************************)

(* However many scrapes arrive at once when the cache runs out, one of     *)
(* them asks the API server and the others use what it got: no request is  *)
(* under way while a fresh snapshot is there ("CacheTTL bounds how often   *)
(* the API is queried", for as long as the requests succeed).              *)
NoRequestWhileFresh == (\E s \in Scrapers : pc[s] \in {"node", "pods"}) => ~fresh

(* The node and the pods of an answer come from one pass, recent enough,   *)
(* and no scraper is shown an older cluster than another one was before:   *)
(* the cache, the mutex and the failing requests implement FreshAnswers.   *)
Promise == INSTANCE FreshAnswers WITH now <- now, answer <- answer
AnswersAreFresh == Promise!Spec

(* Every scrape is answered, although requests fail and scrapes queue up   *)
(* behind them on the mutex.                                               *)
EveryScrapeIsAnswered == \A s \in Scrapers : pc[s] # "idle" ~> pc[s] = "idle"

(* What a Kubernetes quantity means: a signed number and a decimal or a    *)
(* binary unit, or a signed number and an exponent of ten.                 *)
signedNumber(s) ==
    \E a \in 0..1, b \in 0..Len(s) :
        /\ a <= b
        /\ a = 1 => s[1] \in signs
        /\ \A i \in (a + 1)..b : s[i] \in digits
        /\ b < Len(s) => s[b + 1] = "." /\ \A i \in (b + 2)..Len(s) : s[i] \in digits
        /\ \E i \in (a + 1)..Len(s) : s[i] \in digits

signedInteger(s) == signedNumber(s) /\ \A i \in 1..Len(s) : s[i] # "."

endsIn(s, u) == Len(u) < Len(s) /\ last(s, Len(u)) = u /\ signedNumber(front(s, Len(u)))

decimalUnits == <<"n", "u", "m", "", "k", "M", "G", "T", "P", "E">>
binaryUnits == <<"K", "M", "G", "T", "P", "E">>

denotes(s) ==
    {q \in {reading(<<s, <<>>>>, 10, 0)} : signedNumber(s)}
    \cup {reading(<<front(s, 1), <<>>>>, 10, 3 * (i - 4)) :
             i \in {i \in (1..10) \ {4} : endsIn(s, <<decimalUnits[i]>>)}}
    \cup {reading(<<front(s, 2), <<>>>>, 2, 10 * i) :
             i \in {i \in 1..6 : endsIn(s, <<binaryUnits[i], "i">>)}}
    \cup {reading(<<before(s, k), after(s, k)>>, 10, 0) : k \in {k \in 1..Len(s) :
             s[k] \in {"e", "E"} /\ signedNumber(before(s, k)) /\ signedInteger(after(s, k))}}

(* "An error rather than a zero value for anything it cannot read": that   *)
(* includes the units nano and micro.                                      *)
shownAs(s) == {q \in denotes(s) : q.base = 10 => q.power \notin {-9, -6}}

(* The API server writes numbers a float64 holds, and never an exponent    *)
(* and a unit together.                                                    *)
characters == numeric \cup signs
                  \cup {"n", "u", "m", "k", "K", "M", "G", "T", "P", "E", "i", "e"}

scaledTwice(s) == /\ s # <<>> /\ s[Len(s)] \notin numeric
                  /\ \E k \in 1..(Len(s) - 1) : s[k] \in {"e", "E"} /\ s[k + 1] \in digits \cup signs

ASSUME QuantityAssumption ==
    \A t \in 0..Horizon : \A res \in {nodeObj[t].capacity, nodeObj[t].allocatable} :
        \A r \in DOMAIN res : res[r] \in Seq(characters) /\ ~scaledTwice(res[r])

shows(series, family) == {<<x.labels, x.value>> : x \in {x \in series : x.family = family}}

bit(b) == IF b THEN 1 ELSE 0

(* Each resource has the value its quantity denotes, or no series.         *)
quantitiesAreReported(n, series) ==
    /\ shows(series, "kube_node_status_capacity")
          = UNION {{<<<<r>>, v>> : v \in shownAs(n.capacity[r])} : r \in DOMAIN n.capacity}
    /\ shows(series, "kube_node_status_allocatable")
          = UNION {{<<<<r>>, v>> : v \in shownAs(n.allocatable[r])} : r \in DOMAIN n.allocatable}

(* A condition has its three states and a pod its five phases, each of     *)
(* which reads 1 if it is the one reported and 0 otherwise.                *)
isState(state, status) == CASE state = "true" -> status = "True"
                            [] state = "false" -> status = "False"
                            [] state = "unknown" -> status \notin {"True", "False"}

statesAreReported(n, pods, series) ==
    /\ shows(series, "kube_node_status_condition")
          = {<<<<c, st>>, bit(isState(st, n.conditions[c]))>> :
                c \in DOMAIN n.conditions, st \in {"true", "false", "unknown"}}
    /\ shows(series, "kube_pod_status_phase")
          = {<<<<p, ph>>, bit(pods[p].phase = ph)>> :
                p \in DOMAIN pods, ph \in {"Pending", "Running", "Succeeded", "Failed", "Unknown"}}

containersAreReported(pods, series) ==
    /\ shows(series, "kube_pod_container_status_ready")
          = UNION {{<<<<p, c>>, bit(pods[p].containers[c].ready)>> :
                       c \in DOMAIN pods[p].containers} : p \in DOMAIN pods}
    /\ shows(series, "kube_pod_container_status_restarts_total")
          = UNION {{<<<<p, c>>, pods[p].containers[c].restarts>> :
                       c \in DOMAIN pods[p].containers} : p \in DOMAIN pods}

(* Every answer says what the API server reported of the node and its      *)
(* pods, all of it and nothing else: "a quantity that silently becomes 0   *)
(* turns into a metric asserting the node has no capacity", and "a rule    *)
(* matching phase="Failed" needs the series to exist and read 0, not to be *)
(* absent".                                                                *)
RenderedAsReported ==
    \A s \in Scrapers : \A sn \in answer[s].snap :
        LET n == nodeObj[sn.node]
            pods == podObjs[sn.pods]
            series == Collect(answer[s])
        IN quantitiesAreReported(n, series) /\ statesAreReported(n, pods, series)
              /\ containersAreReported(pods, series)
=============================================================================
