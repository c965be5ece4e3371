-------------------------- MODULE KsmCache_proofs ---------------------------
(***************************************************************************)
(* Proofs about KsmCache, for any number of scrapers, any TTL and any      *)
(* request timeout: no request while a fresh snapshot is there, the        *)
(* refinement of FreshAnswers, and that a rendered answer says what the    *)
(* API server reported.                                                    *)
(***************************************************************************)
EXTENDS KsmCache, SequenceTheorems, FiniteSetTheorems, TLAPS

(***************************************************************************)
(* The inductive invariant.                                                *)
(***************************************************************************)
Times == 0..Horizon

Snapshots == [node : Times, pods : Times]

KsmTypes == /\ now \in Times /\ reqAt \in Times /\ nodeRead \in Times /\ lastFetch \in Times
            /\ pc \in [Scrapers -> {"idle", "waiting", "node", "pods"}]
            /\ cached \in SUBSET Snapshots
            /\ answer \in [Scrapers -> [ok : BOOLEAN, snap : SUBSET Snapshots]]

(* The mutex has no holder or one, and its holder is the scrape with a     *)
(* request under way.                                                      *)
OneRequest == /\ lock = {} \/ \E s \in Scrapers : lock = {s}
              /\ \A s \in Scrapers : pc[s] \in {"node", "pods"} <=> lock = {s}

(* A request under way was sent at most RequestTimeout ago and, like the   *)
(* read of its node, a TTL after the cache was filled; the pods are        *)
(* requested when the reply about the node has arrived.                    *)
RequestIsYoung ==
    /\ lock # {} => /\ reqAt <= now /\ now <= reqAt + RequestTimeout
                    /\ cached # {} => lastFetch + TTL <= reqAt
    /\ \A s \in Scrapers : pc[s] = "pods" =>
          /\ nodeRead <= reqAt /\ reqAt <= nodeRead + RequestTimeout
          /\ cached # {} => lastFetch + TTL <= nodeRead

(* The snapshot in the cache is one pass over the API server, the last     *)
(* reply of which arrived at lastFetch.                                    *)
onePass(sn) == sn.node <= sn.pods /\ sn.pods <= sn.node + 2 * RequestTimeout

CacheIsOnePass ==
    /\ lastFetch <= now
    /\ cached = {} \/ \E sn \in Snapshots : cached = {sn}
    /\ \A sn \in cached : onePass(sn) /\ sn.pods <= lastFetch /\ lastFetch <= sn.pods + RequestTimeout

(* Whoever has an answer has the cached one or one read a TTL before it.   *)
NoneIsAhead == \A s \in Scrapers : \A old \in answer[s].snap :
                  /\ cached # {} /\ old.pods <= lastFetch
                  /\ \A sn \in cached : old = sn \/ old.pods + TTL <= sn.node

(* An answer is an error without series, or one snapshot.                  *)
answered(sn) == [ok |-> TRUE, snap |-> {sn}]

AnswerIsWhole == \A s \in Scrapers : \/ answer[s] = noAnswer
                                     \/ \E sn \in Snapshots : answer[s] = answered(sn)

KsmInv == KsmTypes /\ OneRequest /\ RequestIsYoung /\ CacheIsOnePass /\ NoneIsAhead /\ AnswerIsWhole
-----------------------------------------------------------------------------
(* The clock starts with an empty cache, a free mutex and nobody waiting.  *)
LEMMA KsmInvInit == Init => KsmInv
<1> SUFFICES ASSUME Init PROVE KsmInv
    OBVIOUS
<1> USE KsmAssumption DEF Init
<1>1. KsmTypes
    BY DEF KsmTypes, Times, Snapshots, noAnswer
<1>2. OneRequest /\ RequestIsYoung /\ CacheIsOnePass /\ NoneIsAhead
    BY DEF OneRequest, RequestIsYoung, CacheIsOnePass, NoneIsAhead, noAnswer
<1>3. AnswerIsWhole
    BY DEF AnswerIsWhole
<1> QED
    BY <1>1, <1>2, <1>3 DEF KsmInv

(* Every step preserves the types.                                         *)
LEMMA TypesStep == KsmInv /\ [Next]_vars => KsmTypes'
<1> SUFFICES ASSUME KsmInv, [Next]_vars PROVE KsmTypes'
    OBVIOUS
<1> USE KsmAssumption DEF KsmInv, KsmTypes, Times, Snapshots
<1>1. CASE Tick
    BY <1>1 DEF Tick
<1>2. ASSUME NEW s \in Scrapers, Scrape(s) PROVE KsmTypes'
    BY <1>2 DEF Scrape, noAnswer
<1>3. ASSUME NEW s \in Scrapers, Hit(s) PROVE KsmTypes'
    BY <1>3 DEF Hit, noAnswer
<1>4. ASSUME NEW s \in Scrapers, Miss(s) PROVE KsmTypes'
    BY <1>4 DEF Miss, noAnswer
<1>5. ASSUME NEW s \in Scrapers, NodeReply(s) PROVE KsmTypes'
    BY <1>5 DEF NodeReply, noAnswer
<1>6. ASSUME NEW s \in Scrapers, PodsReply(s) PROVE KsmTypes'
    BY <1>6 DEF PodsReply, noAnswer
<1>7. ASSUME NEW s \in Scrapers, Fail(s) PROVE KsmTypes'
    BY <1>7 DEF Fail, noAnswer
<1>8. CASE UNCHANGED vars
    BY <1>8 DEF vars
<1> QED
    BY <1>1, <1>2, <1>3, <1>4, <1>5, <1>6, <1>7, <1>8 DEF Next, Enter, Requested

(* Only Miss takes the mutex, when nobody holds it, and every way out of   *)
(* the two requests gives it back.                                         *)
LEMMA OneRequestStep == KsmInv /\ [Next]_vars => OneRequest'
<1> SUFFICES ASSUME KsmInv, [Next]_vars PROVE OneRequest'
    OBVIOUS
<1> USE KsmAssumption DEF KsmInv, KsmTypes, OneRequest
<1>1. CASE Tick
    BY <1>1 DEF Tick
<1>2. ASSUME NEW s \in Scrapers, Scrape(s) PROVE OneRequest'
    BY <1>2 DEF Scrape, noAnswer
<1>3. ASSUME NEW s \in Scrapers, Hit(s) PROVE OneRequest'
    BY <1>3 DEF Hit, noAnswer
<1>4. ASSUME NEW s \in Scrapers, Miss(s) PROVE OneRequest'
    BY <1>4 DEF Miss, noAnswer
<1>5. ASSUME NEW s \in Scrapers, NodeReply(s) PROVE OneRequest'
    BY <1>5 DEF NodeReply, noAnswer
<1>6. ASSUME NEW s \in Scrapers, PodsReply(s) PROVE OneRequest'
    BY <1>6 DEF PodsReply, noAnswer
<1>7. ASSUME NEW s \in Scrapers, Fail(s) PROVE OneRequest'
    BY <1>7 DEF Fail, noAnswer
<1>8. CASE UNCHANGED vars
    BY <1>8 DEF vars
<1> QED
    BY <1>1, <1>2, <1>3, <1>4, <1>5, <1>6, <1>7, <1>8 DEF Next, Enter, Requested

(* A request under way stays younger than its timeout, and nothing makes   *)
(* the cache fresh behind its back.                                        *)
LEMMA YoungStep == KsmInv /\ [Next]_vars => RequestIsYoung'
<1> SUFFICES ASSUME KsmInv, [Next]_vars PROVE RequestIsYoung'
    OBVIOUS
<1> USE KsmAssumption DEF KsmInv, KsmTypes, Times, OneRequest, RequestIsYoung, CacheIsOnePass, fresh
<1>1. CASE Tick
    BY <1>1 DEF Tick
<1>2. ASSUME NEW s \in Scrapers, Scrape(s) PROVE RequestIsYoung'
    BY <1>2 DEF Scrape, noAnswer
<1>3. ASSUME NEW s \in Scrapers, Hit(s) PROVE RequestIsYoung'
    BY <1>3 DEF Hit, noAnswer
<1>4. ASSUME NEW s \in Scrapers, Miss(s) PROVE RequestIsYoung'
    BY <1>4 DEF Miss, noAnswer
<1>5. ASSUME NEW s \in Scrapers, NodeReply(s) PROVE RequestIsYoung'
    BY <1>5 DEF NodeReply, noAnswer
<1>6. ASSUME NEW s \in Scrapers, PodsReply(s) PROVE RequestIsYoung'
    BY <1>6 DEF PodsReply, noAnswer
<1>7. ASSUME NEW s \in Scrapers, Fail(s) PROVE RequestIsYoung'
    BY <1>7 DEF Fail, noAnswer
<1>8. CASE UNCHANGED vars
    BY <1>8 DEF vars
<1> QED
    BY <1>1, <1>2, <1>3, <1>4, <1>5, <1>6, <1>7, <1>8 DEF Next, Enter, Requested

(* The revision of the pods is one since their request was sent.           *)
LEMMA PassIsSnapshot ==
    ASSUME KsmInv, NEW s \in Scrapers, PodsReply(s)
    PROVE  \E sn \in Snapshots : cached' = {sn} /\ sn.node = nodeRead /\ sn.pods \in reqAt..now
<1>1. PICK t \in reqAt..now : cached' = {[node |-> nodeRead, pods |-> t]}
    BY DEF PodsReply
<1> DEFINE sn == [node |-> nodeRead, pods |-> t]
<1>2. sn \in Snapshots /\ sn.node = nodeRead /\ sn.pods = t
    BY KsmAssumption DEF KsmInv, KsmTypes, Times, Snapshots
<1> HIDE DEF sn
<1> QED
    BY <1>1, <1>2 DEF sn

(* A snapshot is stored whole, at the end of its pass.                     *)
LEMMA CacheStep == KsmInv /\ [Next]_vars => CacheIsOnePass'
<1> SUFFICES ASSUME KsmInv, [Next]_vars PROVE CacheIsOnePass'
    OBVIOUS
<1> USE KsmAssumption DEF KsmInv, KsmTypes, Times, Snapshots, OneRequest, RequestIsYoung, CacheIsOnePass, onePass
<1>1. CASE Tick
    BY <1>1 DEF Tick
<1>2. ASSUME NEW s \in Scrapers, Scrape(s) PROVE CacheIsOnePass'
    BY <1>2 DEF Scrape, noAnswer
<1>3. ASSUME NEW s \in Scrapers, Hit(s) PROVE CacheIsOnePass'
    BY <1>3 DEF Hit, noAnswer
<1>4. ASSUME NEW s \in Scrapers, Miss(s) PROVE CacheIsOnePass'
    BY <1>4 DEF Miss, noAnswer
<1>5. ASSUME NEW s \in Scrapers, NodeReply(s) PROVE CacheIsOnePass'
    BY <1>5 DEF NodeReply, noAnswer
<1>6. ASSUME NEW s \in Scrapers, PodsReply(s) PROVE CacheIsOnePass'
    <2>1. PICK sn \in Snapshots : cached' = {sn} /\ sn.node = nodeRead /\ sn.pods \in reqAt..now
        BY <1>6, PassIsSnapshot
    <2>2. /\ nodeRead <= reqAt /\ reqAt <= nodeRead + RequestTimeout
          /\ reqAt <= now /\ now <= reqAt + RequestTimeout
        BY <1>6 DEF PodsReply
    <2>3. lastFetch' = now /\ now' = now
        BY <1>6 DEF PodsReply
    <2>4. sn.pods \in Int /\ onePass(sn) /\ sn.pods <= now /\ now <= sn.pods + RequestTimeout
        BY <2>1, <2>2
    <2> HIDE DEF Snapshots
    <2> QED
        BY <2>1, <2>3, <2>4
<1>7. ASSUME NEW s \in Scrapers, Fail(s) PROVE CacheIsOnePass'
    BY <1>7 DEF Fail, noAnswer
<1>8. CASE UNCHANGED vars
    BY <1>8 DEF vars
<1> QED
    BY <1>1, <1>2, <1>3, <1>4, <1>5, <1>6, <1>7, <1>8 DEF Next, Enter, Requested

(* What is answered comes from the cache as it is or as it becomes.        *)
LEMMA AheadStep == KsmInv /\ [Next]_vars => NoneIsAhead'
<1> SUFFICES ASSUME KsmInv, [Next]_vars PROVE NoneIsAhead'
    OBVIOUS
<1> USE KsmAssumption DEF KsmInv, KsmTypes, Times, Snapshots, CacheIsOnePass, NoneIsAhead
<1>1. CASE Tick
    BY <1>1 DEF Tick
<1>2. ASSUME NEW s \in Scrapers, Scrape(s) PROVE NoneIsAhead'
    BY <1>2 DEF Scrape, noAnswer
<1>3. ASSUME NEW s \in Scrapers, Hit(s) PROVE NoneIsAhead'
    BY <1>3 DEF Hit, noAnswer
<1>4. ASSUME NEW s \in Scrapers, Miss(s) PROVE NoneIsAhead'
    BY <1>4 DEF Miss, noAnswer
<1>5. ASSUME NEW s \in Scrapers, NodeReply(s) PROVE NoneIsAhead'
    BY <1>5 DEF NodeReply, noAnswer
<1>6. ASSUME NEW s \in Scrapers, PodsReply(s) PROVE NoneIsAhead'
    <2>1. PICK sn \in Snapshots : cached' = {sn} /\ sn.node = nodeRead /\ sn.pods \in reqAt..now
        BY <1>6, PassIsSnapshot
    <2>2. /\ lastFetch' = now /\ answer' = [answer EXCEPT ![s] = [ok |-> TRUE, snap |-> cached']]
          /\ lastFetch <= now /\ (cached # {} => lastFetch + TTL <= nodeRead)
        BY <1>6 DEF PodsReply, RequestIsYoung
    <2>3. ASSUME NEW p \in Scrapers, NEW old \in answer'[p].snap
          PROVE  old.pods <= lastFetch' /\ (old = sn \/ old.pods + TTL <= sn.node)
        <3>1. CASE p = s
            <4>1. old = sn
                BY <2>1, <2>2, <2>3, <3>1
            <4> QED
                BY <2>1, <2>2, <4>1
        <3>2. CASE p # s
            <4>1. old \in answer[p].snap
                BY <2>2, <2>3, <3>2
            <4>2. old.pods \in Int /\ old.pods <= lastFetch /\ cached # {}
                BY <4>1
            <4> QED
                BY <2>1, <2>2, <4>2
        <3> QED
            BY <3>1, <3>2
    <2> QED
        BY <2>1, <2>3
<1>7. ASSUME NEW s \in Scrapers, Fail(s) PROVE NoneIsAhead'
    BY <1>7 DEF Fail, noAnswer
<1>8. CASE UNCHANGED vars
    BY <1>8 DEF vars
<1> QED
    BY <1>1, <1>2, <1>3, <1>4, <1>5, <1>6, <1>7, <1>8 DEF Next, Enter, Requested

(* A scrape is answered with a whole snapshot or not at all.               *)
LEMMA WholeStep == KsmInv /\ [Next]_vars => AnswerIsWhole'
<1> SUFFICES ASSUME KsmInv, [Next]_vars PROVE AnswerIsWhole'
    OBVIOUS
<1> USE KsmAssumption DEF KsmInv, KsmTypes, Times, Snapshots, CacheIsOnePass, fresh, answered, AnswerIsWhole
<1>1. CASE Tick
    BY <1>1 DEF Tick
<1>2. ASSUME NEW s \in Scrapers, Scrape(s) PROVE AnswerIsWhole'
    BY <1>2 DEF Scrape, noAnswer
<1>3. ASSUME NEW s \in Scrapers, Hit(s) PROVE AnswerIsWhole'
    BY <1>3 DEF Hit, noAnswer
<1>4. ASSUME NEW s \in Scrapers, Miss(s) PROVE AnswerIsWhole'
    BY <1>4 DEF Miss, noAnswer
<1>5. ASSUME NEW s \in Scrapers, NodeReply(s) PROVE AnswerIsWhole'
    BY <1>5 DEF NodeReply, noAnswer
<1>6. ASSUME NEW s \in Scrapers, PodsReply(s) PROVE AnswerIsWhole'
    <2>1. PICK sn \in Snapshots : cached' = {sn} /\ sn.node = nodeRead /\ sn.pods \in reqAt..now
        BY <1>6, PassIsSnapshot
    <2>2. answer' = [answer EXCEPT ![s] = [ok |-> TRUE, snap |-> {sn}]]
        BY <1>6, <2>1 DEF PodsReply
    <2> QED
        BY <2>1, <2>2
<1>7. ASSUME NEW s \in Scrapers, Fail(s) PROVE AnswerIsWhole'
    BY <1>7 DEF Fail, noAnswer
<1>8. CASE UNCHANGED vars
    BY <1>8 DEF vars
<1> QED
    BY <1>1, <1>2, <1>3, <1>4, <1>5, <1>6, <1>7, <1>8 DEF Next, Enter, Requested

(* KsmInv is an invariant.                                                 *)
THEOREM KsmInvHolds == Spec => []KsmInv
<1>1. KsmInv /\ [Next]_vars => KsmInv'
    BY TypesStep, OneRequestStep, YoungStep, CacheStep, AheadStep, WholeStep DEF KsmInv
<1> QED
    BY KsmInvInit, <1>1, PTL DEF Spec

(* However many scrapes arrive when the cache runs out, none of them has a *)
(* request under way while load() would find a fresh snapshot.             *)
THEOREM NeverRequestsWhileFresh == Spec => []NoRequestWhileFresh
<1>1. ASSUME KsmInv, NEW s \in Scrapers, pc[s] \in {"node", "pods"} PROVE ~fresh
    <2>1. lock = {s}
        BY <1>1 DEF KsmInv, OneRequest
    <2>2. reqAt <= now /\ (cached # {} => lastFetch + TTL <= reqAt)
        BY <1>1, <2>1 DEF KsmInv, RequestIsYoung
    <2> QED
        BY <1>1, <2>2, KsmAssumption DEF KsmInv, KsmTypes, Times, fresh
<1>2. KsmInv => NoRequestWhileFresh
    BY <1>1 DEF NoRequestWhileFresh
<1> QED
    BY <1>2, KsmInvHolds, PTL
-----------------------------------------------------------------------------
(***************************************************************************)
(* The refinement: what a scraper sees of the cache, the mutex and the     *)
(* requests is a behaviour of FreshAnswers.                                *)
(***************************************************************************)
(* A snapshot that is fresh in the cache may be answered.                  *)
LEMMA HitIsPromised ==
    ASSUME KsmInv, fresh
    PROVE  \E sn \in Promise!Snapshots : cached = {sn} /\ Promise!promised(sn)
<1>1. PICK sn \in Snapshots : cached = {sn}
    BY DEF KsmInv, CacheIsOnePass, fresh
<1>2. /\ onePass(sn) /\ sn.pods <= lastFetch /\ lastFetch <= sn.pods + RequestTimeout
      /\ lastFetch <= now /\ now < lastFetch + TTL
    BY <1>1, KsmAssumption DEF KsmInv, KsmTypes, Times, CacheIsOnePass, fresh
<1>3. sn.pods <= now /\ now < sn.pods + RequestTimeout + TTL
    BY <1>2, KsmAssumption DEF KsmInv, KsmTypes, Times, Snapshots
<1>5. \A s \in Scrapers : \A old \in answer[s].snap : old = sn \/ old.pods + TTL <= sn.node
    BY <1>1 DEF KsmInv, NoneIsAhead
<1>4. sn \in Promise!Snapshots
    BY DEF Snapshots, Times, Promise!Snapshots
<1> QED
    BY <1>1, <1>2, <1>3, <1>4, <1>5 DEF Promise!promised, onePass

(* The snapshot a pass has just ended with may be answered.                *)
LEMMA PassIsPromised ==
    ASSUME KsmInv, NEW s \in Scrapers, pc[s] = "pods", NEW t \in reqAt..now
    PROVE  LET sn == [node |-> nodeRead, pods |-> t]
           IN  sn \in Promise!Snapshots /\ Promise!promised(sn)
<1> DEFINE sn == [node |-> nodeRead, pods |-> t]
<1> USE KsmAssumption DEF KsmInv, KsmTypes, Times
<1>1. sn \in Promise!Snapshots /\ sn.node = nodeRead /\ sn.pods = t
    BY DEF Promise!Snapshots
<1>2. /\ nodeRead <= reqAt /\ reqAt <= nodeRead + RequestTimeout
      /\ now <= reqAt + RequestTimeout /\ (cached # {} => lastFetch + TTL <= nodeRead)
    BY DEF OneRequest, RequestIsYoung
<1>3. /\ nodeRead <= t /\ t <= nodeRead + 2 * RequestTimeout
      /\ t <= now /\ now < t + RequestTimeout + TTL
    BY <1>2
<1>4. \A p \in Scrapers : \A old \in answer[p].snap : old.pods + TTL <= nodeRead
    BY <1>2 DEF Snapshots, NoneIsAhead
<1> QED
    BY <1>1, <1>3, <1>4 DEF Promise!promised

(* Every step is a tick, an answer that FreshAnswers allows, or invisible. *)
LEMMA StepIsPromised == KsmInv /\ [Next]_vars => [Promise!Next]_<<now, answer>>
<1> SUFFICES ASSUME KsmInv, [Next]_vars PROVE [Promise!Next]_<<now, answer>>
    OBVIOUS
<1>1. CASE Tick
    BY <1>1 DEF Tick, Promise!Next, Promise!Tick
<1>2. ASSUME NEW s \in Scrapers, Scrape(s) \/ Miss(s) \/ NodeReply(s)
      PROVE  UNCHANGED <<now, answer>>
    BY <1>2 DEF Scrape, Miss, NodeReply
<1>3. ASSUME NEW s \in Scrapers, Hit(s) PROVE Promise!Reply(s)
    <2>1. fresh /\ now' = now /\ answer' = [answer EXCEPT ![s] = [ok |-> TRUE, snap |-> cached]]
        BY <1>3 DEF Hit
    <2> QED
        BY <2>1, HitIsPromised DEF Promise!Reply
<1>4. ASSUME NEW s \in Scrapers, PodsReply(s) PROVE Promise!Reply(s)
    <2>0. PICK t \in reqAt..now : cached' = {[node |-> nodeRead, pods |-> t]}
        BY <1>4 DEF PodsReply
    <2> DEFINE sn == [node |-> nodeRead, pods |-> t]
    <2>1. /\ pc[s] = "pods" /\ now' = now
          /\ answer' = [answer EXCEPT ![s] = [ok |-> TRUE, snap |-> {sn}]]
        BY <1>4, <2>0 DEF PodsReply
    <2>2. sn \in Promise!Snapshots /\ Promise!promised(sn)
        BY <2>1, PassIsPromised
    <2> HIDE DEF sn
    <2> QED
        BY <2>1, <2>2 DEF Promise!Reply
<1>5. ASSUME NEW s \in Scrapers, Fail(s) PROVE Promise!Reply(s)
    BY <1>5 DEF Fail, noAnswer, Promise!Reply, Promise!noAnswer
<1>6. CASE UNCHANGED vars
    BY <1>6 DEF vars
<1> QED
    BY <1>1, <1>2, <1>3, <1>4, <1>5, <1>6 DEF Next, Enter, Requested, Promise!Next

(* load(), its mutex and its two requests implement FreshAnswers: every    *)
(* answer is an error or one recent pass over the API server, and nobody   *)
(* is shown an older cluster than somebody was before.                     *)
THEOREM ImplementsFreshAnswers == Spec => AnswersAreFresh
<1>1. Init => Promise!Init
    BY DEF Init, noAnswer, Promise!Init, Promise!noAnswer
<1> QED
    BY <1>1, KsmInvHolds, StepIsPromised, PTL DEF Spec, AnswersAreFresh, Promise!Spec
-----------------------------------------------------------------------------
(***************************************************************************)
(* Quantities: parseQuantity finds the unit by looking at the last one or  *)
(* two characters, denotes asks for any split into a number and a unit.    *)
(***************************************************************************)
LEMMA CutProperties ==
    ASSUME NEW s \in Seq(characters), NEW n \in 0..Len(s)
    PROVE  /\ Len(front(s, n)) = Len(s) - n
           /\ \A i \in 1..(Len(s) - n) : front(s, n)[i] = s[i]
           /\ Len(last(s, n)) = n
           /\ \A i \in 1..n : last(s, n)[i] = s[Len(s) - n + i]
<1>1. Len(s) \in Nat /\ \A i \in 1..Len(s) : s[i] \in characters
    BY LenProperties, ElementOfSeq
<1>2. \A i \in 1..(Len(s) - n) : s[i] \in characters
    BY <1>1
<1>3. \A i \in (Len(s) - n + 1)..Len(s) : s[i] \in characters
    BY <1>1
<1>4. /\ Len(front(s, n)) = Len(s) - n
      /\ \A i \in 1..(Len(s) - n) : front(s, n)[i] = s[i]
    <2>1. /\ Len(front(s, n)) = IF 1 <= Len(s) - n THEN (Len(s) - n) - 1 + 1 ELSE 0
          /\ \A i \in 1..((Len(s) - n) - 1 + 1) : front(s, n)[i] = s[1 + i - 1]
        BY <1>1, <1>2, SubSeqProperties DEF front
    <2> QED
        BY <2>1, <1>1
<1>5. /\ Len(last(s, n)) = n
      /\ \A i \in 1..n : last(s, n)[i] = s[Len(s) - n + i]
    <2> DEFINE m == Len(s) - n + 1
    <2>1. m \in Int /\ Len(s) \in Int
        BY <1>1
    <2>2. /\ Len(SubSeq(s, m, Len(s))) = IF m <= Len(s) THEN Len(s) - m + 1 ELSE 0
          /\ \A i \in 1..(Len(s) - m + 1) : SubSeq(s, m, Len(s))[i] = s[m + i - 1]
        BY <2>1, <1>3, SubSeqProperties
    <2> QED
        BY <2>2, <1>1 DEF last
<1> QED
    BY <1>4, <1>5

LEMMA CutsAtExponent ==
    ASSUME NEW s \in Seq(characters), NEW k \in 1..Len(s)
    PROVE  /\ before(s, k) = front(s, Len(s) - k + 1) /\ after(s, k) = last(s, Len(s) - k)
           /\ before(s, k) \in Seq(characters) /\ after(s, k) \in Seq(characters)
           /\ Len(after(s, k)) = Len(s) - k
           /\ \A i \in 1..(Len(s) - k) : after(s, k)[i] = s[k + i]
<1>1. Len(s) \in Nat /\ k \in Nat /\ \A i \in 1..Len(s) : s[i] \in characters
    BY LenProperties, ElementOfSeq
<1>2. before(s, k) = front(s, Len(s) - k + 1) /\ after(s, k) = last(s, Len(s) - k)
    BY <1>1 DEF before, front, after, last
<1>3. before(s, k) \in Seq(characters) /\ after(s, k) \in Seq(characters)
    <2>1. \A i \in 1..(k - 1) : s[i] \in characters
        BY <1>1
    <2>2. \A i \in (k + 1)..Len(s) : s[i] \in characters
        BY <1>1
    <2>3. k - 1 \in Int /\ k + 1 \in Int /\ Len(s) \in Int
        BY <1>1
    <2> QED
        BY <2>1, <2>2, <2>3, SubSeqProperties DEF before, after
<1>4. Len(s) - k \in 0..Len(s)
    BY <1>1
<1>5. /\ Len(after(s, k)) = Len(s) - k
      /\ \A i \in 1..(Len(s) - k) : after(s, k)[i] = s[Len(s) - (Len(s) - k) + i]
    BY <1>2, <1>4, CutProperties
<1> QED
    BY <1>1, <1>2, <1>3, <1>5

(* The two grammars of a number describe the same strings.                 *)
LEMMA NumbersAgree ==
    ASSUME NEW s \in Seq(characters)
    PROVE  /\ isNumber(s) <=> signedNumber(s)
           /\ isExponent(s) <=> signedInteger(s)
           /\ isNumber(s) \/ isExponent(s) => Len(s) > 0 /\ s[Len(s)] \in numeric
<1> DEFINE m == afterSign(s)
           n == Len(s)
<1>1. n \in Nat
    BY LenProperties
<1>2. m \in {1, 2} /\ (m = 2 <=> (n > 0 /\ s[1] \in signs))
    BY <1>1, EmptySeq DEF afterSign
<1>3. \A c : c \in signs => c \notin numeric
    BY DEF signs, numeric, digits
<1>4. digits \subseteq numeric /\ "." \notin digits /\ numeric = digits \cup {"."}
    BY DEF numeric, digits
<1>5. isNumber(s) <=> /\ \A i \in m..n : s[i] \in numeric
                      /\ \E i \in m..n : s[i] \in digits
                      /\ \A i, j \in m..n : s[i] = "." /\ s[j] = "." => i = j
    BY DEF isNumber
<1>6. isExponent(s) <=> m <= n /\ \A i \in m..n : s[i] \in digits
    BY DEF isExponent
<1>7. signedNumber(s) <=> \E a \in 0..1, b \in 0..n :
        /\ a <= b
        /\ a = 1 => s[1] \in signs
        /\ \A i \in (a + 1)..b : s[i] \in digits
        /\ b < n => s[b + 1] = "." /\ \A i \in (b + 2)..n : s[i] \in digits
        /\ \E i \in (a + 1)..n : s[i] \in digits
    BY DEF signedNumber
<1>8. signedInteger(s) <=> signedNumber(s) /\ \A i \in 1..n : s[i] # "."
    BY DEF signedInteger
<1> HIDE DEF m, n
<1>9. ASSUME NEW a \in 0..1, NEW b \in 0..n, a <= b, a = 1 => s[1] \in signs,
             \A i \in (a + 1)..b : s[i] \in digits,
             b < n => s[b + 1] = "." /\ \A i \in (b + 2)..n : s[i] \in digits,
             \E i \in (a + 1)..n : s[i] \in digits
      PROVE  a + 1 = m
    <2>1. n > 0
        BY <1>1, <1>9
    <2>2. CASE a = 1
        BY <1>2, <1>9, <2>1, <2>2
    <2>3. CASE a = 0
        <3>1. s[1] \in numeric
            <4>1. CASE b = 0
                BY <1>1, <1>4, <1>9, <2>1, <4>1
            <4>2. CASE b > 0
                BY <1>1, <1>4, <1>9, <2>3, <4>2
            <4> QED
                BY <4>1, <4>2
        <3> QED
            BY <1>2, <1>3, <2>3, <3>1
    <2> QED
        BY <2>2, <2>3
<1>10. ASSUME signedNumber(s) PROVE isNumber(s)
    <2>1. PICK a \in 0..1, b \in 0..n :
        /\ a <= b
        /\ a = 1 => s[1] \in signs
        /\ \A i \in (a + 1)..b : s[i] \in digits
        /\ b < n => s[b + 1] = "." /\ \A i \in (b + 2)..n : s[i] \in digits
        /\ \E i \in (a + 1)..n : s[i] \in digits
        BY <1>7, <1>10
    <2>2. a + 1 = m
        BY <1>9, <2>1
    <2>3. \A i \in m..n : s[i] \in digits \/ (i = b + 1 /\ s[i] = ".")
        BY <1>1, <2>1, <2>2
    <2>4. \E i \in m..n : s[i] \in digits
        BY <2>1, <2>2
    <2> QED
        BY <1>4, <1>5, <2>3, <2>4
<1>11. ASSUME isNumber(s) PROVE signedNumber(s)
    <2> DEFINE a == m - 1
    <2>1. a \in 0..1 /\ a + 1 = m /\ m <= n /\ (a = 1 => s[1] \in signs)
        BY <1>1, <1>2, <1>5, <1>11
    <2>2. CASE \E k \in m..n : s[k] = "."
        <3>1. PICK k \in m..n : s[k] = "."
            BY <2>2
        <3> DEFINE b == k - 1
        <3>2. b \in 0..n /\ a <= b /\ b + 1 = k
            BY <1>1, <2>1
        <3>3. \A i \in m..n : i # k => s[i] \in digits
            BY <1>4, <1>5, <1>11, <3>1
        <3>4. \A i \in (a + 1)..b : s[i] \in digits
            BY <1>1, <2>1, <3>2, <3>3
        <3>5. \A i \in (b + 2)..n : s[i] \in digits
            BY <1>1, <2>1, <3>2, <3>3
        <3>6. \E i \in (a + 1)..n : s[i] \in digits
            BY <1>5, <1>11, <2>1
        <3> HIDE DEF a, b
        <3> QED
            BY <1>7, <2>1, <3>1, <3>2, <3>4, <3>5, <3>6
    <2>3. CASE ~\E k \in m..n : s[k] = "."
        <3>1. \A i \in (a + 1)..n : s[i] \in digits
            BY <1>4, <1>5, <1>11, <2>1, <2>3
        <3>2. \E i \in (a + 1)..n : s[i] \in digits
            BY <1>5, <1>11, <2>1
        <3>3. n \in 0..n /\ a <= n /\ ~(n < n)
            BY <1>1, <2>1
        <3> HIDE DEF a
        <3> QED
            BY <1>7, <2>1, <3>1, <3>2, <3>3
    <2> QED
        BY <2>2, <2>3
<1>12. isExponent(s) <=> isNumber(s) /\ \A i \in 1..n : s[i] # "."
    <2>1. ASSUME isExponent(s) PROVE isNumber(s) /\ \A i \in 1..n : s[i] # "."
        <3>1. m <= n /\ \A i \in m..n : s[i] \in digits
            BY <1>6, <2>1
        <3>2. \A i \in 1..n : i \in m..n \/ s[i] \in signs
            BY <1>1, <1>2
        <3>3. "." \notin signs
            BY <1>3, <1>4
        <3> QED
            BY <1>1, <1>2, <1>4, <1>5, <3>1, <3>2, <3>3
    <2>2. ASSUME isNumber(s), \A i \in 1..n : s[i] # "." PROVE isExponent(s)
        BY <1>1, <1>2, <1>4, <1>5, <1>6, <2>2
    <2> QED
        BY <2>1, <2>2
<1>13. isNumber(s) => n > 0 /\ s[n] \in numeric
    BY <1>1, <1>2, <1>5
<1> QED
    BY <1>8, <1>10, <1>11, <1>12, <1>13 DEF n

(* What ParseFloat reads is not empty and ends in a digit or a dot.        *)
LEMMA FloatEnd ==
    ASSUME NEW s \in Seq(characters), NEW f \in ParseFloat(s)
    PROVE  Len(s) > 0 /\ s[Len(s)] \in numeric
<1>1. CASE isNumber(s)
    BY <1>1, NumbersAgree
<1>2. CASE \E k \in 1..Len(s) : isExponent(after(s, k))
    <2>1. PICK k \in 1..Len(s) : isExponent(after(s, k))
        BY <1>2
    <2>2. Len(s) \in Nat
        BY LenProperties
    <2>3. Len(s) - k > 0 /\ after(s, k)[Len(s) - k] \in numeric
        BY <2>1, CutsAtExponent, NumbersAgree
    <2>4. after(s, k)[Len(s) - k] = s[k + (Len(s) - k)]
        BY <2>2, <2>3, CutsAtExponent
    <2> QED
        BY <2>2, <2>3, <2>4
<1> QED
    BY <1>1, <1>2 DEF ParseFloat

LEMMA UnitProperties ==
    ASSUME NEW u \in suffixes
    PROVE  Len(u) \in 0..2 /\ \A i \in 1..Len(u) : u[i] \notin numeric
<1>1. u \in {<<>>, <<"m">>, <<"k">>, <<"M">>, <<"G">>, <<"T">>, <<"P">>, <<"E">>, <<"K", "i">>,
             <<"M", "i">>, <<"G", "i">>, <<"T", "i">>, <<"P", "i">>, <<"E", "i">>}
    BY DEF suffixes, multipliers
<1>2. CASE u = <<>>
    BY <1>2
<1>3. CASE u \in {<<"m">>, <<"k">>, <<"M">>, <<"G">>, <<"T">>, <<"P">>, <<"E">>}
    BY <1>3 DEF numeric, digits
<1>4. CASE u \in {<<"K", "i">>, <<"M", "i">>, <<"G", "i">>, <<"T", "i">>, <<"P", "i">>, <<"E", "i">>}
    BY <1>4 DEF numeric, digits
<1> QED
    BY <1>1, <1>2, <1>3, <1>4

(* When the last n characters are a unit behind a number, no other number  *)
(* of characters passes for a unit.                                        *)
LEMMA OneUnit ==
    ASSUME NEW s \in Seq(characters), NEW n \in 0..Len(s), s[Len(s) - n] \in numeric, n < Len(s),
           NEW k \in 1..2, hasSuffix(s, k)
    PROVE  k <= n
<1>1. Len(s) \in Nat
    BY LenProperties
<1>2. k < Len(s) /\ last(s, k) \in suffixes
    BY DEF hasSuffix, last
<1>3. \A i \in 1..k : s[Len(s) - k + i] \notin numeric
    <2>1. Len(last(s, k)) = k /\ \A i \in 1..k : last(s, k)[i] = s[Len(s) - k + i]
        BY <1>1, <1>2, CutProperties
    <2> QED
        BY <2>1, <1>2, UnitProperties
<1>4. ASSUME k > n PROVE FALSE
    <2>1. k - n \in 1..k /\ Len(s) - k + (k - n) = Len(s) - n
        BY <1>1, <1>4
    <2> QED
        BY <2>1, <1>3
<1> QED
    BY <1>1, <1>4

(* The suffix test of parseQuantity finds the unit of every string that    *)
(* has one behind a number.                                                *)
LEMMA SuffixFindsUnit ==
    ASSUME NEW s \in Seq(characters), NEW u \in suffixes,
           Len(u) < Len(s), last(s, Len(u)) = u, s[Len(s) - Len(u)] \in numeric
    PROVE  suffixLen(s) = Len(u)
<1> DEFINE n == Len(u)
<1>1. n \in 0..2 /\ Len(s) \in Nat /\ n \in 0..Len(s)
    BY UnitProperties, LenProperties
<1>2. hasSuffix(s, n)
    BY DEF hasSuffix
<1>3. hasSuffix(s, 2) => n = 2
    <2>1. hasSuffix(s, 2) => 2 <= n
        BY <1>1, OneUnit
    <2> HIDE DEF n
    <2> QED
        BY <2>1, <1>1
<1>4. hasSuffix(s, 1) => n \in {1, 2}
    <2>1. hasSuffix(s, 1) => 1 <= n
        BY <1>1, OneUnit
    <2> HIDE DEF n
    <2> QED
        BY <2>1, <1>1
<1>8. suffixLen(s) = IF hasSuffix(s, 2) THEN 2 ELSE IF hasSuffix(s, 1) THEN 1 ELSE 0
    BY DEF suffixLen
<1> SUFFICES suffixLen(s) = n
    OBVIOUS
<1> HIDE DEF n
<1>5. CASE n = 0
    BY <1>3, <1>4, <1>5, <1>8
<1>6. CASE n = 1
    BY <1>2, <1>3, <1>6, <1>8
<1>7. CASE n = 2
    BY <1>2, <1>7, <1>8
<1> QED
    BY <1>1, <1>5, <1>6, <1>7

(* What is cut off is a unit whenever a number is left.                    *)
LEMMA SuffixIsUnit ==
    ASSUME NEW s \in Seq(characters), NEW f \in ParseFloat(front(s, suffixLen(s)))
    PROVE  LET n == suffixLen(s) IN
           n < Len(s) /\ last(s, n) \in suffixes /\ Len(last(s, n)) = n
<1> DEFINE n == suffixLen(s)
<1>1. n \in 0..2 /\ Len(s) \in Nat
    BY LenProperties DEF suffixLen
<1>2. n # 0 => n < Len(s) /\ last(s, n) \in suffixes
    BY DEF suffixLen, hasSuffix
<1>3. n = 0 => n < Len(s) /\ last(s, n) \in suffixes
    <2> SUFFICES ASSUME n = 0 PROVE 0 < Len(s) /\ last(s, 0) \in suffixes
        OBVIOUS
    <2>1. front(s, 0) = s
        BY <1>1, SubSeqFull DEF front
    <2>2. last(s, 0) = <<>>
        BY <1>1, SubSeqEmpty DEF last
    <2>3. <<>> \in suffixes
        <3>1. <<<<>>, 10, 0>>[1] = <<>> /\ <<<<>>, 10, 0>> \in multipliers
            BY DEF multipliers
        <3> QED
            BY <3>1 DEF suffixes
    <2> QED
        BY <2>1, <2>2, <2>3, FloatEnd
<1>4. n < Len(s) /\ last(s, n) \in suffixes
    BY <1>2, <1>3
<1>5. Len(last(s, n)) = n
    BY <1>1, <1>4, CutProperties
<1> QED
    BY <1>4, <1>5

(* The units that are read are the ones multipliers lists.                 *)
decimal(i) == <<<<decimalUnits[i]>>, 10, 3 * (i - 4)>>
binary(i) == <<<<binaryUnits[i], "i">>, 2, 10 * i>>

LEMMA Units ==
    /\ \A x \in multipliers : \/ x = <<<<>>, 10, 0>>
                              \/ \E i \in {3, 5, 6, 7, 8, 9, 10} : x = decimal(i)
                              \/ \E i \in 1..6 : x = binary(i)
    /\ <<<<>>, 10, 0>> \in multipliers
    /\ \A i \in {3, 5, 6, 7, 8, 9, 10} : decimal(i) \in multipliers
    /\ \A i \in 1..6 : binary(i) \in multipliers
<1>1. /\ decimal(3) = <<<<"m">>, 10, -3>> /\ decimal(5) = <<<<"k">>, 10, 3>>
      /\ decimal(6) = <<<<"M">>, 10, 6>> /\ decimal(7) = <<<<"G">>, 10, 9>>
      /\ decimal(8) = <<<<"T">>, 10, 12>> /\ decimal(9) = <<<<"P">>, 10, 15>>
      /\ decimal(10) = <<<<"E">>, 10, 18>>
    BY DEF decimal, decimalUnits
<1>2. /\ binary(1) = <<<<"K", "i">>, 2, 10>> /\ binary(2) = <<<<"M", "i">>, 2, 20>>
      /\ binary(3) = <<<<"G", "i">>, 2, 30>> /\ binary(4) = <<<<"T", "i">>, 2, 40>>
      /\ binary(5) = <<<<"P", "i">>, 2, 50>> /\ binary(6) = <<<<"E", "i">>, 2, 60>>
    BY DEF binary, binaryUnits
<1>3. \A i : i \in 1..6 <=> i \in {1, 2, 3, 4, 5, 6}
    OBVIOUS
<1>4. ASSUME NEW x \in multipliers
      PROVE  \/ x = <<<<>>, 10, 0>>
             \/ \E i \in {3, 5, 6, 7, 8, 9, 10} : x = decimal(i)
             \/ \E i \in {1, 2, 3, 4, 5, 6} : x = binary(i)
    BY <1>1, <1>2, Zenon DEF multipliers
<1>5. <<<<>>, 10, 0>> \in multipliers
    BY DEF multipliers
<1>6. ASSUME NEW i \in {3, 5, 6, 7, 8, 9, 10} PROVE decimal(i) \in multipliers
    BY <1>1, <1>6, Zenon DEF multipliers
<1>7. ASSUME NEW i \in {1, 2, 3, 4, 5, 6} PROVE binary(i) \in multipliers
    BY <1>2, <1>7, Zenon DEF multipliers
<1> QED
    BY <1>3, <1>4, <1>5, <1>6, <1>7

LEMMA FloatIs ==
    ASSUME NEW s, NEW f
    PROVE  f \in ParseFloat(s) <=>
              \/ f = <<s, <<>>>> /\ isNumber(s)
              \/ \E k \in 1..Len(s) : /\ s[k] \in {"e", "E"} /\ isNumber(before(s, k))
                                      /\ isExponent(after(s, k))
                                      /\ f = <<before(s, k), after(s, k)>>
<1>1. f \in {g \in {<<s, <<>>>>} : isNumber(s)} <=> f = <<s, <<>>>> /\ isNumber(s)
    OBVIOUS
<1>2. f \in {<<before(s, k), after(s, k)>> : k \in {k \in 1..Len(s) :
                 s[k] \in {"e", "E"} /\ isNumber(before(s, k)) /\ isExponent(after(s, k))}}
      <=> \E k \in 1..Len(s) : /\ s[k] \in {"e", "E"} /\ isNumber(before(s, k))
                               /\ isExponent(after(s, k))
                               /\ f = <<before(s, k), after(s, k)>>
    BY Zenon
<1> QED
    BY <1>1, <1>2, Zenon DEF ParseFloat

LEMMA QuantityIs ==
    ASSUME NEW s, NEW q
    PROVE  q \in parseQuantity(s) <=>
              \E x \in multipliers : /\ x[1] = last(s, suffixLen(s))
                                     /\ \E f \in ParseFloat(front(s, suffixLen(s))) : q = reading(f, x[2], x[3])
<1> DEFINE n == suffixLen(s)
           read(x) == {reading(f, x[2], x[3]) : f \in ParseFloat(front(s, n))}
           units == {x \in multipliers : x[1] = last(s, n)}
<1>1. \A x : q \in read(x) <=> \E f \in ParseFloat(front(s, n)) : q = reading(f, x[2], x[3])
    BY Zenon
<1>2. \A x : x \in units <=> x \in multipliers /\ x[1] = last(s, n)
    BY Zenon
<1>3. parseQuantity(s) = UNION {read(x) : x \in units}
    BY Zenon DEF parseQuantity
<1> HIDE DEF read, units
<1>4. q \in parseQuantity(s) <=> \E x \in units : q \in read(x)
    BY <1>3, Zenon
<1> QED
    BY <1>1, <1>2, <1>4, Zenon

LEMMA DenotesIs ==
    ASSUME NEW s, NEW q
    PROVE  q \in denotes(s) <=>
              \/ q = reading(<<s, <<>>>>, 10, 0) /\ signedNumber(s)
              \/ \E i \in (1..10) \ {4} : /\ endsIn(s, <<decimalUnits[i]>>)
                                          /\ q = reading(<<front(s, 1), <<>>>>, 10, 3 * (i - 4))
              \/ \E i \in 1..6 : /\ endsIn(s, <<binaryUnits[i], "i">>)
                                 /\ q = reading(<<front(s, 2), <<>>>>, 2, 10 * i)
              \/ \E k \in 1..Len(s) : /\ s[k] \in {"e", "E"} /\ signedNumber(before(s, k))
                                      /\ signedInteger(after(s, k))
                                      /\ q = reading(<<before(s, k), after(s, k)>>, 10, 0)
<1>1. q \in {p \in {reading(<<s, <<>>>>, 10, 0)} : signedNumber(s)}
      <=> q = reading(<<s, <<>>>>, 10, 0) /\ signedNumber(s)
    BY Zenon
<1>2. q \in {reading(<<front(s, 1), <<>>>>, 10, 3 * (i - 4)) :
                i \in {i \in (1..10) \ {4} : endsIn(s, <<decimalUnits[i]>>)}}
      <=> \E i \in (1..10) \ {4} : /\ endsIn(s, <<decimalUnits[i]>>)
                                   /\ q = reading(<<front(s, 1), <<>>>>, 10, 3 * (i - 4))
    BY Zenon
<1>3. q \in {reading(<<front(s, 2), <<>>>>, 2, 10 * i) :
                i \in {i \in 1..6 : endsIn(s, <<binaryUnits[i], "i">>)}}
      <=> \E i \in 1..6 : /\ endsIn(s, <<binaryUnits[i], "i">>)
                          /\ q = reading(<<front(s, 2), <<>>>>, 2, 10 * i)
    BY Zenon
<1>4. q \in {reading(<<before(s, k), after(s, k)>>, 10, 0) : k \in {k \in 1..Len(s) :
                s[k] \in {"e", "E"} /\ signedNumber(before(s, k)) /\ signedInteger(after(s, k))}}
      <=> \E k \in 1..Len(s) : /\ s[k] \in {"e", "E"} /\ signedNumber(before(s, k))
                               /\ signedInteger(after(s, k))
                               /\ q = reading(<<before(s, k), after(s, k)>>, 10, 0)
    BY Zenon
<1> QED
    BY <1>1, <1>2, <1>3, <1>4, Zenon DEF denotes

(* A string that ends in a digit or a dot has no unit.                     *)
LEMMA NoUnit ==
    ASSUME NEW s \in Seq(characters), Len(s) > 0, s[Len(s)] \in numeric
    PROVE  suffixLen(s) = 0 /\ front(s, 0) = s /\ last(s, 0) = <<>>
<1>1. Len(s) \in Nat /\ front(s, 0) = s /\ last(s, 0) = <<>>
    <2>1. Len(s) \in Nat /\ Len(s) - 0 = Len(s)
        BY LenProperties
    <2>2. front(s, 0) = s
        BY <2>1, SubSeqFull DEF front
    <2>3. last(s, 0) = <<>>
        BY <2>1, SubSeqEmpty DEF last
    <2> QED
        BY <2>1, <2>2, <2>3
<1>2. <<>> \in suffixes
    <2>1. <<<<>>, 10, 0>>[1] = <<>>
        OBVIOUS
    <2> QED
        BY <2>1, Units, Zenon DEF suffixes
<1>3. Len(<<>>) = 0
    BY EmptySeq
<1> QED
    BY <1>1, <1>2, <1>3, SuffixFindsUnit

(* What comes before a unit is a number.                                   *)
LEMMA UnitFound ==
    ASSUME NEW s \in Seq(characters), NEW x \in multipliers, endsIn(s, x[1])
    PROVE  /\ suffixLen(s) = Len(x[1]) /\ last(s, Len(x[1])) = x[1]
           /\ <<front(s, Len(x[1])), <<>>>> \in ParseFloat(front(s, Len(x[1])))
<1> DEFINE u == x[1]
           n == Len(u)
<1>1. u \in suffixes
    BY Zenon DEF suffixes
<1>2. n \in 0..2 /\ n < Len(s) /\ last(s, n) = u /\ signedNumber(front(s, n))
    BY <1>1, UnitProperties DEF endsIn
<1>3. Len(s) \in Nat /\ n \in 0..Len(s) /\ Len(s) - n \in 1..Len(s)
    BY <1>2, LenProperties
<1>4. front(s, n) \in Seq(characters)
    <2>1. \A i \in 1..(Len(s) - n) : s[i] \in characters
        BY <1>3, ElementOfSeq
    <2>2. Len(s) - n \in Int
        BY <1>3
    <2> HIDE DEF n
    <2> QED
        BY <2>1, <2>2, SubSeqProperties DEF front
<1>5. isNumber(front(s, n)) /\ Len(front(s, n)) > 0 /\ front(s, n)[Len(front(s, n))] \in numeric
    BY <1>2, <1>4, NumbersAgree
<1>6. s[Len(s) - n] \in numeric
    <2>1. Len(front(s, n)) = Len(s) - n /\ \A i \in 1..(Len(s) - n) : front(s, n)[i] = s[i]
        BY <1>3, CutProperties
    <2> HIDE DEF n
    <2> QED
        BY <1>3, <1>5, <2>1
<1>7. suffixLen(s) = n
    BY <1>1, <1>2, <1>6, SuffixFindsUnit
<1>8. <<front(s, n), <<>>>> \in ParseFloat(front(s, n))
    BY <1>5, FloatIs
<1> QED
    BY <1>2, <1>7, <1>8

(* What parseQuantity reads is what the string denotes: the number before  *)
(* a unit has no exponent, or the string would be scaled twice.            *)
LEMMA ReadIsDenoted ==
    ASSUME NEW s \in Seq(characters), ~scaledTwice(s), NEW q \in parseQuantity(s)
    PROVE  q \in shownAs(s)
<1> DEFINE n == suffixLen(s)
<1>1. PICK x \in multipliers : /\ x[1] = last(s, n)
                               /\ \E f \in ParseFloat(front(s, n)) : q = reading(f, x[2], x[3])
    BY QuantityIs
<1>2. PICK f \in ParseFloat(front(s, n)) : q = reading(f, x[2], x[3])
    BY <1>1
<1>3. n \in 0..2 /\ n < Len(s) /\ last(s, n) \in suffixes /\ Len(x[1]) = n
    <2>1. n \in 0..2
        BY DEF suffixLen
    <2>2. n < Len(s) /\ last(s, n) \in suffixes /\ Len(last(s, n)) = n
        BY <1>2, SuffixIsUnit
    <2> QED
        BY <1>1, <2>1, <2>2
<1>4. Len(s) \in Nat /\ n \in 0..Len(s) /\ Len(s) \in 1..Len(s)
    BY <1>3, LenProperties
<1> HIDE DEF n
<1>5. /\ Len(front(s, n)) = Len(s) - n /\ \A i \in 1..(Len(s) - n) : front(s, n)[i] = s[i]
      /\ \A i \in 1..n : last(s, n)[i] = s[Len(s) - n + i]
    BY <1>4, CutProperties
<1>6. front(s, n) \in Seq(characters)
    <2>1. \A i \in 1..(Len(s) - n) : s[i] \in characters
        BY <1>3, <1>4, ElementOfSeq
    <2> QED
        BY <2>1, <1>4, SubSeqProperties DEF front
<1>7. CASE x = <<<<>>, 10, 0>>
    <2>1. n = 0 /\ q = reading(f, 10, 0)
        BY <1>2, <1>3, <1>7, EmptySeq
    <2>2. front(s, n) = s
        BY <1>4, <2>1, SubSeqFull DEF front
    <2>3. q.base = 10 /\ q.power = 0
        BY <2>1 DEF reading
    <2>4. CASE f = <<s, <<>>>> /\ isNumber(s)
        <3>1. q \in denotes(s)
            BY <2>1, <2>4, NumbersAgree, DenotesIs
        <3> QED
            BY <2>3, <3>1 DEF shownAs
    <2>5. CASE \E k \in 1..Len(s) : /\ s[k] \in {"e", "E"} /\ isNumber(before(s, k))
                                    /\ isExponent(after(s, k))
                                    /\ f = <<before(s, k), after(s, k)>>
        <3>1. PICK k \in 1..Len(s) : /\ s[k] \in {"e", "E"} /\ isNumber(before(s, k))
                                     /\ isExponent(after(s, k))
                                     /\ f = <<before(s, k), after(s, k)>>
            BY <2>5
        <3>2. signedNumber(before(s, k)) /\ signedInteger(after(s, k))
            BY <3>1, CutsAtExponent, NumbersAgree
        <3>3. q \in denotes(s)
            BY <2>1, <3>1, <3>2, DenotesIs
        <3> QED
            BY <2>3, <3>3 DEF shownAs
    <2> QED
        BY <2>2, <2>4, <2>5, FloatIs
<1>8. ASSUME n > 0 PROVE f = <<front(s, n), <<>>>> /\ endsIn(s, x[1])
    <2>1. s[Len(s)] \notin numeric
        <3>1. last(s, n)[n] \notin numeric /\ last(s, n)[n] = s[Len(s) - n + n]
            BY <1>1, <1>3, <1>5, <1>8, UnitProperties
        <3> QED
            BY <1>3, <1>4, <3>1
    <2>2. ASSUME NEW k \in 1..Len(front(s, n)), front(s, n)[k] \in {"e", "E"},
                 isExponent(after(front(s, n), k))
          PROVE  FALSE
        <3> DEFINE w == front(s, n)
                   e == after(w, k)
        <3>1. e \in Seq(characters) /\ Len(e) = Len(w) - k /\ \A i \in 1..(Len(w) - k) : e[i] = w[k + i]
            BY <1>6, CutsAtExponent
        <3>2. Len(e) > 0 /\ e[1] \in digits \cup signs
            <4>1. Len(e) \in Nat
                BY <3>1, LenProperties
            <4> HIDE DEF e
            <4> QED
                BY <2>2, <4>1 DEF isExponent, afterSign, e
        <3>3. k \in 1..(Len(s) - 1) /\ k + 1 \in 1..(Len(s) - n) /\ 1 \in 1..(Len(w) - k)
            BY <1>3, <1>4, <1>5, <1>8, <3>1, <3>2
        <3>4. s[k] \in {"e", "E"} /\ s[k + 1] = e[1]
            <4>1. w[k + 1] = s[k + 1] /\ e[1] = w[k + 1] /\ w[k] = s[k]
                BY <1>4, <1>5, <3>1, <3>3
            <4> QED
                BY <2>2, <4>1
        <3>5. s # <<>>
            BY <1>3, <1>4, EmptySeq
        <3> QED
            BY <2>1, <3>2, <3>3, <3>4, <3>5 DEF scaledTwice
    <2>3. f = <<front(s, n), <<>>>> /\ isNumber(front(s, n))
        BY <2>2, FloatIs
    <2> QED
        BY <1>1, <1>3, <1>6, <2>3, NumbersAgree DEF endsIn
<1>9. CASE \E i \in {3, 5, 6, 7, 8, 9, 10} : x = decimal(i)
    <2>1. PICK i \in {3, 5, 6, 7, 8, 9, 10} : x = decimal(i)
        BY <1>9
    <2>2. x[1] = <<decimalUnits[i]>> /\ x[2] = 10 /\ x[3] = 3 * (i - 4) /\ n = 1
        BY <1>3, <2>1 DEF decimal
    <2>3. q = reading(<<front(s, 1), <<>>>>, 10, 3 * (i - 4)) /\ endsIn(s, <<decimalUnits[i]>>)
        BY <1>2, <1>8, <2>2
    <2>4. i \in (1..10) \ {4} /\ 3 * (i - 4) \notin {-9, -6}
        OBVIOUS
    <2>5. q \in denotes(s)
        BY <2>3, <2>4, DenotesIs
    <2>6. q.power = 3 * (i - 4)
        BY <2>3 DEF reading
    <2> QED
        BY <2>4, <2>5, <2>6 DEF shownAs
<1>10. CASE \E i \in 1..6 : x = binary(i)
    <2>1. PICK i \in 1..6 : x = binary(i)
        BY <1>10
    <2>2. x[1] = <<binaryUnits[i], "i">> /\ x[2] = 2 /\ x[3] = 10 * i /\ n = 2
        BY <1>3, <2>1 DEF binary
    <2>3. q = reading(<<front(s, 2), <<>>>>, 2, 10 * i) /\ endsIn(s, <<binaryUnits[i], "i">>)
        BY <1>2, <1>8, <2>2
    <2>4. q \in denotes(s)
        BY <2>3, DenotesIs
    <2>5. q.base = 2
        BY <2>3 DEF reading
    <2> QED
        BY <2>4, <2>5 DEF shownAs
<1> QED
    BY <1>7, <1>9, <1>10, Units

(* Whatever a string denotes in a unit that is shown, parseQuantity reads. *)
LEMMA DenotedIsRead ==
    ASSUME NEW s \in Seq(characters), NEW q \in shownAs(s)
    PROVE  q \in parseQuantity(s)
<1>1. q \in denotes(s) /\ (q.base = 10 => q.power \notin {-9, -6})
    BY DEF shownAs
<1>2. ASSUME Len(s) > 0, s[Len(s)] \in numeric, NEW f \in ParseFloat(s), q = reading(f, 10, 0)
      PROVE  q \in parseQuantity(s)
    <2>1. suffixLen(s) = 0 /\ front(s, 0) = s /\ last(s, 0) = <<>>
        BY <1>2, NoUnit
    <2> DEFINE x == <<<<>>, 10, 0>>
    <2>2. x \in multipliers /\ x[1] = <<>> /\ x[2] = 10 /\ x[3] = 0
        BY Units
    <2> HIDE DEF x
    <2> QED
        BY <1>2, <2>1, <2>2, QuantityIs
<1>3. ASSUME NEW x \in multipliers, endsIn(s, x[1]),
             q = reading(<<front(s, Len(x[1])), <<>>>>, x[2], x[3])
      PROVE  q \in parseQuantity(s)
    BY <1>3, UnitFound, QuantityIs
<1>4. CASE q = reading(<<s, <<>>>>, 10, 0) /\ signedNumber(s)
    <2>1. isNumber(s) /\ Len(s) > 0 /\ s[Len(s)] \in numeric
        BY <1>4, NumbersAgree
    <2>2. <<s, <<>>>> \in ParseFloat(s)
        BY <2>1, FloatIs
    <2> QED
        BY <1>2, <1>4, <2>1, <2>2
<1>5. CASE \E i \in (1..10) \ {4} : /\ endsIn(s, <<decimalUnits[i]>>)
                                    /\ q = reading(<<front(s, 1), <<>>>>, 10, 3 * (i - 4))
    <2>1. PICK i \in (1..10) \ {4} : /\ endsIn(s, <<decimalUnits[i]>>)
                                     /\ q = reading(<<front(s, 1), <<>>>>, 10, 3 * (i - 4))
        BY <1>5
    <2>2. q.base = 10 /\ q.power = 3 * (i - 4)
        BY <2>1 DEF reading
    <2>3. i \in {3, 5, 6, 7, 8, 9, 10}
        BY <1>1, <2>2
    <2>4. decimal(i) \in multipliers
        BY <2>3, Units
    <2>5. /\ decimal(i)[1] = <<decimalUnits[i]>> /\ decimal(i)[2] = 10 /\ decimal(i)[3] = 3 * (i - 4)
          /\ Len(decimal(i)[1]) = 1
        BY DEF decimal
    <2> QED
        BY <1>3, <2>1, <2>4, <2>5
<1>6. CASE \E i \in 1..6 : /\ endsIn(s, <<binaryUnits[i], "i">>)
                           /\ q = reading(<<front(s, 2), <<>>>>, 2, 10 * i)
    <2>1. PICK i \in 1..6 : /\ endsIn(s, <<binaryUnits[i], "i">>)
                            /\ q = reading(<<front(s, 2), <<>>>>, 2, 10 * i)
        BY <1>6
    <2>2. binary(i) \in multipliers
        BY Units
    <2>3. /\ binary(i)[1] = <<binaryUnits[i], "i">> /\ binary(i)[2] = 2 /\ binary(i)[3] = 10 * i
          /\ Len(binary(i)[1]) = 2
        BY DEF binary
    <2> QED
        BY <1>3, <2>1, <2>2, <2>3
<1>7. CASE \E k \in 1..Len(s) : /\ s[k] \in {"e", "E"} /\ signedNumber(before(s, k))
                                /\ signedInteger(after(s, k))
                                /\ q = reading(<<before(s, k), after(s, k)>>, 10, 0)
    <2>1. PICK k \in 1..Len(s) : /\ s[k] \in {"e", "E"} /\ signedNumber(before(s, k))
                                 /\ signedInteger(after(s, k))
                                 /\ q = reading(<<before(s, k), after(s, k)>>, 10, 0)
        BY <1>7
    <2>2. isNumber(before(s, k)) /\ isExponent(after(s, k))
        BY <2>1, CutsAtExponent, NumbersAgree
    <2>3. <<before(s, k), after(s, k)>> \in ParseFloat(s)
        BY <2>1, <2>2, FloatIs
    <2>4. Len(s) > 0 /\ s[Len(s)] \in numeric
        BY <2>3, FloatEnd
    <2> QED
        BY <1>2, <2>1, <2>3, <2>4
<1> QED
    BY <1>1, <1>4, <1>5, <1>6, <1>7, DenotesIs

(* parseQuantity returns what a quantity denotes, for every string that    *)
(* the API server may write, and an error for the units it does not know.  *)
THEOREM ParseQuantityIsExact ==
    ASSUME NEW s \in Seq(characters), ~scaledTwice(s)
    PROVE  parseQuantity(s) = shownAs(s)
<1>1. \A q : q \in parseQuantity(s) => q \in shownAs(s)
    BY ReadIsDenoted
<1>2. \A q : q \in shownAs(s) => q \in parseQuantity(s)
    BY DenotedIsRead
<1> QED
    BY <1>1, <1>2, Zenon
-----------------------------------------------------------------------------
(***************************************************************************)
(* Rendering: what Collect sends for a snapshot.                           *)
(***************************************************************************)
render(sn) == collectNode(nodeObj[sn.node]) \cup collectPods(podObjs[sn.pods])

conditionPoint(n, c, st) ==
    point("kube_node_status_condition", <<c, st>>,
          IF st = conditionState(n.conditions[c]) THEN 1 ELSE 0)

phasePoint(p, obj, ph) ==
    point("kube_pod_status_phase", <<p, ph>>, IF ph = obj.phase THEN 1 ELSE 0)

readyPoint(p, obj, c) ==
    point("kube_pod_container_status_ready", <<p, c>>, IF obj.containers[c].ready THEN 1 ELSE 0)

restartsPoint(p, obj, c) ==
    point("kube_pod_container_status_restarts_total", <<p, c>>, obj.containers[c].restarts)

LEMMA PointFields ==
    \A f, l, v : LET x == point(f, l, v) IN x.family = f /\ x.labels = l /\ x.value = v
BY DEF point

LEMMA QuantitySeries ==
    ASSUME NEW f, NEW res, NEW x
    PROVE  x \in collectQuantities(f, res) <=>
              \E r \in DOMAIN res : \E v \in parseQuantity(res[r]) : x = point(f, <<r>>, v)
<1> DEFINE of(r) == {point(f, <<r>>, v) : v \in parseQuantity(res[r])}
<1>1. \A r : x \in of(r) <=> \E v \in parseQuantity(res[r]) : x = point(f, <<r>>, v)
    BY Zenon
<1>2. collectQuantities(f, res) = UNION {of(r) : r \in DOMAIN res}
    BY Zenon DEF collectQuantities
<1> HIDE DEF of
<1>3. x \in collectQuantities(f, res) <=> \E r \in DOMAIN res : x \in of(r)
    BY <1>2, Zenon
<1> QED
    BY <1>1, <1>3, Zenon

LEMMA NodeSeries ==
    ASSUME NEW n, NEW x
    PROVE  x \in collectNode(n) <=>
              \/ x = point("kube_node_info", <<>>, 1)
              \/ \E c \in DOMAIN n.conditions : \E st \in nodeConditionStates : x = conditionPoint(n, c, st)
              \/ x \in collectQuantities("kube_node_status_capacity", n.capacity)
              \/ x \in collectQuantities("kube_node_status_allocatable", n.allocatable)
<1>1. x \in {point("kube_node_status_condition", <<t, st>>,
                IF st = conditionState(n.conditions[t]) THEN 1 ELSE 0) :
                   t \in DOMAIN n.conditions, st \in nodeConditionStates}
      <=> \E c \in DOMAIN n.conditions : \E st \in nodeConditionStates : x = conditionPoint(n, c, st)
    BY SMT DEF conditionPoint
<1> DEFINE conditions == {point("kube_node_status_condition", <<t, st>>,
                             IF st = conditionState(n.conditions[t]) THEN 1 ELSE 0) :
                                t \in DOMAIN n.conditions, st \in nodeConditionStates}
<1>2. collectNode(n) = {point("kube_node_info", <<>>, 1)} \cup conditions
                          \cup collectQuantities("kube_node_status_capacity", n.capacity)
                          \cup collectQuantities("kube_node_status_allocatable", n.allocatable)
    BY DEF collectNode
<1>3. x \in conditions <=> \E c \in DOMAIN n.conditions : \E st \in nodeConditionStates :
                              x = conditionPoint(n, c, st)
    BY <1>1
<1> HIDE DEF conditions
<1> QED
    BY <1>2, <1>3

LEMMA PodSeries ==
    ASSUME NEW p, NEW obj, NEW x
    PROVE  x \in collectPod(p, obj) <=>
              \/ x = point("kube_pod_info", <<p, IF obj.owners = <<>> THEN "" ELSE obj.owners[1]>>, 1)
              \/ \E ph \in podPhases : x = phasePoint(p, obj, ph)
              \/ \E c \in DOMAIN obj.containers : x = readyPoint(p, obj, c)
              \/ \E c \in DOMAIN obj.containers : x = restartsPoint(p, obj, c)
<1>1. x \in {point("kube_pod_status_phase", <<p, ph>>, IF ph = obj.phase THEN 1 ELSE 0) : ph \in podPhases}
      <=> \E ph \in podPhases : x = phasePoint(p, obj, ph)
    BY Zenon DEF phasePoint
<1>2. x \in {point("kube_pod_container_status_ready", <<p, c>>,
                   IF obj.containers[c].ready THEN 1 ELSE 0) : c \in DOMAIN obj.containers}
      <=> \E c \in DOMAIN obj.containers : x = readyPoint(p, obj, c)
    BY Zenon DEF readyPoint
<1>3. x \in {point("kube_pod_container_status_restarts_total", <<p, c>>,
                   obj.containers[c].restarts) : c \in DOMAIN obj.containers}
      <=> \E c \in DOMAIN obj.containers : x = restartsPoint(p, obj, c)
    BY Zenon DEF restartsPoint
<1> QED
    BY <1>1, <1>2, <1>3, Zenon DEF collectPod

LEMMA PodsSeries ==
    ASSUME NEW pods, NEW x
    PROVE  x \in collectPods(pods) <=> \E p \in DOMAIN pods : x \in collectPod(p, pods[p])
BY Zenon DEF collectPods

(* Which series of a snapshot belong to a family.                          *)
LEMMA NodeFamilies ==
    ASSUME NEW n, NEW x
    PROVE  /\ x \in collectNode(n) => x.family \in {"kube_node_info", "kube_node_status_condition",
                                                   "kube_node_status_capacity", "kube_node_status_allocatable"}
           /\ x \in collectNode(n) /\ x.family = "kube_node_status_condition"
                 <=> \E c \in DOMAIN n.conditions : \E st \in nodeConditionStates : x = conditionPoint(n, c, st)
           /\ x \in collectNode(n) /\ x.family = "kube_node_status_capacity"
                 <=> x \in collectQuantities("kube_node_status_capacity", n.capacity)
           /\ x \in collectNode(n) /\ x.family = "kube_node_status_allocatable"
                 <=> x \in collectQuantities("kube_node_status_allocatable", n.allocatable)
<1>1. x = point("kube_node_info", <<>>, 1) => x.family = "kube_node_info"
    BY PointFields
<1>2. (\E c \in DOMAIN n.conditions : \E st \in nodeConditionStates : x = conditionPoint(n, c, st))
         => x.family = "kube_node_status_condition"
    BY PointFields DEF conditionPoint
<1>3. ASSUME NEW f, NEW res, x \in collectQuantities(f, res) PROVE x.family = f
    <2>1. PICK r \in DOMAIN res : \E v \in parseQuantity(res[r]) : x = point(f, <<r>>, v)
        BY <1>3, QuantitySeries
    <2>2. PICK v \in parseQuantity(res[r]) : x = point(f, <<r>>, v)
        BY <2>1
    <2> QED
        BY <2>2, PointFields
<1> QED
    BY <1>1, <1>2, <1>3, NodeSeries

LEMMA PodFamilies ==
    ASSUME NEW pods, NEW x
    PROVE  /\ x \in collectPods(pods) =>
                 x.family \in {"kube_pod_info", "kube_pod_status_phase", "kube_pod_container_status_ready",
                               "kube_pod_container_status_restarts_total"}
           /\ x \in collectPods(pods) /\ x.family = "kube_pod_status_phase"
                 <=> \E p \in DOMAIN pods : \E ph \in podPhases : x = phasePoint(p, pods[p], ph)
           /\ x \in collectPods(pods) /\ x.family = "kube_pod_container_status_ready"
                 <=> \E p \in DOMAIN pods : \E c \in DOMAIN pods[p].containers : x = readyPoint(p, pods[p], c)
           /\ x \in collectPods(pods) /\ x.family = "kube_pod_container_status_restarts_total"
                 <=> \E p \in DOMAIN pods : \E c \in DOMAIN pods[p].containers : x = restartsPoint(p, pods[p], c)
<1>1. \A l, v : x = point("kube_pod_info", l, v) => x.family = "kube_pod_info"
    BY PointFields
<1>2. \A p, obj, ph : x = phasePoint(p, obj, ph) => x.family = "kube_pod_status_phase"
    BY PointFields DEF phasePoint
<1>3. \A p, obj, c : x = readyPoint(p, obj, c) => x.family = "kube_pod_container_status_ready"
    BY PointFields DEF readyPoint
<1>4. \A p, obj, c : x = restartsPoint(p, obj, c) => x.family = "kube_pod_container_status_restarts_total"
    BY PointFields DEF restartsPoint
<1>5. x \in collectPods(pods) <=>
         \E p \in DOMAIN pods :
              \/ x = point("kube_pod_info",
                           <<p, IF pods[p].owners = <<>> THEN "" ELSE pods[p].owners[1]>>, 1)
              \/ \E ph \in podPhases : x = phasePoint(p, pods[p], ph)
              \/ \E c \in DOMAIN pods[p].containers : x = readyPoint(p, pods[p], c)
              \/ \E c \in DOMAIN pods[p].containers : x = restartsPoint(p, pods[p], c)
    <2>1. \A p, obj : x \in collectPod(p, obj) <=>
              \/ x = point("kube_pod_info", <<p, IF obj.owners = <<>> THEN "" ELSE obj.owners[1]>>, 1)
              \/ \E ph \in podPhases : x = phasePoint(p, obj, ph)
              \/ \E c \in DOMAIN obj.containers : x = readyPoint(p, obj, c)
              \/ \E c \in DOMAIN obj.containers : x = restartsPoint(p, obj, c)
        BY PodSeries
    <2>2. x \in collectPods(pods) <=> \E p \in DOMAIN pods : x \in collectPod(p, pods[p])
        BY PodsSeries
    <2> QED
        BY <2>1, <2>2, Zenon
<1> QED
    BY <1>1, <1>2, <1>3, <1>4, <1>5

LEMMA ShownSeries ==
    ASSUME NEW series, NEW f, NEW e
    PROVE  e \in shows(series, f) <=> \E x \in series : x.family = f /\ e = <<x.labels, x.value>>
BY Zenon DEF shows

(* The series of a family of a snapshot are those its loop sends.          *)
LEMMA SnapshotFamilies ==
    ASSUME NEW sn, NEW x
    PROVE  LET n == nodeObj[sn.node]
               pods == podObjs[sn.pods]
           IN
           /\ x \in render(sn) /\ x.family = "kube_node_status_condition"
                 <=> \E c \in DOMAIN n.conditions : \E st \in nodeConditionStates : x = conditionPoint(n, c, st)
           /\ x \in render(sn) /\ x.family = "kube_node_status_capacity"
                 <=> x \in collectQuantities("kube_node_status_capacity", n.capacity)
           /\ x \in render(sn) /\ x.family = "kube_node_status_allocatable"
                 <=> x \in collectQuantities("kube_node_status_allocatable", n.allocatable)
           /\ x \in render(sn) /\ x.family = "kube_pod_status_phase"
                 <=> \E p \in DOMAIN pods : \E ph \in podPhases : x = phasePoint(p, pods[p], ph)
           /\ x \in render(sn) /\ x.family = "kube_pod_container_status_ready"
                 <=> \E p \in DOMAIN pods : \E c \in DOMAIN pods[p].containers : x = readyPoint(p, pods[p], c)
           /\ x \in render(sn) /\ x.family = "kube_pod_container_status_restarts_total"
                 <=> \E p \in DOMAIN pods : \E c \in DOMAIN pods[p].containers : x = restartsPoint(p, pods[p], c)
<1> DEFINE n == nodeObj[sn.node]
           pods == podObjs[sn.pods]
<1>1. x \in render(sn) <=> x \in collectNode(n) \/ x \in collectPods(pods)
    BY DEF render
<1> HIDE DEF n, pods
<1>2. /\ x \in collectNode(n) => x.family \in {"kube_node_info", "kube_node_status_condition",
                                               "kube_node_status_capacity", "kube_node_status_allocatable"}
      /\ x \in collectNode(n) /\ x.family = "kube_node_status_condition"
            <=> \E c \in DOMAIN n.conditions : \E st \in nodeConditionStates : x = conditionPoint(n, c, st)
      /\ x \in collectNode(n) /\ x.family = "kube_node_status_capacity"
            <=> x \in collectQuantities("kube_node_status_capacity", n.capacity)
      /\ x \in collectNode(n) /\ x.family = "kube_node_status_allocatable"
            <=> x \in collectQuantities("kube_node_status_allocatable", n.allocatable)
    BY NodeFamilies
<1>3. /\ x \in collectPods(pods) =>
            x.family \in {"kube_pod_info", "kube_pod_status_phase", "kube_pod_container_status_ready",
                          "kube_pod_container_status_restarts_total"}
      /\ x \in collectPods(pods) /\ x.family = "kube_pod_status_phase"
            <=> \E p \in DOMAIN pods : \E ph \in podPhases : x = phasePoint(p, pods[p], ph)
      /\ x \in collectPods(pods) /\ x.family = "kube_pod_container_status_ready"
            <=> \E p \in DOMAIN pods : \E c \in DOMAIN pods[p].containers : x = readyPoint(p, pods[p], c)
      /\ x \in collectPods(pods) /\ x.family = "kube_pod_container_status_restarts_total"
            <=> \E p \in DOMAIN pods : \E c \in DOMAIN pods[p].containers : x = restartsPoint(p, pods[p], c)
    BY PodFamilies
<1>4. /\ x \in render(sn) /\ x.family = "kube_node_status_condition"
            <=> \E c \in DOMAIN n.conditions : \E st \in nodeConditionStates : x = conditionPoint(n, c, st)
      /\ x \in render(sn) /\ x.family = "kube_node_status_capacity"
            <=> x \in collectQuantities("kube_node_status_capacity", n.capacity)
      /\ x \in render(sn) /\ x.family = "kube_node_status_allocatable"
            <=> x \in collectQuantities("kube_node_status_allocatable", n.allocatable)
    BY <1>1, <1>2, <1>3
<1>5. /\ x \in render(sn) /\ x.family = "kube_pod_status_phase"
            <=> \E p \in DOMAIN pods : \E ph \in podPhases : x = phasePoint(p, pods[p], ph)
      /\ x \in render(sn) /\ x.family = "kube_pod_container_status_ready"
            <=> \E p \in DOMAIN pods : \E c \in DOMAIN pods[p].containers : x = readyPoint(p, pods[p], c)
      /\ x \in render(sn) /\ x.family = "kube_pod_container_status_restarts_total"
            <=> \E p \in DOMAIN pods : \E c \in DOMAIN pods[p].containers : x = restartsPoint(p, pods[p], c)
    BY <1>1, <1>2, <1>3
<1> QED
    BY <1>4, <1>5 DEF n, pods

(* Every resource has the value its quantity denotes, or no series.        *)
reportedOf(res) == UNION {{<<<<r>>, v>> : v \in shownAs(res[r])} : r \in DOMAIN res}

LEMMA FamilyOfQuantities ==
    ASSUME NEW series, NEW f, NEW res,
           \A x : x \in series /\ x.family = f <=> x \in collectQuantities(f, res),
           \A r \in DOMAIN res : res[r] \in Seq(characters) /\ ~scaledTwice(res[r])
    PROVE  shows(series, f) = reportedOf(res)
<1> DEFINE of(r) == {<<<<r>>, v>> : v \in shownAs(res[r])}
<1>1. \A e : e \in shows(series, f)
                <=> \E r \in DOMAIN res : \E v \in parseQuantity(res[r]) : e = <<<<r>>, v>>
    <2> TAKE e
    <2>1. ASSUME NEW x \in series, x.family = f, e = <<x.labels, x.value>>
          PROVE  \E r \in DOMAIN res : \E v \in parseQuantity(res[r]) : e = <<<<r>>, v>>
        <3>1. PICK r \in DOMAIN res : \E v \in parseQuantity(res[r]) : x = point(f, <<r>>, v)
            BY <2>1, QuantitySeries
        <3>2. PICK v \in parseQuantity(res[r]) : x = point(f, <<r>>, v)
            BY <3>1
        <3>3. x.labels = <<r>> /\ x.value = v
            BY <3>2, PointFields
        <3> QED
            BY <2>1, <3>2, <3>3
    <2>2. ASSUME NEW r \in DOMAIN res, NEW v \in parseQuantity(res[r]), e = <<<<r>>, v>>
          PROVE  \E x \in series : x.family = f /\ e = <<x.labels, x.value>>
        <3> DEFINE x == point(f, <<r>>, v)
        <3>1. x \in collectQuantities(f, res)
            BY <2>2, QuantitySeries
        <3>2. x.labels = <<r>> /\ x.value = v
            BY PointFields
        <3> HIDE DEF x
        <3> QED
            BY <2>2, <3>1, <3>2
    <2>3. e \in shows(series, f) <=> \E x \in series : x.family = f /\ e = <<x.labels, x.value>>
        BY ShownSeries
    <2> QED
        BY <2>1, <2>2, <2>3, Zenon
<1>2. \A r \in DOMAIN res : parseQuantity(res[r]) = shownAs(res[r])
    BY ParseQuantityIsExact
<1>3. \A e, r : e \in of(r) <=> \E v \in shownAs(res[r]) : e = <<<<r>>, v>>
    BY Zenon
<1>4. \A e : e \in UNION {of(r) : r \in DOMAIN res} <=> \E r \in DOMAIN res : e \in of(r)
    BY Zenon
<1> HIDE DEF of
<1>5. \A e : e \in shows(series, f) <=> e \in UNION {of(r) : r \in DOMAIN res}
    <2> TAKE e
    <2>1. \A r \in DOMAIN res : e \in of(r) <=> \E v \in parseQuantity(res[r]) : e = <<<<r>>, v>>
        BY <1>2, <1>3
    <2> QED
        BY <1>1, <1>4, <2>1, Zenon
<1>6. shows(series, f) = UNION {of(r) : r \in DOMAIN res}
    BY <1>5, Zenon
<1> QED
    BY <1>6, Zenon DEF of, reportedOf

LEMMA QuantitiesRendered ==
    ASSUME NEW sn \in Snapshots
    PROVE  quantitiesAreReported(nodeObj[sn.node], render(sn))
<1> DEFINE n == nodeObj[sn.node]
<1>1. sn.node \in 0..Horizon
    BY DEF Snapshots, Times
<1>2. /\ \A r \in DOMAIN n.capacity : n.capacity[r] \in Seq(characters) /\ ~scaledTwice(n.capacity[r])
      /\ \A r \in DOMAIN n.allocatable :
            n.allocatable[r] \in Seq(characters) /\ ~scaledTwice(n.allocatable[r])
    BY <1>1, QuantityAssumption
<1>3. \A x : x \in render(sn) /\ x.family = "kube_node_status_capacity"
                <=> x \in collectQuantities("kube_node_status_capacity", n.capacity)
    BY SnapshotFamilies
<1>4. \A x : x \in render(sn) /\ x.family = "kube_node_status_allocatable"
                <=> x \in collectQuantities("kube_node_status_allocatable", n.allocatable)
    BY SnapshotFamilies
<1> HIDE DEF n
<1>5. shows(render(sn), "kube_node_status_capacity") = reportedOf(n.capacity)
    BY <1>2, <1>3, FamilyOfQuantities
<1>6. shows(render(sn), "kube_node_status_allocatable") = reportedOf(n.allocatable)
    BY <1>2, <1>4, FamilyOfQuantities
<1> QED
    BY <1>5, <1>6, Zenon DEF quantitiesAreReported, reportedOf, n

(* A condition has its three states and a pod its five phases.             *)
LEMMA StatesRendered ==
    ASSUME NEW sn
    PROVE  statesAreReported(nodeObj[sn.node], podObjs[sn.pods], render(sn))
<1> DEFINE n == nodeObj[sn.node]
           pods == podObjs[sn.pods]
           conditions == {<<<<c, st>>, bit(isState(st, n.conditions[c]))>> :
                             c \in DOMAIN n.conditions, st \in {"true", "false", "unknown"}}
           phases == {<<<<p, ph>>, bit(pods[p].phase = ph)>> :
                         p \in DOMAIN pods, ph \in {"Pending", "Running", "Succeeded", "Failed", "Unknown"}}
<1>1. \A c, st : LET x == conditionPoint(n, c, st) IN
          /\ x.family = "kube_node_status_condition" /\ x.labels = <<c, st>>
          /\ st \in nodeConditionStates => x.value = bit(isState(st, n.conditions[c]))
    <2> TAKE c, st
    <2>1. ASSUME st \in nodeConditionStates
          PROVE  (st = conditionState(n.conditions[c])) = isState(st, n.conditions[c])
        <3>1. CASE st = "true"
            BY <3>1 DEF conditionState, isState
        <3>2. CASE st = "false"
            BY <3>2 DEF conditionState, isState
        <3>3. CASE st = "unknown"
            BY <3>3 DEF conditionState, isState
        <3> QED
            BY <2>1, <3>1, <3>2, <3>3 DEF nodeConditionStates
    <2>2. LET x == conditionPoint(n, c, st) IN
          /\ x.family = "kube_node_status_condition" /\ x.labels = <<c, st>>
          /\ x.value = IF st = conditionState(n.conditions[c]) THEN 1 ELSE 0
        BY PointFields DEF conditionPoint
    <2> QED
        BY <2>1, <2>2 DEF bit
<1>2. \A e : e \in conditions <=> \E c \in DOMAIN n.conditions : \E st \in nodeConditionStates :
                                      e = <<<<c, st>>, bit(isState(st, n.conditions[c]))>>
    BY SMT DEF nodeConditionStates
<1>3. \A x : x \in render(sn) /\ x.family = "kube_node_status_condition"
                <=> \E c \in DOMAIN n.conditions : \E st \in nodeConditionStates : x = conditionPoint(n, c, st)
    BY SnapshotFamilies
<1>4. \A p, ph : LET x == phasePoint(p, pods[p], ph) IN
          /\ x.family = "kube_pod_status_phase" /\ x.labels = <<p, ph>>
          /\ x.value = bit(pods[p].phase = ph)
    BY PointFields DEF phasePoint, bit
<1>5. \A e : e \in phases <=> \E p \in DOMAIN pods : \E ph \in podPhases :
                                  e = <<<<p, ph>>, bit(pods[p].phase = ph)>>
    BY SMT DEF podPhases
<1>6. \A x : x \in render(sn) /\ x.family = "kube_pod_status_phase"
                <=> \E p \in DOMAIN pods : \E ph \in podPhases : x = phasePoint(p, pods[p], ph)
    BY SnapshotFamilies
<1> HIDE DEF conditions, phases, n, pods
<1>7. \A e : e \in shows(render(sn), "kube_node_status_condition") <=> e \in conditions
    <2> TAKE e
    <2>1. e \in shows(render(sn), "kube_node_status_condition")
             <=> \E x \in render(sn) : x.family = "kube_node_status_condition" /\ e = <<x.labels, x.value>>
        BY ShownSeries
    <2>2. ASSUME NEW x \in render(sn), x.family = "kube_node_status_condition", e = <<x.labels, x.value>>
          PROVE  e \in conditions
        <3>1. PICK c \in DOMAIN n.conditions : \E st \in nodeConditionStates : x = conditionPoint(n, c, st)
            BY <2>2, <1>3
        <3>2. PICK st \in nodeConditionStates : x = conditionPoint(n, c, st)
            BY <3>1
        <3>3. x.labels = <<c, st>> /\ x.value = bit(isState(st, n.conditions[c]))
            BY <3>2, <1>1
        <3> QED
            BY <2>2, <3>3, <1>2
    <2>3. ASSUME e \in conditions
          PROVE  \E x \in render(sn) : x.family = "kube_node_status_condition" /\ e = <<x.labels, x.value>>
        <3>1. PICK c \in DOMAIN n.conditions : \E st \in nodeConditionStates : e = <<<<c, st>>, bit(isState(st, n.conditions[c]))>>
            BY <2>3, <1>2
        <3>2. PICK st \in nodeConditionStates : e = <<<<c, st>>, bit(isState(st, n.conditions[c]))>>
            BY <3>1
        <3> DEFINE x == conditionPoint(n, c, st)
        <3>3. x \in render(sn) /\ x.family = "kube_node_status_condition"
            BY <1>3
        <3>4. x.labels = <<c, st>> /\ x.value = bit(isState(st, n.conditions[c]))
            BY <1>1
        <3> HIDE DEF x
        <3> QED
            BY <3>2, <3>3, <3>4
    <2> QED
        BY <2>1, <2>2, <2>3
<1>8. \A e : e \in shows(render(sn), "kube_pod_status_phase") <=> e \in phases
    <2> TAKE e
    <2>1. e \in shows(render(sn), "kube_pod_status_phase")
             <=> \E x \in render(sn) : x.family = "kube_pod_status_phase" /\ e = <<x.labels, x.value>>
        BY ShownSeries
    <2>2. ASSUME NEW x \in render(sn), x.family = "kube_pod_status_phase", e = <<x.labels, x.value>>
          PROVE  e \in phases
        <3>1. PICK p \in DOMAIN pods : \E ph \in podPhases : x = phasePoint(p, pods[p], ph)
            BY <2>2, <1>6
        <3>2. PICK ph \in podPhases : x = phasePoint(p, pods[p], ph)
            BY <3>1
        <3>3. x.labels = <<p, ph>> /\ x.value = bit(pods[p].phase = ph)
            BY <3>2, <1>4
        <3> QED
            BY <2>2, <3>3, <1>5
    <2>3. ASSUME e \in phases
          PROVE  \E x \in render(sn) : x.family = "kube_pod_status_phase" /\ e = <<x.labels, x.value>>
        <3>1. PICK p \in DOMAIN pods : \E ph \in podPhases : e = <<<<p, ph>>, bit(pods[p].phase = ph)>>
            BY <2>3, <1>5
        <3>2. PICK ph \in podPhases : e = <<<<p, ph>>, bit(pods[p].phase = ph)>>
            BY <3>1
        <3> DEFINE x == phasePoint(p, pods[p], ph)
        <3>3. x \in render(sn) /\ x.family = "kube_pod_status_phase"
            BY <1>6
        <3>4. x.labels = <<p, ph>> /\ x.value = bit(pods[p].phase = ph)
            BY <1>4
        <3> HIDE DEF x
        <3> QED
            BY <3>2, <3>3, <3>4
    <2> QED
        BY <2>1, <2>2, <2>3
<1>9. /\ shows(render(sn), "kube_node_status_condition") = conditions
      /\ shows(render(sn), "kube_pod_status_phase") = phases
    BY <1>7, <1>8, Zenon
<1> QED
    BY <1>9 DEF statesAreReported, conditions, phases, n, pods

(* Every container has its readiness and its restarts.                     *)
LEMMA ContainersRendered ==
    ASSUME NEW sn
    PROVE  containersAreReported(podObjs[sn.pods], render(sn))
<1> DEFINE pods == podObjs[sn.pods]
           readyOf(p) == {<<<<p, c>>, bit(pods[p].containers[c].ready)>> : c \in DOMAIN pods[p].containers}
           restartsOf(p) == {<<<<p, c>>, pods[p].containers[c].restarts>> : c \in DOMAIN pods[p].containers}
           ready == UNION {readyOf(p) : p \in DOMAIN pods}
           restarts == UNION {restartsOf(p) : p \in DOMAIN pods}
<1>1. \A p, c : LET x == readyPoint(p, pods[p], c) IN
          /\ x.family = "kube_pod_container_status_ready" /\ x.labels = <<p, c>>
          /\ x.value = bit(pods[p].containers[c].ready)
    BY PointFields DEF readyPoint, bit
<1>2. \A e : e \in ready <=> \E p \in DOMAIN pods : \E c \in DOMAIN pods[p].containers :
                                 e = <<<<p, c>>, bit(pods[p].containers[c].ready)>>
    <2>1. \A e, p : e \in readyOf(p) <=> \E c \in DOMAIN pods[p].containers :
                                             e = <<<<p, c>>, bit(pods[p].containers[c].ready)>>
        BY Zenon
    <2> HIDE DEF readyOf
    <2>2. \A e : e \in ready <=> \E p \in DOMAIN pods : e \in readyOf(p)
        BY Zenon
    <2> QED
        BY <2>1, <2>2, Zenon
<1>3. \A x : x \in render(sn) /\ x.family = "kube_pod_container_status_ready"
                <=> \E p \in DOMAIN pods : \E c \in DOMAIN pods[p].containers : x = readyPoint(p, pods[p], c)
    BY SnapshotFamilies
<1>4. \A p, c : LET x == restartsPoint(p, pods[p], c) IN
          /\ x.family = "kube_pod_container_status_restarts_total" /\ x.labels = <<p, c>>
          /\ x.value = pods[p].containers[c].restarts
    BY PointFields DEF restartsPoint
<1>5. \A e : e \in restarts <=> \E p \in DOMAIN pods : \E c \in DOMAIN pods[p].containers :
                                    e = <<<<p, c>>, pods[p].containers[c].restarts>>
    <2>1. \A e, p : e \in restartsOf(p) <=> \E c \in DOMAIN pods[p].containers :
                                                e = <<<<p, c>>, pods[p].containers[c].restarts>>
        BY Zenon
    <2> HIDE DEF restartsOf
    <2>2. \A e : e \in restarts <=> \E p \in DOMAIN pods : e \in restartsOf(p)
        BY Zenon
    <2> QED
        BY <2>1, <2>2, Zenon
<1>6. \A x : x \in render(sn) /\ x.family = "kube_pod_container_status_restarts_total"
                <=> \E p \in DOMAIN pods : \E c \in DOMAIN pods[p].containers : x = restartsPoint(p, pods[p], c)
    BY SnapshotFamilies
<1> HIDE DEF ready, restarts, pods
<1>7. \A e : e \in shows(render(sn), "kube_pod_container_status_ready") <=> e \in ready
    <2> TAKE e
    <2>1. e \in shows(render(sn), "kube_pod_container_status_ready")
             <=> \E x \in render(sn) : x.family = "kube_pod_container_status_ready" /\ e = <<x.labels, x.value>>
        BY ShownSeries
    <2>2. ASSUME NEW x \in render(sn), x.family = "kube_pod_container_status_ready", e = <<x.labels, x.value>>
          PROVE  e \in ready
        <3>1. PICK p \in DOMAIN pods : \E c \in DOMAIN pods[p].containers : x = readyPoint(p, pods[p], c)
            BY <2>2, <1>3
        <3>2. PICK c \in DOMAIN pods[p].containers : x = readyPoint(p, pods[p], c)
            BY <3>1
        <3>3. x.labels = <<p, c>> /\ x.value = bit(pods[p].containers[c].ready)
            BY <3>2, <1>1
        <3> QED
            BY <2>2, <3>3, <1>2
    <2>3. ASSUME e \in ready
          PROVE  \E x \in render(sn) : x.family = "kube_pod_container_status_ready" /\ e = <<x.labels, x.value>>
        <3>1. PICK p \in DOMAIN pods : \E c \in DOMAIN pods[p].containers : e = <<<<p, c>>, bit(pods[p].containers[c].ready)>>
            BY <2>3, <1>2
        <3>2. PICK c \in DOMAIN pods[p].containers : e = <<<<p, c>>, bit(pods[p].containers[c].ready)>>
            BY <3>1
        <3> DEFINE x == readyPoint(p, pods[p], c)
        <3>3. x \in render(sn) /\ x.family = "kube_pod_container_status_ready"
            BY <1>3
        <3>4. x.labels = <<p, c>> /\ x.value = bit(pods[p].containers[c].ready)
            BY <1>1
        <3> HIDE DEF x
        <3> QED
            BY <3>2, <3>3, <3>4
    <2> QED
        BY <2>1, <2>2, <2>3
<1>8. \A e : e \in shows(render(sn), "kube_pod_container_status_restarts_total") <=> e \in restarts
    <2> TAKE e
    <2>1. e \in shows(render(sn), "kube_pod_container_status_restarts_total")
             <=> \E x \in render(sn) : x.family = "kube_pod_container_status_restarts_total" /\ e = <<x.labels, x.value>>
        BY ShownSeries
    <2>2. ASSUME NEW x \in render(sn), x.family = "kube_pod_container_status_restarts_total", e = <<x.labels, x.value>>
          PROVE  e \in restarts
        <3>1. PICK p \in DOMAIN pods : \E c \in DOMAIN pods[p].containers : x = restartsPoint(p, pods[p], c)
            BY <2>2, <1>6
        <3>2. PICK c \in DOMAIN pods[p].containers : x = restartsPoint(p, pods[p], c)
            BY <3>1
        <3>3. x.labels = <<p, c>> /\ x.value = pods[p].containers[c].restarts
            BY <3>2, <1>4
        <3> QED
            BY <2>2, <3>3, <1>5
    <2>3. ASSUME e \in restarts
          PROVE  \E x \in render(sn) : x.family = "kube_pod_container_status_restarts_total" /\ e = <<x.labels, x.value>>
        <3>1. PICK p \in DOMAIN pods : \E c \in DOMAIN pods[p].containers : e = <<<<p, c>>, pods[p].containers[c].restarts>>
            BY <2>3, <1>5
        <3>2. PICK c \in DOMAIN pods[p].containers : e = <<<<p, c>>, pods[p].containers[c].restarts>>
            BY <3>1
        <3> DEFINE x == restartsPoint(p, pods[p], c)
        <3>3. x \in render(sn) /\ x.family = "kube_pod_container_status_restarts_total"
            BY <1>6
        <3>4. x.labels = <<p, c>> /\ x.value = pods[p].containers[c].restarts
            BY <1>4
        <3> HIDE DEF x
        <3> QED
            BY <3>2, <3>3, <3>4
    <2> QED
        BY <2>1, <2>2, <2>3
<1>9. /\ shows(render(sn), "kube_pod_container_status_ready") = ready
      /\ shows(render(sn), "kube_pod_container_status_restarts_total") = restarts
    BY <1>7, <1>8, Zenon
<1> QED
    BY <1>9, Zenon DEF containersAreReported, ready, restarts, pods

(* Collect sends the series of the answer's snapshot, and none for an      *)
(* error.                                                                  *)
LEMMA CollectRenders ==
    ASSUME NEW sn
    PROVE  Collect(answered(sn)) = render(sn)
BY DEF Collect, answered, render

(* Every answer of /metrics says what the API server reported at the times *)
(* of its snapshot: each capacity and allocatable with the value its       *)
(* quantity denotes, each condition in all three states and each pod in    *)
(* all five phases, and each container with its readiness and restarts.    *)
THEOREM AlwaysRenderedAsReported == Spec => []RenderedAsReported
<1>1. KsmInv => RenderedAsReported
    <2> SUFFICES ASSUME KsmInv, NEW s \in Scrapers, NEW sn \in answer[s].snap
                 PROVE  /\ quantitiesAreReported(nodeObj[sn.node], Collect(answer[s]))
                        /\ statesAreReported(nodeObj[sn.node], podObjs[sn.pods], Collect(answer[s]))
                        /\ containersAreReported(podObjs[sn.pods], Collect(answer[s]))
        BY DEF RenderedAsReported
    <2>1. PICK whole \in Snapshots : answer[s] = answered(whole)
        BY DEF KsmInv, AnswerIsWhole, noAnswer
    <2>2. whole = sn
        BY <2>1 DEF answered
    <2> QED
        BY <2>1, <2>2, CollectRenders, QuantitiesRendered, StatesRendered, ContainersRendered
<1> QED
    BY <1>1, KsmInvHolds, PTL
=============================================================================
