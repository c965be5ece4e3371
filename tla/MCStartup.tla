----------------------------- MODULE MCStartup ------------------------------
(* Start-up with a handful of files, each unlike the others in one respect.*)
EXTENDS Startup

MCUpstream == [n \in SupersededCollectors \cup {"filesystem", "stat", "processes"} |-> n # "processes"]

base == [node |-> "n1", tier |-> "", tiers |-> <<>>, interval |-> 0, secrets |-> <<>>,
         dcgm |-> TRUE, smartctl |-> TRUE,
         ne |-> [enabled |-> FALSE, native |-> FALSE, rootfs |-> "", extraFlags |-> <<>>],
         ksm |-> [enabled |-> FALSE, mode |-> ""],
         history |-> [enabled |-> FALSE, retentionDays |-> 0, intervalMinutes |-> 0]]

everything == [base EXCEPT !.tiers = <<"gpu", "core", "smart">>, !.ne.enabled = TRUE, !.ne.native = TRUE,
                           !.ksm.enabled = TRUE, !.history.enabled = TRUE, !.interval = 30]

noCollector(names) == [i \in DOMAIN names |-> <<"no-collector", names[i]>>]

tierFiles == {[base EXCEPT !.tier = t] : t \in {"", "smart", "gpu", "disk"}}
             \cup {[base EXCEPT !.tiers = ts, !.tier = "smart"] :
                      ts \in {<<"gpu", "">>, <<"gpu", "gpu">>, <<"">>, <<"core", "core", "gpu">>,
                              <<"smart", "disk">>, <<"smart", "smart">>}}

flagFiles == {[everything EXCEPT !.ne.extraFlags = f, !.ne.native = n, !.ne.rootfs = r] :
                 f \in {<<>>, <<<<"collector", "loadavg">>>>, <<<<"collector", "filesystem">>>>,
                        <<<<"no-collector", "os">>, <<"collector", "processes">>>>,
                        <<<<"path", "procfs">>>>, <<<<"collector", "bogus">>>>,
                        noCollector(<<"stat", "filesystem">>),
                        noCollector(<<"stat", "loadavg", "filefd", "entropy", "vmstat", "uname", "os">>)},
                 n \in BOOLEAN, r \in {"", "host"}}

ksmFiles == {[everything EXCEPT !.node = n, !.ksm.mode = m] : n \in {"", "n1"}, m \in {"node", "cluster", "typo"}}

historyFiles == {[everything EXCEPT !.history.retentionDays = n, !.history.intervalMinutes = n, !.interval = n] :
                    n \in {-1, 7}}

secretFiles == {[base EXCEPT !.secrets = <<s, <<"k">>>>] :
                   s \in {<<>>, <<"$", "{", "K", "}">>, <<"$", "{", "E", "}">>, <<"$", "{", "U", "}">>,
                          <<"$", "{", "}">>, <<"$", "{", "K">>, <<"$", "K">>,
                          <<"$", "{", "K", "}", "K", "}">>, <<"x", "$", "{", "K", "}">>}}

\* A second is two units and a Duration has 2^30 values, so that the default
\* periods fit; these numbers, as 9223372037 seconds or 106752 days in the
\* code, do not, and the last one wraps to a positive period.
wrappingFiles ==
    {[base EXCEPT !.interval = n, !.tier = "smart", !.history.enabled = TRUE] : n \in {300000000, 600000000}}
    \cup {[base EXCEPT !.history = [enabled |-> TRUE, retentionDays |-> d, intervalMinutes |-> m]] :
             d \in {3106, 3107}, m \in {4473924, 5000000}}

MCFiles == tierFiles \cup flagFiles \cup ksmFiles \cup historyFiles \cup secretFiles \cup wrappingFiles

\* The variable K has a value, E is set and empty, U is not set.
MCEnvs == {[nodeName |-> n, vars |-> [v \in {<<"K">>, <<"E">>} |-> IF v = <<"K">> THEN <<"s">> ELSE <<>>]] :
              n \in {"", "n2"}}

\* A fact about a fold, which the proof of AlwaysAsConfigured rests on.
ASSUME DistinctHolds == DistinctIsExact
=============================================================================
