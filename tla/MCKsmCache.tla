----------------------------- MODULE MCKsmCache -----------------------------
(* The kube_* cache with two scrapers and a node that changes all the time.*)
EXTENDS KsmCache

chars(a, b, c, d) == SelectSeq(<<a, b, c, d>>, LAMBDA x : x # "")

\* Quantities as the API server writes them, two units parseQuantity does not
\* know, and some that denote nothing.
written == << chars("1", "6", "K", "i"), chars("1", "E", "i", ""),
              chars("5", "0", "m", ""), chars("1", "e", "3", ""),
              chars("1", "E", "", ""), chars("1", "E", "3", ""),
              chars(".", "5", "M", ""), chars("7", "", "", ""),
              chars("", "", "", ""), chars("M", "i", "", ""),
              chars("1", "n", "", ""), chars("1", ".", "2", "."),
              chars("1", "e", "m", ""), chars("2", ".", "k", ""),
              chars("m", "", "", ""), chars("-", "4", "G", "i"),
              chars("+", "5", "", ""), chars("1", "e", "-", "3"),
              chars("2", "E", "+", "1"), chars("-", ".", "5", ""),
              chars("3", "u", "", ""), chars("+", "-", "1", ""),
              chars("9", "P", "", ""), chars("e", "1", "", "") >>

quantity(i) == written[(i % Len(written)) + 1]

status(i) == <<"True", "False", "Unknown", "Weird">>[(i % 4) + 1]

MCNodeObj == [t \in 0..Horizon |->
    [conditions |-> [c \in {"Ready", "DiskPressure"} |->
                        IF c = "Ready" THEN status(t) ELSE status(t + 1)],
     capacity |-> [r \in {"cpu", "memory", "pods"} |->
                      CASE r = "cpu" -> quantity(3 * t)
                        [] r = "memory" -> quantity(3 * t + 1)
                        [] OTHER -> quantity(3 * t + 2)],
     allocatable |-> [r \in {"cpu"} |-> quantity(3 * t + 5)]]]

MCPodObjs == [t \in 0..Horizon |->
    [p \in IF t % 2 = 0 THEN {"web"} ELSE {"web", "job"} |->
        [phase |-> <<"Pending", "Running", "Gone">>[(t % 3) + 1],
         owners |-> IF p = "web" THEN <<"rs", "other">> ELSE <<>>,
         containers |-> [c \in {"main"} |-> [ready |-> t % 2 = 0, restarts |-> t]]]]]
=============================================================================
