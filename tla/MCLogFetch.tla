----------------------------- MODULE MCLogFetch -----------------------------
(* Instances of LogFetch for TLC.                                          *)
EXTENDS LogFetch, TLC

CONSTANTS f1, f2, k1, p1, p2, app, proxy

MCAppNames    == <<"orders", "audit">>
MCNamespaceOf == [s \in {"orders", "audit"} |-> s]
MCMatches     == [s \in {"orders", "audit"} |-> IF s = "orders" THEN {p1, p2} ELSE {p2}]
MCByRecency   == <<p1, p2>>
MCContainersOf == [p \in {p1, p2} |-> {app, proxy}]
MCRestarted   == {<<p2, app>>}
MCRotated     == {<<p2, app>>}
MCMentions    == {<<p2, app>>}
MCOversized   == {<<p2, app>>}
MCChains      == {<<"kubernetes", "elastic">>, <<"kubernetes">>}
MCKubernetes  == {<<"kubernetes">>}
MCNone        == {}
MCClusters    == {[listed |-> {p1, p2}, closed |-> {}, unlistable |-> {}],
                  [listed |-> {p1, p2}, closed |-> {}, unlistable |-> {"audit"}],
                  [listed |-> {}, closed |-> {}, unlistable |-> {}],
                  [listed |-> {p1}, closed |-> {"orders"}, unlistable |-> {"audit"}]}
=============================================================================
