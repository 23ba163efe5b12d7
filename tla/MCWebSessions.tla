----------------------------- MODULE MCWebSessions -----------------------------
EXTENDS WebSessions

CONSTANTS s1, r1, r2, c1

MCSessions  == {s1}
MCPreserved == {{}, {s1}}
MCRuns      == {r1, r2}
MCClients   == {c1}
MCDirect    == {"error"}
MCBudgets   == {[requests |-> 2, restarts |-> 1, faults |-> 0],
                [requests |-> 1, restarts |-> 1, faults |-> 1]}
=============================================================================
