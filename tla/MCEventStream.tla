---------------------------- MODULE MCEventStream ----------------------------
EXTENDS EventStream

MCConns == {"c1", "c2"}
MCPolls == {"k1", "k2"}
=============================================================================
