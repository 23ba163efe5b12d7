------------------------------ MODULE MCSyncDaemon ------------------------------
EXTENDS SyncDaemon

CONSTANTS d1, d2, m1

MCDevices   == {d1, d2}
MCContents  == {m1}
MCAuthor    == [c \in MCContents |-> d1]
MCMaxDeltas == [d \in MCDevices |-> 2]
=============================================================================
