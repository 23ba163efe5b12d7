------------------------------ MODULE MCScheduler ------------------------------
(* A parent that is scheduled, a child that `add` makes, and `remove`.          *)
EXTENDS Scheduler

CONSTANTS j1, j2, daemon, rundue, adder, remover

MCJobs       == {j1, j2}
MCScheduled  == {j1}
MCParent     == [j \in MCJobs |-> IF j = j2 THEN j1 ELSE None]
MCMaxRetries == [j \in MCJobs |-> 1]
MCPasses     == {daemon, rundue}
MCDaemons    == {daemon}
MCAdders     == {adder}
MCAdds       == [a \in MCAdders |-> j2]
MCRemovers   == {remover}
MCRemoves    == [r \in MCRemovers |-> j1]

\* With the daemon and `add` alone the jobs fall due once more: a parent that has
\* succeeded fails in the pass in which its child is due.
MCScenarios  ==
  [started : {{daemon, adder, remover}}, faults : {1}, due : {2}]
  \cup [started : {{daemon, rundue, adder}, {daemon, rundue, remover}}, faults : {0}, due : {2}]
  \cup [started : {{daemon, adder}}, faults : {0}, due : {3}]
================================================================================
