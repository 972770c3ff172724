------------------------ MODULE MCPlaytestSupervisor ------------------------
EXTENDS PlaytestSupervisor
CONSTANTS server, client
\* In the first playtest the server writes more than its pipe holds, in the
\* second one each child just one line.
Output == [p \in Processes |-> IF p = <<server, 1>> THEN 7 ELSE 2]
=============================================================================
