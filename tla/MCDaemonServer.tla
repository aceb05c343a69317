---------------------------- MODULE MCDaemonServer ----------------------------
(* Instances of DaemonServer for TLC.                                      *)
EXTENDS DaemonServer, TLC

\* Connections are interchangeable, and so are the threads of the pool.
Symmetry == Permutations(Client) \cup Permutations(Worker)
===============================================================================
