---------------------------- MODULE MCBuildRootfs ----------------------------
(* Instances of BuildRootfs for TLC.                                       *)
EXTENDS BuildRootfs

\* A path three levels deep, and /etc with the two files derpy itself writes.
MCPath == {"usr", "usr/lib", "usr/lib/so", "conf", "backup"}
MCTouched == {"usr", "usr/lib", "usr/lib/so"}
MCAbove ==
    [p \in MCPath |-> CASE p = "usr/lib" -> {"usr"}
                        [] p = "usr/lib/so" -> {"usr", "usr/lib"}
                        [] OTHER -> {}]
===============================================================================
