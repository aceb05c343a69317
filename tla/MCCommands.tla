------------------------------ MODULE MCCommands -------------------------------
(* Instances of Commands for TLC.                                          *)
EXTENDS Commands, TLC

Run(kind, tag, force) == [kind |-> kind, tag |-> tag, force |-> force]

\* Every command, on one tag or all; a removal of the base image, too.
MCWork == {Run("build", "app", FALSE), Run("ls", "app", FALSE),
           Run("rm", "app", FALSE), Run("rm", "base", FALSE),
           Run("purge", "app", FALSE), Run("purge", "app", TRUE), Run("push", "app", FALSE)}

Symmetry == Permutations(Command)
===============================================================================
