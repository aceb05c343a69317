------------------------------ MODULE MCAuthStore ------------------------------
(* Instances of AuthStore for TLC.                                         *)
EXTENDS AuthStore, TLC

Named(host, bare) == [host |-> host, bare |-> bare]

\* Docker Hub by two names and as a URL, and another registry with and without scheme.
MCSpelling == {Named("docker.io", TRUE), Named("index.docker.io", TRUE),
               Named("docker.io", FALSE), Named("ghcr.io", FALSE)}

Symmetry == Permutations(Process) \cup Permutations(User)
===============================================================================
