--------------------------- MODULE MCRegistryClient ---------------------------
(* Instances of RegistryClient for TLC.                                    *)
EXTENDS RegistryClient

\* Two images that share a layer.
MCContents == [i \in {"m1", "m2"} |-> IF i = "m1" THEN <<"c1", "base">> ELSE <<"c2", "base">>]

\* A list for two platforms, with the image for ours second, and one without it.
MCEntries == [l \in {"multi", "other"} |->
    IF l = "multi" THEN <<[platform |-> "arm64", image |-> "m1"], [platform |-> "amd64", image |-> "m2"]>>
    ELSE <<[platform |-> "arm64", image |-> "m1"]>>]

Task(kind, image, creds, rights, tokenAuth) ==
    [kind |-> kind, image |-> image, creds |-> creds, rights |-> rights, tokenAuth |-> tokenAuth]

\* Pushes of both images with an account that may push, pushes without one that the
\* registry lets push and that it does not; pulls without an account, and with one but
\* without tokens; a login.
MCWork == {
    Task("push", "m1", "valid", {"pull", "push"}, TRUE),
    Task("push", "m2", "valid", {"pull", "push"}, TRUE),
    Task("push", "m2", "none", {"pull", "push"}, TRUE),
    Task("push", "m1", "none", {"pull"}, TRUE),
    Task("pull", "m1", "none", {"pull"}, TRUE),
    Task("pull", "m1", "valid", {"pull"}, FALSE),
    Task("login", "m1", "valid", {"pull"}, TRUE)}
===============================================================================
