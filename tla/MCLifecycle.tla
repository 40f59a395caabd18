---------------------------- MODULE MCLifecycle ----------------------------
(* Lifecycle on a docker guest, a rootless and a rootful podman machine, a *)
(* Lima guest with a rootless podman, and machines the preflight or the    *)
(* kernel probe refuses; the last guest is a newer drawbridge's.           *)
EXTENDS Lifecycle

Good == [provider |-> "lima", engine |-> "docker", basics |-> TRUE, seccompKernel |-> TRUE, crun |-> TRUE,
         cookie |-> "yes", ftrace |-> "y", kernel |-> 608, arch |-> "arm64",
         rootful |-> FALSE, user |-> "core"]
MCMachines ==
    {Good,
     [Good EXCEPT !.engine = "podman"],
     [Good EXCEPT !.provider = "podman", !.engine = "podman"],
     [Good EXCEPT !.provider = "podman", !.engine = "podman", !.rootful = TRUE],
     [Good EXCEPT !.engine = "none", !.cookie = Nothing, !.kernel = 513, !.arch = "amd64", !.ftrace = Nothing],
     [Good EXCEPT !.cookie = Nothing, !.ftrace = Nothing, !.kernel = 515]}

Hand == [base |-> "user", rt |-> "no", dflt |-> "crun", fmt |-> "hand"]
MCGuests ==
    {[conf |-> NoFile, wrapper |-> 0, newer |-> FALSE],
     [conf |-> Hand, wrapper |-> 0, newer |-> FALSE],
     [conf |-> [Hand EXCEPT !.dflt = Nothing, !.fmt = "norm"], wrapper |-> 0, newer |-> FALSE],
     [conf |-> Merged(Hand), wrapper |-> DevBuild, newer |-> TRUE]}
=============================================================================
