---------------------------- MODULE MCInstaller ----------------------------
(* Installer with two Lima instances and one podman machine.               *)
EXTENDS Installer
=============================================================================
