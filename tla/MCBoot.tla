------------------------------- MODULE MCBoot -------------------------------
(* Configurations of the boot media: Init chooses one of them.             *)
EXTENDS Boot

UpToTwo == {c \in SUBSET Medium : Cardinality(c) <= 2} \ {{"SD", "NVME"}}
=============================================================================
