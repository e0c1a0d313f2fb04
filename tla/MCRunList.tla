----------------------------- MODULE MCRunList -----------------------------
(* Three runnables, two contexts, two waiter lists.                        *)
EXTENDS RunList, TLC
=============================================================================
