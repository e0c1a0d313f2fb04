------------------------------- MODULE MCEmmc -------------------------------
(* The eMMC with requests of two segments and buffers of one to two        *)
(* requests.                                                               *)
EXTENDS Emmc
=============================================================================
