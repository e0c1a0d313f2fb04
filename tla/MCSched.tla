------------------------------ MODULE MCSched ------------------------------
(* Two threads, a condition of the eMMC driver and one between threads.    *)
EXTENDS Sched, TLC

CONSTANTS t1, t2, emmc, soft
TwoThreads == <<t1, t2>>
=============================================================================
