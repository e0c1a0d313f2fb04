------------------------------- MODULE MCNvme -------------------------------
(* The NVMe driver with the queues of blk_nvme.c and a small namespace.    *)
EXTENDS Nvme

MCMaxCid == <<1, 3>>
=============================================================================
