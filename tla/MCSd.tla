-------------------------------- MODULE MCSd --------------------------------
(* The SD card with requests of three blocks, the last of a payload        *)
(* shorter than that.                                                      *)
EXTENDS Sd
=============================================================================
