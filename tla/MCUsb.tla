-------------------------------- MODULE MCUsb --------------------------------
EXTENDS Usb

C(k, addr, size) == [k |-> k, addr |-> addr, size |-> size]
Loads == <<C("load", 16, 19), C("call", 24, 0), C("load", 36, 3), C("start", 40, 0)>>
Flashes == <<C("flash", 8, 10)>>
Both == <<C("load", 16, 0), C("flash", 8, 18), C("start", 1, 0)>>
Misaligned == <<C("flash", 4, 4)>>
MCCases == {<<Loads, <<3>>>>, <<Flashes, <<7, 5, 3, 4>>>>, <<Both, <<4, 3, 0>>>>, <<Misaligned, <<3, 4>>>>}
=============================================================================
