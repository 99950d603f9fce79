--------------------------- MODULE MCDeviceDiscovery ---------------------------
(* Small instances of DeviceDiscovery for TLC.                                *)
EXTENDS DeviceDiscovery

\* A serial glove is found, lost and found again, a bluetooth glove once.
MCMaxFound == [t \in Transports |-> IF t = "serial" THEN 2 ELSE 1]

================================================================================
