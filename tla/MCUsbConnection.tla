-------------------------- MODULE MCUsbConnection --------------------------
(* Instances of UsbConnection for TLC.  The two directions share nothing    *)
(* but the connection's lock, so Usb.cfg has messages of the device or      *)
(* messages of the host, never both.                                        *)
EXTENDS UsbConnection

OneWay == devSent' = <<>> \/ written' = <<>>

OneWaySpec == Init /\ [][Next /\ OneWay]_vars /\ Fairness
=============================================================================
