------------------------------ MODULE MCUsbHost ------------------------------
(* UsbHost for TLC. *)
EXTENDS UsbHost

MCCfgLen == <<3, 4>>
=============================================================================
