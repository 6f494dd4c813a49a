---------------------------- MODULE MCUsbSession ----------------------------
(* UsbSession with messages of less than, exactly and more than a packet.  *)
EXTENDS UsbSession
=============================================================================
