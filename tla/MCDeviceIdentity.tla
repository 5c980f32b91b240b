-------------------------- MODULE MCDeviceIdentity --------------------------
(* A small instance of DeviceIdentity for TLC.                             *)
EXTENDS DeviceIdentity
=============================================================================
