-------------------------- MODULE MCDeviceThreads --------------------------
(* Small instances of DeviceThreads for TLC. *)
EXTENDS DeviceThreads
=============================================================================
