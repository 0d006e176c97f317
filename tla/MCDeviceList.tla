---------------------------- MODULE MCDeviceList ----------------------------
(* Instances of DeviceList for TLC. *)
EXTENDS DeviceList

MCPatterns == {Devices, {1}}
MCMasks == {{}, {"added"}, {"removed", "unchanged"}}
=============================================================================
