---------------------------- MODULE MCDeviceFlow ----------------------------
(***************************************************************************)
(* DeviceFlow for TLC.                                                     *)
(***************************************************************************)
EXTENDS DeviceFlow

CONSTANTS ada, grace \* people

MCClaimNames == {"sub", "org", "sid", "email"}
=============================================================================
