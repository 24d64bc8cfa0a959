---------------------------- MODULE MCDeviceCore ----------------------------
(* DeviceCore on small instances.  Two accounts: connections c1 and c2 are   *)
(* u1's, which may also resize, c3 is u2's.                                  *)
EXTENDS DeviceCore, TLC

CONSTANTS c1, c2, c3, u1, u2

MCUidThree == c1 :> u1 @@ c2 :> u1 @@ c3 :> u2
MCUidTwo == c1 :> u1 @@ c2 :> u1
MCPermission == u1 :> Permissions @@ u2 :> {"view", "control"}
MCPermissionOne == u1 :> Permissions
=============================================================================
