---------------------------- MODULE MCRoleSwitch ----------------------------
(* Two role files that share a sensor, one of which disables a tool. *)
EXTENDS RoleSwitch

MCSensorTable == <<"voice">>
MCSensorsOf == [r \in Named |-> IF r = Default THEN <<>> ELSE <<"voice">>]
MCDisabledBy == [r \in Named |-> IF r = "desk" THEN <<"camera">> ELSE <<>>]
=============================================================================
