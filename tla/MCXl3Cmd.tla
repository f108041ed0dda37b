-------------------------------- MODULE MCXl3Cmd --------------------------------
(* Small instances of Xl3Cmd for TLC. *)
EXTENDS Xl3Cmd

MCOne   == {1}
MCBoth  == {1, 2}
MCTypes == {"CRATE_INIT_ID", "FAST_CMD_ID", "silent"}
MCSilent == {"silent"}
=============================================================================
