------------------------------- MODULE MCMainLoop -------------------------------
(* Small instances of MainLoop for TLC. *)
EXTENDS MainLoop

MCNone      == {}
MCFull      == {"full"}
MCRefusals  == {"error", "full"}
=============================================================================
