------------------------------ MODULE MCHotkey ------------------------------
(* Instances of Hotkey for TLC. *)
EXTENDS Hotkey

CONSTANTS keyboard, mouse

MCDevice == {keyboard, mouse}
=============================================================================
