----------------------------- MODULE MCHIDDevice -----------------------------
(* Three names, so that the tracker and another device may swap theirs     *)
(* while a file is still open on the third.                                *)
EXTENDS HIDDevice

CONSTANTS hidraw0, hidraw1, hidraw2

ThreePaths == {hidraw0, hidraw1, hidraw2}
=============================================================================
