--------------------------- MODULE Visualisation ----------------------------
(***************************************************************************)
(* What the display expects of every chart (DataPrograms/Visualisation.h). *)
(* A frame is made of two passes (gui/Display.cpp, RunDisplay: "We need to *)
(* render twice, once for each eye"), each of which calls Render once.  A  *)
(* chart may put new data on its screen for the first eye only: the second *)
(* one sees what the first one saw.                                        *)
(***************************************************************************)
EXTENDS Integers

VARIABLES
  eye,     \* the eye the next pass is for, 0 and then 1
  shown    \* the data the last pass put on the screen

frameVars == <<eye, shown>>

Init == eye = 0

Render ==
  /\ eye' = 1 - eye
  /\ eye = 1 => shown' = shown

Spec == Init /\ [][Render]_frameVars
=============================================================================
