--------------------------- MODULE MCFrameMemory ---------------------------
(***************************************************************************)
(* The memory of frames, and what the unit tests say of frames and files,  *)
(* which TLC evaluates before it starts.                                   *)
(***************************************************************************)
EXTENDS FrameMemory, UnitTests
=============================================================================
