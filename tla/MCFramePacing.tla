--------------------------- MODULE MCFramePacing ---------------------------
(***************************************************************************)
(* Applications for the ring-slot model.                                   *)
(***************************************************************************)
EXTENDS FramePacing

\* One whose calls are all paced, and one that makes every call.
AnyApplication == {PacedCalls, Calls}

\* One that also draws into framebuffer objects, and reads them back.
FboApplication == {{"draw", "fboDraw", "clear", "present", "finish", "readback"}}

=============================================================================
