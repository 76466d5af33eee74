--------------------------- MODULE MCPictureQueue ---------------------------
(* The picture queue on small instances.                                   *)
EXTENDS PictureQueue
=============================================================================
