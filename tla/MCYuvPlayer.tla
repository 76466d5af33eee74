---------------------------- MODULE MCYuvPlayer ----------------------------
(* YuvPlayer with blocks of seven bytes and frames of three: files that end *)
(* with the first block, with a block, with a frame and with neither.       *)
EXTENDS YuvPlayer

MCFileSizes == {0, 2, 5, 7, 9, 13, 14, 21}
=============================================================================
