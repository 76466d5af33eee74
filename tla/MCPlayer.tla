------------------------------ MODULE MCPlayer ------------------------------
(* The player on small files.                                              *)
EXTENDS Player

Both == {"audio", "video"}

(* Either queue fills while the other one is empty; a packet of a third    *)
(* stream, and files that lack a stream.                                   *)
MCFiles ==
  { [streams |-> Both, packets |-> <<"video", "audio", "video">>],
    [streams |-> Both, packets |-> <<"other", "audio", "audio", "video">>],
    [streams |-> {"audio"}, packets |-> <<"audio">>],
    [streams |-> {"video"}, packets |-> <<"video">>] }
=============================================================================
