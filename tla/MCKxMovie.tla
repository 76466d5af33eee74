----------------------------- MODULE MCKxMovie -----------------------------
(* Short movies: sound only, pictures only, both, pictures without a       *)
(* duration; and what the user and the system may do meanwhile.            *)
EXTENDS KxMovie

Movie(streams, packets, undated) ==
  [streams |-> streams, packets |-> packets, undated |-> undated]
Sound    == Movie({"audio"}, <<"audio", "audio", "audio">>, {})
Short    == Movie({"audio"}, <<"audio", "audio">>, {})
Pictures == Movie({"video"}, <<"video", "other", "video">>, {})
Both     == Movie({"audio", "video"}, <<"audio", "video", "audio">>, {})
Webcam   == Movie({"video"}, <<"video", "video">>, {1, 2})
Talk     == Movie({"audio", "video"}, <<"video", "audio", "video">>, {3})

Viewing(m, h, s) == [movie |-> m, history |-> h, script |-> s]
MCViewings ==
  {Viewing(m, NoHistory, s) : m \in {Sound, Pictures, Both},
     s \in { <<"touch", "touch", "touch">>, <<"warn", "warn">>,
             <<"hide", "show">>, <<"interrupt", "interrupt">>, <<"seek", "hide">> }}
  \cup {Viewing(m, 1, <<"touch">>) : m \in {Sound, Both}}
  \cup {Viewing(Pictures, NoHistory, <<"seek", "seek">>),
        Viewing(Short, NoHistory, <<"seek", "touch">>),
        Viewing(Short, NoHistory, <<"touch", "seek", "seek">>),
        Viewing(Both, NoHistory, <<"seek", "warn">>),
        Viewing(Short, NoHistory, <<"hide", "warn", "show">>),
        Viewing(Webcam, NoHistory, <<"seek">>),
        Viewing(Webcam, NoHistory, <<"warn">>),
        Viewing(Webcam, NoHistory, <<"touch", "touch">>),
        Viewing(Talk, NoHistory, <<"warn">>)}

(* A memory warning and nothing else. *)
MCWarned == {Viewing(Sound, NoHistory, <<"warn">>)}
=============================================================================
