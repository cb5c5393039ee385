---------------------------- MODULE MCRespParser ----------------------------
(* Instances of RespParser for TLC. *)
EXTENDS RespParser

\* One argument; an empty one; one that looks like protocol.
Commands == {<< <<"x">> >>, << <<"x">>, <<>> >>, << <<"x">>, <<"\r", "\n", "$">> >>}

OneCommand == {<< <<"x">>, <<"x", "x">> >>}
=============================================================================
