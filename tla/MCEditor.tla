------------------------------ MODULE MCEditor ------------------------------
(* Files and lines for the runs with the editor. *)
EXTENDS Editor

(* The second one fills the buffer and lacks its last newline. *)
MCFiles == {<<"a", NL, "b", "b", NL>>, <<"a", "b", "b", NL, "b", "a", "b", "a", NL>>}
MCOlds == {<<"a">>, <<"b">>, <<"b", "a">>}
MCTexts == {<<>>, <<"a">>, <<"b", "a">>}
=============================================================================
