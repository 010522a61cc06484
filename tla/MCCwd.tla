-------------------------------- MODULE MCCwd --------------------------------
(* Names, paths and their spelling for the run of Cwd. *)
EXTENDS Cwd

TreeNames == {"", "/", "..", "a", "b", "etc", "passwd"}

\* "/a", "/a/", "/a/b", "/a/b/.."
TreePaths == {<<"a">>, <<"a", "">>, <<"a", "b">>, <<"a", "b", "..">>}
TreeModes == {{"CREAT"}, {"TRUNC"}}
OneByte == {<<1>>}

\* "b", "..", "etc", ""
RelativePaths == {<<"b">>, <<"..">>, <<"etc">>, <<"">>}

Letters == [n \in {"", "..", "a", "b", "etc", "passwd"} |->
  CASE n = "" -> <<>>
    [] n = ".." -> <<".", ".">>
    [] n = "a" -> <<"a">>
    [] n = "b" -> <<"b">>
    [] n = "etc" -> <<"e", "t", "c">>
    [] OTHER -> <<"p">>]
=============================================================================
