------------------------------- MODULE MCRamFS -------------------------------
(* Names, paths, modes and texts for the runs of RamFS. *)
EXTENDS FileCommands

AllNames == {"", "/", "..", "a", "b", "etc", "passwd"}

\* "/a", "/a/", "/a/b", "/a/b/.."
TreePaths == {<<"a">>, <<"a", "">>, <<"a", "b">>, <<"a", "b", "..">>}
TreeModes == {{"CREAT"}, {"TRUNC"}}
OneByte == {<<1>>}

DataPaths == {<<"etc", "passwd">>, <<"b">>}
DataModes == {{"CREAT", "TRUNC"}, {"CREAT", "APPEND"}}
Texts == {<<1, 2>>}

\* Nothing is said of contents once an open directory was removed.
NotStale == ~stale
=============================================================================
