---------------------------- MODULE MCWatchTargets ----------------------------
(* Constants of WatchTargets for TLC. *)
EXTENDS WatchTargets

\* A directory with two entries, one of them a directory with an entry, and a
\* path beside it.
MCPath == {<<"a">>, <<"a", "a">>, <<"a", "b">>, <<"a", "a", "a">>, <<"b">>}
=============================================================================
