------------------------------ MODULE MCEditor ------------------------------
(***************************************************************************)
(* The editor on a file that may be missing, empty, one line without its   *)
(* '\n' or longer than a block.                                            *)
(***************************************************************************)
EXTENDS EditorScreen

MCFirstFiles == {NoFile, <<>>, <<"a">>, <<"a", "n", "a", "a", "a", "a", "n">>}
=============================================================================
