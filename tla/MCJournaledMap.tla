---------------------------- MODULE MCJournaledMap ----------------------------
(* A small instance of JournaledMap: a file d and the conflict name c that    *)
(* mkdir_file moves it to.                                                    *)
EXTENDS JournaledMap, TLC

CONSTANTS d, c, v1, v2

MCMoves == {d :> c}
=============================================================================
