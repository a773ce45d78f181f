---------------------------- MODULE MCConsole ----------------------------
(* Console.tla on a small screen.                                          *)
EXTENDS Console

MCBlank == <<"none", 7>>
=============================================================================
