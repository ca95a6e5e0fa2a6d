-------------------------- MODULE MCHttpExchange --------------------------
(***************************************************************************)
(* Files with the bytes the loops look for, empty, shorter than a chunk    *)
(* and longer than one.                                                    *)
(***************************************************************************)
EXTENDS HttpExchange

Contents ==
  {<<>>, <<"c">>, <<"r", "n", "r", "n">>,
   <<"n", "c", "r", "c", "r", "r", "n", "c", "c", "n", "r">>}
=============================================================================
