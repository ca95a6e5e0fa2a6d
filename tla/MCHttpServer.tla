---------------------------- MODULE MCHttpServer ----------------------------
(***************************************************************************)
(* Requests for one file and for the log, by clients that send as many     *)
(* pieces as they announce, or more (or go away before), and are told      *)
(* apart by nothing but what they ask.                                     *)
(***************************************************************************)
EXTENDS HttpServer, TLC

CONSTANTS page, log

ask(m, p, l, n) == [method |-> m, path |-> p, length |-> l, pieces |-> n]

Asked ==
  {ask("PUT", page, 2, 2), ask("PUT", log, 1, 2),
   ask("GET", page, 0, 0), ask("GET", log, 0, 0), ask("other", page, 0, 0)}

Symmetry == Permutations(Child)
=============================================================================
