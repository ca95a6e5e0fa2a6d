------------------------------ MODULE MCBrowser ------------------------------
(***************************************************************************)
(* Urls with the port at both places, one of them and none: two of the     *)
(* same file, if the second is for a PUT into its directory, one of a file *)
(* that is not there, and one without a path.  A local file whose name has *)
(* a directory and one that does not exist.  Contents with the bytes that  *)
(* the loops look for, empty and longer than a chunk.                      *)
(***************************************************************************)
EXTENDS Browser, TLC

Url(port, path, late) == [host |-> "host", port |-> port, path |-> path, late |-> late]

TheUrls ==
  {Url("90", <<"/", "docs", "/", "f">>, "8080"), Url("90", <<"/", "docs", "/">>, "none"),
   Url("none", <<"/", "h">>, "none"), Url("none", <<>>, "90")}

TheNames == {<<"dir", "/", "f">>, <<"g">>}

TheNumber == [p \in {"80", "90", "8080"} |->
                CASE p = "80" -> 80 [] p = "90" -> 90 [] p = "8080" -> 8080]

Long == <<"r", "n", "r", "n", "c">>

Texts == {<<>>, <<"c">>, Long}

Files(mine, theirs) ==
  [s \in Side |-> IF s = "browser" THEN <<"dir", "f">> :> mine
                                  ELSE <<"docs", "f">> :> theirs]

\* The server has a file of its own at the url.
TheDisks == {Files(Long, <<"c">>), Files(<<>>, Long)}
=============================================================================
