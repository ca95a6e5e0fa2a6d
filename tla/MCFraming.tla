----------------------------- MODULE MCFraming -----------------------------
(***************************************************************************)
(* Bytes of two bits.  The messages: none, one byte, as much as a chunk    *)
(* takes, and one byte more; their bytes look like sizes and like ends.    *)
(***************************************************************************)
EXTENDS Framing

Msgs == {<<>>, <<0>>, <<2, 0, 1>>, <<1, 0, 3, 0>>}
=============================================================================
