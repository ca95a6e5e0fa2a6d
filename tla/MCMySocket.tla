----------------------------- MODULE MCMySocket -----------------------------
(***************************************************************************)
(* Two ends, a and b, of one connection, and the programs run on them.     *)
(***************************************************************************)
EXTENDS MySocket, TLC

CONSTANTS a, b, m1, m2, m3

Ends == {a, b}
PeerOf == (a :> b) @@ (b :> a)
Msgs == {m1, m2, m3}

put(m) == [call |-> "my_send", msg |-> m]
get == [call |-> "my_recv"]
close == [call |-> "my_close"]

\* Both ways, one of them with more messages than a table and S hold.
BothWays ==
  (a :> <<put(m1), put(m2), put(m3), get, close>>)
    @@ (b :> <<put(m1), get, get, get, close>>)

\* b closes while there is more to come, and a sends to the very end.
CloseEarly ==
  (a :> <<put(m1), put(m2), put(m3), close>>) @@ (b :> <<get, put(m1), close>>)

\* b waits for a message more than a sends before it closes.
OneTooMany == (a :> <<put(m1), close>>) @@ (b :> <<get, get, close>>)
=============================================================================
