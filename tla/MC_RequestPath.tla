--------------------------- MODULE MC_RequestPath ---------------------------
(* One user on the allowlist and one that is not, in all three auth modes.  *)
EXTENDS RequestPath

MCUsers == {"alice", "bob"}
MCTrusted == {"alice"}

\* Every header that some property or rule is about, and some that no rule knows.
MCRequestNames ==
    Identifying \union ConnectionBound \union RequestStrip \union WebSocketAllowed \union
    {<<"accept">>, <<"content", "type">>, <<"dsh", "hop">>}

MCResponseNames ==
    Granting \union ConnectionBound \union ResponseStrip \union
    {<<"content", "type">>, <<"dsh", "hop">>, <<"proxy", "hop">>}

MCNameable ==
    {<<"accept">>, <<"dsh", "hop">>, <<"host">>, <<"sec", "websocket", "protocol">>}
=============================================================================
