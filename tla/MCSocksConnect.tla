--------------------------- MODULE MCSocksConnect ---------------------------
(***************************************************************************)
(* One request of each kind the handler tells apart.                       *)
(***************************************************************************)
EXTENDS SocksConnect

MCAllow == {<<"corp", "com">>}
MCExclude == {<<"cdn", "corp", "com">>}

Req(kind, name, resolves) == [kind |-> kind, name |-> name, resolves |-> resolves]
Named   == Req("connect", <<"www", "corp", "com">>, TRUE)
Excluded == Req("connect", <<"a", "cdn", "corp", "com">>, TRUE)
Unknown == Req("connect", <<"corp", "com">>, FALSE)
Address == Req("connect", <<>>, TRUE)
Refused == {Req(k, <<>>, TRUE) : k \in {"version", "command", "type"}}

MCRequests == {Named, Excluded, Unknown, Address, Req("udp", <<>>, TRUE)} \cup Refused
=============================================================================
