---------------------------- MODULE MCSocksUdp ----------------------------
(***************************************************************************)
(* A client's destinations that tell the lists apart: at or below an       *)
(* allowed domain, or an excluded one below it; and one that does not      *)
(* resolve.                                                                *)
(***************************************************************************)
EXTENDS SocksUdp

MCAllow == {<<"corp", "com">>}
MCExclude == {<<"cdn", "corp", "com">>}

D(name, good) == [name |-> name, good |-> good]
Inside   == D(<<"www", "corp", "com">>, TRUE)
Excluded == D(<<"a", "cdn", "corp", "com">>, TRUE)
Unknown  == D(<<"corp", "com">>, FALSE)

MCDests == {Inside, Excluded}
BadDests == {Inside, Unknown}
=============================================================================
