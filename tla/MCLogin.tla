------------------------------ MODULE MCLogin ------------------------------
(* Small instances of Login for TLC: a user with a password, one without,  *)
(* one with an entry that is no hash.  fgets() takes a name and its end;   *)
(* the longest lines come to it in two parts.                              *)
EXTENDS Login, TLC

mc_Words == {"ann", "bob", "eve", "pass"}
mc_Passwd == "ann" :> "pass" @@ "bob" :> "" @@ "eve" :> "invalid"

\* Some leave a name behind in the buffer: <<"pass", "blank", "bob">> when
\* scanf() takes a word of it, the last one when fgets() takes a part.
mc_Lines == {<<>>, <<"ann">>, <<"bob">>, <<"eve">>, <<"pass">>,
             <<"pass", "blank", "bob">>, <<"pass", "pass", "ann">>}
=============================================================================
