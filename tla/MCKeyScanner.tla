---------------------------- MODULE MCKeyScanner ----------------------------
(* Four buckets, of which three keys share one; the fourth key makes the    *)
(* table grow to eight, which separates one of the three from the others.  *)
(* Every kind of pattern finds keys that match and keys that do not.        *)
EXTENDS KeyScanner, TLC

MCHash == (<<"a">> :> 0) @@ (<<"a", "b">> :> 4) @@ (<<"b", "a">> :> 8)
            @@ (<<"b", "a", "b">> :> 1)

MCKey == DOMAIN MCHash

MCPatterns == {<<"*">>, <<"b", "a">>, <<"*", "a", "b">>, <<"b", "*">>, <<"*", "a", "b", "*">>}
=============================================================================
