---------------------------- MODULE MC_CacheKey ----------------------------
(* Uris and credentials of up to two characters over {a, :}. *)
EXTENDS CacheKey

MCChars == {"a", ":"}
MCMethods == {<<"G", "E", "T">>, <<"P", "U", "T">>}
=============================================================================
