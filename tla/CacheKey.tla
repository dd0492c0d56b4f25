------------------------------ MODULE CacheKey ------------------------------
(***************************************************************************)
(* create_cache_key_raw of src/src/cache.rs: the lookup key of a request,  *)
(* "{method}:{uri}" or "{method}:{uri}:{auth}", method defaulting to GET.  *)
(* Strings are sequences of characters over a small alphabet that has the *)
(* separator ':' in it, since the properties are about the format.         *)
(***************************************************************************)
EXTENDS Integers, Sequences

CONSTANTS
    Chars,       \* the characters uris and credentials are built from
    Methods,     \* method strings, each a sequence of non-':' characters
    MaxStrLen,   \* the longest uri or credential enumerated
    None         \* an absent Option

ASSUME KeyAssumption ==
    /\ ":" \in Chars
    /\ MaxStrLen \in Nat
    /\ None \notin Seq(Chars)
    \* an HTTP method is a token, which has no ':'
    /\ Methods \subseteq Seq(STRING \ {":"})

(* The strings of at most MaxStrLen characters. *)
Strings == UNION {[1..n -> Chars] : n \in 0..MaxStrLen}

(* Mutant: the separator before the credential is left out. *)
CreateCacheKeyRawNoSep(uri, overrideMethod, auth) ==
    LET m == IF overrideMethod = None THEN <<"G", "E", "T">> ELSE overrideMethod
    IN  IF auth = None THEN m \o <<":">> \o uri ELSE m \o <<":">> \o uri \o auth

(* format!("{}:{}:{}", ..) with auth, format!("{}:{}", ..) without;        *)
(* override_method.unwrap_or("GET").                                       *)
CreateCacheKeyRaw(uri, overrideMethod, auth) ==
    LET m == IF overrideMethod = None THEN <<"G", "E", "T">> ELSE overrideMethod
    IN  IF auth = None THEN m \o <<":">> \o uri
        ELSE m \o <<":">> \o uri \o <<":">> \o auth

(* The inputs: uri, override_method and auth. *)
Triples == Strings \X (Methods \cup {None}) \X (Strings \cup {None})

Key(t) == CreateCacheKeyRaw(t[1], t[2], t[3])

(* A pair of inputs is chosen; the state never changes. *)
VARIABLES a, b

vars == <<a, b>>

Init == a \in Triples /\ b \in Triples

Next == UNCHANGED vars

Spec == Init /\ [][Next]_vars

-----------------------------------------------------------------------------
(* The effective method of an input. *)
MethodOf(t) == IF t[2] = None THEN <<"G", "E", "T">> ELSE t[2]

TypeOK == a \in Triples /\ b \in Triples

(* The text of a key after the method and its ':': the uri, then ':' and *)
(* the credential when there is one.                                      *)
Joined(t) == IF t[3] = None THEN t[1] ELSE (t[1] \o <<":">>) \o t[3]

(* Two requests get one key exactly when they have the same effective    *)
(* method and the same uri-and-credential text after it: the method is   *)
(* never confused with the uri, and the key only loses where the uri     *)
(* ends and the credential starts (a uri holding ':' against a shorter   *)
(* uri with a credential), which the read path cannot tell apart.        *)
KeysCollideExactly ==
    Key(a) = Key(b) <=> (MethodOf(a) = MethodOf(b) /\ Joined(a) = Joined(b))

(* Spec 4.1/8: create_cache_key_raw is injective over the triple; two   *)
(* requests that differ in effective method, uri or credential (absent  *)
(* or present) get different keys.                                       *)
KeysInjective ==
    Key(a) = Key(b) => (MethodOf(a) = MethodOf(b) /\ a[1] = b[1] /\ a[3] = b[3])
=============================================================================
