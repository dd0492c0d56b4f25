--------------------------- MODULE CacheKey_proofs ---------------------------
(* Proofs about create_cache_key_raw (CacheKey) for every alphabet, every  *)
(* set of methods and every length of uri and credential.                 *)
EXTENDS CacheKey, SequenceTheorems, TLAPS

(* The characters of keys: those of uris and credentials, and those of  *)
(* the method strings, the default GET included.                         *)
KeyChars == Chars \cup {"G", "E", "T"} \cup UNION {{m[i] : i \in DOMAIN m} : m \in Methods}

(* The separator format! puts between the fields. *)
Sep == <<":">>

(* What follows the method and its separator in a key. *)
Rest(t) == IF t[3] = None THEN t[1] ELSE (t[1] \o Sep) \o t[3]

-----------------------------------------------------------------------------
(* The shape of a head z joined by the separator to a tail w: their      *)
(* lengths add up, the head comes first, then ':', then the tail.         *)
JoinFacts(S, z, w) ==
    /\ (z \o Sep) \o w \in Seq(S)
    /\ Len((z \o Sep) \o w) = Len(z) + 1 + Len(w)
    /\ \A i \in 1..Len(z) : ((z \o Sep) \o w)[i] = z[i]
    /\ ((z \o Sep) \o w)[Len(z) + 1] = ":"
    /\ \A j \in 1..Len(w) : ((z \o Sep) \o w)[Len(z) + 1 + j] = w[j]

-----------------------------------------------------------------------------
(* A key is its head, the separator, and its tail, in that shape. *)
LEMMA JoinShape ==
    ASSUME NEW S, ":" \in S, NEW z \in Seq(S), NEW w \in Seq(S)
    PROVE  JoinFacts(S, z, w)
<1>1. Sep \in Seq(S) /\ Len(Sep) = 1 /\ Sep[1] = ":"
  BY DEF Sep
<1>2. /\ z \o Sep \in Seq(S)
      /\ Len(z \o Sep) = Len(z) + 1
      /\ \A i \in 1..(Len(z) + 1) :
            (z \o Sep)[i] = IF i <= Len(z) THEN z[i] ELSE Sep[i - Len(z)]
  BY <1>1, ConcatProperties
<1>3. /\ (z \o Sep) \o w \in Seq(S)
      /\ Len((z \o Sep) \o w) = Len(z \o Sep) + Len(w)
      /\ \A i \in 1..(Len(z \o Sep) + Len(w)) :
            ((z \o Sep) \o w)[i] =
               IF i <= Len(z \o Sep) THEN (z \o Sep)[i] ELSE w[i - Len(z \o Sep)]
  BY <1>2, ConcatProperties
<1>4. QED
  BY <1>1, <1>2, <1>3 DEF JoinFacts

(* A key splits at its first ':' only: two heads without ':' that are    *)
(* joined by the separator to two tails give one key only if the heads   *)
(* are equal and the tails are equal.                                     *)
LEMMA SplitAtFirstColon ==
    ASSUME NEW S, ":" \in S,
           NEW x \in Seq(S \ {":"}), NEW y \in Seq(S \ {":"}),
           NEW s \in Seq(S), NEW t \in Seq(S)
    PROVE  (x \o Sep) \o s = (y \o Sep) \o t => x = y /\ s = t
<1>1. x \in Seq(S) /\ y \in Seq(S)
  BY SeqMonotonic
<1>2. /\ Len((x \o Sep) \o s) = Len(x) + 1 + Len(s)
      /\ \A i \in 1..Len(x) : ((x \o Sep) \o s)[i] = x[i]
      /\ ((x \o Sep) \o s)[Len(x) + 1] = ":"
  <2>1. JoinFacts(S, x, s)
    BY <1>1, JoinShape
  <2>2. QED
    BY <2>1 DEF JoinFacts
<1>3. /\ Len((y \o Sep) \o t) = Len(y) + 1 + Len(t)
      /\ \A i \in 1..Len(y) : ((y \o Sep) \o t)[i] = y[i]
      /\ ((y \o Sep) \o t)[Len(y) + 1] = ":"
  <2>1. JoinFacts(S, y, t)
    BY <1>1, JoinShape
  <2>2. QED
    BY <2>1 DEF JoinFacts
<1>0. HAVE (x \o Sep) \o s = (y \o Sep) \o t
<1>4. Len(x) = Len(y)
  <2>1. Len(x) \in Nat /\ Len(y) \in Nat
    BY <1>1
  <2>2. ~(Len(x) < Len(y))
    <3>1. SUFFICES ASSUME Len(x) < Len(y) PROVE FALSE
      OBVIOUS
    <3>2. y[Len(x) + 1] \in S \ {":"}
      BY <2>1, <3>1, ElementOfSeq
    <3>3. QED
      BY <1>0, <1>2, <1>3, <2>1, <3>1, <3>2
  <2>3. ~(Len(y) < Len(x))
    <3>1. SUFFICES ASSUME Len(y) < Len(x) PROVE FALSE
      OBVIOUS
    <3>2. x[Len(y) + 1] \in S \ {":"}
      BY <2>1, <3>1, ElementOfSeq
    <3>3. QED
      BY <1>0, <1>2, <1>3, <2>1, <3>1, <3>2
  <2>4. QED
    BY <2>1, <2>2, <2>3
<1>5. x = y
  BY <1>0, <1>1, <1>2, <1>3, <1>4, SeqEqual
<1>6. s = t
  <2>1. x \o Sep \in Seq(S)
    BY <1>1, ConcatProperties DEF Sep
  <2>2. (x \o Sep) \o s = (x \o Sep) \o t
    BY <1>0, <1>5
  <2>3. QED
    BY <2>1, <2>2, ConcatSimplifications
<1>7. QED
  BY <1>5, <1>6

(* The strings enumerated are strings of key characters. *)
LEMMA StringsAreSeqs ==
    Strings \subseteq Seq(KeyChars)
<1> SUFFICES ASSUME NEW s \in Strings PROVE s \in Seq(KeyChars)
  OBVIOUS
<1>1. PICK n \in 0..MaxStrLen : s \in [1..n -> Chars]
  BY DEF Strings
<1>2. n \in Nat /\ s \in [1..n -> KeyChars]
  BY <1>1, KeyAssumption DEF KeyChars
<1>3. QED
  BY <1>2, SeqDef

(* Concatenation of key strings is associative. *)
LEMMA KeyConcatAssoc ==
    \A u, v, w \in Seq(KeyChars) : (u \o v) \o w = u \o (v \o w)
BY ConcatAssociative

(* The separator is a key character. *)
LEMMA SepIsKeyChar ==
    ":" \in KeyChars /\ Sep \in Seq(KeyChars)
BY KeyAssumption DEF KeyChars, Sep

(* SplitAtFirstColon for key strings. *)
LEMMA KeySplit ==
    \A x, y \in Seq(KeyChars \ {":"}) : \A s, t \in Seq(KeyChars) :
       (x \o Sep) \o s = (y \o Sep) \o t => x = y /\ s = t
BY SepIsKeyChar, SplitAtFirstColon

(* The position just after a head lies within the joined string. *)
LEMMA HeadInJoin ==
    ASSUME NEW m \in Nat, NEW n \in Nat, NEW l, l = m + 1 + n
    PROVE  m + 1 \in 1..l
OBVIOUS

-----------------------------------------------------------------------------
(* Every key is its effective method, the separator and its rest; the    *)
(* method has no ':', and the rest is the uri, or the uri, ':' and    *)
(* the credential.                                                         *)
LEMMA KeyShape ==
    ASSUME NEW t \in Triples
    PROVE  /\ Key(t) = (MethodOf(t) \o Sep) \o Rest(t)
           /\ MethodOf(t) \in Seq(KeyChars \ {":"})
           /\ Rest(t) \in Seq(KeyChars)
<1>1. t[1] \in Seq(KeyChars) /\ (t[3] # None => t[3] \in Seq(KeyChars))
  BY StringsAreSeqs DEF Triples
<1>2. Sep \in Seq(KeyChars)
  BY KeyAssumption DEF Sep, KeyChars
<1>3. MethodOf(t) \in Seq(KeyChars \ {":"})
  <2>1. <<"G", "E", "T">> \in Seq(KeyChars \ {":"})
    BY DEF KeyChars
  <2>2. Methods \subseteq Seq(KeyChars \ {":"})
    <3> SUFFICES ASSUME NEW m \in Methods PROVE m \in Seq(KeyChars \ {":"})
      OBVIOUS
    <3>1. m \in Seq(STRING \ {":"})
      BY KeyAssumption
    <3>2. Len(m) \in Nat /\ DOMAIN m = 1..Len(m) /\ m \in [1..Len(m) -> STRING \ {":"}]
      BY <3>1, LenProperties
    <3>3. \A i \in 1..Len(m) : m[i] # ":" /\ m[i] \in KeyChars
      <4> SUFFICES ASSUME NEW i \in 1..Len(m) PROVE m[i] # ":" /\ m[i] \in KeyChars
        OBVIOUS
      <4>1. m[i] \in STRING \ {":"}
        BY <3>1, ElementOfSeq
      <4>2. m[i] \in {m[j] : j \in DOMAIN m}
        BY <3>2
      <4>3. QED
        BY <4>1, <4>2 DEF KeyChars
    <3>4. m \in [1..Len(m) -> KeyChars \ {":"}]
      BY <3>2, <3>3
    <3>5. QED
      BY <3>2, <3>4, SeqDef
  <2>3. QED
    BY <2>1, <2>2 DEF MethodOf, Triples
<1>4. MethodOf(t) \in Seq(KeyChars)
  BY <1>3, SeqMonotonic
<1>5. CASE t[3] = None
  <2>1. Key(t) = (MethodOf(t) \o Sep) \o t[1]
    BY <1>5 DEF Key, CreateCacheKeyRaw, MethodOf, Sep
  <2>2. Rest(t) = t[1]
    BY <1>5 DEF Rest
  <2>3. QED
    BY <1>1, <1>3, <2>1, <2>2
<1>6. CASE t[3] # None
  <2>1. Key(t) = (((MethodOf(t) \o Sep) \o t[1]) \o Sep) \o t[3]
    BY <1>6 DEF Key, CreateCacheKeyRaw, MethodOf, Sep
  <2>2. MethodOf(t) \o Sep \in Seq(KeyChars)
    BY <1>2, <1>4, ConcatProperties
  <2>3. t[1] \o Sep \in Seq(KeyChars)
    BY <1>1, <1>2, ConcatProperties
  <2>4. t[3] \in Seq(KeyChars)
    BY <1>1, <1>6
  <2>5. ((MethodOf(t) \o Sep) \o t[1]) \o Sep = (MethodOf(t) \o Sep) \o (t[1] \o Sep)
    BY <1>1, <1>2, <2>2, KeyConcatAssoc
  <2>6. ((MethodOf(t) \o Sep) \o (t[1] \o Sep)) \o t[3] =
          (MethodOf(t) \o Sep) \o ((t[1] \o Sep) \o t[3])
    BY <2>2, <2>3, <2>4, KeyConcatAssoc
  <2>7. (t[1] \o Sep) \o t[3] \in Seq(KeyChars)
    BY <2>3, <2>4, ConcatProperties
  <2>8. Rest(t) = (t[1] \o Sep) \o t[3]
    BY <1>6 DEF Rest
  <2>9. QED
    BY <1>3, <2>1, <2>5, <2>6, <2>7, <2>8
<1>7. QED
  BY <1>5, <1>6

(* The rest of a key is the uri-and-credential text Joined names. *)
LEMMA RestIsJoined ==
    ASSUME NEW t \in Triples
    PROVE  Rest(t) = Joined(t)
BY DEF Rest, Joined, Sep

(* Two inputs give one key exactly when their effective methods are the *)
(* same and the text after the method is the same.                        *)
LEMMA KeyCollision ==
    ASSUME NEW t1 \in Triples, NEW t2 \in Triples
    PROVE  Key(t1) = Key(t2) <=> (MethodOf(t1) = MethodOf(t2) /\ Joined(t1) = Joined(t2))
<1>1. /\ Key(t1) = (MethodOf(t1) \o Sep) \o Rest(t1)
      /\ MethodOf(t1) \in Seq(KeyChars \ {":"})
      /\ Rest(t1) \in Seq(KeyChars)
  BY KeyShape
<1>2. /\ Key(t2) = (MethodOf(t2) \o Sep) \o Rest(t2)
      /\ MethodOf(t2) \in Seq(KeyChars \ {":"})
      /\ Rest(t2) \in Seq(KeyChars)
  BY KeyShape
<1>3. Rest(t1) = Joined(t1) /\ Rest(t2) = Joined(t2)
  BY RestIsJoined
<1>4. ASSUME Key(t1) = Key(t2)
      PROVE  MethodOf(t1) = MethodOf(t2) /\ Rest(t1) = Rest(t2)
  <2>1. (MethodOf(t1) \o Sep) \o Rest(t1) = (MethodOf(t2) \o Sep) \o Rest(t2)
    BY <1>1, <1>2, <1>4
  <2>2. \A s, t \in Seq(KeyChars) :
           (MethodOf(t1) \o Sep) \o s = (MethodOf(t2) \o Sep) \o t =>
              MethodOf(t1) = MethodOf(t2) /\ s = t
    BY <1>1, <1>2, KeySplit
  <2>3. QED
    BY <1>1, <1>2, <2>1, <2>2
<1>5. ASSUME MethodOf(t1) = MethodOf(t2), Rest(t1) = Rest(t2)
      PROVE  Key(t1) = Key(t2)
  BY <1>1, <1>2, <1>5
<1>6. QED
  BY <1>3, <1>4, <1>5

(* create_cache_key_raw loses nothing but the split point: for every     *)
(* alphabet, every set of methods and every length of uri and credential,*)
(* two requests get one key exactly when their effective methods agree   *)
(* and their uri-and-credential texts agree.                              *)
THEOREM KeysCollideExactlyHolds == Spec => []KeysCollideExactly
<1>1. TypeOK => KeysCollideExactly
  BY KeyCollision DEF TypeOK, KeysCollideExactly
<1>2. Init => TypeOK
  BY DEF Init, TypeOK
<1>3. TypeOK /\ [Next]_vars => TypeOK'
  BY DEF TypeOK, Next, vars
<1>4. QED
  BY <1>1, <1>2, <1>3, PTL DEF Spec
=============================================================================
