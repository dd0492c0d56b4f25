--------------------------- MODULE HeaderConversion ---------------------------
(***************************************************************************)
(* convert_headers of src/src/cache.rs: the loop over a HashMap<String,   *)
(* String> that builds a reqwest HeaderMap.  An entry is kept when its     *)
(* value passes HeaderValue::from_str and its name HeaderName::from_str,   *)
(* which folds the name to lower case; insert replaces an earlier value of *)
(* the same header name.  After handling the entry at index Limit + 1 the  *)
(* loop breaks (index > 1000 in the code, Limit = 1000).                   *)
(*                                                                         *)
(* The HashMap's iteration order is not specified, so the input is every   *)
(* sequence of entries with distinct names.                                *)
(***************************************************************************)
EXTENDS Integers, Sequences, FiniteSets, SequencesExt

CONSTANTS
    Names,      \* header names as strings (distinct HashMap keys)
    CanonOf,    \* CanonOf[n]: the lower-cased HeaderName of n
    BadNames,   \* names HeaderName::from_str rejects
    Values,     \* header values
    BadValues,  \* values HeaderValue::from_str rejects
    Limit,      \* the index after which the loop breaks (1000)
    MaxLen,     \* the longest header map enumerated
    NoValue     \* a header name absent from the map

ASSUME HeaderConversionAssumption ==
    /\ CanonOf \in [Names -> STRING]
    /\ BadNames \subseteq Names /\ BadValues \subseteq Values
    /\ Limit \in Nat /\ MaxLen \in Nat
    /\ NoValue \notin Values

Canons == {CanonOf[n] : n \in Names}

(* Every header map of at most MaxLen entries, in every iteration order. *)
Inputs ==
    UNION { {[k \in 1..Len(ns) |-> [name |-> ns[k], value |-> vs[k]]] :
                vs \in [1..Len(ns) -> Values]} :
            ns \in {s \in SeqOf(Names, MaxLen) : IsInjective(s)} }

(* Both conversions of the entry succeed. *)
Valid(e) == e.value \notin BadValues /\ e.name \notin BadNames

VARIABLES
    hs,     \* the input map, in iteration order
    i,      \* the index of the next entry (enumerate())
    out,    \* the HeaderMap: out[c] is the value under name c, or NoValue
    pc      \* "loop" or "done"

vars == <<hs, i, out, pc>>

Init ==
    /\ hs \in Inputs
    /\ i = 0
    /\ out = [c \in Canons |-> NoValue]
    /\ pc = "loop"

(* Mutant: the loop breaks one entry early (index >= 1000). *)
ConvertEntryEarlyBreak ==
    /\ pc = "loop"
    /\ i < Len(hs)
    /\ LET e == hs[i + 1] IN
       out' = IF Valid(e) THEN [out EXCEPT ![CanonOf[e.name]] = e.value] ELSE out
    /\ IF i >= Limit
       THEN pc' = "done" /\ UNCHANGED i
       ELSE i' = i + 1 /\ UNCHANGED pc
    /\ UNCHANGED hs

(* One turn of the loop: convert and insert the entry at index i, then  *)
(* break if i > Limit.                                                  *)
ConvertEntry ==
    /\ pc = "loop"
    /\ i < Len(hs)
    /\ LET e == hs[i + 1] IN
       out' = IF Valid(e) THEN [out EXCEPT ![CanonOf[e.name]] = e.value] ELSE out
    /\ IF i > Limit
       THEN pc' = "done" /\ UNCHANGED i
       ELSE i' = i + 1 /\ UNCHANGED pc
    /\ UNCHANGED hs

(* The iterator is exhausted; header_map is returned. *)
LoopEnds ==
    /\ pc = "loop"
    /\ i = Len(hs)
    /\ pc' = "done"
    /\ UNCHANGED <<hs, i, out>>

Next == ConvertEntry \/ LoopEnds

Spec == Init /\ [][Next]_vars

-----------------------------------------------------------------------------
(* The reference: the valid entries among the first Limit + 2 of the     *)
(* iteration, the last one of each header name winning.                  *)
Kept(s) == {k \in 1..Len(s) : k <= Limit + 2 /\ Valid(s[k])}

Reference(s) ==
    [c \in Canons |->
        LET ks == {k \in Kept(s) : CanonOf[s[k].name] = c}
        IN  IF ks = {} THEN NoValue
            ELSE s[CHOOSE k \in ks : \A m \in ks : m <= k].value]

(* convert_headers returns exactly the reference map: every entry up to  *)
(* and including index Limit + 1 is considered, none after it, and of two *)
(* names that fold to one header the later in iteration order wins.       *)
ConvertsPrefix == pc = "done" => out = Reference(hs)
=============================================================================
