----------------------- MODULE HeaderConversion_proofs -----------------------
(* Proofs about convert_headers (HeaderConversion) for every bound, every  *)
(* set of names and values and every iteration order.                      *)
EXTENDS HeaderConversion, TLAPS

(* A HashMap entry. *)
Entry == [name : Names, value : Values]

(* The indices among the first n of s whose entry is valid and folds to c. *)
HeaderKeys(s, n, c) == {k \in 1..n : Valid(s[k]) /\ CanonOf[s[k].name] = c}

(* The value of the last of the indices ks, or NoValue. *)
LastValue(s, ks) ==
    IF ks = {} THEN NoValue ELSE s[CHOOSE k \in ks : \A m \in ks : m <= k].value

(* The map the loop has built from the first n entries of s: under each   *)
(* header name, the value of the last valid entry that folds to it.       *)
Upto(s, n) == [c \in Canons |-> LastValue(s, HeaderKeys(s, n, c))]

(* The inductive invariant of the loop: while it runs, it has handled the *)
(* first i entries and never more than Limit + 1 of them; once it is done *)
(* the map is the reference one.                                          *)
LoopInv ==
    /\ hs \in Seq(Entry)
    /\ i \in 0..Len(hs)
    /\ pc \in {"loop", "done"}
    /\ pc = "loop" => i <= Limit + 1 /\ out = Upto(hs, i)
    /\ pc = "done" => out = Reference(hs)

-----------------------------------------------------------------------------
(* Every name folds to a header name of the map's domain. *)
LEMMA CanonInCanons ==
    ASSUME NEW n \in Names
    PROVE  CanonOf[n] \in Canons
BY DEF Canons

(* The inputs are sequences of entries. *)
LEMMA InputsAreSeqs ==
    Inputs \subseteq Seq(Entry)
<1> SUFFICES ASSUME NEW s \in Inputs PROVE s \in Seq(Entry)
  OBVIOUS
<1>1. PICK ns \in SeqOf(Names, MaxLen) :
        \E vs \in [1..Len(ns) -> Values] :
           s = [k \in 1..Len(ns) |-> [name |-> ns[k], value |-> vs[k]]]
  BY DEF Inputs
<1>2. PICK m \in 0..MaxLen : ns \in [1..m -> Names]
  BY <1>1 DEF SeqOf
<1>3. ns \in Seq(Names) /\ Len(ns) = m
  BY <1>2, HeaderConversionAssumption
<1>4. PICK vs \in [1..Len(ns) -> Values] :
           s = [k \in 1..Len(ns) |-> [name |-> ns[k], value |-> vs[k]]]
  BY <1>1
<1>5. QED
  BY <1>3, <1>4, HeaderConversionAssumption DEF Entry

(* The largest element of a set of numbers that holds n + 1 and numbers  *)
(* below it is n + 1.                                                    *)
LEMMA ChooseMax ==
    ASSUME NEW n \in Nat, NEW S \in SUBSET (1..(n + 1)), n + 1 \in S
    PROVE  (CHOOSE k \in S : \A m \in S : m <= k) = n + 1
<1>1. \A k \in S : (\A m \in S : m <= k) <=> k = n + 1
  OBVIOUS
<1>2. QED
  BY <1>1, Zenon

(* One turn of the loop: the map of the first n + 1 entries is the map of *)
(* the first n with entry n + 1 inserted if it is valid.                  *)
LEMMA UptoStep ==
    ASSUME NEW s \in Seq(Entry), NEW n \in 0..(Len(s) - 1)
    PROVE  Upto(s, n + 1) =
              IF Valid(s[n + 1])
              THEN [Upto(s, n) EXCEPT ![CanonOf[s[n + 1].name]] = s[n + 1].value]
              ELSE Upto(s, n)
<1> DEFINE e == s[n + 1]
<1>1. e \in Entry
  OBVIOUS
<1>2. CanonOf[e.name] \in Canons
  BY <1>1, CanonInCanons DEF Entry
<1>3. ASSUME NEW c \in Canons, ~(Valid(e) /\ CanonOf[e.name] = c)
      PROVE  HeaderKeys(s, n + 1, c) = HeaderKeys(s, n, c)
  BY <1>3 DEF HeaderKeys
<1>4. ASSUME NEW c \in Canons, Valid(e), CanonOf[e.name] = c
      PROVE  LastValue(s, HeaderKeys(s, n + 1, c)) = e.value
  <2>1. HeaderKeys(s, n + 1, c) \in SUBSET (1..(n + 1))
        /\ n + 1 \in HeaderKeys(s, n + 1, c)
    BY <1>4 DEF HeaderKeys
  <2>2. (CHOOSE k \in HeaderKeys(s, n + 1, c) :
            \A m \in HeaderKeys(s, n + 1, c) : m <= k) = n + 1
    BY <2>1, ChooseMax
  <2>3. QED
    BY <2>1, <2>2 DEF LastValue
<1>5. CASE Valid(e)
  <2>1. ASSUME NEW c \in Canons
        PROVE  Upto(s, n + 1)[c] =
                 [Upto(s, n) EXCEPT ![CanonOf[e.name]] = e.value][c]
    <3>1. CASE CanonOf[e.name] = c
      BY <1>2, <1>4, <1>5, <3>1 DEF Upto
    <3>2. CASE CanonOf[e.name] # c
      BY <1>2, <1>3, <3>2 DEF Upto
    <3>3. QED
      BY <3>1, <3>2
  <2>2. QED
    BY <2>1, <1>5, <1>2 DEF Upto
<1>6. CASE ~Valid(e)
  <2>1. ASSUME NEW c \in Canons PROVE Upto(s, n + 1)[c] = Upto(s, n)[c]
    BY <1>3, <1>6 DEF Upto
  <2>2. QED
    BY <2>1, <1>6 DEF Upto
<1>7. QED
  BY <1>5, <1>6

(* The reference map is the map of the first min(Len(s), Limit + 2) entries. *)
LEMMA ReferenceIsUpto ==
    ASSUME NEW s \in Seq(Entry), NEW n \in 0..Len(s), n <= Limit + 2,
           n = Len(s) \/ n = Limit + 2
    PROVE  Reference(s) = Upto(s, n)
<1>1. ASSUME NEW c \in Canons
      PROVE  {k \in Kept(s) : CanonOf[s[k].name] = c} = HeaderKeys(s, n, c)
  BY HeaderConversionAssumption DEF Kept, HeaderKeys
<1>2. ASSUME NEW c \in Canons PROVE Reference(s)[c] = Upto(s, n)[c]
  <2> DEFINE A == {k \in Kept(s) : CanonOf[s[k].name] = c}
  <2>1. Reference(s)[c] = LastValue(s, A)
    BY DEF Reference, LastValue
  <2>2. Upto(s, n)[c] = LastValue(s, HeaderKeys(s, n, c))
    BY DEF Upto
  <2>3. LastValue(s, A) = LastValue(s, HeaderKeys(s, n, c))
    BY <1>1
  <2>4. QED
    BY <2>1, <2>2, <2>3
<1>3. QED
  BY <1>2 DEF Reference, Upto

-----------------------------------------------------------------------------
(* The loop invariant holds initially. *)
LEMMA InitLoopInv == Init => LoopInv
<1> SUFFICES ASSUME Init PROVE LoopInv
  OBVIOUS
<1>1. hs \in Seq(Entry)
  BY InputsAreSeqs DEF Init
<1>2. Upto(hs, 0) = [c \in Canons |-> NoValue]
  BY DEF Upto, HeaderKeys, LastValue
<1>3. QED
  BY <1>1, <1>2, HeaderConversionAssumption DEF Init, LoopInv

(* Every turn of the loop, and its end, keeps the loop invariant. *)
LEMMA NextLoopInv == LoopInv /\ [Next]_vars => LoopInv'
<1> SUFFICES ASSUME LoopInv, [Next]_vars PROVE LoopInv'
  OBVIOUS
<1>1. CASE ConvertEntry
  <2>1. pc = "loop" /\ i < Len(hs) /\ i <= Limit + 1 /\ out = Upto(hs, i)
    BY <1>1 DEF ConvertEntry, LoopInv
  <2>2. out' = Upto(hs, i + 1) /\ hs' = hs
    BY <1>1, <2>1, UptoStep DEF ConvertEntry, LoopInv
  <2>3. CASE i > Limit
    <3>1. pc' = "done" /\ i' = i
      BY <1>1, <2>3 DEF ConvertEntry
    <3>2. Reference(hs) = Upto(hs, i + 1)
      BY <2>1, <2>3, ReferenceIsUpto, HeaderConversionAssumption DEF LoopInv
    <3>3. QED
      BY <2>1, <2>2, <3>1, <3>2 DEF LoopInv
  <2>4. CASE ~(i > Limit)
    <3>1. pc' = "loop" /\ i' = i + 1
      BY <1>1, <2>1, <2>4 DEF ConvertEntry
    <3>2. QED
      BY <2>1, <2>2, <2>4, <3>1, HeaderConversionAssumption DEF LoopInv
  <2>5. QED
    BY <2>3, <2>4
<1>2. CASE LoopEnds
  <2>1. pc = "loop" /\ i = Len(hs) /\ i <= Limit + 1 /\ out = Upto(hs, i)
    BY <1>2 DEF LoopEnds, LoopInv
  <2>2. Reference(hs) = Upto(hs, i)
    BY <2>1, ReferenceIsUpto, HeaderConversionAssumption DEF LoopInv
  <2>3. QED
    BY <1>2, <2>1, <2>2 DEF LoopEnds, LoopInv
<1>3. CASE UNCHANGED vars
  BY <1>3 DEF vars, LoopInv
<1>4. QED
  BY <1>1, <1>2, <1>3 DEF Next

(* convert_headers returns exactly the valid entries among the first     *)
(* Limit + 2 of the iteration, the last of each header name winning, for *)
(* every bound and every iteration order of the HashMap.                  *)
THEOREM ConvertsPrefixHolds == Spec => []ConvertsPrefix
<1>1. LoopInv => ConvertsPrefix
  BY DEF LoopInv, ConvertsPrefix
<1>2. QED
  BY InitLoopInv, NextLoopInv, <1>1, PTL DEF Spec
=============================================================================
