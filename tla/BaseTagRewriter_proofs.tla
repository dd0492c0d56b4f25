----------------------- MODULE BaseTagRewriter_proofs -----------------------
(* Proofs about rewrite_base_tag (BaseTagRewriter) for documents of every *)
(* length.                                                                *)
EXTENDS BaseTagRewriter, SequenceTheorems, FiniteSetTheorems, TLAPS

(* No token of s is a base tag of the document. *)
BaseFree(s) == \A i \in DOMAIN s : s[i] \notin {"baseAbs", "baseRel"}

(* The inductive invariant behind NoStrayBase: the OnceLock               *)
(* base_tag_inserted is set only together with already_present; until    *)
(* already_present is set the output holds no base of the document; and  *)
(* a rewritten result is such an output.                                  *)
StrayInv ==
    /\ TypeOK
    /\ inserted => present
    /\ present \/ BaseFree(out)
    /\ result.kind = "rewritten" => BaseFree(result.body)

-----------------------------------------------------------------------------
(* Documents are sequences of input tokens, and so of output tokens. *)
LEMMA DocsAreSeqs ==
    Docs \subseteq Seq(InTokens) /\ Seq(InTokens) \subseteq Seq(OutTokens)
<1>1. Docs \subseteq Seq(InTokens)
  <2> SUFFICES ASSUME NEW d \in Docs PROVE d \in Seq(InTokens)
    OBVIOUS
  <2>1. PICK n \in 0..MaxLen : d \in [1..n -> InTokens]
    BY DEF Docs
  <2>2. QED
    BY <2>1, MaxLenAssumption, SeqDef
<1>2. Seq(InTokens) \subseteq Seq(OutTokens)
  BY SeqMonotonic DEF OutTokens
<1>3. QED
  BY <1>1, <1>2

(* The fragment an end-tag closure inserts is an output token, whatever *)
(* the element.                                                          *)
LEMMA FragmentType ==
    ASSUME NEW x PROVE Fragment(x) \in {"ins", "insHead"}
BY DEF Fragment

(* One token completed by an end-tag closure: the output grows by the end *)
(* tag, or by the fragment and the end tag.                               *)
LEMMA EndTagOut ==
    ASSUME TypeOK, OnEndTag
    PROVE  \E t \in {"/head", "/html"} :
              \/ out' = Append(out, t)
              \/ \E f \in {"ins", "insHead"} : out' = out \o <<f, t>>
<1>1. PICK t \in {"/head", "/html"} :
         /\ Completes(t)
         /\ out' = IF open[Len(open)].snap THEN Append(out, t)
                   ELSE out \o <<Fragment(open[Len(open)].tag), t>>
  BY DEF OnEndTag
<1>2. Fragment(open[Len(open)].tag) \in {"ins", "insHead"}
  BY FragmentType
<1>3. CASE open[Len(open)].snap
  BY <1>1, <1>3
<1>4. CASE ~open[Len(open)].snap
  BY <1>1, <1>2, <1>4
<1>5. QED
  BY <1>3, <1>4

(* Every step keeps every variable in its type. *)
LEMMA TypeStep == TypeOK /\ [Next]_vars => TypeOK'
<1> SUFFICES ASSUME TypeOK, [Next]_vars PROVE TypeOK'
  OBVIOUS
<1>0. doc \in Seq(InTokens) /\ Len(doc) \in Nat
  BY DocsAreSeqs DEF TypeOK
<1>1. CASE EmptyInput \/ Begin \/ NextChunk \/ EndChunk \/ WriteFails
  BY <1>1 DEF EmptyInput, Begin, NextChunk, EndChunk, WriteFails, TypeOK
<1>2. CASE OnBase
  <2>1. PICK t \in {"baseAbs", "baseRel"} :
           /\ Completes(t)
           /\ \/ out' = Append(out, t) /\ UNCHANGED <<inserted, present>>
              \/ inserted' = TRUE /\ present' = TRUE /\ out' = Append(out, t)
              \/ UNCHANGED <<inserted, present, out>>
    BY <1>2 DEF OnBase
  <2>2. pos' \in 1..(Len(doc) + 1) /\ progressed' = TRUE
    BY <2>1, <1>0 DEF Completes, TypeOK
  <2>3. out' \in Seq(OutTokens)
    <3>1. t \in OutTokens /\ out \in Seq(OutTokens)
      BY DEF TypeOK, OutTokens, InTokens
    <3>2. Append(out, t) \in Seq(OutTokens)
      BY <3>1, AppendProperties
    <3>3. QED
      BY <2>1, <3>1, <3>2
  <2>4. QED
    BY <1>2, <2>1, <2>2, <2>3 DEF OnBase, TypeOK
<1>3. CASE OnStartTag
  <2>1. PICK t \in OpenTags :
           /\ Completes(t)
           /\ open' = Append(open, [tag |-> t, snap |-> inserted])
           /\ out' = Append(out, t)
    BY <1>3 DEF OnStartTag
  <2>2. pos' \in 1..(Len(doc) + 1) /\ progressed' = TRUE
    BY <2>1, <1>0 DEF Completes, TypeOK
  <2>3. open' \in Seq(OpenRec) /\ out' \in Seq(OutTokens)
    BY <2>1 DEF TypeOK, OpenRec, OpenTags, OutTokens, InTokens
  <2>4. QED
    BY <1>3, <2>2, <2>3 DEF OnStartTag, TypeOK
<1>4. CASE OnEndTag
  <2>1. PICK t \in {"/head", "/html"} :
           /\ Completes(t)
           /\ open' = SubSeq(open, 1, Len(open) - 1)
    BY <1>4 DEF OnEndTag
  <2>2. pos' \in 1..(Len(doc) + 1) /\ progressed' = TRUE
    BY <2>1, <1>0 DEF Completes, TypeOK
  <2>3. open' \in Seq(OpenRec)
    BY <2>1 DEF TypeOK
  <2>4. out' \in Seq(OutTokens)
    <3>1. PICK u \in {"/head", "/html"} :
             \/ out' = Append(out, u)
             \/ \E f \in {"ins", "insHead"} : out' = out \o <<f, u>>
      BY <1>4, EndTagOut
    <3>2. u \in OutTokens /\ out \in Seq(OutTokens)
      BY DEF TypeOK, OutTokens, InTokens
    <3>3. Append(out, u) \in Seq(OutTokens)
      BY <3>2, AppendProperties
    <3>4. ASSUME NEW f \in {"ins", "insHead"} PROVE out \o <<f, u>> \in Seq(OutTokens)
      <4>1. <<f, u>> \in Seq(OutTokens)
        BY <3>2 DEF OutTokens
      <4>2. QED
        BY <3>2, <4>1, ConcatProperties
    <3>5. QED
      BY <3>1, <3>3, <3>4
  <2>5. QED
    BY <1>4, <2>2, <2>3, <2>4 DEF OnEndTag, TypeOK
<1>5. CASE OnText
  <2>1. pos' \in 1..(Len(doc) + 1) /\ progressed' = TRUE
    BY <1>5, <1>0 DEF OnText, Completes, TypeOK
  <2>2. QED
    BY <1>5, <2>1 DEF OnText, TypeOK, OutTokens, InTokens
<1>6. CASE Finish
  <2>1. FromUtf8(doc) \in Results /\ AutoEncode(out) \in Results
    BY <1>0, DocsAreSeqs DEF FromUtf8, AutoEncode, Results, TypeOK
  <2>2. QED
    BY <1>6, <2>1 DEF Finish, TypeOK
<1>7. CASE UNCHANGED vars
  BY <1>7 DEF vars, TypeOK
<1>8. QED
  BY <1>1, <1>2, <1>3, <1>4, <1>5, <1>6, <1>7 DEF Next

(* The initial states are well typed. *)
LEMMA InitType == Init => TypeOK
<1> SUFFICES ASSUME Init PROVE TypeOK
  OBVIOUS
<1>1. doc \in Seq(InTokens)
  BY DocsAreSeqs DEF Init
<1>2. pos \in 1..(Len(doc) + 1)
  BY <1>1 DEF Init
<1>3. result \in Results /\ open \in Seq(OpenRec) /\ out \in Seq(OutTokens)
  BY DEF Init, Results
<1>4. QED
  BY <1>2, <1>3 DEF Init, TypeOK

(* rewrite_base_tag keeps its state well typed for documents of every    *)
(* length; in particular an end-tag closure only ever adds its end tag   *)
(* and one of the two fragments to the output.                           *)
THEOREM TypeCorrect == Spec => []TypeOK
<1>1. QED
  BY InitType, TypeStep, PTL DEF Spec

-----------------------------------------------------------------------------
(* Appending tokens that are not base tags keeps an output base-free. *)
LEMMA BaseFreeAppend ==
    ASSUME NEW b \in Seq(OutTokens), BaseFree(b),
           NEW x \in OutTokens \ {"baseAbs", "baseRel"}
    PROVE  BaseFree(Append(b, x))
BY AppendProperties DEF BaseFree

(* So does concatenating two of them. *)
LEMMA BaseFreeConcat ==
    ASSUME NEW b \in Seq(OutTokens), BaseFree(b),
           NEW x \in OutTokens \ {"baseAbs", "baseRel"},
           NEW y \in OutTokens \ {"baseAbs", "baseRel"}
    PROVE  BaseFree(b \o <<x, y>>)
<1>1. <<x, y>> \in Seq(OutTokens)
  OBVIOUS
<1>2. /\ Len(b \o <<x, y>>) = Len(b) + 2
      /\ \A i \in 1..(Len(b) + 2) :
            (b \o <<x, y>>)[i] = IF i <= Len(b) THEN b[i] ELSE <<x, y>>[i - Len(b)]
  BY <1>1, ConcatProperties
<1>3. QED
  BY <1>2 DEF BaseFree

(* A base-tag handler keeps the invariant: a kept base goes out only once *)
(* already_present is set.                                                *)
LEMMA OnBaseStray ==
    ASSUME StrayInv, OnBase PROVE (inserted => present)' /\ (present \/ BaseFree(out))'
<1>1. PICK t \in {"baseAbs", "baseRel"} :
         IF inserted
         THEN out' = Append(out, t) /\ UNCHANGED <<inserted, present>>
         ELSE IF t = "baseAbs"
              THEN /\ inserted' = TRUE /\ present' = TRUE
                   /\ out' = Append(out, t)
              ELSE UNCHANGED <<inserted, present, out>>
  BY DEF OnBase
<1>2. CASE inserted
  BY <1>1, <1>2 DEF StrayInv
<1>3. CASE ~inserted /\ t = "baseAbs"
  BY <1>1, <1>3
<1>4. CASE ~inserted /\ t # "baseAbs"
  BY <1>1, <1>4 DEF StrayInv
<1>5. QED
  BY <1>2, <1>3, <1>4

(* Every step keeps the invariant. *)
LEMMA StrayStep == StrayInv /\ [Next]_vars => StrayInv'
<1> SUFFICES ASSUME StrayInv, [Next]_vars PROVE StrayInv'
  OBVIOUS
<1>0. TypeOK'
  BY TypeStep DEF StrayInv
<1> DEFINE NB == OutTokens \ {"baseAbs", "baseRel"}
<1>a. out \in Seq(OutTokens)
  BY DEF StrayInv, TypeOK
<1>1. CASE EmptyInput \/ Begin \/ NextChunk \/ EndChunk \/ WriteFails
  BY <1>0, <1>1 DEF EmptyInput, Begin, NextChunk, EndChunk, WriteFails, StrayInv
<1>2. CASE OnBase
  BY <1>0, <1>2, OnBaseStray DEF OnBase, StrayInv
<1>3. CASE OnStartTag
  <2>1. PICK t \in OpenTags : out' = Append(out, t)
    BY <1>3 DEF OnStartTag
  <2>2. t \in NB
    BY DEF OpenTags, OutTokens, InTokens
  <2>3. BaseFree(out) => BaseFree(out')
    BY <1>a, <2>1, <2>2, BaseFreeAppend
  <2>4. QED
    BY <1>0, <1>3, <2>3 DEF OnStartTag, StrayInv
<1>4. CASE OnEndTag
  <2>1. PICK u \in {"/head", "/html"} :
           \/ out' = Append(out, u)
           \/ \E f \in {"ins", "insHead"} : out' = out \o <<f, u>>
    BY <1>4, EndTagOut DEF StrayInv
  <2>2. u \in NB /\ "ins" \in NB /\ "insHead" \in NB
    BY DEF OutTokens, InTokens
  <2>3. BaseFree(out) => BaseFree(out')
    BY <1>a, <2>1, <2>2, BaseFreeAppend, BaseFreeConcat
  <2>4. QED
    BY <1>0, <1>4, <2>3 DEF OnEndTag, StrayInv
<1>5. CASE OnText
  <2>1. out' = Append(out, "text") /\ "text" \in NB
    BY <1>5 DEF OnText, OutTokens, InTokens
  <2>2. BaseFree(out) => BaseFree(out')
    BY <1>a, <2>1, BaseFreeAppend
  <2>3. QED
    BY <1>0, <1>5, <2>2 DEF OnText, StrayInv
<1>6. CASE Finish
  <2>1. CASE present
    BY <1>0, <1>6, <2>1 DEF Finish, FromUtf8, StrayInv
  <2>2. CASE ~present
    BY <1>0, <1>6, <2>2 DEF Finish, AutoEncode, StrayInv
  <2>3. QED
    BY <2>1, <2>2
<1>7. CASE UNCHANGED vars
  BY <1>0, <1>7 DEF vars, StrayInv, BaseFree
<1>8. QED
  BY <1>1, <1>2, <1>3, <1>4, <1>5, <1>6, <1>7 DEF Next

(* A page rewritten by rewrite_base_tag keeps none of its own base tags, *)
(* for documents of every length and every chunking: a relative or       *)
(* missing href is removed, an absolute one makes the function return    *)
(* the original, and so every base in a rewritten page was inserted.     *)
THEOREM NoStrayBaseHolds == Spec => []NoStrayBase
<1>1. Init => StrayInv
  BY InitType DEF Init, StrayInv, BaseFree
<1>2. StrayInv => NoStrayBase
  BY DEF StrayInv, BaseFree, NoStrayBase
<1>3. QED
  BY <1>1, <1>2, StrayStep, PTL DEF Spec
-----------------------------------------------------------------------------
(* The number of elements open after the first n tokens of d. *)
Depth(d, n) ==
    (IF IsOpen(d, n, "html") THEN 1 ELSE 0)
      + (IF IsOpen(d, n, "head") THEN 1 ELSE 0)

(* An output holds an inserted fragment. *)
HasFragment(s) == \E i \in DOMAIN s : s[i] \in {"ins", "insHead"}

(* One of the first n tokens of d is an end tag of head or html. *)
ClosedBy(d, n) == \E j \in 1..n : d[j] \in {"/head", "/html"}

(* The inductive invariant behind AtLeastOneBase: the element stack holds *)
(* one entry per element open in the tokens consumed; no chunk is being  *)
(* written outside the loop; a loop ended without error or               *)
(* already_present has consumed the whole document, and the function then *)
(* returns the rewritten buffer; and in a document without an absolute   *)
(* base neither lock is ever set, every closure's clone is unset, and an *)
(* end tag consumed has put a fragment into the output.                   *)
BaseInv ==
    /\ TypeOK
    /\ Len(open) = Depth(doc, pos - 1)
    /\ phase \in {"start", "finish", "done"} => ~inChunk
    /\ phase = "start" => pos = 1
    /\ phase \in {"finish", "done"} /\ ~wroteError /\ ~present => pos = Len(doc) + 1
    /\ phase = "done" /\ doc # <<>> /\ ~present => result = AutoEncode(out)
    /\ ~Has(doc, "baseAbs") =>
          /\ ~inserted /\ ~present
          /\ \A k \in 1..Len(open) : ~open[k].snap
          /\ ClosedBy(doc, pos - 1) => HasFragment(out)
-----------------------------------------------------------------------------
(* No element is open before the first token. *)
LEMMA IsOpenZero ==
    ASSUME NEW d, NEW t PROVE ~IsOpen(d, 0, t)
BY DEF IsOpen

(* One more token: an element of tag t is open after it iff the token is *)
(* its start tag, or it was open before and the token is not its end tag. *)
LEMMA IsOpenStep ==
    ASSUME NEW d \in Seq(InTokens), NEW n \in 1..Len(d), NEW t \in OpenTags
    PROVE  IsOpen(d, n, t) <=>
              \/ d[n] = t
              \/ IsOpen(d, n - 1, t) /\ d[n] # EndTag(t)
<1>1. ASSUME IsOpen(d, n, t), d[n] # t
      PROVE  IsOpen(d, n - 1, t) /\ d[n] # EndTag(t)
  <2>1. PICK j \in 1..n : d[j] = t /\ \A k \in (j + 1)..n : d[k] # EndTag(t)
    BY <1>1 DEF IsOpen
  <2>2. j # n /\ j \in 1..(n - 1)
    BY <1>1, <2>1
  <2>3. d[n] # EndTag(t)
    BY <2>1, <2>2
  <2>4. \A k \in (j + 1)..(n - 1) : d[k] # EndTag(t)
    BY <2>1
  <2>5. QED
    BY <2>1, <2>2, <2>3, <2>4 DEF IsOpen
<1>2. ASSUME d[n] = t PROVE IsOpen(d, n, t)
  <2>1. \A k \in (n + 1)..n : d[k] # EndTag(t)
    OBVIOUS
  <2>2. QED
    BY <1>2, <2>1 DEF IsOpen
<1>3. ASSUME IsOpen(d, n - 1, t), d[n] # EndTag(t) PROVE IsOpen(d, n, t)
  <2>1. PICK j \in 1..(n - 1) : d[j] = t /\ \A k \in (j + 1)..(n - 1) : d[k] # EndTag(t)
    BY <1>3 DEF IsOpen
  <2>2. \A k \in (j + 1)..n : d[k] # EndTag(t)
    BY <1>3, <2>1
  <2>3. QED
    BY <2>1, <2>2 DEF IsOpen
<1>4. QED
  BY <1>1, <1>2, <1>3

(* The document is a well nested sequence of input tokens. *)
LEMMA DocNested ==
    ASSUME TypeOK PROVE doc \in Seq(InTokens) /\ Nested(doc)
BY DocsAreSeqs DEF TypeOK, Docs

(* How one token changes the number of open elements: a start tag opens *)
(* one, an end tag closes one, and a base or text leaves it.            *)
LEMMA DepthStep ==
    ASSUME TypeOK, NEW n \in 1..Len(doc)
    PROVE  /\ doc[n] \in OpenTags => Depth(doc, n) = Depth(doc, n - 1) + 1
           /\ doc[n] \in {"/head", "/html"} =>
                 Depth(doc, n - 1) >= 1 /\ Depth(doc, n) = Depth(doc, n - 1) - 1
           /\ doc[n] \in {"baseAbs", "baseRel", "text"} => Depth(doc, n) = Depth(doc, n - 1)
<1>0. doc \in Seq(InTokens) /\ Nested(doc)
  BY DocNested
<1> DEFINE H0 == IsOpen(doc, n - 1, "html")  H1 == IsOpen(doc, n, "html")
           D0 == IsOpen(doc, n - 1, "head")  D1 == IsOpen(doc, n, "head")
<1>1. /\ H1 <=> (doc[n] = "html" \/ (H0 /\ doc[n] # "/html"))
      /\ D1 <=> (doc[n] = "head" \/ (D0 /\ doc[n] # "/head"))
  BY <1>0, IsOpenStep DEF OpenTags, EndTag
<1>2. /\ doc[n] \in OpenTags => ~D0 /\ ~IsOpen(doc, n - 1, doc[n])
      /\ doc[n] = "/head" => D0
      /\ doc[n] = "/html" => H0 /\ ~D0
  BY <1>0 DEF Nested
<1>3. Depth(doc, n) = (IF H1 THEN 1 ELSE 0) + (IF D1 THEN 1 ELSE 0)
      /\ Depth(doc, n - 1) = (IF H0 THEN 1 ELSE 0) + (IF D0 THEN 1 ELSE 0)
  BY DEF Depth
<1>4. CASE doc[n] = "html"
  <2>1. H1 /\ ~H0 /\ (D1 <=> D0)
    BY <1>1, <1>2, <1>4 DEF OpenTags
  <2>2. QED
    BY <1>3, <1>4, <2>1 DEF OpenTags
<1>5. CASE doc[n] = "head"
  <2>1. D1 /\ ~D0 /\ (H1 <=> H0)
    BY <1>1, <1>2, <1>5 DEF OpenTags
  <2>2. QED
    BY <1>3, <1>5, <2>1 DEF OpenTags
<1>6. CASE doc[n] = "/head"
  <2>1. ~D1 /\ D0 /\ (H1 <=> H0)
    BY <1>1, <1>2, <1>6
  <2>2. QED
    BY <1>3, <1>6, <2>1 DEF OpenTags
<1>7. CASE doc[n] = "/html"
  <2>1. ~H1 /\ H0 /\ ~D1 /\ ~D0
    BY <1>1, <1>2, <1>7
  <2>2. QED
    BY <1>3, <1>7, <2>1 DEF OpenTags
<1>8. CASE doc[n] \in {"baseAbs", "baseRel", "text"}
  <2>1. (H1 <=> H0) /\ (D1 <=> D0)
    BY <1>1, <1>8
  <2>2. QED
    BY <1>3, <1>8, <2>1 DEF OpenTags
<1>9. QED
  <2>1. doc[n] \in InTokens
    BY <1>0
  <2>2. QED
    BY <2>1, <1>4, <1>5, <1>6, <1>7, <1>8 DEF InTokens
-----------------------------------------------------------------------------
(* Appending a token keeps a fragment the output already holds. *)
LEMMA FragmentAppend ==
    ASSUME NEW b \in Seq(OutTokens), HasFragment(b), NEW x \in OutTokens
    PROVE  HasFragment(Append(b, x))
BY AppendProperties DEF HasFragment

(* The output of a closure that inserts holds its fragment. *)
LEMMA FragmentConcat ==
    ASSUME NEW b \in Seq(OutTokens), NEW f \in {"ins", "insHead"},
           NEW u \in OutTokens
    PROVE  /\ HasFragment(b \o <<f, u>>)
           /\ \A i \in 1..Len(b) : (b \o <<f, u>>)[i] = b[i]
<1>1. <<f, u>> \in Seq(OutTokens)
  BY DEF OutTokens
<1>2. /\ Len(b \o <<f, u>>) = Len(b) + 2
      /\ \A i \in 1..(Len(b) + 2) :
            (b \o <<f, u>>)[i] = IF i <= Len(b) THEN b[i] ELSE <<f, u>>[i - Len(b)]
  BY <1>1, ConcatProperties
<1>3. (b \o <<f, u>>)[Len(b) + 1] = f /\ Len(b) + 1 \in DOMAIN (b \o <<f, u>>)
  BY <1>2
<1>4. HasFragment(b \o <<f, u>>)
  <2>1. (b \o <<f, u>>)[Len(b) + 1] \in {"ins", "insHead"}
    BY <1>3
  <2>2. QED
    BY <1>3, <2>1, Zenon DEF HasFragment
<1>5. \A i \in 1..Len(b) : (b \o <<f, u>>)[i] = b[i]
  BY <1>2
<1>6. QED
  BY <1>4, <1>5

(* An output that holds a fragment counts at least one insertion. *)
LEMMA FragmentCounted ==
    ASSUME NEW b \in Seq(OutTokens), HasFragment(b)
    PROVE  Insertions(b) >= 1
<1> DEFINE F == {i \in DOMAIN b : b[i] \in {"ins", "insHead"}}
<1>1. IsFiniteSet(F)
  <2>1. IsFiniteSet(1..Len(b)) /\ DOMAIN b = 1..Len(b)
    BY FS_Interval
  <2>2. QED
    BY <2>1, FS_Subset
<1>2. F # {}
  BY DEF HasFragment
<1>3. Cardinality(F) \in Nat /\ Cardinality(F) # 0
  BY <1>1, <1>2, FS_EmptySet, FS_CardinalityType
<1>4. QED
  BY <1>3 DEF Insertions
-----------------------------------------------------------------------------
(* One more token: an end tag has been seen in it iff it was seen before *)
(* or the token is one.                                                  *)
LEMMA ClosedStep ==
    ASSUME NEW d, NEW n \in Nat \ {0}
    PROVE  ClosedBy(d, n) <=> ClosedBy(d, n - 1) \/ d[n] \in {"/head", "/html"}
BY DEF ClosedBy

(* lol_html completes a token only while a chunk is written in the loop, *)
(* and only the token at pos.                                            *)
LEMMA TokenFacts ==
    ASSUME BaseInv, NEW t, Completes(t), phase' = phase
    PROVE  /\ phase = "loop" /\ phase' = "loop"
           /\ pos \in 1..Len(doc) /\ doc[pos] = t /\ pos' = pos + 1
<1>1. inChunk
  BY DEF Completes
<1>2. phase = "loop"
  BY <1>1 DEF BaseInv, TypeOK
<1>3. pos \in 1..Len(doc) /\ doc[pos] = t /\ pos' = pos + 1
  BY DEF Completes, BaseInv, TypeOK
<1>4. QED
  BY <1>2, <1>3

(* The clauses about the loop's exits hold in the loop. *)
LEMMA LoopClauses ==
    ASSUME phase' = "loop"
    PROVE  /\ (phase \in {"start", "finish", "done"} => ~inChunk)'
           /\ (phase = "start" => pos = 1)'
           /\ (phase \in {"finish", "done"} /\ ~wroteError /\ ~present
                  => pos = Len(doc) + 1)'
           /\ (phase = "done" /\ doc # <<>> /\ ~present => result = AutoEncode(out))'
OBVIOUS

(* A base-tag handler keeps BaseInv: in a document without an absolute   *)
(* base it removes the base and sets no lock.                            *)
LEMMA OnBaseBase ==
    ASSUME BaseInv, OnBase PROVE BaseInv'
<1>0. TypeOK'
  BY TypeStep DEF BaseInv, Next
<1>1. PICK t \in {"baseAbs", "baseRel"} :
         /\ Completes(t)
         /\ IF inserted
            THEN out' = Append(out, t) /\ UNCHANGED <<inserted, present>>
            ELSE IF t = "baseAbs"
                 THEN /\ inserted' = TRUE /\ present' = TRUE
                      /\ out' = Append(out, t)
                 ELSE UNCHANGED <<inserted, present, out>>
  BY DEF OnBase
<1>2. UNCHANGED <<doc, utf8, phase, inChunk, open, wroteError, result>>
  BY DEF OnBase
<1>3. /\ phase' = "loop"
      /\ pos \in 1..Len(doc) /\ doc[pos] = t /\ pos' = pos + 1
  BY <1>1, <1>2, TokenFacts
<1>4. Len(open') = Depth(doc', pos' - 1)
  <2>1. Depth(doc, pos) = Depth(doc, pos - 1)
    BY <1>3, DepthStep DEF BaseInv
  <2>2. QED
    BY <2>1, <1>2, <1>3 DEF BaseInv
<1>5. ~Has(doc', "baseAbs") =>
         /\ ~inserted' /\ ~present'
         /\ \A k \in 1..Len(open') : ~open'[k].snap
         /\ ClosedBy(doc', pos' - 1) => HasFragment(out')
  <2> SUFFICES ASSUME ~Has(doc', "baseAbs")
               PROVE  /\ ~inserted' /\ ~present'
                      /\ \A k \in 1..Len(open') : ~open'[k].snap
                      /\ ClosedBy(doc', pos' - 1) => HasFragment(out')
    OBVIOUS
  <2>1. ~Has(doc, "baseAbs")
    BY <1>2
  <2>2. t = "baseRel"
    BY <2>1, <1>3 DEF Has
  <2>3. /\ ~inserted /\ ~present
        /\ \A k \in 1..Len(open) : ~open[k].snap
        /\ ClosedBy(doc, pos - 1) => HasFragment(out)
    BY <2>1 DEF BaseInv
  <2>4. UNCHANGED <<inserted, present, out>>
    BY <1>1, <2>2, <2>3
  <2>5. ClosedBy(doc, pos) <=> ClosedBy(doc, pos - 1)
    BY <1>3, <2>2, ClosedStep
  <2>6. QED
    BY <2>3, <2>4, <2>5, <1>2, <1>3
<1>6. QED
  BY <1>0, <1>3, <1>4, <1>5, LoopClauses DEF BaseInv
(* A start-tag handler keeps BaseInv: it pushes one element, whose clone *)
(* of the unset lock is unset.                                           *)
LEMMA OnStartTagBase ==
    ASSUME BaseInv, OnStartTag PROVE BaseInv'
<1>0. TypeOK'
  BY TypeStep DEF BaseInv, Next
<1>1. PICK t \in OpenTags :
         /\ Completes(t)
         /\ open' = Append(open, [tag |-> t, snap |-> inserted])
         /\ out' = Append(out, t)
  BY DEF OnStartTag
<1>2. UNCHANGED <<doc, utf8, phase, inChunk, inserted, present, wroteError, result>>
  BY DEF OnStartTag
<1>3. /\ phase' = "loop"
      /\ pos \in 1..Len(doc) /\ doc[pos] = t /\ pos' = pos + 1
  BY <1>1, <1>2, TokenFacts
<1>4. open \in Seq(OpenRec) /\ out \in Seq(OutTokens) /\ t \in OutTokens
  BY DEF BaseInv, TypeOK, OpenTags, OutTokens, InTokens
<1>5. /\ Len(open') = Len(open) + 1
      /\ \A k \in 1..Len(open') :
            open'[k] = IF k <= Len(open) THEN open[k]
                       ELSE [tag |-> t, snap |-> inserted]
  <2>1. [tag |-> t, snap |-> inserted] \in OpenRec
    BY <1>4 DEF BaseInv, TypeOK, OpenRec
  <2>2. QED
    BY <1>1, <1>4, <2>1, AppendProperties
<1>6. Len(open') = Depth(doc', pos' - 1)
  <2>1. Depth(doc, pos) = Depth(doc, pos - 1) + 1
    BY <1>3, DepthStep DEF BaseInv
  <2>2. QED
    BY <2>1, <1>2, <1>3, <1>5 DEF BaseInv
<1>7. ~Has(doc', "baseAbs") =>
         /\ ~inserted' /\ ~present'
         /\ \A k \in 1..Len(open') : ~open'[k].snap
         /\ ClosedBy(doc', pos' - 1) => HasFragment(out')
  <2> SUFFICES ASSUME ~Has(doc', "baseAbs")
               PROVE  /\ ~inserted' /\ ~present'
                      /\ \A k \in 1..Len(open') : ~open'[k].snap
                      /\ ClosedBy(doc', pos' - 1) => HasFragment(out')
    OBVIOUS
  <2>1. /\ ~inserted /\ ~present
        /\ \A k \in 1..Len(open) : ~open[k].snap
        /\ ClosedBy(doc, pos - 1) => HasFragment(out)
    BY <1>2 DEF BaseInv
  <2>2. \A k \in 1..Len(open') : ~open'[k].snap
    BY <1>5, <2>1
  <2>3. ClosedBy(doc, pos) <=> ClosedBy(doc, pos - 1)
    BY <1>3, ClosedStep DEF OpenTags
  <2>4. HasFragment(out) => HasFragment(out')
    BY <1>1, <1>4, FragmentAppend
  <2>5. QED
    BY <2>1, <2>2, <2>3, <2>4, <1>2, <1>3
<1>8. QED
  BY <1>0, <1>3, <1>6, <1>7, LoopClauses DEF BaseInv

(* An end-tag closure keeps BaseInv: it pops one element, and in a       *)
(* document without an absolute base its clone is unset, so it inserts. *)
LEMMA OnEndTagBase ==
    ASSUME BaseInv, OnEndTag PROVE BaseInv'
<1>0. TypeOK'
  BY TypeStep DEF BaseInv, Next
<1> DEFINE top == open[Len(open)]
<1>1. PICK t \in {"/head", "/html"} :
         /\ Completes(t)
         /\ out' = IF top.snap THEN Append(out, t)
                   ELSE out \o <<Fragment(top.tag), t>>
         /\ open' = SubSeq(open, 1, Len(open) - 1)
  BY DEF OnEndTag
<1>2. UNCHANGED <<doc, utf8, phase, inChunk, inserted, present, wroteError, result>>
  BY DEF OnEndTag
<1>3. /\ phase' = "loop"
      /\ pos \in 1..Len(doc) /\ doc[pos] = t /\ pos' = pos + 1
  BY <1>1, <1>2, TokenFacts
<1>4. open \in Seq(OpenRec) /\ out \in Seq(OutTokens) /\ t \in OutTokens
  BY DEF BaseInv, TypeOK, OutTokens, InTokens
<1>5. Depth(doc, pos - 1) >= 1 /\ Depth(doc, pos) = Depth(doc, pos - 1) - 1
  BY <1>3, DepthStep DEF BaseInv
<1>6. Len(open) >= 1
  BY <1>5 DEF BaseInv
<1>7. /\ Len(open') = Len(open) - 1
      /\ \A k \in 1..Len(open') : open'[k] = open[k]
  <2>1. Len(open) - 1 \in Int /\ \A i \in 1..(Len(open) - 1) : open[i] \in OpenRec
    BY <1>4
  <2>2. /\ Len(SubSeq(open, 1, Len(open) - 1)) = Len(open) - 1
        /\ \A i \in 1..(Len(open) - 1) : SubSeq(open, 1, Len(open) - 1)[i] = open[i]
    <3>1. /\ Len(SubSeq(open, 1, Len(open) - 1)) =
                IF 1 <= Len(open) - 1 THEN (Len(open) - 1) - 1 + 1 ELSE 0
          /\ \A i \in 1..((Len(open) - 1) - 1 + 1) :
                SubSeq(open, 1, Len(open) - 1)[i] = open[1 + i - 1]
      BY <2>1, SubSeqProperties
    <3>2. Len(open) \in Nat /\ Len(open) >= 1
      BY <1>4, <1>6
    <3>3. (IF 1 <= Len(open) - 1 THEN (Len(open) - 1) - 1 + 1 ELSE 0) = Len(open) - 1
          /\ (Len(open) - 1) - 1 + 1 = Len(open) - 1
      BY <3>2
    <3>4. \A i \in 1..(Len(open) - 1) : 1 + i - 1 = i
      BY <3>2
    <3>5. QED
      BY <3>1, <3>3, <3>4
  <2>3. QED
    BY <1>1, <2>2
<1>8. Len(open') = Depth(doc', pos' - 1)
  BY <1>2, <1>3, <1>5, <1>7 DEF BaseInv
<1>9. ~Has(doc', "baseAbs") =>
         /\ ~inserted' /\ ~present'
         /\ \A k \in 1..Len(open') : ~open'[k].snap
         /\ ClosedBy(doc', pos' - 1) => HasFragment(out')
  <2> SUFFICES ASSUME ~Has(doc', "baseAbs")
               PROVE  /\ ~inserted' /\ ~present'
                      /\ \A k \in 1..Len(open') : ~open'[k].snap
                      /\ ClosedBy(doc', pos' - 1) => HasFragment(out')
    OBVIOUS
  <2>1. /\ ~inserted /\ ~present
        /\ \A k \in 1..Len(open) : ~open[k].snap
    BY <1>2 DEF BaseInv
  <2>2. ~top.snap
    BY <1>6, <2>1
  <2>3. out' = out \o <<Fragment(top.tag), t>>
    BY <1>1, <2>2
  <2>4. HasFragment(out')
    BY <1>4, <2>3, FragmentType, FragmentConcat
  <2>5. \A k \in 1..Len(open') : ~open'[k].snap
    BY <1>6, <1>7, <2>1
  <2>6. QED
    BY <1>2, <2>1, <2>4, <2>5
<1>10. QED
  BY <1>0, <1>3, <1>8, <1>9, LoopClauses DEF BaseInv

(* Text goes to the output and leaves the stack. *)
LEMMA OnTextBase ==
    ASSUME BaseInv, OnText PROVE BaseInv'
<1>0. TypeOK'
  BY TypeStep DEF BaseInv, Next
<1>1. Completes("text") /\ out' = Append(out, "text")
  BY DEF OnText
<1>2. UNCHANGED <<doc, utf8, phase, inChunk, inserted, present, open,
                  wroteError, result>>
  BY DEF OnText
<1>3. /\ phase' = "loop"
      /\ pos \in 1..Len(doc) /\ doc[pos] = "text" /\ pos' = pos + 1
  BY <1>1, <1>2, TokenFacts
<1>4. Len(open') = Depth(doc', pos' - 1)
  <2>1. Depth(doc, pos) = Depth(doc, pos - 1)
    BY <1>3, DepthStep DEF BaseInv
  <2>2. QED
    BY <2>1, <1>2, <1>3 DEF BaseInv
<1>5. ~Has(doc', "baseAbs") =>
         /\ ~inserted' /\ ~present'
         /\ \A k \in 1..Len(open') : ~open'[k].snap
         /\ ClosedBy(doc', pos' - 1) => HasFragment(out')
  <2>1. ClosedBy(doc, pos) <=> ClosedBy(doc, pos - 1)
    BY <1>3, ClosedStep
  <2>2. HasFragment(out) => HasFragment(out')
    <3>1. out \in Seq(OutTokens) /\ "text" \in OutTokens
      BY DEF BaseInv, TypeOK, OutTokens, InTokens
    <3>2. QED
      BY <1>1, <3>1, FragmentAppend
  <2>3. QED
    BY <1>2, <1>3, <2>1, <2>2 DEF BaseInv
<1>6. QED
  BY <1>0, <1>3, <1>4, <1>5, LoopClauses DEF BaseInv
(* The loop's control steps and Finish leave the document, the cursor,   *)
(* the stack, the output and the locks; the loop ends without error only *)
(* once every token is consumed or already_present is set, and Finish    *)
(* then returns the rewritten buffer.                                    *)
LEMMA ControlBase ==
    ASSUME BaseInv,
           EmptyInput \/ Begin \/ NextChunk \/ EndChunk \/ WriteFails \/ Finish
           \/ UNCHANGED vars
    PROVE  BaseInv'
<1>0. TypeOK'
  BY TypeStep DEF BaseInv, Next
<1>1. UNCHANGED <<doc, pos, open, out, inserted, present>>
  BY DEF EmptyInput, Begin, NextChunk, EndChunk, WriteFails, Finish, vars
<1>2. /\ Len(open') = Depth(doc', pos' - 1)
      /\ ~Has(doc', "baseAbs") =>
            /\ ~inserted' /\ ~present'
            /\ \A k \in 1..Len(open') : ~open'[k].snap
            /\ ClosedBy(doc', pos' - 1) => HasFragment(out')
  BY <1>1 DEF BaseInv
<1>3. /\ (phase \in {"start", "finish", "done"} => ~inChunk)'
      /\ (phase = "start" => pos = 1)'
      /\ (phase \in {"finish", "done"} /\ ~wroteError /\ ~present
             => pos = Len(doc) + 1)'
      /\ (phase = "done" /\ doc # <<>> /\ ~present => result = AutoEncode(out))'
  <2>1. CASE EmptyInput
    BY <2>1 DEF EmptyInput, BaseInv
  <2>2. CASE Begin
    BY <2>2, LoopClauses DEF Begin
  <2>3. CASE NextChunk /\ pos <= Len(doc) /\ ~present
    BY <2>3, LoopClauses DEF NextChunk
  <2>4. CASE NextChunk /\ ~(pos <= Len(doc) /\ ~present)
    <3>1. phase' = "finish" /\ UNCHANGED <<inChunk, wroteError, doc, pos, present>>
          /\ ~inChunk
      BY <2>4 DEF NextChunk
    <3>2. ~present => pos = Len(doc) + 1
      BY <2>4 DEF BaseInv, TypeOK
    <3>3. QED
      BY <3>1, <3>2
  <2>5. CASE EndChunk
    <3>1. phase = "loop"
      BY <2>5 DEF EndChunk, BaseInv, TypeOK
    <3>2. QED
      BY <2>5, <3>1, LoopClauses DEF EndChunk
  <2>6. CASE WriteFails
    BY <2>6 DEF WriteFails
  <2>7. CASE Finish
    <3>1. phase = "finish" /\ phase' = "done"
          /\ UNCHANGED <<inChunk, wroteError, doc, pos, present, out>>
          /\ result' = IF present THEN FromUtf8(doc) ELSE AutoEncode(out)
      BY <2>7 DEF Finish
    <3>2. QED
      BY <3>1 DEF BaseInv
  <2>8. CASE UNCHANGED vars
    BY <2>8 DEF vars, BaseInv
  <2>9. QED
    BY <2>1, <2>2, <2>3, <2>4, <2>5, <2>6, <2>7, <2>8
<1>4. QED
  BY <1>0, <1>2, <1>3 DEF BaseInv

(* Every step keeps BaseInv. *)
LEMMA BaseStep == BaseInv /\ [Next]_vars => BaseInv'
<1> SUFFICES ASSUME BaseInv, [Next]_vars PROVE BaseInv'
  OBVIOUS
<1>1. CASE OnBase
  BY <1>1, OnBaseBase
<1>2. CASE OnStartTag
  BY <1>2, OnStartTagBase
<1>3. CASE OnEndTag
  BY <1>3, OnEndTagBase
<1>4. CASE OnText
  BY <1>4, OnTextBase
<1>5. CASE EmptyInput \/ Begin \/ NextChunk \/ EndChunk \/ WriteFails \/ Finish
           \/ UNCHANGED vars
  BY <1>5, ControlBase
<1>6. QED
  BY <1>1, <1>2, <1>3, <1>4, <1>5 DEF Next

(* BaseInv holds initially. *)
LEMMA InitBase == Init => BaseInv
<1> SUFFICES ASSUME Init PROVE BaseInv
  OBVIOUS
<1>1. TypeOK
  BY InitType
<1>2. Depth(doc, 0) = 0 /\ ~ClosedBy(doc, 0)
  BY IsOpenZero DEF Depth, ClosedBy
<1>3. QED
  BY <1>1, <1>2 DEF Init, BaseInv

(* BaseInv implies AtLeastOneBase: a run without error over a document   *)
(* without an absolute base consumed every token, so the end tag too, and *)
(* returns the rewritten buffer with the fragment that tag's closure put. *)
LEMMA BaseInvAtLeastOne == BaseInv => AtLeastOneBase
<1> SUFFICES ASSUME BaseInv, Done, ~wroteError, ~Has(doc, "baseAbs"),
                    Has(doc, "/head") \/ Has(doc, "/html")
             PROVE  Insertions(result.body) >= 1
  BY DEF AtLeastOneBase
<1>1. ~present /\ phase = "done"
  BY DEF BaseInv, Done
<1>2. pos = Len(doc) + 1 /\ doc # <<>>
  BY <1>1 DEF BaseInv, Has
<1>3. result = AutoEncode(out)
  BY <1>1, <1>2 DEF BaseInv
<1>4. ClosedBy(doc, pos - 1)
  <2>1. doc \in Seq(InTokens)
    BY DocNested DEF BaseInv
  <2>2. QED
    BY <1>2, <2>1 DEF ClosedBy, Has
<1>5. HasFragment(out) /\ out \in Seq(OutTokens)
  BY <1>4 DEF BaseInv, TypeOK
<1>6. QED
  BY <1>3, <1>5, FragmentCounted DEF AutoEncode

(* A page whose head or html element is closed, that has no absolute base *)
(* and that rewrite_base_tag writes without error comes back with a base *)
(* inserted, for documents of every length and every chunking: the       *)
(* closures over the cloned lock all see it unset, and the loop consumes *)
(* the end tag before it returns.                                        *)
THEOREM AtLeastOneBaseHolds == Spec => []AtLeastOneBase
<1>1. QED
  BY InitBase, BaseStep, BaseInvAtLeastOne, PTL DEF Spec
=============================================================================
