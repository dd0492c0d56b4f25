--------------------------- MODULE BaseTagRewriter ---------------------------
(***************************************************************************)
(* rewrite_base_tag of src/src/cache.rs: the streaming lol_html rewriter   *)
(* that inserts <base href=...> into a cached page.                        *)
(*                                                                         *)
(* A document is a sequence of tokens; lol_html runs the element handler   *)
(* of a start tag when the tag is complete, and an end-tag handler that a  *)
(* start handler registered when the matching end tag is complete.  The    *)
(* head and html start handlers register a closure over a *clone* of the   *)
(* OnceLock base_tag_inserted: the value the lock has at that start tag,   *)
(* which the closure then sets only in its own copy.  The input is fed in  *)
(* chunks whose boundaries fall anywhere; between two chunks the loop      *)
(* stops if already_present is set.                                        *)
(***************************************************************************)
EXTENDS Integers, Sequences, FiniteSets

CONSTANTS
    MaxLen       \* the longest document (in tokens) the run enumerates

ASSUME MaxLenAssumption == MaxLen \in Nat

(* Tokens of an input document: a <base> whose href starts with http://   *)
(* or https://, a <base> with a relative or no href, other content.       *)
InTokens == {"html", "/html", "head", "/head", "baseAbs", "baseRel", "text"}

(* The rewriter's output adds the two inserted fragments:                 *)
(* <base href="..."> before </head>, <head><base href="..."></head> before *)
(* </html>.                                                                *)
OutTokens == InTokens \cup {"ins", "insHead"}

OpenTags == {"html", "head"}

(* The element stack: the tag and the value of the cloned OnceLock. *)
OpenRec == [tag : OpenTags, snap : BOOLEAN]

(* The open elements after the tokens of d, or "bad" when an end tag does *)
(* not close the innermost open element, an element opens inside one of   *)
(* its own kind, or html opens inside head.                               *)
StackAfter(d) ==
    LET f[n \in 0..Len(d)] ==
          IF n = 0 THEN <<>>
          ELSE LET s == f[n - 1]
                   t == d[n]
               IN  IF s = "bad" THEN "bad"
                   ELSE IF t \in OpenTags
                        THEN IF \E i \in DOMAIN s : s[i] = t \/ s[i] = "head"
                             THEN "bad" ELSE Append(s, t)
                   ELSE IF t \in {"/html", "/head"}
                        THEN IF s # <<>> /\ "/" \o s[Len(s)] = t
                             THEN SubSeq(s, 1, Len(s) - 1) ELSE "bad"
                   ELSE s
    IN  f[Len(d)]

(* The end tag of an html or head element. *)
EndTag(t) == IF t = "html" THEN "/html" ELSE "/head"

(* Closed form of StackAfter for a document that is well nested so far:  *)
(* an element of tag t is open after the first n tokens iff a start tag t *)
(* among them has no end tag after it.                                    *)
IsOpen(d, n, t) ==
    \E j \in 1..n : d[j] = t /\ \A k \in (j + 1)..n : d[k] # EndTag(t)

(* The open elements after the first n tokens: html comes first, since    *)
(* nothing opens inside head.                                             *)
OpenAfter(d, n) ==
    (IF IsOpen(d, n, "html") THEN <<"html">> ELSE <<>>)
      \o (IF IsOpen(d, n, "head") THEN <<"head">> ELSE <<>>)

(* No token makes StackAfter "bad": a start tag opens outside head and    *)
(* outside an element of its kind, an end tag closes the innermost open   *)
(* element.  MC_BaseTagRewriter checks that this is StackAfter(d) # "bad". *)
Nested(d) ==
    \A n \in 1..Len(d) :
       /\ d[n] \in OpenTags =>
             ~IsOpen(d, n - 1, "head") /\ ~IsOpen(d, n - 1, d[n])
       /\ d[n] = "/head" => IsOpen(d, n - 1, "head")
       /\ d[n] = "/html" => IsOpen(d, n - 1, "html") /\ ~IsOpen(d, n - 1, "head")

(* The documents of at most MaxLen tokens with at most one html element   *)
(* and well nested end tags; elements may be left unclosed at the end.    *)
Docs == {d \in UNION {[1..n -> InTokens] : n \in 0..MaxLen} :
            /\ Cardinality({i \in DOMAIN d : d[i] = "html"}) <= 1
            /\ Nested(d)}

Results == [kind : {"original", "empty", "rewritten"}, body : Seq(OutTokens)]

VARIABLES
    doc,         \* the html bytes, as tokens
    utf8,        \* the bytes are valid UTF-8
    phase,       \* "start", "loop" (while let Some(chunk)), "finish", "done"
    pos,         \* index of the next token lol_html completes
    inChunk,     \* a chunk is being written
    progressed,  \* the current chunk completed a token
    inserted,    \* the OnceLock base_tag_inserted itself
    present,     \* the OnceLock already_present
    open,        \* open html/head elements with their cloned lock
    out,         \* the output buffer of the rewriter sink
    wroteError,  \* rewriter.write returned an error
    result       \* the returned String, once done

vars == <<doc, utf8, phase, pos, inChunk, progressed, inserted, present, open,
          out, wroteError, result>>

Init ==
    /\ doc \in Docs
    /\ utf8 \in BOOLEAN
    /\ phase = "start"
    /\ pos = 1
    /\ inChunk = FALSE
    /\ progressed = FALSE
    /\ inserted = FALSE
    /\ present = FALSE
    /\ open = <<>>
    /\ out = <<>>
    /\ wroteError = FALSE
    /\ result = [kind |-> "empty", body |-> <<>>]

-----------------------------------------------------------------------------
(* if html.is_empty() { return Default::default(); } *)
EmptyInput ==
    /\ phase = "start"
    /\ doc = <<>>
    /\ phase' = "done"
    /\ UNCHANGED <<doc, utf8, pos, inChunk, progressed, inserted, present,
                   open, out, wroteError, result>>

(* The rewriter is built and the chunk loop entered. *)
Begin ==
    /\ phase = "start"
    /\ doc # <<>>
    /\ phase' = "loop"
    /\ UNCHANGED <<doc, utf8, pos, inChunk, progressed, inserted, present,
                   open, out, wroteError, result>>

(* Loop head: the next chunk of STREAMING_CHUNK_SIZE bytes, if any; break  *)
(* when already_present is set.                                           *)
NextChunk ==
    /\ phase = "loop"
    /\ ~inChunk
    /\ IF pos <= Len(doc) /\ ~present
       THEN inChunk' = TRUE /\ progressed' = FALSE /\ UNCHANGED phase
       ELSE phase' = "finish" /\ UNCHANGED <<inChunk, progressed>>
    /\ UNCHANGED <<doc, utf8, pos, inserted, present, open, out, wroteError,
                   result>>

(* The chunk ends; a token may straddle the boundary. *)
EndChunk ==
    /\ inChunk
    /\ progressed \/ pos > Len(doc)
    /\ inChunk' = FALSE
    /\ UNCHANGED <<doc, utf8, phase, pos, progressed, inserted, present, open,
                   out, wroteError, result>>

(* rewriter.write(chunk) fails: the loop breaks with wrote_error. *)
WriteFails ==
    /\ inChunk
    /\ wroteError' = TRUE
    /\ inChunk' = FALSE
    /\ phase' = "finish"
    /\ UNCHANGED <<doc, utf8, pos, progressed, inserted, present, open, out,
                   result>>

(* lol_html completes token t of the current chunk. *)
Completes(t) ==
    /\ inChunk
    /\ pos <= Len(doc)
    /\ doc[pos] = t
    /\ pos' = pos + 1
    /\ progressed' = TRUE

(* Mutant: a base without an absolute href is kept, not removed. *)
OnBaseKeepsRelative ==
    /\ \E t \in {"baseAbs", "baseRel"} :
         /\ Completes(t)
         /\ out' = Append(out, t)
         /\ IF ~inserted /\ t = "baseAbs"
            THEN inserted' = TRUE /\ present' = TRUE
            ELSE UNCHANGED <<inserted, present>>
    /\ UNCHANGED <<doc, utf8, phase, inChunk, open, wroteError, result>>

(* element!("base"): while base_tag_inserted is unset, an absolute href   *)
(* sets both locks and the tag stays; any other base is removed.          *)
OnBase ==
    /\ \E t \in {"baseAbs", "baseRel"} :
         /\ Completes(t)
         /\ IF inserted
            THEN out' = Append(out, t) /\ UNCHANGED <<inserted, present>>
            ELSE IF t = "baseAbs"
                 THEN /\ inserted' = TRUE /\ present' = TRUE
                      /\ out' = Append(out, t)
                 ELSE UNCHANGED <<inserted, present, out>>
    /\ UNCHANGED <<doc, utf8, phase, inChunk, open, wroteError, result>>

(* element!("head") / element!("html"): register an end-tag closure over   *)
(* base_tag_inserted.clone().                                             *)
OnStartTag ==
    /\ \E t \in OpenTags :
         /\ Completes(t)
         /\ open' = Append(open, [tag |-> t, snap |-> inserted])
         /\ out' = Append(out, t)
    /\ UNCHANGED <<doc, utf8, phase, inChunk, inserted, present, wroteError,
                   result>>

(* The fragment the closure of an element with tag t inserts. *)
Fragment(t) == IF t = "head" THEN "ins" ELSE "insHead"

(* Mutant: the closure tests is_some() instead of is_none(). *)
OnEndTagInverted ==
    /\ \E t \in {"/head", "/html"} :
         /\ Completes(t)
         /\ LET top == open[Len(open)] IN
            out' = IF ~top.snap THEN Append(out, t)
                   ELSE out \o <<Fragment(top.tag), t>>
         /\ open' = SubSeq(open, 1, Len(open) - 1)
    /\ UNCHANGED <<doc, utf8, phase, inChunk, inserted, present, wroteError,
                   result>>

(* The end-tag closure: if its clone is unset, set the clone and insert   *)
(* the fragment before the end tag.  The original lock is not touched.    *)
OnEndTag ==
    /\ \E t \in {"/head", "/html"} :
         /\ Completes(t)
         /\ LET top == open[Len(open)] IN
            out' = IF top.snap THEN Append(out, t)
                   ELSE out \o <<Fragment(top.tag), t>>
         /\ open' = SubSeq(open, 1, Len(open) - 1)
    /\ UNCHANGED <<doc, utf8, phase, inChunk, inserted, present, wroteError,
                   result>>

(* Content no handler selects goes to the output sink unchanged. *)
OnText ==
    /\ Completes("text")
    /\ out' = Append(out, "text")
    /\ UNCHANGED <<doc, utf8, phase, inChunk, inserted, present, open,
                   wroteError, result>>

(* auto_encoder::auto_encode_bytes decodes any buffer: the rewritten text. *)
AutoEncode(b) == [kind |-> "rewritten", body |-> b]

(* std::str::from_utf8(&html).unwrap_or_default(): the original document, *)
(* or "" when the bytes are not valid UTF-8.                              *)
FromUtf8(d) == IF utf8 THEN [kind |-> "original", body |-> d]
               ELSE [kind |-> "empty", body |-> <<>>]

(* Mutant: the raw buffer is returned without auto_encode_bytes. *)
FinishRawBuffer ==
    /\ phase = "finish"
    /\ phase' = "done"
    /\ result' = IF present THEN FromUtf8(doc) ELSE out
    /\ UNCHANGED <<doc, utf8, pos, inChunk, progressed, inserted, present,
                   open, out, wroteError>>

(* end() unless the write failed, then the result.  Elements still open   *)
(* at end of input have no end tag, so their closures never run.          *)
Finish ==
    /\ phase = "finish"
    /\ phase' = "done"
    /\ result' = IF present THEN FromUtf8(doc) ELSE AutoEncode(out)
    /\ UNCHANGED <<doc, utf8, pos, inChunk, progressed, inserted, present,
                   open, out, wroteError>>

Next ==
    \/ EmptyInput \/ Begin \/ NextChunk \/ EndChunk \/ WriteFails
    \/ OnBase \/ OnStartTag \/ OnEndTag \/ OnText
    \/ Finish

Spec == Init /\ [][Next]_vars /\ WF_vars(Next)

Done == phase = "done"

-----------------------------------------------------------------------------
(* The number of inserted fragments in an output. *)
Insertions(b) == Cardinality({i \in DOMAIN b : b[i] \in {"ins", "insHead"}})

(* Token t occurs in sequence s. *)
Has(s, t) == \E i \in DOMAIN s : s[i] = t

(* Every variable holds a value of its type. *)
TypeOK ==
    /\ doc \in Docs
    /\ utf8 \in BOOLEAN
    /\ phase \in {"start", "loop", "finish", "done"}
    /\ pos \in 1..(Len(doc) + 1)
    /\ inChunk \in BOOLEAN
    /\ progressed \in BOOLEAN
    /\ inserted \in BOOLEAN
    /\ present \in BOOLEAN
    /\ open \in Seq(OpenRec)
    /\ out \in Seq(OutTokens)
    /\ wroteError \in BOOLEAN
    /\ result \in Results

(* A page whose head or html element is closed, that has no absolute base *)
(* and is written without error, comes back with a base inserted.         *)
AtLeastOneBase ==
    (Done /\ ~wroteError /\ ~Has(doc, "baseAbs")
          /\ (Has(doc, "/head") \/ Has(doc, "/html")))
        => Insertions(result.body) >= 1

(* A rewritten page keeps none of the document's own base tags: a         *)
(* relative or missing href is removed, and an absolute one short-circuits *)
(* to the original; every base in it is one the rewriter inserted.        *)
NoStrayBase ==
    (Done /\ result.kind = "rewritten")
        => \A i \in DOMAIN result.body : result.body[i] \notin {"baseAbs", "baseRel"}

(* Spec 4.2 and 8: insertion happens at most once per document, however   *)
(* many matching end tags are seen.                                       *)
AtMostOneInsertion ==
    (Done /\ result.kind = "rewritten") => Insertions(result.body) <= 1
=============================================================================
