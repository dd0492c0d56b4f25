------------------------- MODULE MC_BaseTagRewriter -------------------------
(* All well-nested documents of up to five tokens. *)
EXTENDS BaseTagRewriter

(* Every sequence of at most MaxLen input tokens. *)
TokenSeqs == UNION {[1..n -> InTokens] : n \in 0..MaxLen}

(* The closed form Nested that Docs uses agrees with the stack machine    *)
(* StackAfter, and its stack is the closed form's, on every such sequence *)
(* that has at most one html element.                                     *)
ASSUME NestedIsStackAfter ==
    \A d \in TokenSeqs :
       Cardinality({i \in DOMAIN d : d[i] = "html"}) <= 1 =>
          /\ Nested(d) <=> StackAfter(d) # "bad"
          /\ Nested(d) => StackAfter(d) = OpenAfter(d, Len(d))
=============================================================================
