------------------------------ MODULE Reader ------------------------------
(***************************************************************************)
(* The helpers of reader.cpp that every parser stands on.  A text is a     *)
(* sequence of tokens (strings), a pointer into it is an index, and the    *)
(* zero that ends a line is the empty token.                               *)
(***************************************************************************)
EXTENDS Integers, Sequences, FiniteSets

At(t, p) == IF p \in DOMAIN t THEN t[p] ELSE ""

RECURSIVE SkipBlanks(_, _)
SkipBlanks(t, p) == IF At(t, p) = " " THEN SkipBlanks(t, p + 1) ELSE p

(* need(p, c) for one character: is it there, and what follows it. *)
Has(t, p, c) == At(t, SkipBlanks(t, p)) = c
Past(t, p) == SkipBlanks(t, p) + 1

(* need(p, "<=>=< > "): the pairs are tried in order; " " takes one
   character, "_" one that is not doubled, another character takes both. *)
need(t, p, pairs) ==
    LET q == SkipBlanks(t, p)
        Takes(x) == /\ At(t, q) = x[1]
                    /\ \/ x[2] = " "
                       \/ x[2] = "_" /\ At(t, q + 1) # x[1]
                       \/ At(t, q + 1) = x[2]
        Hits == {i \in DOMAIN pairs : Takes(pairs[i])}
        x == pairs[CHOOSE i \in Hits : \A j \in Hits : i <= j]
    IN  IF Hits = {} THEN [oper |-> "", p |-> q]
        ELSE IF x[2] \in {" ", "_"} THEN [oper |-> x[1], p |-> q + 1]
        ELSE [oper |-> x[1] \o x[2], p |-> q + 2]

(* A keyword counts when a blank, the end or, where allowed, "(" follows. *)
cmphstr(t, p, word, allowParenthesisEnd) ==
    /\ At(t, p) = word
    /\ At(t, p + 1) \in {"", " "} \cup (IF allowParenthesisEnd THEN {"("} ELSE {})

(* needa: one of the words, a record word -> operator. *)
needa(t, p, words) ==
    IF \E w \in DOMAIN words : cmphstr(t, p, w, TRUE)
    THEN [oper |-> words[At(t, p)], p |-> p + 1]
    ELSE [oper |-> "", p |-> p]

needOr(t, p, pairs, words) ==
    LET n == need(t, p, pairs) IN IF n.oper # "" THEN n ELSE needa(t, n.p, words)

(* A comma that is not doubled. *)
comma(t, p) == Has(t, p, ",") /\ At(t, Past(t, p)) # ","

(* The place after the parenthesis that closes the first one, 0 if none. *)
RECURSIVE MatchingEnd(_, _, _)
MatchingEnd(t, p, depth) ==
    LET c == At(t, p)
        d == depth + (IF c = "(" THEN 1 ELSE IF c = ")" THEN -1 ELSE 0)
    IN  IF c = "" THEN 0
        ELSE IF c = ")" /\ d = 0 THEN SkipBlanks(t, p + 1)
        ELSE MatchingEnd(t, p + 1, d)

ParenthesesEnd(t, p) == MatchingEnd(t, SkipBlanks(t, p), 0)
=============================================================================
