----------------------------- MODULE MCParsing -----------------------------
(***************************************************************************)
(* Parsing on small instances: every text of up to four lexemes, longer    *)
(* ones of fewer kinds, and values on both sides of every limit.           *)
(***************************************************************************)
EXTENDS Parsing

Of(kinds) == [kind: kinds, digits: {0}]
Runs(lengths) == [kind: {"number"}, digits: lengths]

Marks == {"dot", "minus", "word", "sol", "soles", "symbol", "currency", "blank"}

(* Not blank (TransactionCreate), and two runs of digits, letters or blanks *)
(* side by side are one run.                                                *)
Lexed(t) ==
  /\ \E i \in DOMAIN t : t[i] # Blank
  /\ \A i \in 1 .. Len(t) - 1 :
       /\ ~(t[i].digits > 0 /\ t[i + 1].digits > 0)
       /\ t[i].kind = t[i + 1].kind => t[i].kind \notin {"word", "blank"}

Up(n, lexemes) == UNION {[1 .. m -> lexemes] : m \in 0 .. n}

MCTexts ==
  LET lexemes == Of(Marks) \cup Runs({2, 11}) \cup [kind: {"zeros"}, digits: {1}] IN
  {t \in UNION {Up(3, lexemes \cup Of({"comma", "plus"})), Up(4, lexemes),
               Up(5, Of({"dot", "sol", "minus", "word"}) \cup Runs({1, 3, 10})),
               Up(6, Of({"dot", "word"}) \cup Runs({1, 3})),
               Up(6, Of({"minus", "soles", "blank", "word"}) \cup Runs({2}))} : Lexed(t)}

MCAmounts ==
  [finite: {TRUE}, positive: BOOLEAN, whole: {2, 10, 11, 27}, cents: {2, 3}]
  \cup {[finite |-> FALSE, positive |-> TRUE, whole |-> 0, cents |-> 0]}
=============================================================================
