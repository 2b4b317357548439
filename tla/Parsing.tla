------------------------------- MODULE Parsing -------------------------------
(***************************************************************************)
(* How the amount of a write request is read (parsing/, domain/money.py,   *)
(* and the routes that call them): from free text by the deterministic     *)
(* parser, failing that by an LLM if one is configured, or from the        *)
(* structured field; then normalize_amount, and the row or the error code. *)
(*                                                                         *)
(* A text is a sequence of lexemes: maximal runs of digits, runs of        *)
(* letters, runs of blanks, and the marks the parser tells apart. The      *)
(* regular expressions are given by what they match of such a text.        *)
(***************************************************************************)
EXTENDS Integers, Sequences

CONSTANTS
  Texts,       \* the texts sent
  Amounts,     \* decimal values a client or an LLM may give
  NotANumber,  \* a string that Decimal() refuses
  None         \* no amount

INT_DIGITS == 10   \* integer digits of _AMOUNT_RE and of NUMERIC(12, 2)
PRECISION == 28    \* digits of Python's default decimal context

Blank == [kind |-> "blank", digits |-> 0]

Lexeme ==
  [kind: {"blank", "dot", "comma", "minus", "plus", "word",
          "sol",       \* S/
          "soles",     \* soles, PEN
          "symbol",    \* a foreign sign: $, EUR sign, pound sign
          "currency"}, \* a foreign word: USD, euros, dolares
   digits: {0}]
  \cup [kind: {"number", "zeros"}, digits: Nat \ {0}]

(* A decimal value by what the money rules ask of it: its digits before the *)
(* point, and its decimals.                                                 *)
Value == [finite: BOOLEAN, positive: BOOLEAN, whole: Nat, cents: Nat]

(* "stored", or the code of the error.                                     *)
Answers == {"stored", "PARSER_FAILED", "LLM_FALLBACK_ERROR", "INVALID_AMOUNT",
            "INTERNAL_ERROR"}

ASSUME ParsingAssumption ==
  /\ Texts \subseteq Seq(Lexeme)
  /\ Amounts \subseteq Value
  /\ NotANumber \notin Value /\ None \notin Value \cup Answers

-----------------------------------------------------------------------------
(* The regular expressions.                                                *)

Is(t, i, kinds) == i \in DOMAIN t /\ t[i].kind \in kinds

Digits(t, i) == IF i \in DOMAIN t THEN t[i].digits ELSE 0

Separator(t, i) == Is(t, i, {"dot", "comma"})

EndsInWord(t, i) == Is(t, i, {"word", "soles", "currency", "number", "zeros"})

StartsWithWord(t, i) == EndsInWord(t, i) \/ Is(t, i, {"sol"})

(* _FOREIGN_RE: a foreign word counts only between word boundaries.        *)
ForeignMarker(t) ==
  \E i \in DOMAIN t :
    \/ t[i].kind = "symbol"
    \/ /\ t[i].kind = "currency"
       /\ ~EndsInWord(t, i - 1) /\ ~StartsWithWord(t, i + 1)

MutSolMarker(t, i) ==  \* the dot of "S/." is not part of the marker
  \/ Is(t, i, {"sol"}) /\ ~EndsInWord(t, i - 1)
  \/ Is(t, i, {"soles"}) /\ ~EndsInWord(t, i - 1) /\ ~StartsWithWord(t, i + 1)

(* _PEN_RE matches lexeme i, alone or as the dot of "S/.".                 *)
SolMarker(t, i) ==
  \/ Is(t, i, {"sol"}) /\ ~EndsInWord(t, i - 1)
  \/ Is(t, i, {"dot"}) /\ Is(t, i - 1, {"sol"}) /\ ~EndsInWord(t, i - 2)
  \/ Is(t, i, {"soles"}) /\ ~EndsInWord(t, i - 1) /\ ~StartsWithWord(t, i + 1)

WithoutCurrency(t) ==
  [i \in DOMAIN t |-> IF SolMarker(t, i) THEN Blank ELSE t[i]]

(* The lookahead of _AMOUNT_RE, after "taken" digits of lexeme i: one more  *)
(* digit may follow, two may not, nor a separator and a digit.              *)
NotGlued(t, i, taken) ==
  \/ Digits(t, i) = taken + 1
  \/ Digits(t, i) = taken /\ ~(Separator(t, i + 1) /\ Digits(t, i + 2) > 0)

MutReadings(t, i) ==  \* one integer digit too many
  {r \in (1 .. INT_DIGITS + 1) \X (0 .. 2) :
     /\ r[1] <= Digits(t, i) /\ ~Separator(t, i - 1)
     /\ IF r[2] = 0 THEN NotGlued(t, i, r[1])
        ELSE /\ r[1] = Digits(t, i) /\ Separator(t, i + 1)
             /\ r[2] <= Digits(t, i + 2) /\ NotGlued(t, i + 2, r[2])}

(* What _AMOUNT_RE can match from lexeme i: integer digits and decimals.   *)
Readings(t, i) ==
  {r \in (1 .. INT_DIGITS) \X (0 .. 2) :
     /\ r[1] <= Digits(t, i) /\ ~Separator(t, i - 1)
     /\ IF r[2] = 0 THEN NotGlued(t, i, r[1])
        ELSE /\ r[1] = Digits(t, i) /\ Separator(t, i + 1)
             /\ r[2] <= Digits(t, i + 2) /\ NotGlued(t, i + 2, r[2])}

(* The one it does match: it is greedy in integer digits, then in decimals. *)
Match(t, i) ==
  {r \in Readings(t, i) : \A o \in Readings(t, i) :
     r[1] > o[1] \/ (r[1] = o[1] /\ r[2] >= o[2])}

Matches(t) == {i \in DOMAIN t : Readings(t, i) # {}}

-----------------------------------------------------------------------------
(* parse_raw_text.                                                         *)

MutSigned(t, i) ==  \* looks for the sign only right before the amount
  Is(t, i - 1, {"minus", "plus"})

Signed(t, i) ==
  \E j \in 1 .. i - 1 :
    /\ Is(t, j, {"minus", "plus"})
    /\ \A k \in j + 1 .. i - 1 : Is(t, k, {"blank"})

Taken(i, r, j) ==
  IF j = i THEN r[1] ELSE IF j = i + 2 THEN r[2] ELSE 0

MutDigitsLeft(t, i, r) == FALSE  \* the description may hold digits

DigitsLeft(t, i, r) == \E j \in DOMAIN t : Digits(t, j) > Taken(i, r, j)

(* Something is left when blanks and punctuation are stripped at the edges. *)
Described(t, i, r) ==
  \E j \in DOMAIN t :
    /\ Taken(i, r, j) = 0
    /\ t[j].kind \notin {"blank", "dot", "comma", "minus"}

AmountOf(t, i, r) ==
  [finite |-> TRUE, whole |-> r[1], cents |-> r[2],
   positive |-> \E j \in DOMAIN t : t[j].kind = "number" /\ Taken(i, r, j) > 0]

(* The values parse_raw_text may return for t: one, or none (ParserFailed). *)
Parsed(t) ==
  LET s == WithoutCurrency(t)
      matches == Matches(s) IN
  UNION {{AmountOf(s, i, r) :
            r \in {m \in Match(s, i) : Described(s, i, m) /\ ~DigitsLeft(s, i, m)}} :
         i \in {n \in matches : matches = {n} /\ ~Signed(s, n)}}

-----------------------------------------------------------------------------
(* domain/money.py. quantize() needs two more digits than the integer part *)
(* has, and raises InvalidOperation, which is no InvalidAmount, when the   *)
(* context does not allow them.                                            *)

Overflows(v) == v.finite /\ v.positive /\ v.whole + 2 > PRECISION

Valid(v) == v.finite /\ v.positive /\ v.cents <= 2 /\ v.whole <= INT_DIGITS

-----------------------------------------------------------------------------
(* A request, from its payload to the row or the error code of its answer. *)

VARIABLES
  request,  \* [text |-> ...] or [amount |-> ...]: TransactionCreate's two paths
  llm,      \* whether app.state.llm is set
  stage,    \* "received", "asking" (the LLM), "read", "ended"
  parsed,   \* the ParseResult: a value and its source, or None
  answer    \* one of Answers, or None

vars == <<request, llm, stage, parsed, answer>>

IsText == "text" \in DOMAIN request

Given == Amounts \cup {NotANumber}

(* What an extractor may return: a value, fields that are allowed or not,  *)
(* a description that is usable or not.                                    *)
Extraction == [amount: Given, allowed: BOOLEAN, described: BOOLEAN]

Init ==
  /\ request \in [text: Texts] \cup [amount: Given]
  /\ llm \in BOOLEAN
  /\ stage = "received" /\ parsed = None /\ answer = None

Reply(code) ==
  /\ stage' = "ended" /\ answer' = code
  /\ UNCHANGED <<request, llm, parsed>>

Read(v, source) ==
  /\ stage' = "read" /\ parsed' = [value |-> v, source |-> source]
  /\ UNCHANGED <<request, llm, answer>>

MutReadStructured ==  \* the InvalidOperation of Decimal() is not caught
  stage = "received" /\ ~IsText /\ Read(request.amount, "deterministic")

(* _amount_from_string on the structured path.                             *)
ReadStructured ==
  /\ stage = "received" /\ ~IsText
  /\ IF request.amount = NotANumber THEN Reply("INVALID_AMOUNT")
     ELSE Read(request.amount, "deterministic")

MutReadText ==  \* "except ParserFailed" comes first, and is its superclass
  /\ stage = "received" /\ IsText
  /\ LET found == IF ForeignMarker(request.text) THEN {} ELSE Parsed(request.text) IN
     \/ \E v \in found : Read(v, "deterministic")
     \/ found = {} /\ ~llm /\ Reply("PARSER_FAILED")
     \/ found = {} /\ llm /\ stage' = "asking" /\ UNCHANGED <<request, llm, parsed, answer>>

(* resolve_amount_and_description up to the LLM: the deterministic parser  *)
(* first; a foreign currency ends the request, any other failure goes on.  *)
ReadText ==
  /\ stage = "received" /\ IsText
  /\ LET foreign == ForeignMarker(request.text)
         found == IF foreign THEN {} ELSE Parsed(request.text) IN
     \/ \E v \in found : Read(v, "deterministic")
     \/ found = {} /\ (foreign \/ ~llm) /\ Reply("PARSER_FAILED")
     \/ found = {} /\ ~foreign /\ llm
        /\ stage' = "asking" /\ UNCHANGED <<request, llm, parsed, answer>>

ExtractorRaises == stage = "asking" /\ Reply("LLM_FALLBACK_ERROR")

(* validate_llm_extraction; only InvalidAmount is caught around            *)
(* normalize_amount.                                                       *)
Validate(x) ==
  /\ stage = "asking"
  /\ IF x.allowed /\ x.amount # NotANumber
     THEN \/ Overflows(x.amount) /\ Reply("INTERNAL_ERROR")
          \/ /\ ~Overflows(x.amount) /\ Valid(x.amount) /\ x.described
             /\ Read(x.amount, "llm")
          \/ /\ ~Overflows(x.amount) /\ ~(Valid(x.amount) /\ x.described)
             /\ Reply("LLM_FALLBACK_ERROR")
     ELSE Reply("LLM_FALLBACK_ERROR")

(* normalize_amount in record_transaction (and apply_correction).          *)
Record ==
  /\ stage = "read"
  /\ \/ Overflows(parsed.value) /\ Reply("INTERNAL_ERROR")
     \/ ~Overflows(parsed.value) /\ Valid(parsed.value) /\ Reply("stored")
     \/ ~Overflows(parsed.value) /\ ~Valid(parsed.value) /\ Reply("INVALID_AMOUNT")

Ended == stage = "ended" /\ UNCHANGED vars

Next ==
  \/ ReadStructured
  \/ ReadText
  \/ ExtractorRaises
  \/ \E x \in Extraction : Validate(x)
  \/ Record
  \/ Ended

Spec == Init /\ [][Next]_vars

-----------------------------------------------------------------------------
(* Properties.                                                             *)

(* Every variable holds a value of its kind.                               *)
TypeOK ==
  /\ request \in [text: Seq(Lexeme)] \cup [amount: Given] /\ llm \in BOOLEAN
  /\ stage \in {"received", "asking", "read", "ended"}
  /\ parsed \in {None} \cup [value: Value, source: {"deterministic", "llm"}]
  /\ answer \in Answers \cup {None}

Numerals(t) == {i \in DOMAIN t : t[i].kind \in {"number", "zeros"}}

(* The number at lexeme i, with its decimals if any, is the only one of t. *)
OnlyNumber(t, i) ==
  \/ Numerals(t) = {i}
  \/ Numerals(t) = {i, i + 2} /\ Separator(t, i + 1)

(* What the parser reads from a text is the only number written in it, with *)
(* all its digits: never a part of a longer number, one of several, or a    *)
(* group of digits. The expression alone would read 35.99 in 35.999.        *)
AmountIsTheOneWritten ==
  parsed # None /\ IsText /\ parsed.source = "deterministic"
    => \E i \in Numerals(request.text) :
         /\ OnlyNumber(request.text, i)
         /\ parsed.value.whole = Digits(request.text, i)
         /\ parsed.value.cents = Digits(request.text, i + 2)

(* The limits of the expression are those of the column: an amount read     *)
(* from a text can later be refused for being zero, and for nothing else.   *)
ReadAmountsFit ==
  IsText /\ answer \in {"INVALID_AMOUNT", "INTERNAL_ERROR"} /\ parsed # None
    => ~parsed.value.positive

(* What a foreign word, or soles and PEN, may stand beside and be seen.     *)
Apart == {"blank", "dot", "comma", "minus", "plus"}

(* A sign, and up to lexeme i only blanks, S/ or S/., and the words soles   *)
(* and PEN standing apart: "-soles 35" and not "-soles35".                  *)
SignBefore(t, i) ==
  \E j \in 1 .. i - 1 :
    /\ t[j].kind \in {"minus", "plus"}
    /\ \A k \in j + 1 .. i - 1 :
         \/ t[k].kind \in {"blank", "sol"}
         \/ t[k].kind = "dot" /\ t[k - 1].kind = "sol"
         \/ t[k].kind = "soles" /\ {t[k - 1].kind, t[k + 1].kind} \subseteq Apart

(* The direction of an entry comes from the button: the parser reads no amount *)
(* that a sign is before, with nothing but blanks and marks of soles that stand *)
(* apart in between.  Not every sign: "-PEN35 taxi" is read as 35 soles, since  *)
(* _PEN_RE leaves a mark without word boundaries where it is, and so is         *)
(* "-soles. 35 taxi", for the dot.                                              *)
SignsAreRefused ==
  parsed # None /\ IsText /\ parsed.source = "deterministic"
    => \A i \in Numerals(request.text) : ~SignBefore(request.text, i)

(* A foreign sign anywhere, or a foreign word whose neighbours are such.   *)
Foreign(t, neighbours) ==
  \E i \in DOMAIN t :
    \/ t[i].kind = "symbol"
    \/ /\ t[i].kind = "currency"
       /\ \A n \in {i - 1, i + 1} \cap DOMAIN t : t[n].kind \in neighbours

(* An amount in another currency is never read as soles, by the parser or   *)
(* by the LLM, which is not even asked.                                     *)
ForeignIsTerminal ==
  IsText /\ Foreign(request.text, Apart) => parsed = None /\ stage # "asking"

(* The grammar of the module's docstring: one number of at most ten digits  *)
(* and two decimals, not signed, not foreign, with some word, and no sign   *)
(* or separator before it other than the dot of S/.                         *)
Plain(t) ==
  /\ \E i \in Numerals(t) :
       /\ OnlyNumber(t, i) /\ Digits(t, i) <= INT_DIGITS /\ Digits(t, i + 2) <= 2
       /\ Separator(t, i - 1) => /\ t[i - 1].kind = "dot" /\ Is(t, i - 2, {"sol"})
                                /\ ~EndsInWord(t, i - 3)
  /\ \E j \in DOMAIN t : t[j].kind = "word"
  /\ \A j \in DOMAIN t : t[j].kind \notin {"symbol", "currency", "minus", "plus"}

(* A text of that grammar is always read: nobody who writes plainly is sent *)
(* back to write again, and the LLM is not asked.                           *)
PlainIsRead ==
  IsText /\ Plain(request.text) => stage # "asking" /\ answer # "PARSER_FAILED"

(* Stated by the parser's documentation: any marker of a foreign currency   *)
(* is terminal. A word glued to the number, as in "50USD", is not.          *)
AnyMarkerIsTerminal ==
  IsText /\ Foreign(request.text, Apart \cup {"number"}) => parsed = None

(* Stated by the resolver's documentation: an invalid result of the LLM     *)
(* surfaces as LLMFallbackError. A number of more than 26 digits does not.  *)
LLMFailuresAreNamed ==
  IsText => answer # "INTERNAL_ERROR"

(* Both, as the two docstrings have them: a text that cannot be recorded is *)
(* answered for what is wrong with it, by the parser and through the LLM.   *)
FailuresAsDocumented == AnyMarkerIsTerminal /\ LLMFailuresAreNamed
=============================================================================
