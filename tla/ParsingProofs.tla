--------------------------- MODULE ParsingProofs ---------------------------
(***************************************************************************)
(* What the deterministic parser does with every text, however long: the   *)
(* properties of Parsing, proved.                                          *)
(***************************************************************************)
EXTENDS Parsing, TLAPS

(* A run of digits has at least one. *)
LEMMA DigitsAreNumbers ==
  ASSUME NEW t \in Seq(Lexeme), NEW i
  PROVE  /\ Digits(t, i) \in Nat
         /\ Digits(t, i) > 0 <=> i \in Numerals(t)
BY DEF Digits, Numerals, Lexeme

(* Taking the sol markers out moves no digit and makes no mark.            *)
LEMMA MarkersHoldNoDigits ==
  ASSUME NEW t \in Seq(Lexeme)
  PROVE  /\ WithoutCurrency(t) \in Seq(Lexeme)
         /\ DOMAIN WithoutCurrency(t) = DOMAIN t
         /\ \A i : Digits(WithoutCurrency(t), i) = Digits(t, i)
         /\ \A i \in DOMAIN t : \/ WithoutCurrency(t)[i] = t[i]
                                \/ SolMarker(t, i) /\ WithoutCurrency(t)[i] = Blank
<1> DEFINE s == WithoutCurrency(t)
<1>1. Blank \in Lexeme
  BY DEF Blank, Lexeme
<1>2. /\ DOMAIN s = 1 .. Len(t) /\ DOMAIN s = DOMAIN t
      /\ \A i \in DOMAIN t : s[i] = IF SolMarker(t, i) THEN Blank ELSE t[i]
  BY DEF WithoutCurrency
<1>3. s \in [1 .. Len(t) -> Lexeme]
  BY <1>1 DEF WithoutCurrency
<1>4. s \in Seq(Lexeme)
  BY <1>3
<1>5. ASSUME NEW i \in DOMAIN t, SolMarker(t, i) PROVE t[i].digits = 0
  BY <1>5 DEF SolMarker, Is, Lexeme
<1>6. \A i : Digits(s, i) = Digits(t, i)
  BY <1>2, <1>5 DEF Digits, Blank
<1> QED
  BY <1>2, <1>4, <1>6

(* A value that is read comes from a reading that leaves nothing over. *)
LEMMA ParsedIsAMatch ==
  ASSUME NEW t \in Seq(Lexeme), NEW v \in Parsed(t)
  PROVE  \E i \in DOMAIN t : \E r \in Readings(WithoutCurrency(t), i) :
           /\ v = AmountOf(WithoutCurrency(t), i, r)
           /\ ~Signed(WithoutCurrency(t), i)
           /\ ~DigitsLeft(WithoutCurrency(t), i, r)
BY MarkersHoldNoDigits DEF Parsed, Matches, Match

(* Taking the sol markers out makes no separator. *)
LEMMA SeparatorsStay ==
  ASSUME NEW t \in Seq(Lexeme), NEW i, Separator(WithoutCurrency(t), i)
  PROVE  Separator(t, i)
BY MarkersHoldNoDigits DEF Separator, Is, Blank

(* A reading that leaves no digit over is the only number of the text.     *)
LEMMA NothingLeftIsWhole ==
  ASSUME NEW t \in Seq(Lexeme), NEW i \in DOMAIN t,
         NEW r \in Readings(WithoutCurrency(t), i), ~DigitsLeft(WithoutCurrency(t), i, r)
  PROVE  /\ i \in Numerals(t) /\ OnlyNumber(t, i)
         /\ r[1] = Digits(t, i) /\ r[2] = Digits(t, i + 2)
<1> DEFINE s == WithoutCurrency(t)
<1> i \in Int
  OBVIOUS
<1>1. /\ r[1] \in 1 .. 10 /\ r[2] \in 0 .. 2 /\ r[1] <= Digits(t, i)
      /\ r[2] > 0 => Separator(t, i + 1) /\ r[2] <= Digits(t, i + 2)
  BY MarkersHoldNoDigits, SeparatorsStay DEF Readings, INT_DIGITS
<1>2. \A j \in DOMAIN t : Digits(t, j) \in Nat /\ Digits(t, j) <= Taken(i, r, j)
  <2>1. \A j \in DOMAIN t : Digits(s, j) = Digits(t, j) /\ Digits(t, j) \in Nat
    BY MarkersHoldNoDigits, DigitsAreNumbers
  <2>2. \A j \in DOMAIN t : ~(Digits(s, j) > Taken(i, r, j))
    BY MarkersHoldNoDigits DEF DigitsLeft
  <2>3. \A j \in DOMAIN t : Taken(i, r, j) \in Nat
    BY <1>1 DEF Taken
  <2> QED
    BY <2>1, <2>2, <2>3
<1>3. r[1] = Digits(t, i) /\ i \in Numerals(t)
  BY <1>1, <1>2, DigitsAreNumbers DEF Taken
<1>4. r[2] = Digits(t, i + 2)
  <2>1. CASE i + 2 \in DOMAIN t
    <3>1. Digits(t, i + 2) <= r[2]
      BY <2>1, <1>2 DEF Taken
    <3> QED
      BY <3>1, <2>1, <1>1, <1>2
  <2>2. CASE i + 2 \notin DOMAIN t
    BY <2>2, <1>1 DEF Digits
  <2> QED
    BY <2>1, <2>2
<1>5. \A j \in Numerals(t) : j = i \/ (j = i + 2 /\ r[2] > 0)
  <2> SUFFICES ASSUME NEW j \in Numerals(t), j # i
               PROVE  j = i + 2 /\ r[2] > 0
    OBVIOUS
  <2>1. j \in DOMAIN t /\ Digits(t, j) > 0
    BY DigitsAreNumbers DEF Numerals
  <2> QED
    BY <2>1, <1>1, <1>2 DEF Taken
<1>6. OnlyNumber(t, i)
  <2>1. CASE r[2] = 0
    BY <2>1, <1>3, <1>5 DEF OnlyNumber
  <2>2. CASE r[2] > 0
    <3>1. i + 2 \in Numerals(t)
      BY <2>2, <1>4, DigitsAreNumbers
    <3> QED
      BY <3>1, <2>2, <1>1, <1>3, <1>5 DEF OnlyNumber
  <2> QED
    BY <2>1, <2>2, <1>1
<1> QED
  BY <1>3, <1>4, <1>6

(* A foreign marker that stands apart is seen. *)
LEMMA ForeignShows ==
  ASSUME NEW t \in Seq(Lexeme), Foreign(t, Apart)
  PROVE  ForeignMarker(t)
<1>1. PICK i \in DOMAIN t :
        \/ t[i].kind = "symbol"
        \/ /\ t[i].kind = "currency"
           /\ \A n \in {i - 1, i + 1} \cap DOMAIN t : t[n].kind \in Apart
  BY DEF Foreign
<1>2. CASE t[i].kind = "symbol"
  BY <1>2 DEF ForeignMarker
<1>3. CASE t[i].kind = "currency" /\ \A n \in {i - 1, i + 1} \cap DOMAIN t : t[n].kind \in Apart
  BY <1>3 DEF ForeignMarker, EndsInWord, StartsWithWord, Is, Apart
<1> QED
  BY <1>1, <1>2, <1>3

(* Between a sign and the number the markers of soles that stand apart turn *)
(* blank, so the sign is still seen.                                        *)
LEMMA SignsShow ==
  ASSUME NEW t \in Seq(Lexeme), NEW i \in DOMAIN t, SignBefore(t, i)
  PROVE  Signed(WithoutCurrency(t), i)
<1> DEFINE s == WithoutCurrency(t)
<1>1. PICK j \in 1 .. i - 1 :
        /\ t[j].kind \in {"minus", "plus"}
        /\ \A k \in j + 1 .. i - 1 :
             \/ t[k].kind \in {"blank", "sol"}
             \/ t[k].kind = "dot" /\ t[k - 1].kind = "sol"
             \/ t[k].kind = "soles" /\ {t[k - 1].kind, t[k + 1].kind} \subseteq Apart
  BY DEF SignBefore
<1>2. j \in DOMAIN t /\ i \in Int /\ \A k \in j .. i - 1 : k \in DOMAIN t
  OBVIOUS
<1>3. Is(s, j, {"minus", "plus"})
  <2>1. ~SolMarker(t, j)
    BY <1>1, <1>2 DEF SolMarker, Is
  <2> QED
    BY <2>1, <1>1, <1>2, MarkersHoldNoDigits DEF Is
<1>4. \A k \in j .. i - 1 : EndsInWord(t, k) =>
        t[k].kind = "soles" /\ t[k + 1].kind \in Apart
  <2> SUFFICES ASSUME NEW k \in j .. i - 1, EndsInWord(t, k)
               PROVE  t[k].kind = "soles" /\ t[k + 1].kind \in Apart
    OBVIOUS
  <2>1. t[k].kind \in {"word", "soles", "currency", "number", "zeros"}
    BY DEF EndsInWord, Is
  <2> QED
    BY <2>1, <1>1
<1>5. ASSUME NEW k \in j + 1 .. i - 1 PROVE Is(s, k, {"blank"})
  <2>1. k \in DOMAIN t /\ k - 1 \in j .. i - 1
    BY <1>2
  <2>2. CASE t[k].kind = "blank"
    BY <2>1, <2>2, MarkersHoldNoDigits DEF Is, Blank
  <2>3. CASE t[k].kind = "sol"
    <3>1. ~EndsInWord(t, k - 1)
      BY <2>1, <2>3, <1>4 DEF Apart
    <3>2. SolMarker(t, k)
      BY <3>1, <2>1, <2>3 DEF SolMarker, Is
    <3> QED
      BY <3>2, <2>1, MarkersHoldNoDigits DEF WithoutCurrency, Is, Blank
  <2>4. CASE t[k].kind = "dot" /\ t[k - 1].kind = "sol"
    <3>1. k - 1 # j
      BY <2>4, <1>1
    <3>2. k - 2 \in j .. i - 1
      BY <2>1, <3>1
    <3>3. ~EndsInWord(t, k - 2)
      BY <2>4, <3>2, <1>4 DEF Apart
    <3>4. SolMarker(t, k)
      BY <2>1, <2>4, <3>2, <3>3, <1>2 DEF SolMarker, Is
    <3> QED
      BY <3>4, <2>1, MarkersHoldNoDigits DEF WithoutCurrency, Is, Blank
  <2>5. CASE t[k].kind = "soles" /\ {t[k - 1].kind, t[k + 1].kind} \subseteq Apart
    <3>1. ~EndsInWord(t, k - 1) /\ ~StartsWithWord(t, k + 1)
      BY <2>5 DEF EndsInWord, StartsWithWord, Is, Apart
    <3>2. SolMarker(t, k)
      BY <3>1, <2>1, <2>5 DEF SolMarker, Is
    <3> QED
      BY <3>2, <2>1, MarkersHoldNoDigits DEF WithoutCurrency, Is, Blank
  <2> QED
    BY <2>2, <2>3, <2>4, <2>5, <1>1
<1> QED
  BY <1>3, <1>5 DEF Signed

(* No number of a text that was read has a sign before it.                 *)
LEMMA ReadIsUnsigned ==
  ASSUME NEW t \in Seq(Lexeme), NEW v \in Parsed(t), NEW n \in Numerals(t)
  PROVE  ~SignBefore(t, n)
<1>1. PICK i \in DOMAIN t : \E r \in Readings(WithoutCurrency(t), i) :
        /\ ~Signed(WithoutCurrency(t), i) /\ ~DigitsLeft(WithoutCurrency(t), i, r)
  BY ParsedIsAMatch
<1>2. i \in Numerals(t) /\ OnlyNumber(t, i) /\ ~SignBefore(t, i)
  BY <1>1, NothingLeftIsWhole, SignsShow
<1>3. CASE n = i
  BY <1>2, <1>3
<1>4. CASE n = i + 2 /\ Separator(t, i + 1)
  <2> SUFFICES ASSUME NEW j \in 1 .. n - 1, t[j].kind \in {"minus", "plus"},
                      \A k \in j + 1 .. n - 1 :
                        \/ t[k].kind \in {"blank", "sol"}
                        \/ t[k].kind = "dot" /\ t[k - 1].kind = "sol"
                        \/ t[k].kind = "soles" /\ {t[k - 1].kind, t[k + 1].kind} \subseteq Apart
               PROVE  FALSE
    BY DEF SignBefore
  <2>1. t[i].kind \in {"number", "zeros"} /\ t[i + 1].kind \in {"dot", "comma"}
    BY <1>2, <1>4 DEF Numerals, Separator, Is
  <2>2. j # i /\ j # i + 1
    BY <2>1
  <2>3. i \in j + 1 .. n - 1
    BY <2>2, <1>4
  <2> QED
    BY <2>1, <2>3
<1> QED
  BY <1>2, <1>3, <1>4 DEF OnlyNumber

(* A text of the documented grammar parses.                                *)
LEMMA PlainParses ==
  ASSUME NEW t \in Seq(Lexeme), Plain(t)
  PROVE  ~ForeignMarker(t) /\ Parsed(t) # {}
<1> DEFINE s == WithoutCurrency(t)
<1>1. PICK i \in Numerals(t) :
        /\ OnlyNumber(t, i) /\ Digits(t, i) <= INT_DIGITS /\ Digits(t, i + 2) <= 2
        /\ Separator(t, i - 1) => /\ t[i - 1].kind = "dot" /\ Is(t, i - 2, {"sol"})
                                 /\ ~EndsInWord(t, i - 3)
  BY DEF Plain
<1> DEFINE n == Digits(t, i)
           c == Digits(t, i + 2)
           r == <<n, c>>
<1>2. i \in DOMAIN t /\ i \in Int /\ n \in 1 .. 10 /\ c \in 0 .. 2
  <2>1. i \in DOMAIN t /\ i \in Int
    BY DEF Numerals
  <2>2. n \in Nat /\ n > 0 /\ c \in Nat
    BY DigitsAreNumbers
  <2> QED
    BY <2>1, <2>2, <1>1 DEF INT_DIGITS
<1>3. \A j \in DOMAIN t : t[j].kind \notin {"symbol", "currency", "minus", "plus"}
  BY DEF Plain
<1>4. \A j : Digits(t, j) > 0 => j = i \/ (j = i + 2 /\ c > 0)
  BY <1>1, DigitsAreNumbers DEF OnlyNumber
<1>5. \A j : Digits(s, j) = Digits(t, j) /\ Digits(t, j) \in Nat
  BY MarkersHoldNoDigits, DigitsAreNumbers
<1>6. ~Separator(s, i - 1)
  <2> SUFFICES ASSUME Separator(s, i - 1) PROVE FALSE
    OBVIOUS
  <2>1. /\ t[i - 1].kind = "dot" /\ Is(t, i - 2, {"sol"}) /\ ~EndsInWord(t, i - 3)
        /\ i - 1 \in DOMAIN t
    BY <1>1, SeparatorsStay DEF Separator, Is
  <2>2. SolMarker(t, i - 1)
    BY <2>1, <1>2 DEF SolMarker, Is
  <2> QED
    BY <2>1, <2>2 DEF WithoutCurrency, Separator, Is, Blank
<1>7. c > 0 => Separator(s, i + 1)
  <2> SUFFICES ASSUME c > 0 PROVE Separator(s, i + 1)
    OBVIOUS
  <2>1. Separator(t, i + 1)
    <3>1. i + 2 \in Numerals(t)
      BY DigitsAreNumbers
    <3> QED
      BY <3>1, <1>1, <1>2 DEF OnlyNumber
  <2>2. t[i].kind \in {"number", "zeros"} /\ t[i + 1].kind \in {"dot", "comma"} /\ i + 1 \in DOMAIN t
    BY <2>1, <1>1 DEF Numerals, Separator, Is
  <2>3. ~SolMarker(t, i + 1)
    BY <2>2, <1>2 DEF SolMarker, Is
  <2> QED
    BY <2>2, <2>3 DEF WithoutCurrency, Separator, Is
<1>8. r \in Readings(s, i)
  <2>1. CASE c = 0
    <3>1. NotGlued(s, i, n)
      BY <2>1, <1>5 DEF NotGlued
    <3> QED
      BY <3>1, <2>1, <1>2, <1>5, <1>6 DEF Readings, INT_DIGITS
  <2>2. CASE c > 0
    <3>1. ~(Digits(t, i + 4) > 0)
      BY <1>2, <1>4
    <3>2. NotGlued(s, i + 2, c)
      BY <3>1, <1>2, <1>5 DEF NotGlued
    <3> QED
      BY <3>2, <2>2, <1>2, <1>5, <1>6, <1>7 DEF Readings, INT_DIGITS
  <2> QED
    BY <2>1, <2>2, <1>2
<1>9. r \in Match(s, i)
  <2>1. ASSUME NEW o \in Readings(s, i)
        PROVE  n > o[1] \/ (n = o[1] /\ c >= o[2])
    BY <1>2, <1>5 DEF Readings, INT_DIGITS
  <2> QED
    BY <2>1, <1>8 DEF Match
<1>10. Matches(s) = {i}
  <2>1. ASSUME NEW j \in DOMAIN s, Readings(s, j) # {} PROVE j = i
    <3>1. Digits(t, j) > 0 /\ ~Separator(s, j - 1)
      BY <2>1, <1>5 DEF Readings, INT_DIGITS
    <3>2. j = i + 2 => Separator(s, j - 1)
      BY <3>1, <1>2, <1>7
    <3> QED
      BY <3>1, <3>2, <1>4
  <2> QED
    BY <2>1, <1>2, <1>8, MarkersHoldNoDigits DEF Matches
<1>11. ~Signed(s, i)
  <2>1. ASSUME NEW j, Is(s, j, {"minus", "plus"}) PROVE FALSE
    BY <2>1, <1>3, MarkersHoldNoDigits DEF Is, Blank
  <2> QED
    BY <2>1 DEF Signed
<1>12. Described(s, i, r)
  <2>1. PICK j \in DOMAIN t : t[j].kind = "word"
    BY DEF Plain
  <2>2. s[j] = t[j] /\ j \in DOMAIN s
    BY <2>1, MarkersHoldNoDigits DEF SolMarker, Is
  <2>3. ~(Digits(t, j) > 0) /\ Digits(t, j) \in Nat
    BY <2>1, DigitsAreNumbers DEF Numerals
  <2>4. Taken(i, r, j) = 0
    BY <2>3, <1>2 DEF Taken
  <2> QED
    BY <2>1, <2>2, <2>4 DEF Described
<1>13. ~DigitsLeft(s, i, r)
  <2>1. ASSUME NEW j \in DOMAIN s PROVE ~(Digits(s, j) > Taken(i, r, j))
    <3>1. Taken(i, r, j) \in Nat
      BY <1>2 DEF Taken
    <3>2. CASE j = i \/ j = i + 2
      BY <3>2, <1>2, <1>5 DEF Taken
    <3>3. CASE ~(j = i \/ j = i + 2)
      BY <3>1, <3>3, <1>4, <1>5
    <3> QED
      BY <3>2, <3>3
  <2> QED
    BY <2>1 DEF DigitsLeft
<1>14. AmountOf(s, i, r) \in Parsed(t)
  BY <1>9, <1>10, <1>11, <1>12, <1>13 DEF Parsed
<1>15. ~ForeignMarker(t)
  BY <1>3 DEF ForeignMarker
<1> QED
  BY <1>14, <1>15

-----------------------------------------------------------------------------
(* What every state remembers of the reading: a value of the parser is one  *)
(* it may return for the text; a value of the LLM has passed the money      *)
(* rules; and whoever is past the parser without a value was refused by it. *)
ByParser == parsed # None /\ parsed.source = "deterministic"

ReadingInv ==
  /\ stage \in {"received", "asking"} => parsed = None
  /\ stage # "ended" => answer = None
  /\ IsText =>
       /\ request.text \in Seq(Lexeme)
       /\ ByParser => parsed.value \in Parsed(request.text)
       /\ parsed # None /\ ~ByParser => Valid(parsed.value) /\ ~Overflows(parsed.value)
       /\ parsed # None \/ stage = "asking" => ~ForeignMarker(request.text)
       /\ stage = "asking" \/ answer = "PARSER_FAILED" =>
            ForeignMarker(request.text) \/ Parsed(request.text) = {}
       /\ parsed # None /\ answer = "INVALID_AMOUNT" => ~Valid(parsed.value)
       /\ parsed # None /\ answer = "INTERNAL_ERROR" => Overflows(parsed.value)

(* Every variable holds a value of its kind.                               *)
LEMMA TypesKept ==
  ASSUME TypeOK, [Next]_vars
  PROVE  TypeOK'
<1> USE DEF TypeOK, Answers
<1>1. CASE ReadStructured
  BY <1>1, ParsingAssumption DEF ReadStructured, Read, Reply, Given, IsText
<1>2. CASE ReadText
  <2>1. ASSUME NEW v \in Parsed(request.text), IsText PROVE v \in Value
    <3>1. request.text \in Seq(Lexeme)
      BY <2>1, ParsingAssumption DEF IsText, Given
    <3>2. PICK i \in DOMAIN request.text :
            \E r \in Readings(WithoutCurrency(request.text), i) :
              v = AmountOf(WithoutCurrency(request.text), i, r)
      BY <3>1, <2>1, ParsedIsAMatch
    <3> QED
      BY <3>2 DEF Readings, INT_DIGITS, AmountOf, Value
  <2> QED
    BY <1>2, <2>1 DEF ReadText, Read, Reply
<1>3. CASE ExtractorRaises
  BY <1>3 DEF ExtractorRaises, Reply
<1>4. ASSUME NEW x \in Extraction, Validate(x) PROVE TypeOK'
  BY <1>4, ParsingAssumption DEF Validate, Extraction, Given, Read, Reply
<1>5. CASE Record
  BY <1>5 DEF Record, Reply
<1>6. CASE UNCHANGED vars
  BY <1>6 DEF vars
<1> QED
  BY <1>1, <1>2, <1>3, <1>4, <1>5, <1>6 DEF Next, Ended

(* Every step keeps what is known of a reading. *)
LEMMA ReadingKept ==
  ASSUME TypeOK, ReadingInv, [Next]_vars
  PROVE  ReadingInv'
<1> USE ParsingAssumption DEF ReadingInv, ByParser, Answers
<1>1. CASE ReadStructured
  BY <1>1 DEF ReadStructured, Read, Reply, IsText
<1>2. CASE ReadText
  <2>1. IsText /\ stage = "received" /\ parsed = None /\ answer = None /\ request' = request /\ llm' = llm
    BY <1>2 DEF ReadText, Read, Reply
  <2>2. ASSUME NEW v, ~ForeignMarker(request.text), v \in Parsed(request.text), Read(v, "deterministic")
        PROVE  ReadingInv'
    BY <2>1, <2>2 DEF Read, IsText
  <2>3. CASE /\ ForeignMarker(request.text) \/ Parsed(request.text) = {}
             /\ Reply("PARSER_FAILED")
    BY <2>1, <2>3 DEF Reply, IsText
  <2>4. CASE /\ ~ForeignMarker(request.text) /\ Parsed(request.text) = {}
             /\ stage' = "asking" /\ UNCHANGED <<request, llm, parsed, answer>>
    BY <2>1, <2>4 DEF IsText
  <2> QED
    BY <1>2, <2>2, <2>3, <2>4 DEF ReadText
<1>3. CASE ExtractorRaises
  BY <1>3 DEF ExtractorRaises, Reply, IsText
<1>4. ASSUME NEW x \in Extraction, Validate(x) PROVE ReadingInv'
  BY <1>4 DEF Validate, Read, Reply, IsText
<1>5. CASE Record
  BY <1>5 DEF Record, Reply, IsText
<1>6. CASE UNCHANGED vars
  BY <1>6 DEF vars, IsText
<1> QED
  BY <1>1, <1>2, <1>3, <1>4, <1>5, <1>6 DEF Next, Ended

(* In every reachable state the types and the reading invariant hold.      *)
THEOREM ParsingInvariant == Spec => [](TypeOK /\ ReadingInv)
<1>1. Init => TypeOK /\ ReadingInv
  <2> SUFFICES ASSUME Init PROVE TypeOK /\ ReadingInv
    OBVIOUS
  <2>1. request \in [text: Seq(Lexeme)] \cup [amount: Given]
    BY ParsingAssumption DEF Init
  <2>2. IsText => request.text \in Seq(Lexeme)
    BY <2>1 DEF IsText
  <2> QED
    BY <2>1, <2>2, ParsingAssumption DEF Init, TypeOK, ReadingInv, ByParser, Answers
<1>2. TypeOK /\ ReadingInv /\ [Next]_vars => TypeOK' /\ ReadingInv'
  BY TypesKept, ReadingKept
<1> QED
  BY <1>1, <1>2, PTL DEF Spec

(* The parser reads the one number a text writes, whole, whatever the text. *)
THEOREM NumbersAreReadWhole == Spec => []AmountIsTheOneWritten
<1>1. TypeOK /\ ReadingInv => AmountIsTheOneWritten
  <2> SUFFICES ASSUME ReadingInv, IsText, ByParser
               PROVE  \E i \in Numerals(request.text) :
                        /\ OnlyNumber(request.text, i)
                        /\ parsed.value.whole = Digits(request.text, i)
                        /\ parsed.value.cents = Digits(request.text, i + 2)
    BY DEF AmountIsTheOneWritten, ByParser
  <2>1. request.text \in Seq(Lexeme) /\ parsed.value \in Parsed(request.text)
    BY DEF ReadingInv
  <2>2. PICK i \in DOMAIN request.text : \E r \in Readings(WithoutCurrency(request.text), i) :
          /\ parsed.value = AmountOf(WithoutCurrency(request.text), i, r)
          /\ ~DigitsLeft(WithoutCurrency(request.text), i, r)
    BY <2>1, ParsedIsAMatch
  <2> QED
    BY <2>1, <2>2, NothingLeftIsWhole DEF AmountOf
<1> QED
  BY <1>1, ParsingInvariant, PTL

(* An amount the parser read fits the column, unless it is zero.           *)
THEOREM LimitsAgree == Spec => []ReadAmountsFit
<1>1. TypeOK /\ ReadingInv => ReadAmountsFit
  <2> SUFFICES ASSUME ReadingInv, IsText, parsed # None,
                      answer \in {"INVALID_AMOUNT", "INTERNAL_ERROR"}
               PROVE  ~parsed.value.positive
    BY DEF ReadAmountsFit
  <2>1. CASE ByParser
    <3>1. request.text \in Seq(Lexeme) /\ parsed.value \in Parsed(request.text)
      BY <2>1 DEF ReadingInv
    <3>2. PICK i \in DOMAIN request.text : \E r \in Readings(WithoutCurrency(request.text), i) :
            parsed.value = AmountOf(WithoutCurrency(request.text), i, r)
      BY <3>1, ParsedIsAMatch
    <3>3. /\ parsed.value.finite /\ parsed.value.whole \in 1 .. 10
          /\ parsed.value.cents \in 0 .. 2
      BY <3>2 DEF AmountOf, Readings, INT_DIGITS
    <3> QED
      BY <3>3 DEF ReadingInv, Valid, Overflows, INT_DIGITS, PRECISION
  <2>2. CASE ~ByParser
    BY <2>2 DEF ReadingInv
  <2> QED
    BY <2>1, <2>2
<1> QED
  BY <1>1, ParsingInvariant, PTL

(* The parser reads no amount that a sign is before, with nothing but blanks *)
(* and marks of soles that stand apart in between ("-PEN35" is not such).    *)
THEOREM SignsNeverRead == Spec => []SignsAreRefused
<1>1. TypeOK /\ ReadingInv => SignsAreRefused
  BY ReadIsUnsigned DEF ReadingInv, ByParser, SignsAreRefused
<1> QED
  BY <1>1, ParsingInvariant, PTL

(* A marker of another currency that stands apart ends the request.        *)
THEOREM ForeignNeverRead == Spec => []ForeignIsTerminal
<1>1. TypeOK /\ ReadingInv => ForeignIsTerminal
  BY ForeignShows DEF ReadingInv, ForeignIsTerminal
<1> QED
  BY <1>1, ParsingInvariant, PTL

(* Every text of the documented grammar is read.                           *)
THEOREM PlainNeverRefused == Spec => []PlainIsRead
<1>1. TypeOK /\ ReadingInv => PlainIsRead
  BY PlainParses DEF ReadingInv, PlainIsRead
<1> QED
  BY <1>1, ParsingInvariant, PTL

=============================================================================
