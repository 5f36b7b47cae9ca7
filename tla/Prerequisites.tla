---------------------------- MODULE Prerequisites ----------------------------
(***************************************************************************)
(* The prerequisite texts of the catalogue: how one is read and judged     *)
(* (rules/prerequisites.py).  A text is a sequence of words.  AND, & and OR *)
(* join, parentheses group, the code of a course and "year n" (a standing)  *)
(* demand, and every other fragment is kept as something nobody can judge.  *)
(***************************************************************************)
LOCAL INSTANCE Integers
LOCAL INSTANCE Sequences
LOCAL INSTANCE FiniteSets
LOCAL INSTANCE SequencesExt

CONSTANT Codes  \* the words that are course codes

Standings == [year1 |-> 1, year2 |-> 2, year3 |-> 3, year4 |-> 4]

\* Expressions
Course(code) == [type |-> "COURSE", code |-> code]
Standing(year) == [type |-> "YEAR_STANDING", year |-> year]
Unsupported(text) == [type |-> "UNSUPPORTED", text |-> text]
Joined(type, children) == [type |-> type, children |-> children]

-----------------------------------------------------------------------------
(* Reading *)

\* How many parentheses are open after the first i words.
Depth(text, i) ==
  Cardinality({k \in 1..i : text[k] = "("}) - Cardinality({k \in 1..i : text[k] = ")"})

Balanced(text) ==
  /\ \A i \in 0..Len(text) : Depth(text, i) >= 0
  /\ Depth(text, Len(text)) = 0

\* The text between the top-level occurrences of some operators.
SplitTopLevel(text, operators) ==
  LET cuts == <<0>> \o
              SetToSortSeq({i \in DOMAIN text : text[i] \in operators /\ Depth(text, i) = 0},
                           LAMBDA i, j : i < j) \o <<Len(text) + 1>>
  IN [k \in 1..(Len(cuts) - 1) |-> SubSeq(text, cuts[k] + 1, cuts[k + 1] - 1)]

IsWholeGroup(text) ==
  /\ Len(text) >= 2 /\ text[1] = "(" /\ text[Len(text)] = ")"
  /\ \A i \in 1..(Len(text) - 1) : Depth(text, i) > 0

\* A nested expression of the same kind gives up its children.
Flattened(type, parts) ==
  Joined(type, FlattenSeq([i \in DOMAIN parts |->
                             IF parts[i].type = type THEN parts[i].children ELSE <<parts[i]>>]))

RECURSIVE ParseOr(_)

ParseAtom(text) ==
  IF IsWholeGroup(text) /\ Len(text) > 2 THEN ParseOr(SubSeq(text, 2, Len(text) - 1))
  ELSE IF Len(text) = 1 /\ text[1] \in Codes THEN Course(text[1])
  ELSE IF Len(text) = 1 /\ text[1] \in DOMAIN Standings THEN Standing(Standings[text[1]])
  ELSE Unsupported(text)

ParseAnd(text) ==
  LET parts == SplitTopLevel(text, {"AND", "&"}) IN
  IF Len(parts) = 1 THEN ParseAtom(text)
  ELSE IF \E i \in DOMAIN parts : parts[i] = <<>> THEN Unsupported(text)
  ELSE Flattened("AND", [i \in DOMAIN parts |-> ParseAtom(parts[i])])

ParseOr(text) ==
  LET parts == SplitTopLevel(text, {"OR"}) IN
  IF Len(parts) = 1 THEN ParseAnd(text)
  ELSE IF \E i \in DOMAIN parts : parts[i] = <<>> THEN Unsupported(text)
  ELSE Flattened("OR", [i \in DOMAIN parts |-> ParseAnd(parts[i])])

\* parse_prerequisite of a text that is not blank
ParsePrerequisite(text) == IF Balanced(text) THEN ParseOr(text) ELSE Unsupported(text)

-----------------------------------------------------------------------------
(* Judging *)

\* The weakest and the strongest of some results.
AllOf(results) ==
  IF "FAIL" \in results THEN "FAIL" ELSE IF "UNKNOWN" \in results THEN "UNKNOWN" ELSE "PASS"
AnyOf(results) ==
  IF "PASS" \in results THEN "PASS" ELSE IF "UNKNOWN" \in results THEN "UNKNOWN" ELSE "FAIL"

RECURSIVE EvaluateExpression(_, _, _)
EvaluateExpression(e, completed, year) ==
  LET Results == {EvaluateExpression(e.children[i], completed, year) : i \in DOMAIN e.children} IN
  CASE e.type = "COURSE" -> IF e.code \in completed THEN "PASS" ELSE "FAIL"
    [] e.type = "YEAR_STANDING" -> IF year >= e.year THEN "PASS" ELSE "FAIL"
    [] e.type = "UNSUPPORTED" -> "UNKNOWN"
    [] e.type = "AND" -> AllOf(Results)
    [] e.type = "OR" -> AnyOf(Results)

\* evaluate_prerequisite; a course without a text demands nothing.
EvaluatePrerequisite(text, completed, year) ==
  IF text = <<>> THEN "PASS"
  ELSE EvaluateExpression(ParsePrerequisite(text), completed, year)

-----------------------------------------------------------------------------
(* What a text means, for comparison *)

\* Whether an expression holds when everything unsupported is granted, or denied.
RECURSIVE Holds(_, _, _, _)
Holds(e, completed, year, granted) ==
  CASE e.type = "COURSE" -> e.code \in completed
    [] e.type = "YEAR_STANDING" -> year >= e.year
    [] e.type = "UNSUPPORTED" -> granted
    [] e.type = "AND" -> \A i \in DOMAIN e.children : Holds(e.children[i], completed, year, granted)
    [] e.type = "OR" -> \E i \in DOMAIN e.children : Holds(e.children[i], completed, year, granted)

\* How a catalogue would write an expression.
RECURSIVE Written(_)
Written(e) ==
  LET Part(i) == IF e.type = "AND" /\ e.children[i].type = "OR"
                 THEN <<"(">> \o Written(e.children[i]) \o <<")">>
                 ELSE Written(e.children[i])
      Rest == [i \in 2..Len(e.children) |-> <<e.type>> \o Part(i)]
  IN
  CASE e.type = "COURSE" -> <<e.code>>
    [] e.type = "YEAR_STANDING" -> <<CHOOSE w \in DOMAIN Standings : Standings[w] = e.year>>
    [] e.type = "UNSUPPORTED" -> e.text
    [] OTHER -> Part(1) \o FlattenSeq([i \in 1..(Len(e.children) - 1) |-> Rest[i + 1]])

\* The verdict on what was written is the one its author meant: PASS when it holds
\* whatever the fragments nobody can read say, FAIL when it then fails.
ReadAsMeant(e, completed, year) ==
  LET result == EvaluatePrerequisite(Written(e), completed, year) IN
  /\ result = "PASS" <=> Holds(e, completed, year, FALSE)
  /\ result = "FAIL" <=> ~Holds(e, completed, year, TRUE)

\* More courses or a later year never turn a PASS, and fewer never a FAIL.
Monotone(text, fewer, more, year) ==
  /\ EvaluatePrerequisite(text, fewer, year) = "PASS" =>
       EvaluatePrerequisite(text, more, year) = "PASS"
  /\ EvaluatePrerequisite(text, more, year) = "FAIL" =>
       EvaluatePrerequisite(text, fewer, year) = "FAIL"

=============================================================================
