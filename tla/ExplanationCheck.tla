---------------------------- MODULE ExplanationCheck ----------------------------
(***************************************************************************)
(* The honesty backstop of explain_result (graph/explanation_check.py): a   *)
(* draft that editorializes or disagrees with the rows is asked for once   *)
(* more, and then replaced by a plain rendering of the result.             *)
(*                                                                         *)
(* A text is the sequence of what the regular expressions find in it: row  *)
(* counts, figures styled like data, words of a derivation, data-talk,     *)
(* query mechanics and world-claim markers.  Numbers are compared by value *)
(* in cells and digit by digit in the question, as the code does.          *)
(***************************************************************************)
EXTENDS Integers, Sequences

CONSTANT Window     \* how many tokens away the regular expressions look

\* count: `n rows', as in `the top n rows' when selected, with a thousands
\* separator when grouped; value: a figure; marker: guarded unless prescriptive.
Token == [kind : {"count"}, n : Nat, selected : BOOLEAN, grouped : BOOLEAN]
         \cup [kind : {"value"}, n : Nat] \cup [kind : {"marker"}, guarded : BOOLEAN]
         \cup [kind : {"derived", "data", "mechanics"}]

\* `rows' are what the cells read as, `question' the numbers of the question.
WellFormed(drafts, r) ==
  /\ drafts \in Seq(Token) \X Seq(Token)
  /\ r \in [rows : Seq(Seq(Token)), row_count : Nat, question : SUBSET Nat]
  /\ r.row_count > 0 => r.rows # <<>>

Near(text, i, from, to) == {j \in DOMAIN text : i + from <= j /\ j <= i + to}

-----------------------------------------------------------------------------
is_descriptive_context(text, i) ==
  \/ \E j \in Near(text, i, 1, Window) : text[j].kind \in {"count", "value", "data"}
  \/ \E j \in Near(text, i, -Window, Window) : text[j].kind = "mechanics"

is_overstated(text) ==
  \E i \in DOMAIN text :
    text[i].kind = "marker" /\ ~(text[i].guarded /\ is_descriptive_context(text, i))

-----------------------------------------------------------------------------
Digits[n \in Nat] == IF n < 10 THEN <<n>> ELSE Append(Digits[n \div 10], n % 10)

\* The figure's digits occur in the text of the question.
Echoed(v, question) ==
  \E q \in question : \E k \in 0..(Len(Digits[q]) - Len(Digits[v])) :
    SubSeq(Digits[q], k + 1, k + Len(Digits[v])) = Digits[v]

Cells(row) == {row[j] : j \in DOMAIN row}
CellValues(rows) ==
  {c.n : c \in {x \in UNION {Cells(rows[k]) : k \in DOMAIN rows} : x.kind \in {"value", "count"}}}

row_count_claims(text) == {i \in DOMAIN text : text[i].kind = "count" /\ ~text[i].selected}

\* Figures to look up: those styled like data that are not a checked row count.
cited_values(text) ==
  {i \in DOMAIN text : text[i].kind = "value" \/ (text[i].kind = "count" /\ text[i].grouped)}
  \ row_count_claims(text)

derived_figure(text, i) == \E j \in Near(text, i, -Window, Window) : text[j].kind = "derived"

explanation_matches_result(text, r) ==
  /\ \A i \in row_count_claims(text) : text[i].n = r.row_count
  /\ r.row_count > 0 =>
       \A i \in cited_values(text) :
         \/ derived_figure(text, i) \/ Echoed(text[i].n, r.question)
         \/ text[i].n \in CellValues(r.rows)

\* The first four cells of the first row, after the count.
describe_result_plainly(r) ==
  <<[kind |-> "count", n |-> r.row_count, selected |-> FALSE, grouped |-> FALSE]>>
  \o (IF r.row_count = 0 THEN <<>> ELSE r.rows[1])

Passes(text, r) == ~is_overstated(text) /\ explanation_matches_result(text, r)

\* Variant: the second draft is not checked.
second_as_is(drafts, r) == IF Passes(drafts[1], r) THEN drafts[1] ELSE drafts[2]

explanation(drafts, r) ==
  IF Passes(drafts[1], r) THEN drafts[1]
  ELSE IF Passes(drafts[2], r) THEN drafts[2]
  ELSE describe_result_plainly(r)

-----------------------------------------------------------------------------
\* What is explained is not false: it counts the rows as they are, and a figure
\* that is in no row is the user's own or stands beside a derivation
\* (explanation_check.py:20-28).  The plain rendering is trusted only as far as
\* the data in it does not itself read as a count.
PublishedIsFaithful(drafts, r) ==
  LET text == explanation(drafts, r)
      rendered == text = describe_result_plainly(r)
  IN  /\ \A i \in DOMAIN text :
           text[i].kind = "count" /\ ~text[i].selected /\ (rendered => i = 1)
             => text[i].n = r.row_count
      /\ \A i \in DOMAIN text :
           text[i].kind = "value" /\ r.row_count > 0 =>
             \/ \E k \in DOMAIN r.rows : \E c \in Cells(r.rows[k]) :
                  c.kind \in {"value", "count"} /\ c.n = text[i].n
             \/ Echoed(text[i].n, r.question)
             \/ \E j \in DOMAIN text : text[j].kind = "derived"

\* A draft that claims nothing of the world and whose counts and figures are all
\* those of the result is published as it was written: mangling a good
\* explanation is worse than missing a claim (explanation_check.py:24-26).
GoodDraftIsKept(drafts, r) ==
  LET text == drafts[1]
      good == \A i \in DOMAIN text :
                CASE text[i].kind = "marker" -> FALSE
                  [] text[i].kind = "count" -> text[i].n = r.row_count /\ ~text[i].selected
                  [] text[i].kind = "value" -> text[i].n \in CellValues(r.rows)
                  [] OTHER -> TRUE
  IN  good => explanation(drafts, r) = text

\* The backstop lets nothing false through and spoils nothing good
\* (explanation_check.py:20-28).
ExplanationIsHonest(drafts, r) == PublishedIsFaithful(drafts, r) /\ GoodDraftIsKept(drafts, r)
===============================================================================
