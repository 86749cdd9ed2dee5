--------------------------- MODULE MCLegacyWorkflow ---------------------------
(* Two keywords over three files of different length and depth, some not to *)
(* be read, with one call fewer than collecting everything takes; messages  *)
(* around a budget of eight tokens of two characters; a call budget one     *)
(* retry can exhaust; and a text with a secret across a line break, which   *)
(* is redacted only when it is sanitised again.                             *)
EXTENDS RunEvaluation

MCDepth == <<1, 0, 0>>
MCSize == <<1, 3, 2>>
MCKinds == {<<"text", "text", "text">>, <<"text", "sensitive", "opaque">>,
            <<"link", "text", "text">>, <<"text", "odd", "text">>}

Msg(b, s, n, c) ==
  [base |-> b, slack |-> s,
   sections |-> [i \in 1..Len(n) |-> [name |-> n[i], chars |-> c[i]]]]

\* As the prompt templates order them, and as a requirement that mentions a
\* section's marker makes them.
Orders == {<<"project_overview", "technology_stack", "warnings", "requirement">>,
           <<"requirement", "unknowns", "evidence", "unknowns">>}

\* A message that just fits, one that would without the blanks it loses when it
\* is joined again, two that have to lose one or two sections, one that has to
\* lose all of them, and one for which that is not enough.
Sizes == {<<3, 0, 1>>, <<3, 1, 1>>, <<6, 0, 1>>, <<6, 0, 5>>,
          <<16, 0, 5>>, <<17, 0, 5>>}
MCMessages == {Msg(z[1], z[2], n, <<3, 2, z[3], 4>>) : z \in Sizes, n \in Orders}

MCSanitized == [plain |-> "plain", split |-> "plain", baseline |-> "baseline"]
===============================================================================
