-------------------------- MODULE CandidateWindow ---------------------------
(* The candidate window (nimf-candidate.c) as an engine sees it: a page of  *)
(* rows, one of which may be selected, and the range of its scroll bar.     *)
(* Its place on the screen and its entry are left out.                      *)
EXTENDS Naturals, Sequences

Hidden == [visible |-> FALSE, rows |-> <<>>, selected |-> 0, page |-> 1, pages |-> 1]

show(w) == [w EXCEPT !.visible = TRUE]
\* Engines fill the window before or after they show it again.
hide(w) == Hidden

\* The value of a range stays between its ends.
set_page_values(w, page, pages) ==
  [w EXCEPT !.page = IF page < 1 THEN 1 ELSE IF page > pages THEN pages ELSE page,
            !.pages = pages]

\* What is selected goes with its row.
clear(w) == set_page_values([w EXCEPT !.rows = <<>>, !.selected = 0], 1, 1)

append(w, texts) == [w EXCEPT !.rows = @ \o texts]
\* Rows are labelled with the digits that choose them.
Label(n) == n % 10

\* Rows are counted from 1; a row that there is not is not selected.
select_item(w, n) == IF n \in DOMAIN w.rows THEN [w EXCEPT !.selected = n] ELSE w

select_first_item_in_page(w) == select_item(w, 1)
select_last_item_in_page(w) == select_item(w, Len(w.rows))
select_item_by_index_in_page(w, index) == select_item(w, index + 1)

\* A mutant: the range has no end.
DragsBeyond(w, value) == IF value < 1 THEN 1 ELSE value
\* Where the user drags the scroll bar to.
on_range_change_value(w, value) ==
  IF value < 1 THEN 1 ELSE IF value > w.pages THEN w.pages ELSE value
=============================================================================
