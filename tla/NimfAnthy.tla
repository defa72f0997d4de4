----------------------------- MODULE NimfAnthy ------------------------------
(***************************************************************************)
(* The Japanese engine (nimf-anthy.c) and the candidate window, with one   *)
(* context that shows what the engine emits.  Letters are composed into    *)
(* kana at a cursor that is counted in bytes, kana are converted segment   *)
(* by segment, and candidates are chosen by keys, by clicks and by the     *)
(* scroll bar.                                                             *)
(*                                                                         *)
(* A character knows the letters it stands for, so that what is composed   *)
(* can be compared with what was typed.  Of the keys there are k, a and n, *)
(* two digits and, in kana, ka and the sound mark.  The text in the entry  *)
(* of the window, Control and keys the engine does not know are left out.  *)
(***************************************************************************)
EXTENDS Integers, FiniteSets, SequencesExt, CandidateWindow

CONSTANTS Many,      \* candidates of the first segment
          Few,       \* candidates of the second one
          MaxTyped,  \* bound: letters in the text
          MaxChanges \* bound: changes of the settings

ASSUME AnthyAssumption == Many \in Nat \ {0} /\ Few \in Nat \ {0} /\ MaxTyped \in Nat /\ MaxChanges \in Nat

VARIABLES
  anthy,     \* NimfAnthy
  window,    \* NimfCandidate
  app,       \* what the client has been sent
  user,      \* what the user has typed
  scrolling, \* the page that on_candidate_scrolled goes to, 0 when it has ended
  changes    \* of the settings

vars == <<anthy, window, app, user, scrolling, changes>>

-----------------------------------------------------------------------------
(* Text.                                                                    *)

\* Forms of a character; candidate c of a segment is Candidate + c.
Letter == 0
Kana == 1
Katakana == 2
Candidate == 3
Char(of, as) == [of |-> of, as |-> as]

Spelled(s) == FlattenSeq([n \in DOMAIN s |-> s[n].of])
Width(c) == IF c.as = Letter THEN 1 ELSE 3
Bytes(s) == Len(s) + 2 * Cardinality({n \in DOMAIN s : Width(s[n]) = 3})
\* How many characters end within the first n bytes.
Chars(s, n) == Cardinality({i \in DOMAIN s : Bytes(SubSeq(s, 1, i)) <= n})

Inserted(s, i, t) == SubSeq(s, 1, i) \o t \o SubSeq(s, i + 1, Len(s))
Erased(s, i, n) == SubSeq(s, 1, i) \o SubSeq(s, i + n + 1, Len(s))

\* romaji_map: some letters begin a kana, others are one.
Begin == {<<"k">>, <<"n">>}
Complete == {<<"a">>, <<"k", "a">>, <<"n", "a">>, <<"n", "n">>}
\* A letter without a vowel is what its small tsu, or its n, stands for.  A small
\* tsu in the place of anything else stands for no key.
Consonants == {"k", "n"}
Alone(letter) == Char(<<IF letter \in Consonants THEN letter ELSE "tsu">>, Kana)

\* Of libanthy: what the segments of a string stand for, and their candidates.
Segments(s) == CASE Len(s) = 0 -> <<>>
                 [] Len(s) = 1 -> <<Spelled(s)>>
                 [] OTHER -> <<Spelled(SubSeq(s, 1, 1)), Spelled(Tail(s))>>
NrCandidates(n) == IF n = 1 THEN Many ELSE Few
Converted(a) == [n \in DOMAIN a.context |-> Char(a.context[n], Candidate + a.selections[n])]

-----------------------------------------------------------------------------
\* A conversion: the string that was cut, and what is chosen for its segments.
Unconverted(a) ==
  [context |-> <<>>, segment |-> 1, page |-> 0, pages |-> 0, selections |-> <<>>] @@ a

\* With the defaults of its settings.
Init ==
  /\ anthy = Unconverted([preedit |-> <<>>, offset |-> 0, dx |-> 0, state |-> FALSE,
                          method |-> "romaji", method_changed |-> FALSE, n_input_mode |-> "common"])
  /\ window = Hidden
  /\ app = [text |-> <<>>, cursor |-> 0, committed |-> <<>>]
  /\ user = [typed |-> <<>>, over |-> FALSE]
  /\ scrolling = 0 /\ changes = 0

\* Handlers take and give the state of the engine, the window and the client.
State == [anthy |-> anthy, window |-> window, app |-> app]
Becomes(s) == anthy' = s.anthy /\ window' = s.window /\ app' = s.app

\* preedit-start and preedit-end go out as the text appears and disappears.
nimf_anthy_update_preedit_state(s, text, cursor) ==
  [s EXCEPT !.app.text = text, !.app.cursor = cursor,
            !.anthy.state = s.anthy.preedit # <<>>]

\* What libanthy learns from it is left out.
nimf_anthy_emit_commit(s) ==
  IF s.anthy.preedit = <<>> THEN s
  ELSE nimf_anthy_update_preedit_state(
         [s EXCEPT !.app.committed = @ \o Spelled(s.anthy.preedit),
                   !.anthy.preedit = <<>>, !.anthy.offset = 0, !.anthy.dx = 0],
         <<>>, 0)

\* Where the window is hidden the conversion is forgotten as well.  The code keeps
\* it, and reads nothing of it before the next one but for libanthy to learn from.
Hide(s) == [s EXCEPT !.window = hide(@), !.anthy = Unconverted(@)]

nimf_anthy_reset(s) == nimf_anthy_emit_commit(Hide(s))

nimf_anthy_convert_preedit_text(s) ==
  LET text == Converted(s.anthy)
  IN  nimf_anthy_update_preedit_state(
        [s EXCEPT !.anthy.preedit = text, !.anthy.offset = Bytes(text), !.anthy.dx = 0],
        text, Len(text))

nimf_anthy_update_preedit_text(s) ==
  nimf_anthy_update_preedit_state(s, s.anthy.preedit, Chars(s.anthy.preedit, s.anthy.offset + s.anthy.dx))

-----------------------------------------------------------------------------
(* Pages of candidates.                                                     *)

\* The candidates of page p of a segment.
PageOf(p, segment) == [n \in 1 .. (IF p * 10 < NrCandidates(segment) THEN 10
                                   ELSE NrCandidates(segment) - (p - 1) * 10) |-> (p - 1) * 10 + n - 1]

nimf_anthy_update_page(s) ==
  LET a == s.anthy
      pages == (NrCandidates(a.segment) + 9) \div 10
      rows == append(clear(s.window), PageOf(a.page, a.segment))
  IN  [s EXCEPT !.anthy.pages = pages,
                !.window = set_page_values(
                  select_item_by_index_in_page(rows, a.selections[a.segment]), a.page, pages)]

ToPage(s, page) == nimf_anthy_update_page([s EXCEPT !.anthy.page = page])
FirstRow(s) == [s EXCEPT !.window = select_first_item_in_page(@)]
LastRow(s) == [s EXCEPT !.window = select_last_item_in_page(@)]

nimf_anthy_page_end(s) ==
  LastRow(IF s.anthy.page = s.anthy.pages THEN s ELSE ToPage(s, s.anthy.pages))
nimf_anthy_page_home(s) ==
  FirstRow(IF s.anthy.page <= 1 THEN s ELSE ToPage(s, 1))
nimf_anthy_page_up(s) ==
  IF s.anthy.page <= 1 THEN nimf_anthy_page_end(s) ELSE LastRow(ToPage(s, s.anthy.page - 1))
nimf_anthy_page_down(s) ==
  IF s.anthy.page = s.anthy.pages THEN nimf_anthy_page_home(s)
  ELSE FirstRow(ToPage(s, s.anthy.page + 1))

\* Of the window: the engine turns the page at its ends.
select_previous_item(s) ==
  CASE s.window.selected = 0 -> LastRow(s)
    [] s.window.selected = 1 -> nimf_anthy_page_up(s)
    [] OTHER -> [s EXCEPT !.window.selected = @ - 1]
select_next_item(s) ==
  CASE s.window.selected = 0 -> FirstRow(s)
    [] s.window.selected = Len(s.window.rows) -> nimf_anthy_page_down(s)
    [] OTHER -> [s EXCEPT !.window.selected = @ + 1]

on_candidate_clicked(s, index) ==
  nimf_anthy_convert_preedit_text(
    [s EXCEPT !.anthy.selections[s.anthy.segment] = (s.anthy.page - 1) * 10 + index])

Selected(s) == IF s.window.selected = 0 THEN s ELSE on_candidate_clicked(s, s.window.selected - 1)

nimf_anthy_update_candidate(s) ==
  IF s.anthy.context # <<>> THEN ToPage(s, 1)
  ELSE IF s.anthy.pages = 0 THEN s ELSE Hide(s)

-----------------------------------------------------------------------------
(* Composing.                                                               *)

RECURSIVE Composed(_)
\* The loop of nimf_anthy_filter_event_romaji.
Composed(a) ==
  LET i == Chars(a.preedit, a.offset)
      pending == SubSeq(a.preedit, i + 1, i + a.dx)
      key == Spelled(pending)
      b == Last(key)
      c == key[a.dx - 1]
      kana == IF c # "n" THEN c = b ELSE a.n_input_mode = "common" /\ b \notin {"a", "n"}
      turned == IF kana THEN [a.preedit EXCEPT ![i + a.dx - 1] = Alone(c)] ELSE a.preedit
  IN  CASE key \in Begin -> a
        [] key \in Complete ->
             [a EXCEPT !.preedit = Inserted(Erased(@, i, a.dx), i, <<Char(key, Kana)>>),
                       !.offset = @ + 3, !.dx = 0]
        [] key \notin Begin \cup Complete /\ a.dx <= 1 -> a
        [] OTHER -> Composed([a EXCEPT !.preedit = turned, !.dx = 1,
                                       !.offset = @ + (IF kana THEN 2 ELSE 0) + a.dx - 1])

nimf_anthy_filter_event_romaji(s, letter) ==
  [s EXCEPT !.anthy = Composed([@ EXCEPT
     !.preedit = Inserted(@, Chars(@, s.anthy.offset + s.anthy.dx), <<Char(<<letter>>, Letter)>>),
     !.dx = @ + 1])]

nimf_anthy_preedit_insert(s, kana) ==
  [s EXCEPT !.anthy.preedit = Inserted(@, Chars(@, s.anthy.offset), <<Char(<<kana>>, Kana)>>),
            !.anthy.offset = @ + 3]

\* Before the text, where has_suffix reads at its start, nothing is overwritten.
Marks(s) ==
  LET i == Chars(s.anthy.preedit, s.anthy.offset)
  IN  i > 0 /\ s.anthy.preedit[i] = Char(<<"ka">>, Kana)
nimf_anthy_filter_event_pc104(s, key) ==
  IF key # "mark" THEN nimf_anthy_preedit_insert(s, key)
  ELSE IF Marks(s) THEN [s EXCEPT !.anthy.preedit[Chars(s.anthy.preedit, s.anthy.offset)].of = <<"ka", "mark">>]
  ELSE s

\* libanthy leaves letters and candidates as they are.  It is assumed to give as
\* many bytes as it gets: the offset is the end of the text from before.
nimf_anthy_convert_to(s, as) ==
  LET text == [n \in DOMAIN s.anthy.preedit |->
                 IF s.anthy.preedit[n].as \in {Kana, Katakana}
                 THEN [s.anthy.preedit[n] EXCEPT !.as = as] ELSE s.anthy.preedit[n]]
  IN  nimf_anthy_update_preedit_state(
        [s EXCEPT !.anthy.preedit = text, !.anthy.offset = Bytes(s.anthy.preedit), !.anthy.dx = 0],
        text, Len(text))

nimf_anthy_replace_last_n(s) ==
  LET n == Len(s.anthy.preedit)
  IN  IF s.anthy.n_input_mode = "common" /\ n > 0 /\ s.anthy.preedit[n] = Char(<<"n">>, Letter)
      THEN [s EXCEPT !.anthy.preedit[n].as = Kana] ELSE s

-----------------------------------------------------------------------------
(* nimf_anthy_filter_event.                                                 *)

Value == "1" :> 1 @@ "0" :> 0
Digits == DOMAIN Value
Letters == {"k", "a", "n"}
Kanas == {"ka", "mark"}
Keys == Digits \cup Letters \cup Kanas \cup
        {"Return", "Up", "Down", "Left", "Right", "Page_Up", "Page_Down", "Home", "End",
         "Escape", "space", "BackSpace", "Delete", "hiragana", "katakana"}

\* Keys that type in the method, and those it knows.
Types(a) == Digits \cup IF a.method = "romaji" THEN Letters ELSE Kanas
Knows(a) == (Keys \ (Letters \cup Kanas)) \cup Types(a)

\* A mutant: the rows stay.
SegmentKeepsRows(s, segment) == nimf_anthy_convert_preedit_text([s EXCEPT !.anthy.segment = segment])
ToSegment(s, segment) ==
  nimf_anthy_update_candidate(nimf_anthy_convert_preedit_text([s EXCEPT !.anthy.segment = segment]))

\* (keyval - NIMF_KEY_0 + 9) % 10.
IndexOf(digit) == (Value[digit] + 9) % 10
ChooseDigit(s, digit) ==
  LET index == IndexOf(digit)
      i == (s.anthy.page - 1) * 10 + index
  IN  IF i < NrCandidates(s.anthy.segment) THEN nimf_anthy_update_candidate(on_candidate_clicked(s, index))
      ELSE s

\* Keys of the candidate window.
Chooses(a) == {"Return", "Up", "Down", "space", "Left", "Right", "Page_Up", "Page_Down",
               "Home", "End", "Escape"} \cup IF a.method = "romaji" THEN Digits ELSE {}
Choose(s, key) ==
  LET a == s.anthy
      n == Len(a.context)
  IN  CASE key = "Return" -> nimf_anthy_emit_commit(Hide(s))
        [] key = "Up" -> Selected(select_previous_item(s))
        [] key \in {"Down", "space"} -> Selected(select_next_item(s))
        [] key = "Left" -> ToSegment(s, IF a.segment > 1 THEN a.segment - 1 ELSE n)
        [] key = "Right" -> ToSegment(s, IF a.segment < n THEN a.segment + 1 ELSE 1)
        [] key = "Page_Up" -> nimf_anthy_page_up(s)
        [] key = "Page_Down" -> nimf_anthy_page_down(s)
        [] key = "Home" -> nimf_anthy_page_home(s)
        [] key = "End" -> nimf_anthy_page_end(s)
        [] key = "Escape" -> nimf_anthy_update_preedit_text(Hide(s))
        [] OTHER -> ChooseDigit(s, key)

\* Segments are converted as they are cut, and the first one is current.
Convert(s) ==
  LET t == nimf_anthy_replace_last_n(s)
      cut == [t EXCEPT !.anthy.context = Segments(t.anthy.preedit), !.anthy.segment = 1,
                       !.anthy.selections = [n \in DOMAIN Segments(t.anthy.preedit) |-> 0],
                       !.window = show(@)]
  IN  nimf_anthy_update_candidate(nimf_anthy_convert_preedit_text(cut))

BackSpace(s) ==
  LET a == s.anthy
      i == Chars(a.preedit, a.offset + a.dx)
  IN  CASE a.dx > 0 -> [s EXCEPT !.anthy.preedit = Erased(@, i - 1, 1), !.anthy.dx = @ - 1]
        [] a.dx = 0 /\ a.offset > 0 ->
             [s EXCEPT !.anthy.preedit = Erased(@, i - 1, 1),
                       !.anthy.offset = @ - Width(a.preedit[i])]
        [] OTHER -> s
\* A mutant: what is pending is not skipped.
DeletePending(s) == [s EXCEPT !.anthy.preedit = Erased(@, Chars(@, s.anthy.offset), 1)]
Delete(s) ==
  [s EXCEPT !.anthy.preedit = Erased(@, Chars(@, s.anthy.offset + s.anthy.dx), 1)]

Left(s) ==
  LET a == s.anthy
  IN  CASE a.dx > 0 -> [s EXCEPT !.anthy.offset = @ + a.dx - 1, !.anthy.dx = 0]
        [] a.dx = 0 /\ a.offset > 0 ->
             [s EXCEPT !.anthy.offset = @ - Width(a.preedit[Chars(a.preedit, a.offset)])]
        [] OTHER -> s
Right(s) ==
  LET a == s.anthy
      i == Chars(a.preedit, a.offset + a.dx)
  IN  IF i = Len(a.preedit) THEN s
      ELSE [s EXCEPT !.anthy.offset = @ + a.dx + Width(a.preedit[i + 1]), !.anthy.dx = 0]

\* Without candidates; keys that have nothing to do are handed on, with Return
\* always.
Type(s, key) ==
  LET a == s.anthy
      text(t) == nimf_anthy_update_preedit_text(t)
  IN  CASE key \in Types(a) ->
             text(IF a.method = "romaji" THEN nimf_anthy_filter_event_romaji(s, key)
                  ELSE nimf_anthy_filter_event_pc104(s, key))
        [] a.preedit = <<>> -> IF key = "space" THEN Hide(s) ELSE s
        [] a.preedit # <<>> /\ key = "hiragana" -> nimf_anthy_convert_to(s, Kana)
        [] a.preedit # <<>> /\ key = "katakana" -> nimf_anthy_convert_to(s, Katakana)
        [] a.preedit # <<>> /\ key = "space" -> Convert(s)
        [] a.preedit # <<>> /\ key = "Return" -> nimf_anthy_reset(nimf_anthy_replace_last_n(s))
        [] a.preedit # <<>> /\ key = "BackSpace" -> text(BackSpace(s))
        [] a.preedit # <<>> /\ key = "Delete" -> text(Delete(s))
        [] a.preedit # <<>> /\ key = "Left" -> text(Left(s))
        [] a.preedit # <<>> /\ key = "Right" -> text(Right(s))
        [] OTHER -> s

\* Keys meet the method that is set, and then the candidates; those that choose
\* nothing hide them, but for digits that type kana.
Ready(s) == IF s.anthy.method_changed
            THEN [nimf_anthy_reset(s) EXCEPT !.anthy.method_changed = FALSE] ELSE s
Filtered(s, key) ==
  CASE ~s.window.visible -> Type(s, key)
    [] s.window.visible /\ key \in Chooses(s.anthy) -> Choose(s, key)
    [] s.window.visible /\ key \in Digits \ Chooses(s.anthy) -> Type(s, key)
    [] OTHER -> Type(nimf_anthy_update_preedit_text(Hide(s)), key)

\* The small tsu of a doubled letter comes for digits and symbols as well.
Doubles(s, key) ==
  LET i == s.app.cursor
  IN  /\ s.anthy.method = "romaji" /\ key \notin Consonants
      /\ s.anthy.dx > 0 /\ s.app.text[i] = Char(<<key>>, Letter)

\* What the user takes a key for, who sees the client's text.  Two exceptions are
\* not what he means: over is set by digits that type kana while candidates are
\* shown, and a small tsu takes the place of the first of two equal digits.
Intended(s, key) ==
  LET text == s.app.text
      i == s.app.cursor
      at == Len(s.app.committed \o Spelled(SubSeq(text, 1, i)))
      choosing == s.window.visible /\ key \in Chooses(s.anthy)
      marks == i > 0 /\ text[i] = Char(<<"ka">>, Kana)
      keys == IF key = "mark" /\ ~marks THEN <<>> ELSE <<key>>
      over == user.over \/ (s.window.visible /\ key \in Digits \ Chooses(s.anthy))
      before == IF Doubles(s, key) THEN [user.typed EXCEPT ![at] = "tsu"] ELSE user.typed
      typed == CASE key \in Types(s.anthy) /\ ~choosing -> Inserted(before, at, keys)
                 [] key = "BackSpace" /\ i > 0 ->
                      Erased(user.typed, at - Len(text[i].of), Len(text[i].of))
                 [] key = "Delete" /\ i < Len(text) -> Erased(user.typed, at, Len(text[i + 1].of))
                 [] OTHER -> user.typed
  IN  [over |-> over, typed |-> IF over THEN <<>> ELSE typed]

-----------------------------------------------------------------------------
(* Actions: nothing else is handled while the scroll bar is followed.       *)

nimf_anthy_filter_event(key) ==
  /\ scrolling = 0
  /\ key \in Knows(anthy)
  /\ key \in Types(anthy) => key # "0" \/ window.visible
  /\ key \in Types(anthy) => Len(app.committed \o Spelled(app.text)) < MaxTyped
  /\ Becomes(Filtered(Ready(State), key))
  /\ user' = Intended(Ready(State), key)
  /\ UNCHANGED <<scrolling, changes>>

\* A reset or the loss of focus.
nimf_anthy_focus_out ==
  /\ scrolling = 0
  /\ Becomes(nimf_anthy_reset(Hide(State)))
  /\ UNCHANGED <<user, scrolling, changes>>

\* A click selects its row first.
on_tree_view_row_activated(n) ==
  /\ scrolling = 0 /\ window.visible /\ n \in DOMAIN window.rows
  /\ Becomes(on_candidate_clicked([State EXCEPT !.window = select_item(@, n)], n - 1))
  /\ UNCHANGED <<user, scrolling, changes>>

\* The scroll bar is dragged to a value, beyond its ends as well.
Scroll(value) ==
  /\ scrolling = 0 /\ window.visible
  /\ scrolling' = on_range_change_value(window, value)
  /\ UNCHANGED <<anthy, window, app, user, changes>>

on_candidate_scrolled ==
  /\ scrolling # 0
  /\ LET d == scrolling - anthy.page
     IN  IF d = 0 \/ anthy.pages <= 1 THEN scrolling' = 0 /\ UNCHANGED <<anthy, window, app>>
         ELSE /\ Becomes(IF d > 0 THEN nimf_anthy_page_down(State) ELSE nimf_anthy_page_up(State))
              /\ UNCHANGED scrolling
  /\ UNCHANGED <<user, changes>>

on_changed_method ==
  /\ scrolling = 0 /\ changes < MaxChanges
  /\ anthy' = [anthy EXCEPT !.method = IF @ = "romaji" THEN "pc104" ELSE "romaji",
                            !.method_changed = TRUE]
  /\ changes' = changes + 1
  /\ UNCHANGED <<window, app, user, scrolling>>

on_changed_n_input_mode ==
  /\ scrolling = 0 /\ changes < MaxChanges
  /\ anthy' = [anthy EXCEPT !.n_input_mode = IF @ = "common" THEN "explicit" ELSE "common"]
  /\ changes' = changes + 1
  /\ UNCHANGED <<window, app, user, scrolling>>

Next ==
  \/ \E key \in Keys : nimf_anthy_filter_event(key)
  \/ nimf_anthy_focus_out
  \/ \E n \in {1, Len(window.rows)} : on_tree_view_row_activated(n)
  \/ \E value \in {0, window.pages + 1} : Scroll(value)
  \/ on_candidate_scrolled
  \/ on_changed_method
  \/ on_changed_n_input_mode

\* on_candidate_scrolled is a loop.
Spec == Init /\ [][Next]_vars /\ WF_vars(on_candidate_scrolled)

-----------------------------------------------------------------------------
(* Properties.                                                              *)

(* The cursor is between two characters of what is composed, and so is the  *)
(* beginning of the letters that are pending; the client shows what is      *)
(* composed, with the cursor where the next key goes.  This assumes that    *)
(* no text becomes longer or shorter in nimf_anthy_convert_to, which takes  *)
(* the offset from the text before.                                         *)
TypeOK ==
  LET a == anthy
      i == Chars(a.preedit, a.offset)
  IN  /\ Bytes(SubSeq(a.preedit, 1, i)) = a.offset
      /\ i + a.dx <= Len(a.preedit)
      /\ \A n \in i + 1 .. i + a.dx : a.preedit[n].as = Letter
      /\ a.state = (a.preedit # <<>>)
      /\ app.text = a.preedit /\ app.cursor = i + a.dx
      /\ window.selected \in 0 .. Len(window.rows)

(* What has been committed and what is composed stand for what was typed,   *)
(* where the cursor was shown, through composing, conversion, the choice of *)
(* candidates, resets and changes of the method.  There are two exceptions: *)
(* after a digit that types kana while candidates are shown, which the next *)
(* choice takes away, nothing is said; and of two equal digits, typed one   *)
(* after the other in romaji, the first is lost to a small tsu, as symbols  *)
(* are, and only the rest is kept.                                          *)
NothingLost == ~user.over => app.committed \o Spelled(app.text) = user.typed

(* While candidates are shown, the rows are a page of the candidates of the *)
(* current segment, the scroll bar is at that page, every segment has a     *)
(* candidate that there is, and these are the text that Return commits.     *)
CandidatesShown ==
  window.visible =>
    LET n == Len(anthy.context)
    IN  /\ anthy.segment \in 1 .. n
        /\ DOMAIN anthy.selections = 1 .. n
        /\ \A k \in 1 .. n : anthy.selections[k] < NrCandidates(k)
        /\ window.rows = PageOf(anthy.page, anthy.segment)
        /\ window.page = anthy.page /\ window.pages = anthy.pages
        /\ anthy.page \in 1 .. anthy.pages
        /\ ~user.over => app.text = Converted(anthy)

(* A digit chooses the row that it labels, on every page, or nothing when   *)
(* there is none.                                                           *)
DigitChoosesRow ==
  window.visible /\ anthy.method = "romaji" /\ ~anthy.method_changed =>
    \A digit \in Digits :
      LET chosen == Filtered(State, digit).anthy
          labelled == {n \in DOMAIN window.rows : Label(n) = Value[digit]}
      IN  \/ labelled = {} /\ chosen = anthy
          \/ \E n \in labelled : chosen.selections[anthy.segment] = window.rows[n]

(* What is composed is edited where the cursor is shown, and kept.          *)
TextIsKept == TypeOK /\ NothingLost

(* The window shows what can be chosen, and what is shown is chosen.        *)
WindowAgrees == CandidatesShown /\ DigitChoosesRow

(* Following the scroll bar ends, although turning pages goes round.        *)
ScrollEnds == scrolling # 0 ~> scrolling = 0
=============================================================================
