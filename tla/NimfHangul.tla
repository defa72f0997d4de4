----------------------------- MODULE NimfHangul -----------------------------
(***************************************************************************)
(* The hangul engine, nimf-libhangul.c, with what nimf-service-ic.c makes  *)
(* of its emissions: the syllable it composes, what it has told of it to   *)
(* the context that has the focus, and what the application shows.         *)
(*                                                                         *)
(* Each emission waits for the application, whose callback may call the    *)
(* engine again in the middle of a handler.  The stack of the daemon is    *)
(* kept as its agenda: what is left to do of the innermost handler, then   *)
(* of the one it interrupts, and so on.                                    *)
(***************************************************************************)
EXTENDS Naturals, SequencesExt

CONSTANTS
  ICs,        \* input contexts, which share the engine in singleton mode
  Inline,     \* those that use_preedit, the others need the preedit window
  Letters,    \* keys that are letters of the alphabet
  Doubles,    \* letters that filter_leading_consonant looks for
  Symbols,    \* keys that the engine commits itself: '-', '?', ...
  Others,     \* keys that are left to the application
  Hanja,      \* a candidate
  Callbacks,  \* emissions in whose callbacks applications reset the context
  MaxLetters, \* bound: letters in a syllable
  MaxText,    \* bound: length of what is entered, in all contexts
  NoIC        \* no context

Signals == {"commit", "preedit-start", "preedit-changed", "preedit-end", "delete-surrounding"}

ASSUME HangulAssumption ==
  /\ Inline \subseteq ICs /\ NoIC \notin ICs
  /\ Doubles \subseteq Letters
  /\ Callbacks \subseteq Signals
  /\ MaxLetters \in Nat \ {0} /\ MaxText \in Nat

VARIABLES
  composing,      \* the syllable in hangul->context
  preedit_string, \* of the engine: what it has emitted last
  preedit_state,  \* of the engine
  is_committing,
  ignore_reset,   \* the setting ignore-reset-in-commit-cb
  listing,        \* the target of the candidate window when it is visible
  window,         \* the text of the preedit window, <<>> when it is hidden
  agenda,         \* what the daemon has to do
  focus,          \* the context that has the focus
  text,           \* the text in the application
  shown,          \* the preedit that the application shows
  inside,         \* has it seen a preedit-start and no preedit-end
  entered         \* history: what the user has entered

engineVars == <<composing, preedit_string, preedit_state, is_committing, ignore_reset>>
appVars == <<text, shown, inside>>
vars == <<composing, preedit_string, preedit_state, is_committing, ignore_reset,
          listing, window, agenda, focus, text, shown, inside, entered>>

Chars == Letters \cup Symbols \cup Others \cup {Hanja}
Waits == {"callback", "reply"} \* for an application that may still call, or will not
Steps == {"commit", "committed", "update", "start", "change", "again", "end", "window",
          "pass", "erase", "delete", "clear", "hide", "unfocus"}

TypeOK ==
  /\ composing \in Seq(Letters) /\ preedit_string \in Seq(Letters)
  /\ preedit_state \in {"start", "end"}
  /\ is_committing \in BOOLEAN /\ ignore_reset \in BOOLEAN
  /\ listing \in ICs \cup {NoIC} /\ focus \in ICs \cup {NoIC}
  /\ window \in Seq(Letters)
  /\ agenda \in Seq([do : Steps \cup Waits, ic : ICs, text : Seq(Chars)])
  /\ text \in [ICs -> Seq(Chars)] /\ entered \in [ICs -> Seq(Chars)]
  /\ shown \in [ICs -> Seq(Letters)]
  /\ inside \in [ICs -> BOOLEAN]

Init ==
  /\ composing = <<>> /\ preedit_string = <<>> /\ preedit_state = "end"
  /\ is_committing = FALSE /\ ignore_reset \in BOOLEAN
  /\ listing = NoIC /\ window = <<>> /\ agenda = <<>> /\ focus = NoIC
  /\ text = [i \in ICs |-> <<>>] /\ entered = [i \in ICs |-> <<>>]
  /\ shown = [i \in ICs |-> <<>>]
  /\ inside = [i \in ICs |-> FALSE]

-----------------------------------------------------------------------------
(* What handlers are made of.                                              *)

Do(step, ic, t) == <<[do |-> step, ic |-> ic, text |-> t]>>

(* nimf_libhangul_emit_commit                                              *)
EmitCommit(ic, t) == Do("commit", ic, t) \o Do("committed", ic, <<>>)
CommitAny(ic, t) == IF t = <<>> THEN <<>> ELSE EmitCommit(ic, t)

(* nimf_libhangul_update_preedit                                           *)
UpdatePreedit(ic, new) ==
  Do("start", ic, new) \o Do("change", ic, new) \o Do("end", ic, <<>>)

(* The step that is due is done, and to be followed by others.             *)
Due(step) == agenda # <<>> /\ agenda[1].do = step
Then(steps) == agenda' = steps \o Tail(agenda)
ic0 == agenda[1].ic
text0 == agenda[1].text

Await(signal) == Do(IF signal \in Callbacks THEN "callback" ELSE "reply", ic0, <<>>)

(* The application of ic is at rest, or in a callback in which it calls.   *)
(* Bound: it makes one call in each.                                       *)
AtRest(ic) == agenda = <<>> /\ focus = ic
InCallback(ic) == Due("callback") /\ ic0 = ic

(* The daemon neither waits nor is at rest.                                *)
Busy == agenda # <<>> /\ agenda[1].do \notin Waits

(* A handler is called, in the midst of another one or not.                *)
Interrupted ==
  IF agenda = <<>> THEN <<>>
  ELSE Do("reply", ic0, <<>>) \o Tail(agenda)
Handle(steps) == agenda' = steps \o Interrupted

-----------------------------------------------------------------------------
(* The steps of handlers.                                                  *)

(* emit_commit: the application inserts the text.                          *)
Commit ==
  /\ Due("commit")
  /\ is_committing' = TRUE
  /\ text' = [text EXCEPT ![ic0] = @ \o text0]
  /\ Then(Await("commit"))
  /\ UNCHANGED <<composing, preedit_string, preedit_state, ignore_reset, listing, window,
                 focus, shown, inside, entered>>

(* Mutant: emit_commit goes on until libhangul has nothing left.            *)
CommittedAll ==
  /\ Due("committed")
  /\ is_committing' = FALSE
  /\ Then(IF composing = <<>> THEN <<>> ELSE Do("committed", ic0, <<>>))
  /\ UNCHANGED <<composing, preedit_string, preedit_state, ignore_reset, listing, window,
                 focus, appVars, entered>>

(* emit_commit, when the commit is answered.                               *)
Committed ==
  /\ Due("committed")
  /\ is_committing' = FALSE
  /\ Then(<<>>)
  /\ UNCHANGED <<composing, preedit_string, preedit_state, ignore_reset, listing, window,
                 focus, appVars, entered>>

(* What update_preedit is called with after a commit is asked of libhangul *)
(* when the commit has been answered.                                      *)
Update ==
  /\ Due("update")
  /\ Then(UpdatePreedit(ic0, composing))
  /\ UNCHANGED <<engineVars, listing, window, focus, appVars, entered>>

(* nimf_service_ic_emit_preedit_start                                      *)
Start ==
  /\ Due("start")
  /\ IF preedit_state = "end" /\ text0 # <<>>
     THEN /\ preedit_state' = "start"
          /\ inside' = [inside EXCEPT ![ic0] = @ \/ ic0 \in Inline]
          /\ Then(IF ic0 \in Inline THEN Await("preedit-start") ELSE <<>>)
     ELSE Then(<<>>) /\ UNCHANGED <<preedit_state, inside>>
  /\ UNCHANGED <<composing, preedit_string, is_committing, ignore_reset, listing, window,
                 focus, text, shown, entered>>

(* nimf_service_ic_emit_preedit_changed                                    *)
EmitChanged(t) ==
  IF ic0 \in Inline
  THEN /\ shown' = [shown EXCEPT ![ic0] = t]
       /\ Then(Await("preedit-changed") \o Do("window", ic0, t))
  ELSE /\ Then(Do("window", ic0, t))
       /\ UNCHANGED shown

Change ==
  /\ Due("change")
  /\ IF preedit_string # <<>> \/ text0 # <<>>
     THEN preedit_string' = text0 /\ EmitChanged(text0)
     ELSE Then(<<>>) /\ UNCHANGED <<preedit_string, shown>>
  /\ UNCHANGED <<composing, preedit_state, is_committing, ignore_reset, listing, window,
                 focus, text, inside, entered>>

(* The same preedit once more, after a leading consonant is committed.     *)
Again ==
  /\ Due("again")
  /\ EmitChanged(preedit_string)
  /\ UNCHANGED <<engineVars, listing, window, focus, text, inside, entered>>

(* The end of nimf_service_ic_emit_preedit_changed.                        *)
ShowWindow ==
  /\ Due("window")
  /\ window' = IF ic0 \notin Inline /\ listing = NoIC THEN text0 ELSE <<>>
  /\ Then(<<>>)
  /\ UNCHANGED <<engineVars, listing, focus, appVars, entered>>

(* Mutant: the end is told when a preedit is left.                         *)
AlwaysEnds == preedit_state = "start"

Ends == preedit_state = "start" /\ preedit_string = <<>>

(* nimf_service_ic_emit_preedit_end                                        *)
End ==
  /\ Due("end")
  /\ IF Ends
     THEN /\ preedit_state' = "end"
          /\ inside' = [inside EXCEPT ![ic0] = @ /\ ic0 \notin Inline]
          /\ window' = IF ic0 \in Inline THEN window ELSE <<>>
          /\ Then(IF ic0 \in Inline THEN Await("preedit-end") ELSE <<>>)
     ELSE Then(<<>>) /\ UNCHANGED <<preedit_state, inside, window>>
  /\ UNCHANGED <<composing, preedit_string, is_committing, ignore_reset, listing,
                 focus, text, shown, entered>>

(* The application gets a key back: a character it inserts, a BackSpace.   *)
PassKey ==
  /\ Due("pass") \/ Due("erase")
  /\ text' = [text EXCEPT ![ic0] = IF Due("pass") \/ @ = <<>> THEN @ \o text0 ELSE Front(@)]
  /\ Then(<<>>)
  /\ UNCHANGED <<engineVars, listing, window, focus, shown, inside, entered>>

(* nimf_engine_emit_delete_surrounding (engine, target, -1, 1)             *)
DeleteSurrounding ==
  /\ Due("delete")
  /\ text' = [text EXCEPT ![ic0] = IF @ = <<>> THEN @ ELSE Front(@)]
  /\ Then(Await("delete-surrounding"))
  /\ UNCHANGED <<engineVars, listing, window, focus, shown, inside, entered>>

(* The end of on_candidate_clicked.                                        *)
ClearPreedit ==
  /\ Due("clear")
  /\ Then(IF preedit_string # <<>> THEN UpdatePreedit(ic0, <<>>) ELSE <<>>)
  /\ UNCHANGED <<engineVars, listing, window, focus, appVars, entered>>

HideCandidates ==
  /\ Due("hide")
  /\ listing' = NoIC
  /\ Then(<<>>)
  /\ UNCHANGED <<engineVars, window, focus, appVars, entered>>

(* The end of nimf_service_ic_focus_out.                                   *)
Unfocus ==
  /\ Due("unfocus")
  /\ window' = <<>>
  /\ Then(<<>>)
  /\ UNCHANGED <<engineVars, listing, focus, appVars, entered>>

(* The reply of the application, after its callback.                       *)
Reply ==
  /\ agenda # <<>> /\ agenda[1].do \in Waits
  /\ Then(<<>>)
  /\ UNCHANGED <<engineVars, listing, window, focus, appVars, entered>>

-----------------------------------------------------------------------------
(* Calls from the main loop of an application.                             *)

Fits == MapThenSumSet(LAMBDA i : Len(entered[i]), ICs) < MaxText
Enter(ic, key) == entered' = [entered EXCEPT ![ic] = Append(@, key)]

(* libhangul takes a letter: some of the syllable may be complete.  Its    *)
(* rules are not modelled, any split is possible.                          *)
Compose(ic, key) == \* guarded by what filter_leading_consonant has not taken
  \E k \in 0 .. Len(composing) :
    /\ AtRest(ic) /\ listing = NoIC /\ Fits
    /\ ~(key \in Doubles /\ composing = <<key>>)
    /\ Len(composing) - k < MaxLetters
    /\ composing' = Append(SubSeq(composing, k + 1, Len(composing)), key)
    /\ Enter(ic, key)
    /\ Handle(CommitAny(ic, SubSeq(composing, 1, k)) \o Do("update", ic, <<>>))
    /\ UNCHANGED <<preedit_string, preedit_state, is_committing, ignore_reset, listing, window,
                   focus, appVars>>

(* nimf_libhangul_filter_leading_consonant: the second one takes the place *)
(* of the first, which is committed.                                       *)
LeadingConsonant(ic, key) ==
  /\ AtRest(ic) /\ listing = NoIC /\ Fits
  /\ key \in Doubles /\ composing = <<key>>
  /\ Enter(ic, key)
  /\ Handle(EmitCommit(ic, composing) \o Do("again", ic, <<>>))
  /\ UNCHANGED <<engineVars, listing, window, focus, appVars>>

(* A key that is no letter completes the syllable; the engine commits a    *)
(* symbol, other keys are not consumed.                                    *)
OtherKey(ic, key) ==
  /\ AtRest(ic) /\ listing = NoIC /\ Fits
  /\ composing' = <<>>
  /\ Enter(ic, key)
  /\ Handle(CommitAny(ic, composing) \o Do("update", ic, <<>>) \o
            IF key \in Symbols THEN EmitCommit(ic, <<key>>) ELSE Do("pass", ic, <<key>>))
  /\ UNCHANGED <<preedit_string, preedit_state, is_committing, ignore_reset, listing, window,
                 focus, appVars>>

(* Return and Enter                                                        *)
Return(ic, key) ==
  /\ AtRest(ic) /\ listing = NoIC /\ Fits
  /\ composing' = <<>>
  /\ Enter(ic, key)
  /\ Handle((IF composing = <<>> THEN <<>>
             ELSE EmitCommit(ic, composing) \o UpdatePreedit(ic, <<>>)) \o Do("pass", ic, <<key>>))
  /\ UNCHANGED <<preedit_string, preedit_state, is_committing, ignore_reset, listing, window,
                 focus, appVars>>

BackSpace(ic) ==
  /\ AtRest(ic) /\ listing = NoIC
  /\ composing' = IF composing = <<>> THEN <<>> ELSE Front(composing)
  /\ entered' = [entered EXCEPT ![ic] = IF @ = <<>> THEN @ ELSE Front(@)]
  /\ Handle(IF composing = <<>> THEN Do("erase", ic, <<>>) ELSE Do("update", ic, <<>>))
  /\ UNCHANGED <<preedit_string, preedit_state, is_committing, ignore_reset, listing, window,
                 focus, appVars>>

(* A hanja key shows the candidates for the preedit, or for the character  *)
(* before the cursor, or hides them.  The wait for that character, in      *)
(* nimf_engine_get_surrounding, is assumed to run no other callback.       *)
HanjaKey(ic) ==
  /\ AtRest(ic)
  /\ listing = NoIC => preedit_string # <<>> \/ text[ic] # <<>>
  /\ listing' = IF listing = NoIC THEN ic ELSE NoIC
  /\ UNCHANGED <<engineVars, window, agenda, focus, appVars, entered>>

(* on_candidate_clicked: the hanja takes the place of what it is for.      *)
Choose(ic) ==
  LET old == IF preedit_string = <<>> THEN 1 ELSE Len(composing) IN
  /\ AtRest(ic) /\ listing = ic
  /\ composing' = <<>>
  /\ entered' = [entered EXCEPT ![ic] = Append(SubSeq(@, 1, Len(@) - old), Hanja)]
  /\ Handle((IF preedit_string = <<>> THEN Do("delete", ic, <<>>) ELSE <<>>) \o
            EmitCommit(ic, <<Hanja>>) \o Do("clear", ic, <<>>) \o Do("hide", ic, <<>>))
  /\ UNCHANGED <<preedit_string, preedit_state, is_committing, ignore_reset, listing, window,
                 focus, appVars>>

(* Mutant: the syllable is committed and stays in the engine.              *)
KeepsSyllable == composing

(* hangul_ic_flush                                                         *)
Flushed == <<>>

ResetIgnored == ignore_reset /\ is_committing

(* nimf_libhangul_reset, followed by the rest of its caller.               *)
ResetThen(ic, steps) ==
  IF ResetIgnored
  THEN Handle(steps) /\ UNCHANGED <<composing, listing>>
  ELSE /\ composing' = Flushed
       /\ listing' = NoIC
       /\ Handle(CommitAny(ic, composing) \o UpdatePreedit(ic, <<>>) \o steps)

(* nimf_im_reset, a key with Control or Alt, a hotkey that changes engines *)
Reset(ic) ==
  /\ AtRest(ic) \/ InCallback(ic)
  /\ ResetThen(ic, <<>>)
  /\ UNCHANGED <<preedit_string, preedit_state, is_committing, ignore_reset, window, focus,
                 appVars, entered>>

FocusIn(ic) ==
  /\ AtRest(NoIC)
  /\ focus' = ic
  /\ UNCHANGED <<engineVars, listing, window, agenda, appVars, entered>>

(* Mutant: the engine is not told.                                         *)
LeavesUnreset(ic) == Handle(Do("unfocus", ic, <<>>)) /\ UNCHANGED <<composing, listing>>

(* nimf_libhangul_focus_out, in nimf_service_ic_focus_out                  *)
Leaves(ic) == ResetThen(ic, Do("unfocus", ic, <<>>))

LoseFocus(ic) ==
  /\ focus' = NoIC
  /\ Leaves(ic)
  /\ UNCHANGED <<preedit_string, preedit_state, is_committing, ignore_reset, window,
                 appVars, entered>>

FocusOut(ic) == AtRest(ic) /\ LoseFocus(ic)

(* A commit may make an application move the focus.                        *)
FocusOutInCallback(ic) == InCallback(ic) /\ focus = ic /\ LoseFocus(ic)

(* on_changed_ignore_reset_in_commit_cb, which the daemon also dispatches  *)
(* while it waits.                                                         *)
ChangeSetting ==
  /\ ~Busy
  /\ ignore_reset' = ~ignore_reset
  /\ UNCHANGED <<composing, preedit_string, preedit_state, is_committing, listing, window,
                 agenda, focus, appVars, entered>>

-----------------------------------------------------------------------------
(* Specifications.                                                         *)

HandlerStep ==
  \/ Commit \/ Committed \/ Update \/ Start \/ Change \/ Again \/ ShowWindow \/ End
  \/ PassKey \/ DeleteSurrounding \/ ClearPreedit \/ HideCandidates \/ Unfocus \/ Reply

UserStep(ic) ==
  \/ \E key \in Letters : Compose(ic, key) \/ LeadingConsonant(ic, key)
  \/ \E key \in Symbols \cup Others : OtherKey(ic, key)
  \/ \E key \in Others : Return(ic, key)
  \/ BackSpace(ic) \/ HanjaKey(ic) \/ Choose(ic)
  \/ FocusIn(ic) \/ FocusOut(ic)

(* Applications reset the context in callbacks and move the focus at rest. *)
Next ==
  \/ HandlerStep
  \/ \E ic \in ICs : UserStep(ic) \/ Reset(ic)
  \/ ChangeSetting

(* They may also move the focus in a callback.                             *)
FocusNext == Next \/ \E ic \in ICs : FocusOutInCallback(ic)

(* The daemon runs and callbacks return.                                   *)
Spec == Init /\ [][Next]_vars /\ WF_vars(HandlerStep)
FocusSpec == Init /\ [][FocusNext]_vars

-----------------------------------------------------------------------------
(* Properties.                                                             *)

(* What a handler still has to give to the application, or to make it do.  *)
Pending(ic) ==
  FlattenSeq([k \in 1 .. Len(agenda) |->
    IF agenda[k].ic = ic /\ agenda[k].do \in {"commit", "pass"} THEN agenda[k].text ELSE <<>>])

(* No letter is lost, committed twice or out of order, whichever callbacks *)
(* reset the engine in the midst of a handler: what the application has,   *)
(* what is on its way to it, and the syllable are what the user entered.   *)
NothingLost ==
  \A ic \in ICs :
    (\A k \in 1 .. Len(agenda) : agenda[k].do \notin {"erase", "delete"}) =>
      text[ic] \o Pending(ic) \o (IF focus = ic THEN composing ELSE <<>>) = entered[ic]

(* When the handlers are done, the context with the focus shows the        *)
(* syllable that the engine composes, inline or in the preedit window, and *)
(* the others show nothing, although handlers that were interrupted had    *)
(* something else to show.                                                 *)
ShowsSyllable ==
  agenda = <<>> =>
    /\ \A ic \in Inline : shown[ic] = IF focus = ic THEN composing ELSE <<>>
    /\ window = IF focus \in ICs \ Inline THEN composing ELSE <<>>

(* What the engine keeps and what is shown agree whenever it is at rest.    *)
ShownInv == TypeOK /\ ShowsSyllable

(* An application sees a preedit only between a preedit-start and its      *)
(* preedit-end, and at rest no start is left without its end.              *)
StartsAndEnds ==
  \A ic \in Inline :
    /\ shown[ic] # <<>> => inside[ic]
    /\ agenda = <<>> /\ inside[ic] => shown[ic] # <<>>

(* Handlers come to their end although their steps call for others.        *)
HandlersEnd == agenda # <<>> ~> agenda = <<>>

(* The engine ignores the reset that an application calls in its commit    *)
(* callback, as a workaround; a context that has lost the focus leaves no  *)
(* syllable in the engine all the same.                                    *)
FocusOutFlushes == agenda = <<>> /\ focus = NoIC => composing = <<>>
=============================================================================
