---------------------------- MODULE NimfToolkits ----------------------------
(***************************************************************************)
(* The input method modules of the toolkits: im-nimf.c for GTK 3,          *)
(* im-nimf-gtk4.c, and the plugins for Qt 5 and 6, between the fields of   *)
(* an application and libnimf.                                             *)
(*                                                                         *)
(* GTK has an input context for each field; Qt has one for all, whose      *)
(* signals go to the object that has the focus.  What libnimf and the      *)
(* engine behind it make of a key is a choice; they count characters.  The *)
(* widgets are modelled from how the modules use them.  The cursor in a    *)
(* preedit, underlines and the beep are left out.                          *)
(***************************************************************************)
EXTENDS Integers, SequencesExt

CONSTANTS Fields,   \* text fields
          App,      \* the context of a Qt application
          NoField,  \* no field
          Toolkits, \* some of "gtk3", "gtk4", "qt"
          Keys      \* what users type: of Texts, each once, and "Return"

\* Characters, their bytes in UTF-8 and units in UTF-16; "hanja" replaces "ga".
Bytes == [a |-> 1, ga |-> 3, hanja |-> 3, emoji |-> 4]
Units == [a |-> 1, ga |-> 1, hanja |-> 1, emoji |-> 2]
Texts == DOMAIN Bytes
HasText(k) == k \in Texts

ASSUME ToolkitsAssumption ==
  /\ App \notin Fields /\ NoField \notin Fields \cup {App}
  /\ Toolkits \subseteq {"gtk3", "gtk4", "qt"}
  /\ Keys \subseteq {"a", "ga", "emoji", "Return"}

VARIABLES
  toolkit,
  valid,     \* NimfInputContext::isValid: Qt found the libraries and the schema
  fields,    \* the widgets
  focus,     \* the field that has the focus
  ims,       \* NimfIM of each context, and what its engine composes
  contexts,  \* the rest of each context
  settings,  \* GSettings
  notices    \* "changed" signals to come: pairs of a context and a key
vars == <<toolkit, valid, fields, focus, ims, contexts, settings, notices>>

Options == {"reset", "hook"} \* reset-on-..., hook-gdk-event-key
Gtk == toolkit \in {"gtk3", "gtk4"}
Qt == toolkit = "qt"
Contexts == Fields \cup {App}
ContextOf(f) == IF Qt THEN App ELSE f

NoWidget == [stage |-> "none", accepts |-> FALSE, text |-> <<>>, shown |-> <<>>,
             marks |-> {}, typed |-> <<>>]
NewIM == [preedit |-> <<>>, from |-> 0, to |-> 0, use_preedit |-> TRUE, area |-> NoField]
NoContext == [reset |-> FALSE, hook |-> FALSE, filters |-> 0, client |-> FALSE,
              has_focus |-> FALSE, cursor_area |-> NoField]

\* The options that a context listens to.
Listens == IF toolkit = "gtk3" THEN Options ELSE {"reset"}

nimf_gtk_im_context_update_event_filter(c) ==
  IF (c.reset \/ c.hook) /\ c.filters = 0 THEN [c EXCEPT !.filters = @ + 1]
  ELSE IF ~(c.reset \/ c.hook) /\ c.filters > 0 THEN [c EXCEPT !.filters = @ - 1]
  ELSE c
nimf_gtk_im_context_init(s) ==
  nimf_gtk_im_context_update_event_filter([NoContext EXCEPT !.reset = s.reset, !.hook = s.hook])

\* GTK 4 reads the option and installs nothing.
nimf_gtk4_im_context_init(s) == [NoContext EXCEPT !.reset = s.reset]

\* Qt: the handler is there or not, and is as the option is when it is told.
on_changed_reset_on_mouse_button_press(c, on) ==
  IF on /\ c.filters = 0 THEN [c EXCEPT !.reset = on, !.filters = 1]
  ELSE IF ~on /\ c.filters > 0 THEN [c EXCEPT !.reset = on, !.filters = 0]
  ELSE c
\* NimfInputContext::NimfInputContext, which tells itself of the option.
NimfInputContext(s) ==
  IF valid THEN on_changed_reset_on_mouse_button_press(NoContext, s.reset) ELSE NoContext

\* NimfInputContextPlugin may find neither libraries nor schema.
NimfInputContextPlugin == valid \in BOOLEAN /\ (Gtk => valid)

Init ==
  /\ toolkit \in Toolkits
  /\ NimfInputContextPlugin
  /\ fields = [f \in Fields |-> NoWidget]
  /\ focus = NoField
  /\ ims = [x \in Contexts |-> NewIM]
  /\ settings \in [Options -> BOOLEAN] /\ (settings.hook => toolkit = "gtk3")
  /\ contexts = [x \in Contexts |-> IF Qt /\ x = App THEN NimfInputContext(settings) ELSE NoContext]
  /\ notices = {}

-----------------------------------------------------------------------------
(* The callbacks.  A world w is the NimfIM of a context and the fields;     *)
(* f is the field that its signals reach, if any.                           *)

World(x) == [im |-> ims[x], fields |-> fields]
Settle(x, w) == ims' = [ims EXCEPT ![x] = w.im] /\ fields' = w.fields

\* Signals of a context that is being destroyed are disconnected, and a
\* callback that comes all the same returns.
Reached(w, f) == f # NoField /\ w.fields[f].stage = "live"

gtk_on_commit(w, f, text) == [w EXCEPT !.fields[f].text = @ \o text]
\* The event that Qt sends has an empty preedit.
qt_on_commit(w, f, text) ==
  [w EXCEPT !.fields[f].text = @ \o text, !.fields[f].shown = <<>>, !.fields[f].marks = {}]
on_commit(w, f, text) ==
  IF ~Reached(w, f) THEN w
  ELSE IF Gtk THEN gtk_on_commit(w, f, text) ELSE qt_on_commit(w, f, text)

\* Where the n-th character of a text begins.
Offset(text, n, size) ==
  LET begin[m \in 0 .. Len(text)] == IF m = 0 THEN 0 ELSE begin[m - 1] + size[text[m]]
  IN  begin[n]

\* GTK 3: from bytes to bytes.
gtk_get_preedit_string(im) ==
  Offset(im.preedit, im.from, Bytes) .. (Offset(im.preedit, im.to, Bytes) - 1)
\* GTK 4 takes the indices as they are.
gtk4_get_preedit_string(im) == im.from .. (im.to - 1)

\* Qt: one unit after the other, numbered as a character by leaving out the low
\* surrogates so far; each of these shares the format of its high one.  1 stands
\* for a low surrogate, 0 for a high one or a character of one unit.
LowSurrogates(text) == FlattenSeq([k \in DOMAIN text |-> SubSeq(<<0, 1>>, 1, Units[text[k]])])
qt_formats(im) ==
  LET low == LowSurrogates(im.preedit)
      offset(i) == Offset(low, i, [b \in {0, 1} |-> b])
      formatted == {i \in 1 .. Len(low) : low[i] = 0 /\ i - 1 - offset(i) \in im.from .. (im.to - 1)}
  IN  {i - 1 : i \in formatted \cup {i + 1 : i \in {j \in formatted : j < Len(low) /\ low[j + 1] = 1}}}

Marks(im) == IF toolkit = "gtk3" THEN gtk_get_preedit_string(im)
             ELSE IF toolkit = "gtk4" THEN gtk4_get_preedit_string(im)
             ELSE qt_formats(im)

on_preedit_changed(w, f) ==
  IF ~Reached(w, f) THEN w
  ELSE [w EXCEPT !.fields[f].shown = w.im.preedit, !.fields[f].marks = Marks(w.im)]

\* Where the cursor is, at the end of a text, as libnimf is told.
nimf_gtk_im_context_set_surrounding(text) == Len(text) \* by g_utf8_strlen
nimf_gtk4_im_context_set_surrounding(text) == Offset(text, Len(text), Bytes)
qt_on_retrieve_surrounding(text) == Offset(text, Len(text), Units)
Surrounding(text) == IF toolkit = "gtk3" THEN nimf_gtk_im_context_set_surrounding(text)
                     ELSE IF toolkit = "gtk4" THEN nimf_gtk4_im_context_set_surrounding(text)
                     ELSE qt_on_retrieve_surrounding(text)

\* n characters in GTK, n units in Qt, go from the end of a text.
gtk_on_delete_surrounding(text, n) == SubSeq(text, 1, Len(text) - n)
qt_on_delete_surrounding(text, n) ==
  LET left == {m \in 0 .. Len(text) : Offset(text, m, Units) + n <= Offset(text, Len(text), Units)}
  IN  SubSeq(text, 1, Max(left))
on_delete_surrounding(w, f, n) ==
  [w EXCEPT !.fields[f].text = IF Gtk THEN gtk_on_delete_surrounding(@, n)
                               ELSE qt_on_delete_surrounding(@, n)]

-----------------------------------------------------------------------------
(* What libnimf makes of calls.                                             *)

\* The text that is composed, highlighted between two of its characters.
Compose(w, f, text, from, to) ==
  LET im == [w.im EXCEPT !.preedit = text, !.from = from, !.to = to]
      composed == [w EXCEPT !.im = im]
  IN  IF im.use_preedit THEN on_preedit_changed(composed, f) ELSE composed
Commit(w, f, text) == Compose(on_commit(w, f, text), f, <<>>, 0, 0)
nimf_im_reset(w, f) == IF w.im.preedit = <<>> THEN w ELSE Commit(w, f, w.im.preedit)

Ranges(text) == {r \in (0 .. Len(text)) \X (0 .. Len(text)) : r[1] < r[2]}

Keeps(w) == [w |-> w, consumed |-> FALSE]
Takes(w) == [w |-> w, consumed |-> TRUE]

\* A key with text is composed, ends what is composed, or starts anew.
Composes(w, f, key) ==
  LET p == w.im.preedit
      pk == Append(p, key)
  IN  {Compose(w, f, pk, r[1], r[2]) : r \in Ranges(pk)}
      \cup {Commit(w, f, pk)}
      \cup {Compose(on_commit(w, f, p), f, <<key>>, 0, n) : n \in {0, 1}}

\* Or it flushes what is composed and goes back, as every other key does; a
\* release does nothing, consumed or not.
nimf_im_filter_event(w, f, event) ==
  LET texts == IF HasText(event.key) THEN Composes(w, f, event.key) ELSE {}
  IN  IF event.type = "release" THEN {Keeps(w), Takes(w)}
      ELSE {Keeps(nimf_im_reset(w, f))} \cup {Takes(u) : u \in texts}

\* The position of field f on the screen is f.  Qt tells of changes only.
nimf_im_set_cursor_location(w, f) == [w EXCEPT !.im.area = f]
\* A mutant: the position is kept and not sent.
KeptOnly(w, f) == w
update(w, f) ==
  IF f = NoField \/ contexts[App].cursor_area = f THEN w ELSE nimf_im_set_cursor_location(w, f)

-----------------------------------------------------------------------------
(* Keys: what may become of an event in the field that has the focus.       *)

\* Press and release, as events of X, of GDK 4 and of Qt name them.
translate_xkey_event(event) ==
  [event EXCEPT !.type = IF @ = "KeyPress" THEN "press" ELSE "release"]
translate_gdk_event_key(event) ==
  [event EXCEPT !.type = IF @ = "GDK_KEY_PRESS" THEN "press" ELSE "release"]
XEvent(event) == [event EXCEPT !.type = IF @ = "press" THEN "KeyPress" ELSE "KeyRelease"]
GdkEvent(event) == [event EXCEPT !.type = IF @ = "press" THEN "GDK_KEY_PRESS" ELSE "GDK_KEY_RELEASE"]

\* GtkIMContextSimple commits what has text.
IsText(event) == event.type = "press" /\ HasText(event.key)
simple(r, f, event) ==
  IF r.consumed \/ ~IsText(event) THEN r ELSE Takes(on_commit(r.w, f, <<event.key>>))

\* A widget inserts a key that nobody has taken.
insert(r, f, event) ==
  IF r.consumed \/ ~IsText(event) THEN r.w ELSE [r.w EXCEPT !.fields[f].text = Append(@, event.key)]

nimf_gtk_im_context_filter_keypress(w, f, event) ==
  {simple(r, f, event) : r \in nimf_im_filter_event(w, f, translate_gdk_event_key(GdkEvent(event)))}

\* The filter of X events comes before.  GDK shows it to every context.
Filters(f) == contexts[f].filters > 0 /\ contexts[f].has_focus /\ contexts[f].client
\* A mutant: the key goes on whatever the filter says.
NeverRemoves(w, f, event) ==
  IF Filters(f) /\ contexts[f].hook THEN {Keeps(r.w) : r \in nimf_im_filter_event(w, f, event)}
  ELSE {Keeps(w)}
on_gdk_x_event(w, f, event) ==
  IF ~Filters(f) THEN {Keeps(w)}
  ELSE IF event.type = "ButtonPress"
  THEN {Keeps(IF contexts[f].reset THEN nimf_im_reset(w, f) ELSE w)}
  ELSE IF contexts[f].hook
  THEN nimf_im_filter_event(w, f, translate_xkey_event(XEvent(event))) ELSE {Keeps(w)}

\* The controller comes before the widget, which asks again; a release falls
\* back on nothing.
on_key_pressed(w, f, event) ==
  {simple(r, f, event) : r \in nimf_im_filter_event(w, f, translate_gdk_event_key(GdkEvent(event)))}
on_key_released(w, f, event) ==
  nimf_im_filter_event(w, f, translate_gdk_event_key(GdkEvent(event)))
nimf_gtk4_im_context_filter_keypress(w, f, event) ==
  {IF ~r.consumed /\ IsText(event) /\ Bytes[event.key] = 1
   THEN Takes(on_commit(r.w, f, <<event.key>>)) ELSE r :
     r \in nimf_im_filter_event(w, f, translate_gdk_event_key(GdkEvent(event)))}

filterEvent(w, f, event) ==
  IF valid /\ w.fields[f].accepts THEN nimf_im_filter_event(w, f, event) ELSE {Keeps(w)}

\* A key that was not consumed comes to the context as well.
Gtk3Key(w, f, event) ==
  UNION {IF r.consumed THEN {r} ELSE nimf_gtk_im_context_filter_keypress(r.w, f, event) :
           r \in on_gdk_x_event(w, f, event)}
Controller(w, f, event) ==
  IF ~contexts[f].client THEN {Keeps(w)}
  ELSE IF event.type = "press" THEN on_key_pressed(w, f, event) ELSE on_key_released(w, f, event)
Gtk4Key(w, f, event) ==
  UNION {IF r.consumed THEN {r} ELSE nimf_gtk4_im_context_filter_keypress(r.w, f, event) :
           r \in Controller(w, f, event)}

After(w, f, event) ==
  IF toolkit = "gtk3" THEN {r.w : r \in Gtk3Key(w, f, event)}
  ELSE IF toolkit = "gtk4" THEN {r.w : r \in Gtk4Key(w, f, event)}
  ELSE {insert(r, f, event) : r \in filterEvent(w, f, event)}

\* A bound: each text is typed once.
Typed(k) == \E f \in Fields : \/ k \in ToSet(fields[f].typed)
                              \/ k = "ga" /\ "hanja" \in ToSet(fields[f].typed)
Key(type, k) ==
  /\ focus # NoField /\ ~Typed(k)
  /\ LET event == [type |-> type, key |-> k]
         typed == IF IsText(event) THEN <<k>> ELSE <<>>
         w == [World(ContextOf(focus)) EXCEPT !.fields[focus].typed = @ \o typed]
     IN  \E u \in After(w, focus, event) : Settle(ContextOf(focus), u)
  /\ UNCHANGED <<toolkit, valid, focus, contexts, settings, notices>>

\* The hanja key: the engine asks for the character before the cursor, and the
\* candidate chosen replaces it.  With an index behind the text there is none, as
\* is assumed of the engine.
\* (The text is retrieved, and used at once.)
Convert ==
  /\ focus # NoField /\ valid /\ (Qt => fields[focus].accepts)
  /\ LET x == ContextOf(focus)
         text == fields[focus].text
         cursor == Surrounding(text)
         w == World(x)
         hanja(u) == [u EXCEPT !.fields[focus].typed = SubSeq(@, 1, Len(@) - 1) \o <<"hanja">>]
     IN  /\ w.im.preedit = <<>>
         /\ cursor \in DOMAIN text /\ text[cursor] = "ga"
         /\ Settle(x, hanja(Commit(on_delete_surrounding(w, focus, 1), focus, <<"hanja">>)))
  /\ UNCHANGED <<toolkit, valid, focus, contexts, settings, notices>>

-----------------------------------------------------------------------------
(* Resets, the focus and the position.                                      *)

Resets(f) == /\ Settle(ContextOf(f), nimf_im_reset(World(ContextOf(f)), f))
             /\ UNCHANGED <<toolkit, valid, focus, contexts, settings, notices>>

\* A field resets its context, as QLineEdit and GtkEntry do on an edit.
nimf_gtk_im_context_reset(f) == Gtk /\ focus = f /\ Resets(f)
reset(f) == Qt /\ valid /\ focus = f /\ Resets(f)

\* A mouse button is pressed somewhere.
ButtonPress(f) ==
  /\ toolkit = "gtk3" /\ focus = f
  /\ \E r \in on_gdk_x_event(World(f), f, [type |-> "ButtonPress"]) : Settle(f, r.w)
  /\ UNCHANGED <<toolkit, valid, focus, contexts, settings, notices>>
eventFilter(f) == Qt /\ valid /\ focus = f /\ contexts[App].filters > 0 /\ Resets(f)

nimf_gtk_im_context_focus_in(f) ==
  /\ toolkit = "gtk3" /\ focus = NoField /\ fields[f].stage = "live"
  /\ contexts' = [contexts EXCEPT ![f].has_focus = TRUE]
  /\ focus' = f
  /\ UNCHANGED <<toolkit, valid, fields, ims, settings, notices>>
\* GTK 4 focuses what is realized.
nimf_gtk4_im_context_focus_in(f) ==
  /\ toolkit = "gtk4" /\ focus = NoField /\ fields[f].stage = "live" /\ contexts[f].client
  /\ contexts' = [contexts EXCEPT ![f].has_focus = TRUE]
  /\ focus' = f
  /\ UNCHANGED <<toolkit, valid, fields, ims, settings, notices>>

FocusOut(f) ==
  /\ focus = f
  /\ Settle(f, nimf_im_reset(World(f), f))
  /\ focus' = NoField
  /\ contexts' = [contexts EXCEPT ![f].has_focus = FALSE]
  /\ UNCHANGED <<toolkit, valid, settings, notices>>
nimf_gtk_im_context_focus_out(f) == toolkit = "gtk3" /\ FocusOut(f)
nimf_gtk4_im_context_focus_out(f) == toolkit = "gtk4" /\ FocusOut(f)

Accepting(f) == f # NoField /\ fields[f].accepts

\* Qt commits while the old object has the focus.
\* A mutant: it does not.
NotCommitted(w, f) == w
commit(w, f) == IF Accepting(f) THEN nimf_im_reset(w, f) ELSE w

setFocusObject(f) ==
  /\ Qt /\ f # focus /\ (f # NoField => fields[f].stage = "live")
  /\ focus' = f
  /\ IF ~valid THEN UNCHANGED <<ims, fields, contexts>>
     ELSE LET w == commit(World(App), focus)
              u == IF Accepting(f) THEN w ELSE nimf_im_reset(w, f)
          IN  /\ Settle(App, update(u, f))
              /\ contexts' = [contexts EXCEPT ![App].cursor_area = IF f = NoField THEN @ ELSE f]
  /\ UNCHANGED <<toolkit, valid, settings, notices>>

\* A field of GTK tells its context where it is: here, before it is typed into.
nimf_gtk_im_context_set_cursor_location(f) ==
  /\ Gtk /\ focus = f /\ ims[f].area # f /\ fields[f].typed = <<>>
  /\ Settle(f, nimf_im_set_cursor_location(World(f), f))
  /\ UNCHANGED <<toolkit, valid, focus, contexts, settings, notices>>

-----------------------------------------------------------------------------
(* Settings.                                                                *)

\* A bound: contexts hear of one change before the next.
Change(key) ==
  /\ notices = {} /\ key \in Listens
  /\ settings' = [settings EXCEPT ![key] = ~@]
  /\ notices' = IF Qt THEN {<<x, key>> : x \in IF valid THEN {App} ELSE {}}
                ELSE {<<f, key>> : f \in {g \in Fields : fields[g].stage = "live"}}
  /\ UNCHANGED <<toolkit, valid, fields, focus, ims, contexts>>

Heard(x, key, c) ==
  /\ <<x, key>> \in notices
  /\ notices' = notices \ {<<x, key>>}
  /\ contexts' = [contexts EXCEPT ![x] = c]
  /\ UNCHANGED <<toolkit, valid, fields, focus, ims, settings>>

on_changed_reset_on_gdk_button_press_event(f) ==
  toolkit = "gtk3" /\ Heard(f, "reset",
    nimf_gtk_im_context_update_event_filter([contexts[f] EXCEPT !.reset = settings.reset]))
on_changed_hook_gdk_event_key(f) ==
  toolkit = "gtk3" /\ Heard(f, "hook",
    nimf_gtk_im_context_update_event_filter([contexts[f] EXCEPT !.hook = settings.hook]))
on_reset_on_button_press_event_changed(f) ==
  toolkit = "gtk4" /\ Heard(f, "reset", [contexts[f] EXCEPT !.reset = settings.reset])
on_changed_reset ==
  Qt /\ Heard(App, "reset", on_changed_reset_on_mouse_button_press(contexts[App], settings.reset))

\* Fields choose before they are typed into (later: see the README).
nimf_gtk_im_context_set_use_preedit(f) ==
  /\ Gtk /\ fields[f].stage = "live" /\ fields[f].typed = <<>>
  /\ ims' = [ims EXCEPT ![f].use_preedit = ~@]
  /\ UNCHANGED <<toolkit, valid, fields, focus, contexts, settings, notices>>

-----------------------------------------------------------------------------
(* Fields come and go.                                                      *)

Create(f) ==
  /\ fields[f].stage = "none"
  /\ \E accepts \in IF Qt THEN BOOLEAN ELSE {TRUE} :
       fields' = [fields EXCEPT ![f] = [NoWidget EXCEPT !.stage = "live", !.accepts = accepts]]
  /\ contexts' = IF toolkit = "gtk3" THEN [contexts EXCEPT ![f] = nimf_gtk_im_context_init(settings)]
                 ELSE IF toolkit = "gtk4" THEN [contexts EXCEPT ![f] = nimf_gtk4_im_context_init(settings)]
                 ELSE contexts
  /\ UNCHANGED <<toolkit, valid, focus, ims, settings, notices>>

\* Contexts are given a window when their field is realized, and NULL when that
\* is undone: before a field is typed into, as a bound.
Client(f, there) ==
  /\ fields[f].stage = "live" /\ focus # f /\ fields[f].typed = <<>>
  /\ contexts' = [contexts EXCEPT ![f].client = there]
  /\ UNCHANGED <<toolkit, valid, fields, focus, ims, settings, notices>>
nimf_gtk_im_context_set_client_window(f) ==
  \E window \in BOOLEAN : toolkit = "gtk3" /\ Client(f, window)
\* The controller goes, and there is a new one if the widget has a surface.
nimf_gtk4_im_context_set_client_widget(f) ==
  \E surface \in BOOLEAN : toolkit = "gtk4" /\ Client(f, surface)

\* A field is destroyed without the focus.  Its context is disconnected, and a
\* filter removed, before the main loop runs until nothing is pending; the
\* controller of GTK 4 is removed after that.
Finalize(f, c) ==
  /\ fields[f].stage = "live" /\ focus # f
  /\ fields' = [fields EXCEPT ![f] = [NoWidget EXCEPT !.stage = "dying"]]
  /\ contexts' = [contexts EXCEPT ![f] = c]
  /\ notices' = {n \in notices : n[1] # f}
  /\ UNCHANGED <<toolkit, valid, focus, ims, settings>>
nimf_gtk_im_context_finalize(f) == toolkit = "gtk3" /\ Finalize(f, [contexts[f] EXCEPT !.filters = 0])
nimf_gtk4_im_context_finalize(f) == toolkit = "gtk4" /\ Finalize(f, contexts[f])

Cleared(f) ==
  /\ fields[f].stage = IF Gtk THEN "dying" ELSE "live"
  /\ focus # f
  /\ fields' = [fields EXCEPT ![f] = NoWidget]
  /\ IF Gtk THEN ims' = [ims EXCEPT ![f] = NewIM] /\ contexts' = [contexts EXCEPT ![f] = NoContext]
     ELSE UNCHANGED <<ims, contexts>>
  /\ UNCHANGED <<toolkit, valid, focus, settings, notices>>

\* ~NimfInputContext, when a Qt application ends.
Destroyed ==
  /\ Qt /\ valid /\ focus = NoField
  /\ valid' = FALSE
  /\ ims' = [ims EXCEPT ![App] = NewIM]
  /\ contexts' = [contexts EXCEPT ![App] = NoContext]
  /\ notices' = {}
  /\ UNCHANGED <<toolkit, fields, focus, settings>>

Gtk3Step(f) ==
  \/ nimf_gtk_im_context_focus_in(f) \/ nimf_gtk_im_context_focus_out(f) \/ ButtonPress(f)
  \/ on_changed_reset_on_gdk_button_press_event(f) \/ on_changed_hook_gdk_event_key(f)
  \/ nimf_gtk_im_context_set_client_window(f) \/ nimf_gtk_im_context_finalize(f)
Gtk4Step(f) ==
  \/ nimf_gtk4_im_context_focus_in(f) \/ nimf_gtk4_im_context_focus_out(f)
  \/ on_reset_on_button_press_event_changed(f)
  \/ nimf_gtk4_im_context_set_client_widget(f) \/ nimf_gtk4_im_context_finalize(f)
GtkStep(f) ==
  \/ nimf_gtk_im_context_reset(f) \/ nimf_gtk_im_context_set_cursor_location(f)
  \/ nimf_gtk_im_context_set_use_preedit(f)
QtStep(f) == reset(f) \/ eventFilter(f) \/ setFocusObject(f)

Next ==
  \/ \E k \in Keys, type \in {"press", "release"} : Key(type, k)
  \/ Convert \/ on_changed_reset \/ Destroyed
  \/ \E f \in Fields : Gtk3Step(f) \/ Gtk4Step(f) \/ GtkStep(f) \/ QtStep(f) \/ Create(f) \/ Cleared(f)
  \/ setFocusObject(NoField)
  \/ \E key \in Options : Change(key)

Spec == Init /\ [][Next]_vars

-----------------------------------------------------------------------------
(* Properties.                                                              *)

Composed(f) == IF Gtk THEN ims[f].preedit
               ELSE IF focus = f /\ fields[f].accepts THEN ims[App].preedit ELSE <<>>

(* Whichever of the filter, the controller, libnimf, the simple context and *)
(* the widget takes a key, it comes to the field it was typed into, once    *)
(* and in order, and what is composed when the focus leaves stays there.    *)
KeysReachField ==
  \A f \in Fields : fields[f].stage = "live" => fields[f].text \o Composed(f) = fields[f].typed

(* A field shows what is composed for it, and nothing that is not, over     *)
(* resets, commits and moves of the focus.                                  *)
PreeditShown ==
  \A f \in Fields : fields[f].stage = "live" =>
    fields[f].shown = IF ims[ContextOf(f)].use_preedit THEN Composed(f) ELSE <<>>

\* The parts of a character, bytes or units, and those of the characters that the
\* engine highlights.
PartsOf(text, n, size) == Offset(text, n - 1, size) .. (Offset(text, n, size) - 1)
Highlighted(im, size) == UNION {PartsOf(im.preedit, n, size) : n \in (im.from + 1) .. im.to}

(* What a field highlights, in its own units, are the characters that the   *)
(* engine highlights.  (GTK 4 takes characters for bytes.)                  *)
FormatsItsCharacters ==
  \A f \in Fields : fields[f].shown # <<>> /\ toolkit # "gtk4" =>
    fields[f].marks = Highlighted(ims[ContextOf(f)], IF Qt THEN Units ELSE Bytes)

(* An event filter is installed once for a context that wants one as the    *)
(* settings are, when it has heard of them, and never for one that goes:    *)
(* it would be called with a context that was freed.                        *)
FiltersMatchSettings ==
  \A x \in Contexts :
    LET there == IF Qt THEN valid /\ x = App ELSE x \in Fields /\ fields[x].stage = "live"
        wants == toolkit # "gtk4" /\ (settings.reset \/ (toolkit = "gtk3" /\ settings.hook))
        heard == \A n \in notices : n[1] # x
    IN  IF ~there THEN contexts[x].filters = 0
        ELSE heard => contexts[x].filters = IF wants THEN 1 ELSE 0

(* Once a Qt field has the focus, the server knows where it is, as the      *)
(* plugin believes when it leaves out a position: candidates appear there.  *)
PositionKnown ==
  Qt /\ valid => /\ ims[App].area = contexts[App].cursor_area
                 /\ focus # NoField => ims[App].area = focus

(* A field that has the focus is one that lives, and only its context       *)
(* thinks so; a filter is not there twice.                                  *)
TypeOK ==
  /\ focus \in Fields \cup {NoField}
  /\ focus # NoField => fields[focus].stage = "live"
  /\ \A x \in Contexts : /\ contexts[x].has_focus <=> Gtk /\ x = focus
                         /\ contexts[x].filters \in 0 .. 1
  /\ notices \subseteq Contexts \X Options

(* What a field shows is what is composed for it, highlighted as the engine *)
(* does.                                                                    *)
ComposedIsShown == PreeditShown /\ FormatsItsCharacters

(* What the modules, libnimf and the toolkit each remember of a context     *)
(* agrees: its focus, its filter, its options and its position.             *)
ContextsAgree == TypeOK /\ FiltersMatchSettings /\ PositionKnown
=============================================================================
