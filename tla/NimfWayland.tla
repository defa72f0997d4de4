---------------------------- MODULE NimfWayland -----------------------------
(***************************************************************************)
(* The Wayland service: nimf-wayland.c and nimf-wayland-ic.c, with its     *)
(* place in the main loop of the daemon, and a compositor with the fields  *)
(* of its clients (input-method-unstable-v1, text-input-unstable-v1).      *)
(*                                                                         *)
(* Events and requests are on their way in both directions while the user  *)
(* types and moves between fields.  A field that is left commits itself    *)
(* the preedit it shows, as preedit_string allows it; what is on its way   *)
(* from and to a context that was deactivated is lost, and so are grabs    *)
(* that a context asks for too late.                                       *)
(*                                                                         *)
(* The compositor and its clients are modelled from how the service uses   *)
(* them.  Cursor positions, content types and languages are left out, and  *)
(* clients do not reset (handle_reset does nothing).                       *)
(***************************************************************************)
EXTENDS Naturals, SequencesExt

CONSTANTS MaxContexts, \* bound: activations
          MaxKeys,     \* bound: keys the user types
          MaxShifts,   \* bound: presses and releases of Shift
          MaxSerial    \* bound: states that a field commits while active

ASSUME WaylandAssumption == {MaxContexts, MaxKeys, MaxShifts, MaxSerial} \subseteq Nat

VARIABLES
  phase,    \* of the main loop: "off", "idle", "poll", "dispatch", "stopped"
  reading,  \* source->reading
  intents,  \* threads of libwayland that have prepared to read
  wayland,  \* NimfWayland
  preedit,  \* what the engine of wayland->wic composes
  queue,    \* events read and not yet dispatched
  out,      \* requests not yet flushed
  toIM,     \* events on the socket
  toComp,   \* requests on the socket
  comp,     \* the compositor
  field     \* the text field that is active, and what was typed into it

loop == <<phase, reading, intents>>
world == <<comp, field>>
vars == <<phase, reading, intents, wayland, preedit, queue, out, toIM, toComp, comp, field>>

Empty == [text |-> <<>>, shown |-> <<>>, typed |-> <<>>, serial |-> 0]

\* 0 is no context.  modifiers is Shift or nothing.
Init ==
  /\ phase = "off" /\ reading = FALSE /\ intents = 0
  /\ wayland = [context |-> 0, serial |-> 0, state |-> FALSE, modifiers |-> FALSE, active |-> FALSE]
  /\ preedit = <<>>
  /\ queue = <<>> /\ out = <<>> /\ toIM = <<>> /\ toComp = <<>>
  /\ comp = [active |-> 0, last |-> 0, grab |-> 0, shift |-> FALSE,
             keys |-> 0, shifts |-> 0, alive |-> TRUE]
  /\ field = Empty

\* Events carry what they need of: a serial, the state of Shift, a key.
Event(op, id) == [op |-> op, id |-> id, serial |-> 0, shift |-> FALSE, key |-> 0]
Request(op, id) == [op |-> op, id |-> id, serial |-> 0, text |-> <<>>]

-----------------------------------------------------------------------------
(* The service in the main loop.                                            *)

\* nimf_wayland_start: it may not be a session of Wayland, or one without an
\* input method.
nimf_wayland_start ==
  /\ phase = "off"
  /\ phase' \in {"idle", "stopped"}
  /\ wayland' = [wayland EXCEPT !.active = phase' = "idle"]
  /\ UNCHANGED <<reading, intents, preedit, queue, out, toIM, toComp, world>>

\* Mutants: the source says that it is ready when it has been left out of a check;
\* requests are not flushed.
Prepares(sent) ==
  /\ reading' = TRUE /\ intents' = intents + 1 /\ phase' = "poll"
  /\ toComp' = toComp \o sent /\ out' = IF sent = <<>> THEN out ELSE <<>>
PrepareReady ==
  /\ phase = "idle"
  /\ IF reading THEN phase' = "dispatch" /\ UNCHANGED <<reading, intents, out, toComp>>
     ELSE Prepares(out)
  /\ UNCHANGED <<wayland, preedit, queue, toIM, world>>
PrepareUnflushed ==
  /\ phase = "idle"
  /\ IF reading THEN phase' = "poll" /\ UNCHANGED <<reading, intents, out, toComp>>
     ELSE Prepares(<<>>)
  /\ UNCHANGED <<wayland, preedit, queue, toIM, world>>
\* wl_display_prepare_read fails when events are queued; requests are flushed
\* when it does not.  To a dead compositor that fails, and nobody reads them.
nimf_wayland_source_prepare ==
  /\ phase = "idle"
  /\ IF reading THEN phase' = "poll" /\ UNCHANGED <<reading, intents, out, toComp>>
     ELSE IF queue # <<>> THEN phase' = "dispatch" /\ UNCHANGED <<reading, intents, out, toComp>>
     ELSE /\ reading' = TRUE /\ intents' = intents + 1 /\ phase' = "poll"
          /\ toComp' = IF comp.alive THEN toComp \o out ELSE toComp
          /\ out' = <<>>
  /\ UNCHANGED <<wayland, preedit, queue, toIM, world>>

\* Its source is destroyed, and finalized: a read that was prepared is
\* cancelled.
nimf_wayland_stop ==
  /\ phase' = "stopped"
  /\ reading' = FALSE /\ intents' = IF reading THEN intents - 1 ELSE intents
  /\ wayland' = [wayland EXCEPT !.active = FALSE]

\* The socket is readable, or has been closed: then reading fails.
nimf_wayland_source_check ==
  /\ phase = "poll" /\ reading
  /\ IF toIM = <<>> /\ ~comp.alive THEN nimf_wayland_stop /\ UNCHANGED <<queue, toIM>>
     ELSE /\ queue' = queue \o toIM /\ toIM' = <<>>
          /\ reading' = FALSE /\ intents' = intents - 1
          /\ phase' = IF toIM = <<>> THEN "idle" ELSE "dispatch"
          /\ UNCHANGED wayland
  /\ UNCHANGED <<preedit, out, toComp, world>>

\* GLib leaves out the check when a source of higher priority is ready.
Skipped ==
  /\ phase = "poll"
  /\ phase' = "idle"
  /\ UNCHANGED <<reading, intents, wayland, preedit, queue, out, toIM, toComp, world>>

\* wl_display_dispatch_pending has come to the end of the queue.
nimf_wayland_source_dispatch ==
  /\ phase = "dispatch" /\ queue = <<>>
  /\ phase' = "idle"
  /\ UNCHANGED <<reading, intents, wayland, preedit, queue, out, toIM, toComp, world>>

\* The daemon stops its services.
Stop ==
  /\ phase \in {"idle", "poll"}
  /\ nimf_wayland_stop
  /\ UNCHANGED <<preedit, queue, out, toIM, toComp, world>>

-----------------------------------------------------------------------------
(* The listeners.                                                           *)

\* The next event of the queue is e.  Those of contexts that have been
\* destroyed are dropped, those of keyboards never.
Dispatched(op) ==
  /\ phase = "dispatch" /\ queue # <<>> /\ Head(queue).op = op
  /\ queue' = Tail(queue)
  /\ UNCHANGED <<phase, reading, intents, toIM, toComp, world>>

\* The engine's emissions, as requests of the context there is.  A mutant sends
\* what was composed before.
nimf_wayland_ic_emit_commit(text) ==
  [Request("commit_string", wayland.context) EXCEPT !.serial = wayland.serial, !.text = text]
nimf_wayland_ic_emit_preedit_changed(text) ==
  [Request("preedit_string", wayland.context) EXCEPT !.serial = wayland.serial, !.text = text]

Emits(requests, text) == out' = out \o requests /\ preedit' = text
Commits(text) == Emits(<<nimf_wayland_ic_emit_commit(text),
                         nimf_wayland_ic_emit_preedit_changed(<<>>)>>, <<>>)
Composes(text) == Emits(<<nimf_wayland_ic_emit_preedit_changed(text)>>, text)
Flushed == IF preedit = <<>> THEN <<>>
           ELSE <<nimf_wayland_ic_emit_commit(preedit), nimf_wayland_ic_emit_preedit_changed(<<>>)>>

handle_commit_state ==
  /\ Dispatched("commit_state")
  /\ wayland' = IF Head(queue).id = wayland.context
                THEN [wayland EXCEPT !.serial = Head(queue).serial] ELSE wayland
  /\ UNCHANGED <<preedit, out>>

\* handle_surrounding_text and the others that do nothing.
handle_surrounding_text == Dispatched("surrounding_text") /\ UNCHANGED <<wayland, preedit, out>>

\* Keymaps are of xkb, and can be mapped and compiled.
input_method_keyboard_keymap ==
  /\ Dispatched("keymap")
  /\ wayland' = [wayland EXCEPT !.state = TRUE]
  /\ UNCHANGED <<preedit, out>>

\* A key is a number, and what Shift makes of it.
KeyOf(e) == <<e.key, wayland.modifiers>>
input_method_keyboard_key ==
  /\ Dispatched("key")
  /\ LET k == KeyOf(Head(queue))
         back == [Request("key", wayland.context) EXCEPT !.text = <<k>>]
     IN  IF ~wayland.state THEN UNCHANGED <<preedit, out>>
         ELSE \/ Emits(Flushed \o <<back>>, <<>>)
              \/ Composes(Append(preedit, k))
              \/ Commits(Append(preedit, k))
  /\ UNCHANGED wayland

\* The masks that it hands on leave out Lock, which is not modelled.
input_method_keyboard_modifiers ==
  /\ Dispatched("modifiers")
  /\ wayland' = [wayland EXCEPT !.modifiers = Head(queue).shift]
  /\ out' = Append(out, Request("modifiers", wayland.context))
  /\ UNCHANGED preedit

input_method_activate ==
  /\ Dispatched("activate")
  /\ wayland' = [wayland EXCEPT !.context = Head(queue).id, !.serial = 0]
  /\ out' = out \o (IF wayland.context = 0 THEN <<>> ELSE <<Request("destroy", wayland.context)>>)
                \o <<Request("grab_keyboard", Head(queue).id)>>
  /\ UNCHANGED preedit

\* Mutants: what is composed is kept for the next field; or it is committed when
\* the context is gone.
DeactivateUnreset ==
  /\ Dispatched("deactivate")
  /\ out' = Append(out, Request("destroy", wayland.context))
  /\ wayland' = [wayland EXCEPT !.context = 0]
  /\ UNCHANGED preedit
DeactivateThenReset ==
  /\ Dispatched("deactivate")
  /\ Emits(<<Request("destroy", wayland.context)>>
           \o [n \in DOMAIN Flushed |-> [Flushed[n] EXCEPT !.id = 0]], <<>>)
  /\ wayland' = [wayland EXCEPT !.context = 0]
input_method_deactivate ==
  /\ Dispatched("deactivate")
  /\ IF wayland.context = 0 THEN UNCHANGED <<wayland, preedit, out>>
     ELSE /\ Emits(Flushed \o <<Request("destroy", wayland.context)>>, <<>>)
          /\ wayland' = [wayland EXCEPT !.context = 0]

-----------------------------------------------------------------------------
(* The compositor, its clients and the user.                                *)

service == <<phase, reading, intents, wayland, preedit, queue, out>>
Sends(events) == toIM' = toIM \o events

\* The user goes to a field, this one or another, and leaves it with what it
\* has and shows; what has not come back to it is lost.
Enter ==
  /\ comp.alive /\ comp.active = 0 /\ comp.last < MaxContexts /\ phase # "off"
  /\ comp' = [comp EXCEPT !.active = comp.last + 1, !.last = @ + 1]
  /\ Sends(<<Event("activate", comp.last + 1)>>)
  /\ UNCHANGED <<service, toComp, field>>

Leave ==
  /\ comp.alive /\ comp.active # 0
  /\ field' = Empty
  /\ comp' = [comp EXCEPT !.active = 0, !.grab = 0]
  /\ Sends(<<Event("deactivate", comp.active)>>)
  /\ UNCHANGED <<service, toComp>>

\* Keys go to the keyboard that the context has grabbed, or to the field.
TypeKey ==
  /\ comp.alive /\ comp.active # 0 /\ comp.keys < MaxKeys
  /\ LET k == <<comp.keys + 1, comp.shift>>
         grabbed == comp.grab # 0
     IN  /\ comp' = [comp EXCEPT !.keys = @ + 1]
         /\ field' = [field EXCEPT !.typed = Append(@, k),
                                   !.text = IF grabbed THEN @ ELSE Append(@, k)]
         /\ Sends(IF grabbed THEN <<[Event("key", comp.grab) EXCEPT !.key = k[1]]>> ELSE <<>>)
  /\ UNCHANGED <<service, toComp>>

Shift ==
  /\ comp.alive /\ comp.shifts < MaxShifts
  /\ comp' = [comp EXCEPT !.shift = ~@, !.shifts = @ + 1]
  /\ Sends(IF comp.grab = 0 THEN <<>>
           ELSE <<[Event("modifiers", comp.grab) EXCEPT !.shift = ~comp.shift]>>)
  /\ UNCHANGED <<service, toComp, field>>

\* A client says what is around its cursor, and that this is its state.
CommitState ==
  /\ comp.alive /\ comp.active # 0 /\ field.serial < MaxSerial
  /\ field' = [field EXCEPT !.serial = @ + 1]
  /\ Sends(<<Event("surrounding_text", comp.active),
             [Event("commit_state", comp.active) EXCEPT !.serial = field.serial + 1]>>)
  /\ UNCHANGED <<service, toComp, comp>>

\* The compositor takes a request.  Those of other contexts than the active one
\* do nothing, but for the end of a grab.  Modifiers are assumed to come with it.
Takes ==
  /\ comp.alive /\ toComp # <<>>
  /\ toComp' = Tail(toComp)
  /\ LET r == Head(toComp)
         ours == r.id = comp.active
         grabs == r.op = "grab_keyboard" /\ ours
     IN  /\ comp' = IF grabs THEN [comp EXCEPT !.grab = r.id]
                    ELSE IF r.op = "destroy" /\ comp.grab = r.id THEN [comp EXCEPT !.grab = 0]
                    ELSE comp
         /\ Sends(IF ~grabs THEN <<>>
                  ELSE <<Event("keymap", r.id), [Event("modifiers", r.id) EXCEPT !.shift = comp.shift]>>)
         /\ field' = IF ~ours THEN field
                     ELSE IF r.op = "commit_string" THEN [field EXCEPT !.text = @ \o r.text, !.shown = <<>>]
                     ELSE IF r.op = "key" THEN [field EXCEPT !.text = @ \o r.text]
                     ELSE IF r.op = "preedit_string" THEN [field EXCEPT !.shown = r.text]
                     ELSE field
  /\ UNCHANGED service

\* Its fields and the requests on their way go with it; what it has sent can
\* still be read.
CompositorDies ==
  /\ comp.alive
  /\ comp' = [comp EXCEPT !.alive = FALSE, !.active = 0]
  /\ field' = Empty /\ toComp' = <<>>
  /\ UNCHANGED <<service, toIM>>

-----------------------------------------------------------------------------
Listener ==
  \/ handle_commit_state \/ handle_surrounding_text \/ input_method_keyboard_keymap
  \/ input_method_keyboard_key \/ input_method_keyboard_modifiers
  \/ input_method_activate \/ input_method_deactivate

Next ==
  \/ nimf_wayland_start \/ nimf_wayland_source_prepare \/ nimf_wayland_source_check
  \/ Skipped \/ nimf_wayland_source_dispatch \/ Stop \/ Listener
  \/ Enter \/ Leave \/ TypeKey \/ Shift \/ CommitState \/ Takes \/ CompositorDies

\* The main loop goes on, and does not always skip the check; the compositor
\* takes requests.
Fairness ==
  /\ WF_phase(phase = "idle" /\ phase' \in {"poll", "dispatch"})
  /\ SF_intents(phase = "poll" /\ intents' = 0)
  /\ WF_queue(phase = "dispatch" /\ queue # <<>> /\ queue' = Tail(queue))
  /\ WF_phase(phase = "dispatch" /\ queue = <<>> /\ phase' = "idle")

Spec == Init /\ [][Next]_vars /\ Fairness

-----------------------------------------------------------------------------
(* Properties.                                                              *)

\* What is made of each element of a sequence, in order.
Gathered(s, Of(_)) == FlattenSeq([n \in DOMAIN s |-> Of(s[n])])

Texts(requests, id) ==
  Gathered(requests,
           LAMBDA r : IF r.id = id /\ r.op \in {"commit_string", "key"} THEN r.text ELSE <<>>)

\* What Shift will be when the n-th event is dispatched, and the keys in a
\* sequence of events with it.
ShiftAt(events, n, shift) ==
  LET before == {m \in 1 .. n - 1 : events[m].op = "modifiers"}
  IN  IF before = {} THEN shift ELSE events[Max(before)].shift
KeysIn(events, id, shift) ==
  FlattenSeq([n \in DOMAIN events |->
                IF events[n].op = "key" /\ events[n].id = id
                THEN << <<events[n].key, ShiftAt(events, n, shift)>> >> ELSE <<>>])

(* Keys typed into a field, before its context has the keyboard or after,   *)
(* are in one place each and in order: in the field, coming back, composed  *)
(* by the engine, or on their way to it; with Shift as it was when they     *)
(* were typed.  Nothing comes in from the field before.                     *)
KeysInOrder ==
  comp.active # 0 =>
    field.text \o Texts(toComp \o out, comp.active)
      \o (IF wayland.context = comp.active THEN preedit ELSE <<>>)
      \o KeysIn(queue \o toIM, comp.active, wayland.modifiers)
    = field.typed

\* What a field will have drawn, as requests for it will have changed it.
Drawn(requests, id) ==
  Gathered(requests, LAMBDA r : IF r.id # id THEN <<>>
                                ELSE IF r.op = "commit_string" THEN << <<>> >>
                                ELSE IF r.op = "preedit_string" THEN <<r.text>> ELSE <<>>)

(* A field shows what the engine composes, when it has what was sent to it: *)
(* that is what it commits when it is left.                                 *)
PreeditShown ==
  comp.active # 0 /\ wayland.context = comp.active =>
    Last(<<field.shown>> \o Drawn(toComp \o out, comp.active)) = preedit

(* Requests are made for a context: none is left for a keyboard event, or   *)
(* for what the engine emits, when the context has been destroyed.          *)
NeverWithoutContext == \A n \in DOMAIN out : out[n].id # 0

Serials(events, id) ==
  Gathered(events, LAMBDA e : IF e.op = "commit_state" /\ e.id = id THEN <<e.serial>> ELSE <<>>)

(* The serial that goes out with text is the last one that the active field *)
(* has committed and the service has read, and not that of another field.   *)
SerialFollows ==
  comp.active # 0 /\ wayland.context = comp.active =>
    wayland.serial + Len(Serials(queue \o toIM, comp.active)) = field.serial

(* libwayland is told once that the service is going to read, and each time *)
(* the service reads or gives up: otherwise it waits for itself.            *)
TypeOK ==
  /\ intents = IF reading THEN 1 ELSE 0
  /\ phase \in {"off", "stopped"} => ~reading
  /\ phase \in {"idle", "poll", "dispatch"} <=> wayland.active
  /\ phase = "idle" => queue = <<>>
  /\ wayland.context \in 0 .. comp.last

(* Moving between fields mixes neither their text nor their contexts.       *)
FieldsApart == KeysInOrder /\ PreeditShown
ContextFollows == TypeOK /\ NeverWithoutContext /\ SerialFollows

(* Events are dispatched, and requests leave the buffer, although only      *)
(* prepare flushes it and the check may be left out.                        *)
EventsHandled == toIM # <<>> ~> (toIM = <<>> \/ phase = "stopped")
RequestsFlushed == out # <<>> ~> (out = <<>> \/ phase = "stopped")
=============================================================================
