------------------------- MODULE NimfWaylandProofs --------------------------
(***************************************************************************)
(* Proofs about NimfWayland: for any number of contexts, keys and serials, *)
(* moving between fields mixes neither their text nor their contexts.      *)
(*                                                                         *)
(* stream is what the compositor has sent and the service has not handled, *)
(* reqs what the service has asked for and the compositor not taken.  The  *)
(* invariant is about what is on its way: each listener takes the first    *)
(* event of stream and appends to reqs (Hears), the compositor takes the   *)
(* first of reqs and appends to stream, and the main loop moves both on    *)
(* without a change (Loops).                                               *)
(***************************************************************************)
EXTENDS NimfWayland, SequenceFacts

(* A text is keys, each with what Shift made of it. The operations are the  *)
(* events of the input method and of its keyboard, and the requests of the  *)
(* service.                                                                 *)
Text == Seq(Nat \X BOOLEAN)
EventOps == {"activate", "deactivate", "surrounding_text", "commit_state", "keymap", "modifiers", "key"}
RequestOps == {"grab_keyboard", "destroy", "modifiers", "key", "commit_string", "preedit_string"}
Events == [op : EventOps, id : Nat, serial : Nat, shift : BOOLEAN, key : Nat]
Requests == [op : RequestOps, id : Nat, serial : Nat, text : Text]

(* What is on its way to the service, and to the compositor.                *)
stream == queue \o toIM
reqs == toComp \o out

(* The types of the variables, one conjunct for each group that changes     *)
(* together.                                                                *)
LoopTypes == /\ phase \in {"off", "idle", "poll", "dispatch", "stopped"}
             /\ reading \in BOOLEAN /\ intents \in Nat
ServiceTypes == /\ wayland \in [context : Nat, serial : Nat, state : BOOLEAN, modifiers : BOOLEAN,
                                active : BOOLEAN]
                /\ preedit \in Text
EventTypes == queue \in Seq(Events) /\ toIM \in Seq(Events)
RequestTypes == out \in Seq(Requests) /\ toComp \in Seq(Requests)
Comps == [active : Nat, last : Nat, grab : Nat, shift : BOOLEAN,
          keys : Nat, shifts : Nat, alive : BOOLEAN]
CompTypes == comp \in Comps
FieldTypes == field \in [text : Text, shown : Text, typed : Text, serial : Nat]
TypeInv == LoopTypes /\ ServiceTypes /\ EventTypes /\ RequestTypes /\ CompTypes /\ FieldTypes

(* The events of a queue are dispatched before the service polls again.     *)
LoopInv == TypeOK /\ (phase \in {"off", "poll"} => queue = <<>>)

(* Contexts are numbered as fields are entered: no event or request is for  *)
(* one of the future. A destroyed one is not the active one, and a          *)
(* compositor that has died has no field and no requests.                   *)
IdsInv ==
  /\ comp.active <= comp.last
  /\ comp.alive \/ (comp.active = 0 /\ toComp = <<>>)
  /\ comp.active = 0 => field = Empty /\ (comp.alive => comp.grab = 0)
  /\ \A n \in 1 .. Len(stream) :
       stream[n].id <= comp.last /\ (stream[n].op = "deactivate" => stream[n].id # comp.active)
  /\ \A n \in 1 .. Len(reqs) :
       reqs[n].id # 0 /\ reqs[n].id <= comp.last /\ (reqs[n].op = "destroy" => reqs[n].id # comp.active)

(* The context there is when e has been handled, and the one there must be  *)
(* for it: events are for the context that was activated last.              *)
After(e, c) == IF e.op = "activate" THEN e.id ELSE IF e.op = "deactivate" THEN 0 ELSE c
StartsAt(e, c) == IF e.op = "activate" THEN c = 0 /\ e.id # 0 ELSE e.id = c /\ c # 0
(* The events of s lead from the context first to the context last, each    *)
(* coming to the context that it is for.                                    *)
Leads(s, first, last) ==
  \E ctx \in [1 .. Len(s) + 1 -> Nat] :
    /\ \A n \in 1 .. Len(s) : StartsAt(s[n], ctx[n]) /\ ctx[n + 1] = After(s[n], ctx[n])
    /\ ctx[1] = first /\ ctx[Len(s) + 1] = last
(* The events on their way lead from the service's context to the active    *)
(* one of the compositor.                                                   *)
ContextsInv ==
  \E last \in Nat : Leads(stream, wayland.context, last) /\ (comp.alive => last = comp.active)

(* The service has a keymap when the n-th event is handled. A key never     *)
(* comes before it, and Shift will be for the keys that follow what it is   *)
(* in the compositor.                                                       *)
HasKeymap(s, n) == wayland.state \/ \E m \in 1 .. n - 1 : s[m].op = "keymap"
KeyboardInv ==
  /\ comp.alive /\ comp.grab # 0 =>
       /\ comp.grab = comp.active
       /\ HasKeymap(stream, Len(stream) + 1)
       /\ ShiftAt(stream, Len(stream) + 1, wayland.modifiers) = comp.shift
  /\ \A n \in 1 .. Len(stream) : stream[n].op = "key" => HasKeymap(stream, n)

(* A field without a grab gets its keys itself: nothing typed into it is    *)
(* on its way, nor composed, nor shown.                                     *)
UngrabbedInv ==
  comp.active # 0 /\ comp.grab = 0 =>
    /\ \A n \in 1 .. Len(stream) : stream[n].op = "key" => stream[n].id # comp.active
    /\ \A n \in 1 .. Len(reqs) :
         reqs[n].id = comp.active => reqs[n].op \notin {"commit_string", "key", "preedit_string"}
    /\ field.shown = <<>>
    /\ wayland.context = comp.active => preedit = <<>>

(* A field whose activation is on its way has neither grab nor requests,    *)
(* and the engine composes nothing without a context.                       *)
ArrivingInv ==
  /\ comp.active # 0 /\ wayland.context # comp.active =>
       comp.grab = 0 /\ \A n \in 1 .. Len(reqs) : reqs[n].id # comp.active
  /\ wayland.context = 0 => preedit = <<>>

(* The serials on their way are the next ones, in order, and the last of    *)
(* them is the field's.                                                     *)
Base == IF wayland.context = comp.active THEN wayland.serial ELSE 0
SerialInv ==
  comp.active # 0 =>
    /\ field.serial = Base + Len(Serials(stream, comp.active))
    /\ \A n \in 1 .. Len(Serials(stream, comp.active)) :
         Serials(stream, comp.active)[n] = Base + n

(* The inductive invariant.                                                 *)
Inv == /\ TypeInv /\ LoopInv /\ IdsInv /\ ContextsInv /\ KeyboardInv
       /\ UngrabbedInv /\ ArrivingInv /\ SerialInv /\ KeysInOrder /\ PreeditShown

-----------------------------------------------------------------------------
(* Texts, Drawn and Serials by functions of one request or event.           *)
TextOf(id) == [r \in Requests |-> IF r.id = id /\ r.op \in {"commit_string", "key"} THEN r.text ELSE <<>>]
DrawnBy(id) == [r \in Requests |-> IF r.id # id THEN <<>>
                                   ELSE IF r.op = "commit_string" THEN << <<>> >>
                                   ELSE IF r.op = "preedit_string" THEN <<r.text>> ELSE <<>>]
SerialOf(id) == [e \in Events |-> IF e.op = "commit_state" /\ e.id = id THEN <<e.serial>> ELSE <<>>]

(* Texts is what TextOf makes of each request.                              *)
LEMMA TextsThrough ==
  ASSUME NEW s \in Seq(Requests), NEW id
  PROVE  /\ Gathers(TextOf(id), Requests, Nat \X BOOLEAN)
         /\ Texts(s, id) = Through(TextOf(id), s)
<1>1. TextOf(id) \in [Requests -> Seq(Nat \X BOOLEAN)]
  BY DEF TextOf, Requests, Text
<1>2. \A n \in DOMAIN s : s[n] \in Requests
  OBVIOUS
<1>3. [n \in DOMAIN s |-> IF s[n].id = id /\ s[n].op \in {"commit_string", "key"} THEN s[n].text ELSE <<>>]
      = [n \in DOMAIN s |-> TextOf(id)[s[n]]]
  BY <1>2 DEF TextOf
<1> QED BY <1>1, <1>3, Zenon DEF Gathers, Texts, Gathered, Through

(* Drawn is what DrawnBy makes of each request.                             *)
LEMMA DrawnThrough ==
  ASSUME NEW s \in Seq(Requests), NEW id
  PROVE  /\ Gathers(DrawnBy(id), Requests, Text)
         /\ Drawn(s, id) = Through(DrawnBy(id), s)
<1>1. DrawnBy(id) \in [Requests -> Seq(Text)]
  <2>1. \A r \in Requests : <<r.text>> \in Seq(Text) /\ << <<>> >> \in Seq(Text) /\ <<>> \in Seq(Text)
    BY DEF Requests, Text
  <2> QED BY <2>1 DEF DrawnBy
<1>2. \A n \in DOMAIN s : s[n] \in Requests
  OBVIOUS
<1>3. [n \in DOMAIN s |-> IF s[n].id # id THEN <<>>
                          ELSE IF s[n].op = "commit_string" THEN << <<>> >>
                          ELSE IF s[n].op = "preedit_string" THEN <<s[n].text>> ELSE <<>>]
      = [n \in DOMAIN s |-> DrawnBy(id)[s[n]]]
  BY <1>2 DEF DrawnBy
<1> QED BY <1>1, <1>3, Zenon DEF Gathers, Drawn, Gathered, Through

(* Serials is what SerialOf makes of each event.                            *)
LEMMA SerialsThrough ==
  ASSUME NEW s \in Seq(Events), NEW id
  PROVE  /\ Gathers(SerialOf(id), Events, Nat)
         /\ Serials(s, id) = Through(SerialOf(id), s)
<1>1. SerialOf(id) \in [Events -> Seq(Nat)]
  BY DEF SerialOf, Events
<1>2. \A n \in DOMAIN s : s[n] \in Events
  OBVIOUS
<1>3. [n \in DOMAIN s |-> IF s[n].op = "commit_state" /\ s[n].id = id THEN <<s[n].serial>> ELSE <<>>]
      = [n \in DOMAIN s |-> SerialOf(id)[s[n]]]
  BY <1>2 DEF SerialOf
<1> QED BY <1>1, <1>3, Zenon DEF Gathers, Serials, Gathered, Through

(* The text that requests bring to a field: of two queues, of one request,  *)
(* and of requests that bring none.                                         *)
LEMMA TextsFacts ==
  ASSUME NEW id
  PROVE  /\ \A s \in Seq(Requests) : Texts(s, id) \in Text
         /\ \A s, t \in Seq(Requests) : Texts(s \o t, id) = Texts(s, id) \o Texts(t, id)
         /\ \A r \in Requests :
              Texts(<<r>>, id) = IF r.id = id /\ r.op \in {"commit_string", "key"} THEN r.text ELSE <<>>
         /\ \A s \in Seq(Requests) :
              (\A n \in DOMAIN s : s[n].id = id => s[n].op \notin {"commit_string", "key"})
                => Texts(s, id) = <<>>
<1>1. Gathers(TextOf(id), Requests, Nat \X BOOLEAN) /\ \A s \in Seq(Requests) : Texts(s, id) = Through(TextOf(id), s)
  <2>1. <<>> \in Seq(Requests)
    OBVIOUS
  <2> QED BY <2>1, TextsThrough
<1>2. \A s, t \in Seq(Requests) : Texts(s \o t, id) = Texts(s, id) \o Texts(t, id)
  <2>1. \A s, t \in Seq(Requests) : s \o t \in Seq(Requests)
    OBVIOUS
  <2>2. \A s, t \in Seq(Requests) : Through(TextOf(id), s \o t) = Through(TextOf(id), s) \o Through(TextOf(id), t)
    BY <1>1, ThroughFacts
  <2> QED BY <1>1, <2>1, <2>2, Zenon
<1>3. \A x \in Requests : Texts(<<x>>, id) = TextOf(id)[x]
  <2>1. \A x \in Requests : <<x>> \in Seq(Requests)
    OBVIOUS
  <2> QED BY <1>1, <2>1, ThroughFacts
<1>4. ASSUME NEW s \in Seq(Requests), \A n \in DOMAIN s : s[n].id = id => s[n].op \notin {"commit_string", "key"}
      PROVE  Texts(s, id) = <<>>
  <2>1. \A n \in DOMAIN s : TextOf(id)[s[n]] = <<>>
    <3>1. \A n \in DOMAIN s : s[n] \in Requests
      OBVIOUS
    <3> QED BY <3>1, <1>4 DEF TextOf
  <2> QED BY <2>1, <1>1, ThroughFacts
<1>5. \A s \in Seq(Requests) : Texts(s, id) \in Seq(Nat \X BOOLEAN)
  BY <1>1, ThroughFacts
<1> QED BY <1>2, <1>3, <1>4, <1>5 DEF TextOf, Text

(* What requests make a field draw: of two queues, of one request, and of   *)
(* requests that draw nothing.                                              *)
LEMMA DrawnFacts ==
  ASSUME NEW id
  PROVE  /\ \A s \in Seq(Requests) : Drawn(s, id) \in Seq(Text)
         /\ \A s, t \in Seq(Requests) : Drawn(s \o t, id) = Drawn(s, id) \o Drawn(t, id)
         /\ \A r \in Requests :
              Drawn(<<r>>, id) = IF r.id # id THEN <<>>
                                 ELSE IF r.op = "commit_string" THEN << <<>> >>
                                 ELSE IF r.op = "preedit_string" THEN <<r.text>> ELSE <<>>
         /\ \A s \in Seq(Requests) :
              (\A n \in DOMAIN s : s[n].id = id => s[n].op \notin {"commit_string", "preedit_string"})
                => Drawn(s, id) = <<>>
<1>1. Gathers(DrawnBy(id), Requests, Text) /\ \A s \in Seq(Requests) : Drawn(s, id) = Through(DrawnBy(id), s)
  <2>1. <<>> \in Seq(Requests)
    OBVIOUS
  <2> QED BY <2>1, DrawnThrough
<1>2. \A s, t \in Seq(Requests) : Drawn(s \o t, id) = Drawn(s, id) \o Drawn(t, id)
  <2>1. \A s, t \in Seq(Requests) : s \o t \in Seq(Requests)
    OBVIOUS
  <2>2. \A s, t \in Seq(Requests) : Through(DrawnBy(id), s \o t) = Through(DrawnBy(id), s) \o Through(DrawnBy(id), t)
    BY <1>1, ThroughFacts
  <2> QED BY <1>1, <2>1, <2>2, Zenon
<1>3. \A x \in Requests : Drawn(<<x>>, id) = DrawnBy(id)[x]
  <2>1. \A x \in Requests : <<x>> \in Seq(Requests)
    OBVIOUS
  <2> QED BY <1>1, <2>1, ThroughFacts
<1>4. ASSUME NEW s \in Seq(Requests), \A n \in DOMAIN s : s[n].id = id => s[n].op \notin {"commit_string", "preedit_string"}
      PROVE  Drawn(s, id) = <<>>
  <2>1. \A n \in DOMAIN s : DrawnBy(id)[s[n]] = <<>>
    <3>1. \A n \in DOMAIN s : s[n] \in Requests
      OBVIOUS
    <3> QED BY <3>1, <1>4 DEF DrawnBy
  <2> QED BY <2>1, <1>1, ThroughFacts
<1>5. \A s \in Seq(Requests) : Drawn(s, id) \in Seq(Text)
  BY <1>1, ThroughFacts
<1> QED BY <1>2, <1>3, <1>4, <1>5 DEF DrawnBy, Text

(* The serials of a context: of two queues, of one event, and of events of  *)
(* other contexts.                                                          *)
LEMMA SerialsFacts ==
  ASSUME NEW id
  PROVE  /\ \A s \in Seq(Events) : Serials(s, id) \in Seq(Nat)
         /\ \A s, t \in Seq(Events) : Serials(s \o t, id) = Serials(s, id) \o Serials(t, id)
         /\ \A e \in Events :
              Serials(<<e>>, id) = IF e.op = "commit_state" /\ e.id = id THEN <<e.serial>> ELSE <<>>
         /\ \A s \in Seq(Events) : (\A n \in DOMAIN s : s[n].id # id) => Serials(s, id) = <<>>
<1>1. Gathers(SerialOf(id), Events, Nat) /\ \A s \in Seq(Events) : Serials(s, id) = Through(SerialOf(id), s)
  <2>1. <<>> \in Seq(Events)
    OBVIOUS
  <2> QED BY <2>1, SerialsThrough
<1>2. \A s, t \in Seq(Events) : Serials(s \o t, id) = Serials(s, id) \o Serials(t, id)
  <2>1. \A s, t \in Seq(Events) : s \o t \in Seq(Events)
    OBVIOUS
  <2>2. \A s, t \in Seq(Events) : Through(SerialOf(id), s \o t) = Through(SerialOf(id), s) \o Through(SerialOf(id), t)
    BY <1>1, ThroughFacts
  <2> QED BY <1>1, <2>1, <2>2, Zenon
<1>3. \A x \in Events : Serials(<<x>>, id) = SerialOf(id)[x]
  <2>1. \A x \in Events : <<x>> \in Seq(Events)
    OBVIOUS
  <2> QED BY <1>1, <2>1, ThroughFacts
<1>4. ASSUME NEW s \in Seq(Events), \A n \in DOMAIN s : s[n].id # id
      PROVE  Serials(s, id) = <<>>
  <2>1. \A n \in DOMAIN s : SerialOf(id)[s[n]] = <<>>
    <3>1. \A n \in DOMAIN s : s[n] \in Events
      OBVIOUS
    <3> QED BY <3>1, <1>4 DEF SerialOf
  <2> QED BY <2>1, <1>1, ThroughFacts
<1>5. \A s \in Seq(Events) : Serials(s, id) \in Seq(Nat)
  BY <1>1, ThroughFacts
<1> QED BY <1>2, <1>3, <1>4, <1>5 DEF SerialOf, Text

-----------------------------------------------------------------------------
(* What an event of the keyboard does to Shift.                             *)
Shifts(e) == e.op = "modifiers"
Next1(e, shift) == IF Shifts(e) THEN e.shift ELSE shift

(* Shift before the n-th event is as the last event that changed it left    *)
(* it.                                                                      *)
LEMMA ShiftIs ==
  ASSUME NEW s, NEW shift, NEW n \in Nat
  PROVE  /\ (\A m \in 1 .. n - 1 : ~ Shifts(s[m])) => ShiftAt(s, n, shift) = shift
         /\ \A m \in 1 .. n - 1 :
              Shifts(s[m]) /\ (\A k \in m + 1 .. n - 1 : ~ Shifts(s[k])) => ShiftAt(s, n, shift) = s[m].shift
<1>1. ASSUME \A m \in 1 .. n - 1 : ~ Shifts(s[m])
      PROVE  ShiftAt(s, n, shift) = shift
  <2>1. {m \in 1 .. n - 1 : s[m].op = "modifiers"} = {}
    BY <1>1 DEF Shifts
  <2> QED BY <2>1 DEF ShiftAt
<1>2. ASSUME NEW m \in 1 .. n - 1, Shifts(s[m]), \A k \in m + 1 .. n - 1 : ~ Shifts(s[k])
      PROVE  ShiftAt(s, n, shift) = s[m].shift
  <2> DEFINE S == {k \in 1 .. n - 1 : s[k].op = "modifiers"}
  <2>1. S \in SUBSET Nat /\ m \in S
    BY <1>2 DEF Shifts
  <2>2. \A k \in S : k <= m
    BY <1>2 DEF Shifts
  <2>3. Max(S) = m
    <3> HIDE DEF S
    <3> QED BY <2>1, <2>2, MaxIs
  <2>4. S # {} /\ ShiftAt(s, n, shift) = IF S = {} THEN shift ELSE s[Max(S)].shift
    BY <2>1, Zenon DEF ShiftAt
  <2> HIDE DEF S
  <2> QED BY <2>3, <2>4
<1> QED BY <1>1, <1>2

(* No event before the n-th changes Shift, or there is a last that does.    *)
LEMMA ShiftCases ==
  ASSUME NEW s, NEW n \in Nat
  PROVE  \/ \A m \in 1 .. n - 1 : ~ Shifts(s[m])
         \/ \E m \in 1 .. n - 1 : Shifts(s[m]) /\ \A k \in m + 1 .. n - 1 : ~ Shifts(s[k])
<1> DEFINE S == {k \in 1 .. n - 1 : Shifts(s[k])}
<1> SUFFICES ASSUME S # {}
             PROVE  \E m \in 1 .. n - 1 : Shifts(s[m]) /\ \A k \in m + 1 .. n - 1 : ~ Shifts(s[k])
  OBVIOUS
<1>1. S \in SUBSET Nat /\ \A x \in S : x <= n
  OBVIOUS
<1>2. Max(S) \in S /\ \A x \in S : x <= Max(S)
  <2> HIDE DEF S
  <2> QED BY <1>1, MaxFacts
<1>3. PICK m \in S : \A x \in S : x <= m
  BY <1>2, Zenon
<1> QED BY <1>3

(* Handling the first event leaves Shift what it will be at each of the     *)
(* others.                                                                  *)
LEMMA ShiftAfterHead ==
  ASSUME NEW s \in Seq(Events), NEW e \in Events, NEW shift \in BOOLEAN, NEW n \in 1 .. Len(s) + 1
  PROVE  ShiftAt(<<e>> \o s, n + 1, shift) = ShiftAt(s, n, Next1(e, shift))
<1> DEFINE t == <<e>> \o s
<1>1. t[1] = e /\ \A m \in 1 .. n - 1 : t[m + 1] = s[m]
  OBVIOUS
<1> HIDE DEF t
<1>2. n \in Nat /\ n + 1 \in Nat /\ n + 1 - 1 = n
  OBVIOUS
<1>3. CASE \A m \in 1 .. n - 1 : ~ Shifts(s[m])
  <2>1. ShiftAt(s, n, Next1(e, shift)) = Next1(e, shift)
    BY <1>3, ShiftIs
  <2>2. \A k \in 2 .. n : ~ Shifts(t[k])
    <3> TAKE k \in 2 .. n
    <3>1. k - 1 \in 1 .. n - 1 /\ t[(k - 1) + 1] = s[k - 1] /\ (k - 1) + 1 = k
      BY <1>1
    <3> QED BY <3>1, <1>3
  <2>3. ShiftAt(t, n + 1, shift) = Next1(e, shift)
    <3>1. CASE Shifts(e)
      <4>1. 1 \in 1 .. n + 1 - 1 /\ Shifts(t[1]) /\ \A k \in 1 + 1 .. n + 1 - 1 : ~ Shifts(t[k])
        BY <1>1, <2>2, <3>1
      <4>2. ShiftAt(t, n + 1, shift) = t[1].shift
        BY <4>1, <1>2, ShiftIs
      <4> QED BY <4>2, <1>1, <3>1 DEF Next1
    <3>2. CASE ~ Shifts(e)
      <4>1. \A k \in 1 .. n + 1 - 1 : ~ Shifts(t[k])
        BY <1>1, <2>2, <3>2
      <4>2. ShiftAt(t, n + 1, shift) = shift
        BY <4>1, <1>2, ShiftIs
      <4> QED BY <4>2, <3>2 DEF Next1
    <3> QED BY <3>1, <3>2
  <2> QED BY <2>1, <2>3 DEF t
<1>4. ASSUME NEW m \in 1 .. n - 1, Shifts(s[m]), \A k \in m + 1 .. n - 1 : ~ Shifts(s[k])
      PROVE  ShiftAt(t, n + 1, shift) = ShiftAt(s, n, Next1(e, shift))
  <2>1. ShiftAt(s, n, Next1(e, shift)) = s[m].shift
    BY <1>4, ShiftIs
  <2>2. m + 1 \in 1 .. n + 1 - 1 /\ t[m + 1] = s[m]
    BY <1>1
  <2>3. \A k \in m + 1 + 1 .. n + 1 - 1 : ~ Shifts(t[k])
    <3> TAKE k \in m + 1 + 1 .. n + 1 - 1
    <3>1. k - 1 \in m + 1 .. n - 1 /\ k - 1 \in 1 .. n - 1 /\ t[(k - 1) + 1] = s[k - 1] /\ (k - 1) + 1 = k
      BY <1>1
    <3> QED BY <3>1, <1>4
  <2>4. ShiftAt(t, n + 1, shift) = t[m + 1].shift
    BY <2>2, <2>3, <1>2, <1>4, ShiftIs
  <2> QED BY <2>1, <2>2, <2>4
<1> QED BY <1>2, <1>3, <1>4, ShiftCases DEF t

(* Shift at the n-th event depends on the ones before it only.              *)
LEMMA ShiftBefore ==
  ASSUME NEW s, NEW t, NEW shift, NEW n \in Nat, \A m \in 1 .. n - 1 : s[m] = t[m]
  PROVE  ShiftAt(s, n, shift) = ShiftAt(t, n, shift)
<1>1. CASE \A m \in 1 .. n - 1 : ~ Shifts(s[m])
  <2>1. \A m \in 1 .. n - 1 : ~ Shifts(t[m])
    BY <1>1
  <2> QED BY <1>1, <2>1, ShiftIs
<1>2. ASSUME NEW m \in 1 .. n - 1, Shifts(s[m]), \A k \in m + 1 .. n - 1 : ~ Shifts(s[k])
      PROVE  ShiftAt(s, n, shift) = ShiftAt(t, n, shift)
  <2>1. Shifts(t[m]) /\ \A k \in m + 1 .. n - 1 : ~ Shifts(t[k])
    BY <1>2
  <2>2. ShiftAt(t, n, shift) = t[m].shift
    BY <2>1, ShiftIs
  <2>3. ShiftAt(s, n, shift) = s[m].shift
    BY <1>2, ShiftIs
  <2> QED BY <2>2, <2>3
<1> QED BY <1>1, <1>2, ShiftCases

(* An event at the end changes Shift for what comes after it only.          *)
LEMMA ShiftAfterLast ==
  ASSUME NEW s \in Seq(Events), NEW e \in Events, NEW shift
  PROVE  /\ \A n \in 1 .. Len(s) + 1 : ShiftAt(s \o <<e>>, n, shift) = ShiftAt(s, n, shift)
         /\ ShiftAt(s \o <<e>>, Len(s) + 2, shift) = Next1(e, ShiftAt(s, Len(s) + 1, shift))
<1> DEFINE t == s \o <<e>>
           l == Len(s)
<1>1. l \in Nat /\ t[l + 1] = e /\ \A m \in 1 .. l : t[m] = s[m]
  OBVIOUS
<1> HIDE DEF t, l
<1>2. \A n \in 1 .. l + 1 : ShiftAt(t, n, shift) = ShiftAt(s, n, shift)
  <2> TAKE n \in 1 .. l + 1
  <2>1. n \in Nat /\ \A m \in 1 .. n - 1 : t[m] = s[m]
    BY <1>1
  <2> QED BY <2>1, ShiftBefore
<1>3. ASSUME NEW p \in Nat, NEW q \in Nat, p = l + 1, q = p + 1
      PROVE  ShiftAt(t, q, shift) = Next1(e, ShiftAt(s, p, shift))
  <2>0. q - 1 = p /\ t[p] = e /\ \A m \in 1 .. p - 1 : t[m] = s[m]
    BY <1>1, <1>3
  <2>1. CASE Shifts(e)
    <3>1. p \in 1 .. q - 1 /\ Shifts(t[p]) /\ \A k \in p + 1 .. q - 1 : ~ Shifts(t[k])
      BY <1>1, <1>3, <2>0, <2>1
    <3>2. ShiftAt(t, q, shift) = t[p].shift
      BY <3>1, ShiftIs
    <3> QED BY <3>2, <2>0, <2>1 DEF Next1
  <2>2. CASE ~ Shifts(e)
    <3>1. CASE \A m \in 1 .. p - 1 : ~ Shifts(s[m])
      <4>1. \A m \in 1 .. q - 1 : ~ Shifts(t[m])
        BY <2>0, <2>2, <3>1
      <4>2. ShiftAt(t, q, shift) = shift
        BY <4>1, ShiftIs
      <4>3. ShiftAt(s, p, shift) = shift
        BY <3>1, ShiftIs
      <4> QED BY <4>2, <4>3, <2>2 DEF Next1
    <3>2. ASSUME NEW m \in 1 .. p - 1, Shifts(s[m]), \A k \in m + 1 .. p - 1 : ~ Shifts(s[k])
          PROVE  ShiftAt(t, q, shift) = Next1(e, ShiftAt(s, p, shift))
      <4>1. m \in 1 .. q - 1 /\ t[m] = s[m] /\ \A k \in m + 1 .. q - 1 : ~ Shifts(t[k])
        BY <2>0, <2>2, <3>2
      <4>2. ShiftAt(t, q, shift) = t[m].shift
        BY <4>1, <3>2, ShiftIs
      <4>3. ShiftAt(s, p, shift) = s[m].shift
        BY <3>2, ShiftIs
      <4> QED BY <4>1, <4>2, <4>3, <2>2 DEF Next1
    <3> QED BY <3>1, <3>2, ShiftCases
  <2> QED BY <2>1, <2>2
<1>4. ShiftAt(t, l + 2, shift) = Next1(e, ShiftAt(s, l + 1, shift))
  <2>1. l + 1 \in Nat /\ l + 2 \in Nat /\ l + 2 = l + 1 + 1
    BY <1>1
  <2> QED BY <2>1, <1>3, Zenon
<1> QED BY <1>2, <1>4 DEF t, l

(* What KeysIn makes of one event.                                          *)
KeyOfEvent(e, id, shift) == IF e.op = "key" /\ e.id = id THEN << <<e.key, shift>> >> ELSE <<>>

(* Shift is pressed or not.                                                 *)
LEMMA ShiftType ==
  ASSUME NEW s \in Seq(Events), NEW shift \in BOOLEAN, NEW n \in 1 .. Len(s) + 1
  PROVE  ShiftAt(s, n, shift) \in BOOLEAN
<1>1. n \in Nat /\ \A m \in 1 .. n - 1 : s[m] \in Events
  OBVIOUS
<1>2. ASSUME NEW m \in 1 .. n - 1, Shifts(s[m]), \A k \in m + 1 .. n - 1 : ~ Shifts(s[k])
      PROVE  ShiftAt(s, n, shift) \in BOOLEAN
  <2>1. ShiftAt(s, n, shift) = s[m].shift
    BY <1>1, <1>2, ShiftIs
  <2> QED BY <2>1, <1>1 DEF Events
<1>3. CASE \A m \in 1 .. n - 1 : ~ Shifts(s[m])
  BY <1>1, <1>3, ShiftIs
<1> QED BY <1>1, <1>2, <1>3, ShiftCases

(* KeysIn before it is flattened.                                           *)
KeySeq(s, id, shift) == [n \in DOMAIN s |-> KeyOfEvent(s[n], id, ShiftAt(s, n, shift))]

(* KeysIn is KeySeq flattened.                                              *)
LEMMA KeySeqIs ==
  ASSUME NEW s \in Seq(Events), NEW id, NEW shift \in BOOLEAN
  PROVE  /\ KeysIn(s, id, shift) = FlattenSeq(KeySeq(s, id, shift))
         /\ KeySeq(s, id, shift) \in Seq(Text)
         /\ Len(KeySeq(s, id, shift)) = Len(s)
         /\ \A n \in 1 .. Len(s) : KeySeq(s, id, shift)[n] = KeyOfEvent(s[n], id, ShiftAt(s, n, shift))
<1>1. DOMAIN s = 1 .. Len(s) /\ Len(s) \in Nat
  OBVIOUS
<1>2. \A n \in 1 .. Len(s) : KeyOfEvent(s[n], id, ShiftAt(s, n, shift)) \in Text
  <2> TAKE n \in 1 .. Len(s)
  <2>1. s[n] \in Events /\ ShiftAt(s, n, shift) \in BOOLEAN
    BY ShiftType
  <2>2. <<s[n].key, ShiftAt(s, n, shift)>> \in Nat \X BOOLEAN
    BY <2>1 DEF Events
  <2>3. << <<s[n].key, ShiftAt(s, n, shift)>> >> \in Text /\ <<>> \in Text
    BY <2>2 DEF Text
  <2> QED BY <2>3 DEF KeyOfEvent
<1>3. KeysIn(s, id, shift) = FlattenSeq(KeySeq(s, id, shift))
  BY Zenon DEF KeysIn, KeySeq, KeyOfEvent
<1> QED BY <1>1, <1>2, <1>3 DEF KeySeq

(* No keys of a context, no text from it.                                   *)
LEMMA KeysNone ==
  ASSUME NEW s \in Seq(Events), NEW id, NEW shift \in BOOLEAN,
         \A n \in 1 .. Len(s) : ~ (s[n].op = "key" /\ s[n].id = id)
  PROVE  KeysIn(s, id, shift) = <<>>
<1>1. PICK x : x = KeySeq(s, id, shift)
  OBVIOUS
<1>2. /\ KeysIn(s, id, shift) = FlattenSeq(x) /\ x \in Seq(Seq(Nat \X BOOLEAN)) /\ Len(x) = Len(s)
      /\ \A n \in 1 .. Len(s) : x[n] = KeyOfEvent(s[n], id, ShiftAt(s, n, shift))
  BY <1>1, KeySeqIs DEF Text
<1>3. \A n \in 1 .. Len(x) : x[n] = <<>>
  BY <1>2 DEF KeyOfEvent
<1> QED BY <1>2, <1>3, FlattenNothing

(* The keys on their way are a text.                                        *)
LEMMA KeysType ==
  ASSUME NEW s \in Seq(Events), NEW id, NEW shift \in BOOLEAN
  PROVE  KeysIn(s, id, shift) \in Text
<1>1. KeySeq(s, id, shift) \in Seq(Seq(Nat \X BOOLEAN))
  BY KeySeqIs DEF Text
<1> QED BY <1>1, KeySeqIs, FlattenType DEF Text

(* The key of the first event, and those of the rest with Shift as that     *)
(* event leaves it.                                                         *)
LEMMA KeysAfterHead ==
  ASSUME NEW s \in Seq(Events), NEW e \in Events, NEW id, NEW shift \in BOOLEAN
  PROVE  KeysIn(<<e>> \o s, id, shift) = KeyOfEvent(e, id, shift) \o KeysIn(s, id, Next1(e, shift))
<1>0. PICK t \in Seq(Events), next \in BOOLEAN : t = <<e>> \o s /\ next = Next1(e, shift)
  <2>1. <<e>> \o s \in Seq(Events) /\ Next1(e, shift) \in BOOLEAN
    BY DEF Next1, Events
  <2> QED BY <2>1, Zenon
<1>1. PICK x, y, k : /\ t = <<e>> \o s /\ next = Next1(e, shift)
                     /\ x = KeySeq(t, id, shift)
                     /\ y = KeySeq(s, id, next)
                     /\ k = KeyOfEvent(e, id, shift)
  BY <1>0, Zenon
<1>2. /\ Len(t) = Len(s) + 1 /\ t[1] = e
      /\ \A n \in 1 .. Len(s) : t[n + 1] = s[n]
  BY <1>1
<1>3. /\ x \in Seq(Text) /\ Len(x) = Len(t)
      /\ \A n \in 1 .. Len(t) : x[n] = KeyOfEvent(t[n], id, ShiftAt(t, n, shift))
      /\ y \in Seq(Text) /\ Len(y) = Len(s)
      /\ \A n \in 1 .. Len(s) : y[n] = KeyOfEvent(s[n], id, ShiftAt(s, n, next))
  BY <1>1, KeySeqIs
<1>4. x[1] = k /\ <<k>> \in Seq(Text)
  <2>1. ShiftAt(t, 1, shift) = shift
    BY ShiftIs
  <2>2. x[1] = k
    BY <1>1, <1>2, <1>3, <2>1
  <2>3. 1 \in 1 .. Len(x)
    BY <1>2, <1>3
  <2> QED BY <2>2, <2>3, <1>3
<1>5. \A n \in 1 .. Len(y) : x[1 + n] = y[n]
  <2> TAKE n \in 1 .. Len(y)
  <2>1. n \in 1 .. Len(s) /\ n \in 1 .. Len(s) + 1 /\ 1 + n \in 1 .. Len(t) /\ 1 + n = n + 1 /\ t[n + 1] = s[n]
    BY <1>2, <1>3
  <2>2. ShiftAt(t, n + 1, shift) = ShiftAt(s, n, next)
    BY <1>1, <2>1, ShiftAfterHead, Zenon
  <2> QED BY <2>1, <2>2, <1>3
<1>6. x = <<k>> \o y
  <2>1. Len(x) = Len(<<k>>) + Len(y) /\ \A n \in 1 .. Len(<<k>>) : x[n] = <<k>>[n]
    BY <1>2, <1>3, <1>4
  <2>2. \A n \in 1 .. Len(y) : x[Len(<<k>>) + n] = y[n]
    BY <1>5
  <2> QED BY <1>3, <1>4, <2>1, <2>2, ConcatIs
<1>7. FlattenSeq(x) = FlattenSeq(<<k>>) \o FlattenSeq(y) /\ FlattenSeq(<<k>>) = k
  <2>1. x \in Seq(Seq(Nat \X BOOLEAN)) /\ y \in Seq(Seq(Nat \X BOOLEAN)) /\ <<k>> \in Seq(Seq(Nat \X BOOLEAN))
    BY <1>3, <1>4 DEF Text
  <2>2. k \in Seq(Nat \X BOOLEAN)
    BY <2>1
  <2> DEFINE T == Nat \X BOOLEAN
  <2>3. PICK kk : kk = <<k>>
    OBVIOUS
  <2>4. y \in Seq(Seq(T)) /\ kk \in Seq(Seq(T)) /\ k \in Seq(T)
    BY <2>1, <2>2, <2>3
  <2> HIDE DEF T
  <2>5. FlattenSeq(kk \o y) = FlattenSeq(kk) \o FlattenSeq(y)
    BY <2>4, FlattenConcat, Zenon
  <2>6. FlattenSeq(kk) = k
    BY <2>3, <2>4, FlattenSingle, Zenon
  <2> QED BY <2>3, <2>5, <2>6, <1>6
<1>8. KeysIn(t, id, shift) = FlattenSeq(x) /\ KeysIn(s, id, next) = FlattenSeq(y)
  BY <1>1, KeySeqIs
<1> QED BY <1>1, <1>7, <1>8

(* A key event at the end adds its key, as Shift will be by then.           *)
LEMMA KeysAfterLast ==
  ASSUME NEW s \in Seq(Events), NEW e \in Events, NEW id, NEW shift \in BOOLEAN
  PROVE  KeysIn(s \o <<e>>, id, shift)
         = KeysIn(s, id, shift) \o KeyOfEvent(e, id, ShiftAt(s, Len(s) + 1, shift))
<1>0. PICK t \in Seq(Events) : t = s \o <<e>>
  <2>1. s \o <<e>> \in Seq(Events)
    OBVIOUS
  <2> QED BY <2>1, Zenon
<1>1. PICK x, y, k : /\ t = s \o <<e>>
                     /\ x = KeySeq(t, id, shift)
                     /\ y = KeySeq(s, id, shift)
                     /\ k = KeyOfEvent(e, id, ShiftAt(s, Len(s) + 1, shift))
  BY <1>0, Zenon
<1>2. /\ Len(t) = Len(s) + 1 /\ t[Len(s) + 1] = e
      /\ \A n \in 1 .. Len(s) : t[n] = s[n]
  BY <1>1
<1>3. /\ x \in Seq(Text) /\ Len(x) = Len(t)
      /\ \A n \in 1 .. Len(t) : x[n] = KeyOfEvent(t[n], id, ShiftAt(t, n, shift))
      /\ y \in Seq(Text) /\ Len(y) = Len(s)
      /\ \A n \in 1 .. Len(s) : y[n] = KeyOfEvent(s[n], id, ShiftAt(s, n, shift))
  BY <1>1, KeySeqIs
<1>4. \A n \in 1 .. Len(s) + 1 : ShiftAt(t, n, shift) = ShiftAt(s, n, shift)
  BY <1>1, ShiftAfterLast, Zenon
<1>5. x[Len(y) + 1] = k /\ <<k>> \in Seq(Text)
  <2>1. Len(s) + 1 \in 1 .. Len(s) + 1 /\ Len(s) + 1 \in 1 .. Len(t)
    BY <1>2
  <2>2. x[Len(s) + 1] = k
    BY <1>1, <1>2, <1>3, <1>4, <2>1
  <2> QED BY <2>1, <2>2, <1>3
<1>6. \A n \in 1 .. Len(y) : x[n] = y[n]
  <2> TAKE n \in 1 .. Len(y)
  <2>1. n \in 1 .. Len(s) /\ n \in 1 .. Len(s) + 1 /\ n \in 1 .. Len(t)
    BY <1>2, <1>3
  <2> QED BY <2>1, <1>2, <1>3, <1>4
<1>7. x = y \o <<k>>
  <2>1. Len(x) = Len(y) + Len(<<k>>)
    BY <1>2, <1>3
  <2>2. \A n \in 1 .. Len(<<k>>) : x[Len(y) + n] = <<k>>[n]
    BY <1>5
  <2> QED BY <1>3, <1>5, <1>6, <2>1, <2>2, ConcatIs
<1>8. FlattenSeq(x) = FlattenSeq(y) \o FlattenSeq(<<k>>) /\ FlattenSeq(<<k>>) = k
  <2>1. x \in Seq(Seq(Nat \X BOOLEAN)) /\ y \in Seq(Seq(Nat \X BOOLEAN)) /\ <<k>> \in Seq(Seq(Nat \X BOOLEAN))
    BY <1>3, <1>5 DEF Text
  <2>2. k \in Seq(Nat \X BOOLEAN)
    BY <2>1
  <2> DEFINE T == Nat \X BOOLEAN
  <2>3. PICK kk : kk = <<k>>
    OBVIOUS
  <2>4. y \in Seq(Seq(T)) /\ kk \in Seq(Seq(T)) /\ k \in Seq(T)
    BY <2>1, <2>2, <2>3
  <2> HIDE DEF T
  <2>5. FlattenSeq(y \o kk) = FlattenSeq(y) \o FlattenSeq(kk)
    BY <2>4, FlattenConcat, Zenon
  <2>6. FlattenSeq(kk) = k
    BY <2>3, <2>4, FlattenSingle, Zenon
  <2> QED BY <2>3, <2>5, <2>6, <1>7
<1>9. KeysIn(t, id, shift) = FlattenSeq(x) /\ KeysIn(s, id, shift) = FlattenSeq(y)
  BY <1>1, KeySeqIs
<1> QED BY <1>1, <1>8, <1>9

-----------------------------------------------------------------------------
(* Handling the first event leaves the rest leading on from there.          *)
LEMMA LeadsHead ==
  ASSUME NEW s \in Seq(Events), NEW e \in Events, NEW first, NEW last, Leads(<<e>> \o s, first, last)
  PROVE  StartsAt(e, first) /\ Leads(s, After(e, first), last)
<1> DEFINE t == <<e>> \o s
<1>1. Len(t) = Len(s) + 1 /\ t[1] = e /\ \A n \in 1 .. Len(s) : t[n + 1] = s[n]
  OBVIOUS
<1> HIDE DEF t
<1>2. PICK ctx \in [1 .. Len(t) + 1 -> Nat] :
        /\ \A n \in 1 .. Len(t) : StartsAt(t[n], ctx[n]) /\ ctx[n + 1] = After(t[n], ctx[n])
        /\ ctx[1] = first /\ ctx[Len(t) + 1] = last
  BY DEF Leads, t
<1>3. StartsAt(e, first) /\ ctx[2] = After(e, first)
  <2>1. 1 \in 1 .. Len(t) /\ 1 + 1 = 2
    BY <1>1
  <2> QED BY <1>1, <1>2, <2>1
<1> DEFINE c == [n \in 1 .. Len(s) + 1 |-> ctx[n + 1]]
<1>4. c \in [1 .. Len(s) + 1 -> Nat] /\ c[1] = ctx[2] /\ c[Len(s) + 1] = last
  <2>1. \A n \in 1 .. Len(s) + 1 : n + 1 \in 1 .. Len(t) + 1
    BY <1>1
  <2>2. c \in [1 .. Len(s) + 1 -> Nat]
    BY <2>1
  <2>3. Len(s) + 1 \in 1 .. Len(s) + 1 /\ 1 \in 1 .. Len(s) + 1 /\ Len(s) + 1 + 1 = Len(t) + 1 /\ 1 + 1 = 2
    BY <1>1
  <2> QED BY <1>2, <2>2, <2>3
<1>5. ASSUME NEW n \in 1 .. Len(s) PROVE StartsAt(s[n], c[n]) /\ c[n + 1] = After(s[n], c[n])
  <2>1. n + 1 \in 1 .. Len(t) /\ n \in 1 .. Len(s) + 1 /\ n + 1 \in 1 .. Len(s) + 1 /\ t[n + 1] = s[n]
    BY <1>1
  <2>2. StartsAt(t[n + 1], ctx[n + 1]) /\ ctx[n + 1 + 1] = After(t[n + 1], ctx[n + 1])
    BY <1>2, <2>1
  <2> QED BY <2>1, <2>2
<1> HIDE DEF c
<1> QED BY <1>3, <1>4, <1>5 DEF Leads

(* An event for the context that the others lead to can come after them.    *)
LEMMA LeadsAppend ==
  ASSUME NEW s \in Seq(Events), NEW e \in Events, NEW first, NEW last \in Nat, Leads(s, first, last),
         StartsAt(e, last)
  PROVE  Leads(s \o <<e>>, first, After(e, last))
<1> DEFINE t == s \o <<e>>
<1>1. Len(t) = Len(s) + 1 /\ t[Len(s) + 1] = e /\ \A n \in 1 .. Len(s) : t[n] = s[n]
  OBVIOUS
<1> HIDE DEF t
<1>2. PICK ctx \in [1 .. Len(s) + 1 -> Nat] :
        /\ \A n \in 1 .. Len(s) : StartsAt(s[n], ctx[n]) /\ ctx[n + 1] = After(s[n], ctx[n])
        /\ ctx[1] = first /\ ctx[Len(s) + 1] = last
  BY DEF Leads
<1> DEFINE c == [n \in 1 .. Len(t) + 1 |-> IF n = Len(t) + 1 THEN After(e, last) ELSE ctx[n]]
<1>3. After(e, last) \in Nat
  BY DEF After, Events
<1>4. /\ c \in [1 .. Len(t) + 1 -> Nat] /\ c[Len(t) + 1] = After(e, last)
      /\ \A n \in 1 .. Len(s) + 1 : c[n] = ctx[n]
  BY <1>1, <1>3
<1> HIDE DEF c
<1>5. ASSUME NEW n \in 1 .. Len(t) PROVE StartsAt(t[n], c[n]) /\ c[n + 1] = After(t[n], c[n])
  <2>1. CASE n = Len(s) + 1
    <3>1. n + 1 = Len(t) + 1 /\ n \in 1 .. Len(s) + 1
      BY <1>1, <2>1
    <3>2. t[n] = e /\ c[n] = last /\ c[n + 1] = After(e, last)
      BY <1>1, <1>2, <1>4, <2>1, <3>1
    <3> QED BY <3>2
  <2>2. CASE n # Len(s) + 1
    <3>1. n \in 1 .. Len(s) /\ n \in 1 .. Len(s) + 1 /\ n + 1 \in 1 .. Len(s) + 1
      BY <1>1, <2>2
    <3> QED BY <1>1, <1>2, <1>4, <3>1
  <2> QED BY <2>1, <2>2
<1>6. c[1] = first
  BY <1>2, <1>4
<1> QED BY <1>4, <1>5, <1>6 DEF Leads, t

-----------------------------------------------------------------------------
(* The steps of the main loop: what they share, and what each moves.        *)
Loops ==
  /\ UNCHANGED <<preedit, comp, field>>
  /\ \/ phase' = phase /\ UNCHANGED <<reading, intents, wayland, queue, toIM, out, toComp>>
     \/ /\ phase = "off" /\ phase' \in {"idle", "stopped"}
        /\ wayland' = [wayland EXCEPT !.active = phase' = "idle"]
        /\ UNCHANGED <<reading, intents, queue, toIM, out, toComp>>
     \/ /\ phase = "idle" /\ UNCHANGED <<wayland, queue, toIM>>
        /\ \/ /\ \/ phase' = "poll" /\ reading
                 \/ phase' = "dispatch" /\ queue # <<>>
              /\ UNCHANGED <<reading, intents, out, toComp>>
           \/ /\ ~ reading /\ queue = <<>>
              /\ phase' = "poll" /\ reading' = TRUE /\ intents' = intents + 1 /\ out' = <<>>
              /\ toComp' = IF comp.alive THEN toComp \o out ELSE toComp
     \/ /\ phase = "poll" /\ reading /\ UNCHANGED <<wayland, out, toComp>>
        /\ reading' = FALSE /\ intents' = intents - 1
        /\ queue' = queue \o toIM /\ toIM' = <<>>
        /\ \/ phase' = "idle" /\ toIM = <<>>
           \/ phase' = "dispatch"
     \/ /\ \/ phase = "poll" /\ phase' = "idle"
           \/ phase = "dispatch" /\ queue = <<>> /\ phase' = "idle"
        /\ UNCHANGED <<reading, intents, wayland, queue, toIM, out, toComp>>
     \/ /\ phase \in {"idle", "poll"} /\ phase' = "stopped" /\ reading' = FALSE
        /\ intents' = IF reading THEN intents - 1 ELSE intents
        /\ wayland' = [wayland EXCEPT !.active = FALSE]
        /\ UNCHANGED <<queue, toIM, out, toComp>>

(* Every action of the main loop is one of Loops.                           *)
LEMMA LoopActions ==
  nimf_wayland_start \/ nimf_wayland_source_prepare \/ nimf_wayland_source_check
    \/ Skipped \/ nimf_wayland_source_dispatch \/ Stop \/ UNCHANGED vars => Loops
<1>1. CASE nimf_wayland_start
  BY <1>1, Zenon DEF nimf_wayland_start, world, Loops
<1>2. CASE nimf_wayland_source_prepare
  BY <1>2, Zenon DEF nimf_wayland_source_prepare, world, Loops
<1>3. CASE nimf_wayland_source_check
  BY <1>3, Zenon DEF nimf_wayland_source_check, nimf_wayland_stop, world, Loops
<1>4. CASE Skipped
  BY <1>4, Zenon DEF Skipped, world, Loops
<1>5. CASE nimf_wayland_source_dispatch
  BY <1>5, Zenon DEF nimf_wayland_source_dispatch, world, Loops
<1>6. CASE Stop
  BY <1>6, Zenon DEF Stop, nimf_wayland_stop, world, Loops
<1>7. CASE UNCHANGED vars
  BY <1>7, Zenon DEF vars, Loops
<1> QED BY <1>1, <1>2, <1>3, <1>4, <1>5, <1>6, <1>7

(* Whether the service is active changes nothing else of it.                *)
LEMMA WaylandActive ==
  \A b \in BOOLEAN : ServiceTypes =>
    LET w == [wayland EXCEPT !.active = b]
    IN  /\ w \in [context : Nat, serial : Nat, state : BOOLEAN, modifiers : BOOLEAN, active : BOOLEAN]
        /\ w.context = wayland.context /\ w.serial = wayland.serial /\ w.state = wayland.state
        /\ w.modifiers = wayland.modifiers /\ w.active = b
  BY DEF ServiceTypes

(* The main loop keeps the types, libwayland's intents, and the events and  *)
(* requests on their way, but for requests to a compositor that is dead.    *)
LEMMA LoopsInv ==
  TypeInv /\ LoopInv /\ Loops =>
    /\ TypeInv' /\ LoopInv'
    /\ stream' = stream /\ UNCHANGED <<preedit, comp, field>>
    /\ reqs' = reqs \/ (~ comp.alive /\ out' = <<>> /\ toComp' = toComp)
    /\ wayland'.context = wayland.context /\ wayland'.serial = wayland.serial
    /\ wayland'.state = wayland.state /\ wayland'.modifiers = wayland.modifiers
<1> SUFFICES ASSUME TypeInv, LoopInv, Loops
             PROVE  /\ TypeInv' /\ LoopInv'
                    /\ stream' = stream /\ UNCHANGED <<preedit, comp, field>>
                    /\ reqs' = reqs \/ (~ comp.alive /\ out' = <<>> /\ toComp' = toComp)
                    /\ wayland'.context = wayland.context /\ wayland'.serial = wayland.serial
                    /\ wayland'.state = wayland.state /\ wayland'.modifiers = wayland.modifiers
  OBVIOUS
<1> USE DEF TypeInv, LoopInv, TypeOK
<1>1. CompTypes' /\ FieldTypes' /\ UNCHANGED <<preedit, comp, field>>
  BY DEF Loops, CompTypes, Comps, FieldTypes
<1>2. CASE phase' = phase /\ UNCHANGED <<reading, intents, wayland, queue, toIM, out, toComp>>
  BY <1>1, <1>2 DEF LoopTypes, ServiceTypes, EventTypes, RequestTypes, stream, reqs
<1>3. CASE /\ phase = "off" /\ phase' \in {"idle", "stopped"}
           /\ wayland' = [wayland EXCEPT !.active = phase' = "idle"]
           /\ UNCHANGED <<reading, intents, queue, toIM, out, toComp>>
  <2>1. PICK b \in BOOLEAN : b = (phase' = "idle")
    OBVIOUS
  <2>2. /\ wayland' \in [context : Nat, serial : Nat, state : BOOLEAN, modifiers : BOOLEAN, active : BOOLEAN]
        /\ wayland'.context = wayland.context /\ wayland'.serial = wayland.serial
        /\ wayland'.state = wayland.state
        /\ wayland'.modifiers = wayland.modifiers /\ wayland'.active = b
    BY <2>1, <1>3, WaylandActive, Zenon
  <2> QED BY <2>1, <2>2, <1>1, <1>3 DEF LoopTypes, ServiceTypes, EventTypes, RequestTypes, stream, reqs
<1>4. CASE /\ phase = "idle" /\ UNCHANGED <<wayland, queue, toIM>>
           /\ \/ phase' = "poll" /\ reading
              \/ phase' = "dispatch" /\ queue # <<>>
           /\ UNCHANGED <<reading, intents, out, toComp>>
  BY <1>1, <1>4 DEF LoopTypes, ServiceTypes, EventTypes, RequestTypes, stream, reqs
<1>5. CASE /\ phase = "idle" /\ UNCHANGED <<wayland, queue, toIM>>
           /\ ~ reading /\ queue = <<>>
           /\ phase' = "poll" /\ reading' = TRUE /\ intents' = intents + 1 /\ out' = <<>>
           /\ toComp' = IF comp.alive THEN toComp \o out ELSE toComp
  <2>1. RequestTypes' /\ (reqs' = reqs \/ (~ comp.alive /\ out' = <<>> /\ toComp' = toComp))
    <3>1. <<>> \in Seq(Requests) /\ toComp \o out \in Seq(Requests) /\ (toComp \o out) \o <<>> = toComp \o out
      BY DEF RequestTypes
    <3> QED BY <1>5, <3>1 DEF RequestTypes, reqs
  <2>2. ServiceTypes' /\ EventTypes' /\ stream' = stream
    BY <1>1, <1>5 DEF ServiceTypes, EventTypes, stream
  <2>3. LoopTypes' /\ LoopInv'
    BY <1>1, <1>5 DEF LoopTypes
  <2>4. wayland' = wayland
    BY <1>5
  <2> QED BY <1>1, <2>1, <2>2, <2>3, <2>4
<1>6. CASE /\ phase = "poll" /\ reading /\ UNCHANGED <<wayland, out, toComp>>
           /\ reading' = FALSE /\ intents' = intents - 1
           /\ queue' = queue \o toIM /\ toIM' = <<>>
           /\ \/ phase' = "idle" /\ toIM = <<>>
              \/ phase' = "dispatch"
  <2>1. EventTypes' /\ stream' = stream /\ (toIM = <<>> => queue' = queue)
    <3>1. <<>> \in Seq(Events) /\ queue \o toIM \in Seq(Events) /\ (queue \o toIM) \o <<>> = queue \o toIM
          /\ queue \o <<>> = queue
      BY DEF EventTypes
    <3> QED BY <1>6, <3>1 DEF EventTypes, stream
  <2>2. ServiceTypes' /\ RequestTypes' /\ reqs' = reqs
    BY <1>1, <1>6 DEF ServiceTypes, RequestTypes, reqs
  <2>0. intents' = 0
    BY <1>6 DEF LoopTypes
  <2>3. LoopTypes' /\ LoopInv'
    <3>1. wayland'.active /\ wayland'.context \in 0 .. comp'.last
      BY <1>1, <1>6
    <3>2. phase' \in {"idle", "dispatch"} /\ (phase' = "idle" => queue' = <<>>)
      BY <1>6, <2>1
    <3>3. reading' = FALSE
      BY <1>6
    <3> QED BY <2>0, <3>1, <3>2, <3>3 DEF LoopTypes
  <2>4. wayland' = wayland
    BY <1>6
  <2> QED BY <1>1, <2>1, <2>2, <2>3, <2>4
<1>7. CASE /\ \/ phase = "poll" /\ phase' = "idle"
              \/ phase = "dispatch" /\ queue = <<>> /\ phase' = "idle"
           /\ UNCHANGED <<reading, intents, wayland, queue, toIM, out, toComp>>
  BY <1>1, <1>7 DEF LoopTypes, ServiceTypes, EventTypes, RequestTypes, stream, reqs
<1>8. CASE /\ phase \in {"idle", "poll"} /\ phase' = "stopped" /\ reading' = FALSE
           /\ intents' = IF reading THEN intents - 1 ELSE intents
           /\ wayland' = [wayland EXCEPT !.active = FALSE]
           /\ UNCHANGED <<queue, toIM, out, toComp>>
  <2>2. /\ wayland' \in [context : Nat, serial : Nat, state : BOOLEAN, modifiers : BOOLEAN, active : BOOLEAN]
        /\ wayland'.context = wayland.context /\ wayland'.serial = wayland.serial
        /\ wayland'.state = wayland.state
        /\ wayland'.modifiers = wayland.modifiers /\ wayland'.active = FALSE
    BY <1>8 DEF ServiceTypes
  <2>1. intents' = 0
    BY <1>8 DEF LoopTypes
  <2>3. LoopTypes' /\ LoopInv'
    <3>1. wayland'.active = FALSE /\ wayland'.context \in 0 .. comp'.last
      BY <1>1, <2>2
    <3>2. phase' = "stopped" /\ reading' = FALSE
      BY <1>8
    <3> QED BY <2>1, <3>1, <3>2 DEF LoopTypes
  <2> HIDE DEF LoopInv
  <2> QED BY <2>2, <2>3, <1>1, <1>8 DEF ServiceTypes, EventTypes, RequestTypes, stream, reqs
<1> QED BY <1>2, <1>3, <1>4, <1>5, <1>6, <1>7, <1>8, Zenon DEF Loops

-----------------------------------------------------------------------------
(* A sequence by its head: where the elements of the tail are.              *)
LEMMA HeadElements ==
  \A T : \A t \in Seq(T), e \in T :
    LET s == <<e>> \o t
    IN  /\ s \in Seq(T) /\ Len(s) = Len(t) + 1 /\ s[1] = e
        /\ \A n \in 1 .. Len(t) : n + 1 \in 1 .. Len(s) /\ s[n + 1] = t[n]
  OBVIOUS

(* An element of two sequences joined is an element of one.                 *)
LEMMA ConcatElements ==
  \A T : \A s, t \in Seq(T) : \A n \in 1 .. Len(s \o t) :
    \/ n \in 1 .. Len(s) /\ (s \o t)[n] = s[n]
    \/ n - Len(s) \in 1 .. Len(t) /\ (s \o t)[n] = t[n - Len(s)]
  OBVIOUS

(* What the engine sends: text and preedit.                                 *)
Emitted == {"commit_string", "key", "preedit_string"}
(* What listeners share: handling the event e asks for rs. Text comes of    *)
(* keys, or of ending a preedit, and of the engine's text nothing is lost   *)
(* between preedit and requests.                                            *)
Hears(e, rs) ==
  /\ e \in Events /\ rs \in Seq(Requests)
  /\ stream = <<e>> \o stream' /\ reqs' = reqs \o rs
  /\ UNCHANGED <<comp, field, toComp>>
  /\ wayland'.context = After(e, wayland.context)
  /\ wayland'.modifiers = Next1(e, wayland.modifiers)
  /\ wayland.state \/ e.op = "keymap" => wayland'.state
  /\ wayland'.serial = IF e.op = "activate" THEN 0
                       ELSE IF e.op = "commit_state" /\ e.id = wayland.context THEN e.serial
                       ELSE wayland.serial
  /\ \A n \in 1 .. Len(rs) : /\ rs[n].id = IF e.op = "activate" THEN e.id ELSE wayland.context
                             /\ rs[n].op = "destroy" => e.op = "deactivate"
                             /\ e.op \notin {"key", "deactivate"} => rs[n].op \notin Emitted
  /\ e.op \notin {"key", "deactivate"} => preedit' = preedit
  /\ e.op = "deactivate" => preedit' = <<>>
  /\ e.op = "key" =>
       /\ Texts(rs, wayland.context) \o preedit' = preedit \o << <<e.key, wayland.modifiers>> >>
       /\ IF Drawn(rs, wayland.context) = <<>> THEN preedit' = preedit
          ELSE Last(Drawn(rs, wayland.context)) = preedit'

(* What is on its way has the types of events and requests.                 *)
LEMMA SequenceTypes == TypeInv => stream \in Seq(Events) /\ reqs \in Seq(Requests)
  BY DEF TypeInv, EventTypes, RequestTypes, stream, reqs

(* Handling an event keeps ContextsInv, and the event is for the context    *)
(* there is.                                                                *)
LEMMA HeardContexts ==
  ASSUME NEW e, NEW rs, TypeInv, TypeInv', ContextsInv, Hears(e, rs)
  PROVE  ContextsInv' /\ StartsAt(e, wayland.context)
<1>1. stream' \in Seq(Events) /\ e \in Events /\ stream = <<e>> \o stream' /\ comp' = comp
      /\ wayland'.context = After(e, wayland.context)
  BY SequenceTypes DEF Hears, TypeInv, EventTypes, stream
<1>2. PICK last \in Nat : Leads(stream, wayland.context, last) /\ (comp.alive => last = comp.active)
  BY DEF ContextsInv
<1>3. StartsAt(e, wayland.context) /\ Leads(stream', After(e, wayland.context), last)
  BY <1>1, <1>2, LeadsHead
<1> QED BY <1>1, <1>2, <1>3 DEF ContextsInv

(* Handling an event keeps IdsInv.                                          *)
LEMMA HeardIds ==
  ASSUME NEW e, NEW rs, TypeInv, TypeInv', LoopInv, IdsInv, Hears(e, rs), StartsAt(e, wayland.context)
  PROVE  IdsInv'
<1>1. /\ stream' \in Seq(Events) /\ e \in Events /\ stream = <<e>> \o stream' /\ comp' = comp
      /\ field' = field /\ reqs \in Seq(Requests) /\ rs \in Seq(Requests) /\ reqs' = reqs \o rs
  BY SequenceTypes DEF Hears, TypeInv, EventTypes, stream
<1>2. Len(stream) = Len(stream') + 1 /\ stream[1] = e
      /\ \A n \in 1 .. Len(stream') : n + 1 \in 1 .. Len(stream) /\ stream[n + 1] = stream'[n]
  BY <1>1, HeadElements
<1>3. \A n \in 1 .. Len(stream') : /\ stream'[n].id <= comp'.last
                                   /\ stream'[n].op = "deactivate" => stream'[n].id # comp'.active
  BY <1>1, <1>2 DEF IdsInv
<1>4. e.id <= comp.last /\ (e.op = "deactivate" => e.id # comp.active)
  <2>1. 1 \in 1 .. Len(stream)
    BY <1>1, <1>2
  <2> QED BY <1>2, <2>1 DEF IdsInv
<1>5. wayland.context <= comp.last
  BY DEF LoopInv, TypeOK
<1>6. \A n \in 1 .. Len(rs) :
        rs[n].id # 0 /\ rs[n].id <= comp.last /\ (rs[n].op = "destroy" => rs[n].id # comp.active)
  BY <1>4, <1>5 DEF Hears, StartsAt
<1>7. \A n \in 1 .. Len(reqs') :
        reqs'[n].id # 0 /\ reqs'[n].id <= comp.last /\ (reqs'[n].op = "destroy" => reqs'[n].id # comp.active)
  BY <1>1, <1>6, ConcatElements DEF IdsInv
<1>8. toComp' = toComp
  BY DEF Hears
<1> QED BY <1>1, <1>3, <1>7, <1>8 DEF IdsInv

(* The types around a listener.                                             *)
LEMMA HeardFacts ==
  ASSUME NEW e, NEW rs, TypeInv, TypeInv', Hears(e, rs)
  PROVE  /\ stream' \in Seq(Events) /\ e \in Events /\ stream = <<e>> \o stream'
         /\ reqs \in Seq(Requests) /\ rs \in Seq(Requests) /\ reqs' = reqs \o rs
         /\ comp' = comp /\ field' = field
         /\ Len(stream) = Len(stream') + 1 /\ stream[1] = e
         /\ \A n \in 1 .. Len(stream') : n + 1 \in 1 .. Len(stream) /\ stream[n + 1] = stream'[n]
<1>1. /\ stream' \in Seq(Events) /\ e \in Events /\ stream = <<e>> \o stream' /\ comp' = comp
      /\ field' = field /\ reqs \in Seq(Requests) /\ rs \in Seq(Requests) /\ reqs' = reqs \o rs
  BY SequenceTypes DEF Hears, TypeInv, EventTypes, stream
<1>2. Len(stream) = Len(stream') + 1 /\ stream[1] = e
      /\ \A n \in 1 .. Len(stream') : n + 1 \in 1 .. Len(stream) /\ stream[n + 1] = stream'[n]
  BY <1>1, HeadElements
<1> QED BY <1>1, <1>2

(* Handling an event keeps KeyboardInv.                                     *)
LEMMA HeardKeyboard ==
  ASSUME NEW e, NEW rs, TypeInv, TypeInv', KeyboardInv, Hears(e, rs)
  PROVE  KeyboardInv'
<1>1. /\ stream' \in Seq(Events) /\ e \in Events /\ stream = <<e>> \o stream'
      /\ comp' = comp /\ Len(stream) = Len(stream') + 1 /\ stream[1] = e
      /\ \A n \in 1 .. Len(stream') : n + 1 \in 1 .. Len(stream) /\ stream[n + 1] = stream'[n]
  BY HeardFacts
<1>2. ASSUME NEW n \in 1 .. Len(stream') + 1, HasKeymap(stream, n + 1)
      PROVE  HasKeymap(stream, n)'
  <2>1. CASE wayland.state \/ e.op = "keymap"
    BY <2>1 DEF Hears, HasKeymap
  <2>2. CASE ~ (wayland.state \/ e.op = "keymap")
    <3>1. PICK m \in 1 .. n + 1 - 1 : stream[m].op = "keymap"
      BY <1>2, <2>2 DEF HasKeymap
    <3>2. m # 1
      BY <1>1, <2>2, <3>1
    <3>3. m - 1 \in 1 .. n - 1 /\ m - 1 \in 1 .. Len(stream') /\ (m - 1) + 1 = m
      BY <1>1, <3>2
    <3>4. stream'[m - 1].op = "keymap"
      BY <1>1, <3>1, <3>3
    <3> QED BY <3>3, <3>4 DEF HasKeymap
  <2> QED BY <2>1, <2>2
<1>3. \A n \in 1 .. Len(stream') : stream'[n].op = "key" => HasKeymap(stream, n)'
  <2> TAKE n \in 1 .. Len(stream')
  <2>1. n + 1 \in 1 .. Len(stream) /\ stream[n + 1] = stream'[n] /\ n \in 1 .. Len(stream') + 1
    BY <1>1
  <2>2. stream[n + 1].op = "key" => HasKeymap(stream, n + 1)
    BY <2>1 DEF KeyboardInv
  <2> QED BY <1>2, <2>1, <2>2
<1>4. ASSUME comp.alive, comp.grab # 0
      PROVE  /\ comp.grab = comp.active
             /\ HasKeymap(stream, Len(stream) + 1)'
             /\ ShiftAt(stream', Len(stream') + 1, wayland'.modifiers) = comp.shift
  <2>1. PICK n \in 1 .. Len(stream') + 1 : n = Len(stream') + 1 /\ n + 1 = Len(stream) + 1
    BY <1>1
  <2>2. /\ comp.grab = comp.active
        /\ HasKeymap(stream, n + 1)
        /\ ShiftAt(stream, n + 1, wayland.modifiers) = comp.shift
    BY <1>4, <2>1 DEF KeyboardInv
  <2>3. HasKeymap(stream, n)'
    BY <1>2, <2>2
  <2>4. wayland.modifiers \in BOOLEAN /\ wayland'.modifiers = Next1(e, wayland.modifiers)
    BY DEF Hears, TypeInv, ServiceTypes
  <2>5. ShiftAt(<<e>> \o stream', n + 1, wayland.modifiers) = ShiftAt(stream', n, wayland'.modifiers)
    BY <1>1, <2>4, ShiftAfterHead
  <2>6. HasKeymap(stream, Len(stream) + 1)'
    BY <2>1, <2>3
  <2> QED BY <1>1, <2>1, <2>2, <2>5, <2>6
<1> QED BY <1>1, <1>3, <1>4 DEF KeyboardInv

(* Handling an event keeps UngrabbedInv.                                    *)
LEMMA HeardUngrabbed ==
  ASSUME NEW e, NEW rs, TypeInv, TypeInv', UngrabbedInv, ArrivingInv, IdsInv, Hears(e, rs),
         StartsAt(e, wayland.context)
  PROVE  UngrabbedInv'
<1>1. /\ stream' \in Seq(Events) /\ e \in Events
      /\ reqs \in Seq(Requests) /\ rs \in Seq(Requests) /\ reqs' = reqs \o rs
      /\ comp' = comp /\ field' = field /\ Len(stream) = Len(stream') + 1 /\ stream[1] = e
      /\ \A n \in 1 .. Len(stream') : n + 1 \in 1 .. Len(stream) /\ stream[n + 1] = stream'[n]
  BY HeardFacts
<1> SUFFICES ASSUME comp.active # 0, comp.grab = 0
             PROVE  /\ \A n \in 1 .. Len(stream') : stream'[n].op = "key" => stream'[n].id # comp.active
                    /\ \A n \in 1 .. Len(reqs') : reqs'[n].id = comp.active => reqs'[n].op \notin Emitted
                    /\ field.shown = <<>>
                    /\ wayland'.context = comp.active => preedit' = <<>>
  BY <1>1 DEF UngrabbedInv, Emitted
<1>2. /\ \A n \in 1 .. Len(stream) : stream[n].op = "key" => stream[n].id # comp.active
      /\ \A n \in 1 .. Len(reqs) : reqs[n].id = comp.active => reqs[n].op \notin Emitted
      /\ field.shown = <<>>
      /\ wayland.context = comp.active => preedit = <<>>
  BY DEF UngrabbedInv, Emitted
<1>3. \A n \in 1 .. Len(stream') : stream'[n].op = "key" => stream'[n].id # comp.active
  BY <1>1, <1>2
<1>4. /\ e.op = "key" => e.id # comp.active
      /\ e.op = "deactivate" => e.id # comp.active
  <2>1. 1 \in 1 .. Len(stream)
    BY <1>1
  <2> QED BY <1>1, <1>2, <2>1 DEF IdsInv
<1>5. \A n \in 1 .. Len(rs) : rs[n].id = comp.active => rs[n].op \notin Emitted
  BY <1>4 DEF Hears, StartsAt
<1>6. \A n \in 1 .. Len(reqs') : reqs'[n].id = comp.active => reqs'[n].op \notin Emitted
  BY <1>1, <1>2, <1>5, ConcatElements
<1>7. ASSUME wayland'.context = comp.active PROVE preedit' = <<>>
  <2>1. e.op # "key" /\ e.op # "deactivate"
    BY <1>4, <1>7 DEF Hears, StartsAt, After
  <2>2. preedit' = preedit
    BY <2>1 DEF Hears
  <2>3. CASE e.op = "activate"
    BY <2>2, <2>3 DEF StartsAt, ArrivingInv
  <2>4. CASE e.op # "activate"
    BY <1>2, <1>7, <2>1, <2>2, <2>4 DEF Hears, After
  <2> QED BY <2>3, <2>4
<1> QED BY <1>2, <1>3, <1>6, <1>7

(* Handling an event keeps ArrivingInv.                                     *)
LEMMA HeardArriving ==
  ASSUME NEW e, NEW rs, TypeInv, TypeInv', ArrivingInv, IdsInv, Hears(e, rs),
         StartsAt(e, wayland.context)
  PROVE  ArrivingInv'
<1>1. /\ stream' \in Seq(Events) /\ e \in Events
      /\ reqs \in Seq(Requests) /\ rs \in Seq(Requests) /\ reqs' = reqs \o rs
      /\ comp' = comp /\ Len(stream) = Len(stream') + 1 /\ stream[1] = e
  BY HeardFacts
<1>2. e.op = "deactivate" => e.id # comp.active
  <2>1. 1 \in 1 .. Len(stream)
    BY <1>1
  <2> QED BY <1>1, <2>1 DEF IdsInv
<1>3. ASSUME comp.active # 0, wayland'.context # comp.active
      PROVE  comp.grab = 0 /\ \A n \in 1 .. Len(reqs') : reqs'[n].id # comp.active
  <2>1. wayland.context # comp.active
    BY <1>2, <1>3 DEF Hears, After, StartsAt
  <2>2. comp.grab = 0 /\ \A n \in 1 .. Len(reqs) : reqs[n].id # comp.active
    BY <1>3, <2>1 DEF ArrivingInv
  <2>3. \A n \in 1 .. Len(rs) : rs[n].id # comp.active
    BY <1>3, <2>1 DEF Hears, After
  <2> QED BY <1>1, <2>2, <2>3, ConcatElements
<1>4. ASSUME wayland'.context = 0 PROVE preedit' = <<>>
  <2>1. e.op = "deactivate"
    BY <1>4 DEF Hears, After, StartsAt
  <2> QED BY <2>1 DEF Hears
<1> QED BY <1>1, <1>3, <1>4 DEF ArrivingInv

(* Handling an event keeps SerialInv.                                       *)
LEMMA HeardSerial ==
  ASSUME NEW e, NEW rs, TypeInv, TypeInv', SerialInv, IdsInv, Hears(e, rs),
         StartsAt(e, wayland.context)
  PROVE  SerialInv'
<1>1. /\ stream' \in Seq(Events) /\ e \in Events /\ stream = <<e>> \o stream'
      /\ comp' = comp /\ field' = field /\ Len(stream) = Len(stream') + 1 /\ stream[1] = e
  BY HeardFacts
<1> SUFFICES ASSUME comp.active # 0
             PROVE  /\ field.serial = Base' + Len(Serials(stream', comp.active))
                    /\ \A n \in 1 .. Len(Serials(stream', comp.active)) :
                         Serials(stream', comp.active)[n] = Base' + n
  BY <1>1 DEF SerialInv
<1>2. PICK old, new, one \in Seq(Nat) :
        /\ old = Serials(stream, comp.active) /\ new = Serials(stream', comp.active)
        /\ one = Serials(<<e>>, comp.active)
  <2>1. stream \in Seq(Events) /\ <<e>> \in Seq(Events)
    BY <1>1
  <2> QED BY <1>1, <2>1, SerialsFacts
<1>3. old = one \o new /\ one = IF e.op = "commit_state" /\ e.id = comp.active THEN <<e.serial>> ELSE <<>>
  <2>1. <<e>> \in Seq(Events)
    BY <1>1
  <2> QED BY <1>1, <1>2, <2>1, SerialsFacts
<1>4. field.serial = Base + Len(old) /\ \A n \in 1 .. Len(old) : old[n] = Base + n
  BY <1>2 DEF SerialInv
<1>5. Base \in Nat
  BY DEF Base, TypeInv, ServiceTypes
<1>6. e.op = "deactivate" => e.id # comp.active
  <2>1. 1 \in 1 .. Len(stream)
    BY <1>1
  <2> QED BY <1>1, <2>1 DEF IdsInv
<1>7. CASE e.op = "commit_state" /\ e.id = comp.active
  <2>1. wayland.context = comp.active /\ wayland'.context = comp.active /\ wayland'.serial = e.serial
    BY <1>7 DEF Hears, StartsAt, After
  <2>2. Base' = e.serial
    BY <1>1, <2>1 DEF Base
  <2>3. old = <<e.serial>> \o new /\ Len(old) = Len(new) + 1 /\ old[1] = e.serial
        /\ \A n \in 1 .. Len(new) : n + 1 \in 1 .. Len(old) /\ old[n + 1] = new[n]
    BY <1>3, <1>7
  <2>4. e.serial = Base + 1
    BY <1>4, <2>3
  <2>5. e.serial \in Nat /\ Len(new) \in Nat
    BY <1>1 DEF Events
  <2>6. \A n \in 1 .. Len(new) : new[n] = e.serial + n
    <3> TAKE n \in 1 .. Len(new)
    <3>1. n + 1 \in 1 .. Len(old) /\ old[n + 1] = new[n]
      BY <2>3
    <3>2. old[n + 1] = Base + (n + 1)
      BY <1>4, <3>1
    <3> QED BY <3>1, <3>2, <2>4, <2>5, <1>5
  <2>7. field.serial = e.serial + Len(new)
    BY <1>4, <1>5, <2>3, <2>4, <2>5
  <2> QED BY <1>2, <2>2, <2>6, <2>7
<1>8. CASE ~ (e.op = "commit_state" /\ e.id = comp.active)
  <2>1. old = new
    BY <1>3, <1>8
  <2>2. Base' = Base
    BY <1>1, <1>6, <1>8 DEF Base, Hears, StartsAt, After
  <2> QED BY <1>2, <1>4, <2>1, <2>2
<1> QED BY <1>7, <1>8

(* Joining by a name of its own, which provers match where they do not      *)
(* match \o: the text of a field, coming back, composed and coming in.      *)
Joins(a, b) == a \o b
Joined(text, back, composed, coming) == Joins(Joins(Joins(text, back), composed), coming)

(* Joining is associative, with nothing as its unit.                        *)
LEMMA JoinsFacts ==
  \A a, b, c \in Text : /\ Joins(a, b) \in Text
                        /\ Joins(Joins(a, b), c) = Joins(a, Joins(b, c))
                        /\ Joins(a, <<>>) = a /\ Joins(<<>>, a) = a
  BY DEF Joins, Text

(* Text may move on to the next place: coming back, or composed.            *)
LEMMA JoinedMoves ==
  ASSUME NEW t \in Text, NEW r \in Text, NEW s \in Text, NEW p \in Text, NEW k \in Text
  PROVE  /\ Joined(t, Joins(r, s), p, k) = Joins(Joins(Joins(t, r), Joins(s, p)), k)
         /\ Joined(t, r, s, Joins(p, k)) = Joins(Joins(Joins(t, r), Joins(s, p)), k)
<1>1. PICK tr \in Text : tr = Joins(t, r)
  BY JoinsFacts
<1>2. Joins(t, Joins(r, s)) = Joins(tr, s) /\ Joins(Joins(tr, s), p) = Joins(tr, Joins(s, p))
  BY <1>1, JoinsFacts
<1>3. PICK trs \in Text : trs = Joins(tr, s)
  BY JoinsFacts
<1>4. Joins(trs, Joins(p, k)) = Joins(Joins(trs, p), k)
  BY JoinsFacts
<1> QED BY <1>1, <1>2, <1>3, <1>4 DEF Joined

(* The same at both ends: text that arrives in the field, a key that is     *)
(* typed.                                                                   *)
LEMMA JoinedEnds ==
  ASSUME NEW t \in Text, NEW r \in Text, NEW p \in Text, NEW k \in Text, NEW x \in Text
  PROVE  /\ Joined(Joins(t, x), r, p, k) = Joined(t, Joins(x, r), p, k)
         /\ Joined(t, r, p, Joins(k, x)) = Joins(Joined(t, r, p, k), x)
         /\ Joined(t, <<>>, <<>>, <<>>) = t
<1>1. Joins(Joins(t, x), r) = Joins(t, Joins(x, r))
  BY JoinsFacts
<1>2. PICK trp \in Text : trp = Joins(Joins(t, r), p)
  <2>1. Joins(t, r) \in Text
    BY JoinsFacts
  <2> QED BY <2>1, JoinsFacts
<1>3. Joins(trp, Joins(k, x)) = Joins(Joins(trp, k), x)
  BY JoinsFacts
<1>4. <<>> \in Text
  BY DEF Text
<1>5. Joined(t, <<>>, <<>>, <<>>) = t
  BY <1>4, JoinsFacts DEF Joined
<1> QED BY <1>1, <1>2, <1>3, <1>5 DEF Joined

(* Handling an event keeps KeysInOrder: what is typed moves from the event  *)
(* into the preedit or a request.                                           *)
LEMMA HeardKeys ==
  ASSUME NEW e, NEW rs, TypeInv, TypeInv', KeysInOrder, ArrivingInv, IdsInv, Hears(e, rs),
         StartsAt(e, wayland.context)
  PROVE  KeysInOrder'
<1> DEFINE a == comp.active
<1>1. /\ stream' \in Seq(Events) /\ e \in Events /\ stream = <<e>> \o stream'
      /\ reqs \in Seq(Requests) /\ rs \in Seq(Requests) /\ reqs' = reqs \o rs
      /\ comp' = comp /\ field' = field /\ Len(stream) = Len(stream') + 1 /\ stream[1] = e
  BY HeardFacts
<1>2. e.op = "deactivate" => e.id # a
  <2>1. 1 \in 1 .. Len(stream)
    BY <1>1
  <2> QED BY <1>1, <2>1 DEF IdsInv
<1>3. PICK mods \in BOOLEAN, mods2 \in BOOLEAN :
        mods = wayland.modifiers /\ mods2 = wayland'.modifiers /\ mods2 = Next1(e, mods)
  BY DEF Hears, TypeInv, ServiceTypes
<1> SUFFICES ASSUME a # 0
             PROVE  Joined(field.text, Texts(reqs', a), IF wayland'.context = a THEN preedit' ELSE <<>>,
                           KeysIn(stream', a, mods2)) = field.typed
  BY <1>1, <1>3 DEF KeysInOrder, stream, reqs, Joined, Joins
<1>4. Joined(field.text, Texts(reqs, a), IF wayland.context = a THEN preedit ELSE <<>>,
             KeysIn(stream, a, mods)) = field.typed
  BY <1>3 DEF KeysInOrder, stream, reqs, Joined, Joins
<1>5. PICK T, R, S, P, P2, K, K2 \in Text :
        /\ T = field.text /\ R = Texts(reqs, a) /\ S = Texts(rs, a)
        /\ P = preedit /\ P2 = preedit'
        /\ K = KeyOfEvent(e, a, mods) /\ K2 = KeysIn(stream', a, mods2)
  <2>1. field.text \in Text /\ preedit \in Text /\ preedit' \in Text
    BY DEF TypeInv, FieldTypes, ServiceTypes
  <2>2. Texts(reqs, a) \in Text /\ Texts(rs, a) \in Text
    BY <1>1, TextsFacts
  <2>3. KeyOfEvent(e, a, mods) \in Text
    <3>1. <<e.key, mods>> \in Nat \X BOOLEAN
      BY <1>1 DEF Events
    <3>2. << <<e.key, mods>> >> \in Text /\ <<>> \in Text
      BY <3>1 DEF Text
    <3> QED BY <3>2 DEF KeyOfEvent
  <2>4. KeysIn(stream', a, mods2) \in Text
    BY <1>1, KeysType
  <2> QED BY <2>1, <2>2, <2>3, <2>4
<1>6. PICK RS, KK \in Text : /\ RS = Texts(reqs', a) /\ KK = KeysIn(stream, a, mods)
                             /\ RS = Joins(R, S) /\ KK = Joins(K, K2)
  <2>1. Texts(reqs \o rs, a) = Texts(reqs, a) \o Texts(rs, a)
    BY <1>1, TextsFacts
  <2>2. KeysIn(<<e>> \o stream', a, mods) = KeyOfEvent(e, a, mods) \o KeysIn(stream', a, Next1(e, mods))
    BY <1>1, KeysAfterHead
  <2>3. R \o S \in Text /\ K \o K2 \in Text
    BY DEF Text
  <2> QED BY <1>1, <1>3, <1>5, <2>1, <2>2, <2>3 DEF Joins
<1>7. CASE wayland.context = a
  <2>1. wayland'.context = a /\ e.op # "activate" /\ e.op # "deactivate" /\ e.id = a
    BY <1>2, <1>7 DEF Hears, StartsAt, After
  <2>2. Joins(S, P2) = Joins(P, K)
    <3>1. CASE e.op = "key"
      BY <1>3, <1>5, <1>7, <2>1, <3>1 DEF Hears, KeyOfEvent, Joins
    <3>2. CASE e.op # "key"
      <4>1. \A n \in DOMAIN rs : rs[n].id = a => rs[n].op \notin {"commit_string", "key"}
        BY <1>1, <2>1, <3>2 DEF Hears, Emitted
      <4>2. S = <<>>
        BY <1>1, <1>5, <4>1, TextsFacts
      <4>3. P2 = P /\ K = <<>>
        BY <1>5, <2>1, <3>2 DEF Hears, KeyOfEvent
      <4> QED BY <4>2, <4>3, JoinsFacts
    <3> QED BY <3>1, <3>2
  <2>3. Joined(T, RS, P2, K2) = Joined(T, R, P, KK)
    <3>1. Joined(T, Joins(R, S), P2, K2) = Joined(T, R, P, Joins(K, K2))
      BY <1>5, <2>2, JoinedMoves, SMTT(40)
    <3> QED BY <1>6, <3>1
  <2> QED BY <1>4, <1>5, <1>6, <1>7, <2>1, <2>3
<1>8. CASE wayland.context # a
  <2>1. \A n \in DOMAIN rs : rs[n].id = a => rs[n].op \notin {"commit_string", "key"}
    BY <1>1, <1>8 DEF Hears, Emitted
  <2>2. S = <<>>
    BY <1>1, <1>5, <2>1, TextsFacts
  <2>3. K = <<>>
    BY <1>5, <1>8 DEF StartsAt, KeyOfEvent
  <2>4. wayland'.context = a => P2 = <<>>
    BY <1>5, <1>8 DEF Hears, StartsAt, After, ArrivingInv
  <2>5. RS = R /\ KK = K2
    BY <1>6, <2>2, <2>3, JoinsFacts
  <2> QED BY <1>4, <1>5, <1>6, <1>8, <2>4, <2>5
<1> QED BY <1>7, <1>8

(* The last of a sequence with something after it.                          *)
LEMMA LastFacts ==
  \A T : /\ \A x, y \in T, s \in Seq(T) : Last(<<x>> \o (<<y>> \o s)) = Last(<<y>> \o s)
         /\ \A x \in T, s, t \in Seq(T) : t # <<>> => Last(<<x>> \o (s \o t)) = Last(t)
         /\ \A x \in T : Last(<<x>> \o <<>>) = x
  BY DEF Last

(* Handling an event keeps PreeditShown: a preedit changes with a request   *)
(* that draws it.                                                           *)
LEMMA HeardPreedit ==
  ASSUME NEW e, NEW rs, TypeInv, TypeInv', PreeditShown, UngrabbedInv, ArrivingInv, IdsInv, Hears(e, rs),
         StartsAt(e, wayland.context)
  PROVE  PreeditShown'
<1> DEFINE a == comp.active
<1>1. /\ stream' \in Seq(Events) /\ e \in Events /\ stream = <<e>> \o stream'
      /\ reqs \in Seq(Requests) /\ rs \in Seq(Requests) /\ reqs' = reqs \o rs
      /\ comp' = comp /\ field' = field /\ Len(stream) = Len(stream') + 1 /\ stream[1] = e
  BY HeardFacts
<1>2. e.op = "deactivate" => e.id # a
  <2>1. 1 \in 1 .. Len(stream)
    BY <1>1
  <2> QED BY <1>1, <2>1 DEF IdsInv
<1> SUFFICES ASSUME a # 0, wayland'.context = a
             PROVE  Last(<<field.shown>> \o Drawn(reqs', a)) = preedit'
  BY <1>1 DEF PreeditShown, reqs
<1>3. Drawn(reqs', a) = Drawn(reqs, a) \o Drawn(rs, a) /\ Drawn(reqs, a) \in Seq(Text)
      /\ Drawn(rs, a) \in Seq(Text) /\ field.shown \in Text
  BY <1>1, DrawnFacts DEF TypeInv, FieldTypes
<1>4. ASSUME e.op # "key" PROVE Drawn(rs, a) = <<>>
  <2>0. e.op # "deactivate"
    BY <1>2 DEF Hears, StartsAt, After
  <2>1. \A n \in DOMAIN rs : rs[n].id = a => rs[n].op \notin {"commit_string", "preedit_string"}
    BY <1>1, <1>4, <2>0 DEF Hears, Emitted
  <2> QED BY <1>1, <2>1, DrawnFacts
<1>5. CASE wayland.context = a
  <2>1. Last(<<field.shown>> \o Drawn(reqs, a)) = preedit
    BY <1>5 DEF PreeditShown, reqs
  <2>2. e.op # "deactivate"
    BY <1>2, <1>5 DEF StartsAt
  <2>3. CASE Drawn(rs, a) = <<>>
    <3>1. preedit' = preedit
      BY <1>5, <2>2, <2>3 DEF Hears
    <3>2. Drawn(reqs', a) = Drawn(reqs, a)
      BY <1>3, <2>3
    <3> QED BY <2>1, <3>1, <3>2
  <2>4. CASE Drawn(rs, a) # <<>>
    <3>1. Last(Drawn(rs, a)) = preedit'
      BY <1>4, <1>5, <2>4 DEF Hears
    <3>2. Last(<<field.shown>> \o (Drawn(reqs, a) \o Drawn(rs, a))) = Last(Drawn(rs, a))
      BY <1>3, <2>4, LastFacts
    <3> QED BY <1>3, <3>1, <3>2
  <2> QED BY <2>3, <2>4
<1>6. CASE wayland.context # a
  <2>1. e.op = "activate" /\ wayland.context = 0
    BY <1>6 DEF Hears, StartsAt, After
  <2>2. preedit' = <<>>
    BY <2>1 DEF Hears, ArrivingInv
  <2>3. comp.grab = 0 /\ \A n \in 1 .. Len(reqs) : reqs[n].id # a
    BY <1>6 DEF ArrivingInv
  <2>4. field.shown = <<>>
    BY <2>3 DEF UngrabbedInv
  <2>5. Drawn(reqs, a) = <<>> /\ Drawn(rs, a) = <<>>
    <3>1. \A n \in DOMAIN reqs : reqs[n].id = a => reqs[n].op \notin {"commit_string", "preedit_string"}
      <4>1. DOMAIN reqs = 1 .. Len(reqs)
        BY <1>1
      <4> QED BY <2>3, <4>1
    <3> QED BY <1>1, <1>4, <2>1, <3>1, DrawnFacts
  <2>6. Last(<<field.shown>> \o (<<>> \o <<>>)) = field.shown
    BY DEF Last
  <2> QED BY <1>3, <2>2, <2>4, <2>5, <2>6
<1> QED BY <1>5, <1>6
-----------------------------------------------------------------------------
(* A queue without its head.                                                *)
LEMMA HeadApart ==
  \A T : \A s, t \in Seq(T) : s # <<>> =>
    /\ Head(s) \in T /\ Tail(s) \in Seq(T) /\ s \o t = <<Head(s)>> \o (Tail(s) \o t)
    /\ (s \o t)[1] = Head(s) /\ Len(s \o t) > 0 /\ Tail(s) \o t \in Seq(T)
  OBVIOUS

(* The event that is handled is for the service's context, and a key comes  *)
(* when there is a keymap: the early returns of the listeners are not       *)
(* taken.                                                                   *)
LEMMA Dispatching ==
  ASSUME TypeInv, LoopInv, IdsInv, ContextsInv, KeyboardInv, NEW op, Dispatched(op)
  PROVE  /\ Head(queue) \in Events /\ Head(queue).op = op
         /\ StartsAt(Head(queue), wayland.context)
         /\ Head(queue).id <= comp.last
         /\ op = "key" => wayland.state
         /\ stream = <<Head(queue)>> \o stream'
         /\ LoopTypes' /\ EventTypes' /\ CompTypes' /\ FieldTypes'
         /\ phase = "dispatch" /\ UNCHANGED <<phase, reading, intents, toComp, comp, field>>
<1>1. /\ phase = "dispatch" /\ queue # <<>> /\ Head(queue).op = op
      /\ queue' = Tail(queue) /\ UNCHANGED <<phase, reading, intents, toIM, toComp, comp, field>>
  BY Zenon DEF Dispatched, world
<1>2. queue \in Seq(Events) /\ toIM \in Seq(Events)
  BY DEF TypeInv, EventTypes
<1>3. /\ Head(queue) \in Events /\ Tail(queue) \in Seq(Events)
      /\ stream = <<Head(queue)>> \o stream' /\ stream[1] = Head(queue)
      /\ 1 \in 1 .. Len(stream) /\ stream' \in Seq(Events)
  BY <1>1, <1>2, HeadApart DEF stream
<1>4. StartsAt(Head(queue), wayland.context)
  <2>1. PICK last \in Nat : Leads(stream, wayland.context, last)
    BY DEF ContextsInv
  <2> QED BY <1>3, <2>1, LeadsHead
<1>5. Head(queue).id <= comp.last
  BY <1>3 DEF IdsInv
<1>6. op = "key" => wayland.state
  <2>1. ASSUME op = "key" PROVE HasKeymap(stream, 1)
    BY <1>1, <1>3, <2>1 DEF KeyboardInv
  <2>2. HasKeymap(stream, 1) => wayland.state
    BY DEF HasKeymap
  <2> QED BY <2>1, <2>2
<1>7. LoopTypes' /\ EventTypes' /\ CompTypes' /\ FieldTypes'
  BY <1>1, <1>2, <1>3 DEF TypeInv, LoopTypes, EventTypes, CompTypes, Comps, FieldTypes
<1> QED BY <1>1, <1>3, <1>4, <1>5, <1>6, <1>7

(* Appending requests to out keeps the types, and appends them to what is   *)
(* on its way.                                                              *)
LEMMA Requesting ==
  ASSUME TypeInv, LoopInv, IdsInv, ContextsInv, KeyboardInv, NEW op, Dispatched(op),
         NEW rs \in Seq(Requests), out' = out \o rs,
         ServiceTypes', wayland'.active = wayland.active, wayland'.context <= comp.last
  PROVE  TypeInv' /\ LoopInv' /\ reqs' = reqs \o rs
<1>1. /\ LoopTypes' /\ EventTypes' /\ CompTypes' /\ FieldTypes'
      /\ phase = "dispatch" /\ UNCHANGED <<phase, reading, intents, toComp, comp>>
  BY Dispatching
<1>2. RequestTypes' /\ reqs' = reqs \o rs
  <2>1. out \in Seq(Requests) /\ toComp \in Seq(Requests)
    BY DEF TypeInv, RequestTypes
  <2>2. out \o rs \in Seq(Requests) /\ (toComp \o out) \o rs = toComp \o (out \o rs)
    BY <2>1
  <2> QED BY <1>1, <2>1, <2>2 DEF RequestTypes, reqs
<1>3. TypeInv'
  BY <1>1, <1>2 DEF TypeInv
<1>4. LoopInv'
  <2>1. wayland'.context \in 0 .. comp'.last
    BY <1>1, <1>3 DEF TypeInv, ServiceTypes, CompTypes, Comps
  <2>2. wayland.active /\ (reading' <=> reading)
    BY <1>1 DEF LoopInv, TypeOK
  <2> QED BY <1>1, <2>1, <2>2 DEF LoopInv, TypeOK
<1> QED BY <1>2, <1>3, <1>4

(* The requests of commit and preedit are for the context there is.         *)
LEMMA EmissionFacts ==
  ASSUME TypeInv, NEW text \in Text
  PROVE  LET c == nimf_wayland_ic_emit_commit(text)
             p == nimf_wayland_ic_emit_preedit_changed(text)
         IN  /\ c \in Requests /\ c.id = wayland.context /\ c.op = "commit_string" /\ c.text = text
             /\ p \in Requests /\ p.id = wayland.context /\ p.op = "preedit_string" /\ p.text = text
<1>1. wayland.context \in Nat /\ wayland.serial \in Nat
  BY DEF TypeInv, ServiceTypes
<1> QED BY <1>1 DEF nimf_wayland_ic_emit_commit, nimf_wayland_ic_emit_preedit_changed,
                    Request, Requests, RequestOps

(* Some event is handled in this step.                                      *)
HearsOne == \E e, rs : Hears(e, rs)

(* handle_commit_state, handle_surrounding_text and the keymap.             *)
LEMMA HearsOthers ==
  ASSUME TypeInv, LoopInv, IdsInv, ContextsInv, KeyboardInv,
         handle_commit_state \/ handle_surrounding_text \/ input_method_keyboard_keymap
  PROVE  TypeInv' /\ LoopInv' /\ HearsOne
<1> DEFINE e == Head(queue)
           rs == <<>>
<1>1. PICK op : Dispatched(op) /\ op \in {"commit_state", "surrounding_text", "keymap"}
  BY Zenon DEF handle_commit_state, handle_surrounding_text, input_method_keyboard_keymap
<1>2. /\ e \in Events /\ e.op = op
      /\ StartsAt(e, wayland.context)
      /\ stream = <<e>> \o stream'
      /\ UNCHANGED <<toComp, comp, field>>
  BY <1>1, Dispatching, Zenon
<1>3. ServiceTypes /\ RequestTypes
  BY DEF TypeInv
<1>4. /\ preedit' = preedit /\ out' = out /\ ServiceTypes'
      /\ wayland'.active = wayland.active /\ wayland'.context = wayland.context
      /\ wayland'.modifiers = wayland.modifiers
      /\ wayland.state \/ e.op = "keymap" => wayland'.state
      /\ wayland'.serial = IF e.op = "commit_state" /\ e.id = wayland.context THEN e.serial
                           ELSE wayland.serial
  <2>1. CASE handle_commit_state
    <3>1. /\ Head(queue).op = "commit_state" /\ preedit' = preedit /\ out' = out
          /\ wayland' = IF Head(queue).id = wayland.context
                        THEN [wayland EXCEPT !.serial = Head(queue).serial] ELSE wayland
      BY <2>1, Zenon DEF handle_commit_state, Dispatched
    <3> QED BY <1>2, <1>3, <3>1 DEF ServiceTypes, Events
  <2>2. CASE handle_surrounding_text
    <3>1. Head(queue).op = "surrounding_text" /\ preedit' = preedit /\ out' = out /\ wayland' = wayland
      BY <2>2, Zenon DEF handle_surrounding_text, Dispatched
    <3> QED BY <1>3, <3>1 DEF ServiceTypes
  <2>3. CASE input_method_keyboard_keymap
    <3>1. /\ Head(queue).op = "keymap" /\ preedit' = preedit /\ out' = out
          /\ wayland' = [wayland EXCEPT !.state = TRUE]
      BY <2>3, Zenon DEF input_method_keyboard_keymap, Dispatched
    <3> QED BY <1>3, <3>1 DEF ServiceTypes
  <2> QED BY <2>1, <2>2, <2>3
<1>5. rs \in Seq(Requests) /\ out' = out \o rs /\ wayland'.context <= comp.last
  BY <1>3, <1>4 DEF RequestTypes, LoopInv, TypeOK
<1>6. TypeInv' /\ LoopInv' /\ reqs' = reqs \o rs
  BY <1>1, <1>4, <1>5, Requesting
<1>7. Hears(e, rs)
  <2>1. After(e, wayland.context) = wayland.context /\ Next1(e, wayland.modifiers) = wayland.modifiers
    BY <1>1, <1>2 DEF After, Next1, Shifts
  <2> QED BY <1>1, <1>2, <1>4, <1>5, <1>6, <2>1 DEF Hears
<1> QED BY <1>6, <1>7 DEF HearsOne

(* input_method_keyboard_modifiers.                                         *)
LEMMA HearsModifiers ==
  ASSUME TypeInv, LoopInv, IdsInv, ContextsInv, KeyboardInv, input_method_keyboard_modifiers
  PROVE  TypeInv' /\ LoopInv' /\ HearsOne
<1> DEFINE e == Head(queue)
           r == Request("modifiers", wayland.context)
<1>1. /\ Dispatched("modifiers") /\ wayland' = [wayland EXCEPT !.modifiers = e.shift]
      /\ out' = Append(out, r) /\ preedit' = preedit
  BY Zenon DEF input_method_keyboard_modifiers
<1>2. /\ e \in Events /\ e.op = "modifiers" /\ e.id = wayland.context
      /\ stream = <<e>> \o stream'
      /\ UNCHANGED <<toComp, comp, field>>
  BY <1>1, Dispatching DEF StartsAt
<1>3. ServiceTypes /\ RequestTypes
  BY DEF TypeInv
<1>4. r \in Requests /\ r.id = wayland.context /\ r.op = "modifiers"
  <2>1. wayland.context \in Nat /\ <<>> \in Text
    BY <1>3 DEF ServiceTypes, Text
  <2> QED BY <2>1 DEF Request, Requests, RequestOps
<1>5. PICK rs : rs = <<r>>
  OBVIOUS
<1>6. /\ rs \in Seq(Requests) /\ out' = out \o rs /\ Len(rs) = 1 /\ rs[1] = r
  BY <1>1, <1>3, <1>4, <1>5 DEF RequestTypes
<1>7. /\ ServiceTypes' /\ wayland'.active = wayland.active /\ wayland'.context = wayland.context
      /\ wayland'.modifiers = e.shift /\ wayland'.state = wayland.state /\ wayland'.serial = wayland.serial
  BY <1>1, <1>2, <1>3 DEF ServiceTypes, Events
<1>8. TypeInv' /\ LoopInv' /\ reqs' = reqs \o rs
  <2>1. wayland'.context <= comp.last
    BY <1>7 DEF LoopInv, TypeOK
  <2> QED BY <1>1, <1>6, <1>7, <2>1, Requesting
<1>9. Hears(e, rs)
  <2>1. After(e, wayland.context) = wayland.context /\ Next1(e, wayland.modifiers) = e.shift
    BY <1>2 DEF After, Next1, Shifts
  <2>2. \A n \in 1 .. Len(rs) : rs[n] = r
    BY <1>6
  <2> QED BY <1>1, <1>2, <1>4, <1>6, <1>7, <1>8, <2>1, <2>2 DEF Hears, Emitted
<1> QED BY <1>8, <1>9 DEF HearsOne

(* input_method_activate: as events lead on, there is no context to         *)
(* destroy.                                                                 *)
LEMMA HearsActivate ==
  ASSUME TypeInv, LoopInv, IdsInv, ContextsInv, KeyboardInv, input_method_activate
  PROVE  TypeInv' /\ LoopInv' /\ HearsOne
<1> DEFINE e == Head(queue)
           r == Request("grab_keyboard", e.id)
<1>1. /\ Dispatched("activate") /\ wayland' = [wayland EXCEPT !.context = e.id, !.serial = 0]
      /\ out' = out \o (IF wayland.context = 0 THEN <<>> ELSE <<Request("destroy", wayland.context)>>) \o <<r>>
      /\ preedit' = preedit
  BY Zenon DEF input_method_activate
<1>2. /\ e \in Events /\ e.op = "activate" /\ wayland.context = 0 /\ e.id <= comp.last
      /\ stream = <<e>> \o stream'
      /\ UNCHANGED <<toComp, comp, field>>
  BY <1>1, Dispatching DEF StartsAt
<1>3. ServiceTypes /\ RequestTypes
  BY DEF TypeInv
<1>4. r \in Requests /\ r.id = e.id /\ r.op = "grab_keyboard"
  <2>1. e.id \in Nat /\ <<>> \in Text
    BY <1>2 DEF Events, Text
  <2> QED BY <2>1 DEF Request, Requests, RequestOps
<1>5. PICK rs : rs = <<r>>
  OBVIOUS
<1>6. /\ rs \in Seq(Requests) /\ out' = out \o rs /\ Len(rs) = 1 /\ rs[1] = r
  <2>1. out' = out \o <<>> \o <<r>> /\ out \o <<>> = out
    BY <1>1, <1>2, <1>3 DEF RequestTypes
  <2> QED BY <1>4, <1>5, <2>1
<1>7. /\ ServiceTypes' /\ wayland'.active = wayland.active /\ wayland'.context = e.id
      /\ wayland'.modifiers = wayland.modifiers /\ wayland'.state = wayland.state /\ wayland'.serial = 0
  BY <1>1, <1>2, <1>3 DEF ServiceTypes, Events
<1>8. TypeInv' /\ LoopInv' /\ reqs' = reqs \o rs
  BY <1>1, <1>2, <1>6, <1>7, Requesting
<1>9. Hears(e, rs)
  <2>1. After(e, wayland.context) = e.id /\ Next1(e, wayland.modifiers) = wayland.modifiers
    BY <1>2 DEF After, Next1, Shifts
  <2>2. \A n \in 1 .. Len(rs) : rs[n] = r
    BY <1>6
  <2> QED BY <1>1, <1>2, <1>4, <1>6, <1>7, <1>8, <2>1, <2>2 DEF Hears, Emitted
<1> QED BY <1>8, <1>9 DEF HearsOne

(* Ending a preedit sends all of it, and draws nothing when it is over.     *)
LEMMA FlushedFacts ==
  ASSUME TypeInv
  PROVE  /\ Flushed \in Seq(Requests)
         /\ \A n \in 1 .. Len(Flushed) : /\ Flushed[n].id = wayland.context
                                         /\ Flushed[n].op \in {"commit_string", "preedit_string"}
         /\ Texts(Flushed, wayland.context) = preedit
         /\ IF preedit = <<>> THEN Drawn(Flushed, wayland.context) = <<>>
            ELSE Drawn(Flushed, wayland.context) = << <<>>, <<>> >>
<1> DEFINE c == nimf_wayland_ic_emit_commit(preedit)
           p == nimf_wayland_ic_emit_preedit_changed(<<>>)
           id == wayland.context
<1>1. /\ c \in Requests /\ c.id = id /\ c.op = "commit_string" /\ c.text = preedit
      /\ p \in Requests /\ p.id = id /\ p.op = "preedit_string" /\ p.text = <<>>
      /\ preedit \in Text
  <2>1. preedit \in Text /\ <<>> \in Text
    BY DEF TypeInv, ServiceTypes, Text
  <2> QED BY <2>1, EmissionFacts
<1>2. Flushed = IF preedit = <<>> THEN <<>> ELSE <<c, p>>
  BY Zenon DEF Flushed
<1> HIDE DEF c, p
<1>3. CASE preedit = <<>>
  <2>1. Flushed = <<>> /\ Flushed \in Seq(Requests) /\ Len(Flushed) = 0 /\ DOMAIN Flushed = {}
    BY <1>2, <1>3
  <2>2. Texts(Flushed, id) = <<>>
    BY <2>1, TextsFacts
  <2>3. Drawn(Flushed, id) = <<>>
    BY <2>1, DrawnFacts
  <2> QED BY <1>3, <2>1, <2>2, <2>3
<1>4. CASE preedit # <<>>
  <2>1. PICK s, t \in Seq(Requests) : s = <<c>> /\ t = <<p>>
    <3>1. <<c>> \in Seq(Requests) /\ <<p>> \in Seq(Requests)
      BY <1>1
    <3> QED BY <3>1, Zenon
  <2>2. Flushed = s \o t /\ Flushed \in Seq(Requests) /\ Len(Flushed) = 2 /\ Flushed[1] = c /\ Flushed[2] = p
    <3>1. Flushed = <<c, p>>
      BY <1>2, <1>4
    <3>2. <<c, p>> = <<c>> \o <<p>>
      BY PairIs, Zenon
    <3> QED BY <1>1, <2>1, <3>1, <3>2
  <2>3. Texts(s, id) = preedit /\ Texts(t, id) = <<>> /\ Texts(s \o t, id) = Texts(s, id) \o Texts(t, id)
    BY <1>1, <2>1, TextsFacts
  <2>4. /\ Drawn(s, id) = << <<>> >> /\ Drawn(t, id) = << <<>> >>
        /\ Drawn(s \o t, id) = Drawn(s, id) \o Drawn(t, id)
    <3>1. Drawn(s, id) = << <<>> >>
      BY <1>1, <2>1, DrawnFacts
    <3>2. Drawn(t, id) = << <<>> >>
      BY <1>1, <2>1, DrawnFacts
    <3>3. Drawn(s \o t, id) = Drawn(s, id) \o Drawn(t, id)
      BY DrawnFacts
    <3> QED BY <3>1, <3>2, <3>3
  <2>5. preedit \o <<>> = preedit /\ << <<>> >> \o << <<>> >> = << <<>>, <<>> >>
    <3>1. preedit \o <<>> = preedit
      BY <1>1 DEF Text
    <3> QED BY <3>1, PairIs
  <2>6. \A n \in 1 .. Len(Flushed) : Flushed[n] \in {c, p}
    BY <2>2
  <2> QED BY <1>1, <1>4, <2>2, <2>3, <2>4, <2>5, <2>6
<1> QED BY <1>3, <1>4

(* input_method_deactivate: the preedit is committed before destroy.        *)
LEMMA HearsDeactivate ==
  ASSUME TypeInv, LoopInv, IdsInv, ContextsInv, KeyboardInv, input_method_deactivate
  PROVE  TypeInv' /\ LoopInv' /\ HearsOne
<1> DEFINE e == Head(queue)
           r == Request("destroy", wayland.context)
<1>1. /\ e \in Events /\ e.op = "deactivate" /\ e.id = wayland.context /\ wayland.context # 0
      /\ stream = <<e>> \o stream' /\ Dispatched("deactivate")
      /\ UNCHANGED <<toComp, comp, field>>
  <2>1. Dispatched("deactivate")
    BY Zenon DEF input_method_deactivate
  <2> QED BY <2>1, Dispatching DEF StartsAt
<1>2. /\ wayland' = [wayland EXCEPT !.context = 0]
      /\ out' = out \o (Flushed \o <<r>>) /\ preedit' = <<>>
  BY <1>1, Zenon DEF input_method_deactivate, Emits
<1>3. ServiceTypes /\ RequestTypes
  BY DEF TypeInv
<1>4. r \in Requests /\ r.id = wayland.context /\ r.op = "destroy"
  <2>1. wayland.context \in Nat /\ <<>> \in Text
    BY <1>3 DEF ServiceTypes, Text
  <2> QED BY <2>1 DEF Request, Requests, RequestOps
<1>5. PICK f, s, rs : f = Flushed /\ s = <<r>> /\ rs = f \o s
  OBVIOUS
<1>6. /\ f \in Seq(Requests) /\ s \in Seq(Requests) /\ rs \in Seq(Requests) /\ out' = out \o rs
      /\ Len(s) = 1 /\ s[1] = r
      /\ \A n \in 1 .. Len(f) : f[n].id = wayland.context /\ f[n].op \in {"commit_string", "preedit_string"}
  <2>1. f \in Seq(Requests) /\ s \in Seq(Requests)
    BY <1>4, <1>5, FlushedFacts
  <2>2. out' = out \o rs
    BY <1>2, <1>5
  <2> QED BY <1>5, <2>1, <2>2, FlushedFacts
<1>7. /\ ServiceTypes' /\ wayland'.active = wayland.active /\ wayland'.context = 0
      /\ wayland'.modifiers = wayland.modifiers /\ wayland'.state = wayland.state
      /\ wayland'.serial = wayland.serial
  <2>1. preedit' \in Text
    BY <1>2 DEF Text
  <2> QED BY <1>2, <1>3, <2>1 DEF ServiceTypes
<1>8. TypeInv' /\ LoopInv' /\ reqs' = reqs \o rs
  <2>1. wayland'.context <= comp.last
    BY <1>7 DEF TypeInv, CompTypes, Comps
  <2> QED BY <1>1, <1>6, <1>7, <2>1, Requesting
<1>9. Hears(e, rs)
  <2>1. After(e, wayland.context) = 0 /\ Next1(e, wayland.modifiers) = wayland.modifiers
    BY <1>1 DEF After, Next1, Shifts
  <2>2. \A n \in 1 .. Len(rs) : rs[n].id = wayland.context
    BY <1>4, <1>5, <1>6, ConcatElements
  <2> QED BY <1>1, <1>2, <1>6, <1>7, <1>8, <2>1, <2>2 DEF Hears
<1> QED BY <1>8, <1>9 DEF HearsOne

(* input_method_keyboard_key: the key goes back after what was composed,    *)
(* or is composed with it, or both are committed.                           *)
LEMMA HearsKey ==
  ASSUME TypeInv, LoopInv, IdsInv, ContextsInv, KeyboardInv, input_method_keyboard_key
  PROVE  TypeInv' /\ LoopInv' /\ HearsOne
<1> DEFINE e == Head(queue)
           id == wayland.context
           key == <<e.key, wayland.modifiers>>
           back == [Request("key", wayland.context) EXCEPT !.text = <<key>>]
<1>1. /\ e \in Events /\ e.op = "key" /\ e.id = id /\ wayland.state
      /\ stream = <<e>> \o stream' /\ Dispatched("key")
      /\ UNCHANGED <<toComp, comp, field>>
  <2>1. Dispatched("key")
    BY Zenon DEF input_method_keyboard_key
  <2> QED BY <2>1, Dispatching DEF StartsAt
<1>2. ServiceTypes /\ RequestTypes /\ preedit \in Text
  BY DEF TypeInv, ServiceTypes
<1>3. <<key>> \in Text /\ Append(preedit, key) = preedit \o <<key>> /\ preedit \o <<key>> \in Text /\ <<>> \in Text
  <2>1. e.key \in Nat /\ wayland.modifiers \in BOOLEAN
    BY <1>1, <1>2 DEF Events, ServiceTypes
  <2>2. key \in Nat \X BOOLEAN
    BY <2>1
  <2> HIDE DEF key
  <2> QED BY <1>2, <2>2 DEF Text
<1>4. PICK one, more \in Text : one = <<key>> /\ more = preedit \o one /\ Append(preedit, key) = more
  BY <1>3, Zenon
<1>5. /\ wayland' = wayland
      /\ \/ out' = out \o (Flushed \o <<back>>) /\ preedit' = <<>>
         \/ out' = out \o <<nimf_wayland_ic_emit_preedit_changed(more)>> /\ preedit' = more
         \/ /\ out' = out \o <<nimf_wayland_ic_emit_commit(more), nimf_wayland_ic_emit_preedit_changed(<<>>)>>
            /\ preedit' = <<>>
  BY <1>1, <1>4, Zenon DEF input_method_keyboard_key, KeyOf, Emits, Composes, Commits
<1>6. back \in Requests /\ back.id = id /\ back.op = "key" /\ back.text = one
  <2>1. wayland.context \in Nat
    BY <1>2 DEF ServiceTypes
  <2> QED BY <1>4, <2>1 DEF Request, Requests, RequestOps
<1> HIDE DEF key
<1>7. \E rs \in Seq(Requests) :
        /\ out' = out \o rs
        /\ \A n \in 1 .. Len(rs) : rs[n].id = id /\ rs[n].op # "destroy"
        /\ Texts(rs, id) \o preedit' = more
        /\ IF Drawn(rs, id) = <<>> THEN preedit' = preedit ELSE Last(Drawn(rs, id)) = preedit'
  <2>1. CASE out' = out \o (Flushed \o <<back>>) /\ preedit' = <<>>
    <3>1. PICK f, s, rs \in Seq(Requests) : f = Flushed /\ s = <<back>> /\ rs = f \o s
      <4>1. PICK f, s \in Seq(Requests) : f = Flushed /\ s = <<back>>
        <5>1. Flushed \in Seq(Requests) /\ <<back>> \in Seq(Requests)
          BY <1>6, FlushedFacts
        <5> QED BY <5>1, Zenon
      <4>2. f \o s \in Seq(Requests)
        OBVIOUS
      <4> QED BY <4>1, <4>2, Zenon
    <3>2. /\ f \in Seq(Requests)
          /\ \A n \in 1 .. Len(f) : f[n].id = id /\ f[n].op \in {"commit_string", "preedit_string"}
          /\ Texts(f, id) = preedit
          /\ IF preedit = <<>> THEN Drawn(f, id) = <<>> ELSE Drawn(f, id) = << <<>>, <<>> >>
      BY <3>1, FlushedFacts
    <3>3. s \in Seq(Requests) /\ rs \in Seq(Requests) /\ Len(s) = 1 /\ s[1] = back
      BY <1>6, <3>1, <3>2
    <3>4. out' = out \o rs
      BY <2>1, <3>1
    <3>5. \A n \in 1 .. Len(rs) : rs[n].id = id /\ rs[n].op # "destroy"
      <4>1. \A n \in 1 .. Len(rs) : \/ n \in 1 .. Len(f) /\ rs[n] = f[n]
                                    \/ n - Len(f) \in 1 .. Len(s) /\ rs[n] = s[n - Len(f)]
        BY <3>1, <3>2, <3>3, ConcatElements
      <4>2. \A n \in 1 .. Len(s) : s[n] = back
        BY <3>3
      <4> QED BY <1>6, <3>2, <4>1, <4>2
    <3>6. Texts(s, id) = one /\ Drawn(s, id) = <<>>
      <4>1. Texts(<<back>>, id) = one
        BY <1>6, TextsFacts
      <4>2. Drawn(<<back>>, id) = <<>>
        BY <1>6, DrawnFacts
      <4> QED BY <3>1, <4>1, <4>2, Zenon
    <3>7. Texts(rs, id) = more
      <4>1. Texts(f \o s, id) = Texts(f, id) \o Texts(s, id)
        BY TextsFacts
      <4> QED BY <1>4, <3>1, <3>2, <3>6, <4>1
    <3>8. more \o <<>> = more
      BY DEF Text
    <3>9. Drawn(rs, id) = Drawn(f, id) \o <<>>
      <4>1. Drawn(f \o s, id) = Drawn(f, id) \o Drawn(s, id)
        BY DrawnFacts
      <4> QED BY <3>1, <3>6, <4>1
    <3>10. <<>> \o <<>> = <<>> /\ << <<>>, <<>> >> \o <<>> = << <<>>, <<>> >> /\ Last(<< <<>>, <<>> >>) = <<>>
           /\ << <<>>, <<>> >> # <<>>
      BY DEF Last
    <3>11. IF Drawn(rs, id) = <<>> THEN preedit' = preedit ELSE Last(Drawn(rs, id)) = preedit'
      BY <2>1, <3>2, <3>9, <3>10
    <3>12. Texts(rs, id) \o preedit' = more
      BY <2>1, <3>7, <3>8
    <3> QED BY <3>4, <3>5, <3>11, <3>12, Zenon
  <2>2. CASE out' = out \o <<nimf_wayland_ic_emit_preedit_changed(more)>> /\ preedit' = more
    <3>1. PICK r : r = nimf_wayland_ic_emit_preedit_changed(more)
      OBVIOUS
    <3>2. r \in Requests /\ r.id = id /\ r.op = "preedit_string" /\ r.text = more
      BY <3>1, EmissionFacts
    <3>3. PICK rs \in Seq(Requests) : rs = <<r>> /\ Len(rs) = 1 /\ rs[1] = r
      <4>1. <<r>> \in Seq(Requests) /\ Len(<<r>>) = 1 /\ <<r>>[1] = r
        BY <3>2
      <4> QED BY <4>1, Zenon
    <3>4. Texts(rs, id) = <<>> /\ Drawn(rs, id) = <<more>>
      BY <3>2, <3>3, TextsFacts, DrawnFacts
    <3>5. <<>> \o more = more /\ <<more>> # <<>> /\ Last(<<more>>) = more
      BY DEF Text, Last
    <3>6. \A n \in 1 .. Len(rs) : rs[n] = r
      BY <3>3
    <3> QED BY <2>2, <3>1, <3>2, <3>3, <3>4, <3>5, <3>6
  <2>3. CASE /\ out' = out \o <<nimf_wayland_ic_emit_commit(more), nimf_wayland_ic_emit_preedit_changed(<<>>)>>
             /\ preedit' = <<>>
    <3>1. PICK c, p : c = nimf_wayland_ic_emit_commit(more) /\ p = nimf_wayland_ic_emit_preedit_changed(<<>>)
      OBVIOUS
    <3>2. /\ c \in Requests /\ c.id = id /\ c.op = "commit_string" /\ c.text = more
          /\ p \in Requests /\ p.id = id /\ p.op = "preedit_string" /\ p.text = <<>>
      BY <1>3, <3>1, EmissionFacts
    <3>3. PICK s, t, rs \in Seq(Requests) :
            s = <<c>> /\ t = <<p>> /\ rs = s \o t /\ rs = <<c, p>> /\ Len(rs) = 2 /\ rs[1] = c /\ rs[2] = p
      <4>1. <<c>> \in Seq(Requests) /\ <<p>> \in Seq(Requests) /\ <<c, p>> \in Seq(Requests)
            /\ Len(<<c, p>>) = 2 /\ <<c, p>>[1] = c /\ <<c, p>>[2] = p
        BY <3>2
      <4>2. <<c, p>> = <<c>> \o <<p>>
        BY PairIs, Zenon
      <4> QED BY <4>1, <4>2, Zenon
    <3>4. Texts(s, id) = more /\ Texts(t, id) = <<>> /\ Drawn(s, id) = << <<>> >> /\ Drawn(t, id) = << <<>> >>
      BY <3>2, <3>3, TextsFacts, DrawnFacts
    <3>5. Texts(rs, id) = more \o <<>> /\ Drawn(rs, id) = << <<>> >> \o << <<>> >>
      <4>1. Texts(s \o t, id) = Texts(s, id) \o Texts(t, id)
        BY TextsFacts
      <4>2. Drawn(s \o t, id) = Drawn(s, id) \o Drawn(t, id)
        BY DrawnFacts
      <4> QED BY <3>3, <3>4, <4>1, <4>2
    <3>6. more \o <<>> = more /\ << <<>> >> \o << <<>> >> = << <<>>, <<>> >> /\ Last(<< <<>>, <<>> >>) = <<>>
           /\ << <<>>, <<>> >> # <<>>
      <4>1. more \o <<>> = more
        BY DEF Text
      <4>2. Last(<< <<>>, <<>> >>) = <<>> /\ << <<>>, <<>> >> # <<>>
        BY DEF Last
      <4> QED BY <4>1, <4>2, PairIs
    <3>7. \A n \in 1 .. Len(rs) : rs[n] \in {c, p}
      BY <3>3
    <3> QED BY <2>3, <3>1, <3>2, <3>3, <3>5, <3>6, <3>7
  <2> QED BY <1>5, <2>1, <2>2, <2>3
<1>8. PICK rs \in Seq(Requests) :
        /\ out' = out \o rs
        /\ \A n \in 1 .. Len(rs) : rs[n].id = id /\ rs[n].op # "destroy"
        /\ Texts(rs, id) \o preedit' = more
        /\ IF Drawn(rs, id) = <<>> THEN preedit' = preedit ELSE Last(Drawn(rs, id)) = preedit'
  BY <1>7
<1>9. preedit' \in Text /\ ServiceTypes'
  BY <1>2, <1>3, <1>5 DEF ServiceTypes
<1>10. TypeInv' /\ LoopInv' /\ reqs' = reqs \o rs
  <2>1. wayland'.context <= comp.last
    BY <1>5 DEF LoopInv, TypeOK
  <2> QED BY <1>1, <1>5, <1>8, <1>9, <2>1, Requesting
<1>11. Hears(e, rs)
  <2>1. After(e, wayland.context) = wayland.context /\ Next1(e, wayland.modifiers) = wayland.modifiers
    BY <1>1 DEF After, Next1, Shifts
  <2>2. Texts(rs, wayland.context) \o preedit' = preedit \o << <<e.key, wayland.modifiers>> >>
    BY <1>4, <1>8 DEF key
  <2> HIDE DEF e
  <2> QED BY <1>1, <1>5, <1>8, <1>10, <2>1, <2>2 DEF Hears
<1> QED BY <1>10, <1>11 DEF HearsOne

(* The listeners keep the invariant.                                        *)
LEMMA Listening ==
  Inv /\ Listener => Inv'
<1> SUFFICES ASSUME Inv, Listener PROVE Inv'
  OBVIOUS
<1>1. TypeInv' /\ LoopInv' /\ HearsOne
  BY HearsOthers, HearsModifiers, HearsActivate, HearsDeactivate, HearsKey, Zenon DEF Listener, Inv
<1>2. PICK e, rs : Hears(e, rs)
  BY <1>1 DEF HearsOne
<1>3. ContextsInv' /\ StartsAt(e, wayland.context)
  BY <1>1, <1>2, HeardContexts DEF Inv
<1>4. IdsInv' /\ KeyboardInv' /\ UngrabbedInv' /\ ArrivingInv' /\ SerialInv'
  BY <1>1, <1>2, <1>3, HeardIds, HeardKeyboard, HeardUngrabbed, HeardArriving, HeardSerial DEF Inv
<1>5. KeysInOrder' /\ PreeditShown'
  BY <1>1, <1>2, <1>3, HeardKeys, HeardPreedit DEF Inv
<1> QED BY <1>1, <1>3, <1>4, <1>5 DEF Inv

(* The main loop keeps the invariant.                                       *)
LEMMA Looping ==
  ASSUME Inv, Loops PROVE Inv'
<1>1. /\ TypeInv' /\ LoopInv'
      /\ stream' = stream /\ preedit' = preedit /\ comp' = comp /\ field' = field
      /\ reqs' = reqs \/ (~ comp.alive /\ out' = <<>> /\ toComp' = toComp)
      /\ wayland'.context = wayland.context /\ wayland'.serial = wayland.serial
      /\ wayland'.state = wayland.state /\ wayland'.modifiers = wayland.modifiers
  BY LoopsInv DEF Inv
<1>2. ContextsInv' /\ KeyboardInv'
  <2>1. ContextsInv'
    BY <1>1 DEF Inv, ContextsInv
  <2>2. KeyboardInv'
    BY <1>1 DEF Inv, KeyboardInv, HasKeymap
  <2> QED BY <2>1, <2>2
<1>3. CASE reqs' = reqs
  <2>1. IdsInv'
    <3>1. comp'.alive \/ (comp'.active = 0 /\ toComp' = <<>>)
      <4>1. toComp' = <<>> \/ comp.alive
        <5>1. reqs' \in Seq(Requests) /\ toComp' \in Seq(Requests) /\ out' \in Seq(Requests)
          BY <1>1 DEF TypeInv, RequestTypes, reqs
        <5> QED BY <1>1, Zenon DEF Inv, IdsInv, Loops
      <4> QED BY <1>1, <4>1 DEF Inv, IdsInv
    <3> QED BY <1>1, <1>3, <3>1 DEF Inv, IdsInv
  <2>2. UngrabbedInv' /\ ArrivingInv'
    BY <1>1, <1>3 DEF Inv, UngrabbedInv, ArrivingInv
  <2>3. SerialInv'
    BY <1>1 DEF Inv, SerialInv, Base
  <2>4. KeysInOrder' /\ PreeditShown'
    BY <1>1, <1>3 DEF Inv, KeysInOrder, PreeditShown, stream, reqs
  <2> QED BY <1>1, <1>2, <2>1, <2>2, <2>3, <2>4 DEF Inv
<1>4. CASE ~ comp.alive /\ out' = <<>> /\ toComp' = toComp
  <2>1. comp'.active = 0 /\ toComp' = <<>> /\ reqs' = <<>>
    BY <1>1, <1>4 DEF Inv, IdsInv, reqs
  <2>2. IdsInv'
    BY <1>1, <1>4, <2>1 DEF Inv, IdsInv
  <2>3. UngrabbedInv' /\ ArrivingInv'
    BY <1>1, <2>1 DEF Inv, UngrabbedInv, ArrivingInv
  <2>4. SerialInv' /\ KeysInOrder' /\ PreeditShown'
    BY <2>1 DEF SerialInv, KeysInOrder, PreeditShown
  <2> QED BY <1>1, <1>2, <2>2, <2>3, <2>4 DEF Inv
<1> QED BY <1>1, <1>3, <1>4

-----------------------------------------------------------------------------
\* t is s and the event e after it.
Added(t, s, e) ==
  /\ s \in Seq(Events) /\ e \in Events /\ t = s \o <<e>>
  /\ t \in Seq(Events) /\ Len(t) = Len(s) + 1 /\ t[Len(s) + 1] = e
  /\ \A n \in 1 .. Len(s) : n \in 1 .. Len(t) /\ t[n] = s[n]
  /\ \A n \in 1 .. Len(t) : (n \in 1 .. Len(s) /\ t[n] = s[n]) \/ (n = Len(s) + 1 /\ t[n] = e)
  /\ \A n \in 1 .. Len(s) + 1 : HasKeymap(s, n) => HasKeymap(t, n)
  /\ HasKeymap(s, Len(s) + 1) \/ e.op = "keymap" => HasKeymap(t, Len(t) + 1)

(* Such a t has the keymaps of s, and that of e.                            *)
LEMMA Appended ==
  ASSUME NEW s \in Seq(Events), NEW e \in Events, NEW t, t = s \o <<e>>
  PROVE  Added(t, s, e)
<1>1. /\ t \in Seq(Events) /\ Len(t) = Len(s) + 1 /\ t[Len(s) + 1] = e
      /\ \A n \in 1 .. Len(s) : n \in 1 .. Len(t) /\ t[n] = s[n]
  OBVIOUS
<1>2. ASSUME NEW n \in 1 .. Len(s) + 1, HasKeymap(s, n) PROVE HasKeymap(t, n)
  <2>1. CASE wayland.state
    BY <2>1 DEF HasKeymap
  <2>2. CASE ~ wayland.state
    <3>1. PICK m \in 1 .. n - 1 : s[m].op = "keymap"
      BY <1>2, <2>2 DEF HasKeymap
    <3>2. m \in 1 .. Len(s)
      BY <1>2
    <3> QED BY <1>1, <3>1, <3>2 DEF HasKeymap
  <2> QED BY <2>1, <2>2
<1>3. HasKeymap(s, Len(s) + 1) => HasKeymap(t, Len(t) + 1)
  <2>1. PICK n, p \in Nat : n = Len(s) + 1 /\ p = n + 1 /\ p = Len(t) + 1
    BY <1>1
  <2>2. HasKeymap(s, n) => HasKeymap(t, n)
    BY <1>2, <2>1
  <2>3. ASSUME HasKeymap(t, n) PROVE HasKeymap(t, p)
    <3>1. CASE wayland.state
      BY <3>1 DEF HasKeymap
    <3>2. CASE ~ wayland.state
      <4>1. PICK m \in 1 .. n - 1 : t[m].op = "keymap"
        BY <2>3, <3>2 DEF HasKeymap
      <4>2. m \in 1 .. p - 1
        BY <2>1
      <4> QED BY <4>1, <4>2 DEF HasKeymap
    <3> QED BY <3>1, <3>2
  <2> QED BY <2>1, <2>2, <2>3
<1>4. e.op = "keymap" => HasKeymap(t, Len(t) + 1)
  <2>1. Len(s) + 1 \in 1 .. Len(t) + 1 - 1
    BY <1>1
  <2> QED BY <1>1, <2>1 DEF HasKeymap
<1>5. \A n \in 1 .. Len(t) : (n \in 1 .. Len(s) /\ t[n] = s[n]) \/ (n = Len(s) + 1 /\ t[n] = e)
  <2> TAKE n \in 1 .. Len(t)
  <2>1. n \in 1 .. Len(s) \/ n = Len(s) + 1
    BY <1>1
  <2> QED BY <1>1, <2>1
<1> QED BY <1>1, <1>2, <1>3, <1>4, <1>5, Zenon DEF Added

(* Two events sent together are sent one after the other.                   *)
LEMMA TwoAdded ==
  ASSUME NEW s \in Seq(Events), NEW e1 \in Events, NEW e2 \in Events, NEW t, t = s \o <<e1, e2>>
  PROVE  \E u : Added(u, s, e1) /\ Added(t, u, e2)
<1>1. PICK u \in Seq(Events) : u = s \o <<e1>> /\ s \o <<e1, e2>> = u \o <<e2>>
  <2>1. <<e1>> \in Seq(Events) /\ <<e2>> \in Seq(Events)
    OBVIOUS
  <2>2. PICK a, b \in Seq(Events) : a = <<e1>> /\ b = <<e2>>
    BY <2>1, Zenon
  <2>3. a \o b = <<e1, e2>>
    BY <2>2, PairIs, Zenon
  <2>4. s \o a \in Seq(Events) /\ (s \o a) \o b = s \o (a \o b)
    OBVIOUS
  <2> QED BY <2>2, <2>3, <2>4, Zenon
<1>2. t = u \o <<e2>>
  BY <1>1
<1>3. Added(u, s, e1)
  BY <1>1, Appended, Zenon
<1>4. Added(t, u, e2)
  BY <1>2, Appended, Zenon
<1> QED BY <1>3, <1>4

\* What the events on their way have in common, whatever the fields hold.
StreamInv(s) ==
  /\ \E last \in Nat : Leads(s, wayland.context, last) /\ (comp.alive => last = comp.active)
  /\ \A n \in 1 .. Len(s) : s[n].id <= comp.last /\ (s[n].op = "deactivate" => s[n].id # comp.active)
  /\ \A n \in 1 .. Len(s) : s[n].op = "key" => HasKeymap(s, n)

(* The invariant says so of the stream.                                     *)
LEMMA StreamFacts == Inv => StreamInv(stream)
  BY DEF Inv, IdsInv, ContextsInv, KeyboardInv, StreamInv

(* An event for the active context keeps StreamInv.                         *)
LEMMA StreamGrows ==
  ASSUME NEW s, NEW e, NEW t, Added(t, s, e), StreamInv(s),
         comp.alive, comp.active # 0, e.id = comp.active, comp.active <= comp.last,
         e.op \notin {"activate", "deactivate"},
         e.op = "key" => HasKeymap(s, Len(s) + 1)
  PROVE  StreamInv(t)
<1>1. s \in Seq(Events) /\ e \in Events /\ t = s \o <<e>>
  BY DEF Added
<1>2. /\ t \in Seq(Events) /\ Len(t) = Len(s) + 1 /\ t[Len(s) + 1] = e
      /\ \A n \in 1 .. Len(s) : n \in 1 .. Len(t) /\ t[n] = s[n]
      /\ \A n \in 1 .. Len(s) + 1 : HasKeymap(s, n) => HasKeymap(t, n)
  BY DEF Added
<1>3. Leads(t, wayland.context, comp.active) /\ comp.active \in Nat
  <2>1. Leads(s, wayland.context, comp.active) /\ comp.active \in Nat
    BY DEF StreamInv
  <2>2. StartsAt(e, comp.active) /\ After(e, comp.active) = comp.active
    BY DEF StartsAt, After
  <2> QED BY <1>1, <2>1, <2>2, LeadsAppend
<1>4. \A n \in 1 .. Len(t) : \/ n \in 1 .. Len(s) /\ t[n] = s[n]
                             \/ n = Len(s) + 1 /\ t[n] = e
  BY DEF Added
<1>5. \A n \in 1 .. Len(t) : t[n].id <= comp.last /\ (t[n].op = "deactivate" => t[n].id # comp.active)
  BY <1>4 DEF StreamInv
<1>6. \A n \in 1 .. Len(t) : t[n].op = "key" => HasKeymap(t, n)
  <2> TAKE n \in 1 .. Len(t)
  <2>1. n \in 1 .. Len(s) + 1
    BY <1>2
  <2>2. CASE n \in 1 .. Len(s) /\ t[n] = s[n]
    BY <1>2, <2>1, <2>2 DEF StreamInv
  <2>3. CASE n = Len(s) + 1 /\ t[n] = e
    BY <1>2, <2>1, <2>3
  <2> QED BY <1>4, <2>2, <2>3
<1> QED BY <1>1, <1>3, <1>5, <1>6 DEF StreamInv

(* Events that lead on are each for a context.                              *)
LEMMA LeadsIds ==
  ASSUME NEW s, NEW first, NEW last, Leads(s, first, last)
  PROVE  \A n \in 1 .. Len(s) : s[n].id # 0
  BY DEF Leads, StartsAt

(* The compositor's steps: types, and the stream with what it sends.        *)
LEMMA Sending ==
  ASSUME TypeInv, LoopInv, UNCHANGED service, NEW es \in Seq(Events), Sends(es),
         toComp' \in Seq(Requests), CompTypes', FieldTypes', comp.last <= comp'.last
  PROVE  /\ TypeInv' /\ LoopInv' /\ stream' = stream \o es /\ stream \in Seq(Events)
         /\ UNCHANGED <<wayland, preedit, out>>
<1>1. UNCHANGED <<phase, reading, intents, wayland, preedit, queue, out>> /\ toIM' = toIM \o es
  BY Zenon DEF service, Sends
<1>2. EventTypes' /\ stream' = stream \o es /\ stream \in Seq(Events)
  <2>1. queue \in Seq(Events) /\ toIM \in Seq(Events)
    BY DEF TypeInv, EventTypes
  <2>2. toIM \o es \in Seq(Events) /\ queue \o (toIM \o es) = (queue \o toIM) \o es
        /\ queue \o toIM \in Seq(Events)
    BY <2>1
  <2> QED BY <1>1, <2>1, <2>2 DEF EventTypes, stream
<1>3. TypeInv'
  BY <1>1, <1>2 DEF TypeInv, LoopTypes, ServiceTypes, RequestTypes
<1>4. LoopInv'
  <2>1. wayland'.context \in 0 .. comp'.last
    BY <1>1 DEF LoopInv, TypeOK, TypeInv, CompTypes, Comps, ServiceTypes
  <2> QED BY <1>1, <2>1 DEF LoopInv, TypeOK
<1> QED BY <1>1, <1>2, <1>3, <1>4

(* The types of the parts, one by one.                                      *)
LEMMA WorldTypes ==
  ASSUME TypeInv
  PROVE  /\ comp.active \in Nat /\ comp.last \in Nat /\ comp.grab \in Nat /\ comp.shift \in BOOLEAN
         /\ field.text \in Text /\ field.shown \in Text /\ field.typed \in Text /\ field.serial \in Nat
         /\ wayland.context \in Nat /\ wayland.modifiers \in BOOLEAN /\ wayland.serial \in Nat
         /\ preedit \in Text /\ toComp \in Seq(Requests) /\ out \in Seq(Requests)
         /\ stream \in Seq(Events) /\ reqs \in Seq(Requests)
         /\ <<>> \in Text /\ Empty \in [text : Text, shown : Text, typed : Text, serial : Nat]
<1>1. <<>> \in Text
  BY DEF Text
<1> QED BY <1>1, SequenceTypes DEF TypeInv, CompTypes, Comps, FieldTypes, ServiceTypes, RequestTypes, Empty

(* Events made by Event have its operation and context.                     *)
LEMMA EventFacts ==
  \A op \in EventOps, id \in Nat : /\ Event(op, id) \in Events
                                   /\ Event(op, id).op = op /\ Event(op, id).id = id
  BY DEF Event, Events

(* One event, as a sequence.                                                *)
LEMMA OneEvent == \A e \in Events : <<e>> \in Seq(Events) /\ Len(<<e>>) = 1 /\ <<e>>[1] = e
  OBVIOUS

(* Enter keeps the invariant: the activation leads on from no context, and  *)
(* nothing is on its way for the new one.                                   *)
LEMMA Entering ==
  ASSUME Inv, Enter PROVE Inv'
<1> DEFINE id == comp.last + 1
           e == Event("activate", id)
<1>1. /\ comp.alive /\ comp.active = 0
      /\ comp' = [comp EXCEPT !.active = comp.last + 1, !.last = @ + 1]
      /\ Sends(<<e>>) /\ UNCHANGED service /\ toComp' = toComp /\ field' = field
  BY Zenon DEF Enter
<1>2. TypeInv /\ LoopInv /\ IdsInv
  BY DEF Inv
<1>3. /\ CompTypes' /\ comp'.active = id /\ comp'.last = id /\ comp'.grab = comp.grab
      /\ comp'.shift = comp.shift /\ comp'.alive /\ id \in Nat /\ id # 0 /\ comp.last <= id /\ ~ id <= comp.last
  <2>1. comp \in Comps
    BY <1>2 DEF TypeInv, CompTypes
  <2>2. PICK n \in Nat : n = id /\ comp' = [comp EXCEPT !.active = n, !.last = n]
    <3>1. comp.last + 1 \in Nat
      BY <2>1 DEF Comps
    <3> QED BY <1>1, <3>1
  <2>3. /\ comp' \in Comps /\ comp'.active = n /\ comp'.last = n /\ comp'.grab = comp.grab
        /\ comp'.shift = comp.shift /\ comp'.alive = comp.alive /\ comp.last \in Nat
    BY <2>1, <2>2 DEF Comps
  <2>4. id \in Nat /\ id # 0 /\ comp.last <= id /\ ~ id <= comp.last
    BY <2>3
  <2> HIDE DEF id
  <2> QED BY <1>1, <2>2, <2>3, <2>4 DEF CompTypes
<1>4. comp.grab = 0 /\ field = Empty /\ wayland.context <= comp.last
  BY <1>1, <1>2 DEF IdsInv, LoopInv, TypeOK
<1>5. e \in Events /\ e.op = "activate" /\ e.id = id /\ <<e>> \in Seq(Events)
  BY <1>3, EventFacts, OneEvent DEF EventOps
<1> HIDE DEF e, id
<1>6. /\ TypeInv' /\ LoopInv' /\ stream' = stream \o <<e>> /\ stream \in Seq(Events)
      /\ UNCHANGED <<wayland, preedit, out>>
  <2>1. FieldTypes' /\ toComp' \in Seq(Requests)
    BY <1>1, <1>2 DEF TypeInv, FieldTypes, RequestTypes
  <2> QED BY <1>1, <1>2, <1>3, <1>5, <2>1, Sending
<1>7. reqs' = reqs /\ reqs \in Seq(Requests)
  BY <1>1, <1>2, <1>6, WorldTypes DEF reqs
<1>8. /\ stream' \in Seq(Events) /\ Len(stream') = Len(stream) + 1
      /\ \A n \in 1 .. Len(stream') : \/ n \in 1 .. Len(stream) /\ stream'[n] = stream[n]
                                      \/ n = Len(stream) + 1 /\ stream'[n] = e
      /\ \A n \in 1 .. Len(stream) + 1 : HasKeymap(stream, n) => HasKeymap(stream', n)
  <2>1. Added(stream', stream, e)
    BY <1>5, <1>6, Appended, Zenon
  <2> QED BY <2>1 DEF Added
<1>9. IdsInv'
  <2>1. \A n \in 1 .. Len(stream') :
          stream'[n].id <= id /\ (stream'[n].op = "deactivate" => stream'[n].id # id)
    <3>1. \A n \in 1 .. Len(stream) : stream[n] \in Events /\ stream[n].id <= comp.last
      BY <1>2, <1>6 DEF IdsInv
    <3>2. \A n \in 1 .. Len(stream) : stream[n].id <= id /\ stream[n].id # id
      <4> TAKE n \in 1 .. Len(stream)
      <4>1. stream[n].id \in Nat /\ stream[n].id <= comp.last /\ comp.last \in Nat
        BY <3>1, <1>2, WorldTypes DEF Events
      <4> QED BY <4>1, <1>3 DEF id
    <3> QED BY <1>3, <1>5, <1>8, <3>2
  <2>2. \A n \in 1 .. Len(reqs) :
          reqs[n].id # 0 /\ reqs[n].id <= id /\ reqs[n].id # id
    <3> TAKE n \in 1 .. Len(reqs)
    <3>1. reqs[n] \in Requests /\ reqs[n].id # 0 /\ reqs[n].id <= comp.last
      BY <1>2, <1>7 DEF IdsInv
    <3>2. reqs[n].id \in Nat /\ comp.last \in Nat
      BY <3>1, <1>2, WorldTypes DEF Requests
    <3> QED BY <3>1, <3>2, <1>3 DEF id
  <2> QED BY <1>3, <1>7, <2>1, <2>2 DEF IdsInv
<1>10. \A n \in 1 .. Len(stream') : ~ (stream'[n].op = "key" /\ stream'[n].id = id)
  <2>1. \A n \in 1 .. Len(stream) : stream[n].id # id
    <3> TAKE n \in 1 .. Len(stream)
    <3>1. stream[n] \in Events /\ stream[n].id <= comp.last
      BY <1>2, <1>6 DEF IdsInv
    <3> QED BY <3>1, <1>3
  <2> QED BY <1>5, <1>8, <2>1
<1>11. ContextsInv'
  <2>1. Leads(stream, wayland.context, 0)
    BY <1>1 DEF Inv, ContextsInv
  <2>2. StartsAt(e, 0) /\ After(e, 0) = id
    BY <1>3, <1>5 DEF StartsAt, After
  <2>3. Leads(stream', wayland.context, id)
    BY <1>5, <1>6, <2>1, <2>2, LeadsAppend
  <2> QED BY <1>3, <1>6, <2>3 DEF ContextsInv
<1>12. KeyboardInv'
  <2>1. \A n \in 1 .. Len(stream') : stream'[n].op = "key" => HasKeymap(stream', n)
    <3> TAKE n \in 1 .. Len(stream')
    <3>1. n \in 1 .. Len(stream) /\ stream[n].op = "key" => HasKeymap(stream, n)
      BY DEF Inv, KeyboardInv
    <3>2. n \in 1 .. Len(stream) + 1
      BY <1>6, <1>8
    <3> QED BY <1>5, <1>8, <3>1, <3>2
  <2>2. \A n \in 1 .. Len(stream') : HasKeymap(stream', n) => HasKeymap(stream, n)'
    BY <1>6 DEF HasKeymap
  <2> QED BY <1>3, <1>4, <2>1, <2>2 DEF KeyboardInv
<1>13. \A n \in 1 .. Len(reqs) : reqs[n].id # id
  <2> TAKE n \in 1 .. Len(reqs)
  <2>1. reqs[n] \in Requests /\ reqs[n].id <= comp.last
    BY <1>2, <1>7 DEF IdsInv
  <2> QED BY <2>1, <1>3
<1>14. wayland'.context # id
  BY <1>3, <1>4, <1>6
<1>15. UngrabbedInv' /\ ArrivingInv'
  <2>1. field'.shown = <<>>
    BY <1>1, <1>4 DEF Empty
  <2>2. wayland'.context = 0 => preedit' = <<>>
    BY <1>6 DEF Inv, ArrivingInv
  <2> QED BY <1>3, <1>4, <1>7, <1>10, <1>13, <1>14, <2>1, <2>2 DEF UngrabbedInv, ArrivingInv
<1>16. SerialInv'
  <2>1. Serials(stream, id) = <<>>
    <3>1. \A n \in DOMAIN stream : stream[n].id # id
      <4>1. DOMAIN stream = 1 .. Len(stream)
        BY <1>6
      <4> TAKE n \in DOMAIN stream
      <4>2. stream[n] \in Events /\ stream[n].id <= comp.last
        BY <4>1, <1>2, <1>6 DEF IdsInv
      <4> QED BY <4>2, <1>3
    <3> QED BY <1>6, <3>1, SerialsFacts
  <2>2. Serials(<<e>>, id) = <<>>
    BY <1>5, SerialsFacts
  <2>3. Serials(stream', id) = <<>>
    <3>1. Serials(stream \o <<e>>, id) = Serials(stream, id) \o Serials(<<e>>, id)
      BY <1>5, <1>6, SerialsFacts
    <3> QED BY <1>6, <2>1, <2>2, <3>1
  <2>4. Base' = 0 /\ field'.serial = 0
    BY <1>1, <1>3, <1>4, <1>14 DEF Base, Empty
  <2> QED BY <1>3, <2>3, <2>4 DEF SerialInv
<1>17. KeysInOrder'
  <2>1. Texts(reqs', id) = <<>>
    <3>1. \A n \in DOMAIN reqs : reqs[n].id # id
      BY <1>7, <1>13
    <3> QED BY <1>7, <3>1, TextsFacts
  <2>2. KeysIn(stream', id, wayland'.modifiers) = <<>>
    <3>1. wayland'.modifiers \in BOOLEAN
      BY <1>6 DEF TypeInv, ServiceTypes
    <3> QED BY <1>8, <1>10, <3>1, KeysNone
  <2>3. Joined(<<>>, <<>>, <<>>, <<>>) = <<>>
    BY DEF Joined, Joins
  <2>4. field'.text = <<>> /\ field'.typed = <<>>
    BY <1>1, <1>4 DEF Empty
  <2> QED BY <1>3, <1>14, <2>1, <2>2, <2>3, <2>4 DEF KeysInOrder, Joined, Joins, stream, reqs
<1>18. PreeditShown'
  BY <1>3, <1>14 DEF PreeditShown
<1> QED BY <1>6, <1>9, <1>11, <1>12, <1>15, <1>16, <1>17, <1>18 DEF Inv

(* Leave keeps the invariant: the deactivation leads to no context.         *)
LEMMA Leaving ==
  ASSUME Inv, Leave PROVE Inv'
<1> DEFINE id == comp.active
           e == Event("deactivate", id)
<1>1. /\ comp.alive /\ id # 0 /\ comp' = [comp EXCEPT !.active = 0, !.grab = 0]
      /\ Sends(<<e>>) /\ UNCHANGED service /\ toComp' = toComp /\ field' = Empty
  BY Zenon DEF Leave
<1>2. TypeInv /\ LoopInv /\ IdsInv
  BY DEF Inv
<1>3. /\ CompTypes' /\ comp'.active = 0 /\ comp'.last = comp.last /\ comp'.grab = 0
      /\ comp'.alive /\ id \in Nat /\ id <= comp.last /\ comp.last <= comp'.last
  <2>1. comp \in Comps /\ id <= comp.last
    BY <1>2 DEF TypeInv, CompTypes, IdsInv
  <2>2. PICK n, m \in Nat : n = 0 /\ m = 0 /\ comp' = [comp EXCEPT !.active = n, !.grab = m]
    BY <1>1
  <2>3. /\ comp' \in Comps /\ comp'.active = n /\ comp'.last = comp.last /\ comp'.grab = m
        /\ comp'.alive = comp.alive /\ comp.last \in Nat /\ id \in Nat
    BY <2>1, <2>2 DEF Comps
  <2> QED BY <1>1, <2>1, <2>2, <2>3 DEF CompTypes
<1>4. e \in Events /\ e.op = "deactivate" /\ e.id = id /\ <<e>> \in Seq(Events)
  BY <1>3, EventFacts, OneEvent DEF EventOps
<1> HIDE DEF e
<1>5. /\ TypeInv' /\ LoopInv' /\ stream' = stream \o <<e>> /\ stream \in Seq(Events)
      /\ UNCHANGED <<wayland, preedit, out>>
  <2>1. FieldTypes' /\ toComp' \in Seq(Requests)
    BY <1>1, <1>2, WorldTypes DEF FieldTypes
  <2> QED BY <1>1, <1>2, <1>3, <1>4, <2>1, Sending
<1>6. reqs' = reqs /\ reqs \in Seq(Requests)
  BY <1>1, <1>2, <1>5, WorldTypes DEF reqs
<1>7. /\ stream' \in Seq(Events) /\ Len(stream') = Len(stream) + 1
      /\ \A n \in 1 .. Len(stream') : \/ n \in 1 .. Len(stream) /\ stream'[n] = stream[n]
                                      \/ n = Len(stream) + 1 /\ stream'[n] = e
      /\ \A n \in 1 .. Len(stream) + 1 : HasKeymap(stream, n) => HasKeymap(stream', n)
  <2>1. Added(stream', stream, e)
    BY <1>4, <1>5, Appended, Zenon
  <2> QED BY <2>1 DEF Added
<1>8. Leads(stream, wayland.context, id)
  BY <1>1 DEF Inv, ContextsInv
<1>9. IdsInv'
  <2>1. \A n \in 1 .. Len(stream) : stream[n].id # 0 /\ stream[n].id <= comp.last
    BY <1>2, <1>8, LeadsIds DEF IdsInv
  <2>2. \A n \in 1 .. Len(stream') : stream'[n].id # 0 /\ stream'[n].id <= comp.last
    BY <1>1, <1>3, <1>4, <1>7, <2>1
  <2>3. \A n \in 1 .. Len(reqs) : reqs[n].id # 0 /\ reqs[n].id <= comp.last
    BY <1>2 DEF IdsInv
  <2>4. 0 <= comp.last
    BY <1>2, WorldTypes
  <2> QED BY <1>1, <1>3, <1>6, <2>2, <2>3, <2>4 DEF IdsInv
<1>10. ContextsInv'
  <2>1. StartsAt(e, id) /\ After(e, id) = 0
    BY <1>1, <1>4 DEF StartsAt, After
  <2>2. Leads(stream', wayland.context, 0)
    BY <1>3, <1>4, <1>5, <1>8, <2>1, LeadsAppend
  <2> QED BY <1>3, <1>5, <2>2 DEF ContextsInv
<1>11. KeyboardInv'
  <2>1. \A n \in 1 .. Len(stream') : stream'[n].op = "key" => HasKeymap(stream', n)
    <3> TAKE n \in 1 .. Len(stream')
    <3>1. n \in 1 .. Len(stream) /\ stream[n].op = "key" => HasKeymap(stream, n)
      BY DEF Inv, KeyboardInv
    <3>2. n \in 1 .. Len(stream) + 1
      BY <1>5, <1>7
    <3> QED BY <1>4, <1>7, <3>1, <3>2
  <2>2. \A n \in 1 .. Len(stream') : HasKeymap(stream', n) => HasKeymap(stream, n)'
    BY <1>5 DEF HasKeymap
  <2> QED BY <1>3, <2>1, <2>2 DEF KeyboardInv
<1>12. UngrabbedInv' /\ ArrivingInv'
  <2>1. wayland'.context = 0 => preedit' = <<>>
    BY <1>5 DEF Inv, ArrivingInv
  <2> QED BY <1>3, <2>1 DEF UngrabbedInv, ArrivingInv
<1>13. SerialInv' /\ KeysInOrder' /\ PreeditShown'
  BY <1>3 DEF SerialInv, KeysInOrder, PreeditShown
<1> QED BY <1>5, <1>9, <1>10, <1>11, <1>12, <1>13 DEF Inv

(* The death of the compositor keeps the invariant: what it has sent still  *)
(* leads on.                                                                *)
LEMMA Dying ==
  ASSUME Inv, CompositorDies PROVE Inv'
<1>1. /\ comp.alive /\ comp' = [comp EXCEPT !.alive = FALSE, !.active = 0]
      /\ toIM' = toIM /\ UNCHANGED service /\ toComp' = <<>> /\ field' = Empty
  BY Zenon DEF CompositorDies
<1>2. TypeInv /\ LoopInv /\ IdsInv
  BY DEF Inv
<1>3. /\ CompTypes' /\ comp'.active = 0 /\ comp'.last = comp.last /\ ~ comp'.alive
      /\ comp.last \in Nat /\ comp.last <= comp'.last
  <2>1. comp \in Comps
    BY <1>2 DEF TypeInv, CompTypes
  <2>2. PICK n \in Nat, b \in BOOLEAN : n = 0 /\ b = FALSE /\ comp' = [comp EXCEPT !.alive = b, !.active = n]
    BY <1>1
  <2>3. /\ comp' \in Comps /\ comp'.active = n /\ comp'.last = comp.last /\ comp'.alive = b /\ comp.last \in Nat
    BY <2>1, <2>2 DEF Comps
  <2> QED BY <2>2, <2>3 DEF CompTypes
<1>4. <<>> \in Seq(Events) /\ Sends(<<>>)
  BY <1>1, <1>2 DEF Sends, TypeInv, EventTypes
<1>5. /\ TypeInv' /\ LoopInv' /\ stream' = stream \o <<>> /\ stream \in Seq(Events)
      /\ UNCHANGED <<wayland, preedit, out>>
  <2>1. FieldTypes' /\ toComp' \in Seq(Requests)
    BY <1>1, <1>2, WorldTypes DEF FieldTypes
  <2> QED BY <1>1, <1>2, <1>3, <1>4, <2>1, Sending
<1>6. stream' = stream
  BY <1>5
<1>7. \A n \in 1 .. Len(reqs') : reqs'[n].id # 0 /\ reqs'[n].id <= comp.last
  <2>1. toComp \in Seq(Requests) /\ out \in Seq(Requests)
    BY <1>2, WorldTypes
  <2>2. reqs' = out
    BY <1>1, <1>5, <2>1 DEF reqs
  <2>3. \A n \in 1 .. Len(out) : Len(toComp) + n \in 1 .. Len(reqs) /\ reqs[Len(toComp) + n] = out[n]
    BY <2>1 DEF reqs
  <2> QED BY <1>2, <2>2, <2>3 DEF IdsInv
<1>8. PICK last \in Nat : Leads(stream, wayland.context, last)
  BY DEF Inv, ContextsInv
<1>9. IdsInv'
  <2>1. \A n \in 1 .. Len(stream) : stream[n].id # 0 /\ stream[n].id <= comp.last
    BY <1>2, <1>8, LeadsIds DEF IdsInv
  <2> QED BY <1>1, <1>3, <1>6, <1>7, <2>1 DEF IdsInv
<1>10. ContextsInv'
  BY <1>3, <1>5, <1>6, <1>8 DEF ContextsInv
<1>11. KeyboardInv'
  BY <1>3, <1>5, <1>6 DEF Inv, KeyboardInv, HasKeymap
<1>12. UngrabbedInv' /\ ArrivingInv'
  <2>1. wayland'.context = 0 => preedit' = <<>>
    BY <1>5 DEF Inv, ArrivingInv
  <2> QED BY <1>3, <2>1 DEF UngrabbedInv, ArrivingInv
<1>13. SerialInv' /\ KeysInOrder' /\ PreeditShown'
  BY <1>3 DEF SerialInv, KeysInOrder, PreeditShown
<1> QED BY <1>5, <1>9, <1>10, <1>11, <1>12, <1>13 DEF Inv

\* What is said of t by what is said of s.
Grown(t, s, e, id, shift) ==
  /\ Serials(t, id) = IF e.op = "commit_state" /\ e.id = id THEN Serials(s, id) \o <<e.serial>>
                      ELSE Serials(s, id)
  /\ KeysIn(t, id, shift) = IF e.op = "key" /\ e.id = id
                            THEN Joins(KeysIn(s, id, shift), << <<e.key, ShiftAt(s, Len(s) + 1, shift)>> >>)
                            ELSE KeysIn(s, id, shift)
  /\ ShiftAt(t, Len(t) + 1, shift) = Next1(e, ShiftAt(s, Len(s) + 1, shift))

(* An event at the end grows all three.                                     *)
LEMMA GrowsFor ==
  ASSUME NEW s, NEW e, NEW t, Added(t, s, e), NEW id, NEW shift \in BOOLEAN
  PROVE  Grown(t, s, e, id, shift)
<1>0. s \in Seq(Events) /\ e \in Events /\ t = s \o <<e>> /\ Len(t) = Len(s) + 1 /\ Len(s) \in Nat
  BY DEF Added
<1>1. PICK one \in Seq(Events) : one = <<e>>
  <2>1. <<e>> \in Seq(Events)
    BY <1>0
  <2> QED BY <2>1, Zenon
<1>2. t = s \o one /\ Len(t) + 1 = Len(s) + 2
  BY <1>0, <1>1
<1>3. Serials(t, id) = IF e.op = "commit_state" /\ e.id = id THEN Serials(s, id) \o <<e.serial>>
                       ELSE Serials(s, id)
  <2>1. Serials(s \o one, id) = Serials(s, id) \o Serials(one, id) /\ Serials(s, id) \in Seq(Nat)
    BY <1>0, SerialsFacts
  <2>2. Serials(one, id) = IF e.op = "commit_state" /\ e.id = id THEN <<e.serial>> ELSE <<>>
    BY <1>0, <1>1, SerialsFacts
  <2>3. Serials(s, id) \o <<>> = Serials(s, id)
    BY <2>1
  <2> QED BY <1>2, <2>1, <2>2, <2>3
<1>4. KeysIn(t, id, shift) = KeysIn(s, id, shift) \o KeyOfEvent(e, id, ShiftAt(s, Len(s) + 1, shift))
  BY <1>0, KeysAfterLast
<1>5. PICK k \in Text : k = KeysIn(s, id, shift)
  BY <1>0, KeysType
<1>6. k \o <<>> = k
  BY DEF Text
<1>7. ShiftAt(t, Len(s) + 2, shift) = Next1(e, ShiftAt(s, Len(s) + 1, shift))
  BY <1>0, ShiftAfterLast
<1>8. KeysIn(t, id, shift) = IF e.op = "key" /\ e.id = id
                             THEN Joins(KeysIn(s, id, shift), << <<e.key, ShiftAt(s, Len(s) + 1, shift)>> >>)
                             ELSE KeysIn(s, id, shift)
  BY <1>4, <1>5, <1>6 DEF KeyOfEvent, Joins
<1> QED BY <1>2, <1>3, <1>7, <1>8 DEF Grown

(* StreamInv of the new stream, while the contexts stay.                    *)
LEMMA StreamKept ==
  ASSUME wayland' = wayland, comp'.alive = comp.alive, comp'.active = comp.active, comp'.last = comp.last,
         StreamInv(stream')
  PROVE  /\ ContextsInv'
         /\ \A n \in 1 .. Len(stream') :
              stream'[n].id <= comp'.last /\ (stream'[n].op = "deactivate" => stream'[n].id # comp'.active)
         /\ \A n \in 1 .. Len(stream') : stream'[n].op = "key" => HasKeymap(stream, n)'
<1>1. \A n \in Nat : HasKeymap(stream', n) <=> HasKeymap(stream, n)'
  BY DEF HasKeymap
<1> QED BY <1>1 DEF StreamInv, ContextsInv

(* TypeKey keeps the invariant: without a grab nothing of the field is on   *)
(* its way, so the key may go into it.                                      *)
LEMMA Typing ==
  ASSUME Inv, TypeKey PROVE Inv'
<1> DEFINE a == comp.active
           k == <<comp.keys + 1, comp.shift>>
           e == [Event("key", comp.grab) EXCEPT !.key = comp.keys + 1]
           es == IF comp.grab # 0 THEN <<e>> ELSE <<>>
<1>1. /\ comp.alive /\ a # 0 /\ comp' = [comp EXCEPT !.keys = @ + 1]
      /\ field' = [field EXCEPT !.typed = Append(@, k),
                                !.text = IF comp.grab # 0 THEN @ ELSE Append(@, k)]
      /\ Sends(es) /\ UNCHANGED service /\ toComp' = toComp
  <2>1. k[1] = comp.keys + 1
    OBVIOUS
  <2> QED BY <2>1, Zenon DEF TypeKey
<1>2. TypeInv /\ LoopInv /\ IdsInv /\ KeyboardInv
  BY DEF Inv
<1>3. /\ CompTypes' /\ comp'.active = a /\ comp'.last = comp.last /\ comp'.grab = comp.grab
      /\ comp'.alive /\ comp'.shift = comp.shift /\ a \in Nat /\ a <= comp.last /\ comp.last <= comp'.last
  BY <1>1, <1>2 DEF TypeInv, CompTypes, Comps, IdsInv
<1>4. e \in Events /\ e.op = "key" /\ e.id = comp.grab /\ e.key = comp.keys + 1 /\ es \in Seq(Events)
      /\ <<k>> \in Text
  <2>1. comp.keys + 1 \in Nat /\ comp.grab \in Nat /\ comp.shift \in BOOLEAN
    BY <1>2 DEF TypeInv, CompTypes, Comps
  <2>2. e \in Events /\ e.op = "key" /\ e.id = comp.grab /\ e.key = comp.keys + 1
    BY <2>1 DEF Event, Events, EventOps
  <2> HIDE DEF e
  <2> QED BY <2>1, <2>2 DEF Text
<1> HIDE DEF e, es
<1>5. /\ field'.typed = Joins(field.typed, <<k>>) /\ field'.shown = field.shown /\ field'.serial = field.serial
      /\ field'.text = IF comp.grab # 0 THEN field.text ELSE Joins(field.text, <<k>>)
      /\ FieldTypes'
  <2>1. field.text \in Text /\ field.typed \in Text /\ field \in [text : Text, shown : Text, typed : Text, serial : Nat]
    BY <1>2, WorldTypes DEF TypeInv, FieldTypes
  <2>2. PICK x, y \in Text : x = Append(field.typed, k) /\ y = Append(field.text, k)
                             /\ x = field.typed \o <<k>> /\ y = field.text \o <<k>>
    <3>1. k \in Nat \X BOOLEAN
      BY <1>2 DEF TypeInv, CompTypes, Comps
    <3> HIDE DEF k
    <3>2. /\ Append(field.typed, k) \in Text /\ Append(field.typed, k) = field.typed \o <<k>>
          /\ Append(field.text, k) \in Text /\ Append(field.text, k) = field.text \o <<k>>
      BY <2>1, <3>1, AppendFacts DEF Text
    <3> QED BY <3>2, Zenon
  <2>3. field' = [field EXCEPT !.typed = x, !.text = IF comp.grab # 0 THEN @ ELSE y]
    BY <1>1, <2>2
  <2> QED BY <2>1, <2>2, <2>3 DEF FieldTypes, Joins
<1>6. /\ TypeInv' /\ LoopInv' /\ stream' = stream \o es /\ stream \in Seq(Events)
      /\ UNCHANGED <<wayland, preedit, out>>
  <2>1. toComp' \in Seq(Requests)
    BY <1>1, <1>2, WorldTypes
  <2> QED BY <1>1, <1>2, <1>3, <1>4, <1>5, <2>1, Sending
<1>7. reqs' = reqs /\ reqs \in Seq(Requests)
  BY <1>1, <1>2, <1>6, WorldTypes DEF reqs
<1>8. field.text \in Text /\ preedit \in Text /\ Texts(reqs, a) \in Text /\ <<>> \in Text
      /\ wayland.modifiers \in BOOLEAN /\ KeysIn(stream, a, wayland.modifiers) \in Text
  <2>1. wayland.modifiers \in BOOLEAN
    BY <1>2, WorldTypes
  <2> QED BY <1>2, <1>6, <1>7, <2>1, WorldTypes, TextsFacts, KeysType
<1>9. Joined(field.text, Texts(reqs, a), IF wayland.context = a THEN preedit ELSE <<>>,
             KeysIn(stream, a, wayland.modifiers)) = field.typed
  BY <1>1 DEF Inv, KeysInOrder, Joined, Joins, stream, reqs
<1>10. PreeditShown'
  BY <1>1, <1>3, <1>5, <1>6, <1>7 DEF Inv, PreeditShown, stream, reqs
<1>11. ArrivingInv'
  BY <1>3, <1>6, <1>7 DEF Inv, ArrivingInv
<1> SUFFICES /\ StreamInv(stream')
             /\ comp.grab # 0 => HasKeymap(stream', Len(stream') + 1)
             /\ comp.grab # 0 => ShiftAt(stream', Len(stream') + 1, wayland.modifiers) = comp.shift
             /\ Serials(stream', a) = Serials(stream, a)
             /\ UngrabbedInv'
             /\ Joined(field'.text, Texts(reqs, a), IF wayland.context = a THEN preedit ELSE <<>>,
                       KeysIn(stream', a, wayland.modifiers)) = Joins(field.typed, <<k>>)
  <2>1. ASSUME /\ StreamInv(stream')
               /\ comp.grab # 0 => HasKeymap(stream', Len(stream') + 1)
               /\ comp.grab # 0 => ShiftAt(stream', Len(stream') + 1, wayland.modifiers) = comp.shift
               /\ Serials(stream', a) = Serials(stream, a)
               /\ Joined(field'.text, Texts(reqs, a), IF wayland.context = a THEN preedit ELSE <<>>,
                         KeysIn(stream', a, wayland.modifiers)) = Joins(field.typed, <<k>>)
        PROVE  IdsInv' /\ ContextsInv' /\ KeyboardInv' /\ SerialInv' /\ KeysInOrder'
    <3>1. /\ ContextsInv'
          /\ \A n \in 1 .. Len(stream') :
               stream'[n].id <= comp'.last /\ (stream'[n].op = "deactivate" => stream'[n].id # comp'.active)
          /\ \A n \in 1 .. Len(stream') : stream'[n].op = "key" => HasKeymap(stream, n)'
      BY <1>1, <1>3, <1>6, <2>1, StreamKept
    <3>2. IdsInv'
      BY <1>1, <1>2, <1>3, <1>7, <3>1 DEF IdsInv
    <3>3. KeyboardInv'
      <4>1. HasKeymap(stream', Len(stream') + 1) => HasKeymap(stream, Len(stream) + 1)'
        BY <1>6 DEF HasKeymap
      <4> QED BY <1>1, <1>2, <1>3, <1>6, <2>1, <3>1, <4>1 DEF KeyboardInv
    <3>4. SerialInv'
      BY <1>1, <1>3, <1>5, <1>6, <2>1 DEF Inv, SerialInv, Base
    <3>5. KeysInOrder'
      BY <1>1, <1>3, <1>5, <1>6, <1>7, <2>1 DEF KeysInOrder, Joined, Joins, stream, reqs
    <3> QED BY <3>1, <3>2, <3>3, <3>4, <3>5
  <2> QED BY <1>6, <1>10, <1>11, <2>1 DEF Inv
<1>12. CASE comp.grab = 0
  <2>1. stream' = stream
    BY <1>6, <1>12 DEF es
  <2>2. UngrabbedInv'
    BY <1>3, <1>5, <1>6, <1>7, <2>1 DEF Inv, UngrabbedInv
  <2>3. /\ Texts(reqs, a) = <<>> /\ KeysIn(stream, a, wayland.modifiers) = <<>>
        /\ wayland.context = a => preedit = <<>>
    <3>1. /\ \A n \in 1 .. Len(stream) : ~ (stream[n].op = "key" /\ stream[n].id = a)
          /\ \A n \in DOMAIN reqs : reqs[n].id = a => reqs[n].op \notin {"commit_string", "key"}
          /\ wayland.context = a => preedit = <<>>
      BY <1>1, <1>7, <1>12 DEF Inv, UngrabbedInv
    <3>2. Texts(reqs, a) = <<>>
      BY <1>6, <1>7, <1>8, <3>1, TextsFacts, Zenon
    <3>3. KeysIn(stream, a, wayland.modifiers) = <<>>
      BY <1>6, <1>7, <1>8, <3>1, KeysNone, Zenon
    <3> QED BY <3>1, <3>2, <3>3, Zenon
  <2>4. field.typed = field.text
    BY <1>8, <1>9, <2>3, JoinedEnds
  <2>5. Joins(field.text, <<k>>) \in Text
    BY <1>4, <1>8, JoinsFacts
  <2>6. Joined(field'.text, <<>>, <<>>, <<>>) = Joins(field.text, <<k>>)
    BY <1>5, <1>8, <1>12, <2>5, JoinedEnds
  <2>7. (IF wayland.context = a THEN preedit ELSE <<>>) = <<>>
    BY <2>3
  <2> QED BY <1>12, <2>1, <2>2, <2>3, <2>4, <2>6, <2>7, StreamFacts
<1>13. CASE comp.grab # 0
  <2>1. Added(stream', stream, e)
    <3>1. stream' = stream \o <<e>>
      BY <1>6, <1>13 DEF es
    <3> QED BY <1>4, <1>6, <3>1, Appended, Zenon
  <2>2. /\ comp.grab = a /\ HasKeymap(stream, Len(stream) + 1)
        /\ ShiftAt(stream, Len(stream) + 1, wayland.modifiers) = comp.shift
    BY <1>1, <1>2, <1>13 DEF KeyboardInv
  <2>3. StreamInv(stream')
    BY <1>1, <1>3, <1>4, <1>6, <2>1, <2>2, StreamFacts, StreamGrows
  <2>4. HasKeymap(stream', Len(stream') + 1)
    BY <2>1, <2>2 DEF Added
  <2>5. /\ Serials(stream', a) = Serials(stream, a)
        /\ KeysIn(stream', a, wayland.modifiers) = Joins(KeysIn(stream, a, wayland.modifiers), <<k>>)
        /\ ShiftAt(stream', Len(stream') + 1, wayland.modifiers) = comp.shift
    <3>1. ~ Shifts(e) /\ e.op # "commit_state"
      BY <1>4 DEF Shifts
    <3>2. Grown(stream', stream, e, a, wayland.modifiers)
      BY <1>8, <2>1, GrowsFor, Zenon
    <3> QED BY <1>4, <2>2, <3>1, <3>2 DEF Grown, Next1
  <2>6. UngrabbedInv'
    BY <1>3, <1>13 DEF UngrabbedInv
  <2>7. PICK p \in Text : p = IF wayland.context = a THEN preedit ELSE <<>>
    BY <1>8
  <2>8. Joined(field.text, Texts(reqs, a), p, Joins(KeysIn(stream, a, wayland.modifiers), <<k>>))
        = Joins(Joined(field.text, Texts(reqs, a), p, KeysIn(stream, a, wayland.modifiers)), <<k>>)
    <3>1. PICK w, x, y, z \in Text : /\ w = field.text /\ x = Texts(reqs, a)
                                     /\ y = KeysIn(stream, a, wayland.modifiers) /\ z = <<k>>
      BY <1>4, <1>8, Zenon
    <3>2. Joined(w, x, p, Joins(y, z)) = Joins(Joined(w, x, p, y), z)
      BY JoinedEnds
    <3> QED BY <3>1, <3>2
  <2> QED BY <1>5, <1>9, <1>13, <2>3, <2>4, <2>5, <2>6, <2>7, <2>8
<1> QED BY <1>12, <1>13

(* Shift keeps the invariant: the keyboard event tells the service.         *)
LEMMA Shifting ==
  ASSUME Inv, Shift PROVE Inv'
<1> DEFINE a == comp.active
           e == [Event("modifiers", comp.grab) EXCEPT !.shift = ~ comp.shift]
           es == IF comp.grab = 0 THEN <<>> ELSE <<e>>
<1>1. /\ comp.alive /\ comp' = [comp EXCEPT !.shift = ~ @, !.shifts = @ + 1]
      /\ Sends(es) /\ UNCHANGED service /\ toComp' = toComp /\ field' = field
  BY Zenon DEF Shift
<1>2. TypeInv /\ LoopInv /\ IdsInv /\ KeyboardInv
  BY DEF Inv
<1>3. /\ CompTypes' /\ comp'.active = a /\ comp'.last = comp.last /\ comp'.grab = comp.grab
      /\ comp'.alive /\ comp'.shift = ~ comp.shift /\ a \in Nat /\ a <= comp.last /\ comp.last <= comp'.last
  <2>1. comp \in Comps /\ a <= comp.last
    BY <1>2 DEF TypeInv, CompTypes, IdsInv
  <2>2. PICK n \in Nat, b \in BOOLEAN : b = ~ comp.shift /\ comp' = [comp EXCEPT !.shift = b, !.shifts = n]
    <3>1. comp.shifts + 1 \in Nat
      BY <2>1 DEF Comps
    <3>2. PICK s \in BOOLEAN : s = comp.shift
      BY <2>1 DEF Comps
    <3>3. PICK b \in BOOLEAN : b = ~ s
      OBVIOUS
    <3> QED BY <1>1, <3>1, <3>2, <3>3
  <2>3. /\ comp' \in Comps /\ comp'.active = a /\ comp'.last = comp.last /\ comp'.grab = comp.grab
        /\ comp'.shift = b /\ comp'.alive = comp.alive /\ comp.last \in Nat /\ a \in Nat
    BY <2>1, <2>2 DEF Comps
  <2> QED BY <1>1, <2>1, <2>2, <2>3 DEF CompTypes
<1>4. /\ e \in Events /\ e.op = "modifiers" /\ e.id = comp.grab /\ e.shift = ~ comp.shift
      /\ es \in Seq(Events)
  <2>1. comp.grab \in Nat /\ comp.shift \in BOOLEAN
    BY <1>2, WorldTypes
  <2>2. e \in Events /\ e.op = "modifiers" /\ e.id = comp.grab /\ e.shift = ~ comp.shift
    BY <2>1 DEF Event, Events, EventOps
  <2> HIDE DEF e
  <2> QED BY <2>2
<1> HIDE DEF e, es
<1>5. /\ TypeInv' /\ LoopInv' /\ stream' = stream \o es /\ stream \in Seq(Events)
      /\ UNCHANGED <<wayland, preedit, out>>
  <2>1. toComp' \in Seq(Requests) /\ FieldTypes'
    BY <1>1, <1>2, WorldTypes DEF TypeInv, FieldTypes
  <2> QED BY <1>1, <1>2, <1>3, <1>4, <2>1, Sending
<1>6. reqs' = reqs /\ reqs \in Seq(Requests) /\ wayland.modifiers \in BOOLEAN
  BY <1>1, <1>2, <1>5, WorldTypes DEF reqs
<1>7. PreeditShown'
  BY <1>1, <1>3, <1>5, <1>6 DEF Inv, PreeditShown, stream, reqs
<1>8. ArrivingInv'
  BY <1>3, <1>5, <1>6 DEF Inv, ArrivingInv
<1>9. CASE comp.grab = 0
  <2>1. stream' = stream
    BY <1>5, <1>9 DEF es
  <2>2. IdsInv' /\ ContextsInv'
    BY <1>1, <1>3, <1>5, <1>6, <2>1 DEF Inv, IdsInv, ContextsInv
  <2>3. KeyboardInv'
    <3>1. \A n \in 1 .. Len(stream') : HasKeymap(stream, n) => HasKeymap(stream, n)'
      BY <1>5, <2>1 DEF HasKeymap
    <3> QED BY <1>2, <1>3, <1>9, <2>1, <3>1 DEF KeyboardInv
  <2>4. UngrabbedInv' /\ SerialInv'
    BY <1>1, <1>3, <1>5, <1>6, <2>1 DEF Inv, UngrabbedInv, SerialInv, Base
  <2>5. KeysInOrder'
    BY <1>1, <1>3, <1>5, <1>6, <2>1 DEF Inv, KeysInOrder, stream, reqs
  <2> QED BY <1>5, <1>7, <1>8, <2>2, <2>3, <2>4, <2>5 DEF Inv
<1>10. CASE comp.grab # 0
  <2>1. Added(stream', stream, e)
    <3>1. stream' = stream \o <<e>>
      BY <1>5, <1>10 DEF es
    <3> QED BY <1>4, <1>5, <3>1, Appended, Zenon
  <2>2. comp.grab = a /\ HasKeymap(stream, Len(stream) + 1) /\ a # 0
    BY <1>1, <1>2, <1>10 DEF KeyboardInv
  <2>3. StreamInv(stream')
    BY <1>1, <1>3, <1>4, <1>5, <2>1, <2>2, StreamFacts, StreamGrows
  <2>4. HasKeymap(stream', Len(stream') + 1)
    BY <2>1, <2>2 DEF Added
  <2>5. /\ Serials(stream', a) = Serials(stream, a)
        /\ KeysIn(stream', a, wayland.modifiers) = KeysIn(stream, a, wayland.modifiers)
        /\ ShiftAt(stream', Len(stream') + 1, wayland.modifiers) = comp'.shift
    <3>1. Shifts(e) /\ e.op # "commit_state" /\ e.op # "key"
      BY <1>4 DEF Shifts
    <3>2. Grown(stream', stream, e, a, wayland.modifiers)
      BY <1>6, <2>1, GrowsFor, Zenon
    <3> QED BY <1>3, <1>4, <3>1, <3>2 DEF Grown, Next1
  <2>6. /\ ContextsInv'
        /\ \A n \in 1 .. Len(stream') :
             stream'[n].id <= comp'.last /\ (stream'[n].op = "deactivate" => stream'[n].id # comp'.active)
        /\ \A n \in 1 .. Len(stream') : stream'[n].op = "key" => HasKeymap(stream, n)'
    BY <1>1, <1>3, <1>5, <2>3, StreamKept
  <2>7. IdsInv'
    BY <1>1, <1>2, <1>3, <1>6, <2>6 DEF IdsInv
  <2>8. KeyboardInv'
    <3>1. HasKeymap(stream', Len(stream') + 1) => HasKeymap(stream, Len(stream) + 1)'
      BY <1>5 DEF HasKeymap
    <3> QED BY <1>3, <1>5, <2>2, <2>4, <2>5, <2>6, <3>1 DEF KeyboardInv
  <2>9. UngrabbedInv' /\ SerialInv'
    BY <1>1, <1>3, <1>5, <1>10, <2>5 DEF Inv, UngrabbedInv, SerialInv, Base
  <2>10. KeysInOrder'
    BY <1>1, <1>3, <1>5, <1>6, <2>5 DEF Inv, KeysInOrder, stream, reqs
  <2> QED BY <1>5, <1>7, <1>8, <2>6, <2>7, <2>8, <2>9, <2>10 DEF Inv
<1> QED BY <1>9, <1>10

(* CommitState keeps the invariant: the serial is the next one.             *)
LEMMA Committing ==
  ASSUME Inv, CommitState PROVE Inv'
<1> DEFINE a == comp.active
           e1 == Event("surrounding_text", a)
           e2 == [Event("commit_state", a) EXCEPT !.serial = field.serial + 1]
<1>1. /\ comp.alive /\ a # 0 /\ field' = [field EXCEPT !.serial = @ + 1] /\ comp' = comp
      /\ Sends(<<e1, e2>>) /\ UNCHANGED service /\ toComp' = toComp
  BY Zenon DEF CommitState
<1>2. TypeInv /\ LoopInv /\ IdsInv /\ KeyboardInv
  BY DEF Inv
<1>3. a \in Nat /\ a <= comp.last /\ wayland.modifiers \in BOOLEAN /\ comp.last <= comp'.last /\ CompTypes'
  BY <1>1, <1>2, WorldTypes DEF IdsInv, TypeInv, CompTypes, Comps
<1>4. /\ e1 \in Events /\ e1.op = "surrounding_text" /\ e1.id = a
      /\ e2 \in Events /\ e2.op = "commit_state" /\ e2.id = a /\ e2.serial = field.serial + 1
  <2>1. field.serial + 1 \in Nat
    BY <1>2, WorldTypes
  <2> QED BY <1>3, <2>1 DEF Event, Events, EventOps
<1> HIDE DEF e1, e2
<1>5. /\ FieldTypes' /\ field'.serial = field.serial + 1 /\ field'.text = field.text
      /\ field'.typed = field.typed /\ field'.shown = field.shown
  BY <1>1, <1>2 DEF TypeInv, FieldTypes
<1>6. /\ TypeInv' /\ LoopInv' /\ stream' = stream \o <<e1, e2>> /\ stream \in Seq(Events)
      /\ UNCHANGED <<wayland, preedit, out>>
  <2>1. toComp' \in Seq(Requests) /\ <<e1, e2>> \in Seq(Events)
    BY <1>1, <1>2, <1>4, WorldTypes
  <2> QED BY <1>1, <1>2, <1>3, <1>5, <2>1, Sending
<1>7. PICK t : Added(t, stream, e1) /\ Added(stream', t, e2)
  BY <1>4, <1>6, TwoAdded, Zenon
<1>8. reqs' = reqs /\ reqs \in Seq(Requests)
  BY <1>1, <1>2, <1>6, WorldTypes DEF reqs
<1>9. StreamInv(t) /\ StreamInv(stream')
  <2>1. StreamInv(t)
    BY <1>1, <1>3, <1>4, <1>6, <1>7, StreamFacts, StreamGrows
  <2> QED BY <1>1, <1>3, <1>4, <1>7, <2>1, StreamGrows
<1>10. /\ HasKeymap(stream, Len(stream) + 1) => HasKeymap(t, Len(t) + 1)
       /\ HasKeymap(t, Len(t) + 1) => HasKeymap(stream', Len(stream') + 1)
  BY <1>7 DEF Added
<1>11. /\ Serials(t, a) = Serials(stream, a)
       /\ KeysIn(t, a, wayland.modifiers) = KeysIn(stream, a, wayland.modifiers)
       /\ ShiftAt(t, Len(t) + 1, wayland.modifiers) = ShiftAt(stream, Len(stream) + 1, wayland.modifiers)
  <2>1. ~ Shifts(e1) /\ e1.op # "commit_state" /\ e1.op # "key"
    BY <1>4 DEF Shifts
  <2>2. Grown(t, stream, e1, a, wayland.modifiers)
    BY <1>3, <1>7, GrowsFor, Zenon
  <2> QED BY <1>4, <2>1, <2>2 DEF Grown, Next1
<1>12. /\ Serials(stream', a) = Serials(t, a) \o <<e2.serial>>
       /\ KeysIn(stream', a, wayland.modifiers) = KeysIn(t, a, wayland.modifiers)
       /\ ShiftAt(stream', Len(stream') + 1, wayland.modifiers) = ShiftAt(t, Len(t) + 1, wayland.modifiers)
  <2>1. ~ Shifts(e2) /\ e2.op # "key"
    BY <1>4 DEF Shifts
  <2>2. Grown(stream', t, e2, a, wayland.modifiers)
    BY <1>3, <1>7, GrowsFor, Zenon
  <2> QED BY <1>4, <2>1, <2>2 DEF Grown, Next1
<1>13. /\ ContextsInv'
       /\ \A n \in 1 .. Len(stream') :
            stream'[n].id <= comp'.last /\ (stream'[n].op = "deactivate" => stream'[n].id # comp'.active)
       /\ \A n \in 1 .. Len(stream') : stream'[n].op = "key" => HasKeymap(stream, n)'
  BY <1>1, <1>6, <1>9, StreamKept
<1>14. IdsInv'
  BY <1>1, <1>2, <1>8, <1>13 DEF IdsInv
<1>15. KeyboardInv'
  <2>1. HasKeymap(stream', Len(stream') + 1) => HasKeymap(stream, Len(stream) + 1)'
    BY <1>6 DEF HasKeymap
  <2> QED BY <1>1, <1>2, <1>6, <1>10, <1>11, <1>12, <1>13, <2>1 DEF KeyboardInv
<1>16. UngrabbedInv' /\ ArrivingInv' /\ PreeditShown'
  <2>1. comp.grab = 0 => \A n \in 1 .. Len(stream') : stream'[n].op = "key" => stream'[n].id # a
    <3>1. SUFFICES ASSUME comp.grab = 0, NEW n \in 1 .. Len(stream'), stream'[n].op = "key"
                   PROVE  stream'[n].id # a
      OBVIOUS
    <3>2. /\ Len(t) = Len(stream) + 1 /\ t[Len(stream) + 1] = e1
          /\ \A m \in 1 .. Len(stream) : t[m] = stream[m]
      BY <1>7 DEF Added
    <3>3. Len(stream') = Len(t) + 1 /\ stream'[Len(t) + 1] = e2 /\ \A m \in 1 .. Len(t) : stream'[m] = t[m]
      BY <1>7 DEF Added
    <3>4. n \in 1 .. Len(stream) /\ stream'[n] = stream[n]
      BY <1>4, <1>6, <3>1, <3>2, <3>3
    <3> QED BY <1>1, <3>1, <3>4 DEF Inv, UngrabbedInv
  <2>2. UngrabbedInv'
    BY <1>1, <1>5, <1>6, <1>8, <2>1 DEF Inv, UngrabbedInv
  <2>3. ArrivingInv'
    BY <1>1, <1>6, <1>8 DEF Inv, ArrivingInv
  <2>4. PreeditShown'
    BY <1>1, <1>5, <1>6, <1>8 DEF Inv, PreeditShown, stream, reqs
  <2> QED BY <2>2, <2>3, <2>4
<1>17. SerialInv'
  <2>1. PICK old, new \in Seq(Nat) : old = Serials(stream, a) /\ new = Serials(stream', a)
    <3>1. stream' \in Seq(Events)
      BY <1>7 DEF Added
    <3>2. Serials(stream, a) \in Seq(Nat) /\ Serials(stream', a) \in Seq(Nat)
      BY <1>6, <3>1, SerialsFacts
    <3> QED BY <3>2, Zenon
  <2>2. new = old \o <<field.serial + 1>>
    BY <1>4, <1>11, <1>12, <2>1
  <2>3. field.serial = Base + Len(old) /\ \A n \in 1 .. Len(old) : old[n] = Base + n
    BY <1>1, <2>1 DEF Inv, SerialInv
  <2>4. Base \in Nat /\ Base' = Base
    BY <1>1, <1>2, <1>6, WorldTypes DEF Base
  <2>5. Len(new) = Len(old) + 1 /\ new[Len(old) + 1] = field.serial + 1
        /\ \A n \in 1 .. Len(old) : new[n] = old[n]
    BY <2>1, <2>2
  <2>6. \A n \in 1 .. Len(new) : new[n] = Base + n
    <3> TAKE n \in 1 .. Len(new)
    <3>1. CASE n \in 1 .. Len(old)
      BY <2>3, <2>5, <3>1
    <3>2. CASE n = Len(old) + 1
      BY <2>3, <2>4, <2>5, <3>2
    <3> QED BY <2>5, <3>1, <3>2
  <2>7. field.serial + 1 = Base + Len(new)
    BY <2>3, <2>4, <2>5
  <2> QED BY <1>1, <1>5, <2>1, <2>4, <2>6, <2>7 DEF SerialInv
<1>18. KeysInOrder'
  BY <1>1, <1>5, <1>6, <1>8, <1>11, <1>12 DEF Inv, KeysInOrder, stream, reqs
<1> QED BY <1>6, <1>13, <1>14, <1>15, <1>16, <1>17, <1>18 DEF Inv

(* Takes, of a grab that is in time: the keyboard starts with a keymap and  *)
(* Shift.                                                                   *)
LEMMA Grabbing ==
  ASSUME Inv, Takes, Head(toComp).op = "grab_keyboard", Head(toComp).id = comp.active PROVE Inv'
<1> DEFINE a == comp.active
           r == Head(toComp)
           e1 == Event("keymap", a)
           e2 == [Event("modifiers", a) EXCEPT !.shift = comp.shift]
<1>1. /\ comp.alive /\ toComp # <<>> /\ toComp' = Tail(toComp) /\ UNCHANGED service
      /\ comp' = [comp EXCEPT !.grab = a] /\ Sends(<<e1, e2>>)
  BY Zenon DEF Takes
<1>2. field' = field
  <2>1. /\ r.op = "grab_keyboard"
        /\ field' = IF r.id # comp.active THEN field
                    ELSE IF r.op = "commit_string" THEN [field EXCEPT !.text = @ \o r.text, !.shown = <<>>]
                    ELSE IF r.op = "key" THEN [field EXCEPT !.text = @ \o r.text]
                    ELSE IF r.op = "preedit_string" THEN [field EXCEPT !.shown = r.text]
                    ELSE field
    BY Zenon DEF Takes
  <2>2. r.op # "commit_string" /\ r.op # "key" /\ r.op # "preedit_string"
    BY <2>1
  <2> QED BY <2>1, <2>2, Zenon
<1>3. TypeInv /\ LoopInv /\ IdsInv /\ KeyboardInv
  BY DEF Inv
<1>4. /\ r \in Requests /\ toComp' \in Seq(Requests) /\ reqs = <<r>> \o (toComp' \o out)
      /\ reqs[1] = r /\ 1 \in 1 .. Len(reqs) /\ toComp' \o out \in Seq(Requests)
  BY <1>1, <1>3, WorldTypes, HeadApart, SMTT(40) DEF reqs
<1>5. a # 0 /\ a \in Nat /\ a <= comp.last /\ wayland.modifiers \in BOOLEAN
  BY <1>3, <1>4, WorldTypes DEF IdsInv
<1>6. /\ e1 \in Events /\ e1.op = "keymap" /\ e1.id = a
      /\ e2 \in Events /\ e2.op = "modifiers" /\ e2.id = a /\ e2.shift = comp.shift
  <2>1. comp.shift \in BOOLEAN
    BY <1>3, WorldTypes
  <2> QED BY <1>5, <2>1 DEF Event, Events, EventOps
<1>7. /\ CompTypes' /\ comp'.active = a /\ comp'.last = comp.last /\ comp'.grab = a
      /\ comp'.alive /\ comp'.shift = comp.shift /\ comp.last <= comp'.last
  BY <1>1, <1>3, <1>5 DEF TypeInv, CompTypes, Comps
<1> HIDE DEF e1, e2
<1>8. /\ TypeInv' /\ LoopInv' /\ stream' = stream \o <<e1, e2>> /\ stream \in Seq(Events)
      /\ UNCHANGED <<wayland, preedit, out>>
  <2>1. <<e1, e2>> \in Seq(Events) /\ FieldTypes'
    BY <1>2, <1>3, <1>6 DEF TypeInv, FieldTypes
  <2> QED BY <1>1, <1>3, <1>4, <1>7, <2>1, Sending
<1>9. PICK t : Added(t, stream, e1) /\ Added(stream', t, e2)
  BY <1>6, <1>8, TwoAdded, Zenon
<1>10. /\ reqs' \in Seq(Requests) /\ reqs = <<r>> \o reqs' /\ Len(reqs) = Len(reqs') + 1
       /\ \A n \in 1 .. Len(reqs') : n + 1 \in 1 .. Len(reqs) /\ reqs[n + 1] = reqs'[n]
  <2>1. reqs' = toComp' \o out
    BY <1>8 DEF reqs
  <2> QED BY <1>4, <2>1, HeadElements
<1>11. StreamInv(t) /\ StreamInv(stream')
  <2>1. StreamInv(t)
    BY <1>1, <1>5, <1>6, <1>8, <1>9, StreamFacts, StreamGrows
  <2> QED BY <1>1, <1>5, <1>6, <1>9, <2>1, StreamGrows
<1>12. HasKeymap(stream', Len(stream') + 1)
  <2>1. HasKeymap(t, Len(t) + 1)
    BY <1>6, <1>9 DEF Added
  <2> QED BY <1>9, <2>1 DEF Added
<1>13. /\ Serials(t, a) = Serials(stream, a)
       /\ KeysIn(t, a, wayland.modifiers) = KeysIn(stream, a, wayland.modifiers)
  <2>1. e1.op # "commit_state" /\ e1.op # "key"
    BY <1>6
  <2>2. Grown(t, stream, e1, a, wayland.modifiers)
    BY <1>5, <1>9, GrowsFor, Zenon
  <2> QED BY <1>6, <2>1, <2>2 DEF Grown, Next1
<1>14. /\ Serials(stream', a) = Serials(t, a)
       /\ KeysIn(stream', a, wayland.modifiers) = KeysIn(t, a, wayland.modifiers)
       /\ ShiftAt(stream', Len(stream') + 1, wayland.modifiers) = comp.shift
  <2>1. Shifts(e2) /\ e2.op # "commit_state" /\ e2.op # "key"
    BY <1>6 DEF Shifts
  <2>2. Grown(stream', t, e2, a, wayland.modifiers)
    BY <1>5, <1>9, GrowsFor, Zenon
  <2> QED BY <1>6, <2>1, <2>2 DEF Grown, Next1
<1>15. /\ ContextsInv'
       /\ \A n \in 1 .. Len(stream') :
            stream'[n].id <= comp'.last /\ (stream'[n].op = "deactivate" => stream'[n].id # comp'.active)
       /\ \A n \in 1 .. Len(stream') : stream'[n].op = "key" => HasKeymap(stream, n)'
  BY <1>1, <1>7, <1>8, <1>11, StreamKept
<1>16. IdsInv'
  <2>1. \A n \in 1 .. Len(reqs') :
          reqs'[n].id # 0 /\ reqs'[n].id <= comp.last /\ (reqs'[n].op = "destroy" => reqs'[n].id # a)
    BY <1>3, <1>10 DEF IdsInv
  <2> QED BY <1>2, <1>3, <1>5, <1>7, <1>15, <2>1 DEF IdsInv
<1>17. KeyboardInv'
  <2>1. HasKeymap(stream', Len(stream') + 1) => HasKeymap(stream, Len(stream) + 1)'
    BY <1>8 DEF HasKeymap
  <2> QED BY <1>7, <1>8, <1>12, <1>14, <1>15, <2>1 DEF KeyboardInv
<1>18. wayland.context = a
  BY <1>4, <1>5 DEF Inv, ArrivingInv
<1>19. UngrabbedInv' /\ ArrivingInv'
  BY <1>5, <1>7, <1>8, <1>18 DEF UngrabbedInv, ArrivingInv
<1>20. SerialInv'
  BY <1>2, <1>5, <1>7, <1>8, <1>13, <1>14 DEF Inv, SerialInv, Base
<1>21. Texts(reqs, a) = Texts(reqs', a) /\ Drawn(reqs, a) = Drawn(reqs', a)
  <2>1. <<r>> \in Seq(Requests)
    BY <1>4
  <2>2. r.op \notin {"commit_string", "key", "preedit_string"}
    OBVIOUS
  <2>3. Texts(<<r>>, a) = <<>> /\ Drawn(<<r>>, a) = <<>>
    BY <1>4, <2>2, TextsFacts, DrawnFacts
  <2>4a. PICK q, u \in Seq(Requests) : q = <<r>> /\ u = reqs'
    BY <1>10, <2>1, Zenon
  <2>4b. Texts(q \o u, a) = Texts(q, a) \o Texts(u, a) /\ Texts(u, a) \in Text
    BY TextsFacts, Zenon
  <2>4c. Drawn(q \o u, a) = Drawn(q, a) \o Drawn(u, a) /\ Drawn(u, a) \in Seq(Text)
    BY DrawnFacts, Zenon
  <2>4. /\ Texts(<<r>> \o reqs', a) = Texts(<<r>>, a) \o Texts(reqs', a) /\ Texts(reqs', a) \in Text
        /\ Drawn(<<r>> \o reqs', a) = Drawn(<<r>>, a) \o Drawn(reqs', a) /\ Drawn(reqs', a) \in Seq(Text)
    BY <2>4a, <2>4b, <2>4c
  <2>5. <<>> \o Texts(reqs', a) = Texts(reqs', a) /\ <<>> \o Drawn(reqs', a) = Drawn(reqs', a)
    BY <2>4 DEF Text
  <2> QED BY <1>10, <2>3, <2>4, <2>5
<1>22. KeysInOrder' /\ PreeditShown'
  BY <1>2, <1>5, <1>7, <1>8, <1>13, <1>14, <1>21 DEF Inv, KeysInOrder, PreeditShown, stream, reqs
<1> QED BY <1>8, <1>15, <1>16, <1>17, <1>19, <1>20, <1>22 DEF Inv

(* Takes, of any other request: text that was coming back is in the field.  *)
LEMMA Taking ==
  ASSUME Inv, Takes, ~ (Head(toComp).op = "grab_keyboard" /\ Head(toComp).id = comp.active) PROVE Inv'
<1> DEFINE a == comp.active
           r == Head(toComp)
<1>1. /\ comp.alive /\ toComp # <<>> /\ toComp' = Tail(toComp) /\ UNCHANGED service
      /\ comp' = IF r.op = "destroy" /\ comp.grab = r.id THEN [comp EXCEPT !.grab = 0] ELSE comp
      /\ Sends(<<>>)
      /\ field' = IF r.id # a THEN field
                  ELSE IF r.op = "commit_string" THEN [field EXCEPT !.text = @ \o r.text, !.shown = <<>>]
                  ELSE IF r.op = "key" THEN [field EXCEPT !.text = @ \o r.text]
                  ELSE IF r.op = "preedit_string" THEN [field EXCEPT !.shown = r.text]
                  ELSE field
  BY Zenon DEF Takes
<1>2. TypeInv /\ LoopInv /\ IdsInv /\ KeyboardInv
  BY DEF Inv
<1>3. /\ r \in Requests /\ toComp' \in Seq(Requests) /\ reqs = <<r>> \o (toComp' \o out)
      /\ reqs[1] = r /\ 1 \in 1 .. Len(reqs) /\ toComp' \o out \in Seq(Requests)
  BY <1>1, <1>2, WorldTypes, HeadApart, SMTT(40) DEF reqs
<1>4. r.id # 0 /\ (r.op = "destroy" => r.id # a) /\ r.text \in Text
  BY <1>2, <1>3 DEF IdsInv, Requests
<1>5. comp' = comp
  BY <1>1, <1>2, <1>4 DEF KeyboardInv
<1>6. /\ FieldTypes' /\ field'.typed = field.typed /\ field'.serial = field.serial
      /\ r.id = a /\ r.op \in {"commit_string", "key"} => field'.text = field.text \o r.text
      /\ ~ (r.id = a /\ r.op \in {"commit_string", "key"}) => field'.text = field.text
      /\ r.id = a /\ r.op = "commit_string" => field'.shown = <<>>
      /\ r.id = a /\ r.op = "preedit_string" => field'.shown = r.text
      /\ ~ (r.id = a /\ r.op \in {"commit_string", "preedit_string"}) => field'.shown = field.shown
      /\ ~ (r.id = a /\ r.op \in {"commit_string", "key", "preedit_string"}) => field' = field
  <2>1. field \in [text : Text, shown : Text, typed : Text, serial : Nat] /\ <<>> \in Text
    BY <1>2, WorldTypes DEF TypeInv, FieldTypes
  <2>2. PICK x \in Text : x = field.text \o r.text
    <3>1. field.text \o r.text \in Text
      BY <1>4, <2>1 DEF Text
    <3> QED BY <3>1, Zenon
  <2>3. CASE r.id # a
    BY <1>1, <2>1, <2>3 DEF FieldTypes
  <2>4. CASE r.id = a /\ r.op = "commit_string"
    <3>1. field' = [field EXCEPT !.text = x, !.shown = <<>>]
      BY <1>1, <2>2, <2>4
    <3> QED BY <2>1, <2>2, <2>4, <3>1 DEF FieldTypes
  <2>5. CASE r.id = a /\ r.op = "key"
    <3>1. field' = [field EXCEPT !.text = x]
      BY <1>1, <2>2, <2>5
    <3> QED BY <2>1, <2>2, <2>5, <3>1 DEF FieldTypes
  <2>6. CASE r.id = a /\ r.op = "preedit_string"
    <3>1. field' = [field EXCEPT !.shown = r.text]
      BY <1>1, <2>6
    <3> QED BY <1>4, <2>1, <2>6, <3>1 DEF FieldTypes
  <2>7. CASE r.id = a /\ r.op \notin {"commit_string", "key", "preedit_string"}
    <3>1. field' = field
      BY <1>1, <2>7
    <3> QED BY <2>1, <2>7, <3>1 DEF FieldTypes
  <2> QED BY <2>3, <2>4, <2>5, <2>6, <2>7
<1> HIDE DEF r
<1>7. /\ TypeInv' /\ LoopInv' /\ stream' = stream /\ stream \in Seq(Events)
      /\ UNCHANGED <<wayland, preedit, out>>
  <2>1. <<>> \in Seq(Events) /\ CompTypes' /\ comp.last <= comp'.last
    BY <1>2, <1>5, WorldTypes DEF TypeInv, CompTypes, Comps
  <2>2. TypeInv' /\ LoopInv' /\ stream' = stream \o <<>> /\ stream \in Seq(Events)
        /\ UNCHANGED <<wayland, preedit, out>>
    BY <1>1, <1>2, <1>3, <1>6, <2>1, Sending
  <2> QED BY <2>2
<1>8. /\ reqs' \in Seq(Requests) /\ reqs = <<r>> \o reqs' /\ Len(reqs) = Len(reqs') + 1
      /\ \A n \in 1 .. Len(reqs') : n + 1 \in 1 .. Len(reqs) /\ reqs[n + 1] = reqs'[n]
  <2>1. reqs' = toComp' \o out
    BY <1>7 DEF reqs
  <2> QED BY <1>3, <2>1, HeadElements
<1>9. IdsInv'
  <2>1. \A n \in 1 .. Len(reqs') :
          reqs'[n].id # 0 /\ reqs'[n].id <= comp.last /\ (reqs'[n].op = "destroy" => reqs'[n].id # a)
    BY <1>2, <1>8 DEF IdsInv
  <2>2. a = 0 => field' = field
    BY <1>4, <1>6
  <2> QED BY <1>1, <1>2, <1>5, <1>7, <2>1, <2>2 DEF IdsInv
<1>10. ContextsInv' /\ KeyboardInv'
  <2>1. KeyboardInv'
    BY <1>5, <1>7 DEF Inv, KeyboardInv, HasKeymap
  <2>2. ContextsInv'
    BY <1>5, <1>7 DEF Inv, ContextsInv
  <2> QED BY <2>1, <2>2
<1>11. UngrabbedInv'
  <2>1. a # 0 /\ comp.grab = 0 => field'.shown = field.shown
    BY <1>3, <1>6 DEF Inv, UngrabbedInv
  <2> QED BY <1>5, <1>7, <1>8, <2>1 DEF Inv, UngrabbedInv
<1>12. ArrivingInv'
  BY <1>5, <1>7, <1>8 DEF Inv, ArrivingInv
<1>13. SerialInv'
  BY <1>5, <1>6, <1>7 DEF Inv, SerialInv, Base
<1>14. /\ Texts(reqs, a) = Texts(<<r>>, a) \o Texts(reqs', a) /\ Texts(reqs', a) \in Text
       /\ Drawn(reqs, a) = Drawn(<<r>>, a) \o Drawn(reqs', a) /\ Drawn(reqs', a) \in Seq(Text)
       /\ Texts(<<r>>, a) = IF r.id = a /\ r.op \in {"commit_string", "key"} THEN r.text ELSE <<>>
       /\ Drawn(<<r>>, a) = IF r.id # a THEN <<>>
                            ELSE IF r.op = "commit_string" THEN << <<>> >>
                            ELSE IF r.op = "preedit_string" THEN <<r.text>> ELSE <<>>
  <2>1. PICK one, rest \in Seq(Requests) : one = <<r>> /\ rest = reqs' /\ reqs = one \o rest
    <3>1. <<r>> \in Seq(Requests)
      BY <1>3
    <3> QED BY <1>8, <3>1, Zenon
  <2>2. Texts(one \o rest, a) = Texts(one, a) \o Texts(rest, a) /\ Texts(rest, a) \in Text
    BY TextsFacts
  <2>3. Drawn(one \o rest, a) = Drawn(one, a) \o Drawn(rest, a) /\ Drawn(rest, a) \in Seq(Text)
    BY DrawnFacts
  <2>4. Texts(<<r>>, a) = IF r.id = a /\ r.op \in {"commit_string", "key"} THEN r.text ELSE <<>>
    BY <1>3, TextsFacts
  <2>5. Drawn(<<r>>, a) = IF r.id # a THEN <<>>
                          ELSE IF r.op = "commit_string" THEN << <<>> >>
                          ELSE IF r.op = "preedit_string" THEN <<r.text>> ELSE <<>>
    BY <1>3, DrawnFacts
  <2> QED BY <2>1, <2>2, <2>3, <2>4, <2>5
<1>15. KeysInOrder'
  <2> SUFFICES ASSUME a # 0 PROVE KeysInOrder'
    BY <1>5 DEF KeysInOrder
  <2>1. PICK p, k, x, rest \in Text :
          /\ p = IF wayland.context = a THEN preedit ELSE <<>>
          /\ k = KeysIn(stream, a, wayland.modifiers) /\ x = Texts(<<r>>, a) /\ rest = Texts(reqs', a)
    <3>1. wayland.modifiers \in BOOLEAN /\ preedit \in Text /\ <<>> \in Text
      BY <1>2, WorldTypes
    <3>2. KeysIn(stream, a, wayland.modifiers) \in Text
      BY <1>7, <3>1, KeysType
    <3>3. Texts(<<r>>, a) \in Text
      BY <1>4, <1>14, <3>1
    <3> QED BY <1>14, <3>1, <3>2, <3>3
  <2>2. Joined(field.text, Joins(x, rest), p, k) = field.typed
    BY <1>14, <2>1 DEF Inv, KeysInOrder, Joined, Joins, stream, reqs
  <2>3. field'.text = Joins(field.text, x) /\ field.text \in Text
    <3>1. field.text \in Text
      BY <1>2, WorldTypes
    <3>2. CASE r.id = a /\ r.op \in {"commit_string", "key"}
      BY <1>6, <1>14, <2>1, <3>1, <3>2 DEF Joins
    <3>3. CASE ~ (r.id = a /\ r.op \in {"commit_string", "key"})
      BY <1>6, <1>14, <2>1, <3>1, <3>3, JoinsFacts
    <3> QED BY <3>1, <3>2, <3>3
  <2>4. Joined(field'.text, rest, p, k) = field.typed
    <3>1. PICK w \in Text : w = field.text
      BY <2>3
    <3>2. Joined(Joins(w, x), rest, p, k) = Joined(w, Joins(x, rest), p, k)
      BY JoinedEnds
    <3> QED BY <2>2, <2>3, <3>1, <3>2
  <2> QED BY <1>5, <1>6, <1>7, <2>1, <2>4 DEF KeysInOrder, Joined, Joins, stream, reqs
<1>16. PreeditShown'
  <2> SUFFICES ASSUME a # 0, wayland.context = a
               PROVE  Last(<<field'.shown>> \o Drawn(reqs', a)) = preedit
    BY <1>5, <1>7 DEF PreeditShown, reqs
  <2>1. Last(<<field.shown>> \o Drawn(reqs, a)) = preedit
    BY DEF Inv, PreeditShown, reqs
  <2>2. PICK d \in Seq(Text) : d = Drawn(reqs', a)
    BY <1>14
  <2>3. field.shown \in Text /\ <<>> \in Text
    BY <1>2, WorldTypes
  <2>4. CASE r.id = a /\ r.op = "commit_string"
    <3>1. Last(<<field.shown>> \o (<< <<>> >> \o d)) = Last(<< <<>> >> \o d)
      BY <2>3, LastFacts
    <3> QED BY <1>6, <1>14, <2>1, <2>2, <2>4, <3>1
  <2>5. CASE r.id = a /\ r.op = "preedit_string"
    <3>1. Last(<<field.shown>> \o (<<r.text>> \o d)) = Last(<<r.text>> \o d)
      BY <1>4, <2>3, LastFacts
    <3> QED BY <1>6, <1>14, <2>1, <2>2, <2>5, <3>1
  <2>6. CASE ~ (r.id = a /\ r.op \in {"commit_string", "preedit_string"})
    <3>1. Drawn(reqs, a) = <<>> \o d
      BY <1>14, <2>2, <2>6
    <3>2. <<>> \o d = d
      OBVIOUS
    <3> QED BY <1>6, <2>1, <2>2, <2>6, <3>1, <3>2
  <2> QED BY <2>4, <2>5, <2>6
<1> QED BY <1>7, <1>9, <1>10, <1>11, <1>12, <1>13, <1>15, <1>16 DEF Inv

-----------------------------------------------------------------------------
(* The invariant holds at first.                                            *)
LEMMA Starting == Init => Inv
<1> SUFFICES ASSUME Init PROVE Inv
  OBVIOUS
<1>1. /\ <<>> \in Seq(Events) /\ <<>> \in Seq(Requests) /\ <<>> \in Text
      /\ stream = <<>> /\ reqs = <<>> /\ Len(stream) = 0 /\ Len(reqs) = 0
  BY DEF Init, stream, reqs, Text
<1>2. TypeInv
  BY <1>1 DEF Init, Empty, TypeInv, LoopTypes, ServiceTypes, EventTypes, RequestTypes, CompTypes, Comps, FieldTypes
<1>3. LoopInv
  BY DEF Init, LoopInv, TypeOK
<1>4. IdsInv /\ KeyboardInv
  BY <1>1 DEF Init, IdsInv, KeyboardInv
<1>5. ContextsInv
  <2>1. Leads(<<>>, 0, 0)
    <3> DEFINE ctx == [n \in 1 .. 1 |-> 0]
    <3>1. ctx \in [1 .. Len(<<>>) + 1 -> Nat] /\ ctx[1] = 0 /\ Len(<<>>) + 1 = 1
      OBVIOUS
    <3>2. \A n \in 1 .. Len(<<>>) : FALSE
      OBVIOUS
    <3> HIDE DEF ctx
    <3> QED BY <3>1, <3>2 DEF Leads
  <2> QED BY <1>1, <2>1 DEF Init, ContextsInv
<1>6. UngrabbedInv /\ ArrivingInv /\ SerialInv /\ KeysInOrder /\ PreeditShown
  BY DEF Init, UngrabbedInv, ArrivingInv, SerialInv, KeysInOrder, PreeditShown
<1> QED BY <1>2, <1>3, <1>4, <1>5, <1>6 DEF Inv

(* Every reachable state has the inductive invariant: nimf_wayland's        *)
(* listeners, its place in the main loop and the compositor keep it.        *)
THEOREM Invariance == Spec => []Inv
<1>1. Inv /\ [Next]_vars => Inv'
  <2> SUFFICES ASSUME Inv, [Next]_vars PROVE Inv'
    OBVIOUS
  <2>1. CASE \/ nimf_wayland_start \/ nimf_wayland_source_prepare \/ nimf_wayland_source_check
             \/ Skipped \/ nimf_wayland_source_dispatch \/ Stop \/ UNCHANGED vars
    BY <2>1, LoopActions, Looping
  <2>2. CASE Listener
    BY <2>2, Listening
  <2>3. CASE Enter
    BY <2>3, Entering
  <2>4. CASE Leave
    BY <2>4, Leaving
  <2>5. CASE TypeKey
    BY <2>5, Typing
  <2>6. CASE Shift
    BY <2>6, Shifting
  <2>7. CASE CommitState
    BY <2>7, Committing
  <2>8. CASE Takes
    BY <2>8, Grabbing, Taking
  <2>9. CASE CompositorDies
    BY <2>9, Dying
  <2> QED BY <2>1, <2>2, <2>3, <2>4, <2>5, <2>6, <2>7, <2>8, <2>9, Zenon DEF Next
<1> QED BY <1>1, Starting, PTL DEF Spec

(* Every key typed is in one place and in order, and a field shows what     *)
(* the engine composes for it, through every activation, deactivation and   *)
(* grab that comes too late.                                                *)
THEOREM FieldsNeverMix == Spec => []FieldsApart
<1>1. Inv => FieldsApart
  BY DEF Inv, FieldsApart
<1> QED BY <1>1, Invariance, PTL

(* The service prepares and reads in turn, asks for nothing without a       *)
(* context, and sends the last serial that it has read of the active        *)
(* field.                                                                   *)
THEOREM ContextsFollow == Spec => []ContextFollows
<1>1. Inv => ContextFollows
  <2> SUFFICES ASSUME Inv PROVE ContextFollows
    OBVIOUS
  <2>1. TypeInv /\ IdsInv /\ SerialInv
    BY DEF Inv
  <2>2. toComp \in Seq(Requests) /\ out \in Seq(Requests)
    BY <2>1, WorldTypes
  <2>3. NeverWithoutContext
    <3>1. \A n \in DOMAIN out : Len(toComp) + n \in 1 .. Len(reqs) /\ reqs[Len(toComp) + n] = out[n]
      BY <2>2 DEF reqs
    <3> QED BY <2>1, <3>1 DEF IdsInv, NeverWithoutContext
  <2>4. SerialFollows
    BY <2>1 DEF SerialInv, Base, SerialFollows, stream
  <2> QED BY <2>3, <2>4 DEF Inv, LoopInv, ContextFollows
<1> QED BY <1>1, Invariance, PTL
=============================================================================
