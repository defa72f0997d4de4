------------------------- MODULE NimfToolkitsProofs -------------------------
(***************************************************************************)
(* Proofs about NimfToolkits: for any fields and in each toolkit, a key    *)
(* reaches its field once and in order, a field shows what is composed for *)
(* it, and what modules, libnimf and toolkit remember of a context agrees. *)
(*                                                                         *)
(* What an operator makes of a world is said by relations of the two       *)
(* worlds; an invariant of the actions joins them over time.               *)
(***************************************************************************)
EXTENDS NimfToolkits, SequenceFacts

IMs == [preedit : Seq(Texts), from : Nat, to : Nat, use_preedit : BOOLEAN,
        area : Fields \cup {NoField}]
Widgets == [stage : {"none", "live", "dying"}, accepts : BOOLEAN, text : Seq(Texts),
            shown : Seq(Texts), marks : SUBSET Int, typed : Seq(Texts)]
Records == [reset : BOOLEAN, hook : BOOLEAN, filters : 0 .. 1, client : BOOLEAN,
            has_focus : BOOLEAN, cursor_area : Fields \cup {NoField}]
Worlds == [im : IMs, fields : [Fields -> Widgets]]

TypeInv ==
  /\ toolkit \in {"gtk3", "gtk4", "qt"} /\ valid \in BOOLEAN
  /\ fields \in [Fields -> Widgets]
  /\ ims \in [Contexts -> IMs] /\ contexts \in [Contexts -> Records]
  /\ settings \in [Options -> BOOLEAN]
  /\ TypeOK

(* There is a context x that signals of GSettings come to.                 *)
There(x) == IF Qt THEN valid /\ x = App ELSE x \in Fields /\ fields[x].stage = "live"

(* A context has its options from the settings until they change, and its  *)
(* filter by its options. One that is not there is told nothing.           *)
Told(x) ==
  /\ <<x, "reset">> \in notices \/ contexts[x].reset = settings.reset
  /\ toolkit = "gtk3" => <<x, "hook">> \in notices \/ contexts[x].hook = settings.hook
Wants(c) == (toolkit = "gtk3" /\ (c.reset \/ c.hook)) \/ (Qt /\ c.reset)
OptionsInv ==
  \A x \in Contexts :
    IF There(x) THEN Told(x) /\ (contexts[x].filters = 1 <=> Wants(contexts[x]))
    ELSE contexts[x].filters = 0 /\ \A key \in Options : <<x, key>> \notin notices

(* The context of Qt composes only for a field that accepts it, and always *)
(* shows it; a context of GTK is new when its field is; and GTK 4 has a    *)
(* controller for the field with the focus.                                *)
ContextInv ==
  /\ Qt => ims[App].use_preedit /\ ((valid /\ Accepting(focus)) \/ ims[App].preedit = <<>>)
  /\ Gtk => \A f \in Fields : fields[f].stage = "none" => ims[f] = NewIM
  /\ toolkit = "gtk4" /\ focus # NoField => contexts[focus].client

(* The widget r shows what the engine of im highlights as it does, but in  *)
(* GTK 4.  A field that is not there shows nothing.                        *)
Paints(r, im, kit) ==
  r.shown # <<>> /\ kit \in {"gtk3", "qt"} =>
    r.marks = Highlighted(im, IF kit = "qt" THEN Units ELSE Bytes)
PaintInv ==
  \A f \in Fields : /\ Paints(fields[f], ims[ContextOf(f)], toolkit)
                    /\ fields[f].stage # "live" => fields[f].shown = <<>>

Inv == /\ TypeInv /\ OptionsInv /\ ContextInv /\ PositionKnown
       /\ KeysReachField /\ PreeditShown /\ PaintInv

-----------------------------------------------------------------------------
(* Lengths in units.  g is the function that Offset chooses for the first  *)
(* n characters of a text.                                                 *)
Begins(g, text, size, n) ==
  g = [m \in 0 .. n |-> IF m = 0 THEN 0 ELSE g[m - 1] + size[text[m]]]

LEMMA BeginsExist == \A text, size : \A n \in Nat : \E g : Begins(g, text, size, n)
<1> SUFFICES ASSUME NEW text, NEW size PROVE \A n \in Nat : \E g : Begins(g, text, size, n)
  OBVIOUS
<1> DEFINE S == {n \in Nat : \E g : Begins(g, text, size, n)}
<1>1. 0 \in S
  <2> DEFINE g == [m \in 0 .. 0 |-> 0]
  <2>1. \A m \in 0 .. 0 : g[m] = IF m = 0 THEN 0 ELSE g[m - 1] + size[text[m]]
    OBVIOUS
  <2>2. Begins(g, text, size, 0)
    BY <2>1, Zenon DEF Begins
  <2> HIDE DEF g
  <2> QED BY <2>2
<1>2. ASSUME NEW n \in Nat, \E f : Begins(f, text, size, n)
      PROVE  \E f : Begins(f, text, size, n + 1)
  <2>1. PICK f : Begins(f, text, size, n)
    BY <1>2
  <2> DEFINE h == f[n] + size[text[n + 1]]
             g == [m \in 0 .. n + 1 |-> IF m = n + 1 THEN h ELSE f[m]]
  <2>2. g[n + 1] = h /\ \A m \in 0 .. n : g[m] = f[m]
    <3> HIDE DEF h
    <3> QED OBVIOUS
  <2>3. \A m \in 0 .. n + 1 : g[m] = IF m = 0 THEN 0 ELSE g[m - 1] + size[text[m]]
    <3> TAKE m \in 0 .. n + 1
    <3> HIDE DEF g
    <3>1. CASE m = n + 1
      <4>1. m # 0 /\ m - 1 = n /\ n \in 0 .. n
        BY <3>1
      <4> QED BY <3>1, <4>1, <2>2
    <3>2. CASE m # n + 1
      <4>1. m \in 0 .. n /\ (m # 0 => m - 1 \in 0 .. n)
        BY <3>2
      <4>2. f[m] = IF m = 0 THEN 0 ELSE f[m - 1] + size[text[m]]
        BY <4>1, <2>1 DEF Begins
      <4>3. g[m] = f[m] /\ (m # 0 => g[m - 1] = f[m - 1])
        BY <4>1, <2>2
      <4> QED BY <4>2, <4>3
    <3> QED BY <3>1, <3>2
  <2>4. Begins(g, text, size, n + 1)
    BY <2>3, Zenon DEF Begins
  <2> HIDE DEF g
  <2> QED BY <2>4
<1>3. S = Nat
  <2> HIDE DEF S
  <2>1. S \subseteq Nat
    BY DEF S
  <2>2. \A n \in S : n + 1 \in S
    BY <1>2 DEF S
  <2> QED BY <1>1, <2>2, <2>1, NatSets
<1> QED BY <1>3

(* Each character begins where the one before it ends.                     *)
LEMMA OffsetDef ==
  ASSUME NEW text, Len(text) \in Nat, NEW size
  PROVE  /\ Offset(text, 0, size) = 0
         /\ \A m \in 1 .. Len(text) : Offset(text, m, size) = Offset(text, m - 1, size) + size[text[m]]
<1> DEFINE g == CHOOSE g : Begins(g, text, size, Len(text))
<1>1. Len(text) \in Nat
  OBVIOUS
<1>2. Begins(g, text, size, Len(text))
  BY <1>1, BeginsExist, Zenon
<1>3. \A m : Offset(text, m, size) = g[m]
  BY Zenon DEF Offset, Begins
<1>4. g[0] = 0 /\ \A m \in 1 .. Len(text) : g[m] = g[m - 1] + size[text[m]]
  <2> HIDE DEF g
  <2>1. 0 \in 0 .. Len(text) /\ \A m \in 1 .. Len(text) : m \in 0 .. Len(text) /\ m # 0
    BY <1>1
  <2> QED BY <1>2, <2>1 DEF Begins
<1> HIDE DEF g
<1> QED BY <1>3, <1>4

LEMMA TextsAre == Texts = {"a", "ga", "hanja", "emoji"}
  BY DEF Texts, Bytes

(* Every character is of some bytes, and of one unit or two.               *)
Sizes(size) == \A k \in Texts : size[k] \in Nat /\ size[k] >= 1

LEMMA SizesFacts ==
  /\ Sizes(Bytes) /\ Sizes(Units) /\ Units["ga"] = 1
  /\ \A k \in Texts : Units[k] = 1 \/ Units[k] = 2
<1>1. /\ Units["a"] = 1 /\ Units["ga"] = 1 /\ Units["hanja"] = 1 /\ Units["emoji"] = 2
      /\ Bytes["a"] = 1 /\ Bytes["ga"] = 3 /\ Bytes["hanja"] = 3 /\ Bytes["emoji"] = 4
  BY DEF Units, Bytes
<1>2. ASSUME NEW k \in Texts
      PROVE  /\ Bytes[k] \in Nat /\ Bytes[k] >= 1 /\ (Units[k] = 1 \/ Units[k] = 2)
  <2>1. k = "a" \/ k = "ga" \/ k = "hanja" \/ k = "emoji"
    BY TextsAre
  <2> QED BY <1>1, <2>1
<1> QED BY <1>1, <1>2 DEF Sizes

(* Offsets grow with the characters, and none is less than their number.   *)
LEMMA OffsetBound ==
  ASSUME NEW text \in Seq(Texts), NEW size, Sizes(size)
  PROVE  \A m \in 0 .. Len(text) :
           /\ Offset(text, m, size) \in Nat /\ Offset(text, m, size) >= m
           /\ \A l \in 0 .. m : Offset(text, l, size) \in Nat /\ Offset(text, l, size) <= Offset(text, m, size)
<1> DEFINE P(m) == m <= Len(text) =>
             /\ Offset(text, m, size) \in Nat /\ Offset(text, m, size) >= m
             /\ \A l \in 0 .. m : Offset(text, l, size) \in Nat /\ Offset(text, l, size) <= Offset(text, m, size)
           S == {m \in Nat : P(m)}
<1>1. 0 \in S
  BY OffsetDef
<1>2. ASSUME NEW m \in Nat, P(m) PROVE P(m + 1)
  <2> SUFFICES ASSUME m + 1 <= Len(text)
               PROVE  /\ Offset(text, m + 1, size) \in Nat /\ Offset(text, m + 1, size) >= m + 1
                      /\ \A l \in 0 .. m + 1 : Offset(text, l, size) \in Nat /\ Offset(text, l, size) <= Offset(text, m + 1, size)
    OBVIOUS
  <2>1. m + 1 \in 1 .. Len(text) /\ (m + 1) - 1 = m
    OBVIOUS
  <2>2. text[m + 1] \in Texts
    BY <2>1
  <2>3. Offset(text, m + 1, size) = Offset(text, m, size) + size[text[m + 1]]
    BY <2>1, OffsetDef
  <2>4. /\ Offset(text, m, size) \in Nat /\ Offset(text, m, size) >= m
        /\ \A l \in 0 .. m : Offset(text, l, size) \in Nat /\ Offset(text, l, size) <= Offset(text, m, size)
    BY <1>2, <2>1
  <2>5. PICK a, b \in Nat : a = Offset(text, m, size) /\ b = size[text[m + 1]] /\ b >= 1
    BY <2>2, <2>4 DEF Sizes
  <2>6. Offset(text, m + 1, size) = a + b
    BY <2>3, <2>5
  <2>7. ASSUME NEW l \in 0 .. m + 1 PROVE Offset(text, l, size) \in Nat /\ Offset(text, l, size) <= a + b
    <3>1. CASE l = m + 1
      BY <2>6, <3>1
    <3>2. CASE l # m + 1
      <4>1. l \in 0 .. m
        BY <3>2
      <4>2. Offset(text, l, size) \in Nat /\ Offset(text, l, size) <= a
        BY <2>4, <2>5, <4>1
      <4> QED BY <2>5, <4>2
    <3> QED BY <3>1, <3>2
  <2> QED BY <2>4, <2>5, <2>6, <2>7
<1>3. S = Nat
  <2> HIDE DEF P
  <2>1. \A m \in S : m + 1 \in S
    BY <1>2
  <2>2. S \in SUBSET Nat
    OBVIOUS
  <2> HIDE DEF S
  <2> QED BY <1>1, <2>1, <2>2, NatSets
<1>4. \A m \in Nat : P(m)
  <2> HIDE DEF P
  <2> QED BY <1>3
<1> QED BY <1>4

(* What is before the end of a character is part of one up to it.          *)
LEMMA PartOfOne ==
  ASSUME NEW text \in Seq(Texts), NEW size, Sizes(size)
  PROVE  \A m \in 0 .. Len(text) :
           \A i \in 0 .. Offset(text, m, size) - 1 : \E n \in 1 .. m : i \in PartsOf(text, n, size)
<1> DEFINE P(m) == m <= Len(text) =>
             \A i \in 0 .. Offset(text, m, size) - 1 : \E n \in 1 .. m : i \in PartsOf(text, n, size)
           S == {m \in Nat : P(m)}
<1>1. 0 \in S
  BY OffsetDef
<1>2. ASSUME NEW m \in Nat, P(m) PROVE P(m + 1)
  <2> SUFFICES ASSUME m + 1 <= Len(text), NEW i \in 0 .. Offset(text, m + 1, size) - 1
               PROVE  \E n \in 1 .. m + 1 : i \in PartsOf(text, n, size)
    OBVIOUS
  <2>1. PICK a, b \in Nat : a = Offset(text, m, size) /\ b = Offset(text, m + 1, size)
    BY OffsetBound
  <2>2. CASE i < a
    <3>1. i \in 0 .. Offset(text, m, size) - 1
      BY <2>1, <2>2
    <3>2. PICK n \in 1 .. m : i \in PartsOf(text, n, size)
      BY <1>2, <3>1
    <3> QED BY <3>2
  <2>3. CASE i >= a
    <3>1. (m + 1) - 1 = m /\ m + 1 \in 1 .. m + 1
      OBVIOUS
    <3>2. i \in a .. (b - 1)
      BY <2>1, <2>3
    <3> QED BY <2>1, <3>1, <3>2 DEF PartsOf
  <2> QED BY <2>1, <2>2, <2>3
<1>3. S = Nat
  <2> HIDE DEF P
  <2>1. \A m \in S : m + 1 \in S
    BY <1>2
  <2>2. S \in SUBSET Nat
    OBVIOUS
  <2> HIDE DEF S
  <2> QED BY <1>1, <2>1, <2>2, NatSets
<1>4. \A m \in Nat : P(m)
  <2> HIDE DEF P
  <2> QED BY <1>3
<1> QED BY <1>4

(* The engine highlights characters of what is composed.                   *)
Within(im) == /\ im.preedit \in Seq(Texts) /\ im.from \in Nat /\ im.to \in Nat
              /\ im.from <= im.to /\ im.to <= Len(im.preedit)

(* GTK 3: from the first byte of the first one to the last byte of the     *)
(* last one.                                                               *)
LEMMA GtkHighlights ==
  ASSUME NEW im, Within(im), toolkit = "gtk3"
  PROVE  Marks(im) = Highlighted(im, Bytes)
<1>1. PICK text \in Seq(Texts), from, to \in Nat :
        text = im.preedit /\ from = im.from /\ to = im.to /\ from <= to /\ to <= Len(text)
  BY DEF Within
<1>2. Marks(im) = Offset(text, from, Bytes) .. (Offset(text, to, Bytes) - 1)
  BY <1>1 DEF Marks, gtk_get_preedit_string
<1>3. Highlighted(im, Bytes) = UNION {PartsOf(text, n, Bytes) : n \in (from + 1) .. to}
  BY <1>1 DEF Highlighted
<1>4. PICK a, b \in Nat : a = Offset(text, from, Bytes) /\ b = Offset(text, to, Bytes)
  <2>1. from \in 0 .. Len(text) /\ to \in 0 .. Len(text) /\ Sizes(Bytes)
    BY <1>1, SizesFacts
  <2>2. Offset(text, from, Bytes) \in Nat /\ Offset(text, to, Bytes) \in Nat
    BY <2>1, OffsetBound
  <2> QED BY <2>2
<1>5. ASSUME NEW i \in a .. (b - 1)
      PROVE  \E n \in (from + 1) .. to : i \in PartsOf(text, n, Bytes)
  <2>1. to \in 0 .. Len(text) /\ i \in 0 .. Offset(text, to, Bytes) - 1
    BY <1>1, <1>4
  <2>2. PICK n \in 1 .. to : i \in PartsOf(text, n, Bytes)
    BY <2>1, PartOfOne, SizesFacts
  <2>3. n > from
    <3> SUFFICES ASSUME n <= from PROVE FALSE
      OBVIOUS
    <3>1. from \in 0 .. Len(text) /\ n \in 0 .. from
      BY <1>1
    <3>2. Offset(text, n, Bytes) \in Nat /\ Offset(text, n, Bytes) <= a
      BY <1>4, <3>1, OffsetBound, SizesFacts
    <3>3. i \in Int /\ i <= Offset(text, n, Bytes) - 1
      BY <1>4, <2>2, <3>2 DEF PartsOf
    <3> QED BY <1>4, <3>2, <3>3
  <2> QED BY <2>2, <2>3
<1>6. ASSUME NEW n \in (from + 1) .. to, NEW i \in PartsOf(text, n, Bytes)
      PROVE  i \in a .. (b - 1)
  <2>1. n \in 0 .. to /\ n - 1 \in 0 .. Len(text) /\ from \in 0 .. (n - 1) /\ to \in 0 .. Len(text)
    BY <1>1
  <2>2. PICK c, d \in Nat : c = Offset(text, n - 1, Bytes) /\ d = Offset(text, n, Bytes) /\ a <= c /\ d <= b
    BY <1>4, <2>1, OffsetBound, SizesFacts
  <2>3. i \in c .. (d - 1)
    BY <2>2 DEF PartsOf
  <2> QED BY <2>2, <2>3
<1> QED BY <1>2, <1>3, <1>4, <1>5, <1>6

-----------------------------------------------------------------------------
(* Qt: the units of a text.  Each character begins with one that is no low *)
(* surrogate, and a second one is.                                         *)
Surrogates == [k \in Texts |-> SubSeq(<<0, 1>>, 1, Units[k])]

LEMMA SurrogatesFacts ==
  /\ Surrogates \in [Texts -> Seq({0, 1})]
  /\ \A k \in Texts : /\ Len(Surrogates[k]) = Units[k]
                      /\ Surrogates[k][1] = 0
                      /\ Units[k] = 2 => Surrogates[k][2] = 1
<1>1. PICK s \in Seq({0, 1}) : s = <<0, 1>> /\ Len(s) = 2 /\ s[1] = 0 /\ s[2] = 1
  <2>1. <<0, 1>> \in Seq({0, 1}) /\ Len(<<0, 1>>) = 2 /\ <<0, 1>>[1] = 0 /\ <<0, 1>>[2] = 1
    OBVIOUS
  <2> QED BY <2>1
<1>2. ASSUME NEW n \in {1, 2}
      PROVE  /\ SubSeq(s, 1, n) \in Seq({0, 1}) /\ Len(SubSeq(s, 1, n)) = n
             /\ SubSeq(s, 1, n)[1] = 0 /\ (n = 2 => SubSeq(s, 1, n)[2] = 1)
  BY <1>1
<1>3. ASSUME NEW k \in Texts
      PROVE  /\ Surrogates[k] \in Seq({0, 1}) /\ Len(Surrogates[k]) = Units[k]
             /\ Surrogates[k][1] = 0 /\ (Units[k] = 2 => Surrogates[k][2] = 1)
  <2>1. PICK n \in {1, 2} : n = Units[k]
    BY SizesFacts
  <2>2. Surrogates[k] = SubSeq(s, 1, n)
    BY <1>1, <2>1 DEF Surrogates
  <2> QED BY <1>2, <2>1, <2>2
<1>4. Surrogates = [k \in Texts |-> Surrogates[k]]
  BY DEF Surrogates
<1> QED BY <1>3, <1>4

(* low has the units of the first m characters, in order.                  *)
Unit1(low, text, n) == low[Offset(text, n - 1, Units) + 1]
Unit2(low, text, n) == low[Offset(text, n - 1, Units) + 2]
Lows(low, text, m) ==
  /\ low \in Seq({0, 1}) /\ Len(low) = Offset(text, m, Units)
  /\ \A n \in 1 .. m : Unit1(low, text, n) = 0 /\ (Units[text[n]] = 2 => Unit2(low, text, n) = 1)

LEMMA LowsGrow ==
  ASSUME NEW text \in Seq(Texts), NEW m \in Nat, m + 1 <= Len(text), NEW low, Lows(low, text, m)
  PROVE  Lows(low \o Surrogates[text[m + 1]], text, m + 1)
<1>1. PICK k \in Texts : k = text[m + 1]
  OBVIOUS
<1>2. PICK s \in Seq({0, 1}) :
        s = Surrogates[k] /\ Len(s) = Units[k] /\ s[1] = 0 /\ (Units[k] = 2 => s[2] = 1)
  BY SurrogatesFacts
<1>3. m + 1 \in 1 .. Len(text) /\ (m + 1) - 1 = m /\ m \in 0 .. Len(text)
  OBVIOUS
<1>4. PICK a, u \in Nat : a = Offset(text, m, Units) /\ u = Units[k] /\ u >= 1
  BY <1>3, OffsetBound, SizesFacts DEF Sizes
<1>5. Offset(text, m + 1, Units) = a + u
  BY <1>1, <1>3, <1>4, OffsetDef, SMTT(30)
<1>6. low \in Seq({0, 1}) /\ Len(low) = a
  BY <1>4 DEF Lows
<1>7. PICK t \in Seq({0, 1}) : t = low \o s
  <2>1. low \o s \in Seq({0, 1})
    BY <1>2, <1>6, ConcatProperties, Zenon
  <2> QED BY <2>1
<1>8. /\ Len(t) = a + u /\ (\A i \in 1 .. a : t[i] = low[i])
      /\ t[a + 1] = s[1] /\ (u = 2 => t[a + 2] = s[2])
  <2>1. Len(t) = a + u /\ \A i \in 1 .. a + u : t[i] = IF i <= a THEN low[i] ELSE s[i - a]
    <3>1. Len(s) = u
      BY <1>2, <1>4
    <3>2. /\ Len(low \o s) = Len(low) + Len(s)
          /\ \A i \in 1 .. Len(low) + Len(s) : (low \o s)[i] = IF i <= Len(low) THEN low[i] ELSE s[i - Len(low)]
      BY <1>2, <1>6, ConcatProperties, ZenonT(60)
    <3> QED BY <1>6, <1>7, <3>1, <3>2, Zenon
  <2>2. Len(t) = a + u /\ \A i \in 1 .. a : t[i] = low[i]
    <3>1. a \in Nat /\ u \in Nat
      BY <1>4
    <3>2. \A i \in 1 .. a : i \in 1 .. a + u /\ i <= a
      BY <3>1
    <3> QED BY <2>1, <3>2, Zenon
  <2>3. a + 1 \in 1 .. a + u /\ (a + 1) - a = 1 /\ ~ (a + 1 <= a)
    BY <1>4
  <2>4. u = 2 => a + 2 \in 1 .. a + u /\ (a + 2) - a = 2 /\ ~ (a + 2 <= a)
    BY <1>4
  <2> QED BY <2>1, <2>2, <2>3, <2>4
<1>9. ASSUME NEW n \in 1 .. m
      PROVE  Unit1(t, text, n) = 0 /\ (Units[text[n]] = 2 => Unit2(t, text, n) = 1)
  <2>1. n \in 1 .. Len(text) /\ n - 1 \in 0 .. Len(text) /\ n \in 0 .. m
    BY <1>3
  <2>2. PICK b, v \in Nat : b = Offset(text, n - 1, Units) /\ v = Units[text[n]] /\ v >= 1
    <3>1. text[n] \in Texts /\ Sizes(Units)
      BY <2>1, SizesFacts
    <3>2. Units[text[n]] \in Nat /\ Units[text[n]] >= 1
      BY <3>1 DEF Sizes
    <3>3. Offset(text, n - 1, Units) \in Nat
      BY <2>1, <3>1, OffsetBound
    <3> QED BY <3>2, <3>3
  <2>3. Offset(text, n, Units) = b + v /\ b + v <= a
    <3>1. Offset(text, n, Units) = b + v
      BY <2>1, <2>2, OffsetDef, SMTT(30)
    <3>2. Offset(text, n, Units) <= a
      BY <1>3, <1>4, <2>1, OffsetBound, SizesFacts
    <3> QED BY <3>1, <3>2
  <2>4. t[b + 1] = low[b + 1] /\ (v = 2 => t[b + 2] = low[b + 2])
    <3>1. a \in Nat /\ b \in Nat /\ v \in Nat /\ v >= 1 /\ b + v <= a
      BY <1>4, <2>2, <2>3, Zenon
    <3>2. b + 1 \in 1 .. a /\ (v = 2 => b + 2 \in 1 .. a)
      BY <3>1
    <3> QED BY <1>8, <3>2
  <2> QED BY <2>2, <2>4 DEF Lows, Unit1, Unit2
<1>10. Unit1(t, text, m + 1) = 0 /\ (Units[text[m + 1]] = 2 => Unit2(t, text, m + 1) = 1)
  <2>1. Unit1(t, text, m + 1) = t[a + 1] /\ Unit2(t, text, m + 1) = t[a + 2]
    BY <1>3, <1>4 DEF Unit1, Unit2
  <2>2. t[a + 1] = 0 /\ (u = 2 => t[a + 2] = 1)
    BY <1>2, <1>4, <1>8
  <2> QED BY <1>1, <1>4, <2>1, <2>2
<1>11. Len(t) = Offset(text, m + 1, Units)
  BY <1>5, <1>8
<1>12. \A n \in 1 .. m + 1 : Unit1(t, text, n) = 0 /\ (Units[text[n]] = 2 => Unit2(t, text, n) = 1)
  <2> TAKE n \in 1 .. m + 1
  <2>1. n \in 1 .. m \/ n = m + 1
    OBVIOUS
  <2> QED BY <1>9, <1>10, <2>1
<1> QED BY <1>1, <1>2, <1>7, <1>11, <1>12 DEF Lows

LEMMA LowsOfText ==
  ASSUME NEW text \in Seq(Texts)
  PROVE  Lows(LowSurrogates(text), text, Len(text))
<1> DEFINE ss == [k \in DOMAIN text |-> SubSeq(<<0, 1>>, 1, Units[text[k]])]
<1>1. Len(text) \in Nat /\ DOMAIN text = 1 .. Len(text)
  OBVIOUS
<1>2. \A n \in 1 .. Len(text) : ss[n] = Surrogates[text[n]] /\ Surrogates[text[n]] \in Seq({0, 1})
  BY <1>1, SurrogatesFacts DEF Surrogates
<1>3. ss \in Seq(Seq({0, 1})) /\ Len(ss) = Len(text)
  <2>1. ss = [n \in 1 .. Len(text) |-> ss[n]]
    BY <1>1
  <2> HIDE DEF ss
  <2> QED BY <1>1, <1>2, <2>1
<1>4. LowSurrogates(text) = FlattenSeq(ss)
  BY DEF LowSurrogates
<1> HIDE DEF ss
<1>5. CASE Len(text) = 0
  <2>1. ss = <<>>
    BY <1>3, <1>5
  <2>2. LowSurrogates(text) = <<>>
    BY <1>4, <2>1, FlattenEmpty
  <2>3. <<>> \in Seq({0, 1}) /\ Len(<<>>) = 0 /\ Offset(text, 0, Units) = 0
    BY <1>1, OffsetDef
  <2> QED BY <1>5, <2>2, <2>3 DEF Lows
<1>6. CASE Len(text) # 0
  <2>1. ss # <<>>
    BY <1>3, <1>6
  <2>2. PICK f : IsFlatten(f, ss, Len(text)) /\ LowSurrogates(text) = f[Len(text)]
    BY <1>3, <1>4, <2>1, FlattenDef
  <2>3. \A i \in 1 .. Len(text) : f[i] = IF i = 1 THEN ss[1] ELSE f[i - 1] \o ss[i]
    BY <2>2 DEF IsFlatten
  <2> DEFINE P(m) == 1 <= m /\ m <= Len(text) => Lows(f[m], text, m)
             S == {m \in Nat : P(m)}
  <2>4. 0 \in S
    OBVIOUS
  <2>5. Lows(f[1], text, 1)
    <3>1. Lows(<<>>, text, 0)
      <4>1. Offset(text, 0, Units) = 0 /\ <<>> \in Seq({0, 1})
        BY <1>1, OffsetDef
      <4> QED BY <4>1 DEF Lows
    <3>2. 0 + 1 <= Len(text) /\ 0 \in Nat /\ 1 \in 1 .. Len(text) /\ 0 + 1 = 1
      BY <1>1, <1>6
    <3>3. Lows(<<>> \o Surrogates[text[0 + 1]], text, 0 + 1)
      BY <3>1, <3>2, LowsGrow
    <3>4. f[1] = Surrogates[text[1]] /\ <<>> \o Surrogates[text[1]] = Surrogates[text[1]]
      BY <1>2, <2>3, <3>2
    <3> QED BY <3>2, <3>3, <3>4
  <2>6. ASSUME NEW m \in Nat, P(m) PROVE P(m + 1)
    <3> SUFFICES ASSUME m + 1 <= Len(text) PROVE Lows(f[m + 1], text, m + 1)
      OBVIOUS
    <3>1. CASE m = 0
      BY <2>5, <3>1
    <3>2. CASE m # 0
      <4>1. Lows(f[m], text, m)
        BY <1>1, <2>6, <3>2
      <4>2. PICK i \in 1 .. Len(text) : i = m + 1 /\ i # 1 /\ i - 1 = m
        BY <1>1, <3>2
      <4>3. f[i] = f[m] \o Surrogates[text[i]]
        BY <1>2, <2>3, <4>2
      <4>4. Lows(f[m] \o Surrogates[text[m + 1]], text, m + 1)
        BY <4>1, LowsGrow
      <4> QED BY <4>2, <4>3, <4>4
    <3> QED BY <3>1, <3>2
  <2>7. S = Nat
    <3> HIDE DEF P
    <3>1. \A m \in S : m + 1 \in S
      BY <2>6
    <3>2. S \in SUBSET Nat
      OBVIOUS
    <3> HIDE DEF S
    <3> QED BY <2>4, <3>1, <3>2, NatSets
  <2>8. \A m \in Nat : P(m)
    <3> HIDE DEF P
    <3> QED BY <2>7
  <2> QED BY <1>1, <1>6, <2>2, <2>8
<1> QED BY <1>5, <1>6

(* Where the units of a character are, and what they are.                  *)
LEMMA UnitsOfOne ==
  ASSUME NEW text \in Seq(Texts), NEW low, Lows(low, text, Len(text)), NEW n \in 1 .. Len(text)
  PROVE  \E b \in Nat, u \in {1, 2} :
           /\ b = Offset(text, n - 1, Units) /\ u = Units[text[n]] /\ Offset(text, n, Units) = b + u
           /\ b + u <= Len(low) /\ low[b + 1] = 0 /\ (u = 2 => low[b + 2] = 1)
<1>1. n - 1 \in 0 .. Len(text) /\ n \in 0 .. Len(text) /\ Len(text) \in 0 .. Len(text) /\ Sizes(Units)
  BY SizesFacts
<1>2. PICK b \in Nat : b = Offset(text, n - 1, Units)
  BY <1>1, OffsetBound
<1>3. PICK u \in {1, 2} : u = Units[text[n]]
  <2>1. text[n] \in Texts
    OBVIOUS
  <2> QED BY <2>1, SizesFacts
<1>4. Offset(text, n, Units) = b + u
  BY <1>2, <1>3, OffsetDef
<1>5. b + u <= Len(low)
  <2>1. Offset(text, n, Units) <= Offset(text, Len(text), Units)
    BY <1>1, OffsetBound
  <2> QED BY <1>4, <2>1 DEF Lows
<1>6. low[b + 1] = 0 /\ (u = 2 => low[b + 2] = 1)
  BY <1>2, <1>3 DEF Lows, Unit1, Unit2
<1> QED BY <1>2, <1>3, <1>4, <1>5, <1>6

(* One or two units behind b others have places in a text of l units.      *)
LEMMA Places ==
  ASSUME NEW b \in Nat, NEW u \in {1, 2}, NEW l \in Nat, b + u <= l
  PROVE  b + 1 \in 1 .. l /\ (b + 1) - 1 = b /\ (u = 2 => b + 2 \in 1 .. l /\ (b + 2) - 1 = b + 1)
  OBVIOUS

(* The low surrogates before the first unit of a character are as many as  *)
(* there are units more than characters.                                   *)
Ones == [b \in {0, 1} |-> b]

LEMMA LowsCounted ==
  ASSUME NEW text \in Seq(Texts), NEW low, Lows(low, text, Len(text)), NEW n \in 1 .. Len(text),
         NEW b \in Nat, b = Offset(text, n - 1, Units), Offset(low, b, Ones) = b - (n - 1)
  PROVE  /\ Offset(low, b + 1, Ones) = b - (n - 1)
         /\ Offset(low, Offset(text, n, Units), Ones) = Offset(text, n, Units) - n
<1>1. PICK u \in {1, 2} :
        /\ Offset(text, n, Units) = b + u
        /\ b + u <= Len(low) /\ low[b + 1] = 0 /\ (u = 2 => low[b + 2] = 1)
  BY UnitsOfOne, SMTT(30)
<1>2. PICK l \in Nat : l = Len(low)
  BY DEF Lows
<1>3. \A i \in 1 .. l : Offset(low, i, Ones) = Offset(low, i - 1, Ones) + Ones[low[i]]
  BY <1>2, OffsetDef
<1>4. b + 1 \in 1 .. l /\ (b + 1) - 1 = b /\ (u = 2 => b + 2 \in 1 .. l /\ (b + 2) - 1 = b + 1)
  BY <1>1, <1>2, Places
<1>5. Ones[0] = 0 /\ Ones[1] = 1
  BY DEF Ones
<1>6. Offset(low, b + 1, Ones) = b - (n - 1)
  <2>1. Offset(low, b + 1, Ones) = Offset(low, b, Ones) + 0
    BY <1>1, <1>3, <1>4, <1>5
  <2> QED BY <2>1
<1>7. CASE u = 1
  BY <1>1, <1>6, <1>7
<1>8. CASE u = 2
  <2>1. Offset(low, b + 2, Ones) = Offset(low, b + 1, Ones) + 1
    BY <1>1, <1>3, <1>4, <1>5, <1>8
  <2>2. Offset(low, b + 2, Ones) = (b + 2) - n
    BY <1>6, <2>1
  <2> QED BY <1>1, <1>6, <1>8, <2>2
<1> QED BY <1>7, <1>8

LEMMA LowsBefore ==
  ASSUME NEW text \in Seq(Texts), NEW low, Lows(low, text, Len(text))
  PROVE  \A n \in 1 .. Len(text) :
           Offset(low, Offset(text, n - 1, Units) + 1, Ones) = Offset(text, n - 1, Units) - (n - 1)
<1> DEFINE P(m) == m <= Len(text) => Offset(low, Offset(text, m, Units), Ones) = Offset(text, m, Units) - m
           S == {m \in Nat : P(m)}
<1>1. 0 \in S
  <2>1. Offset(text, 0, Units) = 0
    BY OffsetDef
  <2>2. Offset(low, 0, Ones) = 0
    BY OffsetDef DEF Lows
  <2> QED BY <2>1, <2>2
<1>2. ASSUME NEW m \in Nat, P(m) PROVE P(m + 1)
  <2> SUFFICES ASSUME NEW n \in 1 .. Len(text), n = m + 1
               PROVE  Offset(low, Offset(text, n, Units), Ones) = Offset(text, n, Units) - n
    OBVIOUS
  <2>1. PICK b \in Nat : b = Offset(text, n - 1, Units)
    BY UnitsOfOne
  <2>2. n - 1 = m /\ m <= Len(text)
    OBVIOUS
  <2>3. Offset(low, b, Ones) = b - (n - 1)
    BY <1>2, <2>1, <2>2
  <2> QED BY <2>1, <2>3, LowsCounted
<1>3. S = Nat
  <2> HIDE DEF P
  <2>1. \A m \in S : m + 1 \in S
    BY <1>2
  <2>2. S \in SUBSET Nat
    OBVIOUS
  <2> HIDE DEF S
  <2> QED BY <1>1, <2>1, <2>2, NatSets
<1>4. \A m \in Nat : P(m)
  <2> HIDE DEF P
  <2> QED BY <1>3
<1> SUFFICES ASSUME NEW n \in 1 .. Len(text)
             PROVE  Offset(low, Offset(text, n - 1, Units) + 1, Ones) = Offset(text, n - 1, Units) - (n - 1)
  OBVIOUS
<1>5. PICK b \in Nat : b = Offset(text, n - 1, Units)
  BY UnitsOfOne
<1>6. n - 1 \in Nat /\ n - 1 <= Len(text)
  OBVIOUS
<1>7. Offset(low, b, Ones) = b - (n - 1)
  BY <1>4, <1>5, <1>6
<1> QED BY <1>5, <1>7, LowsCounted

(* Qt formats the characters that the engine highlights.                   *)
LEMMA QtHighlights ==
  ASSUME NEW im, Within(im), toolkit = "qt"
  PROVE  Marks(im) = Highlighted(im, Units)
<1>1. PICK text \in Seq(Texts), from, to \in Nat :
        text = im.preedit /\ from = im.from /\ to = im.to /\ from <= to /\ to <= Len(text)
  BY DEF Within
<1>2. PICK low : low = LowSurrogates(text)
  OBVIOUS
<1>3. Lows(low, text, Len(text)) /\ low \in Seq({0, 1})
  BY <1>2, LowsOfText DEF Lows
<1>4. PICK l \in Nat : l = Len(low) /\ l = Offset(text, Len(text), Units)
  BY <1>3 DEF Lows
<1> DEFINE formatted == {i \in 1 .. l : low[i] = 0 /\ i - 1 - Offset(low, i, Ones) \in from .. (to - 1)}
           second == {j \in formatted : j < l /\ low[j + 1] = 1}
<1>5. Marks(im) = {i - 1 : i \in formatted \cup {j + 1 : j \in second}}
  BY <1>1, <1>2, <1>4 DEF Marks, qt_formats, Ones
<1>6. Highlighted(im, Units) = UNION {PartsOf(text, n, Units) : n \in (from + 1) .. to}
  BY <1>1 DEF Highlighted
<1>7. ASSUME NEW i \in formatted
      PROVE  \E n \in (from + 1) .. to : i = Offset(text, n - 1, Units) + 1
  <2>1. i \in 1 .. l /\ low[i] = 0 /\ i - 1 - Offset(low, i, Ones) \in from .. (to - 1)
    OBVIOUS
  <2>2. Len(text) \in 0 .. Len(text) /\ Sizes(Units) /\ i - 1 \in 0 .. Offset(text, Len(text), Units) - 1
    BY <1>4, <2>1, SizesFacts
  <2>3. PICK n \in 1 .. Len(text) : i - 1 \in PartsOf(text, n, Units)
    BY <2>2, PartOfOne
  <2>4. PICK b \in Nat, u \in {1, 2} :
          /\ b = Offset(text, n - 1, Units) /\ Offset(text, n, Units) = b + u
          /\ b + u <= Len(low) /\ low[b + 1] = 0 /\ (u = 2 => low[b + 2] = 1)
    BY <1>3, UnitsOfOne
  <2>5. i - 1 \in b .. (b + u - 1)
    BY <2>3, <2>4 DEF PartsOf
  <2>6. i = b + 1
    <3>1. i = b + 1 \/ (u = 2 /\ i = b + 2)
      <4>1. i \in Int /\ b \in Nat /\ u \in {1, 2} /\ i - 1 \in b .. (b + u - 1)
        BY <1>4, <2>1, <2>4, <2>5
      <4>2. CASE u = 1
        BY <4>1, <4>2
      <4>3. CASE u = 2
        BY <4>1, <4>3
      <4> QED BY <4>1, <4>2, <4>3
    <3> QED BY <2>1, <2>4, <3>1
  <2>7. Offset(low, i, Ones) = b - (n - 1)
    BY <1>3, <2>4, <2>6, LowsBefore
  <2>8. i - 1 - Offset(low, i, Ones) = n - 1
    BY <2>4, <2>6, <2>7, SMTT(30)
  <2>9. n \in (from + 1) .. to
    BY <1>1, <2>1, <2>8
  <2> QED BY <2>4, <2>6, <2>9
<1>8. ASSUME NEW n \in (from + 1) .. to
      PROVE  \E b \in Nat, u \in {1, 2} :
               /\ PartsOf(text, n, Units) = b .. (b + u - 1)
               /\ b = Offset(text, n - 1, Units)
               /\ b + 1 \in formatted
               /\ b + 1 \in second <=> u = 2
  <2>1. n \in 1 .. Len(text)
    BY <1>1
  <2>2. PICK b \in Nat, u \in {1, 2} :
          /\ b = Offset(text, n - 1, Units) /\ Offset(text, n, Units) = b + u
          /\ b + u <= l /\ low[b + 1] = 0 /\ (u = 2 => low[b + 2] = 1)
    BY <1>3, <1>4, <2>1, UnitsOfOne, ZenonT(60)
  <2>3. Offset(low, b + 1, Ones) = b - (n - 1)
    BY <1>3, <2>1, <2>2, LowsBefore
  <2>4. (b + 1) - 1 - Offset(low, b + 1, Ones) \in from .. (to - 1)
    <3>1. (b + 1) - 1 - Offset(low, b + 1, Ones) = n - 1
      BY <2>1, <2>2, <2>3
    <3>2. n - 1 \in from .. (to - 1)
      BY <1>1
    <3> QED BY <3>1, <3>2
  <2>5. b + 1 \in 1 .. l
    BY <1>4, <2>2
  <2>6. b + 1 \in formatted
    BY <2>2, <2>4, <2>5
  <2>7. u = 2 => b + 1 \in second
    BY <2>2, <2>6, SMTT(30)
  <2>8. u = 1 => b + 1 \notin second
    <3> SUFFICES ASSUME u = 1, b + 1 < l PROVE low[b + 2] # 1
      BY <2>2
    <3>1. n + 1 \in 1 .. Len(text) /\ (n + 1) - 1 = n
      <4>1. n # Len(text)
        BY <1>4, <2>2
      <4> QED BY <2>1, <4>1
    <3>2. low[Offset(text, n, Units) + 1] = 0
      BY <1>3, <3>1, UnitsOfOne
    <3> QED BY <2>2, <3>2
  <2>9. PartsOf(text, n, Units) = b .. (b + u - 1)
    BY <2>2 DEF PartsOf
  <2> QED BY <2>2, <2>6, <2>7, <2>8, <2>9
<1>9. ASSUME NEW x \in Marks(im) PROVE x \in Highlighted(im, Units)
  <2>1. PICK j \in formatted : x = j - 1 \/ (j \in second /\ x = (j + 1) - 1)
    <3> HIDE DEF formatted
    <3> QED BY <1>5
  <2>2. PICK n \in (from + 1) .. to : j = Offset(text, n - 1, Units) + 1
    BY <1>7
  <2>3. PICK b \in Nat, u \in {1, 2} :
          /\ PartsOf(text, n, Units) = b .. (b + u - 1)
          /\ b = Offset(text, n - 1, Units)
          /\ b + 1 \in second <=> u = 2
    BY <1>8
  <2>4. x \in b .. (b + u - 1)
    <3> HIDE DEF formatted, second
    <3> QED BY <2>1, <2>2, <2>3
  <2> QED BY <1>6, <2>3, <2>4
<1>10. ASSUME NEW x \in Highlighted(im, Units) PROVE x \in Marks(im)
  <2>1. PICK n \in (from + 1) .. to : x \in PartsOf(text, n, Units)
    BY <1>6
  <2>2. PICK b \in Nat, u \in {1, 2} :
          /\ PartsOf(text, n, Units) = b .. (b + u - 1)
          /\ b + 1 \in formatted
          /\ b + 1 \in second <=> u = 2
    BY <1>8
  <2>3. x = (b + 1) - 1 \/ (b + 1 \in second /\ x = ((b + 1) + 1) - 1)
    <3> HIDE DEF formatted, second
    <3> QED BY <2>1, <2>2
  <2> HIDE DEF formatted, second
  <2> QED BY <1>5, <2>2, <2>3
<1> QED BY <1>9, <1>10

-----------------------------------------------------------------------------
(* What was typed, according to a world, and whether the field f shows what *)
(* is composed, highlighted as it is.                                      *)
Joined(w, f) == w.fields[f].text \o w.im.preedit
Painted(w, f) == Paints(w.fields[f], w.im, toolkit)
Drawn(w, f) ==
  w.fields[f].shown = (IF w.im.use_preedit THEN w.im.preedit ELSE <<>>) /\ Painted(w, f)

LEMMA DrawnFacts ==
  /\ \A w, f :
       w.fields[f].shown = <<>> /\ (w.im.use_preedit => w.im.preedit = <<>>) => Drawn(w, f)
  /\ \A w, u, f :
       /\ u.im.preedit = w.im.preedit /\ u.im.from = w.im.from /\ u.im.to = w.im.to
       /\ u.im.use_preedit = w.im.use_preedit
       /\ u.fields[f].shown = w.fields[f].shown /\ u.fields[f].marks = w.fields[f].marks
       => (Drawn(u, f) <=> Drawn(w, f))
  BY DEF Drawn, Painted, Paints, Highlighted

(* The signals reach f, and of w only what is composed and what f has in   *)
(* it and shows may differ in u.                                           *)
Live(w, f) == w \in Worlds /\ f \in Fields /\ w.fields[f].stage = "live"
Leaves(w, u, f) ==
  /\ Live(u, f)
  /\ u.im.use_preedit = w.im.use_preedit /\ u.im.area = w.im.area
  /\ \A g \in Fields : g # f => u.fields[g] = w.fields[g]
  /\ u.fields[f].accepts = w.fields[f].accepts /\ u.fields[f].typed = w.fields[f].typed

LEMMA LeavesFacts ==
  /\ \A w, f : Live(w, f) => Leaves(w, w, f)
  /\ \A w, u, v, f : Leaves(w, u, f) /\ Leaves(u, v, f) => Leaves(w, v, f)
  BY DEF Leaves

(* A field by its parts, all others being those of w.                      *)
LEMMA FieldChanges ==
  ASSUME NEW w, NEW f, Live(w, f), NEW im \in IMs, NEW r \in Widgets,
         im.use_preedit = w.im.use_preedit, im.area = w.im.area,
         r.stage = "live", r.accepts = w.fields[f].accepts, r.typed = w.fields[f].typed
  PROVE  Leaves(w, [im |-> im, fields |-> [w.fields EXCEPT ![f] = r]], f)
  BY DEF Leaves, Live, Worlds

LEMMA NoFieldFact == NoField \notin Fields /\ App \notin Fields /\ NoField # App
  BY ToolkitsAssumption

LEMMA MarksType == \A im : Marks(im) \in SUBSET Int
  BY DEF Marks, gtk_get_preedit_string, gtk4_get_preedit_string, qt_formats

(* A commit adds to the text; in Qt it clears what is shown.               *)
Adds(w, u, f, text) ==
  /\ Leaves(w, u, f) /\ u.im = w.im
  /\ u.fields[f].text = w.fields[f].text \o text
  /\ \/ u.fields[f].shown = w.fields[f].shown /\ u.fields[f].marks = w.fields[f].marks
     \/ ~ Gtk /\ u.fields[f].shown = <<>>

LEMMA OnCommit ==
  \A w, f : \A text \in Seq(Texts) : Live(w, f) => Adds(w, on_commit(w, f, text), f, text)
<1> SUFFICES ASSUME NEW w, NEW f, NEW text \in Seq(Texts), Live(w, f)
             PROVE  Adds(w, on_commit(w, f, text), f, text)
  BY Zenon
<1>1. w \in Worlds /\ f \in Fields /\ w.fields[f].stage = "live" /\ f # NoField
  BY NoFieldFact DEF Live
<1>2. Reached(w, f)
  BY <1>1 DEF Reached
<1>3. w.im \in IMs /\ \E r \in Widgets : r = w.fields[f]
  BY <1>1 DEF Worlds
<1> PICK r \in Widgets, im \in IMs : r = w.fields[f] /\ im = w.im
  BY <1>3
<1>4. r.text \o text \in Seq(Texts)
  BY DEF Widgets
<1>5. CASE Gtk
  <2>1. PICK q \in Widgets : q = [r EXCEPT !.text = r.text \o text]
    BY <1>4, <1>3 DEF Widgets
  <2>2. on_commit(w, f, text) = [im |-> im, fields |-> [w.fields EXCEPT ![f] = q]]
    <3>1. PICK t \in Seq(Texts) : t = r.text \o text
      BY <1>4
    <3>2. on_commit(w, f, text) = [w EXCEPT !.fields[f].text = t]
      BY <1>2, <1>5, <3>1 DEF on_commit, gtk_on_commit
    <3>3. q = [r EXCEPT !.text = t]
      BY <2>1, <3>1
    <3> QED BY <1>1, <1>3, <3>2, <3>3 DEF Worlds
  <2>3. Leaves(w, [im |-> im, fields |-> [w.fields EXCEPT ![f] = q]], f)
    BY <2>1, <1>1, FieldChanges DEF Widgets
  <2>4. Leaves(w, on_commit(w, f, text), f)
    BY <2>2, <2>3, Zenon
  <2>5. q.text = r.text \o text /\ q.shown = r.shown /\ q.marks = r.marks
    BY <2>1 DEF Widgets
  <2>6. w.fields \in [Fields -> Widgets]
    BY <1>1 DEF Worlds
  <2>7. on_commit(w, f, text).fields[f] = q /\ on_commit(w, f, text).im = im
    BY <1>1, <2>2, <2>6
  <2> QED BY <2>4, <2>5, <2>7 DEF Adds
<1>6. CASE ~ Gtk
  <2>1. PICK q \in Widgets : q = [r EXCEPT !.text = r.text \o text, !.shown = <<>>, !.marks = {}]
    BY <1>4, <1>3, EmptySeq DEF Widgets
  <2>2. on_commit(w, f, text) = [im |-> im, fields |-> [w.fields EXCEPT ![f] = q]]
    BY <1>1, <1>2, <1>6, <2>1 DEF on_commit, qt_on_commit, Worlds
  <2>3. Leaves(w, [im |-> im, fields |-> [w.fields EXCEPT ![f] = q]], f)
    BY <2>1, <1>1, FieldChanges DEF Widgets
  <2>4. Leaves(w, on_commit(w, f, text), f)
    BY <2>2, <2>3, Zenon
  <2>5. q.text = r.text \o text /\ q.shown = <<>>
    BY <2>1 DEF Widgets
  <2>6. w.fields \in [Fields -> Widgets]
    BY <1>1 DEF Worlds
  <2>7. on_commit(w, f, text).fields[f] = q /\ on_commit(w, f, text).im = im
    BY <1>1, <2>2, <2>6
  <2> QED BY <1>6, <2>4, <2>5, <2>7 DEF Adds
<1> QED BY <1>5, <1>6

(* The text that is composed replaces the one before, and is shown.        *)
Has(w, u, f, text) ==
  /\ Leaves(w, u, f) /\ u.im.preedit = text
  /\ u.fields[f].text = w.fields[f].text
  /\ w.im.use_preedit \/ w.fields[f].shown = <<>> => Drawn(u, f)

LEMMA ComposeFacts ==
  \A w, f : \A text \in Seq(Texts), from, to \in Nat :
    Live(w, f) /\ from <= to /\ to <= Len(text) => Has(w, Compose(w, f, text, from, to), f, text)
<1> SUFFICES ASSUME NEW w, NEW f, NEW text \in Seq(Texts), NEW from \in Nat, NEW to \in Nat, Live(w, f),
                    from <= to, to <= Len(text)
             PROVE  Has(w, Compose(w, f, text, from, to), f, text)
  BY Zenon
<1>1. w \in Worlds /\ f \in Fields /\ w.fields[f].stage = "live" /\ f # NoField
  BY NoFieldFact DEF Live
<1>2. PICK im \in IMs : im = [w.im EXCEPT !.preedit = text, !.from = from, !.to = to]
  BY <1>1 DEF Worlds, IMs
<1>3. PICK r \in Widgets : r = w.fields[f]
  BY <1>1 DEF Worlds
<1>4. /\ im.use_preedit = w.im.use_preedit /\ im.area = w.im.area /\ im.preedit = text
      /\ Within(im)
  BY <1>1, <1>2 DEF Worlds, IMs, Within
<1>5. CASE im.use_preedit
  <2>1. PICK q \in Widgets : q = [r EXCEPT !.shown = text, !.marks = Marks(im)]
    BY <1>3, MarksType DEF Widgets
  <2>2. [w EXCEPT !.im = im] = [im |-> im, fields |-> w.fields]
    BY <1>1 DEF Worlds
  <2>3. Reached([w EXCEPT !.im = im], f)
    BY <1>1, <2>2 DEF Reached
  <2>4. on_preedit_changed([w EXCEPT !.im = im], f) = [im |-> im, fields |-> [w.fields EXCEPT ![f] = q]]
    BY <1>1, <1>3, <1>4, <2>1, <2>2, <2>3 DEF on_preedit_changed, Worlds
  <2>5. Compose(w, f, text, from, to) = [im |-> im, fields |-> [w.fields EXCEPT ![f] = q]]
    BY <1>2, <1>5, <2>4 DEF Compose
  <2>6. Leaves(w, [im |-> im, fields |-> [w.fields EXCEPT ![f] = q]], f)
    BY <1>1, <1>3, <1>4, <2>1, FieldChanges DEF Widgets
  <2>7. PICK u : u = Compose(w, f, text, from, to)
    OBVIOUS
  <2>8. u.im = im /\ u.fields[f] = q
    BY <1>1, <2>5, <2>7 DEF Worlds
  <2>9. q.text = r.text /\ q.shown = text /\ q.marks = Marks(im)
    BY <2>1 DEF Widgets
  <2>10. Drawn(u, f)
    <3>1. toolkit = "gtk3" => Marks(im) = Highlighted(im, Bytes)
      BY <1>4, GtkHighlights
    <3>2. toolkit = "qt" => Marks(im) = Highlighted(im, Units)
      BY <1>4, QtHighlights
    <3>3. Painted(u, f)
      BY <2>8, <2>9, <3>1, <3>2 DEF Painted, Paints
    <3> QED BY <1>4, <1>5, <2>8, <2>9, <3>3 DEF Drawn
  <2> QED BY <2>5, <2>6, <2>7, <2>8, <2>9, <2>10, <1>3, <1>4 DEF Has
<1>6. CASE ~ im.use_preedit
  <2>1. Compose(w, f, text, from, to) = [im |-> im, fields |-> w.fields]
    BY <1>1, <1>2, <1>6 DEF Compose, Worlds
  <2>2. [im |-> im, fields |-> w.fields] = [im |-> im, fields |-> [w.fields EXCEPT ![f] = r]]
    BY <1>1, <1>3 DEF Worlds
  <2>3. Leaves(w, [im |-> im, fields |-> [w.fields EXCEPT ![f] = r]], f)
    BY <1>1, <1>3, <1>4, FieldChanges DEF Widgets
  <2>4. Leaves(w, Compose(w, f, text, from, to), f)
    BY <2>1, <2>2, <2>3
  <2>5. PICK u : u = Compose(w, f, text, from, to)
    OBVIOUS
  <2>6. u.im = im /\ u.fields = w.fields
    BY <2>1, <2>5
  <2>7. w.fields[f].shown = <<>> => Drawn(u, f)
    BY <1>6, <2>6, DrawnFacts
  <2> QED BY <2>4, <2>5, <2>6, <2>7, <1>4, <1>6 DEF Has
<1> QED BY <1>5, <1>6

-----------------------------------------------------------------------------
(* Texts that are joined.                                                  *)
LEMMA Joins ==
  /\ <<>> \in Seq(Texts)
  /\ \A s \in Seq(Texts) : s \o <<>> = s
  /\ \A s, t \in Seq(Texts) : s \o t \in Seq(Texts)
  /\ \A k \in Texts : <<k>> \in Seq(Texts)
  /\ \A s \in Seq(Texts), k \in Texts : Append(s, k) \in Seq(Texts) /\ Append(s, k) = s \o <<k>>
  /\ \A s, t, v \in Seq(Texts) : (s \o t) \o v = s \o (t \o v)
  OBVIOUS

LEMMA LiveFacts ==
  \A w, f : Live(w, f) =>
    /\ w.im.preedit \in Seq(Texts) /\ w.fields[f].text \in Seq(Texts) /\ Joined(w, f) \in Seq(Texts)
    /\ w.fields[f].shown \in Seq(Texts) /\ w.im.use_preedit \in BOOLEAN
<1> SUFFICES ASSUME NEW w, NEW f, Live(w, f)
             PROVE  /\ w.im.preedit \in Seq(Texts) /\ w.fields[f].text \in Seq(Texts) /\ Joined(w, f) \in Seq(Texts)
                    /\ w.fields[f].shown \in Seq(Texts) /\ w.im.use_preedit \in BOOLEAN
  OBVIOUS
<1>1. w.im \in IMs /\ w.fields[f] \in Widgets
  BY DEF Live, Worlds
<1> QED BY <1>1, Joins DEF IMs, Widgets, Joined

(* From w to u the field f is given the text s, in it or composed for it,  *)
(* and if it showed what was composed it does.                             *)
Gives(w, u, f, s) ==
  Leaves(w, u, f) /\ Joined(u, f) = Joined(w, f) \o s /\ (Drawn(w, f) => Drawn(u, f))

LEMMA GivesNothing == \A w, f : Live(w, f) => Gives(w, w, f, <<>>)
  BY LeavesFacts, LiveFacts, Joins DEF Gives

LEMMA GivesBoth ==
  \A w, u, v, f : \A s, t \in Seq(Texts) :
    Live(w, f) /\ Gives(w, u, f, s) /\ Gives(u, v, f, t) => Gives(w, v, f, s \o t)
<1> SUFFICES ASSUME NEW w, NEW u, NEW v, NEW f, NEW s \in Seq(Texts), NEW t \in Seq(Texts),
                    Live(w, f), Gives(w, u, f, s), Gives(u, v, f, t)
             PROVE  Gives(w, v, f, s \o t)
  BY Zenon
<1>1. Leaves(w, v, f)
  BY LeavesFacts, Zenon DEF Gives
<1>2. Joined(w, f) \in Seq(Texts)
  BY LiveFacts
<1>3. Joined(v, f) = (Joined(w, f) \o s) \o t
  BY Zenon DEF Gives
<1>4. (Joined(w, f) \o s) \o t = Joined(w, f) \o (s \o t)
  BY <1>2, Joins
<1> QED BY <1>1, <1>3, <1>4, Zenon DEF Gives

(* A commit by an engine, and a reset, which commits what is composed.     *)
Ends(w, u, f, text) ==
  /\ Leaves(w, u, f) /\ u.im.preedit = <<>>
  /\ u.fields[f].text = w.fields[f].text \o text
  /\ Drawn(w, f) => Drawn(u, f)

LEMMA CommitFacts ==
  \A w, f : \A text \in Seq(Texts) : Live(w, f) => Ends(w, Commit(w, f, text), f, text)
<1> SUFFICES ASSUME NEW w, NEW f, NEW text \in Seq(Texts), Live(w, f)
             PROVE  Ends(w, Commit(w, f, text), f, text)
  BY Zenon
<1>1. PICK v : v = on_commit(w, f, text)
  OBVIOUS
<1>2. Adds(w, v, f, text)
  BY <1>1, OnCommit, Zenon
<1>3. PICK u : u = Commit(w, f, text)
  OBVIOUS
<1>4. Live(v, f) /\ u = Compose(v, f, <<>>, 0, 0)
  BY <1>1, <1>2, <1>3 DEF Commit, Leaves, Adds
<1>5. Has(v, u, f, <<>>)
  <2>1. <<>> \in Seq(Texts) /\ 0 \in Nat /\ 0 <= 0 /\ 0 <= Len(<<>>)
    BY Joins
  <2> QED BY <1>4, <2>1, ComposeFacts, Zenon
<1>6. Leaves(w, u, f)
  BY <1>2, <1>5, LeavesFacts, Zenon DEF Adds, Has
<1>7. Ends(w, u, f, text)
  BY <1>2, <1>5, <1>6 DEF Adds, Has, Ends, Drawn
<1> QED BY <1>3, <1>7

LEMMA ResetFacts ==
  \A w, f : Live(w, f) =>
    /\ Gives(w, nimf_im_reset(w, f), f, <<>>)
    /\ nimf_im_reset(w, f).im.preedit = <<>>
<1> SUFFICES ASSUME NEW w, NEW f, Live(w, f)
             PROVE  /\ Gives(w, nimf_im_reset(w, f), f, <<>>)
                    /\ nimf_im_reset(w, f).im.preedit = <<>>
  OBVIOUS
<1>1. CASE w.im.preedit = <<>>
  BY <1>1, GivesNothing DEF nimf_im_reset
<1>2. CASE w.im.preedit # <<>>
  <2>1. PICK u, p : u = nimf_im_reset(w, f) /\ p = w.im.preedit
    OBVIOUS
  <2>2. p \in Seq(Texts) /\ w.fields[f].text \in Seq(Texts) /\ u = Commit(w, f, p)
    BY <1>2, <2>1, LiveFacts DEF nimf_im_reset
  <2>3. Ends(w, u, f, p)
    BY <2>2, CommitFacts, Zenon
  <2>4. Joined(u, f) = Joined(w, f) \o <<>>
    BY <2>1, <2>2, <2>3, Joins DEF Joined, Ends
  <2> QED BY <2>1, <2>3, <2>4 DEF Gives, Ends
<1> QED BY <1>1, <1>2

(* A key with text that an engine takes is given to the field.             *)
LEMMA ComposesFacts ==
  \A w, f : \A k \in Texts : Live(w, f) => \A u \in Composes(w, f, k) : Gives(w, u, f, <<k>>)
<1> SUFFICES ASSUME NEW w, NEW f, NEW k \in Texts, Live(w, f), NEW u \in Composes(w, f, k)
             PROVE  Gives(w, u, f, <<k>>)
  OBVIOUS
<1>1. PICK p, t \in Seq(Texts) : p = w.im.preedit /\ t = w.fields[f].text
  BY LiveFacts
<1>2. PICK pk \in Seq(Texts) : pk = Append(p, k) /\ pk = p \o <<k>>
  BY Joins
<1>3. Joined(w, f) \o <<k>> = t \o pk
  <2>1. (t \o p) \o <<k>> = t \o (p \o <<k>>)
    OBVIOUS
  <2> QED BY <1>1, <1>2, <2>1 DEF Joined
<1>4. ASSUME NEW r \in Ranges(pk), u = Compose(w, f, pk, r[1], r[2])
      PROVE  Gives(w, u, f, <<k>>)
  <2>1. r[1] \in Nat /\ r[2] \in Nat /\ r[1] <= r[2] /\ r[2] <= Len(pk)
    BY DEF Ranges
  <2>2. Has(w, u, f, pk)
    BY <1>4, <2>1, ComposeFacts, Zenon
  <2>3. Drawn(w, f) => Drawn(u, f)
    BY <2>2, LiveFacts DEF Drawn, Has
  <2>4. Joined(u, f) = Joined(w, f) \o <<k>>
    BY <1>1, <2>2, <1>3 DEF Joined, Has
  <2> QED BY <2>2, <2>3, <2>4 DEF Gives, Has
<1>5. ASSUME u = Commit(w, f, pk)
      PROVE  Gives(w, u, f, <<k>>)
  <2>1. Ends(w, u, f, pk)
    BY <1>5, CommitFacts, Zenon
  <2>2. Joined(u, f) = Joined(w, f) \o <<k>>
    BY <1>1, <2>1, <1>3, Joins DEF Joined, Ends
  <2> QED BY <2>1, <2>2 DEF Gives, Ends
<1>6. ASSUME NEW n \in {0, 1}, u = Compose(on_commit(w, f, p), f, <<k>>, 0, n)
      PROVE  Gives(w, u, f, <<k>>)
  <2>1. PICK v : v = on_commit(w, f, p)
    OBVIOUS
  <2>2. Adds(w, v, f, p)
    BY <2>1, OnCommit, Zenon
  <2>3. Live(v, f) /\ <<k>> \in Seq(Texts) /\ 0 \in Nat /\ n \in Nat /\ 0 <= n /\ n <= Len(<<k>>)
    <3>1. Live(v, f)
      BY <2>2 DEF Leaves, Adds
    <3>2. <<k>> \in Seq(Texts)
      BY Joins
    <3>3. Len(<<k>>) = 1 /\ n \in Nat /\ 0 <= n /\ n <= 1
      OBVIOUS
    <3> QED BY <3>1, <3>2, <3>3
  <2>4. u = Compose(v, f, <<k>>, 0, n)
    BY <1>6, <2>1
  <2>5. Has(v, u, f, <<k>>)
    BY <2>3, <2>4, ComposeFacts, Zenon
  <2>6. Drawn(w, f) => Drawn(u, f)
    BY <2>2, <2>5, LiveFacts DEF Drawn, Has, Adds
  <2>7. Joined(u, f) = Joined(w, f) \o <<k>>
    BY <1>1, <2>2, <2>5 DEF Joined, Has, Adds
  <2>8. Leaves(w, u, f)
    BY <2>2, <2>5, LeavesFacts, Zenon DEF Has, Adds
  <2> QED BY <2>6, <2>7, <2>8 DEF Gives
<1> QED BY <1>1, <1>2, <1>4, <1>5, <1>6 DEF Composes

-----------------------------------------------------------------------------
(* What becomes of an event.                                               *)
Events == [type : {"press", "release"}, key : Keys]
Entered(event) == IF IsText(event) THEN <<event.key>> ELSE <<>>

(* r is what may be made of the event in f: who consumes it gives its text *)
(* to the field.                                                           *)
Answers(w, r, f, event) ==
  /\ r.consumed \in BOOLEAN
  /\ Gives(w, r.w, f, IF r.consumed THEN Entered(event) ELSE <<>>)
(* Who hands back a text has flushed what was composed.                    *)
Flushed(r, event) == ~ r.consumed /\ IsText(event) => r.w.im.preedit = <<>>

LEMMA EnteredTypes == \A event \in Events : Entered(event) \in Seq(Texts) /\ <<>> \in Seq(Texts)
  BY Joins DEF Entered, IsText, HasText

LEMMA FilterFacts ==
  \A w, f : \A event \in Events : Live(w, f) =>
    \A r \in nimf_im_filter_event(w, f, event) : Answers(w, r, f, event) /\ Flushed(r, event)
<1> SUFFICES ASSUME NEW w, NEW f, NEW event \in Events, Live(w, f),
                    NEW r \in nimf_im_filter_event(w, f, event)
             PROVE  Answers(w, r, f, event) /\ Flushed(r, event)
  OBVIOUS
<1>1. CASE event.type = "release"
  <2>1. r = Keeps(w) \/ r = Takes(w)
    BY <1>1 DEF nimf_im_filter_event
  <2>2. r.w = w /\ (r.consumed = TRUE \/ r.consumed = FALSE)
    BY <2>1 DEF Keeps, Takes
  <2>3. ~ IsText(event)
    BY <1>1 DEF IsText
  <2> QED BY <2>2, <2>3, GivesNothing DEF Answers, Flushed, Entered
<1>2. CASE event.type = "press" /\ r = Keeps(nimf_im_reset(w, f))
  <2>1. r.w = nimf_im_reset(w, f) /\ r.consumed = FALSE
    BY <1>2 DEF Keeps
  <2> QED BY <2>1, ResetFacts DEF Answers, Flushed
<1>3. ASSUME event.type = "press", HasText(event.key), NEW u \in Composes(w, f, event.key), r = Takes(u)
      PROVE  Answers(w, r, f, event) /\ Flushed(r, event)
  <2>1. r.w = u /\ r.consumed = TRUE
    BY <1>3 DEF Takes
  <2>2. event.key \in Texts
    BY <1>3 DEF HasText
  <2>3. Gives(w, u, f, <<event.key>>)
    BY <2>2, ComposesFacts, Zenon
  <2>4. Entered(event) = <<event.key>>
    BY <1>3 DEF Entered, IsText
  <2> QED BY <2>1, <2>3, <2>4 DEF Answers, Flushed
<1>4. event.type = "press" \/ event.type = "release"
  BY DEF Events
<1> QED BY <1>1, <1>2, <1>3, <1>4 DEF nimf_im_filter_event

(* The events of X and of GDK are translated back.                         *)
LEMMA Translated ==
  \A event \in Events : /\ translate_gdk_event_key(GdkEvent(event)) = event
                        /\ translate_xkey_event(XEvent(event)) = event
  BY DEF Events, translate_gdk_event_key, GdkEvent, translate_xkey_event, XEvent

(* What follows an answer.                                                 *)
LEMMA AnswersThen ==
  \A w, f, r, q : \A event \in Events :
    /\ Live(w, f) /\ Answers(w, r, f, event) /\ ~ r.consumed /\ Answers(r.w, q, f, event)
    => Answers(w, q, f, event)
<1> SUFFICES ASSUME NEW w, NEW f, NEW r, NEW q, NEW event \in Events, Live(w, f),
                    Answers(w, r, f, event), ~ r.consumed, Answers(r.w, q, f, event)
             PROVE  Answers(w, q, f, event)
  BY Zenon
<1>1. PICK s \in Seq(Texts) : s = IF q.consumed THEN Entered(event) ELSE <<>>
  BY EnteredTypes
<1>2. Gives(w, r.w, f, <<>>) /\ Gives(r.w, q.w, f, s)
  BY <1>1 DEF Answers
<1>3. Gives(w, q.w, f, <<>> \o s) /\ <<>> \o s = s
  <2>1. <<>> \in Seq(Texts) /\ <<>> \o s = s
    OBVIOUS
  <2> QED BY <1>2, <2>1, GivesBoth, Zenon
<1> QED BY <1>1, <1>3 DEF Answers

(* A text that has been handed back is committed by GTK or inserted by a   *)
(* widget.                                                                 *)
LEMMA CommitsText ==
  \A w, f : \A event \in Events :
    Live(w, f) /\ Gtk /\ IsText(event) /\ w.im.preedit = <<>>
      => Gives(w, on_commit(w, f, <<event.key>>), f, Entered(event))
<1> SUFFICES ASSUME NEW w, NEW f, NEW event \in Events,
                    Live(w, f), Gtk, IsText(event), w.im.preedit = <<>>
             PROVE  Gives(w, on_commit(w, f, <<event.key>>), f, Entered(event))
  BY Zenon
<1>1. PICK s \in Seq(Texts) : s = <<event.key>> /\ s = Entered(event)
  BY Joins DEF IsText, HasText, Entered
<1> PICK u : u = on_commit(w, f, s)
  OBVIOUS
<1>2. Adds(w, u, f, s)
  BY OnCommit, Zenon
<1>3. Joined(u, f) = Joined(w, f) \o s
  <2>1. PICK t \in Seq(Texts) : t = w.fields[f].text
    BY LiveFacts
  <2>2. (t \o <<>>) \o s = (t \o s) \o <<>>
    OBVIOUS
  <2> QED BY <1>2, <2>1, <2>2 DEF Joined, Adds
<1>4. Drawn(w, f) => Drawn(u, f)
  BY <1>2, DrawnFacts DEF Adds
<1> QED BY <1>1, <1>2, <1>3, <1>4 DEF Gives, Adds

LEMMA InsertsText ==
  \A w, f : \A event \in Events :
    Live(w, f) /\ IsText(event) /\ w.im.preedit = <<>>
      => Gives(w, [w EXCEPT !.fields[f].text = Append(@, event.key)], f, Entered(event))
<1> SUFFICES ASSUME NEW w, NEW f, NEW event \in Events, Live(w, f), IsText(event), w.im.preedit = <<>>
             PROVE  Gives(w, [w EXCEPT !.fields[f].text = Append(@, event.key)], f, Entered(event))
  BY Zenon
<1>1. w \in Worlds /\ f \in Fields /\ w.fields[f].stage = "live" /\ event.key \in Texts
  BY DEF Live, IsText, HasText
<1>2. w.im \in IMs /\ \E r \in Widgets : r = w.fields[f]
  BY <1>1 DEF Worlds
<1> PICK r \in Widgets, im \in IMs : r = w.fields[f] /\ im = w.im
  BY <1>2
<1>3. PICK t \in Seq(Texts) : t = Append(r.text, event.key) /\ t = r.text \o <<event.key>>
  BY <1>1, Joins DEF Widgets
<1>4. PICK q \in Widgets : q = [r EXCEPT !.text = t]
  BY DEF Widgets
<1>5. PICK u : u = [w EXCEPT !.fields[f].text = Append(@, event.key)]
  OBVIOUS
<1>6. u = [im |-> im, fields |-> [w.fields EXCEPT ![f] = q]]
  BY <1>1, <1>3, <1>4, <1>5 DEF Worlds
<1>7. Leaves(w, [im |-> im, fields |-> [w.fields EXCEPT ![f] = q]], f)
  BY <1>1, <1>4, FieldChanges DEF Widgets
<1>8. /\ u.fields[f].text = t /\ u.im = w.im
      /\ u.fields[f].shown = w.fields[f].shown /\ u.fields[f].marks = w.fields[f].marks
  BY <1>1, <1>4, <1>6 DEF Worlds, Widgets
<1>9. Joined(u, f) = Joined(w, f) \o <<event.key>>
  <2>1. r.text \in Seq(Texts) /\ <<event.key>> \in Seq(Texts)
    BY <1>1, Joins DEF Widgets
  <2>2. (r.text \o <<>>) \o <<event.key>> = (r.text \o <<event.key>>) \o <<>>
    BY <2>1
  <2> QED BY <1>3, <1>8, <2>2 DEF Joined
<1>10. Leaves(w, u, f)
  BY <1>6, <1>7, Zenon
<1>11. Drawn(w, f) => Drawn(u, f)
  BY <1>8, DrawnFacts
<1> QED BY <1>5, <1>9, <1>10, <1>11 DEF Gives, Entered

(* The simple context commits what it is handed back, as far as it is      *)
(* text.                                                                   *)
LEMMA SimpleFacts ==
  \A w, f, r : \A event \in Events :
    Live(w, f) /\ Gtk /\ Answers(w, r, f, event) /\ Flushed(r, event)
      => Answers(w, simple(r, f, event), f, event) /\ (IsText(event) => simple(r, f, event).consumed)
<1> SUFFICES ASSUME NEW w, NEW f, NEW r, NEW event \in Events,
                    Live(w, f), Gtk, Answers(w, r, f, event), Flushed(r, event)
             PROVE  Answers(w, simple(r, f, event), f, event) /\ (IsText(event) => simple(r, f, event).consumed)
  BY Zenon
<1>1. CASE r.consumed \/ ~ IsText(event)
  BY <1>1 DEF simple
<1>2. CASE ~ r.consumed /\ IsText(event)
  <2>1. PICK u, q : u = on_commit(r.w, f, <<event.key>>) /\ q = simple(r, f, event)
    OBVIOUS
  <2>2. q = Takes(u)
    BY <1>2, <2>1 DEF simple
  <2>3. q.w = u /\ q.consumed = TRUE
    BY <2>2 DEF Takes
  <2>4. Live(r.w, f) /\ r.w.im.preedit = <<>>
    BY <1>2 DEF Answers, Gives, Leaves, Flushed
  <2>5. Gives(r.w, u, f, Entered(event))
    BY <1>2, <2>1, <2>4, CommitsText, Zenon
  <2>6. Answers(r.w, q, f, event)
    BY <2>3, <2>5 DEF Answers
  <2>7. Answers(w, q, f, event)
    BY <1>2, <2>6, AnswersThen, Zenon
  <2> QED BY <2>1, <2>3, <2>7
<1> QED BY <1>1, <1>2

(* r is all that is made of the event.                                     *)
Completes(w, r, f, event) == Answers(w, r, f, event) /\ (IsText(event) => r.consumed)

LEMMA CompletesGives ==
  \A w, r, f, event : Completes(w, r, f, event) => Gives(w, r.w, f, Entered(event))
  BY DEF Completes, Answers, Entered

LEMMA CompletesThen ==
  \A w, f, r, q : \A event \in Events :
    /\ Live(w, f) /\ Answers(w, r, f, event) /\ ~ r.consumed /\ Completes(r.w, q, f, event)
    => Completes(w, q, f, event)
  BY AnswersThen, Zenon DEF Completes

LEMMA AnswersLive == \A w, f, r, event : Answers(w, r, f, event) => Live(r.w, f)
  BY DEF Answers, Gives, Leaves

LEMMA KeepsFacts == \A w, f, event : Live(w, f) => Answers(w, Keeps(w), f, event)
<1> SUFFICES ASSUME NEW w, NEW f, NEW event, Live(w, f) PROVE Answers(w, Keeps(w), f, event)
  OBVIOUS
<1>1. Keeps(w).w = w /\ Keeps(w).consumed = FALSE
  BY DEF Keeps
<1> QED BY <1>1, GivesNothing DEF Answers

(* libnimf and the simple context, as all of the modules for GTK ask them. *)
LEMMA FilterCompletes ==
  \A w, f : \A event \in Events : Live(w, f) /\ Gtk =>
    \A q \in nimf_im_filter_event(w, f, translate_gdk_event_key(GdkEvent(event))) :
      Completes(w, simple(q, f, event), f, event)
<1> SUFFICES ASSUME NEW w, NEW f, NEW event \in Events, Live(w, f), Gtk,
                    NEW q \in nimf_im_filter_event(w, f, translate_gdk_event_key(GdkEvent(event)))
             PROVE  Completes(w, simple(q, f, event), f, event)
  BY Zenon
<1>1. q \in nimf_im_filter_event(w, f, event)
  BY Translated
<1>2. Answers(w, q, f, event) /\ Flushed(q, event)
  BY <1>1, FilterFacts, Zenon
<1> QED BY <1>2, SimpleFacts, Zenon DEF Completes

(* GTK 3: the filter of X events, and then the context.                    *)
LEMMA Gtk3Completes ==
  \A w, f : \A event \in Events : Live(w, f) /\ Gtk =>
    \A r \in Gtk3Key(w, f, event) : Completes(w, r, f, event)
<1> SUFFICES ASSUME NEW w, NEW f, NEW event \in Events, Live(w, f), Gtk, NEW r \in Gtk3Key(w, f, event)
             PROVE  Completes(w, r, f, event)
  BY Zenon
<1>1. PICK q \in on_gdk_x_event(w, f, event) :
        r \in IF q.consumed THEN {q} ELSE nimf_gtk_im_context_filter_keypress(q.w, f, event)
  BY DEF Gtk3Key
<1>2. Answers(w, q, f, event)
  <2>1. event.type # "ButtonPress"
    BY DEF Events
  <2>2. q = Keeps(w) \/ q \in nimf_im_filter_event(w, f, event)
    BY <2>1, <1>1, Translated DEF on_gdk_x_event
  <2> QED BY <2>2, KeepsFacts, FilterFacts, Zenon
<1>3. CASE q.consumed
  BY <1>1, <1>2, <1>3 DEF Completes
<1>4. CASE ~ q.consumed
  <2>1. Live(q.w, f)
    BY <1>2, AnswersLive, Zenon
  <2>2. PICK v \in nimf_im_filter_event(q.w, f, translate_gdk_event_key(GdkEvent(event))) :
          r = simple(v, f, event)
    BY <1>1, <1>4 DEF nimf_gtk_im_context_filter_keypress
  <2>3. Completes(q.w, r, f, event)
    BY <2>1, <2>2, FilterCompletes, Zenon
  <2> QED BY <1>2, <1>4, <2>3, CompletesThen, Zenon
<1> QED BY <1>3, <1>4

(* GTK 4: the controller, which is there, and then the context.            *)
LEMMA Gtk4Completes ==
  \A w, f : \A event \in Events : Live(w, f) /\ Gtk /\ contexts[f].client =>
    \A r \in Gtk4Key(w, f, event) : Completes(w, r, f, event)
<1> SUFFICES ASSUME NEW w, NEW f, NEW event \in Events, Live(w, f), Gtk, contexts[f].client,
                    NEW r \in Gtk4Key(w, f, event)
             PROVE  Completes(w, r, f, event)
  BY Zenon
<1>1. PICK q \in Controller(w, f, event) :
        r \in IF q.consumed THEN {q} ELSE nimf_gtk4_im_context_filter_keypress(q.w, f, event)
  BY DEF Gtk4Key
<1>2. Completes(w, q, f, event)
  <2>1. CASE event.type = "press"
    <3>1. PICK v \in nimf_im_filter_event(w, f, translate_gdk_event_key(GdkEvent(event))) :
            q = simple(v, f, event)
      BY <1>1, <2>1 DEF Controller, on_key_pressed
    <3> QED BY <3>1, FilterCompletes, Zenon
  <2>2. CASE event.type # "press"
    <3>1. q \in nimf_im_filter_event(w, f, event)
      BY <1>1, <2>2, Translated DEF Controller, on_key_released
    <3>2. Answers(w, q, f, event)
      BY <3>1, FilterFacts, Zenon
    <3> QED BY <2>2, <3>2 DEF Completes, IsText
  <2> QED BY <2>1, <2>2
<1>3. CASE q.consumed
  BY <1>1, <1>2, <1>3
<1>4. CASE ~ q.consumed
  <2>1. ~ IsText(event) /\ Answers(w, q, f, event)
    BY <1>2, <1>4 DEF Completes
  <2>2. Live(q.w, f)
    BY <2>1, AnswersLive, Zenon
  <2>3. r \in nimf_im_filter_event(q.w, f, event)
    BY <1>1, <1>4, <2>1, Translated DEF nimf_gtk4_im_context_filter_keypress
  <2>4. Answers(q.w, r, f, event)
    BY <2>2, <2>3, FilterFacts, Zenon
  <2>5. Completes(q.w, r, f, event)
    BY <2>1, <2>4 DEF Completes
  <2> QED BY <1>4, <2>1, <2>5, CompletesThen, Zenon
<1> QED BY <1>3, <1>4

(* Qt: the plugin, if the field accepts it, and then the widget.           *)
LEMMA QtGives ==
  \A w, f : \A event \in Events :
    Live(w, f) /\ ((valid /\ w.fields[f].accepts) \/ w.im.preedit = <<>>) =>
      \A r \in filterEvent(w, f, event) : Gives(w, insert(r, f, event), f, Entered(event))
<1> SUFFICES ASSUME NEW w, NEW f, NEW event \in Events, Live(w, f),
                    (valid /\ w.fields[f].accepts) \/ w.im.preedit = <<>>,
                    NEW r \in filterEvent(w, f, event)
             PROVE  Gives(w, insert(r, f, event), f, Entered(event))
  BY Zenon
<1>1. Answers(w, r, f, event) /\ Flushed(r, event)
  <2>1. CASE r \in nimf_im_filter_event(w, f, event)
    BY <2>1, FilterFacts, Zenon
  <2>2. CASE r = Keeps(w) /\ w.im.preedit = <<>>
    <3>1. r.w = w
      BY <2>2 DEF Keeps
    <3>2. Answers(w, r, f, event)
      BY <2>2, KeepsFacts, Zenon
    <3> QED BY <2>2, <3>1, <3>2 DEF Flushed
  <2> QED BY <2>1, <2>2 DEF filterEvent
<1>2. CASE r.consumed \/ ~ IsText(event)
  <2>1. insert(r, f, event) = r.w
    BY <1>2 DEF insert
  <2> QED BY <1>1, <1>2, <2>1 DEF Answers, Entered
<1>3. CASE ~ r.consumed /\ IsText(event)
  <2>1. PICK u : u = insert(r, f, event)
    OBVIOUS
  <2>2. Live(r.w, f) /\ r.w.im.preedit = <<>>
    BY <1>1, <1>3, AnswersLive DEF Flushed
  <2>3. u = [r.w EXCEPT !.fields[f].text = Append(@, event.key)]
    BY <1>3, <2>1 DEF insert
  <2>4. Gives(r.w, u, f, Entered(event))
    BY <1>3, <2>2, <2>3, InsertsText, Zenon
  <2>5. Gives(w, r.w, f, <<>>)
    BY <1>1, <1>3 DEF Answers
  <2>6. Gives(w, u, f, <<>> \o Entered(event)) /\ <<>> \o Entered(event) = Entered(event)
    <3>1. PICK s \in Seq(Texts) : s = Entered(event)
      BY EnteredTypes
    <3>2. <<>> \in Seq(Texts) /\ <<>> \o s = s
      OBVIOUS
    <3> QED BY <2>4, <2>5, <3>1, <3>2, GivesBoth, Zenon
  <2> QED BY <2>1, <2>6
<1> QED BY <1>2, <1>3

(* In each toolkit, the field gets the text of the event once.             *)
LEMMA AfterGives ==
  \A w, f : \A event \in Events :
    /\ Live(w, f) /\ toolkit \in {"gtk3", "gtk4", "qt"}
    /\ toolkit = "gtk4" => contexts[f].client
    /\ Qt => (valid /\ w.fields[f].accepts) \/ w.im.preedit = <<>>
    => \A u \in After(w, f, event) : Gives(w, u, f, Entered(event))
<1> SUFFICES ASSUME NEW w, NEW f, NEW event \in Events,
                    Live(w, f), toolkit \in {"gtk3", "gtk4", "qt"},
                    toolkit = "gtk4" => contexts[f].client,
                    Qt => (valid /\ w.fields[f].accepts) \/ w.im.preedit = <<>>,
                    NEW u \in After(w, f, event)
             PROVE  Gives(w, u, f, Entered(event))
  BY Zenon
<1>1. CASE toolkit = "gtk3"
  <2>1. PICK r \in Gtk3Key(w, f, event) : u = r.w
    BY <1>1 DEF After
  <2>2. Gtk
    BY <1>1 DEF Gtk
  <2>3. Completes(w, r, f, event)
    BY <2>1, <2>2, Gtk3Completes, Zenon
  <2> QED BY <2>1, <2>3, CompletesGives, Zenon
<1>2. CASE toolkit = "gtk4"
  <2>1. PICK r \in Gtk4Key(w, f, event) : u = r.w
    BY <1>2 DEF After
  <2>2. Gtk /\ contexts[f].client
    BY <1>2 DEF Gtk
  <2>3. Completes(w, r, f, event)
    BY <2>1, <2>2, Gtk4Completes, Zenon
  <2> QED BY <2>1, <2>3, CompletesGives, Zenon
<1>3. CASE toolkit = "qt"
  <2>1. PICK r \in filterEvent(w, f, event) : u = insert(r, f, event)
    BY <1>3 DEF After
  <2>2. (valid /\ w.fields[f].accepts) \/ w.im.preedit = <<>>
    BY <1>3 DEF Qt
  <2> QED BY <2>1, <2>2, QtGives, Zenon
<1> QED BY <1>1, <1>2, <1>3

(* Where Qt does not ask libnimf, nothing is composed.                     *)
LEMMA AfterQt ==
  \A w, f, event :
    toolkit = "qt" /\ w \in Worlds /\ ~ (valid /\ w.fields[f].accepts) =>
      \A u \in After(w, f, event) : u.im = w.im
<1> SUFFICES ASSUME NEW w \in Worlds, NEW f, NEW event, toolkit = "qt", ~ (valid /\ w.fields[f].accepts),
                    NEW u \in After(w, f, event)
             PROVE  u.im = w.im
  BY Zenon
<1>1. u = insert(Keeps(w), f, event) /\ Keeps(w).w = w
  BY DEF After, filterEvent, Keeps
<1>2. u = w \/ u = [w EXCEPT !.fields[f].text = Append(@, event.key)]
  BY <1>1 DEF insert
<1> QED BY <1>2 DEF Worlds

(* A mouse button at most resets.                                          *)
LEMMA ButtonFacts ==
  \A w, f : Live(w, f) =>
    \A r \in on_gdk_x_event(w, f, [type |-> "ButtonPress"]) : Gives(w, r.w, f, <<>>)
<1> SUFFICES ASSUME NEW w, NEW f, Live(w, f), NEW r \in on_gdk_x_event(w, f, [type |-> "ButtonPress"])
             PROVE  Gives(w, r.w, f, <<>>)
  BY Zenon
<1>1. r = Keeps(w) \/ r = Keeps(nimf_im_reset(w, f))
  BY DEF on_gdk_x_event
<1>2. r.w = w \/ r.w = nimf_im_reset(w, f)
  BY <1>1 DEF Keeps
<1> QED BY <1>2, GivesNothing, ResetFacts
-----------------------------------------------------------------------------
(* The steps.  Here is what the invariant says of the field with the focus, *)
(* and in GTK of every field.                                              *)
LEMMA FieldFacts ==
  ASSUME Inv, NEW f \in Fields, fields[f].stage = "live", Qt => f = focus
  PROVE  /\ Live(World(ContextOf(f)), f)
         /\ Joined(World(ContextOf(f)), f) = fields[f].typed
         /\ Drawn(World(ContextOf(f)), f)
         /\ Qt => ContextOf(f) = App /\ ims[App].use_preedit
                  /\ ((valid /\ fields[f].accepts) \/ ims[App].preedit = <<>>)
<1>1. toolkit \in {"gtk3", "gtk4", "qt"} /\ fields \in [Fields -> Widgets] /\ ims \in [Contexts -> IMs]
  BY DEF Inv, TypeInv
<1>2. ContextOf(f) \in Contexts
  BY DEF Contexts, ContextOf
<1>3. Live(World(ContextOf(f)), f)
  BY <1>1, <1>2 DEF Live, World, Worlds
<1>4. CASE Gtk
  <2>1. ~ Qt /\ ContextOf(f) = f
    BY <1>4 DEF Gtk, Qt, ContextOf
  <2>2. fields[f].text \o ims[f].preedit = fields[f].typed
    BY <1>4 DEF Inv, KeysReachField, Composed
  <2>3. fields[f].shown = IF ims[f].use_preedit THEN ims[f].preedit ELSE <<>>
    BY <1>4, <2>1 DEF Inv, PreeditShown, Composed
  <2>4. Painted(World(f), f)
    BY <2>1 DEF Inv, PaintInv, World, Painted
  <2> QED BY <1>3, <2>1, <2>2, <2>3, <2>4 DEF World, Joined, Drawn
<1>5. CASE Qt
  <2>1. ~ Gtk /\ ContextOf(f) = App /\ f = focus
    BY <1>5 DEF Gtk, Qt, ContextOf
  <2>2. ims[App].use_preedit /\ ((valid /\ fields[f].accepts) \/ ims[App].preedit = <<>>)
    BY <1>5, <2>1 DEF Inv, ContextInv, Accepting
  <2>3. Composed(f) = ims[App].preedit
    BY <2>1, <2>2 DEF Composed
  <2>4. fields[f].text \o ims[App].preedit = fields[f].typed
    BY <2>3 DEF Inv, KeysReachField
  <2>5. fields[f].shown = ims[App].preedit
    BY <2>1, <2>2, <2>3 DEF Inv, PreeditShown
  <2>6. Painted(World(App), f)
    BY <2>1 DEF Inv, PaintInv, World, Painted
  <2> QED BY <1>3, <2>1, <2>2, <2>4, <2>5, <2>6 DEF World, Joined, Drawn
<1> QED BY <1>1, <1>4, <1>5 DEF Gtk, Qt

(* The world u becomes that of the context of f.                           *)
Becomes(u, f) ==
  /\ Live(u, f) /\ Settle(ContextOf(f), u)
  /\ \A g \in Fields : g # f => u.fields[g] = fields[g]
  /\ u.fields[f].accepts = fields[f].accepts
  /\ Joined(u, f) = u.fields[f].typed /\ Drawn(u, f)
  /\ Qt => u.im.use_preedit /\ ((valid /\ fields[f].accepts) \/ u.im.preedit = <<>>)

(* What is known of fields and what is composed for them afterwards.       *)
FieldsAfter ==
  /\ fields \in [Fields -> Widgets] /\ ims \in [Contexts -> IMs]
  /\ KeysReachField /\ PreeditShown /\ PaintInv
  /\ Gtk => \A f \in Fields : fields[f].stage = "none" => ims[f] = NewIM
  /\ Qt => ims[App].use_preedit /\ ((valid /\ Accepting(focus)) \/ ims[App].preedit = <<>>)

LEMMA BecomesFacts ==
  ASSUME Inv, NEW f \in Fields, NEW u, fields[f].stage = "live", Becomes(u, f),
         UNCHANGED <<toolkit, valid>>, Qt => f = focus /\ focus' = focus
  PROVE  /\ FieldsAfter'
         /\ \A g \in Fields : fields'[g].stage = fields[g].stage
<1>1. toolkit \in {"gtk3", "gtk4", "qt"} /\ fields \in [Fields -> Widgets] /\ ims \in [Contexts -> IMs]
  BY DEF Inv, TypeInv
<1>2. PICK x \in Contexts : x = ContextOf(f)
  BY DEF Contexts, ContextOf
<1>3. /\ u \in Worlds /\ u.fields[f].stage = "live" /\ ims' = [ims EXCEPT ![x] = u.im] /\ fields' = u.fields
      /\ \A g \in Fields : g # f => u.fields[g] = fields[g]
      /\ u.fields[f].accepts = fields[f].accepts
  BY <1>2 DEF Becomes, Live, Settle
<1>4. /\ fields' \in [Fields -> Widgets] /\ ims' \in [Contexts -> IMs] /\ fields'[f] = u.fields[f] /\ ims'[x] = u.im
      /\ \A g \in Fields : g # f => fields'[g] = fields[g]
      /\ \A y \in Contexts : y # x => ims'[y] = ims[y]
  BY <1>1, <1>2, <1>3 DEF Worlds
<1>5. \A g \in Fields : fields'[g].stage = fields[g].stage
  BY <1>3, <1>4
<1>6. /\ fields'[f].text \o ims'[x].preedit = fields'[f].typed
      /\ fields'[f].shown = (IF ims'[x].use_preedit THEN ims'[x].preedit ELSE <<>>)
      /\ Paints(fields'[f], ims'[x], toolkit)
  BY <1>4 DEF Becomes, Joined, Drawn, Painted
<1>7. CASE Gtk
  <2>1. ~ Qt /\ x = f /\ Gtk' /\ ~ Qt'
    BY <1>2, <1>7 DEF Gtk, Qt, ContextOf
  <2>2. \A g \in Fields : g # f => fields'[g] = fields[g] /\ ims'[g] = ims[g]
    BY <1>4, <2>1 DEF Contexts
  <2>3. KeysReachField'
    BY <1>5, <1>6, <1>7, <2>1, <2>2 DEF Inv, KeysReachField, Composed
  <2>4. PreeditShown'
    BY <1>5, <1>6, <1>7, <2>1, <2>2 DEF Inv, PreeditShown, Composed, ContextOf
  <2>5. \A g \in Fields : fields'[g].stage = "none" => ims'[g] = NewIM
    BY <1>5, <1>7, <2>2 DEF Inv, ContextInv
  <2>6. PaintInv'
    <3>1. \A g \in Fields : ContextOf(g) = g /\ ContextOf(g)' = g
      BY <2>1 DEF ContextOf
    <3>2. fields[f].stage = "live" /\ toolkit' = toolkit
      OBVIOUS
    <3> QED BY <1>5, <1>6, <2>1, <2>2, <3>1, <3>2 DEF Inv, PaintInv
  <2> QED BY <1>4, <1>5, <2>1, <2>3, <2>4, <2>5, <2>6 DEF FieldsAfter
<1>8. CASE Qt
  <2>1. ~ Gtk /\ x = App /\ f = focus /\ focus' = focus /\ ~ Gtk' /\ Qt'
    BY <1>2, <1>8 DEF Gtk, Qt, ContextOf
  <2>2. /\ ims'[App].use_preedit
        /\ (valid /\ fields[f].accepts) \/ ims'[App].preedit = <<>>
    BY <1>4, <1>8, <2>1 DEF Becomes
  <2>3. fields'[f].accepts = fields[f].accepts /\ f # NoField
    BY <1>3, <1>4, NoFieldFact
  <2>4. /\ Composed(f)' = ims'[App].preedit
        /\ \A g \in Fields : g # f => Composed(g) = <<>> /\ Composed(g)' = <<>>
    BY <2>1, <2>2, <2>3 DEF Composed
  <2>5. KeysReachField'
    BY <1>4, <1>6, <2>1, <2>4, ZenonT(60) DEF Inv, KeysReachField
  <2>6. PreeditShown'
    BY <1>4, <1>6, <2>1, <2>2, <2>4 DEF Inv, PreeditShown, ContextOf
  <2>7. (valid /\ Accepting(focus))' \/ ims'[App].preedit = <<>>
    BY <2>1, <2>2, <2>3 DEF Accepting
  <2>8. PaintInv'
    <3>1. \A g \in Fields : ContextOf(g)' = App
      BY <2>1 DEF ContextOf
    <3>2. Paints(fields'[f], ims'[App], toolkit') /\ fields'[f].stage = "live"
      BY <1>3, <1>4, <1>6, <2>1
    <3>3. ASSUME NEW g \in Fields, g # f
          PROVE  fields'[g].shown = <<>>
      <4>1. fields'[g].stage = "live" => fields'[g].shown = <<>>
        BY <2>4, <2>6, <3>3 DEF PreeditShown
      <4> QED BY <1>4, <3>3, <4>1 DEF Inv, PaintInv
    <3>4. \A g \in Fields : g # f => Paints(fields'[g], ims'[App], toolkit')
      BY <3>3 DEF Paints
    <3> QED BY <3>1, <3>2, <3>3, <3>4 DEF PaintInv
  <2> QED BY <1>4, <1>5, <2>1, <2>2, <2>5, <2>6, <2>7, <2>8 DEF FieldsAfter
<1> QED BY <1>1, <1>7, <1>8 DEF Gtk, Qt

(* Options and filters are as they were.                                   *)
LEMMA OptionsStay ==
  ASSUME Inv, UNCHANGED <<toolkit, valid, settings, notices>>,
         \A g \in Fields : fields'[g].stage = fields[g].stage,
         \A x \in Contexts : /\ contexts'[x].reset = contexts[x].reset
                             /\ contexts'[x].hook = contexts[x].hook
                             /\ contexts'[x].filters = contexts[x].filters
  PROVE  OptionsInv'
<1>1. \A x \in Contexts : There(x)' <=> There(x)
  BY DEF There, Qt
<1>2. \A x \in Contexts : Told(x)' <=> Told(x)
  BY DEF Told
<1>3. \A x \in Contexts : Wants(contexts[x])' <=> Wants(contexts[x])
  BY DEF Wants, Gtk, Qt
<1> QED BY <1>1, <1>2, <1>3 DEF Inv, OptionsInv

(* A step of a field that changes nothing else.                            *)
LEMMA FieldStep ==
  ASSUME Inv, NEW f \in Fields, fields[f].stage = "live", Qt => f = focus, NEW u, Becomes(u, f),
         Qt => u.im.area = ims[App].area,
         UNCHANGED <<toolkit, valid, focus, contexts, settings, notices>>
  PROVE  Inv'
<1>2. FieldsAfter' /\ \A g \in Fields : fields'[g].stage = fields[g].stage
  BY BecomesFacts
<1>3. OptionsInv'
  BY <1>2, OptionsStay
<1>4. TypeInv'
  BY <1>2, NoFieldFact DEF Inv, TypeInv, TypeOK, FieldsAfter, Gtk
<1>5. ContextInv'
  BY <1>2 DEF Inv, ContextInv, FieldsAfter
<1>6. PositionKnown'
  <2>1. Qt => ims'[App].area = ims[App].area
    <3> SUFFICES ASSUME Qt PROVE ims'[App].area = ims[App].area
      OBVIOUS
    <3>1. ContextOf(f) = App
      BY DEF ContextOf
    <3>2. ims' = [ims EXCEPT ![App] = u.im] /\ App \in Contexts /\ ims \in [Contexts -> IMs]
      BY <3>1 DEF Becomes, Settle, Contexts, Inv, TypeInv
    <3> QED BY <3>2
  <2>2. Qt' <=> Qt
    BY DEF Qt
  <2> QED BY <2>1, <2>2 DEF Inv, PositionKnown
<1> QED BY <1>2, <1>3, <1>4, <1>5, <1>6 DEF Inv, FieldsAfter

(* What has been given to the field that has the focus.                    *)
LEMMA GivenStep ==
  ASSUME Inv, NEW f \in Fields, f = focus, NEW w, NEW u, NEW s,
         Live(w, f), Drawn(w, f), w.im.use_preedit = ims[ContextOf(f)].use_preedit,
         w.im.area = ims[ContextOf(f)].area,
         \A g \in Fields : g # f => w.fields[g] = fields[g],
         w.fields[f].accepts = fields[f].accepts,
         w.fields[f].typed = Joined(w, f) \o s,
         Gives(w, u, f, s), Settle(ContextOf(f), u),
         Qt => (valid /\ fields[f].accepts) \/ u.im.preedit = <<>>,
         UNCHANGED <<toolkit, valid, focus, contexts, settings, notices>>
  PROVE  Inv'
<1>1. fields[f].stage = "live"
  BY NoFieldFact DEF Inv, TypeInv, TypeOK
<1>2. Qt => ContextOf(f) = App /\ ims[App].use_preedit
  BY <1>1, FieldFacts
<1>3. /\ Leaves(w, u, f) /\ Drawn(u, f) /\ Joined(u, f) = u.fields[f].typed
  BY DEF Gives, Leaves
<1>4. Becomes(u, f) /\ (Qt => u.im.area = ims[App].area)
  BY <1>2, <1>3 DEF Becomes, Leaves
<1> QED BY <1>1, <1>4, FieldStep

LEMMA ResetsStep ==
  ASSUME Inv, NEW f \in Fields, f = focus, Resets(f)
  PROVE  Inv'
<1>1. fields[f].stage = "live"
  BY NoFieldFact DEF Inv, TypeInv, TypeOK
<1>2. PICK w, u : w = World(ContextOf(f)) /\ u = nimf_im_reset(w, f)
  OBVIOUS
<1>3. Live(w, f) /\ Joined(w, f) = fields[f].typed /\ Drawn(w, f)
  BY <1>1, <1>2, FieldFacts
<1>4. Gives(w, u, f, <<>>) /\ u.im.preedit = <<>>
  BY <1>2, <1>3, ResetFacts, Zenon
<1>5. w.im = ims[ContextOf(f)] /\ w.fields = fields
  BY <1>2 DEF World
<1>6. w.fields[f].typed = Joined(w, f) \o <<>>
  BY <1>3, <1>5, LiveFacts, Joins
<1>7. Settle(ContextOf(f), u) /\ UNCHANGED <<toolkit, valid, focus, contexts, settings, notices>>
  BY <1>2 DEF Resets
<1> QED BY <1>3, <1>4, <1>5, <1>6, <1>7, GivenStep

(* A world whose field f has another text in it, or was typed another.     *)
SameBut(w, u, f) ==
  /\ Live(u, f) /\ u.im = w.im
  /\ \A g \in Fields : g # f => u.fields[g] = w.fields[g]
  /\ u.fields[f].shown = w.fields[f].shown /\ u.fields[f].marks = w.fields[f].marks
  /\ u.fields[f].accepts = w.fields[f].accepts
Rewritten(w, u, f, text) ==
  SameBut(w, u, f) /\ u.fields[f].text = text /\ u.fields[f].typed = w.fields[f].typed
Retyped(w, u, f, text) ==
  SameBut(w, u, f) /\ u.fields[f].typed = text /\ u.fields[f].text = w.fields[f].text

LEMMA Rewrites ==
  \A w, f : \A text \in Seq(Texts) : Live(w, f) =>
    /\ Rewritten(w, [w EXCEPT !.fields[f].text = text], f, text)
    /\ Retyped(w, [w EXCEPT !.fields[f].typed = text], f, text)
<1> SUFFICES ASSUME NEW w, NEW f, NEW text \in Seq(Texts), Live(w, f)
             PROVE  /\ Rewritten(w, [w EXCEPT !.fields[f].text = text], f, text)
                    /\ Retyped(w, [w EXCEPT !.fields[f].typed = text], f, text)
  BY Zenon
<1>1. w \in Worlds /\ f \in Fields /\ w.fields[f].stage = "live"
  BY DEF Live
<1>2. PICK r \in Widgets : r = w.fields[f]
  BY <1>1 DEF Worlds
<1>3. w.im \in IMs /\ w.fields \in [Fields -> Widgets]
  BY <1>1 DEF Worlds
<1>4. PICK q \in Widgets : q = [r EXCEPT !.text = text]
  BY DEF Widgets
<1>5. PICK p \in Widgets : p = [r EXCEPT !.typed = text]
  BY DEF Widgets
<1>6. Rewritten(w, [w EXCEPT !.fields[f].text = text], f, text)
  <2>1. PICK u \in Worlds : u = [im |-> w.im, fields |-> [w.fields EXCEPT ![f] = q]]
    BY <1>3 DEF Worlds
  <2>2. [w EXCEPT !.fields[f].text = text] = u
    BY <1>1, <1>2, <1>4, <2>1, SMTT(20) DEF Worlds
  <2>3. u.im = w.im /\ u.fields = [w.fields EXCEPT ![f] = q]
    BY <2>1
  <2>4. Rewritten(w, u, f, text)
    BY <1>1, <1>2, <1>3, <1>4, <2>3 DEF Rewritten, SameBut, Live, Widgets
  <2> QED BY <2>2, <2>4
<1>7. Retyped(w, [w EXCEPT !.fields[f].typed = text], f, text)
  <2>1. PICK u \in Worlds : u = [im |-> w.im, fields |-> [w.fields EXCEPT ![f] = p]]
    BY <1>3 DEF Worlds
  <2>2. [w EXCEPT !.fields[f].typed = text] = u
    BY <1>1, <1>2, <1>5, <2>1, SMTT(20) DEF Worlds
  <2>3. u.im = w.im /\ u.fields = [w.fields EXCEPT ![f] = p]
    BY <2>1
  <2>4. Retyped(w, u, f, text)
    BY <1>1, <1>2, <1>3, <1>5, <2>3 DEF Retyped, SameBut, Live, Widgets
  <2> QED BY <2>2, <2>4
<1> QED BY <1>6, <1>7

LEMMA KeyStep ==
  ASSUME Inv, NEW type \in {"press", "release"}, NEW k \in Keys, Key(type, k)
  PROVE  Inv'
<1>1. PICK f \in Fields : f = focus
  BY DEF Inv, TypeInv, TypeOK, Key
<1>2. fields[f].stage = "live" /\ toolkit \in {"gtk3", "gtk4", "qt"}
  BY <1>1, NoFieldFact DEF Inv, TypeInv, TypeOK
<1>3. PICK event \in Events : event = [type |-> type, key |-> k]
  BY DEF Events
<1>4. PICK s \in Seq(Texts) : s = Entered(event)
  BY EnteredTypes
<1>5. PICK v : v = World(ContextOf(f))
  OBVIOUS
<1>6. PICK w : w = [v EXCEPT !.fields[f].typed = @ \o s]
  OBVIOUS
<1>7. PICK u \in After(w, f, event) : Settle(ContextOf(f), u)
  <2>1. event.key = k
    BY <1>3
  <2>2. s = IF IsText(event) THEN <<k>> ELSE <<>>
    BY <1>4, <2>1 DEF Entered
  <2> QED BY <1>1, <1>3, <1>5, <1>6, <2>2 DEF Key
<1>8. /\ Live(v, f) /\ Joined(v, f) = fields[f].typed /\ Drawn(v, f)
      /\ v.im = ims[ContextOf(f)] /\ v.fields = fields
      /\ Qt => ContextOf(f) = App /\ ((valid /\ fields[f].accepts) \/ ims[App].preedit = <<>>)
  BY <1>1, <1>2, <1>5, FieldFacts DEF World
<1>9. /\ Live(w, f) /\ w.im = v.im
      /\ \A g \in Fields : g # f => w.fields[g] = v.fields[g]
      /\ w.fields[f].typed = v.fields[f].typed \o s /\ w.fields[f].text = v.fields[f].text
      /\ w.fields[f].shown = v.fields[f].shown /\ w.fields[f].marks = v.fields[f].marks
      /\ w.fields[f].accepts = v.fields[f].accepts
  <2>1. v.fields[f] \in Widgets
    BY <1>8 DEF Live, Worlds
  <2>2. PICK t \in Seq(Texts) : t = v.fields[f].typed \o s
    BY <2>1, Joins DEF Widgets
  <2>3. w = [v EXCEPT !.fields[f].typed = t]
    BY <1>6, <2>2
  <2>4. Retyped(v, w, f, t)
    BY <1>8, <2>3, Rewrites, Zenon
  <2> QED BY <2>2, <2>4 DEF Retyped, SameBut
<1>10. Joined(w, f) = Joined(v, f) /\ Drawn(w, f) /\ w.fields[f].typed = Joined(w, f) \o s
  BY <1>8, <1>9, DrawnFacts DEF Joined
<1>11. Gives(w, u, f, s)
  <2>1. toolkit = "gtk4" => contexts[f].client
    BY <1>1, NoFieldFact DEF Inv, ContextInv
  <2>2. Qt => (valid /\ w.fields[f].accepts) \/ w.im.preedit = <<>>
    BY <1>8, <1>9
  <2> QED BY <1>2, <1>4, <1>7, <1>9, <2>1, <2>2, AfterGives, Zenon
<1>12. Qt => (valid /\ fields[f].accepts) \/ u.im.preedit = <<>>
  <2> SUFFICES ASSUME toolkit = "qt", ~ (valid /\ fields[f].accepts) PROVE u.im.preedit = <<>>
    BY DEF Qt
  <2>1. ims[App].preedit = <<>> /\ v.im = ims[App]
    BY <1>8 DEF Qt
  <2>2. w \in Worlds /\ ~ (valid /\ w.fields[f].accepts)
    BY <1>8, <1>9 DEF Live
  <2>3. u.im = w.im
    BY <1>7, <2>2, AfterQt, Zenon
  <2> QED BY <1>9, <2>1, <2>3
<1>13. UNCHANGED <<toolkit, valid, focus, contexts, settings, notices>>
  BY DEF Key
<1>14. /\ w.im.use_preedit = ims[ContextOf(f)].use_preedit /\ w.im.area = ims[ContextOf(f)].area
       /\ \A g \in Fields : g # f => w.fields[g] = fields[g]
       /\ w.fields[f].accepts = fields[f].accepts
  BY <1>8, <1>9
<1>15. Live(w, f)
  BY <1>9
<1>16. Settle(ContextOf(f), u)
  BY <1>7
<1> QED BY <1>1, <1>10, <1>11, <1>12, <1>13, <1>14, <1>15, <1>16, GivenStep

-----------------------------------------------------------------------------
(* Surrounding text.                                                       *)

(* One unit is deleted where the character before the cursor is of one.    *)
LEMMA QtDeletes ==
  ASSUME NEW text \in Seq(Texts), Offset(text, Len(text), Units) \in DOMAIN text,
         text[Offset(text, Len(text), Units)] = "ga"
  PROVE  qt_on_delete_surrounding(text, 1) = SubSeq(text, 1, Len(text) - 1)
<1>1. PICK n \in Nat : n = Len(text)
  OBVIOUS
<1>2. Offset(text, n, Units) = n /\ n # 0 /\ text[n] = "ga"
  <2>1. Offset(text, n, Units) \in 1 .. n
    BY <1>1
  <2>2. Offset(text, n, Units) >= n
    BY <1>1, OffsetBound, SizesFacts
  <2> QED BY <1>1, <2>1, <2>2
<1>3. Offset(text, n - 1, Units) + 1 = n
  <2>1. n \in 1 .. Len(text) /\ n - 1 \in 0 .. Len(text)
    BY <1>1, <1>2
  <2>2. Offset(text, n - 1, Units) \in Nat
    BY <2>1, OffsetBound, SizesFacts
  <2> QED BY <1>2, <2>1, <2>2, OffsetDef, SizesFacts
<1> DEFINE left == {m \in 0 .. Len(text) : Offset(text, m, Units) + 1 <= Offset(text, Len(text), Units)}
<1>4. left \in SUBSET Nat
  BY <1>1
<1>5. n - 1 \in left
  BY <1>1, <1>2, <1>3
<1>6. \A m \in left : m <= n - 1
  <2> TAKE m \in left
  <2>1. m \in 0 .. Len(text) /\ Offset(text, m, Units) \in Nat /\ Offset(text, m, Units) >= m
    BY OffsetBound, SizesFacts
  <2>2. Offset(text, m, Units) + 1 <= n
    BY <1>1, <1>2
  <2> QED BY <1>1, <2>1, <2>2
<1>7. Max(left) = n - 1
  <2> HIDE DEF left
  <2> QED BY <1>4, <1>5, <1>6, MaxIs
<1> QED BY <1>1, <1>7, Zenon DEF qt_on_delete_surrounding

(* The hanja that replaces the last character is committed instead of it.  *)
LEMMA ConvertStep ==
  ASSUME Inv, Convert
  PROVE  Inv'
<1>1. PICK f \in Fields : f = focus
  BY DEF Inv, TypeInv, TypeOK, Convert
<1>2. fields[f].stage = "live" /\ toolkit \in {"gtk3", "gtk4", "qt"} /\ fields[f] \in Widgets
  BY <1>1, NoFieldFact DEF Inv, TypeInv, TypeOK
<1>3. PICK w : w = World(ContextOf(f))
  OBVIOUS
<1>4. PICK d : d = on_delete_surrounding(w, f, 1)
  OBVIOUS
<1>5. PICK c : c = Commit(d, f, <<"hanja">>)
  OBVIOUS
<1>6. PICK u : u = [c EXCEPT !.fields[f].typed = SubSeq(@, 1, Len(@) - 1) \o <<"hanja">>]
  OBVIOUS
<1>7. PICK text \in Seq(Texts) : text = fields[f].text
  BY <1>2 DEF Widgets
<1>8. /\ w.im.preedit = <<>> /\ Settle(ContextOf(f), u)
      /\ Surrounding(text) \in DOMAIN text /\ text[Surrounding(text)] = "ga"
  BY <1>1, <1>3, <1>4, <1>5, <1>6, <1>7 DEF Convert
<1>9. /\ Live(w, f) /\ Joined(w, f) = fields[f].typed /\ Drawn(w, f)
      /\ w.im = ims[ContextOf(f)] /\ w.fields = fields
      /\ Qt => ContextOf(f) = App /\ ims[App].use_preedit
  BY <1>1, <1>2, <1>3, FieldFacts DEF World
<1>10. fields[f].typed = text
  BY <1>7, <1>8, <1>9, Joins DEF Joined
<1>11. PICK left \in Seq(Texts) : left = SubSeq(text, 1, Len(text) - 1)
  <2>1. Len(text) - 1 \in 0 .. Len(text)
    BY <1>8
  <2>2. SubSeq(text, 1, Len(text) - 1) \in Seq(Texts)
    BY <2>1, SplitAt, Zenon
  <2> QED BY <2>2
<1>12. Rewritten(w, d, f, left)
  <2>1. CASE Gtk
    <3>1. d = [w EXCEPT !.fields[f].text = gtk_on_delete_surrounding(@, 1)]
      BY <1>4, <2>1 DEF on_delete_surrounding
    <3>2. gtk_on_delete_surrounding(w.fields[f].text, 1) = left
      BY <1>7, <1>9, <1>11 DEF gtk_on_delete_surrounding
    <3>3. d = [w EXCEPT !.fields[f].text = left]
      BY <3>1, <3>2
    <3> QED BY <1>9, <3>3, Rewrites, Zenon
  <2>2. CASE ~ Gtk
    <3>1. d = [w EXCEPT !.fields[f].text = qt_on_delete_surrounding(@, 1)]
      BY <1>4, <2>2 DEF on_delete_surrounding
    <3>2. Surrounding(text) = Offset(text, Len(text), Units)
      BY <1>2, <2>2 DEF Surrounding, qt_on_retrieve_surrounding, Gtk
    <3>3. qt_on_delete_surrounding(w.fields[f].text, 1) = left
      BY <1>7, <1>8, <1>9, <1>11, <3>2, QtDeletes
    <3>4. d = [w EXCEPT !.fields[f].text = left]
      BY <3>1, <3>3
    <3> QED BY <1>9, <3>4, Rewrites, Zenon
  <2> QED BY <2>1, <2>2
<1>13. Ends(d, c, f, <<"hanja">>)
  <2>1. <<"hanja">> \in Seq(Texts)
    BY Joins, TextsAre
  <2>2. Live(d, f)
    BY <1>12 DEF Rewritten, SameBut
  <2> QED BY <1>5, <2>1, <2>2, CommitFacts, Zenon
<1>14. PICK text2 \in Seq(Texts) : text2 = left \o <<"hanja">>
  BY Joins, TextsAre
<1>15. Retyped(c, u, f, text2)
  <2>1. c.fields[f].typed = text /\ Live(c, f)
    BY <1>9, <1>10, <1>12, <1>13 DEF Rewritten, SameBut, Ends, Leaves
  <2>2. u = [c EXCEPT !.fields[f].typed = text2]
    BY <1>6, <1>11, <1>14, <2>1
  <2> QED BY <2>1, <2>2, Rewrites, Zenon
<1>16. c.fields[f].text = text2 /\ c.im.preedit = <<>>
  BY <1>12, <1>13, <1>14 DEF Rewritten, Ends
<1>17. Joined(u, f) = u.fields[f].typed
  BY <1>15, <1>16, Joins DEF Retyped, SameBut, Joined
<1>18. Drawn(u, f)
  <2>1. Drawn(d, f)
    BY <1>9, <1>12, DrawnFacts DEF Rewritten, SameBut
  <2>2. Drawn(c, f)
    BY <1>13, <2>1 DEF Ends
  <2> QED BY <1>15, <2>2, DrawnFacts DEF Retyped, SameBut
<1>19. /\ u.im.preedit = <<>> /\ u.im.use_preedit = w.im.use_preedit /\ u.im.area = w.im.area
       /\ Live(u, f) /\ u.fields[f].accepts = w.fields[f].accepts
       /\ \A g \in Fields : g # f => u.fields[g] = w.fields[g]
  BY <1>12, <1>13, <1>15 DEF Rewritten, Ends, Retyped, SameBut, Leaves
<1>20. Becomes(u, f) /\ (Qt => u.im.area = ims[App].area)
  BY <1>8, <1>9, <1>17, <1>18, <1>19 DEF Becomes
<1>21. UNCHANGED <<toolkit, valid, focus, contexts, settings, notices>>
  BY DEF Convert
<1> QED BY <1>1, <1>2, <1>20, <1>21, FieldStep

-----------------------------------------------------------------------------
(* Steps that leave the fields and what is composed for them.              *)
LEMMA FieldsStay ==
  ASSUME Inv, UNCHANGED <<toolkit, valid, fields, ims>>, Qt => focus' = focus
  PROVE  FieldsAfter'
<1>1. CASE Gtk
  <2>1. ~ Qt /\ ~ Qt' /\ Gtk'
    BY <1>1 DEF Gtk, Qt
  <2>2. \A f \in Fields : Composed(f)' = Composed(f) /\ ContextOf(f)' = ContextOf(f)
    BY <1>1, <2>1 DEF Composed, ContextOf
  <2> QED BY <1>1, <2>1, <2>2
          DEF Inv, TypeInv, ContextInv, KeysReachField, PreeditShown, PaintInv, FieldsAfter
<1>2. CASE ~ Gtk
  <2>1. focus' = focus /\ Qt /\ Qt' /\ ~ Gtk'
    BY <1>2 DEF Inv, TypeInv, Gtk, Qt
  <2>2. \A f \in Fields : Composed(f)' = Composed(f) /\ ContextOf(f)' = ContextOf(f)
    BY <1>2, <2>1 DEF Composed, ContextOf
  <2>3. Accepting(focus)' = Accepting(focus)
    BY <2>1 DEF Accepting
  <2> QED BY <2>1, <2>2, <2>3
          DEF Inv, TypeInv, ContextInv, KeysReachField, PreeditShown, PaintInv, FieldsAfter
<1> QED BY <1>1, <1>2

LEMMA FocusInStep ==
  ASSUME Inv, NEW f \in Fields, nimf_gtk_im_context_focus_in(f) \/ nimf_gtk4_im_context_focus_in(f)
  PROVE  Inv'
<1>1. /\ Gtk /\ focus = NoField /\ fields[f].stage = "live" /\ (toolkit = "gtk4" => contexts[f].client)
      /\ contexts' = [contexts EXCEPT ![f].has_focus = TRUE] /\ focus' = f
      /\ UNCHANGED <<toolkit, valid, fields, ims, settings, notices>>
  BY DEF nimf_gtk_im_context_focus_in, nimf_gtk4_im_context_focus_in, Gtk
<1>2. ~ Qt /\ Gtk'
  BY <1>1 DEF Gtk, Qt
<1>3. f \in Contexts /\ contexts \in [Contexts -> Records]
  BY DEF Contexts, Inv, TypeInv
<1>4. /\ contexts' \in [Contexts -> Records]
      /\ contexts'[f].has_focus = TRUE
      /\ \A x \in Contexts : x # f => contexts'[x].has_focus = contexts[x].has_focus
      /\ \A x \in Contexts :
           /\ contexts'[x].reset = contexts[x].reset /\ contexts'[x].hook = contexts[x].hook
           /\ contexts'[x].filters = contexts[x].filters /\ contexts'[x].client = contexts[x].client
  BY <1>1, <1>3 DEF Records
<1>5. FieldsAfter'
  BY <1>1, <1>2, FieldsStay
<1>6. OptionsInv'
  BY <1>1, <1>4, OptionsStay
<1>7. TypeInv'
  <2>1. \A x \in Contexts : contexts[x].has_focus => FALSE
    BY <1>1, NoFieldFact DEF Inv, TypeInv, TypeOK, Contexts
  <2>2. \A x \in Contexts : (contexts'[x].has_focus <=> x = f) /\ contexts'[x].filters \in 0 .. 1
    BY <1>4, <2>1 DEF Inv, TypeInv, TypeOK
  <2>3. TypeOK'
    BY <1>1, <1>2, <2>2 DEF Inv, TypeInv, TypeOK
  <2> QED BY <1>1, <1>4, <2>3 DEF Inv, TypeInv
<1>8. ContextInv'
  BY <1>1, <1>3, <1>4, <1>5 DEF ContextInv, FieldsAfter
<1>9. PositionKnown'
  BY <1>1, <1>2 DEF PositionKnown, Qt
<1> QED BY <1>5, <1>6, <1>7, <1>8, <1>9 DEF Inv, FieldsAfter

(* A context of GTK that loses the focus is reset.                         *)
LEMMA FocusOutStep ==
  ASSUME Inv, NEW f \in Fields, Gtk, FocusOut(f)
  PROVE  Inv'
<1>1. /\ focus = f /\ focus' = NoField
      /\ contexts' = [contexts EXCEPT ![f].has_focus = FALSE]
      /\ UNCHANGED <<toolkit, valid, settings, notices>>
  BY DEF FocusOut
<1>2. fields[f].stage = "live" /\ ~ Qt /\ Gtk' /\ ~ Qt' /\ ContextOf(f) = f
  BY <1>1, NoFieldFact DEF Inv, TypeInv, TypeOK, Gtk, Qt, ContextOf
<1>3. PICK w, u : w = World(f) /\ u = nimf_im_reset(w, f)
  OBVIOUS
<1>4. Live(w, f) /\ Joined(w, f) = fields[f].typed /\ Drawn(w, f) /\ w.fields = fields
  BY <1>2, <1>3, FieldFacts DEF World
<1>5. Gives(w, u, f, <<>>)
  BY <1>3, <1>4, ResetFacts, Zenon
<1>6. Becomes(u, f)
  <2>1. Settle(f, u)
    BY <1>3 DEF FocusOut
  <2>2. Joined(u, f) = fields[f].typed
    BY <1>4, <1>5, LiveFacts, Joins DEF Gives
  <2> QED BY <1>2, <1>4, <1>5, <2>1, <2>2 DEF Becomes, Gives, Leaves
<1>7. FieldsAfter' /\ \A g \in Fields : fields'[g].stage = fields[g].stage
  BY <1>1, <1>2, <1>6, BecomesFacts
<1>8. f \in Contexts /\ contexts \in [Contexts -> Records]
  BY DEF Contexts, Inv, TypeInv
<1>9. /\ contexts' \in [Contexts -> Records]
      /\ contexts'[f].has_focus = FALSE
      /\ \A x \in Contexts : x # f => contexts'[x].has_focus = contexts[x].has_focus
      /\ \A x \in Contexts :
           /\ contexts'[x].reset = contexts[x].reset /\ contexts'[x].hook = contexts[x].hook
           /\ contexts'[x].filters = contexts[x].filters
  BY <1>1, <1>8 DEF Records
<1>10. OptionsInv'
  BY <1>1, <1>7, <1>9, OptionsStay
<1>11. TypeInv'
  <2>1. \A x \in Contexts : ~ contexts'[x].has_focus /\ contexts'[x].filters \in 0 .. 1 /\ x # NoField
    BY <1>1, <1>9, NoFieldFact DEF Inv, TypeInv, TypeOK, Contexts
  <2>2. TypeOK'
    BY <1>1, <2>1 DEF Inv, TypeInv, TypeOK
  <2> QED BY <1>1, <1>7, <1>9, <2>2 DEF Inv, TypeInv, FieldsAfter
<1>12. ContextInv'
  BY <1>1, <1>7 DEF ContextInv, FieldsAfter
<1>13. PositionKnown'
  BY <1>2 DEF PositionKnown
<1> QED BY <1>7, <1>10, <1>11, <1>12, <1>13 DEF Inv, FieldsAfter

LEMMA ButtonStep ==
  ASSUME Inv, NEW f \in Fields, ButtonPress(f)
  PROVE  Inv'
<1>1. f = focus /\ Gtk /\ UNCHANGED <<toolkit, valid, focus, contexts, settings, notices>>
  BY DEF ButtonPress, Gtk
<1>2. fields[f].stage = "live" /\ ~ Qt /\ ContextOf(f) = f
  BY <1>1, NoFieldFact DEF Inv, TypeInv, TypeOK, Gtk, Qt, ContextOf
<1>3. PICK w : w = World(f)
  OBVIOUS
<1>4. PICK r \in on_gdk_x_event(w, f, [type |-> "ButtonPress"]) : Settle(f, r.w)
  BY <1>3 DEF ButtonPress
<1>5. /\ Live(w, f) /\ Joined(w, f) = fields[f].typed /\ Drawn(w, f)
      /\ w.im = ims[f] /\ w.fields = fields
  BY <1>2, <1>3, FieldFacts DEF World
<1>6. Gives(w, r.w, f, <<>>)
  BY <1>4, <1>5, ButtonFacts, Zenon
<1>7. w.fields[f].typed = Joined(w, f) \o <<>>
  BY <1>5, LiveFacts, Joins
<1> QED BY <1>1, <1>2, <1>4, <1>5, <1>6, <1>7, GivenStep

LEMMA CursorStep ==
  ASSUME Inv, NEW f \in Fields, nimf_gtk_im_context_set_cursor_location(f)
  PROVE  Inv'
<1>1. f = focus /\ Gtk /\ UNCHANGED <<toolkit, valid, focus, contexts, settings, notices>>
  BY DEF nimf_gtk_im_context_set_cursor_location
<1>2. fields[f].stage = "live" /\ ~ Qt /\ ContextOf(f) = f
  BY <1>1, NoFieldFact DEF Inv, TypeInv, TypeOK, Gtk, Qt, ContextOf
<1>3. PICK w, u : w = World(f) /\ u = nimf_im_set_cursor_location(w, f)
  OBVIOUS
<1>4. /\ Live(w, f) /\ Joined(w, f) = fields[f].typed /\ Drawn(w, f)
      /\ w.im = ims[f] /\ w.fields = fields
  BY <1>2, <1>3, FieldFacts DEF World
<1>5. /\ u \in Worlds /\ u.fields = w.fields
      /\ u.im.preedit = w.im.preedit /\ u.im.use_preedit = w.im.use_preedit
      /\ u.im.from = w.im.from /\ u.im.to = w.im.to
  BY <1>3, <1>4 DEF nimf_im_set_cursor_location, Live, Worlds, IMs
<1>6. Becomes(u, f)
  <2>1. Settle(f, u)
    BY <1>3 DEF nimf_gtk_im_context_set_cursor_location
  <2>2. Drawn(u, f)
    BY <1>4, <1>5, DrawnFacts
  <2> QED BY <1>2, <1>4, <1>5, <2>1, <2>2 DEF Becomes, Live, Joined
<1> QED BY <1>1, <1>2, <1>6, FieldStep

(* Qt commits to the field that loses the focus; the next one begins with  *)
(* nothing composed, and is where libnimf is told.                         *)
LEMMA FocusObjectStep ==
  ASSUME Inv, NEW f \in Fields \cup {NoField}, setFocusObject(f)
  PROVE  Inv'
<1>1. /\ Qt /\ ~ Gtk /\ focus' = f /\ (f # NoField => f \in Fields /\ fields[f].stage = "live")
      /\ UNCHANGED <<toolkit, valid, settings, notices>>
  BY DEF setFocusObject, Qt, Gtk
<1>2. /\ Qt' /\ ~ Gtk' /\ valid \in BOOLEAN /\ fields \in [Fields -> Widgets] /\ ims \in [Contexts -> IMs]
      /\ contexts \in [Contexts -> Records] /\ App \in Contexts /\ ims[App].use_preedit
      /\ ims[App] \in IMs
  BY <1>1 DEF Inv, TypeInv, ContextInv, Contexts, Qt, Gtk
<1>3. ASSUME NEW w \in Worlds, w.im.preedit = <<>>, w.im.use_preedit,
             \A g \in Fields :
               /\ w.fields[g].stage = fields[g].stage /\ w.fields[g].shown = <<>>
               /\ w.fields[g].stage = "live" => w.fields[g].text = w.fields[g].typed,
             ims' = [ims EXCEPT ![App] = w.im], fields' = w.fields
      PROVE  FieldsAfter'
  <2>1. fields' \in [Fields -> Widgets] /\ ims' \in [Contexts -> IMs] /\ ims'[App] = w.im
    BY <1>2, <1>3 DEF Worlds
  <2>2. \A g \in Fields : Composed(g)' = <<>>
    BY <1>2, <1>3, <2>1 DEF Composed
  <2>3. KeysReachField'
    <3> SUFFICES ASSUME NEW g \in Fields, fields'[g].stage = "live"
                 PROVE  fields'[g].text \o Composed(g)' = fields'[g].typed
      BY DEF KeysReachField
    <3>1. fields'[g].text = fields'[g].typed /\ fields'[g].text \in Seq(Texts)
      BY <1>3, <2>1 DEF Widgets
    <3> QED BY <2>2, <3>1, Joins
  <2>4. PreeditShown' /\ PaintInv'
    BY <1>3, <2>2 DEF PreeditShown, PaintInv, Paints
  <2> QED BY <1>2, <1>3, <2>1, <2>3, <2>4 DEF FieldsAfter
<1>4. ASSUME \A g \in Fields : fields'[g].stage = fields[g].stage, FieldsAfter',
             contexts' \in [Contexts -> Records],
             \A x \in Contexts :
               /\ contexts'[x].reset = contexts[x].reset /\ contexts'[x].hook = contexts[x].hook
               /\ contexts'[x].filters = contexts[x].filters
               /\ contexts'[x].has_focus = contexts[x].has_focus
      PROVE  OptionsInv' /\ TypeInv' /\ ContextInv'
  <2>1. OptionsInv'
    BY <1>1, <1>4, OptionsStay
  <2>2. TypeOK'
    BY <1>1, <1>2, <1>4 DEF Inv, TypeInv, TypeOK
  <2>3. TypeInv'
    BY <1>1, <1>4, <2>2 DEF Inv, TypeInv, FieldsAfter
  <2>4. ContextInv'
    <3>1. toolkit' # "gtk4"
      BY <1>2 DEF Gtk
    <3> QED BY <1>2, <1>4, <3>1 DEF ContextInv, FieldsAfter
  <2> QED BY <2>1, <2>3, <2>4
<1>5. CASE ~ valid
  <2>1. UNCHANGED <<ims, fields, contexts>>
    BY <1>5 DEF setFocusObject
  <2>2. ims[App].preedit = <<>>
    BY <1>1, <1>5 DEF Inv, ContextInv
  <2>3. PICK w \in Worlds : w = World(App)
    BY <1>2 DEF World, Worlds
  <2>4. w.im = ims[App] /\ w.fields = fields
    BY <2>3 DEF World
  <2>5. \A g \in Fields : Composed(g) = <<>> /\ fields[g] \in Widgets
    BY <1>1, <1>2, <2>2 DEF Composed
  <2>6. \A g \in Fields : /\ fields[g].stage = "live" => fields[g].text = fields[g].typed
                         /\ fields[g].shown = <<>>
    <3> SUFFICES ASSUME NEW g \in Fields, fields[g].stage = "live"
                 PROVE  fields[g].text = fields[g].typed /\ fields[g].shown = <<>>
      BY DEF Inv, PaintInv
    <3>1. fields[g].text \o Composed(g) = fields[g].typed
      BY DEF Inv, KeysReachField
    <3>2. fields[g].text \in Seq(Texts)
      BY <2>5 DEF Widgets
    <3>3. fields[g].shown = <<>>
      BY <2>5 DEF Inv, PreeditShown
    <3> QED BY <2>5, <3>1, <3>2, <3>3, Joins
  <2>7. ims' = [ims EXCEPT ![App] = w.im] /\ fields' = w.fields
    BY <1>2, <2>1, <2>4
  <2>8. FieldsAfter'
    BY <1>2, <1>3, <2>2, <2>4, <2>6, <2>7
  <2>9. OptionsInv' /\ TypeInv' /\ ContextInv'
    BY <1>2, <1>4, <2>1, <2>8
  <2>10. PositionKnown'
    BY <1>1, <1>5 DEF PositionKnown
  <2> QED BY <2>8, <2>9, <2>10 DEF Inv, FieldsAfter
<1>6. CASE valid
  <2>1. PICK v : v = World(App)
    OBVIOUS
  <2>2. PICK w : w = commit(v, focus)
    OBVIOUS
  <2>3. PICK u : u = IF Accepting(f) THEN w ELSE nimf_im_reset(w, f)
    OBVIOUS
  <2>4. /\ Settle(App, update(u, f))
        /\ contexts' = [contexts EXCEPT ![App].cursor_area = IF f = NoField THEN @ ELSE f]
    BY <1>6, <2>1, <2>2, <2>3 DEF setFocusObject
  <2>5. v \in Worlds /\ v.im = ims[App] /\ v.fields = fields
    BY <1>2, <2>1 DEF World, Worlds
  <2>6. /\ w \in Worlds /\ w.im.preedit = <<>> /\ w.im.use_preedit /\ w.im.area = ims[App].area
        /\ \A g \in Fields :
             /\ w.fields[g].stage = fields[g].stage /\ w.fields[g].shown = <<>>
             /\ w.fields[g].stage = "live" => w.fields[g].text = w.fields[g].typed
    <3>1. ASSUME NEW g \in Fields, fields[g].stage = "live", g # focus \/ ~ Accepting(focus)
          PROVE  fields[g].text = fields[g].typed /\ fields[g].shown = <<>>
      <4>1. Composed(g) = <<>>
        BY <1>1, <3>1, NoFieldFact DEF Composed, Accepting
      <4>2. fields[g].text \o <<>> = fields[g].typed
        BY <3>1, <4>1 DEF Inv, KeysReachField
      <4>3. fields[g].text \in Seq(Texts)
        BY <1>2 DEF Widgets
      <4>4. fields[g].shown = <<>>
        BY <3>1, <4>1 DEF Inv, PreeditShown
      <4> QED BY <4>2, <4>3, <4>4, Joins
    <3>0. \A g \in Fields : fields[g].stage # "live" => fields[g].shown = <<>>
      BY DEF Inv, PaintInv
    <3>2. CASE Accepting(focus)
      <4>1. PICK h \in Fields : h = focus
        BY <3>2 DEF Accepting, Inv, TypeInv, TypeOK
      <4>2. fields[h].stage = "live" /\ ContextOf(h) = App
        BY <1>1, <4>1, NoFieldFact DEF Inv, TypeInv, TypeOK, ContextOf
      <4>3. w = nimf_im_reset(v, h)
        BY <2>2, <3>2, <4>1 DEF commit
      <4>4. Live(v, h) /\ Joined(v, h) = fields[h].typed /\ Drawn(v, h)
        BY <2>1, <4>1, <4>2, FieldFacts
      <4>5. Gives(v, w, h, <<>>) /\ w.im.preedit = <<>>
        BY <4>3, <4>4, ResetFacts, Zenon
      <4>6. /\ w \in Worlds /\ w.im.use_preedit = v.im.use_preedit /\ w.im.area = v.im.area
            /\ w.fields[h].stage = "live" /\ w.fields[h].typed = v.fields[h].typed
            /\ \A g \in Fields : g # h => w.fields[g] = v.fields[g]
        BY <4>5 DEF Gives, Leaves, Live
      <4>7. w.fields[h].text = w.fields[h].typed /\ w.fields[h].shown = <<>>
        <5>1. Live(w, h) /\ Drawn(w, h) /\ Joined(w, h) = Joined(v, h) \o <<>>
          BY <4>4, <4>5 DEF Gives, Leaves
        <5>2. w.fields[h].text \in Seq(Texts) /\ Joined(v, h) \in Seq(Texts)
          BY <4>4, <5>1, LiveFacts
        <5>3. w.fields[h].text \o <<>> = fields[h].typed \o <<>> /\ fields[h].typed \in Seq(Texts)
          BY <4>4, <4>5, <5>1, <5>2 DEF Joined
        <5> QED BY <2>5, <4>5, <4>6, <5>1, <5>2, <5>3, Joins DEF Drawn
      <4> QED BY <1>2, <2>5, <3>0, <3>1, <4>1, <4>2, <4>5, <4>6, <4>7
    <3>3. CASE ~ Accepting(focus)
      <4>1. w = v /\ v.im.preedit = <<>>
        BY <1>1, <2>2, <2>5, <3>3 DEF commit, Inv, ContextInv
      <4> QED BY <1>2, <2>5, <3>0, <3>1, <3>3, <4>1
    <3> QED BY <3>2, <3>3
  <2>7. u = w
    BY <2>3, <2>6 DEF nimf_im_reset
  <2>8. PICK z : z = update(w, f)
    OBVIOUS
  <2>9. /\ z \in Worlds /\ z.fields = w.fields
        /\ z.im.preedit = w.im.preedit /\ z.im.use_preedit = w.im.use_preedit
        /\ z.im.area = IF f = NoField \/ contexts[App].cursor_area = f THEN w.im.area ELSE f
    BY <2>6, <2>8 DEF update, nimf_im_set_cursor_location, Worlds, IMs
  <2>10. ims' = [ims EXCEPT ![App] = z.im] /\ fields' = z.fields /\ ims'[App] = z.im
    BY <1>2, <2>4, <2>7, <2>8 DEF Settle
  <2>11. FieldsAfter'
    <3>1. /\ z.im.preedit = <<>> /\ z.im.use_preedit
          /\ \A g \in Fields :
               /\ z.fields[g].stage = fields[g].stage /\ z.fields[g].shown = <<>>
               /\ z.fields[g].stage = "live" => z.fields[g].text = z.fields[g].typed
      BY <2>6, <2>9
    <3> QED BY <1>3, <2>9, <2>10, <3>1
  <2>12. /\ contexts' \in [Contexts -> Records]
         /\ contexts'[App].cursor_area = IF f = NoField THEN contexts[App].cursor_area ELSE f
         /\ \A x \in Contexts :
              /\ contexts'[x].reset = contexts[x].reset /\ contexts'[x].hook = contexts[x].hook
              /\ contexts'[x].filters = contexts[x].filters
              /\ contexts'[x].has_focus = contexts[x].has_focus
    BY <1>2, <2>4 DEF Records
  <2>13. OptionsInv' /\ TypeInv' /\ ContextInv'
    BY <1>4, <2>6, <2>9, <2>10, <2>11, <2>12
  <2>14. PositionKnown'
    <3>1. ims[App].area = contexts[App].cursor_area
      BY <1>1, <1>6 DEF Inv, PositionKnown
    <3> QED BY <1>1, <2>6, <2>9, <2>10, <2>12, <3>1 DEF PositionKnown
  <2> QED BY <2>11, <2>13, <2>14 DEF Inv, FieldsAfter
<1> QED BY <1>2, <1>5, <1>6

-----------------------------------------------------------------------------
(* Settings.                                                               *)

(* A context hears of one of its options, and has its filter by them.      *)
LEMMA HeardStep ==
  ASSUME Inv, NEW x \in Contexts, NEW key \in Options, NEW c \in Records, Heard(x, key, c),
         c.has_focus = contexts[x].has_focus, c.client = contexts[x].client,
         c.cursor_area = contexts[x].cursor_area,
         c.reset = IF key = "reset" THEN settings.reset ELSE contexts[x].reset,
         c.hook = IF key = "hook" THEN settings.hook ELSE contexts[x].hook,
         c.filters = 1 <=> Wants(c)
  PROVE  Inv'
<1>1. /\ <<x, key>> \in notices /\ notices' = notices \ {<<x, key>>}
      /\ contexts' = [contexts EXCEPT ![x] = c]
      /\ UNCHANGED <<toolkit, valid, fields, focus, ims, settings>>
  BY DEF Heard
<1>2. contexts \in [Contexts -> Records]
  BY DEF Inv, TypeInv
<1>3. /\ contexts' \in [Contexts -> Records] /\ contexts'[x] = c
      /\ \A y \in Contexts : y # x => contexts'[y] = contexts[y]
  BY <1>1, <1>2
<1>4. FieldsAfter'
  BY <1>1, FieldsStay
<1>5. OptionsInv'
  <2>1. There(x)
    BY <1>1 DEF Inv, OptionsInv
  <2>2. \A y \in Contexts : There(y)' <=> There(y)
    BY <1>1 DEF There, Qt
  <2>3. Told(x)'
    BY <1>1, <1>3, <2>1 DEF Inv, OptionsInv, Told
  <2>4. (contexts'[x].filters = 1) <=> Wants(contexts[x])'
    BY <1>1, <1>3 DEF Wants, Gtk, Qt
  <2>5. ASSUME NEW y \in Contexts, y # x
        PROVE  /\ Told(y)' <=> Told(y)
               /\ Wants(contexts[y])' <=> Wants(contexts[y])
               /\ contexts'[y].filters = contexts[y].filters
               /\ \A k \in Options : <<y, k>> \in notices' <=> <<y, k>> \in notices
    BY <1>1, <1>3, <2>5 DEF Told, Wants, Gtk, Qt
  <2> QED BY <2>1, <2>2, <2>3, <2>4, <2>5 DEF Inv, OptionsInv
<1>6. TypeInv'
  <2>1. \A y \in Contexts : contexts'[y].has_focus = contexts[y].has_focus /\ contexts'[y].filters \in 0 .. 1
    BY <1>3 DEF Records
  <2>2. TypeOK'
    BY <1>1, <2>1 DEF Inv, TypeInv, TypeOK, Gtk
  <2> QED BY <1>1, <1>3, <2>2 DEF Inv, TypeInv
<1>7. ContextInv'
  <2>1. \A y \in Contexts : contexts'[y].client = contexts[y].client
    BY <1>3
  <2>2. focus # NoField => focus \in Contexts
    BY DEF Inv, TypeInv, TypeOK, Contexts
  <2> QED BY <1>1, <1>4, <2>1, <2>2 DEF Inv, ContextInv, FieldsAfter
<1>8. PositionKnown'
  <2>1. \A y \in Contexts : contexts'[y].cursor_area = contexts[y].cursor_area
    BY <1>3
  <2> QED BY <1>1, <2>1 DEF Inv, PositionKnown, Qt, Contexts
<1> QED BY <1>4, <1>5, <1>6, <1>7, <1>8 DEF Inv, FieldsAfter

(* A filter is installed and removed as its options say.                   *)
LEMMA FilterUpdated ==
  ASSUME NEW c \in Records
  PROVE  LET d == nimf_gtk_im_context_update_event_filter(c) IN
         /\ d \in Records /\ d.reset = c.reset /\ d.hook = c.hook /\ d.client = c.client
         /\ d.has_focus = c.has_focus /\ d.cursor_area = c.cursor_area
         /\ d.filters = 1 <=> c.reset \/ c.hook
  BY DEF nimf_gtk_im_context_update_event_filter, Records

(* d is c with another option to reset, and n filters.                     *)
Sets(c, d, on, n) ==
  /\ d \in Records /\ d.hook = c.hook /\ d.client = c.client
  /\ d.has_focus = c.has_focus /\ d.cursor_area = c.cursor_area
  /\ d.reset = on /\ d.filters = n

LEMMA FilterSet ==
  ASSUME NEW c \in Records, NEW n \in 0 .. 1
  PROVE  /\ Sets(c, [c EXCEPT !.reset = TRUE, !.filters = n], TRUE, n)
         /\ Sets(c, [c EXCEPT !.reset = FALSE, !.filters = n], FALSE, n)
<1>1. Sets(c, [c EXCEPT !.reset = TRUE, !.filters = n], TRUE, n)
  <2>1. PICK b \in Records : b = [c EXCEPT !.reset = TRUE]
    BY DEF Records
  <2>2. PICK d \in Records : d = [b EXCEPT !.filters = n]
    BY DEF Records
  <2>3. d = [c EXCEPT !.reset = TRUE, !.filters = n]
    BY <2>1, <2>2 DEF Records
  <2>4. Sets(c, d, TRUE, n)
    BY <2>1, <2>2 DEF Records, Sets
  <2> QED BY <2>3, <2>4
<1>2. Sets(c, [c EXCEPT !.reset = FALSE, !.filters = n], FALSE, n)
  <2>1. PICK b \in Records : b = [c EXCEPT !.reset = FALSE]
    BY DEF Records
  <2>2. PICK d \in Records : d = [b EXCEPT !.filters = n]
    BY DEF Records
  <2>3. d = [c EXCEPT !.reset = FALSE, !.filters = n]
    BY <2>1, <2>2 DEF Records
  <2>4. Sets(c, d, FALSE, n)
    BY <2>1, <2>2 DEF Records, Sets
  <2> QED BY <2>3, <2>4
<1> QED BY <1>1, <1>2

LEMMA HandlerUpdated ==
  ASSUME NEW c \in Records, NEW on \in BOOLEAN, c.filters = 1 <=> c.reset
  PROVE  Sets(c, on_changed_reset_on_mouse_button_press(c, on), on, IF on THEN 1 ELSE 0)
<1>1. PICK d : d = on_changed_reset_on_mouse_button_press(c, on)
  OBVIOUS
<1>2. c.filters \in 0 .. 1 /\ c.reset \in BOOLEAN /\ 0 \in 0 .. 1 /\ 1 \in 0 .. 1
  BY DEF Records
<1>3. CASE on /\ c.filters = 0
  <2>1. on = TRUE
    BY <1>3
  <2>2. d = [c EXCEPT !.reset = TRUE, !.filters = 1]
    BY <1>1, <1>3, <2>1 DEF on_changed_reset_on_mouse_button_press
  <2>3. Sets(c, [c EXCEPT !.reset = TRUE, !.filters = 1], TRUE, 1)
    BY <1>2, FilterSet
  <2> QED BY <1>1, <2>1, <2>2, <2>3
<1>4. CASE ~ on /\ c.filters = 1
  <2>1. on = FALSE
    BY <1>4
  <2>2. d = [c EXCEPT !.reset = FALSE, !.filters = 0]
    <3>1. c.filters > 0 /\ c.filters # 0
      BY <1>4
    <3>2. d = [c EXCEPT !.reset = on, !.filters = 0]
      BY <1>1, <1>4, <3>1, Zenon DEF on_changed_reset_on_mouse_button_press
    <3> QED BY <2>1, <3>2
  <2>3. Sets(c, [c EXCEPT !.reset = FALSE, !.filters = 0], FALSE, 0)
    BY <1>2, FilterSet
  <2> QED BY <1>1, <2>1, <2>2, <2>3
<1>5. CASE (on /\ c.filters = 1) \/ (~ on /\ c.filters = 0)
  <2>1. d = c
    BY <1>1, <1>5 DEF on_changed_reset_on_mouse_button_press
  <2>2. c.reset = on /\ c.filters = IF on THEN 1 ELSE 0
    BY <1>2, <1>5
  <2> QED BY <1>1, <2>1, <2>2 DEF Sets
<1> QED BY <1>2, <1>3, <1>4, <1>5

LEMMA HearingSteps ==
  ASSUME Inv, NEW f \in Contexts,
         \/ on_changed_reset_on_gdk_button_press_event(f) \/ on_changed_hook_gdk_event_key(f)
         \/ on_reset_on_button_press_event_changed(f) \/ on_changed_reset
  PROVE  Inv'
<1>1. /\ f \in Contexts /\ App \in Contexts /\ settings.reset \in BOOLEAN /\ settings.hook \in BOOLEAN
      /\ contexts[f] \in Records /\ contexts[App] \in Records
      /\ "reset" \in Options /\ "hook" \in Options
  BY DEF Inv, TypeInv, Contexts, Options
<1>2. CASE on_changed_reset_on_gdk_button_press_event(f)
  <2>1. PICK b \in Records : b = [contexts[f] EXCEPT !.reset = settings.reset]
    BY <1>1 DEF Records
  <2>2. PICK c : c = nimf_gtk_im_context_update_event_filter(b)
    OBVIOUS
  <2>3. toolkit = "gtk3" /\ Heard(f, "reset", c)
    BY <1>2, <2>1, <2>2 DEF on_changed_reset_on_gdk_button_press_event
  <2>4. /\ c \in Records /\ c.reset = b.reset /\ c.hook = b.hook /\ c.client = b.client
        /\ c.has_focus = b.has_focus /\ c.cursor_area = b.cursor_area
        /\ c.filters = 1 <=> b.reset \/ b.hook
    BY <2>2, FilterUpdated
  <2>5. c.filters = 1 <=> Wants(c)
    BY <2>3, <2>4 DEF Wants, Qt
  <2>6. /\ b.reset = settings.reset /\ b.hook = contexts[f].hook /\ b.client = contexts[f].client
        /\ b.has_focus = contexts[f].has_focus /\ b.cursor_area = contexts[f].cursor_area
    BY <1>1, <2>1 DEF Records
  <2> QED BY <1>1, <2>3, <2>4, <2>5, <2>6, HeardStep
<1>3. CASE on_changed_hook_gdk_event_key(f)
  <2>1. PICK b \in Records : b = [contexts[f] EXCEPT !.hook = settings.hook]
    BY <1>1 DEF Records
  <2>2. PICK c : c = nimf_gtk_im_context_update_event_filter(b)
    OBVIOUS
  <2>3. toolkit = "gtk3" /\ Heard(f, "hook", c)
    BY <1>3, <2>1, <2>2 DEF on_changed_hook_gdk_event_key
  <2>4. /\ c \in Records /\ c.reset = b.reset /\ c.hook = b.hook /\ c.client = b.client
        /\ c.has_focus = b.has_focus /\ c.cursor_area = b.cursor_area
        /\ c.filters = 1 <=> b.reset \/ b.hook
    BY <2>2, FilterUpdated
  <2>5. c.filters = 1 <=> Wants(c)
    BY <2>3, <2>4 DEF Wants, Qt
  <2>6. /\ b.hook = settings.hook /\ b.reset = contexts[f].reset /\ b.client = contexts[f].client
        /\ b.has_focus = contexts[f].has_focus /\ b.cursor_area = contexts[f].cursor_area
    BY <1>1, <2>1 DEF Records
  <2> QED BY <1>1, <2>3, <2>4, <2>5, <2>6, HeardStep
<1>4. CASE on_reset_on_button_press_event_changed(f)
  <2>1. PICK c \in Records : c = [contexts[f] EXCEPT !.reset = settings.reset]
    BY <1>1 DEF Records
  <2>2. toolkit = "gtk4" /\ Heard(f, "reset", c)
    BY <1>4, <2>1 DEF on_reset_on_button_press_event_changed
  <2>3. /\ c.reset = settings.reset /\ c.hook = contexts[f].hook /\ c.client = contexts[f].client
        /\ c.has_focus = contexts[f].has_focus /\ c.cursor_area = contexts[f].cursor_area
        /\ c.filters = contexts[f].filters
    BY <1>1, <2>1 DEF Records
  <2>4. <<f, "reset">> \in notices
    BY <2>2 DEF Heard
  <2>5. contexts[f].filters = 1 <=> Wants(contexts[f])
    BY <1>1, <2>4 DEF Inv, OptionsInv
  <2>6. c.filters = 1 <=> Wants(c)
    BY <2>2, <2>3, <2>5 DEF Wants, Qt
  <2> QED BY <1>1, <2>2, <2>3, <2>6, HeardStep
<1>5. CASE on_changed_reset
  <2>1. PICK c : c = on_changed_reset_on_mouse_button_press(contexts[App], settings.reset)
    OBVIOUS
  <2>2. toolkit = "qt" /\ Heard(App, "reset", c)
    BY <1>5, <2>1 DEF on_changed_reset, Qt
  <2>3. <<App, "reset">> \in notices
    BY <2>2 DEF Heard
  <2>4. contexts[App].filters = 1 <=> contexts[App].reset
    BY <1>1, <2>2, <2>3 DEF Inv, OptionsInv, Wants, Qt
  <2>5. Sets(contexts[App], c, settings.reset, IF settings.reset THEN 1 ELSE 0)
    BY <1>1, <2>1, <2>4, HandlerUpdated
  <2>6. c.filters = 1 <=> Wants(c)
    BY <1>1, <2>2, <2>5 DEF Sets, Wants, Qt
  <2> QED BY <1>1, <2>2, <2>5, <2>6, HeardStep DEF Sets
<1> QED BY <1>2, <1>3, <1>4, <1>5

(* An option changes when every context knows the one before, and every    *)
(* one that is there will be told.                                         *)
LEMMA ChangeStep ==
  ASSUME Inv, NEW key \in Options, Change(key)
  PROVE  Inv'
<1>1. /\ notices = {} /\ key \in Listens
      /\ settings' = [settings EXCEPT ![key] = ~@]
      /\ notices' = IF Qt THEN {<<x, key>> : x \in IF valid THEN {App} ELSE {}}
                    ELSE {<<f, key>> : f \in {g \in Fields : fields[g].stage = "live"}}
      /\ UNCHANGED <<toolkit, valid, fields, focus, ims, contexts>>
  BY DEF Change
<1>2. FieldsAfter'
  BY <1>1, FieldsStay
<1>3. /\ settings' \in [Options -> BOOLEAN]
      /\ key # "reset" => settings'.reset = settings.reset
      /\ key # "hook" => settings'.hook = settings.hook
  BY <1>1 DEF Inv, TypeInv, Options
<1>4. \A x \in Contexts : \A k \in Options : <<x, k>> \in notices' <=> There(x) /\ k = key
  BY <1>1 DEF There, Contexts
<1>5. notices' \subseteq Contexts \X Options
  BY <1>1 DEF Contexts
<1>6. OptionsInv'
  <2>1. \A x \in Contexts : (There(x)' <=> There(x)) /\ (Wants(contexts[x])' <=> Wants(contexts[x]))
    BY <1>1 DEF There, Wants, Qt
  <2>2. ASSUME NEW x \in Contexts, There(x) PROVE Told(x)'
    <3>1. "reset" \in Options /\ "hook" \in Options
      BY DEF Options
    <3>2. contexts[x].reset = settings.reset /\ (toolkit = "gtk3" => contexts[x].hook = settings.hook)
      BY <1>1, <2>2 DEF Inv, OptionsInv, Told
    <3> QED BY <1>1, <1>3, <1>4, <2>2, <3>1, <3>2 DEF Told
  <2> QED BY <1>1, <1>4, <2>1, <2>2 DEF Inv, OptionsInv
<1>7. TypeInv'
  BY <1>1, <1>3, <1>5 DEF Inv, TypeInv, TypeOK, Gtk
<1>8. ContextInv'
  BY <1>1, <1>2 DEF Inv, ContextInv, FieldsAfter
<1>9. PositionKnown'
  BY <1>1 DEF Inv, PositionKnown, Qt
<1> QED BY <1>2, <1>6, <1>7, <1>8, <1>9 DEF Inv, FieldsAfter

(* A field chooses when nothing has been typed into it: nothing is shown.  *)
LEMMA UsePreeditStep ==
  ASSUME Inv, NEW f \in Fields, nimf_gtk_im_context_set_use_preedit(f)
  PROVE  Inv'
<1>1. /\ Gtk /\ fields[f].stage = "live" /\ fields[f].typed = <<>>
      /\ ims' = [ims EXCEPT ![f].use_preedit = ~@]
      /\ UNCHANGED <<toolkit, valid, fields, focus, contexts, settings, notices>>
  BY DEF nimf_gtk_im_context_set_use_preedit
<1>2. ~ Qt /\ ContextOf(f) = f /\ f \in Contexts
  BY <1>1 DEF Gtk, Qt, ContextOf, Contexts
<1>3. PICK w : w = World(f)
  OBVIOUS
<1>4. /\ Live(w, f) /\ Joined(w, f) = <<>> /\ Drawn(w, f)
      /\ w.im = ims[f] /\ w.fields = fields /\ ims \in [Contexts -> IMs]
  BY <1>1, <1>2, <1>3, FieldFacts DEF World, Inv, TypeInv
<1>5. PICK u \in Worlds : u = [w EXCEPT !.im.use_preedit = ~@]
  BY <1>4 DEF Live, Worlds, IMs
<1>6. u.fields = w.fields /\ u.im.preedit = w.im.preedit /\ u.im = [ims[f] EXCEPT !.use_preedit = ~@]
  BY <1>4, <1>5 DEF Live, Worlds, IMs
<1>7. w.im.preedit = <<>>
  <2>1. PICK a, b \in Seq(Texts) : a = w.fields[f].text /\ b = w.im.preedit
    BY <1>4, LiveFacts
  <2>2. a \o b = <<>>
    BY <1>4, <2>1 DEF Joined
  <2>3. b = <<>>
    BY <2>2
  <2> QED BY <2>1, <2>3
<1>8. Settle(f, u)
  BY <1>1, <1>2, <1>4, <1>6 DEF Settle
<1>9. Becomes(u, f)
  <2>1. Drawn(u, f)
    <3>1. w.fields[f].shown = <<>>
      BY <1>4, <1>7 DEF Drawn
    <3> QED BY <1>6, <1>7, <3>1, DrawnFacts
  <2> QED BY <1>1, <1>2, <1>4, <1>6, <1>8, <2>1 DEF Becomes, Live, Joined
<1> QED BY <1>1, <1>2, <1>9, FieldStep

-----------------------------------------------------------------------------
(* Fields come and go.                                                     *)
LEMMA NewFacts ==
  /\ NewIM \in IMs /\ NewIM.preedit = <<>> /\ NewIM.use_preedit
  /\ NoContext \in Records /\ ~ NoContext.has_focus /\ ~ NoContext.reset /\ ~ NoContext.hook
  /\ NoContext.filters = 0 /\ ~ NoContext.client
  /\ NoWidget \in Widgets /\ NoWidget.stage = "none"
<1>1. <<>> \in Seq(Texts)
  BY Joins
<1> QED BY <1>1 DEF NewIM, IMs, NoContext, Records, NoWidget, Widgets

(* Nothing is in a field that is made, or that goes.                       *)
Empty(d) == d \in Widgets /\ d.text = <<>> /\ d.typed = <<>> /\ d.shown = <<>>
LEMMA EmptyFacts ==
  /\ Empty(NoWidget) /\ Empty([NoWidget EXCEPT !.stage = "dying"])
  /\ \A accepts \in BOOLEAN : Empty([NoWidget EXCEPT !.stage = "live", !.accepts = accepts])
<1>1. <<>> \in Seq(Texts)
  BY Joins
<1>2. Empty(NoWidget)
  BY <1>1 DEF Empty, NoWidget, Widgets
<1>3. PICK d : d = [NoWidget EXCEPT !.stage = "dying"]
  OBVIOUS
<1>4. Empty(d)
  BY <1>1, <1>3 DEF Empty, NoWidget, Widgets
<1>5. ASSUME NEW accepts \in BOOLEAN
      PROVE  Empty([NoWidget EXCEPT !.stage = "live", !.accepts = accepts])
  <2>1. PICK e : e = [NoWidget EXCEPT !.stage = "live", !.accepts = accepts]
    OBVIOUS
  <2>2. e = [stage |-> "live", accepts |-> accepts, text |-> <<>>, shown |-> <<>>,
             marks |-> {}, typed |-> <<>>]
    BY <2>1, Zenon DEF NoWidget
  <2>3. Empty(e)
    BY <1>1, <2>2 DEF Empty, Widgets
  <2> QED BY <2>1, <2>3
<1> QED BY <1>2, <1>3, <1>4, <1>5

(* A field f without the focus becomes d, its context c and its NimfIM im. *)
LEMMA OtherStep ==
  ASSUME Inv, NEW f \in Fields, f # focus, NEW d, NEW c \in Records, NEW im \in IMs, Empty(d),
         UNCHANGED <<toolkit, valid, focus, settings>>,
         fields' = [fields EXCEPT ![f] = d],
         contexts' = [contexts EXCEPT ![f] = c],
         ims' = [ims EXCEPT ![f] = im],
         ~ c.has_focus,
         Gtk => d.stage # "live" \/ im.preedit = <<>>,
         Gtk => d.stage # "none" \/ im = NewIM,
         notices' \subseteq notices,
         \A n \in notices : n[1] # f => n \in notices',
         IF Gtk /\ d.stage = "live" THEN Told(f)' /\ (c.filters = 1 <=> Wants(c))
         ELSE c.filters = 0 /\ \A key \in Options : <<f, key>> \notin notices'
  PROVE  Inv'
<1>1. /\ fields \in [Fields -> Widgets] /\ ims \in [Contexts -> IMs] /\ contexts \in [Contexts -> Records]
      /\ toolkit \in {"gtk3", "gtk4", "qt"} /\ f \in Contexts /\ App \in Contexts /\ App # f
      /\ NoField # f /\ TypeOK
  BY NoFieldFact DEF Inv, TypeInv, Contexts
<1>2. /\ fields' \in [Fields -> Widgets] /\ ims' \in [Contexts -> IMs] /\ contexts' \in [Contexts -> Records]
      /\ fields'[f] = d /\ ims'[f] = im /\ contexts'[f] = c
      /\ \A g \in Fields : g # f => fields'[g] = fields[g]
      /\ \A x \in Contexts : x # f => ims'[x] = ims[x] /\ contexts'[x] = contexts[x]
  BY <1>1 DEF Empty
<1>3. (Gtk' <=> Gtk) /\ (Qt' <=> Qt) /\ (Gtk <=> ~ Qt)
  BY <1>1 DEF Gtk, Qt
<1>4. ims'[App] = ims[App] /\ contexts'[App] = contexts[App]
  BY <1>1, <1>2
<1>5. /\ \A g \in Fields : g # f => Composed(g)' = Composed(g)
      /\ Gtk => Composed(f)' = im.preedit
      /\ Qt => Composed(f)' = <<>>
  BY <1>1, <1>2, <1>3, <1>4 DEF Composed, Contexts
<1>6. d.stage = "live" => Composed(f)' = <<>>
  BY <1>3, <1>5
<1>7. KeysReachField'
  <2>1. <<>> \o <<>> = <<>>
    BY Joins
  <2>2. \A g \in Fields : fields'[g].stage = "live" => fields'[g].text \o Composed(g)' = fields'[g].typed
    BY <1>2, <1>5, <1>6, <2>1 DEF Inv, KeysReachField, Empty
  <2> QED BY <2>2 DEF KeysReachField
<1>8. PreeditShown'
  <2>1. ASSUME NEW g \in Fields, fields'[g].stage = "live"
        PROVE  fields'[g].shown = IF ims'[ContextOf(g)'].use_preedit THEN Composed(g)' ELSE <<>>
    <3>1. CASE g = f
      BY <1>2, <1>6, <2>1, <3>1 DEF Empty
    <3>2. CASE g # f
      <4>1. ContextOf(g)' = ContextOf(g) /\ ims'[ContextOf(g)] = ims[ContextOf(g)]
        BY <1>2, <1>3, <1>4, <3>2 DEF ContextOf, Contexts
      <4>2. fields[g].stage = "live" /\ fields'[g] = fields[g]
        BY <1>2, <2>1, <3>2
      <4> QED BY <1>5, <3>2, <4>1, <4>2 DEF Inv, PreeditShown
    <3> QED BY <3>1, <3>2
  <2> QED BY <2>1 DEF PreeditShown
<1>14. PaintInv'
  <2>1. Paints(fields'[f], ims'[ContextOf(f)'], toolkit') /\ fields'[f].shown = <<>>
    BY <1>2 DEF Empty, Paints
  <2>2. ASSUME NEW g \in Fields, g # f
        PROVE  fields'[g] = fields[g] /\ ContextOf(g)' = ContextOf(g) /\ ims'[ContextOf(g)] = ims[ContextOf(g)]
    BY <1>2, <1>3, <1>4, <2>2 DEF ContextOf, Contexts
  <2> QED BY <2>1, <2>2 DEF Inv, PaintInv
<1>9. OptionsInv'
  <2>1. /\ \A x \in Contexts : x # f => (There(x)' <=> There(x))
        /\ There(f)' <=> Gtk /\ d.stage = "live"
    BY <1>1, <1>2, <1>3 DEF There
  <2>2. \A x \in Contexts, key \in Options : x # f => (<<x, key>> \in notices' <=> <<x, key>> \in notices)
    OBVIOUS
  <2>3. "reset" \in Options /\ "hook" \in Options
    BY DEF Options
  <2>4. \A x \in Contexts : x # f => (Told(x)' <=> Told(x)) /\ (Wants(contexts[x])' <=> Wants(contexts[x]))
    BY <1>2, <1>3, <2>2, <2>3 DEF Told, Wants
  <2>5. Wants(contexts[f])' <=> Wants(c)
    BY <1>2, <1>3 DEF Wants
  <2>6. ASSUME NEW x \in Contexts
        PROVE  IF There(x)' THEN Told(x)' /\ (contexts'[x].filters = 1 <=> Wants(contexts[x])')
               ELSE contexts'[x].filters = 0 /\ \A key \in Options : <<x, key>> \notin notices'
    <3>1. CASE x = f
      BY <1>2, <2>1, <2>5, <3>1
    <3>2. CASE x # f
      BY <1>2, <2>1, <2>2, <2>4, <3>2 DEF Inv, OptionsInv
    <3> QED BY <3>1, <3>2
  <2> QED BY <2>6 DEF OptionsInv
<1>10. TypeOK'
  <2>1. focus # NoField => focus # f /\ focus \in Fields
    BY <1>1 DEF TypeOK
  <2>2. \A x \in Contexts : (contexts'[x].has_focus <=> Gtk /\ x = focus) /\ contexts'[x].filters \in 0 .. 1
    BY <1>1, <1>2 DEF TypeOK, Records
  <2> QED BY <1>1, <1>2, <1>3, <2>1, <2>2 DEF TypeOK
<1>11. TypeInv'
  BY <1>1, <1>2, <1>10 DEF Inv, TypeInv
<1>12. ContextInv'
  <2>1. Accepting(focus)' <=> Accepting(focus)
    BY <1>1, <1>2 DEF Accepting, TypeOK
  <2>2. toolkit = "gtk4" /\ focus # NoField => contexts'[focus].client
    BY <1>1, <1>2 DEF Inv, ContextInv, TypeOK, Contexts
  <2>3. Gtk => \A g \in Fields : fields'[g].stage = "none" => ims'[g] = NewIM
    BY <1>2 DEF Inv, ContextInv, Contexts
  <2> QED BY <1>3, <1>4, <2>1, <2>2, <2>3 DEF Inv, ContextInv
<1>13. PositionKnown'
  BY <1>3, <1>4 DEF Inv, PositionKnown
<1> QED BY <1>7, <1>8, <1>14, <1>9, <1>11, <1>12, <1>13 DEF Inv

(* A context is made with the options that the settings have.              *)
LEMMA InitFacts ==
  ASSUME NEW s \in [Options -> BOOLEAN]
  PROVE  /\ nimf_gtk_im_context_init(s) \in Records /\ ~ nimf_gtk_im_context_init(s).has_focus
         /\ nimf_gtk_im_context_init(s).reset = s.reset /\ nimf_gtk_im_context_init(s).hook = s.hook
         /\ nimf_gtk_im_context_init(s).filters = 1 <=> s.reset \/ s.hook
         /\ nimf_gtk4_im_context_init(s) \in Records /\ ~ nimf_gtk4_im_context_init(s).has_focus
         /\ nimf_gtk4_im_context_init(s).reset = s.reset /\ nimf_gtk4_im_context_init(s).filters = 0
<1>1. s.reset \in BOOLEAN /\ s.hook \in BOOLEAN
  BY DEF Options
<1>2. PICK b : b = [NoContext EXCEPT !.reset = s.reset]
  OBVIOUS
<1>3. b \in Records /\ b.reset = s.reset /\ ~ b.hook /\ b.filters = 0 /\ ~ b.has_focus
  BY <1>1, <1>2, NewFacts DEF Records
<1>4. PICK c : c = [b EXCEPT !.hook = s.hook]
  OBVIOUS
<1>5. c \in Records /\ c.reset = s.reset /\ c.hook = s.hook /\ ~ c.has_focus
  BY <1>1, <1>3, <1>4 DEF Records
<1>6. c = [NoContext EXCEPT !.reset = s.reset, !.hook = s.hook]
  BY <1>2, <1>4, NewFacts DEF Records
<1>7. PICK d : d = nimf_gtk_im_context_update_event_filter(c)
  OBVIOUS
<1>8. /\ d \in Records /\ d.reset = c.reset /\ d.hook = c.hook /\ d.has_focus = c.has_focus
      /\ d.filters = 1 <=> c.reset \/ c.hook
  BY <1>5, <1>7, FilterUpdated
<1>9. nimf_gtk_im_context_init(s) = d
  BY <1>6, <1>7 DEF nimf_gtk_im_context_init
<1>10. nimf_gtk4_im_context_init(s) = b
  BY <1>2 DEF nimf_gtk4_im_context_init
<1> QED BY <1>3, <1>5, <1>8, <1>9, <1>10

LEMMA CreateStep ==
  ASSUME Inv, NEW f \in Fields, Create(f)
  PROVE  Inv'
<1>1. /\ fields \in [Fields -> Widgets] /\ ims \in [Contexts -> IMs] /\ contexts \in [Contexts -> Records]
      /\ settings \in [Options -> BOOLEAN]
      /\ toolkit \in {"gtk3", "gtk4", "qt"} /\ f \in Contexts /\ f # App /\ f # NoField /\ TypeOK
  BY NoFieldFact DEF Inv, TypeInv, Contexts
<1>2. /\ fields[f].stage = "none" /\ f # focus
      /\ UNCHANGED <<toolkit, valid, focus, ims, settings, notices>>
  BY <1>1 DEF Create, TypeOK
<1>3. PICK accepts \in BOOLEAN :
        fields' = [fields EXCEPT ![f] = [NoWidget EXCEPT !.stage = "live", !.accepts = accepts]]
  BY DEF Create
<1>4. PICK d : d = [NoWidget EXCEPT !.stage = "live", !.accepts = accepts]
  OBVIOUS
<1>5. Empty(d) /\ d.stage = "live"
  BY <1>4, EmptyFacts DEF NoWidget
<1>6. ims' = [ims EXCEPT ![f] = ims[f]] /\ ims[f] \in IMs
  BY <1>1, <1>2
<1>7. ~ There(f)
  BY <1>1, <1>2 DEF There
<1>8. contexts[f].filters = 0 /\ (\A key \in Options : <<f, key>> \notin notices) /\ ~ contexts[f].has_focus
  BY <1>1, <1>2, <1>7 DEF Inv, OptionsInv, TypeOK
<1>9. Gtk => ims[f] = NewIM /\ ims[f].preedit = <<>>
  BY <1>2, NewFacts DEF Inv, ContextInv
<1>10. fields' = [fields EXCEPT ![f] = d]
  BY <1>3, <1>4
<1>11. notices' \subseteq notices /\ \A n \in notices : n[1] # f => n \in notices'
  BY <1>2
<1>12. CASE toolkit = "gtk3"
  <2>1. PICK c : c = nimf_gtk_im_context_init(settings)
    OBVIOUS
  <2>2. contexts' = [contexts EXCEPT ![f] = c]
    BY <1>12, <2>1 DEF Create
  <2>3. /\ c \in Records /\ ~ c.has_focus /\ c.reset = settings.reset /\ c.hook = settings.hook
        /\ c.filters = 1 <=> c.reset \/ c.hook
    BY <1>1, <2>1, InitFacts
  <2>4. Told(f)'
    BY <1>1, <1>2, <2>2, <2>3 DEF Told
  <2>5. c.filters = 1 <=> Wants(c)
    BY <1>12, <2>3 DEF Wants, Qt
  <2>6. Gtk
    BY <1>12 DEF Gtk
  <2> QED BY <1>2, <1>5, <1>6, <1>9, <1>10, <1>11, <2>2, <2>3, <2>4, <2>5, <2>6, OtherStep
<1>13. CASE toolkit = "gtk4"
  <2>1. PICK c : c = nimf_gtk4_im_context_init(settings)
    OBVIOUS
  <2>2. contexts' = [contexts EXCEPT ![f] = c]
    BY <1>13, <2>1 DEF Create
  <2>3. c \in Records /\ ~ c.has_focus /\ c.reset = settings.reset /\ c.filters = 0
    BY <1>1, <2>1, InitFacts
  <2>4. Told(f)'
    BY <1>1, <1>2, <1>13, <2>2, <2>3 DEF Told
  <2>5. c.filters = 1 <=> Wants(c)
    BY <1>13, <2>3 DEF Wants, Qt
  <2>6. Gtk
    BY <1>13 DEF Gtk
  <2> QED BY <1>2, <1>5, <1>6, <1>9, <1>10, <1>11, <2>2, <2>3, <2>4, <2>5, <2>6, OtherStep
<1>14. CASE toolkit = "qt"
  <2>1. contexts' = [contexts EXCEPT ![f] = contexts[f]] /\ contexts[f] \in Records
    BY <1>1, <1>14 DEF Create
  <2>2. ~ Gtk
    BY <1>14 DEF Gtk
  <2>3. contexts[f].filters = 0 /\ \A key \in Options : <<f, key>> \notin notices'
    BY <1>2, <1>8
  <2> QED BY <1>2, <1>5, <1>6, <1>8, <1>10, <1>11, <2>1, <2>2, <2>3, OtherStep
<1> QED BY <1>1, <1>12, <1>13, <1>14

(* A context that goes has no filter and hears of no more changes.         *)
LEMMA FinalizeStep ==
  ASSUME Inv, NEW f \in Fields, nimf_gtk_im_context_finalize(f) \/ nimf_gtk4_im_context_finalize(f)
  PROVE  Inv'
<1>1. /\ fields \in [Fields -> Widgets] /\ ims \in [Contexts -> IMs] /\ contexts \in [Contexts -> Records]
      /\ f \in Contexts /\ TypeOK
  BY DEF Inv, TypeInv, Contexts
<1>2. /\ fields[f].stage = "live" /\ f # focus /\ Gtk /\ ~ Qt
      /\ UNCHANGED <<toolkit, valid, focus, ims, settings>>
      /\ fields' = [fields EXCEPT ![f] = [NoWidget EXCEPT !.stage = "dying"]]
      /\ notices' = {n \in notices : n[1] # f}
  BY DEF nimf_gtk_im_context_finalize, nimf_gtk4_im_context_finalize, Finalize, Gtk, Qt
<1>3. PICK d : d = [NoWidget EXCEPT !.stage = "dying"]
  OBVIOUS
<1>4. Empty(d) /\ d.stage = "dying"
  BY <1>3, EmptyFacts DEF NoWidget
<1>5. ims' = [ims EXCEPT ![f] = ims[f]] /\ ims[f] \in IMs
  BY <1>1, <1>2
<1>6. contexts[f] \in Records /\ ~ contexts[f].has_focus
  BY <1>1, <1>2 DEF TypeOK
<1>7. PICK c \in Records : contexts' = [contexts EXCEPT ![f] = c] /\ c.filters = 0 /\ ~ c.has_focus
  <2>1. CASE nimf_gtk_im_context_finalize(f)
    <3>1. PICK n \in 0 .. 1 : n = 0
      OBVIOUS
    <3>2. PICK c \in Records : c = [contexts[f] EXCEPT !.filters = n]
      BY <1>6 DEF Records
    <3>3. contexts' = [contexts EXCEPT ![f] = c]
      BY <2>1, <3>1, <3>2 DEF nimf_gtk_im_context_finalize, Finalize
    <3>4. c.filters = 0 /\ ~ c.has_focus
      BY <1>6, <3>1, <3>2 DEF Records
    <3> QED BY <3>3, <3>4
  <2>2. CASE nimf_gtk4_im_context_finalize(f)
    <3>1. contexts' = [contexts EXCEPT ![f] = contexts[f]] /\ toolkit = "gtk4"
      BY <2>2 DEF nimf_gtk4_im_context_finalize, Finalize
    <3>2. contexts[f].filters = 0
      <4>1. There(f) /\ ~ Wants(contexts[f]) /\ contexts[f].filters \in 0 .. 1
        BY <1>1, <1>2, <3>1 DEF There, Wants, TypeOK
      <4> QED BY <1>1, <4>1 DEF Inv, OptionsInv
    <3> QED BY <1>6, <3>1, <3>2
  <2> QED BY <2>1, <2>2
<1>8. /\ notices' \subseteq notices /\ \A n \in notices : n[1] # f => n \in notices'
      /\ \A key \in Options : <<f, key>> \notin notices'
  BY <1>2
<1> QED BY <1>2, <1>3, <1>4, <1>5, <1>7, <1>8, OtherStep

LEMMA ClearedStep ==
  ASSUME Inv, NEW f \in Fields, Cleared(f)
  PROVE  Inv'
<1>1. /\ fields \in [Fields -> Widgets] /\ ims \in [Contexts -> IMs] /\ contexts \in [Contexts -> Records]
      /\ toolkit \in {"gtk3", "gtk4", "qt"} /\ f \in Contexts /\ f # App /\ TypeOK
  BY NoFieldFact DEF Inv, TypeInv, Contexts
<1>2. /\ f # focus /\ (Gtk => fields[f].stage = "dying")
      /\ fields' = [fields EXCEPT ![f] = NoWidget]
      /\ UNCHANGED <<toolkit, valid, focus, settings, notices>>
  BY DEF Cleared
<1>3. ~ There(f)
  BY <1>1, <1>2 DEF There, Gtk, Qt
<1>4. contexts[f].filters = 0 /\ (\A key \in Options : <<f, key>> \notin notices) /\ ~ contexts[f].has_focus
  BY <1>1, <1>2, <1>3 DEF Inv, OptionsInv, TypeOK
<1>5. /\ Empty(NoWidget) /\ NoWidget.stage = "none"
      /\ notices' \subseteq notices /\ \A n \in notices : n[1] # f => n \in notices'
      /\ \A key \in Options : <<f, key>> \notin notices'
  BY <1>2, <1>4, NewFacts, EmptyFacts
<1>6. CASE Gtk
  <2>1. ims' = [ims EXCEPT ![f] = NewIM] /\ contexts' = [contexts EXCEPT ![f] = NoContext]
    BY <1>6 DEF Cleared
  <2> QED BY <1>2, <1>4, <1>5, <1>6, <2>1, NewFacts, OtherStep
<1>7. CASE ~ Gtk
  <2>1. /\ ims' = [ims EXCEPT ![f] = ims[f]] /\ contexts' = [contexts EXCEPT ![f] = contexts[f]]
        /\ ims[f] \in IMs /\ contexts[f] \in Records
    BY <1>1, <1>7 DEF Cleared
  <2> QED BY <1>2, <1>4, <1>5, <1>7, <2>1, OtherStep
<1> QED BY <1>6, <1>7

(* A window or a controller comes and goes before a field is typed into.   *)
LEMMA ClientStep ==
  ASSUME Inv, NEW f \in Fields,
         nimf_gtk_im_context_set_client_window(f) \/ nimf_gtk4_im_context_set_client_widget(f)
  PROVE  Inv'
<1>1. PICK there \in BOOLEAN :
        /\ Gtk /\ focus # f /\ contexts' = [contexts EXCEPT ![f].client = there]
        /\ UNCHANGED <<toolkit, valid, fields, focus, ims, settings, notices>>
  <2>1. CASE nimf_gtk_im_context_set_client_window(f)
    BY <2>1 DEF nimf_gtk_im_context_set_client_window, Client, Gtk
  <2>2. CASE nimf_gtk4_im_context_set_client_widget(f)
    BY <2>2 DEF nimf_gtk4_im_context_set_client_widget, Client, Gtk
  <2> QED BY <2>1, <2>2
<1>2. ~ Qt /\ Gtk' /\ ~ Qt'
  BY <1>1 DEF Gtk, Qt
<1>3. f \in Contexts /\ contexts \in [Contexts -> Records] /\ TypeOK
  BY DEF Contexts, Inv, TypeInv
<1>4. /\ contexts' \in [Contexts -> Records]
      /\ \A x \in Contexts :
           /\ contexts'[x].reset = contexts[x].reset /\ contexts'[x].hook = contexts[x].hook
           /\ contexts'[x].filters = contexts[x].filters
           /\ contexts'[x].has_focus = contexts[x].has_focus
           /\ x # f => contexts'[x].client = contexts[x].client
  <2>1. PICK c \in Records :
          /\ c = [contexts[f] EXCEPT !.client = there]
          /\ c.reset = contexts[f].reset /\ c.hook = contexts[f].hook
          /\ c.filters = contexts[f].filters /\ c.has_focus = contexts[f].has_focus
    <3>1. contexts[f] \in Records
      BY <1>3
    <3>2. CASE there = TRUE
      <4>1. PICK c \in Records : c = [contexts[f] EXCEPT !.client = TRUE]
        BY <3>1 DEF Records
      <4> QED BY <3>1, <3>2, <4>1 DEF Records
    <3>3. CASE there = FALSE
      <4>1. PICK c \in Records : c = [contexts[f] EXCEPT !.client = FALSE]
        BY <3>1 DEF Records
      <4> QED BY <3>1, <3>3, <4>1 DEF Records
    <3> QED BY <3>2, <3>3
  <2>2. contexts' = [contexts EXCEPT ![f] = c]
    BY <1>1, <2>1
  <2> QED BY <1>3, <2>1, <2>2
<1>5. FieldsAfter'
  BY <1>1, <1>2, FieldsStay
<1>6. OptionsInv'
  BY <1>1, <1>4, OptionsStay
<1>7. TypeInv'
  <2>1. TypeOK'
    BY <1>1, <1>2, <1>3, <1>4 DEF TypeOK
  <2> QED BY <1>1, <1>4, <2>1 DEF Inv, TypeInv
<1>8. ContextInv'
  <2>1. toolkit = "gtk4" /\ focus # NoField => contexts'[focus].client
    BY <1>1, <1>3, <1>4 DEF Inv, ContextInv, TypeOK, Contexts
  <2> QED BY <1>1, <1>2, <1>5, <2>1 DEF ContextInv, FieldsAfter
<1>9. PositionKnown'
  BY <1>2 DEF PositionKnown
<1> QED BY <1>5, <1>6, <1>7, <1>8, <1>9 DEF Inv, FieldsAfter

(* A Qt application ends: there is no context any more.                    *)
LEMMA DestroyedStep ==
  ASSUME Inv, Destroyed
  PROVE  Inv'
<1>1. /\ Qt /\ ~ Gtk /\ focus = NoField /\ valid' = FALSE
      /\ ims' = [ims EXCEPT ![App] = NewIM]
      /\ contexts' = [contexts EXCEPT ![App] = NoContext]
      /\ notices' = {} /\ UNCHANGED <<toolkit, fields, focus, settings>>
  BY DEF Destroyed, Qt, Gtk
<1>2. Qt' /\ ~ Gtk'
  BY <1>1 DEF Gtk, Qt
<1>3. /\ App \in Contexts /\ contexts \in [Contexts -> Records] /\ ims \in [Contexts -> IMs] /\ TypeOK
  BY DEF Contexts, Inv, TypeInv
<1>4. /\ contexts' \in [Contexts -> Records] /\ contexts'[App] = NoContext
      /\ ims' \in [Contexts -> IMs] /\ ims'[App] = NewIM
      /\ \A x \in Contexts : x # App => contexts'[x] = contexts[x]
  BY <1>1, <1>3, NewFacts
<1>5. \A f \in Fields : Composed(f) = <<>> /\ Composed(f)' = <<>>
  BY <1>1, <1>2, NoFieldFact DEF Composed
<1>6. KeysReachField' /\ PreeditShown' /\ PaintInv'
  <2>1. \A f \in Fields : fields'[f].shown = <<>>
    BY <1>1, <1>5 DEF Inv, PreeditShown, PaintInv
  <2>2. PaintInv'
    BY <2>1 DEF PaintInv, Paints
  <2> QED BY <1>1, <1>5, <2>2 DEF Inv, KeysReachField, PreeditShown
<1>7. OptionsInv'
  <2>1. \A x \in Contexts : ~ There(x)'
    BY <1>1, <1>2 DEF There
  <2>2. \A x \in Contexts : x # App => ~ There(x)
    BY <1>1 DEF There
  <2>3. \A x \in Contexts : contexts'[x].filters = 0
    BY <1>4, <2>2, NewFacts DEF Inv, OptionsInv
  <2> QED BY <1>1, <2>1, <2>3 DEF OptionsInv
<1>8. TypeInv'
  <2>1. \A x \in Contexts : ~ contexts'[x].has_focus /\ contexts'[x].filters \in 0 .. 1
    BY <1>1, <1>3, <1>4, NewFacts DEF TypeOK
  <2>2. TypeOK'
    BY <1>1, <1>2, <1>3, <2>1 DEF TypeOK
  <2> QED BY <1>1, <1>4, <2>2 DEF Inv, TypeInv
<1>9. ContextInv'
  BY <1>1, <1>2, <1>4, NewFacts DEF ContextInv
<1>10. PositionKnown'
  BY <1>1 DEF PositionKnown
<1> QED BY <1>6, <1>7, <1>8, <1>9, <1>10 DEF Inv

-----------------------------------------------------------------------------
LEMMA InitInv == Init => Inv
<1> SUFFICES ASSUME Init PROVE Inv
  OBVIOUS
<1>1. /\ toolkit \in {"gtk3", "gtk4", "qt"} /\ valid \in BOOLEAN /\ focus = NoField /\ notices = {}
      /\ fields = [f \in Fields |-> NoWidget] /\ ims = [x \in Contexts |-> NewIM]
      /\ settings \in [Options -> BOOLEAN]
      /\ contexts = [x \in Contexts |-> IF Qt /\ x = App THEN NimfInputContext(settings) ELSE NoContext]
  BY ToolkitsAssumption DEF Init, NimfInputContextPlugin
<1>2. App \in Contexts /\ Fields \subseteq Contexts /\ settings.reset \in BOOLEAN
  BY <1>1 DEF Contexts, Options
<1>3. PICK c : c = NimfInputContext(settings)
  OBVIOUS
<1>4. /\ c \in Records /\ ~ c.has_focus /\ c.cursor_area = NoField
      /\ valid => c.reset = settings.reset
      /\ c.filters = 1 <=> valid /\ c.reset
      /\ ~ valid => c.filters = 0
  <2>1. CASE valid
    <3>1. Sets(NoContext, c, settings.reset, IF settings.reset THEN 1 ELSE 0)
      BY <1>2, <1>3, <2>1, NewFacts, HandlerUpdated DEF NimfInputContext
    <3>2. NoContext.cursor_area = NoField
      BY DEF NoContext
    <3>3. c.filters = 1 <=> settings.reset
      BY <1>2, <3>1 DEF Sets
    <3>4. c \in Records /\ c.reset = settings.reset /\ c.cursor_area = NoField
      BY <3>1, <3>2 DEF Sets
    <3>5. ~ c.has_focus
      BY <3>1, NewFacts DEF Sets
    <3>6. c.filters = 1 <=> c.reset
      BY <3>3, <3>4
    <3> QED BY <2>1, <3>4, <3>5, <3>6
  <2>2. CASE ~ valid
    <3>1. c = NoContext
      BY <1>3, <2>2 DEF NimfInputContext
    <3>2. NoContext.cursor_area = NoField
      BY DEF NoContext
    <3> QED BY <2>2, <3>1, <3>2, NewFacts
  <2> QED BY <2>1, <2>2
<1>5. /\ contexts \in [Contexts -> Records]
      /\ \A x \in Contexts : contexts[x] = IF Qt /\ x = App THEN c ELSE NoContext
  BY <1>1, <1>3, <1>4, NewFacts
<1>6. /\ ims \in [Contexts -> IMs] /\ fields \in [Fields -> Widgets]
      /\ ims[App] = NewIM /\ \A f \in Fields : ims[f] = NewIM /\ fields[f].stage = "none"
  BY <1>1, <1>2, NewFacts
<1>7. TypeInv
  <2>1. \A x \in Contexts : ~ contexts[x].has_focus /\ contexts[x].filters \in 0 .. 1 /\ x # NoField
    BY <1>4, <1>5, NewFacts, NoFieldFact DEF Records, Contexts
  <2>2. TypeOK
    BY <1>1, <2>1 DEF TypeOK
  <2> QED BY <1>1, <1>5, <1>6, <2>2 DEF TypeInv
<1>8. OptionsInv
  <2>1. \A x \in Contexts : There(x) <=> Qt /\ valid /\ x = App
    BY <1>6 DEF There
  <2>2. ASSUME NEW x \in Contexts, There(x)
        PROVE  Told(x) /\ (contexts[x].filters = 1 <=> Wants(contexts[x]))
    <3>1. Qt /\ valid /\ contexts[x] = c
      BY <1>5, <2>1, <2>2
    <3> QED BY <1>4, <3>1 DEF Told, Wants, Qt
  <2>3. ASSUME NEW x \in Contexts, ~ There(x)
        PROVE  contexts[x].filters = 0
    BY <1>4, <1>5, <2>1, <2>3, NewFacts
  <2> QED BY <1>1, <2>2, <2>3 DEF OptionsInv
<1>9. ContextInv
  BY <1>1, <1>6, NewFacts DEF ContextInv
<1>10. PositionKnown
  BY <1>1, <1>2, <1>4, <1>5, <1>6 DEF PositionKnown, NewIM
<1>11. KeysReachField /\ PreeditShown
  BY <1>6 DEF KeysReachField, PreeditShown
<1>12. PaintInv
  BY <1>1, NewFacts, EmptyFacts DEF PaintInv, Paints, Empty
<1> QED BY <1>7, <1>8, <1>9, <1>10, <1>11, <1>12 DEF Inv

LEMMA StutterInv == Inv /\ UNCHANGED vars => Inv'
<1> SUFFICES ASSUME Inv, UNCHANGED vars PROVE Inv'
  OBVIOUS
<1>1. UNCHANGED <<toolkit, valid, fields, focus, ims, contexts, settings, notices>>
  BY DEF vars
<1>2. FieldsAfter'
  BY <1>1, FieldsStay
<1>3. OptionsInv'
  BY <1>1, OptionsStay
<1>4. TypeInv' /\ ContextInv' /\ PositionKnown'
  BY <1>1, <1>2 DEF Inv, TypeInv, TypeOK, ContextInv, PositionKnown, FieldsAfter, Gtk, Qt
<1> QED BY <1>2, <1>3, <1>4 DEF Inv, FieldsAfter

(* A context that knows the settings has the filter that they want.        *)
LEMMA FiltersMatch == Inv => FiltersMatchSettings
<1> SUFFICES ASSUME Inv, NEW x \in Contexts
             PROVE  LET wants == toolkit # "gtk4" /\ (settings.reset \/ (toolkit = "gtk3" /\ settings.hook))
                        heard == \A n \in notices : n[1] # x
                    IN  IF ~ There(x) THEN contexts[x].filters = 0
                        ELSE heard => contexts[x].filters = IF wants THEN 1 ELSE 0
  BY DEF FiltersMatchSettings, There
<1>1. /\ toolkit \in {"gtk3", "gtk4", "qt"} /\ contexts[x].filters \in 0 .. 1
      /\ settings.reset \in BOOLEAN /\ settings.hook \in BOOLEAN
  BY DEF Inv, TypeInv, TypeOK, Options
<1>2. ASSUME There(x), \A n \in notices : n[1] # x
      PROVE  contexts[x].filters = 1
               <=> toolkit # "gtk4" /\ (settings.reset \/ (toolkit = "gtk3" /\ settings.hook))
  <2>1. <<x, "reset">> \notin notices /\ <<x, "hook">> \notin notices
    BY <1>2
  <2>2. contexts[x].reset = settings.reset /\ (toolkit = "gtk3" => contexts[x].hook = settings.hook)
    BY <1>2, <2>1 DEF Inv, OptionsInv, Told
  <2>3. contexts[x].filters = 1 <=> Wants(contexts[x])
    BY <1>2 DEF Inv, OptionsInv
  <2> QED BY <1>1, <2>2, <2>3 DEF Wants, Qt
<1>3. ~ There(x) => contexts[x].filters = 0
  BY DEF Inv, OptionsInv
<1> QED BY <1>1, <1>2, <1>3

(* Every step keeps the invariant, and so every state has it.              *)
THEOREM Invariance == Spec => []Inv
<1>1. Inv /\ Next => Inv'
  <2> SUFFICES ASSUME Inv, Next PROVE Inv'
    OBVIOUS
  <2>1. CASE \E k \in Keys, type \in {"press", "release"} : Key(type, k)
    BY <2>1, KeyStep
  <2>2. CASE Convert \/ on_changed_reset \/ Destroyed
    <3>1. App \in Contexts
      BY DEF Contexts
    <3> QED BY <2>2, <3>1, ConvertStep, HearingSteps, DestroyedStep
  <2>3. CASE \E f \in Fields : Gtk3Step(f)
    <3>1. PICK f \in Fields : Gtk3Step(f)
      BY <2>3
    <3> QED BY <3>1, FocusInStep, FocusOutStep, ButtonStep, HearingSteps, ClientStep, FinalizeStep
            DEF Gtk3Step, nimf_gtk_im_context_focus_out, Gtk, Contexts
  <2>4. CASE \E f \in Fields : Gtk4Step(f)
    <3>1. PICK f \in Fields : Gtk4Step(f)
      BY <2>4
    <3> QED BY <3>1, FocusInStep, FocusOutStep, HearingSteps, ClientStep, FinalizeStep
            DEF Gtk4Step, nimf_gtk4_im_context_focus_out, Gtk, Contexts
  <2>5. CASE \E f \in Fields : GtkStep(f)
    <3>1. PICK f \in Fields : GtkStep(f)
      BY <2>5
    <3> QED BY <3>1, ResetsStep, CursorStep, UsePreeditStep DEF GtkStep, nimf_gtk_im_context_reset
  <2>6. CASE \E f \in Fields : QtStep(f)
    <3>1. PICK f \in Fields : QtStep(f)
      BY <2>6
    <3> QED BY <3>1, ResetsStep, FocusObjectStep DEF QtStep, reset, eventFilter
  <2>7. CASE \E f \in Fields : Create(f) \/ Cleared(f)
    BY <2>7, CreateStep, ClearedStep
  <2>8. CASE setFocusObject(NoField)
    BY <2>8, FocusObjectStep
  <2>9. CASE \E key \in Options : Change(key)
    BY <2>9, ChangeStep
  <2> QED BY <2>1, <2>2, <2>3, <2>4, <2>5, <2>6, <2>7, <2>8, <2>9 DEF Next
<1> QED BY <1>1, InitInv, StutterInv, PTL DEF Spec

(* Whichever of the filter, the controller, libnimf, the simple context and *)
(* the widget takes a key, it comes to the field it was typed into once and *)
(* in order, with what is composed: for any fields, whatever the engine     *)
(* makes of the keys, and however resets and the focus come between.        *)
THEOREM KeysReachTheField == Spec => []KeysReachField
<1>1. Inv => KeysReachField
  BY DEF Inv
<1> QED BY <1>1, Invariance, PTL

(* A field shows what is composed for it, and nothing when it does not want *)
(* that or nothing is; and what it highlights, in bytes or in UTF-16 units, *)
(* are the characters that the engine highlights: whichever they are, in    *)
(* any text (but in GTK 4, which takes characters for bytes).               *)
THEOREM ComposedIsDrawn == Spec => []ComposedIsShown
<1>1. Inv => ComposedIsShown
  <2> SUFFICES ASSUME Inv PROVE ComposedIsShown
    OBVIOUS
  <2>1. toolkit \in {"gtk3", "gtk4", "qt"}
    BY DEF Inv, TypeInv
  <2>2. FormatsItsCharacters
    BY <2>1 DEF Inv, PaintInv, Paints, FormatsItsCharacters, Qt
  <2> QED BY <2>2 DEF Inv, ComposedIsShown
<1> QED BY <1>1, Invariance, PTL

(* A context has one event filter if the settings it was told of ask for    *)
(* one, and none once it goes; only the context of the field with the focus *)
(* thinks it has it; and the server knows where a Qt field is when the      *)
(* plugin leaves out its position.                                          *)
THEOREM WhatAgrees == Spec => []ContextsAgree
<1>1. Inv => ContextsAgree
  BY FiltersMatch DEF Inv, TypeInv, ContextsAgree
<1> QED BY <1>1, Invariance, PTL
=============================================================================
