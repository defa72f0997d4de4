-------------------------- MODULE NimfHangulProofs --------------------------
(***************************************************************************)
(* Proofs about NimfHangul: for any contexts, letters and callbacks in     *)
(* which applications reset the context, nothing of what the user enters   *)
(* is lost; and unless they do so in the callback of preedit-start, what   *)
(* is shown is the syllable that the engine composes.                      *)
(*                                                                         *)
(* The agenda holds the steps of a handler and of those it interrupts.     *)
(* The invariant says what may follow what, which of it there still may be *)
(* while the engine has a syllable, and what is to be shown by what it     *)
(* leaves to do.                                                           *)
(***************************************************************************)
EXTENDS NimfHangul, SequenceFacts

(* The items of the agenda, and whether one of those in D is among them.   *)
Dos == Steps \cup Waits
Items == [do : Dos, ic : ICs, text : Seq(Chars)]
Has(s, D) == \E k \in 1 .. Len(s) : s[k].do \in D

(* No application resets the context in the callback of preedit-start:     *)
(* update_preedit has been called with what it is going to show.           *)
Quiet == "preedit-start" \notin Callbacks

(* What follows x when the syllable is c; y is next when there is more. A  *)
(* commit is followed by what clears is_committing, a start by the change  *)
(* to the same text and then by the end. Steps that end handlers are last, *)
(* and while there is a syllable an update and the end of a preedit are.   *)
Follows(x, more, y, c) ==
  /\ x.do = "commit" => more /\ y.do = "committed"
  /\ x.do = "start" => more /\ y.do = "change" /\ y.text = x.text
  /\ x.do = "change" => more /\ y.do = "end"
  /\ x.do \in {"erase", "again", "pass", "hide", "unfocus"} => ~ more
  /\ c # <<>> /\ x.do \in {"update", "end"} => ~ more

(* x is a step for context i. There is no syllable any more when a key is  *)
(* handed back, a candidate has been chosen or the focus is lost. An       *)
(* update tells the syllable, if there is one.                             *)
Suits(x, c, i) ==
  /\ x.ic = i
  /\ x.do \in {"start", "change", "window"} => x.text \in Seq(Letters)
  /\ x.do = "erase" => x.text = <<>>
  /\ x.do \in {"pass", "erase", "delete", "clear", "hide", "unfocus"} => c = <<>>
  /\ (c # <<>> \/ Quiet) /\ x.do \in {"start", "change"} => x.text = c

(* x is a step of a handler that has begun: it has been asked what it      *)
(* takes from the text; while there is a syllable its commit and its start *)
(* have been made.                                                         *)
Inner(x, c, i) ==
  /\ Suits(x, c, i)
  /\ x.do \notin {"erase", "delete"}
  /\ c # <<>> => x.do \notin {"commit", "start"}
  /\ i \notin Inline => x.do # "window"

(* What is left of handlers that have begun.                               *)
Rest(s, c, i) ==
  \A k \in 1 .. Len(s) :
    /\ Inner(s[k], c, i) /\ Follows(s[k], k < Len(s), s[k + 1], c)
    /\ c # <<>> /\ s[k].do = "change" => k = 1

(* x is due and r is left. An application that may reset the context does  *)
(* not while a change of the syllable it has is due.                       *)
Leads(x, r, c) ==
  /\ Suits(x, c, x.ic)
  /\ Follows(x, r # <<>>, r[1], c)
  /\ Rest(r, c, x.ic)
  /\ c # <<>> /\ Quiet /\ x.do = "callback" /\ r # <<>> => r[1].do # "change"

(* The agenda is of one context, the one with the focus as long as it has  *)
(* it.                                                                     *)
AgendaInv == agenda # <<>> => Leads(agenda[1], Tail(agenda), composing) /\ focus \in {agenda[1].ic, NoIC}

(* Without a focus there is no syllable.                                   *)
FocusInv == focus = NoIC => composing = <<>>

(* is_committing is TRUE until the commit that set it has been answered.   *)
CommitInv == is_committing => Has(agenda, {"committed"})

(* Candidates are for the context with the focus, for a preedit or for a   *)
(* text, and a choice of one of them hides them.                           *)
ListInv ==
  listing # NoIC =>
    /\ listing = focus
    /\ agenda # <<>> => composing = <<>> /\ Has(agenda, {"hide"})
    /\ agenda = <<>> => preedit_string # <<>> \/ text[listing] # <<>>

(* What the engine has emitted is its syllable, or it is about to emit it. *)
SettledInv ==
  composing # <<>> \/ Quiet => preedit_string = composing \/ Has(agenda, {"update", "change", "clear"})

(* The text as it will be when the character that is to be taken away is.  *)
Before(t, x, ic) == IF x.do \in {"erase", "delete"} /\ x.ic = ic /\ t # <<>> THEN Front(t) ELSE t
Left(ic) == IF agenda = <<>> THEN text[ic] ELSE Before(text[ic], agenda[1], ic)

(* What there is in the application, what it will be given and the         *)
(* syllable are what was entered.                                          *)
TextInv ==
  \A ic \in ICs : Left(ic) \o Pending(ic) \o (IF focus = ic THEN composing ELSE <<>>) = entered[ic]

(* The invariant of every step, for any callbacks.                         *)
Inv == TypeOK /\ AgendaInv /\ FocusInv /\ CommitInv /\ ListInv /\ SettledInv /\ TextInv

(* The context that the engine shows its preedit in.                       *)
Current == IF agenda = <<>> THEN focus ELSE agenda[1].ic

(* A preedit has been started when there is something in it, and will be   *)
(* ended when there is nothing.                                            *)
StateInv ==
  /\ preedit_string # <<>> => preedit_state = "start"
  /\ preedit_state = "start" => preedit_string # <<>> \/ Has(agenda, {"update", "end"})
  /\ composing # <<>> /\ Has(agenda, {"change"}) => preedit_state = "start" \/ agenda[1].do = "start"

(* The application of i shows what the engine has emitted, others nothing. *)
AppOf(i) ==
  \A ic \in Inline : /\ shown[ic] = IF ic = i THEN preedit_string ELSE <<>>
                     /\ inside[ic] <=> ic = i /\ preedit_state = "start"

(* So does the preedit window, if i needs it and it has been told.         *)
WindowOf(i) ==
  IF i \notin ICs \ Inline THEN window = <<>>
  ELSE IF agenda # <<>> /\ agenda[1].do = "window"
  THEN agenda[1].text = preedit_string /\ (listing # NoIC => preedit_string = <<>>)
  ELSE window = preedit_string
AppInv == AppOf(Current)
WindowInv == WindowOf(Current)

(* The invariant of what is shown, unless preedit-start is reset in.       *)
ShowsInv == StateInv /\ AppInv /\ WindowInv
-----------------------------------------------------------------------------
(* Sequences of items: one put before others, and the first one taken.     *)
LEMMA PushFacts ==
  ASSUME NEW x \in Items, NEW s \in Seq(Items)
  PROVE  /\ <<x>> \o s \in Seq(Items) /\ <<x>> \o s # <<>> /\ Len(<<x>> \o s) = Len(s) + 1
         /\ (<<x>> \o s)[1] = x /\ Tail(<<x>> \o s) = s
         /\ \A k \in 1 .. Len(s) : (<<x>> \o s)[k + 1] = s[k]
  OBVIOUS

LEMMA PopFacts ==
  ASSUME NEW s \in Seq(Items), s # <<>>
  PROVE  /\ s[1] \in Items /\ Tail(s) \in Seq(Items) /\ s = <<s[1]>> \o Tail(s)
         /\ Len(Tail(s)) = Len(s) - 1 /\ Len(s) \in Nat /\ 1 \in 1 .. Len(s)
         /\ \A k \in 1 .. Len(s) - 1 : Tail(s)[k] = s[k + 1]
  OBVIOUS

(* Concatenation is associative.                                           *)
Associates(a, b, d) == (a \o b) \o d = a \o (b \o d)
Regroups(a, b, d, e) == ((a \o b) \o d) \o e = a \o (b \o (d \o e))

LEMMA Concats ==
  /\ \A a, b \in Seq(Items) : a \o b \in Seq(Items)
  /\ \A a \in Seq(Items) : a \o <<>> = a /\ <<>> \o a = a
  /\ \A a, b, d \in Seq(Items) : Associates(a, b, d)
<1>1. \A a, b, d \in Seq(Items) : (a \o b) \o d = a \o (b \o d)
  OBVIOUS
<1> QED BY <1>1 DEF Associates

LEMMA FourParts == \A a, b, d, e \in Seq(Items) : Regroups(a, b, d, e)
<1> SUFFICES ASSUME NEW a \in Seq(Items), NEW b \in Seq(Items), NEW d \in Seq(Items), NEW e \in Seq(Items)
             PROVE  Regroups(a, b, d, e)
  BY Zenon
<1>1. PICK f, g \in Seq(Items) : f = a \o b /\ g = d \o e
  <2>1. a \o b \in Seq(Items) /\ d \o e \in Seq(Items)
    BY Concats, Zenon
  <2> QED BY <2>1, Zenon
<1>2. (f \o d) \o e = f \o (d \o e)
  OBVIOUS
<1>3. (a \o b) \o g = a \o (b \o g)
  OBVIOUS
<1> QED BY <1>1, <1>2, <1>3 DEF Regroups

(* What there is among the items of an agenda, with one more in front.     *)
LEMMA HasNothing == \A D : ~ Has(<<>>, D)
  BY DEF Has

LEMMA HasCons ==
  \A D : \A x \in Items, s \in Seq(Items) : Has(<<x>> \o s, D) <=> x.do \in D \/ Has(s, D)
<1> SUFFICES ASSUME NEW D, NEW x \in Items, NEW s \in Seq(Items)
             PROVE  Has(<<x>> \o s, D) <=> x.do \in D \/ Has(s, D)
  OBVIOUS
<1>1. PICK t \in Seq(Items) : t = <<x>> \o s
  BY PushFacts, Zenon
<1>2. /\ Len(t) = Len(s) + 1 /\ Len(s) \in Nat /\ t[1] = x
      /\ \A k \in 1 .. Len(s) : t[k + 1] = s[k]
  BY <1>1, PushFacts
<1>3. ASSUME Has(t, D) PROVE x.do \in D \/ Has(s, D)
  <2>1. PICK k \in 1 .. Len(t) : t[k].do \in D
    BY <1>3, Zenon DEF Has
  <2>2. CASE k = 1
    BY <2>1, <2>2, <1>2
  <2>3. CASE k # 1
    <3>1. k - 1 \in 1 .. Len(s) /\ (k - 1) + 1 = k
      BY <2>3, <1>2
    <3>2. s[k - 1].do \in D
      BY <3>1, <2>1, <1>2
    <3> QED BY <3>1, <3>2 DEF Has
  <2> QED BY <2>2, <2>3
<1>4. ASSUME x.do \in D \/ Has(s, D) PROVE Has(t, D)
  <2>1. CASE x.do \in D
    BY <2>1, <1>2 DEF Has
  <2>2. CASE Has(s, D)
    <3>1. PICK k \in 1 .. Len(s) : s[k].do \in D
      BY <2>2, Zenon DEF Has
    <3>2. k + 1 \in 1 .. Len(t) /\ t[k + 1].do \in D
      BY <3>1, <1>2
    <3> QED BY <3>2, Zenon DEF Has
  <2> QED BY <2>1, <2>2, <1>4
<1> QED BY <1>1, <1>3, <1>4, Zenon

LEMMA HasTail ==
  \A D : \A s \in Seq(Items) : s # <<>> => (Has(s, D) <=> s[1].do \in D \/ Has(Tail(s), D))
<1> SUFFICES ASSUME NEW s \in Seq(Items), NEW D, s # <<>>
             PROVE  Has(s, D) <=> s[1].do \in D \/ Has(Tail(s), D)
  OBVIOUS
<1>1. PICK x \in Items, r \in Seq(Items) : x = s[1] /\ r = Tail(s) /\ s = <<x>> \o r
  BY PopFacts, Zenon
<1> QED BY <1>1, HasCons, Zenon

(* x may be put before s, which is left of handlers that have begun.       *)
Pushable(x, s, c, i) ==
  /\ Rest(s, c, i) /\ Inner(x, c, i) /\ Follows(x, s # <<>>, s[1], c)
  /\ c # <<>> => ~ Has(s, {"change"})

(* What is left of handlers, with one more and with one less.              *)
LEMMA RestCons ==
  \A c, i : \A x \in Items, s \in Seq(Items) : Pushable(x, s, c, i) => Rest(<<x>> \o s, c, i)
<1> SUFFICES ASSUME NEW x \in Items, NEW s \in Seq(Items), NEW c, NEW i, Pushable(x, s, c, i)
             PROVE  Rest(<<x>> \o s, c, i)
  OBVIOUS
<1>1. PICK t \in Seq(Items) : t = <<x>> \o s
  BY PushFacts, Zenon
<1>2. /\ Len(t) = Len(s) + 1 /\ Len(s) \in Nat /\ t[1] = x /\ t \in Seq(Items)
      /\ \A k \in 1 .. Len(s) : t[k + 1] = s[k]
  BY <1>1, PushFacts
<1>3. ASSUME NEW k \in 1 .. Len(t)
      PROVE  /\ Inner(t[k], c, i) /\ Follows(t[k], k < Len(t), t[k + 1], c)
             /\ c # <<>> /\ t[k].do = "change" => k = 1
  <2>1. CASE k = 1
    <3>1. (k < Len(t)) <=> s # <<>>
      BY <2>1, <1>2
    <3>2. s # <<>> => t[k + 1] = s[1]
      BY <2>1, <1>2
    <3>3. Inner(t[k], c, i) /\ Follows(t[k], s # <<>>, s[1], c)
      BY <2>1, <1>2, Zenon DEF Pushable
    <3> QED BY <2>1, <3>1, <3>2, <3>3 DEF Follows
  <2>2. CASE k # 1
    <3>1. k - 1 \in 1 .. Len(s) /\ (k - 1) + 1 = k
      BY <2>2, <1>2
    <3>2. PICK j \in 1 .. Len(s) : j + 1 = k
      BY <3>1
    <3>3. t[k] = s[j] /\ (j < Len(s) => t[k + 1] = s[j + 1]) /\ ((k < Len(t)) <=> j < Len(s))
      BY <3>2, <1>2
    <3>4. Inner(s[j], c, i) /\ Follows(s[j], j < Len(s), s[j + 1], c)
      BY DEF Pushable, Rest
    <3>5. ~ (c # <<>> /\ t[k].do = "change")
      <4>1. c # <<>> => s[j].do # "change"
        BY DEF Pushable, Has
      <4> QED BY <4>1, <3>3
    <3> QED BY <3>3, <3>4, <3>5 DEF Follows
  <2> QED BY <2>1, <2>2
<1> QED BY <1>1, <1>3, Zenon DEF Rest

LEMMA RestTail ==
  \A c, i : \A s \in Seq(Items) :
    s # <<>> /\ Rest(s, c, i) =>
      /\ Rest(Tail(s), c, i) /\ Inner(s[1], c, i) /\ Follows(s[1], Tail(s) # <<>>, Tail(s)[1], c)
      /\ c # <<>> => ~ Has(Tail(s), {"change"})
<1> SUFFICES ASSUME NEW s \in Seq(Items), NEW c, NEW i, s # <<>>, Rest(s, c, i)
             PROVE  /\ Rest(Tail(s), c, i) /\ Inner(s[1], c, i) /\ Follows(s[1], Tail(s) # <<>>, Tail(s)[1], c)
                    /\ c # <<>> => ~ Has(Tail(s), {"change"})
  OBVIOUS
<1>1. PICK r \in Seq(Items) : r = Tail(s)
  BY PopFacts, Zenon
<1>2. /\ Len(r) = Len(s) - 1 /\ Len(s) \in Nat /\ 1 \in 1 .. Len(s)
      /\ \A k \in 1 .. Len(r) : r[k] = s[k + 1]
  BY <1>1
<1>3. ASSUME NEW k \in 1 .. Len(r)
      PROVE  /\ Inner(r[k], c, i) /\ Follows(r[k], k < Len(r), r[k + 1], c)
             /\ c # <<>> => r[k].do # "change"
  <2>1. PICK j \in 1 .. Len(s) : j = k + 1 /\ j # 1
    BY <1>2
  <2>2. r[k] = s[j] /\ (k < Len(r) => r[k + 1] = s[j + 1]) /\ ((k < Len(r)) <=> j < Len(s))
    BY <2>1, <1>2
  <2>3. /\ Inner(s[j], c, i) /\ Follows(s[j], j < Len(s), s[j + 1], c)
        /\ c # <<>> => s[j].do # "change"
    BY <2>1, Zenon DEF Rest
  <2> QED BY <2>2, <2>3 DEF Follows
<1>4. Inner(s[1], c, i) /\ Follows(s[1], r # <<>>, r[1], c)
  <2>1. Inner(s[1], c, i) /\ Follows(s[1], 1 < Len(s), s[1 + 1], c)
    BY <1>2, Zenon DEF Rest
  <2>2. ((1 < Len(s)) <=> r # <<>>) /\ (r # <<>> => s[1 + 1] = r[1])
    BY <1>2
  <2> QED BY <2>1, <2>2 DEF Follows
<1>5. Rest(r, c, i)
  BY <1>3, Zenon DEF Rest
<1>6. c # <<>> => ~ Has(r, {"change"})
  BY <1>3 DEF Has
<1> QED BY <1>1, <1>4, <1>5, <1>6, Zenon

LEMMA RestNothing == \A c, i : Rest(<<>>, c, i)
  BY DEF Rest

(* The step after the one that was due is due.                             *)
LEMMA PopLeads ==
  \A c : \A x \in Items, r \in Seq(Items) :
    Leads(x, r, c) /\ r # <<>> => Leads(r[1], Tail(r), c) /\ r[1].ic = x.ic
<1> SUFFICES ASSUME NEW c, NEW x \in Items, NEW r \in Seq(Items), Leads(x, r, c), r # <<>>
             PROVE  Leads(r[1], Tail(r), c) /\ r[1].ic = x.ic
  OBVIOUS
<1>1. PICK y \in Items, q \in Seq(Items) : y = r[1] /\ q = Tail(r)
  BY PopFacts, Zenon
<1>2. /\ Rest(q, c, x.ic) /\ Inner(y, c, x.ic) /\ Follows(y, q # <<>>, q[1], c)
      /\ c # <<>> => ~ Has(q, {"change"})
  BY <1>1, RestTail, Zenon DEF Leads
<1>3. y.ic = x.ic /\ Suits(y, c, x.ic)
  BY <1>2 DEF Inner, Suits
<1>4. c # <<>> /\ q # <<>> => q[1].do # "change"
  <2>1. q # <<>> => 1 \in 1 .. Len(q)
    OBVIOUS
  <2> QED BY <1>2, <2>1 DEF Has
<1> QED BY <1>1, <1>2, <1>3, <1>4, Zenon DEF Leads

(* An item by its parts, and as Do makes it.                               *)
Item(step, ic, t) == [do |-> step, ic |-> ic, text |-> t]

IsItem(x, step, ic, t) ==
  /\ x = Item(step, ic, t) /\ x.do = step /\ x.ic = ic /\ x.text = t
  /\ Do(step, ic, t) = <<x>>

LEMMA ItemFacts ==
  \A step \in Dos, ic \in ICs, t \in Seq(Chars) : \E x \in Items : IsItem(x, step, ic, t)
<1> TAKE step \in Dos, ic \in ICs, t \in Seq(Chars)
<1>1. Item(step, ic, t) \in Items /\ IsItem(Item(step, ic, t), step, ic, t)
  BY DEF Item, Items, Do, IsItem
<1> QED BY <1>1, Zenon

(* A syllable is a text.                                                   *)
LEMMA LettersAreChars == \A t \in Seq(Letters) : t \in Seq(Chars)
  BY DEF Chars

-----------------------------------------------------------------------------
(* Pending(ic), for any agenda.                                            *)
Gives(ic) == [a \in Items |-> IF a.ic = ic /\ a.do \in {"commit", "pass"} THEN a.text ELSE <<>>]
PendingOf(s, ic) == Through(Gives(ic), s)

(* Pending(ic) is the texts of the commits and keys for ic, in order:      *)
(* nothing is pending in an empty agenda, each item adds what it gives.    *)
LEMMA PendingIs ==
  \A ic : \A s \in Seq(Items) :
    FlattenSeq([k \in 1 .. Len(s) |->
      IF s[k].ic = ic /\ s[k].do \in {"commit", "pass"} THEN s[k].text ELSE <<>>]) = PendingOf(s, ic)
<1> SUFFICES ASSUME NEW ic, NEW s \in Seq(Items)
             PROVE  FlattenSeq([k \in 1 .. Len(s) |->
                      IF s[k].ic = ic /\ s[k].do \in {"commit", "pass"} THEN s[k].text ELSE <<>>]) = PendingOf(s, ic)
  OBVIOUS
<1>1. /\ DOMAIN s = 1 .. Len(s)
      /\ \A n \in 1 .. Len(s) : s[n] \in Items
  OBVIOUS
<1>2. [k \in 1 .. Len(s) |->
        IF s[k].ic = ic /\ s[k].do \in {"commit", "pass"} THEN s[k].text ELSE <<>>]
      = [n \in DOMAIN s |-> Gives(ic)[s[n]]]
  BY <1>1 DEF Gives
<1> QED BY <1>2, Zenon DEF PendingOf, Through

LEMMA PendingFacts ==
  ASSUME NEW ic
  PROVE  /\ \A s \in Seq(Items) : PendingOf(s, ic) \in Seq(Chars)
         /\ PendingOf(<<>>, ic) = <<>>
         /\ \A x \in Items, s \in Seq(Items) :
              PendingOf(<<x>> \o s, ic) =
                (IF x.ic = ic /\ x.do \in {"commit", "pass"} THEN x.text ELSE <<>>) \o PendingOf(s, ic)
         /\ \A s \in Seq(Items) : ~ Has(s, {"commit", "pass"}) => PendingOf(s, ic) = <<>>
<1>1. Gathers(Gives(ic), Items, Chars)
  BY DEF Gives, Items, Gathers
<1>2. \A s \in Seq(Items) : PendingOf(s, ic) \in Seq(Chars)
  BY <1>1, ThroughFacts, Zenon DEF PendingOf
<1>3. ASSUME NEW x \in Items, NEW s \in Seq(Items)
      PROVE  PendingOf(<<x>> \o s, ic) =
               (IF x.ic = ic /\ x.do \in {"commit", "pass"} THEN x.text ELSE <<>>) \o PendingOf(s, ic)
  <2>0. <<x>> \in Seq(Items)
    OBVIOUS
  <2>1. PICK u \in Seq(Items) : u = <<x>>
    BY <2>0, Zenon
  <2>2. PendingOf(u \o s, ic) = PendingOf(u, ic) \o PendingOf(s, ic)
    BY <1>1, ThroughFacts, Zenon DEF PendingOf
  <2>3. PendingOf(u, ic) = Gives(ic)[x]
    BY <1>1, <2>1, ThroughFacts, Zenon DEF PendingOf
  <2>4. Gives(ic)[x] = IF x.ic = ic /\ x.do \in {"commit", "pass"} THEN x.text ELSE <<>>
    BY DEF Gives
  <2> QED BY <2>1, <2>2, <2>3, <2>4, Zenon
<1>4. ASSUME NEW s \in Seq(Items), ~ Has(s, {"commit", "pass"})
      PROVE  PendingOf(s, ic) = <<>>
  <2>1. \A n \in DOMAIN s : Gives(ic)[s[n]] = <<>>
    <3>1. \A n \in DOMAIN s : s[n] \in Items /\ n \in 1 .. Len(s)
      OBVIOUS
    <3> QED BY <3>1, <1>4 DEF Gives, Has
  <2> QED BY <1>1, <2>1, ThroughFacts, Zenon DEF PendingOf
<1>5. PendingOf(<<>>, ic) = <<>>
  <2>1. <<>> \in Seq(Items)
    OBVIOUS
  <2> QED BY <2>1, <1>4, HasNothing, Zenon
<1> QED BY <1>2, <1>3, <1>4, <1>5, Zenon

-----------------------------------------------------------------------------
(* s begins with x and can be an agenda.                                   *)
Head1(s, h, c) ==
  /\ s \in Seq(Items) /\ s # <<>> /\ s[1] = h /\ Tail(s) \in Seq(Items)
  /\ Leads(h, Tail(s), c)

(* s has the steps of r and those in E; s gives what r gives.              *)
Gains(s, r, E) == \A D : Has(s, D) <=> (\E d \in E : d \in D) \/ Has(r, D)
Keeps(s, r) == \A ic : PendingOf(s, ic) = PendingOf(r, ic)

(* One step put before what is left of handlers.                           *)
LEMMA PushLeads ==
  \A c : \A x \in Items, r \in Seq(Items) :
    /\ Leads(x, r, c) => Head1(<<x>> \o r, x, c)
    /\ Gains(<<x>> \o r, r, {x.do})
    /\ x.do \notin {"commit", "pass"} => Keeps(<<x>> \o r, r)
<1> SUFFICES ASSUME NEW c, NEW x \in Items, NEW r \in Seq(Items)
             PROVE  /\ Leads(x, r, c) => Head1(<<x>> \o r, x, c)
                    /\ Gains(<<x>> \o r, r, {x.do})
                    /\ x.do \notin {"commit", "pass"} => Keeps(<<x>> \o r, r)
  OBVIOUS
<1>1. PICK s \in Seq(Items) : s = <<x>> \o r
  BY PushFacts, Zenon
<1>2. s # <<>> /\ s[1] = x /\ Tail(s) = r
  BY <1>1, PushFacts, Zenon
<1>3. Leads(x, r, c) => Head1(s, x, c)
  BY <1>2, Zenon DEF Head1
<1>4. Gains(s, r, {x.do})
  <2> SUFFICES ASSUME NEW D PROVE Has(s, D) <=> (\E d \in {x.do} : d \in D) \/ Has(r, D)
    BY Zenon DEF Gains
  <2>1. Has(s, D) <=> x.do \in D \/ Has(r, D)
    BY <1>1, HasCons, Zenon
  <2> QED BY <2>1
<1>5. ASSUME x.do \notin {"commit", "pass"} PROVE Keeps(s, r)
  <2> SUFFICES ASSUME NEW ic PROVE PendingOf(s, ic) = PendingOf(r, ic)
    BY Zenon DEF Keeps
  <2>1. PendingOf(s, ic) = <<>> \o PendingOf(r, ic) /\ PendingOf(r, ic) \in Seq(Chars)
    BY <1>1, <1>5, PendingFacts, Zenon
  <2> QED BY <2>1
<1> QED BY <1>1, <1>3, <1>4, <1>5, Zenon

(* s is what update_preedit(t) puts before r.                              *)
Updating(s, ic, t, r, c) ==
  /\ Head1(s, Item("start", ic, t), c)
  /\ c = <<>> => Rest(s, c, ic)
  /\ Gains(s, r, {"start", "change", "end"})
  /\ Keeps(s, r)

(* It can be an agenda if t is the syllable, and r is empty if there is    *)
(* one.                                                                    *)
LEMMA UpdateFacts ==
  ASSUME NEW r \in Seq(Items), NEW ic \in ICs, NEW t \in Seq(Letters), NEW c,
         Rest(r, c, ic), c # <<>> \/ Quiet => t = c, c # <<>> => r = <<>>
  PROVE  Updating(UpdatePreedit(ic, t) \o r, ic, t, r, c)
<1>0. /\ t \in Seq(Chars) /\ <<>> \in Seq(Chars)
      /\ "start" \in Dos /\ "change" \in Dos /\ "end" \in Dos
  BY LettersAreChars DEF Steps, Dos
<1>x. PICK x \in Items : IsItem(x, "start", ic, t)
  BY <1>0, ItemFacts, Zenon
<1>y. PICK y \in Items : IsItem(y, "change", ic, t)
  BY <1>0, ItemFacts, Zenon
<1>z. PICK z \in Items : IsItem(z, "end", ic, <<>>)
  BY <1>0, ItemFacts, Zenon
<1>1. /\ x = Item("start", ic, t) /\ x.do = "start" /\ x.ic = ic /\ x.text = t /\ Do("start", ic, t) = <<x>>
      /\ y.do = "change" /\ y.ic = ic /\ y.text = t /\ Do("change", ic, t) = <<y>>
      /\ z.do = "end" /\ z.ic = ic /\ Do("end", ic, <<>>) = <<z>>
  BY <1>x, <1>y, <1>z, Zenon DEF IsItem
<1>2. UpdatePreedit(ic, t) \o r = <<x>> \o (<<y>> \o (<<z>> \o r))
  <2>1. UpdatePreedit(ic, t) = (<<x>> \o <<y>>) \o <<z>>
    BY <1>1, Zenon DEF UpdatePreedit
  <2>2. <<x>> \in Seq(Items) /\ <<y>> \in Seq(Items) /\ <<z>> \in Seq(Items)
    OBVIOUS
  <2>3. PICK a, b, d \in Seq(Items) : a = <<x>> /\ b = <<y>> /\ d = <<z>>
    BY <2>2, Zenon
  <2>4. Regroups(a, b, d, r)
    BY FourParts, Zenon
  <2> QED BY <2>1, <2>3, <2>4, Zenon DEF Regroups
<1>3u. PICK u \in Seq(Items) : u = <<z>> \o r
  BY PushFacts, Zenon
<1>3v. PICK v \in Seq(Items) : v = <<y>> \o u
  BY PushFacts, Zenon
<1>3w. PICK w \in Seq(Items) : w = <<x>> \o v
  BY PushFacts, Zenon
<1>3. u = <<z>> \o r /\ v = <<y>> \o u /\ w = <<x>> \o v
  BY <1>3u, <1>3v, <1>3w, Zenon
<1>4. /\ u # <<>> /\ u[1] = z /\ Tail(u) = r
      /\ v # <<>> /\ v[1] = y /\ Tail(v) = u
      /\ w # <<>> /\ w[1] = x /\ Tail(w) = v
  BY <1>3, PushFacts, Zenon
<1>5. Gains(u, r, {"end"}) /\ Gains(v, u, {"change"}) /\ Gains(w, v, {"start"})
  BY <1>1, <1>3, PushLeads, Zenon
<1>6. Keeps(u, r) /\ Keeps(v, u) /\ Keeps(w, v)
  BY <1>1, <1>3, PushLeads
<1>7. Rest(u, c, ic)
  <2>1. Pushable(z, r, c, ic)
    <3>1. c # <<>> => ~ Has(r, {"change"})
      BY HasNothing
    <3> QED BY <1>1, <3>1 DEF Pushable, Inner, Suits, Follows
  <2> QED BY <2>1, <1>3, RestCons, Zenon
<1>8. Rest(v, c, ic)
  <2>1. c # <<>> => ~ Has(u, {"change"})
    BY <1>5, HasNothing DEF Gains
  <2>2. Inner(y, c, ic) /\ Follows(y, u # <<>>, u[1], c)
    BY <1>1, <1>4 DEF Inner, Suits, Follows
  <2>3. Pushable(y, u, c, ic)
    BY <1>7, <2>1, <2>2, Zenon DEF Pushable
  <2> QED BY <2>3, <1>3, RestCons, Zenon
<1>9. Leads(x, v, c)
  BY <1>1, <1>4, <1>8 DEF Leads, Suits, Follows
<1>10. c = <<>> => Rest(w, c, ic)
  <2> SUFFICES ASSUME c = <<>> PROVE Rest(w, c, ic)
    OBVIOUS
  <2>1. Inner(x, c, ic) /\ Follows(x, v # <<>>, v[1], c)
    BY <1>1, <1>4 DEF Inner, Suits, Follows
  <2>2. Pushable(x, v, c, ic)
    BY <1>8, <2>1, Zenon DEF Pushable
  <2> QED BY <2>2, <1>3, RestCons, Zenon
<1>11. Gains(w, r, {"start", "change", "end"})
  BY <1>5 DEF Gains
<1>12. Keeps(w, r)
  BY <1>6, Zenon DEF Keeps
<1>13. Head1(w, Item("start", ic, t), c)
  BY <1>1, <1>4, <1>9, Zenon DEF Head1
<1> QED BY <1>2, <1>3, <1>10, <1>11, <1>12, <1>13, Zenon DEF Updating

(* s is what emit_commit(t) puts before r.                                 *)
Emitting(s, ic, t, r, c) ==
  /\ Head1(s, Item("commit", ic, t), c)
  /\ c = <<>> => Rest(s, c, ic)
  /\ Gains(s, r, {"commit", "committed"})
  /\ \A i : PendingOf(s, i) = (IF i = ic THEN t ELSE <<>>) \o PendingOf(r, i)

(* It can be an agenda if no change of the syllable is left in r.          *)
LEMMA EmitFacts ==
  ASSUME NEW r \in Seq(Items), NEW ic \in ICs, NEW t \in Seq(Chars), NEW c,
         Rest(r, c, ic), c # <<>> => ~ Has(r, {"change"})
  PROVE  Emitting(EmitCommit(ic, t) \o r, ic, t, r, c)
<1>0. <<>> \in Seq(Chars) /\ "commit" \in Dos /\ "committed" \in Dos
  BY DEF Steps, Dos
<1>x. PICK x \in Items : IsItem(x, "commit", ic, t)
  BY <1>0, ItemFacts, Zenon
<1>y. PICK y \in Items : IsItem(y, "committed", ic, <<>>)
  BY <1>0, ItemFacts, Zenon
<1>1. /\ x = Item("commit", ic, t) /\ x.do = "commit" /\ x.ic = ic /\ x.text = t /\ Do("commit", ic, t) = <<x>>
      /\ y.do = "committed" /\ y.ic = ic /\ Do("committed", ic, <<>>) = <<y>>
  BY <1>x, <1>y, Zenon DEF IsItem
<1>2. EmitCommit(ic, t) \o r = <<x>> \o (<<y>> \o r)
  <2>1. EmitCommit(ic, t) = <<x>> \o <<y>>
    BY <1>1, Zenon DEF EmitCommit
  <2>2. <<x>> \in Seq(Items) /\ <<y>> \in Seq(Items)
    OBVIOUS
  <2>3. \A a, b \in Seq(Items) : (a \o b) \o r = a \o (b \o r)
    OBVIOUS
  <2> QED BY <2>1, <2>2, <2>3, Zenon
<1>3v. PICK v \in Seq(Items) : v = <<y>> \o r
  BY PushFacts, Zenon
<1>3w. PICK w \in Seq(Items) : w = <<x>> \o v
  BY PushFacts, Zenon
<1>3. v = <<y>> \o r /\ w = <<x>> \o v
  BY <1>3v, <1>3w, Zenon
<1>4. /\ v # <<>> /\ v[1] = y /\ Tail(v) = r
      /\ w # <<>> /\ w[1] = x /\ Tail(w) = v
  BY <1>3, PushFacts, Zenon
<1>5. Gains(v, r, {"committed"}) /\ Gains(w, v, {"commit"})
  BY <1>1, <1>3, PushLeads, Zenon
<1>6. \A i : PendingOf(w, i) = (IF i = ic THEN t ELSE <<>>) \o PendingOf(r, i)
  <2>1. Keeps(v, r)
    BY <1>1, <1>3, PushLeads
  <2>2. \A i : PendingOf(w, i) = (IF x.ic = i /\ x.do \in {"commit", "pass"} THEN x.text ELSE <<>>) \o PendingOf(v, i)
    BY <1>3, PendingFacts, Zenon
  <2> QED BY <2>1, <2>2, <1>1 DEF Keeps
<1>8. Rest(v, c, ic)
  <2>2. Inner(y, c, ic) /\ Follows(y, r # <<>>, r[1], c)
    BY <1>1, <1>4 DEF Inner, Suits, Follows
  <2>3. Pushable(y, r, c, ic)
    BY <2>2, Zenon DEF Pushable
  <2> QED BY <2>3, <1>3, RestCons, Zenon
<1>9. Leads(x, v, c)
  BY <1>1, <1>4, <1>8 DEF Leads, Suits, Follows
<1>10. c = <<>> => Rest(w, c, ic)
  <2> SUFFICES ASSUME c = <<>> PROVE Rest(w, c, ic)
    OBVIOUS
  <2>1. Inner(x, c, ic) /\ Follows(x, v # <<>>, v[1], c)
    BY <1>1, <1>4 DEF Inner, Suits, Follows
  <2>2. Pushable(x, v, c, ic)
    BY <1>8, <2>1, Zenon DEF Pushable
  <2> QED BY <2>2, <1>3, RestCons, Zenon
<1>11. Gains(w, r, {"commit", "committed"})
  BY <1>5 DEF Gains
<1>13. Head1(w, Item("commit", ic, t), c)
  BY <1>1, <1>4, <1>9, Zenon DEF Head1
<1> QED BY <1>2, <1>3, <1>6, <1>10, <1>11, <1>13, Zenon DEF Emitting

-----------------------------------------------------------------------------
(* s goes on with r, what is left for context i: it adds steps that        *)
(* neither give a text nor take one away.                                  *)
Continues(s, r, c, i) ==
  /\ s \in Seq(Items)
  /\ s # <<>> => /\ Leads(s[1], Tail(s), c) /\ Tail(s) \in Seq(Items)
                 /\ s[1].ic = i /\ s[1].do \notin {"erase", "delete"}
  /\ \A D : Has(r, D) => Has(s, D)
  /\ Keeps(s, r)

(* Each step of a handler goes on: it takes the first item, or puts others *)
(* in its place.                                                           *)
LEMMA PopContinues ==
  \A c : \A x \in Items, r \in Seq(Items) : Leads(x, r, c) => Continues(r, r, c, x.ic)
<1> SUFFICES ASSUME NEW c, NEW x \in Items, NEW r \in Seq(Items), Leads(x, r, c)
             PROVE  Continues(r, r, c, x.ic)
  OBVIOUS
<1>1. r # <<>> => Leads(r[1], Tail(r), c) /\ r[1].ic = x.ic /\ Tail(r) \in Seq(Items)
  <2>1. r # <<>> => Leads(r[1], Tail(r), c) /\ r[1].ic = x.ic
    BY PopLeads
  <2>2. r # <<>> => Tail(r) \in Seq(Items)
    OBVIOUS
  <2> QED BY <2>1, <2>2, Zenon
<1>2. r # <<>> => r[1].do \notin {"erase", "delete"}
  <2>1. Rest(r, c, x.ic)
    BY Zenon DEF Leads
  <2>2. r # <<>> => Inner(r[1], c, x.ic)
    BY <2>1, RestTail, Zenon
  <2> QED BY <2>2 DEF Inner
<1> QED BY <1>1, <1>2, Zenon DEF Continues, Keeps

LEMMA PushContinues ==
  \A c, i : \A y \in Items, r \in Seq(Items) :
    Leads(y, r, c) /\ y.ic = i /\ y.do \notin {"commit", "pass", "erase", "delete"}
      => Continues(<<y>> \o r, r, c, i)
<1> SUFFICES ASSUME NEW c, NEW i, NEW y \in Items, NEW r \in Seq(Items),
                    Leads(y, r, c), y.ic = i, y.do \notin {"commit", "pass", "erase", "delete"}
             PROVE  Continues(<<y>> \o r, r, c, i)
  OBVIOUS
<1>1. PICK s \in Seq(Items) : s = <<y>> \o r
  BY PushFacts, Zenon
<1>2. s # <<>> /\ s[1] = y /\ Tail(s) = r
  BY <1>1, PushFacts, Zenon
<1>3. Gains(s, r, {y.do})
  BY <1>1, PushLeads, Zenon
<1>4. Keeps(s, r)
  <2>1. y.do \notin {"commit", "pass"}
    OBVIOUS
  <2> QED BY <2>1, <1>1, PushLeads, Zenon
<1>5. \A D : Has(r, D) => Has(s, D)
  BY <1>3, Zenon DEF Gains
<1>6. y.do \notin {"erase", "delete"}
  OBVIOUS
<1> QED BY <1>1, <1>2, <1>4, <1>5, <1>6, Zenon DEF Continues

LEMMA UpdateContinues ==
  \A s, ic, t, r, c : Updating(s, ic, t, r, c) => Continues(s, r, c, ic)
<1> SUFFICES ASSUME NEW s, NEW ic, NEW t, NEW r, NEW c, Updating(s, ic, t, r, c)
             PROVE  Continues(s, r, c, ic)
  OBVIOUS
<1>1. Head1(s, Item("start", ic, t), c) /\ Gains(s, r, {"start", "change", "end"}) /\ Keeps(s, r)
  BY Zenon DEF Updating
<1>2. Item("start", ic, t).ic = ic /\ Item("start", ic, t).do = "start"
  BY DEF Item
<1>3. \A D : Has(r, D) => Has(s, D)
  BY <1>1, Zenon DEF Gains
<1> QED BY <1>1, <1>2, <1>3 DEF Continues, Head1

(* An application is waited for, then r is gone on with.                   *)
Awaiting(s, r, c, i) == s # <<>> /\ s[1].do \in Waits /\ Continues(s, r, c, i)

LEMMA AwaitFacts ==
  ASSUME NEW sig, NEW r \in Seq(Items), NEW c,
         agenda \in Seq(Items), agenda # <<>>, Rest(r, c, agenda[1].ic),
         sig \in Callbacks /\ c # <<>> /\ Quiet /\ r # <<>> => r[1].do # "change"
  PROVE  Awaiting(Await(sig) \o r, r, c, agenda[1].ic)
<1>1. PICK d \in Dos : d = (IF sig \in Callbacks THEN "callback" ELSE "reply")
  BY DEF Dos, Waits
<1>2. agenda[1].ic \in ICs /\ <<>> \in Seq(Chars)
  <2>1. agenda[1] \in Items
    BY PopFacts, Zenon
  <2> QED BY <2>1 DEF Items
<1>3. PICK x \in Items : IsItem(x, d, agenda[1].ic, <<>>)
  BY <1>2, ItemFacts, Zenon
<1>4. Await(sig) = <<x>>
  BY <1>1, <1>3 DEF Await, IsItem, ic0
<1>5. x.do = d /\ x.ic = agenda[1].ic /\ d \in Waits /\ (d = "callback" => sig \in Callbacks)
  BY <1>1, <1>3 DEF IsItem, Waits
<1>6. Leads(x, r, c)
  BY <1>5 DEF Leads, Suits, Follows, Waits
<1>7. x.do \notin {"commit", "pass", "erase", "delete"}
  BY <1>5 DEF Waits
<1>8. Continues(<<x>> \o r, r, c, agenda[1].ic)
  BY <1>5, <1>6, <1>7, PushContinues, Zenon
<1>9. <<x>> \o r # <<>> /\ (<<x>> \o r)[1] = x
  BY PushFacts, Zenon
<1> QED BY <1>4, <1>5, <1>8, <1>9, Zenon DEF Awaiting

LEMMA ContinuesTransitive ==
  \A s, q, r, c, i, j :
    Continues(s, q, c, i) /\ Continues(q, r, c, j) => Continues(s, r, c, i)
<1> SUFFICES ASSUME NEW s, NEW q, NEW r, NEW c, NEW i, NEW j,
                    Continues(s, q, c, i), Continues(q, r, c, j)
             PROVE  Continues(s, r, c, i)
  BY Zenon
<1>1. \A D : Has(r, D) => Has(s, D)
  BY Zenon DEF Continues
<1>2. Keeps(s, r)
  <2>1. \A ic : PendingOf(s, ic) = PendingOf(q, ic) /\ PendingOf(q, ic) = PendingOf(r, ic)
    BY Zenon DEF Continues, Keeps
  <2> QED BY <2>1, Zenon DEF Keeps
<1> QED BY <1>1, <1>2, Zenon DEF Continues

-----------------------------------------------------------------------------
(* What the invariant says of the step that is due.                        *)
LEMMA AgendaTypes == ASSUME TypeOK PROVE agenda \in Seq(Items)
  BY DEF TypeOK, Items, Dos

LEMMA HeadFacts ==
  ASSUME Inv, agenda # <<>>
  PROVE  /\ agenda \in Seq(Items) /\ agenda[1] \in Items /\ Tail(agenda) \in Seq(Items)
         /\ Leads(agenda[1], Tail(agenda), composing)
         /\ Rest(Tail(agenda), composing, agenda[1].ic)
         /\ Gains(agenda, Tail(agenda), {agenda[1].do})
<1>1. agenda \in Seq(Items)
  BY AgendaTypes, Zenon DEF Inv
<1>2. agenda[1] \in Items /\ Tail(agenda) \in Seq(Items) /\ agenda = <<agenda[1]>> \o Tail(agenda)
  BY <1>1, PopFacts, Zenon
<1>3. Leads(agenda[1], Tail(agenda), composing)
  BY DEF Inv, AgendaInv
<1>4. Rest(Tail(agenda), composing, agenda[1].ic)
  BY <1>3, Zenon DEF Leads
<1>5. Gains(agenda, Tail(agenda), {agenda[1].do})
  BY <1>2, PushLeads, Zenon
<1> QED BY <1>1, <1>2, <1>3, <1>4, <1>5, Zenon

(* A step of a handler goes on with what is left, and how it may do it.    *)
GoesOn == Continues(agenda', Tail(agenda), composing, agenda[1].ic)

LEMMA PopStep ==
  ASSUME Inv, agenda # <<>>, Then(<<>>)
  PROVE  agenda' = Tail(agenda) /\ GoesOn
<1>1. agenda' = Tail(agenda)
  BY HeadFacts DEF Then
<1> QED BY <1>1, HeadFacts, PopContinues, Zenon DEF GoesOn

LEMMA AwaitStep ==
  ASSUME Inv, agenda # <<>>, NEW sig, Then(Await(sig)),
         sig \in Callbacks /\ composing # <<>> /\ Quiet /\ Tail(agenda) # <<>> => Tail(agenda)[1].do # "change"
  PROVE  agenda' # <<>> /\ agenda'[1].do \in Waits /\ GoesOn
<1>1. Awaiting(Await(sig) \o Tail(agenda), Tail(agenda), composing, agenda[1].ic)
  BY HeadFacts, AwaitFacts, Zenon
<1> QED BY <1>1, Zenon DEF Awaiting, GoesOn, Then

LEMMA UpdateStep ==
  ASSUME Inv, agenda # <<>>, NEW t \in Seq(Letters), Then(UpdatePreedit(ic0, t)),
         composing # <<>> \/ Quiet => t = composing, composing # <<>> => Tail(agenda) = <<>>
  PROVE  Updating(agenda', agenda[1].ic, t, Tail(agenda), composing) /\ GoesOn
<1>1. agenda[1].ic \in ICs
  BY HeadFacts DEF Items
<1>2. PICK r \in Seq(Items) : r = Tail(agenda)
  BY HeadFacts, Zenon
<1>3. Rest(r, composing, agenda[1].ic)
  BY <1>2, HeadFacts, Zenon
<1>4. composing # <<>> => r = <<>>
  BY <1>2
<1>5. Updating(UpdatePreedit(agenda[1].ic, t) \o r, agenda[1].ic, t, r, composing)
  BY <1>1, <1>3, <1>4, UpdateFacts, Zenon
<1>6. agenda' = UpdatePreedit(agenda[1].ic, t) \o r
  BY <1>2, Zenon DEF Then, ic0
<1>7. Updating(agenda', agenda[1].ic, t, r, composing)
  BY <1>5, <1>6, Zenon
<1>8. Continues(agenda', r, composing, agenda[1].ic)
  BY <1>7, UpdateContinues, Zenon
<1> QED BY <1>2, <1>7, <1>8, Zenon DEF GoesOn

(* A change of the syllable is due first or not at all.                    *)
LEMMA NoChange ==
  \A c, i : \A r \in Seq(Items) :
    Rest(r, c, i) /\ c # <<>> /\ (r # <<>> => r[1].do # "change") => ~ Has(r, {"change"})
  BY DEF Rest, Has

(* EmitChanged goes on.                                                    *)
LEMMA ChangedStep ==
  ASSUME Inv, agenda # <<>>, NEW t \in Seq(Letters), EmitChanged(t),
         composing # <<>> /\ Tail(agenda) # <<>> => Tail(agenda)[1].do # "change"
  PROVE  /\ GoesOn /\ agenda' # <<>>
         /\ agenda[1].ic \in Inline => agenda'[1].do \in Waits
         /\ agenda[1].ic \notin Inline => agenda'[1] = Item("window", agenda[1].ic, t)
<1>1. PICK r \in Seq(Items) : r = Tail(agenda)
  BY HeadFacts, Zenon
<1>2. PICK i \in ICs : i = agenda[1].ic
  BY HeadFacts DEF Items
<1>3. t \in Seq(Chars) /\ "window" \in Dos
  BY LettersAreChars DEF Dos, Steps
<1>4. PICK x \in Items : IsItem(x, "window", i, t)
  BY <1>3, ItemFacts, Zenon
<1>5. x = Item("window", i, t) /\ x.do = "window" /\ x.ic = i /\ x.text = t /\ Do("window", i, t) = <<x>>
  BY <1>4, Zenon DEF IsItem
<1>6. Rest(r, composing, i)
  BY <1>1, <1>2, HeadFacts, Zenon
<1>7. Leads(x, r, composing)
  BY <1>5, <1>6 DEF Leads, Suits, Follows
<1>8. PICK q \in Seq(Items) : q = <<x>> \o r
  BY PushFacts, Zenon
<1>9. q # <<>> /\ q[1] = x
  BY <1>8, PushFacts, Zenon
<1>10. Continues(q, r, composing, i)
  <2>1. x.do \notin {"commit", "pass", "erase", "delete"}
    BY <1>5
  <2> QED BY <2>1, <1>5, <1>7, <1>8, PushContinues, Zenon
<1>11. CASE i \in Inline
  <2>1. Inner(x, composing, i) /\ Follows(x, r # <<>>, r[1], composing)
    BY <1>5, <1>11 DEF Inner, Suits, Follows
  <2>2. composing # <<>> => ~ Has(r, {"change"})
    BY <1>1, <1>6, NoChange, Zenon
  <2>3. Rest(q, composing, i)
    <3>1. Pushable(x, r, composing, i)
      BY <1>6, <2>1, <2>2, Zenon DEF Pushable
    <3> QED BY <3>1, <1>8, RestCons, Zenon
  <2>4. q[1].do # "change"
    BY <1>5, <1>9
  <2>5. Awaiting(Await("preedit-changed") \o q, q, composing, i)
    <3>1. agenda \in Seq(Items) /\ Rest(q, composing, agenda[1].ic)
      BY <2>3, <1>2, HeadFacts, Zenon
    <3> QED BY <3>1, <2>4, <1>2, AwaitFacts, Zenon
  <2>6. agenda' = Await("preedit-changed") \o q
    <3>1. agenda' = (Await("preedit-changed") \o <<x>>) \o r
      BY <1>1, <1>2, <1>5, <1>11 DEF EmitChanged, Then, ic0
    <3>2. <<x>> \in Seq(Items) /\ Await("preedit-changed") \in Seq(Items)
      <4>1. "reply" \in Dos /\ "callback" \in Dos /\ <<>> \in Seq(Chars)
        BY DEF Dos, Waits
      <4>2. \A d \in Dos : Do(d, i, <<>>) \in Seq(Items)
        BY <4>1 DEF Do, Items
      <4>3. Await("preedit-changed") \in Seq(Items)
        BY <4>1, <4>2, <1>2 DEF Await, ic0
      <4> QED BY <4>3
    <3>3. PICK a, b \in Seq(Items) : a = Await("preedit-changed") /\ b = <<x>>
      BY <3>2, Zenon
    <3>4. Associates(a, b, r)
      BY Concats, Zenon
    <3> QED BY <3>1, <3>3, <3>4, <1>8 DEF Associates
  <2>7. Awaiting(agenda', q, composing, i)
    BY <2>5, <2>6, Zenon
  <2>8. Continues(agenda', r, composing, i)
    BY <2>7, <1>10, ContinuesTransitive, Zenon DEF Awaiting
  <2>9. agenda' # <<>> /\ agenda'[1].do \in Waits
    BY <2>7, Zenon DEF Awaiting
  <2> QED BY <1>1, <1>2, <1>11, <2>8, <2>9 DEF GoesOn
<1>12. CASE i \notin Inline
  <2>1. agenda' = q
    BY <1>1, <1>2, <1>5, <1>8, <1>12 DEF EmitChanged, Then, ic0
  <2> QED BY <2>1, <1>1, <1>2, <1>5, <1>9, <1>10, <1>12 DEF GoesOn
<1> QED BY <1>11, <1>12

-----------------------------------------------------------------------------
(* What is pending, before a step and after it.                            *)
LEMMA PendingHead ==
  ASSUME Inv, agenda # <<>>, NEW ic
  PROVE  /\ PendingOf(Tail(agenda), ic) \in Seq(Chars)
         /\ Pending(ic) =
              (IF agenda[1].ic = ic /\ agenda[1].do \in {"commit", "pass"} THEN agenda[1].text ELSE <<>>)
              \o PendingOf(Tail(agenda), ic)
<1>1. PICK x \in Items, r \in Seq(Items) : x = agenda[1] /\ r = Tail(agenda) /\ agenda = <<x>> \o r
  BY HeadFacts, PopFacts, Zenon
<1>2. PendingOf(<<x>> \o r, ic) = (IF x.ic = ic /\ x.do \in {"commit", "pass"} THEN x.text ELSE <<>>) \o PendingOf(r, ic)
  BY PendingFacts, Zenon
<1>3. PendingOf(r, ic) \in Seq(Chars)
  BY PendingFacts, Zenon
<1>4. agenda \in Seq(Items)
  BY HeadFacts, Zenon
<1>5. Pending(ic) = PendingOf(agenda, ic)
  BY <1>4, PendingIs, Zenon DEF Pending
<1> QED BY <1>1, <1>2, <1>3, <1>5, Zenon

LEMMA PendingNext ==
  ASSUME GoesOn, NEW ic
  PROVE  Pending(ic)' = PendingOf(Tail(agenda), ic) /\ Left(ic)' = text'[ic]
<1>1. agenda' \in Seq(Items) /\ Keeps(agenda', Tail(agenda))
  BY Zenon DEF GoesOn, Continues
<1>2. Pending(ic)' = PendingOf(agenda', ic)
  BY <1>1, PendingIs, Zenon DEF Pending
<1>3. agenda' # <<>> => agenda'[1].do \notin {"erase", "delete"}
  BY Zenon DEF GoesOn, Continues
<1> QED BY <1>1, <1>2, <1>3 DEF Keeps, Left, Before

(* A step that goes on keeps the order of the agenda and what is in it but *)
(* for what was due.                                                       *)
LEMMA AgendaGoesOn ==
  ASSUME Inv, agenda # <<>>, GoesOn, composing' = composing, focus' = focus
  PROVE  AgendaInv' /\ FocusInv'
<1>1. agenda' # <<>> => Leads(agenda'[1], Tail(agenda'), composing) /\ agenda'[1].ic = agenda[1].ic
  BY Zenon DEF GoesOn, Continues
<1>2. focus \in {agenda[1].ic, NoIC} /\ FocusInv
  BY DEF Inv, AgendaInv
<1> QED BY <1>1, <1>2 DEF AgendaInv, FocusInv

LEMMA TailHas ==
  ASSUME Inv, agenda # <<>>, GoesOn, NEW D, Has(agenda, D), agenda[1].do \notin D
  PROVE  Has(agenda', D) /\ agenda' # <<>>
<1>1. Has(agenda, D) <=> agenda[1].do \in D \/ Has(Tail(agenda), D)
  BY HeadFacts, HasTail, Zenon
<1>2. Has(agenda', D)
  BY <1>1, Zenon DEF GoesOn, Continues
<1> QED BY <1>2, HasNothing, Zenon

(* TypeOK, in parts that steps leave alone.                                *)
EngineTypes ==
  /\ composing \in Seq(Letters) /\ preedit_string \in Seq(Letters)
  /\ preedit_state \in {"start", "end"}
  /\ is_committing \in BOOLEAN /\ ignore_reset \in BOOLEAN
ServerTypes ==
  /\ listing \in ICs \cup {NoIC} /\ focus \in ICs \cup {NoIC}
  /\ window \in Seq(Letters)
AppTypes ==
  /\ text \in [ICs -> Seq(Chars)] /\ entered \in [ICs -> Seq(Chars)]
  /\ shown \in [ICs -> Seq(Letters)]
  /\ inside \in [ICs -> BOOLEAN]

LEMMA TypesNow ==
  ASSUME TypeOK PROVE EngineTypes /\ ServerTypes /\ AppTypes /\ agenda \in Seq(Items)
  BY Zenon DEF TypeOK, EngineTypes, ServerTypes, AppTypes, Items, Dos

LEMMA TypesNext ==
  ASSUME EngineTypes', ServerTypes', AppTypes', agenda' \in Seq(Items) PROVE TypeOK'
  BY Zenon DEF TypeOK, EngineTypes, ServerTypes, AppTypes, Items, Dos

(* A text with another one appended to it.                                 *)
LEMMA AddText ==
  \A f \in [ICs -> Seq(Chars)], i \in ICs, t \in Seq(Chars) :
    /\ [f EXCEPT ![i] = @ \o t] \in [ICs -> Seq(Chars)]
    /\ \A ic \in ICs : [f EXCEPT ![i] = @ \o t][ic] = f[ic] \o (IF i = ic THEN t ELSE <<>>)
<1> SUFFICES ASSUME NEW f \in [ICs -> Seq(Chars)], NEW i \in ICs, NEW t \in Seq(Chars)
             PROVE  /\ [f EXCEPT ![i] = @ \o t] \in [ICs -> Seq(Chars)]
                    /\ \A ic \in ICs : [f EXCEPT ![i] = @ \o t][ic] = f[ic] \o (IF i = ic THEN t ELSE <<>>)
  BY Zenon
<1>1. f[i] \o t \in Seq(Chars)
  OBVIOUS
<1>2. [f EXCEPT ![i] = @ \o t] \in [ICs -> Seq(Chars)]
  BY <1>1
<1>3. ASSUME NEW ic \in ICs
      PROVE  [f EXCEPT ![i] = @ \o t][ic] = f[ic] \o (IF i = ic THEN t ELSE <<>>)
  <2>1. f[ic] \o <<>> = f[ic]
    OBVIOUS
  <2> QED BY <2>1
<1> QED BY <1>2, <1>3

LEMMA GoesOnType == ASSUME GoesOn PROVE agenda' \in Seq(Items)
  BY Zenon DEF GoesOn, Continues

(* What the step that is due gives to ic.                                  *)
Taken(ic) == IF agenda[1].ic = ic /\ agenda[1].do \in {"commit", "pass"} THEN agenda[1].text ELSE <<>>

(* It comes after what is left of the text.                                *)
LEMMA LeftFacts ==
  ASSUME TypeOK, agenda # <<>>, NEW ic \in ICs
  PROVE  /\ Left(ic) \in Seq(Chars) /\ Taken(ic) \in Seq(Chars)
         /\ ~ (agenda[1].ic = ic /\ agenda[1].do \in {"erase", "delete"}) => Left(ic) = text[ic]
         /\ agenda[1].ic = ic /\ agenda[1].do \in {"erase", "delete"} =>
              Left(ic) = IF text[ic] = <<>> THEN <<>> ELSE Front(text[ic])
<1>1. text[ic] \in Seq(Chars) /\ agenda[1] \in Items
  <2>1. agenda \in Seq(Items) /\ text \in [ICs -> Seq(Chars)]
    BY TypesNow, Zenon DEF AppTypes
  <2> QED BY <2>1
<1>2. \A t \in Seq(Chars) : t # <<>> => Front(t) \in Seq(Chars)
  BY DEF Front
<1>3. Left(ic) = Before(text[ic], agenda[1], ic)
  BY DEF Left
<1>4. Taken(ic) \in Seq(Chars)
  BY <1>1 DEF Taken, Items
<1> QED BY <1>1, <1>2, <1>3, <1>4 DEF Before

(* TextInv stays when what is given is appended, and when nothing is       *)
(* given.                                                                  *)
LEMMA TextMoves ==
  ASSUME Inv, agenda # <<>>, GoesOn, UNCHANGED <<composing, entered, focus>>,
         \A ic \in ICs : text'[ic] = Left(ic) \o Taken(ic)
  PROVE  TextInv'
<1> SUFFICES ASSUME NEW ic \in ICs
             PROVE  Left(ic)' \o Pending(ic)' \o (IF focus = ic THEN composing ELSE <<>>) = entered[ic]
  BY Zenon DEF TextInv
<1>1. Left(ic) \o Pending(ic) \o (IF focus = ic THEN composing ELSE <<>>) = entered[ic]
  BY Zenon DEF Inv, TextInv
<1>2. PICK p \in Seq(Chars) : p = PendingOf(Tail(agenda), ic)
  BY PendingHead, Zenon
<1>3. Pending(ic) = Taken(ic) \o p
  BY <1>2, PendingHead DEF Taken
<1>4. Pending(ic)' = p /\ Left(ic)' = text'[ic]
  BY <1>2, PendingNext, Zenon
<1>5. PICK t, u \in Seq(Chars) : t = Left(ic) /\ u = Taken(ic)
  BY LeftFacts, Zenon DEF Inv
<1>6. (t \o u) \o p = t \o (u \o p)
  OBVIOUS
<1>7. text'[ic] = t \o u
  BY <1>5, Zenon
<1> QED BY <1>1, <1>3, <1>4, <1>5, <1>6, <1>7

LEMMA TextStays ==
  ASSUME Inv, agenda # <<>>, GoesOn, agenda[1].do \notin {"commit", "pass", "erase", "delete"},
         UNCHANGED <<composing, text, entered, focus>>
  PROVE  TextInv'
<1>1. ASSUME NEW ic \in ICs PROVE text'[ic] = Left(ic) \o Taken(ic)
  <2>1. Taken(ic) = <<>>
    BY DEF Taken
  <2>2. Left(ic) = text[ic] /\ Left(ic) \in Seq(Chars)
    BY LeftFacts DEF Inv
  <2>3. PICK t \in Seq(Chars) : t = Left(ic)
    BY <2>2, Zenon
  <2>4. t \o <<>> = t
    OBVIOUS
  <2> QED BY <2>1, <2>2, <2>3, <2>4
<1> QED BY <1>1, TextMoves

(* The rest of the invariant, for a step that goes on.                     *)
LEMMA OtherParts ==
  ASSUME Inv, agenda # <<>>, GoesOn, UNCHANGED <<composing, entered, focus>>,
         listing' # NoIC => listing' = listing /\ agenda[1].do # "hide",
         CommitInv', SettledInv', TextInv', EngineTypes', ServerTypes', AppTypes'
  PROVE  Inv'
<1>1. AgendaInv' /\ FocusInv'
  BY AgendaGoesOn
<1>2. TypeOK'
  BY GoesOnType, TypesNext, Zenon
<1>3. ListInv'
  <2> SUFFICES ASSUME listing' # NoIC PROVE ListInv'
    BY Zenon DEF ListInv
  <2>1. listing' = listing /\ listing = focus /\ composing = <<>> /\ Has(agenda, {"hide"}) /\ agenda[1].do \notin {"hide"}
    BY DEF Inv, ListInv
  <2>2. Has(agenda', {"hide"}) /\ agenda' # <<>>
    BY <2>1, TailHas
  <2> QED BY <2>1, <2>2 DEF ListInv
<1> QED BY <1>1, <1>2, <1>3, Zenon DEF Inv

LEMMA CommitStays ==
  ASSUME Inv, agenda # <<>>, GoesOn, is_committing' => is_committing /\ agenda[1].do # "committed"
  PROVE  CommitInv'
<1> SUFFICES ASSUME is_committing' PROVE Has(agenda', {"committed"})
  BY Zenon DEF CommitInv
<1>1. Has(agenda, {"committed"}) /\ agenda[1].do \notin {"committed"}
  BY DEF Inv, CommitInv
<1> QED BY <1>1, TailHas

LEMMA PlainStep ==
  ASSUME Inv, agenda # <<>>, GoesOn, agenda[1].do \notin {"commit", "pass", "erase", "delete"},
         UNCHANGED <<composing, text, entered, focus>>,
         is_committing' => is_committing /\ agenda[1].do # "committed",
         listing' # NoIC => listing' = listing /\ agenda[1].do # "hide",
         SettledInv', EngineTypes', ServerTypes', AppTypes'
  PROVE  Inv'
<1>1. TextInv'
  BY TextStays
<1>2. CommitInv'
  BY CommitStays
<1> QED BY <1>1, <1>2, OtherParts

LEMMA SettledStays ==
  ASSUME Inv, agenda # <<>>, GoesOn, agenda[1].do \notin {"update", "change", "clear"},
         UNCHANGED <<composing, preedit_string>>
  PROVE  SettledInv'
<1>1. Has(agenda, {"update", "change", "clear"}) => Has(agenda', {"update", "change", "clear"})
  BY TailHas
<1> QED BY <1>1 DEF Inv, SettledInv

(* The steps of handlers. A commit and a key that is handed back append to *)
(* the text what was pending; erase and delete take its last character.    *)
LEMMA Handing ==
  ASSUME Inv, Commit \/ PassKey
  PROVE  GoesOn /\ Inv'
<1>0. EngineTypes /\ ServerTypes /\ AppTypes
  BY TypesNow, Zenon DEF Inv
<1>1. agenda # <<>> /\ agenda[1].do \in {"commit", "pass", "erase"}
  BY DEF Commit, PassKey, Due
<1>2. /\ Leads(agenda[1], Tail(agenda), composing) /\ agenda[1] \in Items /\ Tail(agenda) \in Seq(Items)
      /\ agenda[1].ic \in ICs /\ agenda[1].text \in Seq(Chars) /\ text \in [ICs -> Seq(Chars)]
  BY <1>0, <1>1, HeadFacts DEF Items, AppTypes
<1>3. GoesOn /\ CommitInv'
  <2>1. CASE Commit
    <3>1. Tail(agenda) # <<>> /\ Tail(agenda)[1].do = "committed"
      BY <1>2, <2>1 DEF Leads, Follows, Commit, Due
    <3>2. Then(Await("commit")) /\ Tail(agenda)[1].do # "change"
      BY <2>1, <3>1 DEF Commit
    <3>3. GoesOn
      BY <3>2, <1>1, AwaitStep, Zenon
    <3>4. Has(Tail(agenda), {"committed"})
      <4>1. Tail(agenda)[1].do \in {"committed"}
        BY <3>1
      <4> QED BY <1>2, <3>1, <4>1, HasTail, Zenon
    <3> QED BY <3>3, <3>4, Zenon DEF GoesOn, Continues, CommitInv
  <2>2. CASE PassKey
    <3>1. Then(<<>>) /\ is_committing' = is_committing /\ agenda[1].do # "committed"
      BY <1>1, <2>2 DEF PassKey, engineVars
    <3>2. GoesOn
      BY <3>1, <1>1, PopStep, Zenon
    <3> QED BY <3>1, <3>2, <1>1, CommitStays
  <2> QED BY <2>1, <2>2
<1>4. /\ is_committing' \in BOOLEAN
      /\ UNCHANGED <<composing, preedit_string, preedit_state, ignore_reset, listing, window,
                     focus, shown, inside, entered>>
  BY <1>0 DEF Commit, PassKey, engineVars, EngineTypes
<1>5. /\ text' \in [ICs -> Seq(Chars)]
      /\ \A ic \in ICs : text'[ic] = Left(ic) \o Taken(ic)
  <2>1. CASE agenda[1].do \in {"commit", "pass"}
    <3>1. PICK i \in ICs, t \in Seq(Chars) : i = agenda[1].ic /\ t = agenda[1].text
      BY <1>2, Zenon
    <3>2. text' = [text EXCEPT ![i] = @ \o t]
      BY <2>1, <3>1 DEF Commit, PassKey, Due, ic0, text0
    <3>3. text' \in [ICs -> Seq(Chars)] /\ \A ic \in ICs : text'[ic] = text[ic] \o (IF i = ic THEN t ELSE <<>>)
      BY <1>2, <3>2, AddText
    <3>4. \A ic \in ICs : Left(ic) = text[ic]
      BY <1>1, <2>1, LeftFacts DEF Inv
    <3>5. \A ic \in ICs : Taken(ic) = IF i = ic THEN t ELSE <<>>
      BY <2>1, <3>1 DEF Taken
    <3> QED BY <3>3, <3>4, <3>5
  <2>2. CASE agenda[1].do = "erase"
    <3>1. agenda[1].text = <<>>
      BY <1>2, <2>2 DEF Leads, Suits
    <3>2. text' = [text EXCEPT ![agenda[1].ic] = IF @ = <<>> THEN @ \o <<>> ELSE Front(@)]
      BY <2>2, <3>1 DEF Commit, PassKey, Due, ic0, text0
    <3>3. \A ic \in ICs : text'[ic] = Left(ic) /\ Left(ic) \in Seq(Chars)
      <4> SUFFICES ASSUME NEW ic \in ICs PROVE text'[ic] = Left(ic) /\ Left(ic) \in Seq(Chars)
        OBVIOUS
      <4>1. text'[ic] = IF agenda[1].ic = ic THEN (IF text[ic] = <<>> THEN text[ic] \o <<>> ELSE Front(text[ic])) ELSE text[ic]
        BY <1>2, <3>2
      <4>2. text[ic] = <<>> => text[ic] \o <<>> = <<>>
        OBVIOUS
      <4>3. /\ Left(ic) \in Seq(Chars)
            /\ agenda[1].ic # ic => Left(ic) = text[ic]
            /\ agenda[1].ic = ic => Left(ic) = IF text[ic] = <<>> THEN <<>> ELSE Front(text[ic])
        BY <1>1, <2>2, LeftFacts DEF Inv
      <4> QED BY <4>1, <4>2, <4>3
    <3>4. \A ic \in ICs : Taken(ic) = <<>>
      BY <2>2 DEF Taken
    <3>5. \A t \in Seq(Chars) : t \o <<>> = t
      OBVIOUS
    <3>6. text' \in [ICs -> Seq(Chars)]
      <4>1. DOMAIN text' = ICs /\ text' = [ic \in ICs |-> text'[ic]]
        BY <1>2, <3>2
      <4> QED BY <4>1, <3>3
    <3>7. \A ic \in ICs : Left(ic) \o Taken(ic) = Left(ic)
      BY <3>3, <3>4, <3>5
    <3> QED BY <3>3, <3>6, <3>7
  <2> QED BY <1>1, <2>1, <2>2
<1>6. EngineTypes' /\ ServerTypes' /\ AppTypes'
  BY <1>0, <1>4, <1>5 DEF EngineTypes, ServerTypes, AppTypes
<1>7. SettledInv'
  BY <1>1, <1>3, <1>4, SettledStays
<1>8. TextInv'
  BY <1>1, <1>3, <1>4, <1>5, TextMoves
<1> QED BY <1>1, <1>3, <1>4, <1>6, <1>7, <1>8, OtherParts

LEMMA Deleting ==
  ASSUME Inv, DeleteSurrounding
  PROVE  GoesOn /\ Inv'
<1>0. EngineTypes /\ ServerTypes /\ AppTypes
  BY TypesNow, Zenon DEF Inv
<1>1. agenda # <<>> /\ agenda[1].do = "delete"
  BY DEF DeleteSurrounding, Due
<1>2. Leads(agenda[1], Tail(agenda), composing) /\ agenda[1].ic \in ICs /\ text \in [ICs -> Seq(Chars)]
  BY <1>0, <1>1, HeadFacts DEF Items, AppTypes
<1>3. composing = <<>>
  BY <1>1, <1>2 DEF Leads, Suits
<1>4. Then(Await("delete-surrounding")) /\ text' = [text EXCEPT ![agenda[1].ic] = IF @ = <<>> THEN @ ELSE Front(@)]
  BY DEF DeleteSurrounding, ic0
<1>5. GoesOn
  BY <1>1, <1>3, <1>4, AwaitStep
<1>6. UNCHANGED <<composing, preedit_string, preedit_state, is_committing, ignore_reset, listing, window,
                  focus, shown, inside, entered>>
  BY DEF DeleteSurrounding, engineVars
<1>7. \A ic \in ICs : text'[ic] = Left(ic) /\ Left(ic) \in Seq(Chars)
  <2> SUFFICES ASSUME NEW ic \in ICs PROVE text'[ic] = Left(ic) /\ Left(ic) \in Seq(Chars)
    OBVIOUS
  <2>1. text'[ic] = IF agenda[1].ic = ic THEN (IF text[ic] = <<>> THEN text[ic] ELSE Front(text[ic])) ELSE text[ic]
    BY <1>2, <1>4
  <2>2. /\ Left(ic) \in Seq(Chars)
        /\ agenda[1].ic # ic => Left(ic) = text[ic]
        /\ agenda[1].ic = ic => Left(ic) = IF text[ic] = <<>> THEN <<>> ELSE Front(text[ic])
    BY <1>1, LeftFacts DEF Inv
  <2> QED BY <2>1, <2>2
<1>8. text' \in [ICs -> Seq(Chars)]
  <2>1. text' = [ic \in ICs |-> text'[ic]]
    BY <1>2, <1>4
  <2> QED BY <2>1, <1>7
<1>9. EngineTypes' /\ ServerTypes' /\ AppTypes'
  BY <1>0, <1>6, <1>8 DEF EngineTypes, ServerTypes, AppTypes
<1>10. TextInv'
  <2>1. \A ic \in ICs : Taken(ic) = <<>>
    BY <1>1 DEF Taken
  <2>2. \A t \in Seq(Chars) : t \o <<>> = t
    OBVIOUS
  <2>3. \A ic \in ICs : Left(ic) \o Taken(ic) = text'[ic]
    BY <1>7, <2>1, <2>2
  <2> QED BY <1>1, <1>5, <1>6, <2>3, TextMoves
<1>11. SettledInv'
  BY <1>1, <1>5, <1>6, SettledStays
<1>12. CommitInv'
  BY <1>1, <1>5, <1>6, CommitStays
<1> QED BY <1>1, <1>5, <1>6, <1>9, <1>10, <1>11, <1>12, OtherParts

(* Steps that emit nothing, and the second emission of the same preedit.   *)
LEMMA Popping ==
  ASSUME Inv, Committed \/ Again \/ ShowWindow \/ HideCandidates \/ Unfocus \/ Reply
  PROVE  Inv' /\ GoesOn
<1>1. EngineTypes /\ ServerTypes /\ AppTypes
  BY TypesNow, Zenon DEF Inv
<1>2. CASE Committed
  <2>1. agenda # <<>> /\ agenda[1].do = "committed" /\ Then(<<>>)
    BY <1>2 DEF Committed, Due
  <2>2. GoesOn
    BY <2>1, PopStep, Zenon
  <2>3. /\ is_committing' = FALSE
        /\ UNCHANGED <<composing, preedit_string, preedit_state, ignore_reset, listing, window,
                       focus, text, shown, inside, entered>>
    BY <1>2 DEF Committed, appVars
  <2>4. EngineTypes' /\ ServerTypes' /\ AppTypes'
    BY <1>1, <2>3 DEF EngineTypes, ServerTypes, AppTypes
  <2>5. SettledInv'
    BY <2>1, <2>2, <2>3, SettledStays
  <2> QED BY <2>1, <2>2, <2>3, <2>4, <2>5, PlainStep
<1>3. CASE ShowWindow
  <2>1. agenda # <<>> /\ agenda[1].do = "window" /\ Then(<<>>)
    BY <1>3 DEF ShowWindow, Due
  <2>2. GoesOn
    BY <2>1, PopStep, Zenon
  <2>3. /\ window' = (IF ic0 \notin Inline /\ listing = NoIC THEN text0 ELSE <<>>)
        /\ UNCHANGED <<composing, preedit_string, preedit_state, is_committing, ignore_reset, listing,
                       focus, text, shown, inside, entered>>
    BY <1>3 DEF ShowWindow, appVars, engineVars
  <2>4. window' \in Seq(Letters)
    <3>1. agenda[1].text \in Seq(Letters)
      BY <2>1, HeadFacts DEF Leads, Suits
    <3> QED BY <2>3, <3>1 DEF text0
  <2>5. EngineTypes' /\ ServerTypes' /\ AppTypes'
    BY <1>1, <2>3, <2>4 DEF EngineTypes, ServerTypes, AppTypes
  <2>6. SettledInv'
    BY <2>1, <2>2, <2>3, SettledStays
  <2> QED BY <2>1, <2>2, <2>3, <2>5, <2>6, PlainStep
<1>4. CASE HideCandidates
  <2>1. agenda # <<>> /\ agenda[1].do = "hide" /\ Then(<<>>)
    BY <1>4 DEF HideCandidates, Due
  <2>2. GoesOn
    BY <2>1, PopStep, Zenon
  <2>3. /\ listing' = NoIC
        /\ UNCHANGED <<composing, preedit_string, preedit_state, is_committing, ignore_reset, window,
                       focus, text, shown, inside, entered>>
    BY <1>4 DEF HideCandidates, appVars, engineVars
  <2>4. EngineTypes' /\ ServerTypes' /\ AppTypes'
    BY <1>1, <2>3 DEF EngineTypes, ServerTypes, AppTypes
  <2>5. SettledInv'
    BY <2>1, <2>2, <2>3, SettledStays
  <2> QED BY <2>1, <2>2, <2>3, <2>4, <2>5, PlainStep
<1>5. CASE Unfocus
  <2>1. agenda # <<>> /\ agenda[1].do = "unfocus" /\ Then(<<>>)
    BY <1>5 DEF Unfocus, Due
  <2>2. GoesOn
    BY <2>1, PopStep, Zenon
  <2>3. /\ window' = <<>>
        /\ UNCHANGED <<composing, preedit_string, preedit_state, is_committing, ignore_reset, listing,
                       focus, text, shown, inside, entered>>
    BY <1>5 DEF Unfocus, appVars, engineVars
  <2>4. EngineTypes' /\ ServerTypes' /\ AppTypes'
    BY <1>1, <2>3 DEF EngineTypes, ServerTypes, AppTypes
  <2>5. SettledInv'
    BY <2>1, <2>2, <2>3, SettledStays
  <2> QED BY <2>1, <2>2, <2>3, <2>4, <2>5, PlainStep
<1>6. CASE Reply
  <2>1. agenda # <<>> /\ agenda[1].do \in Waits /\ Then(<<>>)
    BY <1>6 DEF Reply
  <2>2. GoesOn
    BY <2>1, PopStep, Zenon
  <2>3. UNCHANGED <<composing, preedit_string, preedit_state, is_committing, ignore_reset, listing, window,
                    focus, text, shown, inside, entered>>
    BY <1>6 DEF Reply, appVars, engineVars
  <2>4. EngineTypes' /\ ServerTypes' /\ AppTypes'
    BY <1>1, <2>3 DEF EngineTypes, ServerTypes, AppTypes
  <2>5. SettledInv'
    BY <2>1, <2>2, <2>3, SettledStays DEF Waits
  <2> QED BY <2>1, <2>2, <2>3, <2>4, <2>5, PlainStep DEF Waits
<1>7. CASE Again
  <2>1. agenda # <<>> /\ agenda[1].do = "again" /\ EmitChanged(preedit_string)
    BY <1>7 DEF Again, Due
  <2>2. Tail(agenda) = <<>> /\ preedit_string \in Seq(Letters)
    BY <1>1, <2>1, HeadFacts DEF Leads, Follows, EngineTypes
  <2>3. GoesOn
    BY <2>1, <2>2, ChangedStep, Zenon
  <2>4. /\ shown' = (IF ic0 \in Inline THEN [shown EXCEPT ![ic0] = preedit_string] ELSE shown)
        /\ UNCHANGED <<composing, preedit_string, preedit_state, is_committing, ignore_reset, listing, window,
                       focus, text, inside, entered>>
    BY <1>7 DEF Again, EmitChanged, engineVars
  <2>5. EngineTypes' /\ ServerTypes' /\ AppTypes'
    BY <1>1, <2>2, <2>4 DEF EngineTypes, ServerTypes, AppTypes
  <2>6. SettledInv'
    BY <2>1, <2>3, <2>4, SettledStays
  <2> QED BY <2>1, <2>3, <2>4, <2>5, <2>6, PlainStep
<1> QED BY <1>2, <1>3, <1>4, <1>5, <1>6, <1>7

(* update_preedit is called, with the syllable if there is one.            *)
LEMMA Preediting ==
  ASSUME Inv, Update \/ ClearPreedit
  PROVE  /\ Inv' /\ GoesOn
         /\ \/ agenda' = Tail(agenda)
            \/ \E t \in Seq(Letters) : Updating(agenda', agenda[1].ic, t, Tail(agenda), composing)
<1>1. EngineTypes /\ ServerTypes /\ AppTypes
  BY TypesNow, Zenon DEF Inv
<1>2. ASSUME NEW t \in Seq(Letters), Updating(agenda', agenda[1].ic, t, Tail(agenda), composing)
      PROVE  SettledInv'
  <2>1. Has(agenda', {"update", "change", "clear"}) <=>
          (\E d \in {"start", "change", "end"} : d \in {"update", "change", "clear"}) \/ Has(Tail(agenda), {"update", "change", "clear"})
    BY <1>2, Zenon DEF Updating, Gains
  <2> QED BY <2>1 DEF SettledInv
<1>3. CASE Update
  <2>1. agenda # <<>> /\ agenda[1].do = "update" /\ Then(UpdatePreedit(ic0, composing))
    BY <1>3 DEF Update, Due
  <2>2. composing # <<>> => Tail(agenda) = <<>>
    BY <2>1, HeadFacts DEF Leads, Follows
  <2>3. composing \in Seq(Letters)
    BY <1>1, Zenon DEF EngineTypes
  <2>4. Updating(agenda', agenda[1].ic, composing, Tail(agenda), composing) /\ GoesOn
    BY <2>1, <2>2, <2>3, UpdateStep
  <2>5. UNCHANGED <<composing, preedit_string, preedit_state, is_committing, ignore_reset, listing, window,
                    focus, text, shown, inside, entered>>
    BY <1>3 DEF Update, appVars, engineVars
  <2>6. EngineTypes' /\ ServerTypes' /\ AppTypes'
    BY <1>1, <2>5 DEF EngineTypes, ServerTypes, AppTypes
  <2>7. SettledInv'
    BY <1>2, <2>3, <2>4, Zenon
  <2>8. Inv'
    BY <2>1, <2>4, <2>5, <2>6, <2>7, PlainStep
  <2> QED BY <2>3, <2>4, <2>8
<1>4. CASE ClearPreedit
  <2>1. /\ agenda # <<>> /\ agenda[1].do = "clear"
        /\ Then(IF preedit_string # <<>> THEN UpdatePreedit(ic0, <<>>) ELSE <<>>)
    BY <1>4 DEF ClearPreedit, Due
  <2>2. composing = <<>> /\ <<>> \in Seq(Letters)
    BY <2>1, HeadFacts DEF Leads, Suits
  <2>5. UNCHANGED <<composing, preedit_string, preedit_state, is_committing, ignore_reset, listing, window,
                    focus, text, shown, inside, entered>>
    BY <1>4 DEF ClearPreedit, appVars, engineVars
  <2>6. EngineTypes' /\ ServerTypes' /\ AppTypes'
    BY <1>1, <2>5 DEF EngineTypes, ServerTypes, AppTypes
  <2>7. CASE preedit_string # <<>>
    <3>1. Then(UpdatePreedit(ic0, <<>>))
      BY <2>1, <2>7
    <3>2. Updating(agenda', agenda[1].ic, <<>>, Tail(agenda), composing) /\ GoesOn
      BY <2>1, <2>2, <3>1, UpdateStep
    <3>3. SettledInv'
      BY <1>2, <2>2, <3>2
    <3>4. Inv'
      BY <2>1, <2>5, <2>6, <3>2, <3>3, PlainStep
    <3> QED BY <2>2, <3>2, <3>4
  <2>8. CASE preedit_string = <<>>
    <3>1. agenda' = Tail(agenda) /\ GoesOn
      BY <2>1, <2>8, PopStep
    <3>2. SettledInv'
      BY <2>2, <2>5, <2>8 DEF SettledInv
    <3>3. Inv'
      BY <2>1, <2>5, <2>6, <3>1, <3>2, PlainStep
    <3> QED BY <3>1, <3>3
  <2> QED BY <2>7, <2>8
<1> QED BY <1>3, <1>4

(* Its three steps: start, change, end.                                    *)
LEMMA Starting ==
  ASSUME Inv, Start
  PROVE  Inv' /\ GoesOn
<1>1. EngineTypes /\ ServerTypes /\ AppTypes
  BY TypesNow, Zenon DEF Inv
<1>2. agenda # <<>> /\ agenda[1].do = "start"
  BY DEF Start, Due
<1>3. UNCHANGED <<composing, preedit_string, is_committing, ignore_reset, listing, window,
                  focus, text, shown, entered>>
  BY DEF Start
<1>4. GoesOn
  <2>1. CASE Then(<<>>)
    BY <1>2, <2>1, PopStep, Zenon
  <2>2. CASE Then(Await("preedit-start"))
    <3>1. ~ ("preedit-start" \in Callbacks /\ composing # <<>> /\ Quiet /\ Tail(agenda) # <<>>)
      BY DEF Quiet
    <3> QED BY <1>2, <2>2, <3>1, AwaitStep, Zenon
  <2> QED BY <2>1, <2>2 DEF Start
<1>5. preedit_state' \in {"start", "end"} /\ inside' \in [ICs -> BOOLEAN]
  BY <1>1 DEF Start, EngineTypes, AppTypes
<1>6. EngineTypes' /\ ServerTypes' /\ AppTypes'
  BY <1>1, <1>3, <1>5 DEF EngineTypes, ServerTypes, AppTypes
<1>7. SettledInv'
  BY <1>2, <1>3, <1>4, SettledStays
<1> QED BY <1>2, <1>3, <1>4, <1>6, <1>7, PlainStep

LEMMA Changing ==
  ASSUME Inv, Change
  PROVE  Inv' /\ GoesOn
<1>1. EngineTypes /\ ServerTypes /\ AppTypes
  BY TypesNow, Zenon DEF Inv
<1>2. agenda # <<>> /\ agenda[1].do = "change"
  BY DEF Change, Due
<1>3. UNCHANGED <<composing, preedit_state, is_committing, ignore_reset, listing, window,
                  focus, text, inside, entered>>
  BY DEF Change
<1>4. /\ text0 \in Seq(Letters) /\ (composing # <<>> \/ Quiet => text0 = composing)
      /\ Tail(agenda) # <<>> /\ Tail(agenda)[1].do = "end"
  BY <1>2, HeadFacts DEF Leads, Suits, Follows, text0
<1>5. CASE preedit_string # <<>> \/ text0 # <<>>
  <2>1. preedit_string' = text0 /\ EmitChanged(text0)
    BY <1>5 DEF Change
  <2>2. Tail(agenda)[1].do # "change"
    BY <1>4
  <2>3. GoesOn
    BY <1>2, <1>4, <2>1, <2>2, ChangedStep, Zenon
  <2>4. shown' = (IF ic0 \in Inline THEN [shown EXCEPT ![ic0] = text0] ELSE shown)
    BY <2>1 DEF EmitChanged
  <2>5. EngineTypes' /\ ServerTypes' /\ AppTypes'
    BY <1>1, <1>3, <1>4, <2>1, <2>4 DEF EngineTypes, ServerTypes, AppTypes
  <2>6. SettledInv'
    BY <1>3, <1>4, <2>1 DEF SettledInv
  <2> QED BY <1>2, <1>3, <2>3, <2>5, <2>6, PlainStep
<1>6. CASE preedit_string = <<>> /\ text0 = <<>>
  <2>1. Then(<<>>) /\ UNCHANGED <<preedit_string, shown>>
    BY <1>6 DEF Change
  <2>2. GoesOn
    BY <1>2, <2>1, PopStep, Zenon
  <2>3. EngineTypes' /\ ServerTypes' /\ AppTypes'
    BY <1>1, <1>3, <2>1 DEF EngineTypes, ServerTypes, AppTypes
  <2>4. SettledInv'
    BY <1>3, <1>4, <1>6, <2>1 DEF SettledInv
  <2> QED BY <1>2, <1>3, <2>1, <2>2, <2>3, <2>4, PlainStep
<1> QED BY <1>5, <1>6

LEMMA Ending ==
  ASSUME Inv, End
  PROVE  Inv' /\ GoesOn
<1>1. EngineTypes /\ ServerTypes /\ AppTypes
  BY TypesNow, Zenon DEF Inv
<1>2. agenda # <<>> /\ agenda[1].do = "end"
  BY DEF End, Due
<1>3. UNCHANGED <<composing, preedit_string, is_committing, ignore_reset, listing,
                  focus, text, shown, entered>>
  BY DEF End
<1>4. GoesOn
  <2>1. CASE Then(<<>>)
    BY <1>2, <2>1, PopStep, Zenon
  <2>2. CASE Then(Await("preedit-end"))
    <3>1. composing # <<>> => Tail(agenda) = <<>>
      BY <1>2, HeadFacts DEF Leads, Follows
    <3> QED BY <1>2, <2>2, <3>1, AwaitStep, Zenon
  <2> QED BY <2>1, <2>2 DEF End
<1>5. preedit_state' \in {"start", "end"} /\ inside' \in [ICs -> BOOLEAN] /\ window' \in Seq(Letters)
  <2>1. preedit_state' \in {"start", "end"}
    BY <1>1 DEF End, EngineTypes
  <2>2. inside' \in [ICs -> BOOLEAN]
    BY <1>1 DEF End, AppTypes
  <2>3. window' = window \/ window' = <<>>
    BY DEF End
  <2>4. window' \in Seq(Letters)
    <3>1. window \in Seq(Letters)
      BY <1>1, Zenon DEF ServerTypes
    <3>2. <<>> \in Seq(Letters)
      OBVIOUS
    <3> QED BY <2>3, <3>1, <3>2, Zenon
  <2> QED BY <2>1, <2>2, <2>4, Zenon
<1>6. EngineTypes' /\ ServerTypes' /\ AppTypes'
  BY <1>1, <1>3, <1>5 DEF EngineTypes, ServerTypes, AppTypes
<1>7. SettledInv'
  BY <1>2, <1>3, <1>4, SettledStays
<1> QED BY <1>2, <1>3, <1>4, <1>6, <1>7, PlainStep

-----------------------------------------------------------------------------
(* s gives p to ic and nothing to others.                                  *)
Pends(s, ic, p) == \A i : PendingOf(s, i) = IF i = ic THEN p ELSE <<>>

(* s is steps for ic which give it p, whatever comes before them.          *)
Script(s, c, ic, p) ==
  /\ s \in Seq(Items) /\ Rest(s, c, ic)
  /\ Pends(s, ic, p)

(* s can be an agenda: it is for ic and gives it p, and a handler without  *)
(* an erase or delete at its head is called.                               *)
Leading(s, c, ic, p) ==
  /\ s \in Seq(Items) /\ s # <<>> /\ Tail(s) \in Seq(Items)
  /\ Leads(s[1], Tail(s), c) /\ s[1].ic = ic
  /\ ic \notin Inline => s[1].do # "window"
  /\ Pends(s, ic, p)

Calls(s, c, ic, p) == Leading(s, c, ic, p) /\ s[1].do \notin {"erase", "delete"}

(* What an item gives.                                                     *)
Worth(x) == IF x.do \in {"commit", "pass"} THEN x.text ELSE <<>>

(* Scripts are built from the end: by a step, a commit, an update.         *)
LEMMA NoScript == \A c, ic : Script(<<>>, c, ic, <<>>)
<1> TAKE c, ic
<1>1. <<>> \in Seq(Items)
  OBVIOUS
<1>2. \A i : PendingOf(<<>>, i) = <<>>
  BY PendingFacts, Zenon
<1>3. Pends(<<>>, ic, <<>>)
  BY <1>2 DEF Pends
<1> QED BY <1>1, <1>3, RestNothing, Zenon DEF Script

LEMMA PushPending ==
  \A c, ic : \A x \in Items, s \in Seq(Items), p \in Seq(Chars) :
    x.ic = ic /\ Script(s, c, ic, p) => Pends(<<x>> \o s, ic, Worth(x) \o p)
<1> SUFFICES ASSUME NEW c, NEW ic, NEW x \in Items, NEW s \in Seq(Items), NEW p \in Seq(Chars),
                    x.ic = ic, Script(s, c, ic, p)
             PROVE  Pends(<<x>> \o s, ic, Worth(x) \o p)
  BY Zenon
<1> SUFFICES ASSUME NEW i PROVE PendingOf(<<x>> \o s, i) = IF i = ic THEN Worth(x) \o p ELSE <<>>
  BY Zenon DEF Pends
<1>1. PendingOf(<<x>> \o s, i) =
        (IF x.ic = i /\ x.do \in {"commit", "pass"} THEN x.text ELSE <<>>) \o PendingOf(s, i)
  BY PendingFacts, Zenon
<1>2. PendingOf(s, i) = IF i = ic THEN p ELSE <<>>
  BY DEF Script, Pends
<1>3. <<>> \o <<>> = <<>>
  OBVIOUS
<1>4. CASE i = ic
  BY <1>1, <1>2, <1>4 DEF Worth
<1>5. CASE i # ic
  BY <1>1, <1>2, <1>3, <1>5
<1> QED BY <1>4, <1>5

LEMMA PushScript ==
  \A c, ic : \A x \in Items, s \in Seq(Items), p \in Seq(Chars) :
    Pushable(x, s, c, ic) /\ Script(s, c, ic, p) => Script(<<x>> \o s, c, ic, Worth(x) \o p)
<1> SUFFICES ASSUME NEW c, NEW ic, NEW x \in Items, NEW s \in Seq(Items), NEW p \in Seq(Chars),
                    Pushable(x, s, c, ic), Script(s, c, ic, p)
             PROVE  Script(<<x>> \o s, c, ic, Worth(x) \o p)
  BY Zenon
<1>1. x.ic = ic
  BY DEF Pushable, Inner, Suits
<1>2. <<x>> \o s \in Seq(Items)
  BY PushFacts, Zenon
<1>3. Rest(<<x>> \o s, c, ic)
  BY RestCons, Zenon
<1> QED BY <1>1, <1>2, <1>3, PushPending, Zenon DEF Script

LEMMA LeadCalls ==
  \A c, ic : \A x \in Items, s \in Seq(Items), p \in Seq(Chars) :
    Leads(x, s, c) /\ x.ic = ic /\ x.do # "window" /\ Script(s, c, ic, p) => Leading(<<x>> \o s, c, ic, Worth(x) \o p)
<1> SUFFICES ASSUME NEW c, NEW ic, NEW x \in Items, NEW s \in Seq(Items), NEW p \in Seq(Chars),
                    Leads(x, s, c), x.ic = ic, x.do # "window", Script(s, c, ic, p)
             PROVE  Leading(<<x>> \o s, c, ic, Worth(x) \o p)
  BY Zenon
<1>1. PICK w \in Seq(Items) : w = <<x>> \o s
  BY PushFacts, Zenon
<1>2. w # <<>> /\ w[1] = x /\ Tail(w) = s
  BY <1>1, PushFacts, Zenon
<1>3. Pends(w, ic, Worth(x) \o p)
  BY <1>1, PushPending, Zenon
<1>4. w[1].do # "window"
  BY <1>2
<1> QED BY <1>1, <1>2, <1>3, <1>4, Zenon DEF Leading

LEMMA ScriptCalls ==
  \A c, ic, p : \A s \in Seq(Items) : s # <<>> /\ Script(s, c, ic, p) => Calls(s, c, ic, p)
<1> SUFFICES ASSUME NEW c, NEW ic, NEW p, NEW s \in Seq(Items), s # <<>>, Script(s, c, ic, p)
             PROVE  Calls(s, c, ic, p)
  BY Zenon
<1>1. PICK x \in Items, r \in Seq(Items) : x = s[1] /\ r = Tail(s)
  BY PopFacts, Zenon
<1>2. /\ Rest(r, c, ic) /\ Inner(x, c, ic) /\ Follows(x, r # <<>>, r[1], c)
      /\ c # <<>> => ~ Has(r, {"change"})
  BY <1>1, RestTail, Zenon DEF Script
<1>3. x.ic = ic /\ Suits(x, c, ic)
  BY <1>2 DEF Inner, Suits
<1>4. c # <<>> /\ r # <<>> => r[1].do # "change"
  <2>1. r # <<>> => 1 \in 1 .. Len(r)
    OBVIOUS
  <2> QED BY <1>2, <2>1 DEF Has
<1>5. Leads(x, r, c)
  BY <1>2, <1>3, <1>4, Zenon DEF Leads
<1>6. s[1].do \notin {"erase", "delete"} /\ (ic \notin Inline => s[1].do # "window")
  BY <1>1, <1>2 DEF Inner
<1> QED BY <1>1, <1>3, <1>5, <1>6, Zenon DEF Calls, Leading, Script

LEMMA EmitCalls ==
  ASSUME NEW c, NEW s, NEW p, NEW ic \in ICs, NEW t \in Seq(Chars),
         Script(s, c, ic, p), c # <<>> => ~ Has(s, {"change"})
  PROVE  /\ Calls(EmitCommit(ic, t) \o s, c, ic, t \o p)
         /\ c = <<>> => Script(EmitCommit(ic, t) \o s, c, ic, t \o p)
         /\ \A D : Has(s, D) => Has(EmitCommit(ic, t) \o s, D)
         /\ ~ Has(s, {"change"}) => ~ Has(EmitCommit(ic, t) \o s, {"change"})
<1>1. s \in Seq(Items) /\ Rest(s, c, ic)
  BY Zenon DEF Script
<1>2. Emitting(EmitCommit(ic, t) \o s, ic, t, s, c)
  BY <1>1, EmitFacts, Zenon
<1>3. PICK w : w = EmitCommit(ic, t) \o s
  OBVIOUS
<1>4. /\ Head1(w, Item("commit", ic, t), c) /\ Gains(w, s, {"commit", "committed"})
      /\ c = <<>> => Rest(w, c, ic)
      /\ \A i : PendingOf(w, i) = (IF i = ic THEN t ELSE <<>>) \o PendingOf(s, i)
  BY <1>2, <1>3, Zenon DEF Emitting
<1>5. Pends(w, ic, t \o p)
  <2>1. <<>> \o <<>> = <<>>
    OBVIOUS
  <2>2. \A i : PendingOf(s, i) = IF i = ic THEN p ELSE <<>>
    BY DEF Script, Pends
  <2> QED BY <1>4, <2>1, <2>2 DEF Pends
<1>6. /\ w \in Seq(Items) /\ w # <<>> /\ Tail(w) \in Seq(Items)
      /\ w[1] = Item("commit", ic, t) /\ Leads(w[1], Tail(w), c)
  BY <1>4, Zenon DEF Head1
<1>7. w[1].ic = ic /\ w[1].do \notin {"erase", "delete"} /\ (ic \notin Inline => w[1].do # "window")
  BY <1>6 DEF Item
<1>8. \A D : Has(s, D) => Has(w, D)
  BY <1>4, Zenon DEF Gains
<1>9. Has(w, {"change"}) => Has(s, {"change"})
  <2>1. Has(w, {"change"}) <=> (\E d \in {"commit", "committed"} : d \in {"change"}) \/ Has(s, {"change"})
    BY <1>4, Zenon DEF Gains
  <2> QED BY <2>1
<1> QED BY <1>3, <1>4, <1>5, <1>6, <1>7, <1>8, <1>9, Zenon DEF Calls, Leading, Script

LEMMA UpdateCalls ==
  \A s, p : \A ic \in ICs :
    Script(s, <<>>, ic, p) =>
      /\ Script(UpdatePreedit(ic, <<>>) \o s, <<>>, ic, p)
      /\ UpdatePreedit(ic, <<>>) \o s # <<>>
      /\ Gains(UpdatePreedit(ic, <<>>) \o s, s, {"start", "change", "end"})
<1> SUFFICES ASSUME NEW s, NEW p, NEW ic \in ICs, Script(s, <<>>, ic, p)
             PROVE  /\ Script(UpdatePreedit(ic, <<>>) \o s, <<>>, ic, p)
                    /\ UpdatePreedit(ic, <<>>) \o s # <<>>
                    /\ Gains(UpdatePreedit(ic, <<>>) \o s, s, {"start", "change", "end"})
  BY Zenon
<1>1. s \in Seq(Items) /\ Rest(s, <<>>, ic)
  BY Zenon DEF Script
<1>0. <<>> \in Seq(Letters)
  OBVIOUS
<1>2. PICK c, t \in Seq(Letters) : c = <<>> /\ t = <<>>
  BY <1>0, Zenon
<1>3. Updating(UpdatePreedit(ic, t) \o s, ic, t, s, c)
  <2>1. Rest(s, c, ic) /\ (c # <<>> \/ Quiet => t = c) /\ (c # <<>> => s = <<>>)
    BY <1>1, <1>2
  <2> QED BY <1>1, <2>1, UpdateFacts, Zenon
<1>4. PICK w : w = UpdatePreedit(ic, t) \o s
  OBVIOUS
<1>5. /\ Head1(w, Item("start", ic, t), c) /\ Rest(w, c, ic)
      /\ Gains(w, s, {"start", "change", "end"}) /\ Keeps(w, s)
  BY <1>2, <1>3, <1>4, Zenon DEF Updating
<1>6. Pends(w, ic, p)
  BY <1>5 DEF Keeps, Script, Pends
<1>7. w \in Seq(Items) /\ w # <<>>
  BY <1>5, Zenon DEF Head1
<1> QED BY <1>2, <1>4, <1>5, <1>6, <1>7, Zenon DEF Script

(* What handlers are made of are items.                                    *)
LEMMA PartTypes ==
  \A ic \in ICs :
    /\ \A d \in Dos, t \in Seq(Chars) : Do(d, ic, t) \in Seq(Items)
    /\ \A t \in Seq(Chars) : EmitCommit(ic, t) \in Seq(Items) /\ CommitAny(ic, t) \in Seq(Items)
    /\ \A t \in Seq(Letters) : UpdatePreedit(ic, t) \in Seq(Items)
<1> SUFFICES ASSUME NEW ic \in ICs
             PROVE  /\ \A d \in Dos, t \in Seq(Chars) : Do(d, ic, t) \in Seq(Items)
                    /\ \A t \in Seq(Chars) : EmitCommit(ic, t) \in Seq(Items) /\ CommitAny(ic, t) \in Seq(Items)
                    /\ \A t \in Seq(Letters) : UpdatePreedit(ic, t) \in Seq(Items)
  BY Zenon
<1>1. \A d \in Dos, t \in Seq(Chars) : Do(d, ic, t) \in Seq(Items)
  BY DEF Do, Items
<1>2. \A a, b \in Seq(Items) : a \o b \in Seq(Items)
  OBVIOUS
<1>3. /\ {"commit", "committed", "start", "change", "end"} \subseteq Dos /\ <<>> \in Seq(Chars) /\ <<>> \in Seq(Items)
  BY DEF Dos, Steps
<1>4. \A t \in Seq(Chars) : EmitCommit(ic, t) \in Seq(Items)
  <2> TAKE t \in Seq(Chars)
  <2>1. PICK a, b \in Seq(Items) : a = Do("commit", ic, t) /\ b = Do("committed", ic, <<>>)
    BY <1>1, <1>3
  <2> QED BY <2>1, <1>2 DEF EmitCommit
<1>5. \A t \in Seq(Chars) : CommitAny(ic, t) \in Seq(Items)
  BY <1>3, <1>4 DEF CommitAny
<1>6. \A t \in Seq(Letters) : UpdatePreedit(ic, t) \in Seq(Items)
  <2> TAKE t \in Seq(Letters)
  <2>1. t \in Seq(Chars)
    BY LettersAreChars
  <2>2. PICK a, b, d \in Seq(Items) : a = Do("start", ic, t) /\ b = Do("change", ic, t) /\ d = Do("end", ic, <<>>)
    BY <1>1, <1>3, <2>1
  <2>3. (a \o b) \o d \in Seq(Items)
    OBVIOUS
  <2> QED BY <2>2, <2>3 DEF UpdatePreedit
<1> QED BY <1>1, <1>4, <1>5, <1>6, Zenon

(* What is left of handlers is a script.                                   *)
LEMMA RestScript ==
  \A c, ic : \A s \in Seq(Items) : Rest(s, c, ic) => Script(s, c, ic, PendingOf(s, ic))
<1> SUFFICES ASSUME NEW c, NEW ic, NEW s \in Seq(Items), Rest(s, c, ic)
             PROVE  Script(s, c, ic, PendingOf(s, ic))
  BY Zenon
<1>1. ASSUME NEW i, i # ic PROVE PendingOf(s, i) = <<>>
  <2>1. Gathers(Gives(i), Items, Chars)
    BY DEF Gives, Items, Gathers
  <2>2. \A n \in DOMAIN s : Gives(i)[s[n]] = <<>>
    <3>1. \A n \in DOMAIN s : s[n] \in Items /\ n \in 1 .. Len(s)
      OBVIOUS
    <3>2. \A n \in 1 .. Len(s) : s[n].ic = ic
      BY DEF Rest, Inner, Suits
    <3> QED BY <3>1, <3>2, <1>1 DEF Gives
  <2> QED BY <2>1, <2>2, ThroughFacts, Zenon DEF PendingOf
<1>2. Pends(s, ic, PendingOf(s, ic))
  BY <1>1 DEF Pends
<1> QED BY <1>2, Zenon DEF Script

(* While there is a syllable nothing is pending in what is left of         *)
(* handlers, and they fit the empty syllable that a reset leaves as well.  *)
LEMMA RestFlushed ==
  \A c, ic : \A s \in Seq(Items) :
    Rest(s, c, ic) /\ c # <<>> /\ (Quiet => ~ Has(s, {"change"})) => Rest(s, <<>>, ic) /\ PendingOf(s, ic) = <<>>
<1> SUFFICES ASSUME NEW c, NEW ic, NEW s \in Seq(Items),
                    Rest(s, c, ic), c # <<>>, Quiet => ~ Has(s, {"change"})
             PROVE  Rest(s, <<>>, ic) /\ PendingOf(s, ic) = <<>>
  BY Zenon
<1>1. ASSUME NEW k \in 1 .. Len(s)
      PROVE  Inner(s[k], <<>>, ic) /\ Follows(s[k], k < Len(s), s[k + 1], <<>>) /\ s[k].do \notin {"commit", "pass"}
  <2>1. Inner(s[k], c, ic) /\ Follows(s[k], k < Len(s), s[k + 1], c)
    BY Zenon DEF Rest
  <2>2. Quiet => s[k].do # "change"
    BY DEF Has
  <2> QED BY <2>1, <2>2 DEF Inner, Suits, Follows
<1>2. Rest(s, <<>>, ic)
  BY <1>1, Zenon DEF Rest
<1>3. ~ Has(s, {"commit", "pass"})
  BY <1>1, Zenon DEF Has
<1> QED BY <1>2, <1>3, PendingFacts, Zenon

-----------------------------------------------------------------------------
(* At rest everything entered is in the text or in the syllable.           *)
LEMMA AtRestFacts ==
  ASSUME Inv, agenda = <<>>
  PROVE  /\ is_committing = FALSE
         /\ composing # <<>> \/ Quiet => preedit_string = composing
         /\ \A ic \in ICs : /\ entered[ic] = text[ic] \o (IF focus = ic THEN composing ELSE <<>>)
                            /\ text[ic] \in Seq(Chars) /\ entered[ic] \in Seq(Chars)
         /\ composing \in Seq(Letters) /\ composing \in Seq(Chars)
         /\ EngineTypes /\ ServerTypes /\ AppTypes
<1>1. EngineTypes /\ ServerTypes /\ AppTypes
  BY TypesNow, Zenon DEF Inv
<1>2. composing \in Seq(Letters) /\ composing \in Seq(Chars) /\ is_committing \in BOOLEAN
  BY <1>1, LettersAreChars, Zenon DEF EngineTypes
<1>3. ~ Has(agenda, {"committed"}) /\ ~ Has(agenda, {"update", "change", "clear"})
  BY HasNothing
<1>4. ASSUME NEW ic \in ICs
      PROVE  /\ entered[ic] = text[ic] \o (IF focus = ic THEN composing ELSE <<>>)
             /\ text[ic] \in Seq(Chars) /\ entered[ic] \in Seq(Chars)
  <2>1. text[ic] \in Seq(Chars) /\ entered[ic] \in Seq(Chars)
    BY <1>1 DEF AppTypes
  <2>2. Pending(ic) = PendingOf(agenda, ic) /\ PendingOf(<<>>, ic) = <<>>
    BY AgendaTypes, PendingIs, PendingFacts, Zenon DEF Pending, Inv
  <2>3. Left(ic) = text[ic] /\ Pending(ic) = <<>>
    BY <2>2 DEF Left
  <2>4. Left(ic) \o Pending(ic) \o (IF focus = ic THEN composing ELSE <<>>) = entered[ic]
    BY Zenon DEF Inv, TextInv
  <2>5. text[ic] \o <<>> = text[ic]
    BY <2>1
  <2> QED BY <2>1, <2>3, <2>4, <2>5
<1> QED BY <1>1, <1>2, <1>3, <1>4 DEF Inv, CommitInv, SettledInv

(* A handler has been called for ic.                                       *)
Called(ic) ==
  /\ agenda' # <<>> /\ agenda'[1].ic = ic
  /\ ic \notin Inline => agenda'[1].do # "window"
  /\ composing' # <<>> => ~ Has(agenda', {"change"})

(* The invariant after a call: it needs a script whose text, with the      *)
(* syllable that the call leaves, is what is entered and not yet in the    *)
(* text.                                                                   *)
LEMMA CallStep ==
  ASSUME Inv, NEW ic \in ICs, NEW p \in Seq(Chars), NEW e \in Seq(Chars),
         \A i \in ICs : i # ic => entered[i] = text[i],
         Leading(agenda', composing', ic, p), composing' \in Seq(Letters),
         is_committing => Has(agenda', {"committed"}),
         entered' = [entered EXCEPT ![ic] = e],
         Before(text[ic], agenda'[1], ic) \o p \o composing' = e,
         UNCHANGED <<preedit_string, preedit_state, is_committing, ignore_reset, window, text, shown,
                     inside>>,
         focus' = ic \/ (focus' = NoIC /\ composing' = <<>>),
         listing' = NoIC \/ (listing' = ic /\ focus' = ic /\ composing' = <<>> /\ Has(agenda', {"hide"})),
         SettledInv', composing' # <<>> => ~ Has(agenda', {"change"})
  PROVE  Inv' /\ Called(ic)
<1>1. EngineTypes /\ ServerTypes /\ AppTypes
  BY TypesNow, Zenon DEF Inv
<1>2. /\ agenda' \in Seq(Items) /\ agenda' # <<>> /\ Tail(agenda') \in Seq(Items)
      /\ Leads(agenda'[1], Tail(agenda'), composing') /\ agenda'[1].ic = ic
      /\ Pends(agenda', ic, p)
  BY Zenon DEF Leading
<1>3. TypeOK'
  <2>1. EngineTypes' /\ ServerTypes' /\ AppTypes'
    BY <1>1 DEF EngineTypes, ServerTypes, AppTypes
  <2> QED BY <2>1, <1>2, TypesNext, Zenon
<1>4. AgendaInv' /\ FocusInv'
  <2>1. NoIC # ic
    BY HangulAssumption
  <2>2. focus' \in {agenda'[1].ic, NoIC}
    BY <1>2
  <2> QED BY <1>2, <2>1, <2>2 DEF AgendaInv, FocusInv
<1>5. CommitInv'
  BY Zenon DEF CommitInv
<1>6. ListInv'
  BY <1>2 DEF ListInv
<1>7. TextInv'
  <2> SUFFICES ASSUME NEW i \in ICs
               PROVE  Left(i)' \o Pending(i)' \o (IF focus' = i THEN composing' ELSE <<>>) = entered'[i]
    BY Zenon DEF TextInv
  <2>1. Pending(i)' = IF i = ic THEN p ELSE <<>>
    <3>1. Pending(i)' = PendingOf(agenda', i)
      BY <1>2, PendingIs, Zenon DEF Pending
    <3> QED BY <1>2, <3>1 DEF Pends
  <2>2. Left(i)' = Before(text[i], agenda'[1], i)
    BY <1>2 DEF Left
  <2>3. NoIC # i
    BY HangulAssumption
  <2>4. CASE i = ic
    <3>1. entered'[i] = e
      BY <1>1, <2>4 DEF AppTypes
    <3>2. (IF focus' = i THEN composing' ELSE <<>>) = composing'
      BY <2>3, <2>4
    <3> QED BY <2>1, <2>2, <2>4, <3>1, <3>2
  <2>5. CASE i # ic
    <3>1. entered'[i] = entered[i] /\ text[i] \in Seq(Chars)
      BY <1>1, <2>5 DEF AppTypes
    <3>2. entered[i] = text[i]
      BY <2>5
    <3>3. Left(i)' = text[i]
      BY <1>2, <2>2, <2>5 DEF Before
    <3>4. (IF focus' = i THEN composing' ELSE <<>>) = <<>>
      BY <2>3, <2>5
    <3>5. text[i] \o <<>> \o <<>> = text[i]
      BY <3>1
    <3> QED BY <2>1, <2>5, <3>1, <3>2, <3>3, <3>4, <3>5
  <2> QED BY <2>4, <2>5
<1>8. Called(ic)
  BY Zenon DEF Called, Leading
<1> QED BY <1>3, <1>4, <1>5, <1>6, <1>7, <1>8 DEF Inv

(* The same at rest.                                                       *)
LEMMA RestCall ==
  ASSUME Inv, NEW ic \in ICs, agenda = <<>>, focus = ic, NEW p \in Seq(Chars), NEW e \in Seq(Chars),
         Calls(agenda', composing', ic, p), composing' \in Seq(Letters),
         entered' = [entered EXCEPT ![ic] = e],
         text[ic] \o p \o composing' = e,
         UNCHANGED <<preedit_string, preedit_state, is_committing, ignore_reset, window, text, shown,
                     inside>>,
         focus' = ic \/ (focus' = NoIC /\ composing' = <<>>),
         listing' = NoIC \/ (listing' = ic /\ focus' = ic /\ composing' = <<>> /\ Has(agenda', {"hide"})),
         SettledInv', composing' # <<>> => ~ Has(agenda', {"change"})
  PROVE  Inv' /\ Called(ic)
<1>1. \A i \in ICs : i # ic => entered[i] = text[i]
  <2> SUFFICES ASSUME NEW i \in ICs, i # ic PROVE entered[i] = text[i]
    OBVIOUS
  <2>1. entered[i] = text[i] \o <<>> /\ text[i] \in Seq(Chars)
    BY AtRestFacts
  <2> QED BY <2>1
<1>2. Leading(agenda', composing', ic, p)
  BY Zenon DEF Calls
<1>3. Before(text[ic], agenda'[1], ic) = text[ic]
  BY DEF Calls, Before
<1>4. ~ is_committing
  BY AtRestFacts
<1> QED BY <1>1, <1>2, <1>3, <1>4, CallStep

(* At rest a call is nothing but its handler.                              *)
LEMMA HandleAtRest ==
  ASSUME agenda = <<>>, NEW s \in Seq(Items), Handle(s)
  PROVE  agenda' = s
  BY Concats DEF Handle, Interrupted

(* The last step of a handler.                                             *)
LEMMA LastScript ==
  \A c : \A ic \in ICs, t \in Seq(Chars), d \in {"update", "again", "pass", "hide", "unfocus"} :
    d \in {"update", "again"} \/ c = <<>> =>
      /\ Script(Do(d, ic, t), c, ic, IF d = "pass" THEN t ELSE <<>>)
      /\ Do(d, ic, t) # <<>>
      /\ \A D : Has(Do(d, ic, t), D) <=> d \in D
<1> SUFFICES ASSUME NEW c, NEW ic \in ICs, NEW t \in Seq(Chars),
                    NEW d \in {"update", "again", "pass", "hide", "unfocus"},
                    d \in {"update", "again"} \/ c = <<>>
             PROVE  /\ Script(Do(d, ic, t), c, ic, IF d = "pass" THEN t ELSE <<>>)
                    /\ Do(d, ic, t) # <<>>
                    /\ \A D : Has(Do(d, ic, t), D) <=> d \in D
  OBVIOUS
<1>1. d \in Dos
  BY DEF Dos, Steps
<1>2. PICK x \in Items : IsItem(x, d, ic, t)
  BY <1>1, ItemFacts, Zenon
<1>3. x.do = d /\ x.ic = ic /\ x.text = t /\ Do(d, ic, t) = <<x>>
  BY <1>2, Zenon DEF IsItem
<1>4. PICK n \in Seq(Items) : n = <<>>
  <2>1. <<>> \in Seq(Items)
    OBVIOUS
  <2> QED BY <2>1, Zenon
<1>5. <<x>> \o n = <<x>>
  BY <1>4
<1>6. Pushable(x, n, c, ic)
  <2>1. Inner(x, c, ic)
    BY <1>3 DEF Inner, Suits
  <2>2. Follows(x, n # <<>>, n[1], c)
    BY <1>3, <1>4 DEF Follows
  <2>3. Rest(n, c, ic) /\ ~ Has(n, {"change"})
    BY <1>4, RestNothing, HasNothing, Zenon
  <2> QED BY <2>1, <2>2, <2>3, Zenon DEF Pushable
<1>7. Script(<<x>> \o n, c, ic, Worth(x) \o <<>>)
  <2>1. Script(n, c, ic, <<>>) /\ <<>> \in Seq(Chars)
    BY <1>4, NoScript
  <2> QED BY <2>1, <1>6, PushScript, Zenon
<1>8. Worth(x) \o <<>> = IF d = "pass" THEN t ELSE <<>>
  BY <1>3 DEF Worth
<1>9. \A D : Has(<<x>> \o n, D) <=> x.do \in D
  BY <1>4, HasCons, HasNothing, Zenon
<1>10. <<x>> # <<>>
  OBVIOUS
<1> QED BY <1>3, <1>5, <1>7, <1>8, <1>9, <1>10

(* A handler that commits the syllable if there is one.                    *)
LEMMA CommitAnyCalls ==
  ASSUME NEW c, NEW s, NEW p \in Seq(Chars), NEW ic \in ICs, NEW t \in Seq(Chars),
         s # <<>>, Script(s, c, ic, p), c # <<>> => ~ Has(s, {"change"})
  PROVE  /\ Calls(CommitAny(ic, t) \o s, c, ic, t \o p)
         /\ c = <<>> => Script(CommitAny(ic, t) \o s, c, ic, t \o p)
         /\ \A D : Has(s, D) => Has(CommitAny(ic, t) \o s, D)
         /\ ~ Has(s, {"change"}) => ~ Has(CommitAny(ic, t) \o s, {"change"})
<1>1. CASE t = <<>>
  <2>1. s \in Seq(Items)
    BY Zenon DEF Script
  <2>2. CommitAny(ic, t) \o s = s /\ t \o p = p
    BY <1>1, <2>1 DEF CommitAny
  <2>3. Calls(s, c, ic, p)
    BY <2>1, ScriptCalls, Zenon
  <2> QED BY <2>2, <2>3, Zenon
<1>2. CASE t # <<>>
  <2>1. CommitAny(ic, t) = EmitCommit(ic, t)
    BY <1>2 DEF CommitAny
  <2> QED BY <2>1, EmitCalls, Zenon
<1> QED BY <1>1, <1>2

(* A letter: what it completes is committed, the rest is the syllable.     *)
LEMMA Composing ==
  ASSUME Inv, NEW ic \in ICs, NEW key \in Letters, Compose(ic, key)
  PROVE  Inv' /\ Called(ic)
<1>1. PICK k \in 0 .. Len(composing) :
        /\ AtRest(ic) /\ listing = NoIC /\ Fits
        /\ ~ (key \in Doubles /\ composing = <<key>>)
        /\ Len(composing) - k < MaxLetters
        /\ composing' = Append(SubSeq(composing, k + 1, Len(composing)), key)
        /\ Enter(ic, key)
        /\ Handle(CommitAny(ic, SubSeq(composing, 1, k)) \o Do("update", ic, <<>>))
        /\ UNCHANGED <<preedit_string, preedit_state, is_committing, ignore_reset, listing, window,
                       focus, appVars>>
  BY Zenon DEF Compose
<1>2. agenda = <<>> /\ focus = ic
  BY <1>1 DEF AtRest
<1>3. /\ composing \in Seq(Letters) /\ text[ic] \in Seq(Chars) /\ entered[ic] \in Seq(Chars)
      /\ entered[ic] = text[ic] \o composing
  BY <1>2, AtRestFacts
<1>4. PICK t, u \in Seq(Letters) :
        t = SubSeq(composing, 1, k) /\ u = SubSeq(composing, k + 1, Len(composing)) /\ t \o u = composing
  <2>1. /\ SubSeq(composing, 1, k) \in Seq(Letters) /\ SubSeq(composing, k + 1, Len(composing)) \in Seq(Letters)
        /\ SubSeq(composing, 1, k) \o SubSeq(composing, k + 1, Len(composing)) = composing
    BY <1>3, SplitAt, Zenon
  <2> QED BY <2>1, Zenon
<1>5. composing' = Append(u, key) /\ composing' \in Seq(Letters) /\ composing' # <<>>
  <2>1. Append(u, key) \in Seq(Letters) /\ Append(u, key) # <<>>
    BY AppendIs, Zenon
  <2> QED BY <1>1, <1>4, <2>1
<1>6. t \in Seq(Chars) /\ <<>> \in Seq(Chars) /\ "update" \in Dos
  BY LettersAreChars DEF Dos, Steps
<1>7. agenda' = CommitAny(ic, t) \o Do("update", ic, <<>>)
  <2>1. PICK a, b \in Seq(Items) : a = CommitAny(ic, t) /\ b = Do("update", ic, <<>>)
    BY <1>6, PartTypes
  <2>2. a \o b \in Seq(Items) /\ Handle(a \o b)
    BY <1>1, <1>4, <2>1
  <2> QED BY <1>2, <2>1, <2>2, HandleAtRest
<1>8. /\ Script(Do("update", ic, <<>>), composing', ic, <<>>) /\ Do("update", ic, <<>>) # <<>>
      /\ \A D : Has(Do("update", ic, <<>>), D) <=> "update" \in D
  BY <1>6, LastScript
<1>9. /\ Calls(agenda', composing', ic, t \o <<>>)
      /\ \A D : Has(Do("update", ic, <<>>), D) => Has(agenda', D)
      /\ ~ Has(agenda', {"change"})
  <2>1. ~ Has(Do("update", ic, <<>>), {"change"})
    BY <1>8
  <2> QED BY <1>6, <1>7, <1>8, <2>1, CommitAnyCalls, Zenon
<1>10. SettledInv'
  <2>1. Has(agenda', {"update", "change", "clear"})
    BY <1>8, <1>9
  <2> QED BY <2>1 DEF SettledInv
<1>11. PICK e \in Seq(Chars) : e = Append(entered[ic], key) /\ text[ic] \o (t \o <<>>) \o composing' = e
  <2>1. key \in Chars /\ u \in Seq(Chars)
    BY LettersAreChars DEF Chars
  <2>2. PICK x \in Seq(Chars) : x = text[ic]
    BY <1>3, Zenon
  <2>3. t \o <<>> = t
    OBVIOUS
  <2>4. (x \o t) \o Append(u, key) = Append((x \o t) \o u, key)
    BY <1>6, <2>1
  <2>5. (x \o t) \o u = x \o (t \o u)
    BY <1>6, <2>1
  <2>6. entered[ic] = (x \o t) \o u
    BY <1>3, <1>4, <2>2, <2>5
  <2>7. Append(entered[ic], key) \in Seq(Chars)
    BY <1>3, <2>1
  <2>8. text[ic] \o (t \o <<>>) \o composing' = Append(entered[ic], key)
    BY <1>5, <2>2, <2>3, <2>4, <2>6
  <2> QED BY <2>7, <2>8, Zenon
<1>12. entered' = [entered EXCEPT ![ic] = e]
  BY <1>1, <1>11 DEF Enter
<1>13. UNCHANGED <<preedit_string, preedit_state, is_committing, ignore_reset, window, text, shown, inside>>
  BY <1>1 DEF appVars
<1>14. listing' = NoIC /\ focus' = ic
  BY <1>1, <1>2
<1>15. t \o <<>> \in Seq(Chars)
  BY <1>6
<1> QED BY <1>2, <1>5, <1>9, <1>10, <1>11, <1>12, <1>13, <1>14, <1>15, RestCall

(* A step that gives nothing, put before a script.                         *)
LEMMA PrependScript ==
  \A s : \A p \in Seq(Chars), ic \in ICs, d \in {"update", "clear", "committed", "reply"} :
    Script(s, <<>>, ic, p) =>
      /\ Script(Do(d, ic, <<>>) \o s, <<>>, ic, p)
      /\ Do(d, ic, <<>>) \o s # <<>>
      /\ \A D : Has(Do(d, ic, <<>>) \o s, D) <=> d \in D \/ Has(s, D)
<1> SUFFICES ASSUME NEW s, NEW p \in Seq(Chars), NEW ic \in ICs, NEW d \in {"update", "clear", "committed", "reply"},
                    Script(s, <<>>, ic, p)
             PROVE  /\ Script(Do(d, ic, <<>>) \o s, <<>>, ic, p)
                    /\ Do(d, ic, <<>>) \o s # <<>>
                    /\ \A D : Has(Do(d, ic, <<>>) \o s, D) <=> d \in D \/ Has(s, D)
  BY Zenon
<1>1. d \in Dos /\ <<>> \in Seq(Chars)
  BY DEF Dos, Steps, Waits
<1>2. PICK x \in Items : IsItem(x, d, ic, <<>>)
  BY <1>1, ItemFacts, Zenon
<1>3. x.do = d /\ x.ic = ic /\ Do(d, ic, <<>>) = <<x>>
  BY <1>2, Zenon DEF IsItem
<1>4. s \in Seq(Items) /\ Rest(s, <<>>, ic)
  BY Zenon DEF Script
<1>5. PICK c : c = <<>>
  OBVIOUS
<1>6. Pushable(x, s, c, ic)
  <2>1. Inner(x, c, ic)
    BY <1>3, <1>5 DEF Inner, Suits
  <2>2. Follows(x, s # <<>>, s[1], c)
    BY <1>3, <1>5 DEF Follows
  <2> QED BY <2>1, <2>2, <1>4, <1>5, Zenon DEF Pushable
<1>7. Script(<<x>> \o s, c, ic, Worth(x) \o p)
  BY <1>4, <1>5, <1>6, PushScript, Zenon
<1>8. Worth(x) \o p = p
  BY <1>3 DEF Worth
<1>9. \A D : Has(<<x>> \o s, D) <=> x.do \in D \/ Has(s, D)
  BY <1>4, HasCons, Zenon
<1>10. <<x>> \o s # <<>>
  BY <1>4, PushFacts, Zenon
<1> QED BY <1>3, <1>5, <1>7, <1>8, <1>9, <1>10

(* A commit that is the end of a handler.                                  *)
LEMMA EmitScript ==
  \A ic \in ICs, t \in Seq(Chars) : Script(EmitCommit(ic, t), <<>>, ic, t)
<1> TAKE ic \in ICs, t \in Seq(Chars)
<1>1. Script(<<>>, <<>>, ic, <<>>)
  BY NoScript, Zenon
<1>2. PICK c : c = <<>>
  OBVIOUS
<1>3. Script(EmitCommit(ic, t) \o <<>>, c, ic, t \o <<>>)
  BY <1>1, <1>2, EmitCalls, Zenon
<1>4. EmitCommit(ic, t) \o <<>> = EmitCommit(ic, t)
  BY PartTypes, Concats
<1>5. t \o <<>> = t
  OBVIOUS
<1> QED BY <1>2, <1>3, <1>4, <1>5

(* The second of two equal consonants: the first one is committed.         *)
LEMMA Doubling ==
  ASSUME Inv, NEW ic \in ICs, NEW key \in Letters, LeadingConsonant(ic, key)
  PROVE  Inv' /\ Called(ic)
<1>1. /\ agenda = <<>> /\ focus = ic /\ listing = NoIC /\ composing = <<key>> /\ Enter(ic, key)
      /\ Handle(EmitCommit(ic, composing) \o Do("again", ic, <<>>))
      /\ UNCHANGED <<composing, preedit_string, preedit_state, is_committing, ignore_reset, window, text, shown, inside,
                     listing, focus>>
  BY DEF LeadingConsonant, AtRest, engineVars, appVars
<1>2. /\ composing \in Seq(Letters) /\ composing \in Seq(Chars) /\ text[ic] \in Seq(Chars) /\ entered[ic] \in Seq(Chars)
      /\ entered[ic] = text[ic] \o composing /\ (composing # <<>> \/ Quiet => preedit_string = composing)
  BY <1>1, AtRestFacts
<1>3. <<>> \in Seq(Chars) /\ "again" \in Dos
  BY DEF Dos, Steps
<1>4. agenda' = EmitCommit(ic, composing) \o Do("again", ic, <<>>)
  <2>1. PICK a, b \in Seq(Items) : a = EmitCommit(ic, composing) /\ b = Do("again", ic, <<>>)
    BY <1>2, <1>3, PartTypes
  <2>2. a \o b \in Seq(Items) /\ Handle(a \o b)
    BY <1>1, <2>1
  <2> QED BY <1>1, <2>1, <2>2, HandleAtRest
<1>5. /\ Script(Do("again", ic, <<>>), composing, ic, <<>>)
      /\ \A D : Has(Do("again", ic, <<>>), D) <=> "again" \in D
  BY <1>3, LastScript
<1>6. Calls(agenda', composing, ic, composing \o <<>>) /\ ~ Has(agenda', {"change"})
  <2>1. ~ Has(Do("again", ic, <<>>), {"change"})
    BY <1>5
  <2> QED BY <1>2, <1>4, <1>5, <2>1, EmitCalls, Zenon
<1>7. PICK e \in Seq(Chars) : e = Append(entered[ic], key) /\ text[ic] \o (composing \o <<>>) \o composing = e
  <2>1. key \in Chars
    BY DEF Chars
  <2>2. composing \o <<>> = composing
    BY <1>2
  <2>3. Append(entered[ic], key) \in Seq(Chars) /\ Append(entered[ic], key) = entered[ic] \o <<key>>
    BY <1>2, <2>1, AppendFacts
  <2> QED BY <1>1, <1>2, <2>2, <2>3
<1>8. entered' = [entered EXCEPT ![ic] = e]
  BY <1>1, <1>7 DEF Enter
<1>9. SettledInv'
  BY <1>1, <1>2 DEF SettledInv
<1>10. composing' = composing /\ composing \o <<>> \in Seq(Chars)
  BY <1>1, <1>2
<1>11. listing' = NoIC /\ focus' = ic
  BY <1>1
<1> QED BY <1>1, <1>2, <1>6, <1>7, <1>8, <1>9, <1>10, <1>11, RestCall

(* The syllable and the key are what is entered after the text.            *)
LEMMA EnteredKey ==
  ASSUME Inv, NEW ic \in ICs, agenda = <<>>, focus = ic, NEW key \in Chars
  PROVE  /\ Append(entered[ic], key) \in Seq(Chars)
         /\ composing \o <<key>> \in Seq(Chars)
         /\ text[ic] \o (composing \o <<key>>) \o <<>> = Append(entered[ic], key)
<1>1. /\ composing \in Seq(Chars) /\ text[ic] \in Seq(Chars) /\ entered[ic] \in Seq(Chars)
      /\ entered[ic] = text[ic] \o composing
  BY AtRestFacts
<1>2. Append(entered[ic], key) \in Seq(Chars) /\ Append(entered[ic], key) = entered[ic] \o <<key>>
  BY <1>1, AppendFacts
<1>3. <<key>> \in Seq(Chars)
  OBVIOUS
<1>4. PICK a, b, d \in Seq(Chars) : a = text[ic] /\ b = composing /\ d = <<key>>
  BY <1>1, <1>3, Zenon
<1>5. a \o (b \o d) \o <<>> = (a \o b) \o d
  <2>1. a \o (b \o d) = (a \o b) \o d
    OBVIOUS
  <2> QED BY <2>1
<1>6. b \o d \in Seq(Chars)
  OBVIOUS
<1>7. text[ic] \o (composing \o <<key>>) \o <<>> = entered[ic] \o <<key>>
  BY <1>1, <1>4, <1>5
<1>8. composing \o <<key>> \in Seq(Chars)
  BY <1>4, <1>6
<1> QED BY <1>2, <1>7, <1>8

(* A key that is no letter comes after the syllable that it completes.     *)
LEMMA OtherKeys ==
  ASSUME Inv, NEW ic \in ICs, NEW key \in Symbols \cup Others, OtherKey(ic, key)
  PROVE  Inv' /\ Called(ic)
<1> DEFINE Z == IF key \in Symbols THEN EmitCommit(ic, <<key>>) ELSE Do("pass", ic, <<key>>)
<1>1. /\ agenda = <<>> /\ focus = ic /\ listing = NoIC /\ composing' = <<>> /\ Enter(ic, key)
      /\ Handle(CommitAny(ic, composing) \o Do("update", ic, <<>>) \o Z)
      /\ UNCHANGED <<preedit_string, preedit_state, is_committing, ignore_reset, window, text, shown, inside,
                     listing, focus>>
  BY DEF OtherKey, AtRest, appVars
<1>2. key \in Chars /\ <<key>> \in Seq(Chars) /\ composing \in Seq(Chars)
  BY <1>1, AtRestFacts DEF Chars
<1>3. <<>> \in Seq(Chars) /\ "update" \in Dos /\ "pass" \in Dos
  BY DEF Dos, Steps
<1>4. Script(Z, <<>>, ic, <<key>>) /\ Z \in Seq(Items)
  <2>1. CASE key \in Symbols
    BY <1>2, <2>1, EmitScript, PartTypes
  <2>2. CASE key \notin Symbols
    <3>1. Script(Do("pass", ic, <<key>>), <<>>, ic, <<key>>)
      BY <1>2, LastScript
    <3> QED BY <1>2, <1>3, <2>2, <3>1, PartTypes
  <2> QED BY <2>1, <2>2
<1>5. PICK z \in Seq(Items) : z = Z
  BY <1>4, Zenon
<1>6. agenda' = CommitAny(ic, composing) \o (Do("update", ic, <<>>) \o z)
  <2>1. PICK a, b \in Seq(Items) : a = CommitAny(ic, composing) /\ b = Do("update", ic, <<>>)
    BY <1>2, <1>3, PartTypes
  <2>2. (a \o b) \o z \in Seq(Items)
    OBVIOUS
  <2>3. Handle((a \o b) \o z)
    BY <1>1, <1>5, <2>1
  <2>4. agenda' = (a \o b) \o z
    BY <1>1, <2>2, <2>3, HandleAtRest
  <2>5. (a \o b) \o z = a \o (b \o z)
    OBVIOUS
  <2> QED BY <2>1, <2>4, <2>5
<1>7. PICK y : y = Do("update", ic, <<>>) \o z
  OBVIOUS
<1>8. /\ Script(y, <<>>, ic, <<key>>) /\ y # <<>>
      /\ \A D : Has(y, D) <=> "update" \in D \/ Has(z, D)
  BY <1>2, <1>4, <1>5, <1>7, PrependScript
<1>9. Calls(agenda', <<>>, ic, composing \o <<key>>) /\ \A D : Has(y, D) => Has(agenda', D)
  BY <1>2, <1>6, <1>7, <1>8, CommitAnyCalls
<1>10. PICK e \in Seq(Chars) : e = Append(entered[ic], key) /\ text[ic] \o (composing \o <<key>>) \o <<>> = e
  BY <1>1, <1>2, EnteredKey
<1>11. entered' = [entered EXCEPT ![ic] = e]
  BY <1>1, <1>10 DEF Enter
<1>12. SettledInv'
  <2>1. Has(agenda', {"update", "change", "clear"})
    BY <1>8, <1>9
  <2> QED BY <2>1 DEF SettledInv
<1>13. composing \o <<key>> \in Seq(Chars) /\ <<>> \in Seq(Letters)
  BY <1>1, <1>2, EnteredKey
<1>14. listing' = NoIC /\ focus' = ic
  BY <1>1
<1> HIDE DEF Z
<1> QED BY <1>1, <1>9, <1>10, <1>11, <1>12, <1>13, <1>14, RestCall

(* Return, likewise.                                                       *)
LEMMA Returning ==
  ASSUME Inv, NEW ic \in ICs, NEW key \in Others, Return(ic, key)
  PROVE  Inv' /\ Called(ic)
<1>1. /\ agenda = <<>> /\ focus = ic /\ listing = NoIC /\ composing' = <<>> /\ Enter(ic, key)
      /\ Handle((IF composing = <<>> THEN <<>>
                 ELSE EmitCommit(ic, composing) \o UpdatePreedit(ic, <<>>)) \o Do("pass", ic, <<key>>))
      /\ UNCHANGED <<preedit_string, preedit_state, is_committing, ignore_reset, window, text, shown, inside,
                     listing, focus>>
  BY DEF Return, AtRest, appVars
<1>2. key \in Chars /\ <<key>> \in Seq(Chars) /\ composing \in Seq(Chars) /\ composing \in Seq(Letters)
  BY <1>1, AtRestFacts DEF Chars
<1>3. <<>> \in Seq(Chars) /\ <<>> \in Seq(Letters) /\ "pass" \in Dos
  BY DEF Dos, Steps
<1>4. PICK z \in Seq(Items) : z = Do("pass", ic, <<key>>)
  BY <1>2, <1>3, PartTypes
<1>5. Script(z, <<>>, ic, <<key>>) /\ z # <<>>
  BY <1>2, <1>4, LastScript
<1>6. Calls(agenda', <<>>, ic, composing \o <<key>>) /\ SettledInv'
  <2>1. CASE composing = <<>>
    <3>1. <<>> \o z = z
      BY Concats
    <3>2. agenda' = z
      BY <1>1, <1>4, <2>1, <3>1, HandleAtRest
    <3>3. Calls(z, <<>>, ic, <<key>>)
      BY <1>5, ScriptCalls
    <3>4. composing \o <<key>> = <<key>>
      BY <1>2, <2>1
    <3>5. Quiet => preedit_string = <<>>
      BY <1>1, <2>1, AtRestFacts
    <3>6. SettledInv'
      BY <1>1, <3>5 DEF SettledInv
    <3> QED BY <3>2, <3>3, <3>4, <3>6
  <2>2. CASE composing # <<>>
    <3>1. PICK a, b \in Seq(Items) : a = EmitCommit(ic, composing) /\ b = UpdatePreedit(ic, <<>>)
      BY <1>2, <1>3, PartTypes
    <3>2. (a \o b) \o z \in Seq(Items)
      OBVIOUS
    <3>3. Handle((a \o b) \o z)
      BY <1>1, <1>4, <2>2, <3>1
    <3>4. agenda' = (a \o b) \o z
      BY <1>1, <3>2, <3>3, HandleAtRest
    <3>5. (a \o b) \o z = a \o (b \o z)
      OBVIOUS
    <3>6. PICK y : y = UpdatePreedit(ic, <<>>) \o z
      OBVIOUS
    <3>7. Script(y, <<>>, ic, <<key>>) /\ y # <<>> /\ Gains(y, z, {"start", "change", "end"})
      BY <1>5, <3>6, UpdateCalls, Zenon
    <3>8. agenda' = EmitCommit(ic, composing) \o y
      BY <3>1, <3>4, <3>5, <3>6
    <3>9. Calls(agenda', <<>>, ic, composing \o <<key>>) /\ \A D : Has(y, D) => Has(agenda', D)
      BY <1>2, <3>7, <3>8, EmitCalls
    <3>10. Has(y, {"update", "change", "clear"})
      <4>1. Has(y, {"update", "change", "clear"}) <=>
              (\E d \in {"start", "change", "end"} : d \in {"update", "change", "clear"}) \/ Has(z, {"update", "change", "clear"})
        BY <3>7, Zenon DEF Gains
      <4> QED BY <4>1
    <3>11. SettledInv'
      BY <3>9, <3>10, Zenon DEF SettledInv
    <3> QED BY <3>9, <3>11
  <2> QED BY <2>1, <2>2
<1>10. PICK e \in Seq(Chars) : e = Append(entered[ic], key) /\ text[ic] \o (composing \o <<key>>) \o <<>> = e
  BY <1>1, <1>2, EnteredKey
<1>11. entered' = [entered EXCEPT ![ic] = e]
  BY <1>1, <1>10 DEF Enter
<1>13. composing \o <<key>> \in Seq(Chars)
  BY <1>1, <1>2, EnteredKey
<1>14. listing' = NoIC /\ focus' = ic
  BY <1>1
<1> QED BY <1>1, <1>3, <1>6, <1>10, <1>11, <1>13, <1>14, RestCall

(* The handler s takes the last character of the text.                     *)
Shortens(s, ic) == \A t : Before(t, s[1], ic) = IF t # <<>> THEN Front(t) ELSE t

(* A handler that begins by taking a character, and a script after it.     *)
LEMMA TakeCalls ==
  \A s : \A p \in Seq(Chars), ic \in ICs, d \in {"erase", "delete"} :
    Script(s, <<>>, ic, p) /\ (d = "erase" => s = <<>>) =>
      /\ Leading(Do(d, ic, <<>>) \o s, <<>>, ic, p)
      /\ Shortens(Do(d, ic, <<>>) \o s, ic)
      /\ \A D : Has(s, D) => Has(Do(d, ic, <<>>) \o s, D)
<1> SUFFICES ASSUME NEW s, NEW p \in Seq(Chars), NEW ic \in ICs, NEW d \in {"erase", "delete"},
                    Script(s, <<>>, ic, p), d = "erase" => s = <<>>
             PROVE  /\ Leading(Do(d, ic, <<>>) \o s, <<>>, ic, p)
                    /\ Shortens(Do(d, ic, <<>>) \o s, ic)
                    /\ \A D : Has(s, D) => Has(Do(d, ic, <<>>) \o s, D)
  BY Zenon
<1>1. d \in Dos /\ <<>> \in Seq(Chars)
  BY DEF Dos, Steps
<1>2. PICK x \in Items : IsItem(x, d, ic, <<>>)
  BY <1>1, ItemFacts, Zenon
<1>3. x.do = d /\ x.ic = ic /\ x.text = <<>> /\ Do(d, ic, <<>>) = <<x>>
  BY <1>2, Zenon DEF IsItem
<1>4. s \in Seq(Items) /\ Rest(s, <<>>, ic)
  BY Zenon DEF Script
<1>5. PICK c : c = <<>>
  OBVIOUS
<1>6. Leads(x, s, c)
  <2>1. Suits(x, c, x.ic)
    BY <1>3, <1>5 DEF Suits
  <2>2. Follows(x, s # <<>>, s[1], c)
    BY <1>3, <1>5 DEF Follows
  <2>3. ~ (c # <<>> /\ Quiet /\ x.do = "callback" /\ s # <<>>)
    BY <1>5
  <2> QED BY <1>3, <1>4, <1>5, <2>1, <2>2, <2>3, Zenon DEF Leads
<1>7. Leading(<<x>> \o s, c, ic, Worth(x) \o p)
  BY <1>3, <1>4, <1>5, <1>6, LeadCalls, Zenon
<1>8. Worth(x) \o p = p
  BY <1>3 DEF Worth
<1>9. \A D : Has(<<x>> \o s, D) <=> x.do \in D \/ Has(s, D)
  BY <1>4, HasCons, Zenon
<1>10. (<<x>> \o s)[1] = x
  BY <1>4, PushFacts, Zenon
<1>11. Shortens(<<x>> \o s, ic)
  BY <1>3, <1>10 DEF Before, Shortens
<1> QED BY <1>3, <1>5, <1>7, <1>8, <1>9, <1>10, <1>11

(* BackSpace takes the last letter of the syllable or of the text.         *)
LEMMA Erasing ==
  ASSUME Inv, NEW ic \in ICs, BackSpace(ic)
  PROVE  Inv' /\ Called(ic)
<1>1. /\ agenda = <<>> /\ focus = ic /\ listing = NoIC
      /\ composing' = (IF composing = <<>> THEN <<>> ELSE Front(composing))
      /\ entered' = [entered EXCEPT ![ic] = IF @ = <<>> THEN @ ELSE Front(@)]
      /\ Handle(IF composing = <<>> THEN Do("erase", ic, <<>>) ELSE Do("update", ic, <<>>))
      /\ UNCHANGED <<preedit_string, preedit_state, is_committing, ignore_reset, window, text, shown, inside,
                     listing, focus>>
  BY DEF BackSpace, AtRest, appVars
<1>2. /\ composing \in Seq(Letters) /\ composing \in Seq(Chars) /\ text[ic] \in Seq(Chars) /\ entered[ic] \in Seq(Chars)
      /\ entered[ic] = text[ic] \o composing /\ entered \in [ICs -> Seq(Chars)]
  BY <1>1, AtRestFacts DEF AppTypes
<1>3. <<>> \in Seq(Chars) /\ <<>> \in Seq(Letters) /\ "erase" \in Dos /\ "update" \in Dos
  BY DEF Dos, Steps
<1>4. PICK e : e = (IF entered[ic] = <<>> THEN entered[ic] ELSE Front(entered[ic]))
  OBVIOUS
<1>5. entered' = [entered EXCEPT ![ic] = e]
  BY <1>1, <1>2, <1>4
<1>6. listing' = NoIC /\ focus' = ic
  BY <1>1
<1>7. e \in Seq(Chars)
  <2>1. \A t \in Seq(Chars) : t # <<>> => Front(t) \in Seq(Chars)
    BY DEF Front
  <2> QED BY <1>2, <1>4, <2>1
<1>8. CASE composing = <<>>
  <2>1. composing' = <<>>
    BY <1>1, <1>8
  <2>2. PICK a \in Seq(Items) : a = Do("erase", ic, <<>>)
    BY <1>3, PartTypes
  <2>3. agenda' = a
    BY <1>1, <1>8, <2>2, HandleAtRest
  <2>4. a = Do("erase", ic, <<>>) \o <<>>
    BY <2>2, Concats
  <2>5. Script(<<>>, <<>>, ic, <<>>)
    BY NoScript, Zenon
  <2>6. /\ Leading(agenda', <<>>, ic, <<>>)
        /\ Shortens(agenda', ic)
    <3>1. "erase" \in {"erase", "delete"}
      OBVIOUS
    <3>2. /\ Leading(Do("erase", ic, <<>>) \o <<>>, <<>>, ic, <<>>)
          /\ Shortens(Do("erase", ic, <<>>) \o <<>>, ic)
      BY <1>3, <2>5, <3>1, TakeCalls
    <3> QED BY <2>3, <2>4, <3>2
  <2>7. entered[ic] = text[ic]
    BY <1>2, <1>8
  <2>8. Before(text[ic], agenda'[1], ic) = e
    BY <1>4, <2>6, <2>7 DEF Shortens
  <2>9. Before(text[ic], agenda'[1], ic) \o <<>> \o <<>> = e
    BY <1>7, <2>8
  <2>10. SettledInv'
    <3>1. Quiet => preedit_string = <<>>
      BY <1>1, <1>8, AtRestFacts
    <3> QED BY <1>1, <2>1, <3>1 DEF SettledInv
  <2>11. \A i \in ICs : i # ic => entered[i] = text[i]
    <3> SUFFICES ASSUME NEW i \in ICs, i # ic PROVE entered[i] = text[i]
      OBVIOUS
    <3>1. entered[i] = text[i] \o <<>> /\ text[i] \in Seq(Chars)
      BY <1>1, AtRestFacts
    <3> QED BY <3>1
  <2>12. ~ is_committing
    BY <1>1, AtRestFacts
  <2> QED BY <1>1, <1>3, <1>5, <1>6, <1>7, <2>1, <2>6, <2>9, <2>10, <2>11, <2>12, CallStep
<1>9. CASE composing # <<>>
  <2>1. composing' = Front(composing)
    BY <1>1, <1>9
  <2>2. PICK a \in Seq(Items) : a = Do("update", ic, <<>>)
    BY <1>3, PartTypes
  <2>3. agenda' = a
    BY <1>1, <1>9, <2>2, HandleAtRest
  <2>4. /\ Script(a, composing', ic, <<>>) /\ a # <<>>
        /\ \A D : Has(a, D) <=> "update" \in D
    BY <1>3, <2>2, LastScript
  <2>5. Calls(agenda', composing', ic, <<>>)
    BY <2>3, <2>4, ScriptCalls
  <2>6. PICK b, d \in Seq(Chars) : b = text[ic] /\ d = composing
    BY <1>2, Zenon
  <2>7. b \o d # <<>> /\ Front(d) \in Seq(Chars) /\ b \o Front(d) = Front(b \o d)
    BY <1>9, <2>6, FrontOf
  <2>8. text[ic] \o <<>> \o composing' = e
    <3>1. b \o <<>> = b
      OBVIOUS
    <3> QED BY <1>2, <1>4, <2>1, <2>6, <2>7, <3>1
  <2>9. SettledInv'
    <3>1. Has(agenda', {"update", "change", "clear"})
      BY <2>3, <2>4
    <3> QED BY <3>1, Zenon DEF SettledInv
  <2>11. ~ Has(agenda', {"change"})
    BY <2>3, <2>4
  <2>10. composing' \in Seq(Letters)
    <3>1. <<>> \in Seq(Letters)
      OBVIOUS
    <3>2. Front(composing) \in Seq(Letters)
      BY <1>2, <1>9, <3>1, FrontOf
    <3> QED BY <2>1, <3>2
  <2> QED BY <1>1, <1>3, <1>5, <1>6, <1>7, <2>5, <2>8, <2>9, <2>10, <2>11, RestCall
<1> QED BY <1>8, <1>9

(* Calls without a handler: the candidates, the setting and the focus.     *)
LEMMA Listing ==
  ASSUME Inv, NEW ic \in ICs, HanjaKey(ic)
  PROVE  Inv'
<1>1. /\ agenda = <<>> /\ focus = ic
      /\ listing = NoIC => preedit_string # <<>> \/ text[ic] # <<>>
      /\ listing' = (IF listing = NoIC THEN ic ELSE NoIC)
      /\ UNCHANGED <<composing, preedit_string, preedit_state, is_committing, ignore_reset, window, agenda,
                     focus, text, shown, inside, entered>>
  BY DEF HanjaKey, AtRest, engineVars, appVars
<1>2. TypeOK'
  BY <1>1 DEF Inv, TypeOK
<1>3. AgendaInv' /\ FocusInv' /\ CommitInv' /\ SettledInv'
  BY <1>1 DEF Inv, AgendaInv, FocusInv, CommitInv, SettledInv, Has, Quiet
<1>4. ListInv'
  BY <1>1 DEF ListInv
<1>5. TextInv'
  BY <1>1 DEF Inv, TextInv, Left, Pending, Before
<1> QED BY <1>2, <1>3, <1>4, <1>5 DEF Inv

LEMMA Setting ==
  ASSUME Inv, ChangeSetting
  PROVE  Inv'
<1>1. UNCHANGED <<composing, preedit_string, preedit_state, is_committing, listing, window, agenda,
                  focus, text, shown, inside, entered>> /\ ignore_reset' = ~ ignore_reset
  BY DEF ChangeSetting, appVars
<1>2. TypeOK'
  BY <1>1 DEF Inv, TypeOK
<1>3. AgendaInv' /\ FocusInv' /\ CommitInv' /\ SettledInv'
  BY <1>1 DEF Inv, AgendaInv, FocusInv, CommitInv, SettledInv, Has, Quiet
<1>4. ListInv'
  BY <1>1 DEF Inv, ListInv, Has
<1>5. TextInv'
  BY <1>1 DEF Inv, TextInv, Left, Pending, Before
<1> QED BY <1>2, <1>3, <1>4, <1>5 DEF Inv

LEMMA Focusing ==
  ASSUME Inv, NEW ic \in ICs, FocusIn(ic)
  PROVE  Inv'
<1>1. /\ agenda = <<>> /\ focus = NoIC /\ focus' = ic
      /\ UNCHANGED <<composing, preedit_string, preedit_state, is_committing, ignore_reset, listing, window, agenda,
                     text, shown, inside, entered>>
  BY DEF FocusIn, AtRest, engineVars, appVars
<1>2. TypeOK'
  BY <1>1 DEF Inv, TypeOK
<1>3. composing = <<>>
  BY <1>1 DEF Inv, FocusInv
<1>4. AgendaInv' /\ FocusInv' /\ CommitInv' /\ SettledInv'
  BY <1>1, <1>3 DEF Inv, AgendaInv, FocusInv, CommitInv, SettledInv, Has, Quiet
<1>5. ListInv'
  BY <1>1 DEF Inv, ListInv
<1>6. TextInv'
  <2> SUFFICES ASSUME NEW i \in ICs
               PROVE  Left(i)' \o Pending(i)' \o (IF focus' = i THEN composing ELSE <<>>) = entered[i]
    BY <1>1, Zenon DEF TextInv
  <2>1. Left(i)' = Left(i) /\ Pending(i)' = Pending(i)
    BY <1>1 DEF Left, Pending, Before
  <2>2. Left(i) \o Pending(i) \o (IF focus = i THEN composing ELSE <<>>) = entered[i]
    BY Zenon DEF Inv, TextInv
  <2> QED BY <1>3, <2>1, <2>2
<1> QED BY <1>2, <1>4, <1>5, <1>6 DEF Inv

(* The hanja takes the place of the syllable, or of a character.           *)
LEMMA Choosing ==
  ASSUME Inv, NEW ic \in ICs, Choose(ic)
  PROVE  Inv' /\ Called(ic)
<1> DEFINE X == IF preedit_string = <<>> THEN Do("delete", ic, <<>>) ELSE <<>>
           E == EmitCommit(ic, <<Hanja>>)
           C == Do("clear", ic, <<>>)
           H == Do("hide", ic, <<>>)
           old == IF preedit_string = <<>> THEN 1 ELSE Len(composing)
<1>1. /\ agenda = <<>> /\ focus = ic /\ listing = ic /\ composing' = <<>>
      /\ entered' = [entered EXCEPT ![ic] = Append(SubSeq(@, 1, Len(@) - old), Hanja)]
      /\ Handle(X \o E \o C \o H)
      /\ UNCHANGED <<preedit_string, preedit_state, is_committing, ignore_reset, window, text, shown, inside,
                     listing, focus>>
  BY DEF Choose, AtRest, appVars
<1>2. /\ composing \in Seq(Letters) /\ composing \in Seq(Chars) /\ text[ic] \in Seq(Chars) /\ entered[ic] \in Seq(Chars)
      /\ entered[ic] = text[ic] \o composing /\ entered \in [ICs -> Seq(Chars)]
      /\ composing # <<>> \/ Quiet => preedit_string = composing
  BY <1>1, AtRestFacts DEF AppTypes
<1>3. /\ <<>> \in Seq(Chars) /\ <<>> \in Seq(Letters) /\ Hanja \in Chars /\ <<Hanja>> \in Seq(Chars)
      /\ "delete" \in Dos /\ "clear" \in Dos /\ "hide" \in Dos
  BY DEF Dos, Steps, Chars
<1>4. preedit_string # <<>> \/ text[ic] # <<>>
  <2>1. listing # NoIC
    BY <1>1, HangulAssumption
  <2> QED BY <1>1, <2>1 DEF Inv, ListInv
<1>5. PICK x, y, z, h \in Seq(Items) : x = X /\ y = E /\ z = C /\ h = H
  <2>1. E \in Seq(Items) /\ C \in Seq(Items) /\ H \in Seq(Items) /\ Do("delete", ic, <<>>) \in Seq(Items)
    BY <1>3, PartTypes
  <2>2. X \in Seq(Items)
    BY <2>1
  <2> HIDE DEF X, E, C, H
  <2> QED BY <2>1, <2>2, Zenon
<1>6. agenda' = x \o (y \o (z \o h))
  <2>1. ((x \o y) \o z) \o h \in Seq(Items)
    OBVIOUS
  <2>2. agenda' = ((x \o y) \o z) \o h
    BY <1>1, <1>5, <2>1, HandleAtRest
  <2>3. Regroups(x, y, z, h)
    BY FourParts, Zenon
  <2> QED BY <2>2, <2>3, Zenon DEF Regroups
<1>7. PICK w : w = z \o h
  OBVIOUS
<1>8. Script(w, <<>>, ic, <<>>) /\ Has(w, {"update", "change", "clear"}) /\ Has(w, {"hide"})
  <2>1. Script(h, <<>>, ic, <<>>) /\ \A D : Has(h, D) <=> "hide" \in D
    BY <1>3, <1>5, LastScript
  <2>2. Script(w, <<>>, ic, <<>>) /\ \A D : Has(w, D) <=> "clear" \in D \/ Has(h, D)
    BY <1>3, <1>5, <1>7, <2>1, PrependScript
  <2> QED BY <2>1, <2>2
<1>9. PICK v : v = y \o w
  OBVIOUS
<1>10. /\ Script(v, <<>>, ic, <<Hanja>>) /\ Calls(v, <<>>, ic, <<Hanja>>)
       /\ Has(v, {"update", "change", "clear"}) /\ Has(v, {"hide"})
  <2>1. PICK c : c = <<>>
    OBVIOUS
  <2>2. /\ Calls(EmitCommit(ic, <<Hanja>>) \o w, c, ic, <<Hanja>> \o <<>>)
        /\ c = <<>> => Script(EmitCommit(ic, <<Hanja>>) \o w, c, ic, <<Hanja>> \o <<>>)
        /\ \A D : Has(w, D) => Has(EmitCommit(ic, <<Hanja>>) \o w, D)
    BY <1>3, <1>8, <2>1, EmitCalls, Zenon
  <2>3. <<Hanja>> \o <<>> = <<Hanja>>
    BY <1>3
  <2>4. v = EmitCommit(ic, <<Hanja>>) \o w
    BY <1>5, <1>9
  <2> QED BY <1>8, <2>1, <2>2, <2>3, <2>4
<1>11. agenda' = x \o v /\ v \in Seq(Items)
  <2>1. v \in Seq(Items)
    BY <1>7, <1>9
  <2> QED BY <1>6, <1>7, <1>9, <2>1
<1>12. PICK e \in Seq(Chars) : e = Append(SubSeq(entered[ic], 1, Len(entered[ic]) - old), Hanja)
  <2>1. SubSeq(entered[ic], 1, Len(entered[ic]) - old) \in Seq(Chars)
    BY <1>2
  <2> QED BY <1>3, <2>1, AppendIs, Zenon
<1>13. entered' = [entered EXCEPT ![ic] = e]
  BY <1>1, <1>2, <1>12
<1>14. focus' = ic /\ listing' = ic
  BY <1>1
<1>15. CASE preedit_string # <<>>
  <2>1. agenda' = v
    BY <1>5, <1>11, <1>15, Concats
  <2>2. text[ic] \o <<Hanja>> \o <<>> = e
    <3>1. PICK a, b \in Seq(Chars) : a = text[ic] /\ b = composing
      BY <1>2, Zenon
    <3>2. SubSeq(a \o b, 1, Len(a \o b) - Len(b)) = a
      BY CutOff, Zenon
    <3>3. e = Append(a, Hanja)
      BY <1>2, <1>12, <1>15, <3>1, <3>2
    <3>4. Append(a, Hanja) = a \o <<Hanja>> /\ a \o <<Hanja>> \in Seq(Chars)
      BY <1>3, AppendFacts
    <3> QED BY <3>1, <3>3, <3>4
  <2>3. SettledInv'
    BY <1>10, <2>1, Zenon DEF SettledInv
  <2>4. Calls(agenda', composing', ic, <<Hanja>>) /\ Has(agenda', {"hide"})
    BY <1>1, <1>10, <2>1
  <2> HIDE DEF X, E, C, H, old
  <2> QED BY <1>1, <1>3, <1>13, <1>14, <2>2, <2>3, <2>4, RestCall
<1>16. CASE preedit_string = <<>>
  <2>1. composing = <<>> /\ text[ic] # <<>>
    BY <1>2, <1>4, <1>16
  <2>2. x = Do("delete", ic, <<>>)
    BY <1>5, <1>16
  <2>3. /\ Leading(agenda', <<>>, ic, <<Hanja>>)
        /\ Shortens(agenda', ic)
        /\ \A D : Has(v, D) => Has(agenda', D)
    BY <1>3, <1>10, <1>11, <2>2, TakeCalls
  <2>4. e = Append(Front(text[ic]), Hanja)
    <3>1. entered[ic] = text[ic]
      BY <1>2, <2>1
    <3> QED BY <1>12, <1>16, <3>1 DEF Front
  <2>5. Front(text[ic]) \in Seq(Chars)
    BY <1>2, <2>1 DEF Front
  <2>6. Before(text[ic], agenda'[1], ic) \o <<Hanja>> \o <<>> = e
    <3>1. Before(text[ic], agenda'[1], ic) = Front(text[ic])
      BY <2>1, <2>3 DEF Shortens
    <3>2. PICK f \in Seq(Chars) : f = Front(text[ic])
      BY <2>5, Zenon
    <3>3. Append(f, Hanja) = f \o <<Hanja>> /\ f \o <<Hanja>> \in Seq(Chars)
      BY <1>3, AppendFacts
    <3> QED BY <2>4, <3>1, <3>2, <3>3
  <2>7. SettledInv'
    BY <1>10, <2>3, Zenon DEF SettledInv
  <2>8. Has(agenda', {"hide"}) /\ Leading(agenda', composing', ic, <<Hanja>>)
    BY <1>1, <1>10, <2>3
  <2>9. \A i \in ICs : i # ic => entered[i] = text[i]
    <3> SUFFICES ASSUME NEW i \in ICs, i # ic PROVE entered[i] = text[i]
      OBVIOUS
    <3>1. entered[i] = text[i] \o <<>> /\ text[i] \in Seq(Chars)
      BY <1>1, AtRestFacts
    <3> QED BY <3>1
  <2>10. ~ is_committing
    BY <1>1, AtRestFacts
  <2>11. Before(text[ic], agenda'[1], ic) \o <<Hanja>> \o composing' = e /\ composing' \in Seq(Letters)
    BY <1>1, <1>3, <2>6
  <2> HIDE DEF X, E, C, H, old
  <2> QED BY <1>1, <1>3, <1>13, <1>14, <2>7, <2>8, <2>9, <2>10, <2>11, CallStep
<1> QED BY <1>15, <1>16

(* What a reset finds: handlers that have begun, with q pending behind the *)
(* syllable, and a commit of theirs still to be answered.                  *)
Open(q, ic) ==
  /\ Script(Interrupted, <<>>, ic, q)
  /\ entered[ic] = text[ic] \o (composing \o q)
  /\ \A i \in ICs : i # ic => entered[i] = text[i]
  /\ is_committing => Has(Interrupted, {"committed"})
  /\ focus = ic \/ focus = NoIC

(* It finds it at rest, and in any callback.                               *)
LEMMA InterruptedFacts ==
  ASSUME Inv, NEW ic \in ICs, AtRest(ic) \/ InCallback(ic)
  PROVE  \E q \in Seq(Chars) : Open(q, ic) /\ (agenda = <<>> => q = <<>>)
<1>1. EngineTypes /\ ServerTypes /\ AppTypes
  BY TypesNow, Zenon DEF Inv
<1>2. \A i \in ICs : text[i] \in Seq(Chars)
  BY <1>1 DEF AppTypes
<1>3. PICK c \in Seq(Chars) : c = composing
  <2>1. composing \in Seq(Chars)
    BY <1>1, LettersAreChars, Zenon DEF EngineTypes
  <2> QED BY <2>1, Zenon
<1>4. <<>> \in Seq(Chars)
  OBVIOUS
<1>5. CASE agenda = <<>>
  <2>1. focus = ic
    BY <1>5 DEF AtRest, InCallback, Due
  <2>2. Interrupted = <<>>
    BY <1>5 DEF Interrupted
  <2>3. ~ is_committing
    BY <1>5, AtRestFacts
  <2>4. ASSUME NEW i \in ICs, i # ic PROVE entered[i] = text[i]
    <3>1. entered[i] = text[i] \o <<>>
      BY <1>5, <2>1, <2>4, AtRestFacts
    <3> QED BY <1>2, <3>1
  <2>5. entered[ic] = text[ic] \o composing
    BY <1>5, <2>1, AtRestFacts
  <2>6. composing \o <<>> = composing
    BY <1>3
  <2>7. Script(<<>>, <<>>, ic, <<>>)
    BY NoScript, Zenon
  <2>8. Open(<<>>, ic)
    BY <2>1, <2>2, <2>3, <2>4, <2>5, <2>6, <2>7 DEF Open
  <2> QED BY <1>4, <2>8
<1>6. CASE agenda # <<>>
  <2>1. agenda[1].do = "callback" /\ agenda[1].ic = ic
    BY <1>6 DEF AtRest, InCallback, Due, ic0
  <2>2. /\ agenda \in Seq(Items) /\ agenda[1] \in Items /\ Tail(agenda) \in Seq(Items)
        /\ Leads(agenda[1], Tail(agenda), composing)
        /\ Rest(Tail(agenda), composing, ic)
        /\ Gains(agenda, Tail(agenda), {"callback"})
    <3>1. Gains(agenda, Tail(agenda), {agenda[1].do}) /\ Rest(Tail(agenda), composing, agenda[1].ic)
      BY <1>6, HeadFacts, Zenon
    <3> QED BY <1>6, <2>1, <3>1, HeadFacts
  <2>3. PICK r \in Seq(Items) : r = Tail(agenda)
    BY <2>2, Zenon
  <2>4. PICK q \in Seq(Chars) : q = PendingOf(r, ic)
    BY PendingFacts, Zenon
  <2>5. Rest(r, <<>>, ic) /\ (composing # <<>> => q = <<>>)
    <3>1. CASE composing = <<>>
      BY <2>2, <2>3, <3>1
    <3>2. CASE composing # <<>>
      <4>1. Quiet => ~ Has(r, {"change"})
        <5>1. Quiet /\ r # <<>> => r[1].do # "change"
          BY <2>1, <2>2, <2>3, <3>2 DEF Leads
        <5> QED BY <2>2, <2>3, <3>2, <5>1, NoChange, Zenon
      <4> QED BY <2>2, <2>3, <2>4, <3>2, <4>1, RestFlushed, Zenon
    <3> QED BY <3>1, <3>2
  <2>6. Script(r, <<>>, ic, q)
    BY <2>4, <2>5, RestScript, Zenon
  <2>7. Interrupted = Do("reply", ic, <<>>) \o r
    BY <1>6, <2>1, <2>3 DEF Interrupted, ic0
  <2>8. Script(Interrupted, <<>>, ic, q) /\ \A D : Has(r, D) => Has(Interrupted, D)
    <3>1. "reply" \in {"update", "clear", "committed", "reply"}
      OBVIOUS
    <3>2. /\ Script(Do("reply", ic, <<>>) \o r, <<>>, ic, q)
          /\ \A D : Has(Do("reply", ic, <<>>) \o r, D) <=> "reply" \in D \/ Has(r, D)
      BY <2>6, <3>1, PrependScript, Zenon
    <3> QED BY <2>7, <3>2, Zenon
  <2>9. is_committing => Has(Interrupted, {"committed"})
    <3>1. Has(agenda, {"committed"}) => Has(r, {"committed"})
      <4>1. Has(agenda, {"committed"}) <=> (\E d \in {"callback"} : d \in {"committed"}) \/ Has(r, {"committed"})
        BY <2>2, <2>3, Zenon DEF Gains
      <4> QED BY <4>1
    <3> QED BY <2>8, <3>1 DEF Inv, CommitInv
  <2>10. focus = ic \/ focus = NoIC
    BY <1>6, <2>1 DEF Inv, AgendaInv
  <2>11. ASSUME NEW i \in ICs
         PROVE  text[i] \o PendingOf(r, i) \o (IF focus = i THEN composing ELSE <<>>) = entered[i]
    <3>1. Left(i) \o Pending(i) \o (IF focus = i THEN composing ELSE <<>>) = entered[i]
      BY Zenon DEF Inv, TextInv
    <3>2. Left(i) = text[i]
      BY <1>6, <2>1 DEF Left, Before
    <3>3. Pending(i) = <<>> \o PendingOf(r, i) /\ PendingOf(r, i) \in Seq(Chars)
      BY <1>6, <2>1, <2>3, PendingHead
    <3>4. Pending(i) = PendingOf(r, i)
      BY <3>3
    <3> QED BY <3>1, <3>2, <3>4
  <2>12. Pends(r, ic, q)
    BY <2>6, Zenon DEF Script
  <2>13. ASSUME NEW i \in ICs, i # ic PROVE entered[i] = text[i]
    <3>1. PendingOf(r, i) = <<>> /\ focus # i
      BY <2>10, <2>12, <2>13, HangulAssumption DEF Pends
    <3>2. text[i] \o <<>> \o <<>> = text[i]
      BY <1>2
    <3> QED BY <2>11, <3>1, <3>2
  <2>14. entered[ic] = text[ic] \o (composing \o q)
    <3>1. focus = NoIC => composing = <<>>
      BY DEF Inv, FocusInv
    <3>2. text[ic] \o q \o composing = entered[ic]
      <4>1. text[ic] \o PendingOf(r, ic) \o (IF focus = ic THEN composing ELSE <<>>) = entered[ic]
        BY <2>11
      <4>2. (IF focus = ic THEN composing ELSE <<>>) = composing
        BY <2>10, <3>1
      <4> QED BY <2>4, <4>1, <4>2
    <3>3. PICK a \in Seq(Chars) : a = text[ic]
      BY <1>2
    <3>4. a \o q \o c = a \o (c \o q)
      <4>1. CASE c = <<>>
        <5>1. a \o q \in Seq(Chars)
          OBVIOUS
        <5>2. (a \o q) \o <<>> = a \o q /\ <<>> \o q = q
          BY <5>1
        <5> QED BY <4>1, <5>2
      <4>2. CASE q = <<>>
        <5>1. a \o <<>> = a /\ c \o <<>> = c
          OBVIOUS
        <5> QED BY <4>2, <5>1
      <4> QED BY <2>5, <1>3, <4>1, <4>2
    <3> QED BY <1>3, <3>2, <3>3, <3>4
  <2>15. Open(q, ic)
    BY <2>8, <2>9, <2>10, <2>13, <2>14 DEF Open
  <2> QED BY <1>6, <2>15
<1> QED BY <1>5, <1>6

(* A reset: the syllable is committed before what is pending.              *)
LEMMA FlushStep ==
  ASSUME Inv, NEW ic \in ICs, NEW q \in Seq(Chars), Open(q, ic), NEW s \in Seq(Items),
         Script(s \o Interrupted, <<>>, ic, q),
         Handle(CommitAny(ic, composing) \o UpdatePreedit(ic, <<>>) \o s),
         composing' = <<>>, listing' = NoIC, focus' = focus \/ focus' = NoIC,
         UNCHANGED <<preedit_string, preedit_state, is_committing, ignore_reset, window, text, shown,
                     inside, entered>>,
         \A D : Has(Interrupted, D) => Has(s \o Interrupted, D)
  PROVE  Inv' /\ Called(ic) /\ Has(agenda', {"update", "end"})
<1>1. EngineTypes /\ ServerTypes /\ AppTypes
  BY TypesNow, Zenon DEF Inv
<1>2. PICK c \in Seq(Chars) : c = composing
  <2>1. composing \in Seq(Chars)
    BY <1>1, LettersAreChars, Zenon DEF EngineTypes
  <2> QED BY <2>1, Zenon
<1>3. <<>> \in Seq(Chars) /\ <<>> \in Seq(Letters) /\ Interrupted \in Seq(Items)
  BY DEF Open, Script
<1>4. PICK x, y, z \in Seq(Items) : x = CommitAny(ic, c) /\ y = UpdatePreedit(ic, <<>>) /\ z = Interrupted
  BY <1>3, PartTypes
<1>5. PICK w \in Seq(Items) : w = s \o z
  <2>1. s \o z \in Seq(Items)
    OBVIOUS
  <2> QED BY <2>1, Zenon
<1>6. PICK v \in Seq(Items) : v = y \o w
  <2>1. y \o w \in Seq(Items)
    OBVIOUS
  <2> QED BY <2>1, Zenon
<1>7. agenda' = x \o v
  <2>1. agenda' = ((x \o y) \o s) \o z
    BY <1>2, <1>4, Zenon DEF Handle
  <2>2. Regroups(x, y, s, z)
    BY FourParts, Zenon
  <2> QED BY <1>5, <1>6, <2>1, <2>2, Zenon DEF Regroups
<1>8. Script(w, <<>>, ic, q) /\ \A D : Has(z, D) => Has(w, D)
  BY <1>4, <1>5, Zenon
<1>9. Script(v, <<>>, ic, q) /\ v # <<>> /\ Gains(v, w, {"start", "change", "end"})
  BY <1>4, <1>6, <1>8, UpdateCalls, Zenon
<1>10. Calls(agenda', composing', ic, c \o q) /\ \A D : Has(v, D) => Has(agenda', D)
  <2>1. PICK d : d = <<>>
    OBVIOUS
  <2>2. /\ Calls(CommitAny(ic, c) \o v, d, ic, c \o q)
        /\ \A D : Has(v, D) => Has(CommitAny(ic, c) \o v, D)
    BY <1>9, <2>1, CommitAnyCalls, Zenon
  <2>3. agenda' = CommitAny(ic, c) \o v
    BY <1>4, <1>7
  <2> QED BY <2>1, <2>2, <2>3
<1>11. Leading(agenda', composing', ic, c \o q) /\ Before(text[ic], agenda'[1], ic) = text[ic]
  BY <1>10 DEF Calls, Before
<1>12. is_committing => Has(agenda', {"committed"})
  <2>1. Has(w, {"committed"}) => Has(v, {"committed"})
    BY <1>9, Zenon DEF Gains
  <2>2. is_committing => Has(z, {"committed"})
    BY <1>4 DEF Open
  <2> QED BY <1>8, <1>10, <2>1, <2>2, Zenon
<1>13. SettledInv'
  <2>1. Has(v, {"update", "change", "clear"}) <=>
          (\E d \in {"start", "change", "end"} : d \in {"update", "change", "clear"}) \/ Has(w, {"update", "change", "clear"})
    BY <1>9, Zenon DEF Gains
  <2>2. Has(v, {"update", "change", "clear"})
    BY <2>1
  <2> QED BY <1>10, <2>2, Zenon DEF SettledInv
<1>14. PICK e \in Seq(Chars) : e = entered[ic]
  BY <1>1 DEF AppTypes
<1>15. entered' = [entered EXCEPT ![ic] = e]
  BY <1>1, <1>14 DEF AppTypes
<1>16. c \o q \in Seq(Chars)
  OBVIOUS
<1>17. Before(text[ic], agenda'[1], ic) \o (c \o q) \o composing' = e
  <2>1. entered[ic] = text[ic] \o (c \o q)
    BY <1>2 DEF Open
  <2>2. text[ic] \o (c \o q) \o <<>> = text[ic] \o (c \o q)
    <3>1. text[ic] \in Seq(Chars)
      BY <1>1 DEF AppTypes
    <3>2. text[ic] \o (c \o q) \in Seq(Chars)
      BY <1>16, <3>1
    <3> QED BY <3>2
  <2> QED BY <1>11, <1>14, <2>1, <2>2
<1>18. focus' = ic \/ (focus' = NoIC /\ composing' = <<>>)
  BY DEF Open
<1>19. \A i \in ICs : i # ic => entered[i] = text[i]
  BY Zenon DEF Open
<1>20. composing' \in Seq(Letters)
  BY <1>3
<1>21. Has(agenda', {"update", "end"})
  <2>1. Has(v, {"update", "end"}) <=>
          (\E d \in {"start", "change", "end"} : d \in {"update", "end"}) \/ Has(w, {"update", "end"})
    BY <1>9, Zenon DEF Gains
  <2>2. Has(v, {"update", "end"})
    BY <2>1
  <2> QED BY <1>10, <2>2, Zenon
<1>22. Inv' /\ Called(ic)
  BY <1>11, <1>12, <1>13, <1>15, <1>16, <1>17, <1>18, <1>19, <1>20, CallStep
<1> QED BY <1>21, <1>22

(* A reset, which the engine may ignore in a commit callback.              *)
LEMMA Resetting ==
  ASSUME Inv, NEW ic \in ICs, Reset(ic)
  PROVE  /\ Inv'
         /\ ResetIgnored => agenda # <<>> /\ agenda[1].do = "callback" /\ GoesOn /\ Then(Do("reply", ic0, <<>>))
         /\ ~ ResetIgnored => Called(ic) /\ Has(agenda', {"update", "end"})
<1>1. /\ AtRest(ic) \/ InCallback(ic)
      /\ ResetThen(ic, <<>>)
      /\ UNCHANGED <<preedit_string, preedit_state, is_committing, ignore_reset, window, text, shown, inside, entered, focus>>
  BY DEF Reset, appVars
<1>2. PICK q \in Seq(Chars) : Open(q, ic)
  BY <1>1, InterruptedFacts
<1>3. PICK s, z \in Seq(Items) : s = <<>> /\ z = Interrupted
  <2>1. <<>> \in Seq(Items) /\ Interrupted \in Seq(Items)
    BY <1>2 DEF Open, Script
  <2> QED BY <2>1, Zenon
<1>4. s \o z = z
  BY <1>3
<1>5. CASE ~ ResetIgnored
  <2>1. /\ Handle(CommitAny(ic, composing) \o UpdatePreedit(ic, <<>>) \o s)
        /\ composing' = <<>> /\ listing' = NoIC
    BY <1>1, <1>3, <1>5 DEF ResetThen, Flushed
  <2>2. Script(s \o Interrupted, <<>>, ic, q) /\ \A D : Has(Interrupted, D) => Has(s \o Interrupted, D)
    BY <1>2, <1>3, <1>4 DEF Open
  <2> QED BY <1>1, <1>2, <1>5, <2>1, <2>2, FlushStep
<1>6. CASE ResetIgnored
  <2>1. agenda # <<>>
    BY <1>6, AtRestFacts DEF ResetIgnored
  <2>2. agenda[1].do = "callback" /\ agenda[1].ic = ic
    BY <1>1, <2>1 DEF AtRest, InCallback, Due, ic0
  <2>3. agenda' = z /\ UNCHANGED <<composing, listing>>
    BY <1>1, <1>3, <1>4, <1>6 DEF ResetThen, Handle
  <2>4. z = Do("reply", ic, <<>>) \o Tail(agenda)
    BY <1>3, <2>1, <2>2 DEF Interrupted, ic0
  <2>5. "reply" \in Dos /\ <<>> \in Seq(Chars)
    BY DEF Dos, Waits
  <2>6. PICK x \in Items : IsItem(x, "reply", ic, <<>>)
    BY <2>5, ItemFacts, Zenon
  <2>7. x.do = "reply" /\ x.ic = ic /\ Do("reply", ic, <<>>) = <<x>>
    BY <2>6, Zenon DEF IsItem
  <2>8. PICK r \in Seq(Items) : r = Tail(agenda)
    BY <2>1, HeadFacts, Zenon
  <2>9. Rest(r, composing, ic)
    BY <2>1, <2>2, <2>8, HeadFacts, Zenon
  <2>10. Leads(x, r, composing)
    BY <2>7, <2>9 DEF Leads, Suits, Follows
  <2>11. x.do \notin {"commit", "pass", "erase", "delete"}
    BY <2>7
  <2>12. Continues(<<x>> \o r, r, composing, ic)
    BY <2>7, <2>10, <2>11, PushContinues, Zenon
  <2>13. GoesOn
    BY <2>2, <2>3, <2>4, <2>7, <2>8, <2>12, Zenon DEF GoesOn
  <2>14. EngineTypes' /\ ServerTypes' /\ AppTypes'
    BY <1>1, <2>3, TypesNow DEF Inv, EngineTypes, ServerTypes, AppTypes
  <2>15. SettledInv'
    BY <1>1, <2>1, <2>2, <2>3, <2>13, SettledStays
  <2>16. Inv'
    BY <1>1, <2>1, <2>2, <2>3, <2>13, <2>14, <2>15, PlainStep
  <2>17. Then(Do("reply", ic0, <<>>))
    BY <2>2, <2>3, <2>4 DEF Then, ic0
  <2> QED BY <1>6, <2>1, <2>2, <2>13, <2>16, <2>17
<1> QED BY <1>5, <1>6

(* Focus-out: a reset and the end of the preedit window.                   *)
LEMMA LosingFocus ==
  ASSUME Inv, NEW ic \in ICs, FocusOut(ic)
  PROVE  Inv' /\ Called(ic)
<1>1. /\ AtRest(ic) /\ agenda = <<>> /\ focus' = NoIC
      /\ ResetThen(ic, Do("unfocus", ic, <<>>))
      /\ UNCHANGED <<preedit_string, preedit_state, is_committing, ignore_reset, window, text, shown, inside, entered>>
  BY DEF FocusOut, LoseFocus, Leaves, AtRest, appVars
<1>2. PICK q \in Seq(Chars) : Open(q, ic) /\ q = <<>>
  BY <1>1, InterruptedFacts
<1>3. "unfocus" \in Dos /\ <<>> \in Seq(Chars)
  BY DEF Dos, Steps
<1>4. PICK s \in Seq(Items) : s = Do("unfocus", ic, <<>>)
  BY <1>3, PartTypes
<1>5. Interrupted = <<>> /\ s \o Interrupted = s
  BY <1>1, <1>4 DEF Interrupted
<1>6. Script(s, <<>>, ic, <<>>)
  <2>1. "unfocus" \in {"update", "again", "pass", "hide", "unfocus"} /\ "unfocus" # "pass"
    OBVIOUS
  <2> QED BY <1>3, <1>4, <2>1, LastScript
<1>7. ~ ResetIgnored
  BY <1>1, AtRestFacts DEF ResetIgnored
<1>8. /\ Handle(CommitAny(ic, composing) \o UpdatePreedit(ic, <<>>) \o s)
      /\ composing' = <<>> /\ listing' = NoIC
  BY <1>1, <1>4, <1>7 DEF ResetThen, Flushed
<1>9. Script(s \o Interrupted, <<>>, ic, q) /\ \A D : Has(Interrupted, D) => Has(s \o Interrupted, D)
  BY <1>2, <1>5, <1>6, HasNothing
<1> QED BY <1>1, <1>2, <1>8, <1>9, FlushStep

-----------------------------------------------------------------------------
(* All steps of handlers, and all calls.                                   *)
LEMMA Handlers ==
  ASSUME Inv, HandlerStep
  PROVE  Inv' /\ GoesOn
  BY Handing, Deleting, Popping, Preediting, Starting, Changing, Ending DEF HandlerStep

LEMMA Calling ==
  ASSUME Inv, NEW ic \in ICs, UserStep(ic) \/ Reset(ic)
  PROVE  Inv'
  BY Composing, Doubling, OtherKeys, Returning, Erasing, Listing, Choosing, Focusing, LosingFocus, Resetting
  DEF UserStep

(* The invariant, for any callbacks.                                       *)
LEMMA Invariance == Init /\ [][Next]_vars => []Inv
<1>1. Init => Inv
  <2> SUFFICES ASSUME Init PROVE Inv
    OBVIOUS
  <2>1. TypeOK
    <3>1. \A T : <<>> \in Seq(T)
      OBVIOUS
    <3>2. <<>> \in Seq(Letters) /\ <<>> \in Seq(Chars) /\ <<>> \in Seq([do : Steps \cup Waits, ic : ICs, text : Seq(Chars)])
      BY <3>1, Zenon
    <3>3. /\ text \in [ICs -> Seq(Chars)] /\ entered \in [ICs -> Seq(Chars)]
          /\ shown \in [ICs -> Seq(Letters)] /\ inside \in [ICs -> BOOLEAN]
      BY <3>2 DEF Init
    <3>4. is_committing \in BOOLEAN /\ ignore_reset \in BOOLEAN
      BY DEF Init
    <3> QED BY <3>2, <3>3, <3>4 DEF Init, TypeOK
  <2>2. AgendaInv /\ FocusInv /\ CommitInv /\ ListInv /\ SettledInv
    BY DEF Init, AgendaInv, FocusInv, CommitInv, ListInv, SettledInv
  <2>3. TextInv
    <3> SUFFICES ASSUME NEW i \in ICs
                 PROVE  Left(i) \o Pending(i) \o (IF focus = i THEN composing ELSE <<>>) = entered[i]
      BY Zenon DEF TextInv
    <3>1. Pending(i) = PendingOf(agenda, i) /\ PendingOf(<<>>, i) = <<>>
      BY <2>1, AgendaTypes, PendingIs, PendingFacts, Zenon DEF Pending
    <3>2. Left(i) = <<>> /\ Pending(i) = <<>> /\ entered[i] = <<>> /\ (IF focus = i THEN composing ELSE <<>>) = <<>>
      BY <3>1 DEF Init, Left
    <3>3. <<>> \o <<>> \o <<>> = <<>>
      OBVIOUS
    <3> QED BY <3>2, <3>3
  <2> QED BY <2>1, <2>2, <2>3 DEF Inv
<1>2. Inv /\ [Next]_vars => Inv'
  <2> SUFFICES ASSUME Inv, [Next]_vars PROVE Inv'
    OBVIOUS
  <2>1. CASE HandlerStep
    BY <2>1, Handlers
  <2>2. CASE \E ic \in ICs : UserStep(ic) \/ Reset(ic)
    BY <2>2, Calling
  <2>3. CASE ChangeSetting
    BY <2>3, Setting
  <2>4. CASE UNCHANGED vars
    <3>1. UNCHANGED <<composing, preedit_string, preedit_state, is_committing, ignore_reset, listing,
                      window, agenda, focus, text, shown, inside, entered>>
      BY <2>4 DEF vars
    <3>2. TypeOK'
      BY <3>1 DEF Inv, TypeOK
    <3>3. AgendaInv' /\ FocusInv' /\ CommitInv'
      BY <3>1 DEF Inv, AgendaInv, FocusInv, CommitInv, Has
    <3>4. ListInv' /\ SettledInv'
      BY <3>1 DEF Inv, ListInv, SettledInv, Has, Quiet
    <3>5. TextInv'
      BY <3>1 DEF Inv, TextInv, Left, Pending, Before
    <3> QED BY <3>2, <3>3, <3>4, <3>5 DEF Inv
  <2> QED BY <2>1, <2>2, <2>3, <2>4 DEF Next
<1> QED BY <1>1, <1>2, PTL

(* What the application has, what is on its way to it and the syllable of  *)
(* the engine (emit_commit, update_preedit and reset of nimf-libhangul.c)  *)
(* are together what the user entered, in its order, in whichever          *)
(* callbacks applications reset the context: NothingLost.                  *)
THEOREM NothingIsLost == Spec => []NothingLost
<1>1. Inv => NothingLost
  <2> SUFFICES ASSUME Inv, NEW ic \in ICs, \A k \in 1 .. Len(agenda) : agenda[k].do \notin {"erase", "delete"}
               PROVE  text[ic] \o Pending(ic) \o (IF focus = ic THEN composing ELSE <<>>) = entered[ic]
    BY Zenon DEF NothingLost
  <2>1. Left(ic) = text[ic]
    <3>1. agenda # <<>> => 1 \in 1 .. Len(agenda)
      <4>1. agenda \in Seq(Items)
        BY AgendaTypes DEF Inv
      <4> QED BY <4>1, PopFacts, Zenon
    <3> QED BY <3>1 DEF Left, Before
  <2>2. Left(ic) \o Pending(ic) \o (IF focus = ic THEN composing ELSE <<>>) = entered[ic]
    BY Zenon DEF Inv, TextInv
  <2> QED BY <2>1, <2>2, Zenon
<1> QED BY <1>1, Invariance, PTL DEF Spec

-----------------------------------------------------------------------------
(* What a step that emits nothing new to show leaves due.                  *)
LEMMA PassesFacts ==
  ASSUME Inv, agenda # <<>>, Then(<<>>) \/ \E sig : Then(Await(sig))
  PROVE  /\ Has(agenda', {"change"}) => Has(Tail(agenda), {"change"})
         /\ agenda' # <<>> /\ agenda[1].ic \notin Inline => agenda'[1].do # "window"
<1>1. CASE Then(<<>>)
  <2>1. agenda' = Tail(agenda)
    BY <1>1, PopStep
  <2>2. PICK r \in Seq(Items) : r = Tail(agenda)
    BY HeadFacts, Zenon
  <2>3. r # <<>> => Inner(r[1], composing, agenda[1].ic)
    <3>1. Rest(r, composing, agenda[1].ic)
      BY <2>2, HeadFacts, Zenon
    <3> QED BY <3>1, RestTail, Zenon
  <2> QED BY <2>1, <2>2, <2>3 DEF Inner
<1>2. ASSUME NEW sig, Then(Await(sig))
      PROVE  /\ Has(agenda', {"change"}) => Has(Tail(agenda), {"change"})
             /\ agenda' # <<>> /\ agenda[1].ic \notin Inline => agenda'[1].do # "window"
  <2>1. PICK d \in Dos : d = (IF sig \in Callbacks THEN "callback" ELSE "reply") /\ d \in Waits
    BY DEF Dos, Waits
  <2>2. agenda[1].ic \in ICs /\ <<>> \in Seq(Chars)
    BY HeadFacts DEF Items
  <2>3. PICK x \in Items : IsItem(x, d, agenda[1].ic, <<>>)
    BY <2>2, ItemFacts, Zenon
  <2>4. Await(sig) = <<x>> /\ x.do = d
    BY <2>1, <2>3 DEF Await, IsItem, ic0
  <2>5. PICK r \in Seq(Items) : r = Tail(agenda)
    BY HeadFacts, Zenon
  <2>6. agenda' = <<x>> \o r
    BY <1>2, <2>4, <2>5 DEF Then
  <2>7. agenda'[1] = x
    BY <2>6, PushFacts
  <2>8. Has(agenda', {"change"}) <=> x.do \in {"change"} \/ Has(r, {"change"})
    BY <2>6, HasCons, Zenon
  <2> QED BY <2>1, <2>4, <2>5, <2>7, <2>8 DEF Waits
<1> QED BY <1>1, <1>2

LEMMA HeadHas ==
  ASSUME Inv, agenda # <<>>, NEW D
  PROVE  Has(agenda, D) <=> agenda[1].do \in D \/ Has(Tail(agenda), D)
  BY HeadFacts, HasTail, Zenon

(* What is shown after a step of a handler: also when it was the last and  *)
(* the context has lost the focus.                                         *)
LEMMA FinishShows ==
  ASSUME Quiet, Inv, Inv', agenda # <<>>, GoesOn, UNCHANGED <<composing, focus>>,
         NEW i, i = agenda[1].ic, StateInv', AppOf(i)', WindowOf(i)'
  PROVE  ShowsInv'
<1>1. CASE agenda' # <<>>
  <2>1. agenda'[1].ic = i
    BY <1>1, Zenon DEF GoesOn, Continues
  <2>2. Current' = i
    BY <1>1, <2>1 DEF Current
  <2> QED BY <2>2, Zenon DEF ShowsInv, AppInv, WindowInv
<1>2. CASE agenda' = <<>>
  <2>1. Current' = focus
    BY <1>2 DEF Current
  <2>2. CASE focus = i
    BY <2>1, <2>2, Zenon DEF ShowsInv, AppInv, WindowInv
  <2>3. CASE focus # i
    <3>1. focus = NoIC /\ composing = <<>>
      BY <2>3 DEF Inv, AgendaInv, FocusInv
    <3>2. ~ Has(agenda', {"update", "change", "clear"}) /\ ~ Has(agenda', {"update", "end"})
      BY <1>2, HasNothing
    <3>3. preedit_string' = <<>>
      <4>1. Quiet'
        BY DEF Quiet
      <4> QED BY <3>1, <3>2, <4>1 DEF Inv, SettledInv
    <3>4. preedit_state' # "start"
      BY <3>2, <3>3 DEF StateInv
    <3>5. NoIC \notin ICs /\ NoIC \notin Inline
      BY HangulAssumption
    <3>6. AppInv'
      <4>1. \A ic \in Inline : shown'[ic] = <<>> /\ ~ inside'[ic]
        BY <3>3, <3>4 DEF AppOf
      <4> QED BY <2>1, <3>1, <3>3, <3>4, <4>1 DEF AppInv, AppOf
    <3>7. WindowInv'
      <4>1. window' = <<>>
        BY <1>2, <3>3 DEF WindowOf
      <4> QED BY <2>1, <3>1, <3>5, <4>1 DEF WindowInv, WindowOf
    <3> QED BY <3>6, <3>7 DEF ShowsInv
  <2> QED BY <2>2, <2>3
<1> QED BY <1>1, <1>2

(* What is shown while a handler runs.                                     *)
LEMMA ShowsNow ==
  ASSUME ShowsInv, agenda # <<>>, NEW i, i = agenda[1].ic
  PROVE  StateInv /\ AppOf(i) /\ WindowOf(i)
<1>1. Current = i
  BY DEF Current
<1> QED BY <1>1, Zenon DEF ShowsInv, AppInv, WindowInv

(* Steps that leave the preedit alone.                                     *)
LEMMA PassingShows ==
  ASSUME Quiet, Inv, Inv', ShowsInv, agenda # <<>>, GoesOn, Then(<<>>) \/ \E sig : Then(Await(sig)),
         UNCHANGED <<composing, focus, preedit_string, preedit_state, shown, inside, window>>,
         agenda[1].do \notin {"start", "change", "end", "window", "update"}
  PROVE  ShowsInv'
<1>1. PICK i : i = agenda[1].ic
  OBVIOUS
<1>2. StateInv /\ AppOf(i) /\ WindowOf(i)
  BY <1>1, ShowsNow
<1>3. AppOf(i)'
  BY <1>2 DEF AppOf
<1>4. WindowOf(i)'
  <2>1. i \notin Inline /\ agenda' # <<>> => agenda'[1].do # "window"
    BY <1>1, PassesFacts
  <2> QED BY <1>2, <2>1 DEF WindowOf
<1>5. StateInv'
  <2>1. Has(agenda, {"update", "end"}) => Has(agenda', {"update", "end"})
    BY TailHas
  <2>2. Has(agenda', {"change"}) => Has(agenda, {"change"})
    BY PassesFacts, HeadHas, Zenon
  <2> QED BY <1>2, <2>1, <2>2 DEF StateInv
<1> QED BY <1>1, <1>3, <1>4, <1>5, FinishShows

(* The preedit window is told, or hidden with the focus.                   *)
LEMMA WindowShows ==
  ASSUME Quiet, Inv, Inv', ShowsInv, GoesOn, ShowWindow \/ Unfocus
  PROVE  ShowsInv'
<1>0. /\ agenda # <<>> /\ Then(<<>>) /\ agenda[1].do \in {"window", "unfocus"}
      /\ UNCHANGED <<composing, focus, preedit_string, preedit_state, shown, inside>>
  BY DEF ShowWindow, Unfocus, Due, engineVars, appVars
<1>1. PICK i : i = agenda[1].ic
  OBVIOUS
<1>2. StateInv /\ AppOf(i) /\ WindowOf(i)
  BY <1>0, <1>1, ShowsNow
<1>3. AppOf(i)'
  BY <1>0, <1>2 DEF AppOf
<1>4. WindowOf(i)'
  <2>1. i \notin Inline /\ agenda' # <<>> => agenda'[1].do # "window"
    BY <1>0, <1>1, PassesFacts
  <2>2. CASE ShowWindow
    <3>1. /\ window' = (IF i \notin Inline /\ listing = NoIC THEN agenda[1].text ELSE <<>>)
          /\ agenda[1].do = "window"
      BY <1>1, <2>2 DEF ShowWindow, Due, ic0, text0
    <3>2. i \in ICs
      BY <1>0, <1>1, HeadFacts DEF Items
    <3> QED BY <1>0, <1>2, <2>1, <3>1, <3>2 DEF WindowOf
  <2>3. CASE Unfocus
    <3>1. window' = <<>> /\ agenda[1].do = "unfocus"
      BY <2>3 DEF Unfocus, Due
    <3>2. composing = <<>> /\ Tail(agenda) = <<>>
      BY <1>0, <3>1, HeadFacts DEF Leads, Suits, Follows
    <3>3. agenda' = <<>>
      BY <1>0, <3>2, PopStep
    <3>4. preedit_string' = <<>>
      <4>1. Quiet' /\ ~ Has(agenda', {"update", "change", "clear"})
        BY <3>3, HasNothing DEF Quiet
      <4> QED BY <1>0, <3>2, <4>1 DEF Inv, SettledInv
    <3> QED BY <3>1, <3>3, <3>4 DEF WindowOf
  <2> QED BY <2>2, <2>3
<1>5. StateInv'
  <2>1. Has(agenda, {"update", "end"}) => Has(agenda', {"update", "end"})
    BY <1>0, TailHas
  <2>2. Has(agenda', {"change"}) => Has(agenda, {"change"})
    BY <1>0, PassesFacts, HeadHas, Zenon
  <2> QED BY <1>0, <1>2, <2>1, <2>2 DEF StateInv
<1> QED BY <1>0, <1>1, <1>3, <1>4, <1>5, FinishShows

(* update_preedit and its three steps: the state follows the text before   *)
(* the application is told of it.                                          *)
LEMMA UpdateShows ==
  ASSUME Quiet, Inv, Inv', ShowsInv, GoesOn, Update \/ ClearPreedit
  PROVE  ShowsInv'
<1>0. /\ agenda # <<>> /\ agenda[1].do \in {"update", "clear"}
      /\ UNCHANGED <<composing, focus, preedit_string, preedit_state, shown, inside, window>>
  BY DEF Update, ClearPreedit, Due, engineVars, appVars
<1>1. CASE \E t \in Seq(Letters) : Updating(agenda', agenda[1].ic, t, Tail(agenda), composing)
  <2>1. PICK t \in Seq(Letters) : Updating(agenda', agenda[1].ic, t, Tail(agenda), composing)
    BY <1>1
  <2>2. PICK i : i = agenda[1].ic
    OBVIOUS
  <2>3. agenda'[1].do = "start"
    BY <2>1 DEF Updating, Head1, Item
  <2>4. Has(agenda', {"update", "end"})
    <3>1. Has(agenda', {"update", "end"}) <=>
            (\E d \in {"start", "change", "end"} : d \in {"update", "end"}) \/ Has(Tail(agenda), {"update", "end"})
      BY <2>1, Zenon DEF Updating, Gains
    <3> QED BY <3>1
  <2>5. StateInv /\ AppOf(i) /\ WindowOf(i)
    BY <1>0, <2>2, ShowsNow
  <2>6. AppOf(i)'
    BY <1>0, <2>5 DEF AppOf
  <2>7. WindowOf(i)'
    BY <1>0, <2>3, <2>5 DEF WindowOf
  <2>8. StateInv'
    BY <1>0, <2>3, <2>4, <2>5 DEF StateInv
  <2> QED BY <1>0, <2>2, <2>6, <2>7, <2>8, FinishShows
<1>2. CASE ~ \E t \in Seq(Letters) : Updating(agenda', agenda[1].ic, t, Tail(agenda), composing)
  <2>1. agenda' = Tail(agenda)
    BY <1>2, Preediting
  <2>2. Then(<<>>)
    BY <1>0, <2>1, HeadFacts DEF Then
  <2>3. agenda[1].do # "update"
    <3> SUFFICES ASSUME agenda[1].do = "update" PROVE FALSE
      OBVIOUS
    <3>1. Update
      BY DEF Update, ClearPreedit, Due
    <3>2. agenda' = UpdatePreedit(ic0, composing) \o Tail(agenda) /\ composing \in Seq(Letters) /\ ic0 \in ICs
      BY <1>0, <3>1, HeadFacts, TypesNow DEF Update, Then, Inv, EngineTypes, Items, ic0
    <3>3. composing # <<>> => Tail(agenda) = <<>>
      BY <1>0, HeadFacts DEF Leads, Follows
    <3>4. Updating(agenda', agenda[1].ic, composing, Tail(agenda), composing)
      <4>1. Then(UpdatePreedit(ic0, composing))
        BY <3>1 DEF Update
      <4> QED BY <1>0, <3>2, <3>3, <4>1, UpdateStep
    <3> QED BY <1>2, <3>2, <3>4
  <2> QED BY <1>0, <2>2, <2>3, PassingShows
<1> QED BY <1>1, <1>2

LEMMA StartShows ==
  ASSUME Quiet, Inv, Inv', ShowsInv, GoesOn, Start
  PROVE  ShowsInv'
<1>0. /\ agenda # <<>> /\ agenda[1].do = "start" /\ (Then(<<>>) \/ \E sig : Then(Await(sig)))
      /\ UNCHANGED <<composing, focus, preedit_string, shown, window>>
  BY DEF Start, Due
<1>1. PICK i \in ICs : i = agenda[1].ic
  BY <1>0, HeadFacts DEF Items
<1>2. StateInv /\ AppOf(i) /\ WindowOf(i)
  BY <1>0, <1>1, ShowsNow
<1>3. WindowOf(i)'
  <2>1. i \notin Inline /\ agenda' # <<>> => agenda'[1].do # "window"
    BY <1>0, <1>1, PassesFacts
  <2> QED BY <1>0, <1>2, <2>1 DEF WindowOf
<1>4. Has(agenda', {"update", "end"})
  <2>1. /\ Leads(agenda[1], Tail(agenda), composing) /\ Tail(agenda) \in Seq(Items)
        /\ Rest(Tail(agenda), composing, agenda[1].ic)
    BY <1>0, HeadFacts, Zenon
  <2>2. PICK r \in Seq(Items) : r = Tail(agenda)
    BY <2>1, Zenon
  <2>3. r # <<>> /\ r[1].do = "change"
    BY <1>0, <2>1, <2>2 DEF Leads, Follows
  <2>4. PICK q \in Seq(Items) : q = Tail(r)
    BY <2>3, PopFacts, Zenon
  <2>5. Follows(r[1], q # <<>>, q[1], composing)
    BY <2>1, <2>2, <2>3, <2>4, RestTail, Zenon
  <2>6. q # <<>> /\ q[1].do \in {"update", "end"}
    BY <2>3, <2>5 DEF Follows
  <2>7. Has(q, {"update", "end"})
    BY <2>6, HasTail, Zenon
  <2>8. Has(r, {"update", "end"})
    BY <2>3, <2>4, <2>7, HasTail, Zenon
  <2> QED BY <2>2, <2>8, Zenon DEF GoesOn, Continues
<1>5. CASE preedit_state = "end" /\ text0 # <<>>
  <2>1. preedit_state' = "start" /\ inside' = [inside EXCEPT ![i] = @ \/ i \in Inline]
    BY <1>1, <1>5 DEF Start, ic0
  <2>2. AppOf(i)'
    <3>1. inside \in [ICs -> BOOLEAN] /\ Inline \subseteq ICs
      BY HangulAssumption, TypesNow DEF Inv, AppTypes
    <3>2. \A ic \in Inline : inside'[ic] <=> ic = i
      <4>1. \A ic \in Inline : ic # i => inside'[ic] = inside[ic]
        BY <2>1, <3>1
      <4>2. i \in Inline => inside'[i]
        BY <2>1, <3>1
      <4>3. \A ic \in Inline : ic # i => ~ inside[ic]
        BY <1>2 DEF AppOf
      <4> QED BY <4>1, <4>2, <4>3
    <3> QED BY <1>0, <1>2, <2>1, <3>2 DEF AppOf
  <2>3. StateInv'
    BY <1>0, <1>4, <2>1 DEF StateInv
  <2> QED BY <1>0, <1>1, <1>3, <2>2, <2>3, FinishShows
<1>6. CASE ~ (preedit_state = "end" /\ text0 # <<>>)
  <2>1. UNCHANGED <<preedit_state, inside>>
    BY <1>6 DEF Start
  <2>2. AppOf(i)'
    BY <1>0, <1>2, <2>1 DEF AppOf
  <2>3. composing # <<>> => preedit_state = "start"
    <3>1. text0 = composing
      BY <1>0, HeadFacts DEF Leads, Suits, text0
    <3>2. preedit_state \in {"start", "end"}
      BY TypesNow DEF Inv, EngineTypes
    <3> QED BY <1>6, <3>1, <3>2
  <2>4. StateInv'
    BY <1>0, <1>2, <1>4, <2>1, <2>3 DEF StateInv
  <2> QED BY <1>0, <1>1, <1>3, <2>2, <2>4, FinishShows
<1> QED BY <1>5, <1>6

LEMMA EndShows ==
  ASSUME Quiet, Inv, Inv', ShowsInv, GoesOn, End
  PROVE  ShowsInv'
<1>0. /\ agenda # <<>> /\ agenda[1].do = "end" /\ (Then(<<>>) \/ \E sig : Then(Await(sig)))
      /\ UNCHANGED <<composing, focus, preedit_string, shown>>
  BY DEF End, Due
<1>1. PICK i \in ICs : i = agenda[1].ic
  BY <1>0, HeadFacts DEF Items
<1>2. StateInv /\ AppOf(i) /\ WindowOf(i)
  BY <1>0, <1>1, ShowsNow
<1>3. composing # <<>> => ~ Has(agenda', {"change"})
  <2>1. composing # <<>> => Tail(agenda) = <<>>
    BY <1>0, HeadFacts DEF Leads, Follows
  <2> QED BY <1>0, <2>1, PassesFacts, HasNothing
<1>4. i \notin Inline /\ agenda' # <<>> => agenda'[1].do # "window"
  BY <1>0, <1>1, PassesFacts
<1>5. CASE Ends
  <2>1. /\ preedit_state' = "end" /\ preedit_string = <<>> /\ inside' = [inside EXCEPT ![i] = @ /\ i \notin Inline]
        /\ window' = IF i \in Inline THEN window ELSE <<>>
    BY <1>1, <1>5 DEF End, Ends, ic0
  <2>2. AppOf(i)'
    <3>1. inside \in [ICs -> BOOLEAN] /\ Inline \subseteq ICs
      BY HangulAssumption, TypesNow DEF Inv, AppTypes
    <3>2. \A ic \in Inline : ~ inside'[ic]
      <4>1. \A ic \in Inline : ic # i => inside'[ic] = inside[ic]
        BY <2>1, <3>1
      <4>2. i \in Inline => ~ inside'[i]
        BY <2>1, <3>1
      <4>3. \A ic \in Inline : ic # i => ~ inside[ic]
        BY <1>2 DEF AppOf
      <4> QED BY <4>1, <4>2, <4>3
    <3> QED BY <1>0, <1>2, <2>1, <3>2 DEF AppOf
  <2>3. StateInv'
    BY <1>0, <1>3, <2>1 DEF StateInv
  <2>4. WindowOf(i)'
    BY <1>0, <1>1, <1>2, <1>4, <2>1 DEF WindowOf
  <2> QED BY <1>0, <1>1, <2>2, <2>3, <2>4, FinishShows
<1>6. CASE ~ Ends
  <2>1. UNCHANGED <<preedit_state, inside, window>>
    BY <1>6 DEF End
  <2>2. AppOf(i)'
    BY <1>0, <1>2, <2>1 DEF AppOf
  <2>3. StateInv'
    BY <1>0, <1>2, <1>3, <1>6, <2>1 DEF StateInv, Ends
  <2>4. WindowOf(i)'
    BY <1>0, <1>2, <1>4, <2>1 DEF WindowOf
  <2> QED BY <1>0, <1>1, <2>2, <2>3, <2>4, FinishShows
<1> QED BY <1>5, <1>6

LEMMA ChangeShows ==
  ASSUME Quiet, Inv, Inv', ShowsInv, GoesOn, Change \/ Again
  PROVE  ShowsInv'
<1>0. /\ agenda # <<>> /\ agenda[1].do \in {"change", "again"}
      /\ UNCHANGED <<composing, focus, preedit_state, inside, listing, window>>
  BY DEF Change, Again, Due, engineVars
<1>1. PICK i \in ICs : i = agenda[1].ic
  BY <1>0, HeadFacts DEF Items
<1>2. StateInv /\ AppOf(i) /\ WindowOf(i)
  BY <1>0, <1>1, ShowsNow
<1>3. /\ Leads(agenda[1], Tail(agenda), composing) /\ Tail(agenda) \in Seq(Items) /\ agenda[1] \in Items
      /\ Rest(Tail(agenda), composing, agenda[1].ic)
  BY <1>0, HeadFacts, Zenon
<1>4. /\ Change => /\ agenda[1].text = composing /\ composing \in Seq(Letters)
                   /\ Tail(agenda) # <<>> /\ Tail(agenda)[1].do = "end"
      /\ Again => Tail(agenda) = <<>>
  BY <1>3 DEF Change, Again, Due, Leads, Suits, Follows
<1>5. Again => /\ listing = NoIC /\ (composing # <<>> => preedit_string = composing)
               /\ (preedit_string = <<>> => preedit_state # "start")
  <2> SUFFICES ASSUME Again PROVE /\ listing = NoIC /\ (composing # <<>> => preedit_string = composing)
                                  /\ (preedit_string = <<>> => preedit_state # "start")
    OBVIOUS
  <2>1. agenda[1].do = "again"
    BY DEF Again, Due
  <2>2. ASSUME NEW D, Has(agenda, D) PROVE "again" \in D
    <3>1. ~ Has(Tail(agenda), D)
      BY <1>4, HasNothing
    <3>2. Has(agenda, D) <=> agenda[1].do \in D \/ Has(Tail(agenda), D)
      BY <1>0, HeadHas
    <3> QED BY <2>1, <2>2, <3>1, <3>2
  <2>3. ~ Has(agenda, {"hide"}) /\ ~ Has(agenda, {"update", "change", "clear"}) /\ ~ Has(agenda, {"update", "end"})
    BY <2>2
  <2> QED BY <1>0, <1>2, <2>3 DEF Inv, ListInv, SettledInv, StateInv
<1>6. /\ preedit_string' = (IF Change THEN composing ELSE preedit_string)
      /\ preedit_string' \in Seq(Letters)
  <2>1. CASE Change
    <3>1. text0 = composing
      BY <1>4, <2>1 DEF text0
    <3>2. preedit_string' = composing
      BY <2>1, <3>1 DEF Change
    <3> QED BY <1>4, <2>1, <3>2
  <2>2. CASE ~ Change
    BY <2>2, TypesNow DEF Again, engineVars, Inv, EngineTypes
  <2> QED BY <2>1, <2>2
<1>7. StateInv'
  <2>1. CASE Change
    <3>1. agenda[1].do = "change"
      BY <2>1 DEF Change, Due
    <3>2. composing # <<>> => preedit_state = "start"
      <4>1. Has(agenda, {"change"})
        BY <1>0, <3>1, HeadHas
      <4> QED BY <1>2, <3>1, <4>1 DEF StateInv
    <3>3. Has(agenda', {"update", "end"})
      <4>1. Tail(agenda)[1].do \in {"update", "end"}
        BY <1>4, <2>1
      <4>2. Has(Tail(agenda), {"update", "end"})
        BY <1>3, <1>4, <2>1, <4>1, HasTail, Zenon
      <4> QED BY <4>2, Zenon DEF GoesOn, Continues
    <3> QED BY <1>0, <1>6, <2>1, <3>2, <3>3 DEF StateInv
  <2>2. CASE ~ Change
    BY <1>0, <1>2, <1>5, <1>6, <2>2 DEF StateInv
  <2> QED BY <2>1, <2>2
<1>8. CASE EmitChanged(preedit_string')
  <2>1. /\ i \in Inline => agenda' # <<>> /\ agenda'[1].do \in Waits
        /\ i \notin Inline => agenda' # <<>> /\ agenda'[1] = Item("window", i, preedit_string')
    <3>1. composing # <<>> /\ Tail(agenda) # <<>> => Tail(agenda)[1].do # "change"
      BY <1>0, <1>4
    <3>2. PICK t \in Seq(Letters) : t = preedit_string'
      BY <1>6, Zenon
    <3>3. EmitChanged(t)
      BY <1>8, <3>2
    <3>4. /\ agenda' # <<>>
          /\ agenda[1].ic \in Inline => agenda'[1].do \in Waits
          /\ agenda[1].ic \notin Inline => agenda'[1] = Item("window", agenda[1].ic, t)
      BY <1>0, <3>1, <3>3, ChangedStep
    <3> QED BY <1>1, <3>2, <3>4
  <2>2. shown' = IF i \in Inline THEN [shown EXCEPT ![i] = preedit_string'] ELSE shown
    BY <1>1, <1>8 DEF EmitChanged, ic0
  <2>3. AppOf(i)'
    <3>1. shown \in [ICs -> Seq(Letters)] /\ Inline \subseteq ICs
      BY HangulAssumption, TypesNow DEF Inv, AppTypes
    <3>2. \A ic \in Inline : shown'[ic] = IF ic = i THEN preedit_string' ELSE <<>>
      BY <1>2, <2>2, <3>1 DEF AppOf
    <3> QED BY <1>0, <1>2, <3>2 DEF AppOf
  <2>4. WindowOf(i)'
    <3>1. CASE i \in Inline
      BY <1>0, <1>2, <3>1 DEF WindowOf
    <3>2. CASE i \notin Inline
      <4>1. agenda'[1].do = "window" /\ agenda'[1].text = preedit_string' /\ agenda' # <<>>
        BY <2>1, <3>2 DEF Item
      <4>2. listing' # NoIC => preedit_string' = <<>>
        <5>1. listing # NoIC => composing = <<>>
          BY <1>0 DEF Inv, ListInv
        <5> QED BY <1>0, <1>5, <1>6, <5>1
      <4> QED BY <1>1, <3>2, <4>1, <4>2 DEF WindowOf
    <3> QED BY <3>1, <3>2
  <2> QED BY <1>0, <1>1, <1>7, <2>3, <2>4, FinishShows
<1>9. CASE ~ EmitChanged(preedit_string')
  <2>1. Change /\ Then(<<>>) /\ UNCHANGED <<preedit_string, shown>>
    BY <1>9 DEF Change, Again, engineVars
  <2>2. i \notin Inline /\ agenda' # <<>> => agenda'[1].do # "window"
    BY <1>0, <1>1, <2>1, PassesFacts
  <2>3. AppOf(i)'
    BY <1>0, <1>2, <2>1 DEF AppOf
  <2>4. agenda[1].do # "window"
    BY <1>0
  <2>5. WindowOf(i)'
    BY <1>0, <1>2, <2>1, <2>2, <2>4 DEF WindowOf
  <2> QED BY <1>0, <1>1, <1>7, <2>3, <2>5, FinishShows
<1> QED BY <1>8, <1>9

(* All steps of handlers.                                                  *)
LEMMA HandlersShow ==
  ASSUME Quiet, Inv, Inv', ShowsInv, HandlerStep
  PROVE  ShowsInv'
<1>1. GoesOn
  BY Handlers
<1>2. CASE Commit \/ Committed \/ PassKey \/ DeleteSurrounding \/ HideCandidates \/ Reply
  <2>1. /\ agenda # <<>> /\ agenda[1].do \notin {"start", "change", "end", "window", "update"}
        /\ (Then(<<>>) \/ \E sig : Then(Await(sig)))
        /\ UNCHANGED <<composing, focus, preedit_string, preedit_state, shown, inside, window>>
    BY <1>2 DEF Commit, Committed, PassKey, DeleteSurrounding, HideCandidates, Reply, Due, engineVars, appVars, Waits
  <2> QED BY <1>1, <2>1, PassingShows
<1> QED BY <1>1, <1>2, WindowShows, UpdateShows, StartShows, EndShows, ChangeShows DEF HandlerStep

(* A call changes nothing that is shown, it leaves steps that will.        *)
LEMMA CallShows ==
  ASSUME Quiet, ShowsInv, NEW ic \in ICs, Current = ic, agenda # <<>> => agenda[1].do # "window", Called(ic),
         UNCHANGED <<preedit_string, preedit_state, window, shown, inside>>,
         preedit_state = "start" => preedit_string # <<>> \/ Has(agenda', {"update", "end"})
  PROVE  ShowsInv'
<1>1. agenda' # <<>> /\ agenda'[1].ic = ic
  BY DEF Called
<1>2. PICK i \in ICs : i = ic /\ Current = i /\ Current' = i
  BY <1>1 DEF Current
<1>3. StateInv /\ AppOf(i) /\ WindowOf(i)
  BY <1>2, Zenon DEF ShowsInv, AppInv, WindowInv
<1>4. AppOf(i)'
  BY <1>3 DEF AppOf
<1>5. WindowOf(i)'
  BY <1>1, <1>2, <1>3 DEF WindowOf, Called
<1>6. StateInv'
  BY <1>3 DEF StateInv, Called
<1> QED BY <1>2, <1>4, <1>5, <1>6, Zenon DEF ShowsInv, AppInv, WindowInv

(* Calls at rest, resets, and the focus, which finds an empty preedit.     *)
LEMMA RestShows ==
  ASSUME Quiet, ShowsInv, NEW ic \in ICs, AtRest(ic), Called(ic),
         UNCHANGED <<preedit_string, preedit_state, window, shown, inside>>
  PROVE  ShowsInv'
<1>1. agenda = <<>> /\ Current = ic
  BY DEF AtRest, Current
<1>2. preedit_state = "start" => preedit_string # <<>>
  <2>1. ~ Has(agenda, {"update", "end"})
    BY <1>1, HasNothing
  <2> QED BY <2>1 DEF ShowsInv, StateInv
<1> QED BY <1>1, <1>2, CallShows

LEMMA ResetShows ==
  ASSUME Quiet, Inv, ShowsInv, NEW ic \in ICs, Reset(ic)
  PROVE  ShowsInv'
<1>1. /\ AtRest(ic) \/ InCallback(ic)
      /\ ResetThen(ic, <<>>)
      /\ UNCHANGED <<preedit_string, preedit_state, window, shown, inside, focus>>
  BY DEF Reset, appVars
<1>2. /\ Inv'
      /\ ResetIgnored => agenda # <<>> /\ agenda[1].do = "callback" /\ GoesOn /\ Then(Do("reply", ic0, <<>>))
      /\ ~ ResetIgnored => Called(ic) /\ Has(agenda', {"update", "end"})
  BY Resetting
<1>3. CASE ResetIgnored
  <2>1. Then(Await("preedit-start"))
    BY <1>2, <1>3 DEF Await, Quiet
  <2>2. UNCHANGED composing
    BY <1>1, <1>3 DEF ResetThen
  <2> QED BY <1>1, <1>2, <1>3, <2>1, <2>2, PassingShows
<1>4. CASE ~ ResetIgnored
  <2>1. Current = ic /\ (agenda # <<>> => agenda[1].do # "window")
    BY <1>1 DEF Current, AtRest, InCallback, Due, ic0
  <2> QED BY <1>1, <1>2, <1>4, <2>1, CallShows
<1> QED BY <1>3, <1>4

LEMMA FocusShows ==
  ASSUME Quiet, Inv, ShowsInv, NEW ic \in ICs, FocusIn(ic)
  PROVE  ShowsInv'
<1>1. /\ agenda = <<>> /\ focus = NoIC /\ focus' = ic
      /\ UNCHANGED <<composing, preedit_string, preedit_state, listing, window, agenda, shown, inside>>
  BY DEF FocusIn, AtRest, engineVars, appVars
<1>2. preedit_string = <<>>
  BY <1>1, AtRestFacts DEF Inv, FocusInv
<1>3. preedit_state # "start"
  BY <1>1, <1>2, HasNothing DEF ShowsInv, StateInv
<1>4. Current = NoIC /\ Current' = ic
  BY <1>1 DEF Current
<1>5. NoIC \notin ICs
  BY HangulAssumption
<1>6. window = <<>> /\ \A i \in Inline : shown[i] = <<>> /\ ~ inside[i]
  BY <1>1, <1>2, <1>3, <1>4, <1>5 DEF ShowsInv, AppInv, AppOf, WindowInv, WindowOf
<1>7. StateInv'
  BY <1>1 DEF ShowsInv, StateInv, Has
<1>8. AppInv' /\ WindowInv'
  BY <1>1, <1>2, <1>3, <1>6 DEF AppInv, AppOf, WindowInv, WindowOf
<1> QED BY <1>7, <1>8 DEF ShowsInv

(* All calls.                                                              *)
LEMMA CallingShows ==
  ASSUME Quiet, Inv, ShowsInv, NEW ic \in ICs, UserStep(ic) \/ Reset(ic)
  PROVE  ShowsInv'
<1>1. ASSUME NEW key \in Letters, Compose(ic, key) \/ LeadingConsonant(ic, key) PROVE ShowsInv'
  <2>1. AtRest(ic) /\ UNCHANGED <<preedit_string, preedit_state, window, shown, inside>>
    BY <1>1 DEF Compose, LeadingConsonant, engineVars, appVars
  <2> QED BY <1>1, <2>1, Composing, Doubling, RestShows
<1>2. ASSUME NEW key \in Symbols \cup Others, OtherKey(ic, key) PROVE ShowsInv'
  <2>1. AtRest(ic) /\ UNCHANGED <<preedit_string, preedit_state, window, shown, inside>>
    BY <1>2 DEF OtherKey, appVars
  <2> QED BY <1>2, <2>1, OtherKeys, RestShows
<1>3. ASSUME NEW key \in Others, Return(ic, key) PROVE ShowsInv'
  <2>1. AtRest(ic) /\ UNCHANGED <<preedit_string, preedit_state, window, shown, inside>>
    BY <1>3 DEF Return, appVars
  <2> QED BY <1>3, <2>1, Returning, RestShows
<1>4. CASE BackSpace(ic)
  <2>1. AtRest(ic) /\ UNCHANGED <<preedit_string, preedit_state, window, shown, inside>>
    BY <1>4 DEF BackSpace, appVars
  <2> QED BY <1>4, <2>1, Erasing, RestShows
<1>5. CASE Choose(ic)
  <2>1. AtRest(ic) /\ UNCHANGED <<preedit_string, preedit_state, window, shown, inside>>
    BY <1>5 DEF Choose, appVars
  <2> QED BY <1>5, <2>1, Choosing, RestShows
<1>6. CASE FocusOut(ic)
  <2>1. AtRest(ic) /\ UNCHANGED <<preedit_string, preedit_state, window, shown, inside>>
    BY <1>6 DEF FocusOut, LoseFocus, appVars
  <2> QED BY <1>6, <2>1, LosingFocus, RestShows
<1>7. CASE HanjaKey(ic)
  <2>1. agenda = <<>> /\ UNCHANGED <<composing, preedit_string, preedit_state, window, agenda, focus, shown, inside>>
    BY <1>7 DEF HanjaKey, AtRest, engineVars, appVars
  <2> QED BY <2>1 DEF ShowsInv, StateInv, AppInv, AppOf, WindowInv, WindowOf, Current, Has
<1> QED BY <1>1, <1>2, <1>3, <1>4, <1>5, <1>6, <1>7, FocusShows, ResetShows DEF UserStep

(* What is shown follows the engine as long as no application resets the   *)
(* context in the callback of preedit-start.                               *)
LEMMA ShowsInvariance == ASSUME Quiet PROVE Init /\ [][Next]_vars => []ShowsInv
<1>1. Init => ShowsInv
  <2> SUFFICES ASSUME Init PROVE ShowsInv
    OBVIOUS
  <2>1. StateInv
    BY HasNothing DEF Init, StateInv
  <2>2. AppInv
    BY HangulAssumption DEF Init, AppInv, AppOf
  <2>3. WindowInv
    BY DEF Init, WindowInv, WindowOf
  <2> QED BY <2>1, <2>2, <2>3 DEF ShowsInv
<1>2. Inv /\ Inv' /\ ShowsInv /\ [Next]_vars => ShowsInv'
  <2> SUFFICES ASSUME Inv, Inv', ShowsInv, [Next]_vars PROVE ShowsInv'
    OBVIOUS
  <2>1. CASE HandlerStep
    BY <2>1, HandlersShow
  <2>2. CASE \E ic \in ICs : UserStep(ic) \/ Reset(ic)
    BY <2>2, CallingShows
  <2>3. CASE ChangeSetting \/ UNCHANGED vars
    <3>1. UNCHANGED <<composing, preedit_string, preedit_state, listing, window, agenda, focus, shown, inside>>
      BY <2>3 DEF ChangeSetting, vars, appVars
    <3> QED BY <3>1 DEF ShowsInv, StateInv, AppInv, AppOf, WindowInv, WindowOf, Current, Has
  <2> QED BY <2>1, <2>2, <2>3 DEF Next
<1> QED BY <1>1, <1>2, Invariance, PTL

(* At rest that is the syllable.                                           *)
LEMMA AtRestShows ==
  ASSUME Quiet, Inv, ShowsInv, agenda = <<>>
  PROVE  /\ preedit_string = composing
         /\ \A ic \in Inline : /\ shown[ic] = IF focus = ic THEN composing ELSE <<>>
                               /\ inside[ic] <=> shown[ic] # <<>>
         /\ window = IF focus \in ICs \ Inline THEN composing ELSE <<>>
<1>1. preedit_string = composing
  BY AtRestFacts
<1>2. preedit_state = "start" <=> preedit_string # <<>>
  BY HasNothing DEF ShowsInv, StateInv
<1>3. Current = focus
  BY DEF Current
<1> QED BY <1>1, <1>2, <1>3 DEF ShowsInv, AppInv, AppOf, WindowInv, WindowOf

(* When the handlers are done the context with the focus shows the         *)
(* syllable that the engine composes, inline or in the preedit window, and *)
(* others show nothing, unless an application resets the context in the    *)
(* callback of preedit-start (nimf_libhangul_update_preedit goes on with   *)
(* its argument): ShownInv.                                                *)
THEOREM SyllableIsShown == ASSUME Quiet PROVE Spec => []ShownInv
<1>1. Inv /\ ShowsInv => ShownInv
  BY AtRestShows DEF Inv, ShownInv, ShowsSyllable
<1> QED BY <1>1, Invariance, ShowsInvariance, PTL DEF Spec

(* Under the same condition an application sees a preedit only between     *)
(* preedit-start and preedit-end (update_preedit of nimf-libhangul.c and   *)
(* what nimf-service-ic.c emits for it), and at rest every start has its   *)
(* end: StartsAndEnds.                                                     *)
THEOREM PreeditsEnd == ASSUME Quiet PROVE Spec => []StartsAndEnds
<1>1. Inv /\ ShowsInv => StartsAndEnds
  <2> SUFFICES ASSUME Inv, ShowsInv, NEW ic \in Inline
               PROVE  /\ shown[ic] # <<>> => inside[ic]
                      /\ agenda = <<>> /\ inside[ic] => shown[ic] # <<>>
    BY DEF StartsAndEnds
  <2>1. shown[ic] # <<>> => inside[ic]
    BY DEF ShowsInv, StateInv, AppInv, AppOf
  <2>2. agenda = <<>> /\ inside[ic] => shown[ic] # <<>>
    BY AtRestShows
  <2> QED BY <2>1, <2>2
<1> QED BY <1>1, Invariance, ShowsInvariance, PTL DEF Spec

=============================================================================
