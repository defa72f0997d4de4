------------------------- MODULE NimfEnginesProofs --------------------------
(***************************************************************************)
(* Proofs about NimfEngines, for any engines and contexts: the lists and   *)
(* pointers of the contexts through the two loops of                       *)
(* on_changed_active_engines, one over engines and in it one over contexts.*)
(***************************************************************************)
EXTENDS NimfEngines, SequenceFacts, FiniteSetTheorems

-----------------------------------------------------------------------------
(* Lists.                                                                   *)

(* Lists that have nothing twice.                                           *)
LEMMA EmptyList == \A S : <<>> \in Lists(S) /\ ToSet(<<>>) = {} /\ Len(<<>>) = 0
  BY DEF Lists, IsInjective, ToSet

(* What is in a list is at a place of it.                                   *)
LEMMA ToSetIs ==
  ASSUME NEW S, NEW s \in Seq(S)
  PROVE  /\ ToSet(s) \in SUBSET S
         /\ \A x \in ToSet(s) : \E k \in 1 .. Len(s) : s[k] = x
         /\ \A k \in 1 .. Len(s) : s[k] \in ToSet(s)
         /\ s = <<>> <=> ToSet(s) = {}
         /\ s = <<>> <=> Len(s) = 0
<1>1. DOMAIN s = 1 .. Len(s) /\ Len(s) \in Nat /\ \A k \in 1 .. Len(s) : s[k] \in S
  OBVIOUS
<1>2. s = <<>> <=> Len(s) = 0
  OBVIOUS
<1>3. Len(s) # 0 => 1 \in 1 .. Len(s)
  BY <1>1
<1>4. Len(s) = 0 => 1 .. Len(s) = {}
  BY <1>1
<1> QED BY <1>1, <1>2, <1>3, <1>4 DEF ToSet

(* A list that grows at its head.                                           *)
LEMMA ConsFacts ==
  ASSUME NEW S, NEW s \in Seq(S), NEW x \in S
  PROVE  /\ Cons(x, s) \in Seq(S) /\ Len(Cons(x, s)) = Len(s) + 1
         /\ ToSet(Cons(x, s)) = {x} \cup ToSet(s) /\ Cons(x, s) # <<>>
         /\ IsInjective(s) /\ x \notin ToSet(s) => IsInjective(Cons(x, s))
<1> DEFINE t == Cons(x, s)
<1>1. t \in Seq(S) /\ Len(t) = Len(s) + 1 /\ t[1] = x /\ \A k \in 1 .. Len(s) : t[k + 1] = s[k]
  BY DEF Cons
<1>2. Len(s) \in Nat /\ DOMAIN s = 1 .. Len(s) /\ DOMAIN t = 1 .. Len(s) + 1
  BY <1>1
<1> HIDE DEF t
<1>3. \A k \in 1 .. Len(s) + 1 : k = 1 \/ (k - 1 \in 1 .. Len(s) /\ (k - 1) + 1 = k)
  BY <1>2
<1>4. \A k \in 1 .. Len(s) + 1 : k = 1 \/ t[k] = s[k - 1]
  BY <1>1, <1>3
<1>5. \A k \in 1 .. Len(s) : k + 1 \in 1 .. Len(s) + 1
  BY <1>2
<1>6. 1 \in 1 .. Len(s) + 1
  BY <1>2
<1>7. ToSet(t) = {x} \cup ToSet(s)
  <2>1. ASSUME NEW y \in ToSet(t) PROVE y \in {x} \cup ToSet(s)
    <3>1. PICK k \in 1 .. Len(s) + 1 : y = t[k]
      BY <1>2 DEF ToSet
    <3> QED BY <3>1, <1>1, <1>2, <1>3, <1>4 DEF ToSet
  <2>2. x \in ToSet(t)
    BY <1>1, <1>2, <1>6 DEF ToSet
  <2>3. ASSUME NEW y \in ToSet(s) PROVE y \in ToSet(t)
    <3>1. PICK k \in 1 .. Len(s) : y = s[k]
      BY <1>2 DEF ToSet
    <3>2. y = t[k + 1] /\ k + 1 \in DOMAIN t
      BY <3>1, <1>1, <1>2, <1>5
    <3> QED BY <3>2 DEF ToSet
  <2> QED BY <2>1, <2>2, <2>3
<1>8. ASSUME IsInjective(s), x \notin ToSet(s) PROVE IsInjective(t)
  <2>1. \A k \in 1 .. Len(s) : s[k] # x
    BY <1>8, <1>2 DEF ToSet
  <2>2. \A a, b \in 1 .. Len(s) : s[a] = s[b] => a = b
    BY <1>8, <1>2 DEF IsInjective
  <2>3. ASSUME NEW a \in 1 .. Len(s) + 1, NEW b \in 1 .. Len(s) + 1, t[a] = t[b] PROVE a = b
    <3>1. CASE a = 1 \/ b = 1
      BY <3>1, <2>1, <2>3, <1>1, <1>3, <1>4
    <3>2. CASE a # 1 /\ b # 1
      <4>1. a - 1 \in 1 .. Len(s) /\ b - 1 \in 1 .. Len(s) /\ s[a - 1] = s[b - 1]
        BY <3>2, <2>3, <1>3, <1>4
      <4>2. a - 1 = b - 1
        BY <4>1, <2>2
      <4> QED BY <4>2
    <3> QED BY <3>1, <3>2
  <2> QED BY <2>3, <1>2 DEF IsInjective
<1>9. t # <<>>
  BY <1>1, <1>2
<1> QED BY <1>1, <1>7, <1>8, <1>9 DEF t

(* A list read backwards.                                                   *)
LEMMA ReverseFacts ==
  ASSUME NEW S, NEW s \in Seq(S)
  PROVE  /\ Reverse(s) \in Seq(S) /\ Len(Reverse(s)) = Len(s)
         /\ ToSet(Reverse(s)) = ToSet(s) /\ (Reverse(s) = <<>> <=> s = <<>>)
         /\ IsInjective(s) => IsInjective(Reverse(s))
<1> DEFINE t == Reverse(s)
           n == Len(s)
<1>1. n \in Nat /\ DOMAIN s = 1 .. n /\ \A k \in 1 .. n : s[k] \in S
  OBVIOUS
<1>2. \A k \in 1 .. n : n - k + 1 \in 1 .. n /\ n - (n - k + 1) + 1 = k
  BY <1>1
<1>3. t = [k \in 1 .. n |-> s[n - k + 1]]
  BY DEF Reverse
<1>4. t \in Seq(S) /\ Len(t) = n /\ DOMAIN t = 1 .. n /\ \A k \in 1 .. n : t[k] = s[n - k + 1]
  BY <1>1, <1>2, <1>3
<1> HIDE DEF t
<1>5. \A k \in 1 .. n : t[n - k + 1] = s[k]
  <2> HIDE DEF n
  <2> QED BY <1>2, <1>4
<1>6. ToSet(t) = ToSet(s)
  <2> HIDE DEF n
  <2>1. \A y \in ToSet(t) : y \in ToSet(s)
    BY <1>1, <1>2, <1>4 DEF ToSet
  <2>2. \A y \in ToSet(s) : y \in ToSet(t)
    BY <1>1, <1>2, <1>4, <1>5 DEF ToSet
  <2> QED BY <2>1, <2>2
<1>7. ASSUME IsInjective(s) PROVE IsInjective(t)
  <2>1. \A a, b \in 1 .. n : s[a] = s[b] => a = b
    BY <1>7, <1>1 DEF IsInjective
  <2>2. ASSUME NEW a \in 1 .. n, NEW b \in 1 .. n, t[a] = t[b] PROVE a = b
    <3>1. n - a + 1 = n - b + 1
      BY <2>1, <2>2, <1>2, <1>4
    <3> QED BY <3>1, <1>1
  <2> QED BY <2>2, <1>4 DEF IsInjective
<1>8. t = <<>> <=> s = <<>>
  BY <1>4, <1>1
<1> QED BY <1>4, <1>6, <1>7, <1>8 DEF t

(* The first place of an element.                                           *)
LEMMA PlaceOf ==
  ASSUME NEW S, NEW s \in Seq(S), NEW x \in ToSet(s)
  PROVE  \E k \in 1 .. Len(s) : s[k] = x /\ RemoveFirst(s, x) = SubSeq(s, 1, k - 1) \o SubSeq(s, k + 1, Len(s))
<1> DEFINE I == {i \in 1 .. Len(s) : s[i] = x}
<1>1. I # {} /\ I \in SUBSET Nat /\ \E i \in 1 .. Len(s) : s[i] = x
  BY DEF ToSet
<1>2. Min(I) \in I
  <2>1. PICK m \in I : \A i \in I : m <= i
    BY <1>1, LeastNumber
  <2>2. \E y \in I : \A z \in I : y <= z
    BY <2>1
  <2> HIDE DEF I
  <2> QED BY <2>2, Zenon DEF Min
<1>3. SelectInSeq(s, LAMBDA v : v = x) = Min(I)
  BY <1>1 DEF SelectInSeq
<1>4. RemoveFirst(s, x) = RemoveAt(s, Min(I))
  BY <1>1, <1>3 DEF RemoveFirst
<1> QED BY <1>2, <1>4 DEF RemoveAt

(* A list without its element at k.                                         *)
LEMMA WithoutPlace ==
  ASSUME NEW S, NEW s \in Seq(S), NEW k \in 1 .. Len(s),
         NEW t, t = SubSeq(s, 1, k - 1) \o SubSeq(s, k + 1, Len(s))
  PROVE  /\ t \in Seq(S) /\ Len(t) = Len(s) - 1
         /\ \A m \in 1 .. Len(s) - 1 : t[m] = IF m < k THEN s[m] ELSE s[m + 1]
<1>1. SubSeq(s, 1, k - 1) \in Seq(S) /\ SubSeq(s, k + 1, Len(s)) \in Seq(S)
  OBVIOUS
<1>2. PICK a, b \in Seq(S) : a = SubSeq(s, 1, k - 1) /\ b = SubSeq(s, k + 1, Len(s))
  BY <1>1, Zenon
<1>3. k \in Nat /\ Len(s) \in Nat /\ k >= 1 /\ k <= Len(s)
  OBVIOUS
<1>4. Len(a) = k - 1 /\ \A m \in 1 .. k - 1 : a[m] = s[m]
  BY <1>2, <1>3
<1>5. Len(b) = Len(s) - k
  BY <1>2, <1>3
<1>6. \A m \in 1 .. Len(s) - k : SubSeq(s, k + 1, Len(s))[m] = s[k + m]
  BY <1>3, SMTT(30)
<1>7. \A m \in 1 .. Len(s) - k : b[m] = s[k + m]
  BY <1>2, <1>6, Zenon
<1>8. a \o b \in Seq(S)
  OBVIOUS
<1>9. PICK w \in Seq(S) : w = a \o b
  BY <1>8, Zenon
<1>10. t = w
  BY <1>2, <1>9, Zenon
<1>11. /\ Len(w) = Len(a) + Len(b)
       /\ \A m \in 1 .. Len(a) : w[m] = a[m]
       /\ \A m \in Len(a) + 1 .. Len(a) + Len(b) : w[m] = b[m - Len(a)]
  BY <1>9
<1>12. Len(w) = Len(s) - 1
  BY <1>11, <1>3, <1>4, <1>5
<1>13. ASSUME NEW m \in 1 .. Len(s) - 1 PROVE w[m] = IF m < k THEN s[m] ELSE s[m + 1]
  <2>3. CASE m < k
    <3>1. m \in 1 .. k - 1
      BY <2>3, <1>3
    <3> QED BY <3>1, <2>3, <1>4, <1>11
  <2>4. CASE ~ (m < k)
    <3>1. m - (k - 1) \in 1 .. Len(s) - k /\ k + (m - (k - 1)) = m + 1
      BY <2>4, <1>3
    <3>2. m \in Len(a) + 1 .. Len(a) + Len(b)
      BY <2>4, <1>3, <1>4, <1>5
    <3>3. w[m] = b[m - (k - 1)]
      BY <3>2, <1>11, <1>4
    <3> QED BY <3>1, <3>3, <2>4, <1>7
  <2> QED BY <2>3, <2>4
<1> QED BY <1>10, <1>12, <1>13

(* What RemoveFirst leaves is a list.                                       *)
LEMMA RemoveType ==
  ASSUME NEW S, NEW s \in Seq(S), NEW x \in ToSet(s)
  PROVE  RemoveFirst(s, x) \in Seq(S)
<1>1. PICK k \in 1 .. Len(s) :
        RemoveFirst(s, x) = SubSeq(s, 1, k - 1) \o SubSeq(s, k + 1, Len(s))
  BY PlaceOf
<1> QED BY <1>1, WithoutPlace

(* Of a list that has nothing twice, it takes the engine out.               *)
LEMMA RemoveFacts ==
  ASSUME NEW S, NEW s \in Seq(S), NEW x \in ToSet(s), IsInjective(s)
  PROVE  /\ RemoveFirst(s, x) \in Seq(S) /\ Len(RemoveFirst(s, x)) = Len(s) - 1
         /\ ToSet(RemoveFirst(s, x)) = ToSet(s) \ {x}
         /\ IsInjective(RemoveFirst(s, x))
<1> DEFINE t == RemoveFirst(s, x)
           n == Len(s)
<1>1. PICK k \in 1 .. n : s[k] = x /\ t = SubSeq(s, 1, k - 1) \o SubSeq(s, k + 1, Len(s))
  BY PlaceOf
<1> HIDE DEF t
<1>2. /\ t \in Seq(S) /\ Len(t) = n - 1
      /\ \A m \in 1 .. n - 1 : t[m] = IF m < k THEN s[m] ELSE s[m + 1]
  BY <1>1, WithoutPlace, ZenonT(60)
<1>3. n \in Nat /\ DOMAIN s = 1 .. n /\ DOMAIN t = 1 .. n - 1 /\ k \in Nat
  BY <1>2
<1> HIDE DEF n
<1>4. \A a, b \in 1 .. n : s[a] = s[b] => a = b
  BY <1>3 DEF IsInjective
<1>5. \A m \in 1 .. n - 1 : m \in 1 .. n /\ m + 1 \in 1 .. n
  BY <1>3
<1>6. ToSet(t) = ToSet(s) \ {x}
  <2>1. ASSUME NEW y \in ToSet(t) PROVE y \in ToSet(s) \ {x}
    <3>1. PICK m \in 1 .. n - 1 : y = t[m]
      BY <1>3 DEF ToSet
    <3>2. m \in 1 .. n /\ m + 1 \in 1 .. n
      BY <1>5
    <3>3. PICK j \in 1 .. n : y = s[j] /\ j # k
      <4>1. CASE m < k
        BY <4>1, <3>1, <3>2, <1>2
      <4>2. CASE ~ (m < k)
        <5>1. y = s[m + 1] /\ m + 1 # k
          BY <4>2, <3>1, <1>2, <1>3
        <5> QED BY <5>1, <3>2
      <4> QED BY <4>1, <4>2
    <3> QED BY <3>3, <1>1, <1>3, <1>4 DEF ToSet
  <2>2. ASSUME NEW y \in ToSet(s) \ {x} PROVE y \in ToSet(t)
    <3>1. PICK j \in 1 .. n : y = s[j]
      BY <1>3 DEF ToSet
    <3>2. j # k
      BY <2>2, <3>1, <1>1
    <3>3. CASE j < k
      <4>1. j \in 1 .. n - 1
        BY <3>3, <1>3
      <4> QED BY <4>1, <3>1, <3>3, <1>2, <1>3 DEF ToSet
    <3>4. CASE k < j
      <4>1. j - 1 \in 1 .. n - 1 /\ ~ (j - 1 < k) /\ (j - 1) + 1 = j
        BY <3>4, <1>3
      <4> QED BY <4>1, <3>1, <1>2, <1>3 DEF ToSet
    <3> QED BY <3>2, <3>3, <3>4, <1>3
  <2> QED BY <2>1, <2>2
<1>7. ASSUME NEW a \in 1 .. n - 1, NEW b \in 1 .. n - 1, t[a] = t[b] PROVE a = b
  <2>1. /\ a \in 1 .. n /\ a + 1 \in 1 .. n /\ b \in 1 .. n /\ b + 1 \in 1 .. n
    BY <1>5
  <2>2. (IF a < k THEN s[a] ELSE s[a + 1]) = (IF b < k THEN s[b] ELSE s[b + 1])
    BY <1>7, <1>2
  <2>3. (IF a < k THEN a ELSE a + 1) = (IF b < k THEN b ELSE b + 1)
    BY <2>1, <2>2, <1>4
  <2> QED BY <2>3, <1>3
<1>8. IsInjective(t)
  BY <1>7, <1>3 DEF IsInjective
<1> QED BY <1>2, <1>6, <1>8 DEF t, n

(* g_ptr_array_remove_fast takes one element away.                          *)
LEMMA RemovedFastFacts ==
  ASSUME NEW S, NEW s \in Seq(S), NEW x \in ToSet(s), IsInjective(s)
  PROVE  /\ RemovedFast(s, x) \in Seq(S)
         /\ ToSet(RemovedFast(s, x)) = ToSet(s) \ {x}
         /\ IsInjective(RemovedFast(s, x))
<1> DEFINE k == CHOOSE j \in 1 .. Len(s) : s[j] = x
           n == Len(s)
           u == [s EXCEPT ![k] = Last(s)]
           t == RemovedFast(s, x)
<1>1. k \in 1 .. n /\ s[k] = x
  <2>1. \E j \in 1 .. Len(s) : s[j] = x
    BY DEF ToSet
  <2> QED BY <2>1
<1>2. t = Front(u)
  BY DEF RemovedFast
<1> HIDE DEF k
<1>3. n \in Nat /\ DOMAIN s = 1 .. n /\ n # 0 /\ Last(s) = s[n] /\ Last(s) \in S
  BY <1>1 DEF Last
<1>4. u \in Seq(S) /\ Len(u) = n /\ \A m \in 1 .. n : u[m] = IF m = k THEN s[n] ELSE s[m]
  BY <1>1, <1>3
<1> HIDE DEF u, t
<1>5. t \in Seq(S) /\ Len(t) = n - 1 /\ \A m \in 1 .. n - 1 : t[m] = u[m]
  BY <1>2, <1>3, <1>4 DEF Front
<1>6. DOMAIN t = 1 .. n - 1
  BY <1>5
<1>7. \A m \in 1 .. n - 1 : t[m] = IF m = k THEN s[n] ELSE s[m]
  BY <1>3, <1>4, <1>5
<1> HIDE DEF n
<1>8. \A a, b \in 1 .. n : s[a] = s[b] => a = b
  BY <1>3 DEF IsInjective
<1>9. \A m \in 1 .. n - 1 : m \in 1 .. n /\ m # n
  BY <1>3
<1>10. n \in 1 .. n
  BY <1>3
<1>11. ToSet(t) = ToSet(s) \ {x}
  <2>1. ASSUME NEW y \in ToSet(t) PROVE y \in ToSet(s) \ {x}
    <3>1. PICK m \in 1 .. n - 1 : y = t[m]
      BY <1>6 DEF ToSet
    <3>2. PICK j \in 1 .. n : y = s[j] /\ j # k
      BY <3>1, <1>7, <1>9, <1>10
    <3> QED BY <3>2, <1>1, <1>3, <1>8 DEF ToSet
  <2>2. ASSUME NEW y \in ToSet(s) \ {x} PROVE y \in ToSet(t)
    <3>1. PICK j \in 1 .. n : y = s[j]
      BY <1>3 DEF ToSet
    <3>2. j # k
      BY <2>2, <3>1, <1>1
    <3>3. CASE j # n
      <4>1. j \in 1 .. n - 1
        BY <3>3, <1>3
      <4> QED BY <4>1, <3>1, <3>2, <1>6, <1>7 DEF ToSet
    <3>4. CASE j = n
      <4>1. k \in 1 .. n - 1
        BY <3>2, <3>4, <1>1, <1>3
      <4> QED BY <4>1, <3>1, <3>4, <1>6, <1>7 DEF ToSet
    <3> QED BY <3>3, <3>4
  <2> QED BY <2>1, <2>2
<1>12. ASSUME NEW a \in 1 .. n - 1, NEW b \in 1 .. n - 1, t[a] = t[b] PROVE a = b
  <2>1. a \in 1 .. n /\ b \in 1 .. n /\ a # n /\ b # n
    BY <1>9
  <2>2. (IF a = k THEN s[n] ELSE s[a]) = (IF b = k THEN s[n] ELSE s[b])
    BY <1>12, <1>7
  <2> QED BY <2>1, <2>2, <1>8, <1>10
<1>13. IsInjective(t)
  BY <1>12, <1>6 DEF IsInjective
<1> QED BY <1>5, <1>11, <1>13 DEF t

(* A list that grows at its end.                                            *)
LEMMA AppendListFacts ==
  ASSUME NEW S, NEW s \in Seq(S), NEW x \in S, x \notin ToSet(s), IsInjective(s)
  PROVE  /\ Append(s, x) \in Seq(S) /\ ToSet(Append(s, x)) = ToSet(s) \cup {x}
         /\ IsInjective(Append(s, x))
<1> DEFINE t == Append(s, x)
           n == Len(s)
<1>1. t \in Seq(S) /\ Len(t) = n + 1 /\ t[n + 1] = x /\ \A k \in 1 .. n : t[k] = s[k]
  OBVIOUS
<1>2. n \in Nat /\ DOMAIN s = 1 .. n /\ DOMAIN t = 1 .. n + 1
  BY <1>1
<1> HIDE DEF t, n
<1>3. 1 .. n + 1 = (1 .. n) \cup {n + 1}
  BY <1>2
<1>4. ToSet(t) = ToSet(s) \cup {x}
  BY <1>1, <1>2, <1>3 DEF ToSet
<1>5. \A k \in 1 .. n : s[k] # x
  BY <1>2 DEF ToSet
<1>6. IsInjective(t)
  BY <1>1, <1>2, <1>3, <1>5 DEF IsInjective
<1> QED BY <1>1, <1>4, <1>6 DEF t

-----------------------------------------------------------------------------
(* States of the contexts, and looking engines up.                          *)

(* What a handler passes from context to context.                          *)
States == [engine  : [ICs -> Engine \cup {Null, Dangling}],
           engines : [ICs -> Seq(Engines)],
           default : Engines]

(* What is looked up is in the list, or is Null.                            *)
LEMMA Found ==
  ASSUME NEW owner \in ICs \cup {Server}, NEW list \in Seq(Engines), NEW id
  PROVE  /\ id \in ToSet(list) => ById(owner, list, id) = Of(owner, id) /\ Of(owner, id) \in Engine
         /\ id \notin ToSet(list) => ById(owner, list, id) = Null
         /\ ById(owner, list, id) \in Engine \cup {Null, Dangling}
<1>1. ToSet(list) \subseteq Engines
  BY ToSetIs
<1> QED BY <1>1 DEF ById, Of, Engine

(* Engines are the same when owner and id are.                              *)
LEMMA OfIs ==
  ASSUME NEW o, NEW x, NEW p, NEW y
  PROVE  /\ Of(o, x) = Of(p, y) <=> o = p /\ x = y
         /\ Of(o, x).owner = o /\ Of(o, x).id = x
  BY DEF Of

(* The fields of a changed state.                                          *)
LEMMA SetEngine ==
  ASSUME NEW s \in States, NEW i \in ICs, NEW e \in Engine \cup {Null, Dangling}
  PROVE  /\ [s EXCEPT !.engine[i] = e] \in States
         /\ [s EXCEPT !.engine[i] = e].engine = [s.engine EXCEPT ![i] = e]
         /\ [s EXCEPT !.engine[i] = e].engines = s.engines
         /\ [s EXCEPT !.engine[i] = e].default = s.default
  BY DEF States

(* And with another list.                                                   *)
LEMMA SetEngines ==
  ASSUME NEW s \in States, NEW i \in ICs, NEW l \in Seq(Engines)
  PROVE  /\ [s EXCEPT !.engines[i] = l] \in States
         /\ [s EXCEPT !.engines[i] = l].engine = s.engine
         /\ [s EXCEPT !.engines[i] = l].engines = [s.engines EXCEPT ![i] = l]
         /\ [s EXCEPT !.engines[i] = l].default = s.default
  BY DEF States

(* nimf_service_ic_load_engines changes the list of its context only.       *)
LEMMA ListedFacts ==
  ASSUME NEW s \in States, NEW i \in ICs, NEW list \in Seq(Engines)
  PROVE  /\ Listed(s, i, list) \in States
         /\ Listed(s, i, list).engine = s.engine
         /\ Listed(s, i, list).default = s.default
         /\ Listed(s, i, list).engines =
              [s.engines EXCEPT ![i] = IF s.engines[i] = <<>> THEN Reverse(list) ELSE @]
<1>1. Reverse(list) \in Seq(Engines)
  BY ReverseFacts
<1>2. s.engines \in [ICs -> Seq(Engines)]
  BY DEF States
<1>3. CASE s.engines[i] = <<>>
  <2>1. Listed(s, i, list) = [s EXCEPT !.engines[i] = Reverse(list)]
    BY <1>3 DEF Listed
  <2> QED BY <2>1, <1>1, <1>3, SetEngines
<1>4. CASE s.engines[i] # <<>>
  <2>1. Listed(s, i, list) = s
    BY <1>4 DEF Listed
  <2>2. s.engines = [s.engines EXCEPT ![i] = @]
    BY <1>2
  <2> QED BY <2>1, <2>2, <1>4
<1> QED BY <1>3, <1>4

(* The engine that a context falls back to, and what becomes of the        *)
(* setting.                                                                *)
Default(s, list) == IF s.default \in ToSet(list) THEN s.default ELSE SystemKeyboard

(* Where a context falls back to, and what that changes.                    *)
LEMMA SetDefaultFacts ==
  \A s \in States, i \in ICs, owner \in ICs \cup {Server}, list \in Seq(Engines) :
    /\ SetDefaultOf(s, i, owner, list) \in States
    /\ SetDefaultOf(s, i, owner, list).engine =
         [s.engine EXCEPT ![i] = ById(owner, list, Default(s, list))]
    /\ SetDefaultOf(s, i, owner, list).engines = s.engines
    /\ SetDefaultOf(s, i, owner, list).default = Default(s, list)
<1> TAKE s \in States, i \in ICs, owner \in ICs \cup {Server}, list \in Seq(Engines)
<1> DEFINE d == Default(s, list)
           e == ById(owner, list, d)
<1>1. SetDefaultOf(s, i, owner, list) = [s EXCEPT !.engine[i] = e, !.default = d]
  BY DEF SetDefaultOf, Default
<1>2. e \in Engine \cup {Null, Dangling}
  BY Found
<1>3. d \in Engines
  BY EnginesAssumption, ToSetIs DEF Default
<1> HIDE DEF d, e
<1> QED BY <1>1, <1>2, <1>3, ZenonT(60) DEF States, d, e

(* A freed engine leaves pointers dangling and nothing else changed.        *)
LEMMA FreedFacts ==
  ASSUME NEW s \in States, NEW e
  PROVE  /\ Freed(s, e) \in States
         /\ Freed(s, e).engines = s.engines /\ Freed(s, e).default = s.default
         /\ \A j \in ICs : Freed(s, e).engine[j] = IF s.engine[j] = e THEN Dangling ELSE s.engine[j]
  BY DEF Freed, States

(* The same of all the engines of an owner.                                 *)
LEMMA FreedAllFacts ==
  ASSUME NEW s \in States, NEW owner
  PROVE  /\ FreedAll(s, owner) \in States
         /\ FreedAll(s, owner).engines = s.engines /\ FreedAll(s, owner).default = s.default
  BY DEF FreedAll, States

(* r is s when i has fallen back, to an engine of the server's list or of   *)
(* its own.                                                                 *)
FellBack(r, s, i, owner, list) ==
  /\ r \in States
  /\ r.engine = [s.engine EXCEPT ![i] = ById(owner, list, Default(s, list))]
  /\ r.default = Default(s, list)

(* Falling back in singleton mode.                                          *)
LEMMA DefaultedShared ==
  \A s \in States, i \in ICs, list \in Seq(Engines) : use_singleton =>
    /\ FellBack(Defaulted(s, i, list), s, i, Server, list)
    /\ Defaulted(s, i, list).engines = s.engines
<1> TAKE s \in States, i \in ICs, list \in Seq(Engines)
<1> HAVE use_singleton
<1>1. Defaulted(s, i, list) = SetDefaultOf(s, i, Server, list)
  BY DEF Defaulted
<1>2. Server \in ICs \cup {Server}
  OBVIOUS
<1> QED BY <1>1, <1>2, SetDefaultFacts, SMTT(30) DEF FellBack

(* Falling back with a list of its own, made now or before.                 *)
LEMMA DefaultedOwn ==
  \A s \in States, i \in ICs, list \in Seq(Engines), l \in Seq(Engines) :
    ~ use_singleton /\ l = (IF s.engines[i] = <<>> THEN Reverse(list) ELSE s.engines[i]) =>
      /\ FellBack(Defaulted(s, i, list), s, i, i, l)
      /\ Defaulted(s, i, list).engines = [s.engines EXCEPT ![i] = l]
<1> TAKE s \in States, i \in ICs, list \in Seq(Engines), l \in Seq(Engines)
<1> HAVE ~ use_singleton /\ l = (IF s.engines[i] = <<>> THEN Reverse(list) ELSE s.engines[i])
<1>1. PICK u : u = Listed(s, i, list)
  OBVIOUS
<1>2. /\ u \in States /\ u.engine = s.engine /\ u.default = s.default
      /\ u.engines = [s.engines EXCEPT ![i] = l]
  BY <1>1, ListedFacts
<1>3. u.engines[i] = l
  <2>1. s.engines \in [ICs -> Seq(Engines)]
    BY DEF States
  <2> QED BY <1>2, <2>1
<1>4. Defaulted(s, i, list) = SetDefaultOf(u, i, i, l)
  BY <1>1, <1>3 DEF Defaulted
<1>6. i \in ICs \cup {Server}
  OBVIOUS
<1>7. /\ SetDefaultOf(u, i, i, l) \in States
      /\ SetDefaultOf(u, i, i, l).engine = [u.engine EXCEPT ![i] = ById(i, l, Default(u, l))]
      /\ SetDefaultOf(u, i, i, l).engines = u.engines
      /\ SetDefaultOf(u, i, i, l).default = Default(u, l)
  <2>1. u \in States
    BY <1>2
  <2> QED BY <2>1, <1>6, SetDefaultFacts
<1>8. Default(u, l) = Default(s, l)
  BY <1>2 DEF Default
<1> QED BY <1>2, <1>4, <1>7, <1>8 DEF FellBack

-----------------------------------------------------------------------------
(* Telling a context of a new engine.                                       *)

(* Between two contexts: D are told of the change from l0 to l1.            *)
Same(l, m) == ToSet(l) = ToSet(m) /\ Len(l) = Len(m)
ListOf(i, D, l0, l1) == IF i \in D THEN l1 ELSE l0

Agree(s, D, l0, l1) ==
  \A i \in ICs : /\ IsInjective(s.engines[i])
                 /\ i \notin ToSet(ics) => s.engines[i] = <<>>
                 /\ s.engines[i] # <<>> => Same(s.engines[i], ListOf(i, D, l0, l1))

(* The engines that contexts use are there.                                 *)
Alive(s, D, l0, l1) ==
  /\ use_singleton =>
       /\ \A i \in ICs : s.engines[i] = <<>>
       /\ \A i \in ToSet(ics) : \E x \in ToSet(ListOf(i, D, l0, l1)) : s.engine[i] = Of(Server, x)
  /\ ~ use_singleton =>
       /\ s.default = SystemKeyboard
       /\ \A i \in ToSet(ics) : \E x \in ToSet(s.engines[i]) : s.engine[i] = Of(i, x)

(* r is s when i has been told of a new engine.                             *)
HasLoaded(r, s, i, id) ==
  /\ s.engines[i] = <<>> => r = s
  /\ s.engines[i] # <<>> =>
       r.engines = [s.engines EXCEPT ![i] = IF use_singleton THEN <<>> ELSE Cons(id, s.engines[i])]
  /\ ~ use_singleton => r.engine = s.engine
  /\ r.default = s.default

(* LoadFor does what HasLoaded says.                                        *)
LEMMA LoadForFacts ==
  \A s \in States, i \in ICs, id \in Engines, list \in Seq(Engines) :
    LoadFor(s, i, id, list) \in States /\ HasLoaded(LoadFor(s, i, id, list), s, i, id)
<1> TAKE s \in States, i \in ICs, id \in Engines, list \in Seq(Engines)
<1> DEFINE e == s.engine[i]
           kept == e = Null \/ e = Dangling \/ e.owner = Server
           t == IF kept THEN s ELSE [s EXCEPT !.engine[i] = ById(Server, list, e.id)]
           r == LoadFor(s, i, id, list)
<1>1. CASE s.engines[i] = <<>>
  <2>1. r = s
    BY <1>1 DEF LoadFor
  <2> QED BY <1>1, <2>1 DEF HasLoaded
<1>2. CASE s.engines[i] # <<>> /\ use_singleton
  <2>1. r = [FreedAll(t, i) EXCEPT !.engines[i] = <<>>]
    BY <1>2 DEF LoadFor
  <2>2. t \in States /\ t.engines = s.engines /\ t.default = s.default
    <3>1. Server \in ICs \cup {Server}
      OBVIOUS
    <3>2. ById(Server, list, e.id) \in Engine \cup {Null, Dangling}
      BY <3>1, Found
    <3> HIDE DEF kept, e
    <3>3. CASE kept
      BY <3>3
    <3>4. CASE ~ kept
      BY <3>2, <3>4, SetEngine
    <3> QED BY <3>3, <3>4
  <2> HIDE DEF t, r
  <2>3. PICK u \in States : u = FreedAll(t, i) /\ u.engines = s.engines /\ u.default = s.default
    BY <2>2, FreedAllFacts
  <2>4. <<>> \in Seq(Engines)
    OBVIOUS
  <2>5. r = [u EXCEPT !.engines[i] = <<>>]
    BY <2>1, <2>3
  <2>6. r \in States /\ r.engines = [u.engines EXCEPT ![i] = <<>>] /\ r.default = u.default
    BY <2>4, <2>5, SetEngines, ZenonT(60)
  <2> QED BY <1>2, <2>3, <2>6 DEF r, HasLoaded
<1>3. CASE s.engines[i] # <<>> /\ ~ use_singleton
  <2>1. r = [s EXCEPT !.engines[i] = Cons(id, @)]
    BY <1>3 DEF LoadFor
  <2>2. s.engines[i] \in Seq(Engines)
    BY DEF States
  <2>3. PICK c \in Seq(Engines) : c = Cons(id, s.engines[i])
    BY <2>2, ConsFacts
  <2> HIDE DEF r
  <2>4. r = [s EXCEPT !.engines[i] = c]
    BY <2>1, <2>3
  <2>5. r \in States /\ r.engine = s.engine /\ r.engines = [s.engines EXCEPT ![i] = c]
        /\ r.default = s.default
    BY <2>4, SetEngines
  <2> QED BY <1>3, <2>3, <2>5 DEF r, HasLoaded
<1> QED BY <1>1, <1>2, <1>3

(* A context that is told of a new engine has a list that agrees with the   *)
(* new one.                                                                 *)
LEMMA LoadAgrees ==
  ASSUME NEW s \in States, NEW D, NEW l0 \in Seq(Engines), NEW l1 \in Seq(Engines),
         NEW id \in Engines, l1 = Cons(id, l0), id \notin ToSet(l0),
         ToSet(ics) \subseteq ICs, NEW i \in ToSet(ics) \ D, Agree(s, D, l0, l1)
  PROVE  Agree(LoadFor(s, i, id, l1), D \cup {i}, l0, l1)
<1>1. PICK r : r = LoadFor(s, i, id, l1)
  OBVIOUS
<1>2. i \in ICs /\ s.engines \in [ICs -> Seq(Engines)]
  BY DEF States
<1>3. /\ r \in States
      /\ s.engines[i] = <<>> => r = s
      /\ s.engines[i] # <<>> =>
           r.engines = [s.engines EXCEPT ![i] = IF use_singleton THEN <<>> ELSE Cons(id, s.engines[i])]
  <2>1. r \in States /\ HasLoaded(r, s, i, id)
    BY <1>1, <1>2, LoadForFacts
  <2> QED BY <2>1 DEF HasLoaded
<1>4. \A j \in ICs : j # i => r.engines[j] = s.engines[j]
  BY <1>2, <1>3
<1>5. \A j \in ICs : j # i => ListOf(j, D \cup {i}, l0, l1) = ListOf(j, D, l0, l1)
  BY DEF ListOf
<1>6. /\ IsInjective(r.engines[i])
      /\ i \notin ToSet(ics) => r.engines[i] = <<>>
      /\ r.engines[i] # <<>> => Same(r.engines[i], ListOf(i, D \cup {i}, l0, l1))
  <2>1. ListOf(i, D \cup {i}, l0, l1) = l1 /\ ListOf(i, D, l0, l1) = l0
    BY DEF ListOf
  <2>2. IsInjective(<<>>)
    BY DEF IsInjective
  <2>3. CASE s.engines[i] = <<>>
    BY <2>3, <2>2, <1>3
  <2>4. CASE s.engines[i] # <<>> /\ use_singleton
    <3>1. r.engines[i] = <<>>
      BY <2>4, <1>2, <1>3
    <3> QED BY <3>1, <2>2
  <2>5. CASE s.engines[i] # <<>> /\ ~ use_singleton
    <3>1. r.engines[i] = Cons(id, s.engines[i])
      BY <2>5, <1>2, <1>3
    <3>2. PICK l \in Seq(Engines) : l = s.engines[i]
      BY <1>2
    <3>3. IsInjective(l) /\ ToSet(l) = ToSet(l0) /\ Len(l) = Len(l0)
      BY <3>2, <2>1, <2>5, <1>2 DEF Agree, Same
    <3>4. /\ ToSet(Cons(id, l)) = {id} \cup ToSet(l) /\ Len(Cons(id, l)) = Len(l) + 1
          /\ IsInjective(Cons(id, l))
      BY <3>3, ConsFacts
    <3>5. ToSet(l1) = {id} \cup ToSet(l0) /\ Len(l1) = Len(l0) + 1
      BY ConsFacts
    <3>6. Same(Cons(id, l), l1) /\ IsInjective(Cons(id, l))
      BY <3>3, <3>4, <3>5 DEF Same
    <3> QED BY <3>1, <3>2, <3>6, <2>1
  <2> QED BY <2>3, <2>4, <2>5
<1>7. \A j \in ICs : /\ IsInjective(r.engines[j])
                     /\ j \notin ToSet(ics) => r.engines[j] = <<>>
                     /\ r.engines[j] # <<>> => Same(r.engines[j], ListOf(j, D \cup {i}, l0, l1))
  BY <1>4, <1>5, <1>6 DEF Agree
<1> QED BY <1>1, <1>7 DEF Agree

(* It does not lose its engine.                                             *)
LEMMA LoadAlive ==
  ASSUME NEW s \in States, NEW l0 \in Seq(Engines), NEW l1 \in Seq(Engines),
         NEW id \in Engines, ToSet(ics) \subseteq ICs, NEW i \in ToSet(ics),
         Alive(s, {}, l0, l0)
  PROVE  Alive(LoadFor(s, i, id, l1), {}, l0, l0)
<1>1. PICK r : r = LoadFor(s, i, id, l1)
  OBVIOUS
<1>2. i \in ICs /\ s.engines \in [ICs -> Seq(Engines)]
  BY DEF States
<1>3. /\ r \in States
      /\ s.engines[i] = <<>> => r = s
      /\ s.engines[i] # <<>> =>
           r.engines = [s.engines EXCEPT ![i] = IF use_singleton THEN <<>> ELSE Cons(id, s.engines[i])]
      /\ ~ use_singleton => r.engine = s.engine
      /\ r.default = s.default
  <2>1. r \in States /\ HasLoaded(r, s, i, id)
    BY <1>1, <1>2, LoadForFacts
  <2> QED BY <2>1 DEF HasLoaded
<1>4. CASE use_singleton
  <2>1. r = s
    BY <1>2, <1>3, <1>4 DEF Alive
  <2> QED BY <2>1, <1>1
<1>5. CASE ~ use_singleton
  <2>1. s.engines[i] # <<>>
    <3>1. ToSet(s.engines[i]) # {} /\ s.engines[i] \in Seq(Engines)
      BY <1>2, <1>5 DEF Alive
    <3> QED BY <3>1, ToSetIs
  <2>2. r.engines = [s.engines EXCEPT ![i] = Cons(id, s.engines[i])]
    BY <2>1, <1>3, <1>5
  <2>3. ToSet(s.engines[i]) \subseteq ToSet(Cons(id, s.engines[i]))
    <3>1. s.engines[i] \in Seq(Engines)
      BY <1>2
    <3> QED BY <3>1, ConsFacts
  <2>4. \A j \in ToSet(ics) : ToSet(s.engines[j]) \subseteq ToSet(r.engines[j])
    BY <2>2, <2>3, <1>2
  <2>5. \A j \in ToSet(ics) : \E x \in ToSet(r.engines[j]) : r.engine[j] = Of(j, x)
    BY <2>4, <1>3, <1>5 DEF Alive
  <2>6. r.default = SystemKeyboard
    BY <1>3, <1>5 DEF Alive
  <2>7. Alive(r, {}, l0, l0)
    BY <2>5, <2>6, <1>5, Zenon DEF Alive
  <2> QED BY <2>7, <1>1
<1> QED BY <1>4, <1>5

-----------------------------------------------------------------------------
(* Telling a context that an engine goes.                                   *)

(* A context that has no list of its own.                                   *)
LEMMA UnloadShared ==
  \A s \in States, i \in ICs, id \in Engines, list \in Seq(Engines) :
    s.engines[i] = <<>> =>
      UnloadFor(s, i, id, list) =
        IF s.engine[i] = Of(Server, id) THEN Defaulted(s, i, list) ELSE s
  BY DEF UnloadFor

(* One that has: t is what it falls back to.                                *)
Unloaded(r, s, t, i, id) ==
  /\ r \in States
  /\ r.engines = [s.engines EXCEPT ![i] = RemoveFirst(s.engines[i], id)]
  /\ \A j \in ICs : r.engine[j] = IF t.engine[j] = Of(i, id) THEN Dangling ELSE t.engine[j]
  /\ r.default = t.default

(* One that has a list loses the engine from it.                            *)
LEMMA UnloadOwn ==
  \A s, t \in States, i \in ICs, id \in Engines, list \in Seq(Engines) :
    /\ s.engines[i] # <<>> /\ id \in ToSet(s.engines[i])
    /\ t = (IF s.engine[i] = Of(i, id) THEN Defaulted(s, i, list) ELSE s)
    /\ t.engines = s.engines
    => Unloaded(UnloadFor(s, i, id, list), s, t, i, id)
<1> TAKE s, t \in States, i \in ICs, id \in Engines, list \in Seq(Engines)
<1> HAVE /\ s.engines[i] # <<>> /\ id \in ToSet(s.engines[i])
         /\ t = (IF s.engine[i] = Of(i, id) THEN Defaulted(s, i, list) ELSE s)
         /\ t.engines = s.engines
<1>1. UnloadFor(s, i, id, list) = [Freed(t, Of(i, id)) EXCEPT !.engines[i] = RemoveFirst(@, id)]
  BY DEF UnloadFor
<1>2. PICK u \in States : /\ u = Freed(t, Of(i, id)) /\ u.engines = t.engines /\ u.default = t.default
                          /\ \A j \in ICs : u.engine[j] = IF t.engine[j] = Of(i, id) THEN Dangling
                                                          ELSE t.engine[j]
  BY FreedFacts
<1>3. s.engines[i] \in Seq(Engines)
  BY DEF States
<1>4. RemoveFirst(s.engines[i], id) \in Seq(Engines)
  BY <1>3, RemoveType
<1>5. PICK l \in Seq(Engines) : l = RemoveFirst(s.engines[i], id)
  BY <1>4
<1>6. UnloadFor(s, i, id, list) = [u EXCEPT !.engines[i] = l]
  BY <1>1, <1>2, <1>5
<1>7. /\ [u EXCEPT !.engines[i] = l] \in States
      /\ [u EXCEPT !.engines[i] = l].engine = u.engine
      /\ [u EXCEPT !.engines[i] = l].engines = [u.engines EXCEPT ![i] = l]
      /\ [u EXCEPT !.engines[i] = l].default = u.default
  BY SetEngines
<1> QED BY <1>2, <1>5, <1>6, <1>7 DEF Unloaded

(* What falling back makes of a context's state.                            *)
LEMMA DefaultedType ==
  ASSUME NEW s \in States, NEW i \in ICs, NEW list \in Seq(Engines)
  PROVE  /\ Defaulted(s, i, list) \in States
         /\ s.engines[i] # <<>> => Defaulted(s, i, list).engines = s.engines
         /\ \A j \in ICs : j # i =>
              /\ Defaulted(s, i, list).engines[j] = s.engines[j]
              /\ Defaulted(s, i, list).engine[j] = s.engine[j]
<1>1. s.engines \in [ICs -> Seq(Engines)] /\ s.engine \in [ICs -> Engine \cup {Null, Dangling}]
  BY DEF States
<1>2. CASE use_singleton
  <2>1. FellBack(Defaulted(s, i, list), s, i, Server, list) /\ Defaulted(s, i, list).engines = s.engines
    BY <1>2, DefaultedShared
  <2> QED BY <1>1, <2>1 DEF FellBack
<1>3. CASE ~ use_singleton
  <2>1. PICK l : l = IF s.engines[i] = <<>> THEN Reverse(list) ELSE s.engines[i]
    OBVIOUS
  <2>3. l \in Seq(Engines)
    BY <2>1, <1>1, ReverseFacts
  <2>2. /\ FellBack(Defaulted(s, i, list), s, i, i, l)
        /\ Defaulted(s, i, list).engines = [s.engines EXCEPT ![i] = l]
    BY <2>1, <2>3, <1>3, DefaultedOwn
  <2> QED BY <2>1, <2>2, <1>1 DEF FellBack
<1> QED BY <1>2, <1>3

(* What UnloadFor makes is a state.                                         *)
LEMMA UnloadForType ==
  ASSUME NEW s \in States, NEW i \in ICs, NEW id \in Engines, NEW list \in Seq(Engines)
  PROVE  UnloadFor(s, i, id, list) \in States
<1>1. Defaulted(s, i, list) \in States
  BY DefaultedType
<1>2. CASE s.engines[i] = <<>>
  BY <1>1, <1>2, UnloadShared
<1>3. CASE s.engines[i] # <<>> /\ id \in ToSet(s.engines[i])
  <2>1. Defaulted(s, i, list).engines = s.engines
    BY <1>3, DefaultedType
  <2>2. PICK t \in States : /\ t = IF s.engine[i] = Of(i, id) THEN Defaulted(s, i, list) ELSE s
                            /\ t.engines = s.engines
    BY <1>1, <2>1
  <2>3. Unloaded(UnloadFor(s, i, id, list), s, t, i, id)
    BY <2>2, <1>3, UnloadOwn
  <2> QED BY <2>3 DEF Unloaded
<1>4. CASE s.engines[i] # <<>> /\ id \notin ToSet(s.engines[i])
  <2>1. UnloadFor(s, i, id, list) = s
    BY <1>4 DEF UnloadFor
  <2> QED BY <2>1
<1> QED BY <1>2, <1>3, <1>4

(* A context that is told that an engine goes has a list that agrees with   *)
(* what is left.                                                            *)
LEMMA UnloadAgrees ==
  ASSUME NEW s \in States, NEW D, NEW l0 \in Seq(Engines), NEW l1 \in Seq(Engines),
         NEW id \in Engines, l1 = RemoveFirst(l0, id), id \in ToSet(l0), IsInjective(l0),
         ToSet(ics) \subseteq ICs, NEW i \in ToSet(ics) \ D, Agree(s, D, l0, l1),
         NEW r, r = UnloadFor(s, i, id, l1)
  PROVE  r \in States /\ Agree(r, D \cup {i}, l0, l1)
<1>1. ListOf(i, D \cup {i}, l0, l1) = l1 /\ ListOf(i, D, l0, l1) = l0
  BY DEF ListOf
<1>2. i \in ICs /\ s.engines \in [ICs -> Seq(Engines)] /\ IsInjective(s.engines[i])
  BY DEF States, Agree
<1>3. r \in States
  BY <1>2, UnloadForType
<1>4. /\ ToSet(l1) = ToSet(l0) \ {id} /\ Len(l1) = Len(l0) - 1 /\ IsInjective(l1)
  BY RemoveFacts
<1>5. /\ \A j \in ICs : j # i => r.engines[j] = s.engines[j]
      /\ IsInjective(r.engines[i])
      /\ r.engines[i] # <<>> => Same(r.engines[i], l1)
  <2>1. CASE s.engines[i] = <<>> /\ (s.engine[i] # Of(Server, id) \/ use_singleton)
    <3>2. use_singleton => Defaulted(s, i, l1).engines = s.engines
      BY <1>2, DefaultedShared
    <3>3. r = IF s.engine[i] = Of(Server, id) THEN Defaulted(s, i, l1) ELSE s
      BY <2>1, <1>2, UnloadShared
    <3>1. r.engines = s.engines
      BY <2>1, <3>2, <3>3
    <3> QED BY <3>1, <2>1, <1>2
  <2>2. CASE s.engines[i] = <<>> /\ s.engine[i] = Of(Server, id) /\ ~ use_singleton
    <3>1. r = Defaulted(s, i, l1)
      BY <2>2, <1>2, UnloadShared
    <3>2. PICK l : l = IF s.engines[i] = <<>> THEN Reverse(l1) ELSE s.engines[i]
      OBVIOUS
    <3>5. l \in Seq(Engines)
      BY <3>2, <1>2, ReverseFacts
    <3>6. Defaulted(s, i, l1).engines = [s.engines EXCEPT ![i] = l]
      BY <3>2, <3>5, <2>2, <1>2, DefaultedOwn
    <3>3. r.engines = [s.engines EXCEPT ![i] = l]
      BY <3>1, <3>6
    <3>4. Same(l, l1) /\ IsInjective(l)
      BY <3>2, <2>2, <1>4, ReverseFacts DEF Same
    <3> QED BY <3>3, <3>4, <1>2
  <2>3. CASE s.engines[i] # <<>>
    <3>1. PICK l \in Seq(Engines) : l = s.engines[i]
      BY <1>2
    <3>2. ToSet(l) = ToSet(l0) /\ Len(l) = Len(l0) /\ IsInjective(l)
      BY <3>1, <2>3, <1>1, <1>2 DEF Agree, Same
    <3>3. Defaulted(s, i, l1) \in States /\ Defaulted(s, i, l1).engines = s.engines
      BY <2>3, <1>2, DefaultedType
    <3>4. PICK t \in States : /\ t = IF s.engine[i] = Of(i, id) THEN Defaulted(s, i, l1) ELSE s
                              /\ t.engines = s.engines
      BY <3>3
    <3>5. r.engines = [s.engines EXCEPT ![i] = RemoveFirst(s.engines[i], id)]
      <4>1. s.engines[i] # <<>> /\ id \in ToSet(s.engines[i]) /\ IsInjective(s.engines[i])
        BY <3>1, <3>2, <2>3
      <4>2. Unloaded(r, s, t, i, id)
        BY <4>1, <3>4, <1>2, UnloadOwn
      <4> QED BY <4>2 DEF Unloaded
    <3>6. /\ Len(RemoveFirst(l, id)) = Len(l) - 1
          /\ ToSet(RemoveFirst(l, id)) = ToSet(l) \ {id}
          /\ IsInjective(RemoveFirst(l, id))
      BY <3>2, RemoveFacts
    <3>7. Same(RemoveFirst(l, id), l1)
      BY <3>2, <3>6, <1>4 DEF Same
    <3> QED BY <3>1, <3>5, <3>6, <3>7, <1>2
  <2> QED BY <2>1, <2>2, <2>3
<1>6. \A j \in ICs : j # i => ListOf(j, D \cup {i}, l0, l1) = ListOf(j, D, l0, l1)
  BY DEF ListOf
<1>7. ASSUME NEW j \in ICs
      PROVE  /\ IsInjective(r.engines[j])
             /\ j \notin ToSet(ics) => r.engines[j] = <<>>
             /\ r.engines[j] # <<>> => Same(r.engines[j], ListOf(j, D \cup {i}, l0, l1))
  <2>1. CASE j = i
    BY <2>1, <1>1, <1>5
  <2>2. CASE j # i
    BY <2>2, <1>5, <1>6 DEF Agree
  <2> QED BY <2>1, <2>2
<1> QED BY <1>3, <1>7 DEF Agree

(* The default-engine is the user's as long as it is there.                 *)
Kept(s, d, list) == s.default = d \/ d \notin ToSet(list)

(* The default is kept, unless its engine goes.                             *)
LEMMA UnloadKeeps ==
  ASSUME NEW s \in States, NEW D, NEW l0 \in Seq(Engines), NEW l1 \in Seq(Engines),
         NEW id \in Engines, l1 = RemoveFirst(l0, id), id \in ToSet(l0), IsInjective(l0),
         ToSet(ics) \subseteq ICs, NEW i \in ToSet(ics) \ D, Agree(s, D, l0, l1),
         NEW d, Kept(s, d, l1)
  PROVE  Kept(UnloadFor(s, i, id, l1), d, l1)
<1>1. i \in ICs /\ s.engines \in [ICs -> Seq(Engines)] /\ IsInjective(s.engines[i])
  BY DEF States, Agree
<1>2. ToSet(l1) \subseteq ToSet(l0)
  BY RemoveFacts
<1>3. s.engines[i] # <<>> => ToSet(s.engines[i]) = ToSet(l0)
  BY <1>1 DEF Agree, Same, ListOf
<1>4. Kept(Defaulted(s, i, l1), d, l1)
  <2>1. CASE use_singleton
    <3>1. Defaulted(s, i, l1).default = Default(s, l1)
      <4>1. FellBack(Defaulted(s, i, l1), s, i, Server, l1)
        BY <2>1, <1>1, DefaultedShared
      <4> QED BY <4>1 DEF FellBack
    <3> QED BY <3>1 DEF Kept, Default
  <2>2. CASE ~ use_singleton
    <3>1. PICK l : l = IF s.engines[i] = <<>> THEN Reverse(l1) ELSE s.engines[i]
      OBVIOUS
    <3>4. l \in Seq(Engines)
      BY <3>1, <1>1, ReverseFacts
    <3>2. Defaulted(s, i, l1).default = Default(s, l)
      <4>1. FellBack(Defaulted(s, i, l1), s, i, i, l)
        BY <3>1, <3>4, <2>2, <1>1, DefaultedOwn
      <4> QED BY <4>1 DEF FellBack
    <3>3. ToSet(l1) \subseteq ToSet(l)
      BY <3>1, <1>2, <1>3, ReverseFacts
    <3> QED BY <3>2, <3>3 DEF Kept, Default
  <2> QED BY <2>1, <2>2
<1>5. UnloadFor(s, i, id, l1).default \in {s.default, Defaulted(s, i, l1).default}
  <2>1. CASE s.engines[i] = <<>>
    BY <2>1, <1>1, UnloadShared
  <2>2. CASE s.engines[i] # <<>>
    <3>1. Defaulted(s, i, l1) \in States /\ Defaulted(s, i, l1).engines = s.engines
      BY <2>2, <1>1, DefaultedType
    <3>2. PICK t \in States : /\ t = IF s.engine[i] = Of(i, id) THEN Defaulted(s, i, l1) ELSE s
                              /\ t.engines = s.engines
      BY <3>1
    <3>3. id \in ToSet(s.engines[i])
      BY <2>2, <1>3
    <3>4. UnloadFor(s, i, id, l1).default = t.default
      <4>1. Unloaded(UnloadFor(s, i, id, l1), s, t, i, id)
        BY <3>2, <3>3, <2>2, <1>1, UnloadOwn
      <4> QED BY <4>1 DEF Unloaded
    <3> QED BY <3>2, <3>4
  <2> QED BY <2>1, <2>2
<1> QED BY <1>4, <1>5 DEF Kept

(* It falls back to an engine that stays.                                   *)
LEMMA UnloadAlive ==
  ASSUME NEW s \in States, NEW D, NEW l0 \in Seq(Engines), NEW l1 \in Seq(Engines),
         NEW id \in Engines, l1 = RemoveFirst(l0, id), id \in ToSet(l0), IsInjective(l0),
         ToSet(ics) \subseteq ICs, NEW i \in ToSet(ics) \ D, Agree(s, D, l0, l1),
         SystemKeyboard \in ToSet(l1), Alive(s, D, l0, l1),
         NEW r, r = UnloadFor(s, i, id, l1)
  PROVE  Alive(r, D \cup {i}, l0, l1)
<1>1. /\ i \in ICs /\ s.engines \in [ICs -> Seq(Engines)] /\ IsInjective(s.engines[i])
      /\ s.engine \in [ICs -> Engine \cup {Null, Dangling}]
  BY DEF States, Agree
<1>2. ToSet(l1) = ToSet(l0) \ {id} /\ SystemKeyboard # id
  BY RemoveFacts
<1>3. CASE use_singleton
  <2>1. s.engines[i] = <<>>
    BY <1>1, <1>3 DEF Alive
  <2>2. PICK x \in ToSet(l0) : s.engine[i] = Of(Server, x)
    BY <1>3 DEF Alive, ListOf
  <2>3. Default(s, l1) \in ToSet(l1)
    BY DEF Default
  <2>4. /\ r.engines = s.engines
        /\ \A j \in ICs : j # i => r.engine[j] = s.engine[j]
        /\ \E y \in ToSet(l1) : r.engine[i] = Of(Server, y)
    <3>1. CASE x = id
      <4>1. r = Defaulted(s, i, l1)
        BY <3>1, <2>1, <2>2, <1>1, UnloadShared
      <4>2. r.engines = s.engines
            /\ r.engine = [s.engine EXCEPT ![i] = ById(Server, l1, Default(s, l1))]
        <5>1. /\ FellBack(Defaulted(s, i, l1), s, i, Server, l1)
              /\ Defaulted(s, i, l1).engines = s.engines
          BY <1>1, <1>3, DefaultedShared
        <5> QED BY <4>1, <5>1 DEF FellBack
      <4>3. Server \in ICs \cup {Server}
        OBVIOUS
      <4>4. ById(Server, l1, Default(s, l1)) = Of(Server, Default(s, l1))
        BY <4>3, <2>3, Found
      <4> QED BY <4>2, <4>4, <2>3, <1>1
    <3>2. CASE x # id
      <4>1. s.engine[i] # Of(Server, id)
        BY <3>2, <2>2, OfIs
      <4>2. r = s
        BY <4>1, <2>1, <1>1, UnloadShared
      <4> QED BY <4>2, <2>2, <3>2, <1>2
    <3> QED BY <3>1, <3>2
  <2>5. \A j \in ICs : r.engines[j] = <<>>
    BY <2>4, <1>3 DEF Alive
  <2>6. ASSUME NEW j \in ToSet(ics)
        PROVE  \E y \in ToSet(ListOf(j, D \cup {i}, l0, l1)) : r.engine[j] = Of(Server, y)
    <3>1. CASE j = i
      <4>1. ListOf(j, D \cup {i}, l0, l1) = l1
        BY <3>1 DEF ListOf
      <4> QED BY <4>1, <3>1, <2>4
    <3>2. CASE j # i
      <4>1. ListOf(j, D \cup {i}, l0, l1) = ListOf(j, D, l0, l1)
        BY <3>2 DEF ListOf
      <4>2. r.engine[j] = s.engine[j]
        BY <3>2, <2>4
      <4> QED BY <4>1, <4>2, <1>3 DEF Alive
    <3> QED BY <3>1, <3>2
  <2> QED BY <2>5, <2>6, <1>3, Zenon DEF Alive
<1>4. CASE ~ use_singleton
  <2>1. PICK x \in ToSet(s.engines[i]) : s.engine[i] = Of(i, x)
    BY <1>4 DEF Alive
  <2>2. s.engines[i] # <<>> /\ s.engines[i] \in Seq(Engines)
    <3>1. s.engines[i] \in Seq(Engines)
      BY <1>1
    <3> QED BY <2>1, <3>1, ToSetIs
  <2>3. ToSet(s.engines[i]) = ToSet(l0)
    BY <2>2, <1>1 DEF Agree, Same, ListOf
  <2>4. s.default = SystemKeyboard /\ SystemKeyboard \in ToSet(s.engines[i])
    BY <2>3, <1>2, <1>4 DEF Alive
  <2>5. PICK l : l = s.engines[i]
    OBVIOUS
  <2>6. Default(s, l) = SystemKeyboard /\ ById(i, l, SystemKeyboard) = Of(i, SystemKeyboard)
    <3>1. i \in ICs \cup {Server}
      BY <1>1
    <3>2. l \in Seq(Engines) /\ SystemKeyboard \in ToSet(l)
      BY <2>2, <2>4, <2>5
    <3> QED BY <3>1, <3>2, <2>4, Found DEF Default
  <2>7. l = IF s.engines[i] = <<>> THEN Reverse(l1) ELSE s.engines[i]
    BY <2>2, <2>5
  <2>8. /\ Defaulted(s, i, l1) \in States
        /\ Defaulted(s, i, l1).engines = [s.engines EXCEPT ![i] = l]
        /\ Defaulted(s, i, l1).engine = [s.engine EXCEPT ![i] = ById(i, l, Default(s, l))]
        /\ Defaulted(s, i, l1).default = Default(s, l)
    <3>1. /\ FellBack(Defaulted(s, i, l1), s, i, i, l)
          /\ Defaulted(s, i, l1).engines = [s.engines EXCEPT ![i] = l]
      BY <2>2, <2>5, <2>7, <1>1, <1>4, DefaultedOwn
    <3> QED BY <3>1 DEF FellBack
  <2>9. Defaulted(s, i, l1).engines = s.engines
    BY <2>5, <2>8, <1>1
  <2>10. PICK t \in States : /\ t = IF s.engine[i] = Of(i, id) THEN Defaulted(s, i, l1) ELSE s
                             /\ t.engines = s.engines
    BY <2>8, <2>9
  <2>11. /\ r.engines = [s.engines EXCEPT ![i] = RemoveFirst(s.engines[i], id)]
         /\ \A j \in ICs : r.engine[j] = IF t.engine[j] = Of(i, id) THEN Dangling ELSE t.engine[j]
         /\ r.default = t.default
    <3>1. Unloaded(r, s, t, i, id)
      BY <2>10, <2>2, <2>3, <1>1, UnloadOwn
    <3> QED BY <3>1 DEF Unloaded
  <2>12. r.default = SystemKeyboard
    BY <2>4, <2>6, <2>8, <2>10, <2>11
  <2>13. \E y \in ToSet(s.engines[i]) : t.engine[i] = Of(i, y) /\ y # id
    <3>1. CASE x = id
      <4>1. t.engine[i] = Of(i, SystemKeyboard)
        BY <3>1, <2>1, <2>6, <2>8, <2>10, <1>1
      <4> QED BY <4>1, <2>4, <1>2
    <3>2. CASE x # id
      <4>1. s.engine[i] # Of(i, id)
        BY <3>2, <2>1, OfIs
      <4> QED BY <4>1, <3>2, <2>1, <2>10
    <3> QED BY <3>1, <3>2
  <2>14. \A j \in ICs : j # i => t.engine[j] = s.engine[j]
    BY <2>8, <2>10, <1>1
  <2>15. ToSet(RemoveFirst(s.engines[i], id)) = ToSet(s.engines[i]) \ {id}
    BY <2>2, <2>3, <1>1, RemoveFacts
  <2>16. ASSUME NEW j \in ToSet(ics)
         PROVE  \E y \in ToSet(r.engines[j]) : r.engine[j] = Of(j, y)
    <3>1. CASE j = i
      <4>1. PICK y \in ToSet(s.engines[i]) : t.engine[i] = Of(i, y) /\ y # id
        BY <2>13
      <4>2. t.engine[i] # Of(i, id)
        BY <4>1, OfIs
      <4>3. r.engine[i] = Of(i, y)
        BY <4>1, <4>2, <2>11, <1>1
      <4>4. r.engines[i] = RemoveFirst(s.engines[i], id)
        BY <2>11, <1>1
      <4> QED BY <3>1, <4>1, <4>3, <4>4, <2>15
    <3>2. CASE j # i
      <4>1. PICK y \in ToSet(s.engines[j]) : s.engine[j] = Of(j, y)
        BY <1>4 DEF Alive
      <4>2. t.engine[j] = Of(j, y) /\ Of(j, y) # Of(i, id) /\ j \in ICs
        BY <3>2, <4>1, <2>14, OfIs
      <4>3. r.engine[j] = Of(j, y) /\ r.engines[j] = s.engines[j]
        BY <4>2, <2>11, <3>2, <1>1
      <4> QED BY <4>1, <4>3
    <3> QED BY <3>1, <3>2
  <2> QED BY <2>12, <2>16, <1>4, Zenon DEF Alive
<1> QED BY <1>3, <1>4

-----------------------------------------------------------------------------
(* The loops over contexts.                                                 *)

(* told[k] is what k of the contexts, being told, have made of q.          *)
LoadTold(told, n, q, id, list) ==
  /\ told[0] = q
  /\ \A k \in 1 .. n : told[k] = LoadFor(told[k - 1], ics[k], id, list)

(* LoadAll goes through the contexts.                                       *)
LEMMA LoadLoop ==
  ASSUME NEW q \in States, NEW id, NEW list, NEW n \in Nat, DOMAIN ics = 1 .. n,
         \A i \in ToSet(ics), s \in States : LoadFor(s, i, id, list) \in States
  PROVE  \E told : /\ LoadTold(told, n, q, id, list)
                   /\ LoadAll(q, id, list) = told[n]
<1> DEFINE F(g) == g = [s \in SUBSET DOMAIN ics |->
                         IF s = {} THEN q
                         ELSE LET x == Max(s) IN LoadFor(g[s \ {x}], ics[x], id, list)]
<1>1. LoadAll(q, id, list) = (CHOOSE g : F(g))[DOMAIN ics]
  BY DEF LoadAll, FoldLeft, MapThenFoldSet
<1>2. \E g : F(g)
  <2> DEFINE step == [k \in 1 .. n |-> [v \in States |-> LoadFor(v, ics[k], id, list)]]
  <2>1. \A k \in 1 .. n, v \in States : step[k][v] = LoadFor(v, ics[k], id, list)
    OBVIOUS
  <2>2. \A k \in 1 .. n : ics[k] \in ToSet(ics)
    BY DEF ToSet
  <2> HIDE DEF step
  <2>3. \A k \in 1 .. n, v \in States : step[k][v] \in States
    BY <2>1, <2>2
  <2>4. PICK g : IsFold(g, n, q, step) /\ g \in [SUBSET (1 .. n) -> States]
    BY <2>3, FoldExists
  <2>5. \A s \in SUBSET (1 .. n) : s # {} => Max(s) \in 1 .. n /\ g[s \ {Max(s)}] \in States
    BY <2>4, MaxInRange
  <2>6. \A s \in SUBSET (1 .. n) :
          (IF s = {} THEN q ELSE step[Max(s)][g[s \ {Max(s)}]])
            = (IF s = {} THEN q ELSE LoadFor(g[s \ {Max(s)}], ics[Max(s)], id, list))
    BY <2>1, <2>5
  <2>7. g = [s \in SUBSET (1 .. n) |->
               IF s = {} THEN q ELSE step[Max(s)][g[s \ {Max(s)}]]]
    BY <2>4 DEF IsFold
  <2>8. g = [s \in SUBSET (1 .. n) |->
               IF s = {} THEN q ELSE LoadFor(g[s \ {Max(s)}], ics[Max(s)], id, list)]
    BY <2>6, <2>7
  <2>9. F(g)
    BY <2>8
  <2> QED BY <2>9
<1> DEFINE g == CHOOSE g : F(g)
           told == [k \in 0 .. n |-> g[1 .. k]]
<1>3. F(g)
  BY <1>2
<1> HIDE DEF g
<1>4. \A s \in SUBSET (1 .. n) :
        g[s] = IF s = {} THEN q ELSE LoadFor(g[s \ {Max(s)}], ics[Max(s)], id, list)
  BY <1>3
<1>5. g[{}] = q
  BY <1>4
<1>6. \A k \in 1 .. n : g[1 .. k] = LoadFor(g[1 .. k - 1], ics[k], id, list)
  <2> TAKE k \in 1 .. n
  <2>1. 1 .. k # {} /\ Max(1 .. k) = k /\ (1 .. k) \ {k} = 1 .. k - 1
    <3>1. k \in Nat \ {0}
      OBVIOUS
    <3> QED BY <3>1, FirstOnes
  <2>2. 1 .. k \in SUBSET (1 .. n)
    OBVIOUS
  <2> QED BY <2>1, <2>2, <1>4
<1>7. told[0] = q /\ told[n] = g[1 .. n]
  <2>1. 1 .. 0 = {}
    OBVIOUS
  <2> QED BY <1>5, <2>1
<1>8. \A k \in 1 .. n : told[k] = g[1 .. k] /\ told[k - 1] = g[1 .. k - 1]
  OBVIOUS
<1> HIDE DEF told
<1>9. LoadTold(told, n, q, id, list)
  BY <1>6, <1>7, <1>8 DEF LoadTold
<1> QED BY <1>1, <1>7, <1>9 DEF g

UnloadTold(told, n, q, id, list) ==
  /\ told[0] = q
  /\ \A k \in 1 .. n : told[k] = UnloadFor(told[k - 1], ics[k], id, list)

(* UnloadAll does.                                                          *)
LEMMA UnloadLoop ==
  ASSUME NEW q \in States, NEW id, NEW list, NEW n \in Nat, DOMAIN ics = 1 .. n,
         \A i \in ToSet(ics), s \in States : UnloadFor(s, i, id, list) \in States
  PROVE  \E told : /\ UnloadTold(told, n, q, id, list)
                   /\ UnloadAll(q, id, list) = told[n]
<1> DEFINE F(g) == g = [s \in SUBSET DOMAIN ics |->
                         IF s = {} THEN q
                         ELSE LET x == Max(s) IN UnloadFor(g[s \ {x}], ics[x], id, list)]
<1>1. UnloadAll(q, id, list) = (CHOOSE g : F(g))[DOMAIN ics]
  BY DEF UnloadAll, FoldLeft, MapThenFoldSet
<1>2. \E g : F(g)
  <2> DEFINE step == [k \in 1 .. n |-> [v \in States |-> UnloadFor(v, ics[k], id, list)]]
  <2>1. \A k \in 1 .. n, v \in States : step[k][v] = UnloadFor(v, ics[k], id, list)
    OBVIOUS
  <2>2. \A k \in 1 .. n : ics[k] \in ToSet(ics)
    BY DEF ToSet
  <2> HIDE DEF step
  <2>3. \A k \in 1 .. n, v \in States : step[k][v] \in States
    BY <2>1, <2>2
  <2>4. PICK g : IsFold(g, n, q, step) /\ g \in [SUBSET (1 .. n) -> States]
    BY <2>3, FoldExists
  <2>5. \A s \in SUBSET (1 .. n) : s # {} => Max(s) \in 1 .. n /\ g[s \ {Max(s)}] \in States
    BY <2>4, MaxInRange
  <2>6. \A s \in SUBSET (1 .. n) :
          (IF s = {} THEN q ELSE step[Max(s)][g[s \ {Max(s)}]])
            = (IF s = {} THEN q ELSE UnloadFor(g[s \ {Max(s)}], ics[Max(s)], id, list))
    BY <2>1, <2>5
  <2>7. g = [s \in SUBSET (1 .. n) |->
               IF s = {} THEN q ELSE step[Max(s)][g[s \ {Max(s)}]]]
    BY <2>4 DEF IsFold
  <2>8. g = [s \in SUBSET (1 .. n) |->
               IF s = {} THEN q ELSE UnloadFor(g[s \ {Max(s)}], ics[Max(s)], id, list)]
    BY <2>6, <2>7
  <2>9. F(g)
    BY <2>8
  <2> QED BY <2>9
<1> DEFINE g == CHOOSE g : F(g)
           told == [k \in 0 .. n |-> g[1 .. k]]
<1>3. F(g)
  BY <1>2
<1> HIDE DEF g
<1>4. \A s \in SUBSET (1 .. n) :
        g[s] = IF s = {} THEN q ELSE UnloadFor(g[s \ {Max(s)}], ics[Max(s)], id, list)
  BY <1>3
<1>5. g[{}] = q
  BY <1>4
<1>6. \A k \in 1 .. n : g[1 .. k] = UnloadFor(g[1 .. k - 1], ics[k], id, list)
  <2> TAKE k \in 1 .. n
  <2>1. 1 .. k # {} /\ Max(1 .. k) = k /\ (1 .. k) \ {k} = 1 .. k - 1
    <3>1. k \in Nat \ {0}
      OBVIOUS
    <3> QED BY <3>1, FirstOnes
  <2>2. 1 .. k \in SUBSET (1 .. n)
    OBVIOUS
  <2> QED BY <2>1, <2>2, <1>4
<1>7. told[0] = q /\ told[n] = g[1 .. n]
  <2>1. 1 .. 0 = {}
    OBVIOUS
  <2> QED BY <1>5, <2>1
<1>8. \A k \in 1 .. n : told[k] = g[1 .. k] /\ told[k - 1] = g[1 .. k - 1]
  OBVIOUS
<1> HIDE DEF told
<1>9. UnloadTold(told, n, q, id, list)
  BY <1>6, <1>7, <1>8 DEF UnloadTold
<1> QED BY <1>1, <1>7, <1>9 DEF g

(* The first k contexts.                                                    *)
First(k) == {ics[m] : m \in 1 .. k}

(* The k-th context is not one of those before it.                          *)
LEMMA FirstFacts ==
  ASSUME ics \in Lists(ICs), NEW n, n = Len(ics)
  PROVE  /\ n \in Nat /\ DOMAIN ics = 1 .. n /\ First(0) = {} /\ First(n) = ToSet(ics)
         /\ \A k \in 1 .. n : /\ First(k) = First(k - 1) \cup {ics[k]}
                              /\ ics[k] \in ToSet(ics) \ First(k - 1) /\ ics[k] \in ICs
<1>1. n \in Nat /\ DOMAIN ics = 1 .. n /\ \A k \in 1 .. n : ics[k] \in ICs
  BY DEF Lists
<1>2. First(0) = {}
  <2>1. 1 .. 0 = {}
    OBVIOUS
  <2> QED BY <2>1 DEF First
<1>3. First(n) = ToSet(ics)
  BY <1>1 DEF First, ToSet
<1>4. ASSUME NEW k \in 1 .. n
      PROVE  First(k) = First(k - 1) \cup {ics[k]} /\ ics[k] \in ToSet(ics) \ First(k - 1)
  <2>1. 1 .. k = (1 .. k - 1) \cup {k} /\ \A m \in 1 .. k - 1 : m \in 1 .. n /\ m # k
    BY <1>1
  <2>2. \A a, b \in 1 .. n : ics[a] = ics[b] => a = b
    BY <1>1 DEF Lists, IsInjective
  <2>3. First(k) = First(k - 1) \cup {ics[k]}
    BY <2>1 DEF First
  <2>4. \A m \in 1 .. k - 1 : ics[m] # ics[k]
    BY <2>1, <2>2
  <2>5. ics[k] \notin First(k - 1)
    BY <2>4 DEF First
  <2>6. ics[k] \in ToSet(ics)
    BY <1>1 DEF ToSet
  <2> QED BY <2>3, <2>5, <2>6
<1> QED BY <1>1, <1>2, <1>3, <1>4

(* Lists, before the first context is told.                                 *)
LEMMA NoneTold == \A s, l0, l1 : Agree(s, {}, l0, l0) => Agree(s, {}, l0, l1)
  BY DEF Agree, ListOf

(* Lists, after the last.                                                   *)
LEMMA AllTold == \A s, l0, l1 : Agree(s, ToSet(ics), l0, l1) => Agree(s, {}, l1, l1)
  BY DEF Agree, ListOf

(* Pointers, before the first.                                              *)
LEMMA AliveNoneTold == \A s, l0, l1 : Alive(s, {}, l0, l0) => Alive(s, {}, l0, l1)
  BY DEF Alive, ListOf

(* Pointers, after the last.                                                *)
LEMMA AliveAllTold == \A s, l0, l1 : Alive(s, ToSet(ics), l0, l1) => Alive(s, {}, l1, l1)
  BY DEF Alive, ListOf

(* What telling one of a new engine makes is a state.                       *)
LEMMA LoadForType ==
  \A s \in States, i \in ICs, id \in Engines, list \in Seq(Engines) :
    LoadFor(s, i, id, list) \in States /\ LoadFor(s, i, id, list).default = s.default
<1>1. \A r, s, i, id : HasLoaded(r, s, i, id) => r.default = s.default
  BY DEF HasLoaded
<1> QED BY <1>1, LoadForFacts, Zenon

(* So is what telling all makes.                                            *)
LEMMA LoadAllType ==
  ASSUME NEW q \in States, NEW id \in Engines, NEW list \in Seq(Engines), ics \in Lists(ICs)
  PROVE  LoadAll(q, id, list) \in States
<1>1. PICK n : n = Len(ics)
  OBVIOUS
<1>2. n \in Nat /\ DOMAIN ics = 1 .. n /\ \A k \in 1 .. n : ics[k] \in ICs
  BY <1>1, FirstFacts
<1>3. \A i \in ToSet(ics), s \in States : LoadFor(s, i, id, list) \in States
  <2>1. ToSet(ics) \subseteq ICs
    BY <1>2 DEF ToSet
  <2> QED BY <2>1, LoadForFacts
<1>4. PICK told : LoadTold(told, n, q, id, list) /\ LoadAll(q, id, list) = told[n]
  BY <1>2, <1>3, LoadLoop
<1> DEFINE S == {k \in 0 .. n : told[k] \in States}
<1>5. 0 \in S
  BY <1>2, <1>4 DEF LoadTold
<1>6. \A k \in 1 .. n : k - 1 \in S => k \in S
  BY <1>2, <1>4, LoadForType DEF LoadTold
<1>7. \A k \in 0 .. n : k \in S
  <2> HIDE DEF S
  <2>1. S \in SUBSET (0 .. n)
    BY DEF S
  <2> QED BY <2>1, <1>2, <1>5, <1>6, StepByStep
<1> QED BY <1>2, <1>4, <1>7

(* All being told of a new engine, all lists agree with the new one.        *)
LEMMA LoadAllFacts ==
  ASSUME NEW q \in States, NEW l0 \in Seq(Engines), NEW l1 \in Seq(Engines),
         NEW id \in Engines, l1 = Cons(id, l0), id \notin ToSet(l0),
         ics \in Lists(ICs), Agree(q, {}, l0, l0),
         NEW r, r = LoadAll(q, id, l1)
  PROVE  /\ r \in States /\ Agree(r, {}, l1, l1) /\ r.default = q.default
         /\ Alive(q, {}, l0, l0) => Alive(r, {}, l1, l1)
<1>1. PICK n : n = Len(ics)
  OBVIOUS
<1>2. /\ n \in Nat /\ DOMAIN ics = 1 .. n /\ First(0) = {} /\ First(n) = ToSet(ics)
      /\ \A k \in 1 .. n : /\ First(k) = First(k - 1) \cup {ics[k]}
                           /\ ics[k] \in ToSet(ics) \ First(k - 1) /\ ics[k] \in ICs
  BY <1>1, FirstFacts
<1>3. ToSet(ics) \subseteq ICs
  BY <1>2 DEF ToSet
<1>4. \A i \in ToSet(ics), s \in States : LoadFor(s, i, id, l1) \in States
  BY <1>3, LoadForFacts
<1>5. PICK told : LoadTold(told, n, q, id, l1) /\ r = told[n]
  BY <1>2, <1>4, LoadLoop
<1> DEFINE P(k) == /\ told[k] \in States /\ Agree(told[k], First(k), l0, l1)
                   /\ told[k].default = q.default
                   /\ Alive(q, {}, l0, l0) => Alive(told[k], {}, l0, l0)
           S == {k \in 0 .. n : P(k)}
<1>6. P(0)
  <2>1. told[0] = q
    BY <1>5 DEF LoadTold
  <2>2. Agree(q, {}, l0, l1)
    BY NoneTold
  <2> QED BY <2>1, <2>2, <1>2
<1>7. ASSUME NEW k \in 1 .. n, P(k - 1) PROVE P(k)
  <2>1. PICK s \in States, i \in ToSet(ics) \ First(k - 1) :
          s = told[k - 1] /\ i = ics[k] /\ told[k] = LoadFor(s, i, id, l1)
    BY <1>2, <1>5, <1>7 DEF LoadTold
  <2>2. Agree(s, First(k - 1), l0, l1)
    BY <2>1, <1>7
  <2>3. Agree(LoadFor(s, i, id, l1), First(k - 1) \cup {i}, l0, l1)
    BY <2>2, <1>3, LoadAgrees
  <2>4. i \in ICs /\ LoadFor(s, i, id, l1) \in States /\ LoadFor(s, i, id, l1).default = s.default
    BY <1>3, LoadForType
  <2>5. Alive(s, {}, l0, l0) => Alive(LoadFor(s, i, id, l1), {}, l0, l0)
    BY <1>3, LoadAlive
  <2> QED BY <2>1, <2>3, <2>4, <2>5, <1>2, <1>7
<1>8. \A k \in 0 .. n : k \in S
  <2>1. S \in SUBSET (0 .. n) /\ 0 \in S
    BY <1>2, <1>6
  <2>2. \A k \in 1 .. n : k - 1 \in S => k \in S
    <3> HIDE DEF P
    <3> QED BY <1>7
  <2> HIDE DEF S, P
  <2> QED BY <2>1, <2>2, <1>2, StepByStep
<1>9. P(n)
  BY <1>2, <1>8
<1>10. Agree(r, {}, l1, l1)
  BY <1>2, <1>5, <1>9, AllTold
<1>11. Alive(r, {}, l0, l0) => Alive(r, {}, l1, l1)
  <2>1. ToSet(l0) \subseteq ToSet(l1)
    BY ConsFacts
  <2> QED BY <2>1 DEF Alive, ListOf
<1> QED BY <1>5, <1>9, <1>10, <1>11

(* What telling all that an engine goes makes is a state.                   *)
LEMMA UnloadAllType ==
  ASSUME NEW q \in States, NEW id \in Engines, NEW list \in Seq(Engines), ics \in Lists(ICs)
  PROVE  UnloadAll(q, id, list) \in States
<1>1. PICK n : n = Len(ics)
  OBVIOUS
<1>2. n \in Nat /\ DOMAIN ics = 1 .. n /\ \A k \in 1 .. n : ics[k] \in ICs
  BY <1>1, FirstFacts
<1>3. \A i \in ToSet(ics), s \in States : UnloadFor(s, i, id, list) \in States
  <2>1. ToSet(ics) \subseteq ICs
    BY <1>2 DEF ToSet
  <2> QED BY <2>1, UnloadForType
<1>4. PICK told : UnloadTold(told, n, q, id, list) /\ UnloadAll(q, id, list) = told[n]
  BY <1>2, <1>3, UnloadLoop
<1> DEFINE S == {k \in 0 .. n : told[k] \in States}
<1>5. 0 \in S
  BY <1>2, <1>4 DEF UnloadTold
<1>6. \A k \in 1 .. n : k - 1 \in S => k \in S
  BY <1>2, <1>4, UnloadForType DEF UnloadTold
<1>7. \A k \in 0 .. n : k \in S
  <2> HIDE DEF S
  <2>1. S \in SUBSET (0 .. n)
    BY DEF S
  <2> QED BY <2>1, <1>2, <1>5, <1>6, StepByStep
<1> QED BY <1>2, <1>4, <1>7

(* All being told, and the engine freed, lists agree and nobody has lost    *)
(* an engine.                                                               *)
LEMMA UnloadAllFacts ==
  ASSUME NEW q \in States, NEW l0 \in Seq(Engines), NEW l1 \in Seq(Engines),
         NEW id \in Engines, l1 = RemoveFirst(l0, id), id \in ToSet(l0), IsInjective(l0),
         ics \in Lists(ICs), Agree(q, {}, l0, l0), SystemKeyboard \in ToSet(l1),
         NEW d, Kept(q, d, l1),
         NEW r, r = Freed(UnloadAll(q, id, l1), Of(Server, id))
  PROVE  /\ r \in States /\ Agree(r, {}, l1, l1) /\ Kept(r, d, l1)
         /\ Alive(q, {}, l0, l0) => Alive(r, {}, l1, l1)
<1>1. PICK n : n = Len(ics)
  OBVIOUS
<1>2. /\ n \in Nat /\ DOMAIN ics = 1 .. n /\ First(0) = {} /\ First(n) = ToSet(ics)
      /\ \A k \in 1 .. n : /\ First(k) = First(k - 1) \cup {ics[k]}
                           /\ ics[k] \in ToSet(ics) \ First(k - 1) /\ ics[k] \in ICs
  BY <1>1, FirstFacts
<1>3. ToSet(ics) \subseteq ICs
  BY <1>2 DEF ToSet
<1>4. \A i \in ToSet(ics), s \in States : UnloadFor(s, i, id, l1) \in States
  BY <1>3, UnloadForType
<1>5. PICK told : UnloadTold(told, n, q, id, l1) /\ UnloadAll(q, id, l1) = told[n]
  BY <1>2, <1>4, UnloadLoop
<1> DEFINE P(k) == /\ told[k] \in States /\ Agree(told[k], First(k), l0, l1)
                   /\ Kept(told[k], d, l1)
                   /\ Alive(q, {}, l0, l0) => Alive(told[k], First(k), l0, l1)
           S == {k \in 0 .. n : P(k)}
<1>6. P(0)
  <2>1. told[0] = q
    BY <1>5 DEF UnloadTold
  <2>2. Agree(q, {}, l0, l1) /\ (Alive(q, {}, l0, l0) => Alive(q, {}, l0, l1))
    BY NoneTold, AliveNoneTold
  <2> QED BY <2>1, <2>2, <1>2
<1>7. ASSUME NEW k \in 1 .. n, P(k - 1) PROVE P(k)
  <2>1. PICK s \in States, i \in ToSet(ics) \ First(k - 1) :
          s = told[k - 1] /\ i = ics[k] /\ told[k] = UnloadFor(s, i, id, l1)
    BY <1>2, <1>5, <1>7 DEF UnloadTold
  <2>2. Agree(s, First(k - 1), l0, l1) /\ Kept(s, d, l1)
    BY <2>1, <1>7
  <2>3. /\ UnloadFor(s, i, id, l1) \in States
        /\ Agree(UnloadFor(s, i, id, l1), First(k - 1) \cup {i}, l0, l1)
    BY <2>2, <1>3, UnloadAgrees
  <2>4. Kept(UnloadFor(s, i, id, l1), d, l1)
    BY <2>2, <1>3, UnloadKeeps
  <2>5. Alive(s, First(k - 1), l0, l1) =>
          Alive(UnloadFor(s, i, id, l1), First(k - 1) \cup {i}, l0, l1)
    BY <2>2, <1>3, UnloadAlive
  <2> QED BY <2>1, <2>3, <2>4, <2>5, <1>2, <1>7
<1>8. \A k \in 0 .. n : k \in S
  <2>1. S \in SUBSET (0 .. n) /\ 0 \in S
    BY <1>2, <1>6
  <2>2. \A k \in 1 .. n : k - 1 \in S => k \in S
    <3> HIDE DEF P
    <3> QED BY <1>7
  <2> HIDE DEF S, P
  <2> QED BY <2>1, <2>2, <1>2, StepByStep
<1>9. PICK t \in States : /\ t = UnloadAll(q, id, l1)
                          /\ Agree(t, {}, l1, l1) /\ Kept(t, d, l1)
                          /\ Alive(q, {}, l0, l0) => Alive(t, {}, l1, l1)
  <2>1. P(n)
    BY <1>2, <1>8
  <2> QED BY <2>1, <1>2, <1>5, AllTold, AliveAllTold
<1>10. /\ r \in States /\ r.engines = t.engines /\ r.default = t.default
       /\ \A j \in ICs : r.engine[j] = IF t.engine[j] = Of(Server, id) THEN Dangling ELSE t.engine[j]
  BY <1>9, FreedFacts
<1>11. Agree(r, {}, l1, l1) /\ Kept(r, d, l1)
  BY <1>9, <1>10 DEF Agree, Kept
<1>12. ASSUME Alive(t, {}, l1, l1) PROVE Alive(r, {}, l1, l1)
  <2>1. ToSet(l1) = ToSet(l0) \ {id}
    BY RemoveFacts
  <2>2. ASSUME use_singleton, NEW i \in ToSet(ics)
        PROVE  \E x \in ToSet(ListOf(i, {}, l1, l1)) : r.engine[i] = Of(Server, x)
    <3>1. PICK x \in ToSet(l1) : t.engine[i] = Of(Server, x)
      BY <1>12, <2>2 DEF Alive, ListOf
    <3>2. t.engine[i] # Of(Server, id)
      BY <3>1, <2>1, OfIs
    <3> QED BY <3>1, <3>2, <1>3, <1>10 DEF ListOf
  <2>3. ASSUME ~ use_singleton, NEW i \in ToSet(ics)
        PROVE  \E x \in ToSet(r.engines[i]) : r.engine[i] = Of(i, x)
    <3>1. PICK x \in ToSet(t.engines[i]) : t.engine[i] = Of(i, x)
      BY <1>12, <2>3 DEF Alive
    <3>2. t.engine[i] # Of(Server, id)
      BY <3>1, <1>3, OfIs, ServerAssumption
    <3> QED BY <3>1, <3>2, <1>3, <1>10
  <2>4. use_singleton => \A i \in ICs : r.engines[i] = <<>>
    BY <1>12, <1>10 DEF Alive
  <2>5. ~ use_singleton => r.default = SystemKeyboard
    BY <1>12, <1>10 DEF Alive
  <2> QED BY <2>2, <2>3, <2>4, <2>5, Zenon DEF Alive
<1> QED BY <1>9, <1>10, <1>11, <1>12

-----------------------------------------------------------------------------
(* The loops over engines.                                                  *)

Results == [list : Seq(Engines), state : States, failed : BOOLEAN]

LoadEach(q, ids) == FoldLeft(Load, q, ids)

LoadedTold(told, n, q, ids) ==
  /\ told[0] = q
  /\ \A k \in 1 .. n : told[k] = Load(told[k - 1], ids[k])

(* The first loop of on_changed_active_engines goes through its ids.        *)
LEMMA LoadEachLoop ==
  ASSUME NEW q \in Results, NEW ids, NEW n \in Nat, DOMAIN ids = 1 .. n,
         \A i \in ToSet(ids), s \in Results : Load(s, i) \in Results
  PROVE  \E told : /\ LoadedTold(told, n, q, ids)
                   /\ LoadEach(q, ids) = told[n]
<1> DEFINE F(g) == g = [s \in SUBSET DOMAIN ids |->
                         IF s = {} THEN q
                         ELSE LET x == Max(s) IN Load(g[s \ {x}], ids[x])]
<1>1. LoadEach(q, ids) = (CHOOSE g : F(g))[DOMAIN ids]
  BY DEF LoadEach, FoldLeft, MapThenFoldSet
<1>2. \E g : F(g)
  <2> DEFINE step == [k \in 1 .. n |-> [v \in Results |-> Load(v, ids[k])]]
  <2>1. \A k \in 1 .. n, v \in Results : step[k][v] = Load(v, ids[k])
    OBVIOUS
  <2>2. \A k \in 1 .. n : ids[k] \in ToSet(ids)
    BY DEF ToSet
  <2> HIDE DEF step
  <2>3. \A k \in 1 .. n, v \in Results : step[k][v] \in Results
    BY <2>1, <2>2
  <2>4. PICK g : IsFold(g, n, q, step) /\ g \in [SUBSET (1 .. n) -> Results]
    BY <2>3, FoldExists
  <2>5. \A s \in SUBSET (1 .. n) : s # {} => Max(s) \in 1 .. n /\ g[s \ {Max(s)}] \in Results
    BY <2>4, MaxInRange
  <2>6. \A s \in SUBSET (1 .. n) :
          (IF s = {} THEN q ELSE step[Max(s)][g[s \ {Max(s)}]])
            = (IF s = {} THEN q ELSE Load(g[s \ {Max(s)}], ids[Max(s)]))
    BY <2>1, <2>5
  <2>7. g = [s \in SUBSET (1 .. n) |->
               IF s = {} THEN q ELSE step[Max(s)][g[s \ {Max(s)}]]]
    BY <2>4 DEF IsFold
  <2>8. g = [s \in SUBSET (1 .. n) |->
               IF s = {} THEN q ELSE Load(g[s \ {Max(s)}], ids[Max(s)])]
    BY <2>6, <2>7
  <2>9. F(g)
    BY <2>8
  <2> QED BY <2>9
<1> DEFINE g == CHOOSE g : F(g)
           told == [k \in 0 .. n |-> g[1 .. k]]
<1>3. F(g)
  BY <1>2
<1> HIDE DEF g
<1>4. \A s \in SUBSET (1 .. n) :
        g[s] = IF s = {} THEN q ELSE Load(g[s \ {Max(s)}], ids[Max(s)])
  BY <1>3
<1>5. g[{}] = q
  BY <1>4
<1>6. \A k \in 1 .. n : g[1 .. k] = Load(g[1 .. k - 1], ids[k])
  <2> TAKE k \in 1 .. n
  <2>1. 1 .. k # {} /\ Max(1 .. k) = k /\ (1 .. k) \ {k} = 1 .. k - 1
    <3>1. k \in Nat \ {0}
      OBVIOUS
    <3> QED BY <3>1, FirstOnes
  <2>2. 1 .. k \in SUBSET (1 .. n)
    OBVIOUS
  <2> QED BY <2>1, <2>2, <1>4
<1>7. told[0] = q /\ told[n] = g[1 .. n]
  <2>1. 1 .. 0 = {}
    OBVIOUS
  <2> QED BY <1>5, <2>1
<1>8. \A k \in 1 .. n : told[k] = g[1 .. k] /\ told[k - 1] = g[1 .. k - 1]
  OBVIOUS
<1> HIDE DEF told
<1>9. LoadedTold(told, n, q, ids)
  BY <1>6, <1>7, <1>8 DEF LoadedTold
<1> QED BY <1>1, <1>7, <1>9 DEF g

UnloadEach(q, ids, keep) == FoldLeft(LAMBDA s, i : UnloadUnless(s, i, keep), q, ids)

UnloadedTold(told, n, q, ids, keep) ==
  /\ told[0] = q
  /\ \A k \in 1 .. n : told[k] = UnloadUnless(told[k - 1], ids[k], keep)

(* The second goes through the list.                                        *)
LEMMA UnloadEachLoop ==
  ASSUME NEW q \in Results, NEW ids, NEW keep, NEW n \in Nat, DOMAIN ids = 1 .. n,
         \A i \in ToSet(ids), s \in Results : UnloadUnless(s, i, keep) \in Results
  PROVE  \E told : /\ UnloadedTold(told, n, q, ids, keep)
                   /\ UnloadEach(q, ids, keep) = told[n]
<1> DEFINE F(g) == g = [s \in SUBSET DOMAIN ids |->
                         IF s = {} THEN q
                         ELSE LET x == Max(s) IN UnloadUnless(g[s \ {x}], ids[x], keep)]
<1>1. UnloadEach(q, ids, keep) = (CHOOSE g : F(g))[DOMAIN ids]
  BY DEF UnloadEach, FoldLeft, MapThenFoldSet
<1>2. \E g : F(g)
  <2> DEFINE step == [k \in 1 .. n |-> [v \in Results |-> UnloadUnless(v, ids[k], keep)]]
  <2>1. \A k \in 1 .. n, v \in Results : step[k][v] = UnloadUnless(v, ids[k], keep)
    OBVIOUS
  <2>2. \A k \in 1 .. n : ids[k] \in ToSet(ids)
    BY DEF ToSet
  <2> HIDE DEF step
  <2>3. \A k \in 1 .. n, v \in Results : step[k][v] \in Results
    BY <2>1, <2>2
  <2>4. PICK g : IsFold(g, n, q, step) /\ g \in [SUBSET (1 .. n) -> Results]
    BY <2>3, FoldExists
  <2>5. \A s \in SUBSET (1 .. n) : s # {} => Max(s) \in 1 .. n /\ g[s \ {Max(s)}] \in Results
    BY <2>4, MaxInRange
  <2>6. \A s \in SUBSET (1 .. n) :
          (IF s = {} THEN q ELSE step[Max(s)][g[s \ {Max(s)}]])
            = (IF s = {} THEN q ELSE UnloadUnless(g[s \ {Max(s)}], ids[Max(s)], keep))
    BY <2>1, <2>5
  <2>7. g = [s \in SUBSET (1 .. n) |->
               IF s = {} THEN q ELSE step[Max(s)][g[s \ {Max(s)}]]]
    BY <2>4 DEF IsFold
  <2>8. g = [s \in SUBSET (1 .. n) |->
               IF s = {} THEN q ELSE UnloadUnless(g[s \ {Max(s)}], ids[Max(s)], keep)]
    BY <2>6, <2>7
  <2>9. F(g)
    BY <2>8
  <2> QED BY <2>9
<1> DEFINE g == CHOOSE g : F(g)
           told == [k \in 0 .. n |-> g[1 .. k]]
<1>3. F(g)
  BY <1>2
<1> HIDE DEF g
<1>4. \A s \in SUBSET (1 .. n) :
        g[s] = IF s = {} THEN q ELSE UnloadUnless(g[s \ {Max(s)}], ids[Max(s)], keep)
  BY <1>3
<1>5. g[{}] = q
  BY <1>4
<1>6. \A k \in 1 .. n : g[1 .. k] = UnloadUnless(g[1 .. k - 1], ids[k], keep)
  <2> TAKE k \in 1 .. n
  <2>1. 1 .. k # {} /\ Max(1 .. k) = k /\ (1 .. k) \ {k} = 1 .. k - 1
    <3>1. k \in Nat \ {0}
      OBVIOUS
    <3> QED BY <3>1, FirstOnes
  <2>2. 1 .. k \in SUBSET (1 .. n)
    OBVIOUS
  <2> QED BY <2>1, <2>2, <1>4
<1>7. told[0] = q /\ told[n] = g[1 .. n]
  <2>1. 1 .. 0 = {}
    OBVIOUS
  <2> QED BY <1>5, <2>1
<1>8. \A k \in 1 .. n : told[k] = g[1 .. k] /\ told[k - 1] = g[1 .. k - 1]
  OBVIOUS
<1> HIDE DEF told
<1>9. UnloadedTold(told, n, q, ids, keep)
  BY <1>6, <1>7, <1>8 DEF UnloadedTold
<1> QED BY <1>1, <1>7, <1>9 DEF g
(* What the handler has made so far.                                        *)
Good(r) ==
  /\ r \in Results
  /\ IsInjective(r.list) /\ SystemKeyboard \in ToSet(r.list)
  /\ Agree(r.state, {}, r.list, r.list)

Lives(r) == Alive(r.state, {}, r.list, r.list)

(* What With makes.                                                         *)
LEMMA WithFacts ==
  \A r \in Results, l \in Seq(Engines), s \in States :
    /\ With(r, l, s) \in Results
    /\ With(r, l, s).list = l /\ With(r, l, s).state = s
  BY DEF Results, With

(* The cases of Load.                                                       *)
LEMMA LoadIs ==
  \A r, id :
    /\ r.failed \/ id \in ToSet(r.list) => Load(r, id) = r
    /\ ~ r.failed /\ id \notin ToSet(r.list) /\ id \in Broken =>
         Load(r, id) = [list |-> r.list, state |-> r.state, failed |-> TRUE]
    /\ ~ r.failed /\ id \notin ToSet(r.list) /\ id \notin Broken =>
         Load(r, id) = With(r, Cons(id, r.list), LoadAll(r.state, id, Cons(id, r.list)))
  BY Zenon DEF Load

(* The cases of UnloadUnless.                                               *)
LEMMA UnloadIs ==
  \A r, id, keep :
    /\ id = SystemKeyboard \/ id \in keep => UnloadUnless(r, id, keep) = r
    /\ id # SystemKeyboard /\ id \notin keep =>
         UnloadUnless(r, id, keep) =
           With(r, RemoveFirst(r.list, id),
                Freed(UnloadAll(r.state, id, RemoveFirst(r.list, id)), Of(Server, id)))
  BY Zenon DEF UnloadUnless, Unload

(* What an engine that is loaded makes of a result.                         *)
LEMMA LoadType ==
  ASSUME ics \in Lists(ICs), NEW r \in Results, NEW id \in Engines
  PROVE  Load(r, id) \in Results
<1>1. r.list \in Seq(Engines) /\ r.state \in States /\ r.failed \in BOOLEAN
  BY DEF Results
<1>2. PICK l \in Seq(Engines) : l = Cons(id, r.list)
  BY <1>1, ConsFacts
<1>3. PICK s \in States : s = LoadAll(r.state, id, l)
  BY <1>1, LoadAllType
<1>4. \/ Load(r, id) = r
      \/ Load(r, id) = [list |-> r.list, state |-> r.state, failed |-> TRUE]
      \/ Load(r, id) = With(r, l, s)
  BY <1>2, <1>3, LoadIs, Zenon
<1>5. [list |-> r.list, state |-> r.state, failed |-> TRUE] \in Results
  BY <1>1 DEF Results
<1>6. With(r, l, s) \in Results
  BY WithFacts
<1> QED BY <1>4, <1>5, <1>6

(* It keeps what is good of it.                                             *)
LEMMA LoadGood ==
  ASSUME ics \in Lists(ICs), NEW r, Good(r), NEW id \in Engines, NEW u, u = Load(r, id)
  PROVE  /\ Good(u) /\ u.state.default = r.state.default
         /\ Lives(r) => Lives(u)
<1>1. r \in Results /\ r.list \in Seq(Engines) /\ r.state \in States
  BY DEF Results, Good
<1>5. PICK l \in Seq(Engines), s \in States : l = Cons(id, r.list) /\ s = LoadAll(r.state, id, l)
  <2>1. PICK l \in Seq(Engines) : l = Cons(id, r.list)
    BY <1>1, ConsFacts
  <2> QED BY <1>1, <2>1, LoadAllType
<1>2. CASE r.failed \/ id \in ToSet(r.list)
  <2>1. u = r
    BY <1>2, <1>5, LoadIs, Zenon
  <2> QED BY <2>1
<1>3. CASE ~ r.failed /\ id \notin ToSet(r.list) /\ id \in Broken
  <2>1. u = [list |-> r.list, state |-> r.state, failed |-> TRUE]
    BY <1>3, <1>5, LoadIs, Zenon
  <2>2. u \in Results /\ u.list = r.list /\ u.state = r.state
    BY <1>1, <2>1 DEF Results
  <2> QED BY <2>2 DEF Good, Lives
<1>4. CASE ~ r.failed /\ id \notin ToSet(r.list) /\ id \notin Broken
  <2>3. u = With(r, l, s)
    BY <1>4, <1>5, LoadIs, Zenon
  <2>4. u \in Results /\ u.list = l /\ u.state = s
    BY <1>1, <2>3, WithFacts
  <2>5. /\ Agree(s, {}, l, l) /\ s.default = r.state.default
        /\ Alive(r.state, {}, r.list, r.list) => Alive(s, {}, l, l)
    BY <1>1, <1>4, <1>5, LoadAllFacts DEF Good
  <2>6. IsInjective(l) /\ SystemKeyboard \in ToSet(l)
    BY <1>1, <1>4, <1>5, ConsFacts DEF Good
  <2> QED BY <2>4, <2>5, <2>6 DEF Good, Lives
<1> QED BY <1>2, <1>3, <1>4

(* What an engine that is unloaded makes of a result.                       *)
LEMMA UnloadType ==
  ASSUME ics \in Lists(ICs), NEW r \in Results, NEW id \in Engines, NEW keep
  PROVE  UnloadUnless(r, id, keep) \in Results
<1>1. r.list \in Seq(Engines) /\ r.state \in States
  BY DEF Results
<1>2. RemoveFirst(r.list, id) \in Seq(Engines)
  <2>1. CASE id \in ToSet(r.list)
    BY <1>1, <2>1, RemoveType
  <2>2. CASE id \notin ToSet(r.list)
    <3>1. RemoveFirst(r.list, id) = r.list
      BY <1>1, <2>2 DEF RemoveFirst, ToSet
    <3> QED BY <3>1, <1>1
  <2> QED BY <2>1, <2>2
<1>3. PICK l \in Seq(Engines) : l = RemoveFirst(r.list, id)
  BY <1>2
<1>4. PICK t \in States : t = UnloadAll(r.state, id, l)
  BY <1>1, UnloadAllType
<1>5. PICK s \in States : s = Freed(t, Of(Server, id))
  BY FreedFacts
<1>6. s = Freed(UnloadAll(r.state, id, l), Of(Server, id))
  BY <1>4, <1>5
<1>7. UnloadUnless(r, id, keep) = r \/ UnloadUnless(r, id, keep) = With(r, l, s)
  <2>1. Freed(UnloadAll(r.state, id, RemoveFirst(r.list, id)), Of(Server, id)) = s
    BY <1>3, <1>6
  <2>2. With(r, RemoveFirst(r.list, id),
             Freed(UnloadAll(r.state, id, RemoveFirst(r.list, id)), Of(Server, id))) = With(r, l, s)
    BY <1>3, <2>1
  <2> QED BY <2>2, UnloadIs, Zenon
<1>8. With(r, l, s) \in Results
  BY WithFacts
<1> QED BY <1>7, <1>8

(* It keeps that too, and every other engine.                               *)
LEMMA UnloadGood ==
  ASSUME ics \in Lists(ICs), NEW r, Good(r), NEW id \in ToSet(r.list), NEW keep,
         NEW d, Kept(r.state, d, r.list), NEW u, u = UnloadUnless(r, id, keep)
  PROVE  /\ Good(u) /\ Kept(u.state, d, u.list)
         /\ ToSet(r.list) \ {id} \subseteq ToSet(u.list)
         /\ Lives(r) => Lives(u)
<1>1. /\ r \in Results /\ r.list \in Seq(Engines) /\ r.state \in States
      /\ id \in Engines
  BY ToSetIs DEF Results, Good
<1>2. CASE id = SystemKeyboard \/ id \in keep
  <2>1. u = r
    BY <1>2 DEF UnloadUnless
  <2> QED BY <2>1
<1>3. CASE id # SystemKeyboard /\ id \notin keep
  <2>0. IsInjective(r.list) /\ SystemKeyboard \in ToSet(r.list)
        /\ Agree(r.state, {}, r.list, r.list)
    BY DEF Good
  <2>1. PICK l \in Seq(Engines) : l = RemoveFirst(r.list, id)
    BY <1>1, RemoveType
  <2>2. PICK t \in States : t = UnloadAll(r.state, id, l)
    BY <1>1, UnloadAllType
  <2>3. PICK s \in States : s = Freed(t, Of(Server, id))
    BY FreedFacts
  <2>10. s = Freed(UnloadAll(r.state, id, l), Of(Server, id))
    BY <2>2, <2>3
  <2>4. u = With(r, l, s)
    <3>1. Freed(UnloadAll(r.state, id, RemoveFirst(r.list, id)), Of(Server, id)) = s
      BY <2>1, <2>10
    <3>2. With(r, RemoveFirst(r.list, id),
               Freed(UnloadAll(r.state, id, RemoveFirst(r.list, id)), Of(Server, id))) = With(r, l, s)
      BY <2>1, <3>1
    <3>3. UnloadUnless(r, id, keep) = With(r, l, s)
      BY <1>3, <3>2, UnloadIs, Zenon
    <3> QED BY <3>3
  <2>5. u \in Results /\ u.list = l /\ u.state = s
    <3>1. With(r, l, s) \in Results /\ With(r, l, s).list = l /\ With(r, l, s).state = s
      BY <1>1, WithFacts
    <3> QED BY <2>4, <3>1
  <2>6. ToSet(l) = ToSet(r.list) \ {id} /\ IsInjective(l)
    BY <1>1, <2>0, <2>1, RemoveFacts
  <2>7. Kept(r.state, d, l)
    BY <2>6 DEF Kept
  <2>8. SystemKeyboard \in ToSet(l)
    BY <1>3, <2>0, <2>6
  <2>9. /\ Agree(s, {}, l, l) /\ Kept(s, d, l)
        /\ Alive(r.state, {}, r.list, r.list) => Alive(s, {}, l, l)
    BY <1>1, <2>0, <2>1, <2>2, <2>3, <2>7, <2>8, UnloadAllFacts
  <2> QED BY <2>5, <2>6, <2>8, <2>9 DEF Good, Lives
<1> QED BY <1>2, <1>3

(* What the first loop does.                                                *)
LEMMA LoadEachFacts ==
  ASSUME ics \in Lists(ICs), NEW r, Good(r), NEW ids \in Seq(Engines),
         NEW u, u = LoadEach(r, ids)
  PROVE  /\ Good(u) /\ u.state.default = r.state.default
         /\ Lives(r) => Lives(u)
<1>1. PICK n \in Nat : n = Len(ids)
  OBVIOUS
<1>2. DOMAIN ids = 1 .. n /\ \A k \in 1 .. n : ids[k] \in Engines
  BY <1>1
<1>3. r \in Results
  BY DEF Good
<1>4. \A i \in ToSet(ids), s \in Results : Load(s, i) \in Results
  <2>1. ToSet(ids) \subseteq Engines
    BY <1>2 DEF ToSet
  <2> QED BY <2>1, LoadType
<1>5. PICK told : LoadedTold(told, n, r, ids) /\ u = told[n]
  BY <1>2, <1>3, <1>4, LoadEachLoop
<1> DEFINE P(k) == /\ Good(told[k]) /\ told[k].state.default = r.state.default
                   /\ Lives(r) => Lives(told[k])
           S == {k \in 0 .. n : P(k)}
<1>6. P(0)
  BY <1>5 DEF LoadedTold
<1>7. ASSUME NEW k \in 1 .. n, P(k - 1) PROVE P(k)
  <2>1. PICK s : s = told[k - 1]
    OBVIOUS
  <2>3. PICK id \in Engines : id = ids[k] /\ told[k] = Load(s, id)
    BY <2>1, <1>2, <1>5 DEF LoadedTold
  <2>2. /\ Good(told[k]) /\ told[k].state.default = s.state.default
        /\ Lives(s) => Lives(told[k])
    <3>1. Good(s)
      BY <2>1, <1>7
    <3> QED BY <2>3, <3>1, LoadGood
  <2> QED BY <2>1, <2>2, <1>7
<1>8. \A k \in 0 .. n : k \in S
  <2>1. S \in SUBSET (0 .. n) /\ 0 \in S
    BY <1>6
  <2>2. \A k \in 1 .. n : k - 1 \in S => k \in S
    <3> HIDE DEF P
    <3> QED BY <1>7
  <2> HIDE DEF S, P
  <2> QED BY <2>1, <2>2, StepByStep
<1> QED BY <1>5, <1>8

(* What the second loop does, which may only move the default of an engine  *)
(* that goes.                                                               *)
LEMMA UnloadEachFacts ==
  ASSUME ics \in Lists(ICs), NEW r, Good(r), NEW keep,
         NEW d, Kept(r.state, d, r.list),
         NEW u, u = UnloadEach(r, r.list, keep)
  PROVE  /\ Good(u) /\ Kept(u.state, d, u.list)
         /\ Lives(r) => Lives(u)
<1>1. PICK n \in Nat, ids \in Seq(Engines) : n = Len(ids) /\ ids = r.list
  BY DEF Good, Results
<1>2. DOMAIN ids = 1 .. n /\ \A k \in 1 .. n : ids[k] \in Engines
  BY <1>1
<1>3. r \in Results /\ IsInjective(ids)
  BY <1>1 DEF Good
<1>4. \A i \in ToSet(ids), s \in Results : UnloadUnless(s, i, keep) \in Results
  <2>1. ToSet(ids) \subseteq Engines
    BY <1>2 DEF ToSet
  <2> QED BY <2>1, UnloadType
<1>5. PICK told : UnloadedTold(told, n, r, ids, keep) /\ u = told[n]
  BY <1>1, <1>2, <1>3, <1>4, UnloadEachLoop
<1> DEFINE P(k) == /\ Good(told[k]) /\ Kept(told[k].state, d, told[k].list)
                   /\ \A m \in 1 .. n : k < m => ids[m] \in ToSet(told[k].list)
                   /\ Lives(r) => Lives(told[k])
           S == {k \in 0 .. n : P(k)}
<1>6. P(0)
  <2>1. \A m \in 1 .. n : ids[m] \in ToSet(ids)
    BY <1>2 DEF ToSet
  <2> QED BY <2>1, <1>1, <1>5 DEF UnloadedTold
<1>7. ASSUME NEW k \in 1 .. n, P(k - 1) PROVE P(k)
  <2>1. PICK s, id : s = told[k - 1] /\ id = ids[k] /\ told[k] = UnloadUnless(s, id, keep)
    BY <1>5 DEF UnloadedTold
  <2>2. id \in ToSet(s.list)
    <3>1. k - 1 < k
      OBVIOUS
    <3> QED BY <2>1, <3>1, <1>7
  <2>3. Good(s) /\ Kept(s.state, d, s.list)
    BY <2>1, <1>7
  <2>4. /\ Good(told[k]) /\ Kept(told[k].state, d, told[k].list)
        /\ ToSet(s.list) \ {id} \subseteq ToSet(told[k].list)
        /\ Lives(s) => Lives(told[k])
    <3>1. PICK v : v = UnloadUnless(s, id, keep)
      OBVIOUS
    <3>2. /\ Good(v) /\ Kept(v.state, d, v.list)
          /\ ToSet(s.list) \ {id} \subseteq ToSet(v.list)
          /\ Lives(s) => Lives(v)
      BY <2>2, <2>3, <3>1, UnloadGood
    <3> QED BY <2>1, <3>1, <3>2
  <2>5. ASSUME NEW m \in 1 .. n, k < m PROVE ids[m] \in ToSet(told[k].list)
    <3>1. k - 1 < m /\ m # k
      BY <2>5
    <3>2. ids[m] # id
      BY <3>1, <2>1, <1>2, <1>3 DEF IsInjective
    <3>3. ids[m] \in ToSet(s.list)
      BY <3>1, <2>1, <1>7
    <3> QED BY <3>2, <3>3, <2>4
  <2> QED BY <2>1, <2>4, <2>5, <1>7
<1>8. \A k \in 0 .. n : k \in S
  <2>1. S \in SUBSET (0 .. n) /\ 0 \in S
    BY <1>6
  <2>2. \A k \in 1 .. n : k - 1 \in S => k \in S
    <3> HIDE DEF P
    <3> QED BY <1>7
  <2> HIDE DEF S, P
  <2> QED BY <2>1, <2>2, StepByStep
<1> QED BY <1>5, <1>8

-----------------------------------------------------------------------------
(* The invariants, and how they begin.                                      *)

(* The lists that s gives the contexts of cs, and nobody else, are lists of *)
(* the engines of list.                                                     *)
Fits(s, list, cs) ==
  \A i \in ICs : /\ IsInjective(s.engines[i])
                 /\ i \notin cs => s.engines[i] = <<>>
                 /\ s.engines[i] # <<>> => Same(s.engines[i], list)

(* The engines that s gives the contexts of cs are there.                   *)
Uses(s, list, cs, single) ==
  /\ single => /\ \A i \in ICs : s.engines[i] = <<>>
               /\ \A i \in cs : \E x \in ToSet(list) : s.engine[i] = Of(Server, x)
  /\ ~ single => /\ s.default = SystemKeyboard
                 /\ \A i \in cs : \E x \in ToSet(s.engines[i]) : s.engine[i] = Of(i, x)

(* The inductive invariants, in any mode and while the mode is kept.        *)
Inv ==
  /\ TypeOK
  /\ SystemKeyboard \in ToSet(loaded)
  /\ Fits(State, loaded, ToSet(ics))

AliveInv == Uses(State, loaded, ToSet(ics), use_singleton)

(* Fits is Agree when all contexts are told.                                *)
LEMMA FitsAgree == \A s, list : Fits(s, list, ToSet(ics)) <=> Agree(s, {}, list, list)
  BY DEF Fits, Agree, ListOf

(* Uses is Alive then.                                                      *)
LEMMA UsesAlive == \A s, list : Uses(s, list, ToSet(ics), use_singleton) <=> Alive(s, {}, list, list)
  BY DEF Uses, Alive, ListOf

(* What the invariant says of the state that a handler begins with.         *)
LEMMA StateType ==
  ASSUME Inv
  PROVE  /\ State \in States /\ State.engine = engine /\ State.engines = engines
         /\ State.default = default_engine
         /\ loaded \in Seq(Engines) /\ IsInjective(loaded) /\ SystemKeyboard \in ToSet(loaded)
         /\ loaded # <<>> /\ ToSet(loaded) \subseteq Engines
         /\ Fits(State, loaded, ToSet(ics))
         /\ ics \in Seq(ICs) /\ IsInjective(ics) /\ ToSet(ics) \subseteq ICs
<1>1. engines \in [ICs -> Seq(Engines)]
  BY DEF Inv, TypeOK, Lists
<1>2. State \in States /\ State.engine = engine /\ State.engines = engines
      /\ State.default = default_engine
  BY <1>1 DEF Inv, TypeOK, State, States
<1>3. /\ loaded \in Seq(Engines) /\ IsInjective(loaded) /\ SystemKeyboard \in ToSet(loaded)
      /\ ics \in Seq(ICs) /\ IsInjective(ics)
      /\ Fits(State, loaded, ToSet(ics))
  BY DEF Inv, TypeOK, Lists
<1>4. loaded # <<>> /\ ToSet(loaded) \subseteq Engines /\ ToSet(ics) \subseteq ICs
  BY <1>3, ToSetIs
<1> QED BY <1>2, <1>3, <1>4

(* What a handler leaves.                                                   *)
LEMMA InvAfter ==
  ASSUME NEW s \in States, Become(s), loaded' \in Lists(Engines), ics' \in Lists(ICs),
         use_singleton' \in BOOLEAN, active' \in SUBSET Engines,
         SystemKeyboard \in ToSet(loaded'), Fits(s, loaded', ToSet(ics'))
  PROVE  Inv'
<1>1. /\ s.engine \in [ICs -> Engine \cup {Null, Dangling}]
      /\ s.engines \in [ICs -> Seq(Engines)] /\ s.default \in Engines
  BY DEF States
<1>2. engine' = s.engine /\ engines' = s.engines /\ default_engine' = s.default
  BY DEF Become
<1>3. s.engines \in [ICs -> Lists(Engines)]
  BY <1>1 DEF Fits, Lists
<1>4. TypeOK'
  BY <1>1, <1>2, <1>3 DEF TypeOK
<1>5. State'.engines = s.engines
  BY <1>2 DEF State
<1>6. Fits(State, loaded, ToSet(ics))'
  BY <1>5 DEF Fits
<1> QED BY <1>4, <1>6 DEF Inv

(* The same of the pointers.                                                *)
LEMMA AliveAfter ==
  ASSUME NEW s \in States, Become(s), Uses(s, loaded', ToSet(ics'), use_singleton')
  PROVE  AliveInv'
<1>1. State'.engines = s.engines /\ State'.engine = s.engine /\ State'.default = s.default
  BY DEF State, Become
<1> QED BY <1>1 DEF Uses, AliveInv

(* After is the next engine of the list, or its first.                      *)
LEMMA AfterIs ==
  ASSUME NEW S, NEW list \in Seq(S), list # <<>>, IsInjective(list), NEW id
  PROVE  /\ id \notin ToSet(list) => After(list, id) = list[1]
         /\ \A p \in 1 .. Len(list) : list[p] = id =>
              After(list, id) = list[IF p = Len(list) THEN 1 ELSE p + 1]
         /\ After(list, id) \in ToSet(list)
<1> DEFINE places == {k \in 1 .. Len(list) : list[k] = id}
<1>1. Len(list) \in Nat /\ 1 \in 1 .. Len(list) /\ list[1] \in ToSet(list) /\ DOMAIN list = 1 .. Len(list)
  BY ToSetIs
<1>2. ASSUME id \notin ToSet(list) PROVE After(list, id) = list[1]
  <2>1. places = {}
    BY <1>2, ToSetIs
  <2> QED BY <2>1 DEF After
<1>3. ASSUME NEW p \in 1 .. Len(list), list[p] = id
      PROVE  After(list, id) = list[IF p = Len(list) THEN 1 ELSE p + 1]
  <2>1. places = {p}
    BY <1>1, <1>3 DEF IsInjective
  <2>2. CASE p = Len(list)
    <3>1. places = {Len(list)}
      BY <2>1, <2>2
    <3> QED BY <2>2, <3>1 DEF After
  <2>3. CASE p # Len(list)
    <3>1. ~ (places = {} \/ places = {Len(list)})
      BY <2>1, <2>3
    <3>2. (CHOOSE k \in places : TRUE) = p
      BY <2>1
    <3>3. After(list, id) = list[(CHOOSE k \in places : TRUE) + 1]
      BY <3>1 DEF After
    <3> QED BY <2>3, <3>2, <3>3
  <2> QED BY <2>2, <2>3
<1>4. After(list, id) \in ToSet(list)
  <2>1. CASE id \notin ToSet(list)
    BY <1>1, <1>2, <2>1
  <2>2. CASE id \in ToSet(list)
    <3>1. PICK p \in 1 .. Len(list) : list[p] = id
      BY <2>2, ToSetIs
    <3>2. p # Len(list) => p + 1 \in 1 .. Len(list)
      <4>1. PICK n \in Nat : n = Len(list) /\ p \in 1 .. n
        BY <1>1, <3>1
      <4>2. p # n => p + 1 \in 1 .. n
        BY <4>1
      <4> QED BY <4>1, <4>2
    <3>3. CASE p = Len(list)
      BY <1>1, <1>3, <3>1, <3>3
    <3>4. CASE p # Len(list)
      <4>1. After(list, id) = list[p + 1]
        BY <1>3, <3>1, <3>4
      <4> QED BY <3>2, <3>4, <4>1, ToSetIs
    <3> QED BY <3>3, <3>4
  <2> QED BY <2>1, <2>2
<1> QED BY <1>2, <1>3, <1>4

-----------------------------------------------------------------------------
(* A list of what is in a set has all of it.                                *)
LEMMA ListHasAll ==
  ASSUME NEW S, IsFiniteSet(S), NEW list \in SetToSeqs(S)
  PROVE  list \in Lists(S) /\ ToSet(list) = S
<1>1. PICK n \in Nat : n = Cardinality(S)
  BY FS_CardinalityType
<1>2. list \in [1 .. n -> S] /\ \A i, j \in 1 .. n : i # j => list[i] # list[j]
  BY <1>1 DEF SetToSeqs
<1>3. list \in Seq(S) /\ IsInjective(list) /\ DOMAIN list = 1 .. n
  BY <1>2 DEF IsInjective
<1>4. list \in Injection(1 .. n, S)
  BY <1>2 DEF Injection, IsInjective
<1>5. Cardinality(1 .. n) = Cardinality(S)
  BY <1>1, FS_Interval
<1>6. list \in Surjection(1 .. n, S)
  BY <1>4, <1>5, FS_Injection
<1>7. ToSet(list) = S
  BY <1>3, <1>6 DEF Surjection, ToSet
<1> QED BY <1>3, <1>7 DEF Lists

(* The invariants hold at the start.                                        *)
LEMMA AtTheStart ==
  ASSUME Init
  PROVE  Inv /\ AliveInv
<1>1. PICK S \in SUBSET (Engines \ Broken) : SystemKeyboard \in S /\ active = S /\ loaded \in SetToSeqs(S)
  BY DEF Init
<1>2. IsFiniteSet(S) /\ SystemKeyboard \in Engines
  BY EnginesAssumption, FS_Subset
<1>3. loaded \in Lists(S) /\ ToSet(loaded) = S
  BY <1>1, <1>2, ListHasAll
<1>4. loaded \in Lists(Engines)
  BY <1>3 DEF Lists
<1>5. /\ ics = <<>> /\ engines = [i \in ICs |-> <<>>] /\ engine = [i \in ICs |-> Null]
      /\ use_singleton \in BOOLEAN /\ default_engine = SystemKeyboard
  BY DEF Init
<1>6. ics \in Lists(ICs) /\ ToSet(ics) = {} /\ <<>> \in Lists(Engines) /\ IsInjective(<<>>)
  BY <1>5, EmptyList DEF Lists
<1>7. TypeOK
  BY <1>1, <1>2, <1>4, <1>5, <1>6 DEF TypeOK
<1>8. State.engines = engines /\ State.default = default_engine
  BY DEF State
<1>9. Fits(State, loaded, ToSet(ics))
  BY <1>5, <1>6, <1>8 DEF Fits
<1>10. AliveInv
  BY <1>5, <1>6, <1>8 DEF AliveInv, Uses
<1> QED BY <1>1, <1>3, <1>7, <1>9, <1>10 DEF Inv

-----------------------------------------------------------------------------
(* Contexts.                                                                *)

(* A context that comes takes the default engine.                           *)
LEMMA NewICStep ==
  ASSUME Inv, NEW i \in ICs, NewIC(i)
  PROVE  /\ Inv' /\ (AliveInv => AliveInv')
         /\ default_engine' = default_engine \/ default_engine \notin ToSet(loaded')
<1>1. /\ State \in States /\ State.engine = engine /\ State.engines = engines
      /\ State.default = default_engine
      /\ loaded \in Seq(Engines) /\ IsInjective(loaded) /\ SystemKeyboard \in ToSet(loaded)
      /\ loaded # <<>> /\ ToSet(loaded) \subseteq Engines
      /\ Fits(State, loaded, ToSet(ics))
      /\ ics \in Seq(ICs) /\ IsInjective(ics) /\ ToSet(ics) \subseteq ICs
  BY StateType
<1>2. /\ i \notin ToSet(ics) /\ ics' = Append(ics, i)
      /\ UNCHANGED <<use_singleton, active, loaded>>
      /\ Become(Defaulted(State, i, loaded))
  BY DEF NewIC
<1>3. PICK r : r = Defaulted(State, i, loaded)
  OBVIOUS
<1>4. ics' \in Lists(ICs) /\ ToSet(ics') = ToSet(ics) \cup {i}
  BY <1>1, <1>2, AppendListFacts DEF Lists
<1>5. State.engines[i] = <<>> /\ Become(r)
  BY <1>1, <1>2, <1>3 DEF Fits
<1>6. /\ loaded' \in Lists(Engines) /\ use_singleton' \in BOOLEAN /\ active' \in SUBSET Engines
      /\ SystemKeyboard \in ToSet(loaded') /\ loaded' = loaded /\ use_singleton' = use_singleton
  BY <1>1, <1>2 DEF Inv, TypeOK
<1>7. PICK d \in Engines : d = Default(State, loaded) /\ d \in ToSet(loaded)
  BY <1>1 DEF Default
<1>8. d = default_engine \/ default_engine \notin ToSet(loaded)
  BY <1>1, <1>7 DEF Default
<1>9. State.engine \in [ICs -> Engine \cup {Null, Dangling}] /\ State.engines \in [ICs -> Seq(Engines)]
  BY <1>1 DEF States
<1>10. CASE use_singleton
  <2>1. FellBack(r, State, i, Server, loaded) /\ r.engines = State.engines
    BY <1>1, <1>3, <1>10, DefaultedShared
  <2>2. /\ r \in States /\ r.default = d
        /\ r.engine = [State.engine EXCEPT ![i] = ById(Server, loaded, d)]
    BY <2>1, <1>7 DEF FellBack
  <2>3. ById(Server, loaded, d) = Of(Server, d)
    BY <1>1, <1>7, Found
  <2>4. Fits(r, loaded', ToSet(ics'))
    BY <1>1, <1>4, <1>6, <2>1 DEF Fits
  <2>5. Inv'
    BY <1>4, <1>5, <1>6, <2>2, <2>4, InvAfter
  <2>6. ASSUME AliveInv PROVE Uses(r, loaded', ToSet(ics'), use_singleton')
    BY <2>6, <1>4, <1>6, <1>7, <1>9, <1>10, <2>1, <2>2, <2>3 DEF Uses, AliveInv
  <2>7. default_engine' = d
    BY <1>5, <2>2 DEF Become
  <2> QED BY <2>5, <2>6, <2>2, <1>5, AliveAfter, <2>7, <1>6, <1>8
<1>11. CASE ~ use_singleton
  <2>1. PICK l \in Seq(Engines) : l = Reverse(loaded) /\ Same(l, loaded) /\ IsInjective(l)
    BY <1>1, ReverseFacts DEF Same
  <2>2. FellBack(r, State, i, i, l) /\ r.engines = [State.engines EXCEPT ![i] = l]
    BY <1>1, <1>3, <1>5, <1>11, <2>1, DefaultedOwn
  <2>3. Default(State, l) = d
    BY <1>7, <2>1 DEF Default, Same
  <2>4. /\ r \in States /\ r.default = d
        /\ r.engine = [State.engine EXCEPT ![i] = ById(i, l, d)]
    BY <2>2, <2>3 DEF FellBack
  <2>5. ById(i, l, d) = Of(i, d) /\ d \in ToSet(l)
    BY <1>7, <2>1, Found DEF Same
  <2>6. \A j \in ICs : r.engines[j] = IF j = i THEN l ELSE State.engines[j]
    BY <1>9, <2>2
  <2>7. Fits(r, loaded', ToSet(ics'))
    <3>1. ASSUME NEW j \in ICs
          PROVE  /\ IsInjective(r.engines[j])
                 /\ j \notin ToSet(ics') => r.engines[j] = <<>>
                 /\ r.engines[j] # <<>> => Same(r.engines[j], loaded)
      <4>1. CASE j = i
        BY <4>1, <2>6, <2>1, <1>4
      <4>2. CASE j # i
        BY <4>2, <2>6, <1>1, <1>4 DEF Fits
      <4> QED BY <4>1, <4>2
    <3> QED BY <3>1, <1>6 DEF Fits
  <2>8. Inv'
    BY <1>4, <1>5, <1>6, <2>4, <2>7, InvAfter
  <2>9. ASSUME AliveInv PROVE Uses(r, loaded', ToSet(ics'), use_singleton')
    <3>1. State.default = SystemKeyboard
      BY <1>11, <2>9 DEF Uses, AliveInv
    <3>2. d = SystemKeyboard
      BY <3>1, <1>1, <1>7 DEF Default
    <3>3. ASSUME NEW j \in ToSet(ics) \cup {i}
          PROVE  \E x \in ToSet(r.engines[j]) : r.engine[j] = Of(j, x)
      <4>1. CASE j = i
        BY <4>1, <1>9, <2>4, <2>5, <2>6
      <4>2. CASE j # i
        BY <4>2, <3>3, <2>9, <1>1, <1>9, <1>11, <2>4, <2>6 DEF Uses, AliveInv
      <4> QED BY <4>1, <4>2
    <3> QED BY <3>2, <3>3, <1>4, <1>6, <1>11, <2>4 DEF Uses
  <2>10. default_engine' = d
    BY <1>5, <2>4 DEF Become
  <2> QED BY <2>8, <2>9, <2>4, <1>5, AliveAfter, <2>10, <1>6, <1>8
<1> QED BY <1>10, <1>11

(* One that goes leaves the others as they are.                             *)
LEMMA FreeICStep ==
  ASSUME Inv, NEW i \in ICs, FreeIC(i)
  PROVE  Inv' /\ (AliveInv => AliveInv') /\ default_engine' = default_engine
<1>1. /\ State.engine = engine /\ State.engines = engines /\ State.default = default_engine
      /\ Fits(State, loaded, ToSet(ics))
      /\ ics \in Seq(ICs) /\ IsInjective(ics) /\ ToSet(ics) \subseteq ICs
  BY StateType
<1>2. /\ i \in ToSet(ics) /\ ics' = RemovedFast(ics, i)
      /\ engines' = [engines EXCEPT ![i] = <<>>]
      /\ engine' = [engine EXCEPT ![i] = Null]
      /\ UNCHANGED <<use_singleton, default_engine, active, loaded>>
  BY DEF FreeIC
<1>3. ics' \in Lists(ICs) /\ ToSet(ics') = ToSet(ics) \ {i}
  BY <1>1, <1>2, RemovedFastFacts DEF Lists
<1>4. engines \in [ICs -> Lists(Engines)] /\ engine \in [ICs -> Engine \cup {Null, Dangling}]
  BY DEF Inv, TypeOK
<1>5. <<>> \in Lists(Engines) /\ IsInjective(<<>>)
  BY EmptyList DEF Lists
<1>6. engines' \in [ICs -> Lists(Engines)]
  BY <1>2, <1>4, <1>5
<1>7. TypeOK'
  BY <1>2, <1>3, <1>4, <1>6 DEF TypeOK, Inv
<1>8. State'.engines = engines' /\ State'.engine = engine' /\ State'.default = default_engine'
  BY DEF State
<1>9. Fits(State, loaded, ToSet(ics))'
  BY <1>1, <1>2, <1>3, <1>4, <1>5, <1>8 DEF Fits
<1>10. Inv'
  BY <1>2, <1>7, <1>9 DEF Inv
<1>11. ASSUME AliveInv PROVE AliveInv'
  <2>1. \A j \in ICs : /\ engines'[j] = IF j = i THEN <<>> ELSE engines[j]
                       /\ engine'[j] = IF j = i THEN Null ELSE engine[j]
    BY <1>2, <1>4
  <2> QED BY <1>11, <1>1, <1>2, <1>3, <1>8, <2>1 DEF AliveInv, Uses
<1> QED BY <1>2, <1>10, <1>11

(* The list that a context walks along or looks into, once it is made.      *)
Own(s, i) == IF use_singleton THEN s ELSE Listed(s, i, loaded)

(* That list has the engines of the server.                                 *)
LEMMA OwnFacts ==
  ASSUME Inv, NEW i \in ToSet(ics), NEW s, s = Own(State, i),
         NEW list, list = (IF use_singleton THEN loaded ELSE s.engines[i])
  PROVE  /\ s \in States /\ Fits(s, loaded, ToSet(ics))
         /\ s.engine = engine /\ s.default = default_engine
         /\ list \in Seq(Engines) /\ Same(list, loaded) /\ IsInjective(list) /\ list # <<>>
         /\ AliveInv => Uses(s, loaded, ToSet(ics), use_singleton)
<1>1. /\ State \in States /\ State.engine = engine /\ State.engines = engines
      /\ State.default = default_engine
      /\ loaded \in Seq(Engines) /\ IsInjective(loaded) /\ SystemKeyboard \in ToSet(loaded)
      /\ loaded # <<>> /\ ToSet(loaded) \subseteq Engines
      /\ Fits(State, loaded, ToSet(ics))
      /\ ics \in Seq(ICs) /\ IsInjective(ics) /\ ToSet(ics) \subseteq ICs
  BY StateType
<1>2. CASE use_singleton
  BY <1>1, <1>2 DEF Own, Same, AliveInv
<1>3. CASE ~ use_singleton
  <2>1. s = Listed(State, i, loaded) /\ list = s.engines[i] /\ i \in ICs
    BY <1>1, <1>3 DEF Own
  <2>2. PICK l \in Seq(Engines) : l = Reverse(loaded) /\ Same(l, loaded) /\ IsInjective(l) /\ l # <<>>
    BY <1>1, ReverseFacts DEF Same
  <2>3. /\ s \in States /\ s.engine = engine /\ s.default = default_engine
        /\ s.engines = [State.engines EXCEPT ![i] = IF State.engines[i] = <<>> THEN l ELSE @]
    BY <1>1, <2>1, <2>2, ListedFacts
  <2>4. State.engines \in [ICs -> Seq(Engines)] /\ s.engines \in [ICs -> Seq(Engines)]
    BY <1>1, <2>3 DEF States
  <2>5. \A j \in ICs : s.engines[j] = IF j = i /\ State.engines[i] = <<>> THEN l ELSE State.engines[j]
    BY <2>3, <2>4
  <2>6. Fits(s, loaded, ToSet(ics))
    BY <1>1, <2>2, <2>5 DEF Fits
  <2>7. list \in Seq(Engines) /\ list # <<>>
    BY <2>1, <2>2, <2>4, <2>5
  <2>8. Same(list, loaded) /\ IsInjective(list)
    BY <2>1, <2>6, <2>7 DEF Fits
  <2>9. ASSUME AliveInv PROVE Uses(s, loaded, ToSet(ics), use_singleton)
    <3>1. State.default = SystemKeyboard /\
          \A j \in ToSet(ics) : \E x \in ToSet(State.engines[j]) : State.engine[j] = Of(j, x)
      BY <1>3, <2>9 DEF AliveInv, Uses
    <3>2. State.engines[i] # <<>>
      BY <3>1, EmptyList
    <3> QED BY <1>1, <1>3, <2>3, <2>5, <3>1, <3>2 DEF Uses
  <2> QED BY <2>3, <2>6, <2>7, <2>8, <2>9
<1> QED BY <1>2, <1>3

Took(r, s, i, e) ==
  /\ r \in States /\ r.engine = [s.engine EXCEPT ![i] = e]
  /\ r.engines = s.engines /\ r.default = s.default

(* A state with another engine for a context.                               *)
LEMMA TookEngine ==
  \A s \in States, i \in ICs, e \in Engine \cup {Null, Dangling} :
    Took([s EXCEPT !.engine[i] = e], s, i, e)
  BY SetEngine, ZenonT(60) DEF Took

(* A context takes an engine of its list.                                   *)
LEMMA TakesEngine ==
  ASSUME Inv, NEW i \in ToSet(ics), NEW s, s = Own(State, i),
         NEW list, list = (IF use_singleton THEN loaded ELSE s.engines[i]),
         NEW x \in ToSet(list),
         NEW owner, owner = (IF use_singleton THEN Server ELSE i),
         NEW r, r = [s EXCEPT !.engine[i] = Of(owner, x)], Become(r),
         UNCHANGED <<use_singleton, active, loaded, ics>>
  PROVE  Inv' /\ (AliveInv => AliveInv')
<1>1. /\ s \in States /\ Fits(s, loaded, ToSet(ics))
      /\ list \in Seq(Engines) /\ Same(list, loaded)
      /\ AliveInv => Uses(s, loaded, ToSet(ics), use_singleton)
  BY OwnFacts
<1>2. i \in ICs /\ x \in Engines /\ SystemKeyboard \in ToSet(loaded)
  BY <1>1, ToSetIs, StateType
<1>3. Of(owner, x) \in Engine \cup {Null, Dangling}
  BY <1>2 DEF Of, Engine
<1>4. /\ r \in States /\ r.engine = [s.engine EXCEPT ![i] = Of(owner, x)]
      /\ r.engines = s.engines /\ r.default = s.default
  <2>1. PICK e \in Engine \cup {Null, Dangling} : e = Of(owner, x)
    BY <1>3
  <2>2. r = [s EXCEPT !.engine[i] = e]
    BY <2>1
  <2>3. /\ r \in States /\ r.engine = [s.engine EXCEPT ![i] = e]
        /\ r.engines = s.engines /\ r.default = s.default
    <3>1. Took([s EXCEPT !.engine[i] = e], s, i, e)
      BY <1>1, <1>2, TookEngine
    <3> QED BY <2>2, <3>1 DEF Took
  <2> QED BY <2>1, <2>3
<1>5. Fits(r, loaded', ToSet(ics'))
  BY <1>1, <1>4 DEF Fits
<1>6. /\ loaded' \in Lists(Engines) /\ ics' \in Lists(ICs) /\ use_singleton' \in BOOLEAN
      /\ active' \in SUBSET Engines /\ SystemKeyboard \in ToSet(loaded')
  BY <1>2 DEF Inv, TypeOK
<1>7. Inv'
  BY <1>4, <1>5, <1>6, InvAfter
<1>8. ASSUME AliveInv PROVE Uses(r, loaded', ToSet(ics'), use_singleton')
  <2>1. s.engine \in [ICs -> Engine \cup {Null, Dangling}]
    BY <1>1 DEF States
  <2>2. \A j \in ICs : r.engine[j] = IF j = i THEN Of(owner, x) ELSE s.engine[j]
    BY <1>4, <2>1
  <2>3. ToSet(ics) \subseteq ICs
    BY StateType
  <2>4. Uses(s, loaded, ToSet(ics), use_singleton)
    BY <1>1, <1>8
  <2>5. CASE use_singleton
    <3>1. x \in ToSet(loaded)
      BY <2>5
    <3> QED BY <2>2, <2>3, <2>4, <2>5, <3>1, <1>4 DEF Uses
  <2>6. CASE ~ use_singleton
    <3>1. x \in ToSet(s.engines[i])
      BY <2>6
    <3> QED BY <2>2, <2>3, <2>4, <2>6, <3>1, <1>4 DEF Uses
  <2> QED BY <2>5, <2>6
<1> QED BY <1>4, <1>7, <1>8, AliveAfter

-----------------------------------------------------------------------------
(* Hotkeys, menus and settings.                                             *)

(* The hotkey.                                                              *)
LEMMA HotkeyStep ==
  ASSUME Inv, NEW i \in ICs, Hotkey(i)
  PROVE  Inv' /\ (AliveInv => AliveInv')
<1>1. PICK s, list, owner :
        /\ s = Own(State, i)
        /\ list = IF use_singleton THEN loaded ELSE s.engines[i]
        /\ owner = IF use_singleton THEN Server ELSE i
  OBVIOUS
<1>2. /\ i \in ToSet(ics) /\ UNCHANGED <<use_singleton, active, loaded, ics>>
      /\ Become([s EXCEPT !.engine[i] = Of(owner, After(list, engine[i].id))])
  BY <1>1 DEF Hotkey, Own
<1>3. list \in Seq(Engines) /\ IsInjective(list) /\ list # <<>>
  BY <1>1, <1>2, OwnFacts
<1>4. PICK x \in ToSet(list) : x = After(list, engine[i].id)
  BY <1>3, AfterIs
<1>5. PICK r : r = [s EXCEPT !.engine[i] = Of(owner, x)]
  OBVIOUS
<1>6. Become(r)
  BY <1>2, <1>4, <1>5
<1> QED BY <1>1, <1>2, <1>4, <1>5, <1>6, TakesEngine

(* A shortcut or the menu; an engine that is not there is refused.          *)
LEMMA ChangeEngineStep ==
  ASSUME Inv, NEW i \in ICs, NEW id \in Engines, ChangeEngine(i, id)
  PROVE  Inv' /\ (AliveInv => AliveInv')
<1>1. PICK s, list, owner :
        /\ s = Own(State, i)
        /\ list = IF use_singleton THEN loaded ELSE s.engines[i]
        /\ owner = IF use_singleton THEN Server ELSE i
  OBVIOUS
<1>2. PICK e : e = ById(owner, list, id)
  OBVIOUS
<1>3. /\ i \in ToSet(ics) /\ UNCHANGED <<use_singleton, active, loaded, ics>>
      /\ Become(IF e = Null THEN s ELSE [s EXCEPT !.engine[i] = e])
  <2>1. CASE use_singleton
    BY <1>1, <1>2, <2>1 DEF ChangeEngine, Own
  <2>2. CASE ~ use_singleton
    BY <1>1, <1>2, <2>2 DEF ChangeEngine, Own
  <2> QED BY <2>1, <2>2
<1>4. /\ s \in States /\ Fits(s, loaded, ToSet(ics)) /\ list \in Seq(Engines)
      /\ AliveInv => Uses(s, loaded, ToSet(ics), use_singleton)
  BY <1>1, <1>3, OwnFacts
<1>5. CASE id \in ToSet(list)
  <2>1. e = Of(owner, id) /\ e # Null
    BY <1>1, <1>2, <1>4, <1>5, Found, PointersAssumption
  <2>2. PICK r : r = [s EXCEPT !.engine[i] = Of(owner, id)]
    OBVIOUS
  <2>3. Become(r)
    BY <1>3, <2>1, <2>2
  <2> QED BY <1>1, <1>3, <1>5, <2>2, <2>3, TakesEngine
<1>6. CASE id \notin ToSet(list)
  <2>1. Become(s)
    BY <1>2, <1>3, <1>6 DEF ById
  <2>2. Fits(s, loaded', ToSet(ics')) /\ (AliveInv => Uses(s, loaded', ToSet(ics'), use_singleton'))
    BY <1>3, <1>4
  <2>3. /\ loaded' \in Lists(Engines) /\ ics' \in Lists(ICs) /\ use_singleton' \in BOOLEAN
        /\ active' \in SUBSET Engines /\ SystemKeyboard \in ToSet(loaded')
    BY <1>3 DEF Inv, TypeOK
  <2> QED BY <1>4, <2>1, <2>2, <2>3, InvAfter, AliveAfter
<1> QED BY <1>5, <1>6

(* The mode may change; lists are kept, engines may then be freed.          *)
LEMMA SetSingletonStep ==
  ASSUME Inv, NEW on \in BOOLEAN, SetSingleton(on)
  PROVE  Inv'
<1>1. /\ use_singleton' \in BOOLEAN /\ engines' = engines /\ loaded' = loaded /\ ics' = ics
      /\ UNCHANGED <<default_engine, active, engine>>
  BY DEF SetSingleton
<1>2. State'.engines = State.engines
  BY <1>1 DEF State
<1> QED BY <1>1, <1>2 DEF Inv, TypeOK, Fits

(* Another default engine.                                                  *)
LEMMA SetDefaultStep ==
  ASSUME Inv, NEW id \in Engines, SetDefault(id)
  PROVE  Inv' /\ (use_singleton /\ AliveInv => AliveInv')
<1>1. /\ default_engine' \in Engines /\ engines' = engines /\ loaded' = loaded /\ ics' = ics
      /\ UNCHANGED <<use_singleton, active, engine>>
  BY DEF SetDefault
<1>2. State'.engines = State.engines /\ State'.engine = State.engine
  BY <1>1 DEF State
<1> QED BY <1>1, <1>2 DEF Inv, TypeOK, Fits, AliveInv, Uses

(* Engines that are switched on and off.                                    *)
LEMMA SwitchEngineStep ==
  ASSUME Inv, NEW id \in Engines, SwitchEngine(id)
  PROVE  /\ Inv' /\ (AliveInv => AliveInv')
         /\ default_engine' = default_engine \/ default_engine \notin ToSet(loaded')
<1>1. PICK S \in SUBSET Engines : S = IF id \in active THEN active \ {id} ELSE active \cup {id}
  BY DEF Inv, TypeOK
<1>2. PICK ids \in SetToSeqs(S) : OnChangedActiveEngines(ids)
  BY <1>1 DEF SwitchEngine
<1>3. IsFiniteSet(S)
  BY EnginesAssumption, FS_Subset
<1>4. ids \in Seq(Engines) /\ ToSet(ids) \in SUBSET Engines
  BY <1>3, <1>2, ListHasAll DEF Lists
<1>5. PICK q : q = [list |-> loaded, state |-> State, failed |-> FALSE]
  OBVIOUS
<1>6. Good(q) /\ q.list = loaded /\ q.state = State
  BY <1>5, StateType, FitsAgree DEF Good, Results
<1>7. PICK r : r = LoadEach(q, ids)
  OBVIOUS
<1>8. /\ Good(r) /\ r.state.default = State.default
      /\ Lives(q) => Lives(r)
  BY <1>4, <1>6, <1>7, LoadEachFacts DEF Inv, TypeOK
<1>9. PICK u : u = IF r.failed THEN r ELSE UnloadEach(r, r.list, ToSet(ids))
  OBVIOUS
<1>10. /\ active' = ToSet(ids) /\ loaded' = u.list /\ Become(u.state)
       /\ UNCHANGED <<use_singleton, ics>>
  BY <1>2, <1>5, <1>7, <1>9, Zenon DEF OnChangedActiveEngines, LoadEach, UnloadEach
<1>11. PICK d : d = State.default
  OBVIOUS
<1>12. Kept(r.state, d, r.list)
  BY <1>8, <1>11 DEF Kept
<1>13. /\ Good(u) /\ Kept(u.state, d, u.list)
       /\ Lives(q) => Lives(u)
  <2>1. CASE r.failed
    BY <1>8, <1>9, <1>12, <2>1
  <2>2. CASE ~ r.failed
    <3>1. u = UnloadEach(r, r.list, ToSet(ids))
      BY <1>9, <2>2
    <3> QED BY <1>8, <1>12, <3>1, UnloadEachFacts DEF Inv, TypeOK
  <2> QED BY <2>1, <2>2
<1>14. /\ u.state \in States /\ u.list \in Lists(Engines) /\ SystemKeyboard \in ToSet(u.list)
       /\ Fits(u.state, u.list, ToSet(ics))
  BY <1>13, FitsAgree DEF Good, Results, Lists
<1>15. Inv'
  <2>1. /\ loaded' \in Lists(Engines) /\ ics' \in Lists(ICs) /\ use_singleton' \in BOOLEAN
        /\ active' \in SUBSET Engines /\ SystemKeyboard \in ToSet(loaded')
        /\ Fits(u.state, loaded', ToSet(ics'))
    BY <1>4, <1>10, <1>14 DEF Inv, TypeOK
  <2> QED BY <1>10, <1>14, <2>1, InvAfter
<1>16. ASSUME AliveInv PROVE AliveInv'
  <2>1. Lives(q)
    BY <1>6, <1>16, UsesAlive DEF AliveInv, Lives
  <2>2. Uses(u.state, u.list, ToSet(ics), use_singleton)
    BY <2>1, <1>13, UsesAlive DEF Lives
  <2> QED BY <1>10, <1>14, <2>2, AliveAfter
<1>17. default_engine' = default_engine \/ default_engine \notin ToSet(loaded')
  BY <1>10, <1>11, <1>13, StateType DEF Kept, Become
<1> QED BY <1>15, <1>16, <1>17

-----------------------------------------------------------------------------
(* The walk along a list.                                                   *)

(* One more press of the hotkey.                                            *)
Press(list, w) == Append(w, After(list, Last(w)))

Walked(told, n, list, id) ==
  /\ told[0] = <<id>>
  /\ \A k \in 1 .. n : told[k] = Press(list, told[k - 1])

Walks == Seq(Engines) \ {<<>>}

(* A press adds one engine to the walk.                                     *)
LEMMA PressType ==
  ASSUME NEW list \in Seq(Engines), list # <<>>, IsInjective(list), NEW w \in Walks
  PROVE  /\ Press(list, w) \in Walks
         /\ Len(Press(list, w)) = Len(w) + 1
         /\ \A m \in 1 .. Len(w) : Press(list, w)[m] = w[m]
         /\ Press(list, w)[Len(w) + 1] = After(list, w[Len(w)])
<1>1. PICK e \in Engines : e = After(list, Last(w))
  BY AfterIs, ToSetIs
<1>2. w \in Seq(Engines) /\ w # <<>> /\ Last(w) = w[Len(w)] /\ Press(list, w) = Append(w, e)
  BY <1>1 DEF Walks, Last, Press
<1>3. Append(w, e) \in Walks
  BY <1>2 DEF Walks
<1> QED BY <1>1, <1>2, <1>3

(* Walk presses the key once for each engine.                               *)
LEMMA WalkLoop ==
  ASSUME NEW list \in Seq(Engines), list # <<>>, IsInjective(list), NEW id \in Engines,
         NEW n \in Nat, n = Len(list)
  PROVE  \E told : Walked(told, n, list, id) /\ Walk(list, id) = told[n]
<1> DEFINE F(g) == g = [s \in SUBSET DOMAIN list |->
                         IF s = {} THEN <<id>>
                         ELSE LET x == Max(s) IN Append(g[s \ {x}], After(list, Last(g[s \ {x}])))]
<1>0. DOMAIN list = 1 .. n
  OBVIOUS
<1>1. Walk(list, id) = (CHOOSE g : F(g))[DOMAIN list]
  BY DEF Walk, FoldLeft, MapThenFoldSet
<1>2. \E g : F(g)
  <2> DEFINE step == [k \in 1 .. n |-> [v \in Walks |-> Press(list, v)]]
  <2>1. \A k \in 1 .. n, v \in Walks : step[k][v] = Press(list, v)
    OBVIOUS
  <2> HIDE DEF step
  <2>2. \A v \in Walks : Press(list, v) \in Walks
    BY PressType
  <2>3. (\A k \in 1 .. n, v \in Walks : step[k][v] \in Walks) /\ <<id>> \in Walks
    BY <2>1, <2>2 DEF Walks
  <2>4. PICK g : IsFold(g, n, <<id>>, step) /\ g \in [SUBSET (1 .. n) -> Walks]
    BY <2>3, FoldExists
  <2>5. \A s \in SUBSET (1 .. n) : s # {} => Max(s) \in 1 .. n /\ g[s \ {Max(s)}] \in Walks
    BY <2>4, MaxInRange
  <2>6. \A s \in SUBSET (1 .. n) :
          (IF s = {} THEN <<id>> ELSE step[Max(s)][g[s \ {Max(s)}]])
            = (IF s = {} THEN <<id>> ELSE Press(list, g[s \ {Max(s)}]))
    BY <2>1, <2>5
  <2>7. g = [s \in SUBSET (1 .. n) |->
               IF s = {} THEN <<id>> ELSE step[Max(s)][g[s \ {Max(s)}]]]
    BY <2>4 DEF IsFold
  <2>8. g = [s \in SUBSET (1 .. n) |-> IF s = {} THEN <<id>> ELSE Press(list, g[s \ {Max(s)}])]
    BY <2>6, <2>7
  <2>9. F(g)
    BY <1>0, <2>8 DEF Press
  <2> QED BY <2>9
<1> DEFINE g == CHOOSE g : F(g)
           told == [k \in 0 .. n |-> g[1 .. k]]
<1>3. F(g)
  BY <1>2
<1> HIDE DEF g
<1>4. \A s \in SUBSET (1 .. n) : g[s] = IF s = {} THEN <<id>> ELSE Press(list, g[s \ {Max(s)}])
  BY <1>0, <1>3 DEF Press
<1>5. g[{}] = <<id>>
  BY <1>4
<1>6. \A k \in 1 .. n : g[1 .. k] = Press(list, g[1 .. k - 1])
  <2> TAKE k \in 1 .. n
  <2>1. 1 .. k # {} /\ Max(1 .. k) = k /\ (1 .. k) \ {k} = 1 .. k - 1
    <3>1. k \in Nat \ {0}
      OBVIOUS
    <3> QED BY <3>1, FirstOnes
  <2>2. 1 .. k \in SUBSET (1 .. n)
    OBVIOUS
  <2> QED BY <2>1, <2>2, <1>4
<1>7. told[0] = <<id>> /\ told[n] = g[1 .. n]
  <2>1. 1 .. 0 = {}
    OBVIOUS
  <2> QED BY <1>5, <2>1
<1>8. \A k \in 1 .. n : told[k] = g[1 .. k] /\ told[k - 1] = g[1 .. k - 1]
  OBVIOUS
<1> HIDE DEF told
<1>9. Walked(told, n, list, id)
  BY <1>6, <1>7, <1>8 DEF Walked
<1> QED BY <1>0, <1>1, <1>7, <1>9 DEF g

(* Places of a list of n, going round; 0 is before its first.               *)
Round(n, k) == IF k > n THEN k - n ELSE k

(* Such a walk has been at each engine of the list.                         *)
LEMMA WalkGoesRound ==
  ASSUME NEW list \in Seq(Engines), list # <<>>, IsInjective(list), NEW id \in Engines
  PROVE  ToSet(Tail(Walk(list, id))) = ToSet(list)
<1>1. PICK n \in Nat : n = Len(list) /\ n > 0 /\ DOMAIN list = 1 .. n
  OBVIOUS
<1>2. PICK told : Walked(told, n, list, id) /\ Walk(list, id) = told[n]
  BY <1>1, WalkLoop
<1>3. PICK p \in 0 .. n : IF id \in ToSet(list) THEN p > 0 /\ list[p] = id ELSE p = 0
  <2>1. CASE id \in ToSet(list)
    BY <1>1, <2>1, ToSetIs
  <2>2. CASE id \notin ToSet(list)
    BY <2>2
  <2> QED BY <2>1, <2>2
<1>4. \A k \in 1 .. n : Round(n, p + k) \in 1 .. n
  BY DEF Round
<1>5. \A k \in 1 .. n : k > 1 =>
        Round(n, p + k) = IF Round(n, p + (k - 1)) = n THEN 1 ELSE Round(n, p + (k - 1)) + 1
  BY DEF Round
<1>6. After(list, id) = list[Round(n, p + 1)]
  <2>1. CASE id \in ToSet(list)
    <3>1. p \in 1 .. n /\ list[p] = id
      BY <1>3, <2>1
    <3>2. After(list, id) = list[IF p = n THEN 1 ELSE p + 1]
      BY <1>1, <3>1, AfterIs
    <3> QED BY <3>1, <3>2 DEF Round
  <2>2. CASE id \notin ToSet(list)
    BY <1>1, <1>3, <2>2, AfterIs DEF Round
  <2> QED BY <2>1, <2>2
<1> DEFINE P(k) == /\ told[k] \in Walks /\ Len(told[k]) = k + 1 /\ told[k][1] = id
                   /\ \A m \in 1 .. k : told[k][m + 1] = list[Round(n, p + m)]
           S == {k \in 0 .. n : P(k)}
<1>7. P(0)
  BY <1>2 DEF Walked, Walks
<1>8. ASSUME NEW k \in 1 .. n, P(k - 1) PROVE P(k)
  <2>1. PICK w \in Walks : w = told[k - 1] /\ told[k] = Press(list, w) /\ Len(w) = k
    BY <1>2, <1>8 DEF Walked
  <2>2. /\ told[k] \in Walks /\ Len(told[k]) = k + 1
        /\ \A m \in 1 .. k : told[k][m] = w[m]
        /\ told[k][k + 1] = After(list, w[k])
    <3>1. /\ Press(list, w) \in Walks /\ Len(Press(list, w)) = Len(w) + 1
          /\ \A m \in 1 .. Len(w) : Press(list, w)[m] = w[m]
          /\ Press(list, w)[Len(w) + 1] = After(list, w[Len(w)])
      BY <2>1, PressType
    <3> QED BY <2>1, <3>1
  <2>3. told[k][1] = id
    <3>1. w[1] = id
      BY <1>8, <2>1
    <3>2. 1 \in 1 .. k
      OBVIOUS
    <3>3. told[k][1] = w[1]
      BY <2>2, <3>2
    <3> QED BY <3>1, <3>3
  <2>4. told[k][k + 1] = list[Round(n, p + k)]
    <3>1. CASE k = 1
      BY <3>1, <1>6, <1>8, <2>1, <2>2
    <3>2. CASE k > 1
      <4>1. k - 1 \in 1 .. k - 1 /\ (k - 1) + 1 = k /\ k - 1 \in 1 .. n
        BY <3>2
      <4>2. PICK q \in 1 .. n : q = Round(n, p + (k - 1))
        BY <4>1, <1>4
      <4>3. w[k] = list[q]
        BY <4>1, <4>2, <1>8, <2>1
      <4>4. After(list, w[k]) = list[IF q = n THEN 1 ELSE q + 1]
        BY <4>3, <1>1, AfterIs
      <4>5. Round(n, p + k) = IF q = n THEN 1 ELSE q + 1
        BY <3>2, <4>2, <1>5
      <4> QED BY <2>2, <4>4, <4>5
    <3> QED BY <3>1, <3>2
  <2>5. ASSUME NEW m \in 1 .. k PROVE told[k][m + 1] = list[Round(n, p + m)]
    <3>1. CASE m = k
      BY <3>1, <2>4
    <3>2. CASE m # k
      <4>1. m \in 1 .. k - 1 /\ m + 1 \in 1 .. k
        BY <3>2
      <4> QED BY <4>1, <1>8, <2>1, <2>2
    <3> QED BY <3>1, <3>2
  <2> QED BY <2>2, <2>3, <2>5
<1>9. \A k \in 0 .. n : k \in S
  <2>1. S \in SUBSET (0 .. n) /\ 0 \in S
    BY <1>7
  <2>2. \A k \in 1 .. n : k - 1 \in S => k \in S
    <3> HIDE DEF P
    <3> QED BY <1>8
  <2> HIDE DEF S, P
  <2> QED BY <2>1, <2>2, StepByStep
<1>10. PICK t : t = Tail(told[n])
  OBVIOUS
<1>11. /\ t \in Seq(Engines) /\ Len(t) = n
       /\ \A m \in 1 .. n : t[m] = list[Round(n, p + m)]
  <2>1. n \in S
    BY <1>9
  <2>2. told[n] \in Seq(Engines) /\ Len(told[n]) = n + 1
        /\ \A m \in 1 .. n : told[n][m + 1] = list[Round(n, p + m)]
    BY <2>1 DEF Walks
  <2>3. PICK w \in Seq(Engines) : w = told[n]
    BY <2>2
  <2>4. w # <<>> /\ t = Tail(w) /\ Len(w) = n + 1
    BY <2>2, <2>3, <1>10
  <2>5. t \in Seq(Engines) /\ Len(t) = n /\ \A m \in 1 .. n : t[m] = w[m + 1]
    BY <2>4
  <2> QED BY <2>2, <2>3, <2>5
<1>12. ToSet(t) = ToSet(list)
  <2>1. \A x : x \in ToSet(t) <=> \E m \in 1 .. n : x = t[m]
    <3>1. DOMAIN t = 1 .. n
      BY <1>11
    <3> QED BY <3>1 DEF ToSet
  <2>2. \A x : x \in ToSet(list) <=> \E m \in 1 .. n : x = list[m]
    BY <1>1, ToSetIs
  <2>3. \A j \in 1 .. n : \E m \in 1 .. n : Round(n, p + m) = j
    <3> TAKE j \in 1 .. n
    <3>1. CASE j > p
      <4>1. j - p \in 1 .. n /\ p + (j - p) = j
        BY <3>1
      <4>2. Round(n, j) = j
        BY DEF Round
      <4> QED BY <4>1, <4>2
    <3>2. CASE j <= p
      <4>1. j - p + n \in 1 .. n /\ p + (j - p + n) = j + n
        BY <3>2
      <4>2. Round(n, j + n) = j
        BY DEF Round
      <4> QED BY <4>1, <4>2
    <3> QED BY <3>1, <3>2
  <2>4. ASSUME NEW x \in ToSet(t) PROVE x \in ToSet(list)
    <3>1. PICK m \in 1 .. n : x = t[m]
      BY <2>1, <2>4
    <3> QED BY <3>1, <2>2, <1>4, <1>11
  <2>5. ASSUME NEW x \in ToSet(list) PROVE x \in ToSet(t)
    <3>1. PICK j \in 1 .. n : x = list[j]
      BY <2>2, <2>5
    <3>2. PICK m \in 1 .. n : Round(n, p + m) = j
      BY <2>3, <3>1
    <3> QED BY <3>1, <3>2, <2>1, <1>11
  <2> QED BY <2>4, <2>5
<1> QED BY <1>2, <1>10, <1>12

-----------------------------------------------------------------------------
(* Every step keeps the invariants.                                         *)
LEMMA StepKeeps ==
  ASSUME Inv, [AnyNext]_vars
  PROVE  /\ Inv'
         /\ active' # active \/ ics' # ics =>
              default_engine' = default_engine \/ default_engine \notin ToSet(loaded')
<1>1. CASE UserNext
  <2>1. ASSUME NEW i \in ICs, NewIC(i) \/ FreeIC(i)
        PROVE  Inv' /\ (default_engine' = default_engine \/ default_engine \notin ToSet(loaded'))
    BY <2>1, NewICStep, FreeICStep
  <2>2. ASSUME NEW i \in ICs, Hotkey(i)
        PROVE  Inv' /\ UNCHANGED <<active, ics>>
    BY <2>2, HotkeyStep DEF Hotkey
  <2>3. ASSUME NEW i \in ICs, NEW id \in Engines, ChangeEngine(i, id)
        PROVE  Inv' /\ UNCHANGED <<active, ics>>
    BY <2>3, ChangeEngineStep DEF ChangeEngine
  <2>4. ASSUME NEW id \in Engines, SwitchEngine(id)
        PROVE  Inv' /\ (default_engine' = default_engine \/ default_engine \notin ToSet(loaded'))
    BY <2>4, SwitchEngineStep
  <2> QED BY <1>1, <2>1, <2>2, <2>3, <2>4 DEF UserNext
<1>2. ASSUME NEW id \in Engines, SetDefault(id)
      PROVE  Inv' /\ UNCHANGED <<active, ics>>
  BY <1>2, SetDefaultStep DEF SetDefault
<1>3. ASSUME NEW on \in BOOLEAN, SetSingleton(on)
      PROVE  Inv' /\ UNCHANGED <<active, ics>>
  BY <1>3, SetSingletonStep DEF SetSingleton
<1>4. CASE UNCHANGED vars
  BY <1>4 DEF vars, Inv, TypeOK, Fits, State
<1> QED BY <1>1, <1>2, <1>3, <1>4 DEF AnyNext

(* And every step while the mode is kept, the pointers.                     *)
LEMMA SettledStepKeeps ==
  ASSUME Inv, AliveInv, [SettledNext]_vars
  PROVE  AliveInv'
<1>1. CASE UserNext
  BY <1>1, NewICStep, FreeICStep, HotkeyStep, ChangeEngineStep, SwitchEngineStep DEF UserNext
<1>2. ASSUME NEW id \in Engines, use_singleton, SetDefault(id)
      PROVE  AliveInv'
  BY <1>2, SetDefaultStep
<1>3. CASE UNCHANGED vars
  BY <1>3 DEF vars, AliveInv, Uses, State
<1> QED BY <1>1, <1>2, <1>3 DEF SettledNext

(* The invariant holds of any settings.                                     *)
LEMMA InvIsKept == AnySpec => []Inv
<1>1. Init => Inv
  BY AtTheStart
<1>2. Inv /\ [AnyNext]_vars => Inv'
  BY StepKeeps
<1> QED BY <1>1, <1>2, PTL DEF AnySpec

(* What users do while the mode is kept is what they do.                    *)
LEMMA SettledIsAny == SettledSpec => AnySpec
<1>1. [SettledNext]_vars => [AnyNext]_vars
  BY DEF SettledNext, AnyNext
<1> QED BY <1>1, PTL DEF SettledSpec, AnySpec

(* Lists follow the server's, whatever settings are changed while contexts  *)
(* exist: nothing is twice in a list, a list that a context has made has    *)
(* exactly the engines of the server, and only contexts that live have one  *)
(* (nimf_service_ic_load_engine and _unload_engine, called for each         *)
(* context by on_changed_active_engines).                                   *)
THEOREM ListsFollow == AnySpec => []ListsInv
<1>1. Inv => ListsInv
  <2> SUFFICES ASSUME Inv PROVE ListsInv
    OBVIOUS
  <2>1. State.engines = engines
    BY DEF State
  <2> QED BY <2>1 DEF Inv, ListsInv, ListsAgree, Fits, Same
<1> QED BY <1>1, InvIsKept, PTL

(* Pressing the hotkey once for each engine uses every engine of the        *)
(* server, from whatever engine a context has and in either mode            *)
(* (nimf_server_get_next_engine and nimf_service_ic_get_next_engine).       *)
THEOREM GoesRound == AnySpec => []HotkeyGoesRound
<1>1. Inv => HotkeyGoesRound
  <2> SUFFICES ASSUME Inv, NEW i \in ToSet(ics),
                      NEW list, list = (IF use_singleton THEN loaded ELSE engines[i]),
                      engine[i] \in Engine, list # <<>>
               PROVE  ToSet(Tail(Walk(list, engine[i].id))) = ToSet(loaded)
    BY DEF HotkeyGoesRound
  <2>1. /\ State.engines = engines /\ State \in States /\ i \in ICs
        /\ Fits(State, loaded, ToSet(ics)) /\ loaded \in Seq(Engines) /\ IsInjective(loaded)
    BY StateType
  <2>2. engines \in [ICs -> Seq(Engines)]
    BY <2>1 DEF States
  <2>3. list \in Seq(Engines) /\ IsInjective(list) /\ ToSet(list) = ToSet(loaded)
    BY <2>1, <2>2 DEF Fits, Same
  <2>4. engine[i].id \in Engines
    BY DEF Engine
  <2> QED BY <2>3, <2>4, WalkGoesRound
<1> QED BY <1>1, InvIsKept, PTL

(* The default engine of the user survives contexts that come and go and    *)
(* engines that are switched on and off, unless it is itself one that has   *)
(* gone (nimf_service_ic_get_default_engine resets the setting).            *)
THEOREM DefaultKept == AnySpec => DefaultIsKept
<1>1. Inv /\ [AnyNext]_vars =>
        [active' # active \/ ics' # ics
           => default_engine' = default_engine \/ default_engine \notin ToSet(loaded')]_vars
  BY StepKeeps
<1> QED BY <1>1, InvIsKept, PTL DEF AnySpec, DefaultIsKept

(* While the mode is kept, and the default engine with it unless contexts   *)
(* share their engines, the engine of every context is there: it is never   *)
(* null and never freed, whatever engines are switched on and off           *)
(* (nimf_service_ic_unload_engine, before g_object_unref).                  *)
THEOREM EngineAlive == SettledSpec => []EngineIsAlive
<1>1. Init => AliveInv
  BY AtTheStart
<1>2. Inv /\ AliveInv /\ [SettledNext]_vars => AliveInv'
  BY SettledStepKeeps
<1>3. SettledSpec => []AliveInv
  BY <1>1, <1>2, InvIsKept, SettledIsAny, PTL DEF SettledSpec
<1>4. Inv /\ AliveInv => EngineIsAlive
  <2> SUFFICES ASSUME Inv, AliveInv, NEW i \in ToSet(ics) PROVE engine[i] \in Engine
    BY DEF EngineIsAlive
  <2>1. /\ State.engine = engine /\ State.engines = engines /\ State \in States
        /\ i \in ICs /\ ToSet(loaded) \subseteq Engines
    BY StateType
  <2>2. engines \in [ICs -> Seq(Engines)]
    BY <2>1 DEF States
  <2>3. ToSet(engines[i]) \subseteq Engines
    BY <2>1, <2>2, ToSetIs
  <2>4. CASE use_singleton
    <3>1. PICK x \in ToSet(loaded) : engine[i] = Of(Server, x)
      BY <2>1, <2>4 DEF AliveInv, Uses
    <3> QED BY <2>1, <3>1 DEF Of, Engine
  <2>5. CASE ~ use_singleton
    <3>1. PICK x \in ToSet(engines[i]) : engine[i] = Of(i, x)
      BY <2>1, <2>5 DEF AliveInv, Uses
    <3> QED BY <2>1, <2>3, <3>1 DEF Of, Engine
  <2> QED BY <2>4, <2>5
<1> QED BY <1>3, <1>4, InvIsKept, SettledIsAny, PTL
=============================================================================
