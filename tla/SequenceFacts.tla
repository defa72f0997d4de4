--------------------------- MODULE SequenceFacts ----------------------------
(***************************************************************************)
(* Facts about numbers and sequences that the proofs about queues need and *)
(* that the library states only with an operator for a parameter, or not   *)
(* at all: induction, as a statement about sets of numbers; what FlattenSeq*)
(* returns for a sequence that grows at either end; and Max.               *)
(***************************************************************************)
EXTENDS Naturals, SequencesExt, SequenceTheorems, WellFoundedInduction, TLAPS

(* There is a well-founded relation on the numbers that < implies.          *)
LEMMA LessWF ==
  \E R : /\ IsWellFoundedOn(R, Nat)
         /\ \A x, y \in Nat : x < y => <<x, y>> \in R
<1>1. IsWellFoundedOn(OpToRel(<, Nat), Nat)
  BY NatLessThanWellFounded, Zenon
<1>2. \A x, y \in Nat : x < y => <<x, y>> \in OpToRel(<, Nat)
  BY Zenon DEF OpToRel
<1> QED BY <1>1, <1>2, Zenon

(* A set of numbers that is not empty has a least one.                      *)
LEMMA LeastNumber ==
  ASSUME NEW S \in SUBSET Nat, S # {}
  PROVE  \E m \in S : \A n \in S : m <= n
<1>1. PICK R : /\ IsWellFoundedOn(R, Nat)
               /\ \A x, y \in Nat : x < y => <<x, y>> \in R
  BY LessWF, Zenon
<1>2. IsWellFoundedOn(R, Nat) /\ S \subseteq Nat
  BY <1>1, Zenon
<1>3. PICK x \in S : \A y \in S : ~ (<<y, x>> \in R)
  BY <1>2, WFMin, Zenon
<1>4. \A y \in S : ~ (y < x)
  BY <1>1, <1>2, <1>3, Zenon
<1> QED BY <1>4

(* Induction: a set with 0 and with the number after each of its own has    *)
(* all of them.                                                             *)
LEMMA NatSets ==
  ASSUME NEW S \in SUBSET Nat, 0 \in S, \A n \in S : n + 1 \in S
  PROVE  S = Nat
<1> SUFFICES ASSUME Nat \ S # {} PROVE FALSE
  OBVIOUS
<1>1. PICK m \in Nat \ S : \A n \in Nat \ S : m <= n
  BY LeastNumber
<1>2. m # 0 /\ m - 1 \in Nat /\ m - 1 \in S
  BY <1>1
<1>3. (m - 1) + 1 \in S /\ (m - 1) + 1 = m
  BY <1>2
<1> QED BY <1>3

-----------------------------------------------------------------------------
(* f is the function that FlattenSeq chooses for the first n sequences of   *)
(* ss: f[i] is the first i of them, joined.                                 *)
IsFlatten(f, ss, n) ==
  f = [i \in 1 .. n |-> IF i = 1 THEN ss[1] ELSE f[i - 1] \o ss[i]]

(* There is such a function for every length, so CHOOSE finds one.          *)
LEMMA FlattenExists == \A ss : \A n \in Nat : \E f : IsFlatten(f, ss, n)
<1> SUFFICES ASSUME NEW ss PROVE \A n \in Nat : \E f : IsFlatten(f, ss, n)
  OBVIOUS
<1> DEFINE S == {n \in Nat : \E f : IsFlatten(f, ss, n)}
<1>1. 0 \in S
  <2> DEFINE f == [i \in 1 .. 0 |-> ss[1]]
  <2>1. IsFlatten(f, ss, 0)
    BY DEF IsFlatten
  <2> QED BY <2>1
<1>2. ASSUME NEW n \in Nat, \E f : IsFlatten(f, ss, n)
      PROVE  \E f : IsFlatten(f, ss, n + 1)
  <2>1. PICK f : IsFlatten(f, ss, n)
    BY <1>2
  <2> DEFINE h == IF n = 0 THEN ss[1] ELSE f[n] \o ss[n + 1]
             g == [i \in 1 .. n + 1 |-> IF i = n + 1 THEN h ELSE f[i]]
  <2>4. g[n + 1] = h /\ \A i \in 1 .. n : g[i] = f[i]
    <3> HIDE DEF h
    <3> QED OBVIOUS
  <2>2. \A i \in 1 .. n + 1 : g[i] = IF i = 1 THEN ss[1] ELSE g[i - 1] \o ss[i]
    <3> TAKE i \in 1 .. n + 1
    <3> HIDE DEF g
    <3>1. CASE i = n + 1 /\ n = 0
      BY <3>1, <2>4
    <3>2. CASE i = n + 1 /\ n # 0
      <4>1. n \in 1 .. n /\ i # 1 /\ i - 1 = n
        BY <3>2
      <4>2. g[i] = f[n] \o ss[n + 1] /\ g[n] = f[n]
        BY <3>2, <4>1, <2>4
      <4> QED BY <4>1, <4>2, <3>2
    <3>3. CASE i # n + 1
      <4>1. i \in 1 .. n /\ (i # 1 => i - 1 \in 1 .. n)
        BY <3>3
      <4>2. f[i] = IF i = 1 THEN ss[1] ELSE f[i - 1] \o ss[i]
        BY <4>1, <2>1 DEF IsFlatten
      <4>3. g[i] = f[i] /\ (i # 1 => g[i - 1] = f[i - 1])
        BY <4>1, <2>4
      <4> QED BY <4>2, <4>3
    <3> QED BY <3>1, <3>2, <3>3
  <2>3. IsFlatten(g, ss, n + 1)
    BY <2>2, Zenon DEF IsFlatten
  <2> HIDE DEF g
  <2> QED BY <2>3
<1>3. S = Nat
  <2> HIDE DEF S
  <2>1. S \subseteq Nat
    BY DEF S
  <2>2. \A n \in S : n + 1 \in S
    BY <1>2 DEF S
  <2> QED BY <1>1, <2>2, <2>1, NatSets
<1> QED BY <1>3

(* Two of them, for sequences that agree as far as n, agree as far as n.    *)
LEMMA FlattenAgrees ==
  \A ss, tt, f, g : \A n, m \in Nat :
    n <= m /\ (\A i \in 1 .. n : ss[i] = tt[i]) /\ IsFlatten(f, ss, n) /\ IsFlatten(g, tt, m)
      => \A i \in 1 .. n : f[i] = g[i]
<1> SUFFICES ASSUME NEW ss, NEW tt, NEW f, NEW g, NEW n \in Nat, NEW m \in Nat, n <= m,
                    \A i \in 1 .. n : ss[i] = tt[i], IsFlatten(f, ss, n), IsFlatten(g, tt, m)
             PROVE  \A i \in 1 .. n : f[i] = g[i]
  OBVIOUS
<1> DEFINE S == {k \in Nat : k \in 1 .. n => f[k] = g[k]}
<1>1. ASSUME NEW k \in Nat, k \in 1 .. n => f[k] = g[k], k + 1 \in 1 .. n
      PROVE  f[k + 1] = g[k + 1]
  <2>5. /\ \A i \in 1 .. n : f[i] = IF i = 1 THEN ss[1] ELSE f[i - 1] \o ss[i]
        /\ \A i \in 1 .. m : g[i] = IF i = 1 THEN tt[1] ELSE g[i - 1] \o tt[i]
    BY DEF IsFlatten
  <2>6. k + 1 \in 1 .. n /\ k + 1 \in 1 .. m
    BY <1>1
  <2>1. /\ f[k + 1] = IF k + 1 = 1 THEN ss[1] ELSE f[k + 1 - 1] \o ss[k + 1]
        /\ g[k + 1] = IF k + 1 = 1 THEN tt[1] ELSE g[k + 1 - 1] \o tt[k + 1]
    BY <2>5, <2>6
  <2>2. k + 1 - 1 = k /\ (k + 1 = 1 <=> k = 0)
    OBVIOUS
  <2>3. CASE k = 0
    BY <2>1, <2>3, <1>1
  <2>4. CASE k # 0
    <3>1. k \in 1 .. n /\ f[k] = g[k]
      BY <2>4, <1>1
    <3> QED BY <3>1, <2>1, <2>2, <1>1
  <2> QED BY <2>3, <2>4
<1>2. S = Nat
  <2>1. S \subseteq Nat /\ 0 \in S
    OBVIOUS
  <2>2. \A k \in S : k + 1 \in S
    BY <1>1
  <2> HIDE DEF S
  <2> QED BY <2>1, <2>2, NatSets
<1> QED BY <1>2

(* FlattenSeq by its function, wherever it takes its first element from.    *)
LEMMA FlattenDef ==
  ASSUME NEW T, NEW ss \in Seq(Seq(T)), ss # <<>>
  PROVE  \E f : /\ IsFlatten(f, ss, Len(ss))
                /\ FlattenSeq(ss) = f[Len(ss)]
<1> DEFINE h == CHOOSE f : IsFlatten(f, ss, Len(ss))
<1>1. Len(ss) \in Nat /\ Len(ss) # 0
  BY EmptySeq, LenProperties
<1>2. IsFlatten(h, ss, Len(ss))
  BY <1>1, FlattenExists, Zenon
<1>3. FlattenSeq(ss) = h[Len(ss)]
  <2>1. h = CHOOSE f : f = [i \in 1 .. Len(ss) |-> IF i = 1 THEN ss[1] ELSE f[i - 1] \o ss[i]]
    BY Zenon DEF IsFlatten
  <2>2. \A f : [i \in 1 .. Len(ss) |-> IF i = 1 THEN ss[1] ELSE f[i - 1] \o ss[i]]
              = [i \in 1 .. Len(ss) |-> IF i = 1 THEN ss[i] ELSE f[i - 1] \o ss[i]]
    OBVIOUS
  <2> QED BY <1>1, <2>1, <2>2, Zenon DEF FlattenSeq
<1> QED BY <1>2, <1>3

(* Nothing, flattened.                                                      *)
LEMMA FlattenEmpty == FlattenSeq(<<>>) = <<>>
  BY DEF FlattenSeq

(* A sequence at the end is joined to what the ones before it make.         *)
LEMMA FlattenAppend ==
  ASSUME NEW T, NEW ss \in Seq(Seq(T)), NEW s \in Seq(T)
  PROVE  FlattenSeq(Append(ss, s)) = IF ss = <<>> THEN s ELSE FlattenSeq(ss) \o s
<1> DEFINE n == Len(ss)
           tt == Append(ss, s)
<1>1. /\ n \in Nat /\ (n = 0 <=> ss = <<>>)
      /\ tt \in Seq(Seq(T)) /\ tt # <<>> /\ Len(tt) = n + 1
      /\ \A i \in 1 .. n : tt[i] = ss[i]
      /\ tt[n + 1] = s
  BY EmptySeq, LenProperties, AppendProperties
<1>2. PICK g : IsFlatten(g, tt, n + 1) /\ FlattenSeq(tt) = g[n + 1]
  <2> HIDE DEF tt
  <2> QED BY <1>1, FlattenDef
<1>3. g[n + 1] = IF n = 0 THEN tt[1] ELSE g[n] \o tt[n + 1]
  <2> HIDE DEF tt, n
  <2>1. \A i \in 1 .. n + 1 : g[i] = IF i = 1 THEN tt[1] ELSE g[i - 1] \o tt[i]
    BY <1>2 DEF IsFlatten
  <2> SUFFICES ASSUME NEW k \in 1 .. n + 1, k = n + 1
               PROVE  g[k] = IF n = 0 THEN tt[1] ELSE g[n] \o tt[k]
    BY <1>1
  <2>2. g[k] = IF k = 1 THEN tt[1] ELSE g[k - 1] \o tt[k]
    BY <2>1
  <2>3. k - 1 = n /\ (k = 1 <=> n = 0)
    BY <1>1
  <2> QED BY <2>2, <2>3
<1>4. CASE ss = <<>>
  <2> HIDE DEF tt, n
  <2> QED BY <1>1, <1>2, <1>3, <1>4 DEF tt
<1>5. CASE ss # <<>>
  <2>1. PICK f : IsFlatten(f, ss, n) /\ FlattenSeq(ss) = f[n]
    BY <1>5, FlattenDef
  <2>2. f[n] = g[n]
    <3>1. n \in 1 .. n /\ n <= n + 1 /\ n + 1 \in Nat
      BY <1>1, <1>5
    <3> HIDE DEF tt, n
    <3>2. \A i \in 1 .. n : ss[i] = tt[i]
      BY <1>1
    <3>3. IsFlatten(f, ss, n) /\ IsFlatten(g, tt, n + 1) /\ n \in Nat
      BY <1>1, <1>2, <2>1
    <3>4. \A i \in 1 .. n : f[i] = g[i]
      <4> SUFFICES ASSUME NEW m, m = n + 1 PROVE \A i \in 1 .. n : f[i] = g[i]
        OBVIOUS
      <4>1. m \in Nat /\ n <= m /\ n \in Nat
        BY <3>1, <3>3
      <4>2. IsFlatten(f, ss, n) /\ IsFlatten(g, tt, m)
        BY <3>3
      <4> HIDE DEF n, tt
      <4> QED BY <4>1, <4>2, <3>2, FlattenAgrees, SMTT(60)
    <3> QED BY <3>1, <3>4
  <2> HIDE DEF tt, n
  <2> QED BY <1>1, <1>2, <1>3, <1>5, <2>1, <2>2 DEF tt
<1> QED BY <1>4, <1>5

(* A sequence of n + 1 elements is one of n and a last one.                 *)
LEMMA SplitLast ==
  ASSUME NEW T, NEW s \in Seq(T), NEW n \in Nat, Len(s) = n + 1
  PROVE  \E t \in Seq(T), e \in T : s = Append(t, e) /\ Len(t) = n
<1>1. s # <<>>
  OBVIOUS
<1>2. PICK t \in Seq(T), e \in T : s = Append(t, e)
  BY <1>1, SequenceEmptyOrAppend, Zenon
<1>3. Len(t) = n
  BY <1>2
<1> QED BY <1>2, <1>3

(* What FlattenSeq returns is a sequence of the elements of its sequences.  *)
LEMMA FlattenType ==
  ASSUME NEW T, NEW ss \in Seq(Seq(T))
  PROVE  FlattenSeq(ss) \in Seq(T)
<1> DEFINE Good(n) == \A tt \in Seq(Seq(T)) : Len(tt) = n => FlattenSeq(tt) \in Seq(T)
           S == {n \in Nat : Good(n)}
<1>1. Good(0)
  BY FlattenEmpty, EmptySeq
<1>2. ASSUME NEW n \in Nat, Good(n) PROVE Good(n + 1)
  <2> SUFFICES ASSUME NEW tt \in Seq(Seq(T)), Len(tt) = n + 1
               PROVE  FlattenSeq(tt) \in Seq(T)
    OBVIOUS
  <2>1. PICK uu \in Seq(Seq(T)), u \in Seq(T) : tt = Append(uu, u) /\ Len(uu) = n
    BY SplitLast, Zenon
  <2>2. FlattenSeq(uu) \in Seq(T)
    BY <1>2, <2>1
  <2>3. FlattenSeq(tt) = IF uu = <<>> THEN u ELSE FlattenSeq(uu) \o u
    BY <2>1, FlattenAppend
  <2>4. FlattenSeq(uu) \o u \in Seq(T)
    BY <2>2
  <2> QED BY <2>3, <2>4
<1>3. S = Nat
  <2>1. S \subseteq Nat /\ 0 \in S
    BY <1>1
  <2>2. \A n \in S : n + 1 \in S
    <3> HIDE DEF Good
    <3> QED BY <1>2
  <2> HIDE DEF S
  <2> QED BY <2>1, <2>2, NatSets
<1>4. Len(ss) \in Nat
  OBVIOUS
<1>5. Good(Len(ss))
  <2> HIDE DEF Good
  <2> QED BY <1>3, <1>4
<1> QED BY <1>5

(* Two sequences of sequences, flattened together or one by one.            *)
LEMMA FlattenConcat ==
  ASSUME NEW T, NEW ss \in Seq(Seq(T)), NEW tt \in Seq(Seq(T))
  PROVE  FlattenSeq(ss \o tt) = FlattenSeq(ss) \o FlattenSeq(tt)
<1> DEFINE Good(n) == \A uu \in Seq(Seq(T)) :
                        Len(uu) = n => FlattenSeq(ss \o uu) = FlattenSeq(ss) \o FlattenSeq(uu)
           S == {n \in Nat : Good(n)}
<1>j. \A a, b, c \in Seq(T) : (a \o b) \o c = a \o (b \o c)
  BY SMTT(30)
<1>0. FlattenSeq(ss) \in Seq(T)
  BY FlattenType
<1>1. Good(0)
  <2>1. FlattenSeq(ss) \o <<>> = FlattenSeq(ss) /\ ss \o <<>> = ss
    BY <1>0, ConcatEmptySeq
  <2> QED BY <2>1, FlattenEmpty, EmptySeq
<1>2. ASSUME NEW n \in Nat, Good(n) PROVE Good(n + 1)
  <2> SUFFICES ASSUME NEW uu \in Seq(Seq(T)), Len(uu) = n + 1
               PROVE  FlattenSeq(ss \o uu) = FlattenSeq(ss) \o FlattenSeq(uu)
    OBVIOUS
  <2>1. PICK vv \in Seq(Seq(T)), v \in Seq(T) : uu = Append(vv, v) /\ Len(vv) = n
    BY SplitLast, Zenon
  <2>3. FlattenSeq(ss \o vv) = FlattenSeq(ss) \o FlattenSeq(vv)
    BY <1>2, <2>1
  <2>4. /\ FlattenSeq(vv) \in Seq(T)
        /\ ss \o vv \in Seq(Seq(T))
    BY FlattenType, ConcatProperties
  <2>5. ss \o uu = Append(ss \o vv, v)
    BY <2>1, SMTT(30)
  <2>6. FlattenSeq(ss \o uu) = IF ss \o vv = <<>> THEN v ELSE FlattenSeq(ss \o vv) \o v
    BY <2>4, <2>5, FlattenAppend
  <2>7. FlattenSeq(uu) = IF vv = <<>> THEN v ELSE FlattenSeq(vv) \o v
    BY <2>1, FlattenAppend
  <2>8. CASE vv = <<>> /\ ss = <<>>
    BY <2>6, <2>7, <2>8, FlattenEmpty
  <2>9. CASE vv = <<>> /\ ss # <<>>
    <3>1. ss \o vv = ss
      BY <2>9
    <3> QED BY <2>6, <2>7, <2>9, <3>1
  <2>10. CASE vv # <<>>
    <3>1. ss \o vv # <<>>
      BY <2>10
    <3>2. PICK p, q \in Seq(T) : p = FlattenSeq(ss) /\ q = FlattenSeq(vv)
      BY <1>0, <2>4, Zenon
    <3>3. (p \o q) \o v = p \o (q \o v)
      BY <1>j, Zenon
    <3> QED BY <2>3, <2>6, <2>7, <2>10, <3>1, <3>2, <3>3
  <2> QED BY <2>8, <2>9, <2>10
<1>3. S = Nat
  <2>1. S \subseteq Nat /\ 0 \in S
    BY <1>1
  <2>2. \A n \in S : n + 1 \in S
    <3> HIDE DEF Good
    <3> QED BY <1>2
  <2> HIDE DEF S
  <2> QED BY <2>1, <2>2, NatSets
<1>4. Len(tt) \in Nat
  OBVIOUS
<1>5. Good(Len(tt))
  <2> HIDE DEF Good
  <2> QED BY <1>3, <1>4
<1> QED BY <1>5

(* One sequence, flattened, is itself.                                      *)
LEMMA FlattenSingle ==
  ASSUME NEW T, NEW s \in Seq(T)
  PROVE  FlattenSeq(<<s>>) = s
<1>1. Append(<<>>, s) = <<s>> /\ <<>> \in Seq(Seq(T))
  OBVIOUS
<1> QED BY <1>1, FlattenAppend

-----------------------------------------------------------------------------
(* Empty sequences make nothing.                                            *)
LEMMA FlattenNothing ==
  ASSUME NEW T, NEW ss \in Seq(Seq(T)), \A n \in 1 .. Len(ss) : ss[n] = <<>>
  PROVE  FlattenSeq(ss) = <<>>
<1> DEFINE Good(n) == \A tt \in Seq(Seq(T)) :
                        Len(tt) = n /\ (\A m \in 1 .. Len(tt) : tt[m] = <<>>) => FlattenSeq(tt) = <<>>
           S == {n \in Nat : Good(n)}
<1>1. Good(0)
  BY FlattenEmpty, EmptySeq
<1>2. ASSUME NEW n \in Nat, Good(n) PROVE Good(n + 1)
  <2> SUFFICES ASSUME NEW tt \in Seq(Seq(T)), Len(tt) = n + 1, \A m \in 1 .. Len(tt) : tt[m] = <<>>
               PROVE  FlattenSeq(tt) = <<>>
    OBVIOUS
  <2>1. PICK uu \in Seq(Seq(T)), u \in Seq(T) : tt = Append(uu, u) /\ Len(uu) = n
    BY SplitLast, Zenon
  <2>2. u = tt[Len(tt)] /\ \A m \in 1 .. Len(uu) : uu[m] = tt[m] /\ m \in 1 .. Len(tt)
    BY <2>1
  <2>3. u = <<>> /\ \A m \in 1 .. Len(uu) : uu[m] = <<>>
    BY <2>2
  <2>4. FlattenSeq(uu) = <<>>
    BY <1>2, <2>1, <2>3
  <2>5. FlattenSeq(tt) = IF uu = <<>> THEN u ELSE FlattenSeq(uu) \o u
    BY <2>1, FlattenAppend
  <2>6. <<>> \o <<>> = <<>>
    OBVIOUS
  <2> QED BY <2>3, <2>4, <2>5, <2>6
<1>3. S = Nat
  <2>1. S \subseteq Nat /\ 0 \in S
    BY <1>1
  <2>2. \A n \in S : n + 1 \in S
    <3> HIDE DEF Good
    <3> QED BY <1>2
  <2> HIDE DEF S
  <2> QED BY <2>1, <2>2, NatSets
<1>4. Len(ss) \in Nat
  OBVIOUS
<1>5. Good(Len(ss))
  <2> HIDE DEF Good
  <2> QED BY <1>3, <1>4
<1> QED BY <1>5

-----------------------------------------------------------------------------
(* What f makes of each element of s, in order.                             *)
Through(f, s) == FlattenSeq([n \in DOMAIN s |-> f[s[n]]])

(* A sequence with the elements of a, and then those of b, is both joined.  *)
LEMMA ConcatIs ==
  \A T : \A a, b, c \in Seq(T) :
    /\ Len(c) = Len(a) + Len(b)
    /\ \A n \in 1 .. Len(a) : c[n] = a[n]
    /\ \A n \in 1 .. Len(b) : c[Len(a) + n] = b[n]
    => c = a \o b
<1> SUFFICES ASSUME NEW T, NEW a \in Seq(T), NEW b \in Seq(T), NEW c \in Seq(T),
                    Len(c) = Len(a) + Len(b),
                    \A n \in 1 .. Len(a) : c[n] = a[n], \A n \in 1 .. Len(b) : c[Len(a) + n] = b[n]
             PROVE  c = a \o b
  OBVIOUS
<1>1. a \o b \in Seq(T) /\ Len(a \o b) = Len(c)
  OBVIOUS
<1>2. \A n \in 1 .. Len(c) : c[n] = (a \o b)[n]
  <2> TAKE n \in 1 .. Len(c)
  <2>1. CASE n <= Len(a)
    BY <2>1
  <2>2. CASE n > Len(a)
    <3>1. n - Len(a) \in 1 .. Len(b) /\ (a \o b)[n] = b[n - Len(a)] /\ Len(a) + (n - Len(a)) = n
      BY <2>2
    <3> QED BY <3>1
  <2> QED BY <2>1, <2>2
<1> QED BY <1>1, <1>2, SeqEqual

(* Through makes sequences of what f does.                                  *)
LEMMA ThroughType ==
  ASSUME NEW T, NEW U, NEW f \in [T -> Seq(U)], NEW s \in Seq(T)
  PROVE  Through(f, s) \in Seq(U)
<1>1. [n \in DOMAIN s |-> f[s[n]]] \in Seq(Seq(U))
  <2>1. DOMAIN s = 1 .. Len(s) /\ Len(s) \in Nat /\ \A n \in 1 .. Len(s) : f[s[n]] \in Seq(U)
    OBVIOUS
  <2> QED BY <2>1
<1> QED BY <1>1, FlattenType DEF Through

(* What is made of two queues is made of one after the other.               *)
LEMMA ThroughConcat ==
  ASSUME NEW T, NEW U, NEW f \in [T -> Seq(U)], NEW s \in Seq(T), NEW t \in Seq(T)
  PROVE  Through(f, s \o t) = Through(f, s) \o Through(f, t)
<1> DEFINE m(r) == [n \in DOMAIN r |-> f[r[n]]]
<1>0. \A r \in Seq(T) : /\ m(r) \in Seq(Seq(U)) /\ Len(m(r)) = Len(r)
                        /\ \A n \in 1 .. Len(r) : m(r)[n] = f[r[n]]
  <2> TAKE r \in Seq(T)
  <2>1. DOMAIN r = 1 .. Len(r) /\ Len(r) \in Nat /\ \A n \in 1 .. Len(r) : f[r[n]] \in Seq(U)
    OBVIOUS
  <2> QED BY <2>1
<1> HIDE DEF m
<1>1. PICK a, b, c, u : a = m(s) /\ b = m(t) /\ c = m(u) /\ u = s \o t
  OBVIOUS
<1>2. a \in Seq(Seq(U)) /\ Len(a) = Len(s) /\ \A n \in 1 .. Len(s) : a[n] = f[s[n]]
  BY <1>0, <1>1, Zenon
<1>3. b \in Seq(Seq(U)) /\ Len(b) = Len(t) /\ \A n \in 1 .. Len(t) : b[n] = f[t[n]]
  BY <1>0, <1>1, Zenon
<1>4. u \in Seq(T) /\ Len(u) = Len(s) + Len(t)
  BY <1>1
<1>5. c \in Seq(Seq(U)) /\ Len(c) = Len(u) /\ \A n \in 1 .. Len(u) : c[n] = f[u[n]]
  BY <1>0, <1>1, <1>4, Zenon
<1>6. \A n \in 1 .. Len(a) : c[n] = a[n]
  <2> TAKE n \in 1 .. Len(a)
  <2>1. n \in 1 .. Len(s) /\ n \in 1 .. Len(s) + Len(t) /\ u[n] = s[n]
    BY <1>1, <1>2
  <2> QED BY <2>1, <1>2, <1>4, <1>5
<1>7. \A n \in 1 .. Len(b) : c[Len(a) + n] = b[n]
  <2> TAKE n \in 1 .. Len(b)
  <2>1. n \in 1 .. Len(t) /\ Len(s) + n \in 1 .. Len(s) + Len(t) /\ u[Len(s) + n] = t[n]
    BY <1>1, <1>3
  <2> QED BY <2>1, <1>2, <1>3, <1>4, <1>5
<1>8. c = a \o b
  <2>1. Len(c) = Len(a) + Len(b)
    BY <1>2, <1>3, <1>4, <1>5
  <2> DEFINE V == Seq(U)
  <2>2. a \in Seq(V) /\ b \in Seq(V) /\ c \in Seq(V)
    BY <1>2, <1>3, <1>5
  <2> HIDE DEF V
  <2>3. \A x, y, z \in Seq(V) :
          /\ Len(z) = Len(x) + Len(y)
          /\ \A n \in 1 .. Len(x) : z[n] = x[n]
          /\ \A n \in 1 .. Len(y) : z[Len(x) + n] = y[n]
          => z = x \o y
    BY ConcatIs, Zenon
  <2> QED BY <2>1, <2>2, <2>3, <1>6, <1>7, Zenon
<1>9. FlattenSeq(c) = FlattenSeq(a) \o FlattenSeq(b)
  BY <1>2, <1>3, <1>8, FlattenConcat
<1> QED BY <1>1, <1>9, Zenon DEF Through, m

(* What is made of a single element.                                        *)
LEMMA ThroughOne ==
  ASSUME NEW T, NEW U, NEW f \in [T -> Seq(U)], NEW x \in T
  PROVE  Through(f, <<x>>) = f[x]
<1>1. [n \in DOMAIN <<x>> |-> f[<<x>>[n]]] = <<f[x]>>
  OBVIOUS
<1> QED BY <1>1, FlattenSingle DEF Through

(* Elements that nothing is made of make nothing.                           *)
LEMMA ThroughNothing ==
  ASSUME NEW T, NEW U, NEW f \in [T -> Seq(U)], NEW s \in Seq(T),
         \A n \in DOMAIN s : f[s[n]] = <<>>
  PROVE  Through(f, s) = <<>>
<1> DEFINE m == [n \in DOMAIN s |-> f[s[n]]]
<1>1. DOMAIN s = 1 .. Len(s) /\ Len(s) \in Nat /\ \A n \in 1 .. Len(s) : f[s[n]] \in Seq(U)
  OBVIOUS
<1>2. m \in Seq(Seq(U)) /\ Len(m) = Len(s) /\ \A n \in 1 .. Len(s) : m[n] = f[s[n]]
  BY <1>1
<1>3. FlattenSeq(m) = <<>>
  <2> HIDE DEF m
  <2> QED BY <1>1, <1>2, FlattenNothing
<1> QED BY <1>3 DEF Through

(* f makes a sequence of U of each T: one name for the hypothesis, for the  *)
(* provers to match.                                                        *)
Gathers(f, T, U) == f \in [T -> Seq(U)]

(* The four together.                                                       *)
LEMMA ThroughFacts ==
  \A f, T, U : Gathers(f, T, U) =>
    /\ \A s \in Seq(T) : Through(f, s) \in Seq(U)
    /\ \A s, t \in Seq(T) : Through(f, s \o t) = Through(f, s) \o Through(f, t)
    /\ \A x \in T : Through(f, <<x>>) = f[x]
    /\ \A s \in Seq(T) : (\A n \in DOMAIN s : f[s[n]] = <<>>) => Through(f, s) = <<>>
<1> SUFFICES ASSUME NEW T, NEW U, NEW f \in [T -> Seq(U)]
             PROVE  /\ \A s \in Seq(T) : Through(f, s) \in Seq(U)
                    /\ \A s, t \in Seq(T) : Through(f, s \o t) = Through(f, s) \o Through(f, t)
                    /\ \A x \in T : Through(f, <<x>>) = f[x]
                    /\ \A s \in Seq(T) : (\A n \in DOMAIN s : f[s[n]] = <<>>) => Through(f, s) = <<>>
  BY ZenonT(60) DEF Gathers
<1>1. \A s \in Seq(T) : Through(f, s) \in Seq(U)
  BY ThroughType
<1>2. \A s, t \in Seq(T) : Through(f, s \o t) = Through(f, s) \o Through(f, t)
  BY ThroughConcat
<1>3. \A x \in T : Through(f, <<x>>) = f[x]
  BY ThroughOne
<1>4. \A s \in Seq(T) : (\A n \in DOMAIN s : f[s[n]] = <<>>) => Through(f, s) = <<>>
  BY ThroughNothing
<1> QED BY <1>1, <1>2, <1>3, <1>4

-----------------------------------------------------------------------------
(* A set of numbers with a bound has a greatest one, and Max is it.         *)
LEMMA MaxFacts ==
  ASSUME NEW S \in SUBSET Nat, S # {}, NEW b \in Nat, \A x \in S : x <= b
  PROVE  Max(S) \in S /\ \A x \in S : x <= Max(S)
<1>1. PICK m \in {y \in Nat : \A x \in S : x <= y} : \A n \in {y \in Nat : \A x \in S : x <= y} : m <= n
  <2>1. {y \in Nat : \A x \in S : x <= y} \in SUBSET Nat /\ {y \in Nat : \A x \in S : x <= y} # {}
    OBVIOUS
  <2> QED BY <2>1, LeastNumber
<1>2. m \in S
  <2> SUFFICES ASSUME m \notin S PROVE FALSE
    OBVIOUS
  <2>1. m \in Nat /\ \A x \in S : x < m
    BY <1>1
  <2>2. m # 0 /\ m - 1 \in Nat
    <3>1. PICK x \in S : TRUE
      OBVIOUS
    <3> QED BY <2>1, <3>1
  <2>3. \A x \in S : x <= m - 1
    BY <2>1, <2>2, <1>1
  <2> QED BY <2>2, <2>3, <1>1
<1>3. \E x \in S : \A y \in S : x >= y
  BY <1>1, <1>2
<1>4. Max(S) \in S /\ \A y \in S : Max(S) >= y
  BY <1>3, Zenon DEF Max
<1> QED BY <1>4

(* Max is the only number that it can be.                                   *)
LEMMA MaxIs ==
  ASSUME NEW S \in SUBSET Nat, NEW m \in S, \A x \in S : x <= m
  PROVE  Max(S) = m
<1>1. m \in Nat /\ S # {}
  OBVIOUS
<1>2. Max(S) \in S /\ \A x \in S : x <= Max(S)
  BY <1>1, MaxFacts
<1>3. Max(S) \in Nat /\ m <= Max(S) /\ Max(S) <= m
  BY <1>2
<1> QED BY <1>1, <1>3

(* Two sequences of one element make a pair.                                *)
LEMMA PairFacts == ASSUME NEW S, NEW x \in S, NEW y \in S PROVE <<x>> \o <<y>> = <<x, y>>
<1>1. <<x>> \in Seq(S) /\ <<y>> \in Seq(S) /\ <<x,y>> \in Seq(S) /\ Len(<<x,y>>) = 2 /\ <<x,y>>[1] = x /\ <<x,y>>[2] = y
  OBVIOUS
<1>2. PICK a, b, c \in Seq(S) : a = <<x>> /\ b = <<y>> /\ c = <<x,y>>
  BY <1>1, Zenon
<1>3. Len(a) = 1 /\ Len(b) = 1 /\ a[1] = x /\ b[1] = y /\ Len(c) = 2 /\ c[1] = x /\ c[2] = y
  BY <1>1, <1>2
<1>4. /\ Len(c) = Len(a) + Len(b)
      /\ \A n \in 1 .. Len(a) : c[n] = a[n]
      /\ \A n \in 1 .. Len(b) : c[Len(a) + n] = b[n]
  <2>1. \A n \in 1 .. 1 : n = 1
    OBVIOUS
  <2>2. 1 + 1 = 2
    OBVIOUS
  <2> QED BY <1>3, <2>1, <2>2
<1>5. c = a \o b
  BY <1>4, ConcatIs
<1> QED BY <1>2, <1>5

(* The same, whatever the elements are.                                     *)
LEMMA PairIs == \A x, y : <<x>> \o <<y>> = <<x, y>>
<1> TAKE x, y
<1>1. PICK S : S = {x, y}
  OBVIOUS
<1>2. x \in S /\ y \in S
  BY <1>1
<1> QED BY <1>2, PairFacts, Zenon

(* Append joins a sequence of one element.                                  *)
LEMMA AppendFacts ==
  ASSUME NEW S, NEW s \in Seq(S), NEW x \in S
  PROVE  Append(s, x) \in Seq(S) /\ Append(s, x) = s \o <<x>>
  OBVIOUS

(* What it returns is a sequence, and never empty.                          *)
LEMMA AppendIs == \A T : \A s \in Seq(T), x \in T : Append(s, x) \in Seq(T) /\ Append(s, x) # <<>>
<1> TAKE T
<1> TAKE s \in Seq(T), x \in T
<1>1. Append(s, x) \in Seq(T) /\ Len(Append(s, x)) = Len(s) + 1 /\ Len(s) \in Nat
  OBVIOUS
<1>2. Len(<<>>) = 0
  OBVIOUS
<1>3. Append(s, x) # <<>>
  BY <1>1, <1>2
<1> QED BY <1>1, <1>3

(* Nothing joined to a sequence, at either end, is the sequence.            *)
LEMMA NothingBefore ==
  ASSUME NEW S, NEW s \in Seq(S)
  PROVE  <<>> \o s = s /\ s \o <<>> = s
  OBVIOUS

(* A sequence is what is before a place in it and what is after.            *)
LEMMA SplitAt ==
  \A T : \A s \in Seq(T) : \A k \in 0 .. Len(s) :
    /\ SubSeq(s, 1, k) \in Seq(T) /\ SubSeq(s, k + 1, Len(s)) \in Seq(T)
    /\ SubSeq(s, 1, k) \o SubSeq(s, k + 1, Len(s)) = s
<1> TAKE T
<1> TAKE s \in Seq(T)
<1> TAKE k \in 0 .. Len(s)
<1>1. PICK a, b \in Seq(T) : a = SubSeq(s, 1, k) /\ b = SubSeq(s, k + 1, Len(s))
  <2>1. SubSeq(s, 1, k) \in Seq(T) /\ SubSeq(s, k + 1, Len(s)) \in Seq(T)
    OBVIOUS
  <2> QED BY <2>1, Zenon
<1>2. Len(a) = k /\ \A n \in 1 .. Len(a) : s[n] = a[n]
  BY <1>1
<1>3. Len(s) = Len(a) + Len(b) /\ \A n \in 1 .. Len(b) : s[Len(a) + n] = b[n]
  <2>1. k \in Nat /\ Len(s) \in Nat /\ k <= Len(s)
    OBVIOUS
  <2>2. Len(b) = Len(s) - k
    BY <1>1, <2>1
  <2>3. \A n \in 1 .. Len(s) - k : SubSeq(s, k + 1, Len(s))[n] = s[k + n]
    BY <2>1
  <2>4. Len(a) \in Nat /\ Len(s) = Len(a) + Len(b)
    BY <1>2, <2>1, <2>2
  <2>5. \A n \in 1 .. Len(s) - k : b[n] = s[k + n]
    BY <1>1, <2>3, Zenon
  <2> QED BY <1>2, <2>2, <2>4, <2>5
<1>4. s = a \o b
  BY <1>2, <1>3, ConcatIs
<1> QED BY <1>1, <1>4

(* Joined to a sequence and cut off again.                                  *)
LEMMA CutOff ==
  \A T : \A s, t \in Seq(T) : SubSeq(s \o t, 1, Len(s \o t) - Len(t)) = s
  OBVIOUS

(* Front takes its element from the sequence that is joined.                *)
LEMMA FrontOf ==
  \A T : \A s, t \in Seq(T) : t # <<>> =>
    /\ s \o t # <<>> /\ Front(t) \in Seq(T) /\ s \o Front(t) = Front(s \o t)
<1> TAKE T
<1> TAKE s, t \in Seq(T)
<1> HAVE t # <<>>
<1>1. PICK u \in Seq(T), e \in T : t = Append(u, e)
  BY SequenceEmptyOrAppend, Zenon
<1>2. \A a \in Seq(T), x \in T : Front(Append(a, x)) = a /\ Append(a, x) # <<>>
  <2> TAKE a \in Seq(T), x \in T
  <2>0. <<x>> \in Seq(T)
    OBVIOUS
  <2>1. PICK b \in Seq(T) : b = <<x>>
    BY <2>0, Zenon
  <2>2. Append(a, x) = a \o b /\ Len(b) = 1
    BY <2>1
  <2>3. SubSeq(a \o b, 1, Len(a \o b) - Len(b)) = a
    BY CutOff, Zenon
  <2>4. a \o b # <<>>
    BY <2>2
  <2> QED BY <2>2, <2>3, <2>4 DEF Front
<1>3. s \o Append(u, e) = Append(s \o u, e) /\ s \o u \in Seq(T)
  OBVIOUS
<1>4. Front(t) = u /\ Front(s \o t) = s \o u /\ s \o t # <<>>
  BY <1>1, <1>2, <1>3
<1> QED BY <1>4

(* Append adds to the sequence that is joined.                              *)
LEMMA AppendTo == \A T : \A s, t \in Seq(T), x \in T : Append(s \o t, x) = s \o Append(t, x)
  OBVIOUS

-----------------------------------------------------------------------------
(* g is the function that FoldLeft chooses for a sequence of n elements,    *)
(* when step[k] is what the k-th of them does to a value.                   *)
IsFold(g, n, base, step) ==
  g = [s \in SUBSET (1 .. n) |->
         IF s = {} THEN base ELSE step[Max(s)][g[s \ {Max(s)}]]]

(* The greatest number of a set that has the bound itself, or has not.      *)
LEMMA MaxOfRange ==
  ASSUME NEW m \in Nat, NEW s \in SUBSET (1 .. m + 1), s # {}
  PROVE  /\ Max(s) \in s
         /\ m + 1 \in s => Max(s) = m + 1
         /\ s \ {m + 1} \in SUBSET (1 .. m)
         /\ m + 1 \notin s => s \in SUBSET (1 .. m) /\ Max(s) \in 1 .. m
<1>1. s \in SUBSET Nat /\ m + 1 \in Nat /\ \A x \in s : x <= m + 1
  OBVIOUS
<1>2. Max(s) \in s
  BY <1>1, MaxFacts
<1>3. m + 1 \in s => Max(s) = m + 1
  BY <1>1, MaxIs
<1>4. s \ {m + 1} \in SUBSET (1 .. m)
  OBVIOUS
<1>5. m + 1 \notin s => s \in SUBSET (1 .. m) /\ Max(s) \in 1 .. m
  <2> SUFFICES ASSUME m + 1 \notin s PROVE s \in SUBSET (1 .. m) /\ Max(s) \in 1 .. m
    OBVIOUS
  <2>1. s = s \ {m + 1}
    OBVIOUS
  <2> QED BY <2>1, <1>2, <1>4
<1> QED BY <1>2, <1>3, <1>4, <1>5

(* The greatest number of a set of the first n is one of them.              *)
LEMMA MaxInRange ==
  \A n \in Nat : \A s \in SUBSET (1 .. n) : s # {} => Max(s) \in 1 .. n /\ s \ {Max(s)} \in SUBSET (1 .. n)
<1> SUFFICES ASSUME NEW n \in Nat, NEW s \in SUBSET (1 .. n), s # {}
             PROVE  Max(s) \in 1 .. n /\ s \ {Max(s)} \in SUBSET (1 .. n)
  OBVIOUS
<1>1. s \in SUBSET Nat /\ \A x \in s : x <= n
  OBVIOUS
<1>2. Max(s) \in s
  BY <1>1, MaxFacts
<1> QED BY <1>2

(* A step more.                                                             *)
LEMMA FoldGrows ==
  ASSUME NEW V, NEW base \in V, NEW m \in Nat, NEW step,
         \A k \in 1 .. m + 1, v \in V : step[k][v] \in V,
         NEW g, IsFold(g, m, base, step), g \in [SUBSET (1 .. m) -> V]
  PROVE  \E h : IsFold(h, m + 1, base, step) /\ h \in [SUBSET (1 .. m + 1) -> V]
<1> DEFINE h == [s \in SUBSET (1 .. m + 1) |->
                   IF m + 1 \in s THEN step[m + 1][g[s \ {m + 1}]] ELSE g[s]]
<1>1. \A s \in SUBSET (1 .. m + 1) :
        h[s] = IF m + 1 \in s THEN step[m + 1][g[s \ {m + 1}]] ELSE g[s]
  OBVIOUS
<1>2. \A s \in SUBSET (1 .. m) : s \in SUBSET (1 .. m + 1) /\ m + 1 \notin s
  OBVIOUS
<1>3. DOMAIN h = SUBSET (1 .. m + 1) /\ h = [s \in DOMAIN h |-> h[s]]
  OBVIOUS
<1> HIDE DEF h
<1>4. \A s \in SUBSET (1 .. m) : h[s] = g[s]
  BY <1>1, <1>2
<1>5. \A s \in SUBSET (1 .. m + 1) : h[s] \in V
  <2> TAKE s \in SUBSET (1 .. m + 1)
  <2>1. CASE m + 1 \in s
    <3>1. s \ {m + 1} \in SUBSET (1 .. m) /\ m + 1 \in 1 .. m + 1
      OBVIOUS
    <3>2. g[s \ {m + 1}] \in V
      BY <3>1
    <3> QED BY <2>1, <1>1, <3>1, <3>2
  <2>2. CASE m + 1 \notin s
    <3>1. s \in SUBSET (1 .. m)
      BY <2>2
    <3> QED BY <2>2, <3>1, <1>1
  <2> QED BY <2>1, <2>2
<1>6. \A s \in SUBSET (1 .. m + 1) :
        h[s] = IF s = {} THEN base ELSE step[Max(s)][h[s \ {Max(s)}]]
  <2> TAKE s \in SUBSET (1 .. m + 1)
  <2>1. CASE s = {}
    <3>1. s \in SUBSET (1 .. m)
      BY <2>1
    <3> QED BY <2>1, <3>1, <1>4 DEF IsFold
  <2>2. CASE s # {} /\ m + 1 \in s
    <3>1. Max(s) = m + 1 /\ s \ {m + 1} \in SUBSET (1 .. m)
      BY <2>2, MaxOfRange
    <3>2. h[s \ {m + 1}] = g[s \ {m + 1}]
      BY <3>1, <1>4
    <3> QED BY <2>2, <3>1, <3>2, <1>1
  <2>3. CASE s # {} /\ m + 1 \notin s
    <3>1. s \in SUBSET (1 .. m)
      BY <2>3, MaxOfRange
    <3>2. s \ {Max(s)} \in SUBSET (1 .. m)
      BY <3>1
    <3>3. g[s] = step[Max(s)][g[s \ {Max(s)}]]
      BY <2>3, <3>1 DEF IsFold
    <3> QED BY <2>3, <3>1, <3>2, <3>3, <1>4
  <2> QED BY <2>1, <2>2, <2>3
<1>7. IsFold(h, m + 1, base, step)
  BY <1>3, <1>6 DEF IsFold
<1>8. h \in [SUBSET (1 .. m + 1) -> V]
  BY <1>3, <1>5
<1> QED BY <1>7, <1>8

(* There is such a function, so CHOOSE finds one.                           *)
LEMMA FoldExists ==
  ASSUME NEW V, NEW base \in V, NEW n \in Nat, NEW step,
         \A k \in 1 .. n, v \in V : step[k][v] \in V
  PROVE  \E g : IsFold(g, n, base, step) /\ g \in [SUBSET (1 .. n) -> V]
<1> DEFINE P(m) == \E g : IsFold(g, m, base, step) /\ g \in [SUBSET (1 .. m) -> V]
           S == {m \in Nat : m <= n => P(m)}
<1>1. 0 \in S
  <2> DEFINE g == [s \in SUBSET (1 .. 0) |-> base]
  <2>1. \A s \in SUBSET (1 .. 0) : s = {}
    OBVIOUS
  <2>2. IsFold(g, 0, base, step) /\ g \in [SUBSET (1 .. 0) -> V]
    BY <2>1 DEF IsFold
  <2> HIDE DEF g
  <2>3. P(0)
    BY <2>2
  <2> QED BY <2>3
<1>2. ASSUME NEW m \in Nat, P(m), m + 1 <= n PROVE P(m + 1)
  <2>1. PICK g : IsFold(g, m, base, step) /\ g \in [SUBSET (1 .. m) -> V]
    BY <1>2
  <2>2. \A k \in 1 .. m + 1, v \in V : step[k][v] \in V
    BY <1>2
  <2> QED BY <2>1, <2>2, FoldGrows
<1>3. \A m \in S : m + 1 \in S
  <2> TAKE m \in S
  <2>1. m \in Nat /\ (m + 1 <= n => m <= n)
    OBVIOUS
  <2>2. m + 1 <= n => P(m + 1)
    <3> HIDE DEF P
    <3> QED BY <2>1, <1>2
  <2> HIDE DEF P
  <2> QED BY <2>1, <2>2
<1>4. S = Nat
  <2> HIDE DEF P
  <2>1. S \in SUBSET Nat
    OBVIOUS
  <2> HIDE DEF S
  <2> QED BY <1>1, <1>3, <2>1, NatSets
<1>5. n \in S
  BY <1>4
<1> QED BY <1>5

(* What has been made of the base after each element, told one by one.      *)
LEMMA FirstOnes ==
  ASSUME NEW k \in Nat \ {0}
  PROVE  1 .. k # {} /\ Max(1 .. k) = k /\ (1 .. k) \ {k} = 1 .. k - 1
<1>1. 1 .. k \in SUBSET Nat /\ k \in 1 .. k /\ \A x \in 1 .. k : x <= k
  OBVIOUS
<1>2. Max(1 .. k) = k
  BY <1>1, MaxIs
<1>3. (1 .. k) \ {k} = 1 .. k - 1
  OBVIOUS
<1> QED BY <1>1, <1>2, <1>3

(* What holds at the start and of each step holds at the end.               *)
LEMMA StepByStep ==
  ASSUME NEW n \in Nat, NEW S \in SUBSET (0 .. n), 0 \in S,
         \A k \in 1 .. n : k - 1 \in S => k \in S
  PROVE  \A k \in 0 .. n : k \in S
<1> DEFINE T == {m \in Nat : m <= n => m \in S}
<1>1. T \in SUBSET Nat /\ 0 \in T
  OBVIOUS
<1>2. \A m \in T : m + 1 \in T
  <2> TAKE m \in T
  <2>1. m + 1 <= n => m + 1 \in 1 .. n /\ (m + 1) - 1 = m /\ m <= n
    OBVIOUS
  <2> QED BY <2>1
<1> HIDE DEF T
<1>3. T = Nat
  BY <1>1, <1>2, NatSets
<1> QED BY <1>3 DEF T

=============================================================================
