----------------------------- MODULE FrameMgr -------------------------------
(* The frame manager of IMdkit (FrameMgr.c): a message is written into a    *)
(* buffer, and read from one, token by token, along a frame.  The sizes of  *)
(* byte arrays and the lengths of lists are told to the writer beforehand;  *)
(* the reader learns them from what it has read.  Extra data, which the     *)
(* source allocates on first use, is there from the start; a list holds     *)
(* numbers or frames, as every list of i18nIMProto.c does.                  *)
EXTENDS Integers, Sequences, SequencesExt, XimFrames

NoValue == -1

-----------------------------------------------------------------------------
(* Instances of frames and of lists. *)

RECURSIVE FrameInstInit(_)
FrameInstInit(frame) ==
    [template |-> frame, cur |-> 1,
     data |-> [i \in DOMAIN frame |->
                 CASE frame[i].type = "ITER" ->
                        [item |-> frame[i].item, max |-> 0, expand |-> TRUE,
                         cur |-> 1, data |-> <<>>,
                         counting |-> FALSE, counter |-> 0, end |-> NoValue]
                   [] frame[i].type = "POINTER" -> FrameInstInit(frame[i].frame)
                   [] OTHER -> NoValue]]

\* The i-th element of a list of frames.
Elem(it, i) == IF i <= Len(it.data) THEN it.data[i]
               ELSE FrameInstInit(it.item.frame)

SetElem(it, i, fi) ==
    [it EXCEPT !.data = [j \in 1 .. (IF i > Len(@) THEN i ELSE Len(@)) |->
                            IF j = i THEN fi ELSE Elem(it, j)]]

-----------------------------------------------------------------------------
(* Sizes. *)

Total(sizes) == FoldLeft(LAMBDA a, b : a + b, 0, sizes)

RECURSIVE ItemSize(_, _), FrameTotal(_), IterTotal(_)

\* The padding at i fills the items before it up to its unit.
PadSize(fi, i) ==
    LET pad == fi.template[i]
        size == Total([k \in 1 .. pad.number |-> ItemSize(fi, i - k)])
    IN  (pad.unit - (size % pad.unit)) % pad.unit

ItemSize(fi, i) ==
    LET item == fi.template[i]
    IN  CASE item.type \in {"BIT", "COUNTER"} -> item.size
          [] item.type = "BARRAY"  -> fi.data[i]
          [] item.type = "PADDING" -> PadSize(fi, i)
          [] item.type = "ITER"    -> IterTotal(fi.data[i])
          [] item.type = "POINTER" -> FrameTotal(fi.data[i])

FrameTotal(fi) == Total([i \in DOMAIN fi.template |-> ItemSize(fi, i)])

IterTotal(it) ==
    IF it.expand THEN NoValue
    ELSE IF it.item.type = "BIT" THEN it.max * it.item.size
    ELSE Total([i \in 1 .. it.max |-> FrameTotal(Elem(it, i))])

-----------------------------------------------------------------------------
(* What the caller tells beforehand. *)

RECURSIVE FrameSetSize(_, _)

\* The size goes to the first byte array of the list that has none yet.
IterSetSize(it, n) ==
    LET reach == IF it.expand THEN it.max + 1 ELSE it.max
        free == IF it.item.type = "BIT" THEN {}
                ELSE {i \in 1 .. reach : FrameSetSize(Elem(it, i), n).ok}
    IN  IF free = {} THEN [ok |-> FALSE, inst |-> it]
        ELSE LET i == CHOOSE j \in free : \A k \in free : j <= k
             IN  [ok |-> TRUE,
                  inst |-> [SetElem(it, i, FrameSetSize(Elem(it, i), n).inst)
                               EXCEPT !.max = IF i > @ THEN i ELSE @]]

FrameSetSize(fi, n) ==
    LET Try(i) == CASE fi.template[i].type = "BARRAY" ->
                         [ok |-> fi.data[i] = NoValue, inst |-> n]
                    [] fi.template[i].type = "ITER" -> IterSetSize(fi.data[i], n)
                    [] fi.template[i].type = "POINTER" -> FrameSetSize(fi.data[i], n)
                    [] OTHER -> [ok |-> FALSE, inst |-> n]
        free == {i \in DOMAIN fi.template : Try(i).ok}
    IN  IF free = {} THEN [ok |-> FALSE, inst |-> fi]
        ELSE LET i == CHOOSE j \in free : \A k \in free : j <= k
             IN  [ok |-> TRUE, inst |-> [fi EXCEPT !.data[i] = Try(i).inst]]

\* The count goes to the first list that has none yet.
FrameSetIterCount(fi, n) ==
    LET free == {i \in DOMAIN fi.template :
                    fi.template[i].type = "ITER" /\ fi.data[i].expand}
    IN  IF free = {} THEN fi
        ELSE LET i == CHOOSE j \in free : \A k \in free : j <= k
             IN  [fi EXCEPT !.data[i] = [@ EXCEPT !.max = n, !.expand = FALSE]]

-----------------------------------------------------------------------------
(* The next item of a frame: its type, its size (of a counter also the list *)
(* it counts) and the instance moved past it.                               *)

RECURSIVE FrameNext(_), IterNext(_)

\* A list whose length is open grows with every item asked of it.
IterNext(it) ==
    LET open == [it EXCEPT !.counting = it.end # NoValue,
                           !.max = IF it.cur > @ THEN it.cur ELSE @]
        on == [open EXCEPT !.cur = @ + 1]
    IN  IF it.cur > it.max /\ ~it.expand THEN [type |-> "EOL", inst |-> it]
        ELSE IF it.item.type = "BIT"
        THEN [type |-> "BIT", num |-> it.item.size, inst |-> on]
        ELSE LET sub == FrameNext(Elem(open, it.cur))
             IN  IF sub.type = "EOL" THEN IterNext(on)
                 ELSE [sub EXCEPT !.inst = SetElem(open, it.cur, sub.inst)]

FrameNext(fi) ==
    LET at == fi.cur
        on == [fi EXCEPT !.cur = @ + 1]
    IN  IF at > Len(fi.template) THEN [type |-> "EOL", inst |-> fi]
        ELSE LET item == fi.template[at]
             IN  CASE item.type \in {"BIT", "BARRAY", "PADDING"} ->
                        [type |-> item.type, num |-> ItemSize(fi, at), inst |-> on]
                   [] item.type = "COUNTER" ->
                        [type |-> "COUNTER", num |-> item.size,
                         list |-> at + item.offset, inst |-> on]
                   [] OTHER ->
                        LET sub == IF item.type = "ITER" THEN IterNext(fi.data[at])
                                   ELSE FrameNext(fi.data[at])
                        IN  IF sub.type = "EOL" THEN FrameNext(on)
                            ELSE [sub EXCEPT !.inst =
                                     [fi EXCEPT !.data[at] = sub.inst]]

-----------------------------------------------------------------------------
(* Bytes: the machine is little-endian, its peer may not be. *)

Pow256(k) == CASE k = 0 -> 1 [] k = 1 -> 256 [] k = 2 -> 65536 [] k = 3 -> 16777216
Bytes(w, n) == [k \in 1 .. w |-> (n \div Pow256(k - 1)) % 256]
Number(bytes) == Total([k \in 1 .. (IF Len(bytes) > 2 THEN 2 ELSE Len(bytes)) |->
                            bytes[k] * Pow256(k - 1)])

Swapped(fm, bytes) == IF fm.byte_swap THEN Reverse(bytes) ELSE bytes

\* What lies behind the buffer reads as 0.
Area(fm, n) == [k \in 1 .. n |-> IF fm.idx + k <= Len(fm.area)
                                 THEN fm.area[fm.idx + k] ELSE 0]

Written(fm, bytes) ==
    [fm EXCEPT !.area = [k \in DOMAIN @ |->
                            IF k > fm.idx /\ k <= fm.idx + Len(bytes)
                            THEN bytes[k - fm.idx] ELSE @[k]],
               !.idx = @ + Len(bytes)]

FrameMgrInit(frame, area, byte_swap) ==
    [fi |-> FrameInstInit(frame), area |-> area, idx |-> 0, byte_swap |-> byte_swap]

FrameMgrSetSize(fm, n) == [fm EXCEPT !.fi = FrameSetSize(@, n).inst]
FrameMgrSetIterCount(fm, n) == [fm EXCEPT !.fi = FrameSetIterCount(@, n)]
\* A mutant: the sum leaves out the last item.
TotalButLast(fm) == Total([i \in 1 .. Len(fm.fi.template) - 1 |-> ItemSize(fm.fi, i)])
FrameMgrGetTotalSize(fm) == FrameTotal(fm.fi)

-----------------------------------------------------------------------------
(* Writing. *)

\* Counters and paddings before the token are written with it.
RECURSIVE PutToken(_, _)
PutToken(fm, token) ==
    LET next == FrameNext(fm.fi)
        on == [fm EXCEPT !.fi = next.inst]
    IN  CASE next.type = "COUNTER" ->
               IF IterTotal(fm.fi.data[next.list]) = NoValue THEN on
               ELSE PutToken(Written(on, Swapped(fm, Bytes(next.num,
                                 IterTotal(fm.fi.data[next.list])))), token)
          [] next.type = "PADDING" ->
               PutToken([on EXCEPT !.idx = @ + next.num], token)
          [] next.type = "BIT" -> Written(on, Swapped(fm, token))
          [] next.type = "BARRAY" ->
               IF next.num > 0 THEN Written(on, token) ELSE on
          [] OTHER -> on

-----------------------------------------------------------------------------
(* Reading. *)

\* A list that is being read has its end fixed by the bytes read of it.
CounterIncr(fi, n) ==
    LET Count(it) ==
            IF ~it.counting THEN it
            ELSE IF it.counter + n >= it.end
                 THEN [it EXCEPT !.expand = FALSE, !.counting = FALSE, !.end = NoValue]
                 ELSE [it EXCEPT !.counter = @ + n]
    IN  [fi EXCEPT !.data = [i \in DOMAIN @ |->
            IF fi.template[i].type = "ITER" THEN Count(@[i]) ELSE @[i]]]

\* A mutant: what is read does not count for the list.
PassedUncounted(fm, n) == [fm EXCEPT !.idx = @ + n]
Passed(fm, n) == [fm EXCEPT !.idx = @ + n, !.fi = CounterIncr(@, n)]

RECURSIVE GetToken(_)
GetToken(fm) ==
    LET next == FrameNext(fm.fi)
        on == [fm EXCEPT !.fi = next.inst]
        got == Swapped(fm, Area(fm, next.num))
    IN  CASE next.type = "COUNTER" ->
               [token |-> got,
                fm |-> [Passed(on, next.num) EXCEPT
                          !.fi.data[next.list].end = Number(got)]]
          [] next.type = "PADDING" -> GetToken(Passed(on, next.num))
          [] next.type = "BIT" -> [token |-> got, fm |-> Passed(on, next.num)]
          [] next.type = "BARRAY" ->
               [token |-> Area(fm, next.num),
                fm |-> IF next.num > 0 THEN Passed(on, next.num) ELSE on]
          [] OTHER -> [token |-> <<>>, fm |-> on]

\* Whether the list at the current item ends; an element that is complete is
\* left, a list that is complete is passed.
FrameIsIterLoopEnd(fi) ==
    LET it == fi.data[fi.cur]
        fixed(l) == ~l.expand /\ l.cur = l.max + 1
        complete == /\ it.item.type = "POINTER"
                    /\ it.cur <= Len(it.data)
                    /\ it.data[it.cur].cur > Len(it.item.frame)
        left == [it EXCEPT !.cur = @ + 1]
    IN  IF fi.cur > Len(fi.template) \/ fi.template[fi.cur].type # "ITER"
        THEN [end |-> FALSE, inst |-> fi]
        ELSE IF fixed(it) \/ (complete /\ fixed(left))
        THEN [end |-> TRUE, inst |-> [fi EXCEPT !.cur = @ + 1]]
        ELSE [end |-> FALSE,
              inst |-> IF complete THEN [fi EXCEPT !.data[fi.cur] = left] ELSE fi]

\* The test at the head of the loop over a list also reads the padding that
\* ends an element.
RECURSIVE FrameMgrIsIterLoopEnd(_)
FrameMgrIsIterLoopEnd(fm) ==
    LET test == FrameIsIterLoopEnd(fm.fi)
        next == FrameNext(test.inst)
    IN  IF ~test.end /\ next.type = "PADDING"
        THEN FrameMgrIsIterLoopEnd(Passed([fm EXCEPT !.fi = next.inst], next.num))
        ELSE [end |-> test.end, fm |-> [fm EXCEPT !.fi = test.inst]]
=============================================================================
