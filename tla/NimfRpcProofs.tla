--------------------------- MODULE NimfRpcProofs ---------------------------
(***************************************************************************)
(* Proofs about NimfRpc, for any number of connections, contexts, methods  *)
(* and signals and for any bounds.                                         *)
(***************************************************************************)
EXTENDS NimfRpc, SequenceTheorems, TLAPS

-----------------------------------------------------------------------------
(* Stacks.                                                                 *)

LEMMA FrontFacts ==
  ASSUME NEW T, NEW s \in Seq(T), s # <<>>
  PROVE  /\ Front(s) \in Seq(T)
         /\ Len(s) \in Nat \ {0}
         /\ Len(Front(s)) = Len(s) - 1
         /\ \A k \in 1 .. Len(s) - 1 : Front(s)[k] = s[k]
         /\ Last(s) = s[Len(s)] /\ Last(s) \in T
<1>1. Len(s) \in Nat \ {0} /\ Last(s) = s[Len(s)] /\ Last(s) \in T
  BY DEF Last
<1> DEFINE n == Len(s) - 1
           t == SubSeq(s, 1, n)
<1>2. n \in Int /\ 1 \in Int /\ \A k \in 1 .. n : s[k] \in T
  BY <1>1
<1>3. /\ t \in Seq(T)
      /\ Len(t) = IF 1 <= n THEN n - 1 + 1 ELSE 0
      /\ \A k \in 1 .. n - 1 + 1 : t[k] = s[1 + k - 1]
  <2> HIDE DEF n
  <2>. QED
    BY <1>2, SubSeqProperties
<1>4. Len(t) = n
  <2>1. n \in Nat
    BY <1>1
  <2> HIDE DEF t, n
  <2>2. CASE n = 0
    BY <2>2, <1>3
  <2>3. CASE n # 0
    BY <2>1, <2>3, <1>3
  <2>. QED
    BY <2>2, <2>3
<1>5. \A k \in 1 .. n : t[k] = s[k]
  <2> HIDE DEF t
  <2>. QED
    BY <1>1, <1>3
<1>6. Front(s) = t
  BY DEF Front
<1>. QED
  BY <1>1, <1>3, <1>4, <1>5, <1>6

LEMMA AppendFacts ==
  ASSUME NEW T, NEW s \in Seq(T), NEW e \in T
  PROVE  /\ Append(s, e) \in Seq(T)
         /\ Append(s, e) # <<>>
         /\ Len(Append(s, e)) = Len(s) + 1
         /\ \A k \in 1 .. Len(s) : Append(s, e)[k] = s[k]
         /\ Append(s, e)[Len(s) + 1] = e
         /\ Last(Append(s, e)) = e
  BY DEF Last

(* Counting a call leaves the frames what they are.                        *)
LEMMA SpendFacts ==
  ASSUME NEW s \in Seq(Frame), s = <<>> \/ Last(s).left > 0
  PROVE  /\ Spend(s) \in Seq(Frame)
         /\ Len(Spend(s)) = Len(s)
         /\ \A k \in 1 .. Len(s) :
              /\ CallOf(Spend(s)[k]) = CallOf(s[k])
              /\ Spend(s)[k].tag = s[k].tag
              /\ Spend(s)[k].kind = s[k].kind
<1>1. CASE s = <<>>
  BY <1>1 DEF Spend
<1>2. CASE s # <<>>
  <2>1. Len(s) \in 1 .. Len(s) /\ s[Len(s)] \in Frame /\ s[Len(s)].left > 0
    <3>1. Len(s) \in Nat \ {0} /\ Last(s) = s[Len(s)] /\ Last(s) \in Frame
      BY <1>2, FrontFacts
    <3>. QED
      BY <3>1, <1>2
  <2> DEFINE f == s[Len(s)]
             e == [f EXCEPT !.left = @ - 1]
  <2>2. /\ e \in Frame
        /\ e.type = f.type /\ e.icid = f.icid
        /\ e.tag = f.tag /\ e.kind = f.kind
    <3>1. f \in Frame /\ f.left > 0
      BY <2>1
    <3> HIDE DEF f
    <3>2. f.left - 1 \in Nat
      BY <3>1 DEF Frame
    <3>3. f = [kind |-> f.kind, type |-> f.type, icid |-> f.icid, tag |-> f.tag, left |-> f.left]
      BY <3>1 DEF Frame
    <3>4. e = [kind |-> f.kind, type |-> f.type, icid |-> f.icid, tag |-> f.tag, left |-> f.left - 1]
      BY <3>3
    <3>. QED
      BY <3>1, <3>2, <3>4 DEF Frame
  <2>3. Spend(s) = [s EXCEPT ![Len(s)] = e]
    BY <1>2 DEF Spend
  <2> HIDE DEF e
  <2>. QED
    BY <2>1, <2>2, <2>3, ExceptSeq DEF CallOf
<1>. QED
  BY <1>1, <1>2

-----------------------------------------------------------------------------
(* Frames and messages.                                                    *)

LEMMA MessageFacts ==
  /\ \A type \in Types, icid \in ICs, tag \in Nat : Call(type, icid, tag) \in Message
  /\ \A f \in Frame : ReplyTo(f) \in Message /\ CallTo(f) \in Message
  /\ \A m \in Message : Wait(m) \in Frame
  /\ \A m \in Message, left \in Nat : Handler(m, left) \in Frame
  /\ NoMsg \notin Message
  BY NoMsgAssumption
  DEF Message, Frame, Types, Call, ReplyTo, CallTo, Wait, Handler

(* The frame at the top of a stack with a counterpart on the other one.    *)
LEMMA TopOfPair ==
  ASSUME NEW C \in Seq(Frame), NEW S \in Seq(Frame), PairedFrames(C, S)
  PROVE  /\ C # <<>> /\ Len(C) <= Len(S) =>
              /\ Last(C) \in Frame /\ S[Len(C)] \in Frame
              /\ Matched(Last(C), S[Len(C)], Len(C))
              /\ Waits(C) <=> Odd(Len(C))
              /\ Runs(C) <=> ~Odd(Len(C))
         /\ S # <<>> /\ Len(S) <= Len(C) =>
              /\ Last(S) \in Frame /\ C[Len(S)] \in Frame
              /\ Matched(C[Len(S)], Last(S), Len(S))
              /\ Waits(S) <=> ~Odd(Len(S))
              /\ Runs(S) <=> Odd(Len(S))
<1>1. ASSUME C # <<>>, Len(C) <= Len(S)
      PROVE  /\ Last(C) \in Frame /\ S[Len(C)] \in Frame
             /\ Matched(Last(C), S[Len(C)], Len(C))
  <2>1. Len(C) \in Nat \ {0} /\ Last(C) = C[Len(C)] /\ Last(C) \in Frame
    BY <1>1, FrontFacts
  <2>2. Len(C) \in 1 .. Len(C) /\ Len(C) \in 1 .. Len(S)
    BY <1>1, <2>1
  <2>. QED
    BY <2>1, <2>2, <1>1 DEF PairedFrames
<1>2. ASSUME S # <<>>, Len(S) <= Len(C)
      PROVE  /\ Last(S) \in Frame /\ C[Len(S)] \in Frame
             /\ Matched(C[Len(S)], Last(S), Len(S))
  <2>1. Len(S) \in Nat \ {0} /\ Last(S) = S[Len(S)] /\ Last(S) \in Frame
    BY <1>2, FrontFacts
  <2>2. Len(S) \in 1 .. Len(C)
    BY <1>2, <2>1
  <2>. QED
    BY <2>1, <2>2, <1>2 DEF PairedFrames
<1>. QED
  BY <1>1, <1>2, Zenon DEF Waits, Runs, Matched

(* A popped stack keeps its pairs.                                         *)
LEMMA PopPaired ==
  ASSUME NEW C \in Seq(Frame), NEW S \in Seq(Frame), PairedFrames(C, S)
  PROVE  /\ C # <<>> => PairedFrames(Front(C), S)
         /\ S # <<>> => PairedFrames(C, Front(S))
<1>1. ASSUME C # <<>> PROVE PairedFrames(Front(C), S)
  <2>1. /\ Len(C) \in Nat \ {0} /\ Len(Front(C)) = Len(C) - 1
        /\ \A k \in 1 .. Len(C) - 1 : Front(C)[k] = C[k]
    BY <1>1, FrontFacts
  <2>. QED
    BY <2>1 DEF PairedFrames
<1>2. ASSUME S # <<>> PROVE PairedFrames(C, Front(S))
  <2>1. /\ Len(S) \in Nat \ {0} /\ Len(Front(S)) = Len(S) - 1
        /\ \A k \in 1 .. Len(S) - 1 : Front(S)[k] = S[k]
    BY <1>2, FrontFacts
  <2>. QED
    BY <2>1 DEF PairedFrames
<1>. QED
  BY <1>1, <1>2

(* The caller's new wait has no counterpart yet.                           *)
LEMMA CallPaired ==
  ASSUME NEW C \in Seq(Frame), NEW S \in Seq(Frame), PairedFrames(C, S),
         Len(C) = Len(S), NEW f \in Frame
  PROVE  /\ C = <<>> \/ Last(C).left > 0 => PairedFrames(Append(Spend(C), f), S)
         /\ S = <<>> \/ Last(S).left > 0 => PairedFrames(C, Append(Spend(S), f))
<1>1. ASSUME C = <<>> \/ Last(C).left > 0 PROVE PairedFrames(Append(Spend(C), f), S)
  <2> DEFINE D == Spend(C)
  <2>1. /\ D \in Seq(Frame) /\ Len(D) = Len(C)
        /\ \A k \in 1 .. Len(C) :
             CallOf(D[k]) = CallOf(C[k]) /\ D[k].tag = C[k].tag /\ D[k].kind = C[k].kind
    BY <1>1, SpendFacts
  <2> HIDE DEF D
  <2>2. /\ Len(Append(D, f)) = Len(D) + 1
        /\ \A k \in 1 .. Len(D) : Append(D, f)[k] = D[k]
    BY <2>1, AppendFacts
  <2>3. PairedFrames(Append(D, f), S)
    BY <2>1, <2>2 DEF PairedFrames, Matched
  <2>. QED
    BY <2>3 DEF D
<1>2. ASSUME S = <<>> \/ Last(S).left > 0 PROVE PairedFrames(C, Append(Spend(S), f))
  <2> DEFINE D == Spend(S)
  <2>1. /\ D \in Seq(Frame) /\ Len(D) = Len(S)
        /\ \A k \in 1 .. Len(S) :
             CallOf(D[k]) = CallOf(S[k]) /\ D[k].tag = S[k].tag /\ D[k].kind = S[k].kind
    BY <1>2, SpendFacts
  <2> HIDE DEF D
  <2>2. /\ Len(Append(D, f)) = Len(D) + 1
        /\ \A k \in 1 .. Len(D) : Append(D, f)[k] = D[k]
    BY <2>1, AppendFacts
  <2>3. PairedFrames(C, Append(D, f))
    BY <2>1, <2>2 DEF PairedFrames, Matched
  <2>. QED
    BY <2>3 DEF D
<1>. QED
  BY <1>1, <1>2

-----------------------------------------------------------------------------
(* Whose turn it is.                                                       *)

LEMMA Parity ==
  \A n \in Nat : (Odd(n + 1) <=> ~Odd(n)) /\ (n > 0 => (Odd(n - 1) <=> ~Odd(n))) /\ ~Odd(0)
  BY DEF Odd

(* Only while the application runs can it call or return.                  *)
LEMMA AppTurn ==
  ASSUME NEW C \in Seq(Frame), NEW S \in Seq(Frame), NEW cs, NEW sc, NEW cr, NEW sr,
         Conversation(C, S, cs, sc, cr, sr),
         C = <<>> \/ Runs(C)
  PROVE  AppRuns(C, S, cs, sc) /\ Settled(C, cr) /\ Quiet(sr)
<1>1. PairedFrames(C, S) /\ Len(C) \in Nat /\ Len(S) \in Nat
  BY DEF Conversation
<1>2. ~WaitsFor(C, S)
  BY <1>1 DEF WaitsFor, Runs, Waits
<1>3. ASSUME Len(C) <= Len(S), Odd(Len(C)) PROVE FALSE
  BY <1>1, <1>3, TopOfPair, Parity
<1>. QED
  BY <1>1, <1>2, <1>3 DEF Conversation, AppRuns, DaemonRuns, MethodFlies, SignalFlies,
     Answered, WaitsFor

(* Only while it runs a handler can the daemon emit or return.             *)
LEMMA DaemonTurn ==
  ASSUME NEW C \in Seq(Frame), NEW S \in Seq(Frame), NEW cs, NEW sc, NEW cr, NEW sr,
         Conversation(C, S, cs, sc, cr, sr),
         Runs(S)
  PROVE  DaemonRuns(C, S, cs, sc) /\ Quiet(cr) /\ Quiet(sr)
<1>1. PairedFrames(C, S) /\ Len(C) \in Nat /\ Len(S) \in Nat /\ S # <<>>
  BY DEF Conversation, Runs
<1>2. ~WaitsFor(S, C)
  BY <1>1 DEF WaitsFor, Runs
<1>3. ASSUME Len(S) <= Len(C), ~Odd(Len(S)) PROVE FALSE
  BY <1>1, <1>3, TopOfPair
<1>4. ASSUME Len(C) = Len(S) PROVE C # <<>>
  BY <1>1, <1>4
<1>5. ~AppRuns(C, S, cs, sc)
  BY <1>1, <1>3 DEF AppRuns
<1>6. ASSUME WaitsFor(C, S), Odd(Len(C)) PROVE FALSE
  <2>1. Len(S) = Len(C) - 1 /\ Len(C) > 0
    BY <1>1, <1>6 DEF WaitsFor
  <2>2. ~Odd(Len(S))
    BY <1>1, <1>6, <2>1, Parity
  <2>. QED
    BY <1>1, <1>3, <2>1, <2>2
<1>. QED
  BY <1>2, <1>4, <1>5, <1>6 DEF Conversation, DaemonRuns, MethodFlies, SignalFlies, Answered,
     Settled

-----------------------------------------------------------------------------
(* The steps of the client, on one conversation.                           *)

LEMMA ClientCallStep ==
  ASSUME NEW C \in Seq(Frame), NEW S \in Seq(Frame), NEW cs, NEW sc,
         NEW cr \in Result, NEW sr,
         Conversation(C, S, cs, sc, cr, sr),
         C = <<>> \/ (Runs(C) /\ Last(C).left > 0),
         NEW type \in Methods, NEW icid \in ICs, NEW m, m = Call(type, icid, Len(C) + 1)
  PROVE  Conversation(Append(Spend(C), Wait(m)), S, Append(cs, m), sc, Undispatched(cr), sr)
<1>1. AppRuns(C, S, cs, sc) /\ Quiet(sr) /\ PairedFrames(C, S)
  BY AppTurn DEF Conversation
<1>2. Len(C) = Len(S) /\ Len(C) \in Nat /\ cs = <<>> /\ sc = <<>> /\ ~Odd(Len(C))
  BY <1>1 DEF AppRuns
<1>3. m \in Message /\ Wait(m) \in Frame /\ CallTo(Wait(m)) = m
  BY <1>2, MessageFacts DEF Types, Call, CallTo, Wait
<1> DEFINE D == Spend(C)
           N == Append(D, Wait(m))
<1>4. D \in Seq(Frame) /\ Len(D) = Len(C)
  BY SpendFacts
<1>5. PairedFrames(N, S)
  BY <1>1, <1>2, <1>3, CallPaired
<1>6. N # <<>> /\ Len(N) = Len(C) + 1 /\ Last(N) = Wait(m)
  <2> HIDE DEF D
  <2>. QED
    BY <1>3, <1>4, AppendFacts
<1>7. Quiet(Undispatched(cr))
  BY DEF Quiet, Undispatched, Result
<1>8. Append(cs, m) = <<m>>
  BY <1>2
<1> HIDE DEF N, D
<1>9. Wait(m).kind = "wait" /\ Wait(m).tag = Len(C) + 1
  BY DEF Wait, Call
<1>10. WaitsFor(N, S) /\ Odd(Len(N))
  BY <1>2, <1>6, <1>9, Parity DEF WaitsFor
<1>11. MethodFlies(N, S, <<m>>, sc)
  BY <1>2, <1>3, <1>6, <1>10 DEF MethodFlies
<1>. QED
  BY <1>1, <1>5, <1>7, <1>8, <1>11 DEF Conversation, Settled, N, D

LEMMA ClientReceiveStep ==
  ASSUME NEW C \in Seq(Frame), NEW S \in Seq(Frame), NEW cs, NEW sc \in Seq(Message),
         NEW cr \in Result, NEW sr,
         Conversation(C, S, cs, sc, cr, sr),
         C = <<>> \/ (Waits(C) /\ ~cr.disp),
         sc # <<>>, NEW left \in Nat, NEW m, m = Head(sc)
  PROVE  Conversation(IF m.reply THEN C ELSE Append(C, Handler(m, left)), S,
                      cs, Tail(sc), Dispatched(m), sr)
<1>1. PairedFrames(C, S) /\ Len(C) \in Nat /\ Len(S) \in Nat
  BY DEF Conversation
<1>2. CASE MethodFlies(C, S, cs, sc) /\ Quiet(sr)
  <2>1. cs = <<>> /\ sc = <<ReplyTo(Last(C))>> /\ WaitsFor(C, S) /\ Odd(Len(C))
    BY <1>2 DEF MethodFlies
  <2>2. m = ReplyTo(Last(C)) /\ Tail(sc) = <<>> /\ m.reply
    BY <2>1 DEF ReplyTo
  <2>. QED
    BY <1>1, <1>2, <2>1, <2>2 DEF Conversation, Settled, Answered
<1>3. CASE SignalFlies(C, S, cs, sc) /\ Quiet(sr)
  <2>1. cs = <<>> /\ sc = <<CallTo(Last(S))>> /\ WaitsFor(S, C) /\ Odd(Len(C))
    BY <1>3 DEF SignalFlies
  <2>2. /\ Len(S) = Len(C) + 1 /\ S # <<>> /\ Last(S) = S[Len(S)]
        /\ Last(S) \in Frame /\ Last(S).kind = "wait" /\ Last(S).tag = Len(S)
    BY <1>1, <2>1, FrontFacts DEF WaitsFor
  <2>3. m = CallTo(Last(S)) /\ Tail(sc) = <<>> /\ ~m.reply
    BY <2>1 DEF CallTo, Call
  <2>4. m \in Message /\ Handler(m, left) \in Frame
    BY <2>2, <2>3, MessageFacts
  <2> DEFINE N == Append(C, Handler(m, left))
  <2>5. /\ Len(N) = Len(C) + 1 /\ N[Len(C) + 1] = Handler(m, left)
        /\ \A k \in 1 .. Len(C) : N[k] = C[k]
    BY <2>4, AppendFacts
  <2> HIDE DEF N
  <2>6. Matched(Handler(m, left), Last(S), Len(S))
    <3>1. ~Odd(Len(S))
      BY <1>1, <2>1, <2>2, Parity
    <3>2. /\ Handler(m, left).kind = "handler" /\ Handler(m, left).tag = Len(S)
          /\ CallOf(Handler(m, left)) = CallOf(Last(S))
      BY <2>2, <2>3 DEF Handler, CallTo, Call, CallOf
    <3>. QED
      BY <2>2, <3>1, <3>2 DEF Matched
  <2>7. PairedFrames(N, S)
    BY <1>1, <2>2, <2>5, <2>6 DEF PairedFrames
  <2>8. AppRuns(N, S, cs, Tail(sc))
    BY <1>1, <2>1, <2>2, <2>3, <2>5, Parity DEF AppRuns
  <2>9. Quiet(Dispatched(m))
    BY <2>3, <2>4, MessageFacts DEF Quiet, Dispatched
  <2>. QED
    BY <1>3, <2>3, <2>7, <2>8, <2>9 DEF Conversation, Settled, N
<1>. QED
  BY <1>2, <1>3 DEF Conversation, AppRuns, DaemonRuns

LEMMA ClientReturnStep ==
  ASSUME NEW C \in Seq(Frame), NEW S \in Seq(Frame), NEW cs, NEW sc, NEW cr, NEW sr,
         Conversation(C, S, cs, sc, cr, sr),
         Runs(C)
  PROVE  Conversation(Front(C), S, Append(cs, ReplyTo(Last(C))), sc, cr, sr)
<1>1. PairedFrames(C, S) /\ C # <<>> /\ AppRuns(C, S, cs, sc) /\ Quiet(cr) /\ Quiet(sr)
  BY AppTurn DEF Conversation, Settled, Runs
<1>2. /\ Len(C) = Len(S) /\ Len(C) \in Nat /\ Len(C) > 0 /\ ~Odd(Len(C))
      /\ cs = <<>> /\ sc = <<>>
  BY <1>1 DEF AppRuns
<1>3. S # <<>> /\ Matched(Last(C), Last(S), Len(S))
  BY <1>1, <1>2, TopOfPair DEF Last
<1>4. /\ ReplyTo(Last(C)) = ReplyTo(Last(S)) /\ Last(S).kind = "wait" /\ Last(S).tag = Len(S)
  BY <1>2, <1>3 DEF Matched, CallOf, ReplyTo
<1>5. PairedFrames(Front(C), S) /\ Len(Front(C)) = Len(C) - 1
  BY <1>1, PopPaired, FrontFacts
<1>6. WaitsFor(S, Front(C)) /\ Odd(Len(Front(C)))
  BY <1>2, <1>4, <1>5, Parity DEF WaitsFor
<1>7. Append(cs, ReplyTo(Last(C))) = <<ReplyTo(Last(S))>>
  BY <1>2, <1>4
<1>. QED
  BY <1>1, <1>2, <1>5, <1>6, <1>7 DEF Conversation, Settled, SignalFlies

LEMMA ClientCheckStep ==
  ASSUME NEW C \in Seq(Frame), NEW S \in Seq(Frame), NEW cs, NEW sc,
         NEW cr \in Result, NEW sr,
         Conversation(C, S, cs, sc, cr, sr),
         Waits(C), cr.disp
  PROVE  Conversation(AfterCheck(C, cr), S, cs, sc, Undispatched(cr), sr)
<1>1. PairedFrames(C, S) /\ C # <<>> /\ Len(C) \in Nat \ {0} /\ Len(S) \in Nat
  BY DEF Conversation, Waits
<1>2. Quiet(Undispatched(cr))
  BY DEF Quiet, Undispatched, Result
<1>3. CASE Quiet(cr)
  <2>1. ~Ends(Last(C), cr)
    BY <1>3 DEF Quiet, Ends
  <2>2. AfterCheck(C, cr) = C
    BY <2>1 DEF AfterCheck
  <2>3. ~Answered(C, S, cr)
    BY <1>3 DEF Answered, Quiet, Dispatched, ReplyTo
  <2>. QED
    BY <1>2, <2>2, <2>3 DEF Conversation, Settled
<1>4. CASE Answered(C, S, cr) /\ Odd(Len(C)) /\ cs = <<>> /\ sc = <<>> /\ Quiet(sr)
  <2>1. Ends(Last(C), cr)
    BY <1>4 DEF Answered, Ends, Dispatched, ReplyTo
  <2>2. AfterCheck(C, cr) = Front(C)
    BY <2>1 DEF AfterCheck
  <2>3. PairedFrames(Front(C), S) /\ Len(Front(C)) = Len(C) - 1
    BY <1>1, PopPaired, FrontFacts
  <2>4. AppRuns(Front(C), S, cs, sc)
    BY <1>1, <1>4, <2>3, Parity DEF AppRuns, Answered, WaitsFor
  <2>. QED
    BY <1>2, <1>4, <2>2, <2>3, <2>4 DEF Conversation, Settled
<1>. QED
  BY <1>1, <1>3, <1>4 DEF Conversation, Settled

-----------------------------------------------------------------------------
(* The steps of the daemon, on one conversation.                           *)

LEMMA ServerReceiveStep ==
  ASSUME NEW C \in Seq(Frame), NEW S \in Seq(Frame), NEW cs \in Seq(Message), NEW sc,
         NEW cr, NEW sr \in Result,
         Conversation(C, S, cs, sc, cr, sr),
         cs # <<>>, NEW left \in Nat, NEW m, m = Head(cs)
  PROVE  Conversation(C, IF m.reply THEN S ELSE Append(S, Handler(m, left)),
                      Tail(cs), sc, cr, Dispatched(m))
<1>1. PairedFrames(C, S) /\ Len(C) \in Nat /\ Len(S) \in Nat
  BY DEF Conversation
<1>2. CASE SignalFlies(C, S, cs, sc) /\ Settled(C, cr)
  <2>1. sc = <<>> /\ cs = <<ReplyTo(Last(S))>> /\ WaitsFor(S, C) /\ Odd(Len(C))
    BY <1>2 DEF SignalFlies
  <2>2. m = ReplyTo(Last(S)) /\ Tail(cs) = <<>> /\ m.reply
    BY <2>1 DEF ReplyTo
  <2>3. C # <<>>
    BY <2>1, Parity
  <2>. QED
    BY <1>1, <1>2, <2>1, <2>2, <2>3 DEF Conversation, Settled, Answered
<1>3. CASE MethodFlies(C, S, cs, sc) /\ Settled(C, cr)
  <2>1. sc = <<>> /\ cs = <<CallTo(Last(C))>> /\ WaitsFor(C, S) /\ Odd(Len(C))
    BY <1>3 DEF MethodFlies
  <2>2. /\ Len(C) = Len(S) + 1 /\ C # <<>> /\ Last(C) = C[Len(C)]
        /\ Last(C) \in Frame /\ Last(C).kind = "wait" /\ Last(C).tag = Len(C)
    BY <1>1, <2>1, FrontFacts DEF WaitsFor
  <2>3. m = CallTo(Last(C)) /\ Tail(cs) = <<>> /\ ~m.reply
    BY <2>1 DEF CallTo, Call
  <2>4. m \in Message /\ Handler(m, left) \in Frame
    BY <2>2, <2>3, MessageFacts
  <2> DEFINE N == Append(S, Handler(m, left))
  <2>5. /\ Len(N) = Len(S) + 1 /\ N[Len(S) + 1] = Handler(m, left)
        /\ \A k \in 1 .. Len(S) : N[k] = S[k]
    BY <2>4, AppendFacts
  <2> HIDE DEF N
  <2>6. Matched(Last(C), Handler(m, left), Len(C))
    <3>1. /\ Handler(m, left).kind = "handler" /\ Handler(m, left).tag = Len(C)
          /\ CallOf(Handler(m, left)) = CallOf(Last(C))
      BY <2>2, <2>3 DEF Handler, CallTo, Call, CallOf
    <3>. QED
      BY <2>1, <2>2, <3>1 DEF Matched
  <2>7. PairedFrames(C, N)
    BY <1>1, <2>2, <2>5, <2>6 DEF PairedFrames
  <2>8. DaemonRuns(C, N, Tail(cs), sc)
    BY <1>1, <2>1, <2>2, <2>3, <2>5 DEF DaemonRuns
  <2>9. Quiet(Dispatched(m))
    BY <2>3, <2>4, MessageFacts DEF Quiet, Dispatched
  <2>. QED
    BY <1>3, <2>3, <2>7, <2>8, <2>9 DEF Conversation, Settled, N
<1>. QED
  BY <1>2, <1>3 DEF Conversation, AppRuns, DaemonRuns

LEMMA EmitStep ==
  ASSUME NEW C \in Seq(Frame), NEW S \in Seq(Frame), NEW cs, NEW sc,
         NEW cr, NEW sr \in Result,
         Conversation(C, S, cs, sc, cr, sr),
         Runs(S), Last(S).left > 0,
         NEW type \in Signals, NEW icid \in ICs, NEW m, m = Call(type, icid, Len(S) + 1)
  PROVE  Conversation(C, Append(Spend(S), Wait(m)), cs, Append(sc, m), cr, Undispatched(sr))
<1>1. DaemonRuns(C, S, cs, sc) /\ Quiet(cr) /\ PairedFrames(C, S)
  BY DaemonTurn DEF Conversation
<1>2. Len(C) = Len(S) /\ Len(C) \in Nat /\ cs = <<>> /\ sc = <<>> /\ Odd(Len(C))
  BY <1>1 DEF DaemonRuns
<1>3. m \in Message /\ Wait(m) \in Frame /\ CallTo(Wait(m)) = m
  BY <1>2, MessageFacts DEF Types, Call, CallTo, Wait
<1> DEFINE D == Spend(S)
           N == Append(D, Wait(m))
<1>4. D \in Seq(Frame) /\ Len(D) = Len(S)
  BY SpendFacts
<1>5. PairedFrames(C, N)
  BY <1>1, <1>2, <1>3, CallPaired
<1>6. N # <<>> /\ Len(N) = Len(S) + 1 /\ Last(N) = Wait(m)
  <2> HIDE DEF D
  <2>. QED
    BY <1>3, <1>4, AppendFacts
<1>7. Quiet(Undispatched(sr))
  BY DEF Quiet, Undispatched, Result
<1>8. Append(sc, m) = <<m>>
  BY <1>2
<1> HIDE DEF N, D
<1>9. Wait(m).kind = "wait" /\ Wait(m).tag = Len(S) + 1
  BY DEF Wait, Call
<1>10. WaitsFor(N, C)
  BY <1>2, <1>6, <1>9 DEF WaitsFor
<1>11. SignalFlies(C, N, cs, <<m>>)
  BY <1>2, <1>3, <1>6, <1>10 DEF SignalFlies
<1>. QED
  BY <1>1, <1>5, <1>7, <1>8, <1>11 DEF Conversation, Settled, N, D

LEMMA ServerReturnStep ==
  ASSUME NEW C \in Seq(Frame), NEW S \in Seq(Frame), NEW cs, NEW sc, NEW cr, NEW sr,
         Conversation(C, S, cs, sc, cr, sr),
         Runs(S)
  PROVE  /\ Last(S).kind = "handler"
         /\ Conversation(C, Front(S), cs, Append(sc, ReplyTo(Last(S))), cr, sr)
<1>1. PairedFrames(C, S) /\ S # <<>> /\ DaemonRuns(C, S, cs, sc) /\ Quiet(cr) /\ Quiet(sr)
  BY DaemonTurn DEF Conversation, Runs
<1>2. /\ Len(C) = Len(S) /\ Len(C) \in Nat /\ Len(C) > 0 /\ Odd(Len(C))
      /\ cs = <<>> /\ sc = <<>>
  BY <1>1 DEF DaemonRuns
<1>3. C # <<>> /\ Matched(Last(C), Last(S), Len(C))
  BY <1>1, <1>2, TopOfPair DEF Last
<1>4. /\ ReplyTo(Last(S)) = ReplyTo(Last(C)) /\ Last(S).kind = "handler"
      /\ Last(C).kind = "wait" /\ Last(C).tag = Len(C)
  BY <1>2, <1>3 DEF Matched, CallOf, ReplyTo
<1>5. PairedFrames(C, Front(S)) /\ Len(Front(S)) = Len(S) - 1
  BY <1>1, PopPaired, FrontFacts
<1>6. WaitsFor(C, Front(S))
  BY <1>2, <1>4, <1>5 DEF WaitsFor
<1>7. Append(sc, ReplyTo(Last(S))) = <<ReplyTo(Last(C))>>
  BY <1>2, <1>4
<1>. QED
  BY <1>1, <1>2, <1>4, <1>5, <1>6, <1>7 DEF Conversation, Settled, MethodFlies

LEMMA ServerCheckStep ==
  ASSUME NEW C \in Seq(Frame), NEW S \in Seq(Frame), NEW cs, NEW sc,
         NEW cr, NEW sr \in Result,
         Conversation(C, S, cs, sc, cr, sr),
         Waits(S), sr.disp
  PROVE  Conversation(C, AfterCheck(S, sr), cs, sc, cr, Undispatched(sr))
<1>1. PairedFrames(C, S) /\ S # <<>> /\ Len(S) \in Nat \ {0} /\ Len(C) \in Nat
  BY DEF Conversation, Waits
<1>2. Quiet(Undispatched(sr))
  BY DEF Quiet, Undispatched, Result
<1>3. CASE Quiet(sr)
  <2>1. ~Ends(Last(S), sr)
    BY <1>3 DEF Quiet, Ends
  <2>2. AfterCheck(S, sr) = S
    BY <2>1 DEF AfterCheck
  <2>3. ~Answered(S, C, sr)
    BY <1>3 DEF Answered, Quiet, Dispatched, ReplyTo
  <2>. QED
    BY <1>2, <2>2, <2>3 DEF Conversation, Settled
<1>4. CASE Answered(S, C, sr) /\ Odd(Len(C)) /\ cs = <<>> /\ sc = <<>> /\ Quiet(cr)
  <2>1. Ends(Last(S), sr)
    BY <1>4 DEF Answered, Ends, Dispatched, ReplyTo
  <2>2. AfterCheck(S, sr) = Front(S)
    BY <2>1 DEF AfterCheck
  <2>3. PairedFrames(C, Front(S)) /\ Len(Front(S)) = Len(S) - 1
    BY <1>1, PopPaired, FrontFacts
  <2>4. DaemonRuns(C, Front(S), cs, sc)
    BY <1>1, <1>4, <2>3 DEF DaemonRuns, Answered, WaitsFor
  <2>. QED
    BY <1>2, <1>4, <2>2, <2>3, <2>4 DEF Conversation, Settled
<1>. QED
  BY <1>1, <1>3, <1>4 DEF Conversation, Settled

-----------------------------------------------------------------------------
(* Type correctness.                                                       *)

LEMMA ResultFacts ==
  /\ \A m \in Message \cup {NoMsg} : Dispatched(m) \in Result
  /\ \A r \in Result : Undispatched(r) \in Result /\ ~Undispatched(r).disp
  BY DEF Result, Dispatched, Undispatched

LEMMA AfterCheckType ==
  ASSUME NEW s \in Seq(Frame), Waits(s), NEW res
  PROVE  AfterCheck(s, res) \in Seq(Frame)
  BY FrontFacts DEF AfterCheck, Waits

LEMMA TypeInit == Init => TypeOK
  BY DEF Init, TypeOK, Result

LEMMA ClientTypeStep ==
  ASSUME TypeOK, NEW c \in Conns, ClientNext(c)
  PROVE  TypeOK'
<1>1. ASSUME NEW type \in Methods, NEW icid \in ICs, ClientCall(c, type, icid)
      PROVE  TypeOK'
  <2> DEFINE m == Call(type, icid, Len(cstack[c]) + 1)
  <2>1. m \in Message /\ Wait(m) \in Frame
    BY MessageFacts DEF TypeOK, Types
  <2>2. Spend(cstack[c]) \in Seq(Frame)
    BY <1>1, SpendFacts DEF ClientCall, TypeOK
  <2>3. Append(Spend(cstack[c]), Wait(m)) \in Seq(Frame)
    BY <2>1, <2>2, AppendFacts
  <2>4. Sent(c2s[c], c, m) \in Seq(Message)
    BY <2>1, AppendFacts DEF Sent, TypeOK
  <2>5. Undispatched(cres[c]) \in Result
    BY ResultFacts DEF TypeOK
  <2>. QED
    BY <1>1, <2>3, <2>4, <2>5 DEF ClientCall, TypeOK
<1>2. ASSUME ClientReceive(c) PROVE TypeOK'
  <2> DEFINE m == Head(s2c[c])
  <2>1. m \in Message /\ Tail(s2c[c]) \in Seq(Message)
    BY <1>2, HeadTailProperties DEF ClientReceive, TypeOK
  <2>2. Append(cstack[c], Handler(m, CallbackBudget)) \in Seq(Frame)
    BY <2>1, MessageFacts, BoundsAssumption, AppendFacts DEF TypeOK
  <2>3. Dispatched(m) \in Result
    BY <2>1, ResultFacts
  <2>. QED
    BY <1>2, <2>1, <2>2, <2>3 DEF ClientReceive, TypeOK
<1>3. ASSUME ClientReturn(c) PROVE TypeOK'
  <2>1. /\ Front(cstack[c]) \in Seq(Frame) /\ Last(cstack[c]) \in Frame
    BY <1>3, FrontFacts DEF ClientReturn, Runs, TypeOK
  <2>2. Sent(c2s[c], c, ReplyTo(Last(cstack[c]))) \in Seq(Message)
    BY <2>1, MessageFacts, AppendFacts DEF Sent, TypeOK
  <2>. QED
    BY <1>3, <2>1, <2>2 DEF ClientReturn, TypeOK
<1>4. ASSUME ClientCheck(c) PROVE TypeOK'
  <2>1. AfterCheck(cstack[c], cres[c]) \in Seq(Frame) /\ Undispatched(cres[c]) \in Result
    BY <1>4, AfterCheckType, ResultFacts DEF ClientCheck, TypeOK
  <2>. QED
    BY <1>4, <2>1 DEF ClientCheck, TypeOK
<1>. QED
  BY <1>1, <1>2, <1>3, <1>4 DEF ClientNext

LEMMA ServerTypeStep ==
  ASSUME TypeOK, NEW c \in Conns, ServerNext(c)
  PROVE  TypeOK'
<1>1. ASSUME ServerReceive(c) PROVE TypeOK'
  <2> DEFINE m == Head(c2s[c])
             budget == IF m.type \in Emitting THEN SignalBudget ELSE 0
  <2>1. m \in Message /\ Tail(c2s[c]) \in Seq(Message)
    BY <1>1, HeadTailProperties DEF ServerReceive, TypeOK
  <2>2. Append(sstack[c], Handler(m, budget)) \in Seq(Frame)
    <3>1. budget \in Nat
      BY BoundsAssumption
    <3>. QED
      BY <2>1, <3>1, MessageFacts, AppendFacts DEF TypeOK
  <2>3. Dispatched(m) \in Result
    BY <2>1, ResultFacts
  <2>4. Append(order, c) \in Seq(Conns)
    BY DEF TypeOK
  <2>. QED
    BY <1>1, <2>1, <2>2, <2>3, <2>4 DEF ServerReceive, TypeOK
<1>2. ASSUME NEW type \in Signals, Emit(c, type) PROVE TypeOK'
  <2> DEFINE m == Call(type, Last(sstack[c]).icid, Len(sstack[c]) + 1)
  <2>1. Last(sstack[c]) \in Frame
    BY <1>2, FrontFacts DEF Emit, Runs, TypeOK
  <2>2. m \in Message /\ Wait(m) \in Frame
    <3>1. Last(sstack[c]).icid \in ICs /\ type \in Types /\ Len(sstack[c]) + 1 \in Nat
      BY <2>1 DEF Frame, Types, TypeOK
    <3>. QED
      BY <3>1, MessageFacts
  <2>3. Spend(sstack[c]) \in Seq(Frame)
    BY <1>2, SpendFacts DEF Emit, TypeOK
  <2>4. Append(Spend(sstack[c]), Wait(m)) \in Seq(Frame)
    BY <2>2, <2>3, AppendFacts
  <2>5. Sent(s2c[c], c, m) \in Seq(Message)
    BY <2>2, AppendFacts DEF Sent, TypeOK
  <2>6. Undispatched(sres[c]) \in Result /\ Append(order, c) \in Seq(Conns)
    BY ResultFacts DEF TypeOK
  <2>. QED
    BY <1>2, <2>4, <2>5, <2>6 DEF Emit, TypeOK
<1>3. ASSUME ServerReturn(c) PROVE TypeOK'
  <2>1. /\ Front(sstack[c]) \in Seq(Frame) /\ Last(sstack[c]) \in Frame
        /\ Front(order) \in Seq(Conns)
    BY <1>3, FrontFacts DEF ServerReturn, Runs, OnTop, TypeOK
  <2>2. Sent(s2c[c], c, ReplyTo(Last(sstack[c]))) \in Seq(Message)
    BY <2>1, MessageFacts, AppendFacts DEF Sent, TypeOK
  <2>. QED
    BY <1>3, <2>1, <2>2 DEF ServerReturn, TypeOK
<1>4. ASSUME ServerCheck(c) PROVE TypeOK'
  <2>1. /\ AfterCheck(sstack[c], sres[c]) \in Seq(Frame) /\ Undispatched(sres[c]) \in Result
        /\ Front(order) \in Seq(Conns)
    BY <1>4, AfterCheckType, ResultFacts, FrontFacts DEF ServerCheck, OnTop, TypeOK
  <2>. QED
    BY <1>4, <2>1 DEF ServerCheck, TypeOK
<1>. QED
  BY <1>1, <1>2, <1>3, <1>4 DEF ServerNext

LEMMA LossTypeStep ==
  ASSUME TypeOK
  PROVE  /\ ServerExit => TypeOK'
         /\ \A c \in Conns : ClientHup(c) \/ Reconnect(c) => TypeOK'
<1>1. ASSUME ServerExit PROVE TypeOK'
  BY <1>1 DEF ServerExit, TypeOK, Result
<1>2. ASSUME NEW c \in Conns, ClientHup(c) PROVE TypeOK'
  BY <1>2, ResultFacts DEF ClientHup, TypeOK
<1>3. ASSUME NEW c \in Conns, Reconnect(c) PROVE TypeOK'
  BY <1>3 DEF Reconnect, TypeOK
<1>. QED
  BY <1>1, <1>2, <1>3

LEMMA TypeStep == TypeOK /\ [LossyNext]_vars => TypeOK'
<1> SUFFICES ASSUME TypeOK, [LossyNext]_vars PROVE TypeOK'
  OBVIOUS
<1>1. CASE NestedNext
  BY <1>1, ClientTypeStep, ServerTypeStep DEF NestedNext
<1>2. CASE ServerExit
  BY <1>2, LossTypeStep
<1>3. CASE \E c \in Conns : ClientHup(c) \/ Reconnect(c)
  BY <1>3, LossTypeStep
<1>4. CASE UNCHANGED vars
  BY <1>4 DEF vars, TypeOK
<1>. QED
  BY <1>1, <1>2, <1>3, <1>4 DEF LossyNext

(* The variables keep their types whatever the peers do, with the daemon   *)
(* ending and coming back at any point (LossySpec).                        *)
THEOREM TypeCorrect == LossySpec => []TypeOK
<1>. QED
  BY TypeInit, TypeStep, PTL DEF LossySpec

-----------------------------------------------------------------------------
(* The nesting of the calls.                                               *)

Local(c) ==
  IF link[c] = "up"
  THEN Conversation(cstack[c], sstack[c], c2s[c], s2c[c], cres[c], sres[c])
  ELSE Gone(cstack[c], sstack[c], c2s[c], s2c[c], cres[c], sres[c])

(* Every step but the exit of the daemon touches one connection.           *)
Untouched(d) ==
  /\ cstack'[d] = cstack[d] /\ sstack'[d] = sstack[d] /\ link'[d] = link[d]
  /\ c2s'[d] = c2s[d] /\ s2c'[d] = s2c[d]
  /\ cres'[d] = cres[d] /\ sres'[d] = sres[d]

LEMMA OneConnection ==
  ASSUME NestingInv, NEW c \in Conns, Local(c)', \A d \in Conns \ {c} : Untouched(d)
  PROVE  NestingInv'
<1> SUFFICES ASSUME NEW d \in Conns PROVE Local(d)'
  BY DEF NestingInv, Local
<1>1. CASE d = c
  BY <1>1
<1>2. CASE d # c
  <2>1. Untouched(d) /\ Local(d)
    BY <1>2 DEF NestingInv, Local
  <2>. QED
    BY <2>1 DEF Untouched, Local
<1>. QED
  BY <1>1, <1>2

LEMMA NestingInit == Init => NestingInv
<1> SUFFICES ASSUME Init, NEW c \in Conns PROVE Local(c)
  BY DEF NestingInv, Local
<1>1. Len(<<>>) = 0 /\ ~Odd(0)
  BY Parity
<1>2. PairedFrames(<<>>, <<>>)
  BY DEF PairedFrames
<1>3. AppRuns(<<>>, <<>>, <<>>, <<>>)
  BY <1>1 DEF AppRuns
<1>. QED
  BY <1>2, <1>3 DEF Init, Local, Conversation, Settled, Quiet

LEMMA ClientNestingStep ==
  ASSUME TypeOK, NestingInv, NEW c \in Conns, ClientNext(c)
  PROVE  NestingInv'
<1>1. Local(c)
  BY DEF NestingInv, Local
<1>2. ASSUME NEW type \in Methods, NEW icid \in ICs, ClientCall(c, type, icid)
      PROVE  Local(c)' /\ \A d \in Conns \ {c} : Untouched(d)
  <2> DEFINE m == Call(type, icid, Len(cstack[c]) + 1)
  <2>1. /\ cstack'[c] = Append(Spend(cstack[c]), Wait(m))
        /\ sstack'[c] = sstack[c] /\ s2c'[c] = s2c[c] /\ sres'[c] = sres[c]
        /\ c2s'[c] = Sent(c2s[c], c, m) /\ cres'[c] = Undispatched(cres[c])
        /\ link'[c] = link[c]
        /\ \A d \in Conns \ {c} : Untouched(d)
    BY <1>2 DEF ClientCall, TypeOK, Untouched
  <2>2. CASE link[c] = "up"
    <3>1. Conversation(Append(Spend(cstack[c]), Wait(m)), sstack[c], Append(c2s[c], m),
                       s2c[c], Undispatched(cres[c]), sres[c])
      BY <1>1, <1>2, <2>2, ClientCallStep DEF ClientCall, TypeOK, Local
    <3>. QED
      BY <2>1, <2>2, <3>1 DEF Local, Sent
  <2>3. CASE link[c] # "up"
    <3>1. ~Undispatched(cres[c]).disp
      BY ResultFacts DEF TypeOK
    <3>. QED
      BY <1>1, <2>1, <2>3, <3>1 DEF Local, Gone, Sent
  <2>. QED
    BY <2>2, <2>3
<1>3. ASSUME ClientReceive(c)
      PROVE  Local(c)' /\ \A d \in Conns \ {c} : Untouched(d)
  <2> DEFINE m == Head(s2c[c])
             N == IF m.reply THEN cstack[c]
                  ELSE Append(cstack[c], Handler(m, CallbackBudget))
  <2>1. /\ cstack'[c] = N
        /\ sstack'[c] = sstack[c] /\ c2s'[c] = c2s[c] /\ sres'[c] = sres[c]
        /\ s2c'[c] = Tail(s2c[c]) /\ cres'[c] = Dispatched(m)
        /\ link[c] = "up" /\ link'[c] = "up"
        /\ \A d \in Conns \ {c} : Untouched(d)
    BY <1>3 DEF ClientReceive, TypeOK, Untouched
  <2>2. Conversation(N, sstack[c], c2s[c], Tail(s2c[c]), Dispatched(m), sres[c])
    BY <1>1, <1>3, <2>1, ClientReceiveStep, BoundsAssumption
    DEF ClientReceive, ClientIterates, TypeOK, Local
  <2>. QED
    BY <2>1, <2>2 DEF Local
<1>4. ASSUME ClientReturn(c)
      PROVE  Local(c)' /\ \A d \in Conns \ {c} : Untouched(d)
  <2> DEFINE m == ReplyTo(Last(cstack[c]))
  <2>1. /\ cstack'[c] = Front(cstack[c])
        /\ sstack'[c] = sstack[c] /\ s2c'[c] = s2c[c] /\ sres'[c] = sres[c]
        /\ c2s'[c] = Sent(c2s[c], c, m) /\ cres'[c] = cres[c] /\ link'[c] = link[c]
        /\ \A d \in Conns \ {c} : Untouched(d)
    BY <1>4 DEF ClientReturn, TypeOK, Untouched
  <2>2. CASE link[c] = "up"
    <3>1. Conversation(Front(cstack[c]), sstack[c], Append(c2s[c], m), s2c[c], cres[c], sres[c])
      BY <1>1, <1>4, <2>2, ClientReturnStep DEF ClientReturn, TypeOK, Local
    <3>. QED
      BY <2>1, <2>2, <3>1 DEF Local, Sent
  <2>3. CASE link[c] # "up"
    BY <1>1, <1>4, <2>1, <2>3 DEF Local, Gone, Sent, ClientReturn, Runs, Waits
  <2>. QED
    BY <2>2, <2>3
<1>5. ASSUME ClientCheck(c)
      PROVE  Local(c)' /\ \A d \in Conns \ {c} : Untouched(d)
  <2>1. /\ cstack'[c] = AfterCheck(cstack[c], cres[c])
        /\ sstack'[c] = sstack[c] /\ s2c'[c] = s2c[c] /\ sres'[c] = sres[c]
        /\ c2s'[c] = c2s[c] /\ cres'[c] = Undispatched(cres[c]) /\ link'[c] = link[c]
        /\ \A d \in Conns \ {c} : Untouched(d)
    BY <1>5 DEF ClientCheck, TypeOK, Untouched
  <2>2. CASE link[c] = "up"
    <3>1. Conversation(AfterCheck(cstack[c], cres[c]), sstack[c], c2s[c], s2c[c],
                       Undispatched(cres[c]), sres[c])
      BY <1>1, <1>5, <2>2, ClientCheckStep DEF ClientCheck, TypeOK, Local
    <3>. QED
      BY <2>1, <2>2, <3>1 DEF Local
  <2>3. CASE link[c] # "up"
    <3>1. ~Undispatched(cres[c]).disp
      BY ResultFacts DEF TypeOK
    <3>. QED
      BY <1>1, <2>1, <2>3, <3>1 DEF Local, Gone
  <2>. QED
    BY <2>2, <2>3
<1>. QED
  BY <1>2, <1>3, <1>4, <1>5, OneConnection DEF ClientNext

LEMMA ServerNestingStep ==
  ASSUME TypeOK, NestingInv, NEW c \in Conns, ServerNext(c)
  PROVE  NestingInv'
<1>1. Local(c)
  BY DEF NestingInv, Local
(* No frame of the daemon outlives a hangup: what runs there is up.        *)
<1>2. ASSUME sstack[c] # <<>> PROVE link[c] = "up"
  BY <1>1, <1>2 DEF Local, Gone
<1>3. ASSUME ServerReceive(c)
      PROVE  Local(c)' /\ \A d \in Conns \ {c} : Untouched(d)
  <2> DEFINE m == Head(c2s[c])
             budget == IF m.type \in Emitting THEN SignalBudget ELSE 0
             N == IF m.reply THEN sstack[c] ELSE Append(sstack[c], Handler(m, budget))
  <2>1. /\ sstack'[c] = N
        /\ cstack'[c] = cstack[c] /\ s2c'[c] = s2c[c] /\ cres'[c] = cres[c]
        /\ c2s'[c] = Tail(c2s[c]) /\ sres'[c] = Dispatched(m)
        /\ link[c] = "up" /\ link'[c] = "up"
        /\ \A d \in Conns \ {c} : Untouched(d)
    BY <1>3 DEF ServerReceive, TypeOK, Untouched
  <2>2. budget \in Nat
    BY BoundsAssumption
  <2>3. Conversation(cstack[c], N, Tail(c2s[c]), s2c[c], cres[c], Dispatched(m))
    <3> HIDE DEF budget
    <3>. QED
      BY <1>1, <1>3, <2>1, <2>2, ServerReceiveStep DEF ServerReceive, TypeOK, Local
  <2>. QED
    BY <2>1, <2>3 DEF Local
<1>4. ASSUME NEW type \in Signals, Emit(c, type)
      PROVE  Local(c)' /\ \A d \in Conns \ {c} : Untouched(d)
  <2> DEFINE icid == Last(sstack[c]).icid
             m == Call(type, icid, Len(sstack[c]) + 1)
  <2>1. /\ sstack'[c] = Append(Spend(sstack[c]), Wait(m))
        /\ cstack'[c] = cstack[c] /\ c2s'[c] = c2s[c] /\ cres'[c] = cres[c]
        /\ s2c'[c] = Sent(s2c[c], c, m) /\ sres'[c] = Undispatched(sres[c])
        /\ link'[c] = link[c]
        /\ \A d \in Conns \ {c} : Untouched(d)
    BY <1>4 DEF Emit, TypeOK, Untouched
  <2>2. sstack[c] # <<>> /\ link[c] = "up"
    BY <1>2, <1>4 DEF Emit, Runs
  <2>3. icid \in ICs
    <3>1. Last(sstack[c]) \in Frame
      BY <2>2, FrontFacts DEF TypeOK
    <3>. QED
      BY <3>1 DEF Frame
  <2>4. Conversation(cstack[c], Append(Spend(sstack[c]), Wait(m)), c2s[c], Append(s2c[c], m),
                     cres[c], Undispatched(sres[c]))
    <3> HIDE DEF icid
    <3>. QED
      BY <1>1, <1>4, <2>2, <2>3, EmitStep DEF Emit, TypeOK, Local
  <2>. QED
    BY <2>1, <2>2, <2>4 DEF Local, Sent
<1>5. ASSUME ServerReturn(c)
      PROVE  Local(c)' /\ \A d \in Conns \ {c} : Untouched(d)
  <2> DEFINE m == ReplyTo(Last(sstack[c]))
  <2>1. sstack[c] # <<>> /\ link[c] = "up" /\ Runs(sstack[c])
    BY <1>2, <1>5 DEF ServerReturn, Runs
  <2>2. /\ Last(sstack[c]).kind = "handler"
        /\ Conversation(cstack[c], Front(sstack[c]), c2s[c], Append(s2c[c], m), cres[c], sres[c])
    BY <1>1, <2>1, ServerReturnStep DEF TypeOK, Local
  <2>3. /\ sstack'[c] = Front(sstack[c])
        /\ cstack'[c] = cstack[c] /\ c2s'[c] = c2s[c] /\ cres'[c] = cres[c]
        /\ s2c'[c] = Append(s2c[c], m) /\ sres'[c] = sres[c] /\ link'[c] = link[c]
        /\ \A d \in Conns \ {c} : Untouched(d)
    BY <1>5, <2>1, <2>2 DEF ServerReturn, TypeOK, Untouched, Sent
  <2>. QED
    BY <2>1, <2>2, <2>3 DEF Local
<1>6. ASSUME ServerCheck(c)
      PROVE  Local(c)' /\ \A d \in Conns \ {c} : Untouched(d)
  <2>1. /\ sstack'[c] = AfterCheck(sstack[c], sres[c])
        /\ cstack'[c] = cstack[c] /\ c2s'[c] = c2s[c] /\ cres'[c] = cres[c]
        /\ s2c'[c] = s2c[c] /\ sres'[c] = Undispatched(sres[c]) /\ link'[c] = link[c]
        /\ \A d \in Conns \ {c} : Untouched(d)
    BY <1>6 DEF ServerCheck, TypeOK, Untouched
  <2>2. sstack[c] # <<>> /\ link[c] = "up"
    BY <1>2, <1>6 DEF ServerCheck, Waits
  <2>3. Conversation(cstack[c], AfterCheck(sstack[c], sres[c]), c2s[c], s2c[c], cres[c],
                     Undispatched(sres[c]))
    BY <1>1, <1>6, <2>2, ServerCheckStep DEF ServerCheck, TypeOK, Local
  <2>. QED
    BY <2>1, <2>2, <2>3 DEF Local
<1>. QED
  BY <1>3, <1>4, <1>5, <1>6, OneConnection DEF ServerNext

LEMMA LossNestingStep ==
  ASSUME TypeOK, NestingInv
  PROVE  /\ ServerExit => NestingInv'
         /\ \A c \in Conns : ClientHup(c) \/ Reconnect(c) => NestingInv'
<1>1. ASSUME ServerExit, NEW c \in Conns PROVE Local(c)'
  <2>1. /\ cstack'[c] = cstack[c] /\ cres'[c] = cres[c] /\ link'[c] # "up"
        /\ sstack'[c] = <<>> /\ c2s'[c] = <<>> /\ s2c'[c] = <<>> /\ ~sres'[c].disp
    BY <1>1 DEF ServerExit, TypeOK
  <2>2. Local(c)
    BY DEF NestingInv, Local
  <2>3. CASE link[c] = "up"
    <3>1. \/ ~cres[c].disp \/ cres[c].reply = NoMsg \/ ~cres[c].reply.reply
          \/ Waits(cstack[c]) /\ cres[c].reply = ReplyTo(Last(cstack[c]))
      <4>1. CASE Quiet(cres[c])
        BY <4>1 DEF Quiet
      <4>2. CASE Settled(cstack[c], cres[c])
        BY <4>1, <4>2 DEF Settled
      <4>3. CASE Answered(cstack[c], sstack[c], cres[c])
        <5>1. Len(cstack[c]) = Len(sstack[c]) + 1 /\ Len(sstack[c]) \in Nat
          BY <4>3 DEF Answered, WaitsFor, TypeOK
        <5>2. cstack[c] # <<>>
          BY <5>1
        <5>. QED
          BY <4>3, <5>2 DEF Answered, WaitsFor, Waits, Dispatched
      <4>. QED
        BY <2>2, <2>3, <4>1, <4>2, <4>3 DEF Local, Conversation
    <3>. QED
      BY <2>1, <3>1 DEF Local, Gone
  <2>4. CASE link[c] # "up"
    BY <2>1, <2>2, <2>4 DEF Local, Gone
  <2>. QED
    BY <2>3, <2>4
<1>2. ASSUME NEW c \in Conns, ClientHup(c) PROVE NestingInv'
  <2>1. /\ link[c] # "up" /\ link'[c] # "up" /\ cres'[c] = Dispatched(NoMsg)
        /\ cstack'[c] = cstack[c] /\ sstack'[c] = sstack[c] /\ c2s'[c] = c2s[c]
        /\ s2c'[c] = s2c[c] /\ sres'[c] = sres[c]
        /\ \A d \in Conns \ {c} : Untouched(d)
    BY <1>2 DEF ClientHup, TypeOK, Untouched
  <2>2. Local(c)'
    BY <2>1 DEF NestingInv, Local, Gone, Dispatched
  <2>. QED
    BY <2>1, <2>2, OneConnection
<1>3. ASSUME NEW c \in Conns, Reconnect(c) PROVE NestingInv'
  <2>1. /\ link[c] # "up" /\ link'[c] = "up" /\ cstack[c] = <<>>
        /\ cres'[c] = cres[c]
        /\ cstack'[c] = cstack[c] /\ sstack'[c] = sstack[c] /\ c2s'[c] = c2s[c]
        /\ s2c'[c] = s2c[c] /\ sres'[c] = sres[c]
        /\ \A d \in Conns \ {c} : Untouched(d)
    BY <1>3 DEF Reconnect, TypeOK, Untouched
  <2>2. Gone(<<>>, sstack[c], c2s[c], s2c[c], cres[c], sres[c])
    BY <2>1 DEF NestingInv
  <2>3. sstack[c] = <<>> /\ c2s[c] = <<>> /\ s2c[c] = <<>> /\ ~sres[c].disp
    BY <2>2 DEF Gone
  <2>4. PairedFrames(<<>>, <<>>) /\ AppRuns(<<>>, <<>>, <<>>, <<>>)
    BY Parity DEF PairedFrames, AppRuns
  <2>5. Settled(<<>>, cres[c]) /\ Quiet(sres[c])
    BY <2>2, <2>3 DEF Gone, Settled, Quiet, Waits
  <2>6. Local(c)'
    BY <2>1, <2>3, <2>4, <2>5 DEF Local, Conversation
  <2>. QED
    BY <2>1, <2>6, OneConnection
<1>. QED
  BY <1>1, <1>2, <1>3 DEF NestingInv, Local

LEMMA NestingStep == TypeOK /\ NestingInv /\ [LossyNext]_vars => NestingInv'
<1> SUFFICES ASSUME TypeOK, NestingInv, [LossyNext]_vars PROVE NestingInv'
  OBVIOUS
<1>1. CASE NestedNext
  BY <1>1, ClientNestingStep, ServerNestingStep DEF NestedNext
<1>2. CASE ServerExit
  BY <1>2, LossNestingStep
<1>3. CASE \E c \in Conns : ClientHup(c) \/ Reconnect(c)
  BY <1>3, LossNestingStep
<1>4. CASE UNCHANGED vars
  BY <1>4 DEF vars, NestingInv
<1>. QED
  BY <1>1, <1>2, <1>3, <1>4 DEF LossyNext

(* Calls between an application and the daemon nest: on each connection    *)
(* the two stacks mirror each other, one message at most is in flight, and *)
(* a reply in a result is for the innermost wait, however deep the calls   *)
(* go, whatever other applications do to the daemon's stack, and across    *)
(* the end and the restart of the daemon.                                  *)
THEOREM CallsNest == LossySpec => []NestingInv
<1>. QED
  BY TypeInit, TypeStep, NestingInit, NestingStep, PTL DEF LossySpec

LEMMA NestingGivesOwnReply == TypeOK /\ NestingInv => OwnReply
<1> SUFFICES ASSUME TypeOK, NestingInv, NEW c \in Conns
             PROVE  OwnClientReply(c) /\ OwnServerReply(c)
  BY DEF OwnReply
<1>1. Local(c)
  BY DEF NestingInv, Local
<1> DEFINE C == cstack[c]
           S == sstack[c]
<1>2. OwnClientReply(c)
  <2> SUFFICES ASSUME Waits(C), cres[c].disp, cres[c].reply # NoMsg, Ends(Last(C), cres[c])
               PROVE  cres[c].reply.tag = Last(C).tag
    BY DEF OwnClientReply
  <2>1. cres[c].reply.reply /\ C # <<>>
    BY DEF Ends, Waits
  <2>2. cres[c].reply = ReplyTo(Last(C))
    BY <1>1, <2>1 DEF Local, Conversation, Gone, Settled, Quiet, Answered, Dispatched
  <2>. QED
    BY <2>2 DEF ReplyTo
<1>3. OwnServerReply(c)
  <2> SUFFICES ASSUME Waits(S), sres[c].disp, sres[c].reply # NoMsg, Ends(Last(S), sres[c])
               PROVE  sres[c].reply.tag = Last(S).tag
    BY DEF OwnServerReply
  <2>1. sres[c].reply.reply /\ S # <<>>
    BY DEF Ends, Waits
  <2>2. sres[c].reply = ReplyTo(Last(S))
    BY <1>1, <2>1 DEF Local, Conversation, Gone, Settled, Quiet, Answered, Dispatched
  <2>. QED
    BY <2>2 DEF ReplyTo
<1>. QED
  BY <1>2, <1>3

(* No wait ever ends with the reply to another call: the return value that *)
(* nimf_im_filter_event or nimf_nim_ic_emit_retrieve_surrounding reads     *)
(* from the shared result is that of its own call.                         *)
THEOREM WaitsGetTheirOwnReply == LossySpec => []OwnReply
<1>. QED
  BY TypeInit, TypeStep, NestingInit, NestingStep, NestingGivesOwnReply, PTL DEF LossySpec

LEMMA NestingGivesDelivery == TypeOK /\ NestingInv => RepliesReachWaiter
<1> SUFFICES ASSUME TypeOK, NestingInv, NEW c \in Conns
             PROVE  ReplyReaches(s2c[c], cstack[c]) /\ ReplyReaches(c2s[c], sstack[c])
  BY DEF RepliesReachWaiter
<1>1. Local(c) /\ Len(cstack[c]) \in Nat /\ Len(sstack[c]) \in Nat
  BY DEF NestingInv, Local, TypeOK
<1>2. ASSUME s2c[c] # <<>>, Head(s2c[c]).reply
      PROVE  s2c[c] = <<ReplyTo(Last(cstack[c]))>> /\ WaitsFor(cstack[c], sstack[c])
  BY <1>1, <1>2 DEF Local, Conversation, Gone, AppRuns, DaemonRuns, MethodFlies, SignalFlies,
     CallTo, Call
<1>3. ASSUME c2s[c] # <<>>, Head(c2s[c]).reply
      PROVE  c2s[c] = <<ReplyTo(Last(sstack[c]))>> /\ WaitsFor(sstack[c], cstack[c])
  BY <1>1, <1>3 DEF Local, Conversation, Gone, AppRuns, DaemonRuns, MethodFlies, SignalFlies,
     CallTo, Call
<1>4. ASSUME s2c[c] # <<>>, Head(s2c[c]).reply PROVE cstack[c] # <<>>
  BY <1>1, <1>2, <1>4 DEF WaitsFor
<1>5. ASSUME c2s[c] # <<>>, Head(c2s[c]).reply PROVE sstack[c] # <<>>
  BY <1>1, <1>3, <1>5 DEF WaitsFor
<1>. QED
  BY <1>2, <1>3, <1>4, <1>5 DEF ReplyReaches, Waits, WaitsFor, ReplyTo

(* A reply finds its wait innermost: none is read by another wait and      *)
(* thrown away, which would leave its caller iterating for ever.           *)
THEOREM RepliesAreNeverLost == LossySpec => []RepliesReachWaiter
<1>. QED
  BY TypeInit, TypeStep, NestingInit, NestingStep, NestingGivesDelivery, PTL DEF LossySpec

-----------------------------------------------------------------------------
(* The message protocol implements NestedCalls: every step is a call, a     *)
(* return of the innermost call, or invisible.                              *)

LEMMA CallsFacts ==
  ASSUME NEW s \in Seq(Frame)
  PROVE  /\ Calls(s) \in Seq([type: Types, icid: ICs])
         /\ Len(Calls(s)) = Len(s)
         /\ \A k \in 1 .. Len(s) : Calls(s)[k] = CallOf(s[k])
<1>1. \A f \in Frame : CallOf(f) \in [type: Types, icid: ICs]
  BY DEF Frame, CallOf
<1>2. \A k \in 1 .. Len(s) : CallOf(s[k]) \in [type: Types, icid: ICs]
  BY <1>1
<1>. QED
  BY <1>2 DEF Calls

LEMMA SameCalls ==
  ASSUME NEW s \in Seq(Frame), NEW t \in Seq(Frame), Len(s) = Len(t),
         \A k \in 1 .. Len(s) : CallOf(s[k]) = CallOf(t[k])
  PROVE  Calls(s) = Calls(t)
  BY DEF Calls

LEMMA CallsOfPairs ==
  ASSUME NEW C \in Seq(Frame), NEW S \in Seq(Frame), PairedFrames(C, S), Len(C) = Len(S)
  PROVE  Calls(C) = Calls(S)
  BY SameCalls DEF PairedFrames, Matched

LEMMA CallsOfAppend ==
  ASSUME NEW s \in Seq(Frame), NEW f \in Frame
  PROVE  Calls(Append(s, f)) = Append(Calls(s), CallOf(f))
<1> DEFINE t == Append(s, f)
           T == [type: Types, icid: ICs]
<1>1. /\ t \in Seq(Frame) /\ Len(t) = Len(s) + 1 /\ t[Len(s) + 1] = f
      /\ \A k \in 1 .. Len(s) : t[k] = s[k]
  BY AppendFacts
<1>2. CallOf(f) \in T
  BY DEF Frame, CallOf
<1> HIDE DEF t
<1>3. /\ Calls(t) \in Seq(T) /\ Len(Calls(t)) = Len(s) + 1
      /\ \A k \in 1 .. Len(s) + 1 : Calls(t)[k] = CallOf(t[k])
  BY <1>1, CallsFacts
<1> DEFINE u == Append(Calls(s), CallOf(f))
<1>4. /\ u \in Seq(T) /\ Len(u) = Len(s) + 1 /\ u[Len(s) + 1] = CallOf(f)
      /\ \A k \in 1 .. Len(s) : u[k] = CallOf(s[k])
  <2> DEFINE v == Calls(s)
  <2>1. v \in Seq(T) /\ Len(v) = Len(s) /\ \A k \in 1 .. Len(s) : v[k] = CallOf(s[k])
    BY CallsFacts
  <2> HIDE DEF v, T
  <2>2. /\ Append(v, CallOf(f)) \in Seq(T) /\ Len(Append(v, CallOf(f))) = Len(v) + 1
        /\ \A k \in 1 .. Len(v) : Append(v, CallOf(f))[k] = v[k]
        /\ Append(v, CallOf(f))[Len(v) + 1] = CallOf(f)
    BY <1>2, <2>1, AppendFacts
  <2>. QED
    BY <2>1, <2>2 DEF v
<1> HIDE DEF u, T
<1>5. \A k \in 1 .. Len(s) + 1 : Calls(t)[k] = u[k]
  BY <1>1, <1>3, <1>4
<1>6. Calls(t) = u
  BY <1>3, <1>4, <1>5, SeqEqual
<1>. QED
  BY <1>6 DEF t, u

LEMMA CallsOfFront ==
  ASSUME NEW s \in Seq(Frame), s # <<>>
  PROVE  Calls(Front(s)) = Front(Calls(s)) /\ Calls(s) # <<>>
<1> DEFINE T == [type: Types, icid: ICs]
           t == Front(s)
           c == Calls(s)
           u == Front(c)
<1>1. /\ t \in Seq(Frame) /\ Len(s) \in Nat \ {0} /\ Len(t) = Len(s) - 1
      /\ \A k \in 1 .. Len(s) - 1 : t[k] = s[k]
  BY FrontFacts
<1>2. c \in Seq(T) /\ Len(c) = Len(s) /\ \A k \in 1 .. Len(s) : c[k] = CallOf(s[k])
  BY CallsFacts
<1> HIDE DEF t, c, T
<1>3. c # <<>>
  BY <1>1, <1>2
<1>4. /\ u \in Seq(T) /\ Len(u) = Len(s) - 1
      /\ \A k \in 1 .. Len(s) - 1 : u[k] = c[k]
  BY <1>2, <1>3, FrontFacts
<1>5. /\ Calls(t) \in Seq(T) /\ Len(Calls(t)) = Len(s) - 1
      /\ \A k \in 1 .. Len(s) - 1 : Calls(t)[k] = CallOf(t[k])
  BY <1>1, CallsFacts DEF T
<1> HIDE DEF u
<1>6. \A k \in 1 .. Len(s) - 1 : Calls(t)[k] = u[k]
  BY <1>1, <1>2, <1>4, <1>5
<1>7. Calls(t) = u
  BY <1>4, <1>5, <1>6, SeqEqual
<1>. QED
  BY <1>3, <1>7 DEF t, u, c

-----------------------------------------------------------------------------
(* What a step does to the calls in progress of its connection.            *)

(* The daemon or the application makes a call when both stacks are as high. *)
LEMMA CallStep ==
  ASSUME NEW C \in Seq(Frame), NEW S \in Seq(Frame), PairedFrames(C, S), Len(C) = Len(S),
         NEW m \in Message
  PROVE  /\ C = <<>> \/ Last(C).left > 0 =>
              InProgress(Append(Spend(C), Wait(m)), S) = Append(InProgress(C, S), CallOf(m))
         /\ S = <<>> \/ Last(S).left > 0 =>
              InProgress(C, Append(Spend(S), Wait(m))) = Append(InProgress(C, S), CallOf(m))
         /\ Len(InProgress(C, S)) = Len(C)
<1>1. Wait(m) \in Frame /\ CallOf(Wait(m)) = CallOf(m)
  BY MessageFacts DEF Wait, CallOf
<1>2. InProgress(C, S) = Calls(C) /\ Calls(C) = Calls(S)
  BY CallsOfPairs DEF InProgress
<1>3. ASSUME NEW s \in Seq(Frame), s = <<>> \/ Last(s).left > 0
      PROVE  /\ Calls(Append(Spend(s), Wait(m))) = Append(Calls(s), CallOf(m))
             /\ Len(Append(Spend(s), Wait(m))) = Len(s) + 1
  <2> DEFINE t == Spend(s)
  <2>1. /\ t \in Seq(Frame) /\ Len(t) = Len(s)
        /\ \A k \in 1 .. Len(s) : CallOf(t[k]) = CallOf(s[k])
    BY <1>3, SpendFacts
  <2> HIDE DEF t
  <2>2. Calls(t) = Calls(s)
    BY <2>1, SameCalls
  <2>3. Calls(Append(t, Wait(m))) = Append(Calls(t), CallOf(Wait(m)))
    BY <1>1, <2>1, CallsOfAppend
  <2>4. Len(Append(t, Wait(m))) = Len(t) + 1
    BY <1>1, <2>1, AppendFacts
  <2>. QED
    BY <1>1, <2>1, <2>2, <2>3, <2>4 DEF t
<1>4. ASSUME C = <<>> \/ Last(C).left > 0
      PROVE  InProgress(Append(Spend(C), Wait(m)), S) = Append(InProgress(C, S), CallOf(m))
  BY <1>2, <1>3, <1>4 DEF InProgress
<1>5. ASSUME S = <<>> \/ Last(S).left > 0
      PROVE  InProgress(C, Append(Spend(S), Wait(m))) = Append(InProgress(C, S), CallOf(m))
  BY <1>2, <1>3, <1>5 DEF InProgress
<1>. QED
  BY <1>2, <1>4, <1>5, CallsFacts

(* The callee's frame comes and goes below the caller's wait, unseen.      *)
LEMMA CalleeStep ==
  ASSUME NEW C \in Seq(Frame), NEW S \in Seq(Frame), PairedFrames(C, S), Len(C) = Len(S)
  PROVE  /\ C # <<>> => InProgress(Front(C), S) = InProgress(C, S)
         /\ S # <<>> => InProgress(C, Front(S)) = InProgress(C, S)
<1>1. Calls(C) = Calls(S)
  BY CallsOfPairs
<1>2. /\ C # <<>> => Len(Front(C)) = Len(C) - 1
      /\ S # <<>> => Len(Front(S)) = Len(S) - 1
  BY FrontFacts
<1>. QED
  BY <1>1, <1>2 DEF InProgress

(* The caller's wait ends: the innermost call returns.                     *)
LEMMA ReturnStep ==
  ASSUME NEW C \in Seq(Frame), NEW S \in Seq(Frame), PairedFrames(C, S)
  PROVE  /\ Len(C) = Len(S) + 1 =>
              InProgress(C, S) # <<>> /\ InProgress(Front(C), S) = Front(InProgress(C, S))
         /\ Len(S) = Len(C) + 1 =>
              InProgress(C, S) # <<>> /\ InProgress(C, Front(S)) = Front(InProgress(C, S))
<1>1. ASSUME Len(C) = Len(S) + 1
      PROVE  InProgress(C, S) # <<>> /\ InProgress(Front(C), S) = Front(InProgress(C, S))
  <2>1. C # <<>> /\ InProgress(C, S) = Calls(C)
    BY <1>1 DEF InProgress
  <2>2. Len(Front(C)) = Len(S)
    BY <1>1, <2>1, FrontFacts
  <2>3. InProgress(Front(C), S) = Calls(Front(C))
    BY <2>2 DEF InProgress
  <2>. QED
    BY <2>1, <2>3, CallsOfFront
<1>2. ASSUME Len(S) = Len(C) + 1
      PROVE  InProgress(C, S) # <<>> /\ InProgress(C, Front(S)) = Front(InProgress(C, S))
  <2>1. S # <<>> /\ InProgress(C, S) = Calls(S)
    BY <1>2 DEF InProgress
  <2>2. Len(Front(S)) = Len(C) /\ Front(S) \in Seq(Frame)
    BY <1>2, <2>1, FrontFacts
  <2>3. PairedFrames(C, Front(S))
    BY <2>1, PopPaired
  <2>4. InProgress(C, Front(S)) = Calls(Front(S))
    BY <2>2, <2>3, CallsOfPairs DEF InProgress
  <2>. QED
    BY <2>1, <2>4, CallsOfFront
<1>. QED
  BY <1>1, <1>2

-----------------------------------------------------------------------------
(* The refinement.                                                         *)

LEMMA OneConversation ==
  ASSUME NEW c \in Conns, \A d \in Conns \ {c} : Untouched(d)
  PROVE  CallsInProgress' =
           [CallsInProgress EXCEPT ![c] = InProgress(cstack'[c], sstack'[c])]
  BY DEF CallsInProgress, Untouched

(* A call, by the application or by the daemon, is a call of NestedCalls.  *)
LEMMA CallRefines ==
  ASSUME NEW c \in Conns, \A d \in Conns \ {c} : Untouched(d),
         NEW type \in Types, NEW icid \in ICs, NEW tag \in Nat,
         InProgress(cstack'[c], sstack'[c])
           = Append(InProgress(cstack[c], sstack[c]), CallOf(Call(type, icid, tag))),
         type \in Abs!Offered(Len(InProgress(cstack[c], sstack[c])))
  PROVE  Abs!Next
<1>1. CallsInProgress[c] = InProgress(cstack[c], sstack[c])
  BY DEF CallsInProgress
<1>2. CallOf(Call(type, icid, tag)) = [type |-> type, icid |-> icid]
  BY DEF CallOf, Call
<1>3. Abs!Call(c, type, icid)
  BY <1>1, <1>2, OneConversation DEF Abs!Call
<1>. QED
  BY <1>3 DEF Abs!Next, Types

LEMMA ReturnRefines ==
  ASSUME NEW c \in Conns, \A d \in Conns \ {c} : Untouched(d),
         InProgress(cstack[c], sstack[c]) # <<>>,
         InProgress(cstack'[c], sstack'[c]) = Front(InProgress(cstack[c], sstack[c]))
  PROVE  Abs!Next
<1>1. CallsInProgress[c] = InProgress(cstack[c], sstack[c])
  BY DEF CallsInProgress
<1>2. Abs!Return(c)
  BY <1>1, OneConversation DEF Abs!Return, Abs!Front, Front
<1>. QED
  BY <1>2 DEF Abs!Next

LEMMA SilentRefines ==
  ASSUME NEW c \in Conns, \A d \in Conns \ {c} : Untouched(d),
         InProgress(cstack'[c], sstack'[c]) = InProgress(cstack[c], sstack[c])
  PROVE  UNCHANGED CallsInProgress
<1>1. \A d \in Conns : InProgress(cstack'[d], sstack'[d]) = InProgress(cstack[d], sstack[d])
  BY DEF Untouched
<1>. QED
  BY <1>1 DEF CallsInProgress

LEMMA ClientRefines ==
  ASSUME TypeOK, NestingInv, NEW c \in Conns, link[c] = "up", ClientNext(c)
  PROVE  Abs!Next \/ UNCHANGED CallsInProgress
<1> DEFINE C == cstack[c]
           S == sstack[c]
<1>1. /\ Conversation(C, S, c2s[c], s2c[c], cres[c], sres[c]) /\ PairedFrames(C, S)
      /\ C \in Seq(Frame) /\ S \in Seq(Frame) /\ Len(C) \in Nat /\ Len(S) \in Nat
  BY DEF NestingInv, Conversation, TypeOK
<1>2. ASSUME NEW type \in Methods, NEW icid \in ICs, ClientCall(c, type, icid)
      PROVE  Abs!Next
  <2> DEFINE tag == Len(C) + 1
             m == Call(type, icid, tag)
  <2>1. /\ cstack'[c] = Append(Spend(C), Wait(m)) /\ sstack'[c] = S
        /\ \A d \in Conns \ {c} : Untouched(d)
    BY <1>2 DEF ClientCall, TypeOK, Untouched
  <2>2. Len(C) = Len(S) /\ ~Odd(Len(C))
    BY <1>1, <1>2, AppTurn DEF ClientCall, AppRuns
  <2>3. m \in Message /\ type \in Types /\ tag \in Nat
    BY <1>1, MessageFacts DEF Types
  <2>4. /\ InProgress(cstack'[c], sstack'[c]) = Append(InProgress(C, S), CallOf(m))
        /\ Len(InProgress(C, S)) = Len(C)
    <3>1. C = <<>> \/ Last(C).left > 0
      BY <1>2 DEF ClientCall
    <3> HIDE DEF m, tag, C, S
    <3>. QED
      BY <1>1, <2>1, <2>2, <2>3, <3>1, CallStep
  <2>5. type \in Abs!Offered(Len(InProgress(C, S)))
    <3>1. \A n \in Nat : ~Odd(n) => n % 2 = 0
      BY DEF Odd
    <3>. QED
      BY <1>1, <2>2, <2>4, <3>1 DEF Abs!Offered
  <2>. QED
    BY <2>1, <2>3, <2>4, <2>5, CallRefines
<1>3. ASSUME ClientReceive(c) PROVE UNCHANGED CallsInProgress
  <2> DEFINE m == Head(s2c[c])
             f == Handler(m, CallbackBudget)
  <2>1. /\ cstack'[c] = IF m.reply THEN C ELSE Append(C, f)
        /\ sstack'[c] = S /\ s2c[c] # <<>>
        /\ \A d \in Conns \ {c} : Untouched(d)
    BY <1>3 DEF ClientReceive, TypeOK, Untouched
  <2>2. CASE m.reply
    BY <2>1, <2>2, SilentRefines
  <2>3. CASE ~m.reply
    <3>1. Conversation(Append(C, f), S, c2s'[c], s2c'[c], cres'[c], sres'[c])
      BY <1>3, <2>1, <2>3, ClientNestingStep DEF NestingInv, ClientReceive, TypeOK, ClientNext
    <3>2. SignalFlies(C, S, c2s[c], s2c[c])
      BY <1>1, <2>1, <2>3 DEF Conversation, AppRuns, DaemonRuns, MethodFlies, ReplyTo
    <3>3. m \in Message /\ f \in Frame
      BY <2>1, MessageFacts, BoundsAssumption, HeadTailProperties DEF TypeOK
    <3>4. Len(S) = Len(C) + 1 /\ Len(Append(C, f)) = Len(S) /\ Append(C, f) \in Seq(Frame)
      BY <1>1, <3>2, <3>3, AppendFacts DEF SignalFlies, WaitsFor
    <3>5. Calls(Append(C, f)) = Calls(S)
      BY <1>1, <3>1, <3>4, CallsOfPairs DEF Conversation
    <3>6. InProgress(Append(C, f), S) = InProgress(C, S)
      BY <1>1, <3>4, <3>5 DEF InProgress
    <3>. QED
      BY <2>1, <2>3, <3>6, SilentRefines
  <2>. QED
    BY <2>2, <2>3
<1>4. ASSUME ClientReturn(c) PROVE UNCHANGED CallsInProgress
  <2>1. /\ cstack'[c] = Front(C) /\ sstack'[c] = S /\ C # <<>>
        /\ \A d \in Conns \ {c} : Untouched(d)
    BY <1>4 DEF ClientReturn, Runs, TypeOK, Untouched
  <2>2. Len(C) = Len(S)
    BY <1>1, <1>4, AppTurn DEF ClientReturn, AppRuns
  <2>. QED
    BY <1>1, <2>1, <2>2, CalleeStep, SilentRefines
<1>5. ASSUME ClientCheck(c) PROVE Abs!Next \/ UNCHANGED CallsInProgress
  <2>1. /\ cstack'[c] = AfterCheck(C, cres[c]) /\ sstack'[c] = S /\ cres[c].disp
        /\ Waits(C) /\ \A d \in Conns \ {c} : Untouched(d)
    BY <1>5 DEF ClientCheck, TypeOK, Untouched
  <2>2. CASE ~Ends(Last(C), cres[c])
    BY <2>1, <2>2, SilentRefines DEF AfterCheck
  <2>3. CASE Ends(Last(C), cres[c])
    <3>1. Len(C) = Len(S) + 1
      BY <1>1, <2>1, <2>3
      DEF Conversation, Settled, Quiet, Ends, Answered, WaitsFor, Waits
    <3>. QED
      BY <1>1, <2>1, <2>3, <3>1, ReturnStep, ReturnRefines DEF AfterCheck
  <2>. QED
    BY <2>2, <2>3
<1>. QED
  BY <1>2, <1>3, <1>4, <1>5 DEF ClientNext

LEMMA ServerRefines ==
  ASSUME TypeOK, NestingInv, NEW c \in Conns, link[c] = "up", ServerNext(c)
  PROVE  Abs!Next \/ UNCHANGED CallsInProgress
<1> DEFINE C == cstack[c]
           S == sstack[c]
<1>1. /\ Conversation(C, S, c2s[c], s2c[c], cres[c], sres[c]) /\ PairedFrames(C, S)
      /\ C \in Seq(Frame) /\ S \in Seq(Frame) /\ Len(C) \in Nat /\ Len(S) \in Nat
  BY DEF NestingInv, Conversation, TypeOK
<1>2. ASSUME ServerReceive(c) PROVE UNCHANGED CallsInProgress
  <2> DEFINE m == Head(c2s[c])
             budget == IF m.type \in Emitting THEN SignalBudget ELSE 0
             f == Handler(m, budget)
  <2>1. /\ sstack'[c] = IF m.reply THEN S ELSE Append(S, f)
        /\ cstack'[c] = C /\ c2s[c] # <<>>
        /\ \A d \in Conns \ {c} : Untouched(d)
    BY <1>2 DEF ServerReceive, TypeOK, Untouched
  <2>2. CASE m.reply
    BY <2>1, <2>2, SilentRefines
  <2>3. CASE ~m.reply
    <3>1. MethodFlies(C, S, c2s[c], s2c[c])
      BY <1>1, <2>1, <2>3 DEF Conversation, AppRuns, DaemonRuns, SignalFlies, ReplyTo
    <3>2. m \in Message /\ budget \in Nat
      BY <2>1, BoundsAssumption, HeadTailProperties DEF TypeOK
    <3>3. f \in Frame
      BY <3>2, MessageFacts
    <3>4. Len(C) = Len(S) + 1 /\ Len(Append(S, f)) = Len(C)
      BY <1>1, <3>1, <3>3, AppendFacts DEF MethodFlies, WaitsFor
    <3>5. InProgress(C, Append(S, f)) = InProgress(C, S)
      BY <1>1, <3>4 DEF InProgress
    <3>. QED
      BY <2>1, <2>3, <3>5, SilentRefines
  <2>. QED
    BY <2>2, <2>3
<1>3. ASSUME NEW type \in Signals, Emit(c, type) PROVE Abs!Next
  <2> DEFINE icid == Last(S).icid
             tag == Len(S) + 1
             m == Call(type, icid, tag)
  <2>1. /\ sstack'[c] = Append(Spend(S), Wait(m)) /\ cstack'[c] = C
        /\ S # <<>> /\ Runs(S) /\ Last(S).left > 0
        /\ \A d \in Conns \ {c} : Untouched(d)
    BY <1>3 DEF Emit, Runs, TypeOK, Untouched
  <2>2. Len(C) = Len(S) /\ Odd(Len(C))
    BY <1>1, <2>1, DaemonTurn DEF DaemonRuns
  <2>3. type \in Types /\ icid \in ICs /\ tag \in Nat
    <3>1. Last(S) \in Frame
      BY <1>1, <2>1, FrontFacts
    <3>. QED
      BY <1>1, <3>1 DEF Frame, Types
  <2> HIDE DEF icid
  <2>4. m \in Message
    BY <2>3, MessageFacts
  <2>5. /\ InProgress(cstack'[c], sstack'[c]) = Append(InProgress(C, S), CallOf(m))
        /\ Len(InProgress(C, S)) = Len(C)
    BY <1>1, <2>1, <2>2, <2>4, CallStep
  <2>6. type \in Abs!Offered(Len(InProgress(C, S)))
    <3>1. \A n \in Nat : Odd(n) => n % 2 # 0
      BY DEF Odd
    <3>. QED
      BY <1>1, <2>2, <2>5, <3>1 DEF Abs!Offered
  <2>. QED
    BY <2>1, <2>3, <2>5, <2>6, CallRefines
<1>4. ASSUME ServerReturn(c) PROVE UNCHANGED CallsInProgress
  <2>1. /\ sstack'[c] = Front(S) /\ cstack'[c] = C /\ S # <<>> /\ Runs(S)
        /\ \A d \in Conns \ {c} : Untouched(d)
    BY <1>4 DEF ServerReturn, Runs, TypeOK, Untouched
  <2>2. Len(C) = Len(S)
    BY <1>1, <2>1, DaemonTurn DEF DaemonRuns
  <2>. QED
    BY <1>1, <2>1, <2>2, CalleeStep, SilentRefines
<1>5. ASSUME ServerCheck(c) PROVE Abs!Next \/ UNCHANGED CallsInProgress
  <2>1. /\ sstack'[c] = AfterCheck(S, sres[c]) /\ cstack'[c] = C /\ sres[c].disp
        /\ Waits(S) /\ \A d \in Conns \ {c} : Untouched(d)
    BY <1>5 DEF ServerCheck, TypeOK, Untouched
  <2>2. CASE ~Ends(Last(S), sres[c])
    BY <2>1, <2>2, SilentRefines DEF AfterCheck
  <2>3. CASE Ends(Last(S), sres[c])
    <3>1. Len(S) = Len(C) + 1
      BY <1>1, <2>1, <2>3 DEF Conversation, Quiet, Ends, Answered, WaitsFor
    <3>. QED
      BY <1>1, <2>1, <2>3, <3>1, ReturnStep, ReturnRefines DEF AfterCheck
  <2>. QED
    BY <2>2, <2>3
<1>. QED
  BY <1>2, <1>3, <1>4, <1>5 DEF ServerNext

AllUp == \A c \in Conns : link[c] = "up"

LEMMA NestedInit == Init => AllUp /\ Abs!Init
<1>1. ASSUME Init PROVE AllUp
  BY <1>1 DEF Init, AllUp
<1>2. ASSUME Init PROVE Abs!Init
  <2>1. Calls(<<>>) = <<>>
    BY DEF Calls
  <2>. QED
    BY <1>2, <2>1 DEF Init, Abs!Init, CallsInProgress, InProgress
<1>. QED
  BY <1>1, <1>2

LEMMA NestedKeepsUp == AllUp /\ [NestedNext]_vars => AllUp'
  BY DEF AllUp, NestedNext, vars, ClientNext, ServerNext, ClientCall, ClientReceive,
     ClientReturn, ClientCheck, ServerReceive, Emit, ServerReturn, ServerCheck

LEMMA NestedRefines ==
  TypeOK /\ NestingInv /\ AllUp /\ [NestedNext]_vars => [Abs!Next]_CallsInProgress
<1> SUFFICES ASSUME TypeOK, NestingInv, AllUp, [NestedNext]_vars
             PROVE  Abs!Next \/ UNCHANGED CallsInProgress
  OBVIOUS
<1>1. CASE NestedNext
  BY <1>1, ClientRefines, ServerRefines DEF NestedNext, AllUp
<1>2. CASE UNCHANGED vars
  BY <1>2 DEF vars, CallsInProgress
<1>. QED
  BY <1>1, <1>2

(* While the daemon lives, the messages, results and main loops of libnimf *)
(* give its callers nested synchronous calls: only the innermost call can  *)
(* return, and the two ends take turns in calling.                         *)
THEOREM Implements == NestedSpec => ImplementsNestedCalls
<1>1. [NestedNext]_vars => [LossyNext]_vars
  BY DEF LossyNext
<1>. QED
  BY <1>1, TypeInit, TypeStep, NestingInit, NestingStep, NestedInit, NestedKeepsUp,
     NestedRefines, PTL DEF NestedSpec, ImplementsNestedCalls, Abs!Spec
=============================================================================
