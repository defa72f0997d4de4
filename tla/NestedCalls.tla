---------------------------- MODULE NestedCalls ----------------------------
(***************************************************************************)
(* What libnimf promises to its callers: a connection is one conversation  *)
(* of nested synchronous calls.  The application calls a method, the       *)
(* daemon may call back with a signal before it answers, the callback may  *)
(* call a method again, and so on; the only call that can return is the    *)
(* one made last.  There are no messages here.                             *)
(***************************************************************************)
EXTENDS Naturals, SequencesExt

CONSTANTS Conns, ICs, Methods, Signals

VARIABLE calls  \* per connection, the calls that have not returned

Init == calls = [c \in Conns |-> <<>>]

(* It is the application's turn when no call or a signal is innermost.     *)
Offered(depth) == IF depth % 2 = 0 THEN Methods ELSE Signals

Call(c, type, icid) ==
  /\ type \in Offered(Len(calls[c]))
  /\ calls' = [calls EXCEPT ![c] = Append(@, [type |-> type, icid |-> icid])]

Return(c) ==
  /\ calls[c] # <<>>
  /\ calls' = [calls EXCEPT ![c] = Front(@)]

Next ==
  \E c \in Conns :
    \/ \E type \in Methods \cup Signals, icid \in ICs : Call(c, type, icid)
    \/ Return(c)

Spec == Init /\ [][Next]_calls
=============================================================================
