------------------------------ MODULE NimfRpc ------------------------------
(***************************************************************************)
(* The message protocol between an application that uses libnimf (NimfIM)  *)
(* and the nimf daemon (the nimf-nim service).                             *)
(*                                                                         *)
(* Both ends make synchronous calls over one stream socket: the client     *)
(* calls a method of its input context, the server emits a signal of it,   *)
(* and the caller iterates a main context until "the" reply has arrived.   *)
(* While it waits it keeps serving the other end, so that calls nest: one  *)
(* NimfResult per connection and per side is shared by all the waits on    *)
(* its C stack.  The daemon is one thread: its waits iterate the default   *)
(* main context and so nest across connections too.                        *)
(***************************************************************************)
EXTENDS Naturals, SequencesExt

CONSTANTS
  Conns,           \* applications connected to the daemon
  ICs,             \* input context ids of an application
  Methods,         \* call types, client to server (FILTER_EVENT, RESET, ...)
  Signals,         \* call types, server to client (COMMIT, PREEDIT_END, ...)
  Emitting,        \* the methods whose handler may emit signals
  SignalBudget,    \* bound: signals one server handler emits
  CallbackBudget,  \* bound: methods one client callback calls
  MaxDepth,        \* bound: frames on one stack
  NoMsg            \* a NULL NimfMessage pointer

ASSUME MethodsAssumption == Emitting \subseteq Methods /\ Methods \cap Signals = {}
ASSUME BoundsAssumption ==
  SignalBudget \in Nat /\ CallbackBudget \in Nat /\ MaxDepth \in Nat
ASSUME NoMsgAssumption ==
  NoMsg \notin [reply: BOOLEAN, type: Methods \cup Signals, icid: ICs, tag: Nat]

VARIABLES
  cstack,  \* C stack of the client: its waits and its callbacks
  sstack,  \* part of the daemon's C stack that belongs to a connection
  order,   \* whose frames the daemon's C stack holds, outermost first
  c2s,     \* bytes in flight to the daemon
  s2c,     \* bytes in flight to the client
  cres,    \* nimf_im_result of the client
  sres,    \* connection->result of the daemon
  link     \* "up", "hup": the daemon has gone, "closed": the client knows

vars == <<cstack, sstack, order, c2s, s2c, cres, sres, link>>

Types == Methods \cup Signals

(* tag is a history field: the depth of the wait that a call belongs to.   *)
(* No guard reads it.                                                      *)
Message == [reply: BOOLEAN, type: Types, icid: ICs, tag: Nat]

(* A "wait" is a running nimf_result_iteration_until, a "handler" the      *)
(* dispatch of a call of the other end, an "event" a callback of the       *)
(* daemon that no client asked for.  left bounds the calls it makes.       *)
Frame == [kind: {"wait", "handler", "event"}, type: Types, icid: ICs,
          tag: Nat, left: Nat]

Result == [disp: BOOLEAN, reply: Message \cup {NoMsg}]

Call(type, icid, tag) == [reply |-> FALSE, type |-> type, icid |-> icid, tag |-> tag]
ReplyTo(f) == [reply |-> TRUE, type |-> f.type, icid |-> f.icid, tag |-> f.tag]

Wait(m) == [kind |-> "wait", type |-> m.type, icid |-> m.icid, tag |-> m.tag, left |-> 0]
Handler(m, left) ==
  [kind |-> "handler", type |-> m.type, icid |-> m.icid, tag |-> m.tag, left |-> left]

(* The type of an event's frame is never read: it answers nobody.          *)
Event(icid) ==
  [kind |-> "event", type |-> CHOOSE t \in Types : TRUE, icid |-> icid,
   tag |-> 0, left |-> SignalBudget]

TypeOK ==
  /\ cstack \in [Conns -> Seq(Frame)]
  /\ sstack \in [Conns -> Seq(Frame)]
  /\ order \in Seq(Conns)
  /\ c2s \in [Conns -> Seq(Message)]
  /\ s2c \in [Conns -> Seq(Message)]
  /\ cres \in [Conns -> Result]
  /\ sres \in [Conns -> Result]
  /\ link \in [Conns -> {"up", "hup", "closed"}]

Init ==
  /\ cstack = [c \in Conns |-> <<>>]
  /\ sstack = [c \in Conns |-> <<>>]
  /\ order = <<>>
  /\ c2s = [c \in Conns |-> <<>>]
  /\ s2c = [c \in Conns |-> <<>>]
  /\ cres = [c \in Conns |-> [disp |-> FALSE, reply |-> NoMsg]]
  /\ sres = [c \in Conns |-> [disp |-> FALSE, reply |-> NoMsg]]
  /\ link = [c \in Conns |-> "up"]

-----------------------------------------------------------------------------
(* nimf_result_iteration_until                                             *)

Waits(stack) == stack # <<>> /\ Last(stack).kind = "wait"

(* The code of a handler or of an event callback runs on top of the stack. *)
Runs(stack) == stack # <<>> /\ Last(stack).kind # "wait"

(* Mutant: nobody resets is_dispatched.                                    *)
StillDispatched(res) == res

(* Entering or re-entering the loop, and leaving it, resets is_dispatched. *)
Undispatched(res) == [res EXCEPT !.disp = FALSE]

(* What the dispatch of the socket source leaves in the result.            *)
Dispatched(m) == [disp |-> TRUE, reply |-> m]

(* Mutant: whatever is dispatched ends the wait.                           *)
EndsAnyhow(f, res) == TRUE

(* Mutant: the loop goes on when there is no message.                      *)
EndsWithReply(f, res) ==
  res.reply # NoMsg /\ res.reply.reply /\ res.reply.type = f.type /\ res.reply.icid = f.icid

(* The loop condition after an iteration that dispatched the socket: a     *)
(* NULL reply ends the wait too.                                           *)
Ends(f, res) ==
  \/ res.reply = NoMsg
  \/ /\ res.reply.reply
     /\ res.reply.type = f.type
     /\ res.reply.icid = f.icid

AfterCheck(stack, res) ==
  IF Ends(Last(stack), res) THEN Front(stack) ELSE stack

(* The callback or the handler at the top has made one more call.          *)
Spend(stack) ==
  IF stack = <<>> THEN stack
  ELSE [stack EXCEPT ![Len(stack)].left = @ - 1]

(* nimf_send_message: what is sent to a peer that has gone is lost.        *)
Sent(channel, c, m) == IF link[c] = "up" THEN Append(channel, m) ELSE channel

-----------------------------------------------------------------------------
(* The application, one thread per connection: nimf-im.c                   *)

(* nimf_im_filter_event, _reset, _focus_in, ...: from the application's    *)
(* own code, or from a callback of a signal.                               *)
ClientCall(c, type, icid) ==
  LET m == Call(type, icid, Len(cstack[c]) + 1) IN
  /\ link[c] # "closed"
  /\ cstack[c] = <<>> \/ (Runs(cstack[c]) /\ Last(cstack[c]).left > 0)
  /\ Len(cstack[c]) < MaxDepth
  /\ c2s' = [c2s EXCEPT ![c] = Sent(@, c, m)]
  /\ cstack' = [cstack EXCEPT ![c] = Append(Spend(@), Wait(m))]
  /\ cres' = [cres EXCEPT ![c] = Undispatched(@)]
  /\ UNCHANGED <<sstack, order, s2c, sres, link>>

(* The default main context when the application is idle, nimf_im_context  *)
(* when it waits: both have a source on the socket.                        *)
ClientIterates(c) ==
  cstack[c] = <<>> \/ (Waits(cstack[c]) /\ ~cres[c].disp)

(* on_incoming_message: a signal runs the callbacks of the application.    *)
ClientReceive(c) ==
  LET m == Head(s2c[c]) IN
  /\ link[c] = "up"
  /\ ClientIterates(c)
  /\ s2c[c] # <<>>
  /\ s2c' = [s2c EXCEPT ![c] = Tail(@)]
  /\ cres' = [cres EXCEPT ![c] = Dispatched(m)]
  /\ cstack' = [cstack EXCEPT ![c] =
                  IF m.reply THEN @ ELSE Append(@, Handler(m, CallbackBudget))]
  /\ UNCHANGED <<sstack, order, c2s, sres, link>>

(* The end of on_incoming_message: the reply to the signal.                *)
ClientReturn(c) ==
  /\ Runs(cstack[c])
  /\ c2s' = [c2s EXCEPT ![c] = Sent(@, c, ReplyTo(Last(cstack[c])))]
  /\ cstack' = [cstack EXCEPT ![c] = Front(@)]
  /\ UNCHANGED <<sstack, order, s2c, cres, sres, link>>

(* The iteration of the innermost wait has dispatched the socket.          *)
ClientCheck(c) ==
  /\ Waits(cstack[c])
  /\ cres[c].disp
  /\ cstack' = [cstack EXCEPT ![c] = AfterCheck(@, cres[c])]
  /\ cres' = [cres EXCEPT ![c] = Undispatched(@)]
  /\ UNCHANGED <<sstack, order, c2s, s2c, sres, link>>

(* on_incoming_message with G_IO_HUP: what is still in the socket is       *)
(* dropped, and no source is left that could dispatch again.               *)
ClientHup(c) ==
  /\ link[c] = "hup"
  /\ ClientIterates(c)
  /\ link' = [link EXCEPT ![c] = "closed"]
  /\ cres' = [cres EXCEPT ![c] = Dispatched(NoMsg)]
  /\ UNCHANGED <<cstack, sstack, order, c2s, s2c, sres>>

(* on_changed or nimf_im_init, and the nimf_im_connect they call, from the *)
(* application's own code: a new socket to a new daemon.                   *)
Reconnect(c) ==
  /\ link[c] = "closed"
  /\ cstack[c] = <<>>
  /\ link' = [link EXCEPT ![c] = "up"]
  /\ UNCHANGED <<cstack, sstack, order, c2s, s2c, cres, sres>>

-----------------------------------------------------------------------------
(* The daemon, one thread: nimf-nim.c and nimf-nim-ic.c                    *)

(* The main loop, or the wait at the top of the C stack, iterates the      *)
(* default main context, which has the sources of all connections.         *)
Iterates == order # <<>> => Waits(sstack[Last(order)])

(* c's frame is the top of the daemon's C stack.                           *)
OnTop(c) == order # <<>> /\ Last(order) = c

(* on_incoming: a method of the client is handled, a reply is left to the  *)
(* wait.  A source is dispatched once per iteration, so the reply that the *)
(* wait on top has got is looked at before another message is read.        *)
ServerReceive(c) ==
  LET m == Head(c2s[c])
      budget == IF m.type \in Emitting THEN SignalBudget ELSE 0 IN
  /\ link[c] = "up"
  /\ Iterates
  /\ ~(OnTop(c) /\ sres[c].disp)
  /\ c2s[c] # <<>>
  /\ c2s' = [c2s EXCEPT ![c] = Tail(@)]
  /\ sres' = [sres EXCEPT ![c] = Dispatched(m)]
  /\ sstack' = [sstack EXCEPT ![c] =
                  IF m.reply THEN @ ELSE Append(@, Handler(m, budget))]
  /\ order' = IF m.reply THEN order ELSE Append(order, c)
  /\ UNCHANGED <<cstack, s2c, cres, link>>

(* nimf_nim_ic_emit_*, called by the engine from the code that runs on top *)
(* of the stack: it emits on the context it was called for.                *)
Emit(c, type) ==
  LET m == Call(type, Last(sstack[c]).icid, Len(sstack[c]) + 1) IN
  /\ OnTop(c)
  /\ Runs(sstack[c])
  /\ Last(sstack[c]).left > 0
  /\ Len(sstack[c]) < MaxDepth
  /\ s2c' = [s2c EXCEPT ![c] = Sent(@, c, m)]
  /\ sstack' = [sstack EXCEPT ![c] = Append(Spend(@), Wait(m))]
  /\ order' = Append(order, c)
  /\ sres' = [sres EXCEPT ![c] = Undispatched(@)]
  /\ UNCHANGED <<cstack, c2s, cres, link>>

(* The end of on_incoming: the reply to the method.  The end of an event   *)
(* callback sends nothing.                                                 *)
ServerReturn(c) ==
  /\ OnTop(c)
  /\ Runs(sstack[c])
  /\ s2c' = [s2c EXCEPT ![c] =
               IF Last(sstack[c]).kind = "event" THEN @
               ELSE Sent(@, c, ReplyTo(Last(sstack[c])))]
  /\ sstack' = [sstack EXCEPT ![c] = Front(@)]
  /\ order' = Front(order)
  /\ UNCHANGED <<cstack, c2s, cres, sres, link>>

(* The wait on top of the C stack looks at what its iteration dispatched.  *)
ServerCheck(c) ==
  /\ OnTop(c)
  /\ Waits(sstack[c])
  /\ sres[c].disp
  /\ sstack' = [sstack EXCEPT ![c] = AfterCheck(@, sres[c])]
  /\ order' = IF Ends(Last(sstack[c]), sres[c]) THEN Front(order) ELSE order
  /\ sres' = [sres EXCEPT ![c] = Undispatched(@)]
  /\ UNCHANGED <<cstack, c2s, s2c, cres, link>>

(* A callback of the daemon that no client asked for, and that makes an    *)
(* engine emit signals: a click in the candidate window, a change of the   *)
(* settings, the engine menu of the indicator.                             *)
ServerEvent(c, icid) ==
  /\ link[c] = "up"
  /\ Iterates
  /\ Len(sstack[c]) < MaxDepth
  /\ sstack' = [sstack EXCEPT ![c] = Append(@, Event(icid))]
  /\ order' = Append(order, c)
  /\ UNCHANGED <<cstack, c2s, s2c, cres, sres, link>>

(* The daemon ends, at any point: every connection hangs up.               *)
ServerExit ==
  /\ \E c \in Conns : link[c] = "up"
  /\ link' = [c \in Conns |-> IF link[c] = "up" THEN "hup" ELSE link[c]]
  /\ sstack' = [c \in Conns |-> <<>>]
  /\ order' = <<>>
  /\ c2s' = [c \in Conns |-> <<>>]
  /\ s2c' = [c \in Conns |-> <<>>]
  /\ sres' = [c \in Conns |-> [disp |-> FALSE, reply |-> NoMsg]]
  /\ UNCHANGED <<cstack, cres>>

-----------------------------------------------------------------------------
(* Specifications.                                                         *)

ClientNext(c) ==
  \/ \E type \in Methods, icid \in ICs : ClientCall(c, type, icid)
  \/ ClientReceive(c)
  \/ ClientReturn(c)
  \/ ClientCheck(c)

ServerNext(c) ==
  \/ ServerReceive(c)
  \/ \E type \in Signals : Emit(c, type)
  \/ ServerReturn(c)
  \/ ServerCheck(c)

(* Every call of the daemon is made while it handles a call of that client. *)
NestedNext == \E c \in Conns : ClientNext(c) \/ ServerNext(c)

(* The daemon may end and be started again at any point.                   *)
LossyNext ==
  \/ NestedNext
  \/ ServerExit
  \/ \E c \in Conns : ClientHup(c) \/ Reconnect(c)

(* The daemon also emits on its own account.                               *)
CrossingNext ==
  \/ NestedNext
  \/ \E c \in Conns, icid \in ICs : ServerEvent(c, icid)

(* A client's thread keeps running its own code and polling its socket.    *)
(* An iteration of the daemon's main context dispatches the sources that   *)
(* were ready once each and then returns to the innermost wait: no source  *)
(* and no wait that is ready again and again is passed over for ever.      *)
Fairness ==
  \A c \in Conns :
    /\ WF_vars(ClientReceive(c)) /\ WF_vars(ClientReturn(c))
    /\ WF_vars(ClientCheck(c)) /\ WF_vars(ClientHup(c))
    /\ SF_vars(ServerReceive(c)) /\ SF_vars(ServerCheck(c))
    /\ WF_vars(ServerReturn(c))

NestedSpec == Init /\ [][NestedNext]_vars /\ Fairness
LossySpec == Init /\ [][LossyNext]_vars /\ Fairness
CrossingSpec == Init /\ [][CrossingNext]_vars /\ Fairness

-----------------------------------------------------------------------------
(* Properties.                                                             *)

(* A wait that is about to return with a reply returns with the reply to   *)
(* its own call, never with that of a call nested in it or around it:      *)
(* nimf_im_filter_event and nimf_nim_ic_emit_retrieve_surrounding read     *)
(* their return value from result->reply right after.                      *)
OwnClientReply(c) ==
  LET r == cres[c].reply IN
  Waits(cstack[c]) /\ cres[c].disp /\ r # NoMsg /\ Ends(Last(cstack[c]), cres[c])
    => r.tag = Last(cstack[c]).tag

OwnServerReply(c) ==
  LET r == sres[c].reply IN
  Waits(sstack[c]) /\ sres[c].disp /\ r # NoMsg /\ Ends(Last(sstack[c]), sres[c])
    => r.tag = Last(sstack[c]).tag

OwnReply == \A c \in Conns : OwnClientReply(c) /\ OwnServerReply(c)

(* A reply that can be read finds the wait it is for innermost on the      *)
(* stack of its connection, and that wait takes it: no other wait reads it *)
(* first and throws it away, leaving its caller to wait for ever.          *)
ReplyReaches(channel, stack) ==
  LET m == Head(channel)
      f == Last(stack) IN
  channel # <<>> /\ m.reply /\ ~Runs(stack) =>
    Waits(stack) /\ f.tag = m.tag /\ f.type = m.type /\ f.icid = m.icid

RepliesReachWaiter ==
  \A c \in Conns :
    ReplyReaches(s2c[c], cstack[c]) /\ ReplyReaches(c2s[c], sstack[c])

(* Every call an application makes into libnimf comes back to it, however  *)
(* deep the callbacks and the emissions it caused nest, and whatever the   *)
(* daemon does for other applications meanwhile.                           *)
CallReturns == \A c \in Conns : cstack[c] # <<>> ~> cstack[c] = <<>>

(* The daemon's C stack unwinds again and again: it gets back to its main  *)
(* loop, where it can quit, although one client may always be calling      *)
(* while another one is waited for.                                        *)
DaemonUnwinds == \A c \in Conns : sstack[c] # <<>> ~> sstack[c] = <<>>

(* What the two stacks say of the calls in progress on a connection: the   *)
(* longer one holds one frame per call, as caller or as callee.            *)
CallOf(f) == [type |-> f.type, icid |-> f.icid]
Calls(stack) == [k \in 1 .. Len(stack) |-> CallOf(stack[k])]
InProgress(C, S) == Calls(IF Len(C) >= Len(S) THEN C ELSE S)
CallsInProgress == [c \in Conns |-> InProgress(cstack[c], sstack[c])]

Abs == INSTANCE NestedCalls WITH calls <- CallsInProgress

(* The protocol implements nested synchronous calls: see NestedCalls.      *)
ImplementsNestedCalls == Abs!Spec

-----------------------------------------------------------------------------
(* The state of one conversation, from the two stacks C and S, the channels *)
(* cs and sc and the results cr and sr.  The proofs rest on it.            *)

(* Depth k is a call of the client when k is odd and of the daemon when it *)
(* is even; the caller's frame there is a wait, the callee's a handler.    *)
Odd(k) == k % 2 = 1

Matched(f, g, k) ==
  /\ CallOf(f) = CallOf(g)
  /\ f.tag = k /\ g.tag = k
  /\ f.kind = IF Odd(k) THEN "wait" ELSE "handler"
  /\ g.kind = IF Odd(k) THEN "handler" ELSE "wait"

PairedFrames(C, S) == \A k \in 1 .. Len(C) : k <= Len(S) => Matched(C[k], S[k], k)

(* Calls one deeper than called has: the caller waits at the top.          *)
WaitsFor(caller, called) ==
  /\ Len(caller) = Len(called) + 1
  /\ Last(caller).kind = "wait"
  /\ Last(caller).tag = Len(caller)

(* No reply is left in the result.                                         *)
Quiet(res) == res.disp => res.reply # NoMsg /\ ~res.reply.reply

(* An idle client may have been told of a hangup since its last call.      *)
Settled(C, cr) == Quiet(cr) \/ (C = <<>> /\ cr.reply = NoMsg)

CallTo(f) == Call(f.type, f.icid, f.tag)

(* The application runs, idle or in a callback.                            *)
AppRuns(C, S, cs, sc) == Len(C) = Len(S) /\ ~Odd(Len(C)) /\ cs = <<>> /\ sc = <<>>

(* The daemon runs the handler of the innermost call.                      *)
DaemonRuns(C, S, cs, sc) == Len(C) = Len(S) /\ Odd(Len(C)) /\ cs = <<>> /\ sc = <<>>

(* A method or its reply is on the way.                                    *)
MethodFlies(C, S, cs, sc) ==
  /\ WaitsFor(C, S) /\ Odd(Len(C))
  /\ \/ cs = <<CallTo(Last(C))>> /\ sc = <<>>
     \/ cs = <<>> /\ sc = <<ReplyTo(Last(C))>>

(* A signal or its reply is on the way.                                    *)
SignalFlies(C, S, cs, sc) ==
  /\ WaitsFor(S, C) /\ Odd(Len(C))
  /\ \/ sc = <<CallTo(Last(S))>> /\ cs = <<>>
     \/ sc = <<>> /\ cs = <<ReplyTo(Last(S))>>

(* The reply has been dispatched, its wait has not looked at it yet.       *)
Answered(caller, called, res) ==
  WaitsFor(caller, called) /\ res = Dispatched(ReplyTo(Last(caller)))

Conversation(C, S, cs, sc, cr, sr) ==
  /\ PairedFrames(C, S)
  /\ \/ /\ \/ AppRuns(C, S, cs, sc)
           \/ DaemonRuns(C, S, cs, sc)
           \/ MethodFlies(C, S, cs, sc)
           \/ SignalFlies(C, S, cs, sc)
        /\ Settled(C, cr)
        /\ Quiet(sr)
     \/ /\ Answered(C, S, cr) /\ Odd(Len(C))
        /\ cs = <<>> /\ sc = <<>> /\ Quiet(sr)
     \/ /\ Answered(S, C, sr) /\ Odd(Len(C))
        /\ cs = <<>> /\ sc = <<>> /\ Quiet(cr)

(* After a hangup nothing of the old daemon is left; the client's result   *)
(* holds no reply but the one its innermost wait is about to look at.      *)
Gone(C, S, cs, sc, cr, sr) ==
  /\ S = <<>> /\ cs = <<>> /\ sc = <<>> /\ ~sr.disp
  /\ \/ ~cr.disp
     \/ cr.reply = NoMsg
     \/ ~cr.reply.reply
     \/ Waits(C) /\ cr.reply = ReplyTo(Last(C))

(* Each connection is in one of the states of a nested conversation, or    *)
(* has lost the daemon: the stacks of the two processes mirror each other, *)
(* at most one message is in flight, and a reply in a result is for the    *)
(* innermost wait.                                                         *)
NestingInv ==
  \A c \in Conns :
    IF link[c] = "up"
    THEN Conversation(cstack[c], sstack[c], c2s[c], s2c[c], cres[c], sres[c])
    ELSE Gone(cstack[c], sstack[c], c2s[c], s2c[c], cres[c], sres[c])
=============================================================================
