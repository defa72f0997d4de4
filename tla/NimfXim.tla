------------------------------ MODULE NimfXim -------------------------------
(***************************************************************************)
(* The XIM service: nimf-xim.c, nimf-xim-ic.c and the protocol handlers of *)
(* IMdkit, with the X clients it serves and the engines behind its         *)
(* contexts.                                                               *)
(*                                                                         *)
(* The service is one thread that handles the events of its X connection   *)
(* one by one.  A client speaks to it as Xlib does: it waits for the       *)
(* replies to its requests, while keys, and what the service sends on its  *)
(* own account, go by without waiting.  A key that no engine wants goes    *)
(* back to its client, which answers XIM_SYNC_REPLY when it has taken it;  *)
(* until then further keys of that client are queued.                      *)
(*                                                                         *)
(* Messages arrive whole and in order (XimCodec: their bytes).  Engines    *)
(* are the choice of what becomes of a key.  Left out are windows, cursor  *)
(* positions, the preedit window, and last_focused_icid, which only the    *)
(* indicator's menu reads.                                                 *)
(***************************************************************************)
EXTENDS XimAttributes, FiniteSets

CONSTANTS
  Clients,     \* X clients
  Extended,    \* clients that ask for XIM_EXT_FORWARD_KEYEVENT
  Switching,   \* clients that switch the preedit off and on
  Mortal,      \* clients that may destroy contexts, disconnect or be killed
  Styles,      \* input styles that applications choose from
  MaxIcid,     \* 65535 for a guint16
  MaxKeys,     \* keys each client types into a context
  CharBytes,   \* what an engine counts for a character in preedit attributes:
               \* 1, or 3 for Hangul syllables measured with strlen
  Hasty,       \* may a context be destroyed while keys of it are on their way
  Nobody       \* no client

ASSUME ClientsAssumption == /\ IsFiniteSet(Clients) /\ Nobody \notin Clients
                            /\ Extended \cup Switching \cup Mortal \subseteq Clients
ASSUME BoundsAssumption == MaxIcid \in Nat /\ MaxIcid >= Cardinality(Clients)
                           /\ MaxKeys \in [Clients -> Nat] /\ CharBytes \in {1, 3} /\ Hasty \in BOOLEAN

VARIABLES
  clients,       \* xim->address.clients, by connect_id
  free_clients,  \* xim->address.free_clients, ids
  connect_id,    \* the last new one, static in _Xi18nNewClient
  ics,           \* xim->ics, by icid
  next_icid,     \* xim->next_icid
  processing,    \* the client whose queue ProcessQueue is at
  toServer,      \* ClientMessages of each client to its accept window
  toClient,      \* ClientMessages to the window of each client
  app            \* the clients' side

server == <<clients, free_clients, connect_id, ics, next_icid, processing>>
vars == <<clients, free_clients, connect_id, ics, next_icid, processing,
          toServer, toClient, app>>

-----------------------------------------------------------------------------
(* Messages and the two ends of a connection. *)

\* A request, and a message to a client.
Req(op, icid) == [op |-> op, icid |-> icid, key |-> 0, type |-> "", attrs |-> <<>>, ids |-> <<>>]
Msg(op, icid) == [op |-> op, icid |-> icid, text |-> <<>>, chg_length |-> 0, attrs |-> <<>>]

\* What a client does first, and the requests it waits for.
Opening == <<"selection_request", "xconnect", "connect", "open", "query_extension",
             "encoding_negotiation", "get_im_values">>
Ready == Len(Opening) + 1
Closing == <<"close", "disconnect">>

\* A client before it looks for the service.
Idle == [stage |-> 1, wait |-> "", icid |-> 0, style |-> "", ext |-> FALSE,
         typed |-> 0, got |-> <<>>, preedit |-> <<>>, need_sync |-> FALSE,
         disabled |-> FALSE, alive |-> TRUE]

\* nimf_xim_start has got the selection and the windows.
Init ==
    /\ clients = <<>> /\ free_clients = <<>> /\ connect_id = 0
    /\ ics = <<>> /\ next_icid = 0
    /\ processing = Nobody
    /\ toServer = [c \in Clients |-> <<>>]
    /\ toClient = [c \in Clients |-> <<>>]
    /\ app = [c \in Clients |-> Idle]

\* The record of a client process: the one whose accept window it writes to.
Known(c) == \E id \in DOMAIN clients : clients[id].client_win = c
IdOf(c) == CHOOSE id \in DOMAIN clients : clients[id].client_win = c

\* The server takes up the next event of c.
WaitXIMProtocol(c, op) ==
    /\ processing = Nobody
    /\ toServer[c] # <<>> /\ Head(toServer[c]).op = op
    /\ toServer' = [toServer EXCEPT ![c] = Tail(@)]

\* _Xi18nSendMessage: messages for a window that has gone are errors that
\* on_xerror logs.
Send(c, msgs) == toClient' = [toClient EXCEPT ![c] = IF app[c].alive THEN @ \o msgs ELSE @]

\* A set in some order.
Listed(S) == FoldSet(LAMBDA x, s : Append(s, x), <<>>, S)

Put(f, x, v) == [y \in DOMAIN f \cup {x} |-> IF y = x THEN v ELSE f[y]]
Without(f, x) == [y \in DOMAIN f \ {x} |-> f[y]]

-----------------------------------------------------------------------------
(* A context and what its engine emits.  e is the context as changed so far *)
(* and the messages so far.                                                 *)

nimf_xim_ic_new(id) == [connect_id |-> id, use_preedit |-> TRUE, preedit_state |-> "END",
                        preedit_string |-> <<>>, end_index |-> 0, prev_preedit_length |-> 0]

Says(e, m) == [e EXCEPT !.out = Append(@, m)]

emit_commit(e, text) == Says(e, [Msg("commit", e.icid) EXCEPT !.text = text])

PreeditStartCallback(e) == Says(e, Msg("preedit_start", e.icid))
emit_preedit_start(e) ==
    LET s == [e EXCEPT !.ic.preedit_state = "START"]
    IN  IF e.ic.use_preedit THEN PreeditStartCallback(s) ELSE s

\* The whole text replaces as many characters as were drawn last.
PreeditDrawCallback(e) ==
    Says(e, [Msg("preedit_draw", e.icid) EXCEPT !.text = e.ic.preedit_string,
                                                !.chg_length = e.ic.prev_preedit_length])
\* A mutant: what was drawn is not remembered.
EmitUnremembered(e) == PreeditDrawCallback(e)
xim_ic_emit_preedit_changed(e) ==
    [PreeditDrawCallback(e) EXCEPT !.ic.prev_preedit_length = Len(e.ic.preedit_string)]
emit_preedit_changed(e, string) ==
    LET s == [e EXCEPT !.ic.preedit_string = string,
                       !.ic.end_index = CharBytes * Len(string)]
    IN  IF e.ic.use_preedit THEN xim_ic_emit_preedit_changed(s) ELSE s

PreeditDoneCallback(e) == Says(e, Msg("preedit_done", e.icid))
emit_preedit_end(e) ==
    LET s == [e EXCEPT !.ic.preedit_state = "END"]
    IN  IF e.ic.use_preedit THEN PreeditDoneCallback(s) ELSE s

\* An engine shows a text, or clears it, as nimf_libhangul_update_preedit does.
Compose(e, string) ==
    LET s == IF e.ic.preedit_state = "END" /\ string # <<>> THEN emit_preedit_start(e) ELSE e
        t == emit_preedit_changed(s, string)
    IN  IF e.ic.preedit_string = <<>> /\ string = <<>> THEN e
        ELSE IF string = <<>> THEN emit_preedit_end(t) ELSE t
Commit(e, text) == Compose(emit_commit(e, text), <<>>)
Reset(e) == IF e.ic.preedit_string = <<>> THEN e ELSE Commit(e, e.ic.preedit_string)

set_use_preedit(e, on) ==
    LET s == [e EXCEPT !.ic.use_preedit = on]
    IN  CASE e.ic.use_preedit /\ ~on /\ e.ic.preedit_state = "START" ->
               emit_preedit_end(emit_preedit_changed(s, e.ic.preedit_string))
          [] ~e.ic.use_preedit /\ on /\ e.ic.preedit_string # <<>> ->
               emit_preedit_changed(emit_preedit_start(s), e.ic.preedit_string)
          [] OTHER -> s

\* What becomes of a key: the context afterwards and whether it was consumed.
filter_event(e, key) ==
    {[e |-> Reset(e), consumed |-> FALSE],
     [e |-> Compose(e, Append(e.ic.preedit_string, key)), consumed |-> TRUE],
     [e |-> Commit(e, Append(e.ic.preedit_string, key)), consumed |-> TRUE]}

At(icid) == [icid |-> icid, ic |-> ics[icid], out |-> <<>>]

\* An emission goes to the connection that the context was made for.
Emitted(e) == /\ ics' = [ics EXCEPT ![e.icid] = e.ic]
              /\ Send(clients[e.ic.connect_id].client_win, e.out)

-----------------------------------------------------------------------------
(* The way to a connection. *)

\* WaitXSelectionRequest, ReturnSelectionNotify: locales and transport.
WaitXSelectionRequest(c) ==
    /\ WaitXIMProtocol(c, "selection_request")
    /\ Send(c, <<Msg("selection_request_reply", 0)>>)
    /\ UNCHANGED <<server, app>>

\* ReadXConnectMessage, NewXClient, _Xi18nNewClient.
ReadXConnectMessage(c) ==
    /\ WaitXIMProtocol(c, "xconnect")
    /\ LET id == IF free_clients # <<>> THEN Head(free_clients) ELSE connect_id + 1
       IN  /\ clients' = Put(clients, id, [client_win |-> c, sync |-> FALSE, pending |-> <<>>])
           /\ connect_id' = IF free_clients # <<>> THEN connect_id ELSE id
           /\ free_clients' = IF free_clients # <<>> THEN Tail(free_clients) ELSE <<>>
    /\ Send(c, <<Msg("xconnect_reply", 0)>>)
    /\ UNCHANGED <<ics, next_icid, processing, app>>

\* Handlers that only answer.
Answers(c, op) == /\ WaitXIMProtocol(c, op)
                  /\ Send(c, <<Msg(op \o "_reply", 0)>>)
                  /\ UNCHANGED <<server, app>>

ConnectMessageProc(c) == Answers(c, "connect")
EncodingNegotiatonMessageProc(c) == Answers(c, "encoding_negotiation")
CloseMessageProc(c) == Answers(c, "close")

\* Handlers that answer with a list.
Lists(c, op, set) == Send(c, <<[Msg(op, 0) EXCEPT !.attrs = Listed(set)]>>)

OpenMessageProc(c) ==
    /\ WaitXIMProtocol(c, "open")
    /\ Lists(c, "open_reply", {Attr(id, Default_ICattr[id]) : id \in DOMAIN Default_ICattr})
    /\ UNCHANGED <<server, app>>

MakeExtensionList(asked) == IF asked = {} THEN Default_Extension ELSE Default_Extension \cap asked
QueryExtensionMessageProc(c) ==
    /\ WaitXIMProtocol(c, "query_extension")
    /\ LET found == MakeExtensionList(ToSet(Head(toServer[c]).ids))
       IN  Lists(c, "query_extension_reply", {Attr(x, "") : x \in found})
    /\ UNCHANGED <<server, app>>

GetIMValuesMessageProc(c) ==
    /\ WaitXIMProtocol(c, "get_im_values")
    /\ Lists(c, "get_im_values_reply", {Attr(s, "") : s \in supported_styles})
    /\ UNCHANGED <<server, app>>

\* Contexts of the connection that are left stay in xim->ics.
DisConnectMessageProc(c) ==
    /\ WaitXIMProtocol(c, "disconnect")
    /\ Send(c, <<Msg("disconnect_reply", 0)>>)
    /\ clients' = Without(clients, IdOf(c))
    /\ free_clients' = <<IdOf(c)>> \o free_clients
    /\ UNCHANGED <<connect_id, ics, next_icid, processing, app>>

-----------------------------------------------------------------------------
(* Contexts. *)

\* Both lists, one attribute after the other.  A preedit state has four bytes
\* on the wire and is read as an unsigned long: with what lies behind it, it
\* may be none of the values.
SetAttr(e, a) ==
    CASE a.id = "inputStyle" -> {set_use_preedit(e, a.value = "callbacks")}
      [] a.id = "preeditState" -> {set_use_preedit(e, a.value = "enable"), e}
      [] OTHER -> {e}
nimf_xim_set_ic_values(e, changeic) ==
    FoldLeft(LAMBDA es, a : UNION {SetAttr(x, a) : x \in es},
             {e}, changeic.ic \o changeic.preedit)

\* Ids go round and leave out 0 and those in use.
\* A mutant: ids in use are not left out.
NewIcidAnyhow == IF next_icid = 0 THEN 1 ELSE next_icid
NewIcid == LET free == {i \in 1 .. MaxIcid : i \notin DOMAIN ics}
               after == {i \in free : i >= next_icid}
               least(S) == CHOOSE i \in S : \A j \in S : i <= j
           IN  least(IF after # {} THEN after ELSE free)

nimf_xim_create_ic(id, icid, attrs) ==
    nimf_xim_set_ic_values([icid |-> icid, ic |-> nimf_xim_ic_new(id), out |-> <<>>],
                           ChangeIC(attrs))

CreateICMessageProc(c) ==
    /\ WaitXIMProtocol(c, "create_ic")
    /\ \E e \in nimf_xim_create_ic(IdOf(c), NewIcid, Head(toServer[c]).attrs) :
         /\ ics' = Put(ics, e.icid, e.ic)
         /\ next_icid' = (e.icid + 1) % (MaxIcid + 1)
         /\ Send(c, e.out \o <<Msg("create_ic_reply", e.icid), Msg("set_event_mask", e.icid)>>)
    /\ UNCHANGED <<clients, free_clients, connect_id, processing, app>>

\* Requests for a context that there is.
OfContext(c, op) == WaitXIMProtocol(c, op) /\ Head(toServer[c]).icid \in DOMAIN ics
Changes(e) == Emitted(e) /\ UNCHANGED <<clients, free_clients, connect_id, next_icid,
                                        processing, app>>

\* A mutant: no reply.
SetICValuesUnanswered(c) ==
    /\ OfContext(c, "set_ic_values")
    /\ LET m == Head(toServer[c])
       IN  \E e \in nimf_xim_set_ic_values(At(m.icid), ChangeIC(m.attrs)) : Changes(e)
SetICValuesMessageProc(c) ==
    /\ OfContext(c, "set_ic_values")
    /\ LET m == Head(toServer[c])
       IN  \E e \in nimf_xim_set_ic_values(At(m.icid), ChangeIC(m.attrs)) :
             Changes(Says(e, Msg("set_ic_values_reply", m.icid)))

GetICValuesMessageProc(c) ==
    /\ OfContext(c, "get_ic_values")
    /\ LET m == Head(toServer[c])
       IN  Changes(Says(At(m.icid), [Msg("get_ic_values_reply", m.icid) EXCEPT
                                         !.attrs = GetIC(m.ids)]))

SetICFocusMessageProc(c) ==
    /\ OfContext(c, "set_ic_focus")
    /\ Changes(At(Head(toServer[c]).icid))

UnsetICFocusMessageProc(c) ==
    /\ OfContext(c, "unset_ic_focus")
    /\ Changes(Reset(At(Head(toServer[c]).icid)))

\* The reply has no string: what the engine held was committed before it.
ResetICMessageProc(c) ==
    /\ OfContext(c, "reset_ic")
    /\ LET icid == Head(toServer[c]).icid
       IN  Changes(Says(Reset(At(icid)), Msg("reset_ic_reply", icid)))

DestroyICMessageProc(c) ==
    /\ WaitXIMProtocol(c, "destroy_ic")
    /\ LET icid == Head(toServer[c]).icid
       IN  /\ ics' = Without(ics, icid)
           /\ Send(c, <<Msg("destroy_ic_reply", icid)>>)
    /\ UNCHANGED <<clients, free_clients, connect_id, next_icid, processing, app>>

PreeditStartReplyMessageProc(c) ==
    /\ WaitXIMProtocol(c, "preedit_start_reply")
    /\ UNCHANGED <<server, toClient, app>>

-----------------------------------------------------------------------------
(* Keys. *)

\* xi18n_forwardEvent: with the sync bit set, always.
Forwarded(icid, key) == [Msg("forward_event", icid) EXCEPT !.text = <<key>>]

\* nimf_xim_forward_event.  A key of a context that is not there is not
\* consumed either: nimf_service_ic_filter_event returns FALSE.
ForwardEvent(c, m, pending) ==
    LET To(sync) == clients' = [clients EXCEPT ![IdOf(c)].sync = @ \/ sync,
                                               ![IdOf(c)].pending = pending]
    IN  IF m.icid \in DOMAIN ics
        THEN \E r \in filter_event(At(m.icid), m.key) :
               /\ To(~r.consumed)
               /\ Emitted(IF r.consumed THEN r.e ELSE Says(r.e, Forwarded(m.icid, m.key)))
        ELSE /\ To(TRUE)
             /\ Send(c, <<Forwarded(m.icid, m.key)>>)
             /\ UNCHANGED ics

\* A mutant: the key goes to the head of the queue.
AddQueueFirst(c) ==
    /\ WaitXIMProtocol(c, "forward_event")
    /\ clients[IdOf(c)].sync
    /\ clients' = [clients EXCEPT ![IdOf(c)].pending = <<Head(toServer[c])>> \o @]
    /\ UNCHANGED <<free_clients, connect_id, ics, next_icid, processing, toClient, app>>
AddQueue(c) ==
    /\ WaitXIMProtocol(c, "forward_event")
    /\ clients[IdOf(c)].sync
    /\ clients' = [clients EXCEPT ![IdOf(c)].pending = Append(@, Head(toServer[c]))]
    /\ UNCHANGED <<free_clients, connect_id, ics, next_icid, processing, toClient, app>>

ForwardEventMessageProc(c) ==
    /\ WaitXIMProtocol(c, "forward_event")
    /\ ~clients[IdOf(c)].sync
    /\ ForwardEvent(c, Head(toServer[c]), clients[IdOf(c)].pending)
    /\ UNCHANGED <<free_clients, connect_id, next_icid, processing, app>>

\* Key presses in the form of the extension are not queued.
ExtForwardKeyEventMessageProc(c) ==
    /\ WaitXIMProtocol(c, "ext_forward_keyevent")
    /\ LET m == Head(toServer[c])
       IN  \/ /\ m.type = "KeyPress"
              /\ ForwardEvent(c, m, clients[IdOf(c)].pending)
           \/ /\ m.type # "KeyPress"
              /\ Send(c, <<Msg("error", 0)>>)
              /\ UNCHANGED <<clients, ics>>
    /\ UNCHANGED <<free_clients, connect_id, next_icid, processing, app>>

\* Nothing sets xim->sync, and the branch for it is left out.  A mutant: the queue
\* is left to the next reply.
SyncReplyOnly(c) ==
    /\ WaitXIMProtocol(c, "sync_reply")
    /\ clients' = [clients EXCEPT ![IdOf(c)].sync = FALSE]
    /\ UNCHANGED <<free_clients, connect_id, ics, next_icid, processing, toClient, app>>
SyncReplyMessageProc(c) ==
    /\ WaitXIMProtocol(c, "sync_reply")
    /\ clients' = [clients EXCEPT ![IdOf(c)].sync = FALSE]
    /\ processing' = c
    /\ UNCHANGED <<free_clients, connect_id, ics, next_icid, toClient, app>>

\* The loop of ProcessQueue, a key at a time.
ProcessQueue(c) ==
    /\ processing = c
    /\ LET client == clients[IdOf(c)]
       IN  \/ /\ ~client.sync /\ client.pending # <<>>
              /\ ForwardEvent(c, Head(client.pending), Tail(client.pending))
              /\ UNCHANGED processing
           \/ /\ client.sync \/ client.pending = <<>>
              /\ processing' = Nobody
              /\ UNCHANGED <<clients, ics, toClient>>
    /\ UNCHANGED <<free_clients, connect_id, next_icid, toServer, app>>

-----------------------------------------------------------------------------
(* The clients: Xlib and the application on top of it. *)

\* Bounds: a client is busy while the others are calm, neither open nor close
\* a connection, and have typed nothing (or, when it may leave, all their
\* keys): the service takes its events one by one, and queues are of a client
\* each.  And but for keys, resets and the end of contexts, a client starts
\* something when it is calm itself.
Calm(c) == toServer[c] = <<>> /\ toClient[c] = <<>> /\ ~app[c].need_sync
OthersCalm(c) == \A d \in Clients \ {c} :
    /\ Calm(d) /\ app[d].stage \in {1, Ready}
    /\ app[d].typed = 0 \/ (c \in Mortal /\ app[d].typed = MaxKeys[d])
Quiet == processing = Nobody /\ \A c \in Clients : Calm(c)

Sends(c, m, a) == /\ app[c].alive /\ OthersCalm(c)
                  /\ toServer' = [toServer EXCEPT ![c] = Append(@, m)]
                  /\ app' = [app EXCEPT ![c] = a]
                  /\ UNCHANGED <<server, toClient>>
Request(c, m) == /\ app[c].wait = ""
                 /\ Sends(c, m, [app[c] EXCEPT !.wait = m.op \o "_reply"])

Open(c) == /\ app[c].stage < Ready /\ Quiet
           /\ LET op == Opening[app[c].stage]
                  Asks(x) == Request(c, [Req(op, 0) EXCEPT !.ids = x])
              IN  \/ op # "query_extension" /\ Asks(<<>>)
                  \/ op = "query_extension" /\ Asks(<<IF c \in Extended THEN "XIM_EXT_FORWARD_KEYEVENT"
                                                      ELSE "XIM_EXT_SET_EVENT_MASK">>)

CreateIC(c) ==
    /\ app[c].stage = Ready /\ app[c].icid = 0 /\ Quiet
    /\ Request(c, [Req("create_ic", 0) EXCEPT !.attrs =
         <<Attr("inputStyle", app[c].style), Attr("clientWindow", "window"),
           Nested("preeditAttributes", <<Attr("spotLocation", "point")>>)>>])

HasIC(c) == app[c].icid # 0 /\ app[c].wait = ""

\* A bound: one key is enough once a client has been killed.
Budget(c) == IF \A d \in Clients : app[d].alive THEN MaxKeys[c] ELSE 1

Type(c) ==
    /\ HasIC(c) /\ app[c].typed < Budget(c)
    /\ LET op == IF app[c].ext THEN "ext_forward_keyevent" ELSE "forward_event"
       IN  Sends(c, [Req(op, app[c].icid) EXCEPT !.key = app[c].typed + 1, !.type = "KeyPress"],
                 [app[c] EXCEPT !.typed = @ + 1])
\* A bound: what the service answers and forgets is sent before the keys.
Fresh(c) == HasIC(c) /\ app[c].typed = 0 /\ Quiet

Release(c) ==
    /\ Fresh(c) /\ app[c].ext
    /\ Sends(c, [Req("ext_forward_keyevent", app[c].icid) EXCEPT !.type = "KeyRelease"], app[c])

Focus(c) == Fresh(c) /\ Sends(c, Req("set_ic_focus", app[c].icid), app[c])
Unfocus(c) == HasIC(c) /\ Quiet /\ Sends(c, Req("unset_ic_focus", app[c].icid), app[c])

ResetIC(c) == HasIC(c) /\ Request(c, Req("reset_ic", app[c].icid))

GetICValues(c) ==
    /\ Fresh(c)
    /\ \E ids \in {<<"filterEvents">>,
                   <<"preeditAttributes", "preeditState", "separatorofNestedList">>} :
         Request(c, [Req("get_ic_values", app[c].icid) EXCEPT !.ids = ids])

SetICValues(c) ==
    /\ c \in Switching /\ HasIC(c) /\ Quiet
    /\ \E state \in {"enable", "disable"} :
         LET m == [Req("set_ic_values", app[c].icid) EXCEPT !.attrs =
                     <<Nested("preeditAttributes", <<Attr("preeditState", state)>>)>>]
         IN  Sends(c, m, [app[c] EXCEPT !.wait = "set_ic_values_reply", !.disabled = TRUE])

DestroyIC(c) == /\ c \in Mortal /\ HasIC(c) /\ (Hasty \/ Calm(c))
                /\ Request(c, Req("destroy_ic", app[c].icid))

Close(c) ==
    /\ app[c].stage >= Ready /\ app[c].icid = 0 /\ Quiet
    /\ Request(c, Req(Closing[app[c].stage - Ready + 1], 0))

SyncReply(c) == /\ app[c].need_sync
                /\ toServer' = [toServer EXCEPT ![c] = Append(@, Req("sync_reply", app[c].icid))]
                /\ app' = [app EXCEPT ![c].need_sync = FALSE]
                /\ UNCHANGED <<server, toClient>>

\* A client takes its next message.
Draw(text, m) == m.text \o SubSeq(text, m.chg_length + 1, Len(text))
Taken(a, m) ==
    CASE m.op = "create_ic_reply" ->
           [a EXCEPT !.wait = "", !.icid = m.icid]
      [] m.op = "destroy_ic_reply" ->
           [a EXCEPT !.wait = "", !.icid = 0, !.typed = 0, !.got = <<>>,
                     !.preedit = <<>>, !.disabled = FALSE]
      [] m.op = "query_extension_reply" ->
           [a EXCEPT !.wait = "", !.stage = @ + 1,
                     !.ext = \E k \in DOMAIN m.attrs : m.attrs[k].id = "XIM_EXT_FORWARD_KEYEVENT"]
      [] m.op = "disconnect_reply" -> Idle
      [] m.op \in {op \o "_reply" : op \in ToSet(Opening) \cup {"close"}} ->
           [a EXCEPT !.wait = "", !.stage = @ + 1]
      [] m.op \in {"commit", "forward_event"} /\ m.icid = a.icid ->
           [a EXCEPT !.got = @ \o m.text, !.need_sync = TRUE]
      [] m.op = "preedit_draw" /\ m.icid = a.icid -> [a EXCEPT !.preedit = Draw(@, m)]
      [] m.op = a.wait -> [a EXCEPT !.wait = ""]
      [] OTHER -> a

Receive(c) ==
    /\ toClient[c] # <<>>
    /\ LET m == Head(toClient[c])
           a == Taken(app[c], m)
           offered == {m.attrs[k].id : k \in DOMAIN m.attrs}
       IN  /\ \E style \in IF m.op = "get_im_values_reply"
                           THEN Styles \cap offered ELSE {a.style} :
                app' = [app EXCEPT ![c] = [a EXCEPT !.style = style]]
           /\ toServer' = IF m.op = "preedit_start" /\ m.icid = a.icid
                          THEN [toServer EXCEPT ![c] = Append(@, Req("preedit_start_reply", m.icid))]
                          ELSE toServer
    /\ toClient' = [toClient EXCEPT ![c] = Tail(@)]
    /\ UNCHANGED server

\* A client is killed: its window goes, what it has sent remains.
Die(c) == /\ c \in Mortal /\ app[c].alive
          /\ app' = [app EXCEPT ![c] = [Idle EXCEPT !.alive = FALSE]]
          /\ toClient' = [toClient EXCEPT ![c] = <<>>]
          /\ UNCHANGED <<server, toServer>>

-----------------------------------------------------------------------------
Serve(c) ==
    \/ WaitXSelectionRequest(c) \/ ReadXConnectMessage(c) \/ ConnectMessageProc(c)
    \/ OpenMessageProc(c) \/ QueryExtensionMessageProc(c) \/ EncodingNegotiatonMessageProc(c)
    \/ GetIMValuesMessageProc(c) \/ CreateICMessageProc(c) \/ SetICValuesMessageProc(c)
    \/ GetICValuesMessageProc(c) \/ SetICFocusMessageProc(c) \/ UnsetICFocusMessageProc(c)
    \/ ResetICMessageProc(c) \/ DestroyICMessageProc(c) \/ PreeditStartReplyMessageProc(c)
    \/ AddQueue(c) \/ ForwardEventMessageProc(c) \/ ExtForwardKeyEventMessageProc(c)
    \/ SyncReplyMessageProc(c) \/ ProcessQueue(c) \/ CloseMessageProc(c)
    \/ DisConnectMessageProc(c)

Act(c) ==
    \/ Open(c) \/ CreateIC(c) \/ Type(c) \/ Release(c) \/ Focus(c) \/ Unfocus(c) \/ ResetIC(c)
    \/ GetICValues(c) \/ SetICValues(c) \/ DestroyIC(c) \/ Close(c) \/ Die(c)

Next == \E c \in Clients : Serve(c) \/ Act(c) \/ Receive(c) \/ SyncReply(c)

\* The daemon's main loop takes each event of the X connection, and the loop of
\* ProcessQueue goes on; a client that lives reads its messages, and answers once
\* it filters events.
Fairness == \A c \in Clients :
    /\ WF_toServer(toServer[c] # <<>> /\ toServer' = [toServer EXCEPT ![c] = Tail(@)])
    /\ WF_processing(processing = c /\ processing' = Nobody)
    /\ WF_toClient(toClient[c] # <<>> /\ toClient' = [toClient EXCEPT ![c] = Tail(@)])
    /\ WF_vars(SyncReply(c))

Spec == Init /\ [][Next]_vars /\ Fairness

-----------------------------------------------------------------------------
(* Properties. *)

(* Lists, queues and tables keep their types, and clients their bounds.     *)
TypeOK ==
    /\ \A id \in DOMAIN clients : /\ id \in 1 .. connect_id
                                  /\ clients[id].client_win \in Clients
                                  /\ clients[id].sync \in BOOLEAN
    /\ ToSet(free_clients) = (1 .. connect_id) \ DOMAIN clients
    /\ DOMAIN ics \subseteq 1 .. MaxIcid /\ next_icid \in 0 .. MaxIcid
    /\ \A i \in DOMAIN ics : ics[i].preedit_state \in {"START", "END"}
    /\ processing \in Clients \cup {Nobody}

\* The client's context, while it is there for both sides.
Live(c) == app[c].icid # 0 /\ app[c].wait # "destroy_ic_reply"

Texts(msgs, ops, icid) ==
    LET of == SelectSeq(msgs, LAMBDA m : m.op \in ops /\ m.icid = icid)
    IN  FlattenSeq([k \in DOMAIN of |-> of[k].text])
Keys(msgs, icid) ==
    LET of == SelectSeq(msgs, LAMBDA m : m.icid = icid /\ m.key # 0)
    IN  [k \in DOMAIN of |-> of[k].key]

(* Whatever is queued while a client is in sync, handed back, composed and  *)
(* committed: every key typed into a context is in exactly one place, and   *)
(* they come to the application in the order they were typed.               *)
KeysInOrder ==
    \A c \in Clients : Live(c) =>
        LET i == app[c].icid
        IN  app[c].got \o Texts(toClient[c], {"commit", "forward_event"}, i)
                       \o ics[i].preedit_string \o Keys(clients[IdOf(c)].pending, i)
                       \o Keys(toServer[c], i)
              = [k \in 1 .. app[c].typed |-> k]

(* A client that draws the preedit itself shows, once it has drawn what is  *)
(* on its way, the text the engine composes: each draw replaces the whole   *)
(* of the last one.  (It need not after the application has switched the    *)
(* preedit off and on: set_use_preedit never ends it at the client.)        *)
PreeditFollows ==
    \A c \in Clients : Live(c) /\ app[c].style = "callbacks" /\ ~app[c].disabled =>
        LET i == app[c].icid
            draws == SelectSeq(toClient[c], LAMBDA m : m.op = "preedit_draw" /\ m.icid = i)
        IN  FoldLeft(Draw, app[c].preedit, draws) = ics[i].preedit_string

(* Ids of connections are used again and ids of contexts go round, but the  *)
(* context a client uses was made for its own connection.                   *)
OwnContext ==
    \A c \in Clients : Live(c) =>
        /\ app[c].icid \in DOMAIN ics
        /\ ics[app[c].icid].connect_id \in DOMAIN clients
        /\ clients[ics[app[c].icid].connect_id].client_win = c

(* The tables of the server are well formed, and give a client what is its  *)
(* own.                                                                     *)
TablesAgree == TypeOK /\ OwnContext

Pending(c) == IF Known(c) THEN clients[IdOf(c)].pending ELSE <<>>

(* Keys that wait for a XIM_SYNC_REPLY are handled some time: the replies   *)
(* that commits and keys ask for are not mixed up so that one is missing.   *)
QueueDrains == \A c \in Clients : Pending(c) # <<>> ~> (Pending(c) = <<>> \/ ~app[c].alive)

(* A client that waits for a reply gets it.                                 *)
RequestsAnswered == \A c \in Clients : app[c].wait # "" ~> app[c].wait = ""

(* What nimf-types.h says of NimfPreeditAttr: its indices count characters. *)
AttrsInCharacters == \A i \in DOMAIN ics : ics[i].end_index <= Len(ics[i].preedit_string)
=============================================================================
