---------------------------- MODULE NimfContexts ----------------------------
(***************************************************************************)
(* The input contexts of one application and of its connection to the      *)
(* daemon: NimfIM of nimf-im.c on one side, NimfNimIC in connection->ics   *)
(* of nimf-nim.c on the other.  A context is created by a call when the    *)
(* application is connected, is lost with the daemon, and is created again *)
(* when a file monitor sees the socket of a new daemon.                    *)
(*                                                                         *)
(* Calls are those of NestedCalls: one at a time, without the callbacks    *)
(* nested in them, which leave the state modelled here alone.              *)
(***************************************************************************)
EXTENDS Naturals

CONSTANTS
  MaxId,    \* the largest id, 65535 for a guint16
  NoCall    \* the application waits for nothing, nothing is to be handled

ASSUME IdAssumption == MaxId \in Nat \ {0}

Ids == 1 .. MaxId
Calls == [type : {"create", "destroy", "use"}, id : Ids]
ASSUME CallAssumption == NoCall \notin Calls

VARIABLES
  next_id,  \* of nimf_im_init
  live,     \* nimf_im_table
  created,  \* im->priv->created
  changed,  \* a monitor event that the main loop of the application will see
  link,     \* of nimf_im_socket: "closed", "up", or "hup" when the daemon ended
  wait,     \* the call the application waits for
  request,  \* the call the daemon has to handle
  up,       \* does a daemon listen
  ended,    \* history: a daemon has ended; no guard reads it
  ics       \* connection->ics

vars == <<next_id, live, created, changed, link, wait, request, up, ended, ics>>

TypeOK ==
  /\ next_id \in 0 .. MaxId
  /\ live \subseteq Ids
  /\ created \in [Ids -> BOOLEAN]
  /\ changed \in [Ids -> BOOLEAN]
  /\ link \in {"closed", "up", "hup"}
  /\ wait \in Calls \cup {NoCall}
  /\ request \in Calls \cup {NoCall}
  /\ up \in BOOLEAN
  /\ ended \in BOOLEAN
  /\ ics \subseteq Ids

Init ==
  /\ next_id = 0
  /\ live = {}
  /\ created = [i \in Ids |-> FALSE]
  /\ changed = [i \in Ids |-> FALSE]
  /\ link = "closed"
  /\ wait = NoCall
  /\ request = NoCall
  /\ up \in BOOLEAN
  /\ ended = FALSE
  /\ ics = {}

-----------------------------------------------------------------------------
(* nimf-im.c                                                               *)

Idle == wait = NoCall

Request(type, id) == [type |-> type, id |-> id]

(* nimf_send_message: nothing reaches a daemon that has ended.             *)
Send(c, l) == wait' = c /\ request' = IF l = "up" THEN c ELSE NoCall

(* The loop of nimf_im_init over next_id, a guint16: it skips 0 and the    *)
(* ids in use.                                                             *)
Turn(k) == (next_id + k) % (MaxId + 1)
Free(id) == id \in Ids /\ id \notin live
TakesTurn(k) == Free(Turn(k)) /\ \A j \in 0 .. k - 1 : ~Free(Turn(j))

(* nimf_im_is_connected: the end of the daemon is not known to it yet.     *)
Connected(l) == l \in {"up", "hup"}

(* nimf_im_connect: to the daemon, to one that its retries have started,   *)
(* or to none.  ids have a file monitor, events are still to be seen.      *)
Connect(ids, events) ==
  \/ /\ Connected(link)
     /\ changed' = events
     /\ UNCHANGED <<link, up, ics>>
  \/ /\ ~Connected(link)
     /\ link' = "up"
     /\ up' = TRUE
     /\ ics' = {}
     /\ changed' = [i \in Ids |-> events[i] \/ (~up /\ i \in ids)]
  \/ /\ ~Connected(link) /\ ~up
     /\ changed' = events
     /\ UNCHANGED <<link, up, ics>>

(* Mutant: connected or not is decided before it connects.                 *)
CreateIfLinked(id, l, made) ==
  IF Connected(link) /\ ~made
  THEN Send(Request("create", id), l)
  ELSE UNCHANGED <<wait, request>>

(* nimf_im_create_context, of a context that is connected but not created. *)
CreateOn(id, l, made) ==
  IF Connected(l) /\ ~made
  THEN Send(Request("create", id), l)
  ELSE UNCHANGED <<wait, request>>

(* nimf_im_init: its loop would not end when all ids are in use.           *)
NewContext ==
  \E k \in 0 .. MaxId :
    LET id == Turn(k) IN
    /\ Idle
    /\ TakesTurn(k)
    /\ next_id' = Turn(k + 1)
    /\ live' = live \cup {id}
    /\ created' = [created EXCEPT ![id] = FALSE]
    /\ Connect(live', changed)
    /\ CreateOn(id, link', FALSE)
    /\ UNCHANGED ended

(* on_changed, with G_FILE_MONITOR_EVENT_CREATED                           *)
OnChanged(id) ==
  /\ Idle
  /\ changed[id]
  /\ Connect(live, [changed EXCEPT ![id] = FALSE])
  /\ CreateOn(id, link', created[id])
  /\ UNCHANGED <<next_id, live, created, ended>>

(* nimf_im_focus_in, _focus_out, _filter_event, _reset, _set_...           *)
UseContext(id) ==
  /\ Idle
  /\ id \in live
  /\ Connected(link)
  /\ Send(Request("use", id), link)
  /\ UNCHANGED <<next_id, live, created, changed, link, up, ended, ics>>

(* Mutant: the file monitor outlives the context.                          *)
ForgetNoMonitor(id) == live' = live \ {id} /\ UNCHANGED changed

(* The end of nimf_im_finalize: the last context closes the socket.        *)
Forget(id) ==
  /\ live' = live \ {id}
  /\ changed' = [changed EXCEPT ![id] = FALSE]

(* nimf_im_finalize, up to its call when it makes one.                     *)
Finalize(id) ==
  /\ Idle
  /\ id \in live
  /\ IF Connected(link) /\ created[id]
     THEN /\ Send(Request("destroy", id), link)
          /\ UNCHANGED <<live, changed, link>>
     ELSE /\ Forget(id)
          /\ link' = IF live' = {} THEN "closed" ELSE link
          /\ UNCHANGED <<wait, request>>
  /\ UNCHANGED <<next_id, created, up, ended, ics>>

(* nimf_result_iteration_until has ended, with a reply or without: what    *)
(* follows it in nimf_im_create_context and nimf_im_finalize.              *)
Finish(flags, l) ==
  /\ wait' = NoCall
  /\ created' = IF wait.type = "create" THEN [flags EXCEPT ![wait.id] = TRUE] ELSE flags
  /\ IF wait.type = "destroy"
     THEN Forget(wait.id) /\ link' = IF live' = {} THEN "closed" ELSE l
     ELSE link' = l /\ UNCHANGED <<live, changed>>

(* The reply arrives.                                                      *)
Return ==
  /\ ~Idle
  /\ link = "up"
  /\ request = NoCall
  /\ Finish(created, link)
  /\ UNCHANGED <<next_id, request, up, ended, ics>>

(* on_incoming_message with G_IO_HUP, from the main loop or from a wait,   *)
(* which it ends: no context is created any more.                          *)
HangUp ==
  LET flags == [i \in Ids |-> created[i] /\ i \notin live] IN
  /\ link = "hup"
  /\ IF Idle
     THEN created' = flags /\ link' = "closed" /\ UNCHANGED <<wait, live, changed>>
     ELSE Finish(flags, "closed")
  /\ UNCHANGED <<next_id, request, up, ended, ics>>

-----------------------------------------------------------------------------
(* The daemon.                                                             *)

(* Mutant: CREATE_CONTEXT falls through to DESTROY_CONTEXT.                *)
FallsThrough(call) == ics \ {call.id}

(* Mutant: DESTROY_CONTEXT only replies.                                   *)
OnlyReplies(call) == IF call.type = "create" THEN ics \cup {call.id} ELSE ics

(* The cases CREATE_CONTEXT and DESTROY_CONTEXT of on_incoming; the other   *)
(* calls leave the table alone.                                            *)
Handled(call) ==
  CASE call.type = "create"  -> ics \cup {call.id}
    [] call.type = "destroy" -> ics \ {call.id}
    [] OTHER                 -> ics

(* on_incoming of nimf-nim.c, up to its reply.                             *)
Handle ==
  /\ request # NoCall
  /\ ics' = Handled(request)
  /\ request' = NoCall
  /\ UNCHANGED <<next_id, live, created, changed, link, wait, up, ended>>

(* A daemon listens: every monitor of the application sees the socket.     *)
DaemonStarts ==
  /\ ~up
  /\ up' = TRUE
  /\ changed' = [i \in Ids |-> changed[i] \/ i \in live]
  /\ UNCHANGED <<next_id, live, created, link, wait, request, ended, ics>>

(* It ends, and what is in its socket with it.                             *)
DaemonEnds ==
  /\ up
  /\ up' = FALSE
  /\ ended' = TRUE
  /\ link' = IF link = "up" THEN "hup" ELSE link
  /\ request' = NoCall
  /\ UNCHANGED <<next_id, live, created, changed, wait, ics>>

-----------------------------------------------------------------------------
(* Specifications.                                                         *)

Next ==
  \/ NewContext
  \/ \E id \in Ids : OnChanged(id) \/ UseContext(id) \/ Finalize(id)
  \/ Return \/ HangUp
  \/ Handle
  \/ DaemonStarts \/ DaemonEnds

(* Calls are answered; the main loop of the application dispatches an      *)
(* event of a monitor between two calls sooner or later.                   *)
Fairness ==
  /\ WF_vars(Return) /\ WF_vars(Handle) /\ WF_vars(HangUp)
  /\ \A id \in Ids : SF_vars(OnChanged(id))

Spec == Init /\ [][Next]_vars /\ Fairness

-----------------------------------------------------------------------------
(* Properties.                                                             *)

(* The call of a context that the daemon handles finds the context: the    *)
(* NULL context that nimf_service_ic_focus_in, _filter_event and the       *)
(* others refuse is never looked up.                                       *)
CallsFindContext ==
  request # NoCall /\ request.type = "use" => request.id \in ics

(* Until a daemon ends, a context that takes itself for created between    *)
(* two calls is known to the daemon, and one that does not is unknown.     *)
CreatedIsKnown ==
  ~ended /\ Idle /\ link = "up" => \A id \in live : created[id] <=> id \in ics

(* The daemon keeps no context that the application has destroyed: an id   *)
(* that is used again finds nothing of the context that had it before.     *)
NoOrphans == Idle /\ link = "up" => ics \subseteq {id \in live : created[id]}

(* A context that was made while there was no daemon is created once there *)
(* is one that does not end, whichever of the contexts connects first.     *)
ContextsGetCreated ==
  \A id \in Ids : id \in live /\ up ~> id \notin live \/ created[id] \/ ended

-----------------------------------------------------------------------------
(* What the two sides know of each other in the midst of a call.           *)

(* The daemon handles what the application waits for; only a context that  *)
(* lives has a monitor.                                                    *)
CallIsPending ==
  /\ \A id \in Ids : changed[id] => id \in live
  /\ request # NoCall => request = wait /\ link = "up"
  /\ ~Idle => wait.id \in live /\ link # "closed"
  /\ ~Idle /\ wait.type = "destroy" => link = "hup" \/ created[wait.id]

Creating == IF ~Idle /\ wait.type = "create" THEN {wait.id} ELSE {}

(* The daemon knows the contexts that are created or in creation; one that *)
(* is being destroyed it has forgotten when it has handled the call.       *)
KnownToApp ==
  link = "up" =>
    /\ ics \subseteq {id \in live : created[id]} \cup Creating
    /\ ~Idle /\ request = NoCall /\ wait.type = "destroy" => wait.id \notin ics

ContextsInv == CallIsPending /\ KnownToApp

(* Until a daemon ends the application knows as much of it: a context      *)
(* takes itself for created only when the daemon has it.                   *)
KnownToDaemon ==
  ~ended =>
    /\ link # "hup"
    /\ link = "closed" => \A id \in live : ~created[id]
    /\ link = "up" =>
         /\ \A id \in live :
              created[id] => id \in ics \/ (wait = Request("destroy", id) /\ request = NoCall)
         /\ ~Idle /\ request = NoCall /\ wait.type = "create" => wait.id \in ics
=============================================================================
