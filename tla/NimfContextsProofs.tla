------------------------- MODULE NimfContextsProofs -------------------------
(* Proofs about NimfContexts, for ids of any width.                        *)
EXTENDS NimfContexts, TLAPS

(* The counter of nimf_im_init stays within a guint16.                     *)
LEMMA TurnType ==
  ASSUME next_id \in 0 .. MaxId, NEW k \in Nat
  PROVE  Turn(k) \in 0 .. MaxId
<1>1. \A a \in Nat, b \in Nat \ {0} : a % b \in 0 .. b - 1
  OBVIOUS
<1>2. next_id + k \in Nat /\ MaxId + 1 \in Nat \ {0}
  BY IdAssumption
<1> QED BY <1>1, <1>2, IdAssumption DEF Turn

LEMMA ConnectTypes ==
  ASSUME TypeOK, NEW ids \in SUBSET Ids, NEW events \in [Ids -> BOOLEAN],
         Connect(ids, events)
  PROVE  /\ link' \in {"closed", "up", "hup"}
         /\ up' \in BOOLEAN
         /\ ics' \subseteq Ids
         /\ changed' \in [Ids -> BOOLEAN]
BY DEF Connect, TypeOK

LEMMA CreateTypes ==
  ASSUME TypeOK, NEW id \in Ids, NEW l, NEW made, CreateOn(id, l, made)
  PROVE  wait' \in Calls \cup {NoCall} /\ request' \in Calls \cup {NoCall}
BY DEF CreateOn, TypeOK, Send, Request, Calls

LEMMA FinishTypes ==
  ASSUME TypeOK, ~Idle, NEW flags \in [Ids -> BOOLEAN],
         NEW l \in {"closed", "up", "hup"}, Finish(flags, l)
  PROVE  /\ wait' = NoCall
         /\ live' \subseteq Ids
         /\ created' \in [Ids -> BOOLEAN]
         /\ changed' \in [Ids -> BOOLEAN]
         /\ link' \in {"closed", "up", "hup"}
BY DEF Finish, TypeOK, Forget, Idle, Calls

LEMMA KeepsTypes == TypeOK /\ [Next]_vars => TypeOK'
<1> SUFFICES ASSUME TypeOK, [Next]_vars
             PROVE  TypeOK'
  OBVIOUS
<1>1. ASSUME NewContext PROVE TypeOK'
  <2> PICK k \in 0 .. MaxId :
        /\ TakesTurn(k)
        /\ next_id' = Turn(k + 1)
        /\ live' = live \cup {Turn(k)}
        /\ created' = [created EXCEPT ![Turn(k)] = FALSE]
        /\ Connect(live', changed)
        /\ CreateOn(Turn(k), link', FALSE)
    BY <1>1 DEF NewContext
  <2>1. Turn(k) \in Ids
    BY DEF TakesTurn, Free
  <2>2. next_id' \in 0 .. MaxId
    BY TurnType DEF TypeOK
  <2>3. live' \in SUBSET Ids /\ created' \in [Ids -> BOOLEAN] /\ ended' \in BOOLEAN
    BY <1>1, <2>1 DEF TypeOK, NewContext
  <2>4. changed \in [Ids -> BOOLEAN]
    BY DEF TypeOK
  <2> QED BY <2>1, <2>2, <2>3, <2>4, ConnectTypes, CreateTypes DEF TypeOK
<1>2. ASSUME NEW id \in Ids, OnChanged(id) PROVE TypeOK'
  <2> DEFINE events == [changed EXCEPT ![id] = FALSE]
  <2>1. events \in [Ids -> BOOLEAN] /\ live \in SUBSET Ids
    BY DEF TypeOK
  <2>2. Connect(live, events) /\ CreateOn(id, link', created[id])
    BY <1>2 DEF OnChanged
  <2> HIDE DEF events
  <2>3. UNCHANGED <<next_id, live, created, ended>>
    BY <1>2 DEF OnChanged
  <2> QED BY <2>1, <2>2, <2>3, ConnectTypes, CreateTypes DEF TypeOK
<1>3. ASSUME NEW id \in Ids, UseContext(id) PROVE TypeOK'
  BY <1>3 DEF UseContext, Send, Request, Calls, TypeOK
<1>4. ASSUME NEW id \in Ids, Finalize(id) PROVE TypeOK'
  <2>1. CASE Connected(link) /\ created[id]
    BY <1>4, <2>1 DEF Finalize, Send, Request, Calls, TypeOK
  <2>2. CASE ~(Connected(link) /\ created[id])
    BY <1>4, <2>2 DEF Finalize, Forget, TypeOK
  <2> QED BY <2>1, <2>2
<1>5. CASE Return
  <2>1. created \in [Ids -> BOOLEAN] /\ link \in {"closed", "up", "hup"}
    BY DEF TypeOK
  <2> QED BY <1>5, <2>1, FinishTypes DEF Return, TypeOK
<1>6. CASE HangUp
  <2> DEFINE flags == [i \in Ids |-> created[i] /\ i \notin live]
  <2>1. flags \in [Ids -> BOOLEAN]
    BY DEF TypeOK
  <2>2. CASE Idle
    BY <1>6, <2>1, <2>2 DEF HangUp, TypeOK
  <2>3. CASE ~Idle
    <3>1. Finish(flags, "closed") /\ UNCHANGED <<next_id, request, up, ended, ics>>
      BY <1>6, <2>3 DEF HangUp
    <3> HIDE DEF flags
    <3> QED BY <2>1, <2>3, <3>1, FinishTypes DEF TypeOK
  <2> QED BY <2>2, <2>3
<1>7. CASE Handle
  BY <1>7 DEF Handle, Handled, TypeOK, Calls
<1>8. CASE DaemonStarts
  BY <1>8 DEF DaemonStarts, TypeOK
<1>9. CASE DaemonEnds
  BY <1>9 DEF DaemonEnds, TypeOK
<1>10. CASE UNCHANGED vars
  BY <1>10 DEF vars, TypeOK
<1> QED
  BY <1>1, <1>2, <1>3, <1>4, <1>5, <1>6, <1>7, <1>8, <1>9, <1>10
  DEF Next

-----------------------------------------------------------------------------

LEMMA KeepsInv == TypeOK /\ ContextsInv /\ [Next]_vars => ContextsInv'
<1> SUFFICES ASSUME TypeOK, ContextsInv, [Next]_vars
             PROVE  ContextsInv'
  OBVIOUS
<1> USE CallAssumption
    DEF TypeOK, ContextsInv, CallIsPending, KnownToApp, Creating, Idle, Calls
<1>1. ASSUME NewContext PROVE ContextsInv'
  <2> PICK k \in 0 .. MaxId :
        /\ TakesTurn(k)
        /\ live' = live \cup {Turn(k)}
        /\ created' = [created EXCEPT ![Turn(k)] = FALSE]
        /\ Connect(live', changed)
        /\ CreateOn(Turn(k), link', FALSE)
    BY <1>1 DEF NewContext
  <2> DEFINE id == Turn(k)
  <2>1. id \in Ids /\ id \notin live
    BY DEF TakesTurn, Free
  <2>2. Idle /\ request = NoCall
    BY <1>1 DEF NewContext
  <2> HIDE DEF id
  <2>3. CreateOn(id, link', FALSE)
    BY DEF id
  <2>4. live' = live \cup {id} /\ created' = [created EXCEPT ![id] = FALSE]
    BY DEF id
  <2>5. link' = "up" => ics' \subseteq {i \in live : created[i]}
    BY <2>2 DEF Connect, Connected
  <2>6. link' # "closed" => wait' = Request("create", id)
    BY <2>3, <2>1 DEF CreateOn, Connected, Send, Connect
  <2>7. link' = "closed" => wait' = NoCall /\ request' = NoCall
    BY <2>3, <2>2 DEF CreateOn, Connected
  <2>8. request' # NoCall => request' = wait' /\ link' = "up"
    BY <2>3, <2>2 DEF CreateOn, Send, Connected
  <2>9. link' \in {"closed", "up", "hup"}
    BY DEF Connect
  <2>10. \A i \in Ids : changed'[i] => i \in live'
    BY <2>4 DEF Connect
  <2>11. CallIsPending'
    BY <2>1, <2>4, <2>6, <2>7, <2>8, <2>9, <2>10 DEF Request
  <2>12. KnownToApp'
    BY <2>1, <2>4, <2>5, <2>6 DEF Request
  <2> QED BY <2>11, <2>12
<1>2. ASSUME NEW id \in Ids, OnChanged(id) PROVE ContextsInv'
  <2> DEFINE events == [changed EXCEPT ![id] = FALSE]
  <2>1. Idle /\ request = NoCall /\ live' = live /\ created' = created
    BY <1>2 DEF OnChanged
  <2>2. CreateOn(id, link', created[id]) /\ id \in live
    BY <1>2 DEF OnChanged
  <2>3. Connect(live, events)
    BY <1>2 DEF OnChanged
  <2>4. \A i \in Ids : events[i] => i \in live
    OBVIOUS
  <2>5. events \in [Ids -> BOOLEAN]
    OBVIOUS
  <2> HIDE DEF events
  <2>6. link' = "up" => ics' \subseteq {i \in live : created[i]}
    BY <2>1, <2>3 DEF Connect, Connected
  <2>7. \A i \in Ids : changed'[i] => i \in live
    BY <2>3, <2>4, <2>5 DEF Connect
  <2>8. CASE Connected(link') /\ ~created[id]
    BY <2>1, <2>2, <2>6, <2>7, <2>8 DEF CreateOn, Send, Request, Connected
  <2>9. CASE ~(Connected(link') /\ ~created[id])
    BY <2>1, <2>2, <2>6, <2>7, <2>9 DEF CreateOn
  <2> QED BY <2>8, <2>9
<1>3. ASSUME NEW id \in Ids, UseContext(id) PROVE ContextsInv'
  BY <1>3 DEF UseContext, Send, Request, Connected
<1>4. ASSUME NEW id \in Ids, Finalize(id) PROVE ContextsInv'
  <2>1. CASE Connected(link) /\ created[id]
    BY <1>4, <2>1 DEF Finalize, Send, Request, Connected
  <2>2. CASE ~(Connected(link) /\ created[id])
    BY <1>4, <2>2 DEF Finalize, Forget, Connected
  <2> QED BY <2>1, <2>2
<1>5. CASE Return
  <2>1. /\ ~Idle /\ link = "up" /\ request = NoCall /\ Finish(created, link)
        /\ UNCHANGED <<next_id, request, up, ended, ics>>
    BY <1>5 DEF Return
  <2>2. CASE wait.type = "create"
    BY <2>1, <2>2 DEF Finish
  <2>3. CASE wait.type = "destroy"
    BY <2>1, <2>3 DEF Finish, Forget
  <2>4. CASE wait.type = "use"
    BY <2>1, <2>4 DEF Finish
  <2> QED BY <2>1, <2>2, <2>3, <2>4
<1>6. CASE HangUp
  <2>1. link' = "closed" /\ wait' = NoCall /\ request' = request /\ request = NoCall
    BY <1>6 DEF HangUp, Finish, Forget
  <2>2. \A id \in Ids : changed'[id] => id \in live'
    BY <1>6 DEF HangUp, Finish, Forget
  <2> QED BY <2>1, <2>2
<1>7. CASE Handle
  <2>1. request = wait /\ link = "up" /\ ~Idle
    BY <1>7 DEF Handle, Handled
  <2>2. CASE wait.type = "create"
    BY <1>7, <2>1, <2>2 DEF Handle, Handled
  <2>3. CASE wait.type = "destroy"
    BY <1>7, <2>1, <2>3 DEF Handle, Handled
  <2>4. CASE wait.type = "use"
    BY <1>7, <2>1, <2>4 DEF Handle, Handled
  <2> QED BY <2>1, <2>2, <2>3, <2>4
<1>8. CASE DaemonStarts
  BY <1>8 DEF DaemonStarts
<1>9. CASE DaemonEnds
  BY <1>9 DEF DaemonEnds
<1>10. CASE UNCHANGED vars
  BY <1>10 DEF vars
<1> QED
  BY <1>1, <1>2, <1>3, <1>4, <1>5, <1>6, <1>7, <1>8, <1>9, <1>10
  DEF Next

LEMMA InitContexts == Init => TypeOK /\ ContextsInv
<1>1. Init => TypeOK
  <2> SUFFICES ASSUME Init PROVE TypeOK
    OBVIOUS
  <2>1. next_id \in 0 .. MaxId
    BY IdAssumption DEF Init
  <2>2. up \in BOOLEAN /\ ended \in BOOLEAN
    BY DEF Init
  <2> QED BY <2>1, <2>2 DEF Init, TypeOK
<1>2. Init => ContextsInv
  BY DEF Init, ContextsInv, CallIsPending, KnownToApp, Idle
<1> QED BY <1>1, <1>2

(* A call is pending on both sides or on none, through every crash.        *)
THEOREM ContextsAgree == Spec => [](TypeOK /\ ContextsInv)
<1>1. TypeOK /\ ContextsInv /\ [Next]_vars => TypeOK' /\ ContextsInv'
  BY KeepsTypes, KeepsInv
<1> QED BY InitContexts, <1>1, PTL DEF Spec

(* The daemon never keeps a context that the application has destroyed.    *)
THEOREM NothingIsOrphaned == Spec => []NoOrphans
<1>1. ContextsInv => NoOrphans
  BY DEF ContextsInv, KnownToApp, NoOrphans, Creating
<1> QED BY ContextsAgree, <1>1, PTL

-----------------------------------------------------------------------------

LEMMA KeepsKnown ==
  TypeOK /\ ContextsInv /\ KnownToDaemon /\ [Next]_vars => KnownToDaemon'
<1> SUFFICES ASSUME TypeOK, ContextsInv, KnownToDaemon, [Next]_vars, ~ended'
             PROVE  KnownToDaemon'
  BY DEF KnownToDaemon
<1>0. ~ended /\ ~DaemonEnds /\ ~HangUp
  <2>1. ~DaemonEnds
    BY DEF DaemonEnds
  <2>2. ended' = ended
    BY <2>1 DEF Next, vars, NewContext, OnChanged, UseContext, Finalize, Return,
                HangUp, Handle, DaemonStarts
  <2>3. ~ended
    BY <2>2
  <2>4. ~HangUp
    BY <2>3 DEF KnownToDaemon, HangUp
  <2> QED BY <2>1, <2>3, <2>4
<1> USE CallAssumption
    DEF TypeOK, ContextsInv, CallIsPending, KnownToApp, KnownToDaemon, Creating,
        Idle, Calls, Request
<1> USE <1>0
<1>1. ASSUME NewContext PROVE KnownToDaemon'
  <2> PICK k \in 0 .. MaxId :
        /\ TakesTurn(k)
        /\ live' = live \cup {Turn(k)}
        /\ created' = [created EXCEPT ![Turn(k)] = FALSE]
        /\ Connect(live', changed)
        /\ CreateOn(Turn(k), link', FALSE)
    BY <1>1 DEF NewContext
  <2> DEFINE id == Turn(k)
  <2>1. id \in Ids /\ id \notin live /\ Idle
    BY <1>1 DEF TakesTurn, Free, NewContext
  <2> HIDE DEF id
  <2>2. live' = live \cup {id} /\ created' = [created EXCEPT ![id] = FALSE]
    BY DEF id
  <2>3. link' \in {"closed", "up"}
    BY DEF Connect
  <2>4. link' = "up" => wait' = Request("create", id) /\ request' = wait'
    BY DEF CreateOn, Connected, Send, id
  <2>5. link' = "up" => \A i \in live : created[i] => i \in ics'
    BY <2>1 DEF Connect, Connected
  <2>6. link' = "closed" => link = "closed"
    BY DEF Connect
  <2> QED BY <2>1, <2>2, <2>3, <2>4, <2>5, <2>6
<1>2. ASSUME NEW id \in Ids, OnChanged(id) PROVE KnownToDaemon'
  <2>1. Idle /\ request = NoCall /\ live' = live /\ created' = created
    BY <1>2 DEF OnChanged
  <2>2. /\ Connect(live, [changed EXCEPT ![id] = FALSE])
        /\ CreateOn(id, link', created[id])
    BY <1>2 DEF OnChanged
  <2>3. link' \in {"closed", "up"} /\ (link' = "closed" => link = "closed")
    BY <2>2 DEF Connect
  <2>4. link' = "up" => \A i \in live : created[i] => i \in ics'
    BY <2>1, <2>2 DEF Connect, Connected
  <2>5. CASE Connected(link') /\ ~created[id]
    BY <2>1, <2>2, <2>3, <2>4, <2>5 DEF CreateOn, Send, Connected
  <2>6. CASE ~(Connected(link') /\ ~created[id])
    BY <2>1, <2>2, <2>3, <2>4, <2>6 DEF CreateOn
  <2> QED BY <2>5, <2>6
<1>3. ASSUME NEW id \in Ids, UseContext(id) PROVE KnownToDaemon'
  BY <1>3 DEF UseContext, Send, Connected
<1>4. ASSUME NEW id \in Ids, Finalize(id) PROVE KnownToDaemon'
  <2>1. CASE Connected(link) /\ created[id]
    BY <1>4, <2>1 DEF Finalize, Send, Connected
  <2>2. CASE ~(Connected(link) /\ created[id])
    BY <1>4, <2>2 DEF Finalize, Forget, Connected
  <2> QED BY <2>1, <2>2
<1>5. CASE Return
  <2>1. /\ ~Idle /\ link = "up" /\ request = NoCall /\ Finish(created, link)
        /\ UNCHANGED <<next_id, request, up, ended, ics>>
    BY <1>5 DEF Return
  <2>2. CASE wait.type = "create"
    BY <2>1, <2>2 DEF Finish
  <2>3. CASE wait.type = "destroy"
    BY <2>1, <2>3 DEF Finish, Forget
  <2>4. CASE wait.type = "use"
    BY <2>1, <2>4 DEF Finish
  <2> QED BY <2>1, <2>2, <2>3, <2>4
<1>6. CASE Handle
  <2>1. request = wait /\ link = "up" /\ ~Idle
    BY <1>6 DEF Handle, Handled
  <2>2. CASE wait.type = "create"
    BY <1>6, <2>1, <2>2 DEF Handle, Handled
  <2>3. CASE wait.type = "destroy"
    BY <1>6, <2>1, <2>3 DEF Handle, Handled
  <2>4. CASE wait.type = "use"
    BY <1>6, <2>1, <2>4 DEF Handle, Handled
  <2> QED BY <2>1, <2>2, <2>3, <2>4
<1>7. CASE DaemonStarts
  BY <1>7 DEF DaemonStarts
<1>8. CASE UNCHANGED vars
  BY <1>8 DEF vars
<1> QED
  BY <1>0, <1>1, <1>2, <1>3, <1>4, <1>5, <1>6, <1>7, <1>8 DEF Next

(* As long as no daemon ends, an application's view of which of its        *)
(* contexts are created is exactly the daemon's.                           *)
THEOREM CreatedMeansKnown == Spec => []CreatedIsKnown
<1>1. Init => KnownToDaemon
  BY DEF Init, KnownToDaemon
<1>2. TypeOK /\ ContextsInv /\ KnownToDaemon /\ [Next]_vars
        => TypeOK' /\ ContextsInv' /\ KnownToDaemon'
  BY KeepsTypes, KeepsInv, KeepsKnown
<1>3. TypeOK /\ ContextsInv /\ KnownToDaemon => CreatedIsKnown
  BY CallAssumption
  DEF TypeOK, ContextsInv, KnownToApp, KnownToDaemon, CreatedIsKnown, Creating,
      Idle, Request, Calls
<1> QED BY InitContexts, <1>1, <1>2, <1>3, PTL DEF Spec
=============================================================================
