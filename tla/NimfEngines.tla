---------------------------- MODULE NimfEngines -----------------------------
(***************************************************************************)
(* The language engines of the daemon and the engine that each input       *)
(* context uses: nimf-server.c and nimf-service-ic.c.                      *)
(*                                                                         *)
(* In singleton mode the contexts share the engines of the server,         *)
(* otherwise each has a list of its own.  The user switches engines by     *)
(* keys and menus, loads and unloads them, changes the default engine and  *)
(* the mode, all while contexts hold plain pointers to engines.            *)
(***************************************************************************)
EXTENDS Naturals, FiniteSets, SequencesExt

CONSTANTS
  Engines,         \* engine ids
  SystemKeyboard,  \* "nimf-system-keyboard", the default of default-engine
  ICs,             \* input contexts
  Broken,          \* engines whose module cannot be loaded
  Server,          \* the owner of the engines that contexts share
  Null,            \* no engine
  Dangling         \* a pointer to an engine that has been freed

ASSUME EnginesAssumption ==
  /\ IsFiniteSet(Engines)
  /\ SystemKeyboard \in Engines /\ Broken \subseteq Engines \ {SystemKeyboard}
ASSUME ServerAssumption == Server \notin ICs

VARIABLES
  use_singleton,   \* server->priv->use_singleton
  default_engine,  \* the setting default-engine
  active,          \* the setting hidden-active-engines
  loaded,          \* server->priv->engines, the ids of the list in its order
  ics,             \* server->priv->ics
  engines,         \* ic->priv->engines, the same for each context
  engine           \* ic->priv->engine

vars == <<use_singleton, default_engine, active, loaded, ics, engines, engine>>

(* An engine that is alive is named by the list it is in and its id.       *)
Engine == [owner : ICs \cup {Server}, id : Engines]
Of(owner, id) == [owner |-> owner, id |-> id]

ASSUME PointersAssumption == Null # Dangling /\ {Null, Dangling} \cap Engine = {}

(* A list that has nothing twice.                                          *)
Lists(S) == {list \in Seq(S) : IsInjective(list)}

TypeOK ==
  /\ use_singleton \in BOOLEAN
  /\ default_engine \in Engines
  /\ active \subseteq Engines
  /\ loaded \in Lists(Engines)
  /\ ics \in Lists(ICs)
  /\ engines \in [ICs -> Lists(Engines)]
  /\ engine \in [ICs -> Engine \cup {Null, Dangling}]

(* nimf_server_load_engines, in the order the schemas happen to have.      *)
Init ==
  /\ use_singleton \in BOOLEAN
  /\ default_engine = SystemKeyboard
  /\ \E S \in SUBSET (Engines \ Broken) :
       SystemKeyboard \in S /\ active = S /\ loaded \in SetToSeqs(S)
  /\ ics = <<>>
  /\ engines = [i \in ICs |-> <<>>]
  /\ engine = [i \in ICs |-> Null]

-----------------------------------------------------------------------------
(* Looking engines up.  What a handler has changed so far is a record of   *)
(* the contexts' pointers and lists and of the default.                    *)

State == [engine |-> engine, engines |-> engines, default |-> default_engine]

Become(s) ==
  /\ engine' = s.engine
  /\ engines' = s.engines
  /\ default_engine' = s.default

(* nimf_server_get_engine_by_id, and the body of                           *)
(* nimf_service_ic_get_engine_by_id.                                       *)
ById(owner, list, id) == IF id \in ToSet(list) THEN Of(owner, id) ELSE Null

(* nimf_service_ic_load_engines, when the context has no list yet.         *)
Listed(s, i, list) ==
  IF s.engines[i] = <<>> THEN [s EXCEPT !.engines[i] = Reverse(list)] ELSE s

(* Mutant: the setting is reset in any case.                               *)
SetDefaultReset(s, i, owner, list) ==
  [s EXCEPT !.engine[i] = ById(owner, list, SystemKeyboard), !.default = SystemKeyboard]

(* nimf_server_get_default_engine and nimf_service_ic_get_default_engine:  *)
(* the setting is reset when its engine is not there.                      *)
SetDefaultOf(s, i, owner, list) ==
  LET id == IF s.default \in ToSet(list) THEN s.default ELSE SystemKeyboard IN
  [s EXCEPT !.engine[i] = ById(owner, list, id), !.default = id]

Defaulted(s, i, list) ==
  IF use_singleton
  THEN SetDefaultOf(s, i, Server, list)
  ELSE LET t == Listed(s, i, list) IN SetDefaultOf(t, i, i, t.engines[i])

(* Mutant: it wraps round before the last engine.                          *)
AfterSkipsLast(list, id) ==
  LET places == {k \in 1 .. Len(list) - 2 : list[k] = id} IN
  IF places = {} THEN list[1] ELSE list[(CHOOSE k \in places : TRUE) + 1]

(* nimf_server_get_next_engine and nimf_service_ic_get_next_engine: an     *)
(* engine that is not of this list is looked up by its id.                 *)
After(list, id) ==
  LET places == {k \in 1 .. Len(list) : list[k] = id} IN
  IF places = {} \/ places = {Len(list)}
  THEN list[1]
  ELSE list[(CHOOSE k \in places : TRUE) + 1]

(* g_object_unref of the last reference.                                   *)
Freed(s, e) ==
  [s EXCEPT !.engine = [i \in ICs |-> IF s.engine[i] = e THEN Dangling ELSE s.engine[i]]]

FreedAll(s, owner) ==
  [s EXCEPT !.engine =
     [i \in ICs |-> IF s.engine[i] \in Engine /\ s.engine[i].owner = owner
                    THEN Dangling ELSE s.engine[i]]]

-----------------------------------------------------------------------------
(* Contexts.                                                               *)

(* nimf_service_ic_constructed                                             *)
NewIC(i) ==
  /\ i \notin ToSet(ics)
  /\ ics' = Append(ics, i)
  /\ Become(Defaulted(State, i, loaded))
  /\ UNCHANGED <<use_singleton, active, loaded>>

(* g_ptr_array_remove_fast                                                 *)
RemovedFast(list, i) ==
  LET k == CHOOSE k \in 1 .. Len(list) : list[k] = i IN
  Front([list EXCEPT ![k] = Last(list)])

(* nimf_service_ic_finalize                                                *)
FreeIC(i) ==
  /\ i \in ToSet(ics)
  /\ ics' = RemovedFast(ics, i)
  /\ engines' = [engines EXCEPT ![i] = <<>>]
  /\ engine' = [engine EXCEPT ![i] = Null]
  /\ UNCHANGED <<use_singleton, default_engine, active, loaded>>

(* nimf_service_ic_filter_event with the hotkeys: the next engine.         *)
Hotkey(i) ==
  LET s == IF use_singleton THEN State ELSE Listed(State, i, loaded)
      owner == IF use_singleton THEN Server ELSE i
      list == IF use_singleton THEN loaded ELSE s.engines[i] IN
  /\ i \in ToSet(ics)
  /\ engine[i] \in Engine
  /\ Become([s EXCEPT !.engine[i] = Of(owner, After(list, engine[i].id))])
  /\ UNCHANGED <<use_singleton, active, loaded, ics>>

(* nimf_service_ic_change_engine_by_id and _change_engine, by a shortcut   *)
(* or by the menu of the indicator: an engine that is not there is refused. *)
ChangeEngine(i, id) ==
  LET s == IF use_singleton THEN State ELSE Listed(State, i, loaded)
      e == IF use_singleton THEN ById(Server, loaded, id) ELSE ById(i, s.engines[i], id) IN
  /\ i \in ToSet(ics)
  /\ Become(IF e = Null THEN s ELSE [s EXCEPT !.engine[i] = e])
  /\ UNCHANGED <<use_singleton, active, loaded, ics>>

-----------------------------------------------------------------------------
(* Settings.                                                               *)

(* on_use_singleton: the contexts are left as they are.                    *)
SetSingleton(on) ==
  /\ use_singleton # on
  /\ use_singleton' = on
  /\ UNCHANGED <<default_engine, active, loaded, ics, engines, engine>>

SetDefault(id) ==
  /\ default_engine # id
  /\ default_engine' = id
  /\ UNCHANGED <<use_singleton, active, loaded, ics, engines, engine>>

(* Mutant: contexts are not told of a new engine.                          *)
LoadForNobody(s, i, id, list) == s

(* nimf_service_ic_load_engine, list being the server's engines.           *)
LoadFor(s, i, id, list) ==
  LET e == s.engine[i]
      kept == e = Null \/ e = Dangling \/ e.owner = Server
      t == IF kept THEN s ELSE [s EXCEPT !.engine[i] = ById(Server, list, e.id)] IN
  IF s.engines[i] = <<>>
  THEN s
  ELSE IF use_singleton
       THEN [FreedAll(t, i) EXCEPT !.engines[i] = <<>>]
       ELSE [s EXCEPT !.engines[i] = Cons(id, @)]

(* nimf_service_ic_unload_engine, list being what the server has left.     *)
UnloadFor(s, i, id, list) ==
  LET own == id \in ToSet(s.engines[i])
      e == IF s.engines[i] = <<>> THEN Of(Server, id) ELSE Of(i, id)
      t == IF s.engine[i] = e THEN Defaulted(s, i, list) ELSE s IN
  IF s.engines[i] = <<>>
  THEN t
  ELSE IF own
       THEN [Freed(t, e) EXCEPT !.engines[i] = RemoveFirst(@, id)]
       ELSE s

(* Every context is told, in the order of the array.                       *)
LoadAll(q, id, list) == FoldLeft(LAMBDA s, i : LoadFor(s, i, id, list), q, ics)
UnloadAll(q, id, list) == FoldLeft(LAMBDA s, i : UnloadFor(s, i, id, list), q, ics)

(* What on_changed_active_engines has changed so far: r with another list   *)
(* and another state of the contexts.                                      *)
With(r, list, state) == [list |-> list, state |-> state, failed |-> r.failed]

(* An engine of the first loop of on_changed_active_engines: one that is   *)
(* there is passed over, and a module that cannot be loaded ends it.       *)
Load(r, id) ==
  LET list == Cons(id, r.list) IN
  IF r.failed \/ id \in ToSet(r.list) THEN r
  ELSE IF id \in Broken THEN [list |-> r.list, state |-> r.state, failed |-> TRUE]
  ELSE With(r, list, LoadAll(r.state, id, list))

(* Mutant: the server's list drops the engine after the contexts are       *)
(* told.                                                                   *)
UnloadLate(r, id) ==
  With(r, RemoveFirst(r.list, id), Freed(UnloadAll(r.state, id, r.list), Of(Server, id)))

(* An engine of the second.                                                *)
Unload(r, id) ==
  LET list == RemoveFirst(r.list, id) IN
  With(r, list, Freed(UnloadAll(r.state, id, list), Of(Server, id)))

UnloadUnless(r, id, ids) ==
  IF id = SystemKeyboard \/ id \in ids THEN r ELSE Unload(r, id)

OnChangedActiveEngines(ids) ==
  LET r == FoldLeft(Load, [list |-> loaded, state |-> State, failed |-> FALSE], ids)
      u == IF r.failed THEN r
           ELSE FoldLeft(LAMBDA q, id : UnloadUnless(q, id, ToSet(ids)), r, r.list) IN
  /\ active' = ToSet(ids)
  /\ loaded' = u.list
  /\ Become(u.state)
  /\ UNCHANGED <<use_singleton, ics>>

(* nimf-settings switches an engine on or off.                             *)
SwitchEngine(id) ==
  /\ id # SystemKeyboard
  /\ \E ids \in SetToSeqs(IF id \in active THEN active \ {id} ELSE active \cup {id}) :
       OnChangedActiveEngines(ids)

-----------------------------------------------------------------------------
(* Specifications.                                                         *)

(* What users do in either mode.                                           *)
UserNext ==
  \/ \E i \in ICs : NewIC(i) \/ FreeIC(i) \/ Hotkey(i)
  \/ \E i \in ICs, id \in Engines : ChangeEngine(i, id)
  \/ \E id \in Engines : SwitchEngine(id)

(* The mode does not change, and default-engine is left to its default     *)
(* unless contexts share their engines.                                    *)
SettledNext == UserNext \/ (use_singleton /\ \E id \in Engines : SetDefault(id))

(* Any setting is changed while contexts exist.                            *)
AnyNext ==
  \/ UserNext
  \/ \E id \in Engines : SetDefault(id)
  \/ \E on \in BOOLEAN : SetSingleton(on)

SettledSpec == Init /\ [][SettledNext]_vars
AnySpec == Init /\ [][AnyNext]_vars

-----------------------------------------------------------------------------
(* Properties.                                                             *)

(* A context that lives has an engine, and one that has not been freed:    *)
(* what nimf_service_ic_get_engine returns can be used.                    *)
EngineIsAlive == \A i \in ToSet(ics) : engine[i] \in Engine

(* The list of a context, once made, has the engines of the server: a      *)
(* shortcut or a menu entry of a loaded engine is never refused.           *)
ListsAgree ==
  \A i \in ICs : engines[i] # <<>> =>
    ToSet(engines[i]) = ToSet(loaded) /\ Len(engines[i]) = Len(loaded)

(* Lists are lists of engines, and those of the contexts follow the         *)
(* server's.                                                                *)
ListsInv == TypeOK /\ ListsAgree

(* Contexts that come and engines that are switched on and off do not lose *)
(* the user's default-engine, unless its engine has gone.                  *)
DefaultIsKept ==
  [][active' # active \/ ics' # ics
       => default_engine' = default_engine \/ default_engine \notin ToSet(loaded')]_vars

(* The hotkey goes round: a context that presses it as often as there are  *)
(* engines has used each of them, whatever was switched on and off before, *)
(* and also from an engine that is not of the list it walks along.         *)
Walk(list, id) == FoldLeft(LAMBDA w, x : Append(w, After(list, Last(w))), <<id>>, list)
HotkeyGoesRound ==
  \A i \in ToSet(ics) :
    LET list == IF use_singleton THEN loaded ELSE engines[i] IN
    engine[i] \in Engine /\ list # <<>> =>
      ToSet(Tail(Walk(list, engine[i].id))) = ToSet(loaded)
=============================================================================
