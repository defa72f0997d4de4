# A TLA+ development of nimf

nimf is an input method framework: applications hand key events to a daemon,
language engines in the daemon turn them into text, and the text comes back as
signals. This directory models the parts of it that carry its own logic, checks
them with TLC and proves the most important results with TLAPS.

Paths below are relative to the root of the repository.

## The system

### Components

| component | code | state | operations |
|---|---|---|---|
| message protocol | `libnimf/nimf-message.c` | one `NimfResult` per connection and side (`is_dispatched`, `reply`) | `nimf_send_message`, `nimf_recv_message`, `nimf_result_iteration_until` |
| client library | `libnimf/nimf-im.c` | one socket, one result, one table of contexts and one mutex per application; per context `id`, `created`, a file monitor | `nimf_im_connect`, `on_changed`, `on_incoming_message`, `nimf_im_init`, `_finalize`, and the calls (`filter_event`, `focus_in`, `reset`, ...) |
| nimf-nim service | `modules/services/nim/` | connections, each with `ics` and a result; the last focused connection and context | `on_new_connection`, `on_incoming`, `nimf_nim_ic_emit_*`, `change_engine` |
| service input context | `libnimf/nimf-service-ic.c` | `engine`, `engines`, preedit string and state, `use_preedit` | `filter_event`, `focus_in/out`, `emit_*`, `load_engine`, `unload_engine`, `change_engine` |
| server | `libnimf/nimf-server.c` | services, modules, engines, shortcuts, hotkeys, `use_singleton`, `ics`, the last focused context | `load_engines`, `on_changed_active_engines`, `on_use_singleton`, lookups of engines |
| daemon | `bin/nimf/nimf.c` | `lock.pid` and its lock, the socket, the runtime directory | `main`: lock, start, run, unlock, clean up |
| nimf-settings | `bin/nimf-settings/` | GSettings | switches of engines, the default engine, the mode |
| candidate window | `modules/services/candidate/` | its target context, its page | clicks, scrolling: emissions that no application asked for |
| preedit window | `modules/services/preedit-window/` | text, visible or not | `show`, `hide`, `set_text` |
| indicator | `modules/services/indicator/` | a menu | changes the engine of the focused context |
| xim service | `modules/services/xim/nimf-xim*.c` | contexts by id, the X connection, its event source | `create_ic`, `set_ic_values`, `forward_event`, ..., the emissions |
| IMdkit | `modules/services/xim/IMdkit/` | clients with their queues of keys, byte order, extensions; frames | the handlers of XIM messages; `FrameMgr.c` writes and reads their bytes |
| wayland service | `modules/services/wayland/` | one context, its serial, keyboard and modifiers; a source that reads the display | `input_method_activate`, `_deactivate`, the keyboard's events, prepare, check and dispatch |
| hangul engine | `modules/engines/nimf-libhangul/` | the syllable in libhangul, `preedit_string`, `preedit_state`, `is_committing`, candidates | `filter_event`, `reset`, `focus_out`, `on_candidate_clicked` |
| anthy engine | `modules/engines/nimf-anthy/` | the text composed, a cursor in bytes, segments, selections, a page of candidates | `filter_event`, `reset`, `on_candidate_clicked`, `on_candidate_scrolled` |
| other engines | `modules/engines/` | composition, candidates | `filter_event`, `reset`, `focus_in/out`, `candidate_clicked` |
| toolkit clients | `modules/clients/` | a `NimfIM` per widget (GTK) or per application (Qt), event filters, options | adaptors to GTK and Qt |

IMdkit came from elsewhere and was changed for nimf, which answers X clients with
it; conversion is done by libhangul, anthy, m17n, rime and libxkbcommon.

### How they interact

An application and the daemon make *synchronous calls in both directions over
one stream socket*. The application calls a method (`FILTER_EVENT`) and iterates
a main context of its own until the reply is there. While it handles the method
the daemon may emit a signal (`COMMIT`) and iterate its *default* main context
until the reply to that is there; the callback of the signal may call a method
again. All the waits of a connection share one `NimfResult`. The daemon has one
thread, so its waits nest across applications as well.

The daemon is started by the applications: `nimf_im_connect` runs `nimf`, which
becomes a daemon, and tries again; a lock on `lock.pid` lets one instance live.
A context is created in the daemon by a call; when the daemon ends, contexts are
created again in the next one, on an event of a file monitor for the socket.

X clients and a Wayland compositor speak to services of the same daemon, which
make the same contexts for them. They do not wait for the daemon: XIM has a queue
in the daemon and a `XIM_SYNC_REPLY` instead, Wayland serials and a context that
is activated and deactivated. Between an application and `nimf-im.c` are the
modules of the toolkits, which get a key at up to four places and keep options,
positions and filters of their own.

Engines are shared by all contexts (singleton mode) or belong to one; contexts
hold plain pointers to them, and the settings load and unload them meanwhile.

### What is hard

- calls that nest, cross and share one result, across processes and connections;
- a daemon that ends in the midst of them;
- instances that start, crash and quit at the same time over shared files;
- two processes' views of which contexts exist, with ids that are used again;
- pointers to engines that settings free;
- an engine that is called again while it waits in one of its own emissions;
- keys, text and serials on their way while a focus moves or a context goes;
- messages whose sizes are computed in one place and used in another;
- texts counted in bytes, characters and UTF-16 units.

`PROJECT.json` lists these as hazards, each at its line with the properties that
cover it, or with the reason why none does yet.

### What makes each component correct

| component | property |
|---|---|
| protocol | a wait gets the reply to its own call; no reply is read by another wait; every call returns; the daemon gets back to its main loop |
| daemon | one instance at a time; a running one is reachable; the last one cleans up; applications get connected |
| contexts | a context that takes itself for created is known to the daemon; the daemon keeps no destroyed one; every context gets created |
| engines | a context's engine is alive; its list follows the server's; the hotkey reaches all engines; the default engine is not lost |
| hangul engine | no letter is lost, doubled or out of order; what is shown is what is composed; every preedit-start has its end |
| anthy engine, candidate window | what was typed is what is composed and committed; the rows are those that would be chosen; scrolling ends |
| xim service, IMdkit | keys keep their order through the queue, which drains; what a client draws is what is composed; requests are answered; messages are read as they were written |
| wayland service | keys are neither lost nor taken for another field; serials are those of the active context; the service goes on reading and flushing |
| toolkit clients | a key reaches its field once; a field shows what is composed for it; filters do not outlive contexts; the server knows where the field is |

## The modules

| module | what it is |
|---|---|
| `NestedCalls` | the abstract promise: a connection is one stack of nested calls, the only call that can return is the last one |
| `NimfRpc` | the protocol: stacks, channels, results, hangups; refines `NestedCalls` |
| `NimfRpcProofs` | its invariants; the refinement |
| `NimfDaemon` | `main` over the files, `nimf_im_connect` of the applications |
| `NimfDaemonProofs` | the lock invariant and what follows |
| `NimfContexts` | the contexts of an application against those of the daemon |
| `NimfContextsProofs` | their agreement |
| `NimfEngines` | engines, lists, the default engine, the modes |
| `NimfEnginesProofs` | lists follow, engines are alive, the hotkey goes round, the default is kept |
| `NimfHangul` | the hangul engine and its emissions, with applications that reset it in callbacks |
| `NimfHangulProofs` | nothing is lost; what is shown is what is composed |
| `XimFrames`, `FrameMgr` | the layouts of XIM messages, and the frame manager that writes and reads along them |
| `XimCodec` | every message written by one side and read by the other |
| `XimAttributes` | attributes of X contexts, from requests and into replies |
| `NimfXim` | the XIM service and its protocol handlers, with X clients |
| `NimfWayland` | the Wayland service in the main loop, with a compositor |
| `NimfWaylandProofs` | keys, texts and serials in the queues between the two |
| `SequenceFacts` | lemmas about sequences and sets of numbers, for the proofs |
| `NimfToolkits` | the modules for GTK 3, GTK 4 and Qt, with the fields of an application |
| `NimfToolkitsProofs` | keys reach their field, what is composed is shown, contexts agree |
| `CandidateWindow` | the candidate window as an engine sees it: operators |
| `NimfAnthy` | the Japanese engine with its candidate window |
| `MCNimf*` | what TLC instantiates |

`NimfXim` uses `XimAttributes`, `XimCodec` uses `FrameMgr` and that `XimFrames`, and
`NimfAnthy` uses `CandidateWindow`.

### NimfRpc

`cstack[c]` and `sstack[c]` are the C stacks of the application and, as far as it
belongs to connection `c`, of the daemon; `order` interleaves the latter into the
daemon's one stack. A frame is a *wait* (an activation of
`nimf_result_iteration_until`), a *handler* (a dispatch of `on_incoming` or
`on_incoming_message` that runs an engine or callbacks), or an *event* (a
callback of the daemon that no application asked for). `c2s`, `s2c` are the bytes
in the socket, `cres`, `sres` the shared results.

`ClientCall`, `Emit` send and enter the wait. `ClientReceive`, `ServerReceive`
dispatch the socket: they set the result and, for a call, push a handler.
`ClientReturn`, `ServerReturn` send the reply. `ClientCheck`, `ServerCheck` are
the loop condition and the reset of `is_dispatched`, both the one in the loop and
the one after it. `ClientHup` is the hangup branch, which drops what is still in
the socket; `ServerExit` the end of the daemon, `Reconnect` a new connection.

A dispatch and the loop condition after it are separate steps in the daemon,
because an iteration of the default main context dispatches every source that is
ready before it returns. A source is dispatched once per iteration: a result that
the wait on top has not looked at is not overwritten (`ServerReceive`).

`tag` is a history field, the depth of the call; no guard reads it. It says which
call a reply belongs to, which the code cannot see: it compares type and context
id. A reply and its call have the same `type`, `reply` tells them apart.

`NestedSpec` lets the daemon emit only from handlers, `LossySpec` adds hangups,
`CrossingSpec` adds emissions on the daemon's own account.

### NimfDaemon

`pc[d]` walks through `main`. A lock file is an inode: `lockfile` is what the path
names, `fd[d]` what the process has open, and they differ after an unlink.
`StartServer` is bind and listen of `nimf_nim_start`; an address in use costs the
daemon its service and no more, as in `nimf_server_start`. `tries[c]` is the retry
loop of `nimf_im_connect`; while it runs, the application does nothing else.
`created[c]` is an event of its file monitor. What `lock.pid` contains is left out
(nobody reads it).

### NimfContexts

One application and its connection. Calls are those of `NestedCalls`, one at a
time, without those nested in them, which do not touch contexts. `live`,
`created`, `next_id` and `changed` are the application's, `ics` the daemon's.
`Connect` is `nimf_im_connect` with its three outcomes, inside of the step that
calls it, since the application does nothing meanwhile. `Finish` is what follows
the wait in `nimf_im_create_context` and `nimf_im_finalize`, after a reply
(`Return`) and after a hangup (`HangUp`). `ended` is a history variable.

### NimfEngines

An engine that is alive is named by its owner (the server or a context) and its
id; a pointer to a freed one is `Dangling`. Each handler is one step; the two
loops of `on_changed_active_engines` are folds over the engines and, inside,
over the contexts, so that the order in which pointers are moved and engines are
unreferenced is the code's. A module that is broken ends the handler half way.
Modules never go away, shortcut tables and labels are left out.

### NimfHangul

One engine, which in singleton mode (the default) all contexts share, with what
`nimf-service-ic.c` makes of its emissions. `agenda` is what is left of the
handlers on the daemon's stack, innermost first: a handler is a sequence of steps,
each an action (`Commit`, `Start`, `Change`, `End`, ...), an emission to a context
pushes a wait, and a call from its callback pushes a handler above the wait. A
step reads the engine's state when its turn comes, as the statement in the code
does, and its argument is what the code computed before (`new_preedit`,
`new_commit`). `text` and `shown` are what the application has and displays.
`entered` is a history variable.

libhangul is external: it may split the letters it holds and the new one in any
way. `Doubles` is empty in effect when the double consonant rule is on.
Assumed: keys and focus events reach the daemon when it is at rest, which is so
for one user and one application at a time; `use_preedit` of a context does not
change; candidates are clicked at rest; the application does not call back when
the hanja key asks it for the text around the cursor, which is a wait in the code
(`nimf-libhangul.c:418`) and none in `HanjaKey`.

### XimFrames, FrameMgr, XimCodec

A frame of `i18nIMProto.c` is a sequence of items: numbers, byte arrays, lists,
pointers to other frames, padding and counters of bytes that follow. An instance
of one has a cursor and, at lists, an instance per element, as the structures
`FrameInst`, `Iter` and `Chain` of `FrameMgr.c` do; `Put` and `Get` are its tokens.
`XimCodec` picks a message and the sizes of its parts (`Init`), lets the writer
tell sizes and list lengths, compute the total and put token after token, and then
the reader get them, who finds the ends of lists by counters and by the end of the
buffer. A byte of the message is the token and the byte's place in it, so that a
number read elsewhere than it was written is seen.

### NimfXim, XimAttributes

`clients` and `free_clients` are IMdkit's lists, `ics` nimf's table, `processing`
the client whose queue a `XIM_SYNC_REPLY` is working off. `toServer[c]` and
`toClient[c]` are ClientMessages on their way, `app[c]` is what Xlib and the
application have: the request they wait for, what they have got and drawn. `Serve`
is the dispatch of one event to its handler, named as in `i18nPtHdr.c`;
`ProcessQueue` is a step per key. An engine takes a key, composes it, commits or
hands it back (`filter_event`). Ids of connections and contexts are used again;
`MaxIcid` replaces 65535. `typed` and `got` are history variables.

`XimAttributes` takes the attribute lists of requests apart and puts those of
replies together: types by `Default_ICattr`, nested lists, attributes that are
not known. An application asks for the styles the server supports; values are
taken over whatever their size (see below).

Assumed: an application does not destroy a context under keys of its own that the
daemon has not had yet (`Hasty = FALSE`). `SyncReplyMessageProc` has no branch for
`xim->sync` (`i18nPtHdr.c:514-521`), which nothing sets.

### NimfWayland

`phase`, `reading` and `intents` are the event source in GLib's main loop and the
count of libwayland's readers: prepare, poll, check, which the loop may leave out
when a source before is ready (`Skipped`), and dispatch, one event each
(`Dispatched`). Requests stay in `out` until prepare flushes them. `toIM` and
`toComp` are the socket. The compositor (`comp`, `field`) activates a new context
for each field, gives it the keyboard when it has asked for it and sends keys,
which it types itself while nobody has the keyboard.
Assumed: keymaps are xkb; grabs that come late are ignored; the compositor sends the
modifiers with a grab; clients do not reset. Requests that are flushed to a dead
compositor are gone; in the code (`nimf-wayland.c:61`) they stay in a buffer that
nobody reads any more.

### NimfToolkits

`toolkit` is chosen at the start. `contexts[x]` is a context of the module: the
options it has heard of, its event filter, whether it has a client and the focus;
`ims[x]` is `NimfIM` and the engine behind it, which composes, commits, replaces
(`Convert`) and highlights a range of characters. `Key` is a key on its whole way:
for GTK 3 the event filter on the X or the GDK event, then `filter_keypress`, then
the simple context; for GTK 4 the controller and `filter_keypress`; for Qt
`filterEvent`; and at last the widget. `settings` change while notices of it are
still to be heard. Fields and the window system are external.
Assumed: an engine that is given a cursor behind the end of the text takes it for no
character (`Convert`). The daemon does not end: Qt's `cursor_area` is not compared
with what a new daemon knows.

### NimfAnthy, CandidateWindow

A handler takes the engine, the window and the client's view as one record and
gives the next one (`State`, `Becomes`); its parts are operators named as in the
code. A character is what it stands for and its form, a letter of one byte or a
kana of three, so the byte offset `offset` and the bytes pending after it, `dx`,
mean what they do in the code: a wrong sum ends inside of a character.
`user.typed` is what the user means by his keys, who sees the client's cursor, but for
the two exceptions named below (`over`, `Doubles`). A small tsu stands for the consonant
that it comes from, and for no key (`"tsu"`) if it comes from a digit. `Hide` forgets the
conversion as well, which the code keeps and does not read before the next one.
libanthy is external: the first character is a segment with `Many` candidates, the
rest is one with `Few`. Assumed: a conversion to hiragana or katakana has as many bytes
as the text had (see below). `on_candidate_scrolled` is one turn of the code's loop.
A change of the settings is met by the next key (`Ready`).
Left out: the auxiliary text, Control, the two number rows' other keys. Emissions
are not waited for: `NimfHangul` is about that.

## Runs

| run | what it shows | bounds |
|---|---|---|
| `rpc_nested` | safety, refinement and liveness of nested calls | 2 applications, 2 methods (one silent), 1 signal per handler, 1 call per callback, 4 frames |
| `rpc_lost` | the daemon ends at any point; every call returns all the same | 2 applications, 2 contexts, no call in callbacks |
| `daemon_crash` | the lock, reachability, and that applications get connected | 2 instances at a time, 2 applications, 4 tries as in the code |
| `daemon_overlap` | violation: two instances while one quits | 3 instances, 3 lock files |
| `contexts_crash` | agreement about contexts with and without crashes | ids 1 to 3, with wrap-around |
| `engines_modes` | engines switched on and off, either mode | 4 engines, 1 of them broken, 2 contexts |
| `hangul_typing` | typing, editing, hanja, focus, with resets in callbacks | 2 contexts (inline and window), 2 letters, a symbol, another key, syllables of 2, 3 characters, one call per callback |
| `xim_codec` | every message is read as it was written, in a buffer of the right size | lists of 0 to 2 elements, arrays of 0 to 4 bytes, both byte orders |
| `xim_server` | order of keys, what is drawn, whose contexts, queues and replies | 2 clients, one with 3 keys and one that has the key extension, switches, disconnects and is killed; 2 context ids |
| `toolkits` | keys, what is shown, filters and positions, for each toolkit | 2 fields, 3 characters of 1, 3 and 4 bytes and Return |
| `wayland` | keys, serials, reading and flushing while fields change | 2 activations, 2 keys, 1 Shift, 1 serial |
| `anthy` | composing, editing, converting and choosing | 3 letters, 2 segments, 11 and 1 candidates, 1 change of a setting; a text with a lost digit is not followed up into conversions and changes (`LostDigitIsEdited`) |

Why these bounds are enough: in `NimfRpc` four frames hold a method, a signal of
its handler, a method of the signal's callback and a signal of that one's
handler, so each frame kind occurs on top of each other one it can be on; two
applications are needed for waits that nest across connections, and the theorems
below are for any number and depth. One lock file is enough where none is
unlinked; three instances are needed for one that quits, one that has lost its
files and one that makes new ones. Three ids let the counter wrap round over ids
in use and free ones. Two contexts and four engines give every order of the
folds, a list with a neighbour on either side, and one failing module.

In `NimfHangul` three characters are a syllable of two that a third one splits; one
call in each callback lets resets nest, since the commit of a reset has a callback
too; `HandlersEnd` says that they stop.

Arrays of 0 to 4 bytes give every padding, with lists of two one element after
another. Two X clients are what shares ids and the handler; three keys are one that
is handled, one that is queued and one that arrives while the queue is worked off.
Two activations are one context that goes while another comes, with messages of
both on their way. Eleven candidates are a full page and another with one row;
three letters are a kana, a letter that is pending before it and one that turns
into another kana. A character each of one, three and four bytes (one, one and two
UTF-16 units) tells the three ways to count apart. A field of GTK has told its position
before it is typed into (`Located`, a constraint of the run): what is checked about
positions is checked of Qt. The theorems do without it.

`wayland`, `xim_codec` and `anthy` do not check for deadlock: the compositor is gone
or everything allowed is typed, a message has been read, and the letters and changes
are used up. The others do.

### Fairness

`NimfRpc`: an application's thread runs and polls its socket (weak fairness). In
the daemon the choice between the sources of many connections is GLib's: an
iteration of a main context dispatches each source that was ready once and then
returns to the wait that called it. A source or a wait that is ready again and
again is therefore not passed over for ever, although it may be disabled in
between by waits of others on top: strong fairness on `ServerReceive` and
`ServerCheck`. Applications need not call, engines need not emit.

`NimfDaemon`: the processes run, and applications get back to their main loops
(weak fairness). Nobody has to start, quit or crash. `StartupConnects` is
about the time after the last crash or refusal, which the history variable `calm`
marks, and assumes nothing about the time before.

`NimfContexts`: calls are answered (which is `CallReturns`). A monitor event is
handled between two calls and the application may always be calling: strong
fairness on `OnChanged`, since the main loop dispatches its sources in turn.

`NimfHangul`: the daemon runs and callbacks return (weak fairness on the steps of
handlers). Nobody has to type.

`NimfXim`: the daemon takes the events of its X connection one after another, works
off the queue it has begun, and a client that lives reads its messages and answers
XIM_SYNC_REPLY (Xlib does in its event filter). Nobody has to type, and engines may
compose for ever.

`NimfWayland`: the main loop goes on, dispatches what is queued and, although it may
leave out the check of the source in one iteration, does not do so in every one
(strong fairness): sources before it are not ready in all iterations. Compositor and
user need do nothing.

`NimfAnthy`: `on_candidate_scrolled` is a loop that runs until its condition fails.

### Where the code does not do what it says

`daemon_overlap` is a run: `main` unlocks (`nimf.c:327`) before it unlinks (340, 341).
An instance that takes the lock in between runs without its files, and the next one
does not find it.

The specifications reach more, with the specification and the property named, which
no run of the project shows.

The daemon and its applications:

- An emission on the daemon's own account, a click in the candidate window, crosses
  a method (`OwnReply` under `CrossingSpec`): the comment in `nimf-message.c:219-227`
  explains that calls of both ends do not confuse each other, but the wait of the
  method's emission takes the reply to the outer emission.
- With calls in callbacks `CallReturns` fails under `LossySpec`: the hangup is
  dispatched once (`nimf-im.c:106-133`), ends the innermost wait and leaves no source;
  a wait around it iterates an empty context for ever, with `nimf_im_mutex` held.
  `rpc_lost` has no calls in callbacks for this reason.
- `nimf_im_create_context` sets `created` whatever ended its wait (`nimf-im.c:357`,
  `CallsFindContext`). When the daemon ends meanwhile, the context is never created in
  the next one. Contexts made while there was no daemon: when one connects, the socket
  is connected for the others as well, and their calls are sent before their own event
  has created them. The daemon refuses them with a warning.
- In per-context mode `nimf_service_ic_unload_engine` asks for the default engine
  before it takes the engine out of the list, and gets the engine it is about to free
  when that is the default one (`EngineIsAlive` under `AnySpec`). Switching
  `use-singleton` while contexts exist: a context that has a list and uses an engine of
  the server keeps it when it is unloaded.

The hangul engine:

- The workaround that ignores a reset in a commit callback (`nimf-libhangul.c:134`)
  ignores a focus-out there too (`FocusOutFlushes` under `FocusSpec`). The syllable
  stays in the engine, and the next context commits it. The setting is on by default.
- A reset in the callback of preedit-start: `update_preedit` was called with the
  syllable that the reset commits, and shows it afterwards, outside of a preedit
  (`StartsAndEnds` and `ShowsSyllable` fail with `preedit-start` in `Callbacks`).
  The next key or focus-out takes it away.

The xim service:

- `nimf-types.h:169` counts preedit attributes in characters; the hangul engine gives
  `strlen` (`nimf-libhangul.c:94`, `AttrsInCharacters` with `CharBytes` 3), and
  `nimf-xim-ic.c:158-164` fills the feedback of that many characters.
- A client that destroys a context under its own keys (`Hasty`): a key of it in the
  queue is dropped without asking for a XIM_SYNC_REPLY while the client is taken to
  be in sync, and those behind it wait (`QueueDrains`).
- `nimf_service_ic_set_use_preedit` clears the flag before it ends the preedit
  (`nimf-service-ic.c:494-505`): the client keeps what it has drawn. `PreeditFollows`
  leaves out contexts that were switched.
- An attribute XNPreeditState of four bytes is read as a `long` (`nimf-xim.c:97`).
- `IterIsLoopEnd` does not end a list whose counter is 0: handlers of empty lists read
  on (`i18nPtHdr.c:407`, 691). Xlib sends none.
- Contexts of a client that is gone stay in `xim->ics`; when 65535 are there the loop
  of `nimf_xim_create_ic` does not end.

The toolkits:

- `im-nimf.c:148` and the GTK widget each filter a key when `hook-gdk-event-key` is set;
  what the filter handed on is filtered again.
- GTK 4 gives Pango indices in characters (`im-nimf-gtk4.c:360`), where bytes are meant;
  `FormatsItsCharacters` leaves GTK 4 out. The cursor of surrounding text is in
  characters for `nimf-im.c:467` and in bytes in GTK 4 (514), in UTF-16 units in Qt
  (`im-nimf-qt5.cpp:326-338`).
- The option reset-on-mouse-button-press is read by GTK 4 and used nowhere.

The wayland service:

- `handle_reset` does nothing (`nimf-wayland.c:185`).
- Modifiers are forwarded with the depressed ones in the place of the locked ones
  (407-409), and are not reset when a keyboard is grabbed anew.
- With a keymap it cannot read (330) the service has the keyboard and drops all keys.
- `nimf_wayland_stop` neither releases the keyboard nor disconnects.

The anthy engine:

- Return is handled and handed to the application as well: `retval = TRUE` is
  overwritten (`nimf-anthy.c:1343-1346`).
- A digit that types kana, with candidates shown (1227), is inserted, and the next
  choice takes it away: `user.over`, after which `NothingLost` says nothing.
- Of two equal digits, or symbols, typed one after the other in romaji the first becomes
  a small tsu: line 817 asks only for `a != 'n' && a == b`, and 1438 sends it every key
  up to 127. "11" is composed and committed as "っ1". `NothingLost` has the small tsu in
  the place of the first digit (`Doubles`) and is violated without this.
- A choice by a digit goes back to page 1 (`update_candidate`) with no row selected
  when the choice was on page 2: Up and Down then begin at the ends of the page.
- The row that the Page keys highlight is not what Return commits.
- The offset after a conversion by `hiragana-keys` is that of the text before (1092; the
  text is assigned at 1275): with a conversion that is longer or shorter the cursor is
  not at its end, or is behind it. `TypeOK` holds for conversions that are neither. And
  the segments are cut anew while `selections` keeps its size (1080, 510).
- `has_suffix` (861) reads before the text when the cursor is at its beginning.

`EngineIsAlive` (`SettledSpec`), `CreatedIsKnown` (until a daemon ends), and `OwnReply`
and `RepliesReachWaiter` (`NestedSpec`) are checked and proved without these causes;
`NothingLost` with the exceptions it names.

## Proofs

For every number of applications, contexts, instances and engines and every
bound; assumptions are the `ASSUME`s of the modules, which TLC evaluates.

**NimfRpc.** `OwnReply` is not inductive: that a reply is for the innermost wait
follows only from what both stacks and both channels hold. `NestingInv` says that
each connection is in one of six states: the application runs, the daemon runs,
a method or its reply is on the way, a signal or its reply is on the way, or a
reply is in the result of the side that waits; in each, the two stacks agree
frame by frame up to the longer one's last wait. A connection that has lost the
daemon has nothing of it left but, perhaps, the reply its innermost wait is about
to look at. `CallsNest` proves `TypeOK /\ NestingInv` inductive for `LossySpec`,
`TypeCorrect`, `WaitsGetTheirOwnReply` and `RepliesAreNeverLost` follow.
`Implements` maps the longer of the stacks to `calls` of `NestedCalls` and
shows each step to be a call, a return or a stutter.

**NimfDaemon.** `LockInv` under `CrashSpec`: as long as nobody unlinks `lock.pid`,
every open lock file is the linked one, so that holders coincide, and only the
holder touches the socket. `AtMostOneInstance` and `TheDaemonIsReachable` follow.
Under `ShutdownSpec` it is false, which is what `daemon_overlap` shows.

**NimfContexts.** `ContextsInv`: what the daemon handles is what the application
waits for, and a context the daemon knows is created, in creation, or being
destroyed and not yet handled. `NothingIsOrphaned` follows; `CreatedMeansKnown`
needs `KnownToDaemon` as well, its converse until a daemon ends.

The same theorems prove `TypeOK` of `NimfRpc`, `NimfDaemon` and `NimfContexts`, and
`NestingInv` with a daemon that ends; the runs do not repeat them.

**NimfEngines.** Everything happens in the two loops of `on_changed_active_engines`,
each with a loop over the contexts in it. They are folds, and `FoldLeft` is a `CHOOSE`
of a recursive function; `FoldExists` of `SequenceFacts` proves that there is one, by
induction over the length, and `LoadLoop`, `UnloadLoop`, `LoadEachLoop`,
`UnloadEachLoop` and `WalkLoop` give the sequence of what a loop has made after each
pass, about which facts are then proved pass by pass (`StepByStep`). The invariant of
the inner loop is `Agree(s, D, l0, l1)`: in the state s, in which the contexts of D are
told and the others are not, lists agree with the server's new list l1 or with its old
one l0; and `Alive(s, D, l0, l1)`: pointers are to engines of the list that the context
knows. An engine that goes is freed when all are told, and then nobody has it
(`UnloadAllFacts`). `Good` and `Lives` say the same between two engines. With
`SystemKeyboard`, which never goes, in the server's list there is always something to
fall back to. `ListsFollow`, `GoesRound` and `DefaultKept` hold of `AnySpec`, where the
mode and the default engine change under contexts, and so of `SettledSpec`, which the
run checks; `EngineAlive` needs the mode to stay, and lists of their own the default
engine as well, as the causes above show.

**NimfWayland.** `FieldsApart` and `ContextFollows` speak of a field, the service and
everything between them: two sockets, and the queue and the buffer of libwayland. Each part of
`NimfWaylandProofs!Inv` is needed by another one:

- `LoopInv`: the service polls only when it has dispatched what it has read, so that what
  it reads comes behind nothing.
- `IdsInv`: nothing on its way is for a field of the future. A new context is told from
  all that are in the queues by this alone.
- `ContextsInv`: the events on their way (`stream`) lead from the service's context to
  the compositor's active one, each coming to the context that it is for: no key is
  handled in another context than the one it was typed for, which the handler of
  keys does not check.
- `KeyboardInv`: a grab is the active field's; a keymap comes before its first key, and
  the modifiers that the service will have when it handles an event are those of the
  compositor when it sent it.
- `UngrabbedInv`: a field without a grab gets its keys itself, and nothing typed into it is
  composed or on its way: otherwise the two would overtake each other.
- `ArrivingInv`: the same for a field whose activation is on its way.
- `SerialInv`: the serials on their way to a context are the next ones, in order. From
  it follows that the service commits with the last one it has read.

With them `FieldsApart` is inductive (what there is in the field, in the requests, in
the engine and in the events, in this order, is what was typed); `Invariance` proves all
of it for `Spec`, `FieldsNeverMix` and `ContextsFollow` what the run checks.

**NimfHangul.** Everything depends on what may be left of the handlers when an
application calls in the midst of them. `AgendaInv` describes the agenda: its
first step (`Leads`) suits the syllable and context there is, and what is left of
handlers that had begun (`Rest`) has, while there is a syllable, nothing that would
commit or start it again; `Follows` says which step comes after which. `FocusInv`,
`CommitInv`, `ListInv` and `SettledInv` relate the agenda to the focus, to
`is_committing`, to the list of candidates and to what has been emitted.
`TextInv` then is inductive: the text of a context, what handlers on the agenda are
about to give it and the syllable are what was entered. At rest this is `NothingLost`.
`NothingIsLost` proves it for every `Callbacks`.

What is shown needs more: `StateInv` (a preedit is started when there is something in
it, or the handler is about to say so), `AppInv` and `WindowInv` (the application or the
preedit window shows what the engine has emitted last). `SyllableIsShown` and
`PreeditsEnd` assume `Quiet`, that no application resets the context in the callback of
preedit-start. The assumption is needed: without it both are false (see above). The run
has it as well; its constants are one case of it.

**NimfToolkits.** A key goes through up to five operators before it is in a field, each of
which answers with a world and whether it took the key. `Gives(w, u, f, s)` says that the
world u has, of the field and what is composed for it, what w has and s behind it, draws
what is composed if w does, and leaves everything else of w alone. `CommitFacts`,
`ResetFacts` and `ComposesFacts` prove it of the calls into libnimf, `Answers` of what a
filter makes of an event, `Completes` of the way through each toolkit: whoever takes the
key, s is its text, once. With it `KeysReachField` and `PreeditShown` are inductive when
`ContextInv` is there too: Qt's one context composes nothing when no field that accepts
it has the focus, so that what is composed belongs to the field with the focus; a GTK
context is new when its field is; and GTK 4 focuses only a field with a controller,
without which a text of several bytes would come to nothing.
`ContextsAgree` needs `OptionsInv`: a context knows an option or is about to be told, one
that is not there is told nothing, and its filter is as its own options say, which is
what the code keeps; `FiltersMatch` derives what the settings say from it.
`PositionKnown` is inductive beside them. Any fields and keys are allowed, any order of
resets, settings and focus.

`ComposedIsDrawn` proves the highlighting as well, of any text and any part of it: its
characters take one, three or four bytes and one or two UTF-16 units. `GtkHighlights` has the bytes that Pango's indices delimit:
those of the characters from `from` to `to`, since offsets grow (`OffsetBound`).
`QtHighlights` has the loop over units: `LowsCounted` shows that the low surrogates up to
a unit are what its position has more than the number of its character (`SurrogatesFacts`,
`LowsBefore`), so that a first unit is highlighted exactly when its character is, and a
second unit with its first. In both the marks are `Highlighted`: each part of each
character that the engine highlights. `PaintInv` says that a field that shows something has
these marks and that one which is not live shows nothing. It needs `Within`,
`from <= to <= Len(preedit)`, of what an engine composes, which is so of each event. Like
the invariant that the run checks, the theorem leaves GTK 4 out of the marks.

**SequenceFacts.** Induction over an operator is out of reach of the provers, induction
over a *set* of numbers is not: `NatSets` follows from `NatLessThanWellFounded` and the
existence of minimal elements, and `{n \in Nat : P(n)}` is such a set wherever it is
written out. The facts about `FlattenSeq`, about texts on their way (`ThroughFacts`)
and about the last element that has a property are proved this way, and `FoldExists`,
that the function exists which `FoldLeft` chooses.

Only model-checked: liveness (`CallReturns`, `DaemonUnwinds`, `StartupConnects`,
`ContextsGetCreated`, `HandlersEnd`, `QueueDrains`, `RequestsAnswered`, `EventsHandled`,
`RequestsFlushed`, `ScrollEnds`), which is out of the prover's reach; `XimCodec` and
`NimfAnthy`, which have recursive operators; and `NimfXim`, about which there are no
proofs yet.

## Not modelled

Bodies of nimf's own messages and short reads (`nimf_recv_message`); key names and
their matching; the m17n and rime engines and the system keyboard, which hand keys to
libraries; windows and menus as such; the settings program but for its effects; the
property transport of long XIM messages (`i18nX.c`), other daemons that own the
selection. An application has one thread. Contexts are not destroyed from their own
callbacks. The hangup of an *application* (`nimf-nim.c:58-77`), which frees the
connection while its waits may be on the daemon's stack, is not in `NimfRpc`.

## Plan

Written, in this order: `NimfRpc` with `NestedCalls`, `NimfDaemon`,
`NimfContexts`, `NimfEngines`, each with its proofs where the prover reaches;
`NimfHangul`; `FrameMgr` and `XimCodec`, `NimfXim`; `NimfToolkits`; `NimfWayland`;
`NimfAnthy`.

Next:

1. theorems: `TablesAgree` of `NimfXim`; the refinement for `LossySpec`;
2. applications that leave, in `NimfRpc`: the hangup branch of `on_incoming` under
   waits of the same and of other connections;
3. the focus: `last_focused_im`, the candidate window's target and the indicator,
   with contexts that are freed and engines of several contexts that share the window;
4. unloading of engines under waits (`NimfEngines` composed with the nesting);
5. candidate pages of the hangul engine, with `CandidateWindow`.
