----------------------------- MODULE NimfDaemon -----------------------------
(***************************************************************************)
(* One nimf daemon per user: main of bin/nimf/nimf.c, from the lock file   *)
(* to its removal, and nimf_im_connect of libnimf, which connects an       *)
(* application to the daemon and starts one when there is none.            *)
(*                                                                         *)
(* Any number of instances may be started, by applications and by hand;    *)
(* they share a directory that holds lock.pid and the socket.  A file is   *)
(* what its path names now: an unlinked lock.pid can still be open, and    *)
(* locked, in an instance, while the path names another one.               *)
(***************************************************************************)
EXTENDS Naturals

CONSTANTS
  Daemons,      \* processes that run nimf, used again after they exit
  Clients,      \* applications
  Inodes,       \* lock files
  RetryLimit,   \* retry_limit of nimf_im_connect
  NoFile,       \* a path that names nothing, or no open file
  Nobody,       \* no holder of a lock, no peer of a client
  Gone          \* a peer that has exited, the client has not noticed yet

ASSUME FilesAssumption == NoFile \notin Inodes \cup Daemons
ASSUME PeersAssumption == Nobody \notin Daemons /\ Gone \notin Daemons /\ Gone # Nobody
ASSUME RetryAssumption == RetryLimit \in Nat \ {0}

VARIABLES
  pc,         \* the call of main that the process makes next
  fd,         \* the lock file it has open
  listening,  \* does it listen on a socket
  dir,        \* does the runtime directory exist
  lockfile,   \* what the path lock.pid names
  holder,     \* the process that holds the write lock of a lock file
  socket,     \* the process that has bound the path of the socket
  peer,       \* whom the socket of the application is connected to
  tries,      \* 0, or the running iteration of nimf_im_connect
  created,    \* a file monitor event: the socket has been created
  calm        \* history: nothing is killed or refused any more

daemonVars == <<pc, fd, listening>>
fileVars == <<dir, lockfile, holder, socket>>
clientVars == <<peer, tries, created, calm>>
vars ==
  <<pc, fd, listening, dir, lockfile, holder, socket, peer, tries, created, calm>>

Starting == {"mkdir", "open", "lock"}
Holding == {"pid", "unlink", "bind", "run", "unlock"}
Leaving == {"rmsocket", "rmlock", "rmdir"}

TypeOK ==
  /\ pc \in [Daemons -> {"off"} \cup Starting \cup Holding \cup Leaving]
  /\ fd \in [Daemons -> Inodes \cup {NoFile}]
  /\ listening \in [Daemons -> BOOLEAN]
  /\ dir \in BOOLEAN
  /\ lockfile \in Inodes \cup {NoFile}
  /\ holder \in [Inodes -> Daemons \cup {Nobody}]
  /\ socket \in Daemons \cup {NoFile}
  /\ peer \in [Clients -> Daemons \cup {Nobody, Gone}]
  /\ tries \in [Clients -> 0 .. RetryLimit]
  /\ created \in [Clients -> BOOLEAN]
  /\ calm \in BOOLEAN

(* Nothing runs; a daemon that crashed may have left its files.            *)
Init ==
  /\ pc = [d \in Daemons |-> "off"]
  /\ fd = [d \in Daemons |-> NoFile]
  /\ listening = [d \in Daemons |-> FALSE]
  /\ dir \in BOOLEAN
  /\ lockfile \in IF dir THEN Inodes \cup {NoFile} ELSE {NoFile}
  /\ socket \in IF lockfile # NoFile THEN Daemons \cup {NoFile} ELSE {NoFile}
  /\ holder = [i \in Inodes |-> Nobody]
  /\ peer = [c \in Clients |-> Nobody]
  /\ tries = [c \in Clients |-> 0]
  /\ created = [c \in Clients |-> FALSE]
  /\ calm = FALSE

(* No daemon has run since the session began.                              *)
InitFresh == Init /\ ~dir

-----------------------------------------------------------------------------
(* The files.                                                              *)

FreeInodes == {i \in Inodes : i # lockfile /\ \A d \in Daemons : fd[d] # i}

(* The locks of a process that closes its lock file, or exits.             *)
Released(d) == [i \in Inodes |-> IF holder[i] = d THEN Nobody ELSE holder[i]]

(* The sockets of a process that stops serving are closed.                 *)
HungUp(d) == [c \in Clients |-> IF peer[c] = d THEN Gone ELSE peer[c]]

Goto(d, label) == pc' = [pc EXCEPT ![d] = label]

-----------------------------------------------------------------------------
(* main of nimf.c                                                          *)

(* Started by hand, by the session, or by nimf_im_connect.                 *)
Start(d) ==
  /\ pc[d] = "off"
  /\ Goto(d, "mkdir")
  /\ UNCHANGED <<fd, listening, fileVars, clientVars>>

(* create_nimf_runtime_dir                                                 *)
CreateDir(d) ==
  /\ pc[d] = "mkdir"
  /\ dir' = TRUE
  /\ Goto(d, "open")
  /\ UNCHANGED <<fd, listening, lockfile, holder, socket, clientVars>>

(* open_lock_file: the open fails when the directory is gone again.        *)
OpenLockFile(d) ==
  /\ pc[d] = "open"
  /\ IF dir
     THEN /\ lockfile' \in IF lockfile # NoFile THEN {lockfile} ELSE FreeInodes
          /\ fd' = [fd EXCEPT ![d] = lockfile']
          /\ Goto(d, "lock")
     ELSE /\ Goto(d, "off")
          /\ UNCHANGED <<fd, lockfile>>
  /\ UNCHANGED <<listening, dir, holder, socket, clientVars>>

(* Mutant: the result of set_lock is not looked at.                        *)
GrantsAnyhow(d) == TRUE

(* F_SETLK fails when another process holds the lock.                      *)
Grants(d) == holder[fd[d]] = Nobody

(* set_lock (fd, F_WRLCK): another instance appears to be running when it  *)
(* fails.                                                                  *)
SetLock(d) ==
  /\ pc[d] = "lock"
  /\ IF Grants(d)
     THEN /\ holder' = [holder EXCEPT ![fd[d]] = d]
          /\ Goto(d, "pid")
          /\ UNCHANGED fd
     ELSE /\ fd' = [fd EXCEPT ![d] = NoFile]
          /\ Goto(d, "off")
          /\ UNCHANGED holder
  /\ UNCHANGED <<listening, dir, lockfile, socket, clientVars>>

WritePid(d) ==
  /\ pc[d] = "pid"
  /\ Goto(d, "unlink")
  /\ UNCHANGED <<fd, listening, fileVars, clientVars>>

(* The disk is full: main goes to finally.                                 *)
WritePidFails(d) ==
  /\ pc[d] = "pid"
  /\ Goto(d, "unlock")
  /\ UNCHANGED <<fd, listening, fileVars, clientVars>>

(* Mutant: the socket that a crash has left is kept.                       *)
KeepSocket(d) ==
  /\ pc[d] = "unlink"
  /\ Goto(d, "bind")
  /\ UNCHANGED <<fd, listening, fileVars, clientVars>>

(* unlink_socket_file: what an instance that crashed has left.             *)
UnlinkSocket(d) ==
  /\ pc[d] = "unlink"
  /\ socket' = NoFile
  /\ Goto(d, "bind")
  /\ UNCHANGED <<fd, listening, dir, lockfile, holder, clientVars>>

(* nimf_server_start and nimf_nim_start: an address in use costs the       *)
(* daemon its nimf-nim service and no more.  Otherwise the file monitors   *)
(* of the applications see the new socket.                                 *)
StartServer(d) ==
  /\ pc[d] = "bind"
  /\ IF dir /\ socket = NoFile
     THEN /\ socket' = d
          /\ listening' = [listening EXCEPT ![d] = TRUE]
          /\ created' = [c \in Clients |-> TRUE]
     ELSE UNCHANGED <<socket, listening, created>>
  /\ Goto(d, "run")
  /\ UNCHANGED <<fd, dir, lockfile, holder, peer, tries, calm>>

(* SIGTERM or SIGINT ends the main loop; the server is unreferenced.       *)
Quit(d) ==
  /\ pc[d] = "run"
  /\ listening' = [listening EXCEPT ![d] = FALSE]
  /\ peer' = HungUp(d)
  /\ Goto(d, "unlock")
  /\ UNCHANGED <<fd, fileVars, tries, created, calm>>

(* set_lock (fd, F_UNLCK) and close (fd)                                   *)
Unlock(d) ==
  /\ pc[d] = "unlock"
  /\ holder' = Released(d)
  /\ fd' = [fd EXCEPT ![d] = NoFile]
  /\ Goto(d, "rmsocket")
  /\ UNCHANGED <<listening, dir, lockfile, socket, clientVars>>

RemoveSocket(d) ==
  /\ pc[d] = "rmsocket"
  /\ socket' = NoFile
  /\ Goto(d, "rmlock")
  /\ UNCHANGED <<fd, listening, dir, lockfile, holder, clientVars>>

RemoveLock(d) ==
  /\ pc[d] = "rmlock"
  /\ lockfile' = NoFile
  /\ Goto(d, "rmdir")
  /\ UNCHANGED <<fd, listening, dir, holder, socket, clientVars>>

(* g_rmdir leaves a directory that is not empty.                           *)
RemoveDir(d) ==
  /\ pc[d] = "rmdir"
  /\ dir' = (dir /\ (socket # NoFile \/ lockfile # NoFile))
  /\ Goto(d, "off")
  /\ UNCHANGED <<fd, listening, lockfile, holder, socket, clientVars>>

(* The process is killed: the kernel closes its files and sockets.         *)
Crash(d) ==
  /\ ~calm
  /\ pc[d] # "off"
  /\ holder' = Released(d)
  /\ fd' = [fd EXCEPT ![d] = NoFile]
  /\ listening' = [listening EXCEPT ![d] = FALSE]
  /\ peer' = HungUp(d)
  /\ Goto(d, "off")
  /\ UNCHANGED <<dir, lockfile, socket, tries, created, calm>>

-----------------------------------------------------------------------------
(* nimf-im.c: the application.  While nimf_im_connect runs nothing else    *)
(* does.                                                                   *)

(* nimf_im_init of a first context.                                        *)
NewContext(c) ==
  /\ tries[c] = 0
  /\ peer[c] = Nobody
  /\ tries' = [tries EXCEPT ![c] = 1]
  /\ UNCHANGED <<daemonVars, fileVars, peer, created, calm>>

(* g_socket_connect succeeds: someone listens on what the path names.      *)
Reachable == socket # NoFile /\ listening[socket]

Connect(c) ==
  /\ tries[c] > 0
  /\ Reachable
  /\ peer' = [peer EXCEPT ![c] = socket]
  /\ tries' = [tries EXCEPT ![c] = 0]
  /\ UNCHANGED <<daemonVars, fileVars, created, calm>>

(* The loop over retry_count.                                              *)
NextTry(n) == IF n < RetryLimit THEN n + 1 ELSE 0

(* A failed iteration runs nimf, which becomes a daemon of its own, and    *)
(* sleeps.  Bound: no instance is added when all of Daemons run already.   *)
Spawn(c) ==
  /\ tries[c] > 0
  /\ ~Reachable
  /\ tries' = [tries EXCEPT ![c] = NextTry(@)]
  /\ IF \A d \in Daemons : pc[d] # "off"
     THEN UNCHANGED pc
     ELSE \E d \in Daemons : pc[d] = "off" /\ Goto(d, "mkdir")
  /\ UNCHANGED <<fd, listening, fileVars, peer, created, calm>>

(* nimf cannot be executed, or the socket is another user's.               *)
GiveUp(c) ==
  /\ ~calm
  /\ tries[c] > 0
  /\ tries' = [tries EXCEPT ![c] = 0]
  /\ UNCHANGED <<daemonVars, fileVars, peer, created, calm>>

(* Mutant: a monitor event does not connect.                               *)
NeverReconnects(c) == FALSE

(* nimf_im_is_connected                                                    *)
Reconnects(c) == peer[c] = Nobody

(* on_changed: only a context that knows it is not connected connects.     *)
OnChanged(c) ==
  /\ tries[c] = 0
  /\ created[c]
  /\ created' = [created EXCEPT ![c] = FALSE]
  /\ tries' = [tries EXCEPT ![c] = IF Reconnects(c) THEN 1 ELSE 0]
  /\ UNCHANGED <<daemonVars, fileVars, peer, calm>>

(* on_incoming_message with G_IO_HUP.                                      *)
HangUp(c) ==
  /\ tries[c] = 0
  /\ peer[c] = Gone
  /\ peer' = [peer EXCEPT ![c] = Nobody]
  /\ UNCHANGED <<daemonVars, fileVars, tries, created, calm>>

-----------------------------------------------------------------------------
(* Specifications.                                                         *)

Startup(d) ==
  \/ CreateDir(d) \/ OpenLockFile(d) \/ SetLock(d)
  \/ WritePid(d) \/ UnlinkSocket(d) \/ StartServer(d)

Shutdown(d) ==
  \/ Unlock(d) \/ RemoveSocket(d) \/ RemoveLock(d) \/ RemoveDir(d)

Connecting(c) == Connect(c) \/ Spawn(c)

(* Instances start, applications connect, nothing stops.                   *)
StableNext ==
  \/ \E d \in Daemons : Start(d) \/ Startup(d)
  \/ \E c \in Clients : NewContext(c) \/ Connecting(c) \/ OnChanged(c) \/ HangUp(c)

(* From now on nothing goes wrong: to tell what holds afterwards.          *)
CalmDown ==
  /\ ~calm
  /\ calm' = TRUE
  /\ UNCHANGED <<daemonVars, fileVars, peer, tries, created>>

(* Instances may be killed, and applications give up.                      *)
CrashNext ==
  \/ StableNext
  \/ \E d \in Daemons : Crash(d)
  \/ \E c \in Clients : GiveUp(c)
  \/ CalmDown

(* Instances may also be asked to quit, and do so in an orderly way.       *)
ShutdownNext ==
  \/ StableNext
  \/ \E d \in Daemons : Quit(d) \/ WritePidFails(d) \/ Shutdown(d)
  \/ \E c \in Clients : GiveUp(c)

(* Processes run, applications iterate their main loops.                   *)
Fairness ==
  /\ \A d \in Daemons : WF_vars(Startup(d)) /\ WF_vars(Shutdown(d))
  /\ \A c \in Clients :
       WF_vars(Connecting(c)) /\ WF_vars(OnChanged(c)) /\ WF_vars(HangUp(c))

CrashSpec == Init /\ [][CrashNext]_vars /\ Fairness
ShutdownSpec == InitFresh /\ [][ShutdownNext]_vars /\ Fairness

-----------------------------------------------------------------------------
(* Properties.                                                             *)

(* One instance at most has got past the lock and not given it back: an    *)
(* instance that finds the lock taken has found a running one, and         *)
(* instances that are killed do not let two in.                            *)
OneInstance ==
  \A d, e \in Daemons : pc[d] \in Holding /\ pc[e] \in Holding => d = e

(* A daemon in its main loop serves the socket that the path names: the    *)
(* instances that were started in vain have not taken the path from it.    *)
RunningIsReachable ==
  \A d \in Daemons : pc[d] = "run" => socket = d /\ listening[d]

(* However two or more instances overlap while they come and go, the last  *)
(* one to exit leaves no lock file, no socket and no directory behind.     *)
LastOneCleansUp ==
  (\A d \in Daemons : pc[d] = "off") =>
    lockfile = NoFile /\ socket = NoFile /\ ~dir

(* Once nothing goes wrong any more, an application that looks for the     *)
(* daemon gets connected, whatever the crashes have left, although its own *)
(* retries may run out before the daemon it started listens, and although  *)
(* others start instances at the same time.                                *)
StartupConnects ==
  \A c \in Clients : calm /\ tries[c] > 0 ~> peer[c] \in Daemons

-----------------------------------------------------------------------------
(* What the lock means while no instance unlinks lock.pid: every open lock *)
(* file is the one the path names.                                         *)
LockIsLinked ==
  \A d \in Daemons :
    /\ pc[d] \in {"lock"} \cup Holding => fd[d] = lockfile /\ lockfile # NoFile
    /\ pc[d] \in Holding => holder[lockfile] = d
    /\ pc[d] \notin {"unlock"} \cup Leaving

(* The holder alone touches the path of the socket.                        *)
SocketIsOwned ==
  \A d \in Daemons :
    /\ pc[d] \notin {"off", "mkdir"} => dir
    /\ pc[d] = "bind" => socket = NoFile

(* The state of the files while instances start and are killed.            *)
LockInv == LockIsLinked /\ SocketIsOwned /\ RunningIsReachable
=============================================================================
