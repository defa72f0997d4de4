-------------------------- MODULE NimfDaemonProofs --------------------------
(* Proofs about NimfDaemon, for any number of processes and applications.  *)
EXTENDS NimfDaemon, TLAPS

LEMMA InitLock == Init => TypeOK /\ LockInv
<1> SUFFICES ASSUME Init PROVE TypeOK /\ LockInv
  OBVIOUS
<1>1. TypeOK
  <2>1. dir \in BOOLEAN /\ lockfile \in Inodes \cup {NoFile} /\ socket \in Daemons \cup {NoFile}
    BY DEF Init
  <2>2. /\ pc \in [Daemons -> {"off"} \cup Starting \cup Holding \cup Leaving]
        /\ fd \in [Daemons -> Inodes \cup {NoFile}]
        /\ listening \in [Daemons -> BOOLEAN]
        /\ holder \in [Inodes -> Daemons \cup {Nobody}]
    BY DEF Init
  <2>3. /\ peer \in [Clients -> Daemons \cup {Nobody, Gone}]
        /\ tries \in [Clients -> 0 .. RetryLimit]
        /\ created \in [Clients -> BOOLEAN]
    BY RetryAssumption DEF Init
  <2>4. calm \in BOOLEAN
    BY DEF Init
  <2> QED BY <2>1, <2>2, <2>3, <2>4 DEF TypeOK
<1>2. \A d \in Daemons : pc[d] = "off"
  BY DEF Init
<1>3. LockInv
  BY <1>2 DEF LockInv, LockIsLinked, SocketIsOwned, RunningIsReachable, Holding, Leaving
<1> QED BY <1>1, <1>3

(* The steps of a daemon that starts or is killed.                         *)
LEMMA DaemonTypes ==
  ASSUME TypeOK, NEW d \in Daemons, Start(d) \/ Startup(d) \/ Crash(d)
  PROVE  TypeOK'
<1> USE DEF TypeOK, Goto, Starting, Holding, Leaving, clientVars, fileVars
<1>1. CASE Start(d)          BY <1>1 DEF Start
<1>2. CASE CreateDir(d)      BY <1>2 DEF CreateDir
<1>3. CASE OpenLockFile(d)
  <2>1. lockfile' \in Inodes \cup {NoFile}
    BY <1>3 DEF OpenLockFile, FreeInodes
  <2> QED BY <1>3, <2>1 DEF OpenLockFile
<1>4. CASE SetLock(d)        BY <1>4 DEF SetLock, Grants
<1>5. CASE WritePid(d)       BY <1>5 DEF WritePid
<1>6. CASE UnlinkSocket(d)   BY <1>6 DEF UnlinkSocket
<1>7. CASE StartServer(d)    BY <1>7 DEF StartServer
<1>8. CASE Crash(d)
  <2>1. holder' \in [Inodes -> Daemons \cup {Nobody}]
    BY <1>8 DEF Crash, Released
  <2>2. peer' \in [Clients -> Daemons \cup {Nobody, Gone}]
    BY <1>8 DEF Crash, HungUp
  <2> QED BY <1>8, <2>1, <2>2 DEF Crash
<1> QED
  BY <1>1, <1>2, <1>3, <1>4, <1>5, <1>6, <1>7, <1>8 DEF Startup

(* The steps of an application, which change no file.                      *)
LEMMA ClientTypes ==
  ASSUME TypeOK, NEW c \in Clients,
         NewContext(c) \/ Connecting(c) \/ OnChanged(c) \/ GiveUp(c) \/ HangUp(c)
  PROVE  TypeOK'
<1> USE RetryAssumption DEF TypeOK, daemonVars, fileVars
<1>1. CASE NewContext(c)  BY <1>1 DEF NewContext
<1>2. CASE Connect(c)     BY <1>2, FilesAssumption DEF Connect, Reachable
<1>3. CASE Spawn(c)
  <2>1. tries' \in [Clients -> 0 .. RetryLimit]
    BY <1>3 DEF Spawn, NextTry
  <2>2. pc' \in [Daemons -> {"off"} \cup Starting \cup Holding \cup Leaving]
    BY <1>3 DEF Spawn, NextTry, Goto, Starting
  <2> QED BY <1>3, <2>1, <2>2 DEF Spawn, NextTry
<1>4. CASE OnChanged(c)   BY <1>4 DEF OnChanged, Reconnects
<1>5. CASE GiveUp(c)      BY <1>5 DEF GiveUp
<1>6. CASE HangUp(c)      BY <1>6 DEF HangUp
<1> QED BY <1>1, <1>2, <1>3, <1>4, <1>5, <1>6 DEF Connecting

-----------------------------------------------------------------------------

LEMMA DaemonKeepsLock ==
  ASSUME TypeOK, LockInv, NEW d \in Daemons, Start(d) \/ Startup(d) \/ Crash(d)
  PROVE  LockInv'
<1> USE FilesAssumption
    DEF TypeOK, LockInv, LockIsLinked, SocketIsOwned, RunningIsReachable, Goto,
        Starting, Holding, Leaving, clientVars, fileVars
<1>1. CASE Start(d)          BY <1>1 DEF Start
<1>2. CASE CreateDir(d)      BY <1>2 DEF CreateDir
<1>3. CASE OpenLockFile(d)
  <2>1. CASE ~dir            BY <1>3, <2>1 DEF OpenLockFile
  <2>2. CASE dir /\ lockfile # NoFile
    BY <1>3, <2>2 DEF OpenLockFile
  (* Nobody is past the opening of a lock.pid that does not exist.         *)
  <2>3. CASE dir /\ lockfile = NoFile
    <3>1. \A e \in Daemons : pc[e] \in {"off", "mkdir", "open"}
      BY <2>3
    <3> QED BY <1>3, <2>3, <3>1 DEF OpenLockFile, FreeInodes
  <2> QED BY <2>1, <2>2, <2>3
(* A lock that is free has no holder among the other instances.            *)
<1>4. CASE SetLock(d)
  <2>1. CASE holder[fd[d]] = Nobody
    <3>1. \A e \in Daemons : pc[e] \notin Holding
      BY <1>4, <2>1, PeersAssumption DEF SetLock, Grants
    <3> QED BY <1>4, <2>1, <3>1 DEF SetLock, Grants
  <2>2. CASE holder[fd[d]] # Nobody
    BY <1>4, <2>2 DEF SetLock, Grants
  <2> QED BY <2>1, <2>2
<1>5. CASE WritePid(d)       BY <1>5 DEF WritePid
<1>6. CASE UnlinkSocket(d)   BY <1>6 DEF UnlinkSocket
<1>7. CASE StartServer(d)    BY <1>7 DEF StartServer
<1>8. CASE Crash(d)
  <2>1. \A i \in Inodes : holder[i] # d => holder'[i] = holder[i]
    BY <1>8 DEF Crash, Released
  <2>2. \A e \in Daemons \ {d} : pc'[e] = pc[e] /\ fd'[e] = fd[e]
                                  /\ listening'[e] = listening[e]
    BY <1>8 DEF Crash
  <2>3. pc'[d] = "off"
    BY <1>8 DEF Crash
  <2>4. LockIsLinked'
    BY <1>8, <2>1, <2>2, <2>3 DEF Crash
  <2>5. SocketIsOwned' /\ RunningIsReachable'
    BY <1>8, <2>2, <2>3 DEF Crash
  <2> QED BY <2>4, <2>5
<1> QED
  BY <1>1, <1>2, <1>3, <1>4, <1>5, <1>6, <1>7, <1>8 DEF Startup

LEMMA ClientKeepsLock ==
  ASSUME TypeOK, LockInv, NEW c \in Clients,
         NewContext(c) \/ Connecting(c) \/ OnChanged(c) \/ GiveUp(c) \/ HangUp(c)
  PROVE  LockInv'
<1> USE DEF TypeOK, LockInv, LockIsLinked, SocketIsOwned, RunningIsReachable,
            Starting, Holding, Leaving, daemonVars, fileVars
<1>1. CASE Spawn(c)   BY <1>1 DEF Spawn, NextTry, Goto
<1>2. CASE ~Spawn(c)
  BY <1>2 DEF NewContext, Connecting, Connect, OnChanged, GiveUp, HangUp
<1> QED BY <1>1, <1>2

(* However often instances are started and killed, lock.pid stays where it *)
(* is and its holder is the only one to touch the socket.                  *)
THEOREM LockHolds == CrashSpec => [](TypeOK /\ LockInv)
<1>1. TypeOK /\ LockInv /\ [CrashNext]_vars => TypeOK' /\ LockInv'
  <2> SUFFICES ASSUME TypeOK, LockInv, [CrashNext]_vars
               PROVE  TypeOK' /\ LockInv'
    OBVIOUS
  <2>1. ASSUME NEW d \in Daemons, Start(d) \/ Startup(d) \/ Crash(d)
        PROVE  TypeOK' /\ LockInv'
    BY <2>1, DaemonTypes, DaemonKeepsLock
  <2>2. ASSUME NEW c \in Clients,
               NewContext(c) \/ Connecting(c) \/ OnChanged(c) \/ GiveUp(c) \/ HangUp(c)
        PROVE  TypeOK' /\ LockInv'
    BY <2>2, ClientTypes, ClientKeepsLock
  <2>3. CASE CalmDown
    BY <2>3 DEF CalmDown, daemonVars, fileVars, TypeOK, LockInv, LockIsLinked,
                SocketIsOwned, RunningIsReachable
  <2>4. CASE UNCHANGED vars
    BY <2>4 DEF vars, TypeOK, LockInv, LockIsLinked, SocketIsOwned, RunningIsReachable
  <2> QED BY <2>1, <2>2, <2>3, <2>4 DEF CrashNext, StableNext
<1> QED BY InitLock, <1>1, PTL DEF CrashSpec

(* One instance at most has the lock, whatever crashes.                    *)
THEOREM AtMostOneInstance == CrashSpec => []OneInstance
<1>1. TypeOK /\ LockInv => OneInstance
  BY DEF TypeOK, LockInv, LockIsLinked, OneInstance
<1> QED BY LockHolds, <1>1, PTL

(* A daemon that runs serves the socket that applications connect to.      *)
THEOREM TheDaemonIsReachable == CrashSpec => []RunningIsReachable
<1>1. LockInv => RunningIsReachable
  BY DEF LockInv
<1> QED BY LockHolds, <1>1, PTL
=============================================================================
