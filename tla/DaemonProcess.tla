--------------------------- MODULE DaemonProcess ---------------------------
(* Daemon processes, their sockets and the state directory they share: the  *)
(* launch and health check of client.rs, `quine daemon start` and `stop`    *)
(* (main.rs), run_ipc_server's life (server.rs), and the owner's shutdown   *)
(* at the end of a chat. What a session has come to is a number, its        *)
(* version; the checkpoint holds one version of it.                         *)
EXTENDS Naturals, FiniteSets

CONSTANTS
    Daemons,        \* processes; each is started at most once
    NoDaemon,
    Launchers,      \* commands that go through connect_or_launch
    Chats,          \* those that first choose an isolated socket
    DefaultPath,
    AlreadyRunning, \* the daemons that serve the default path at first
    MaxCommands,    \* bound: commands that are started
    MaxVersion,     \* bound: turns
    MaxHangs,       \* bound: times that a daemon stops answering for a while
    MaxDeaths       \* bound: daemons that die

ASSUME DaemonAssumption ==
    /\ NoDaemon \notin Daemons /\ AlreadyRunning \subseteq Daemons
    /\ Chats \subseteq Launchers

VARIABLES
    process,    \* per daemon: [at, path, mem, hung]
    socket,     \* per path: the daemon that bound the file, or NoDaemon
    stored,     \* version in the checkpoint of the state directory
    launcher,   \* per command: [at, path, child, server, spawned]
    troubles    \* [hangs, crashes] so far

daemonVars == <<process, socket, stored, launcher, troubles>>

Paths == {DefaultPath} \cup Chats       \* a chat's own path is named for it

DaemonInit ==
    /\ process = [d \in Daemons |->
         IF d \in AlreadyRunning THEN [at |-> "serving", path |-> DefaultPath, mem |-> 0, hung |-> FALSE]
                                 ELSE [at |-> "unborn", path |-> DefaultPath, mem |-> 0, hung |-> FALSE]]
    /\ socket = [p \in Paths |-> IF p = DefaultPath /\ AlreadyRunning # {}
                                 THEN CHOOSE d \in AlreadyRunning : TRUE ELSE NoDaemon]
    /\ stored = 0
    /\ launcher = [l \in Launchers |->
         [at |-> "unborn", path |-> DefaultPath, child |-> NoDaemon, server |-> NoDaemon, spawned |-> FALSE]]
    /\ troubles = [hangs |-> 0, crashes |-> 0]

(* connect: there is no file, or nobody accepts behind it, or somebody does.*)
Found(path) ==
    IF socket[path] = NoDaemon THEN "not_found"
    ELSE IF process[socket[path]].at # "serving" THEN "refused" ELSE "accepted"

LauncherAt(l, place) == launcher[l].at = place
Move(l, change) == launcher' = [launcher EXCEPT ![l] = change]

StartCommand(l) ==
    /\ LauncherAt(l, "unborn")
    /\ Cardinality({k \in Launchers : ~LauncherAt(k, "unborn")}) < MaxCommands
    /\ Move(l, [launcher[l] EXCEPT !.at = IF l \in Chats THEN "choosing" ELSE "connecting"])
    /\ UNCHANGED <<process, socket, stored, troubles>>

(* default_chat_socket_path: any daemon behind the default socket, healthy  *)
(* or not, makes the chat use a path of its own.                            *)
ChoosePath(l) ==
    /\ LauncherAt(l, "choosing")
    /\ Move(l, [launcher[l] EXCEPT !.at = "connecting",
                  !.path = IF Found(DefaultPath) = "accepted" THEN l ELSE DefaultPath])
    /\ UNCHANGED <<process, socket, stored, troubles>>

Answers(d) == process[d].at = "serving" /\ ~process[d].hung

(* connect_or_launch, from one await to the next: whom the first connect    *)
(* reaches is not who is at the path when the health check has failed.      *)
TryExisting(l) ==
    /\ LauncherAt(l, "connecting")
    /\ LET path == launcher[l].path
       IN Move(l, CASE Found(path) = "accepted" -> [launcher[l] EXCEPT !.at = "checking", !.server = socket[path]]
                    [] Found(path) = "refused" -> [launcher[l] EXCEPT !.at = "clearing"]
                    [] OTHER -> [launcher[l] EXCEPT !.at = "launching"])
    /\ UNCHANGED <<process, socket, stored, troubles>>

\* Mutant: who connects to a running daemon takes itself for its owner.
ConnectAsOwner(l) ==
    /\ LauncherAt(l, "checking")
    /\ Answers(launcher[l].server)
    /\ Move(l, [launcher[l] EXCEPT !.at = "connected", !.spawned = TRUE])
    /\ UNCHANGED <<process, socket, stored, troubles>>

ConnectExisting(l) ==
    /\ LauncherAt(l, "checking")
    /\ Answers(launcher[l].server)
    /\ Move(l, [launcher[l] EXCEPT !.at = "connected"])
    /\ UNCHANGED <<process, socket, stored, troubles>>

(* The health check failed (2 s). A path without a file is an error.        *)
GiveUpExisting(l) ==
    /\ LauncherAt(l, "checking")
    /\ ~Answers(launcher[l].server)
    /\ Move(l, [launcher[l] EXCEPT !.server = NoDaemon,
                  !.at = IF socket[launcher[l].path] = NoDaemon THEN "failed" ELSE "clearing"])
    /\ UNCHANGED <<process, socket, stored, troubles>>

(* What is at the path is removed, be it a live daemon's socket. *)
RemoveSocket(l) ==
    /\ LauncherAt(l, "clearing")
    /\ socket' = [socket EXCEPT ![launcher[l].path] = NoDaemon]
    /\ Move(l, [launcher[l] EXCEPT !.at = "launching"])
    /\ UNCHANGED <<process, stored, troubles>>

LaunchDaemon(l, d) ==
    /\ LauncherAt(l, "launching")
    /\ process[d].at = "unborn"
    /\ process' = [process EXCEPT ![d].at = "starting", ![d].path = launcher[l].path]
    /\ Move(l, [launcher[l] EXCEPT !.at = "polling", !.child = d])
    /\ UNCHANGED <<socket, stored, troubles>>

(* The poll takes whoever accepts at the path for the launched daemon.      *)
PollConnects(l) ==
    /\ LauncherAt(l, "polling")
    /\ Found(launcher[l].path) = "accepted"
    /\ Move(l, [launcher[l] EXCEPT !.at = "verifying", !.server = socket[launcher[l].path]])
    /\ UNCHANGED <<process, socket, stored, troubles>>

PollAnswered(l) ==
    /\ LauncherAt(l, "verifying")
    /\ Answers(launcher[l].server)
    /\ Move(l, [launcher[l] EXCEPT !.at = "connected", !.spawned = TRUE])
    /\ UNCHANGED <<process, socket, stored, troubles>>

(* The child exited, the 5 s are over, or who accepted is not healthy.      *)
PollFails(l) ==
    /\ \/ LauncherAt(l, "polling") /\ Found(launcher[l].path) # "accepted"
       \/ LauncherAt(l, "verifying") /\ ~Answers(launcher[l].server)
    /\ Move(l, [launcher[l] EXCEPT !.at = "failed"])
    /\ UNCHANGED <<process, socket, stored, troubles>>

----------------------------------------------------------------------------
(* daemon start: with_storage restores what is stored, then run_ipc_server  *)
(* removes the file at its path and binds a new one.                        *)
Load(d) ==
    /\ process[d].at = "starting"
    /\ process' = [process EXCEPT ![d].at = "loaded", ![d].mem = stored]
    /\ UNCHANGED <<socket, stored, launcher, troubles>>

Bind(d) ==
    /\ process[d].at = "loaded"
    /\ process' = [process EXCEPT ![d].at = "serving"]
    /\ socket' = [socket EXCEPT ![process[d].path] = d]
    /\ UNCHANGED <<stored, launcher, troubles>>

(* A turn of the session, asked for by a client of this daemon or by a      *)
(* scheduled job, and the commit of a snapshot of the registry after it or  *)
(* after a turn of any other session.                                       *)
Turn(d) ==
    /\ process[d].at = "serving" /\ ~process[d].hung
    /\ \A e \in Daemons : process[e].mem < MaxVersion
    /\ process' = [process EXCEPT ![d].mem = @ + 1]
    /\ UNCHANGED <<socket, stored, launcher, troubles>>

CommitRegistry(d) ==
    /\ process[d].at = "serving" /\ ~process[d].hung
    /\ stored # process[d].mem
    /\ stored' = process[d].mem
    /\ UNCHANGED <<process, socket, launcher, troubles>>

(* Shutdown removes the file at the path, whoever bound it.                 *)
ShutDown(l) ==
    /\ LauncherAt(l, "connected")
    /\ LET d == launcher[l].server
       IN IF launcher[l].spawned /\ process[d].at = "serving"
          THEN /\ process' = [process EXCEPT ![d].at = "gone"]
               /\ socket' = [socket EXCEPT ![process[d].path] = NoDaemon]
          ELSE UNCHANGED <<process, socket>>
    /\ Move(l, [launcher[l] EXCEPT !.at = "left"])
    /\ UNCHANGED <<stored, troubles>>

Hangs(d) ==
    /\ process[d].at = "serving" /\ ~process[d].hung
    /\ troubles.hangs < MaxHangs
    /\ process' = [process EXCEPT ![d].hung = TRUE]
    /\ troubles' = [troubles EXCEPT !.hangs = @ + 1]
    /\ UNCHANGED <<socket, stored, launcher>>

Recovers(d) ==
    /\ process[d].hung
    /\ process' = [process EXCEPT ![d].hung = FALSE]
    /\ UNCHANGED <<socket, stored, launcher, troubles>>

Dies(d) ==
    /\ process[d].at \in {"starting", "loaded", "serving"}
    /\ troubles.crashes < MaxDeaths
    /\ process' = [process EXCEPT ![d].at = "gone", ![d].hung = FALSE]
    /\ troubles' = [troubles EXCEPT !.crashes = @ + 1]
    /\ UNCHANGED <<socket, stored, launcher>>

DaemonNext ==
    \/ \E l \in Launchers :
         \/ StartCommand(l) \/ ChoosePath(l)
         \/ TryExisting(l) \/ ConnectExisting(l) \/ GiveUpExisting(l) \/ RemoveSocket(l)
         \/ PollConnects(l) \/ PollAnswered(l) \/ PollFails(l) \/ ShutDown(l)
         \/ \E d \in Daemons : LaunchDaemon(l, d)
    \/ \E d \in Daemons :
         Load(d) \/ Bind(d) \/ Turn(d) \/ CommitRegistry(d) \/ Hangs(d) \/ Recovers(d) \/ Dies(d)

DaemonSpec == DaemonInit /\ [][DaemonNext]_daemonVars

(***************************************************************************)
(* A chat that is told that it launched the daemon, and so will shut it     *)
(* down when it leaves, is connected to the daemon it launched, unless      *)
(* another command launched one at the same path: the poll cannot tell      *)
(* their answers apart (connect_or_launch against run_ipc_server). A socket *)
(* of the chat's own is never shared.                                       *)
LaunchesAlone(l) ==
    \A k \in Launchers \ {l} : launcher[k].child = NoDaemon \/ launcher[k].path # launcher[l].path

OwnsWhatItSpawned ==
    \A l \in Launchers : launcher[l].spawned /\ LaunchesAlone(l) => launcher[l].server = launcher[l].child

(***************************************************************************)
(* What was stored of a session is not replaced by something older: an      *)
(* isolated daemon (client.rs default_chat_socket_path) does not write over *)
(* the work of the other one.                                               *)
StoredSurvives == [][stored' >= stored]_stored
=============================================================================
