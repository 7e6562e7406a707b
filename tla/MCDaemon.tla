------------------------------ MODULE MCDaemon ------------------------------
(* Instances for TLC of the parts of the daemon around the core: the        *)
(* harness's listing and restart (HarnessService), the JSON-RPC connections *)
(* (IpcServer), the processes and their sockets (DaemonProcess) and the     *)
(* Python workers (PythonRuntime). They share no state that these models    *)
(* keep, so a behaviour is one of a single part, chosen at the start.       *)
EXTENDS HarnessService, IpcServer, DaemonProcess, PythonRuntime, TLC

CONSTANTS
    Focuses         \* the parts that are explored

VARIABLE focus

Good == [n \in Parameters |-> "good"]

Request(method, params) == [method |-> method, id |-> 0, params |-> params]
SendMessage == Request("send_message", Good)

OneFieldOff == {Good} \cup {[Good EXCEPT ![f] = v] : f \in DOMAIN Good, v \in {"absent", "unparsable"}}
FallbackOff == {[Good EXCEPT !.session_id = "absent", !.parent_id = "absent"],
                [Good EXCEPT !.content = "absent", !.task = "absent"]}

(* Every request once, well-formed or with a field that is not; and, from a *)
(* client that goes on when a call has failed, pairs around a turn.         *)
Singles == {<<Request(m, p)>> : m \in Methods, p \in OneFieldOff \cup FallbackOff}
Pairs == {<<Request(m, Good), SendMessage>> : m \in {"list_sessions", "cancel"}}
         \cup {<<SendMessage, Request(m, Good)>> : m \in {"submit_interaction_response", "signal_session", "send_message"}}
MCPrograms == {[c \in Clients |-> IF c \in LongLived THEN p ELSE <<>>] : p \in Singles \cup Pairs}

(* A second client asks for nothing. It is connected, as a chat is, only    *)
(* beside a command with one message, and what is written to it is written  *)
(* and read at once: no other step depends on when.                         *)
Idle == Clients \ LongLived
OneMessage(c) ==
    /\ client[c].library = "cli"
    /\ \/ client[c].program = <<SendMessage>> /\ client[c].next_id = 1
       \/ client[c].program = <<>> /\ client[c].turn # NoTurn /\ client[c].next_id = 2
IdleConnects(c) == connection'[c] # "none" => \A d \in LongLived : OneMessage(d)
AtOnce == \A c \in Idle : wire[c] # <<>> \/ notify[c] # <<>> => ReadLine(c) \/ WriteNotification(c)
Bounded == AtOnce /\ \A c \in Idle : connection[c] = "none" => IdleConnects(c)

pythonVars == vars

MCInit ==
    /\ focus \in Focuses
    /\ HarnessInit /\ IpcInit /\ DaemonInit /\ Init
    /\ \A c \in Idle : client[c].library = "cli"
    /\ focus # "ipc" => \A c \in Clients : client[c].program \in {<<>>, <<SendMessage>>} /\ client[c].library = "cli"

MCNext ==
    /\ UNCHANGED focus
    /\ \/ focus = "harness" /\ HarnessNext /\ UNCHANGED <<ipcVars, daemonVars, pythonVars>>
       \/ focus = "ipc" /\ IpcNext /\ Bounded /\ UNCHANGED <<harnessVars, daemonVars, pythonVars>>
       \/ focus = "process" /\ DaemonNext /\ UNCHANGED <<harnessVars, ipcVars, pythonVars>>
       \/ focus = "python" /\ Next /\ UNCHANGED <<harnessVars, ipcVars, daemonVars>>

SessionSymmetry == Permutations(Sessions)
=============================================================================
