--------------------------- MODULE PythonRuntime ---------------------------
(* One group of the Python runtime (python/runtime.rs): a worker process    *)
(* that answers one JSON line per request line, the mutex its callers take  *)
(* in turn, and the copy of its globals that a new worker is restored from. *)
(* The environment of a group is abstracted to the number of executions it  *)
(* has seen, 0 being the empty environment.                                 *)
EXTENDS Naturals, Sequences

CONSTANTS
    PyCallers,      \* tool calls and `quine py` requests on the group
    NoCaller,
    MaxCancels,     \* bound: calls whose future is dropped by an interrupt
    MaxExits,       \* bound: worker exits (a crash, or sys.exit in the code)
    MaxPrints,      \* bound: lines the code prints, answers that do not parse
    FunctionsRestore \* FALSE: a stored function may fail to compile again

VARIABLES
    worker,     \* [alive, env, inbox, pipe]: the process and its two pipes
    persisted,  \* PythonGroupState::persisted
    holder,     \* who holds the state's mutex
    call,       \* per caller: [at, ask, retried, line]
    written,    \* number of request lines written so far, names the next one
    overdue,    \* since the worker was spawned: calls dropped half-way, lines printed
    faults      \* cancels, crashes and prints so far

vars == <<worker, persisted, holder, call, written, overdue, faults>>

Empty == 0
Asks == {"exec", "list_globals", "snapshot"}
NoWorker == [alive |-> FALSE, env |-> Empty, inbox |-> <<>>, pipe |-> <<>>]
NewWorker == [NoWorker EXCEPT !.alive = TRUE]
Resting == [at |-> "idle", ask |-> "exec", retried |-> FALSE, line |-> 0]

Init ==
    /\ worker = NoWorker
    /\ persisted = Empty
    /\ holder = NoCaller
    /\ call = [c \in PyCallers |-> Resting]
    /\ written = 0
    /\ overdue = 0
    /\ faults = [cancels |-> 0, crashes |-> 0, prints |-> 0]

At(c, place) == holder = c /\ call[c].at = place
Goes(c, place) == [call EXCEPT ![c].at = place]

(* The guard is dropped with the call, whatever it returns. *)
Return(c, result) ==
    /\ call' = [call EXCEPT ![c] = [Resting EXCEPT !.at = result]]
    /\ holder' = NoCaller

(* exec with both or neither of code and function never takes the mutex. *)
RefuseRequest(c) ==
    /\ call[c].at = "idle"
    /\ call' = Goes(c, "refused")
    /\ UNCHANGED <<worker, persisted, holder, written, overdue, faults>>

(* exec, list_globals and inspect, snapshot_group: take the mutex. *)
TakeGroup(c, ask) ==
    /\ call[c].at = "idle"
    /\ holder = NoCaller
    /\ holder' = c
    /\ call' = [call EXCEPT ![c] = [Resting EXCEPT !.at = "ensure", !.ask = ask]]
    /\ UNCHANGED <<worker, persisted, written, overdue, faults>>

(* ensure_process: try_wait finds the worker alive, or a new one is spawned *)
(* and restored when anything was persisted.                                *)
EnsureProcess(c) ==
    /\ At(c, "ensure")
    /\ \/ /\ worker.alive
          /\ call' = Goes(c, "send")
          /\ UNCHANGED <<worker, overdue, holder>>
       \/ /\ ~worker.alive
          /\ worker' = NewWorker
          /\ overdue' = 0
          /\ call' = Goes(c, IF persisted = Empty THEN "send" ELSE "restore")
          /\ UNCHANGED holder
       \/ /\ ~worker.alive          \* spawn_worker: no interpreter
          /\ Return(c, "failed")
          /\ UNCHANGED <<worker, overdue>>
    /\ UNCHANGED <<persisted, written, faults>>

(* send_request writes a line and reads one. What is read is the next line  *)
(* of the pipe, there being no id in it.                                    *)
WriteLine(c, ask, place) ==
    /\ worker.alive
    /\ written' = written + 1
    /\ worker' = [worker EXCEPT !.inbox = Append(@, [ask |-> ask, line |-> written + 1, want |-> persisted])]
    /\ call' = [call EXCEPT ![c] = [@ EXCEPT !.at = place, !.line = written + 1]]

\* Mutant: a restore is sent and its answer is not read.
SendRestoreUnread(c) ==
    /\ At(c, "restore")
    /\ WriteLine(c, "restore", "send")
    /\ UNCHANGED <<persisted, holder, overdue, faults>>

SendRestore(c) ==
    /\ At(c, "restore")
    /\ WriteLine(c, "restore", "restoring")
    /\ UNCHANGED <<persisted, holder, overdue, faults>>

SendRequest(c) ==
    /\ At(c, "send")
    /\ WriteLine(c, call[c].ask, "reading")
    /\ UNCHANGED <<persisted, holder, overdue, faults>>

(* The answer's globals are empty unless it answers a snapshot. It may be a *)
(* line that does not parse: json.dumps writes NaN for a float that is not  *)
(* a number, and what was printed without a newline is before it.           *)
WorkerAnswer(request, ok, env, readable) ==
    [line |-> request.line, ok |-> ok, readable |-> readable,
     globals |-> IF request.ask = "snapshot" THEN env ELSE Empty]

Readable == IF faults.prints < MaxPrints THEN BOOLEAN ELSE {TRUE}
MorePrints(n) == faults' = [faults EXCEPT !.prints = @ + n]

(* The worker's loop. An exec that raises keeps what it did before, and a   *)
(* restore whose function source raises is partial, which counts as empty.  *)
WorkerStep ==
    /\ worker.alive
    /\ worker.inbox # <<>>
    /\ LET request == Head(worker.inbox)
           Env == CASE request.ask = "exec" -> worker.env + 1
                    [] request.ask = "restore" -> request.want
                    [] OTHER -> worker.env
           Reply(ok, env) ==
               \E readable \in Readable :
                   /\ worker' = [worker EXCEPT !.inbox = Tail(@), !.env = env,
                                               !.pipe = Append(@, WorkerAnswer(request, ok, env, readable))]
                   /\ MorePrints(IF readable THEN 0 ELSE 1)
       IN \/ Reply(TRUE, Env)
          \/ request.ask = "exec" /\ \E env \in {worker.env, Env} : Reply(FALSE, env)
          \/ request.ask = "restore" /\ ~FunctionsRestore /\ Reply(FALSE, worker.env)
    /\ UNCHANGED <<persisted, holder, call, written, overdue>>

(* Only sys.stdout is redirected while code runs: what it writes to file    *)
(* descriptor 1 itself, or a process it starts does, is a line of the pipe. *)
(* No such line is taken to be a response.                                  *)
PrintedLine == [line |-> 0, ok |-> FALSE, readable |-> FALSE, globals |-> Empty]

CodePrints ==
    /\ worker.alive
    /\ worker.env # Empty \/ (worker.inbox # <<>> /\ Head(worker.inbox).ask = "exec")
    /\ faults.prints < MaxPrints
    /\ MorePrints(1)
    /\ worker' = [worker EXCEPT !.pipe = Append(@, PrintedLine)]
    /\ overdue' = overdue + 1
    /\ UNCHANGED <<persisted, holder, call, written>>

(* The process ends: SystemExit passes the worker's `except Exception`. *)
WorkerExit ==
    /\ worker.alive
    /\ faults.crashes < MaxExits
    /\ faults' = [faults EXCEPT !.crashes = @ + 1]
    /\ worker' = [worker EXCEPT !.alive = FALSE, !.inbox = <<>>]
    /\ UNCHANGED <<persisted, holder, call, written, overdue>>

HasAnswer == worker.pipe # <<>>
TheAnswer == Head(worker.pipe)
Consumed == [worker EXCEPT !.pipe = Tail(@)]

ReadRestored(c) ==
    /\ At(c, "restoring")
    /\ HasAnswer /\ TheAnswer.readable
    /\ worker' = Consumed
    /\ IF TheAnswer.ok THEN call' = Goes(c, "send") /\ UNCHANGED holder
                       ELSE Return(c, "failed")
    /\ UNCHANGED <<persisted, written, overdue, faults>>

(* A snapshot is kept. An exec that went well goes on to take one, as a     *)
(* second request of the same call.                                         *)
KeepSnapshot(answer) == persisted' = answer.globals

ReadAnswer(c) ==
    /\ At(c, "reading")
    /\ HasAnswer /\ TheAnswer.readable
    /\ worker' = Consumed
    /\ CASE ~TheAnswer.ok -> Return(c, "failed") /\ UNCHANGED persisted
         [] TheAnswer.ok /\ call[c].ask = "exec" ->
              /\ call' = [call EXCEPT ![c] = [Resting EXCEPT !.at = "ensure", !.ask = "snapshot"]]
              /\ UNCHANGED <<persisted, holder>>
         [] TheAnswer.ok /\ call[c].ask = "snapshot" -> Return(c, "done") /\ KeepSnapshot(TheAnswer)
         [] OTHER -> Return(c, "done") /\ UNCHANGED persisted
    /\ UNCHANGED <<written, overdue, faults>>

(* A write or a read that fails drops the process and tries once more: the  *)
(* code runs again. The restore of a retry, like any other, is not tried    *)
(* again, and neither is the retry: the process is kept then.               *)
Retried(c) ==
    /\ worker' = NoWorker
    /\ call' = [call EXCEPT ![c] = [@ EXCEPT !.at = "ensure", !.retried = TRUE]]
    /\ UNCHANGED holder

SendFailed(c, kept) ==
    IF call[c].at \in {"restore", "restoring"} \/ call[c].retried
    THEN Return(c, "failed") /\ worker' = kept
    ELSE Retried(c)

(* The line that was read is no response, from a worker that goes on. *)
ReadUnreadable(c) ==
    /\ At(c, "restoring") \/ At(c, "reading")
    /\ HasAnswer /\ ~TheAnswer.readable
    /\ SendFailed(c, Consumed)
    /\ UNCHANGED <<persisted, written, overdue, faults>>

(* The pipe of a worker that is gone: writing fails, reading after the last *)
(* line too.                                                                *)
WorkerGone(c) ==
    /\ ~worker.alive
    /\ \/ At(c, "restore") \/ At(c, "send")
       \/ (At(c, "restoring") \/ At(c, "reading")) /\ ~HasAnswer
    /\ SendFailed(c, worker)
    /\ UNCHANGED <<persisted, written, overdue, faults>>

(* An interrupt during the tool drops the future at an await: the mutex is  *)
(* free again and the line it wrote will still be answered.                 *)
DropCall(c) ==
    /\ holder = c
    /\ faults.cancels < MaxCancels
    /\ faults' = [faults EXCEPT !.cancels = @ + 1]
    /\ overdue' = IF call[c].at \in {"restoring", "reading"} THEN overdue + 1 ELSE overdue
    /\ Return(c, "cancelled")
    /\ UNCHANGED <<worker, persisted, written>>

ExecCall(c) ==
    \/ RefuseRequest(c)
    \/ \E ask \in Asks : TakeGroup(c, ask)
    \/ EnsureProcess(c) \/ SendRestore(c) \/ SendRequest(c)
    \/ ReadRestored(c) \/ ReadAnswer(c) \/ ReadUnreadable(c)
    \/ WorkerGone(c) \/ DropCall(c)

Next == (\E c \in PyCallers : ExecCall(c)) \/ WorkerStep \/ CodePrints \/ WorkerExit

Spec == Init /\ [][Next]_vars

(***************************************************************************)
(* Every line written to the worker is answered to the call that wrote it,  *)
(* but for those of calls that were dropped and lines that the code         *)
(* printed: these, and nothing else, make the later answers of this worker  *)
(* late (send_request reads whatever line comes next). So without them a    *)
(* caller reads its own answer, whatever crashed, failed to parse, was      *)
(* restored or tried again; with them its own is still to be read.          *)
Unread == Len(worker.pipe) + Len(worker.inbox)
LineAt(i) ==
    IF i <= Len(worker.pipe) THEN worker.pipe[i].line ELSE worker.inbox[i - Len(worker.pipe)].line

Reads(c) == At(c, "restoring") \/ At(c, "reading")

AnswersAreOwn ==
    /\ worker.alive => Unread = overdue + (IF \E c \in PyCallers : Reads(c) THEN 1 ELSE 0)
    /\ \A c \in PyCallers : Reads(c) /\ Unread > overdue => \E i \in 1..Unread : LineAt(i) = call[c].line
    /\ \A c \in PyCallers : Reads(c) /\ overdue = 0 /\ HasAnswer => TheAnswer.line = call[c].line

(* Not kept: after a call that was dropped, or a line that was printed in a *)
(* retry, the next caller reads an answer that is not its own.              *)
EveryAnswerIsOwn == \A c \in PyCallers : Reads(c) /\ HasAnswer => TheAnswer.line \in {0, call[c].line}

(***************************************************************************)
(* Globals that were stored are not lost: what a new worker would be        *)
(* restored from never becomes empty again.                                 *)
GlobalsSurvive == [][persisted # Empty => persisted' # Empty]_persisted
=============================================================================
