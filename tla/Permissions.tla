----------------------------- MODULE Permissions -----------------------------
(* What a session may do. Every tool call becomes a request (a scope and a  *)
(* resource), which evaluate_permission decides from the session's          *)
(* PermissionContext: the tool's own refusal, the file boundary, the rules  *)
(* of ~/.quine/permissions.yaml and <dir>/.quine/permissions.yaml, and the  *)
(* default of the mode; somebody is asked where that says "ask" and         *)
(* somebody is there. The context is made when a session is created,        *)
(* spawned by a tool, spawned by a client, scheduled or restored.           *)
(* Paths are sequences of names below the file system's root, commands are  *)
(* sequences of words, and files hold no symbolic links. Paths never climb  *)
(* above the root of the file system.                                       *)
EXTENDS Sequences, FiniteSets, Integers, SequencesExt

CONSTANTS
    Sessions,
    NoSession,
    Dirs,        (* working directories clients create sessions in      *)
    DaemonDir,   (* the directory the daemon was started in             *)
    RuleFiles,   (* the possible contents of the permission files       *)
    Calls,       (* the tool calls models make: [tool, arg]             *)
    Behaviours   (* the prompt behaviours clients ask for               *)

VARIABLES
    files,       (* [user, workspace]: the permission files             *)
    conf,        (* conf[s]: the part of a session's configuration that decides *)
    perm,        (* perm[s]: the session's PermissionContext            *)
    asking,      (* asking[s]: the call a session waits for leave to make, or <<>> *)
    saved,       (* saved[s]: what the last checkpoint kept of it, or <<>> *)
    ran,         (* the last call that was executed: [by, call, asked]  *)
    given,       (* given[s]: the context of the parent that spawned it by a tool *)
    alone        (* the sessions nobody answers: headless ones and what their tools spawned *)

permissionVars == <<files, conf, perm, asking, saved, ran, given, alone>>

----------------------------------------------------------------------------
(* Commands.                                                                *)
Shells == {"bash"}
Interpreters == {"python"}
Mutators == {"rm"}
Readers == {"ls"}
InlineFlags == {"-c"}
Flags == InlineFlags \cup {"-i"}
Assignments == {"A=1"}

Wrapper(words, i) ==
    \/ words[i] \in Assignments \cup {"env"}
    \/ words[i] \in Flags /\ \E j \in 1..(i - 1) : words[j] = "env"

SkipEnvWrappers(words) ==
    LET program == {i \in 1..Len(words) : \A j \in 1..i : j < i <=> Wrapper(words, j)}
    IN IF program = {} THEN <<>> ELSE SubSeq(words, CHOOSE i \in program : TRUE, Len(words))

CommandRisk(command) ==
    LET words == SkipEnvWrappers(command)
        Inline == \E i \in 2..Len(words) : words[i] \in InlineFlags
    IN CASE words = <<>> -> "unknown"
         [] words # <<>> /\ Head(words) \in Shells /\ Inline -> "nested_shell"
         [] words # <<>> /\ Head(words) \in Interpreters /\ Inline -> "interpreter"
         [] words # <<>> /\ (Head(words) \in Mutators \/ \E i \in 1..Len(command) : command[i] = ">") -> "mutating"
         [] words # <<>> /\ Head(words) \in Readers /\ \A i \in 1..Len(command) : command[i] # ">" -> "read_only"
         [] OTHER -> "unknown"

----------------------------------------------------------------------------
(* Paths.                                                                   *)
Normalize(path) ==
    LET Step(done, name) == IF name = ".." THEN Front(done) ELSE Append(done, name)
    IN FoldLeft(Step, <<>>, path)

Under(root, path) == IsPrefix(root, path)
Climbs(relative) ==
    \E i \in 1..Len(relative) :
        2 * Cardinality({j \in 1..i : relative[j] = ".."}) > i

(* OverlayFilesystem::resolve_path: lexically below the session's directory, *)
(* or nothing.                                                               *)
ResolvePath(dir, arg) ==
    LET relative == IF arg.absolute THEN SubSeq(arg.path, Len(dir) + 1, Len(arg.path)) ELSE arg.path
    IN IF (arg.absolute /\ ~Under(dir, arg.path)) \/ Climbs(relative) THEN <<>>
       ELSE <<dir \o Normalize(relative)>>

RequestedPath(dir, arg) ==
    IF ResolvePath(dir, arg) # <<>> THEN ResolvePath(dir, arg)[1]
    ELSE IF arg.absolute THEN arg.path ELSE dir \o arg.path

Authorized(context, path) == \E root \in {context.root} : Under(root, Normalize(path))

----------------------------------------------------------------------------
(* Requests.                                                                *)
FileTools == {"read_file", "apply_patch", "find"}
ScopeOf(tool) ==
    CASE tool \in {"read_file", "find", "ask_user"} -> "read"
      [] tool = "apply_patch" -> "write"
      [] tool = "bash" -> "execute"
      [] tool = "signal" -> "process_control"
      [] tool = "spawn" -> "agent_control"

BuildPermissionRequest(s, call) ==
    [tool |-> call.tool, scope |-> ScopeOf(call.tool),
     path |-> IF call.tool \in FileTools THEN <<RequestedPath(conf[s].dir, call.arg)>> ELSE <<>>,
     risk |-> IF call.tool = "bash" THEN CommandRisk(call.arg) ELSE "unknown",
     refused |-> call.tool = "bash" /\ IsPrefix(<<"rm", "-rf", "/">>, call.arg)]

RuleMatches(rule, request) ==
    /\ rule.scope = request.scope
    /\ CASE rule.target = "any" -> TRUE
         [] rule.target = "tool" -> rule.name = <<request.tool>>
         [] rule.target = "path" -> request.path # <<>> /\ Under(rule.name, request.path[1])

(* The session source is filled by tests only, the built-in one by nobody.  *)
RuleSources == <<"workspace", "user">>
RuleEffects == <<"deny", "allow", "ask">>
RuleDecision(rules, request) ==
    LET Matching(source, effect) ==
            {r \in rules[source] : r.effect = effect /\ RuleMatches(r, request)}
        found == {f \in (1..2) \X (1..3) : Matching(RuleSources[f[1]], RuleEffects[f[2]]) # {}}
        First == CHOOSE f \in found : \A g \in found : f[1] < g[1] \/ (f[1] = g[1] /\ f[2] <= g[2])
    IN IF found = {} THEN "none" ELSE RuleEffects[First[2]]

ModeDefault(mode, request) ==
    CASE request.tool = "bash" -> IF mode = "plan" THEN "deny" ELSE IF request.risk = "read_only" THEN "allow" ELSE "ask"
      [] request.tool # "bash" /\ request.scope = "read" -> "allow"
      [] OTHER -> IF mode = "plan" THEN "deny" ELSE "ask"

Decision(context, request) ==
    IF request.refused \/ (request.path # <<>> /\ ~Authorized(context, request.path[1])) THEN "deny"
    ELSE IF RuleDecision(context.rules, request) # "none" THEN RuleDecision(context.rules, request)
    ELSE ModeDefault(context.mode, request)

EvaluatePermission(context, request) ==
    IF Decision(context, request) = "ask" /\ context.behaviour # "interactive" THEN "deny"
    ELSE Decision(context, request)

----------------------------------------------------------------------------
(* Sessions.                                                                *)
NoConf == [live |-> FALSE, plan |-> FALSE, behaviour |-> "interactive", dir |-> <<>>, born |-> "none", parent |-> NoSession]
NoRules == [workspace |-> {}, user |-> {}]
NewContext(dir, plan, behaviour, rules) ==
    [mode |-> IF plan THEN "plan" ELSE "default", rules |-> rules, root |-> dir, behaviour |-> behaviour]

NoContext == NewContext(<<>>, FALSE, "interactive", NoRules)
NothingRan == <<>>

PermissionsInit ==
    /\ files \in RuleFiles
    /\ conf = [s \in Sessions |-> NoConf]
    /\ perm = [s \in Sessions |-> NoContext]
    /\ asking = [s \in Sessions |-> <<>>]
    /\ saved = [s \in Sessions |-> <<>>]
    /\ ran = NothingRan
    /\ given = [s \in Sessions |-> NoContext]
    /\ alone = {}

(* Session identifiers are random: one that nothing refers to stands for a  *)
(* new one.                                                                 *)
Fresh == {s \in Sessions : ~conf[s].live /\ saved[s] = <<>>}
Live == {s \in Sessions : conf[s].live}
Begin(s, config, context) ==
    /\ conf' = [conf EXCEPT ![s] = config]
    /\ perm' = [perm EXCEPT ![s] = context]

(* load_persisted_permission_rules refuses a file that does not parse.      *)
LoadRules(dir) == [user |-> files.user, workspace |-> files.workspace[dir]]
CreateSession(s, dir, plan, behaviour) ==
    /\ s \in Fresh /\ dir \notin files.broken
    /\ Begin(s, [live |-> TRUE, plan |-> plan, behaviour |-> behaviour, dir |-> dir, born |-> "client", parent |-> NoSession],
             NewContext(dir, plan, behaviour, LoadRules(dir)))
    /\ alone' = IF behaviour = "interactive" THEN alone ELSE alone \cup {s}
    /\ UNCHANGED <<files, asking, saved, ran, given>>

\* Mutant: a child gets none of its parent's rules.
ChildContextForgetful(s) == [perm[s] EXCEPT !.rules = NoRules]

(* The tool hands over its session's context as it is when it runs. With    *)
(* inherit_history the configuration is the parent's too; without it the    *)
(* child's files are those of the directory the daemon was started in.      *)
ChildContext(s) == perm[s]
SpawnConf(s, born, history) ==
    IF history THEN [conf[s] EXCEPT !.born = born, !.parent = s]
    ELSE [live |-> TRUE, plan |-> FALSE, behaviour |-> perm[s].behaviour, dir |-> DaemonDir, born |-> born, parent |-> s]

SpawnSession(s, child, history) ==
    /\ Begin(child, SpawnConf(s, "tool", history), ChildContext(s))
    /\ given' = [given EXCEPT ![child] = perm[s]]
    /\ alone' = IF s \in alone THEN alone \cup {child} ELSE alone

Execute(s, call, asked) ==
    /\ ran' = <<[by |-> s, call |-> call, asked |-> asked]>>
    /\ IF call.tool = "spawn" /\ Fresh # {}
       THEN \E child \in Fresh : SpawnSession(s, child, call.arg = "with history")
       ELSE UNCHANGED <<conf, perm, given, alone>>

ExecuteToolCall(s, call) ==
    LET outcome == EvaluatePermission(perm[s], BuildPermissionRequest(s, call))
    IN /\ s \in Live /\ asking[s] = <<>>
       /\ \/ outcome = "allow" /\ Execute(s, call, FALSE) /\ UNCHANGED asking
          \/ outcome = "ask" /\ asking' = [asking EXCEPT ![s] = <<call>>] /\ UNCHANGED <<conf, perm, ran, given, alone>>
       /\ UNCHANGED <<files, saved>>

(* An answer that is neither of the two labels is dropped.                  *)
Approve(s) ==
    /\ asking[s] # <<>>
    /\ Execute(s, asking[s][1], TRUE)
    /\ asking' = [asking EXCEPT ![s] = <<>>]
    /\ UNCHANGED <<files, saved>>

DenyOrCancel(s) ==
    /\ asking[s] # <<>>
    /\ asking' = [asking EXCEPT ![s] = <<>>]
    /\ UNCHANGED <<files, conf, perm, saved, ran, given, alone>>

(* Handled between turns; a session that waits for approval defers it.      *)
ExitPermissionPlanMode(context) ==
    IF context.mode = "plan" THEN [context EXCEPT !.mode = "default"] ELSE context

ExitPlanMode(s) ==
    /\ s \in Live /\ asking[s] = <<>> /\ conf[s].plan
    /\ Begin(s, [conf[s] EXCEPT !.plan = FALSE], ExitPermissionPlanMode(perm[s]))
    /\ UNCHANGED <<files, asking, saved, ran, given, alone>>

(* SESSION_SPAWN of a client: no history, no rules.                         *)
SpawnForClient(s, child) ==
    /\ s \in Live /\ child \in Fresh
    /\ Begin(child, [live |-> TRUE, plan |-> FALSE, behaviour |-> "interactive", dir |-> DaemonDir, born |-> "harness", parent |-> s],
             NewContext(DaemonDir, FALSE, "interactive", NoRules))
    /\ UNCHANGED <<files, asking, saved, ran, given, alone>>

(* SESSION_SCHEDULE: a fork of the session whose context is built again     *)
(* from the copied configuration, with no rules.                            *)
ScheduleAgent(s, child) ==
    /\ s \in Live /\ child \in Fresh
    /\ Begin(child, SpawnConf(s, "schedule", TRUE), NewContext(conf[s].dir, conf[s].plan, conf[s].behaviour, NoRules))
    /\ UNCHANGED <<files, asking, saved, ran, given, alone>>

(* A snapshot is taken whenever a checkpoint asks for one, also while the   *)
(* session waits for approval; nobody waits after a restart.                *)
Snapshot(s) ==
    /\ s \in Live
    /\ saved' = [saved EXCEPT ![s] = <<[conf |-> conf[s], perm |-> perm[s]]>>]
    /\ UNCHANGED <<files, conf, perm, asking, ran, given, alone>>

Restored(s) == saved[s][1].perm
Restart ==
    /\ conf' = [s \in Sessions |-> IF saved[s] = <<>> THEN NoConf ELSE saved[s][1].conf]
    /\ perm' = [s \in Sessions |-> IF saved[s] = <<>> THEN NoContext ELSE Restored(s)]
    /\ asking' = [s \in Sessions |-> <<>>]
    /\ given' = [s \in Sessions |-> IF saved[s] = <<>> THEN NoContext ELSE given[s]]
    /\ alone' = {s \in alone : saved[s] # <<>>}
    /\ ran' = NothingRan
    /\ UNCHANGED <<files, saved>>

PermissionsNext ==
    \/ \E s \in Sessions, dir \in Dirs, plan \in BOOLEAN, behaviour \in Behaviours : CreateSession(s, dir, plan, behaviour)
    \/ \E s \in Sessions, call \in Calls : ExecuteToolCall(s, call)
    \/ \E s \in Sessions : Approve(s) \/ DenyOrCancel(s) \/ ExitPlanMode(s) \/ Snapshot(s)
    \/ \E s, child \in Sessions : SpawnForClient(s, child) \/ ScheduleAgent(s, child)
    \/ Restart

PermissionsSpec == PermissionsInit /\ [][PermissionsNext]_permissionVars

----------------------------------------------------------------------------
(* No call of a headless session, or of what its tools spawned, ever waits  *)
(* for an answer (PermissionPromptBehavior through SpawnSession, snapshots  *)
(* and outcome_for).                                                        *)
HeadlessNeverWaits == \A s \in alone : asking[s] = <<>>

(* What is executed on a file lies inside the session's workspace, whatever *)
(* rule or approval let it through (authorize_path comes before the rules). *)
FilesStayInside ==
    \A i \in 1..Len(ran) :
        LET r == ran[i]
        IN r.call.tool \in FileTools /\ conf[r.by].live
             => Under(perm[r.by].root, Normalize(RequestedPath(conf[r.by].dir, r.call.arg)))

(* What the rules of a parent deny, of a tool or of the file that the       *)
(* child's own call comes to, is not executed by a child that a tool of the *)
(* parent spawned, nor by that child restored, asked or not (ToolContext,   *)
(* PermissionContext in spawn_session_from_tool).                           *)
DenialsAreInherited ==
    \A i \in 1..Len(ran) :
        LET r == ran[i]
        IN conf[r.by].live /\ conf[r.by].born = "tool"
             => RuleDecision(given[r.by].rules, BuildPermissionRequest(r.by, r.call)) # "deny"

(* The flag that prompts and listings go by and the mode that decides agree *)
(* in every session that a client created, also after a restart             *)
(* (exit_plan_mode, PermissionContext::new, from_persisted).                *)
PlanFlagAgrees ==
    \A s \in Live : conf[s].born = "client" => (conf[s].plan <=> perm[s].mode = "plan")

(* What the rules, the boundary of files, the mode and the behaviour of a   *)
(* session promise together, whatever way it came about.                    *)
RulesAreKept == HeadlessNeverWaits /\ FilesStayInside /\ DenialsAreInherited /\ PlanFlagAgrees

(* A child spawned with inherit_filesystem, which is the default, reaches   *)
(* the files of its parent that it names by their full path.                *)
Reaches(s, path) ==
    LET arg == [absolute |-> TRUE, path |-> path]
    IN ResolvePath(conf[s].dir, arg) # <<>> /\ Authorized(perm[s], path)

SharesParentsFiles ==
    \A s \in Live : conf[s].born = "tool" /\ conf[s].parent \in Live =>
        \A dir \in Dirs : Reaches(conf[s].parent, dir \o <<"f">>) => Reaches(s, dir \o <<"f">>)

(* What the rules of a session deny is denied to every child of it, also to *)
(* one a client or a schedule made.                                         *)
EveryChildInheritsDenials ==
    \A i \in 1..Len(ran) :
        LET r == ran[i]
            parent == conf[r.by].parent
        IN conf[r.by].live /\ parent \in Live
             => RuleDecision(perm[parent].rules, BuildPermissionRequest(r.by, r.call)) # "deny"

(* A scheduled run never waits for somebody to approve a call.              *)
ScheduledRunsFailSafely == \A s \in Live : conf[s].born = "schedule" => asking[s] = <<>>
=============================================================================
