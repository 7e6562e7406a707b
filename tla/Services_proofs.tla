--------------------------- MODULE Services_proofs ---------------------------
(* Proofs about what a session uses and who talks to it: permissions        *)
(* (Permissions), the chat prompt (ChatRepl), delegation (Subagents) and    *)
(* the Telegram bridge (TelegramBridge).                                    *)
EXTENDS Permissions, ChatRepl, Subagents, TelegramBridge, TLAPS

----------------------------------------------------------------------------
(* Permissions.                                                             *)

Asked == Behaviours \cup {"interactive"}
Directories == Dirs \cup {DaemonDir, <<>>}
LoadedRules == {NoRules} \cup {[user |-> f.user, workspace |-> f.workspace[dir]] : f \in RuleFiles, dir \in Dirs}
Conf == [live : BOOLEAN, plan : BOOLEAN, behaviour : Asked, dir : Directories,
         born : {"none", "client", "tool", "harness", "schedule"}, parent : Sessions \cup {NoSession}]
Context == [mode : {"plan", "default"}, rules : LoadedRules, root : Directories, behaviour : Asked]

PermTypeOK ==
    /\ files \in RuleFiles
    /\ conf \in [Sessions -> Conf] /\ perm \in [Sessions -> Context] /\ given \in [Sessions -> Context]
    /\ asking \in [Sessions -> {<<>>} \cup {<<call>> : call \in Calls}]
    /\ saved \in [Sessions -> {<<>>} \cup {<<kept>> : kept \in [conf : Conf, perm : Context]}]
    /\ ran \in {<<>>} \cup {<<r>> : r \in [by : Sessions, call : Calls, asked : BOOLEAN]}
    /\ alone \subseteq Sessions

(* A configuration and a context that belong together, in memory or kept by *)
(* a checkpoint.                                                            *)
Sound(s, config, context) ==
    /\ config.live
    /\ s \in alone => context.behaviour # "interactive"
    /\ config.born = "tool" => context.rules = given[s].rules
    /\ config.born = "client" => (config.plan <=> context.mode = "plan")

(* The boundary of files and the rules let the call through.                *)
Cleared(s, call) ==
    /\ call.tool \in FileTools => Under(perm[s].root, Normalize(RequestedPath(conf[s].dir, call.arg)))
    /\ RuleDecision(perm[s].rules, BuildPermissionRequest(s, call)) # "deny"

LiveAreSound == \A s \in Sessions : conf[s].live => Sound(s, conf[s], perm[s])
SavedAreSound == \A s \in Sessions : saved[s] # <<>> => Sound(s, saved[s][1].conf, saved[s][1].perm)
AloneAskNobody == \A s \in alone : conf[s].live /\ asking[s] = <<>>
AskedAreCleared == \A s \in Sessions : asking[s] # <<>> => conf[s].live /\ Cleared(s, asking[s][1])
RanWasCleared == \A i \in 1..Len(ran) : conf[ran[i].by].live /\ Cleared(ran[i].by, ran[i].call)

RuleInv == PermTypeOK /\ LiveAreSound /\ SavedAreSound /\ AloneAskNobody /\ AskedAreCleared /\ RanWasCleared

\* A new context is one (PermissionContext::new).
LEMMA NewContextType ==
    ASSUME NEW dir \in Directories, NEW plan \in BOOLEAN, NEW behaviour \in Asked, NEW rules \in LoadedRules
    PROVE  /\ NewContext(dir, plan, behaviour, rules) \in Context
           /\ NewContext(dir, plan, behaviour, rules).rules = rules
           /\ NewContext(dir, plan, behaviour, rules).behaviour = behaviour
           /\ NewContext(dir, plan, behaviour, rules).root = dir
           /\ NewContext(dir, plan, behaviour, rules).mode = "plan" <=> plan
<1>1. CASE plan
  BY <1>1 DEF NewContext, Context
<1>2. CASE ~plan
  BY <1>2 DEF NewContext, Context
<1> QED
  BY <1>1, <1>2

\* A daemon starts without a session.
LEMMA RulesInit == ASSUME PermissionsInit PROVE RuleInv
<1>1. NoConf \in Conf /\ ~NoConf.live
  <2>1. <<>> \in Directories
    BY DEF Directories
  <2> QED
    BY <2>1 DEF NoConf, Conf, Asked
<1>2. NoContext \in Context
  <2>1. <<>> \in Directories /\ "interactive" \in Asked /\ NoRules \in LoadedRules
    BY DEF Directories, Asked, LoadedRules
  <2> QED
    BY <2>1, NewContextType DEF NoContext
<1>3. PermTypeOK
  BY <1>1, <1>2 DEF PermissionsInit, PermTypeOK, NothingRan
<1> QED
  BY <1>1, <1>3 DEF PermissionsInit, RuleInv, LiveAreSound, SavedAreSound, AloneAskNobody, AskedAreCleared, RanWasCleared, NothingRan

\* What was let through by evaluate_permission was so by the boundary and the rules.
LEMMA AllowedIsCleared ==
    ASSUME NEW s \in Sessions, NEW call, Decision(perm[s], BuildPermissionRequest(s, call)) # "deny"
    PROVE  Cleared(s, call)
<1> DEFINE request == BuildPermissionRequest(s, call)
<1>1. ~ (request.refused \/ (request.path # <<>> /\ ~Authorized(perm[s], request.path[1])))
  BY DEF Decision
<1>2. RuleDecision(perm[s].rules, request) # "deny"
  <2> HIDE DEF request
  <2>1. Decision(perm[s], request) # "deny"
    BY DEF request
  <2> QED
    BY <1>1, <2>1 DEF Decision
<1>3. call.tool \in FileTools => request.path = <<RequestedPath(conf[s].dir, call.arg)>>
  BY DEF BuildPermissionRequest
<1>4. ASSUME call.tool \in FileTools
      PROVE  Under(perm[s].root, Normalize(RequestedPath(conf[s].dir, call.arg)))
  <2>1. request.path # <<>> /\ request.path[1] = RequestedPath(conf[s].dir, call.arg)
    BY <1>3, <1>4
  <2>2. Authorized(perm[s], RequestedPath(conf[s].dir, call.arg))
    BY <1>1, <2>1
  <2> QED
    BY <2>2 DEF Authorized
<1> QED
  BY <1>2, <1>4 DEF Cleared

Known(s) == conf[s].live \/ saved[s] # <<>>

(* A session that is there keeps its files, its rules and who answers it.   *)
LivesOn ==
    /\ \A s \in Sessions : conf[s].live =>
         /\ conf'[s].live /\ conf'[s].dir = conf[s].dir
         /\ perm'[s].root = perm[s].root /\ perm'[s].rules = perm[s].rules
    /\ \A s \in Sessions : Known(s) => given'[s] = given[s] /\ (s \in alone' <=> s \in alone)

\* A call that was let through would be so again.
LEMMA ClearedStays ==
    ASSUME NEW s \in Sessions, NEW call, LivesOn, conf[s].live, Cleared(s, call)
    PROVE  Cleared(s, call)'
<1>1. perm'[s].root = perm[s].root /\ perm'[s].rules = perm[s].rules /\ conf'[s].dir = conf[s].dir
  BY DEF LivesOn
<1>2. BuildPermissionRequest(s, call)' = BuildPermissionRequest(s, call)
  BY <1>1 DEF BuildPermissionRequest
<1> QED
  BY <1>1, <1>2 DEF Cleared

\* What every step but a snapshot and a restart keeps.
LEMMA RulesStay ==
    ASSUME RuleInv, PermTypeOK', LivesOn, saved' = saved, LiveAreSound', AloneAskNobody',
           \A s \in Sessions : \/ asking'[s] \in {asking[s], <<>>}
                               \/ conf[s].live /\ Cleared(s, asking'[s][1]),
           \/ ran' = ran
           \/ \A i \in 1..Len(ran') : ran'[i].by \in Sessions /\ conf[ran'[i].by].live /\ Cleared(ran'[i].by, ran'[i].call)
    PROVE  RuleInv'
<1>1. SavedAreSound'
  <2> SUFFICES ASSUME NEW s \in Sessions, saved[s] # <<>> PROVE Sound(s, saved[s][1].conf, saved[s][1].perm)'
    BY DEF SavedAreSound
  <2>1. Sound(s, saved[s][1].conf, saved[s][1].perm) /\ given'[s] = given[s] /\ (s \in alone' <=> s \in alone)
    BY DEF RuleInv, SavedAreSound, LivesOn, Known
  <2> QED
    BY <2>1 DEF Sound
<1>2. AskedAreCleared'
  <2> SUFFICES ASSUME NEW s \in Sessions, asking'[s] # <<>> PROVE conf'[s].live /\ Cleared(s, asking[s][1])'
    BY DEF AskedAreCleared
  <2>1. conf[s].live /\ Cleared(s, asking'[s][1])
    BY DEF RuleInv, AskedAreCleared
  <2>2. conf'[s].live
    BY <2>1 DEF LivesOn
  <2>3. PICK call : call = asking'[s][1]
    OBVIOUS
  <2>4. Cleared(s, call)'
    BY <2>1, <2>3, ClearedStays
  <2> QED
    BY <2>2, <2>3, <2>4 DEF Cleared, BuildPermissionRequest
<1>3. RanWasCleared'
  <2> SUFFICES ASSUME NEW i \in 1..Len(ran') PROVE conf'[ran'[i].by].live /\ Cleared(ran[i].by, ran[i].call)'
    BY DEF RanWasCleared
  <2>1. PICK s \in Sessions : s = ran'[i].by
    BY DEF PermTypeOK
  <2>2. PICK call : call = ran'[i].call
    OBVIOUS
  <2>3. conf[s].live /\ Cleared(s, call)
    BY <2>1, <2>2 DEF RuleInv, RanWasCleared
  <2>4. conf'[s].live /\ Cleared(s, call)'
    BY <2>3, ClearedStays DEF LivesOn
  <2> QED
    BY <2>1, <2>2, <2>4 DEF Cleared, BuildPermissionRequest
<1> QED
  BY <1>1, <1>2, <1>3 DEF RuleInv

\* A session that begins disturbs no other, and is what it should be if its context is.
LEMMA SessionBegins ==
    ASSUME RuleInv, NEW child \in Fresh, NEW config \in Conf, NEW context \in Context, Begin(child, config, context),
           given' = given \/ given' = [given EXCEPT ![child] = context],
           alone' = alone \/ alone' = alone \cup {child},
           \A s \in Sessions : asking'[s] \in {asking[s], <<>>},
           config.live,
           child \in alone' => context.behaviour # "interactive",
           config.born = "tool" => given' = [given EXCEPT ![child] = context],
           config.born = "client" => (config.plan <=> context.mode = "plan")
    PROVE  /\ LivesOn /\ LiveAreSound' /\ AloneAskNobody'
           /\ conf' \in [Sessions -> Conf] /\ perm' \in [Sessions -> Context] /\ given' \in [Sessions -> Context]
           /\ alone' \subseteq Sessions
<1>1. child \in Sessions /\ ~conf[child].live /\ ~Known(child) /\ child \notin alone /\ asking[child] = <<>>
  BY DEF Fresh, Known, RuleInv, AloneAskNobody, AskedAreCleared
<1>2. conf \in [Sessions -> Conf] /\ perm \in [Sessions -> Context] /\ given \in [Sessions -> Context] /\ alone \subseteq Sessions
  BY DEF RuleInv, PermTypeOK
<1>3. /\ conf' \in [Sessions -> Conf] /\ perm' \in [Sessions -> Context] /\ given' \in [Sessions -> Context]
      /\ alone' \subseteq Sessions
  BY <1>1, <1>2 DEF Begin
<1>4. conf'[child] = config /\ perm'[child] = context /\ (config.born = "tool" => given'[child] = context)
  BY <1>1, <1>2 DEF Begin
<1>5. \A s \in Sessions \ {child} : conf'[s] = conf[s] /\ perm'[s] = perm[s] /\ given'[s] = given[s] /\ (s \in alone' <=> s \in alone)
  BY <1>1, <1>2 DEF Begin
<1>6. LivesOn
  BY <1>1, <1>5 DEF LivesOn
<1>7. LiveAreSound'
  <2>1. Sound(child, conf[child], perm[child])'
    BY <1>4 DEF Sound
  <2>2. ASSUME NEW s \in Sessions \ {child}, conf'[s].live PROVE Sound(s, conf[s], perm[s])'
    BY <1>5, <2>2 DEF RuleInv, LiveAreSound, Sound
  <2> QED
    BY <2>1, <2>2 DEF LiveAreSound, Sound
<1>8. AloneAskNobody'
  BY <1>1, <1>2, <1>4, <1>5 DEF RuleInv, AloneAskNobody
<1> QED
  BY <1>3, <1>6, <1>7, <1>8

\* The configuration that a fork or a spawned session gets (engine.rs spawn_child_session).
LEMMA SpawnConfType ==
    ASSUME PermTypeOK, NEW s \in Sessions, conf[s].live, NEW born \in {"tool", "schedule"}, NEW history \in BOOLEAN
    PROVE  /\ SpawnConf(s, born, history) \in Conf
           /\ SpawnConf(s, born, history).live /\ SpawnConf(s, born, history).born = born
<1>1. PICK c \in Conf : c = conf[s]
  BY DEF PermTypeOK
<1>2. perm[s].behaviour \in Asked /\ DaemonDir \in Directories
  BY DEF PermTypeOK, Context, Directories
<1>3. CASE history
  <2>1. SpawnConf(s, born, history) = [c EXCEPT !.born = born, !.parent = s]
    BY <1>1, <1>3 DEF SpawnConf
  <2>2. [c EXCEPT !.born = born, !.parent = s] \in Conf
    BY DEF Conf
  <2>3. [c EXCEPT !.born = born, !.parent = s].live = c.live /\ [c EXCEPT !.born = born, !.parent = s].born = born
    BY DEF Conf
  <2> QED
    BY <1>1, <2>1, <2>2, <2>3
<1>4. CASE ~history
  <2>1. SpawnConf(s, born, history) =
          [live |-> TRUE, plan |-> FALSE, behaviour |-> perm[s].behaviour, dir |-> DaemonDir, born |-> born, parent |-> s]
    BY <1>4 DEF SpawnConf
  <2>2. PICK b \in Asked : b = perm[s].behaviour
    BY <1>2
  <2>3. [live |-> TRUE, plan |-> FALSE, behaviour |-> b, dir |-> DaemonDir, born |-> born, parent |-> s] \in Conf
    BY <1>2 DEF Conf
  <2> QED
    BY <2>1, <2>2, <2>3
<1> QED
  BY <1>3, <1>4

\* A call that runs, with or without having been asked about (execute_tool_call).
LEMMA RulesRun ==
    ASSUME RuleInv, NEW s \in Sessions, NEW call \in Calls, NEW asked \in BOOLEAN, conf[s].live, Cleared(s, call),
           Execute(s, call, asked), UNCHANGED <<files, saved>>,
           asking' \in [Sessions -> {<<>>} \cup {<<c>> : c \in Calls}],
           \A t \in Sessions : asking'[t] \in {asking[t], <<>>}
    PROVE  RuleInv'
<1>1. PermTypeOK
  BY DEF RuleInv
<1>2. ran' = <<[by |-> s, call |-> call, asked |-> asked]>>
  BY DEF Execute
<1>3. /\ LivesOn /\ LiveAreSound' /\ AloneAskNobody'
      /\ conf' \in [Sessions -> Conf] /\ perm' \in [Sessions -> Context] /\ given' \in [Sessions -> Context]
      /\ alone' \subseteq Sessions
  <2>1. CASE \E child \in Fresh : SpawnSession(s, child, call.arg = "with history")
    <3>1. PICK child \in Fresh : SpawnSession(s, child, call.arg = "with history")
      BY <2>1
    <3>2. PICK config : config = SpawnConf(s, "tool", call.arg = "with history")
      OBVIOUS
    <3>3. config \in Conf /\ config.live /\ config.born = "tool"
      BY <1>1, <3>2, SpawnConfType
    <3>4. perm[s] \in Context
      BY <1>1 DEF PermTypeOK
    <3>5. /\ Begin(child, config, perm[s]) /\ given' = [given EXCEPT ![child] = perm[s]]
          /\ alone' = alone \/ alone' = alone \cup {child}
          /\ s \notin alone => alone' = alone
      BY <3>1, <3>2 DEF SpawnSession, ChildContext
    <3>6. s \in alone => perm[s].behaviour # "interactive"
      BY DEF RuleInv, LiveAreSound, Sound
    <3>7. child \notin alone
      BY DEF Fresh, RuleInv, AloneAskNobody
    <3> QED
      BY <3>3, <3>4, <3>5, <3>6, <3>7, SessionBegins
  <2>2. CASE UNCHANGED <<conf, perm, given, alone>>
    BY <1>1, <2>2 DEF PermTypeOK, LivesOn, RuleInv, LiveAreSound, AloneAskNobody, Sound
  <2> QED
    BY <2>1, <2>2 DEF Execute
<1>4. PermTypeOK'
  BY <1>1, <1>2, <1>3 DEF PermTypeOK
<1>5. \A i \in 1..Len(ran') : ran'[i].by \in Sessions /\ conf[ran'[i].by].live /\ Cleared(ran'[i].by, ran'[i].call)
  <2>1. PICK r \in [by : Sessions, call : Calls, asked : BOOLEAN] : r = [by |-> s, call |-> call, asked |-> asked]
    OBVIOUS
  <2>2. ran' = <<r>> /\ r.by = s /\ r.call = call
    BY <1>2, <2>1
  <2>3. \A i \in 1..Len(ran') : ran'[i] = r
    BY <2>2
  <2> QED
    BY <2>2, <2>3
<1> QED
  BY <1>3, <1>4, <1>5, RulesStay

\* A call is decided; it runs, is asked about or does nothing.
LEMMA RulesDecide ==
    ASSUME RuleInv, NEW s \in Sessions, NEW call \in Calls, ExecuteToolCall(s, call)
    PROVE  RuleInv'
<1> DEFINE request == BuildPermissionRequest(s, call)
<1>1. conf[s].live /\ asking[s] = <<>> /\ UNCHANGED <<files, saved>> /\ PermTypeOK
  BY DEF ExecuteToolCall, Live, RuleInv
<1>2. ASSUME EvaluatePermission(perm[s], request) \in {"allow", "ask"} PROVE Cleared(s, call)
  <2>1. Decision(perm[s], request) # "deny"
    BY <1>2 DEF EvaluatePermission
  <2> QED
    BY <2>1, AllowedIsCleared
<1>3. CASE EvaluatePermission(perm[s], request) = "allow" /\ Execute(s, call, FALSE) /\ UNCHANGED asking
  BY <1>1, <1>2, <1>3, RulesRun DEF PermTypeOK
<1>4. CASE /\ EvaluatePermission(perm[s], request) = "ask" /\ asking' = [asking EXCEPT ![s] = <<call>>]
           /\ UNCHANGED <<conf, perm, ran, given, alone>>
  <2>1. perm[s].behaviour = "interactive"
    <3> HIDE DEF request
    <3> QED
      BY <1>4 DEF EvaluatePermission
  <2>2. s \notin alone
    BY <1>1, <2>1 DEF RuleInv, LiveAreSound, Sound
  <2>3. asking \in [Sessions -> {<<>>} \cup {<<c>> : c \in Calls}]
    BY <1>1 DEF PermTypeOK
  <2>4. asking' \in [Sessions -> {<<>>} \cup {<<c>> : c \in Calls}] /\ asking'[s] = <<call>>
        /\ \A t \in Sessions \ {s} : asking'[t] = asking[t]
    BY <1>4, <2>3
  <2>5. PermTypeOK'
    BY <1>1, <1>4, <2>4 DEF PermTypeOK
  <2>6. LivesOn /\ LiveAreSound'
    BY <1>4 DEF LivesOn, RuleInv, LiveAreSound, Sound
  <2>7. AloneAskNobody'
    BY <1>1, <1>4, <2>2, <2>4 DEF AloneAskNobody, RuleInv, PermTypeOK
  <2>8. Cleared(s, call) /\ asking'[s][1] = call
    BY <1>2, <1>4, <2>4
  <2> QED
    BY <1>1, <1>4, <2>4, <2>5, <2>6, <2>7, <2>8, RulesStay
<1> QED
  BY <1>3, <1>4 DEF ExecuteToolCall

\* A client creates a session (create_session_with_options).
LEMMA RulesCreate ==
    ASSUME RuleInv, NEW s \in Sessions, NEW dir \in Dirs, NEW plan \in BOOLEAN, NEW behaviour \in Behaviours,
           CreateSession(s, dir, plan, behaviour)
    PROVE  RuleInv'
<1> DEFINE config == [live |-> TRUE, plan |-> plan, behaviour |-> behaviour, dir |-> dir, born |-> "client", parent |-> NoSession]
           context == NewContext(dir, plan, behaviour, LoadRules(dir))
<1>1. PermTypeOK /\ s \in Fresh /\ dir \in Directories /\ behaviour \in Asked
  BY DEF RuleInv, CreateSession, Directories, Asked
<1>2. LoadRules(dir) \in LoadedRules
  BY <1>1 DEF LoadRules, LoadedRules, PermTypeOK
<1>3. context \in Context /\ context.behaviour = behaviour /\ (context.mode = "plan" <=> plan)
  BY <1>1, <1>2, NewContextType
<1>4. config \in Conf /\ config.live /\ config.born = "client" /\ (config.plan <=> plan)
  BY <1>1 DEF Conf
<1>5. Begin(s, config, context) /\ UNCHANGED <<files, asking, saved, ran, given>>
      /\ alone' = IF behaviour = "interactive" THEN alone ELSE alone \cup {s}
  BY DEF CreateSession
<1>6. s \notin alone
  BY <1>1 DEF Fresh, RuleInv, AloneAskNobody
<1> HIDE DEF config, context
<1>7. alone' \in {alone, alone \cup {s}} /\ (s \in alone' => context.behaviour # "interactive")
  BY <1>3, <1>5, <1>6
<1>8. /\ LivesOn /\ LiveAreSound' /\ AloneAskNobody'
      /\ conf' \in [Sessions -> Conf] /\ perm' \in [Sessions -> Context] /\ given' \in [Sessions -> Context]
      /\ alone' \subseteq Sessions
  BY <1>1, <1>3, <1>4, <1>5, <1>7, SessionBegins
<1>9. PermTypeOK'
  BY <1>1, <1>5, <1>8 DEF PermTypeOK
<1> QED
  BY <1>5, <1>8, <1>9, RulesStay

\* A session that has neither its parent's rules nor a parent's denials to keep.
LEMMA RulesBegin ==
    ASSUME RuleInv, NEW child \in Fresh, NEW config \in Conf, NEW dir \in Directories, NEW plan \in BOOLEAN,
           NEW behaviour \in Asked, config.live, config.born \notin {"tool", "client"},
           Begin(child, config, NewContext(dir, plan, behaviour, NoRules)),
           UNCHANGED <<files, asking, saved, ran, given, alone>>
    PROVE  RuleInv'
<1>1. PermTypeOK /\ NoRules \in LoadedRules
  BY DEF RuleInv, LoadedRules
<1>2. PICK context \in Context : context = NewContext(dir, plan, behaviour, NoRules)
  BY <1>1, NewContextType
<1>3. child \notin alone
  BY DEF Fresh, RuleInv, AloneAskNobody
<1>4. /\ LivesOn /\ LiveAreSound' /\ AloneAskNobody'
      /\ conf' \in [Sessions -> Conf] /\ perm' \in [Sessions -> Context] /\ given' \in [Sessions -> Context]
      /\ alone' \subseteq Sessions
  BY <1>2, <1>3, SessionBegins
<1>5. PermTypeOK'
  BY <1>1, <1>4 DEF PermTypeOK
<1> QED
  BY <1>4, <1>5, RulesStay

\* An answer, a way out of plan mode, a checkpoint.
LEMMA RulesAnswer == ASSUME RuleInv, NEW s \in Sessions, Approve(s) \/ DenyOrCancel(s) PROVE RuleInv'
<1>1. PermTypeOK /\ asking[s] # <<>> /\ asking' = [asking EXCEPT ![s] = <<>>]
  BY DEF RuleInv, Approve, DenyOrCancel
<1>2. asking' \in [Sessions -> {<<>>} \cup {<<c>> : c \in Calls}] /\ \A t \in Sessions : asking'[t] \in {asking[t], <<>>}
  BY <1>1 DEF PermTypeOK
<1>3. conf[s].live /\ Cleared(s, asking[s][1]) /\ asking[s][1] \in Calls
  BY <1>1 DEF RuleInv, AskedAreCleared, PermTypeOK
<1>4. CASE Approve(s)
  BY <1>2, <1>3, <1>4, RulesRun DEF Approve
<1>5. CASE DenyOrCancel(s)
  <2>1. PermTypeOK'
    BY <1>1, <1>2, <1>5 DEF DenyOrCancel, PermTypeOK
  <2>2. LivesOn /\ LiveAreSound'
    BY <1>5 DEF DenyOrCancel, LivesOn, RuleInv, LiveAreSound, Sound
  <2>3. AloneAskNobody'
    BY <1>1, <1>2, <1>5 DEF DenyOrCancel, AloneAskNobody, RuleInv, PermTypeOK
  <2> QED
    BY <1>2, <1>5, <2>1, <2>2, <2>3, RulesStay DEF DenyOrCancel
<1> QED
  BY <1>4, <1>5

\* ExitPlanMode changes the mode and the plan flag, never the rules or the root.
LEMMA RulesLeavePlan == ASSUME RuleInv, NEW s \in Sessions, ExitPlanMode(s) PROVE RuleInv'
<1>1. PICK c \in Conf : c = conf[s]
  BY DEF RuleInv, PermTypeOK
<1>2. PICK p \in Context : p = perm[s]
  BY DEF RuleInv, PermTypeOK
<1>3. PICK after \in Conf : after = [c EXCEPT !.plan = FALSE]
  BY DEF Conf
<1>4. after.live = c.live /\ after.dir = c.dir /\ after.born = c.born /\ ~after.plan
  BY <1>3 DEF Conf
<1>5. PICK left \in Context : left = ExitPermissionPlanMode(p)
  BY DEF Context, ExitPermissionPlanMode
<1>6. left.root = p.root /\ left.rules = p.rules /\ left.behaviour = p.behaviour /\ left.mode # "plan"
  BY <1>5 DEF Context, ExitPermissionPlanMode
<1>7. PermTypeOK /\ conf[s].live
  BY DEF RuleInv, ExitPlanMode, Live
<1>8. /\ conf' = [conf EXCEPT ![s] = after] /\ perm' = [perm EXCEPT ![s] = left]
      /\ UNCHANGED <<files, asking, saved, ran, given, alone>>
  BY <1>1, <1>2, <1>3, <1>5 DEF ExitPlanMode, Begin
<1>9. PermTypeOK'
  BY <1>7, <1>8 DEF PermTypeOK
<1>10. conf'[s] = after /\ perm'[s] = left /\ \A t \in Sessions \ {s} : conf'[t] = conf[t] /\ perm'[t] = perm[t]
  BY <1>7, <1>8 DEF PermTypeOK
<1>11. LivesOn
  BY <1>1, <1>2, <1>4, <1>6, <1>8, <1>10 DEF LivesOn
<1>12. LiveAreSound'
  <2>1. Sound(s, c, p)
    BY <1>1, <1>2, <1>7 DEF RuleInv, LiveAreSound
  <2>2. Sound(s, conf[s], perm[s])'
    BY <1>4, <1>6, <1>7, <1>8, <1>10, <2>1, Zenon DEF Sound
  <2>3. ASSUME NEW t \in Sessions \ {s}, conf'[t].live PROVE Sound(t, conf[t], perm[t])'
    BY <1>8, <1>10, <2>3 DEF RuleInv, LiveAreSound, Sound
  <2> QED
    BY <2>2, <2>3 DEF LiveAreSound
<1>13. AloneAskNobody'
  BY <1>8, <1>11 DEF AloneAskNobody, RuleInv, LivesOn, PermTypeOK
<1> QED
  BY <1>8, <1>9, <1>11, <1>12, <1>13, RulesStay

\* A snapshot keeps a configuration and its context together.
LEMMA RulesSaved == ASSUME RuleInv, NEW s \in Sessions, Snapshot(s) PROVE RuleInv'
<1>1. PermTypeOK /\ conf[s].live /\ UNCHANGED <<files, conf, perm, asking, ran, given, alone>>
  BY DEF RuleInv, Snapshot, Live
<1>2. PICK kept \in [conf : Conf, perm : Context] : kept = [conf |-> conf[s], perm |-> perm[s]]
  BY <1>1 DEF PermTypeOK
<1>3. kept.conf = conf[s] /\ kept.perm = perm[s] /\ saved' = [saved EXCEPT ![s] = <<kept>>]
  BY <1>2 DEF Snapshot
<1>4. saved' \in [Sessions -> {<<>>} \cup {<<k>> : k \in [conf : Conf, perm : Context]}]
      /\ saved'[s] = <<kept>> /\ \A t \in Sessions \ {s} : saved'[t] = saved[t]
  BY <1>1, <1>3 DEF PermTypeOK
<1>5. SavedAreSound'
  <2>1. Sound(s, saved[s][1].conf, saved[s][1].perm)'
    BY <1>1, <1>3, <1>4 DEF RuleInv, LiveAreSound, Sound
  <2>2. ASSUME NEW t \in Sessions \ {s}, saved'[t] # <<>> PROVE Sound(t, saved[t][1].conf, saved[t][1].perm)'
    BY <1>1, <1>4, <2>2 DEF RuleInv, SavedAreSound, Sound
  <2> QED
    BY <2>1, <2>2 DEF SavedAreSound
<1>6. PermTypeOK'
  BY <1>1, <1>4 DEF PermTypeOK
<1>7. LiveAreSound' /\ AloneAskNobody'
  BY <1>1 DEF RuleInv, LiveAreSound, Sound, AloneAskNobody
<1>8. AskedAreCleared' /\ RanWasCleared'
  BY <1>1 DEF RuleInv, AskedAreCleared, RanWasCleared, Cleared, BuildPermissionRequest
<1> QED
  BY <1>5, <1>6, <1>7, <1>8 DEF RuleInv

\* A restart puts what was saved in place of everything else.
LEMMA RulesRestart == ASSUME RuleInv, Restart PROVE RuleInv'
<1>1. PermTypeOK /\ UNCHANGED <<files, saved>> /\ ran' = <<>>
  BY DEF RuleInv, Restart, NothingRan
<1>2. NoConf \in Conf /\ ~NoConf.live /\ NoContext \in Context
  <2>1. <<>> \in Directories /\ "interactive" \in Asked /\ NoRules \in LoadedRules
    BY DEF Directories, Asked, LoadedRules
  <2> QED
    BY <2>1, NewContextType DEF NoContext, NoConf, Conf
<1>3. \A s \in Sessions : saved[s] # <<>> => saved[s][1].conf \in Conf /\ saved[s][1].perm \in Context
  BY <1>1 DEF PermTypeOK
<1>4. /\ conf' \in [Sessions -> Conf] /\ perm' \in [Sessions -> Context] /\ given' \in [Sessions -> Context]
      /\ asking' = [s \in Sessions |-> <<>>] /\ alone' \subseteq Sessions
  BY <1>1, <1>2, <1>3 DEF Restart, Restored, PermTypeOK
<1>5. PermTypeOK'
  BY <1>1, <1>4 DEF PermTypeOK
<1>6. \A s \in Sessions : saved[s] = <<>> => ~conf'[s].live /\ s \notin alone'
  BY <1>2 DEF Restart
<1>7. ASSUME NEW s \in Sessions, saved[s] # <<>>
      PROVE  /\ conf'[s] = saved[s][1].conf /\ perm'[s] = saved[s][1].perm /\ given'[s] = given[s]
             /\ s \in alone' <=> s \in alone
  BY <1>7 DEF Restart, Restored
<1>8. \A s \in Sessions : saved[s] # <<>> => Sound(s, saved[s][1].conf, saved[s][1].perm)'
  BY <1>1, <1>7 DEF RuleInv, SavedAreSound, Sound
<1>9. SavedAreSound'
  BY <1>1, <1>8 DEF SavedAreSound
<1>10. LiveAreSound'
  <2> SUFFICES ASSUME NEW s \in Sessions, conf'[s].live PROVE Sound(s, conf[s], perm[s])'
    BY DEF LiveAreSound
  <2>1. saved[s] # <<>>
    BY <1>6
  <2> QED
    BY <1>1, <1>7, <1>8, <2>1 DEF Sound
<1>11. AloneAskNobody'
  <2>1. \A s \in Sessions : s \in alone' => saved[s] # <<>>
    BY <1>6
  <2>2. \A s \in Sessions : saved[s] # <<>> => conf'[s].live
    BY <1>7 DEF RuleInv, SavedAreSound, Sound
  <2> QED
    BY <1>4, <2>1, <2>2 DEF AloneAskNobody
<1>12. AskedAreCleared' /\ RanWasCleared'
  BY <1>1, <1>4 DEF AskedAreCleared, RanWasCleared
<1> QED
  BY <1>5, <1>9, <1>10, <1>11, <1>12 DEF RuleInv

(* The rules hold for every call that runs: a call waits for an approval    *)
(* only in a session that has somebody to ask, a file tool stays inside the *)
(* root of its session, what the rules of the parent deny, of a tool or of  *)
(* a file, is denied to the children its tool spawns, and the plan flag of  *)
(* a client's session says what its context does, across snapshots and      *)
(* restarts.                                                                *)
THEOREM RulesAreKeptCorrect == PermissionsSpec => []RulesAreKept
<1>1. RuleInv /\ [PermissionsNext]_permissionVars => RuleInv'
  <2> SUFFICES ASSUME RuleInv, [PermissionsNext]_permissionVars PROVE RuleInv'
    OBVIOUS
  <2>1. ASSUME NEW s \in Sessions, NEW child \in Sessions, SpawnForClient(s, child) PROVE RuleInv'
    <3>1. child \in Fresh /\ s \in Sessions /\ DaemonDir \in Directories /\ "interactive" \in Asked
      BY <2>1 DEF SpawnForClient, Directories, Asked
    <3>2. PICK config : config = [live |-> TRUE, plan |-> FALSE, behaviour |-> "interactive", dir |-> DaemonDir,
                                  born |-> "harness", parent |-> s]
      OBVIOUS
    <3>3. config \in Conf /\ config.live /\ config.born = "harness"
      BY <3>1, <3>2 DEF Conf
    <3> QED
      BY <2>1, <3>1, <3>2, <3>3, RulesBegin DEF SpawnForClient
  <2>2. ASSUME NEW s \in Sessions, NEW child \in Sessions, ScheduleAgent(s, child) PROVE RuleInv'
    <3>1. child \in Fresh /\ PermTypeOK /\ conf[s].live
      BY <2>2 DEF ScheduleAgent, RuleInv, Live
    <3>2. PICK config : config = SpawnConf(s, "schedule", TRUE)
      OBVIOUS
    <3>3. config \in Conf /\ config.live /\ config.born = "schedule"
      BY <3>1, <3>2, SpawnConfType
    <3>4. conf[s].dir \in Directories /\ conf[s].plan \in BOOLEAN /\ conf[s].behaviour \in Asked
      BY <3>1 DEF PermTypeOK, Conf
    <3> QED
      BY <2>2, <3>1, <3>2, <3>3, <3>4, RulesBegin DEF ScheduleAgent
  <2>3. CASE UNCHANGED permissionVars
    BY <2>3 DEF permissionVars, RuleInv, PermTypeOK, LiveAreSound, SavedAreSound, AloneAskNobody, AskedAreCleared,
                RanWasCleared, Sound, Cleared, BuildPermissionRequest
  <2> QED
    BY <2>1, <2>2, <2>3, RulesCreate, RulesDecide, RulesAnswer, RulesLeavePlan, RulesSaved, RulesRestart DEF PermissionsNext
<1>2. RuleInv => RulesAreKept
  <2> SUFFICES ASSUME RuleInv PROVE RulesAreKept
    OBVIOUS
  <2>1. HeadlessNeverWaits
    BY DEF RuleInv, AloneAskNobody, HeadlessNeverWaits
  <2>2. FilesStayInside
    BY DEF RuleInv, RanWasCleared, Cleared, FilesStayInside
  <2>3. DenialsAreInherited
    <3> SUFFICES ASSUME NEW i \in 1..Len(ran), conf[ran[i].by].live, conf[ran[i].by].born = "tool"
                 PROVE  RuleDecision(given[ran[i].by].rules, BuildPermissionRequest(ran[i].by, ran[i].call)) # "deny"
      BY DEF DenialsAreInherited
    <3>1. ran[i].by \in Sessions
      BY DEF RuleInv, PermTypeOK
    <3>2. perm[ran[i].by].rules = given[ran[i].by].rules
      BY <3>1 DEF RuleInv, LiveAreSound, Sound
    <3> QED
      BY <3>2 DEF RuleInv, RanWasCleared, Cleared
  <2>4. PlanFlagAgrees
    BY DEF RuleInv, LiveAreSound, Sound, PlanFlagAgrees, Live
  <2> QED
    BY <2>1, <2>2, <2>3, <2>4 DEF RulesAreKept
<1> QED
  BY <1>1, <1>2, RulesInit, PTL DEF PermissionsSpec

----------------------------------------------------------------------------
(* The chat prompt.                                                         *)

ChatRecord == [at : {"prompt", "leaveForSkill", "leavePlan", "turn", "answer", "gone"}, session : ChatSessions,
               plan : BOOLEAN, waits : Nat, text : Nat]
SessionRecord == [made : BOOLEAN, plan : BOOLEAN, inbox : Seq(Nat), turn : Nat, wrote : BOOLEAN, asks : BOOLEAN]
Notification == [session : ChatSessions, kind : {"text", "question", "permission", "error", "complete"}, turn : Nat]
Spending == [lines : Nat, questions : Nat, foreign : Nat, losses : Nat]

ChatTypeOK ==
    /\ chat \in ChatRecord /\ daemonSession \in [ChatSessions -> SessionRecord]
    /\ unread \in Seq(Notification) /\ used \in Spending

Rests(s) == daemonSession[s].inbox = <<>> /\ daemonSession[s].turn = NoTurn

(* Between two lines no turn is under way and nothing is left to read.      *)
PromptIsIdle ==
    chat.at \in {"prompt", "leaveForSkill", "leavePlan"} => unread = <<>> /\ \A s \in ChatSessions : Rests(s)

(* While a line is worked on there is its turn and no other, and the end of *)
(* the turn is the last that is told of it.                                 *)
OnlyTurn ==
    LET s == chat.session
        served == daemonSession[s]
    IN chat.at \in {"turn", "answer"} =>
        /\ \A t \in ChatSessions \ {s} : Rests(t)
        /\ chat.text \in {NoTurn, chat.waits}
        /\ served.inbox = <<>> \/ (served.inbox = <<chat.waits>> /\ served.turn = NoTurn /\ unread = <<>>)
        /\ served.turn \in {NoTurn, chat.waits}
        /\ \A i \in DOMAIN unread :
             /\ unread[i].session = s /\ unread[i].turn = chat.waits
             /\ unread[i].kind = "complete" => i = Len(unread) /\ Rests(s)

EndedWithTheirs == \A e \in ends : e.by = e.waited /\ e.text \in {NoTurn, e.waited}

PromptInv == ChatTypeOK /\ (used.foreign = 0 => PromptIsIdle /\ OnlyTurn /\ EndedWithTheirs)

\* The chat starts at the prompt of an idle session.
LEMMA PromptStarts == ASSUME ChatInit PROVE PromptInv
<1>1. used = [lines |-> 0, questions |-> 0, foreign |-> 0, losses |-> 0] /\ unread = <<>> /\ ends = {}
  BY DEF ChatInit
<1>2. PICK s \in ChatSessions, plan \in BOOLEAN :
        /\ chat = [at |-> "prompt", session |-> s, plan |-> plan, waits |-> NoTurn, text |-> NoTurn]
        /\ daemonSession = [t \in ChatSessions |-> [NewChatSession EXCEPT !.made = (t = s), !.plan = plan /\ t = s]]
  BY DEF ChatInit
<1>3. NoTurn \in Nat
  BY DEF NoTurn
<1>4. chat \in ChatRecord /\ chat.at = "prompt"
  BY <1>2, <1>3 DEF ChatRecord
<1>5. ASSUME NEW t \in ChatSessions PROVE daemonSession[t] \in SessionRecord /\ Rests(t)
  <2>1. PICK made \in BOOLEAN : made = (t = s)
    OBVIOUS
  <2>2. PICK plans \in BOOLEAN : plans = (plan /\ t = s)
    OBVIOUS
  <2>3. daemonSession[t] = [NewChatSession EXCEPT !.made = made, !.plan = plans]
    BY <1>2, <2>1, <2>2, Zenon
  <2>4. <<>> \in Seq(Nat)
    OBVIOUS
  <2>5. PICK none \in Seq(Nat) : none = <<>>
    BY <2>4
  <2>6. NewChatSession = [made |-> FALSE, plan |-> FALSE, inbox |-> none, turn |-> NoTurn, wrote |-> FALSE, asks |-> FALSE]
    BY <2>5 DEF NewChatSession
  <2>7. daemonSession[t] \in SessionRecord /\ daemonSession[t].inbox = none /\ daemonSession[t].turn = NoTurn
    BY <1>3, <2>3, <2>6 DEF SessionRecord
  <2> QED
    BY <2>5, <2>7 DEF Rests
<1>6. daemonSession \in [ChatSessions -> SessionRecord]
  BY <1>2, <1>5
<1>7. unread \in Seq(Notification) /\ used \in Spending
  BY <1>1 DEF Spending
<1> QED
  BY <1>1, <1>4, <1>5, <1>6, <1>7 DEF PromptInv, ChatTypeOK, PromptIsIdle, OnlyTurn, EndedWithTheirs

\* What was spent stays spent.
LEMMA Spent ==
    ASSUME ChatTypeOK, NEW what \in {"lines", "questions", "foreign", "losses"}, Uses(what)
    PROVE  /\ used' \in Spending
           /\ what # "foreign" => used'.foreign = used.foreign
           /\ what = "foreign" => used'.foreign # 0
<1>1. PICK u \in Spending : u = used
  BY DEF ChatTypeOK
<1>2. used' = [u EXCEPT ![what] = u[what] + 1]
  BY <1>1 DEF Uses
<1>3. CASE what = "lines"
  BY <1>1, <1>2, <1>3 DEF Spending
<1>4. CASE what = "questions"
  BY <1>1, <1>2, <1>4 DEF Spending
<1>5. CASE what = "foreign"
  BY <1>1, <1>2, <1>5 DEF Spending
<1>6. CASE what = "losses"
  BY <1>1, <1>2, <1>6 DEF Spending
<1> QED
  BY <1>3, <1>4, <1>5, <1>6

\* A notification of the session's turn.
LEMMA ToldOf ==
    ASSUME ChatTypeOK, NEW s \in ChatSessions, NEW kind \in {"text", "question", "permission", "error", "complete"}
    PROVE  Tells(s, kind) \in Notification /\ Tells(s, kind).session = s /\ Tells(s, kind).kind = kind
           /\ Tells(s, kind).turn = daemonSession[s].turn
<1>1. daemonSession[s].turn \in Nat
  BY DEF ChatTypeOK, SessionRecord
<1> QED
  BY <1>1 DEF Tells, Notification

\* A turn that tells of something goes on or, with its last word, ends.
LEMMA TurnTells ==
    ASSUME PromptInv, NEW s \in ChatSessions, daemonSession[s].turn # NoTurn,
           NEW said \in Seq(Notification), NEW after \in SessionRecord,
           \A i \in DOMAIN said : said[i].session = s /\ said[i].turn = daemonSession[s].turn,
           \A i \in DOMAIN said : said[i].kind = "complete" => i = Len(said) /\ after.turn = NoTurn,
           after.inbox = daemonSession[s].inbox, after.turn \in {daemonSession[s].turn, NoTurn},
           daemonSession' = [daemonSession EXCEPT ![s] = after], unread' = unread \o said,
           UNCHANGED <<chat, ends>>, used' \in Spending, used'.foreign = 0 => used.foreign = 0
    PROVE  PromptInv'
<1>1. ChatTypeOK'
  BY DEF PromptInv, ChatTypeOK
<1>2. daemonSession'[s] = after /\ \A t \in ChatSessions \ {s} : daemonSession'[t] = daemonSession[t]
  BY DEF PromptInv, ChatTypeOK
<1>3. ASSUME used.foreign = 0 PROVE PromptIsIdle' /\ OnlyTurn' /\ EndedWithTheirs'
  <2>1. PromptIsIdle /\ OnlyTurn /\ EndedWithTheirs
    BY <1>3 DEF PromptInv
  <2>2. PromptIsIdle'
    BY <2>1 DEF PromptIsIdle, Rests
  <2>3. EndedWithTheirs'
    BY <2>1 DEF EndedWithTheirs
  <2>4. ASSUME chat.at \in {"turn", "answer"}
        PROVE  s = chat.session /\ daemonSession[s].turn = chat.waits /\ daemonSession[s].inbox = <<>>
    BY <2>1, <2>4 DEF OnlyTurn, Rests
  <2>5. OnlyTurn'
    <3> SUFFICES ASSUME chat.at \in {"turn", "answer"} PROVE OnlyTurn'
      BY DEF OnlyTurn
    <3>1. s = chat.session /\ after.inbox = <<>> /\ after.turn \in {chat.waits, NoTurn}
      BY <2>4
    <3>2. \A t \in ChatSessions \ {s} : Rests(t)'
      BY <1>2, <2>1, <3>1 DEF OnlyTurn, Rests
    <3>3. chat.text \in {NoTurn, chat.waits}
      BY <2>1 DEF OnlyTurn
    <3>4. unread \in Seq(Notification) /\ Len(unread) \in Nat /\ Len(said) \in Nat /\ unread' \in Seq(Notification)
          /\ Len(unread') = Len(unread) + Len(said)
      BY <1>1 DEF PromptInv, ChatTypeOK
    <3>5. ASSUME NEW i \in DOMAIN unread'
          PROVE  /\ unread'[i].session = s /\ unread'[i].turn = chat.waits
                 /\ unread'[i].kind = "complete" => i = Len(unread') /\ Rests(s)'
      <4>1. CASE i <= Len(unread)
        <5>1. i \in DOMAIN unread /\ unread'[i] = unread[i]
          BY <3>4, <3>5, <4>1
        <5>2. unread[i].kind # "complete" /\ unread[i].session = s /\ unread[i].turn = chat.waits
          BY <2>1, <3>1, <5>1 DEF OnlyTurn, Rests
        <5> QED
          BY <5>1, <5>2
      <4>2. CASE ~ (i <= Len(unread))
        <5>1. PICK k \in DOMAIN said : k = i - Len(unread)
          BY <3>4, <3>5, <4>2
        <5>2. unread'[i] = said[k] /\ (k = Len(said) => i = Len(unread'))
          BY <3>4, <3>5, <4>2, <5>1
        <5>3. said[k].session = s /\ said[k].turn = chat.waits
          BY <2>4, <5>1
        <5>4. said[k].kind = "complete" => k = Len(said) /\ Rests(s)'
          BY <1>2, <3>1, <5>1 DEF Rests
        <5> QED
          BY <5>2, <5>3, <5>4
      <4> QED
        BY <4>1, <4>2
    <3> QED
      BY <1>2, <3>1, <3>2, <3>3, <3>5 DEF OnlyTurn
  <2> QED
    BY <2>2, <2>3, <2>5
<1> QED
  BY <1>1, <1>3 DEF PromptInv

\* Telling two things one after the other, or the second alone.
LEMMA OneAfterTheOther ==
    ASSUME NEW S, NEW q \in Seq(S), NEW a \in S, NEW b \in S
    PROVE  /\ (q \o <<a>>) \o <<b>> = q \o <<a, b>>
           /\ (q \o <<>>) \o <<b>> = q \o <<b>>
<1>1. /\ (q \o <<a>>) \o <<b>> \in Seq(S) /\ q \o <<a, b>> \in Seq(S)
      /\ Len((q \o <<a>>) \o <<b>>) = Len(q \o <<a, b>>)
  OBVIOUS
<1>2. \A i \in 1..Len(q \o <<a, b>>) : ((q \o <<a>>) \o <<b>>)[i] = (q \o <<a, b>>)[i]
  OBVIOUS
<1>3. (q \o <<a>>) \o <<b>> = q \o <<a, b>>
  <2>1. \A x, y \in Seq(S) : Len(x) = Len(y) /\ (\A i \in 1..Len(y) : x[i] = y[i]) => x = y
    OBVIOUS
  <2> QED
    BY <1>1, <1>2, <2>1
<1>4. q \o <<>> = q
  OBVIOUS
<1> QED
  BY <1>3, <1>4

\* The daemon's side: messages of others, turns, and its loss.
LEMMA DaemonTells ==
    ASSUME PromptInv, NEW s \in ChatSessions,
           WritesText(s) \/ AsksUser(s) \/ FinishesTurn(s, TRUE) \/ FinishesTurn(s, FALSE)
    PROVE  PromptInv'
<1>1. PICK d \in SessionRecord : d = daemonSession[s]
  BY DEF PromptInv, ChatTypeOK
<1>2. ChatTypeOK /\ used \in Spending /\ unread \in Seq(Notification) /\ d.turn # NoTurn /\ NoTurn \in Nat
      /\ UNCHANGED <<chat, ends>>
  BY <1>1 DEF PromptInv, ChatTypeOK, WritesText, AsksUser, FinishesTurn, NoTurn
<1>3. \A kind \in {"text", "question", "permission", "error", "complete"} :
        Tells(s, kind) \in Notification /\ Tells(s, kind).session = s /\ Tells(s, kind).kind = kind
        /\ Tells(s, kind).turn = d.turn
  BY <1>1, <1>2, ToldOf
<1>4. ASSUME NEW kind \in {"text", "question", "permission"}, unread' = Append(unread, Tells(s, kind)),
             NEW after \in SessionRecord, after.inbox = d.inbox, after.turn = d.turn,
             daemonSession' = [daemonSession EXCEPT ![s] = after], used' \in Spending, used'.foreign = used.foreign
      PROVE  PromptInv'
  <2>1. PICK n \in Notification : n = Tells(s, kind)
    BY <1>3
  <2>2. n.session = s /\ n.turn = d.turn /\ n.kind # "complete"
    BY <1>3, <2>1
  <2>3. PICK said \in Seq(Notification) : said = <<n>>
    <3>1. <<n>> \in Seq(Notification)
      OBVIOUS
    <3> QED
      BY <3>1
  <2>4. unread' = unread \o said
    BY <1>2, <1>4, <2>1, <2>3
  <2>5. \A i \in DOMAIN said : said[i] = n
    BY <2>3
  <2>6. \A i \in DOMAIN said : said[i].session = s /\ said[i].turn = d.turn /\ said[i].kind # "complete"
    BY <2>2, <2>5
  <2> QED
    BY <1>1, <1>2, <1>4, <2>4, <2>6, TurnTells
<1>5. CASE WritesText(s)
  <2>1. PICK after \in SessionRecord : after = [d EXCEPT !.wrote = TRUE]
    BY DEF SessionRecord
  <2>2. after.inbox = d.inbox /\ after.turn = d.turn
    BY <2>1 DEF SessionRecord
  <2>3. daemonSession' = [daemonSession EXCEPT ![s] = after]
    BY <1>1, <1>5, <2>1 DEF WritesText
  <2> QED
    BY <1>2, <1>4, <1>5, <2>2, <2>3 DEF WritesText
<1>6. CASE AsksUser(s)
  <2>1. PICK after \in SessionRecord : after = [d EXCEPT !.asks = TRUE]
    BY DEF SessionRecord
  <2>2. after.inbox = d.inbox /\ after.turn = d.turn
    BY <2>1 DEF SessionRecord
  <2>3. daemonSession' = [daemonSession EXCEPT ![s] = after]
    BY <1>1, <1>6, <2>1 DEF AsksUser
  <2>4. used' \in Spending /\ used'.foreign = used.foreign
    BY <1>2, <1>6, Spent DEF AsksUser
  <2>5. PICK kind \in {"question", "permission"} : unread' = Append(unread, Tells(s, kind))
    BY <1>6 DEF AsksUser
  <2> QED
    BY <1>4, <2>2, <2>3, <2>4, <2>5
<1>7. ASSUME NEW failed \in BOOLEAN, FinishesTurn(s, failed) PROVE PromptInv'
  <2>1. PICK after \in SessionRecord : after = [d EXCEPT !.turn = NoTurn]
    BY <1>2 DEF SessionRecord
  <2>2. after.inbox = d.inbox /\ after.turn = NoTurn
    BY <2>1 DEF SessionRecord
  <2>3. daemonSession' = [daemonSession EXCEPT ![s] = after] /\ used' = used
    BY <1>1, <1>7, <2>1 DEF FinishesTurn
  <2>4. PICK over \in Notification : over = Tells(s, "complete")
    BY <1>3
  <2>5. PICK error \in Notification : error = Tells(s, "error")
    BY <1>3
  <2>6. over.session = s /\ over.turn = d.turn /\ error.session = s /\ error.turn = d.turn /\ error.kind = "error"
    BY <1>3, <2>4, <2>5
  <2>7. PICK said \in Seq(Notification) : said = IF failed THEN <<error, over>> ELSE <<over>>
    <3>1. <<error, over>> \in Seq(Notification) /\ <<over>> \in Seq(Notification)
      OBVIOUS
    <3> QED
      BY <3>1
  <2>8. unread' = (unread \o (IF failed THEN <<error>> ELSE <<>>)) \o <<over>>
    BY <1>7, <2>4, <2>5 DEF FinishesTurn
  <2>9. unread' = unread \o said
    <3>1. /\ (unread \o <<error>>) \o <<over>> = unread \o <<error, over>>
          /\ (unread \o <<>>) \o <<over>> = unread \o <<over>>
      BY <1>2, OneAfterTheOther
    <3>2. CASE failed
      BY <2>7, <2>8, <3>1, <3>2
    <3>3. CASE ~failed
      BY <2>7, <2>8, <3>1, <3>3
    <3> QED
      BY <3>2, <3>3
  <2>10. \A i \in DOMAIN said : said[i] = over \/ said[i] = error
    BY <2>7
  <2>11. \A i \in DOMAIN said : said[i] = over => i = Len(said) \/ said[i] = error
    BY <2>7
  <2> QED
    BY <1>1, <1>2, <2>2, <2>3, <2>6, <2>9, <2>10, <2>11, TurnTells
<1> QED
  BY <1>5, <1>6, <1>7

\* A message of another client, the start of a turn and the loss of the
\* daemon end no turn of the chat's session.
LEMMA DaemonWorks ==
    ASSUME PromptInv, NEW s \in ChatSessions, ForeignMessage(s) \/ BeginsTurn(s) \/ DaemonLost
    PROVE  PromptInv'
<1>1. PICK d \in SessionRecord : d = daemonSession[s]
  BY DEF PromptInv, ChatTypeOK
<1>2. ChatTypeOK /\ d.inbox \in Seq(Nat) /\ Foreign \in Nat
  BY DEF PromptInv, SessionRecord, Foreign
<1>3. CASE ForeignMessage(s)
  <2>1. used' \in Spending /\ used'.foreign # 0
    BY <1>2, <1>3, Spent DEF ForeignMessage
  <2>2. PICK more \in Seq(Nat) : more = Append(d.inbox, Foreign)
    <3>1. Append(d.inbox, Foreign) \in Seq(Nat)
      BY <1>2
    <3> QED
      BY <3>1
  <2>3. [d EXCEPT !.inbox = more] \in SessionRecord
    BY <2>2 DEF SessionRecord
  <2>4. daemonSession' = [daemonSession EXCEPT ![s] = [d EXCEPT !.inbox = more]]
    BY <1>1, <1>3, <2>2 DEF ForeignMessage
  <2> QED
    BY <1>3, <2>1, <2>3, <2>4 DEF ForeignMessage, PromptInv, ChatTypeOK
<1>4. CASE BeginsTurn(s)
  <2>1. d.turn = NoTurn /\ d.inbox # <<>> /\ UNCHANGED <<chat, unread, ends, used>>
    BY <1>1, <1>4 DEF BeginsTurn
  <2>1a. Head(d.inbox) \in Nat /\ Tail(d.inbox) \in Seq(Nat)
    BY <1>2, <2>1
  <2>2. PICK first \in Nat : first = Head(d.inbox)
    BY <2>1a
  <2>3. PICK rest \in Seq(Nat) : rest = Tail(d.inbox)
    BY <2>1a
  <2>4. PICK after \in SessionRecord : after = [d EXCEPT !.turn = first, !.inbox = rest, !.wrote = FALSE]
    BY DEF SessionRecord
  <2>5. after.turn = first /\ after.inbox = rest
    BY <2>4 DEF SessionRecord
  <2>6. daemonSession' = [daemonSession EXCEPT ![s] = after]
    BY <1>1, <1>4, <2>2, <2>3, <2>4 DEF BeginsTurn
  <2>7. daemonSession'[s] = after /\ \A t \in ChatSessions \ {s} : daemonSession'[t] = daemonSession[t]
    BY <1>2, <2>6 DEF ChatTypeOK
  <2>8. ChatTypeOK'
    BY <1>2, <2>1, <2>6 DEF ChatTypeOK
  <2>9. ASSUME used.foreign = 0 PROVE PromptIsIdle' /\ OnlyTurn' /\ EndedWithTheirs'
    <3>1. PromptIsIdle /\ OnlyTurn /\ EndedWithTheirs /\ ~Rests(s)
      BY <1>1, <2>1, <2>9 DEF PromptInv, Rests
    <3>2. PromptIsIdle' /\ EndedWithTheirs'
      BY <2>1, <3>1 DEF PromptIsIdle, EndedWithTheirs
    <3>3. ASSUME chat.at \in {"turn", "answer"}
          PROVE  s = chat.session /\ d.inbox = <<chat.waits>> /\ unread = <<>> /\ chat.text \in {NoTurn, chat.waits}
                 /\ \A t \in ChatSessions \ {s} : Rests(t)
      BY <1>1, <2>1, <3>1, <3>3 DEF OnlyTurn
    <3>4. ASSUME chat.at \in {"turn", "answer"} PROVE first = chat.waits /\ rest = <<>>
      <4>1. PICK w : w = chat.waits
        OBVIOUS
      <4>2. d.inbox = <<w>>
        BY <3>3, <3>4, <4>1
      <4> QED
        BY <2>2, <2>3, <4>1, <4>2
    <3>5. OnlyTurn'
      <4> SUFFICES ASSUME chat.at \in {"turn", "answer"} PROVE OnlyTurn'
        BY <2>1 DEF OnlyTurn
      <4>1. \A t \in ChatSessions \ {s} : Rests(t)'
        BY <2>7, <3>3 DEF Rests
      <4> QED
        BY <2>1, <2>5, <2>7, <3>3, <3>4, <4>1 DEF OnlyTurn
    <3> QED
      BY <3>2, <3>5
  <2> QED
    BY <2>1, <2>8, <2>9 DEF PromptInv
<1>5. CASE DaemonLost
  <2>1. used' \in Spending /\ used'.foreign = used.foreign
    BY <1>2, <1>5, Spent DEF DaemonLost
  <2> QED
    BY <1>5, <2>1 DEF DaemonLost, PromptInv, ChatTypeOK, PromptIsIdle, OnlyTurn, EndedWithTheirs, Rests
<1> QED
  BY <1>3, <1>4, <1>5

\* A chat that is gone promises nothing more.
LEMMA ChatLeaves ==
    ASSUME PromptInv, Leaves, UNCHANGED <<daemonSession, ends>>, unread' \in Seq(Notification),
           used' \in Spending, used'.foreign = used.foreign
    PROVE  PromptInv'
<1>1. PICK c \in ChatRecord : c = chat
  BY DEF PromptInv, ChatTypeOK
<1>2. chat' = [c EXCEPT !.at = "gone"]
  BY <1>1 DEF Leaves
<1>3. chat' \in ChatRecord /\ chat'.at = "gone"
  BY <1>2 DEF ChatRecord
<1> QED
  BY <1>3 DEF PromptInv, ChatTypeOK, PromptIsIdle, OnlyTurn, EndedWithTheirs

\* Commands that start no turn.
LEMMA PromptStays ==
    ASSUME PromptInv, chat.at \in {"prompt", "leaveForSkill", "leavePlan"},
           chat' \in ChatRecord, chat'.at \in {"prompt", "leaveForSkill", "leavePlan"},
           daemonSession' \in [ChatSessions -> SessionRecord], \A t \in ChatSessions : Rests(t) => Rests(t)',
           UNCHANGED <<unread, ends>>, used' \in Spending, used'.foreign = used.foreign
    PROVE  PromptInv'
<1>1. ChatTypeOK'
  BY DEF PromptInv, ChatTypeOK
<1>2. ASSUME used.foreign = 0 PROVE PromptIsIdle' /\ EndedWithTheirs'
  BY <1>2 DEF PromptInv, PromptIsIdle, EndedWithTheirs
<1>3. OnlyTurn'
  BY DEF OnlyTurn
<1> QED
  BY <1>1, <1>2, <1>3 DEF PromptInv

\* A line that is sent is the only one.
LEMMA LineIsSent ==
    ASSUME PromptInv, chat.at \in {"prompt", "leaveForSkill", "leavePlan"}, NEW s \in ChatSessions, NEW plan \in BOOLEAN,
           Sends(s, plan), UNCHANGED <<unread, ends>>, used' \in Spending, used'.foreign = used.foreign
    PROVE  PromptInv'
<1>1. PICK c \in ChatRecord : c = chat
  BY DEF PromptInv, ChatTypeOK
<1>2. PICK d \in SessionRecord : d = daemonSession[s]
  BY DEF PromptInv, ChatTypeOK
<1>3. PICK line \in Nat : line = used'.lines
  BY DEF Spending
<1>4. NoTurn \in Nat /\ d.inbox \in Seq(Nat) /\ ChatTypeOK
  BY DEF NoTurn, SessionRecord, PromptInv
<1>5. PICK sent \in ChatRecord : sent = [c EXCEPT !.at = "turn", !.session = s, !.plan = plan, !.waits = line, !.text = NoTurn]
  BY <1>4 DEF ChatRecord
<1>6. sent.at = "turn" /\ sent.session = s /\ sent.waits = line /\ sent.text = NoTurn
  BY <1>5 DEF ChatRecord
<1>7. chat' = sent
  BY <1>1, <1>3, <1>5 DEF Sends
<1>8. PICK more \in Seq(Nat) : more = Append(d.inbox, line)
  <2>1. Append(d.inbox, line) \in Seq(Nat)
    BY <1>4
  <2> QED
    BY <2>1
<1>9. PICK after \in SessionRecord : after = [d EXCEPT !.made = TRUE, !.plan = plan, !.inbox = more]
  BY DEF SessionRecord
<1>10. after.inbox = more /\ after.turn = d.turn
  BY <1>9 DEF SessionRecord
<1>11. daemonSession' = [daemonSession EXCEPT ![s] = after]
  BY <1>2, <1>3, <1>8, <1>9 DEF Sends
<1>12. daemonSession'[s] = after /\ \A t \in ChatSessions \ {s} : daemonSession'[t] = daemonSession[t]
  BY <1>4, <1>11 DEF ChatTypeOK
<1>13. ChatTypeOK'
  BY <1>4, <1>7, <1>11 DEF ChatTypeOK
<1>14. ASSUME used.foreign = 0 PROVE OnlyTurn' /\ EndedWithTheirs'
  <2>1. unread = <<>> /\ \A t \in ChatSessions : Rests(t)
    BY <1>14 DEF PromptInv, PromptIsIdle
  <2>2. more = <<line>> /\ d.turn = NoTurn
    <3>1. d.inbox = <<>> /\ d.turn = NoTurn
      BY <1>2, <2>1 DEF Rests
    <3>2. Append(<<>>, line) = <<line>>
      OBVIOUS
    <3> QED
      BY <1>8, <3>1, <3>2
  <2>3. \A t \in ChatSessions \ {s} : Rests(t)'
    BY <1>12, <2>1 DEF Rests
  <2>4. OnlyTurn'
    BY <1>6, <1>7, <1>10, <1>12, <2>1, <2>2, <2>3 DEF OnlyTurn
  <2> QED
    BY <1>14, <2>4 DEF PromptInv, EndedWithTheirs
<1>15. PromptIsIdle'
  BY <1>6, <1>7 DEF PromptIsIdle
<1> QED
  BY <1>13, <1>14, <1>15 DEF PromptInv

\* What is typed at the prompt.
LEMMA LinesTyped ==
    ASSUME PromptInv,
           \/ SendLine \/ RunCommand \/ AskToLeavePlan \/ StayInPlanMode \/ LeavePlanMode
           \/ \E s \in ChatSessions : EnterPlanMode(s) \/ StartSkill(s)
    PROVE  PromptInv'
<1>1. ChatTypeOK /\ unread \in Seq(Notification)
  BY DEF PromptInv, ChatTypeOK
<1>2. PICK c \in ChatRecord : c = chat
  BY <1>1 DEF ChatTypeOK
<1>3. /\ Uses("lines") /\ chat.at \in {"prompt", "leaveForSkill", "leavePlan"} /\ UNCHANGED <<unread, ends>>
  BY DEF SendLine, RunCommand, AskToLeavePlan, StayInPlanMode, LeavePlanMode, EnterPlanMode, StartSkill, Types
<1>4. used' \in Spending /\ used'.foreign = used.foreign
  BY <1>1, <1>3, Spent
<1>5. ASSUME Leaves, UNCHANGED daemonSession PROVE PromptInv'
  BY <1>1, <1>3, <1>4, <1>5, ChatLeaves
<1>6. ASSUME NEW s \in ChatSessions, NEW plan \in BOOLEAN, Sends(s, plan) PROVE PromptInv'
  BY <1>3, <1>4, <1>6, LineIsSent
<1>7. chat.session \in ChatSessions /\ chat.plan \in BOOLEAN
  BY <1>2 DEF ChatRecord
<1>8. ASSUME NEW at \in {"prompt", "leaveForSkill"}, chat' = [chat EXCEPT !.at = at], UNCHANGED daemonSession
      PROVE  PromptInv'
  <2>1. chat' \in ChatRecord /\ chat'.at = at
    BY <1>2, <1>8 DEF ChatRecord
  <2> QED
    BY <1>1, <1>3, <1>4, <1>8, <2>1, PromptStays DEF ChatTypeOK, Rests
<1>9. CASE SendLine
  BY <1>5, <1>6, <1>7, <1>9 DEF SendLine, IfUp
<1>10. CASE RunCommand
  <2>1. CASE Leaves
    BY <1>5, <1>10, <2>1 DEF RunCommand
  <2>2. CASE chat' = chat
    BY <1>1, <1>3, <1>4, <1>10, <2>2, PromptStays DEF ChatTypeOK, Rests, RunCommand
  <2> QED
    BY <1>10, <2>1, <2>2 DEF RunCommand
<1>11. CASE AskToLeavePlan
  BY <1>8, <1>11 DEF AskToLeavePlan
<1>12. CASE StayInPlanMode
  BY <1>8, <1>12 DEF StayInPlanMode
<1>13. CASE LeavePlanMode
  <2>1. CASE chat' = [chat EXCEPT !.at = "prompt", !.plan = FALSE]
             /\ daemonSession' = [daemonSession EXCEPT ![chat.session].plan = FALSE]
    <3>1. PICK d \in SessionRecord : d = daemonSession[chat.session]
      BY <1>1, <1>7 DEF ChatTypeOK
    <3>2. PICK after \in SessionRecord : after = [d EXCEPT !.plan = FALSE]
      BY DEF SessionRecord
    <3>3. after.inbox = d.inbox /\ after.turn = d.turn
      BY <3>2 DEF SessionRecord
    <3>4. daemonSession' = [daemonSession EXCEPT ![chat.session] = after]
      BY <2>1, <3>1, <3>2
    <3>5. \A t \in ChatSessions : Rests(t) => Rests(t)'
      BY <1>1, <1>7, <3>1, <3>3, <3>4 DEF Rests, ChatTypeOK
    <3>6. chat' \in ChatRecord /\ chat'.at = "prompt"
      BY <1>2, <2>1 DEF ChatRecord
    <3>7. daemonSession' \in [ChatSessions -> SessionRecord]
      BY <1>1, <3>4 DEF ChatTypeOK
    <3> QED
      BY <1>3, <1>4, <3>5, <3>6, <3>7, PromptStays
  <2> QED
    BY <1>5, <1>13, <2>1 DEF LeavePlanMode, IfUp
<1>14. ASSUME NEW s \in ChatSessions, EnterPlanMode(s) PROVE PromptInv'
  BY <1>5, <1>6, <1>14 DEF EnterPlanMode, IfUp
<1>15. ASSUME NEW s \in ChatSessions, StartSkill(s) PROVE PromptInv'
  <2>1. CASE /\ chat' = [chat EXCEPT !.at = "prompt", !.session = s, !.plan = FALSE]
             /\ daemonSession' = [daemonSession EXCEPT ![s].made = TRUE]
    <3>1. PICK d \in SessionRecord : d = daemonSession[s]
      BY <1>1 DEF ChatTypeOK
    <3>2. PICK after \in SessionRecord : after = [d EXCEPT !.made = TRUE]
      BY DEF SessionRecord
    <3>3. after.inbox = d.inbox /\ after.turn = d.turn
      BY <3>2 DEF SessionRecord
    <3>4. daemonSession' = [daemonSession EXCEPT ![s] = after]
      BY <2>1, <3>1, <3>2
    <3>5. \A t \in ChatSessions : Rests(t) => Rests(t)'
      BY <1>1, <3>1, <3>3, <3>4 DEF Rests, ChatTypeOK
    <3>6. chat' \in ChatRecord /\ chat'.at = "prompt"
      BY <1>2, <2>1 DEF ChatRecord
    <3>7. daemonSession' \in [ChatSessions -> SessionRecord]
      BY <1>1, <3>4 DEF ChatTypeOK
    <3> QED
      BY <1>3, <1>4, <3>5, <3>6, <3>7, PromptStays
  <2> QED
    BY <1>5, <1>6, <1>15, <2>1 DEF StartSkill, IfUp, CreateSkillSession
<1> QED
  BY <1>9, <1>10, <1>11, <1>12, <1>13, <1>14, <1>15

\* What is read while a line is worked on.
LEMMA NotificationRead == ASSUME PromptInv, ReadNotification PROVE PromptInv'
<1> DEFINE n == Head(unread)
           own == Concerns(n)
           over == own /\ EndsTurn(n)
<1>1. ChatTypeOK /\ chat.at = "turn" /\ unread # <<>> /\ unread' = Tail(unread) /\ used' = used /\ used \in Spending
  BY DEF PromptInv, ChatTypeOK, ReadNotification
<1>2. PICK c \in ChatRecord : c = chat
  BY <1>1 DEF ChatTypeOK
<1>3. n \in Notification /\ unread \in Seq(Notification) /\ unread' \in Seq(Notification) /\ Len(unread) \in Nat /\ Len(unread) > 0
  BY <1>1 DEF ChatTypeOK
<1>4. /\ Len(unread') = Len(unread) - 1
      /\ \A i \in DOMAIN unread' : i + 1 \in DOMAIN unread /\ unread'[i] = unread[i + 1] /\ i \in Nat
  BY <1>1, <1>3
<1>5. 1 \in DOMAIN unread /\ n = unread[1]
  BY <1>3
<1>6. ASSUME used.foreign = 0
      PROVE  /\ own /\ n.turn = chat.waits /\ chat.text \in {NoTurn, chat.waits}
             /\ EndsTurn(n) => unread' = <<>> /\ \A t \in ChatSessions : Rests(t)
  <2>1. OnlyTurn
    BY <1>6 DEF PromptInv
  <2>2. n.session = chat.session /\ n.turn = chat.waits /\ chat.text \in {NoTurn, chat.waits}
        /\ (n.kind = "complete" => 1 = Len(unread) /\ Rests(chat.session))
    BY <1>1, <1>5, <2>1 DEF OnlyTurn
  <2>3. ASSUME EndsTurn(n) PROVE unread' = <<>> /\ \A t \in ChatSessions : Rests(t)
    <3>1. Len(unread) = 1 /\ Rests(chat.session)
      BY <2>2, <2>3 DEF EndsTurn
    <3>2. unread' = <<>>
      BY <1>3, <1>4, <3>1
    <3> QED
      BY <1>1, <2>1, <3>1, <3>2 DEF OnlyTurn
  <2> QED
    BY <2>2, <2>3 DEF Concerns
<1> HIDE DEF n
<1>7. ends' = IF over THEN ends \cup {[waited |-> chat.waits, by |-> n.turn, text |-> chat.text]} ELSE ends
  BY DEF ReadNotification, n
<1>8. ASSUME used.foreign = 0 PROVE EndedWithTheirs'
  <2>1. EndedWithTheirs
    BY <1>8 DEF PromptInv
  <2>2. PICK e : e = [waited |-> chat.waits, by |-> n.turn, text |-> chat.text]
    OBVIOUS
  <2>3. e.by = e.waited /\ e.text \in {NoTurn, e.waited}
    BY <1>6, <1>8, <2>2
  <2>4. ends' \subseteq ends \cup {e}
    BY <1>7, <2>2
  <2> QED
    BY <2>1, <2>3, <2>4 DEF EndedWithTheirs
<1>9. ASSUME ~over, chat' \in ChatRecord, chat'.at \in {"turn", "answer"}, chat'.session = chat.session, chat'.waits = chat.waits,
             used.foreign = 0 => chat'.text \in {NoTurn, chat.waits},
             daemonSession' \in [ChatSessions -> SessionRecord],
             \A t \in ChatSessions : /\ daemonSession'[t].inbox = daemonSession[t].inbox
                                     /\ daemonSession'[t].turn = daemonSession[t].turn
      PROVE  PromptInv'
  <2>1. ChatTypeOK'
    BY <1>1, <1>3, <1>9 DEF ChatTypeOK
  <2>2. \A t \in ChatSessions : Rests(t) <=> Rests(t)'
    BY <1>9 DEF Rests
  <2>3. ASSUME used.foreign = 0 PROVE OnlyTurn'
    <3>1. OnlyTurn /\ chat.session \in ChatSessions
      BY <1>2, <2>3 DEF PromptInv, ChatRecord
    <3>2. daemonSession[chat.session].inbox = <<>>
      BY <1>1, <3>1 DEF OnlyTurn
    <3>3. ASSUME NEW i \in DOMAIN unread'
          PROVE  /\ unread'[i].session = chat.session /\ unread'[i].turn = chat.waits
                 /\ unread'[i].kind = "complete" => i = Len(unread') /\ Rests(chat.session)'
      <4>1. PICK j \in DOMAIN unread : j = i + 1 /\ unread'[i] = unread[j]
        BY <1>4, <3>3
      <4>2. /\ unread[j].session = chat.session /\ unread[j].turn = chat.waits
            /\ unread[j].kind = "complete" => j = Len(unread) /\ Rests(chat.session)
        BY <1>1, <3>1 DEF OnlyTurn
      <4>3. i \in Nat
        BY <1>4
      <4> QED
        BY <1>3, <1>4, <1>9, <2>2, <3>1, <4>1, <4>2, <4>3 DEF Rests
    <3> QED
      BY <1>1, <1>9, <2>2, <2>3, <3>1, <3>2, <3>3 DEF OnlyTurn, Rests
  <2>4. PromptIsIdle'
    BY <1>9 DEF PromptIsIdle
  <2> QED
    BY <1>1, <1>8, <2>1, <2>3, <2>4 DEF PromptInv
<1>10. CASE own /\ Approves(n) /\ IfUp(daemonSession' = Continues(n.session) /\ UNCHANGED chat)
  <2>1. ~over /\ n.session = chat.session /\ chat.session \in ChatSessions
    BY <1>2, <1>10 DEF Approves, EndsTurn, Concerns, ChatRecord
  <2>2. CASE daemonSession' = Continues(n.session) /\ UNCHANGED chat
    <3>1. PICK d \in SessionRecord : d = daemonSession[chat.session]
      BY <1>1, <2>1 DEF ChatTypeOK
    <3>2. PICK after \in SessionRecord : after = [d EXCEPT !.asks = FALSE]
      BY DEF SessionRecord
    <3>3. after.inbox = d.inbox /\ after.turn = d.turn
      BY <3>2 DEF SessionRecord
    <3>4. daemonSession' = [daemonSession EXCEPT ![chat.session] = after]
      BY <2>1, <2>2, <3>1, <3>2 DEF Continues
    <3>5. daemonSession' \in [ChatSessions -> SessionRecord]
      BY <1>1, <3>4 DEF ChatTypeOK
    <3>6. \A t \in ChatSessions : /\ daemonSession'[t].inbox = daemonSession[t].inbox
                                  /\ daemonSession'[t].turn = daemonSession[t].turn
      BY <1>1, <2>1, <3>1, <3>3, <3>4 DEF ChatTypeOK
    <3> QED
      BY <1>1, <1>2, <1>6, <1>9, <2>1, <2>2, <3>5, <3>6
  <2>3. CASE Leaves /\ UNCHANGED daemonSession
    BY <1>1, <1>3, <1>7, <2>1, <2>3, ChatLeaves
  <2> QED
    BY <1>10, <2>2, <2>3 DEF IfUp
<1>11. CASE /\ own /\ n.kind \in {"question", "permission"} /\ ~Approves(n)
            /\ chat' = [chat EXCEPT !.at = "answer"] /\ UNCHANGED daemonSession
  <2>1. ~over
    BY <1>11 DEF EndsTurn
  <2>2. chat' \in ChatRecord /\ chat'.at = "answer" /\ chat'.session = c.session /\ chat'.waits = c.waits /\ chat'.text = c.text
    BY <1>2, <1>11 DEF ChatRecord
  <2> QED
    BY <1>1, <1>2, <1>6, <1>9, <1>11, <2>1, <2>2 DEF ChatTypeOK
<1>12. CASE own /\ n.kind = "text" /\ chat' = [chat EXCEPT !.text = n.turn] /\ UNCHANGED daemonSession
  <2>1. ~over
    BY <1>12 DEF EndsTurn
  <2>2. PICK t \in Nat : t = n.turn
    BY <1>3 DEF Notification, n
  <2>3. chat' \in ChatRecord /\ chat'.at = c.at /\ chat'.session = c.session /\ chat'.waits = c.waits /\ chat'.text = t
    BY <1>2, <1>12, <2>2 DEF ChatRecord
  <2>4. used.foreign = 0 => chat'.text \in {NoTurn, chat.waits}
    BY <1>6, <2>2, <2>3
  <2> QED
    BY <1>1, <1>2, <1>9, <1>12, <2>1, <2>3, <2>4 DEF ChatTypeOK
<1>13. CASE over /\ chat' = [chat EXCEPT !.at = IF chat.plan /\ chat.text # NoTurn THEN "leavePlan" ELSE "prompt"]
            /\ UNCHANGED daemonSession
  <2>1. PICK at \in {"leavePlan", "prompt"} : at = IF chat.plan /\ chat.text # NoTurn THEN "leavePlan" ELSE "prompt"
    OBVIOUS
  <2>2. chat' = [c EXCEPT !.at = at]
    BY <1>2, <1>13, <2>1
  <2>3. chat' \in ChatRecord /\ chat'.at = at
    BY <2>2 DEF ChatRecord
  <2>4. ChatTypeOK'
    BY <1>1, <1>3, <1>13, <2>3 DEF ChatTypeOK
  <2>5. OnlyTurn'
    BY <2>3 DEF OnlyTurn
  <2>6. used.foreign = 0 => PromptIsIdle'
    BY <1>6, <1>13 DEF PromptIsIdle, Rests
  <2> QED
    BY <1>1, <1>8, <2>4, <2>5, <2>6 DEF PromptInv
<1>14. CASE (~own \/ (n.kind = "error" /\ ~over)) /\ UNCHANGED <<chat, daemonSession>>
  <2>1. ~over
    BY <1>14
  <2> QED
    BY <1>1, <1>2, <1>6, <1>9, <1>14, <2>1 DEF ChatTypeOK
<1> QED
  BY <1>10, <1>11, <1>12, <1>13, <1>14 DEF ReadNotification, n

\* Answers, and the ways out of the chat.
LEMMA ChatAnswers == ASSUME PromptInv, AnswerQuestion \/ QuitChat \/ NoticeLoss PROVE PromptInv'
<1>1. ChatTypeOK /\ unread \in Seq(Notification) /\ used \in Spending
  BY DEF PromptInv, ChatTypeOK
<1>2. CASE AnswerQuestion
  <2>1. PICK c \in ChatRecord : c = chat
    BY <1>1 DEF ChatTypeOK
  <2>2. used' \in Spending /\ used'.foreign = used.foreign /\ UNCHANGED <<unread, ends>> /\ chat.at = "answer"
    BY <1>1, <1>2, Spent DEF AnswerQuestion
  <2>3. CASE chat' = [chat EXCEPT !.at = "turn"] /\ daemonSession' = Continues(chat.session)
    <3>1. PICK d \in SessionRecord : d = daemonSession[chat.session]
      BY <1>1, <2>1 DEF ChatTypeOK, ChatRecord
    <3>2. PICK after \in SessionRecord : after = [d EXCEPT !.asks = FALSE]
      BY DEF SessionRecord
    <3>3. after.inbox = d.inbox /\ after.turn = d.turn /\ chat.session \in ChatSessions
      BY <2>1, <3>2 DEF SessionRecord, ChatRecord
    <3>4. daemonSession' = [daemonSession EXCEPT ![chat.session] = after]
      BY <2>3, <3>1, <3>2 DEF Continues
    <3>5. \A t \in ChatSessions : /\ daemonSession'[t].inbox = daemonSession[t].inbox
                                  /\ daemonSession'[t].turn = daemonSession[t].turn
      BY <1>1, <3>1, <3>3, <3>4 DEF ChatTypeOK
    <3>6. /\ chat' \in ChatRecord /\ chat'.at = "turn" /\ chat'.session = c.session /\ chat'.waits = c.waits
          /\ chat'.text = c.text
      BY <2>1, <2>3 DEF ChatRecord
    <3>7. ChatTypeOK'
      BY <1>1, <2>2, <3>4, <3>6 DEF ChatTypeOK
    <3>8. \A t \in ChatSessions : Rests(t) <=> Rests(t)'
      BY <3>5 DEF Rests
    <3>9. ASSUME OnlyTurn PROVE OnlyTurn'
      BY <2>1, <2>2, <3>3, <3>5, <3>6, <3>8, <3>9 DEF OnlyTurn, Rests
    <3>10. PromptIsIdle'
      BY <3>6 DEF PromptIsIdle
    <3> QED
      BY <2>2, <3>7, <3>9, <3>10 DEF PromptInv, EndedWithTheirs
  <2>4. CASE Leaves /\ UNCHANGED daemonSession
    BY <1>1, <2>2, <2>4, ChatLeaves
  <2> QED
    BY <1>2, <2>3, <2>4 DEF AnswerQuestion, IfUp
<1>3. CASE QuitChat \/ NoticeLoss
  BY <1>1, <1>3, ChatLeaves DEF QuitChat, NoticeLoss
<1> QED
  BY <1>2, <1>3

(* The prompt comes back when the turn of the line that was sent is over,   *)
(* and the plan it offers to leave with was written by that turn, unless    *)
(* somebody else started turns of the session (run_chat).                   *)
THEOREM PromptEndsWithItsTurnCorrect == ChatSpec => []PromptEndsWithItsTurn
<1>1. PromptInv /\ [ChatNext]_chatVars => PromptInv'
  <2> SUFFICES ASSUME PromptInv, [ChatNext]_chatVars PROVE PromptInv'
    OBVIOUS
  <2>1. CASE UNCHANGED chatVars
    BY <2>1 DEF chatVars, PromptInv, ChatTypeOK, PromptIsIdle, OnlyTurn, EndedWithTheirs, Rests
  <2>2. CASE DaemonLost
    <3>1. chat.session \in ChatSessions
      BY DEF PromptInv, ChatTypeOK, ChatRecord
    <3> QED
      BY <2>2, <3>1, DaemonWorks
  <2> QED
    BY <2>1, <2>2, DaemonTells, DaemonWorks, LinesTyped, NotificationRead, ChatAnswers DEF ChatNext
<1>2. PromptInv => PromptEndsWithItsTurn
  BY DEF PromptInv, EndedWithTheirs, PromptEndsWithItsTurn
<1> QED
  BY <1>1, <1>2, PromptStarts, PTL DEF ChatSpec

----------------------------------------------------------------------------
(* Delegation.                                                              *)

Lives == {"absent", "queued", "turn", "tool", "waiting", "rest", "finished", "exited"}
Steps == {"none", "dispatch", "ack", "acked", "waiting", "cancelling", "done", "lost"}
TaskRecord == [by : Agents, kind : {"none", "subagent", "spawn"}, step : Steps, stop : BOOLEAN]
Inputs == {"spawn", "wait", "cancel"} \X Agents

DelegationTypeOK ==
    /\ life \in [Agents -> Lives] /\ tool \in [Agents -> Agents] /\ task \in [Kids -> TaskRecord]
    /\ core \in Seq(Inputs) /\ inbox \in [Agents -> Seq({"user", "cancel"})]

In(q, x) == \E i \in DOMAIN q : q[i] = x
OnlyOnce(q, x) == \A i, j \in DOMAIN q : q[i] = x /\ q[j] = x => i = j

Off == {"rest", "finished", "exited"}
SpawnOf(c) == <<"spawn", c>>
CancelOf(s) == <<"cancel", s>>

(* What a child's task, the core's queue and the child itself say of each   *)
(* other, from the call that draws its id to its end.                       *)
ChildInv(c) ==
    /\ task[c].kind = "none" => task[c].step = "none"
    /\ task[c].kind = "none" \/ task[c].step = "dispatch" => life[c] = "absent" /\ ~In(core, SpawnOf(c))
    /\ In(core, SpawnOf(c)) => life[c] = "absent" /\ (task[c].kind = "subagent" => task[c].step = "ack")
    /\ OnlyOnce(core, SpawnOf(c))
    /\ task[c].step \in {"acked", "waiting", "cancelling"} => life[c] # "absent"
    /\ task[c].kind = "subagent" => InCall(c) \/ task[c].stop \/ task[c].step = "done"
    /\ task[c].kind = "subagent" /\ task[c].step = "done" => life[c] \in Off \/ CancelOnItsWay(c) \/ NeverCame(c)

CancelsReach == \A s \in Agents : In(core, CancelOf(s)) => life[s] # "absent"
ToolsHaveTasks == \A s \in Agents : life[s] = "tool" => tool[s] \in Kids

DelegationInv == DelegationTypeOK /\ (\A c \in Kids : ChildInv(c)) /\ CancelsReach /\ ToolsHaveTasks

\* What is in a queue that grows or loses its first.
LEMMA InAppended ==
    ASSUME NEW S, NEW q \in Seq(S), NEW e \in S
    PROVE  /\ Append(q, e) \in Seq(S)
           /\ \A x : In(Append(q, e), x) <=> In(q, x) \/ x = e
           /\ \A x : OnlyOnce(q, x) /\ (x = e => ~In(q, x)) => OnlyOnce(Append(q, e), x)
<1> DEFINE p == Append(q, e)
<1>1. p \in Seq(S) /\ Len(p) = Len(q) + 1 /\ Len(q) \in Nat /\ p[Len(q) + 1] = e
      /\ DOMAIN p = 1..(Len(q) + 1) /\ DOMAIN q = 1..Len(q)
  OBVIOUS
<1>2. \A i \in DOMAIN q : i \in DOMAIN p /\ p[i] = q[i]
  OBVIOUS
<1> HIDE DEF p
<1>3. \A i \in DOMAIN p : i \in DOMAIN q \/ i = Len(q) + 1
  BY <1>1
<1>4. \A x : In(p, x) <=> In(q, x) \/ x = e
  BY <1>1, <1>2, <1>3 DEF In
<1>5. ASSUME NEW x, OnlyOnce(q, x), x = e => ~In(q, x) PROVE OnlyOnce(p, x)
  BY <1>1, <1>2, <1>3, <1>5 DEF In, OnlyOnce
<1> QED
  BY <1>1, <1>4, <1>5 DEF p

\* The queue without its first: the rest, and no more.
LEMMA InTail ==
    ASSUME NEW S, NEW q \in Seq(S), q # <<>>
    PROVE  /\ Tail(q) \in Seq(S) /\ Head(q) \in S /\ In(q, Head(q))
           /\ \A x : In(Tail(q), x) => In(q, x)
           /\ \A x : In(q, x) => In(Tail(q), x) \/ x = Head(q)
           /\ \A x : OnlyOnce(q, x) => OnlyOnce(Tail(q), x)
           /\ OnlyOnce(q, Head(q)) => ~In(Tail(q), Head(q))
<1> DEFINE p == Tail(q)
<1>1. p \in Seq(S) /\ Head(q) \in S /\ Len(p) = Len(q) - 1 /\ Len(q) \in Nat /\ Len(q) > 0 /\ q[1] = Head(q)
      /\ DOMAIN p = 1..(Len(q) - 1) /\ DOMAIN q = 1..Len(q)
  OBVIOUS
<1>2. \A i \in DOMAIN p : p[i] = q[i + 1]
  OBVIOUS
<1> HIDE DEF p
<1>3. \A i \in DOMAIN p : i \in Nat /\ i + 1 \in DOMAIN q /\ i + 1 # 1
  BY <1>1
<1>4. 1 \in DOMAIN q
  BY <1>1
<1>5. ASSUME NEW i \in DOMAIN q, i # 1 PROVE \E j \in DOMAIN p : p[j] = q[i]
  <2>1. i - 1 \in DOMAIN p /\ (i - 1) + 1 = i
    BY <1>1, <1>5
  <2>2. p[i - 1] = q[i]
    BY <1>2, <2>1
  <2> QED
    BY <2>1, <2>2
<1>6. \A x : In(p, x) => In(q, x)
  BY <1>2, <1>3 DEF In
<1>7. \A x : In(q, x) => In(p, x) \/ x = Head(q)
  BY <1>1, <1>5 DEF In
<1>8. ASSUME NEW x, OnlyOnce(q, x) PROVE OnlyOnce(p, x)
  <2> SUFFICES ASSUME NEW i \in DOMAIN p, NEW j \in DOMAIN p, p[i] = x, p[j] = x PROVE i = j
    BY DEF OnlyOnce
  <2>1. q[i + 1] = x /\ q[j + 1] = x /\ i + 1 \in DOMAIN q /\ j + 1 \in DOMAIN q /\ i \in Nat /\ j \in Nat
    BY <1>2, <1>3
  <2>2. i + 1 = j + 1
    BY <1>8, <2>1 DEF OnlyOnce
  <2> QED
    BY <2>1, <2>2
<1>9. OnlyOnce(q, Head(q)) => ~In(p, Head(q))
  BY <1>1, <1>2, <1>3, <1>4 DEF In, OnlyOnce
<1>10. In(q, Head(q))
  BY <1>1, <1>4 DEF In
<1> QED
  BY <1>1, <1>6, <1>7, <1>8, <1>9, <1>10 DEF p

\* The root session in its turn and no child yet.
LEMMA DelegationStarts == ASSUME Root \notin Kids, DelegationInit PROVE DelegationInv
<1>1. life \in [Agents -> Lives] /\ \A c \in Kids : life[c] = "absent"
  BY DEF DelegationInit, Agents, Lives
<1>2. NoTask \in TaskRecord /\ NoTask.kind = "none" /\ NoTask.step = "none"
  BY DEF NoTask, TaskRecord, Steps, Agents
<1>3. task \in [Kids -> TaskRecord] /\ \A c \in Kids : task[c].kind = "none" /\ task[c].step = "none"
  BY <1>2 DEF DelegationInit
<1>4. tool \in [Agents -> Agents] /\ \A s \in Agents : life[s] # "tool"
  BY DEF DelegationInit
<1>5. core \in Seq(Inputs) /\ inbox \in [Agents -> Seq({"user", "cancel"})] /\ \A x : ~In(core, x) /\ OnlyOnce(core, x)
  BY DEF DelegationInit, In, OnlyOnce
<1> QED
  BY <1>1, <1>3, <1>4, <1>5 DEF DelegationInv, DelegationTypeOK, ChildInv, CancelsReach, ToolsHaveTasks

\* A child whose task the step does not move.
LEMMA ChildStays ==
    ASSUME NEW c \in Kids, ChildInv(c), task'[c] = task[c],
           \/ life'[c] = life[c]
           \/ life[c] # "absent" /\ life'[c] # "absent" /\ (life[c] \in Off => life'[c] \in Off),
           In(core', SpawnOf(c)) => In(core, SpawnOf(c)), OnlyOnce(core', SpawnOf(c)),
           CancelOnItsWay(c) => CancelOnItsWay(c)' \/ life'[c] \in Off,
           InCall(c) => InCall(c)' \/ task[c].stop \/ task[c].step = "done"
    PROVE  ChildInv(c)'
<1>1. NeverCame(c) => life'[c] = "absent" /\ task'[c].step = "done" /\ ~In(core', SpawnOf(c))
  BY DEF NeverCame, In, SpawnOf, ChildInv
<1>2. NeverCame(c) => NeverCame(c)'
  BY <1>1 DEF NeverCame, In, SpawnOf
<1>3. life[c] \in Off => life[c] # "absent" /\ life'[c] \in Off
  BY DEF Off
<1>9. task[c].kind = "none" => task[c].step = "none"
  BY DEF ChildInv
<1>4. task[c].kind = "none" \/ task[c].step = "dispatch" => life'[c] = "absent" /\ ~In(core', SpawnOf(c))
  BY DEF ChildInv
<1>5. In(core', SpawnOf(c)) => life'[c] = "absent" /\ (task[c].kind = "subagent" => task[c].step = "ack")
  BY DEF ChildInv
<1>6. task[c].step \in {"acked", "waiting", "cancelling"} => life'[c] # "absent"
  BY DEF ChildInv
<1>7. task[c].kind = "subagent" => InCall(c)' \/ task[c].stop \/ task[c].step = "done"
  BY DEF ChildInv
<1>8. task[c].kind = "subagent" /\ task[c].step = "done" => life'[c] \in Off \/ CancelOnItsWay(c)' \/ NeverCame(c)'
  BY <1>2, <1>3 DEF ChildInv
<1> QED
  BY <1>4, <1>5, <1>6, <1>7, <1>8, <1>9, Zenon DEF ChildInv, SpawnOf

\* Steps of a session in its turn, which move no task and no queue.
LEMMA TurnsDelegate ==
    ASSUME Root \notin Kids, DelegationInv,
           UserMessage \/ \E s \in Agents : ToolReturns(s) \/ Suspend(s) \/ Resume(s) \/ EndTurn(s)
    PROVE  DelegationInv'
<1>1. DelegationTypeOK /\ UNCHANGED <<tool, task, core, inbox>>
  BY DEF DelegationInv, UserMessage, ToolReturns, Suspend, Resume, EndTurn
<1>2. PICK s \in Agents, next \in Lives :
        /\ life' = [life EXCEPT ![s] = next] /\ next \notin {"absent", "tool"}
        /\ life[s] # "absent" /\ (s \in Kids => life[s] \notin Off)
        /\ life[s] = "tool" => task[tool[s]].step = "done"
  <2>1. CASE UserMessage
    BY <2>1 DEF UserMessage, Agents, Lives
  <2>2. ASSUME NEW s \in Agents, ToolReturns(s) \/ Suspend(s) \/ Resume(s) \/ EndTurn(s)
        PROVE  \E next \in Lives :
                 /\ life' = [life EXCEPT ![s] = next] /\ next \notin {"absent", "tool"}
                 /\ life[s] # "absent" /\ life[s] \notin Off
                 /\ life[s] = "tool" => task[tool[s]].step = "done"
    BY <2>2 DEF ToolReturns, Suspend, Resume, EndTurn, Ended, Lives, Off
  <2> QED
    BY <2>1, <2>2
<1>3. life \in [Agents -> Lives] /\ life'[s] = next /\ \A t \in Agents \ {s} : life'[t] = life[t]
  BY <1>1, <1>2 DEF DelegationTypeOK
<1>4. DelegationTypeOK'
  BY <1>1, <1>2, <1>3 DEF DelegationTypeOK
<1>5. ASSUME NEW c \in Kids PROVE ChildInv(c)'
  <2>1. ChildInv(c) /\ c \in Agents /\ task[c].by \in Agents
    BY <1>1 DEF DelegationInv, Agents, DelegationTypeOK, TaskRecord
  <2>2. InCall(c) => InCall(c)' \/ task[c].step = "done"
    BY <1>1, <1>2, <1>3, <2>1 DEF InCall
  <2>3. CancelOnItsWay(c) => CancelOnItsWay(c)'
    BY <1>1 DEF CancelOnItsWay
  <2>4. \/ life'[c] = life[c]
        \/ life[c] # "absent" /\ life'[c] # "absent" /\ (life[c] \in Off => life'[c] \in Off)
    BY <1>2, <1>3, <2>1
  <2>5. OnlyOnce(core, SpawnOf(c))
    BY <2>1 DEF ChildInv
  <2> QED
    BY <1>1, <2>1, <2>2, <2>3, <2>4, <2>5, ChildStays
<1>6. CancelsReach'
  BY <1>1, <1>2, <1>3 DEF DelegationInv, CancelsReach, CancelOf
<1>7. ToolsHaveTasks'
  BY <1>1, <1>2, <1>3 DEF DelegationInv, ToolsHaveTasks
<1> QED
  BY <1>4, <1>5, <1>6, <1>7 DEF DelegationInv

\* A call draws the id of a child.
LEMMA ToolIsCalled == ASSUME Root \notin Kids, DelegationInv, NEW s \in Agents, CallTool(s) PROVE DelegationInv'
<1>1. PICK c \in Kids, kind \in {"subagent", "spawn"} :
        /\ life[s] = "turn" /\ task[c] = NoTask
        /\ life' = [life EXCEPT ![s] = "tool"] /\ tool' = [tool EXCEPT ![s] = c]
        /\ task' = [task EXCEPT ![c] = [by |-> s, kind |-> kind, step |-> "dispatch", stop |-> FALSE]]
        /\ UNCHANGED <<core, inbox>>
  BY DEF CallTool
<1>2. PICK new \in TaskRecord : new = [by |-> s, kind |-> kind, step |-> "dispatch", stop |-> FALSE]
  BY DEF TaskRecord, Steps
<1>3. new.by = s /\ new.kind = kind /\ new.step = "dispatch"
  BY <1>2
<1>4. DelegationTypeOK /\ c \in Agents /\ task[c].kind = "none"
  BY <1>1 DEF DelegationInv, Agents, NoTask
<1>5. life[c] = "absent" /\ ~In(core, SpawnOf(c)) /\ OnlyOnce(core, SpawnOf(c)) /\ c # s
  BY <1>1, <1>4 DEF DelegationInv, ChildInv
<1>6. /\ life'[s] = "tool" /\ tool'[s] = c /\ task'[c] = new
      /\ \A t \in Agents \ {s} : life'[t] = life[t] /\ tool'[t] = tool[t]
      /\ \A d \in Kids \ {c} : task'[d] = task[d]
  BY <1>1, <1>2, <1>4 DEF DelegationTypeOK
<1>7. DelegationTypeOK'
  BY <1>1, <1>2, <1>4 DEF DelegationTypeOK, Lives
<1>8. ChildInv(c)'
  <2>1. InCall(c)'
    BY <1>3, <1>6 DEF InCall
  <2>2. life'[c] = "absent" /\ ~In(core', SpawnOf(c)) /\ OnlyOnce(core', SpawnOf(c))
    BY <1>1, <1>4, <1>5, <1>6
  <2> QED
    BY <1>3, <1>6, <2>1, <2>2 DEF ChildInv, SpawnOf
<1>9. ASSUME NEW d \in Kids \ {c} PROVE ChildInv(d)'
  <2>1. ChildInv(d) /\ d \in Agents /\ task[d].by \in Agents /\ task'[d] = task[d]
    BY <1>4, <1>6 DEF DelegationInv, Agents, DelegationTypeOK, TaskRecord
  <2>2. InCall(d) => InCall(d)'
    BY <1>1, <1>6, <2>1 DEF InCall
  <2>3. CancelOnItsWay(d) => CancelOnItsWay(d)'
    BY <1>1 DEF CancelOnItsWay
  <2>4. \/ life'[d] = life[d]
        \/ life[d] # "absent" /\ life'[d] # "absent" /\ (life[d] \in Off => life'[d] \in Off)
    BY <1>1, <1>6, <2>1 DEF Off
  <2>5. OnlyOnce(core, SpawnOf(d))
    BY <2>1 DEF ChildInv
  <2> QED
    BY <1>1, <2>1, <2>2, <2>3, <2>4, <2>5, ChildStays
<1>10. CancelsReach'
  BY <1>1, <1>6 DEF DelegationInv, CancelsReach, CancelOf
<1>11. ToolsHaveTasks'
  BY <1>6 DEF DelegationInv, ToolsHaveTasks
<1> QED
  BY <1>7, <1>8, <1>9, <1>10, <1>11 DEF DelegationInv

\* A step of a task that leaves the sessions alone; what is posted is no
\* spawn but the task's own, and no cancel of a child that never came.
LEMMA TaskSteps ==
    ASSUME DelegationInv, NEW c \in Kids, NEW next \in Steps, task' = [task EXCEPT ![c].step = next],
           UNCHANGED <<life, tool, inbox>>, core' \in Seq(Inputs),
           \A d \in Kids : In(core, CancelOf(d)) => In(core', CancelOf(d)),
           \A d \in Kids \ {c} : In(core', SpawnOf(d)) => In(core, SpawnOf(d)),
           \A d \in Kids : OnlyOnce(core', SpawnOf(d)),
           \A s \in Agents : In(core', CancelOf(s)) => life[s] # "absent",
           task[c].kind # "none", task[c].step # "done", next # "dispatch",
           In(core', SpawnOf(c)) => life[c] = "absent" /\ (task[c].kind = "subagent" => next = "ack"),
           next \in {"acked", "waiting", "cancelling"} => life[c] # "absent",
           task[c].kind = "subagent" /\ next = "done"
               => life[c] \in Off \/ In(core', CancelOf(c)) \/ (life[c] = "absent" /\ ~In(core', SpawnOf(c)))
    PROVE  DelegationInv'
<1>1. DelegationTypeOK
  BY DEF DelegationInv
<1>2. PICK t \in TaskRecord : t = task[c]
  BY <1>1 DEF DelegationTypeOK
<1>3. PICK new \in TaskRecord : new = [t EXCEPT !.step = next]
  BY DEF TaskRecord
<1>4. new.by = t.by /\ new.kind = t.kind /\ new.stop = t.stop /\ new.step = next
  BY <1>3 DEF TaskRecord
<1>5. task' = [task EXCEPT ![c] = new]
  BY <1>2, <1>3
<1>6. task'[c] = new /\ \A d \in Kids \ {c} : task'[d] = task[d]
  BY <1>1, <1>5 DEF DelegationTypeOK
<1>7. DelegationTypeOK'
  BY <1>1, <1>5 DEF DelegationTypeOK
<1>8. \A d \in Kids : CancelOnItsWay(d) => CancelOnItsWay(d)'
  BY DEF CancelOnItsWay, In, CancelOf
<1>9. ASSUME NEW d \in Kids \ {c} PROVE ChildInv(d)'
  <2>1. ChildInv(d) /\ task'[d] = task[d]
    BY <1>6 DEF DelegationInv
  <2>2. InCall(d) => InCall(d)'
    BY <2>1 DEF InCall
  <2> QED
    BY <1>8, <2>1, <2>2, ChildStays
<1>10. ChildInv(c)'
  <2>1. ChildInv(c)
    BY DEF DelegationInv
  <2>2. InCall(c) => InCall(c)'
    BY <1>2, <1>4, <1>6 DEF InCall
  <2>3. new.kind = "subagent" => InCall(c)' \/ new.stop \/ new.step = "done"
    BY <1>2, <1>4, <2>1, <2>2 DEF ChildInv
  <2>4. In(core', CancelOf(c)) => CancelOnItsWay(c)'
    BY DEF CancelOnItsWay, In, CancelOf
  <2>5. new.step = "done" /\ life[c] = "absent" /\ ~In(core', SpawnOf(c)) => NeverCame(c)'
    BY <1>6 DEF NeverCame, In, SpawnOf
  <2>6. new.kind = "subagent" /\ new.step = "done" => life[c] \in Off \/ CancelOnItsWay(c)' \/ NeverCame(c)'
    BY <1>2, <1>4, <2>4, <2>5
  <2>7. /\ ~ (new.kind = "none" \/ new.step = "dispatch")
        /\ In(core', SpawnOf(c)) => life[c] = "absent" /\ (new.kind = "subagent" => new.step = "ack")
        /\ OnlyOnce(core', SpawnOf(c))
        /\ new.step \in {"acked", "waiting", "cancelling"} => life[c] # "absent"
    BY <1>2, <1>4
  <2> QED
    BY <1>6, <2>3, <2>6, <2>7 DEF ChildInv, SpawnOf
<1>11. CancelsReach'
  BY DEF CancelsReach, CancelOf
<1>12. ToolsHaveTasks'
  BY DEF DelegationInv, ToolsHaveTasks
<1> QED
  BY <1>7, <1>9, <1>10, <1>11, <1>12 DEF DelegationInv

\* The same when no task moves.
LEMMA QueueSteps ==
    ASSUME DelegationInv, UNCHANGED <<life, tool, task>>, core' \in Seq(Inputs),
           inbox' \in [Agents -> Seq({"user", "cancel"})],
           \A d \in Kids : In(core, CancelOf(d)) =>
             In(core', CancelOf(d)) \/ In(inbox'[d], "cancel") \/ life[d] \in Off,
           \A d \in Kids : In(inbox[d], "cancel") => In(inbox'[d], "cancel"),
           \A d \in Kids : In(core', SpawnOf(d)) => In(core, SpawnOf(d)),
           \A d \in Kids : OnlyOnce(core', SpawnOf(d)),
           \A s \in Agents : In(core', CancelOf(s)) => life[s] # "absent"
    PROVE  DelegationInv'
<1>1. DelegationTypeOK'
  BY DEF DelegationInv, DelegationTypeOK
<1>2. ASSUME NEW d \in Kids PROVE ChildInv(d)'
  <2>1. ChildInv(d)
    BY DEF DelegationInv
  <2>2. InCall(d) => InCall(d)'
    BY DEF InCall
  <2>3. CancelOnItsWay(d) => CancelOnItsWay(d)' \/ life'[d] \in Off
    BY DEF CancelOnItsWay, In, CancelOf
  <2> QED
    BY <2>1, <2>2, <2>3, ChildStays
<1>3. CancelsReach' /\ ToolsHaveTasks'
  BY DEF DelegationInv, CancelsReach, ToolsHaveTasks, CancelOf
<1> QED
  BY <1>1, <1>2, <1>3 DEF DelegationInv

\* What is in the core's queue after something is posted or taken.
LEMMA CorePosted ==
    ASSUME DelegationInv, NEW what \in {"spawn", "wait", "cancel"}, NEW a \in Agents, Post(<<what, a>>)
    PROVE  /\ core' \in Seq(Inputs)
           /\ \A d \in Agents : In(core', CancelOf(d)) <=> In(core, CancelOf(d)) \/ (what = "cancel" /\ d = a)
           /\ \A d \in Agents : In(core', SpawnOf(d)) <=> In(core, SpawnOf(d)) \/ (what = "spawn" /\ d = a)
           /\ \A d \in Kids : ~ (what = "spawn" /\ d = a /\ In(core, SpawnOf(d))) => OnlyOnce(core', SpawnOf(d))
<1>1. core \in Seq(Inputs) /\ <<what, a>> \in Inputs /\ core' = Append(core, <<what, a>>)
  BY DEF DelegationInv, DelegationTypeOK, Inputs, Post
<1>2. PICK e \in Inputs : e = <<what, a>>
  BY <1>1
<1>3. /\ core' \in Seq(Inputs)
      /\ \A x : In(core', x) <=> In(core, x) \/ x = e
      /\ \A x : OnlyOnce(core, x) /\ (x = e => ~In(core, x)) => OnlyOnce(core', x)
  BY <1>1, <1>2, InAppended
<1>4. \A d : (CancelOf(d) = e <=> what = "cancel" /\ d = a) /\ (SpawnOf(d) = e <=> what = "spawn" /\ d = a)
  BY <1>2 DEF CancelOf, SpawnOf
<1>5. \A d \in Kids : OnlyOnce(core, SpawnOf(d))
  BY DEF DelegationInv, ChildInv
<1> QED
  BY <1>3, <1>4, <1>5

\* The core takes the first of its queue and keeps the others.
LEMMA CoreTaken ==
    ASSUME DelegationInv, NEW what \in {"spawn", "wait", "cancel"}, NEW a \in Agents, Takes(<<what, a>>)
    PROVE  /\ core' \in Seq(Inputs)
           /\ what = "cancel" => In(core, CancelOf(a))
           /\ what = "spawn" => In(core, SpawnOf(a))
           /\ \A d \in Agents : In(core, CancelOf(d)) => In(core', CancelOf(d)) \/ (what = "cancel" /\ d = a)
           /\ \A d \in Agents : In(core', CancelOf(d)) => In(core, CancelOf(d))
           /\ \A d \in Agents : In(core', SpawnOf(d)) => In(core, SpawnOf(d))
           /\ \A d \in Kids : OnlyOnce(core', SpawnOf(d))
           /\ what = "spawn" /\ a \in Kids => ~In(core', SpawnOf(a))
<1>1. core \in Seq(Inputs) /\ core # <<>> /\ Head(core) = <<what, a>> /\ core' = Tail(core)
  BY DEF DelegationInv, DelegationTypeOK, Takes
<1>2. PICK e : e = Head(core)
  OBVIOUS
<1>3. /\ core' \in Seq(Inputs) /\ In(core, e)
      /\ \A x : In(core', x) => In(core, x)
      /\ \A x : In(core, x) => In(core', x) \/ x = e
      /\ \A x : OnlyOnce(core, x) => OnlyOnce(core', x)
      /\ OnlyOnce(core, e) => ~In(core', e)
  BY <1>1, <1>2, InTail
<1>4. e = <<what, a>>
  BY <1>1, <1>2
<1>5. \A d : (CancelOf(d) = e <=> what = "cancel" /\ d = a) /\ (SpawnOf(d) = e <=> what = "spawn" /\ d = a)
  BY <1>4 DEF CancelOf, SpawnOf
<1>6. \A d \in Kids : OnlyOnce(core, SpawnOf(d))
  BY DEF DelegationInv, ChildInv
<1> QED
  BY <1>3, <1>5, <1>6

\* The task of a call (run_subagent_via_harness, the spawn tool).
LEMMA TaskWorks ==
    ASSUME DelegationInv, NEW c \in Kids,
           \/ Dispatch(c) \/ AckTimeout(c) \/ SendWait(c) \/ NoticeCancel(c) \/ SendCancel(c)
           \/ WaitTimesOut(c) \/ StatusArrives(c)
    PROVE  DelegationInv'
<1>1. DelegationTypeOK /\ ChildInv(c) /\ c \in Agents /\ core \in Seq(Inputs) /\ CancelsReach
      /\ \A d \in Kids : OnlyOnce(core, SpawnOf(d))
  BY DEF DelegationInv, DelegationTypeOK, Agents, ChildInv
<1>2. Kids \subseteq Agents
  BY DEF Agents
<1>3. UNCHANGED <<life, tool, inbox>>
  BY DEF Dispatch, AckTimeout, SendWait, NoticeCancel, SendCancel, WaitTimesOut, StatusArrives
<1>4. /\ task[c].kind = "none" => task[c].step = "none"
      /\ task[c].kind = "none" \/ task[c].step = "dispatch" => life[c] = "absent" /\ ~In(core, SpawnOf(c))
      /\ In(core, SpawnOf(c)) => life[c] = "absent" /\ (task[c].kind = "subagent" => task[c].step = "ack")
      /\ task[c].step \in {"acked", "waiting", "cancelling"} => life[c] # "absent"
  BY <1>1 DEF ChildInv
<1>5. \A s \in Agents : In(core, CancelOf(s)) => life[s] # "absent"
  BY <1>1 DEF CancelsReach
<1>6. \A step \in {"ack", "acked", "waiting", "cancelling", "done"} : step \in Steps
  BY DEF Steps
<1>7. CASE Dispatch(c)
  <2>1. task[c].step = "dispatch" /\ Post(<<"spawn", c>>) /\ task' = [task EXCEPT ![c].step = "ack"]
    BY <1>7 DEF Dispatch, Moves
  <2> QED
    BY <1>1, <1>2, <1>3, <1>4, <1>5, <1>6, <2>1, CorePosted, TaskSteps
<1>8. CASE AckTimeout(c)
  <2>1. task[c].step = "ack" /\ task[c].kind = "spawn" /\ core' = core /\ task' = [task EXCEPT ![c].step = "done"]
    BY <1>8 DEF AckTimeout, Moves
  <2> QED
    BY <1>1, <1>3, <1>4, <1>5, <1>6, <2>1, TaskSteps
<1>9. CASE SendWait(c)
  <2>1. task[c].step = "acked" /\ Post(<<"wait", c>>) /\ task' = [task EXCEPT ![c].step = "waiting"]
    BY <1>9 DEF SendWait, Moves
  <2> QED
    BY <1>1, <1>2, <1>3, <1>4, <1>5, <1>6, <2>1, CorePosted, TaskSteps
<1>10. CASE NoticeCancel(c)
  <2>1. task[c].step \in {"acked", "waiting"} /\ core' = core /\ task' = [task EXCEPT ![c].step = "cancelling"]
    BY <1>10 DEF NoticeCancel, Moves
  <2> QED
    BY <1>1, <1>3, <1>4, <1>5, <1>6, <2>1, TaskSteps
<1>11. CASE SendCancel(c)
  <2>1. task[c].step = "cancelling" /\ Post(<<"cancel", c>>) /\ task' = [task EXCEPT ![c].step = "done"]
    BY <1>11 DEF SendCancel, Moves
  <2> QED
    BY <1>1, <1>2, <1>3, <1>4, <1>5, <1>6, <2>1, CorePosted, TaskSteps
<1>12. ASSUME WaitTimesOut(c) \/ StatusArrives(c) PROVE DelegationInv'
  <2>1. core' = core /\ (UNCHANGED task \/ (task[c].step = "waiting" /\ task' = [task EXCEPT ![c].step = "cancelling"])
                        \/ (task[c].step = "waiting" /\ life[c] = "exited" /\ task' = [task EXCEPT ![c].step = "done"]))
    <3>1. CASE WaitTimesOut(c)
      BY <3>1 DEF WaitTimesOut, Moves
    <3>2. CASE StatusArrives(c)
      BY <3>2 DEF StatusArrives, Moves
    <3> QED
      BY <1>12, <3>1, <3>2
  <2>2. ASSUME UNCHANGED task PROVE DelegationInv'
    <3>1. inbox' \in [Agents -> Seq({"user", "cancel"})]
      BY <1>1, <1>3 DEF DelegationTypeOK
    <3> QED
      BY <1>1, <1>3, <1>5, <2>1, <2>2, <3>1, QueueSteps
  <2>3. ASSUME task[c].step = "waiting", task' = [task EXCEPT ![c].step = "cancelling"] PROVE DelegationInv'
    BY <1>1, <1>3, <1>4, <1>5, <1>6, <2>1, <2>3, TaskSteps
  <2>4. ASSUME task[c].step = "waiting", life[c] = "exited", task' = [task EXCEPT ![c].step = "done"] PROVE DelegationInv'
    <3>1. life[c] \in Off
      BY <2>4 DEF Off
    <3> QED
      BY <1>1, <1>3, <1>4, <1>5, <1>6, <2>1, <2>4, <3>1, TaskSteps
  <2> QED
    BY <2>1, <2>2, <2>3, <2>4
<1> QED
  BY <1>7, <1>8, <1>9, <1>10, <1>11, <1>12

\* The core loop (run_core_loop).
LEMMA CoreServes ==
    ASSUME DelegationInv, NEW c \in Kids, HandleWait(c) \/ (HandleSpawn(c) /\ UNCHANGED life)
    PROVE  DelegationInv'
<1>1. DelegationTypeOK /\ c \in Agents /\ Kids \subseteq Agents
  BY DEF DelegationInv, Agents
<1>2. /\ task[c].kind = "none" => task[c].step = "none"
      /\ In(core, SpawnOf(c)) => life[c] = "absent"
      /\ task[c].step \in {"acked", "waiting", "cancelling"} => life[c] # "absent"
  BY DEF DelegationInv, ChildInv
<1>3. \A s \in Agents : In(core, CancelOf(s)) => life[s] # "absent"
  BY DEF DelegationInv, CancelsReach
<1>4. "done" \in Steps /\ inbox \in [Agents -> Seq({"user", "cancel"})]
  BY <1>1 DEF Steps, DelegationTypeOK
<1>5. CASE HandleWait(c)
  <2>1. /\ Takes(<<"wait", c>>) /\ UNCHANGED <<life, tool, inbox>>
        /\ UNCHANGED task \/ (task[c].step = "waiting" /\ life[c] = "exited" /\ task' = [task EXCEPT ![c].step = "done"])
    BY <1>5 DEF HandleWait, Moves
  <2>2. CASE UNCHANGED task
    BY <1>1, <1>3, <1>4, <2>1, <2>2, CoreTaken, QueueSteps
  <2>3. CASE task[c].step = "waiting" /\ life[c] = "exited" /\ task' = [task EXCEPT ![c].step = "done"]
    BY <1>1, <1>2, <1>3, <1>4, <2>1, <2>3, CoreTaken, TaskSteps DEF Off
  <2> QED
    BY <2>1, <2>2, <2>3
<1>6. CASE HandleSpawn(c) /\ UNCHANGED life
  <2>1. Takes(<<"spawn", c>>) /\ life[c] = "absent" /\ UNCHANGED tool
    BY <1>1, <1>2, <1>6, CoreTaken DEF HandleSpawn
  <2>2. UNCHANGED inbox /\ (UNCHANGED task \/ (task[c].step = "ack" /\ task' = [task EXCEPT ![c].step = "done"]))
    <3>1. life' # [life EXCEPT ![c] = "queued"]
      BY <1>1, <1>6, <2>1 DEF DelegationTypeOK
    <3> QED
      BY <1>6, <3>1 DEF HandleSpawn, Reply, Moves
  <2>3. CASE UNCHANGED task
    BY <1>1, <1>3, <1>4, <1>6, <2>1, <2>2, <2>3, CoreTaken, QueueSteps
  <2>4. CASE task[c].step = "ack" /\ task' = [task EXCEPT ![c].step = "done"]
    BY <1>1, <1>2, <1>3, <1>4, <1>6, <2>1, <2>2, <2>4, CoreTaken, TaskSteps
  <2> QED
    BY <2>2, <2>3, <2>4
<1> QED
  BY <1>5, <1>6

\* The child is registered with its task in its inbox (handle_spawn).
LEMMA ChildIsSpawned ==
    ASSUME DelegationInv, NEW c \in Kids, HandleSpawn(c), ~ UNCHANGED life
    PROVE  DelegationInv'
<1>1. DelegationTypeOK /\ c \in Agents /\ ChildInv(c) /\ CancelsReach /\ ToolsHaveTasks
  BY DEF DelegationInv, Agents
<1>2. /\ Takes(<<"spawn", c>>) /\ life' = [life EXCEPT ![c] = "queued"] /\ inbox' = [inbox EXCEPT ![c] = <<"user">>]
      /\ Reply(c, IF task[c].kind = "subagent" THEN "acked" ELSE "done") /\ tool' = tool
  BY DEF HandleSpawn
<1>3. /\ core' \in Seq(Inputs) /\ In(core, SpawnOf(c)) /\ ~In(core', SpawnOf(c))
      /\ \A d \in Agents : In(core, CancelOf(d)) => In(core', CancelOf(d))
      /\ \A d \in Agents : In(core', CancelOf(d)) => In(core, CancelOf(d))
      /\ \A d \in Agents : In(core', SpawnOf(d)) => In(core, SpawnOf(d))
      /\ \A d \in Kids : OnlyOnce(core', SpawnOf(d))
  BY <1>1, <1>2, CoreTaken
<1>4. life[c] = "absent" /\ task[c].kind # "none" /\ task[c].step # "dispatch"
      /\ (task[c].kind = "subagent" => task[c].step = "ack")
  BY <1>1, <1>3 DEF ChildInv
<1>5. PICK t \in TaskRecord : t = task[c]
  BY <1>1 DEF DelegationTypeOK
<1>6. PICK step \in Steps :
        /\ task' = [task EXCEPT ![c].step = step]
        /\ (t.kind = "subagent" => step = "acked") /\ step # "dispatch"
  <2>1. CASE task[c].step = "ack"
    <3>1. task' = [task EXCEPT ![c].step = IF task[c].kind = "subagent" THEN "acked" ELSE "done"]
      BY <1>2, <2>1 DEF Reply, Moves
    <3>2. "acked" \in Steps /\ "done" \in Steps
      BY DEF Steps
    <3> QED
      BY <1>5, <3>1, <3>2
  <2>2. CASE task[c].step # "ack"
    <3>1. task' = task
      BY <1>2, <2>2 DEF Reply
    <3>2. task' = [task EXCEPT ![c].step = t.step] /\ t.step \in Steps
      <4>1. task[c] = [task[c] EXCEPT !.step = t.step] /\ t.step \in Steps
        BY <1>5 DEF TaskRecord
      <4>2. [task EXCEPT ![c].step = t.step] = [task EXCEPT ![c] = task[c]]
        BY <4>1
      <4>3. [task EXCEPT ![c] = task[c]] = task
        BY <1>1 DEF DelegationTypeOK
      <4> QED
        BY <3>1, <4>1, <4>2, <4>3
    <3> QED
      BY <1>4, <1>5, <2>2, <3>2
  <2> QED
    BY <2>1, <2>2
<1>7. PICK new \in TaskRecord : new = [t EXCEPT !.step = step]
  BY DEF TaskRecord
<1>8. new.by = t.by /\ new.kind = t.kind /\ new.stop = t.stop /\ new.step = step
  BY <1>7 DEF TaskRecord
<1>9. task' = [task EXCEPT ![c] = new]
  BY <1>5, <1>6, <1>7
<1>10. /\ task'[c] = new /\ \A d \in Kids \ {c} : task'[d] = task[d]
       /\ life'[c] = "queued" /\ \A s \in Agents \ {c} : life'[s] = life[s]
       /\ \A s \in Agents \ {c} : inbox'[s] = inbox[s]
  BY <1>1, <1>2, <1>9 DEF DelegationTypeOK
<1>11. DelegationTypeOK'
  <2>1. <<"user">> \in Seq({"user", "cancel"}) /\ "queued" \in Lives
    BY DEF Lives
  <2> QED
    BY <1>1, <1>2, <1>3, <1>9, <2>1 DEF DelegationTypeOK
<1>12. ChildInv(c)'
  <2>1. task[c].kind = "subagent" => InCall(c) \/ task[c].stop \/ task[c].step = "done"
    BY <1>1 DEF ChildInv
  <2>2. task[c].by \in Agents
    BY <1>5 DEF TaskRecord
  <2>3. InCall(c) => InCall(c)'
    BY <1>2, <1>4, <1>5, <1>8, <1>10, <2>2 DEF InCall
  <2>4. new.kind = "subagent" => InCall(c)' \/ new.stop
    BY <1>4, <1>5, <1>8, <2>1, <2>3
  <2>5. new.kind # "none" /\ new.step # "dispatch" /\ (new.kind = "subagent" => new.step = "acked")
    BY <1>4, <1>5, <1>6, <1>8
  <2> QED
    BY <1>3, <1>10, <2>4, <2>5 DEF ChildInv, SpawnOf
<1>13. ASSUME NEW d \in Kids \ {c} PROVE ChildInv(d)'
  <2>1. ChildInv(d) /\ d \in Agents /\ task[d].by \in Agents /\ task'[d] = task[d]
    BY <1>1, <1>10 DEF DelegationInv, Agents, DelegationTypeOK, TaskRecord
  <2>2. InCall(d) => InCall(d)'
    BY <1>2, <1>4, <1>10, <2>1 DEF InCall
  <2>3. CancelOnItsWay(d) => CancelOnItsWay(d)'
    BY <1>3, <1>10, <2>1 DEF CancelOnItsWay, In, CancelOf
  <2>4. life'[d] = life[d]
    BY <1>10, <2>1
  <2> QED
    BY <1>3, <2>1, <2>2, <2>3, <2>4, ChildStays
<1>14. CancelsReach'
  BY <1>1, <1>3, <1>10 DEF CancelsReach
<1>15. ToolsHaveTasks'
  BY <1>1, <1>2, <1>10 DEF ToolsHaveTasks
<1> QED
  BY <1>11, <1>12, <1>13, <1>14, <1>15 DEF DelegationInv

\* A Cancel goes to the actor of a session that still has one
\* (handle_cancel), and the user's Cancel to the core.
LEMMA CancelIsHandled ==
    ASSUME Root \notin Kids, DelegationInv, NEW s \in Agents, HandleCancel(s) \/ UserCancels(s)
    PROVE  DelegationInv'
<1>1. DelegationTypeOK /\ CancelsReach /\ Kids \subseteq Agents /\ UNCHANGED <<life, tool, task>>
  BY DEF DelegationInv, Agents, HandleCancel, UserCancels
<1>2. CASE HandleCancel(s)
  <2>1. /\ Takes(<<"cancel", s>>)
        /\ inbox' = IF Alive(s) THEN [inbox EXCEPT ![s] = Append(@, "cancel")] ELSE inbox
    BY <1>2 DEF HandleCancel
  <2>2. /\ core' \in Seq(Inputs) /\ In(core, CancelOf(s))
        /\ \A d \in Agents : In(core, CancelOf(d)) => In(core', CancelOf(d)) \/ d = s
        /\ \A d \in Agents : In(core', CancelOf(d)) => In(core, CancelOf(d))
        /\ \A d \in Agents : In(core', SpawnOf(d)) => In(core, SpawnOf(d))
        /\ \A d \in Kids : OnlyOnce(core', SpawnOf(d))
    BY <2>1, CoreTaken
  <2>3. life[s] # "absent"
    BY <1>1, <2>2 DEF CancelsReach
  <2>4. /\ inbox[s] \in Seq({"user", "cancel"}) /\ Append(inbox[s], "cancel") \in Seq({"user", "cancel"})
        /\ \A x : In(Append(inbox[s], "cancel"), x) <=> In(inbox[s], x) \/ x = "cancel"
    <3>1. inbox[s] \in Seq({"user", "cancel"}) /\ "cancel" \in {"user", "cancel"}
      BY <1>1 DEF DelegationTypeOK
    <3>2. PICK q \in Seq({"user", "cancel"}) : q = inbox[s]
      BY <3>1
    <3>3. /\ Append(q, "cancel") \in Seq({"user", "cancel"})
          /\ \A x : In(Append(q, "cancel"), x) <=> In(q, x) \/ x = "cancel"
      BY <3>1, InAppended
    <3> QED
      BY <3>2, <3>3
  <2>5. inbox \in [Agents -> Seq({"user", "cancel"})]
    BY <1>1 DEF DelegationTypeOK
  <2>6. inbox' \in [Agents -> Seq({"user", "cancel"})]
    BY <2>1, <2>4, <2>5
  <2>7. \A d \in Agents : d # s => inbox'[d] = inbox[d]
    BY <2>1, <2>5
  <2>8. IF life[s] \in Off THEN TRUE ELSE inbox'[s] = Append(inbox[s], "cancel")
    BY <2>1, <2>3, <2>5 DEF Alive, Off
  <2>9. inbox'[s] = inbox[s] \/ inbox'[s] = Append(inbox[s], "cancel")
    BY <2>1, <2>5
  <2>10. \A d \in Kids : In(inbox[d], "cancel") => In(inbox'[d], "cancel")
    BY <1>1, <2>4, <2>7, <2>9
  <2>11. \A d \in Kids : In(core, CancelOf(d)) => In(core', CancelOf(d)) \/ In(inbox'[d], "cancel") \/ life[d] \in Off
    BY <1>1, <2>2, <2>4, <2>8
  <2>12. /\ \A d \in Kids : In(core', SpawnOf(d)) => In(core, SpawnOf(d))
         /\ \A t \in Agents : In(core', CancelOf(t)) => life[t] # "absent"
    BY <1>1, <2>2 DEF CancelsReach
  <2> QED
    BY <1>1, <2>2, <2>6, <2>10, <2>11, <2>12, QueueSteps
<1>3. CASE UserCancels(s)
  <2>1. Post(<<"cancel", s>>) /\ inbox' = inbox /\ life[s] # "absent"
    BY <1>3 DEF UserCancels, Alive
  <2>2. /\ core' \in Seq(Inputs)
        /\ \A d \in Agents : In(core', CancelOf(d)) <=> In(core, CancelOf(d)) \/ d = s
        /\ \A d \in Agents : In(core', SpawnOf(d)) <=> In(core, SpawnOf(d))
        /\ \A d \in Kids : OnlyOnce(core', SpawnOf(d))
    BY <2>1, CorePosted
  <2>3. inbox' \in [Agents -> Seq({"user", "cancel"})]
    BY <1>1, <2>1 DEF DelegationTypeOK
  <2>4. /\ \A d \in Kids : In(core', SpawnOf(d)) => In(core, SpawnOf(d))
        /\ \A d \in Kids : In(core, CancelOf(d)) => In(core', CancelOf(d))
        /\ \A t \in Agents : In(core', CancelOf(t)) => life[t] # "absent"
    BY <1>1, <2>1, <2>2 DEF CancelsReach
  <2> QED
    BY <1>1, <2>1, <2>2, <2>3, <2>4, QueueSteps
<1> QED
  BY <1>2, <1>3

\* A child's exit is recorded, and a session takes its task from its inbox.
LEMMA ActorSteps ==
    ASSUME Root \notin Kids, DelegationInv,
           (\E c \in Kids : RecordExit(c)) \/ (\E s \in Agents : TakeUser(s))
    PROVE  DelegationInv'
<1>1. DelegationTypeOK /\ UNCHANGED <<tool, task, core>>
  BY DEF DelegationInv, RecordExit, TakeUser
<1>2. PICK s \in Agents, next \in Lives, rest \in Seq({"user", "cancel"}) :
        /\ life' = [life EXCEPT ![s] = next] /\ inbox' = [inbox EXCEPT ![s] = rest]
        /\ next \in Off \/ (life[s] \notin Off /\ (In(inbox[s], "cancel") => In(rest, "cancel")))
        /\ next \notin {"absent", "tool"} /\ life[s] \notin {"absent", "tool"}
  <2>1. ASSUME NEW c \in Kids, RecordExit(c)
        PROVE  \E s \in Agents, next \in Lives, rest \in Seq({"user", "cancel"}) :
                 /\ life' = [life EXCEPT ![s] = next] /\ inbox' = [inbox EXCEPT ![s] = rest]
                 /\ next \in Off \/ (life[s] \notin Off /\ (In(inbox[s], "cancel") => In(rest, "cancel")))
                 /\ next \notin {"absent", "tool"} /\ life[s] \notin {"absent", "tool"}
    <3>1. c \in Agents /\ "exited" \in Lives /\ "exited" \in Off /\ <<>> \in Seq({"user", "cancel"})
      BY DEF Agents, Lives, Off
    <3>2. life' = [life EXCEPT ![c] = "exited"] /\ inbox' = [inbox EXCEPT ![c] = <<>>] /\ life[c] = "finished"
      BY <2>1 DEF RecordExit
    <3> QED
      BY <3>1, <3>2
  <2>2. ASSUME NEW s \in Agents, TakeUser(s)
        PROVE  \E next \in Lives, rest \in Seq({"user", "cancel"}) :
                 /\ life' = [life EXCEPT ![s] = next] /\ inbox' = [inbox EXCEPT ![s] = rest]
                 /\ next \in Off \/ (life[s] \notin Off /\ (In(inbox[s], "cancel") => In(rest, "cancel")))
                 /\ next \notin {"absent", "tool"} /\ life[s] \notin {"absent", "tool"}
    <3>1. PICK q \in Seq({"user", "cancel"}) : q = inbox[s]
      BY <1>1 DEF DelegationTypeOK
    <3>2. /\ q # <<>> /\ Head(q) = "user" /\ life[s] = "queued"
          /\ life' = [life EXCEPT ![s] = "turn"] /\ inbox' = [inbox EXCEPT ![s] = Tail(q)]
      BY <2>2, <3>1 DEF TakeUser
    <3>3. Tail(q) \in Seq({"user", "cancel"}) /\ \A x : In(q, x) => In(Tail(q), x) \/ x = Head(q)
      BY <3>2, InTail
    <3>4. In(inbox[s], "cancel") => In(Tail(q), "cancel")
      BY <3>1, <3>2, <3>3
    <3>5. "turn" \in Lives /\ "queued" \notin Off
      BY DEF Lives, Off
    <3> QED
      BY <3>2, <3>3, <3>4, <3>5
  <2> QED
    BY <2>1, <2>2
<1>3. /\ life'[s] = next /\ \A t \in Agents \ {s} : life'[t] = life[t]
      /\ inbox'[s] = rest /\ \A t \in Agents \ {s} : inbox'[t] = inbox[t]
  BY <1>1, <1>2 DEF DelegationTypeOK
<1>4. DelegationTypeOK'
  BY <1>1, <1>2 DEF DelegationTypeOK
<1>5. ASSUME NEW c \in Kids PROVE ChildInv(c)'
  <2>1. ChildInv(c) /\ c \in Agents /\ task[c].by \in Agents
    BY <1>1 DEF DelegationInv, Agents, DelegationTypeOK, TaskRecord
  <2>2. InCall(c) => InCall(c)'
    BY <1>1, <1>2, <1>3, <2>1 DEF InCall
  <2>3. CancelOnItsWay(c) => CancelOnItsWay(c)' \/ life'[c] \in Off
    BY <1>1, <1>2, <1>3, <2>1 DEF CancelOnItsWay, In
  <2>4. \/ life'[c] = life[c]
        \/ life[c] # "absent" /\ life'[c] # "absent" /\ (life[c] \in Off => life'[c] \in Off)
    BY <1>2, <1>3, <2>1
  <2>5. OnlyOnce(core, SpawnOf(c))
    BY <2>1 DEF ChildInv
  <2> QED
    BY <1>1, <2>1, <2>2, <2>3, <2>4, <2>5, ChildStays
<1>6. CancelsReach'
  BY <1>1, <1>2, <1>3 DEF DelegationInv, CancelsReach, CancelOf
<1>7. ToolsHaveTasks'
  BY <1>1, <1>2, <1>3 DEF DelegationInv, ToolsHaveTasks
<1> QED
  BY <1>4, <1>5, <1>6, <1>7 DEF DelegationInv

\* A session takes a Cancel: it is at rest or finished, and a call it was in
\* raises the flag of its task (interrupt_turn, ChildSessionCancelGuard).
LEMMA SessionIsCancelled ==
    ASSUME Root \notin Kids, DelegationInv, NEW s \in Agents, TakeCancel(s)
    PROVE  DelegationInv'
<1>1. DelegationTypeOK /\ ToolsHaveTasks /\ CancelsReach /\ Kids \subseteq Agents
      /\ tool' = tool /\ core' = core
  BY DEF DelegationInv, Agents, TakeCancel
<1>2. PICK q \in Seq({"user", "cancel"}) : q = inbox[s]
  BY <1>1 DEF DelegationTypeOK
<1>3. q # <<>> /\ inbox' = [inbox EXCEPT ![s] = Tail(q)] /\ life[s] \in {"turn", "tool", "waiting", "rest"}
  BY <1>2 DEF TakeCancel
<1>4. Tail(q) \in Seq({"user", "cancel"})
  BY <1>3, InTail
<1>5. PICK next \in Off : life' = [life EXCEPT ![s] = next]
  <2>1. Ended(s) \in Off /\ "rest" \in Off
    BY DEF Ended, Off
  <2>2. (IF life[s] \in {"turn", "tool"} THEN Ended(s) ELSE "rest") \in Off
    BY <2>1
  <2>3. life' = [life EXCEPT ![s] = IF life[s] \in {"turn", "tool"} THEN Ended(s) ELSE "rest"]
    BY DEF TakeCancel
  <2> QED
    BY <2>2, <2>3
<1>6. next \in Lives /\ next \notin {"absent", "tool"} /\ life[s] # "absent"
  BY <1>3, <1>5 DEF Off, Lives
<1>7. /\ life'[s] = next /\ \A t \in Agents \ {s} : life'[t] = life[t]
      /\ \A t \in Agents \ {s} : inbox'[t] = inbox[t]
  BY <1>1, <1>3, <1>5 DEF DelegationTypeOK
<1>8. ASSUME NEW c \in Kids, task'[c] = task[c], InCall(c) => InCall(c)' PROVE ChildInv(c)'
  <2>1. ChildInv(c) /\ c \in Agents
    BY <1>1 DEF DelegationInv
  <2>2. CancelOnItsWay(c) => CancelOnItsWay(c)' \/ life'[c] \in Off
    BY <1>1, <1>5, <1>7, <2>1 DEF CancelOnItsWay
  <2>3. \/ life'[c] = life[c]
        \/ life[c] # "absent" /\ life'[c] # "absent" /\ (life[c] \in Off => life'[c] \in Off)
    BY <1>5, <1>6, <1>7, <2>1
  <2>4. OnlyOnce(core, SpawnOf(c))
    BY <2>1 DEF ChildInv
  <2> QED
    BY <1>1, <1>8, <2>1, <2>2, <2>3, <2>4, ChildStays
<1>9. CancelsReach'
  BY <1>1, <1>6, <1>7 DEF CancelsReach, CancelOf
<1>10. ToolsHaveTasks'
  BY <1>1, <1>6, <1>7 DEF ToolsHaveTasks
<1>11. CASE life[s] # "tool"
  <2>1. task' = task
    BY <1>11 DEF TakeCancel
  <2>2. ASSUME NEW c \in Kids PROVE ChildInv(c)'
    <3>1. task[c].by \in Agents
      BY <1>1 DEF DelegationTypeOK, TaskRecord
    <3>2. InCall(c) => InCall(c)'
      BY <1>1, <1>7, <1>11, <2>1, <3>1 DEF InCall
    <3> QED
      BY <1>8, <2>1, <3>2
  <2>3. DelegationTypeOK'
    BY <1>1, <1>3, <1>4, <1>5, <1>6, <2>1 DEF DelegationTypeOK
  <2> QED
    BY <1>9, <1>10, <2>2, <2>3 DEF DelegationInv
<1>12. CASE life[s] = "tool"
  <2>1. PICK c \in Kids : c = tool[s]
    BY <1>1, <1>12 DEF ToolsHaveTasks
  <2>2. PICK t \in TaskRecord : t = task[c]
    BY <1>1 DEF DelegationTypeOK
  <2>3. task' = [task EXCEPT ![c] = Interrupted(t)]
    <3>1. task' = [task EXCEPT ![tool[s]] = Interrupted(task[tool[s]])]
      BY <1>12 DEF TakeCancel
    <3> QED
      BY <2>1, <2>2, <3>1
  <2>4. PICK new \in TaskRecord : new = Interrupted(t)
    <3>1. CASE t.kind = "subagent"
      <4>1. [t EXCEPT !.stop = TRUE] \in TaskRecord
        BY DEF TaskRecord
      <4> QED
        BY <3>1, <4>1 DEF Interrupted
    <3>2. CASE t.kind # "subagent"
      <4>1. t.step \in Steps /\ "lost" \in Steps
        BY DEF TaskRecord, Steps
      <4>2. \A n \in Steps : [t EXCEPT !.step = n] \in TaskRecord
        BY DEF TaskRecord
      <4> QED
        BY <3>2, <4>1, <4>2 DEF Interrupted
    <3> QED
      BY <3>1, <3>2
  <2>5. /\ new.by = t.by /\ new.kind = t.kind
        /\ t.kind = "subagent" => new.stop /\ new.step = t.step
        /\ t.kind # "subagent" => new.step = t.step \/ (t.step \in {"dispatch", "ack"} /\ new.step = "lost")
    <3>1. CASE t.kind = "subagent"
      <4>1. new = [t EXCEPT !.stop = TRUE]
        BY <2>4, <3>1 DEF Interrupted
      <4> QED
        BY <3>1, <4>1 DEF TaskRecord
    <3>2. CASE t.kind # "subagent"
      <4>1. new = [t EXCEPT !.step = IF t.step \in {"dispatch", "ack"} THEN "lost" ELSE t.step]
        BY <2>4, <3>2 DEF Interrupted
      <4> QED
        BY <3>2, <4>1 DEF TaskRecord
    <3> QED
      BY <3>1, <3>2
  <2>6. task'[c] = new /\ \A d \in Kids \ {c} : task'[d] = task[d]
    BY <1>1, <2>3, <2>4 DEF DelegationTypeOK
  <2>7. DelegationTypeOK'
    BY <1>1, <1>3, <1>4, <1>5, <1>6, <2>3, <2>4 DEF DelegationTypeOK
  <2>8. ASSUME NEW d \in Kids \ {c} PROVE ChildInv(d)'
    <3>1. task[d].by \in Agents
      BY <1>1 DEF DelegationTypeOK, TaskRecord
    <3>2. InCall(d) => InCall(d)'
      BY <1>1, <1>7, <2>1, <2>6, <3>1 DEF InCall
    <3> QED
      BY <1>8, <2>6, <3>2
  <2>9. ChildInv(c)'
    <3>1. /\ t.kind = "none" => t.step = "none"
          /\ t.kind = "none" \/ t.step = "dispatch" => life[c] = "absent" /\ ~In(core, SpawnOf(c))
          /\ In(core, SpawnOf(c)) => life[c] = "absent" /\ (t.kind = "subagent" => t.step = "ack")
          /\ OnlyOnce(core, SpawnOf(c))
          /\ t.step \in {"acked", "waiting", "cancelling"} => life[c] # "absent"
          /\ t.kind = "subagent" /\ t.step = "done" => life[c] \in Off \/ CancelOnItsWay(c) \/ NeverCame(c)
      BY <2>2 DEF DelegationInv, ChildInv
    <3>2. c \in Agents /\ (life[c] = "absent" <=> life'[c] = "absent") /\ (life[c] \in Off => life'[c] \in Off)
      BY <1>1, <1>5, <1>6, <1>7
    <3>3. CancelOnItsWay(c) => CancelOnItsWay(c)' \/ life'[c] \in Off
      BY <1>1, <1>5, <1>7, <3>2 DEF CancelOnItsWay
    <3>4. NeverCame(c) /\ new.step = "done" => NeverCame(c)'
      BY <1>1, <2>6, <3>2 DEF NeverCame
    <3>5. new.kind = "subagent" /\ new.step = "done" => life'[c] \in Off \/ CancelOnItsWay(c)' \/ NeverCame(c)'
      BY <2>5, <3>1, <3>2, <3>3, <3>4
    <3>6. /\ new.kind = "none" => new.step = "none"
          /\ new.kind = "none" \/ new.step = "dispatch" => life'[c] = "absent" /\ ~In(core, SpawnOf(c))
          /\ In(core, SpawnOf(c)) => life'[c] = "absent" /\ (new.kind = "subagent" => new.step = "ack")
          /\ new.step \in {"acked", "waiting", "cancelling"} => life'[c] # "absent"
          /\ new.kind = "subagent" => new.stop
      BY <2>5, <3>1, <3>2
    <3> QED
      BY <1>1, <2>6, <3>1, <3>5, <3>6, Zenon DEF ChildInv, SpawnOf
  <2> QED
    BY <1>9, <1>10, <2>7, <2>8, <2>9 DEF DelegationInv
<1> QED
  BY <1>11, <1>12

(* A subagent does not outlive its call: once the call has ended (result,   *)
(* timeout, or its session was interrupted and went on without it), the     *)
(* child is at rest or about to be cancelled, by its task or by a Cancel on *)
(* its way (run_subagent_via_harness, ChildSessionCancelGuard), for any     *)
(* number of children, calls and children of children.                      *)
THEOREM NoSubagentIsForgottenCorrect == Root \notin Kids => (DelegationSpec => []NoSubagentIsForgotten)
<1> SUFFICES ASSUME Root \notin Kids PROVE DelegationSpec => []NoSubagentIsForgotten
  OBVIOUS
<1>1. DelegationInit => DelegationInv
  BY DelegationStarts
<1>2. ASSUME DelegationInv, [DelegationNext]_delegationVars PROVE DelegationInv'
  <2>1. ASSUME UNCHANGED delegationVars PROVE DelegationInv'
    BY <1>2, <2>1 DEF delegationVars, DelegationInv, DelegationTypeOK, CancelsReach, ToolsHaveTasks, ChildInv,
       InCall, CancelOnItsWay, NeverCame
  <2>2. CASE UserMessage
    BY <1>2, <2>2, TurnsDelegate
  <2>3. ASSUME NEW s \in Agents, ToolReturns(s) \/ Suspend(s) \/ Resume(s) \/ EndTurn(s) PROVE DelegationInv'
    BY <1>2, <2>3, TurnsDelegate
  <2>4. ASSUME NEW s \in Agents, CallTool(s) PROVE DelegationInv'
    BY <1>2, <2>4, ToolIsCalled
  <2>5. ASSUME NEW s \in Agents, HandleCancel(s) \/ UserCancels(s) PROVE DelegationInv'
    BY <1>2, <2>5, CancelIsHandled
  <2>6. ASSUME NEW s \in Agents, TakeUser(s) PROVE DelegationInv'
    BY <1>2, <2>6, ActorSteps
  <2>7. ASSUME NEW s \in Agents, TakeCancel(s) PROVE DelegationInv'
    BY <1>2, <2>7, SessionIsCancelled
  <2>8. ASSUME NEW c \in Kids,
               \/ Dispatch(c) \/ AckTimeout(c) \/ SendWait(c) \/ NoticeCancel(c) \/ SendCancel(c)
               \/ WaitTimesOut(c) \/ StatusArrives(c)
        PROVE  DelegationInv'
    BY <1>2, <2>8, TaskWorks
  <2>9. ASSUME NEW c \in Kids, HandleSpawn(c) PROVE DelegationInv'
    BY <1>2, <2>9, CoreServes, ChildIsSpawned
  <2>10. ASSUME NEW c \in Kids, HandleWait(c) PROVE DelegationInv'
    BY <1>2, <2>10, CoreServes
  <2>11. ASSUME NEW c \in Kids, RecordExit(c) PROVE DelegationInv'
    BY <1>2, <2>11, ActorSteps
  <2> QED
    BY <1>2, <2>1, <2>2, <2>3, <2>4, <2>5, <2>6, <2>7, <2>8, <2>9, <2>10, <2>11 DEF DelegationNext
<1>3. DelegationInv => NoSubagentIsForgotten
  BY DEF DelegationInv, ChildInv, NoSubagentIsForgotten, Off
<1> QED
  BY <1>1, <1>2, <1>3, PTL DEF DelegationSpec

----------------------------------------------------------------------------
(* The Telegram bridge.                                                     *)

Places == {"start", "load", "create", "send", "show", "write", "answer", "collect", "insert", "prepare"}
Collecting == {"collect", "insert", "prepare"}
SomeSession == BotSessions \cup {NoBotSession}
Question == [id : Nat, session : SomeSession, turn : Nat]
BotTask ==
    {w \in [kind : Messages \cup Callbacks, button : Nat, at : Places, session : SomeSession, turn : Nat,
            pending : Question, output : Question] :
        w.at \in {"send", "show"} => w.session \in BotSessions}
BotChat == [session : SomeSession, plan : BOOLEAN, pending : Question]
BotSession == [made : BOOLEAN, plan : BOOLEAN, queue : Seq(Nat), running : Nat, question : Nat]
Update == [kind : Messages \cup Callbacks, button : Nat]
Tally == [turns : Nat, questions : Nat, failures : Nat, restarts : Nat]


BridgeTypeOK ==
    /\ updates \in Seq(Update) /\ shown \in Seq(Nat) /\ confirmed \in Nat /\ batch \in Seq(Nat) /\ offset \in Nat
    /\ handled \in [1..MaxUpdates -> Nat] /\ overlapped \in BOOLEAN /\ count \in Tally
    /\ updateTask \in [Tasks -> {<<>>} \cup BotTask]
    /\ chatState \in {<<>>} \cup BotChat
    /\ session \in [BotSessions -> BotSession]

(* The first update that no task has got since the last restart.            *)
Untaken == IF batch # <<>> THEN batch[1] ELSE IF offset > confirmed THEN offset ELSE confirmed + 1
PollInv ==
    /\ \A i \in DOMAIN batch : batch[i] = batch[1] + i - 1 /\ batch[i] \in DOMAIN updates
    /\ offset <= Untaken /\ confirmed < Untaken
    /\ \A u \in 1..MaxUpdates : handled[u] <= count.restarts \/ (u < Untaken /\ handled[u] <= count.restarts + 1)
    /\ \A u \in 1..MaxUpdates : u < Untaken => handled[u] > 0

(* A session still asks the question q.                                     *)
Asks(sessions, q) ==
    q # NoQuestion => q.session \in BotSessions /\ q.id # Nothing /\ sessions[q.session].question = q.id

(* What the chat shows as pending is still asked, and was shown last.       *)
ChatAsks(sessions, newest, held) ==
    held # <<>> => /\ Asks(sessions, held.pending)
                   /\ held.pending # NoQuestion => held.pending.id = newest

(* What a task is about to answer, or to show, is still asked.              *)
InHand(sessions, newest, w) ==
    /\ w.at \in {"answer", "write"} =>
          w.pending # NoQuestion /\ Asks(sessions, w.pending) /\ w.pending.id = newest
    /\ w.at \in {"insert", "prepare"} => Asks(sessions, w.output)

(* With one task at a time, what is in hand is still asked, and so is what  *)
(* the chat shows unless a task is after the output that will replace it.   *)
AnswerInv ==
    /\ \A t, u \in Busy : t = u
    /\ \A t \in Busy : InHand(session, Newest, updateTask[t])
    /\ (\A t \in Busy : updateTask[t].at \notin Collecting) => ChatAsks(session, Newest, chatState)
    /\ \A a \in answers : Meets(a)

Undisturbed == ~overlapped /\ count.failures = 0
BridgeInv == BridgeTypeOK /\ PollInv /\ (Undisturbed => AnswerInv)

\* A task that goes on is one.
LEMMA TaskIsSomething == ASSUME NEW w \in BotTask PROVE w # <<>>
<1>1. DOMAIN w = {"kind", "button", "at", "session", "turn", "pending", "output"}
  BY Zenon DEF BotTask
<1>2. "kind" \in DOMAIN w
  BY <1>1
<1>3. DOMAIN <<>> = {}
  OBVIOUS
<1> QED
  BY <1>2, <1>3

\* The bridge starts with nothing polled, asked or answered.
LEMMA BridgeStarts == ASSUME TelegramInit PROVE BridgeInv
<1>1. session \in [BotSessions -> BotSession]
  <2>1. [made |-> FALSE, plan |-> FALSE, queue |-> <<>>, running |-> Nothing, question |-> Nothing] \in BotSession
    BY DEF BotSession, Nothing
  <2> QED
    BY <2>1 DEF TelegramInit
<1>2. updateTask \in [Tasks -> {<<>>} \cup BotTask] /\ Busy = {}
  BY DEF TelegramInit, Busy
<1>3. BridgeTypeOK
  <2>1. updates \in Seq(Update) /\ shown \in Seq(Nat) /\ batch \in Seq(Nat)
    BY DEF TelegramInit
  <2>2. confirmed \in Nat /\ offset \in Nat /\ overlapped \in BOOLEAN /\ handled \in [1..MaxUpdates -> Nat]
    BY DEF TelegramInit
  <2>3. count \in Tally /\ chatState \in {<<>>} \cup BotChat
    BY DEF TelegramInit, Tally
  <2> QED
    BY <1>1, <1>2, <2>1, <2>2, <2>3 DEF BridgeTypeOK
<1>4. PollInv
  BY DEF TelegramInit, PollInv, Untaken
<1>5. AnswerInv
  BY <1>2 DEF TelegramInit, AnswerInv, ChatAsks
<1> QED
  BY <1>3, <1>4, <1>5 DEF BridgeInv

\* Nothing is polled and nothing restarts.
LEMMA PollStays == ASSUME PollInv, UNCHANGED pollVars, count'.restarts = count.restarts PROVE PollInv'
<1>1. UNCHANGED <<updates, confirmed, batch, offset, handled>>
  BY DEF pollVars
<1>2. Untaken' = Untaken
  BY <1>1 DEF Untaken
<1> QED
  BY <1>1, <1>2 DEF PollInv

\* What is asked stays asked as long as no session drops its question.
LEMMA AsksStays ==
    ASSUME NEW before, NEW after, \A s \in BotSessions : before[s].question # Nothing => after[s].question = before[s].question,
           NEW q, Asks(before, q)
    PROVE  Asks(after, q)
BY DEF Asks

\* The same for what a task has in hand.
LEMMA HandStays ==
    ASSUME NEW before, NEW after, \A s \in BotSessions : before[s].question # Nothing => after[s].question = before[s].question,
           NEW newest, NEW w, InHand(before, newest, w)
    PROVE  InHand(after, newest, w)
BY AsksStays DEF InHand

\* A busy task is in a place of its own.
LEMMA BusyTask == ASSUME BridgeTypeOK, NEW t \in Busy PROVE t \in Tasks /\ updateTask[t] \in BotTask
BY DEF BridgeTypeOK, Busy

(* A step of the one task that is busy: it goes to another place, or ends.  *)
LEMMA OneMoves ==
    ASSUME BridgeTypeOK, AnswerInv, NEW t \in Busy, NEW next, Goes(t, next),
           next # <<>> => InHand(session', Newest', next),
           (next = <<>> \/ next.at \notin Collecting) => ChatAsks(session', Newest', chatState'),
           \A a \in answers' : Meets(a)
    PROVE  AnswerInv'
<1>1. t \in Tasks /\ \A u \in Tasks : u # t => updateTask[u] = <<>>
  BY DEF AnswerInv, Busy
<1>2. \A u \in Tasks : updateTask'[u] = IF u = t THEN next ELSE updateTask[u]
  BY DEF Goes, BridgeTypeOK
<1>3. Busy' = {u \in Tasks : updateTask'[u] # <<>>}
  BY DEF Busy
<1>4. \A u \in Busy' : u = t /\ updateTask'[u] = next /\ next # <<>>
  BY <1>1, <1>2, <1>3
<1>5. next # <<>> => t \in Busy'
  BY <1>1, <1>2, <1>3
<1>6. (\A u \in Busy' : updateTask'[u].at \notin Collecting) => ChatAsks(session', Newest', chatState')
  BY <1>4, <1>5
<1>7. \A u \in Busy' : InHand(session', Newest', updateTask'[u])
  BY <1>4
<1> QED
  BY <1>4, <1>6, <1>7, Zenon DEF AnswerInv

(* The same for all of the invariant, whatever buttons the chat gets.       *)
LEMMA TaskMovesTo ==
    ASSUME BridgeInv, shown' \in Seq(Nat), NEW t \in Busy, NEW next, Goes(t, next), next \in {<<>>} \cup BotTask,
           UNCHANGED pollVars, count' \in Tally, count'.restarts = count.restarts, count'.failures >= count.failures,
           chatState' \in {<<>>} \cup BotChat, session' \in [BotSessions -> BotSession],
           (Undisturbed /\ Undisturbed' /\ AnswerInv) =>
              /\ next # <<>> => InHand(session', Newest', next)
              /\ (next = <<>> \/ next.at \notin Collecting) => ChatAsks(session', Newest', chatState')
              /\ \A a \in answers' : Meets(a)
    PROVE  BridgeInv'
<1>1. PollInv'
  BY PollStays DEF BridgeInv
<1>2. UNCHANGED <<updates, confirmed, batch, offset, handled, overlapped>>
  BY DEF pollVars
<1>3. updateTask' \in [Tasks -> {<<>>} \cup BotTask]
  BY DEF BridgeInv, BridgeTypeOK, Goes, Busy
<1>4. BridgeTypeOK'
  BY <1>2, <1>3 DEF BridgeInv, BridgeTypeOK
<1>5. Undisturbed' => Undisturbed
  BY <1>2 DEF Undisturbed, BridgeInv, BridgeTypeOK, Tally
<1>6. ASSUME Undisturbed' PROVE AnswerInv'
  <2>1. BridgeTypeOK /\ AnswerInv
    BY <1>5, <1>6 DEF BridgeInv
  <2> QED
    BY <1>5, <1>6, <2>1, OneMoves
<1> QED
  BY <1>1, <1>4, <1>6 DEF BridgeInv

(* The same when the chat gets no buttons.                                  *)
LEMMA TaskMoves ==
    ASSUME BridgeInv, UNCHANGED shown, NEW t \in Busy, NEW next, Goes(t, next), next \in {<<>>} \cup BotTask,
           UNCHANGED pollVars, count' \in Tally, count'.restarts = count.restarts, count'.failures >= count.failures,
           chatState' \in {<<>>} \cup BotChat, session' \in [BotSessions -> BotSession],
           (Undisturbed /\ Undisturbed' /\ AnswerInv) =>
              /\ next # <<>> => InHand(session', Newest, next)
              /\ (next = <<>> \/ next.at \notin Collecting) => ChatAsks(session', Newest, chatState')
              /\ \A a \in answers' : Meets(a)
    PROVE  BridgeInv'
<1>1. Newest' = Newest /\ shown' \in Seq(Nat)
  BY DEF Newest, BridgeInv, BridgeTypeOK
<1> QED
  BY <1>1, TaskMovesTo

----------------------------------------------------------------------------
(* A task's steps.                                                          *)

\* A task at a place is busy, and its record with other fields is a task.
LEMMA AtPlace ==
    ASSUME BridgeInv, NEW t, NEW place, At(t, place)
    PROVE  t \in Busy /\ t \in Tasks /\ updateTask[t] \in BotTask /\ updateTask[t].at = place
BY BusyTask DEF At, BridgeInv

\* No question is a question that nothing has to ask.
LEMMA Unasked == NoQuestion \in Question /\ \A sessions : Asks(sessions, NoQuestion)
BY DEF NoQuestion, Question, SomeSession, Nothing, Asks

\* A text takes the question that the chat shows, and anything else none.
LEMMA HandleMessageKeeps == ASSUME BridgeInv, NEW t, HandleMessage(t) PROVE BridgeInv'
<1> DEFINE w == updateTask[t]
<1>1. t \in Busy /\ w \in BotTask /\ w.at = "start"
  BY AtPlace DEF HandleMessage
<1>2. BridgeTypeOK /\ UNCHANGED <<shown, chatState, session, answers, count>> /\ UNCHANGED pollVars
  BY DEF HandleMessage, BridgeInv
<1>3. chatState \in {<<>>} \cup BotChat /\ session \in [BotSessions -> BotSession] /\ count \in Tally
  BY <1>2 DEF BridgeTypeOK
<1>4. ASSUME AnswerInv PROVE ChatAsks(session, Newest, chatState) /\ \A a \in answers : Meets(a)
  BY <1>1, <1>4 DEF AnswerInv, Collecting
<1>5. PICK next \in BotTask : /\ Goes(t, next)
                              /\ \/ next.at = "answer" /\ HasPending /\ next.pending = chatState.pending
                                 \/ next.at \in {"load", "send", "create", "show"}
  <2>1. CASE w.kind = "text" /\ HasPending /\ Goes(t, [w EXCEPT !.at = "answer", !.pending = chatState.pending])
    <3>1. [w EXCEPT !.at = "answer", !.pending = chatState.pending] \in BotTask
      BY <1>1, <1>3, <2>1 DEF BotTask, BotChat, Places, HasPending
    <3> QED
      BY <1>1, <2>1, <3>1 DEF BotTask
  <2>2. CASE \E place \in {"load", "create"} : Goes(t, [w EXCEPT !.at = place])
    <3>1. PICK place \in {"load", "create"} : Goes(t, [w EXCEPT !.at = place])
      BY <2>2
    <3>2. [w EXCEPT !.at = place] \in BotTask
      BY <1>1 DEF BotTask, Places
    <3> QED
      BY <1>1, <3>1, <3>2 DEF BotTask
  <2>3. CASE \E s \in SomeSession, place \in {"send", "show"} : ToSession(t, s, place)
    <3>1. PICK s \in SomeSession, place \in {"send", "show"} : ToSession(t, s, place)
      BY <2>3
    <3>2. [w EXCEPT !.at = IF s = NoBotSession THEN "create" ELSE place, !.session = s] \in BotTask
      BY <1>1, <3>1 DEF BotTask, Places, SomeSession
    <3> QED
      BY <1>1, <3>1, <3>2 DEF BotTask, ToSession
  <2>4. Current \in SomeSession /\ NoBotSession \in SomeSession /\ BotSessions \subseteq SomeSession
    BY <1>3 DEF Current, SomeSession, BotChat
  <2> QED
    BY <2>1, <2>2, <2>3, <2>4 DEF HandleMessage
<1>6. ASSUME AnswerInv PROVE InHand(session', Newest, next)
  BY <1>2, <1>4, <1>5, <1>6 DEF InHand, HasPending, ChatAsks
<1>7. next # <<>> /\ next \in {<<>>} \cup BotTask
  BY <1>5, TaskIsSomething
<1>8. count' \in Tally /\ count'.restarts = count.restarts /\ count'.failures >= count.failures
  BY <1>2, <1>3 DEF Tally
<1> HIDE DEF w
<1> QED
  BY <1>1, <1>2, <1>3, <1>4, <1>5, <1>6, <1>7, <1>8, TaskMoves

\* A task ends and leaves the chat, or takes the chat's state from it.
LEMMA TaskLeaves ==
    ASSUME BridgeInv, NEW t \in Busy, Ends(t), UNCHANGED <<pollVars, shown, session, answers, count>>,
           updateTask[t].at \notin Collecting,
           chatState' = chatState \/ chatState' = <<>>
    PROVE  BridgeInv'
<1>1. BridgeTypeOK /\ UNCHANGED <<shown, session, answers, count>> /\ UNCHANGED pollVars
  BY DEF BridgeInv
<1>2. chatState' \in {<<>>} \cup BotChat /\ session' \in [BotSessions -> BotSession] /\ count' \in Tally
  BY <1>1 DEF BridgeTypeOK
<1>3. count'.restarts = count.restarts /\ count'.failures >= count.failures
  BY <1>1, <1>2 DEF Tally
<1>4. ASSUME AnswerInv PROVE ChatAsks(session', Newest, chatState') /\ \A a \in answers' : Meets(a)
  BY <1>1, <1>4 DEF AnswerInv, ChatAsks
<1>5. Goes(t, <<>>)
  BY DEF Ends
<1> QED
  BY <1>1, <1>2, <1>3, <1>4, <1>5, TaskMoves

\* An update that changes nothing, and /quit, which forgets the chat.
LEMMA LeavingsKeep == ASSUME BridgeInv, NEW t, LeaveMessage(t) \/ Quit(t) PROVE BridgeInv'
<1>1. /\ At(t, "start") /\ Ends(t) /\ UNCHANGED <<pollVars, shown, session, answers, count>>
      /\ chatState' = chatState \/ chatState' = <<>>
  BY DEF LeaveMessage, Quit
<1>2. t \in Busy /\ updateTask[t].at \notin Collecting
  BY <1>1, AtPlace DEF Collecting
<1> QED
  BY <1>1, <1>2, TaskLeaves

\* A button takes the question that the chat shows.
LEMMA HandleCallbackKeeps == ASSUME BridgeInv, NEW t, HandleCallback(t) PROVE BridgeInv'
<1> DEFINE w == updateTask[t]
<1>1. t \in Busy /\ w \in BotTask /\ w.at = "start"
  BY AtPlace DEF HandleCallback
<1>2. BridgeTypeOK /\ UNCHANGED <<shown, chatState, session, answers, count>> /\ UNCHANGED pollVars
  BY DEF HandleCallback, BridgeInv
<1>3. chatState \in {<<>>} \cup BotChat /\ session \in [BotSessions -> BotSession] /\ count \in Tally
  BY <1>2 DEF BridgeTypeOK
<1>4. CASE Ends(t)
  <2>1. w.at \notin Collecting
    BY <1>1 DEF Collecting
  <2> QED
    BY <1>1, <1>2, <1>4, <2>1, TaskLeaves
<1>5. CASE HasPending /\ \E place \in {"write", "answer"} : Goes(t, [w EXCEPT !.pending = chatState.pending, !.at = place])
  <2>1. PICK next \in BotTask : Goes(t, next) /\ next.at \in {"write", "answer"} /\ next.pending = chatState.pending
    <3>1. PICK place \in {"write", "answer"} : Goes(t, [w EXCEPT !.pending = chatState.pending, !.at = place])
      BY <1>5
    <3>2. [w EXCEPT !.pending = chatState.pending, !.at = place] \in BotTask
      BY <1>1, <1>3, <1>5 DEF BotTask, BotChat, Places, HasPending
    <3> QED
      BY <1>1, <3>1, <3>2 DEF BotTask
  <2>2. ASSUME AnswerInv PROVE ChatAsks(session, Newest, chatState) /\ \A a \in answers : Meets(a)
    BY <1>1, <2>2 DEF AnswerInv, Collecting
  <2>3. ASSUME AnswerInv PROVE InHand(session', Newest, next)
    BY <1>2, <1>5, <2>1, <2>2, <2>3 DEF InHand, HasPending, ChatAsks
  <2>4. next # <<>> /\ next \in {<<>>} \cup BotTask
    BY <2>1, TaskIsSomething
  <2>5. count' \in Tally /\ count'.restarts = count.restarts /\ count'.failures >= count.failures
    BY <1>2, <1>3 DEF Tally
  <2> HIDE DEF w
  <2> QED
    BY <1>1, <1>2, <1>3, <2>1, <2>2, <2>3, <2>4, <2>5, TaskMoves
<1> QED
  BY <1>4, <1>5 DEF HandleCallback

\* What is written to the chat is a question that is still asked.
LEMMA PendingIsSet ==
    ASSUME BridgeInv, NEW q \in Question, NEW sessions, NEW newest, SetPending(q)
    PROVE  /\ chatState' \in {<<>>} \cup BotChat
           /\ Asks(sessions, q) /\ (q # NoQuestion => q.id = newest) => ChatAsks(sessions, newest, chatState')
<1>1. chatState \in {<<>>} \cup BotChat
  BY DEF BridgeInv, BridgeTypeOK
<1>2. CASE chatState = <<>>
  BY <1>2 DEF SetPending, ChatAsks
<1>3. CASE chatState \in BotChat /\ chatState # <<>>
  <2>1. chatState' \in BotChat /\ chatState'.pending = q
    BY <1>3 DEF SetPending, BotChat
  <2> QED
    BY <2>1 DEF ChatAsks
<1> QED
  BY <1>1, <1>2, <1>3

\* A selection is put back into the chat as the task read it.
LEMMA WriteSelectionKeeps == ASSUME BridgeInv, NEW t, WriteSelection(t) PROVE BridgeInv'
<1> DEFINE w == updateTask[t]
<1>1. t \in Busy /\ w \in BotTask /\ w.at = "write"
  BY AtPlace DEF WriteSelection
<1>2. BridgeTypeOK /\ UNCHANGED <<shown, session, answers, count>> /\ UNCHANGED pollVars /\ Goes(t, <<>>)
  BY DEF WriteSelection, Ends, BridgeInv
<1>3. session \in [BotSessions -> BotSession] /\ count \in Tally
  BY <1>2 DEF BridgeTypeOK
<1>4. PICK q \in Question : q = w.pending /\ SetPending(q)
  BY <1>1 DEF WriteSelection, BotTask
<1>5. AnswerInv => Asks(session, q) /\ q.id = Newest /\ \A a \in answers : Meets(a)
  BY <1>1, <1>4 DEF AnswerInv, InHand
<1>6. chatState' \in {<<>>} \cup BotChat /\ (AnswerInv => ChatAsks(session, Newest, chatState'))
  BY <1>4, <1>5, PendingIsSet
<1>7. count' \in Tally /\ count'.restarts = count.restarts /\ count'.failures >= count.failures
  BY <1>2, <1>3 DEF Tally
<1> HIDE DEF w
<1> QED
  BY <1>1, <1>2, <1>3, <1>5, <1>6, <1>7, TaskMoves

\* The question of an output is the newest one that the chat has buttons of.
LEMMA PrepareOutputKeeps == ASSUME BridgeInv, NEW t, PrepareOutput(t) PROVE BridgeInv'
<1> DEFINE w == updateTask[t]
<1>1. t \in Busy /\ w \in BotTask /\ w.at = "prepare"
  BY AtPlace DEF PrepareOutput
<1>2. BridgeTypeOK /\ UNCHANGED <<session, answers, count>> /\ UNCHANGED pollVars /\ Goes(t, <<>>)
  BY DEF PrepareOutput, Ends, BridgeInv
<1>3. session \in [BotSessions -> BotSession] /\ count \in Tally /\ shown \in Seq(Nat)
  BY <1>2 DEF BridgeTypeOK
<1>4. PICK q \in Question : /\ q = w.output /\ SetPending(q)
                            /\ shown' = IF q = NoQuestion THEN shown ELSE Append(shown, q.id)
  BY <1>1 DEF PrepareOutput, BotTask
<1>5. PICK id \in Nat : id = q.id
  BY DEF Question
<1>6. shown' \in Seq(Nat)
  <2>1. Append(shown, id) \in Seq(Nat)
    BY <1>3
  <2> QED
    BY <1>3, <1>4, <1>5, <2>1
<1>7. q # NoQuestion => q.id = Newest'
  <2>1. Append(shown, id) # <<>> /\ Append(shown, id)[Len(Append(shown, id))] = id
    BY <1>3
  <2> QED
    BY <1>4, <1>5, <2>1 DEF Newest
<1>8. AnswerInv => Asks(session, q) /\ \A a \in answers : Meets(a)
  BY <1>1, <1>4 DEF AnswerInv, InHand
<1>9. chatState' \in {<<>>} \cup BotChat /\ (AnswerInv => ChatAsks(session, Newest', chatState'))
  BY <1>4, <1>7, <1>8, PendingIsSet
<1>10. count' \in Tally /\ count'.restarts = count.restarts /\ count'.failures >= count.failures
  BY <1>2, <1>3 DEF Tally
<1> HIDE DEF w
<1> QED
  BY <1>1, <1>2, <1>3, <1>6, <1>8, <1>9, <1>10, TaskMovesTo

\* A text goes to the chat's session, or to a new one.
LEMMA LoadSessionKeeps == ASSUME BridgeInv, NEW t, LoadSession(t) PROVE BridgeInv'
<1> DEFINE w == updateTask[t]
<1>1. t \in Busy /\ w \in BotTask /\ w.at = "load"
  BY AtPlace DEF LoadSession
<1>2. BridgeTypeOK /\ UNCHANGED <<shown, chatState, session, answers, count>> /\ UNCHANGED pollVars
  BY DEF LoadSession, BridgeInv
<1>3. chatState \in {<<>>} \cup BotChat /\ session \in [BotSessions -> BotSession] /\ count \in Tally
  BY <1>2 DEF BridgeTypeOK
<1>4. ASSUME AnswerInv PROVE ChatAsks(session, Newest, chatState) /\ \A a \in answers : Meets(a)
  BY <1>1, <1>4 DEF AnswerInv, Collecting
<1>5. PICK next \in BotTask : Goes(t, next) /\ next.at \in {"create", "send"}
  <2>1. Current \in SomeSession /\ ToSession(t, Current, "send")
    BY <1>3 DEF Current, SomeSession, BotChat, LoadSession
  <2>2. PICK s \in SomeSession : ToSession(t, s, "send")
    BY <2>1
  <2>3. [w EXCEPT !.at = IF s = NoBotSession THEN "create" ELSE "send", !.session = s] \in BotTask
    BY <1>1 DEF BotTask, Places, SomeSession
  <2> QED
    BY <1>1, <2>2, <2>3 DEF BotTask, ToSession
<1>6. InHand(session', Newest, next)
  BY <1>5 DEF InHand
<1>7. next # <<>> /\ next \in {<<>>} \cup BotTask
  BY <1>5, TaskIsSomething
<1>8. count' \in Tally /\ count'.restarts = count.restarts /\ count'.failures >= count.failures
  BY <1>2, <1>3 DEF Tally
<1> HIDE DEF w
<1> QED
  BY <1>1, <1>2, <1>3, <1>4, <1>5, <1>6, <1>7, <1>8, TaskMoves

(* A new session asks nothing yet, and no other one asks anything else.     *)
LEMMA CreateChatSessionKeeps ==
    ASSUME BridgeInv, NEW t, NEW s \in BotSessions, CreateChatSession(t, s) PROVE BridgeInv'
<1> DEFINE w == updateTask[t]
           plan == w.kind = "plan"
<1>1. t \in Busy /\ w \in BotTask /\ w.at = "create"
  BY AtPlace DEF CreateChatSession
<1>2. BridgeTypeOK /\ UNCHANGED <<shown, answers, count>> /\ UNCHANGED pollVars
  BY DEF CreateChatSession, BridgeInv
<1>3. chatState \in {<<>>} \cup BotChat /\ session \in [BotSessions -> BotSession] /\ count \in Tally
  BY <1>2 DEF BridgeTypeOK
<1>4. ASSUME AnswerInv PROVE ChatAsks(session, Newest, chatState) /\ \A a \in answers : Meets(a)
  BY <1>1, <1>4 DEF AnswerInv, Collecting
<1>5. session' \in [BotSessions -> BotSession] /\ \A r \in BotSessions : session'[r].question = session[r].question
  <2>1. session' = [session EXCEPT ![s].made = TRUE, ![s].plan = plan] /\ plan \in BOOLEAN
    BY DEF CreateChatSession
  <2>2. PICK b \in BOOLEAN : session' = [session EXCEPT ![s].made = TRUE, ![s].plan = b]
    BY <2>1
  <2>3. PICK after \in BotSession : after = [session[s] EXCEPT !.made = TRUE, !.plan = b]
    BY <1>3 DEF BotSession
  <2>4. session' = [session EXCEPT ![s] = after] /\ after.question = session[s].question
    BY <1>3, <2>2, <2>3 DEF BotSession
  <2> QED
    BY <1>3, <2>4
<1>6. chatState' \in {<<>>} \cup BotChat /\ (AnswerInv => ChatAsks(session', Newest, chatState'))
  <2>1. CASE chatState' = chatState
    BY <1>3, <1>4, <1>5, <2>1, AsksStays DEF ChatAsks
  <2>2. CASE chatState' = FreshChat(s, plan)
    <3>1. FreshChat(s, plan) \in BotChat
      BY Unasked DEF FreshChat, BotChat, SomeSession
    <3>2. FreshChat(s, plan).pending = NoQuestion
      BY DEF FreshChat
    <3> QED
      BY <2>2, <3>1, <3>2, Unasked DEF ChatAsks
  <2> QED
    BY <2>1, <2>2 DEF CreateChatSession
<1>7. PICK next \in {<<>>} \cup BotTask :
         Goes(t, next) /\ (next # <<>> => next.at \in {"create", "send", "show"})
  <2>1. CASE Ends(t)
    BY <2>1 DEF Ends
  <2>2. CASE \E place \in {"send", "show"} : ToSession(t, s, place)
    <3>1. PICK place \in {"send", "show"} : ToSession(t, s, place)
      BY <2>2
    <3>2. [w EXCEPT !.at = IF s = NoBotSession THEN "create" ELSE place, !.session = s] \in BotTask
      BY <1>1 DEF BotTask, Places, SomeSession
    <3>3. PICK next \in BotTask : next = [w EXCEPT !.at = IF s = NoBotSession THEN "create" ELSE place, !.session = s]
      BY <3>2
    <3>4. Goes(t, next)
      BY <3>1, <3>3 DEF ToSession
    <3>5. next.at \in {"create", "send", "show"}
      BY <1>1, <3>3 DEF BotTask
    <3> QED
      BY <3>4, <3>5
  <2> QED
    BY <2>1, <2>2 DEF CreateChatSession
<1>8. next # <<>> => InHand(session', Newest, next)
  BY <1>7 DEF InHand
<1>9. count' \in Tally /\ count'.restarts = count.restarts /\ count'.failures >= count.failures
  BY <1>2, <1>3 DEF Tally
<1> HIDE DEF w, plan
<1> QED
  BY <1>1, <1>2, <1>4, <1>5, <1>6, <1>7, <1>8, <1>9, TaskMoves

\* After a failure nothing is promised of the answers.
LEMMA FailuresKeep == ASSUME BridgeInv, NEW t, Fails(t) \/ CollectFails(t) PROVE BridgeInv'
<1>1. t \in Busy /\ updateTask[t] \in BotTask /\ Goes(t, <<>>)
  BY AtPlace DEF Fails, CollectFails, Ends
<1>2. BridgeTypeOK /\ UNCHANGED <<shown, session, answers>> /\ UNCHANGED pollVars
  BY DEF Fails, CollectFails, BridgeInv
<1>3. count \in Tally /\ chatState \in {<<>>} \cup BotChat /\ session \in [BotSessions -> BotSession]
  BY <1>2 DEF BridgeTypeOK
<1>4. count' \in Tally /\ count'.restarts = count.restarts /\ count'.failures = count.failures + 1
  <2>1. count' = [count EXCEPT !.failures = @ + 1]
    BY DEF Fails, CollectFails
  <2> QED
    BY <1>3, <2>1 DEF Tally
<1>5. chatState' \in {<<>>} \cup BotChat
  <2>1. CASE chatState' = chatState
    BY <1>3, <2>1
  <2>2. CASE SetPending(updateTask[t].pending)
    <3>1. PICK q \in Question : SetPending(q)
      BY <1>1, <2>2 DEF BotTask
    <3> QED
      BY <3>1, PendingIsSet
  <2> QED
    BY <2>1, <2>2 DEF Fails, CollectFails
<1>6. ~(Undisturbed /\ Undisturbed')
  BY <1>3, <1>4 DEF Undisturbed, Tally
<1>7. count'.failures >= count.failures
  BY <1>3, <1>4 DEF Tally
<1> QED
  BY <1>1, <1>2, <1>3, <1>4, <1>5, <1>6, <1>7, TaskMoves

\* A chat whose state is put afresh shows no question.
LEMMA FreshChatKeeps == ASSUME BridgeInv, NEW t, ShowSession(t) \/ InsertSkillSession(t) PROVE BridgeInv'
<1> DEFINE w == updateTask[t]
<1>1. t \in Busy /\ w \in BotTask /\ w.at \in {"show", "insert"}
  BY AtPlace DEF ShowSession, InsertSkillSession
<1>2. BridgeTypeOK /\ UNCHANGED <<shown, session, answers, count>> /\ UNCHANGED pollVars
  BY DEF ShowSession, InsertSkillSession, BridgeInv
<1>3. count \in Tally /\ session \in [BotSessions -> BotSession]
  BY <1>2 DEF BridgeTypeOK
<1>4. PICK s \in SomeSession, plan \in BOOLEAN : chatState' = FreshChat(s, plan)
  <2>1. CASE ShowSession(t)
    <3>1. chatState' = FreshChat(w.session, session[w.session].plan) /\ w.at = "show"
      BY <2>1, AtPlace DEF ShowSession
    <3>2. w.session \in BotSessions /\ session[w.session] \in BotSession
      BY <1>1, <1>3, <3>1 DEF BotTask
    <3> QED
      BY <3>1, <3>2 DEF SomeSession, BotSession
  <2>2. CASE InsertSkillSession(t)
    BY <1>1, <2>2 DEF InsertSkillSession, BotTask
  <2> QED
    BY <2>1, <2>2
<1>5. chatState' \in {<<>>} \cup BotChat /\ ChatAsks(session', Newest, chatState')
  <2>1. FreshChat(s, plan) \in BotChat /\ FreshChat(s, plan).pending = NoQuestion
    BY Unasked DEF FreshChat, BotChat
  <2> QED
    BY <1>4, <2>1, Unasked DEF ChatAsks
<1>6. PICK next \in {<<>>} \cup BotTask :
         Goes(t, next) /\ (next # <<>> => next.at = "prepare" /\ next.output = w.output /\ w.at = "insert")
  <2>1. CASE ShowSession(t)
    BY <2>1 DEF ShowSession, Ends
  <2>2. CASE InsertSkillSession(t)
    <3>1. [w EXCEPT !.at = "prepare"] \in BotTask /\ w.at = "insert"
      BY <1>1, <2>2, AtPlace DEF BotTask, Places, InsertSkillSession
    <3>2. Goes(t, [w EXCEPT !.at = "prepare"])
      BY <2>2 DEF InsertSkillSession
    <3> QED
      BY <1>1, <3>1, <3>2 DEF BotTask
  <2> QED
    BY <2>1, <2>2
<1>7. ASSUME AnswerInv PROVE (next # <<>> => InHand(session', Newest, next)) /\ \A a \in answers' : Meets(a)
  BY <1>1, <1>2, <1>6, <1>7 DEF AnswerInv, InHand
<1>8. count' \in Tally /\ count'.restarts = count.restarts /\ count'.failures >= count.failures
  BY <1>2, <1>3 DEF Tally
<1> HIDE DEF w
<1> QED
  BY <1>1, <1>2, <1>3, <1>5, <1>6, <1>7, <1>8, TaskMoves

\* A message goes to the end of the session's queue.
LEMMA SendMessageKeeps == ASSUME BridgeInv, NEW t, SendMessage(t) PROVE BridgeInv'
<1> DEFINE w == updateTask[t]
<1>1. t \in Busy /\ w \in BotTask /\ w.at = "send" /\ w.session \in BotSessions
  BY AtPlace DEF SendMessage, BotTask
<1>2. BridgeTypeOK /\ UNCHANGED <<shown, chatState, answers>> /\ UNCHANGED pollVars
  BY DEF SendMessage, BridgeInv
<1>3. chatState \in {<<>>} \cup BotChat /\ session \in [BotSessions -> BotSession] /\ count \in Tally
  BY <1>2 DEF BridgeTypeOK
<1>4. PICK turn \in Nat : /\ count' = [count EXCEPT !.turns = turn]
                          /\ session' = [session EXCEPT ![w.session].queue = Append(@, turn)]
                          /\ Goes(t, [w EXCEPT !.at = "collect", !.turn = turn])
  <2>1. count.turns + 1 \in Nat
    BY <1>3 DEF Tally
  <2> QED
    BY <2>1 DEF SendMessage
<1>5. count' \in Tally /\ count'.restarts = count.restarts /\ count'.failures >= count.failures
  BY <1>3, <1>4 DEF Tally
<1>6. session' \in [BotSessions -> BotSession]
  <2>1. session[w.session] \in BotSession
    BY <1>1, <1>3
  <2>2. Append(session[w.session].queue, turn) \in Seq(Nat)
    BY <2>1, <1>4 DEF BotSession
  <2>3. PICK after \in BotSession : after = [session[w.session] EXCEPT !.queue = Append(session[w.session].queue, turn)]
    BY <2>1, <2>2 DEF BotSession
  <2>4. session' = [session EXCEPT ![w.session] = after]
    BY <1>4, <2>3
  <2> QED
    BY <1>3, <2>4
<1>7. PICK next \in BotTask : Goes(t, next) /\ next.at = "collect"
  <2>1. [w EXCEPT !.at = "collect", !.turn = turn] \in BotTask
    BY <1>1, <1>4 DEF BotTask, Places
  <2> QED
    BY <1>1, <1>4, <2>1 DEF BotTask
<1>8. InHand(session', Newest, next) /\ next.at \in Collecting
  BY <1>7 DEF InHand, Collecting
<1>9. next # <<>> /\ next \in {<<>>} \cup BotTask
  BY <1>7, TaskIsSomething
<1>10. AnswerInv => \A a \in answers' : Meets(a)
  BY <1>2 DEF AnswerInv
<1> HIDE DEF w
<1> QED
  BY <1>1, <1>2, <1>3, <1>5, <1>6, <1>7, <1>8, <1>9, <1>10, TaskMoves

(* The answer meets the question that is in the task's hand.                *)
LEMMA SubmitAnswerKeeps == ASSUME BridgeInv, NEW t, SubmitAnswer(t) PROVE BridgeInv'
<1> DEFINE w == updateTask[t]
<1>1. t \in Busy /\ w \in BotTask /\ w.at = "answer"
  BY AtPlace DEF SubmitAnswer
<1>2. BridgeTypeOK /\ UNCHANGED <<shown, chatState, count>> /\ UNCHANGED pollVars
  BY DEF SubmitAnswer, BridgeInv
<1>3. chatState \in {<<>>} \cup BotChat /\ session \in [BotSessions -> BotSession] /\ count \in Tally
  BY <1>2 DEF BridgeTypeOK
<1>4. PICK q \in Question : q = w.pending
  BY <1>1 DEF BotTask
<1>5. /\ answers' = answers \cup {[meant |-> IF w.button = Nothing THEN q.id ELSE w.button,
                                   read |-> q.id, got |-> session[q.session].question,
                                   late |-> w.button \notin {Nothing, Newest}]}
      /\ session' = [session EXCEPT ![q.session].question = Nothing]
      /\ Goes(t, [w EXCEPT !.at = "collect", !.session = q.session, !.turn = q.turn])
  BY <1>4 DEF SubmitAnswer
<1>6. session' \in [BotSessions -> BotSession]
  <2>1. CASE q.session \in BotSessions
    <3>1. PICK after \in BotSession : after = [session[q.session] EXCEPT !.question = Nothing]
      BY <1>3, <2>1 DEF BotSession, Nothing
    <3>2. session' = [session EXCEPT ![q.session] = after]
      BY <1>5, <3>1
    <3> QED
      BY <1>3, <3>2
  <2>2. CASE q.session \notin BotSessions
    BY <1>3, <1>5, <2>2
  <2> QED
    BY <2>1, <2>2
<1>7. PICK next \in BotTask : Goes(t, next) /\ next.at = "collect"
  <2>1. q.session \in SomeSession /\ q.turn \in Nat
    BY DEF Question
  <2>2. [w EXCEPT !.at = "collect", !.session = q.session, !.turn = q.turn] \in BotTask
    BY <1>1, <2>1 DEF BotTask, Places
  <2> QED
    BY <1>1, <1>5, <2>2 DEF BotTask
<1>8. InHand(session', Newest, next) /\ next.at \in Collecting
  BY <1>7 DEF InHand, Collecting
<1>9. next # <<>> /\ next \in {<<>>} \cup BotTask
  BY <1>7, TaskIsSomething
<1>10. ASSUME AnswerInv PROVE \A a \in answers' : Meets(a)
  <2>1. session[q.session].question = q.id /\ q.id = Newest
    BY <1>1, <1>4, <1>10 DEF AnswerInv, InHand, Asks
  <2>2. PICK entry : answers' = answers \cup {entry} /\ entry =
          [meant |-> IF w.button = Nothing THEN q.id ELSE w.button, read |-> q.id,
           got |-> session[q.session].question, late |-> w.button \notin {Nothing, Newest}]
    BY <1>5
  <2>3. /\ entry.read = q.id /\ entry.got = session[q.session].question
        /\ entry.meant = (IF w.button = Nothing THEN q.id ELSE w.button)
        /\ entry.late = (w.button \notin {Nothing, Newest})
    BY <2>2
  <2>4. Meets(entry)
    BY <2>1, <2>3, Zenon DEF Meets
  <2> QED
    BY <1>10, <2>2, <2>4 DEF AnswerInv
<1>11. count' \in Tally /\ count'.restarts = count.restarts /\ count'.failures >= count.failures
  BY <1>2, <1>3 DEF Tally
<1> HIDE DEF w
<1> QED
  BY <1>1, <1>2, <1>3, <1>6, <1>7, <1>8, <1>9, <1>10, <1>11, TaskMoves

----------------------------------------------------------------------------
(* The daemon's sessions, and the polling.                                  *)

(* A step of a session drops no question, and a task that collects it gets  *)
(* what the session asks now, or nothing.                                   *)
LEMMA TurnMoves ==
    ASSUME BridgeInv, UNCHANGED <<pollVars, shown, chatState, answers>>,
           count' \in Tally, count'.restarts = count.restarts, count'.failures = count.failures,
           session' \in [BotSessions -> BotSession],
           \A r \in BotSessions : session[r].question # Nothing => session'[r].question = session[r].question,
           NEW output, Asks(session', output),
           updateTask' \in [Tasks -> {<<>>} \cup BotTask], Busy' = Busy,
           \A t \in Busy : \/ updateTask'[t] = updateTask[t]
                           \/ updateTask'[t].at \in {"insert", "prepare"} /\ updateTask'[t].output = output
    PROVE  BridgeInv'
<1>1. BridgeTypeOK /\ UNCHANGED <<shown, chatState, answers>> /\ UNCHANGED pollVars
  BY DEF BridgeInv
<1>2. UNCHANGED <<updates, confirmed, batch, offset, handled, overlapped>>
  BY <1>1 DEF pollVars
<1>3. BridgeTypeOK'
  BY <1>1, <1>2 DEF BridgeTypeOK
<1>4. PollInv'
  BY <1>1, PollStays DEF BridgeInv
<1>5. Undisturbed' = Undisturbed
  BY <1>2 DEF Undisturbed
<1>6. ASSUME AnswerInv PROVE AnswerInv'
  <2>1. \A q : Asks(session, q) => Asks(session', q)
    BY AsksStays
  <2>2. \A w : InHand(session, Newest, w) => InHand(session', Newest, w)
    BY HandStays
  <2>6. Newest' = Newest
    BY <1>1 DEF Newest
  <2>3. \A t \in Busy : InHand(session', Newest, updateTask'[t])
    BY <1>6, <2>2 DEF AnswerInv, InHand
  <2>4. (\A t \in Busy : updateTask'[t].at \notin Collecting) => \A t \in Busy : updateTask[t].at \notin Collecting
    BY DEF Collecting
  <2>5. (\A t \in Busy : updateTask'[t].at \notin Collecting) => ChatAsks(session', Newest, chatState')
    BY <1>1, <1>6, <2>1, <2>4 DEF AnswerInv, ChatAsks
  <2> QED
    BY <1>1, <1>6, <2>3, <2>5, <2>6 DEF AnswerInv
<1> QED
  BY <1>3, <1>4, <1>5, <1>6 DEF BridgeInv

\* A turn that starts leaves what the session asks.
LEMMA StartTurnKeeps == ASSUME BridgeInv, NEW s \in BotSessions, StartTurn(s) PROVE BridgeInv'
<1>1. BridgeTypeOK /\ UNCHANGED <<shown, updateTask, chatState, answers, count>> /\ UNCHANGED pollVars
  BY DEF StartTurn, BridgeInv
<1>2. /\ session \in [BotSessions -> BotSession] /\ session[s] \in BotSession /\ session[s].queue # <<>>
      /\ count \in Tally /\ updateTask \in [Tasks -> {<<>>} \cup BotTask]
  BY <1>1 DEF BridgeTypeOK, StartTurn
<1>3. PICK queue \in Seq(Nat) : queue = session[s].queue /\ queue # <<>>
  BY <1>2 DEF BotSession
<1>4. Head(queue) \in Nat /\ Tail(queue) \in Seq(Nat)
  BY <1>3
<1>5. PICK after \in BotSession : after = [session[s] EXCEPT !.running = Head(queue), !.queue = Tail(queue)]
  BY <1>2, <1>4 DEF BotSession
<1>6. session' = [session EXCEPT ![s] = after] /\ after.question = session[s].question
  BY <1>2, <1>3, <1>5 DEF StartTurn, BotSession
<1>7. session' \in [BotSessions -> BotSession] /\ \A r \in BotSessions : session'[r].question = session[r].question
  BY <1>2, <1>6
<1>8. Busy' = Busy
  BY <1>1 DEF Busy
<1>9. \A t \in Busy : updateTask'[t] = updateTask[t]
  BY <1>1
<1>10. Asks(session', NoQuestion)
  BY Unasked
<1>11. /\ count' \in Tally /\ count'.restarts = count.restarts /\ count'.failures = count.failures
       /\ updateTask' \in [Tasks -> {<<>>} \cup BotTask]
  BY <1>1, <1>2
<1> QED
  BY <1>1, <1>7, <1>8, <1>9, <1>10, <1>11, TurnMoves

\* Who collects a turn goes on with its output, the others stay.
LEMMA CollectedOnce ==
    ASSUME BridgeTypeOK, NEW s, NEW turn, NEW output \in Question, updateTask' = Collected(s, turn, output)
    PROVE  /\ updateTask' \in [Tasks -> {<<>>} \cup BotTask]
           /\ Busy' = Busy
           /\ \A t \in Busy : \/ updateTask'[t] = updateTask[t]
                              \/ updateTask'[t].at \in {"insert", "prepare"} /\ updateTask'[t].output = output
<1>1. updateTask \in [Tasks -> {<<>>} \cup BotTask]
  BY DEF BridgeTypeOK
<1>2. ASSUME NEW t \in Tasks
      PROVE  \/ updateTask'[t] = updateTask[t]
             \/ /\ t \in Busy /\ updateTask'[t] \in BotTask
                /\ updateTask'[t].at \in {"insert", "prepare"} /\ updateTask'[t].output = output
  <2> DEFINE w == updateTask[t]
  <2>1. CASE At(t, "collect") /\ w.session = s /\ w.turn = turn
    <3>1. t \in Busy /\ w \in BotTask
      BY <2>1, BusyTask DEF At
    <3>2. PICK place \in {"insert", "prepare"} : updateTask'[t] = [w EXCEPT !.output = output, !.at = place]
      BY <2>1 DEF Collected
    <3>3. PICK after \in BotTask : after = [w EXCEPT !.output = output, !.at = place]
      BY <3>1 DEF BotTask, Places
    <3>4. after.at = place /\ after.output = output
      BY <3>1, <3>3 DEF BotTask
    <3> QED
      BY <3>1, <3>2, <3>3, <3>4
  <2>2. CASE ~(At(t, "collect") /\ w.session = s /\ w.turn = turn)
    BY <2>2 DEF Collected
  <2> QED
    BY <2>1, <2>2
<1>3. updateTask' \in [Tasks -> {<<>>} \cup BotTask]
  <2>1. \A t \in Tasks : updateTask'[t] \in {<<>>} \cup BotTask
    BY <1>1, <1>2
  <2>2. DOMAIN updateTask' = Tasks /\ updateTask' = [t \in Tasks |-> updateTask'[t]]
    BY DEF Collected
  <2> QED
    BY <2>1, <2>2
<1>4. Busy' = {t \in Tasks : updateTask'[t] # <<>>}
  BY DEF Busy
<1>5. Busy' = Busy
  BY <1>2, <1>4, TaskIsSomething DEF Busy
<1>6. Busy \subseteq Tasks
  BY DEF Busy
<1> QED
  BY <1>2, <1>3, <1>5, <1>6

\* A turn asks only when nothing is asked, so it replaces no question.
LEMMA TurnAsksKeeps == ASSUME BridgeInv, NEW s \in BotSessions, TurnAsks(s) PROVE BridgeInv'
<1>1. BridgeTypeOK /\ UNCHANGED <<shown, chatState, answers>> /\ UNCHANGED pollVars
  BY DEF TurnAsks, BridgeInv
<1>2. /\ session \in [BotSessions -> BotSession] /\ session[s] \in BotSession /\ session[s].question = Nothing
      /\ count \in Tally
  BY <1>1 DEF BridgeTypeOK, TurnAsks, Working
<1>3. PICK id \in Nat : id = count.questions + 1
  BY <1>2 DEF Tally
<1>4. PICK turn \in Nat : turn = session[s].running
  BY <1>2 DEF BotSession
<1>5. PICK output \in Question : output = [id |-> id, session |-> s, turn |-> turn]
  BY DEF Question, SomeSession
<1>6. /\ count' = [count EXCEPT !.questions = id] /\ session' = [session EXCEPT ![s].question = id]
      /\ updateTask' = Collected(s, turn, output)
  BY <1>3, <1>4, <1>5 DEF TurnAsks
<1>7. id # Nothing
  BY <1>2, <1>3 DEF Tally, Nothing
<1>8. PICK after \in BotSession : after = [session[s] EXCEPT !.question = id]
  BY <1>2 DEF BotSession
<1>9. session' = [session EXCEPT ![s] = after] /\ after.question = id
  BY <1>2, <1>6, <1>8 DEF BotSession
<1>10. /\ session' \in [BotSessions -> BotSession] /\ session'[s].question = id
       /\ \A r \in BotSessions : session[r].question # Nothing => session'[r].question = session[r].question
  BY <1>2, <1>9
<1>11. Asks(session', output)
  BY <1>5, <1>7, <1>10 DEF Asks
<1>12. count' \in Tally /\ count'.restarts = count.restarts /\ count'.failures = count.failures
  BY <1>2, <1>6 DEF Tally
<1>13. /\ updateTask' \in [Tasks -> {<<>>} \cup BotTask] /\ Busy' = Busy
       /\ \A t \in Busy : \/ updateTask'[t] = updateTask[t]
                          \/ updateTask'[t].at \in {"insert", "prepare"} /\ updateTask'[t].output = output
  BY <1>1, <1>6, CollectedOnce
<1> QED
  BY <1>1, <1>10, <1>11, <1>12, <1>13, TurnMoves

\* A turn that ends leaves its collectors without a question.
LEMMA TurnEndsKeeps == ASSUME BridgeInv, NEW s \in BotSessions, TurnEnds(s) PROVE BridgeInv'
<1>1. BridgeTypeOK /\ UNCHANGED <<shown, chatState, answers, count>> /\ UNCHANGED pollVars
  BY DEF TurnEnds, BridgeInv
<1>2. /\ session \in [BotSessions -> BotSession] /\ session[s] \in BotSession /\ count \in Tally
      /\ session' = [session EXCEPT ![s].running = Nothing]
  BY <1>1 DEF BridgeTypeOK, TurnEnds
<1>3. PICK after \in BotSession : after = [session[s] EXCEPT !.running = Nothing]
  BY <1>2 DEF BotSession, Nothing
<1>4. session' = [session EXCEPT ![s] = after] /\ after.question = session[s].question
  BY <1>2, <1>3 DEF BotSession
<1>5. /\ session' \in [BotSessions -> BotSession]
      /\ \A r \in BotSessions : session'[r].question = session[r].question
  BY <1>2, <1>4
<1>6. updateTask' = Collected(s, session[s].running, NoQuestion)
  BY DEF TurnEnds
<1>7. /\ updateTask' \in [Tasks -> {<<>>} \cup BotTask] /\ Busy' = Busy
      /\ \A t \in Busy : \/ updateTask'[t] = updateTask[t]
                         \/ updateTask'[t].at \in {"insert", "prepare"} /\ updateTask'[t].output = NoQuestion
  BY <1>1, <1>6, CollectedOnce, Unasked
<1>8. count' \in Tally /\ count'.restarts = count.restarts /\ count'.failures = count.failures
  BY <1>1, <1>2
<1>9. Asks(session', NoQuestion)
  BY Unasked
<1> QED
  BY <1>1, <1>5, <1>7, <1>8, <1>9, TurnMoves

\* What is sent next comes after all that was polled.
LEMMA UserSendsKeeps ==
    ASSUME BridgeInv, NEW kind \in Messages \cup Callbacks, NEW button \in Nat, UserSends(kind, button)
    PROVE  BridgeInv'
<1>0. [kind |-> kind, button |-> button] \in Update
  BY DEF Update
<1>1. /\ updates \in Seq(Update) /\ updates' = Append(updates, [kind |-> kind, button |-> button])
      /\ UNCHANGED <<shown, confirmed, batch, offset, handled, updateTask, chatState, session, answers, overlapped, count>>
  BY DEF UserSends, BridgeInv, BridgeTypeOK
<1>2. updates' \in Seq(Update) /\ DOMAIN updates \subseteq DOMAIN updates'
  BY <1>0, <1>1
<1>3. BridgeTypeOK'
  BY <1>1, <1>2 DEF BridgeInv, BridgeTypeOK
<1>4. Untaken' = Untaken /\ Busy' = Busy /\ Undisturbed' = Undisturbed /\ Newest' = Newest
  BY <1>1 DEF Untaken, Busy, Undisturbed, Newest
<1>5. PollInv'
  <2>1. \A i \in DOMAIN batch' : batch'[i] = batch'[1] + i - 1 /\ batch'[i] \in DOMAIN updates'
    BY <1>1, <1>2 DEF BridgeInv, PollInv
  <2> QED
    BY <1>1, <1>4, <2>1 DEF BridgeInv, PollInv
<1>6. AnswerInv => AnswerInv'
  BY <1>1, <1>4 DEF AnswerInv
<1> QED
  BY <1>3, <1>4, <1>5, <1>6 DEF BridgeInv

(* A poll forgets only what has a task, and returns what has none.          *)
LEMMA PollUpdatesKeeps == ASSUME BridgeInv, PollUpdates PROVE BridgeInv'
<1>1. /\ BridgeTypeOK /\ PollInv /\ batch = <<>>
      /\ UNCHANGED <<shown, updates, offset, handled, updateTask, chatState, session, answers, overlapped, count>>
  BY DEF PollUpdates, BridgeInv
<1>2. /\ confirmed \in Nat /\ offset \in Nat /\ Len(updates) \in Nat /\ DOMAIN updates = 1..Len(updates)
  BY <1>1 DEF BridgeTypeOK
<1>3. PICK seen \in Nat : /\ seen = IF offset - 1 > confirmed THEN offset - 1 ELSE confirmed
                          /\ seen < Len(updates) /\ confirmed' = seen
                          /\ batch' = [i \in 1..(Len(updates) - seen) |-> seen + i] \/ batch' = <<>>
  <2>1. (IF offset - 1 > confirmed THEN offset - 1 ELSE confirmed) \in Nat
    BY <1>2
  <2> QED
    BY <2>1 DEF PollUpdates
<1>4. Untaken = seen + 1
  BY <1>1, <1>2, <1>3 DEF Untaken
<1>5. ASSUME batch' = [i \in 1..(Len(updates) - seen) |-> seen + i]
      PROVE  /\ batch' \in Seq(Nat) /\ Untaken' = seen + 1
             /\ \A i \in DOMAIN batch' : batch'[i] = batch'[1] + i - 1 /\ batch'[i] \in DOMAIN updates'
  <2>1. PICK n \in Nat : n = Len(updates) - seen /\ n >= 1
    <3>1. Len(updates) - seen \in Nat /\ Len(updates) - seen >= 1
      BY <1>2, <1>3
    <3> QED
      BY <3>1
  <2>2. PICK got \in Seq(Nat) : got = batch' /\ Len(got) = n /\ \A i \in 1..n : got[i] = seen + i
    <3>1. \A i \in 1..n : seen + i \in Nat
      BY <2>1
    <3>2. [i \in 1..n |-> seen + i] \in Seq(Nat)
      BY <2>1, <3>1
    <3>3. PICK got \in Seq(Nat) : got = [i \in 1..n |-> seen + i]
      BY <3>2
    <3>4. Len(got) = n /\ \A i \in 1..n : got[i] = seen + i
      BY <2>1, <3>3
    <3>5. got = batch'
      BY <1>5, <2>1, <3>3
    <3> QED
      BY <3>4, <3>5
  <2>3. got # <<>> /\ 1 \in 1..n /\ got[1] = seen + 1 /\ DOMAIN got = 1..n
    BY <2>1, <2>2
  <2>4. Untaken' = seen + 1
    BY <2>2, <2>3 DEF Untaken
  <2>5. \A i \in DOMAIN got : got[i] = got[1] + i - 1 /\ got[i] \in DOMAIN updates
    BY <1>2, <2>1, <2>2, <2>3
  <2> QED
    BY <1>1, <2>2, <2>4, <2>5
<1>6. ASSUME batch' = <<>>
      PROVE  /\ batch' \in Seq(Nat) /\ Untaken' = seen + 1
             /\ \A i \in DOMAIN batch' : batch'[i] = batch'[1] + i - 1 /\ batch'[i] \in DOMAIN updates'
  <2>1. batch' \in Seq(Nat) /\ DOMAIN batch' = {}
    BY <1>6
  <2>2. Untaken' = seen + 1
    BY <1>1, <1>2, <1>3, <1>6 DEF Untaken
  <2> QED
    BY <2>1, <2>2
<1>7. /\ batch' \in Seq(Nat) /\ Untaken' = Untaken
      /\ \A i \in DOMAIN batch' : batch'[i] = batch'[1] + i - 1 /\ batch'[i] \in DOMAIN updates'
  BY <1>3, <1>4, <1>5, <1>6
<1>8. BridgeTypeOK'
  BY <1>1, <1>3, <1>7 DEF BridgeTypeOK
<1>9. PollInv'
  <2>1. offset' <= Untaken' /\ confirmed' < Untaken'
    BY <1>1, <1>3, <1>4, <1>7 DEF PollInv
  <2> QED
    BY <1>1, <1>7, <2>1 DEF PollInv
<1>10. Busy' = Busy /\ Undisturbed' = Undisturbed /\ Newest' = Newest
  BY <1>1 DEF Busy, Undisturbed, Newest
<1>11. AnswerInv => AnswerInv'
  BY <1>1, <1>10 DEF AnswerInv
<1> QED
  BY <1>8, <1>9, <1>10, <1>11 DEF BridgeInv

(* The update that a task gets is the first that none has got.              *)
LEMMA SpawnUpdateTaskKeeps == ASSUME BridgeInv, NEW t \in Tasks, SpawnUpdateTask(t) PROVE BridgeInv'
<1>1. /\ BridgeTypeOK /\ PollInv /\ batch # <<>> /\ t \notin Busy
      /\ UNCHANGED <<shown, updates, confirmed, chatState, session, answers, count>>
  BY DEF SpawnUpdateTask, BridgeInv
<1>2. /\ batch \in Seq(Nat) /\ confirmed \in Nat /\ handled \in [1..MaxUpdates -> Nat] /\ count.restarts \in Nat
      /\ updates \in Seq(Update) /\ updateTask \in [Tasks -> {<<>>} \cup BotTask]
  BY <1>1 DEF BridgeTypeOK, Tally
<1>3. PICK u \in Nat : u = Head(batch) /\ u = batch[1] /\ u = Untaken /\ u \in DOMAIN updates
  BY <1>1, <1>2 DEF PollInv, Untaken
<1>4. PICK rest \in Seq(Nat) : rest = Tail(batch)
  <2>1. Tail(batch) \in Seq(Nat)
    BY <1>1, <1>2
  <2> QED
    BY <2>1
<1>5. batch' = rest /\ offset' = u + 1 /\ handled' = [handled EXCEPT ![u] = @ + 1]
  BY <1>3, <1>4 DEF SpawnUpdateTask, Offset
<1>6. \A i \in DOMAIN rest : rest[i] = u + i /\ rest[i] \in DOMAIN updates
  <2>1. \A i \in DOMAIN rest : i \in Nat /\ i + 1 \in DOMAIN batch /\ rest[i] = batch[i + 1]
    BY <1>1, <1>2, <1>4
  <2> QED
    BY <1>1, <1>3, <2>1 DEF PollInv
<1>7. Untaken' = u + 1
  <2>1. CASE rest = <<>>
    BY <1>1, <1>2, <1>3, <1>5, <2>1 DEF Untaken, PollInv
  <2>2. CASE rest # <<>>
    BY <1>5, <1>6, <2>2 DEF Untaken
  <2> QED
    BY <2>1, <2>2
<1>8. PollInv'
  <2>1. \A i \in DOMAIN batch' : batch'[i] = batch'[1] + i - 1 /\ batch'[i] \in DOMAIN updates'
    <3>1. \A i \in DOMAIN rest : 1 \in DOMAIN rest /\ i \in Nat
      BY <1>4
    <3> QED
      BY <1>1, <1>5, <1>6, <3>1
  <2>2. offset' <= Untaken' /\ confirmed' < Untaken'
    BY <1>1, <1>2, <1>3, <1>5, <1>7 DEF PollInv
  <2>3. \A v \in 1..MaxUpdates : handled'[v] = IF v = u THEN handled[v] + 1 ELSE handled[v]
    BY <1>2, <1>5
  <2>4. \A v \in 1..MaxUpdates : v \in Nat /\ handled[v] \in Nat
    BY <1>2
  <2>5. \A v \in 1..MaxUpdates :
          handled'[v] <= count'.restarts \/ (v < Untaken' /\ handled'[v] <= count'.restarts + 1)
    <3>1. \A v \in 1..MaxUpdates : handled[v] <= count.restarts \/ (v < u /\ handled[v] <= count.restarts + 1)
      BY <1>1, <1>3 DEF PollInv
    <3>2. count'.restarts = count.restarts
      BY <1>1
    <3> QED
      BY <1>2, <1>7, <2>3, <2>4, <3>1, <3>2
  <2>6. \A v \in 1..MaxUpdates : v < Untaken' => handled'[v] > 0
    BY <1>1, <1>3, <1>7, <2>3, <2>4 DEF PollInv
  <2> QED
    BY <2>1, <2>2, <2>5, <2>6 DEF PollInv
<1>9. PICK w \in BotTask : w.at = "start" /\ updateTask' = [updateTask EXCEPT ![t] = w]
  <2>1. PICK got \in Update : got = updates[u]
    BY <1>2, <1>3
  <2>2. PICK w \in BotTask : w = [kind |-> got.kind, button |-> got.button, at |-> "start", session |-> NoBotSession, turn |-> Nothing,
                                  pending |-> NoQuestion, output |-> NoQuestion]
    BY Unasked DEF BotTask, Places, SomeSession, Nothing, Update
  <2> QED
    BY <1>3, <2>1, <2>2 DEF SpawnUpdateTask
<1>10. BridgeTypeOK'
  <2>1. handled' \in [1..MaxUpdates -> Nat]
    <3>1. ASSUME NEW v \in 1..MaxUpdates PROVE handled[v] + 1 \in Nat
      <4>1. handled[v] \in Nat
        BY <1>2
      <4> QED
        BY <4>1
    <3> QED
      BY <1>2, <1>5, <3>1
  <2>3. offset' \in Nat
    BY <1>5
  <2>4. overlapped' \in BOOLEAN
    <3>1. overlapped' = (overlapped \/ Busy # {})
      BY DEF SpawnUpdateTask
    <3> QED
      BY <3>1
  <2>2. updateTask' \in [Tasks -> {<<>>} \cup BotTask]
    BY <1>2, <1>9
  <2> QED
    BY <1>1, <1>5, <2>1, <2>2, <2>3, <2>4 DEF BridgeTypeOK
<1>11. ASSUME Undisturbed' PROVE Undisturbed /\ Busy = {}
  BY <1>1, <1>11 DEF Undisturbed, SpawnUpdateTask
<1>12. ASSUME Undisturbed' PROVE AnswerInv'
  <2>1. Busy = {} /\ AnswerInv
    BY <1>11, <1>12 DEF BridgeInv
  <2>2. \A v \in Busy' : v = t /\ updateTask'[v] = w
    BY <1>2, <1>9, <2>1 DEF Busy
  <2>3. ChatAsks(session', Newest', chatState') /\ \A a \in answers' : Meets(a)
    BY <1>1, <2>1 DEF AnswerInv, Newest
  <2>4. \A v \in Busy' : InHand(session', Newest', updateTask'[v])
    BY <1>9, <2>2 DEF InHand
  <2> QED
    BY <2>2, <2>3, <2>4 DEF AnswerInv
<1> QED
  BY <1>8, <1>10, <1>12 DEF BridgeInv

\* After a restart the polling begins with what Telegram has not forgotten.
LEMMA RestartPluginKeeps == ASSUME BridgeInv, RestartPlugin PROVE BridgeInv'
<1>1. /\ BridgeTypeOK /\ PollInv /\ UNCHANGED <<shown, updates, confirmed, handled, session, answers, overlapped>>
      /\ batch' = <<>> /\ offset' = 1 /\ chatState' = <<>> /\ updateTask' = [t \in Tasks |-> <<>>]
      /\ count' = [count EXCEPT !.restarts = @ + 1]
  BY DEF RestartPlugin, BridgeInv
<1>2. /\ confirmed \in Nat /\ handled \in [1..MaxUpdates -> Nat] /\ count \in Tally /\ offset \in Nat /\ batch \in Seq(Nat)
  BY <1>1 DEF BridgeTypeOK
<1>3. /\ count' \in Tally /\ count'.failures = count.failures /\ count'.restarts = count.restarts + 1
      /\ count.restarts \in Nat
  BY <1>1, <1>2 DEF Tally
<1>4. Untaken' = confirmed + 1 /\ Untaken >= confirmed + 1
  <2>1. Untaken' = confirmed + 1
    BY <1>1, <1>2 DEF Untaken
  <2>2. Untaken \in Nat
    BY <1>2 DEF Untaken
  <2> QED
    BY <1>1, <1>2, <2>1, <2>2 DEF PollInv
<1>5. BridgeTypeOK' /\ Busy' = {}
  <2>1. updateTask' \in [Tasks -> {<<>>} \cup BotTask] /\ Busy' = {}
    BY <1>1 DEF Busy
  <2>2. batch' \in Seq(Nat) /\ offset' \in Nat
    BY <1>1
  <2> QED
    BY <1>1, <1>3, <2>1, <2>2 DEF BridgeTypeOK
<1>6. PollInv'
  <2>1. \A v \in 1..MaxUpdates : v \in Nat /\ handled[v] \in Nat
    BY <1>2
  <2>2. Untaken \in Nat
    BY <1>2 DEF Untaken
  <2>3. \A v \in 1..MaxUpdates : handled'[v] <= count'.restarts
    BY <1>1, <1>3, <2>1 DEF PollInv
  <2>4. \A v \in 1..MaxUpdates : v < Untaken' => handled'[v] > 0
    BY <1>1, <1>2, <1>4, <2>1, <2>2 DEF PollInv
  <2>5. DOMAIN batch' = {} /\ offset' <= Untaken' /\ confirmed' < Untaken'
    BY <1>1, <1>2, <1>4
  <2> QED
    BY <2>3, <2>4, <2>5 DEF PollInv
<1>7. Undisturbed' => AnswerInv'
  <2>1. Undisturbed' => Undisturbed
    BY <1>1, <1>3 DEF Undisturbed
  <2>2. ChatAsks(session', Newest', chatState')
    BY <1>1 DEF ChatAsks
  <2> QED
    BY <1>1, <1>5, <2>1, <2>2 DEF BridgeInv, AnswerInv
<1> QED
  BY <1>5, <1>6, <1>7 DEF BridgeInv

\* Every step of the bridge keeps its invariant.
LEMMA BridgeStep == ASSUME BridgeInv, TelegramNext PROVE BridgeInv'
<1>1. CASE \/ \E kind \in Messages : UserSends(kind, Nothing)
           \/ \E kind \in Callbacks, button \in Buttons : UserSends(kind, button)
  <2>1. Nothing \in Nat /\ Buttons \subseteq Nat
    BY DEF Nothing, Buttons, BridgeInv, BridgeTypeOK
  <2> QED
    BY <1>1, <2>1, UserSendsKeeps
<1>2. CASE PollUpdates \/ RestartPlugin
  BY <1>2, PollUpdatesKeeps, RestartPluginKeeps
<1>3. CASE \E t \in Tasks : \/ SpawnUpdateTask(t)
                            \/ \E s \in BotSessions : CreateChatSession(t, s)
  BY <1>3, SpawnUpdateTaskKeeps, CreateChatSessionKeeps
<1>4. CASE \E t \in Tasks :
         \/ HandleMessage(t) \/ LeaveMessage(t) \/ Quit(t) \/ HandleCallback(t)
         \/ WriteSelection(t) \/ LoadSession(t) \/ Fails(t) \/ ShowSession(t)
  BY <1>4, HandleMessageKeeps, LeavingsKeep, HandleCallbackKeeps, WriteSelectionKeeps, LoadSessionKeeps,
     FailuresKeep, FreshChatKeeps
<1>5. CASE \E t \in Tasks :
         \/ SendMessage(t) \/ SubmitAnswer(t) \/ CollectFails(t) \/ InsertSkillSession(t) \/ PrepareOutput(t)
  BY <1>5, SendMessageKeeps, SubmitAnswerKeeps, FailuresKeep, FreshChatKeeps, PrepareOutputKeeps
<1>6. CASE \E s \in BotSessions : StartTurn(s) \/ TurnAsks(s) \/ TurnEnds(s)
  BY <1>6, StartTurnKeeps, TurnAsksKeeps, TurnEndsKeeps
<1> QED
  BY <1>1, <1>2, <1>3, <1>4, <1>5, <1>6 DEF TelegramNext

\* And so does a step that is none of its own.
LEMMA BridgeRests == ASSUME BridgeInv, UNCHANGED telegramVars PROVE BridgeInv'
<1>1. UNCHANGED <<shown, updates, confirmed, batch, offset, handled, updateTask, chatState, session, answers, overlapped, count>>
  BY DEF telegramVars
<1>2. BridgeTypeOK' /\ Untaken' = Untaken /\ Busy' = Busy /\ Undisturbed' = Undisturbed /\ Newest' = Newest
  BY <1>1 DEF BridgeInv, BridgeTypeOK, Untaken, Busy, Undisturbed, Newest
<1>3. PollInv'
  BY <1>1, <1>2 DEF BridgeInv, PollInv
<1>4. AnswerInv => AnswerInv'
  BY <1>1, <1>2 DEF AnswerInv
<1> QED
  BY <1>2, <1>3, <1>4 DEF BridgeInv

(* Whatever a chat's user sends, however its updates are polled, handled at *)
(* the same time, fail or are cut off by a restart: an update is forgotten  *)
(* only once it has a task and gets another one only after a restart, and   *)
(* as long as no two are handled at once and none fails, an answer is taken *)
(* by the question that the chat showed as pending, which is the one a      *)
(* button belongs to unless a newer one was shown.                          *)
THEOREM MessagesAreHandledCorrect == TelegramSpec => []MessagesAreHandled
<1>1. TelegramInit => BridgeInv
  BY BridgeStarts
<1>2. BridgeInv /\ [TelegramNext]_telegramVars => BridgeInv'
  BY BridgeStep, BridgeRests
<1>3. BridgeInv => MessagesAreHandled
  <2>1. ASSUME BridgeInv PROVE UpdatesHandledOnce
    <3>1. /\ PollInv /\ confirmed \in Nat /\ offset \in Nat /\ batch \in Seq(Nat) /\ handled \in [1..MaxUpdates -> Nat]
          /\ count.restarts \in Nat
      BY <2>1 DEF BridgeInv, BridgeTypeOK, Tally
    <3>2. Untaken \in Nat
      BY <3>1 DEF Untaken
    <3>3. ASSUME NEW u \in 1..MaxUpdates
          PROVE  (u <= confirmed => handled[u] > 0) /\ handled[u] <= 1 + count.restarts
      <4>1. u \in Nat /\ handled[u] \in Nat
        BY <3>1
      <4> QED
        BY <3>1, <3>2, <4>1 DEF PollInv
    <3> QED
      BY <3>1, <3>3 DEF UpdatesHandledOnce
  <2>2. ASSUME BridgeInv PROVE AnswersMeetTheirQuestion
    BY <2>2 DEF BridgeInv, BridgeTypeOK, Tally, Undisturbed, AnswerInv, AnswersMeetTheirQuestion
  <2> QED
    BY <2>1, <2>2 DEF MessagesAreHandled
<1> QED
  BY <1>1, <1>2, <1>3, PTL DEF TelegramSpec
=============================================================================
