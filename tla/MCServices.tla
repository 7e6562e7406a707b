----------------------------- MODULE MCServices -----------------------------
(* Instances for TLC of what a session uses around its turn: the requests   *)
(* to a provider (ModelStream), permissions (Permissions), plans (Planner), *)
(* the file and shell tools (FileTools), delegation (Subagents), durable    *)
(* memory (MemoryRecall) and what a session is made of (SessionSetup). The  *)
(* parts share no variable: a behaviour is one of the part in focus, and    *)
(* the others stay at their beginning or have no state in it.               *)
EXTENDS Permissions, Subagents, TLC

CONSTANTS
    Parts,
    Scripts, Fragments,
    Cases,
    Workers, Scenes,
    Holders, Uses, MaxEntries, CharBudget,
    Parent, Child, Layouts, AskedFor, Profiles, WebConfigured

VARIABLES
    focus,
    script, api, sent, reader, turn,
    case, plans, results, progress,
    disk, job, group, outcome, versions, spoilt, lasting, seen,
    memoryConf, talk, said, extracted, entries, index, extraction, recall, kept, cut,
    skillFiles, profiles, made, skills, tools, prompt, provider, handle, stale, drift, misled

Providers == INSTANCE ModelStream
Plans == INSTANCE Planner
Files == INSTANCE FileTools
Memory == INSTANCE MemoryRecall WITH conf <- memoryConf, job <- extraction
Setup == INSTANCE SessionSetup WITH files <- skillFiles, conf <- made

None == "none"
NoStream == script = None /\ api = None /\ sent = None /\ reader = None /\ turn = None
NoPlans == case = None /\ plans = None /\ results = None /\ progress = None
NoFiles ==
    /\ disk = None /\ job = None /\ group = None /\ outcome = None
    /\ versions = None /\ spoilt = None /\ lasting = None /\ seen = None

NoMemory ==
    /\ memoryConf = None /\ talk = None /\ said = None /\ extracted = None /\ entries = None
    /\ index = None /\ extraction = None /\ recall = None /\ kept = None /\ cut = None

NoSetup ==
    /\ skillFiles = None /\ profiles = None /\ made = None /\ skills = None /\ tools = None /\ prompt = None
    /\ provider = None /\ handle = None /\ stale = None /\ drift = None /\ misled = None

MCInit ==
    /\ focus \in Parts
    /\ IF focus = "providers" THEN Providers!StreamInit ELSE NoStream
    /\ PermissionsInit /\ (focus # "permissions" => files = CHOOSE f \in RuleFiles : TRUE)
    /\ IF focus = "plans" THEN Plans!PlanInit ELSE NoPlans
    /\ IF focus = "files" THEN Files!FilesInit ELSE NoFiles
    /\ DelegationInit
    /\ IF focus = "memory" THEN Memory!MemoryInit ELSE NoMemory
    /\ IF focus = "setup" THEN Setup!SetupInit ELSE NoSetup

(* Every other part stays as it is. *)
StreamRests == UNCHANGED <<script, api, sent, reader, turn>>
PermissionRests == UNCHANGED permissionVars
PlansRest == UNCHANGED <<case, plans, results, progress>>
FilesRest == UNCHANGED <<disk, job, group, outcome, versions, spoilt, lasting, seen>>
DelegationRests == UNCHANGED delegationVars
MemoryRests == UNCHANGED <<memoryConf, talk, said, extracted, entries, index, extraction, recall, kept, cut>>
SetupRests ==
    UNCHANGED <<skillFiles, profiles, made, skills, tools, prompt, provider, handle, stale, drift, misled>>

MCNext ==
    /\ UNCHANGED focus
    /\ \/ /\ focus = "providers" /\ Providers!StreamNext
          /\ PermissionRests /\ PlansRest /\ FilesRest
          /\ DelegationRests /\ MemoryRests /\ SetupRests
       \/ /\ focus = "permissions" /\ PermissionsNext
          /\ StreamRests /\ PlansRest /\ FilesRest
          /\ DelegationRests /\ MemoryRests /\ SetupRests
       \/ /\ focus = "plans" /\ Plans!PlanNext
          /\ StreamRests /\ PermissionRests /\ FilesRest
          /\ DelegationRests /\ MemoryRests /\ SetupRests
       \/ /\ focus = "files" /\ Files!FilesNext
          /\ StreamRests /\ PermissionRests /\ PlansRest
          /\ DelegationRests /\ MemoryRests /\ SetupRests
       \/ /\ focus = "delegation" /\ DelegationNext
          /\ StreamRests /\ PermissionRests /\ PlansRest
          /\ FilesRest /\ MemoryRests /\ SetupRests
       \/ /\ focus = "memory" /\ Memory!MemoryNext
          /\ StreamRests /\ PermissionRests /\ PlansRest
          /\ FilesRest /\ DelegationRests /\ SetupRests
       \/ /\ focus = "setup" /\ Setup!SetupNext
          /\ StreamRests /\ PermissionRests /\ PlansRest
          /\ FilesRest /\ DelegationRests /\ MemoryRests

----------------------------------------------------------------------------
(* What the parts promise, see their modules. *)

(* What a provider streams becomes the same turn however it is cut, calls   *)
(* arrive whole, retries are paced and results follow their calls.          *)
StreamIsFaithful ==
    focus = "providers" =>
        Providers!ChunksDoNotMatter /\ Providers!CallsArriveWhole
        /\ Providers!RetriesArePaced /\ Providers!ResultsFollowTheirCalls

(* A plan that is accepted can be finished, no action waits for one that    *)
(* failed, and progress is reported of the plan it was made in.             *)
PlansAdvance ==
    focus = "plans" => Plans!PlansCanFinish /\ Plans!NothingWaitsForAFailure /\ Plans!ProgressIsOfItsPlan

(* A patch is applied whole or not, a search reports what was there, and a  *)
(* command that timed out leaves no process.                                *)
ToolsAreWhole ==
    focus = "files" => Files!PatchesAreWhole /\ Files!FindsWhatWasThere /\ Files!NothingOutlivesATimeout

(* Memory fails no turn it does not have to, keeps what it was asked to and *)
(* shows no session what is kept for others.                                *)
MemoryIsKept ==
    focus = "memory" => Memory!MemoryBreaksNoTurn /\ Memory!RememberedIsKept /\ Memory!RecallStaysInScope

(* What is reported of a session, what its prompt lists and the model it    *)
(* uses are those of the session.                                           *)
SetupAgrees ==
    focus = "setup" => Setup!ReportMatchesSession /\ Setup!PromptListsItsTools /\ Setup!ModelIsItsProfile

(* What the documents or tests say, or one would expect, and the code does  *)
(* not keep: no part of the checked properties.                             *)
NothingOutlivesACancel == focus = "files" => Files!NothingOutlivesACancel
PatchesStayWhole == focus = "files" => Files!PatchesStayWhole
NetworkCutsDoNotMatter == focus = "providers" => Providers!NetworkCutsDoNotMatter
UnnumberedCallsArrive == focus = "providers" => Providers!UnnumberedCallsArrive

----------------------------------------------------------------------------
(* Requests to a provider: what it says, and the history it is asked with.  *)
ToolCall(c, name, named) == [id |-> IF named THEN <<"call", c>> ELSE <<>>, name |-> name]
Said(role, calls, answers) == [role |-> role, calls |-> calls, answers |-> answers]
Asks(cs) == Said("assistant", cs, <<>>)
Answer(c) == Said("tool", <<>>, <<c>>)
Says(role) == Said(role, <<>>, <<>>)
NoHistory == <<Says("user")>>
TwoRounds == <<Says("user"), Asks(<<1, 2>>), Answer(1), Answer(2), Asks(<<3>>), Answer(3), Says("user"),
               Asks(<<4, 5>>), Answer(4), Answer(5)>>

Script(p, text, calls, numbered, history) ==
    [provider |-> p, text |-> text, calls |-> calls, numbered |-> numbered, history |-> history,
     tools |-> {"read", "web_search", "web_open"}]

Thought == <<"word", "<think", ">", "word", "</think", ">", "word">>
TextCalls(a, b) ==
    <<"word", "<tool_call", ">", a, "</tool_call", ">", "<think", "<tool_call", ">", b, "</tool_call", ">", "word">>

Unfinished == <<"<tool_call", ">", "read">>
ThoughtfulCall == <<"<think", ">", "</think", ">", "<tool_call", ">", "read", "</tool_call", ">">>
TwoReads(named) == <<ToolCall(1, "read", named), ToolCall(2, "read", FALSE)>>
WebCalls == <<ToolCall(1, "quine_search", TRUE), ToolCall(2, "web_search", TRUE), ToolCall(3, "read", TRUE)>>

MCScripts ==
    {Script("openai", Thought, <<>>, "index", NoHistory),
     Script("openai", <<"word">>, WebCalls, "index", TwoRounds),
     Script("openai", <<"word">>, TwoReads(FALSE), "index", NoHistory),
     Script("openai", <<>>, TwoReads(TRUE), "id", NoHistory), Script("openai", <<>>, TwoReads(TRUE), "whole", NoHistory),
     Script("qwen", TextCalls("read", "word"), <<>>, "index", NoHistory),
     Script("qwen", TextCalls("word", "read"), <<>>, "index", NoHistory),
     Script("qwen", TextCalls("read", "read"), <<ToolCall(1, "read", FALSE)>>, "whole", NoHistory),
     Script("qwen", Unfinished, <<ToolCall(1, "read", TRUE), ToolCall(2, "quine_search", TRUE)>>, "id", NoHistory),
     Script("qwen", ThoughtfulCall, TwoReads(FALSE), "whole", NoHistory),
     Script("qwen", <<"word">>, TwoReads(TRUE), "index", NoHistory),
     Script("anthropic", <<"word", "<think", ">", "word">>,
            <<ToolCall(1, "read", TRUE), ToolCall(2, "web_search", TRUE)>>, "index", TwoRounds),
     Script("web", <<>>, <<>>, "index", <<>>)}

(* Permissions: paths inside and outside, commands of each risk, rule files. *)
OnFile(name, absolute, path) == [tool |-> name, arg |-> [absolute |-> absolute, path |-> path]]
Command(words) == [tool |-> "bash", arg |-> words]
MCDirs == {<<"home", "w">>}
MCDaemonDir == <<"home", "d">>
MCCalls ==
    {OnFile("read_file", FALSE, <<"f">>), OnFile("apply_patch", FALSE, <<"..", "w", "f">>),
     OnFile("find", FALSE, <<"a", "..", "..", "g">>), OnFile("read_file", TRUE, <<"home", "w", "f">>),
     Command(<<"ls">>), Command(<<"env", "-i", "A=1", "bash", "-c", "ls">>), Command(<<"A=1", "rm">>),
     Command(<<"python", "-c">>), Command(<<"ls", ">">>),
     [tool |-> "spawn", arg |-> "with history"], [tool |-> "spawn", arg |-> "alone"]}

Rule(effect, scope, target, name) == [effect |-> effect, scope |-> scope, target |-> target, name |-> name]
PermissionFiles(user, workspace) ==
    [user |-> user, workspace |-> [d \in MCDirs |-> workspace], broken |-> {}]

MCRuleFiles ==
    {PermissionFiles({}, {}),
     PermissionFiles({Rule("allow", "agent_control", "tool", <<"spawn">>), Rule("deny", "execute", "tool", <<"bash">>)}, {}),
     PermissionFiles({Rule("deny", "write", "any", <<>>)},
                     {Rule("allow", "write", "path", <<"home">>), Rule("ask", "read", "tool", <<"find">>)})}

(* Plans: one of three actions with any dependencies, or two small ones.    *)
Draft(names, needs) == [i \in DOMAIN names |-> [id |-> names[i], needs |-> needs[i], status |-> "pending"]]
ThreeActions ==
    {Draft(<<"a", "b", "c">>, n) :
        n \in {{}, {"c"}} \X {{}, {"a"}} \X {{}, {"a"}, {"b"}, {"a", "b"}, {"b", "c"}}}

MCCases ==
    {[drafts |-> ThreeActions \cup {Draft(<<"a", "a">>, <<{}, {}>>), Draft(<<"a">>, <<{"z"}>>)}, plans |-> 1],
     [drafts |-> {Draft(<<"a", "b">>, <<{}, {"a"}>>)}, plans |-> 2]}

(* Files: two sessions that patch, search and run commands side by side.    *)
Patch(path, edits, new) == [tool |-> "apply_patch", path |-> path, edits |-> edits, new |-> new]
Replacing(old, new, all) == [old |-> old, new |-> new, all |-> all]
Search(type, names, content, depth, most) ==
    [tool |-> "find",
     want |-> [type |-> type, names |-> names, content |-> content, depth |-> depth, most |-> most]]

Bash(background) == [tool |-> "bash", background |-> background]
Directory == <<"dir">>
SmallDisk == [p \in {<<1>>} |-> <<"x", "y", "y">>]
TreeDisk == [p \in {<<0>>, <<0, 1>>, <<1>>, <<2>>, <<2, 1>>, <<2, 2>>, <<2, 2, 1>>} |->
                IF p \in {<<0>>, <<2>>, <<2, 2>>} THEN Directory ELSE <<"x">>]

MCScenes ==
    {[disk |-> SmallDisk,
      jobs |-> {Patch(<<1>>, <<Replacing("x", "y", FALSE), Replacing("y", "z", TRUE)>>, <<>>),
                Patch(<<1>>, <<Replacing("y", "x", TRUE), Replacing("z", "x", FALSE)>>, <<>>),
                Patch(<<1>>, <<Replacing("x", "w", FALSE), Replacing("x", "z", FALSE)>>, <<>>),
                Patch(<<3, 1>>, <<>>, <<"x">>), Patch(<<3, 1>>, <<>>, <<"y", "z">>),
                Patch(<<1>>, <<>>, <<"x">>), Patch(<<3>>, <<>>, <<>>),
                Patch(<<4, 1>>, <<Replacing("x", "y", TRUE)>>, <<>>)}],
     [disk |-> TreeDisk,
      jobs |-> {Search("any", {0, 1, 2, 3}, "", 1, 9), Search("file", {1}, "x", 9, 2),
                Search("file", {1, 3}, "", 9, 9), Search("directory", {2}, "", 0, 9),
                Patch(<<2, 1>>, <<Replacing("x", "y", FALSE)>>, <<>>), Patch(<<3, 1>>, <<>>, <<"x">>)}],
     [disk |-> SmallDisk, jobs |-> {Bash({}), Bash({"piped", "redirected"}), Bash({"redirected"})}]}

(* Memory: facts that share a title or an id, and policies.                 *)
Fact(text, id, title, words, chars) ==
    [text |-> text, id |-> id, title |-> title, words |-> words, chars |-> chars]

Tea == Fact(1, "tea", "tea", {"tea"}, 5)
LongA == Fact(2, "long a", "long", {"long", "tea"}, 7)
LongB == Fact(3, "long b", "long", {"long"}, 8)
NonAsciiA == Fact(4, "", "memory", {}, 4)
NonAsciiB == Fact(5, "", "memory", {}, 4)
Message(kind, f) == [kind |-> kind, fact |-> f]
Base == [mode |-> "targeted", agent |-> "", team |-> "", advanced |-> FALSE, agentMemory |-> FALSE,
         teamMemory |-> FALSE, crossScope |-> FALSE, order |-> "project",
         readable |-> {"project", "agent", "team"}, writable |-> {"project", "agent", "team"},
         writes |-> "project", needsIntent |-> FALSE, needsTrust |-> FALSE, trusted |-> TRUE,
         conflict |-> "narrower"]

OfAgent(k) ==
    [Base EXCEPT !.agent = k, !.advanced = TRUE, !.agentMemory = TRUE, !.writes = "agent", !.order = "agent_first"]

OfBoth(conflict) ==
    [OfAgent("a") EXCEPT !.team = "t", !.teamMemory = TRUE, !.crossScope = TRUE, !.conflict = conflict,
                         !.needsIntent = TRUE]

OfTeam == [Base EXCEPT !.team = "t", !.advanced = TRUE, !.teamMemory = TRUE, !.writes = "team"]
MCUses ==
    {[confs |-> {Base}, length |-> 3,
      messages |-> {Message("remember", Tea), Message("prefer", LongA), Message("forget", Tea)}],
     [confs |-> {Base}, length |-> 2,
      messages |-> {Message("remember", NonAsciiA), Message("remember", NonAsciiB),
                    Message("remember", LongB), Message("remember", LongA)}],
     [confs |-> {Base, OfAgent("a"), OfAgent("b"), OfBoth("narrower"), OfBoth("error"), OfBoth("recent"), OfTeam,
                 [OfBoth("broader") EXCEPT !.crossScope = FALSE], [Base EXCEPT !.mode = "disabled"],
                 [OfAgent("a") EXCEPT !.advanced = FALSE],
                 [OfAgent("a") EXCEPT !.readable = {"project"}, !.writable = {"project"}],
                 [Base EXCEPT !.needsTrust = TRUE, !.trusted = FALSE]},
      length |-> 2, messages |-> {Message("remember", Tea), Message("ask", Tea)}]}

(* Skills: of the project, of its commands directory and of the home.       *)
SkillFile(stem, name, front, nested, uses) ==
    [stem |-> stem, name |-> name, front |-> front, nested |-> nested, tools |-> uses]

Plain(stem, uses) == SkillFile(stem, stem, TRUE, FALSE, uses)
Layout(native, commands, home) ==
    <<[project |-> TRUE, commands |-> FALSE, files |-> native],
      [project |-> TRUE, commands |-> TRUE, files |-> commands],
      [project |-> FALSE, commands |-> FALSE, files |-> home]>>

MCLayouts ==
    {Layout(<<Plain(1, {"deploy"})>>, <<>>, <<Plain(1, {"format"}), Plain(2, {"write"})>>),
     Layout(<<SkillFile(1, 2, TRUE, TRUE, {"deploy"}), SkillFile(1, 1, FALSE, FALSE, {"format"})>>,
            <<Plain(2, {})>>, <<Plain(3, {"web"}), SkillFile(2, 2, TRUE, TRUE, {"write"})>>)}

MCAskedFor == {<<3, 2>>}

Interchangeable == Permutations(Sessions) \cup Permutations(Kids) \cup Permutations(Holders)
=============================================================================
