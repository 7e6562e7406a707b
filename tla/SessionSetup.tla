---------------------------- MODULE SessionSetup ----------------------------
(* What a session is made of: the skills found on disk, the tools that are  *)
(* registered for it, the prompt that tells the model of them, and the      *)
(* provider it talks to. All four are put together when a session is        *)
(* created, spawned, forked or restored, and again when it leaves plan mode *)
(* or changes its model; files and profiles may change at any time.         *)
EXTENDS Integers, Sequences, FiniteSets, SequencesExt

CONSTANTS
    Parent, Child,   (* a session of a client, and one it may start         *)
    Layouts,         (* directories of skill files, see below               *)
    AskedFor,        (* the lists of skills clients ask for                 *)
    Profiles,        (* the names of model profiles                         *)
    WebConfigured    (* whether a web provider is configured                *)

VARIABLES
    files,           (* the layout on disk                                  *)
    profiles,        (* the profiles that resolve                           *)
    conf,            (* persisted_config: [made, plan, names, profile]      *)
    skills,          (* the skills attached to each session                 *)
    tools,           (* tool_registry: name -> who registered it last       *)
    prompt,          (* the tools and skills its first message lists        *)
    provider,        (* the profile of its provider, or Default             *)
    handle,          (* SessionHandle: provider and profile at actor start  *)
    stale,           (* files changed since its skills were found (observed) *)
    drift,           (* prompt and tools were put together apart (observed) *)
    misled           (* started from a handle that was out of date (observed) *)

setupVars == <<files, profiles, conf, skills, tools, prompt, provider, handle, stale, drift, misled>>
BothSessions == {Parent, Child}
Default == "default"
NoConf == [made |-> "none", plan |-> FALSE, names |-> <<>>, profile |-> Default]
Live == {s \in BothSessions : conf[s].made # "none"}

----------------------------------------------------------------------------
(* Files. A layout is a sequence of directories [project, commands, files], *)
(* searched in order; files are in the order the directory lists them:      *)
(* [stem, name, front, nested, tools], nested for stem/SKILL.md. Names are  *)
(* numbers. Without front matter only a flat file of a commands directory   *)
(* is a skill, named like the file (parse_skill).                           *)
Parses(dir, f) == f.front \/ (dir.commands /\ ~f.nested)
NameOf(f) == IF f.front THEN f.name ELSE f.stem
Parsed(f) == [name |-> NameOf(f), tools |-> f.tools]
Places(layout) == {<<d, i>> \in (1..Len(layout)) \X (1..3) : i <= Len(layout[d].files)}
FileAt(layout, p) == layout[p[1]].files[p[2]]
Before(p, q) == p[1] < q[1] \/ (p[1] = q[1] /\ p[2] < q[2])

(* load by name: a flat file is preferred, in the first directory with one. *)
Preferred(layout, name) == {p \in Places(layout) : FileAt(layout, p).stem = name}
FindSkillPath(layout, name) ==
    {p \in Preferred(layout, name) : \A q \in Preferred(layout, name) \ {p} :
        p[1] < q[1] \/ (p[1] = q[1] /\ ~FileAt(layout, p).nested)}

LoadNamed(layout, names) ==
    FoldLeft(LAMBDA found, name :
                found \o SetToSeq({Parsed(FileAt(layout, p)) : p \in {q \in FindSkillPath(layout, name) : Parses(layout[q[1]], FileAt(layout, q))}}),
             <<>>, names)

(* discover_skill_paths and load_all over the directories of the project.   *)
Discovered(layout) ==
    {p \in Places(layout) : layout[p[1]].project /\
        ~\E q \in Places(layout) : layout[q[1]].project /\ Before(q, p) /\ FileAt(layout, q).stem = FileAt(layout, p).stem}

ProjectSkills(layout) ==
    LET good == {FileAt(layout, p) : p \in {q \in Discovered(layout) : Parses(layout[q[1]], FileAt(layout, q))}}
        InOrder(f, g) == NameOf(f) < NameOf(g) \/ (NameOf(f) = NameOf(g) /\ f.stem < g.stem)
    IN [i \in 1..Cardinality(good) |-> Parsed(SetToSortSeq(good, InOrder)[i])]

NamesOf(list) == [i \in DOMAIN list |-> list[i].name]

(* load_session_skills: the skills of the project, then the named ones.     *)
LoadSession(layout, names) ==
    FoldLeft(LAMBDA list, skill : IF skill.name \in ToSet(NamesOf(list)) THEN list ELSE Append(list, skill),
             <<>>, ProjectSkills(layout) \o LoadNamed(layout, names))

----------------------------------------------------------------------------
(* build_tool_registry_for_session, advertised_tool_definitions: a skill's  *)
(* tool takes the place of any earlier one of its name.                     *)
BuiltIn(plan) == {"read", "web"} \cup IF plan THEN {} ELSE {"write", "spawn"}
Registry(plan, list) ==
    LET built == [t \in BuiltIn(plan) |-> 0]
        Put(registry, skill) == [t \in DOMAIN registry \cup skill.tools |-> IF t \in skill.tools THEN skill.name ELSE registry[t]]
    IN FoldLeft(Put, built, list)

Advertised(registry, web) == {t \in DOMAIN registry : t # "web" \/ web}
PromptOf(registry, web, list) == [tools |-> Advertised(registry, web), skills |-> NamesOf(list)]
Web(s) == WebConfigured /\ conf[s].made # "spawned"

(* Every field of a session that is put together anew.                      *)
Equip(s, c, list, web, text) ==
    /\ conf' = [conf EXCEPT ![s] = c] /\ skills' = [skills EXCEPT ![s] = list]
    /\ tools' = [tools EXCEPT ![s] = Registry(c.plan, list)]
    /\ prompt' = [prompt EXCEPT ![s] = IF text = <<>> THEN PromptOf(Registry(c.plan, list), web, list) ELSE text[1]]

SetupInit ==
    /\ files \in Layouts /\ profiles = Profiles
    /\ conf = [s \in BothSessions |-> NoConf] /\ skills = [s \in BothSessions |-> <<>>] /\ tools = [s \in BothSessions |-> <<>>]
    /\ prompt = [s \in BothSessions |-> [tools |-> {}, skills |-> <<>>]]
    /\ provider = [s \in BothSessions |-> Default] /\ handle = [s \in BothSessions |-> [provider |-> Default, profile |-> Default]]
    /\ stale = [s \in BothSessions |-> FALSE] /\ drift = [s \in BothSessions |-> FALSE] /\ misled = [s \in BothSessions |-> FALSE]

(* CreateSession of the core loop.                                          *)
CreateSession(s, c, list) ==
    /\ conf[s].made = "none"
    /\ Equip(s, c, list, WebConfigured, <<>>)
    /\ provider' = [provider EXCEPT ![s] = c.profile]
    /\ handle' = [handle EXCEPT ![s] = [provider |-> c.profile, profile |-> c.profile]]

(* LocalHarness::create_session: an unknown profile refuses the session.    *)
Create(asked, plan, profile) ==
    /\ profile \in profiles \cup {Default}
    /\ LET list == LoadSession(files, asked)
       IN CreateSession(Parent, [made |-> "created", plan |-> plan, names |-> NamesOf(list), profile |-> profile], list)
    /\ UNCHANGED <<files, profiles, stale, drift, misled>>

(* rebuild_session_config: the skills are loaded by the names of their      *)
(* front matter.                                                            *)
Rebuild(s, c) ==
    /\ Equip(s, IF c.made = "spawned" THEN [c EXCEPT !.made = "rebuilt"] ELSE c, LoadNamed(files, c.names), WebConfigured, <<>>)
    /\ drift' = [drift EXCEPT ![s] = FALSE]

ExitPlanMode(s) ==
    /\ s \in Live /\ conf[s].plan
    /\ Rebuild(s, [conf[s] EXCEPT !.plan = FALSE])
    /\ UNCHANGED <<files, profiles, provider, handle, stale, misled>>

(* UpdateSessionLlm: the handle of the actor keeps what it started with.    *)
SwitchModel(s, profile) ==
    /\ s \in Live /\ profile \in profiles /\ profile # provider[s]
    /\ Rebuild(s, [conf[s] EXCEPT !.profile = profile])
    /\ provider' = [provider EXCEPT ![s] = profile] /\ misled' = [misled EXCEPT ![s] = FALSE]
    /\ UNCHANGED <<files, profiles, handle, stale>>

(* SpawnSession without history: no skills, and no web provider. With       *)
(* history: the parent's configuration and prompt, its skills found anew.   *)
Started(history) ==
    /\ Parent \in Live /\ conf[Child].made = "none"
    /\ provider' = [provider EXCEPT ![Child] = handle[Parent].provider]
    /\ misled' = [misled EXCEPT ![Child] = handle[Parent] # [provider |-> provider[Parent], profile |-> conf[Parent].profile]]
    /\ handle' = [handle EXCEPT ![Child] =
                    [provider |-> handle[Parent].provider, profile |-> IF history THEN conf[Parent].profile ELSE handle[Parent].profile]]

Spawn ==
    /\ Started(FALSE)
    /\ Equip(Child, [NoConf EXCEPT !.made = "spawned", !.profile = handle[Parent].profile], <<>>, FALSE, <<>>)
    /\ UNCHANGED <<files, profiles, stale, drift>>

\* Mutant: a restored session has the tools of one without a plan.
PlanForgotten(c) == FALSE

PlanAtRestore(c) == c.plan
Fork ==
    LET list == LoadSession(files, conf[Parent].names)
    IN /\ Started(TRUE)
       /\ Equip(Child, [conf[Parent] EXCEPT !.made = "forked", !.names = NamesOf(list)], list, WebConfigured, <<prompt[Parent]>>)
       /\ drift' = [drift EXCEPT ![Child] = drift[Parent] \/ stale[Parent]]
       /\ UNCHANGED <<files, profiles, stale>>

(* The daemon starts again: from_persisted_with_web_provider for every      *)
(* session, with the default provider; then the ones with a profile change  *)
(* to it, or to the default when it no longer resolves.                     *)
ProfileAtRestart(profile) == IF profile \in profiles THEN profile ELSE Default
Providers(profile) == IF profile \in profiles THEN profile ELSE Default
Again(s) == LoadSession(files, conf[s].names)
Switched(s) == conf[s].profile # Default
SkillsAgain(s) == IF Switched(s) THEN LoadNamed(files, NamesOf(Again(s))) ELSE Again(s)
Restart ==
    /\ Live # {}
    /\ conf' = [s \in BothSessions |-> IF s \notin Live THEN NoConf ELSE
            [conf[s] EXCEPT !.made = "restored", !.names = NamesOf(Again(s)), !.profile = ProfileAtRestart(@)]]
    /\ skills' = [s \in BothSessions |-> IF s \in Live THEN SkillsAgain(s) ELSE <<>>]
    /\ tools' = [s \in BothSessions |-> IF s \in Live THEN Registry(PlanAtRestore(conf[s]), SkillsAgain(s)) ELSE <<>>]
    /\ prompt' = [s \in BothSessions |-> IF s \in Live /\ Switched(s)
            THEN PromptOf(Registry(PlanAtRestore(conf[s]), SkillsAgain(s)), WebConfigured, SkillsAgain(s)) ELSE prompt[s]]
    /\ provider' = [s \in BothSessions |-> Providers(conf[s].profile)]
    /\ handle' = [s \in BothSessions |-> [provider |-> Default, profile |-> conf[s].profile]]
    /\ stale' = [s \in BothSessions |-> FALSE]
    /\ drift' = [s \in BothSessions |-> ~Switched(s) /\ (drift[s] \/ stale[s] \/ conf[s].made = "spawned")]
    /\ misled' = [s \in BothSessions |-> FALSE]
    /\ UNCHANGED <<files, profiles>>

EditFiles(layout) ==
    /\ layout # files /\ files' = layout
    /\ stale' = [s \in BothSessions |-> s \in Live]
    /\ UNCHANGED <<profiles, conf, skills, tools, prompt, provider, handle, drift, misled>>

EditProfiles ==
    /\ profiles' \in {Profiles, {}} /\ profiles' # profiles
    /\ UNCHANGED <<files, conf, skills, tools, prompt, provider, handle, stale, drift, misled>>

SetupNext ==
    \/ \E asked \in AskedFor, plan \in BOOLEAN, profile \in Profiles \cup {Default} : Create(asked, plan, profile)
    \/ \E s \in BothSessions : ExitPlanMode(s) \/ \E profile \in Profiles : SwitchModel(s, profile)
    \/ Spawn \/ Fork \/ Restart \/ EditProfiles
    \/ \E layout \in Layouts : EditFiles(layout)

SetupSpec == SetupInit /\ [][SetupNext]_setupVars

----------------------------------------------------------------------------
(* A layout in which a skill is found by its name and in one way only.      *)
Clean(layout) ==
    /\ \A p \in Places(layout) : Parses(layout[p[1]], FileAt(layout, p)) => NameOf(FileAt(layout, p)) = FileAt(layout, p).stem
    /\ \A p, q \in Places(layout) : p # q /\ p[1] = q[1] => FileAt(layout, p).stem # FileAt(layout, q).stem

(* session_context_from_checkpoint finds the skills anew, with the names of *)
(* the last snapshot; it says of a session what the session has, unless the *)
(* files changed since or a spawned session has not been restored yet.      *)
ReportedSkills(s) == LoadSession(files, conf[s].names)
ReportedTools(s) == BuiltIn(conf[s].plan) \cup UNION {k.tools : k \in ToSet(ReportedSkills(s))}
ReportMatchesSession ==
    \A s \in Live : Clean(files) /\ ~stale[s] /\ conf[s].made \notin {"spawned", "rebuilt"} =>
        ReportedSkills(s) = skills[s] /\ ReportedTools(s) = DOMAIN tools[s]

(* The first message lists the tools the session offers, and its skills,    *)
(* across plan mode, switches, forks and restarts, as long as the files are *)
(* the ones it was written from (build_combined_system_prompt).             *)
PromptListsItsTools ==
    \A s \in Live : Clean(files) /\ ~drift[s] /\ ~stale[s] =>
        prompt[s].tools = Advertised(tools[s], Web(s)) /\ prompt[s].skills = NamesOf(skills[s])

(* A session talks to the provider of the profile it is listed with, unless *)
(* it was started from the handle of a session that had changed its model   *)
(* (UpdateSessionLlm, SessionHandle).                                       *)
ModelIsItsProfile == \A s \in Live : ~misled[s] => provider[s] = conf[s].profile
=============================================================================
