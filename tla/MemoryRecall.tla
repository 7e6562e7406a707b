---------------------------- MODULE MemoryRecall ----------------------------
(* Persistent memory: what users ask to remember is extracted from the      *)
(* history of their sessions into files of a scope (MemoryStore), and read  *)
(* back into prompts (build_prompt_memory_injection) by sessions that may   *)
(* read the scope. One extraction runs at a time; its writes, and the two   *)
(* reads of a recall, are steps of their own, and the daemon may stop       *)
(* between them.                                                            *)
EXTENDS Integers, Sequences, FiniteSets, SequencesExt

CONSTANTS
    Holders,      (* the sessions                                           *)
    Uses,         (* [confs, messages, length]: configurations, what is said, and how often *)
    MaxEntries,   (* TARGETED_MAX_ENTRIES                                   *)
    CharBudget    (* TARGETED_TOTAL_CHAR_BUDGET                             *)

VARIABLES
    conf,         (* configuration of each session                          *)
    talk,         (* [messages, length] of the use                          *)
    said,         (* said[s]: the user messages of its history              *)
    extracted,    (* last_extracted_message_index + 1                       *)
    entries,      (* entries[scope]: slug -> record                         *)
    index,        (* index[scope]: the entries of index.json                *)
    job,          (* the extraction under way                               *)
    recall,       (* recall[s]: the prompt being built, or the last one     *)
    kept,         (* kept[scope]: what its messages ask to keep (observed)  *)
    cut           (* scopes whose last write did not finish (observed) *)

memoryVars == <<conf, talk, said, extracted, entries, index, job, recall, kept, cut>>

(* MemoryPolicyConfig and the keys of a session: what it may read and       *)
(* write, in which order, and who wins a conflict.                          *)
Kinds == {"project", "agent", "team"}
IsPolicy(c) ==
    /\ {c.advanced, c.agentMemory, c.teamMemory, c.crossScope, c.needsIntent, c.needsTrust, c.trusted} \subseteq BOOLEAN
    /\ c.order \in {"project", "agent_first", "all"}
    /\ c.conflict \in {"narrower", "broader", "recent", "error"}
    /\ c.readable \cup c.writable \subseteq Kinds /\ c.writes \in Kinds

----------------------------------------------------------------------------
(* Scopes. A fact is [text, id, title, words, chars]: id is the text with   *)
(* everything but ASCII letters and digits dropped (normalize_fact), title  *)
(* the slug of a title that may be cut (titleize).                          *)
Project == <<"project", "", "">>
AgentScope(c) == <<"agent", c.agent, "">>
TeamScope(c) == <<"team", c.team, "">>
Offered(c, kind) ==
    CASE kind = "project" -> TRUE
      [] kind = "agent" -> c.advanced /\ c.agentMemory /\ c.agent # ""
      [] kind = "team" -> c.advanced /\ c.teamMemory /\ c.team # ""

ScopedPaths(c, kind) == CASE kind = "project" -> Project [] kind = "agent" -> AgentScope(c) [] kind = "team" -> TeamScope(c)

(* ordered_readable_scopes                                                  *)
CrossScopeOrder(c) ==
    CASE c.order = "project" -> <<"project">>
      [] c.order = "agent_first" -> <<"agent", "project", "team">>
      [] c.order = "all" -> <<"project", "agent", "team">>

LookupOrder(c) ==
    LET both == Offered(c, "agent") /\ Offered(c, "team")
    IN CASE both /\ ~c.crossScope -> <<"project">>
         [] both /\ c.crossScope -> CrossScopeOrder(c)
         [] Offered(c, "agent") -> IF c.order = "agent_first" THEN <<"agent", "project">> ELSE <<"project", "agent">>
         [] Offered(c, "team") -> <<"project", "team">>
         [] OTHER -> <<"project">>

ReadableScopes(c) == SelectSeq(LookupOrder(c), LAMBDA kind : kind \in c.readable)
WritableKind(c) == IF Offered(c, c.writes) THEN c.writes ELSE "project"
AuthorizeWrite(c, kind, explicit) ==
    /\ kind \in c.writable
    /\ kind # "project" /\ c.needsIntent => explicit
    /\ c.needsTrust => c.trusted

Scopes == {Project} \cup {ScopedPaths(conf[s], k) : s \in Holders, k \in {"agent", "team"}}
At(f, scope) == IF scope \in DOMAIN f THEN f[scope] ELSE <<>>
Held(f, scope) == IF scope \in DOMAIN f THEN f[scope] ELSE {}
With(f, scope, v) == [x \in DOMAIN f \cup {scope} |-> IF x = scope THEN v ELSE f[x]]

----------------------------------------------------------------------------
(* Decisions: decision_for_message on the live records, a set of            *)
(* [fact, at, slug]; at orders updated_at.                                  *)
Explicit(m) == m.kind \in {"remember", "forget"}
Named(live, id) == {r \in live : r.fact.id = id}
Upsert(live, fact, at) == (live \ Named(live, fact.id)) \cup {[fact |-> fact, at |-> at, slug |-> fact.id]}
Decide(c, live, m, at) ==
    CASE ~AuthorizeWrite(c, WritableKind(c), Explicit(m)) -> live
      [] m.kind = "remember" -> Upsert(live, m.fact, at)
      [] m.kind = "forget" -> live \ Named(live, m.fact.id)
      [] m.kind = "prefer" /\ Named(live, m.fact.id) = {} -> Upsert(live, m.fact, at)
      [] OTHER -> live

Clock == Cardinality({x \in Holders \X (1..8) : x[2] <= Len(said[x[1]])})
DecideAll(c, live, messages) == FoldLeft(LAMBDA l, m : Decide(c, l, m, Clock), live, messages)

(* load_live_records: the slug of a record that was read is the slug of its *)
(* title.                                                                   *)
Loaded(files) == {[files[p] EXCEPT !.slug = files[p].fact.title] : p \in DOMAIN files}

----------------------------------------------------------------------------
NoJob == [step |-> "none"]
NoRecall == [step |-> "none", user |-> 0, chosen |-> <<>>, selected |-> {}, outcome |-> "not_run", met |-> FALSE]
MemoryInit ==
    \E use \in Uses :
        /\ conf \in [Holders -> {c \in use.confs : IsPolicy(c)}] /\ talk = [messages |-> use.messages, length |-> use.length]
        /\ said = [s \in Holders |-> <<>>] /\ extracted = [s \in Holders |-> 0]
        /\ entries = <<>> /\ index = <<>> /\ kept = <<>> /\ cut = {}
        /\ job = NoJob /\ recall = [s \in Holders |-> NoRecall]

Say(s) ==
    /\ recall[s].step # "read" /\ Clock < talk.length
    /\ \E m \in talk.messages : said' = [said EXCEPT ![s] = Append(@, m)]
    /\ UNCHANGED <<conf, talk, extracted, entries, index, job, recall, kept, cut>>

(* extract_and_persist_for_session up to the first write.                   *)
StartExtraction(s) ==
    LET scope == ScopedPaths(conf[s], WritableKind(conf[s]))
        fresh == SubSeq(said[s], extracted[s] + 1, Len(said[s]))
        before == Loaded(At(entries, scope))
        after == DecideAll(conf[s], before, fresh)
        wanted == FoldLeft(LAMBDA l, m : Decide(conf[s], l, m, 0), Held(kept, scope), fresh)
    IN /\ job = NoJob /\ fresh # <<>>
       /\ IF after = before
          THEN extracted' = [extracted EXCEPT ![s] = Len(said[s])] /\ kept' = With(kept, scope, wanted) /\ UNCHANGED job
          ELSE /\ job' = [step |-> "entries", by |-> s, scope |-> scope, records |-> after, upto |-> Len(said[s]), wanted |-> wanted]
               /\ UNCHANGED <<extracted, kept>>
       /\ UNCHANGED <<conf, talk, said, entries, index, recall, cut>>

(* persist_records: the entry files, the removal of the others, index.json. *)
(* Two records of one slug share a file: the later title wins.              *)
FileOf(records, slug) == CHOOSE r \in records : r.slug = slug
Written(files, records) ==
    LET slugs == {r.slug : r \in records}
    IN [p \in DOMAIN files \cup slugs |-> IF p \in slugs THEN FileOf(records, p) ELSE files[p]]

IndexOf(records) == {[fact |-> r.fact, at |-> r.at, path |-> r.slug] : r \in records}
Persisting(step) == job.step = step
Reached(scope, rs) == [s \in Holders |-> IF rs[s].step = "read" THEN [rs[s] EXCEPT !.met = TRUE] ELSE rs[s]]
WriteEntries ==
    /\ Persisting("entries") /\ job' = [job EXCEPT !.step = "sweep"]
    /\ entries' = With(entries, job.scope, Written(At(entries, job.scope), job.records))
    /\ kept' = With(kept, job.scope, job.wanted)
    /\ cut' = cut \cup {job.scope} /\ recall' = Reached(job.scope, recall)
    /\ UNCHANGED <<conf, talk, said, extracted, index>>

\* Mutant: the sweep names files by title where the writer used the identifier.
ExpectedByTitle(records) == {r.fact.title : r \in records}

Expected(records) == {r.slug : r \in records}
SweepEntries ==
    /\ Persisting("sweep") /\ job' = [job EXCEPT !.step = "index"]
    /\ LET files == At(entries, job.scope)
       IN entries' = With(entries, job.scope, [p \in DOMAIN files \cap Expected(job.records) |-> files[p]])
    /\ recall' = Reached(job.scope, recall)
    /\ UNCHANGED <<conf, talk, said, extracted, index, kept, cut>>

WriteIndex ==
    /\ Persisting("index") /\ job' = NoJob
    /\ index' = With(index, job.scope, IndexOf(job.records))
    /\ extracted' = [extracted EXCEPT ![job.by] = job.upto]
    /\ cut' = cut \ {job.scope} /\ recall' = Reached(job.scope, recall)
    /\ UNCHANGED <<conf, talk, said, entries, kept>>

(* The daemon stops and starts again.                                       *)
Stop ==
    /\ job # NoJob /\ job' = NoJob /\ recall' = [s \in Holders |-> NoRecall]
    /\ UNCHANGED <<conf, talk, said, extracted, entries, index, kept, cut>>

----------------------------------------------------------------------------
(* Recall, for one provider call of the turn that the last message began.   *)
Candidates(c) ==
    UNION {{[scope |-> ScopedPaths(c, k), kind |-> k, fact |-> e.fact, at |-> e.at, path |-> e.path] :
                e \in Held(index, ScopedPaths(c, k))} : k \in ToSet(ReadableScopes(c))}

Rank(kind) == CASE kind = "project" -> 0 [] kind = "team" -> 1 [] kind = "agent" -> 2
Beats(c, x, y) ==
    CASE c.conflict = "narrower" -> Rank(x.kind) > Rank(y.kind)
      [] c.conflict = "broader" -> Rank(x.kind) < Rank(y.kind)
      [] OTHER -> x.at > y.at \/ (x.at = y.at /\ Rank(x.kind) < Rank(y.kind))

ResolveConflicts(c, found) ==
    {x \in found : LET rivals == {y \in found : y.fact.id = x.fact.id} \ {x}
                   IN rivals = {} \/ (c.conflict # "error" /\ \A y \in rivals : Beats(c, x, y))}

Overlap(x, words) == Cardinality(x.fact.words \cap words)
Better(words, x, y) ==
    \/ Overlap(x, words) > Overlap(y, words)
    \/ Overlap(x, words) = Overlap(y, words) /\ x.at > y.at
    \/ Overlap(x, words) = Overlap(y, words) /\ x.at = y.at /\ x.fact.text < y.fact.text

Reads(s) == {ScopedPaths(conf[s], k) : k \in ToSet(ReadableScopes(conf[s]))}
Previous(s) == IF recall[s].user = Len(said[s]) THEN recall[s].selected ELSE {}
StartRecall(s) ==
    LET words == Last(said[s]).fact.words
        fit == {x \in ResolveConflicts(conf[s], Candidates(conf[s])) : Overlap(x, words) > 0 /\ x.fact.id \notin Previous(s)}
        Done(why) == recall' = [recall EXCEPT ![s] = [NoRecall EXCEPT !.outcome = why, !.user = Len(said[s])]]
    IN /\ recall[s].step # "read" /\ said[s] # <<>>
       /\ CASE conf[s].mode = "disabled" -> Done("disabled")
            [] Candidates(conf[s]) = {} -> Done("no_index")
            [] words = {} -> Done("no_query")
            [] OTHER -> recall' = [recall EXCEPT ![s] = [NoRecall EXCEPT !.step = "read", !.user = Len(said[s]), !.met = Reads(s) \cap cut # {},
                                    !.chosen = SetToSortSeq(fit, LAMBDA x, y : Better(words, x, y))]]
       /\ UNCHANGED <<conf, talk, said, extracted, entries, index, job, kept, cut>>

(* The records are read in that order until there are two; one that would   *)
(* not fit the budget is passed over; one that cannot be read ends it all.  *)
Budget(taken) == FoldLeft(LAMBDA n, x : n + x.fact.chars, 0, taken)
HasFile(x) == x.path \in DOMAIN At(entries, x.scope)
TakeRecord(taken, x) ==
    IF Len(taken) = MaxEntries \/ Budget(taken) + x.fact.chars > CharBudget THEN taken ELSE Append(taken, x)

Considered(chosen) ==
    {i \in DOMAIN chosen : Len(FoldLeft(TakeRecord, <<>>, SubSeq(chosen, 1, i - 1))) < MaxEntries}

FinishRecall(s) ==
    LET chosen == recall[s].chosen
        broken == \E i \in Considered(chosen) : ~HasFile(chosen[i])
        taken == FoldLeft(TakeRecord, <<>>, chosen)
        records == {At(entries, taken[i].scope)[taken[i].path] : i \in DOMAIN taken}
    IN /\ recall[s].step = "read"
       /\ recall' = [recall EXCEPT
            ![s].step = "done",
            ![s].chosen = IF broken THEN <<>> ELSE taken,
            ![s].selected = IF broken THEN Previous(s) ELSE {r.fact.id : r \in records},
            ![s].outcome = IF broken THEN "failed_turn" ELSE IF taken = <<>> THEN "no_matching_entries" ELSE "succeeded"]
       /\ UNCHANGED <<conf, talk, said, extracted, entries, index, job, kept, cut>>

MemoryNext ==
    \/ \E s \in Holders : Say(s) \/ StartExtraction(s) \/ StartRecall(s) \/ FinishRecall(s)
    \/ WriteEntries \/ SweepEntries \/ WriteIndex \/ Stop

MemorySpec == MemoryInit /\ [][MemoryNext]_memoryVars

----------------------------------------------------------------------------
(* A turn fails over its memory only when an extraction wrote while the     *)
(* prompt was built, or one was cut short in a scope it reads               *)
(* (persist_records, load_record).                                          *)
MemoryBreaksNoTurn ==
    \A s \in Holders : recall[s].outcome = "failed_turn" => recall[s].met

(* What was remembered and not forgotten stays on disk, whatever else is    *)
(* stored in its scope, unless another fact shares its id or the slug of    *)
(* its title (decision_for_message, persist_records).                       *)
Shares(f, g) == f # g /\ (f.id = g.id \/ f.title = g.title)
Heard == UNION {{said[s][i].fact : i \in DOMAIN said[s]} : s \in Holders}
RememberedIsKept ==
    job = NoJob => \A scope \in DOMAIN kept : \A r \in kept[scope] :
        \/ \E p \in DOMAIN At(entries, scope) : entries[scope][p].fact = r.fact
        \/ \E g \in Heard : Shares(r.fact, g)

(* A prompt shows only what the session's policy lets it read, and of the   *)
(* memory of agents and teams only its own (resolve_scoped_memory_paths).   *)
ToldBy(fact, c, kind) ==
    \E s \in Holders, i \in 1..talk.length :
        /\ i <= Len(said[s]) /\ said[s][i].fact.id = fact.id /\ said[s][i].kind \in {"remember", "prefer"}
        /\ WritableKind(conf[s]) = kind
        /\ (kind = "agent" => conf[s].agent = c.agent) /\ (kind = "team" => conf[s].team = c.team)

RecallStaysInScope ==
    \A s \in Holders : recall[s].step = "done" => \A i \in DOMAIN recall[s].chosen :
        LET x == recall[s].chosen[i] IN x.kind \in conf[s].readable /\ ToldBy(x.fact, conf[s], x.kind)
=============================================================================
