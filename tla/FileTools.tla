------------------------------ MODULE FileTools ------------------------------
(* The tools that touch files and processes, run by sessions that share a   *)
(* working directory: apply_patch, find and bash on the rooted file system  *)
(* (OverlayFilesystem). Every await of a tool is a step, so tools of        *)
(* different sessions interleave; each session makes one call.              *)
(* A file holds a sequence of pieces of text; the old_text of an edit is    *)
(* one piece.                                                               *)
EXTENDS Integers, Sequences, FiniteSets, SequencesExt

CONSTANTS
    Workers,      (* the sessions                                           *)
    Scenes        (* [disk, jobs]: what is on disk and which calls are made *)

VARIABLES
    disk,         (* disk[p]: the pieces of the file p, or <<"dir">>; p is a sequence of names *)
    job,          (* job[w]: the call of w and how far it is                *)
    group,        (* group[w]: the live processes of w's command            *)
    outcome,      (* outcome[w]: what the tool returned                     *)
    versions,     (* the contents each file may have: written before the start or by a whole patch *)
    spoilt,       (* the files read or written while another wrote them, or whose writing failed *)
    lasting,      (* lasting[w]: what a find must report: matches that were there all the time *)
    seen          (* seen[w]: what matched at some time during the find     *)

fileVars == <<disk, job, group, outcome, versions, spoilt, lasting, seen>>

Dir == <<"dir">>
IsDir(d, p) == p = <<>> \/ (p \in DOMAIN d /\ d[p] = Dir)
IsFile(d, p) == p \in DOMAIN d /\ d[p] # Dir
Parents(p) == {SubSeq(p, 1, n) : n \in 1..(Len(p) - 1)}

(* list_dir: sorted by name; names are numbered, and the hidden directories *)
(* (.git, target, node_modules, ...) have the number 0.                     *)
ListDir(d, p) == SetToSortSeq({q[Len(q)] : q \in {x \in DOMAIN d : Len(x) = Len(p) + 1 /\ IsPrefix(p, x)}}, <)
With(d, p, content) == [q \in DOMAIN d \cup {p} |-> IF q = p THEN content ELSE d[q]]
WithDirs(d, ps) == [q \in DOMAIN d \cup ps |-> IF q \in DOMAIN d THEN d[q] ELSE Dir]

----------------------------------------------------------------------------
(* apply_edits: each edit in turn, on what the ones before it left. An edit *)
(* whose text is missing, or ambiguous without replace_all, fails them all. *)
Refused == <<"refused">>
Replace(content, edit) == [i \in DOMAIN content |-> IF content[i] = edit.old THEN edit.new ELSE content[i]]
Apply(content, edit) ==
    LET matches == Cardinality({i \in DOMAIN content : content[i] = edit.old})
    IN IF content = Refused \/ matches = 0 \/ (matches # 1 /\ ~edit.all) THEN Refused ELSE Replace(content, edit)

ApplyEdits(content, edits) == IF edits = <<>> THEN Refused ELSE FoldLeft(Apply, content, edits)

----------------------------------------------------------------------------
(* find: the entries that match, below the directory it was given.          *)
Hidden(d, p) == IsDir(d, p) /\ Last(p) = 0
Fits(d, p, want) ==
    /\ (want.type = "file" => IsFile(d, p)) /\ (want.type = "directory" => IsDir(d, p))
    /\ Last(p) \in want.names
    /\ want.content # "" => IsFile(d, p) /\ \E i \in DOMAIN d[p] : d[p][i] = want.content

Descends(depth, want) == depth < want.depth
Wanted(d, want) ==
    {p \in DOMAIN d : /\ Fits(d, p, want) /\ Len(p) <= want.depth + 1
                      /\ \A n \in 1..Len(p) : ~Hidden(d, SubSeq(p, 1, n))}

----------------------------------------------------------------------------
Idle(call) == [call |-> call, step |-> "start", content |-> <<>>, put |-> 0, stack |-> <<>>, found |-> {}]
FilesInit ==
    \E scene \in Scenes :
        /\ disk = scene.disk
        /\ job \in [Workers -> {Idle(c) : c \in scene.jobs}]
        /\ group = [w \in Workers |-> {}]
        /\ outcome = [w \in Workers |-> "none"]
        /\ versions = {<<p, scene.disk[p]>> : p \in DOMAIN scene.disk}
        /\ spoilt = {}
        /\ lasting = [w \in Workers |-> {}]
        /\ seen = [w \in Workers |-> {}]

At(w, tool, step) == job[w].call.tool = tool /\ job[w].step = step
Goto(w, step) == job' = [job EXCEPT ![w].step = step]

(* What an interrupted call finds out goes nowhere.                         *)
Return(w, result) ==
    /\ job' = [job EXCEPT ![w].step = "done"]
    /\ outcome' = [outcome EXCEPT ![w] = IF @ = "none" THEN result ELSE @]

(* What the finds under way must report, and may, after a change of disk.   *)
Finding(w) == At(w, "find", "walk")
Observe(d) ==
    /\ disk' = d
    /\ lasting' = [w \in Workers |-> IF Finding(w) THEN lasting[w] \cap Wanted(d, job[w].call.want) ELSE lasting[w]]
    /\ seen' = [w \in Workers |-> IF Finding(w) THEN seen[w] \cup Wanted(d, job[w].call.want) ELSE seen[w]]

Looks == UNCHANGED <<disk, lasting, seen>>

----------------------------------------------------------------------------
(* apply_patch: makes the directories, looks whether the file is there,     *)
(* reads it, and writes all of it again.                                    *)
PatchPath(w) == job[w].call.path
Writing(w) == At(w, "apply_patch", "fill")
Spoil(w) ==
    spoilt' = IF \E v \in Workers \ {w} : Writing(v) /\ PatchPath(v) = PatchPath(w)
              THEN spoilt \cup {PatchPath(w)} ELSE spoilt

MakeDirs(w) ==
    /\ At(w, "apply_patch", "start") /\ Goto(w, "look")
    /\ Observe(WithDirs(disk, Parents(PatchPath(w))))
    /\ UNCHANGED <<group, outcome, versions, spoilt>>

LookForFile(w) ==
    /\ At(w, "apply_patch", "look")
    /\ IF PatchPath(w) \in DOMAIN disk THEN Goto(w, "read") /\ UNCHANGED outcome
       ELSE IF job[w].call.new = <<>> \/ job[w].call.edits # <<>> THEN Return(w, "error")
       ELSE job' = [job EXCEPT ![w].step = "write", ![w].content = job[w].call.new] /\ UNCHANGED outcome
    /\ Looks /\ UNCHANGED <<group, versions, spoilt>>

ReadAndEdit(w) ==
    LET updated == IF IsFile(disk, PatchPath(w)) THEN ApplyEdits(disk[PatchPath(w)], job[w].call.edits) ELSE Refused
    IN /\ At(w, "apply_patch", "read")
       /\ IF updated = Refused THEN Return(w, "error")
          ELSE job' = [job EXCEPT ![w].step = "write", ![w].content = updated] /\ UNCHANGED outcome
       /\ Spoil(w) /\ Looks /\ UNCHANGED <<group, versions>>

WholePatches(before, call) ==
    IF call.edits = <<>> THEN {call.new}
    ELSE {FoldLeft(Replace, v, call.edits) : v \in {x \in before :
            \A i \in DOMAIN call.edits :
               LET text == FoldLeft(Replace, x, SubSeq(call.edits, 1, i - 1))
                   places == {j \in DOMAIN text : text[j] = call.edits[i].old}
               IN places # {} /\ (call.edits[i].all \/ Cardinality(places) = 1)}}

(* tokio::fs::write truncates the file and writes from its beginning, at an *)
(* offset of its own: most often all at once, but the system may take less. *)
Truncate(w) ==
    /\ At(w, "apply_patch", "write") /\ ~IsDir(disk, PatchPath(w))
    /\ Observe(With(disk, PatchPath(w), <<>>))
    /\ Goto(w, "fill") /\ Spoil(w) /\ UNCHANGED <<group, outcome, versions>>

Gap == "zeros"
Overwritten(file, content, from, to) ==
    [i \in 1..IF Len(file) > to THEN Len(file) ELSE to |->
        IF i \in from..to THEN content[i] ELSE IF i <= Len(file) THEN file[i] ELSE Gap]

Fill(w) ==
    /\ Writing(w)
    /\ \E to \in (job[w].put + 1)..Len(job[w].content) :
         LET before == {v[2] : v \in {x \in versions : x[1] = PatchPath(w)}} \ {Dir}
         IN /\ Observe(With(disk, PatchPath(w), Overwritten(disk[PatchPath(w)], job[w].content, job[w].put + 1, to)))
            /\ \/ /\ to = Len(job[w].content)
                  /\ versions' = versions \cup ({PatchPath(w)} \X WholePatches(before, job[w].call))
                  /\ Return(w, "ok")
               \/ /\ to < Len(job[w].content)
                  /\ job' = [job EXCEPT ![w].put = to] /\ UNCHANGED <<outcome, versions>>
    /\ UNCHANGED <<group, spoilt>>

(* The file cannot be opened, or the disk is full.                          *)
WriteFails(w) ==
    /\ At(w, "apply_patch", "write") \/ Writing(w)
    /\ Return(w, "error")
    /\ spoilt' = IF Writing(w) THEN spoilt \cup {PatchPath(w)} ELSE spoilt
    /\ Looks /\ UNCHANGED <<group, versions>>

----------------------------------------------------------------------------
(* find: walk_directory, one entry of the innermost directory at a time.    *)
Frame(d, p, depth) == [dir |-> p, left |-> ListDir(d, p), depth |-> depth]
StartFind(w) ==
    LET want == job[w].call.want
    IN /\ At(w, "find", "start")
       /\ job' = [job EXCEPT ![w].step = "walk", ![w].stack = <<Frame(disk, <<>>, 0)>>]
       /\ lasting' = [lasting EXCEPT ![w] = Wanted(disk, want)]
       /\ seen' = [seen EXCEPT ![w] = Wanted(disk, want)]
       /\ UNCHANGED <<disk, group, outcome, versions, spoilt>>

Full(w) == Cardinality(job[w].found) >= job[w].call.want.most
WalkEntry(w) ==
    LET want == job[w].call.want
        top == Last(job[w].stack)
        below == [job[w].stack EXCEPT ![Len(job[w].stack)].left = Tail(top.left)]
        entry == Append(top.dir, Head(top.left))
    IN /\ Finding(w) /\ job[w].stack # <<>> /\ top.left # <<>> /\ ~Full(w)
       /\ job' = [job EXCEPT
            ![w].found = IF entry \in DOMAIN disk /\ ~Hidden(disk, entry) /\ Fits(disk, entry, want) THEN @ \cup {entry} ELSE @,
            ![w].stack = IF IsDir(disk, entry) /\ ~Hidden(disk, entry) /\ Descends(top.depth, want)
                         THEN Append(below, Frame(disk, entry, top.depth + 1)) ELSE below]
       /\ Looks /\ UNCHANGED <<group, outcome, versions, spoilt>>

LeaveDirectory(w) ==
    /\ Finding(w) /\ job[w].stack # <<>> /\ Last(job[w].stack).left = <<>>
    /\ job' = [job EXCEPT ![w].stack = Front(@)]
    /\ Looks /\ UNCHANGED <<group, outcome, versions, spoilt>>

FinishFind(w) ==
    /\ Finding(w) /\ (job[w].stack = <<>> \/ Full(w))
    /\ Return(w, "ok") /\ Looks /\ UNCHANGED <<group, versions, spoilt>>

----------------------------------------------------------------------------
(* bash: /bin/sh in a process group of its own. What it starts in the       *)
(* background holds the output open unless it is redirected.                *)
Spawn(w) ==
    /\ At(w, "bash", "start") /\ Goto(w, "wait")
    /\ group' = [group EXCEPT ![w] = {"sh"}]
    /\ Looks /\ UNCHANGED <<outcome, versions, spoilt>>

Fork(w) ==
    /\ "sh" \in group[w]
    /\ group' = [group EXCEPT ![w] = @ \cup job[w].call.background]
    /\ Looks /\ UNCHANGED <<job, outcome, versions, spoilt>>

ProcessEnds(w) ==
    /\ \E p \in group[w] : group' = [group EXCEPT ![w] = @ \ {p}]
    /\ Looks /\ UNCHANGED <<job, outcome, versions, spoilt>>

OutputEnds(w) ==
    /\ At(w, "bash", "wait") /\ group[w] \subseteq {"redirected"}
    /\ Return(w, "ok") /\ Looks /\ UNCHANGED <<group, versions, spoilt>>

\* A dropped call ends the shell alone (kill_on_drop).  Mutant: so does a timeout.
KillShell(processes) == processes \ {"sh"}

Killed(processes) == {}

Timeout(w) ==
    /\ At(w, "bash", "wait")
    /\ group' = [group EXCEPT ![w] = Killed(group[w])]
    /\ Return(w, "timeout")
    /\ Looks /\ UNCHANGED <<versions, spoilt>>

(* A signal to the session: execute_tool_call drops the future of the tool  *)
(* without polling it again. A command's shell dies with it (kill_on_drop), *)
(* the branch of bash.rs that kills the group does not run; a write that    *)
(* was handed to the blocking pool goes on.                                 *)
Interrupt(w) ==
    /\ job[w].step \notin {"start", "done"} /\ outcome[w] = "none"
    /\ outcome' = [outcome EXCEPT ![w] = "cancelled"]
    /\ \/ job' = [job EXCEPT ![w].step = "done"] /\ job[w].step # "fill"
       \/ job[w].step \in {"write", "fill"} /\ UNCHANGED job
    /\ group' = [group EXCEPT ![w] = KillShell(@)]
    /\ Looks /\ UNCHANGED <<versions, spoilt>>

FilesNext ==
    \E w \in Workers :
        \/ MakeDirs(w) \/ LookForFile(w) \/ ReadAndEdit(w) \/ Truncate(w) \/ Fill(w) \/ WriteFails(w)
        \/ StartFind(w) \/ WalkEntry(w) \/ LeaveDirectory(w) \/ FinishFind(w)
        \/ Spawn(w) \/ Fork(w) \/ ProcessEnds(w) \/ OutputEnds(w) \/ Timeout(w) \/ Interrupt(w)

FilesSpec == FilesInit /\ [][FilesNext]_fileVars

----------------------------------------------------------------------------
(* A file holds no part of a patch: its content is an earlier one with all  *)
(* the edits of a call, whoever else reads and patches it between the steps *)
(* of the call, unless somebody read or wrote it while another wrote it, or *)
(* its writing failed (apply_edits, execute of apply_patch, write_file).    *)
PatchesAreWhole ==
    \A p \in DOMAIN disk \ spoilt :
        \/ disk[p] = Dir \/ <<p, disk[p]>> \in versions
        \/ \E w \in Workers : Writing(w) /\ PatchPath(w) = p

(* A find reports what matched at some time while it walked, and all that   *)
(* matched throughout unless it stopped at max_results (walk_directory).    *)
FindsWhatWasThere ==
    \A w \in Workers : At(w, "find", "done") /\ outcome[w] = "ok" =>
        /\ job[w].found \subseteq seen[w]
        /\ lasting[w] \subseteq job[w].found \/ Cardinality(job[w].found) = job[w].call.want.most

(* A command that timed out leaves none of its processes behind, those it   *)
(* started in the background included (the kill of the group in bash.rs).   *)
Leftovers(result) == {w \in Workers : outcome[w] = result /\ group[w] # {}}
NothingOutlivesATimeout == Leftovers("timeout") = {}

(* The same of a command that was cancelled                                 *)
(* (bash_cancellation_kills_background_process_group).                      *)
NothingOutlivesACancel == Leftovers("cancelled") = {}

(* Whatever happens while it is written, a file holds whole patches.        *)
PatchesStayWhole ==
    \A p \in DOMAIN disk :
        \/ disk[p] = Dir \/ <<p, disk[p]>> \in versions
        \/ \E w \in Workers : Writing(w) /\ PatchPath(w) = p
=============================================================================
