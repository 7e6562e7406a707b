---------------------------- MODULE Daemon_proofs ----------------------------
(***************************************************************************)
(* Machine-checked proofs about the daemon around the core, for every set  *)
(* of sessions, clients, programs, daemons and launchers and every bound.  *)
(* HarnessService: the listing agrees with the core's registry and its     *)
(* trees show each session once. IpcServer: requests are answered once and *)
(* in order, and a command that collects its turn does not miss the end.   *)
(* DaemonProcess: a command stops only the daemon that it started.         *)
(***************************************************************************)
EXTENDS HarnessService, DaemonProcess, IpcServer, FiniteSetTheorems, WellFoundedInduction, TLAPS

----------------------------------------------------------------------------
(* The listing beside the registry.                                         *)

Parents == Sessions \cup {Nobody, NoSession}
States == {"idle", "streaming", "paused", "destroyed"}
ProfileOf == Models \cup {NoModel}
GroupOf == Groups \cup {NoGroup}
CoreEntry == [state : States, group : GroupOf, model : ProfileOf, runs : ProfileOf,
              handle : [model : ProfileOf, runs : ProfileOf, group : GroupOf], parent : Parents]
StoredEntry == [state : States, group : GroupOf, model : ProfileOf, parent : Parents]
ListedEntry == [state : States, group : Sessions \cup GroupOf, model : ProfileOf, parent : Parents, jobs : Nat]

HarnessTypeOK ==
    /\ DOMAIN core \subseteq Sessions /\ core \in [DOMAIN core -> CoreEntry]
    /\ DOMAIN completed \subseteq Sessions /\ completed \in [DOMAIN completed -> StoredEntry]
    /\ DOMAIN disk \subseteq Sessions /\ disk \in [DOMAIN disk -> StoredEntry]
    /\ DOMAIN listing \subseteq Sessions /\ listing \in [DOMAIN listing -> ListedEntry]
    /\ output \in Seq([session : Sessions, state : States])
    /\ DOMAIN answered = Callers

(* What the core has answered and the caller has not noted yet. *)
CallTrue(c) ==
    /\ Back(c, "create") =>
         LET s == answered[c][1].session
         IN /\ s \in DOMAIN core /\ core[s].state = "idle" /\ core[s].parent = NoSession
            /\ answered[c][1].arg.group = core[s].group /\ answered[c][1].arg.model \in ProfileOf
    /\ Back(c, "spawn") =>
         LET s == answered[c][1].session
         IN /\ s \in DOMAIN core \cup DOMAIN completed /\ answered[c][1].arg \in Sessions \cup {Nobody}
            /\ s \in DOMAIN core => core[s].parent # NoSession
    /\ Back(c, "model") => answered[c][1].arg \in ProfileOf
CallsTrue == \A c \in Callers : CallTrue(c)

BeingCreated(s) == \E c \in Callers : Back(c, "create") /\ answered[c][1].session = s

ListedOrTold == \A s \in DOMAIN core : s \in DOMAIN listing \/ \E i \in DOMAIN output : output[i].session = s
LastIsNow ==
    \A i \in DOMAIN output :
        LET s == output[i].session
        IN s \in DOMAIN core /\ (\A j \in DOMAIN output : j > i => output[j].session # s)
             => output[i].state = core[s].state

RootsListed ==
    \A s \in DOMAIN core : core[s].parent = NoSession =>
        /\ ~BeingCreated(s) => s \in DOMAIN listing /\ listing[s].group = EffectiveGroup(s, core[s].group)
        /\ s \in DOMAIN listing => listing[s].parent = NoSession
        /\ s \in DOMAIN listing /\ (\A i \in DOMAIN output : output[i].session # s)
             => listing[s].state = core[s].state

ListInv == HarnessTypeOK /\ CallsTrue /\ ListedOrTold /\ LastIsNow /\ RootsListed

Told(s, state) == [session |-> s, state |-> state]

\* A map with an entry added or replaced, and one map laid over another.
LEMMA PutType ==
    ASSUME NEW S, NEW map, DOMAIN map \subseteq Sessions, map \in [DOMAIN map -> S],
           NEW s \in Sessions, NEW value \in S
    PROVE  /\ DOMAIN Put(map, s, value) = DOMAIN map \cup {s}
           /\ DOMAIN Put(map, s, value) \subseteq Sessions
           /\ Put(map, s, value) \in [DOMAIN Put(map, s, value) -> S]
           /\ Put(map, s, value)[s] = value
           /\ \A t \in DOMAIN map : t # s => Put(map, s, value)[t] = map[t]
  BY DEF Put

LEMMA OverType ==
    ASSUME NEW S, NEW map, DOMAIN map \subseteq Sessions, map \in [DOMAIN map -> S],
           NEW below, DOMAIN below \subseteq Sessions, below \in [DOMAIN below -> S]
    PROVE  /\ DOMAIN Over(map, below) \subseteq Sessions
           /\ Over(map, below) \in [DOMAIN Over(map, below) -> S]
  BY DEF Over

\* Sequences: their elements, one more, one fewer.
LEMMA ElementOf ==
    ASSUME NEW S, NEW q \in Seq(S), NEW i \in DOMAIN q
    PROVE  q[i] \in S
OBVIOUS

LEMMA FunctionIsSeq ==
    ASSUME NEW S, NEW n \in Nat, NEW q \in [1..n -> S]
    PROVE  q \in Seq(S)
OBVIOUS

LEMMA OneMoreTold ==
    ASSUME NEW s \in Sessions, NEW state \in States,
           output \in Seq([session : Sessions, state : States]), Changed(s, state)
    PROVE  /\ output' \in Seq([session : Sessions, state : States])
           /\ DOMAIN output = 1..Len(output) /\ DOMAIN output' = 1..(Len(output) + 1)
           /\ \A i \in DOMAIN output : i \in DOMAIN output' /\ output'[i] = output[i] /\ i < Len(output) + 1
           /\ Len(output) + 1 \in DOMAIN output'
           /\ output'[Len(output) + 1] = Told(s, state)
           /\ \A i \in DOMAIN output' : i \in DOMAIN output \/ i = Len(output) + 1
           /\ Len(output) \in Nat
<1>1. PICK e \in [session : Sessions, state : States] : e = Told(s, state)
  BY DEF Told
<1>2. output' = Append(output, e)
  BY <1>1 DEF Changed, Told
<1>3. QED
  BY <1>1, <1>2

LEMMA OneLessTold ==
    ASSUME output \in Seq([session : Sessions, state : States]), output # <<>>, output' = Tail(output)
    PROVE  /\ output' \in Seq([session : Sessions, state : States])
           /\ 1 \in DOMAIN output /\ Head(output) = output[1]
           /\ DOMAIN output = 1..Len(output) /\ DOMAIN output' = 1..(Len(output) - 1)
           /\ \A i \in DOMAIN output' : i + 1 \in DOMAIN output /\ output'[i] = output[i + 1]
           /\ \A i \in DOMAIN output : i # 1 => i - 1 \in DOMAIN output' /\ output'[i - 1] = output[i]
<1>1. Len(output) \in Nat /\ Len(output) > 0
  OBVIOUS
<1>2. /\ output' \in Seq([session : Sessions, state : States])
      /\ Len(output') = Len(output) - 1
      /\ \A i \in 1..(Len(output) - 1) : output'[i] = output[i + 1]
  BY <1>1
<1>3. QED
  BY <1>1, <1>2

\* A daemon without a checkpoint.
LEMMA StartsEmpty == HarnessInit => ListInv
<1> SUFFICES ASSUME HarnessInit PROVE ListInv
  OBVIOUS
<1>1. DOMAIN core = {} /\ DOMAIN completed = {} /\ DOMAIN disk = {} /\ DOMAIN listing = {} /\ DOMAIN output = {}
  BY DEF HarnessInit
<1>2. HarnessTypeOK
  <2>1. core \in [DOMAIN core -> CoreEntry] /\ completed \in [DOMAIN completed -> StoredEntry]
        /\ disk \in [DOMAIN disk -> StoredEntry] /\ listing \in [DOMAIN listing -> ListedEntry]
    BY <1>1 DEF HarnessInit
  <2>2. output \in Seq([session : Sessions, state : States])
    BY DEF HarnessInit
  <2>3. QED
    BY <1>1, <2>1, <2>2 DEF HarnessInit, HarnessTypeOK
<1>3. \A c \in Callers : \A op : ~Back(c, op)
  BY DEF HarnessInit, Back
<1>4. QED
  BY <1>1, <1>2, <1>3 DEF ListInv, CallsTrue, CallTrue, ListedOrTold, LastIsNow, RootsListed

\* The core's answer to a call is noted for its caller alone.
LEMMA NoteCall ==
    ASSUME DOMAIN answered = Callers, NEW c \in Callers, NEW op, NEW s, NEW arg, Answered(c, op, s, arg)
    PROVE  /\ DOMAIN answered' = Callers
           /\ \A d \in Callers : d # c => answered'[d] = answered[d]
           /\ answered'[c] # <<>> /\ answered'[c][1].op = op
           /\ answered'[c][1].session = s /\ answered'[c][1].arg = arg
<1>1. PICK call : call = [op |-> op, session |-> s, arg |-> arg]
  OBVIOUS
<1>2. answered' = [answered EXCEPT ![c] = <<call>>]
  BY <1>1 DEF Answered
<1>3. answered'[c] = <<call>> /\ <<call>> # <<>> /\ <<call>>[1] = call
  BY <1>2
<1>4. QED
  BY <1>1, <1>2, <1>3

(* The core gains a session that nothing has heard of. *)
Grows(s, entry) ==
    /\ s \in Sessions /\ entry \in CoreEntry /\ entry.state = "idle" /\ Unused(s)
    /\ core' = Put(core, s, entry) /\ Changed(s, "idle")
    /\ UNCHANGED <<completed, disk, listing>>

\* A new session in the core keeps the invariant, whoever asked for it.
LEMMA Growth ==
    ASSUME ListInv, NEW s, NEW entry, Grows(s, entry)
    PROVE  /\ s \notin DOMAIN core /\ DOMAIN core' = DOMAIN core \cup {s}
           /\ core'[s] = entry /\ \A t \in DOMAIN core : core'[t] = core[t]
           /\ DOMAIN core' \subseteq Sessions /\ core' \in [DOMAIN core' -> CoreEntry]
           /\ output' \in Seq([session : Sessions, state : States])
           /\ ListedOrTold' /\ LastIsNow'
           /\ \A t : (\A i \in DOMAIN output' : output'[i].session # t) =>
                 t # s /\ (\A i \in DOMAIN output : output[i].session # t)
<1>0. /\ s \in Sessions /\ entry \in CoreEntry /\ entry.state = "idle" /\ Unused(s)
      /\ core' = Put(core, s, entry) /\ Changed(s, "idle") /\ listing' = listing
  BY DEF Grows
<1>1. /\ DOMAIN core \subseteq Sessions /\ core \in [DOMAIN core -> CoreEntry]
      /\ output \in Seq([session : Sessions, state : States])
  BY DEF ListInv, HarnessTypeOK
<1>2. /\ DOMAIN core' = DOMAIN core \cup {s} /\ DOMAIN core' \subseteq Sessions
      /\ core' \in [DOMAIN core' -> CoreEntry] /\ core'[s] = entry
      /\ \A t \in DOMAIN core : t # s => core'[t] = core[t]
  <2>1. /\ DOMAIN Put(core, s, entry) = DOMAIN core \cup {s}
        /\ DOMAIN Put(core, s, entry) \subseteq Sessions
        /\ Put(core, s, entry) \in [DOMAIN Put(core, s, entry) -> CoreEntry]
        /\ Put(core, s, entry)[s] = entry
        /\ \A t \in DOMAIN core : t # s => Put(core, s, entry)[t] = core[t]
    BY <1>0, <1>1 DEF Put
  <2>2. QED
    BY <1>0, <2>1, Zenon
<1>3. s \notin DOMAIN core
  BY <1>0 DEF Unused
<1>4. "idle" \in States
  BY DEF States
<1>5. /\ output' \in Seq([session : Sessions, state : States])
      /\ \A i \in DOMAIN output : i \in DOMAIN output' /\ output'[i] = output[i] /\ i < Len(output) + 1
      /\ Len(output) + 1 \in DOMAIN output'
      /\ output'[Len(output) + 1].session = s /\ output'[Len(output) + 1].state = "idle"
      /\ \A i \in DOMAIN output' : i \in DOMAIN output \/ i = Len(output) + 1
  <2>1. /\ output' \in Seq([session : Sessions, state : States])
        /\ \A i \in DOMAIN output : i \in DOMAIN output' /\ output'[i] = output[i] /\ i < Len(output) + 1
        /\ Len(output) + 1 \in DOMAIN output'
        /\ output'[Len(output) + 1] = Told(s, "idle")
        /\ \A i \in DOMAIN output' : i \in DOMAIN output \/ i = Len(output) + 1
    BY <1>0, <1>1, <1>4, OneMoreTold, Zenon
  <2>2. QED
    BY <2>1 DEF Told
<1>6. ListedOrTold'
  BY <1>0, <1>2, <1>5 DEF ListInv, ListedOrTold
<1>7. LastIsNow'
  <2> SUFFICES ASSUME NEW i \in DOMAIN output', output'[i].session \in DOMAIN core',
                      \A j \in DOMAIN output' : j > i => output'[j].session # output'[i].session
               PROVE  output'[i].state = core'[output'[i].session].state
    BY DEF LastIsNow
  <2>1. CASE i = Len(output) + 1
    BY <1>0, <1>2, <1>5, <2>1
  <2>2. CASE i \in DOMAIN output
    <3>1. output[i].session # s
      BY <1>1, <1>5, <2>2
    <3>2. \A j \in DOMAIN output : j > i => output[j].session # output[i].session
      BY <1>5, <2>2
    <3>3. output[i].state = core[output[i].session].state
      BY <1>2, <1>5, <2>2, <3>1, <3>2 DEF ListInv, LastIsNow
    <3> QED
      BY <1>2, <1>5, <2>2, <3>1, <3>3
  <2> QED
    BY <1>5, <2>1, <2>2
<1>8. QED
  BY <1>2, <1>3, <1>5, <1>6, <1>7

(* A call stays true while the core keeps what a client is creating, ends   *)
(* children without forgetting them, and makes nobody a root who was none.  *)
KeepsCreated ==
    \A s \in DOMAIN core : core[s].parent = NoSession /\ BeingCreated(s) =>
        /\ s \in DOMAIN core' /\ core'[s].state = core[s].state
        /\ core'[s].parent = NoSession /\ core'[s].group = core[s].group
KeepsChildren ==
    /\ DOMAIN core \cup DOMAIN completed \subseteq DOMAIN core' \cup DOMAIN completed'
    /\ \A s \in DOMAIN core' : s \in DOMAIN core \cup DOMAIN completed =>
         s \in DOMAIN core /\ core'[s].parent = core[s].parent

\* What a running call promises outlives the steps of others.
LEMMA CallStaysTrue ==
    ASSUME KeepsCreated, KeepsChildren, NEW d \in Callers, CallTrue(d), answered'[d] = answered[d]
    PROVE  CallTrue(d)'
<1>1. \A op : Back(d, op)' <=> Back(d, op)
  BY DEF Back
<1>2. Back(d, "create") => BeingCreated(answered[d][1].session)
  BY DEF BeingCreated
<1>3. QED
  BY <1>1, <1>2 DEF CallTrue, KeepsCreated, KeepsChildren

LEMMA GrowthKeepsCalls ==
    ASSUME ListInv, NEW s, NEW entry, Grows(s, entry)
    PROVE  \A d \in Callers : answered'[d] = answered[d] => CallTrue(d)'
<1>1. s \notin DOMAIN core /\ s \notin DOMAIN completed /\ completed' = completed
  BY DEF Grows, Unused
<1>a. DOMAIN core' = DOMAIN core \cup {s} /\ \A t \in DOMAIN core : core'[t] = core[t]
  BY Growth
<1>2. KeepsCreated /\ KeepsChildren
  BY <1>1, <1>a DEF KeepsCreated, KeepsChildren
<1>3. QED
  BY <1>2, CallStaysTrue DEF ListInv, CallsTrue

LEMMA GrowsBy ==
    ASSUME ListInv, NEW s, NEW entry, Grows(s, entry), DOMAIN answered' = Callers, CallsTrue',
           \A t \in DOMAIN core : BeingCreated(t) => BeingCreated(t)',
           entry.parent = NoSession => BeingCreated(s)'
    PROVE  ListInv'
<1>0. /\ s \notin DOMAIN core /\ DOMAIN core' = DOMAIN core \cup {s}
      /\ \A t \in DOMAIN core : core'[t] = core[t]
  BY Growth
<1>1. HarnessTypeOK'
  BY Growth DEF ListInv, HarnessTypeOK, Grows
<1>2. RootsListed'
  <2> SUFFICES ASSUME NEW t \in DOMAIN core', core'[t].parent = NoSession
               PROVE  /\ ~BeingCreated(t)' => t \in DOMAIN listing' /\ listing'[t].group = EffectiveGroup(t, core'[t].group)
                      /\ t \in DOMAIN listing' => listing'[t].parent = NoSession
                      /\ t \in DOMAIN listing' /\ (\A i \in DOMAIN output' : output'[i].session # t)
                           => listing'[t].state = core'[t].state
    BY DEF RootsListed
  <2>1. CASE t = s
    BY <2>1, Growth DEF Grows, Unused
  <2>2. CASE t # s
    <3>1. t \in DOMAIN core /\ core'[t] = core[t]
      BY <1>0, <2>2
    <3>2. listing' = listing
      BY DEF Grows
    <3>3. QED
      BY <3>1, <3>2, Growth DEF ListInv, RootsListed
  <2> QED
    BY <2>1, <2>2
<1>3. QED
  BY <1>1, <1>2, Growth DEF ListInv

\* The calls that make sessions, first in the core and then in the listing.
LEMMA CreateSessionKeeps ==
    ASSUME HarnessAssumption, ListInv, NEW c \in Callers, NEW s \in Sessions,
           NEW g \in GroupOf, NEW m \in ProfileOf, CreateSession(c, s, g, m)
    PROVE  ListInv'
<1>1. PICK entry : entry = NewSession(g, m, m, NoSession)
  OBVIOUS
<1>2. entry \in CoreEntry /\ entry.state = "idle" /\ entry.parent = NoSession /\ entry.group = g
  BY <1>1 DEF NewSession, CoreEntry, States, Parents
<1>3. Grows(s, entry)
  BY <1>1, <1>2 DEF CreateSession, Grows
<1>4. PICK arg : arg = [group |-> g, model |-> m]
  OBVIOUS
<1>5. /\ DOMAIN answered' = Callers
      /\ \A d \in Callers : d # c => answered'[d] = answered[d]
      /\ answered'[c] # <<>> /\ answered'[c][1].op = "create"
      /\ answered'[c][1].session = s /\ answered'[c][1].arg = arg
  <2>1. DOMAIN answered = Callers /\ Answered(c, "create", s, arg)
    BY <1>4 DEF ListInv, HarnessTypeOK, CreateSession
  <2> QED
    BY <2>1, NoteCall
<1>6. answered[c] = <<>>
  BY DEF CreateSession, Free
<1>7. BeingCreated(s)'
  BY <1>5 DEF BeingCreated, Back
<1>8. \A t \in DOMAIN core : BeingCreated(t) => BeingCreated(t)'
  BY <1>5, <1>6 DEF BeingCreated, Back
<1>a. DOMAIN core' = DOMAIN core \cup {s} /\ core'[s] = entry
  BY <1>3, Growth, Zenon
<1>9. CallTrue(c)'
  <2>1. ~Back(c, "spawn")' /\ ~Back(c, "model")'
    BY <1>5 DEF Back
  <2>2. arg.group = g /\ arg.model = m
    BY <1>4
  <2>3. s \in DOMAIN core' /\ core'[s].state = "idle" /\ core'[s].parent = NoSession
        /\ arg.group = core'[s].group /\ arg.model \in ProfileOf
    BY <1>2, <1>a, <2>2
  <2> QED
    BY <1>5, <2>1, <2>3, Zenon DEF CallTrue
<1>10. CallsTrue'
  BY <1>3, <1>5, <1>9, GrowthKeepsCalls DEF CallsTrue
<1> QED
  BY <1>3, <1>5, <1>7, <1>8, <1>10, GrowsBy

(* A child that the core spawns is nobody's root. *)
LEMMA SpawnGrows ==
    ASSUME HarnessAssumption, ListInv, NEW parent \in Sessions \cup {Nobody}, NEW s \in Sessions,
           NEW history \in BOOLEAN, CoreSpawns(parent, s, history), UNCHANGED <<completed, disk, listing>>
    PROVE  \E entry : Grows(s, entry) /\ entry.parent # NoSession
<1>1. PICK entry : entry = Child(parent, history)
  OBVIOUS
<1>2. entry \in CoreEntry /\ entry.state = "idle" /\ entry.parent = parent
  <2>1. CASE parent \notin DOMAIN core
    BY <1>1, <2>1 DEF Child, NewSession, CoreEntry, States, Parents, GroupOf, ProfileOf
  <2>2. CASE parent \in DOMAIN core
    <3>1. PICK above \in CoreEntry : above = core[parent]
      BY <2>2 DEF ListInv, HarnessTypeOK
    <3>2. entry = NewSession(above.handle.group, IF history THEN above.model ELSE above.handle.model,
                             above.handle.runs, parent)
      BY <1>1, <2>2, <3>1 DEF Child
    <3> QED
      BY <3>1, <3>2 DEF NewSession, CoreEntry, States, Parents
  <2> QED
    BY <2>1, <2>2
<1>3. parent # NoSession
  BY DEF HarnessAssumption
<1>4. Grows(s, entry)
  BY <1>1, <1>2 DEF CoreSpawns, Grows
<1> QED
  BY <1>2, <1>3, <1>4

LEMMA SpawnKeeps ==
    ASSUME HarnessAssumption, ListInv, NEW c \in Callers, NEW s \in Sessions, NEW parent \in Sessions \cup {Nobody},
           SpawnChild(c, parent, s) \/ (parent \in Sessions /\ ScheduleAgent(c, parent, s))
    PROVE  ListInv'
<1>1. PICK history \in BOOLEAN : CoreSpawns(parent, s, history) /\ UNCHANGED <<completed, disk, listing>>
  BY DEF SpawnChild, ScheduleAgent
<1>2. PICK entry : Grows(s, entry) /\ entry.parent # NoSession
  BY <1>1, SpawnGrows
<1>3. PICK op \in {"spawn", "schedule"} : Answered(c, op, s, parent)
  BY DEF SpawnChild, ScheduleAgent
<1>4. /\ DOMAIN answered' = Callers
      /\ \A d \in Callers : d # c => answered'[d] = answered[d]
      /\ answered'[c] # <<>> /\ answered'[c][1].op = op
      /\ answered'[c][1].session = s /\ answered'[c][1].arg = parent
  <2>1. DOMAIN answered = Callers
    BY DEF ListInv, HarnessTypeOK
  <2> QED
    BY <1>3, <2>1, NoteCall
<1>5. answered[c] = <<>>
  BY DEF SpawnChild, ScheduleAgent, Free
<1>6. \A t \in DOMAIN core : BeingCreated(t) => BeingCreated(t)'
  BY <1>4, <1>5 DEF BeingCreated, Back
<1>a. DOMAIN core' = DOMAIN core \cup {s} /\ core'[s] = entry
  BY <1>2, Growth, Zenon
<1>7. CallTrue(c)'
  <2>1. ~Back(c, "create")' /\ ~Back(c, "model")'
    BY <1>4 DEF Back
  <2>2. core'[s].parent # NoSession
    BY <1>2, <1>a
  <2> QED
    BY <1>4, <1>a, <2>1, <2>2 DEF CallTrue
<1>8. CallsTrue'
  BY <1>2, <1>4, <1>7, GrowthKeepsCalls DEF CallsTrue
<1> QED
  BY <1>2, <1>4, <1>6, <1>8, GrowsBy

LEMMA ToolSpawnsKeeps ==
    ASSUME HarnessAssumption, ListInv, NEW parent \in Sessions, NEW s \in Sessions, NEW history \in BOOLEAN,
           ToolSpawns(parent, s, history)
    PROVE  ListInv'
<1>1. PICK entry : Grows(s, entry) /\ entry.parent # NoSession
  BY SpawnGrows DEF ToolSpawns
<1>2. answered' = answered /\ DOMAIN answered = Callers
  BY DEF ToolSpawns, ListInv, HarnessTypeOK
<1>3. CallsTrue'
  BY <1>1, <1>2, GrowthKeepsCalls DEF CallsTrue
<1>4. \A t \in DOMAIN core : BeingCreated(t) => BeingCreated(t)'
  BY <1>2 DEF BeingCreated, Back
<1> QED
  BY <1>1, <1>2, <1>3, <1>4, GrowsBy

(* A session the core has changes its state, or ends as a child does; the   *)
(* event says so.                                                           *)
Moves(s, state) ==
    /\ s \in DOMAIN core /\ state \in States /\ Changed(s, state) /\ ~BeingCreated(s)
    /\ DOMAIN core' \subseteq DOMAIN core /\ DOMAIN core \subseteq DOMAIN core' \cup {s}
    /\ \A t \in DOMAIN core' : core'[t].parent = core[t].parent /\ core'[t].group = core[t].group
    /\ \A t \in DOMAIN core' : core'[t].state = IF t = s THEN state ELSE core[t].state
    /\ s \notin DOMAIN core' => s \in DOMAIN completed'
    /\ DOMAIN completed \subseteq DOMAIN completed'
    /\ core' \in [DOMAIN core' -> CoreEntry]
    /\ DOMAIN completed' \subseteq Sessions /\ completed' \in [DOMAIN completed' -> StoredEntry]
    /\ UNCHANGED <<answered, disk, listing>>

\* A session that changes its state and says so.
LEMMA MovesKeeps ==
    ASSUME ListInv, NEW s, NEW state, Moves(s, state)
    PROVE  ListInv'
<1>0. /\ s \in DOMAIN core /\ state \in States /\ Changed(s, state) /\ ~BeingCreated(s)
      /\ DOMAIN core' \subseteq DOMAIN core /\ DOMAIN core \subseteq DOMAIN core' \cup {s}
      /\ \A t \in DOMAIN core' : core'[t].parent = core[t].parent /\ core'[t].group = core[t].group
      /\ \A t \in DOMAIN core' : core'[t].state = IF t = s THEN state ELSE core[t].state
      /\ answered' = answered /\ listing' = listing
  BY DEF Moves
<1>1. DOMAIN core \subseteq Sessions /\ output \in Seq([session : Sessions, state : States])
  BY DEF ListInv, HarnessTypeOK
<1>2. /\ output' \in Seq([session : Sessions, state : States])
      /\ \A i \in DOMAIN output : i \in DOMAIN output' /\ output'[i] = output[i] /\ i < Len(output) + 1
      /\ Len(output) + 1 \in DOMAIN output'
      /\ output'[Len(output) + 1].session = s /\ output'[Len(output) + 1].state = state
      /\ \A i \in DOMAIN output' : i \in DOMAIN output \/ i = Len(output) + 1
  <2>1. /\ output' \in Seq([session : Sessions, state : States])
        /\ \A i \in DOMAIN output : i \in DOMAIN output' /\ output'[i] = output[i] /\ i < Len(output) + 1
        /\ Len(output) + 1 \in DOMAIN output'
        /\ output'[Len(output) + 1] = Told(s, state)
        /\ \A i \in DOMAIN output' : i \in DOMAIN output \/ i = Len(output) + 1
    BY <1>0, <1>1, OneMoreTold
  <2>2. QED
    BY <2>1 DEF Told
<1>3. HarnessTypeOK'
  BY <1>1, <1>2 DEF Moves, ListInv, HarnessTypeOK
<1>4. CallsTrue'
  <2>1. KeepsCreated
    BY <1>0 DEF KeepsCreated
  <2>2. KeepsChildren
    BY <1>0 DEF Moves, KeepsChildren
  <2>3. QED
    BY <1>0, <2>1, <2>2, CallStaysTrue DEF ListInv, CallsTrue
<1>5. ListedOrTold'
  BY <1>0, <1>2 DEF ListInv, ListedOrTold
<1>6. LastIsNow'
  <2> SUFFICES ASSUME NEW i \in DOMAIN output', output'[i].session \in DOMAIN core',
                      \A j \in DOMAIN output' : j > i => output'[j].session # output'[i].session
               PROVE  output'[i].state = core'[output'[i].session].state
    BY DEF LastIsNow
  <2>1. CASE i = Len(output) + 1
    BY <1>0, <1>2, <2>1
  <2>2. CASE i \in DOMAIN output
    <3>1. output[i].session # s
      BY <1>1, <1>2, <2>2
    <3>2. \A j \in DOMAIN output : j > i => output[j].session # output[i].session
      BY <1>2, <2>2
    <3>3. output[i].state = core[output[i].session].state
      BY <1>0, <1>2, <2>2, <3>1, <3>2 DEF ListInv, LastIsNow
    <3> QED
      BY <1>0, <1>2, <2>2, <3>1, <3>3
  <2> QED
    BY <1>2, <2>1, <2>2
<1>7. RootsListed'
  <2> SUFFICES ASSUME NEW t \in DOMAIN core', core'[t].parent = NoSession
               PROVE  /\ ~BeingCreated(t)' => t \in DOMAIN listing' /\ listing'[t].group = EffectiveGroup(t, core'[t].group)
                      /\ t \in DOMAIN listing' => listing'[t].parent = NoSession
                      /\ t \in DOMAIN listing' /\ (\A i \in DOMAIN output' : output'[i].session # t)
                           => listing'[t].state = core'[t].state
    BY DEF RootsListed
  <2>1. BeingCreated(t)' <=> BeingCreated(t)
    BY <1>0 DEF BeingCreated, Back
  <2>2. t \in DOMAIN core /\ core[t].parent = NoSession /\ core'[t].group = core[t].group
    BY <1>0
  <2>3. (\A i \in DOMAIN output' : output'[i].session # t) => t # s /\ \A i \in DOMAIN output : output[i].session # t
    BY <1>2
  <2>4. QED
    BY <1>0, <2>1, <2>2, <2>3 DEF ListInv, RootsListed
<1>8. QED
  BY <1>3, <1>4, <1>5, <1>6, <1>7 DEF ListInv

\* Turns and exits are such changes.
LEMMA InStateKeeps ==
    ASSUME ListInv, NEW s, NEW state \in States, NEW next \in States, InState(s, state, next), ~BeingCreated(s),
           UNCHANGED <<completed, disk, listing, answered>>
    PROVE  ListInv'
<1>1. s \in DOMAIN core /\ core' = [core EXCEPT ![s].state = next] /\ core \in [DOMAIN core -> CoreEntry]
  BY DEF InState, ListInv, HarnessTypeOK
<1>2. PICK after : after = [core[s] EXCEPT !.state = next]
  OBVIOUS
<1>3. core' = [core EXCEPT ![s] = after]
  BY <1>1, <1>2
<1>4. after \in CoreEntry /\ after.parent = core[s].parent /\ after.group = core[s].group /\ after.state = next
  BY <1>1, <1>2 DEF CoreEntry
<1>5. DOMAIN core' = DOMAIN core /\ core' \in [DOMAIN core' -> CoreEntry]
      /\ core'[s] = after /\ \A t \in DOMAIN core : t # s => core'[t] = core[t]
  BY <1>1, <1>3, <1>4
<1>6. Moves(s, next)
  <2>1. DOMAIN completed' \subseteq Sessions /\ completed' \in [DOMAIN completed' -> StoredEntry]
    BY DEF ListInv, HarnessTypeOK
  <2>2. Changed(s, next)
    BY DEF InState
  <2>3. QED
    BY <1>1, <1>4, <1>5, <2>1, <2>2 DEF Moves
<1>7. QED
  BY <1>6, MovesKeeps

LEMMA TurnKeeps ==
    ASSUME ListInv, NEW s \in DOMAIN core, StartTurn(s) \/ AsksClient(s) \/ EndTurn(s)
    PROVE  ListInv'
<1>0. \A state \in {"idle", "streaming", "paused"} : state \in States
  BY DEF States
<1>1. BeingCreated(s) => core[s].state = "idle"
  BY DEF BeingCreated, ListInv, CallsTrue, CallTrue
<1>2. CASE StartTurn(s)
  <2>1. ~BeingCreated(s) /\ InState(s, "idle", "streaming") /\ UNCHANGED <<completed, disk, listing, answered>>
    BY <1>2 DEF StartTurn, BeingCreated
  <2> QED
    BY <1>0, <2>1, InStateKeeps
<1>3. CASE AsksClient(s)
  <2>1. InState(s, "streaming", "paused") /\ UNCHANGED <<completed, disk, listing, answered>>
    BY <1>3 DEF AsksClient
  <2>2. ~BeingCreated(s)
    BY <1>1, <2>1 DEF InState
  <2> QED
    BY <1>0, <2>1, <2>2, InStateKeeps
<1>4. CASE EndTurn(s)
  <2>1. PICK state \in {"streaming", "paused"} : InState(s, state, "idle")
    BY <1>4 DEF EndTurn
  <2>2. UNCHANGED <<completed, disk, listing, answered>>
    BY <1>4 DEF EndTurn
  <2>3. ~BeingCreated(s)
    BY <1>1, <2>1 DEF InState
  <2> QED
    BY <1>0, <2>1, <2>2, <2>3, InStateKeeps
<1> QED
  BY <1>2, <1>3, <1>4

LEMMA ChildEndsKeeps ==
    ASSUME ListInv, NEW s \in DOMAIN core, ChildEnds(s)
    PROVE  ListInv'
<1>1. /\ core \in [DOMAIN core -> CoreEntry] /\ DOMAIN core \subseteq Sessions
      /\ DOMAIN completed \subseteq Sessions /\ completed \in [DOMAIN completed -> StoredEntry]
  BY DEF ListInv, HarnessTypeOK
<1>2. PICK kept : kept = [Stored(s) EXCEPT !.state = "destroyed"]
  OBVIOUS
<1>3. kept \in StoredEntry
  BY <1>1, <1>2 DEF Stored, StoredEntry, CoreEntry, States
<1>4. core' = [t \in DOMAIN core \ {s} |-> core[t]]
  BY DEF ChildEnds, Restrict
<1>5. completed' = Put(completed, s, kept)
  BY <1>2 DEF ChildEnds
<1>6. DOMAIN completed' = DOMAIN completed \cup {s} /\ completed' \in [DOMAIN completed' -> StoredEntry]
  BY <1>1, <1>3, <1>5 DEF Put
<1>7. ~BeingCreated(s)
  BY DEF BeingCreated, ListInv, CallsTrue, CallTrue, ChildEnds
<1>8. Moves(s, "destroyed")
  <2>1. "destroyed" \in States /\ Changed(s, "destroyed") /\ UNCHANGED <<answered, disk, listing>>
    BY DEF ChildEnds, States
  <2>2. QED
    BY <1>1, <1>4, <1>6, <1>7, <2>1 DEF Moves
<1> QED
  BY <1>8, MovesKeeps

\* A call that returns is forgotten, the others are not.
LEMMA NoteReturn ==
    ASSUME DOMAIN answered = Callers, NEW c \in Callers, Returns(c)
    PROVE  /\ DOMAIN answered' = Callers /\ answered'[c] = <<>>
           /\ \A d \in Callers : d # c => answered'[d] = answered[d]
BY DEF Returns

CreatedBy(c, s) == Back(c, "create") /\ answered[c][1].session = s

(* A call's return changes the listing: of a root it lists what the call    *)
(* created, or leaves what matters as it is.                                *)
SameListed(t) ==
    /\ t \in DOMAIN listing' <=> t \in DOMAIN listing
    /\ t \in DOMAIN listing => /\ listing'[t].state = listing[t].state
                               /\ listing'[t].group = listing[t].group
                               /\ listing'[t].parent = listing[t].parent
Relists(c) ==
    /\ Returns(c) /\ UNCHANGED <<core, completed, disk, output>>
    /\ DOMAIN listing' \subseteq Sessions /\ listing' \in [DOMAIN listing' -> ListedEntry]
    /\ DOMAIN listing \subseteq DOMAIN listing'
    /\ \A t \in DOMAIN core : core[t].parent = NoSession =>
         \/ /\ t \in DOMAIN listing' /\ listing'[t].state = core[t].state /\ listing'[t].parent = NoSession
            /\ listing'[t].group = EffectiveGroup(t, core[t].group)
         \/ ~CreatedBy(c, t) /\ SameListed(t)

\* A call that lists the session it has made.
LEMMA RelistsKeeps ==
    ASSUME ListInv, NEW c \in Callers, Relists(c)
    PROVE  ListInv'
<1>0. /\ DOMAIN answered' = Callers /\ answered'[c] = <<>>
      /\ \A d \in Callers : d # c => answered'[d] = answered[d]
  BY NoteReturn DEF Relists, ListInv, HarnessTypeOK
<1>1. HarnessTypeOK'
  BY <1>0 DEF Relists, ListInv, HarnessTypeOK
<1>2. CallsTrue'
  <2>1. KeepsCreated /\ CallTrue(c)'
    BY <1>0 DEF Relists, KeepsCreated, CallTrue, Back
  <2>2. \A d \in Callers : d # c => CallTrue(d)'
    BY <1>0 DEF Relists, ListInv, CallsTrue, CallTrue, Back
  <2> QED
    BY <2>1, <2>2 DEF CallsTrue
<1>3. ListedOrTold' /\ LastIsNow'
  BY DEF Relists, ListInv, ListedOrTold, LastIsNow
<1>4. RootsListed'
  <2> SUFFICES ASSUME NEW t \in DOMAIN core, core[t].parent = NoSession
               PROVE  /\ ~BeingCreated(t)' => t \in DOMAIN listing' /\ listing'[t].group = EffectiveGroup(t, core[t].group)
                      /\ t \in DOMAIN listing' => listing'[t].parent = NoSession
                      /\ t \in DOMAIN listing' /\ (\A i \in DOMAIN output : output[i].session # t)
                           => listing'[t].state = core[t].state
    BY DEF RootsListed, Relists
  <2>1. CASE ~CreatedBy(c, t) /\ SameListed(t)
    <3>1. BeingCreated(t) => BeingCreated(t)'
      BY <1>0, <2>1 DEF BeingCreated, Back, CreatedBy
    <3> QED
      BY <2>1, <3>1 DEF SameListed, ListInv, RootsListed
  <2>2. CASE ~(~CreatedBy(c, t) /\ SameListed(t))
    BY <2>2 DEF Relists
  <2> QED
    BY <2>1, <2>2
<1> QED
  BY <1>1, <1>2, <1>3, <1>4 DEF ListInv

LEMMA InsertCreatedKeeps ==
    ASSUME ListInv, NEW c \in Callers, InsertCreated(c)
    PROVE  ListInv'
<1>1. PICK s : s = answered[c][1].session
  OBVIOUS
<1>2. PICK arg : arg = answered[c][1].arg
  OBVIOUS
<1>3. /\ s \in DOMAIN core /\ core[s].state = "idle" /\ core[s].parent = NoSession
      /\ arg.group = core[s].group /\ arg.model \in ProfileOf
  BY <1>1, <1>2 DEF InsertCreated, ListInv, CallsTrue, CallTrue
<1>4. PICK entry : entry = Listed("idle", EffectiveGroup(s, arg.group), arg.model, NoSession)
  OBVIOUS
<1>5. /\ DOMAIN core \subseteq Sessions /\ core \in [DOMAIN core -> CoreEntry]
      /\ DOMAIN listing \subseteq Sessions /\ listing \in [DOMAIN listing -> ListedEntry]
  BY DEF ListInv, HarnessTypeOK
<1>6. arg.group \in GroupOf
  BY <1>3, <1>5 DEF CoreEntry
<1>7. entry \in ListedEntry /\ entry.state = "idle" /\ entry.parent = NoSession
      /\ entry.group = EffectiveGroup(s, core[s].group)
  BY <1>3, <1>4, <1>5, <1>6 DEF Listed, ListedEntry, States, Parents, EffectiveGroup
<1>8. listing' = Put(listing, s, entry)
  BY <1>1, <1>2, <1>4 DEF InsertCreated
<1>9. /\ DOMAIN listing' = DOMAIN listing \cup {s} /\ listing' \in [DOMAIN listing' -> ListedEntry]
      /\ listing'[s] = entry /\ \A t \in DOMAIN listing : t # s => listing'[t] = listing[t]
  BY <1>5, <1>7, <1>8 DEF Put
<1>10. Relists(c)
  <2>1. Returns(c) /\ UNCHANGED <<core, completed, disk, output>>
    BY DEF InsertCreated
  <2>2. \A t \in DOMAIN core : t # s => ~CreatedBy(c, t) /\ SameListed(t)
    BY <1>1, <1>9 DEF CreatedBy, SameListed
  <2> QED
    BY <1>3, <1>5, <1>7, <1>9, <2>1, <2>2 DEF Relists
<1> QED
  BY <1>10, RelistsKeeps

LEMMA InsertSpawnedKeeps ==
    ASSUME ListInv, NEW c \in Callers, InsertSpawned(c)
    PROVE  ListInv'
<1>1. PICK s : s = answered[c][1].session
  OBVIOUS
<1>2. PICK parent : parent = answered[c][1].arg
  OBVIOUS
<1>3. s \in DOMAIN core \cup DOMAIN completed /\ parent \in Sessions \cup {Nobody}
      /\ (s \in DOMAIN core => core[s].parent # NoSession)
  BY <1>1, <1>2 DEF InsertSpawned, ListInv, CallsTrue, CallTrue
<1>4. PICK entry : entry = IF parent \in DOMAIN listing
                        THEN Listed("idle", listing[parent].group, listing[parent].model, parent)
                        ELSE Listed("idle", s, NoModel, NoSession)
  OBVIOUS
<1>5. /\ DOMAIN core \subseteq Sessions /\ DOMAIN completed \subseteq Sessions
      /\ DOMAIN listing \subseteq Sessions /\ listing \in [DOMAIN listing -> ListedEntry]
  BY DEF ListInv, HarnessTypeOK
<1>7. entry \in ListedEntry
  <2>1. CASE parent \in DOMAIN listing
    <3>1. PICK above \in ListedEntry : above = listing[parent]
      BY <1>5, <2>1
    <3> QED
      BY <1>3, <1>4, <2>1, <3>1 DEF Listed, ListedEntry, States, Parents
  <2>2. CASE parent \notin DOMAIN listing
    BY <1>3, <1>4, <1>5, <2>2 DEF Listed, ListedEntry, States, Parents, ProfileOf
  <2> QED
    BY <2>1, <2>2
<1>8. listing' = Put(listing, s, entry)
  BY <1>1, <1>2, <1>4 DEF InsertSpawned
<1>9. /\ DOMAIN listing' = DOMAIN listing \cup {s} /\ listing' \in [DOMAIN listing' -> ListedEntry]
      /\ \A t \in DOMAIN listing : t # s => listing'[t] = listing[t]
  BY <1>5, <1>7, <1>8 DEF Put
<1>10. Relists(c)
  <2>1. Returns(c) /\ UNCHANGED <<core, completed, disk, output>> /\ Back(c, "spawn")
    BY DEF InsertSpawned
  <2>2. \A t \in DOMAIN core : t # s => SameListed(t)
    BY <1>9 DEF SameListed
  <2>3. \A t : ~CreatedBy(c, t)
    BY <2>1 DEF CreatedBy, Back
  <2> QED
    BY <1>3, <1>5, <1>9, <2>1, <2>2, <2>3 DEF Relists
<1> QED
  BY <1>10, RelistsKeeps

\* Calls that only write down a job or a model profile.
LEMMA NotesKeep ==
    ASSUME ListInv, NEW c \in Callers, ScheduleLoopMessage(c) \/ NoteModel(c)
    PROVE  ListInv'
<1>1. PICK s : s = answered[c][1].session
  OBVIOUS
<1>2. PICK arg : arg = answered[c][1].arg
  OBVIOUS
<1>3. listing \in [DOMAIN listing -> ListedEntry] /\ DOMAIN listing \subseteq Sessions
  BY DEF ListInv, HarnessTypeOK
<1>4. \/ s \notin DOMAIN listing /\ listing' = listing
      \/ s \in DOMAIN listing /\ ScheduleLoopMessage(c) /\ listing' = [listing EXCEPT ![s].jobs = @ + 1]
      \/ s \in DOMAIN listing /\ NoteModel(c) /\ listing' = [listing EXCEPT ![s].model = arg]
  BY <1>1, <1>2 DEF ScheduleLoopMessage, NoteModel
<1>5. NoteModel(c) => arg \in ProfileOf
  BY <1>2 DEF NoteModel, ListInv, CallsTrue, CallTrue
<1>6. /\ DOMAIN listing' = DOMAIN listing /\ listing' \in [DOMAIN listing -> ListedEntry]
      /\ \A t \in DOMAIN listing : SameListed(t)
  <2>1. CASE s \notin DOMAIN listing
    BY <1>3, <1>4, <2>1 DEF SameListed
  <2>2. CASE s \in DOMAIN listing
    <3>1. PICK before \in ListedEntry : before = listing[s]
      BY <1>3, <2>2
    <3>2. \E after : (after = [before EXCEPT !.jobs = @ + 1] \/ (NoteModel(c) /\ after = [before EXCEPT !.model = arg]))
                       /\ listing' = [listing EXCEPT ![s] = after]
      BY <1>4, <2>2, <3>1
    <3>3. PICK after : (after = [before EXCEPT !.jobs = @ + 1] \/ (NoteModel(c) /\ after = [before EXCEPT !.model = arg]))
                         /\ listing' = [listing EXCEPT ![s] = after]
      BY <3>2
    <3>4. after \in ListedEntry /\ after.state = before.state /\ after.group = before.group /\ after.parent = before.parent
      BY <1>5, <3>1, <3>3 DEF ListedEntry
    <3> QED
      BY <1>3, <2>2, <3>1, <3>3, <3>4 DEF SameListed
  <2> QED
    BY <2>1, <2>2
<1>7. Relists(c)
  <2>1. Returns(c) /\ UNCHANGED <<core, completed, disk, output>> /\ (Back(c, "schedule") \/ Back(c, "model"))
    BY DEF ScheduleLoopMessage, NoteModel
  <2>2. \A t : ~CreatedBy(c, t)
    BY <2>1 DEF CreatedBy, Back
  <2>3. \A t : SameListed(t)
    BY <1>6 DEF SameListed
  <2> QED
    BY <1>3, <1>6, <2>1, <2>2, <2>3 DEF Relists
<1> QED
  BY <1>7, RelistsKeeps

(* A new model changes nothing else of the core. *)
Remodels ==
    /\ UNCHANGED <<completed, disk, output>>
    /\ DOMAIN core' = DOMAIN core /\ core' \in [DOMAIN core -> CoreEntry]
    /\ \A t \in DOMAIN core : core'[t].state = core[t].state /\ core'[t].group = core[t].group
                                /\ core'[t].parent = core[t].parent
    /\ listing' \in [DOMAIN listing' -> ListedEntry]
    /\ \A t : SameListed(t)

\* A change of the model profile touches no state and no parent.
LEMMA RemodelsKeeps ==
    ASSUME ListInv, Remodels, DOMAIN answered' = Callers, CallsTrue',
           \A t \in DOMAIN core : BeingCreated(t) => BeingCreated(t)'
    PROVE  ListInv'
<1>1. HarnessTypeOK'
  BY DEF ListInv, HarnessTypeOK, Remodels, SameListed
<1>2. ListedOrTold' /\ LastIsNow'
  BY DEF ListInv, ListedOrTold, LastIsNow, Remodels, SameListed
<1>3. RootsListed'
  BY DEF ListInv, RootsListed, Remodels, SameListed
<1> QED
  BY <1>1, <1>2, <1>3 DEF ListInv

LEMMA ModelSet ==
    ASSUME ListInv, NEW s \in DOMAIN core, NEW model \in ProfileOf, core' = WithModel(s, model)
    PROVE  /\ DOMAIN core' = DOMAIN core /\ core' \in [DOMAIN core -> CoreEntry]
           /\ \A t \in DOMAIN core : core'[t].state = core[t].state /\ core'[t].group = core[t].group
                                       /\ core'[t].parent = core[t].parent
<1>1. core \in [DOMAIN core -> CoreEntry]
  BY DEF ListInv, HarnessTypeOK
<1>2. PICK before \in CoreEntry : before = core[s]
  BY <1>1
<1>3. PICK after : after = [before EXCEPT !.model = model, !.runs = model]
  OBVIOUS
<1>4. core' = [core EXCEPT ![s] = after]
  BY <1>1, <1>2, <1>3 DEF WithModel
<1>5. after \in CoreEntry /\ after.state = before.state /\ after.group = before.group /\ after.parent = before.parent
  BY <1>2, <1>3 DEF CoreEntry
<1> QED
  BY <1>1, <1>2, <1>4, <1>5

LEMMA SetModelKeeps ==
    ASSUME ListInv, NEW c \in Callers, NEW s \in Sessions, NEW model \in Models, SetModelProfile(c, s, model)
    PROVE  ListInv'
<1>1. Remodels
  <2>1. s \in DOMAIN core /\ core' = WithModel(s, model) /\ UNCHANGED <<completed, disk, output, listing>>
    BY DEF SetModelProfile, TakesModel
  <2>2. listing \in [DOMAIN listing -> ListedEntry]
    BY DEF ListInv, HarnessTypeOK
  <2>3. \A t : SameListed(t)
    BY <2>1 DEF SameListed
  <2>4. /\ DOMAIN core' = DOMAIN core /\ core' \in [DOMAIN core -> CoreEntry]
        /\ \A t \in DOMAIN core : core'[t].state = core[t].state /\ core'[t].group = core[t].group
                                    /\ core'[t].parent = core[t].parent
    BY <2>1, ModelSet DEF ProfileOf
  <2> QED
    BY <2>1, <2>2, <2>3, <2>4 DEF Remodels
<1>2. /\ DOMAIN answered' = Callers
      /\ \A d \in Callers : d # c => answered'[d] = answered[d]
      /\ answered'[c] # <<>> /\ answered'[c][1].op = "model" /\ answered'[c][1].arg = model
  <2>1. DOMAIN answered = Callers /\ Answered(c, "model", s, model)
    BY DEF ListInv, HarnessTypeOK, SetModelProfile
  <2> QED
    BY <2>1, NoteCall
<1>3. answered[c] = <<>>
  BY DEF SetModelProfile, Free
<1>4. \A t \in DOMAIN core : BeingCreated(t) => BeingCreated(t)'
  BY <1>2, <1>3 DEF BeingCreated, Back
<1>5. CallTrue(c)'
  BY <1>2 DEF CallTrue, Back, ProfileOf
<1>6. KeepsCreated /\ KeepsChildren
  <2>1. s \in DOMAIN core
    BY DEF SetModelProfile, TakesModel
  <2>2. completed' = completed
    BY DEF Remodels, SetModelProfile
  <2> QED
    BY <1>1, <2>2 DEF Remodels, KeepsCreated, KeepsChildren
<1>7. CallsTrue'
  BY <1>2, <1>5, <1>6, CallStaysTrue DEF ListInv, CallsTrue
<1> QED
  BY <1>1, <1>2, <1>4, <1>7, RemodelsKeeps

\* What a checkpoint stores of the registry.
LEMMA SnapshotType ==
    ASSUME ListInv
    PROVE  DOMAIN Snapshot \subseteq Sessions /\ Snapshot \in [DOMAIN Snapshot -> StoredEntry]
           /\ DOMAIN disk \subseteq DOMAIN Snapshot
<1>1. /\ DOMAIN core \subseteq Sessions /\ core \in [DOMAIN core -> CoreEntry]
      /\ DOMAIN completed \subseteq Sessions /\ completed \in [DOMAIN completed -> StoredEntry]
      /\ DOMAIN disk \subseteq Sessions /\ disk \in [DOMAIN disk -> StoredEntry]
  BY DEF ListInv, HarnessTypeOK
<1>2. PICK live : live = [s \in DOMAIN core |-> Stored(s)]
  OBVIOUS
<1>3. PICK rest : rest = Over(completed, disk)
  OBVIOUS
<1>4. Snapshot = Over(live, rest)
  BY <1>2, <1>3 DEF Snapshot
<1>5. \A s \in DOMAIN core : Stored(s) \in StoredEntry
  BY <1>1 DEF Stored, StoredEntry, CoreEntry
<1>6. DOMAIN live \subseteq Sessions /\ live \in [DOMAIN live -> StoredEntry]
  BY <1>1, <1>2, <1>5
<1>7. DOMAIN rest \subseteq Sessions /\ rest \in [DOMAIN rest -> StoredEntry] /\ DOMAIN disk \subseteq DOMAIN rest
  BY <1>1, <1>3 DEF Over
<1> QED
  BY <1>4, <1>6, <1>7 DEF Over

LEMMA DiskKeeps ==
    ASSUME ListInv, CommitCheckpoint \/ Started
    PROVE  ListInv'
<1>1. UNCHANGED <<core, completed, output, listing, answered>>
  BY DEF CommitCheckpoint, Started
<1>2. DOMAIN disk' \subseteq Sessions /\ disk' \in [DOMAIN disk' -> StoredEntry]
  BY SnapshotType DEF CommitCheckpoint, Started, ListInv, HarnessTypeOK
<1>3. HarnessTypeOK'
  BY <1>1, <1>2 DEF ListInv, HarnessTypeOK
<1>4. CallsTrue' /\ ListedOrTold' /\ LastIsNow' /\ RootsListed'
  BY <1>1 DEF ListInv, CallsTrue, CallTrue, Back, BeingCreated, ListedOrTold, LastIsNow, RootsListed
<1> QED
  BY <1>3, <1>4 DEF ListInv

\* fanout_loop takes the oldest event into the listing.
LEMMA FanoutKeeps ==
    ASSUME ListInv, Fanout
    PROVE  ListInv'
<1>1. /\ UNCHANGED <<core, completed, disk, answered>>
      /\ output \in Seq([session : Sessions, state : States]) /\ output # <<>> /\ output' = Tail(output)
      /\ listing \in [DOMAIN listing -> ListedEntry] /\ DOMAIN listing \subseteq Sessions
  BY DEF Fanout, ListInv, HarnessTypeOK
<1>2. /\ output' \in Seq([session : Sessions, state : States])
      /\ 1 \in DOMAIN output /\ Head(output) = output[1]
      /\ DOMAIN output = 1..Len(output) /\ DOMAIN output' = 1..(Len(output) - 1)
      /\ \A i \in DOMAIN output' : i + 1 \in DOMAIN output /\ output'[i] = output[i + 1]
      /\ \A i \in DOMAIN output : i # 1 => i - 1 \in DOMAIN output' /\ output'[i - 1] = output[i]
  BY <1>1, OneLessTold
<1>0. output[1] \in [session : Sessions, state : States]
  BY <1>1, <1>2, ElementOf
<1>3. PICK s \in Sessions : s = output[1].session
  BY <1>0
<1>4. PICK state \in States : state = output[1].state
  BY <1>0
<1>5. listing' = ListState(s, state)
  BY <1>2, <1>3, <1>4 DEF Fanout
<1>6. /\ DOMAIN listing' = DOMAIN listing \cup {s} /\ listing' \in [DOMAIN listing' -> ListedEntry]
      /\ listing'[s].state = state /\ \A t \in DOMAIN listing : t # s => listing'[t] = listing[t]
      /\ s \in DOMAIN listing => listing'[s].group = listing[s].group /\ listing'[s].parent = listing[s].parent
      /\ s \notin DOMAIN listing => listing'[s].parent = NoSession
  <2>1. CASE s \in DOMAIN listing
    <3>1. PICK before \in ListedEntry : before = listing[s]
      BY <1>1, <2>1
    <3>2. PICK after : after = [before EXCEPT !.state = state]
      OBVIOUS
    <3>3. listing' = [listing EXCEPT ![s] = after]
      BY <1>5, <2>1, <3>1, <3>2 DEF ListState
    <3>4. after \in ListedEntry /\ after.state = state /\ after.group = before.group /\ after.parent = before.parent
      BY <1>4, <3>1, <3>2 DEF ListedEntry
    <3> QED
      BY <1>1, <2>1, <3>1, <3>3, <3>4
  <2>2. CASE s \notin DOMAIN listing
    <3>1. PICK entry : entry = Listed(state, s, NoModel, NoSession)
      OBVIOUS
    <3>2. entry \in ListedEntry /\ entry.state = state /\ entry.parent = NoSession
      BY <1>3, <1>4, <3>1 DEF Listed, ListedEntry, Parents, ProfileOf
    <3>3. listing' = Put(listing, s, entry)
      BY <1>5, <2>2, <3>1 DEF ListState
    <3> QED
      BY <1>1, <2>2, <3>2, <3>3 DEF Put
  <2> QED
    BY <2>1, <2>2
<1>7. HarnessTypeOK'
  BY <1>1, <1>2, <1>3, <1>6 DEF ListInv, HarnessTypeOK
<1>8. CallsTrue'
  BY <1>1 DEF ListInv, CallsTrue, CallTrue, Back
<1>9. ListedOrTold'
  <2> SUFFICES ASSUME NEW t \in DOMAIN core, t # s, t \notin DOMAIN listing
               PROVE  \E i \in DOMAIN output' : output'[i].session = t
    BY <1>1, <1>6 DEF ListedOrTold
  <2>1. PICK i \in DOMAIN output : output[i].session = t
    BY DEF ListInv, ListedOrTold
  <2> QED
    BY <1>2, <1>3, <2>1
<1>10. LastIsNow'
  <2> SUFFICES ASSUME NEW i \in DOMAIN output', output'[i].session \in DOMAIN core,
                      \A j \in DOMAIN output' : j > i => output'[j].session # output'[i].session
               PROVE  output'[i].state = core[output'[i].session].state
    BY <1>1 DEF LastIsNow
  <2>1. i + 1 \in DOMAIN output /\ output'[i] = output[i + 1]
    BY <1>2
  <2>2. \A j \in DOMAIN output : j > i + 1 => output[j].session # output[i + 1].session
    <3> SUFFICES ASSUME NEW j \in DOMAIN output, j > i + 1 PROVE output[j].session # output[i + 1].session
      OBVIOUS
    <3>1. i \in Nat /\ j \in Nat /\ i >= 1 /\ Len(output) \in Nat
      BY <1>1, <1>2
    <3>2. j # 1 /\ j - 1 > i
      BY <3>1
    <3>3. j - 1 \in DOMAIN output' /\ output'[j - 1] = output[j]
      BY <1>2, <3>2
    <3> QED
      BY <2>1, <3>2, <3>3
  <2> QED
    BY <2>1, <2>2 DEF ListInv, LastIsNow
<1>11. \A t : t # s /\ (\A i \in DOMAIN output' : output'[i].session # t) => \A i \in DOMAIN output : output[i].session # t
  BY <1>2, <1>3
<1>12. s \in DOMAIN core /\ (\A i \in DOMAIN output' : output'[i].session # s) => core[s].state = state
  <2> SUFFICES ASSUME s \in DOMAIN core, \A i \in DOMAIN output' : output'[i].session # s
               PROVE  core[s].state = state
    OBVIOUS
  <2>1. \A j \in DOMAIN output : j > 1 => output[j].session # s
    BY <1>2
  <2> QED
    BY <1>2, <1>3, <1>4, <2>1 DEF ListInv, LastIsNow
<1>13. RootsListed'
  <2> SUFFICES ASSUME NEW t \in DOMAIN core, core[t].parent = NoSession
               PROVE  /\ ~BeingCreated(t) => t \in DOMAIN listing' /\ listing'[t].group = EffectiveGroup(t, core[t].group)
                      /\ t \in DOMAIN listing' => listing'[t].parent = NoSession
                      /\ t \in DOMAIN listing' /\ (\A i \in DOMAIN output' : output'[i].session # t)
                           => listing'[t].state = core[t].state
    BY <1>1 DEF RootsListed, BeingCreated, Back
  <2>1. /\ ~BeingCreated(t) => t \in DOMAIN listing /\ listing[t].group = EffectiveGroup(t, core[t].group)
        /\ t \in DOMAIN listing => listing[t].parent = NoSession
        /\ t \in DOMAIN listing /\ (\A i \in DOMAIN output : output[i].session # t) => listing[t].state = core[t].state
    BY DEF ListInv, RootsListed
  <2>2. CASE t = s
    BY <1>6, <1>12, <2>1, <2>2
  <2>3. CASE t # s
    BY <1>6, <1>11, <2>1, <2>3
  <2> QED
    BY <2>2, <2>3
<1> QED
  BY <1>7, <1>8, <1>9, <1>10, <1>13 DEF ListInv

\* A stored state is read back as a state.
LEMMA ReadBackType == \A state \in States : ReadBack(state) \in States
BY DEF ReadBack, States

\* A restart lists what it restores, with an update for each session that lives.
LEMMA RestartKeeps ==
    ASSUME HarnessAssumption, ListInv, Restart
    PROVE  ListInv'
<1>1. DOMAIN disk \subseteq Sessions /\ disk \in [DOMAIN disk -> StoredEntry] /\ disk' = disk
  BY DEF ListInv, HarnessTypeOK, Restart
<1>2. PICK restored \in SUBSET DOMAIN disk :
         /\ core' = Respawned(restored)
         /\ \E order \in [1..Cardinality(restored) -> restored] :
              /\ restored = {order[i] : i \in DOMAIN order}
              /\ output' = [i \in DOMAIN order |->
                              [session |-> order[i], state |-> ReadBack(disk[order[i]].state)]]
  BY DEF Restart
<1>3. PICK order \in [1..Cardinality(restored) -> restored] :
         output' = [i \in DOMAIN order |-> [session |-> order[i], state |-> ReadBack(disk[order[i]].state)]]
  BY <1>2
<1>4. /\ DOMAIN core' = restored /\ core' \in [restored -> CoreEntry]
      /\ \A s \in restored : /\ core'[s].state = ReadBack(disk[s].state) /\ core'[s].group = disk[s].group
                             /\ core'[s].parent = disk[s].parent
  <2>1. \A s \in restored :
           LET entry == [NewSession(disk[s].group, disk[s].model, NoModel, disk[s].parent)
                            EXCEPT !.state = ReadBack(disk[s].state)]
           IN /\ entry \in CoreEntry /\ entry.state = ReadBack(disk[s].state) /\ entry.group = disk[s].group
              /\ entry.parent = disk[s].parent
    <3> SUFFICES ASSUME NEW s \in restored, NEW entry,
                        entry = [NewSession(disk[s].group, disk[s].model, NoModel, disk[s].parent)
                                   EXCEPT !.state = ReadBack(disk[s].state)]
                 PROVE  /\ entry \in CoreEntry /\ entry.state = ReadBack(disk[s].state)
                        /\ entry.group = disk[s].group /\ entry.parent = disk[s].parent
      BY Zenon
    <3>1. PICK kept \in StoredEntry : kept = disk[s]
      BY <1>1, <1>2
    <3>2. PICK state \in States : state = ReadBack(kept.state)
      BY <3>1, ReadBackType DEF StoredEntry
    <3> QED
      BY <3>1, <3>2 DEF NewSession, CoreEntry, StoredEntry, ProfileOf
  <2>2. core' = [s \in restored |-> [NewSession(disk[s].group, disk[s].model, NoModel, disk[s].parent)
                                       EXCEPT !.state = ReadBack(disk[s].state)]]
    BY <1>2 DEF Respawned
  <2> QED
    BY <2>1, <2>2
<1>5. /\ DOMAIN listing' = DOMAIN disk /\ listing' \in [DOMAIN disk -> ListedEntry]
      /\ \A s \in DOMAIN disk : /\ listing'[s].state = ReadBack(disk[s].state)
                                /\ listing'[s].group = EffectiveGroup(s, disk[s].group)
                                /\ listing'[s].parent = disk[s].parent
  <2>1. \A s \in DOMAIN disk :
           LET entry == Listed(ReadBack(disk[s].state), EffectiveGroup(s, disk[s].group), disk[s].model, disk[s].parent)
           IN /\ entry \in ListedEntry /\ entry.state = ReadBack(disk[s].state)
              /\ entry.group = EffectiveGroup(s, disk[s].group) /\ entry.parent = disk[s].parent
    <3> SUFFICES ASSUME NEW s \in DOMAIN disk, NEW entry,
                        entry = Listed(ReadBack(disk[s].state), EffectiveGroup(s, disk[s].group), disk[s].model, disk[s].parent)
                 PROVE  /\ entry \in ListedEntry /\ entry.state = ReadBack(disk[s].state)
                        /\ entry.group = EffectiveGroup(s, disk[s].group) /\ entry.parent = disk[s].parent
      BY Zenon
    <3>1. PICK kept \in StoredEntry : kept = disk[s]
      BY <1>1
    <3>2. PICK state \in States : state = ReadBack(kept.state)
      BY <3>1, ReadBackType DEF StoredEntry
    <3> QED
      BY <1>1, <3>1, <3>2 DEF Listed, ListedEntry, StoredEntry, EffectiveGroup
  <2>2. listing' = [s \in DOMAIN disk |->
           Listed(ReadBack(disk[s].state), EffectiveGroup(s, disk[s].group), disk[s].model, disk[s].parent)]
    BY DEF Restart
  <2> QED
    BY <2>1, <2>2
<1>6. /\ output' \in Seq([session : Sessions, state : States])
      /\ \A i \in DOMAIN output' : output'[i].session \in restored
                                     /\ output'[i].state = ReadBack(disk[output'[i].session].state)
  <2>1. \A s \in restored : s \in Sessions /\ ReadBack(disk[s].state) \in States
    BY <1>1, <1>2, ReadBackType DEF StoredEntry
  <2>2. \A i \in DOMAIN order : order[i] \in restored
    BY <1>3
  <2>3. DOMAIN order = 1..Cardinality(restored) /\ Cardinality(restored) \in Nat
    <3>1. IsFiniteSet(restored)
      BY <1>1, <1>2, FS_Subset DEF HarnessAssumption
    <3> QED
      BY <1>3, <3>1, FS_CardinalityType
  <2>4. output' \in [1..Cardinality(restored) -> [session : Sessions, state : States]]
    BY <1>3, <2>1, <2>2, <2>3
  <2>5. output' \in Seq([session : Sessions, state : States])
    BY <2>3, <2>4, FunctionIsSeq
  <2>6. \A i \in DOMAIN order : i \in DOMAIN output' /\ output'[i].session = order[i]
                                 /\ output'[i].state = ReadBack(disk[order[i]].state)
    BY <1>3
  <2>7. DOMAIN output' = DOMAIN order
    BY <1>3
  <2> QED
    BY <2>2, <2>5, <2>6, <2>7
<1>7. answered' = [c \in Callers |-> <<>>] /\ completed' = <<>>
  BY DEF Restart
<1>8. HarnessTypeOK'
  <2>1. DOMAIN completed' = {} /\ completed' \in [DOMAIN completed' -> StoredEntry]
    BY <1>7
  <2>2. restored \subseteq Sessions
    BY <1>1, <1>2
  <2> QED
    BY <1>1, <1>4, <1>5, <1>6, <1>7, <2>1, <2>2 DEF HarnessTypeOK
<1>9. CallsTrue'
  BY <1>7 DEF CallsTrue, CallTrue, Back
<1>10. ListedOrTold' /\ LastIsNow'
  <2>1. ListedOrTold'
    BY <1>2, <1>4, <1>5 DEF ListedOrTold
  <2>2. \A i \in DOMAIN output' : output'[i].state = core'[output'[i].session].state
    BY <1>4, <1>6
  <2> QED
    BY <2>1, <2>2 DEF LastIsNow
<1>11. RootsListed'
  <2> SUFFICES ASSUME NEW t \in restored
               PROVE  /\ t \in DOMAIN listing' /\ listing'[t].group = EffectiveGroup(t, core'[t].group)
                      /\ listing'[t].parent = core'[t].parent /\ listing'[t].state = core'[t].state
    BY <1>4 DEF RootsListed
  <2> QED
    BY <1>2, <1>4, <1>5
<1> QED
  BY <1>8, <1>9, <1>10, <1>11 DEF ListInv

UpdatesStored == updates \subseteq DOMAIN disk

\* The model profiles of restored sessions, one after the other.
LEMMA RestoreProfileKeeps ==
    ASSUME ListInv, UpdatesStored, NEW s \in updates, RestoreProfile(s)
    PROVE  ListInv'
<1>1. /\ DOMAIN core \subseteq Sessions /\ core \in [DOMAIN core -> CoreEntry]
      /\ listing \in [DOMAIN listing -> ListedEntry] /\ DOMAIN listing \subseteq Sessions
      /\ disk \in [DOMAIN disk -> StoredEntry] /\ DOMAIN answered = Callers
  BY DEF ListInv, HarnessTypeOK
<1>2. UNCHANGED <<completed, disk, output, answered>>
  BY DEF RestoreProfile
<1>3. \A t \in DOMAIN core : BeingCreated(t) => BeingCreated(t)'
  BY <1>2 DEF BeingCreated, Back
<1>4. CASE s \notin DOMAIN core /\ core' = core /\ listing' = Restrict(listing, DOMAIN listing \ {s})
  <2>1. listing' = [t \in DOMAIN listing \ {s} |-> listing[t]]
    BY <1>4 DEF Restrict
  <2>2. /\ DOMAIN listing' = DOMAIN listing \ {s} /\ listing' \in [DOMAIN listing' -> ListedEntry]
        /\ \A t \in DOMAIN listing' : listing'[t] = listing[t]
    BY <1>1, <2>1
  <2>3. HarnessTypeOK'
    BY <1>2, <1>4, <2>2 DEF ListInv, HarnessTypeOK
  <2>4. CallsTrue' /\ ListedOrTold' /\ LastIsNow'
    BY <1>2, <1>4, <2>2 DEF ListInv, CallsTrue, CallTrue, Back, ListedOrTold, LastIsNow
  <2>5. RootsListed'
    BY <1>2, <1>3, <1>4, <2>2 DEF ListInv, RootsListed
  <2> QED
    BY <2>3, <2>4, <2>5 DEF ListInv
<1>5. CASE TakesModel(s) /\ \E model \in Resolved(disk[s].model) :
               /\ core' = WithModel(s, model)
               /\ listing' = IF s \in DOMAIN listing THEN [listing EXCEPT ![s].model = model] ELSE listing
  <2>1. PICK model \in Resolved(disk[s].model) :
               /\ core' = WithModel(s, model)
               /\ listing' = IF s \in DOMAIN listing THEN [listing EXCEPT ![s].model = model] ELSE listing
    BY <1>5
  <2>2. model \in ProfileOf
    BY <1>1 DEF UpdatesStored, Resolved, StoredEntry, ProfileOf
  <2>3. s \in DOMAIN core
    BY <1>5 DEF TakesModel
  <2>4. /\ DOMAIN core' = DOMAIN core /\ core' \in [DOMAIN core -> CoreEntry]
        /\ \A t \in DOMAIN core : core'[t].state = core[t].state /\ core'[t].group = core[t].group
                                    /\ core'[t].parent = core[t].parent
    BY <2>1, <2>2, <2>3, ModelSet
  <2>5. DOMAIN listing' = DOMAIN listing /\ listing' \in [DOMAIN listing' -> ListedEntry] /\ \A t : SameListed(t)
    <3>1. CASE s \notin DOMAIN listing
      BY <1>1, <2>1, <3>1 DEF SameListed
    <3>2. CASE s \in DOMAIN listing
      <4>1. PICK before \in ListedEntry : before = listing[s]
        BY <1>1, <3>2
      <4>2. PICK after : after = [before EXCEPT !.model = model]
        OBVIOUS
      <4>3. listing' = [listing EXCEPT ![s] = after]
        BY <2>1, <3>2, <4>1, <4>2
      <4>4. after \in ListedEntry /\ after.state = before.state /\ after.group = before.group /\ after.parent = before.parent
        BY <2>2, <4>1, <4>2 DEF ListedEntry
      <4> QED
        BY <1>1, <3>2, <4>1, <4>3, <4>4 DEF SameListed
    <3> QED
      BY <3>1, <3>2
  <2>6. Remodels
    BY <1>2, <2>4, <2>5 DEF Remodels
  <2>7. CallsTrue'
    <3>1. KeepsCreated /\ KeepsChildren
      BY <1>2, <2>4 DEF KeepsCreated, KeepsChildren
    <3> QED
      BY <1>2, <3>1, CallStaysTrue DEF ListInv, CallsTrue
  <2> QED
    BY <1>1, <1>2, <1>3, <2>6, <2>7, RemodelsKeeps
<1>6. CASE UNCHANGED <<core, listing>>
  BY <1>2, <1>6 DEF ListInv, HarnessTypeOK, CallsTrue, CallTrue, Back, BeingCreated, ListedOrTold, LastIsNow, RootsListed
<1> QED
  BY <1>4, <1>5, <1>6 DEF RestoreProfile

\* Every step keeps the invariant.
LEMMA ListInvKept == ASSUME HarnessAssumption, ListInv, UpdatesStored, [HarnessNext]_harnessVars PROVE ListInv'
<1>1. CASE UNCHANGED harnessVars
  BY <1>1 DEF harnessVars, ListInv, HarnessTypeOK, CallsTrue, CallTrue, Back, BeingCreated, ListedOrTold, LastIsNow, RootsListed
<1>2. ASSUME NEW c \in Callers, NEW s \in Sessions,
             \/ \E g \in Groups \cup {NoGroup}, m \in Models \cup {NoModel} : CreateSession(c, s, g, m)
             \/ \E p \in Sessions \cup {Nobody} : SpawnChild(c, p, s)
             \/ \E p \in Sessions : ScheduleAgent(c, p, s)
             \/ \E m \in Models : SetModelProfile(c, s, m)
      PROVE  ListInv'
  BY <1>2, CreateSessionKeeps, SpawnKeeps, SetModelKeeps DEF GroupOf, ProfileOf
<1>3. ASSUME NEW c \in Callers, InsertCreated(c) \/ InsertSpawned(c) \/ ScheduleLoopMessage(c) \/ NoteModel(c)
      PROVE  ListInv'
  BY <1>3, InsertCreatedKeeps, InsertSpawnedKeeps, NotesKeep
<1>4. ASSUME NEW p \in Sessions, NEW s \in Sessions, NEW history \in BOOLEAN, ToolSpawns(p, s, history)
      PROVE  ListInv'
  BY <1>4, ToolSpawnsKeeps
<1>5. ASSUME NEW s \in DOMAIN core, StartTurn(s) \/ AsksClient(s) \/ EndTurn(s) \/ ChildEnds(s)
      PROVE  ListInv'
  BY <1>5, TurnKeeps, ChildEndsKeeps
<1>6. CASE CommitCheckpoint \/ Started
  BY <1>6, DiskKeeps
<1>7. CASE Fanout
  BY <1>7, FanoutKeeps
<1>8. CASE Restart
  BY <1>8, RestartKeeps
<1>9. ASSUME NEW s \in updates, RestoreProfile(s)
      PROVE  ListInv'
  BY <1>9, RestoreProfileKeeps
<1> QED
  BY <1>1, <1>2, <1>3, <1>4, <1>5, <1>6, <1>7, <1>8, <1>9 DEF HarnessNext

LEMMA UpdatesStoredKept == ASSUME ListInv, UpdatesStored, [HarnessNext]_harnessVars PROVE UpdatesStored'
<1>1. CASE UNCHANGED <<updates, disk>>
  BY <1>1 DEF UpdatesStored
<1>2. CASE CommitCheckpoint
  BY <1>2, SnapshotType DEF UpdatesStored, CommitCheckpoint
<1>3. CASE Restart
  BY <1>3 DEF UpdatesStored, Restart
<1>4. ASSUME NEW s \in updates, RestoreProfile(s) PROVE UpdatesStored'
  BY <1>4 DEF UpdatesStored, RestoreProfile
<1>5. CASE HarnessNext
  BY <1>1, <1>2, <1>3, <1>4, <1>5
     DEF HarnessNext, CreateSession, SpawnChild, ScheduleAgent, SetModelProfile, InsertCreated, InsertSpawned,
         ScheduleLoopMessage, NoteModel, ToolSpawns, StartTurn, AsksClient, EndTurn, ChildEnds, Fanout, Started
<1> QED
  BY <1>1, <1>5 DEF harnessVars

\* Least elements: the shortest way up between two sessions.
LEMMA LeastOf ==
    ASSUME NEW S, S \subseteq Nat, S # {}
    PROVE  \E n \in S : \A m \in S : n <= m
<1> DEFINE R == {p \in Nat \X Nat : p[1] < p[2]}
<1>1. IsWellFoundedOn(R, Nat)
  BY NatLessThanWellFounded DEF OpToRel
<1>2. \A x, y \in Nat : <<y, x>> \in R <=> y < x
  OBVIOUS
<1> HIDE DEF R
<1>3. PICK n \in S : \A m \in S : ~ (<<m, n>> \in R)
  BY <1>1, WFMin
<1>4. ASSUME NEW m \in S PROVE n <= m
  <2>1. n \in Nat /\ m \in Nat /\ ~ (m < n)
    BY <1>2, <1>3
  <2> QED
    BY <2>1
<1> QED
  BY <1>4

\* Two ways up from a session that are equally long are the same.
LEMMA AscentsAgree ==
    ASSUME NEW s, NEW n \in Nat, NEW m \in Nat, NEW p, NEW q, Ascent(p, s), Ascent(q, s),
           DOMAIN p = 0..n, DOMAIN q = 0..m
    PROVE  \A i \in 0..n : i <= m => p[i] = q[i]
<1> DEFINE Wrong == {i \in 0..n : i <= m /\ p[i] # q[i]}
<1>1. SUFFICES Wrong = {}
  OBVIOUS
<1>2. SUFFICES ASSUME Wrong # {} PROVE FALSE
  OBVIOUS
<1>3. Wrong \subseteq Nat
  OBVIOUS
<1>4. PICK i \in Wrong : \A j \in Wrong : i <= j
  <2> HIDE DEF Wrong
  <2> QED
    BY <1>2, <1>3, LeastOf
<1>5. i \in 0..n /\ i <= m /\ p[i] # q[i]
  BY <1>4
<1>6. i # 0
  BY <1>5 DEF Ascent
<1>7. i - 1 \in 0..n /\ i - 1 <= m /\ i - 1 \notin Wrong
  BY <1>4, <1>5, <1>6
<1>8. p[i - 1] = q[i - 1]
  BY <1>7
<1>9. p[i] = listing[p[i - 1]].parent /\ q[i] = listing[q[i - 1]].parent
  <2>1. i \in DOMAIN p /\ i \in DOMAIN q /\ i > 0
    BY <1>5, <1>6
  <2> QED
    BY <2>1 DEF Ascent
<1> QED
  BY <1>5, <1>8, <1>9

\* A session has one way to a root, so one tree shows it.
LEMMA OneRootAbove ==
    ASSUME HarnessAssumption, ListInv, NEW s, NEW a \in Above(s) \cap Roots, NEW b \in Above(s) \cap Roots
    PROVE  a = b
<1>0. DOMAIN listing \subseteq Sessions /\ NoSession \notin Sessions /\ Cardinality(Sessions) \in Nat
  BY FS_CardinalityType DEF HarnessAssumption, ListInv, HarnessTypeOK
<1>1. \A r \in Above(s) : \E n \in Nat : \E path \in [0..n -> DOMAIN listing] : Ascent(path, s) /\ path[n] = r
  BY <1>0 DEF Above
<1>2. PICK n \in Nat : \E path \in [0..n -> DOMAIN listing] : Ascent(path, s) /\ path[n] = a
  BY <1>1
<1>3. PICK p \in [0..n -> DOMAIN listing] : Ascent(p, s) /\ p[n] = a
  BY <1>2
<1>4. PICK m \in Nat : \E path \in [0..m -> DOMAIN listing] : Ascent(path, s) /\ path[m] = b
  BY <1>1
<1>5. PICK q \in [0..m -> DOMAIN listing] : Ascent(q, s) /\ q[m] = b
  BY <1>4
<1>6. \A i \in 0..n : i <= m => p[i] = q[i]
  BY <1>3, <1>5, AscentsAgree
<1>7. listing[a].parent = NoSession /\ listing[b].parent = NoSession
  BY DEF Roots
<1>8. CASE n = m
  BY <1>3, <1>5, <1>6, <1>8
<1>9. CASE n < m
  <2>1. q[n] = a /\ n + 1 \in DOMAIN q /\ n \in 0..n
    BY <1>3, <1>5, <1>6, <1>9
  <2>2. q[n + 1] = listing[q[n]].parent
    <3>1. n + 1 > 0 /\ (n + 1) - 1 = n
      OBVIOUS
    <3>2. q[n + 1] = listing[q[(n + 1) - 1]].parent
      BY <1>5, <2>1, <3>1, Zenon DEF Ascent
    <3> QED
      BY <3>1, <3>2
  <2>3. q[n + 1] \in DOMAIN listing
    BY <1>5, <2>1
  <2> QED
    BY <1>0, <1>7, <2>1, <2>2, <2>3
<1>10. CASE m < n
  <2>1. p[m] = b /\ m + 1 \in DOMAIN p /\ m \in 0..n
    BY <1>3, <1>5, <1>6, <1>10
  <2>2. p[m + 1] = listing[p[m]].parent
    <3>1. m + 1 > 0 /\ (m + 1) - 1 = m
      OBVIOUS
    <3>2. p[m + 1] = listing[p[(m + 1) - 1]].parent
      BY <1>3, <2>1, <3>1, Zenon DEF Ascent
    <3> QED
      BY <3>1, <3>2
  <2>3. p[m + 1] \in DOMAIN listing
    BY <1>3, <2>1
  <2> QED
    BY <1>0, <1>7, <2>1, <2>2, <2>3
<1> QED
  BY <1>8, <1>9, <1>10

LEMMA TreesShowOnce == ASSUME HarnessAssumption, ListInv PROVE TreeShowsEachOnce
<1> SUFFICES ASSUME NEW s \in DOMAIN listing, Above(s) \cap Roots # {}
             PROVE  TimesShown(Roots, s) = 1 /\ TimesShown(CliRoots, s) = 1
  BY DEF TreeShowsEachOnce
<1>1. PICK a : a \in Above(s) \cap Roots
  OBVIOUS
<1>2. Above(s) \cap Roots = {a}
  BY <1>1, OneRootAbove
<1>3. TimesShown(Roots, s) = 1
  BY <1>2, FS_Singleton DEF TimesShown
<1>4. CliRoots = Roots
  BY <1>1 DEF CliRoots
<1> QED
  BY <1>3, <1>4

\* When every call has returned and every event is handled, the listing is the registry.
LEMMA RestAgrees == ASSUME ListInv PROVE ListingAgrees
<1> SUFFICES ASSUME AtRest, NEW s \in DOMAIN core
             PROVE  /\ s \in DOMAIN listing
                    /\ core[s].parent = NoSession =>
                         /\ listing[s].state = core[s].state
                         /\ listing[s].group = EffectiveGroup(s, core[s].group)
                         /\ Lineage(s, s, 0)
  BY DEF ListingAgrees
<1>1. DOMAIN output = {} /\ ~BeingCreated(s)
  BY DEF AtRest, BeingCreated, Back
<1>2. s \in DOMAIN listing
  BY <1>1 DEF ListInv, ListedOrTold
<1>3. core[s].parent = NoSession =>
        /\ listing[s].state = core[s].state /\ listing[s].parent = NoSession
        /\ listing[s].group = EffectiveGroup(s, core[s].group)
  BY <1>1, <1>2 DEF ListInv, RootsListed
<1>4. \E path \in [0..0 -> DOMAIN listing] : Ascent(path, s) /\ path[0] = s
  <2>1. PICK path : path = [i \in 0..0 |-> s]
    OBVIOUS
  <2>2. path \in [0..0 -> DOMAIN listing] /\ path[0] = s
    BY <1>2, <2>1
  <2>3. Ascent(path, s)
    BY <2>2 DEF Ascent
  <2> QED
    BY <2>2, <2>3
<1> QED
  BY <1>2, <1>3, <1>4 DEF Lineage

\* Whatever calls, events and restarts interleave, the harness's listing
\* (local.rs fanout_loop, create_session, spawn_child_session) holds what the
\* core's registry holds once every event is handled, and each listed session
\* is in exactly one tree that the harness shows.
THEOREM ListingsAgreeCorrect == HarnessSpec => []ListingsAgree
<1>1. HarnessInit => ListInv /\ UpdatesStored
  BY StartsEmpty DEF HarnessInit, UpdatesStored
<1>2. ListInv /\ UpdatesStored /\ [HarnessNext]_harnessVars => (ListInv /\ UpdatesStored)'
  BY HarnessAssumption, ListInvKept, UpdatesStoredKept
<1>3. ListInv => ListingsAgree
  BY HarnessAssumption, TreesShowOnce, RestAgrees DEF ListingsAgree
<1> QED
  BY <1>1, <1>2, <1>3, PTL DEF HarnessSpec

----------------------------------------------------------------------------
(* Who owns a daemon that was launched.                                     *)

(* Whoever has been launched, or serves where one was launched, was         *)
(* launched there by some command; a path is chosen before the launch.      *)
LaunchedAt(d, path) == \E l \in Launchers : launcher[l].child = d /\ launcher[l].path = path

Process == [at : {"unborn", "starting", "loaded", "serving", "gone"}, path : Paths, mem : Nat, hung : BOOLEAN]
Early == {"unborn", "choosing", "connecting", "checking", "clearing", "launching"}
Launcher == [at : Early \cup {"polling", "verifying", "connected", "failed", "left"},
             path : Paths, child : Daemons \cup {NoDaemon}, server : Daemons \cup {NoDaemon}, spawned : BOOLEAN]

DaemonTypeOK ==
    /\ process \in [Daemons -> Process] /\ stored \in Nat
    /\ socket \in [Paths -> Daemons \cup {NoDaemon}]
    /\ launcher \in [Launchers -> Launcher]

ChoosesFirst ==
    \A l \in Launchers :
        /\ launcher[l].at \in Early => launcher[l].child = NoDaemon
        /\ launcher[l].at = "choosing" => l \in Chats
        /\ launcher[l].at = "polling" => launcher[l].child # NoDaemon

\* The path of a command that is about to launch has no socket of an older daemon.
Cleared(l) == launcher[l].child # NoDaemon \/ launcher[l].at = "launching"

ServedByLaunched ==
    /\ \A l \in Launchers : Cleared(l) =>
         \/ socket[launcher[l].path] = NoDaemon
         \/ LaunchedAt(socket[launcher[l].path], launcher[l].path)
    /\ \A d \in Daemons : process[d].at \in {"starting", "loaded"} => LaunchedAt(d, process[d].path)

MetOneLaunched ==
    \A l \in Launchers : launcher[l].spawned \/ launcher[l].at = "verifying" =>
        /\ launcher[l].child # NoDaemon /\ launcher[l].server # NoDaemon
        /\ LaunchedAt(launcher[l].server, launcher[l].path)

OwnInv == DaemonTypeOK /\ ChoosesFirst /\ ServedByLaunched /\ MetOneLaunched

\* The commands and daemons of the start.
LEMMA OwnInit ==
  ASSUME DaemonAssumption, DaemonInit
  PROVE  OwnInv
<1>1. DefaultPath \in Paths
  BY DEF Paths
<1>2. AlreadyRunning # {} => (CHOOSE d \in AlreadyRunning : TRUE) \in Daemons
  BY DEF DaemonAssumption
<1>3. DaemonTypeOK
  BY <1>1, <1>2 DEF DaemonInit, DaemonTypeOK, Process, Launcher, Early
<1>4. ChoosesFirst /\ MetOneLaunched /\ ServedByLaunched
  BY DEF DaemonInit, ChoosesFirst, MetOneLaunched, ServedByLaunched, LaunchedAt, Cleared
<1> QED
  BY <1>3, <1>4 DEF OwnInv

(* Commands that have launched keep what they launched, and where. *)
LaunchesKept == \A l \in Launchers : launcher[l].child # NoDaemon =>
                    launcher'[l].child = launcher[l].child /\ launcher'[l].path = launcher[l].path

\* A daemon that was launched at a path stays launched there.
LEMMA LaunchedStays ==
  ASSUME LaunchesKept, NEW d, NEW path, d # NoDaemon, LaunchedAt(d, path)
  PROVE  LaunchedAt(d, path)'
BY DEF LaunchesKept, LaunchedAt

(* A step of a command that launches nothing and leaves the sockets alone. *)
Changes(l, change) ==
    /\ launcher' = [launcher EXCEPT ![l] = change]
    /\ change.child = launcher[l].child
    /\ launcher[l].child # NoDaemon => change.path = launcher[l].path
    /\ change.at \in Early => launcher[l].child = NoDaemon
    /\ change.at = "choosing" => l \in Chats
    /\ change.at # "polling"
    /\ change.at = "launching" => socket[change.path] = NoDaemon
    /\ change.spawned \/ change.at = "verifying" =>
         \/ /\ launcher[l].spawned \/ launcher[l].at = "verifying"
            /\ change.server = launcher[l].server
         \/ launcher[l].at = "polling" /\ change.server = socket[launcher[l].path] /\ change.server # NoDaemon

LEMMA CommandChanges ==
  ASSUME DaemonAssumption, OwnInv, NEW l \in Launchers,
         \/ StartCommand(l) \/ ChoosePath(l) \/ TryExisting(l) \/ ConnectExisting(l) \/ GiveUpExisting(l)
         \/ PollConnects(l) \/ PollAnswered(l) \/ PollFails(l)
  PROVE  UNCHANGED <<process, socket, stored>> /\ \E change \in Launcher : Changes(l, change)
<1> USE DEF OwnInv
<1>0. /\ launcher[l] \in Launcher /\ launcher[l].path \in Paths
      /\ socket[launcher[l].path] \in Daemons \cup {NoDaemon}
  BY DEF DaemonTypeOK, Launcher
<1>1. /\ launcher[l].at \in Early => launcher[l].child = NoDaemon /\ ~launcher[l].spawned
      /\ launcher[l].at = "choosing" => l \in Chats
  BY DEF ChoosesFirst, MetOneLaunched
<1>2. CASE StartCommand(l)
  <2>1. PICK change : change = [launcher[l] EXCEPT !.at = IF l \in Chats THEN "choosing" ELSE "connecting"]
    OBVIOUS
  <2>2. change \in Launcher /\ launcher[l].at \in Early
    BY <1>0, <1>2, <2>1 DEF Launcher, Early, StartCommand, LauncherAt
  <2> QED
    BY <1>0, <1>1, <1>2, <2>1, <2>2 DEF StartCommand, Move, Launcher, Changes, Early
<1>3. CASE ChoosePath(l)
  <2>1. PICK change : change = [launcher[l] EXCEPT !.at = "connecting",
                        !.path = IF Found(DefaultPath) = "accepted" THEN l ELSE DefaultPath]
    OBVIOUS
  <2>2. l \in Chats /\ launcher[l].at = "choosing" /\ launcher[l].at \in Early
    BY <1>1, <1>3 DEF ChoosePath, LauncherAt, Early
  <2>3. change \in Launcher
    BY <1>0, <2>1, <2>2 DEF Launcher, Paths, Early
  <2> QED
    BY <1>0, <1>1, <1>3, <2>1, <2>2, <2>3 DEF ChoosePath, Move, Launcher, Changes
<1>4. CASE TryExisting(l)
  <2>1. launcher[l].at = "connecting" /\ launcher[l].at \in Early
    BY <1>4 DEF TryExisting, LauncherAt, Early
  <2>2. PICK place \in {"checking", "clearing", "launching"}, server \in Daemons \cup {NoDaemon} :
          /\ launcher' = [launcher EXCEPT ![l] = [launcher[l] EXCEPT !.at = place, !.server = server]]
          /\ place = "launching" => socket[launcher[l].path] = NoDaemon
    <3>1. CASE Found(launcher[l].path) = "accepted"
      BY <1>0, <1>4, <3>1 DEF TryExisting, Move
    <3>2. [launcher[l] EXCEPT !.at = "clearing"] = [launcher[l] EXCEPT !.at = "clearing", !.server = launcher[l].server]
          /\ [launcher[l] EXCEPT !.at = "launching"] = [launcher[l] EXCEPT !.at = "launching", !.server = launcher[l].server]
          /\ launcher[l].server \in Daemons \cup {NoDaemon}
      BY <1>0 DEF Launcher
    <3>3. CASE Found(launcher[l].path) = "refused"
      BY <1>4, <3>2, <3>3 DEF TryExisting, Move
    <3>4. CASE Found(launcher[l].path) = "not_found"
      <4>1. socket[launcher[l].path] = NoDaemon
        BY <3>4 DEF Found
      <4> QED
        BY <1>4, <3>2, <3>4, <4>1 DEF TryExisting, Move
    <3> QED
      BY <3>1, <3>3, <3>4 DEF Found
  <2>3. PICK change : change = [launcher[l] EXCEPT !.at = place, !.server = server]
    OBVIOUS
  <2>4. change \in Launcher
    BY <1>0, <2>2, <2>3 DEF Launcher, Early
  <2>5. /\ change.at = place /\ change.child = launcher[l].child /\ change.path = launcher[l].path
        /\ change.spawned = launcher[l].spawned
    BY <1>0, <2>3 DEF Launcher
  <2> QED
    BY <1>1, <1>4, <2>1, <2>2, <2>3, <2>4, <2>5 DEF TryExisting, Changes
<1>5. CASE ConnectExisting(l)
  <2>1. PICK change : change = [launcher[l] EXCEPT !.at = "connected"]
    OBVIOUS
  <2>2. change \in Launcher /\ launcher[l].at \in Early
    BY <1>0, <1>5, <2>1 DEF Launcher, ConnectExisting, LauncherAt, Early
  <2> QED
    BY <1>0, <1>1, <1>5, <2>1, <2>2 DEF ConnectExisting, Move, Launcher, Changes, Early
<1>6. CASE GiveUpExisting(l)
  <2>1. PICK change : change = [launcher[l] EXCEPT !.server = NoDaemon,
                  !.at = IF socket[launcher[l].path] = NoDaemon THEN "failed" ELSE "clearing"]
    OBVIOUS
  <2>2. change \in Launcher /\ launcher[l].at \in Early
    BY <1>0, <1>6, <2>1 DEF Launcher, GiveUpExisting, LauncherAt, Early
  <2> QED
    BY <1>0, <1>1, <1>6, <2>1, <2>2 DEF GiveUpExisting, Move, Launcher, Changes
<1>7. CASE PollConnects(l)
  <2>1. PICK change : change = [launcher[l] EXCEPT !.at = "verifying", !.server = socket[launcher[l].path]]
    OBVIOUS
  <2>2. change \in Launcher
    BY <1>0, <2>1 DEF Launcher
  <2>3. launcher[l].at = "polling" /\ socket[launcher[l].path] # NoDaemon
    BY <1>7 DEF PollConnects, LauncherAt, Found
  <2>4. /\ change.child = launcher[l].child /\ change.path = launcher[l].path
        /\ change.at = "verifying" /\ change.server = socket[launcher[l].path]
    BY <1>0, <2>1 DEF Launcher
  <2> QED
    BY <1>7, <2>1, <2>2, <2>3, <2>4 DEF PollConnects, Move, Changes, Early
<1>8. CASE PollAnswered(l)
  <2>1. PICK change : change = [launcher[l] EXCEPT !.at = "connected", !.spawned = TRUE]
    OBVIOUS
  <2>2. change \in Launcher /\ launcher[l].at = "verifying"
    BY <1>0, <1>8, <2>1 DEF Launcher, PollAnswered, LauncherAt
  <2> QED
    BY <1>0, <1>8, <2>1, <2>2 DEF PollAnswered, Move, Launcher, Changes, Early
<1>9. CASE PollFails(l)
  <2>1. PICK change : change = [launcher[l] EXCEPT !.at = "failed"]
    OBVIOUS
  <2>2. change \in Launcher
    BY <1>0, <2>1 DEF Launcher
  <2> QED
    BY <1>0, <1>9, <2>1, <2>2 DEF PollFails, Move, Launcher, Changes, Early
<1> QED
  BY <1>2, <1>3, <1>4, <1>5, <1>6, <1>7, <1>8, <1>9

LEMMA CommandStep ==
  ASSUME DaemonAssumption, OwnInv, NEW l \in Launchers,
         \/ StartCommand(l) \/ ChoosePath(l) \/ TryExisting(l) \/ ConnectExisting(l) \/ GiveUpExisting(l)
         \/ PollConnects(l) \/ PollAnswered(l) \/ PollFails(l)
  PROVE  OwnInv'
<1> USE DEF OwnInv
<1>1. UNCHANGED <<process, socket, stored>> /\ \E change \in Launcher : Changes(l, change)
  BY CommandChanges
<1>2. PICK change \in Launcher : Changes(l, change)
  BY <1>1
<1>3. launcher'[l] = change /\ \A k \in Launchers \ {l} : launcher'[k] = launcher[k]
  BY <1>2 DEF DaemonTypeOK, Changes
<1>4. DaemonTypeOK'
  BY <1>1, <1>2 DEF DaemonTypeOK, Changes
<1>5. LaunchesKept
  BY <1>2, <1>3 DEF LaunchesKept, Changes
<1>6. ChoosesFirst'
  BY <1>2, <1>3 DEF ChoosesFirst, Changes
<1>7. ServedByLaunched'
  <2>1. ASSUME NEW k \in Launchers, Cleared(k)', socket'[launcher'[k].path] # NoDaemon
        PROVE  LaunchedAt(socket[launcher[k].path], launcher[k].path)'
    <3>1. Cleared(k) /\ launcher'[k].path = launcher[k].path
      <4>1. CASE k # l
        BY <1>3, <2>1, <4>1 DEF Cleared
      <4>2. CASE k = l
        <5>1. launcher[l].child # NoDaemon
          BY <1>1, <1>2, <1>3, <2>1, <4>2 DEF Cleared, Changes
        <5> QED
          BY <1>2, <1>3, <4>2, <5>1 DEF Cleared, Changes
      <4> QED
        BY <4>1, <4>2
    <3>2. LaunchedAt(socket[launcher[k].path], launcher[k].path) /\ socket[launcher[k].path] # NoDaemon
      BY <1>1, <2>1, <3>1 DEF ServedByLaunched
    <3>3. LaunchedAt(socket[launcher[k].path], launcher[k].path)' <=>
            \E j \in Launchers : launcher'[j].child = socket'[launcher'[k].path] /\ launcher'[j].path = launcher'[k].path
      BY DEF LaunchedAt
    <3> QED
      BY <1>1, <1>5, <3>1, <3>2, <3>3 DEF LaunchedAt, LaunchesKept
  <2>2. ASSUME NEW d \in Daemons, process'[d].at \in {"starting", "loaded"}
        PROVE  LaunchedAt(d, process[d].path)'
    BY <1>1, <1>5, <2>2 DEF ServedByLaunched, LaunchedAt, LaunchesKept, DaemonAssumption
  <2> QED
    BY <2>1, <2>2 DEF ServedByLaunched
<1>8. MetOneLaunched'
  <2>1. ASSUME NEW k \in Launchers, launcher'[k].spawned \/ launcher'[k].at = "verifying"
        PROVE  /\ launcher'[k].child # NoDaemon /\ launcher'[k].server # NoDaemon
               /\ \E j \in Launchers : launcher[j].child = launcher'[k].server /\ launcher[j].path = launcher'[k].path
    <3>1. CASE (launcher[k].spawned \/ launcher[k].at = "verifying") /\ launcher'[k].server = launcher[k].server
      <4>1. launcher[k].child # NoDaemon /\ LaunchedAt(launcher[k].server, launcher[k].path) /\ launcher[k].server # NoDaemon
        BY <3>1 DEF MetOneLaunched
      <4> QED
        BY <1>2, <1>3, <3>1, <4>1 DEF LaunchedAt, Changes
    <3>2. CASE k = l /\ launcher[l].at = "polling" /\ launcher'[l].server = socket[launcher[l].path] /\ launcher'[l].server # NoDaemon
      <4>1. launcher[l].child # NoDaemon /\ Cleared(l)
        BY <3>2 DEF ChoosesFirst, Cleared
      <4> QED
        BY <1>2, <1>3, <3>2, <4>1 DEF ServedByLaunched, LaunchedAt, Changes
    <3> QED
      BY <1>2, <1>3, <2>1, <3>1, <3>2 DEF Changes
  <2> QED
    BY <1>5, <2>1 DEF MetOneLaunched, LaunchedAt, LaunchesKept
<1> QED
  BY <1>4, <1>6, <1>7, <1>8

\* A command that removes what is at its path.
LEMMA RemoveStep ==
  ASSUME DaemonAssumption, OwnInv, NEW l \in Launchers, RemoveSocket(l)
  PROVE  OwnInv'
<1> USE DEF OwnInv
<1>0. launcher[l] \in Launcher /\ launcher[l].at = "clearing" /\ launcher[l].child = NoDaemon /\ ~launcher[l].spawned
  BY DEF DaemonTypeOK, RemoveSocket, LauncherAt, ChoosesFirst, MetOneLaunched, Early
<1>1. PICK path \in Paths : path = launcher[l].path
  BY <1>0 DEF Launcher
<1>2. PICK change : change = [launcher[l] EXCEPT !.at = "launching"]
  OBVIOUS
<1>3. change \in Launcher /\ change.at = "launching" /\ change.path = path /\ change.child = NoDaemon /\ ~change.spawned
  BY <1>0, <1>1, <1>2 DEF Launcher, Early
<1>4. launcher' = [launcher EXCEPT ![l] = change] /\ socket' = [socket EXCEPT ![path] = NoDaemon]
      /\ UNCHANGED <<process, stored>>
  BY <1>1, <1>2 DEF RemoveSocket, Move
<1>5. launcher'[l] = change /\ \A k \in Launchers \ {l} : launcher'[k] = launcher[k]
  BY <1>4 DEF DaemonTypeOK
<1>6. socket'[path] = NoDaemon /\ \A p \in Paths \ {path} : socket'[p] = socket[p]
  BY <1>4 DEF DaemonTypeOK
<1>7. DaemonTypeOK'
  BY <1>3, <1>4 DEF DaemonTypeOK
<1>8. LaunchesKept
  BY <1>0, <1>5 DEF LaunchesKept
<1>9. ChoosesFirst'
  BY <1>3, <1>5 DEF ChoosesFirst
<1>10. ServedByLaunched'
  <2>1. ASSUME NEW k \in Launchers, Cleared(k)', socket'[launcher'[k].path] # NoDaemon
        PROVE  \E j \in Launchers : launcher'[j].child = socket'[launcher'[k].path] /\ launcher'[j].path = launcher'[k].path
    <3>1. k # l
      BY <1>3, <1>5, <1>6, <2>1
    <3>2. launcher'[k].path \in Paths \ {path}
      BY <1>6, <1>7, <2>1 DEF DaemonTypeOK, Launcher
    <3>3. socket[launcher[k].path] # NoDaemon /\ Cleared(k)
      BY <1>5, <1>6, <2>1, <3>1, <3>2 DEF Cleared
    <3> QED
      BY <1>5, <1>6, <1>8, <3>1, <3>2, <3>3 DEF ServedByLaunched, LaunchedAt, LaunchesKept
  <2>2. ASSUME NEW e \in Daemons, process'[e].at \in {"starting", "loaded"}
        PROVE  \E j \in Launchers : launcher'[j].child = e /\ launcher'[j].path = process'[e].path
    BY <1>4, <1>8, <2>2 DEF ServedByLaunched, LaunchedAt, LaunchesKept, DaemonAssumption
  <2> QED
    BY <2>1, <2>2 DEF ServedByLaunched, LaunchedAt
<1>11. MetOneLaunched'
  <2>1. ASSUME NEW k \in Launchers, launcher'[k].spawned \/ launcher'[k].at = "verifying"
        PROVE  k # l /\ (launcher[k].spawned \/ launcher[k].at = "verifying")
    BY <1>3, <1>5, <2>1
  <2> QED
    BY <1>5, <1>8, <2>1 DEF MetOneLaunched, LaunchedAt, LaunchesKept
<1> QED
  BY <1>7, <1>9, <1>10, <1>11

\* A command that launches.
LEMMA LaunchStep ==
  ASSUME DaemonAssumption, OwnInv, NEW l \in Launchers, NEW d \in Daemons, LaunchDaemon(l, d)
  PROVE  OwnInv'
<1> USE DEF OwnInv
<1>0. launcher[l] \in Launcher /\ launcher[l].at = "launching" /\ process[d] \in Process
  BY DEF DaemonTypeOK, LaunchDaemon, LauncherAt
<1>1. PICK path : path = launcher[l].path
  OBVIOUS
<1>2. path \in Paths
  BY <1>0, <1>1 DEF Launcher
<1>3. PICK change : change = [launcher[l] EXCEPT !.at = "polling", !.child = d]
  OBVIOUS
<1>4. change \in Launcher
  BY <1>0, <1>3 DEF Launcher
<1>5. /\ launcher[l].child = NoDaemon /\ ~launcher[l].spawned
      /\ change.child = d /\ change.at = "polling" /\ change.path = path /\ ~change.spawned
  BY <1>0, <1>1, <1>3 DEF ChoosesFirst, MetOneLaunched, Launcher, Early
<1>6. launcher'[l] = change /\ \A k \in Launchers \ {l} : launcher'[k] = launcher[k]
  BY <1>3 DEF DaemonTypeOK, LaunchDaemon, Move
<1>7. /\ process' = [process EXCEPT ![d] = [process[d] EXCEPT !.at = "starting", !.path = path]]
      /\ UNCHANGED <<socket, stored>>
  BY <1>1 DEF LaunchDaemon
<1>8. /\ process'[d].path = path /\ \A e \in Daemons \ {d} : process'[e] = process[e]
      /\ [process[d] EXCEPT !.at = "starting", !.path = path] \in Process
  BY <1>0, <1>2, <1>7 DEF DaemonTypeOK, Process
<1>9. socket[path] = NoDaemon \/ LaunchedAt(socket[path], path)
  BY <1>0, <1>1 DEF ServedByLaunched, Cleared
<1>10. DaemonTypeOK'
  <2>1. launcher' \in [Launchers -> Launcher]
    BY <1>3, <1>4 DEF DaemonTypeOK, LaunchDaemon, Move
  <2>2. process' \in [Daemons -> Process]
    BY <1>7, <1>8 DEF DaemonTypeOK
  <2>3. socket' \in [Paths -> Daemons \cup {NoDaemon}] /\ stored' \in Nat
    BY <1>7 DEF DaemonTypeOK
  <2> QED
    BY <2>1, <2>2, <2>3 DEF DaemonTypeOK
<1>11. LaunchesKept
  BY <1>5, <1>6 DEF LaunchesKept
<1>12. ChoosesFirst'
  BY <1>5, <1>6 DEF ChoosesFirst, DaemonAssumption, Early
<1>13. ServedByLaunched'
  <2>1. ASSUME NEW k \in Launchers, Cleared(k)', socket'[launcher'[k].path] # NoDaemon
        PROVE  \E j \in Launchers : launcher'[j].child = socket'[launcher'[k].path] /\ launcher'[j].path = launcher'[k].path
    <3>1. socket[launcher[k].path] # NoDaemon /\ launcher'[k].path = launcher[k].path
      BY <1>1, <1>5, <1>6, <1>7, <2>1
    <3>2. LaunchedAt(socket[launcher[k].path], launcher[k].path)
      <4>1. CASE k = l
        BY <1>1, <1>9, <3>1, <4>1
      <4>2. CASE k # l
        BY <1>6, <2>1, <3>1, <4>2 DEF ServedByLaunched, Cleared
      <4> QED
        BY <4>1, <4>2
    <3> QED
      BY <1>7, <1>11, <3>1, <3>2 DEF LaunchedAt, LaunchesKept
  <2>2. ASSUME NEW e \in Daemons, process'[e].at \in {"starting", "loaded"}
        PROVE  \E j \in Launchers : launcher'[j].child = e /\ launcher'[j].path = process'[e].path
    <3>1. CASE e = d
      BY <1>5, <1>6, <1>8, <3>1
    <3>2. CASE e # d
      BY <1>8, <1>11, <2>2, <3>2 DEF ServedByLaunched, LaunchedAt, LaunchesKept, DaemonAssumption
    <3> QED
      BY <3>1, <3>2
  <2> QED
    BY <2>1, <2>2 DEF ServedByLaunched, LaunchedAt
<1>14. MetOneLaunched'
  <2>1. ASSUME NEW k \in Launchers, launcher'[k].spawned \/ launcher'[k].at = "verifying"
        PROVE  k # l /\ (launcher[k].spawned \/ launcher[k].at = "verifying")
    BY <1>5, <1>6, <2>1
  <2> QED
    BY <1>6, <1>11, <2>1 DEF MetOneLaunched, LaunchedAt, LaunchesKept
<1> QED
  BY <1>10, <1>12, <1>13, <1>14

(* A step of a daemon, or the end of a command: no command is connected to  *)
(* another daemon, and a path is served by nobody new but who binds it.     *)
LEMMA ServingStep ==
  ASSUME DaemonAssumption, OwnInv, LaunchesKept,
         \A l \in Launchers : /\ launcher'[l].child = launcher[l].child /\ launcher'[l].server = launcher[l].server
                              /\ launcher'[l].path = launcher[l].path
                              /\ launcher'[l].spawned = launcher[l].spawned
                              /\ launcher'[l].at \in {launcher[l].at, "left"},
         \A d \in Daemons : process'[d].path = process[d].path
                            /\ (process'[d].at \in {"starting", "loaded"} => process[d].at \in {"starting", "loaded"}),
         \A path \in Paths : \/ socket'[path] \in {socket[path], NoDaemon}
                             \/ \E d \in Daemons : socket'[path] = d /\ process[d].path = path /\ process[d].at = "loaded",
         DaemonTypeOK'
  PROVE  OwnInv'
<1> USE DEF OwnInv
<1>1. ChoosesFirst'
  BY DEF ChoosesFirst, Early
<1>2. MetOneLaunched'
  BY DEF MetOneLaunched, LaunchedAt
<1>3. ServedByLaunched'
  <2>1. ASSUME NEW k \in Launchers, Cleared(k)', socket'[launcher'[k].path] # NoDaemon
        PROVE  \E j \in Launchers : launcher[j].child = socket'[launcher[k].path] /\ launcher[j].path = launcher[k].path
    <3>1. launcher[k].path \in Paths /\ Cleared(k)
      BY <2>1 DEF DaemonTypeOK, Launcher, Cleared
    <3>2. CASE socket'[launcher[k].path] = socket[launcher[k].path]
      BY <2>1, <3>1, <3>2 DEF ServedByLaunched, LaunchedAt
    <3>3. CASE \E d \in Daemons : socket'[launcher[k].path] = d /\ process[d].path = launcher[k].path /\ process[d].at = "loaded"
      BY <3>1, <3>3 DEF ServedByLaunched, LaunchedAt
    <3> QED
      BY <2>1, <3>1, <3>2, <3>3
  <2>2. ASSUME NEW e \in Daemons, process'[e].at \in {"starting", "loaded"}
        PROVE  \E j \in Launchers : launcher[j].child = e /\ launcher[j].path = process[e].path
    BY <2>2 DEF ServedByLaunched, LaunchedAt
  <2> QED
    BY <2>1, <2>2 DEF ServedByLaunched, LaunchedAt
<1> QED
  BY <1>1, <1>2, <1>3

\* A daemon that loads, binds, hangs, shuts down or dies.
LEMMA DaemonStep ==
  ASSUME DaemonAssumption, OwnInv, NEW d \in Daemons,
         Load(d) \/ Bind(d) \/ Turn(d) \/ CommitRegistry(d) \/ Hangs(d) \/ Recovers(d) \/ Dies(d)
  PROVE  OwnInv'
<1> USE DEF OwnInv
<1>0. process[d] \in Process /\ process[d].path \in Paths /\ process[d].mem \in Nat
  BY DEF DaemonTypeOK, Process
<1>1. UNCHANGED launcher
  BY DEF Load, Bind, Turn, CommitRegistry, Hangs, Recovers, Dies
<1>2. LaunchesKept
  BY <1>1 DEF LaunchesKept
<1>3. \E after \in Process :
        /\ process' = [process EXCEPT ![d] = after]
        /\ after.path = process[d].path
        /\ after.at \in {"starting", "loaded"} => process[d].at \in {"starting", "loaded"}
  <2>1. CASE Load(d)
    <3>1. PICK after : after = [process[d] EXCEPT !.at = "loaded", !.mem = stored]
      OBVIOUS
    <3> QED
      BY <1>0, <2>1, <3>1 DEF Load, Process, DaemonTypeOK
  <2>2. CASE Bind(d)
    <3>1. PICK after : after = [process[d] EXCEPT !.at = "serving"]
      OBVIOUS
    <3> QED
      BY <1>0, <2>2, <3>1 DEF Bind, Process, DaemonTypeOK
  <2>3. CASE Turn(d)
    <3>1. PICK after : after = [process[d] EXCEPT !.mem = process[d].mem + 1]
      OBVIOUS
    <3>2. process' = [process EXCEPT ![d] = after]
      BY <2>3, <3>1 DEF Turn, DaemonTypeOK
    <3>3. after \in Process /\ after.path = process[d].path /\ after.at \in {process[d].at, "gone"}
      BY <1>0, <3>1 DEF Process
    <3> QED
      BY <3>2, <3>3
  <2>4. CASE CommitRegistry(d)
    <3>1. process' = [process EXCEPT ![d] = process[d]]
      BY <2>4 DEF CommitRegistry, DaemonTypeOK
    <3> QED
      BY <1>0, <3>1
  <2>5. CASE Hangs(d)
    <3>1. PICK after : after = [process[d] EXCEPT !.hung = TRUE]
      OBVIOUS
    <3>2. process' = [process EXCEPT ![d] = after]
      BY <2>5, <3>1 DEF Hangs, DaemonTypeOK
    <3>3. after \in Process /\ after.path = process[d].path /\ after.at \in {process[d].at, "gone"}
      BY <1>0, <3>1 DEF Process
    <3> QED
      BY <3>2, <3>3
  <2>6. CASE Recovers(d)
    <3>1. PICK after : after = [process[d] EXCEPT !.hung = FALSE]
      OBVIOUS
    <3>2. process' = [process EXCEPT ![d] = after]
      BY <2>6, <3>1 DEF Recovers, DaemonTypeOK
    <3>3. after \in Process /\ after.path = process[d].path /\ after.at \in {process[d].at, "gone"}
      BY <1>0, <3>1 DEF Process
    <3> QED
      BY <3>2, <3>3
  <2>7. CASE Dies(d)
    <3>1. PICK after : after = [process[d] EXCEPT !.at = "gone", !.hung = FALSE]
      OBVIOUS
    <3>2. process' = [process EXCEPT ![d] = after]
      BY <2>7, <3>1 DEF Dies, DaemonTypeOK
    <3>3. after \in Process /\ after.path = process[d].path /\ after.at \in {process[d].at, "gone"}
      BY <1>0, <3>1 DEF Process
    <3> QED
      BY <3>2, <3>3
  <2> QED
    BY <2>1, <2>2, <2>3, <2>4, <2>5, <2>6, <2>7
<1>4. socket' \in [Paths -> Daemons \cup {NoDaemon}] /\ stored' \in Nat
  BY <1>0 DEF DaemonTypeOK, Load, Bind, Turn, CommitRegistry, Hangs, Recovers, Dies
<1>5. \A path \in Paths : \/ socket'[path] \in {socket[path], NoDaemon}
                          \/ socket'[path] = d /\ process[d].path = path /\ process[d].at = "loaded"
  BY DEF DaemonTypeOK, Load, Bind, Turn, CommitRegistry, Hangs, Recovers, Dies
<1>6. DaemonTypeOK'
  BY <1>1, <1>3, <1>4 DEF DaemonTypeOK
<1>7. \A e \in Daemons : process'[e].path = process[e].path
                         /\ (process'[e].at \in {"starting", "loaded"} => process[e].at \in {"starting", "loaded"})
  BY <1>3 DEF DaemonTypeOK
<1> QED
  BY <1>1, <1>2, <1>5, <1>6, <1>7, ServingStep

\* A command that ends, and stops what it owns.
LEMMA LeaveStep ==
  ASSUME DaemonAssumption, OwnInv, NEW l \in Launchers, ShutDown(l)
  PROVE  OwnInv'
<1> USE DEF OwnInv
<1>0. PICK d : d = launcher[l].server
  OBVIOUS
<1>1. PICK change : change = [launcher[l] EXCEPT !.at = "left"]
  OBVIOUS
<1>2. launcher[l] \in Launcher /\ change \in Launcher /\ launcher' = [launcher EXCEPT ![l] = change]
  BY <1>1 DEF DaemonTypeOK, ShutDown, Move, Launcher
<1>3. \A k \in Launchers : /\ launcher'[k].child = launcher[k].child /\ launcher'[k].server = launcher[k].server
                           /\ launcher'[k].path = launcher[k].path
                           /\ launcher'[k].spawned = launcher[k].spawned
                           /\ launcher'[k].at \in {launcher[k].at, "left"}
  BY <1>1, <1>2 DEF DaemonTypeOK, Launcher
<1>4. \/ UNCHANGED <<process, socket>>
      \/ /\ d \in Daemons
         /\ process' = [process EXCEPT ![d] = [process[d] EXCEPT !.at = "gone"]]
         /\ socket' = [socket EXCEPT ![process[d].path] = NoDaemon]
  <2>1. launcher[l].spawned => d \in Daemons
    BY <1>0, <1>2 DEF MetOneLaunched, Launcher
  <2> QED
    BY <1>0, <2>1 DEF ShutDown
<1>5. DaemonTypeOK'
  BY <1>2, <1>4 DEF DaemonTypeOK, ShutDown, Process
<1>6. \A e \in Daemons : process'[e].path = process[e].path
                         /\ (process'[e].at \in {"starting", "loaded"} => process[e].at \in {"starting", "loaded"})
  BY <1>4 DEF DaemonTypeOK, Process
<1>7. \A path \in Paths : socket'[path] \in {socket[path], NoDaemon}
  BY <1>4 DEF DaemonTypeOK
<1>8. LaunchesKept
  BY <1>3 DEF LaunchesKept
<1> QED
  BY <1>3, <1>5, <1>6, <1>7, <1>8, ServingStep

\* Every step keeps the invariant.
LEMMA OwnNext ==
  ASSUME DaemonAssumption, OwnInv, [DaemonNext]_daemonVars
  PROVE  OwnInv'
<1>1. CASE UNCHANGED daemonVars
  BY <1>1 DEF OwnInv, daemonVars, DaemonTypeOK, ChoosesFirst, ServedByLaunched, MetOneLaunched, LaunchedAt, Cleared
<1>2. CASE DaemonNext
  BY <1>2, CommandStep, RemoveStep, LaunchStep, LeaveStep, DaemonStep DEF DaemonNext
<1> QED
  BY <1>1, <1>2

(* Whatever commands run at once, and however daemons hang, die and are     *)
(* replaced, a chat that takes itself for the owner of its daemon launched  *)
(* it, unless another command launched one at the same path.                *)
THEOREM OwnsWhatItSpawnedCorrect == DaemonSpec => []OwnsWhatItSpawned
<1>1. DaemonInit => OwnInv
  BY OwnInit, DaemonAssumption
<1>2. OwnInv /\ [DaemonNext]_daemonVars => OwnInv'
  BY OwnNext, DaemonAssumption
<1>3. OwnInv => OwnsWhatItSpawned
  BY DEF OwnInv, MetOneLaunched, OwnsWhatItSpawned, LaunchesAlone, LaunchedAt
<1> QED
  BY <1>1, <1>2, <1>3, PTL DEF DaemonSpec

----------------------------------------------------------------------------
(* The JSON-RPC connections.                                                *)

Kinds == {"turn_started", "text_complete", "interaction_needed", "turn_complete"}
Outcomes == {"result", "internal_error", "parse_error", "method_not_found", "invalid_params"}
SentEvent == [kind : Kinds, turn : Nat]
Note == [kind : Kinds, id : {0}, turn : Nat]
Answer == [kind : {"response"}, id : Nat, outcome : Outcomes, turn : Nat]
Line == Note \cup Answer
Notes == Seq(Note)
Forwarder == [at : {"receiving", "sending", "ended"}, next : Nat, held : Notes, lagged : BOOLEAN, foreign : BOOLEAN]
Lines == Seq(RequestLines)
ClientState == [library : Libraries, program : Lines, next_id : Nat, waiting : Nat, turn : Nat,
                end : {"running", "failed", "collected", "asked"}, own : BOOLEAN]

IpcTypeOK ==
    /\ turns \in [queued : Seq(Nat), running : Nat, paused : BOOLEAN, next : Nat]
    /\ sent \in Seq(SentEvent)
    /\ active_turns \in Nat
    /\ connection \in [Clients -> {"none", "open", "closed"}]
    /\ forwarder \in [Clients -> Forwarder]
    /\ notify \in [Clients -> Seq(Note)]
    /\ requests \in [Clients -> Seq(RequestLines)]
    /\ wire \in [Clients -> Seq(Line)]
    /\ response_rx \in [Clients -> Seq(Line)]
    /\ notification_rx \in [Clients -> Seq(Note)]
    /\ client \in [Clients -> ClientState]

\* Sequences: their elements, the first one, one more, two joined.
LEMMA SeqElement ==
    ASSUME NEW S, NEW q \in Seq(S), NEW i \in DOMAIN q
    PROVE  q[i] \in S
OBVIOUS

LEMMA SeqHead ==
    ASSUME NEW S, NEW q \in Seq(S), q # <<>>
    PROVE  Head(q) \in S /\ Tail(q) \in Seq(S) /\ Head(q) = q[1] /\ 1 \in DOMAIN q
OBVIOUS

LEMMA SeqAppend ==
    ASSUME NEW S, NEW q \in Seq(S), NEW e \in S
    PROVE  Append(q, e) \in Seq(S)
OBVIOUS

LEMMA SeqConcat ==
    ASSUME NEW S, NEW p \in Seq(S), NEW q \in Seq(S)
    PROVE  p \o q \in Seq(S)
OBVIOUS

LEMMA CheckedType == \A p, required, ids : Checked(p, required, ids) \in {"call", "invalid_params"}
BY DEF Checked

\* A request that is a line of a program is answered with a result or one of the errors.
LEMMA DecisionType ==
    ASSUME NEW request \in RequestLines
    PROVE  Decision(request) \in Outcomes \cup {"call"} /\ request.method # "garbled"
<1>1. PICK p : p = request.params
  OBVIOUS
<1>2. /\ ScheduleRequest(p) \in {"call", "invalid_params"}
      /\ SendMessageRequest(p) \in {"call", "invalid_params"}
      /\ SetModelProfileRequest(p) \in {"call", "invalid_params"}
      /\ UnwindRequest(p) \in {"call", "invalid_params"}
      /\ InteractionRequest(p) \in {"call", "invalid_params"}
      /\ ExitPlanModeRequest(p) \in {"call", "invalid_params"}
      /\ CompactRequest(p) \in {"call", "invalid_params"}
      /\ ContextRequest(p) \in {"call", "invalid_params"}
      /\ CancelRequest(p) \in {"call", "invalid_params"}
      /\ SignalRequest(p) \in {"call", "invalid_params"}
      /\ LogRequest(p) \in {"call", "invalid_params"}
      /\ SendIpcRequest(p) \in {"call", "invalid_params"}
      /\ RecvIpcRequest(p) \in {"call", "invalid_params"}
      /\ GetSkillRequest(p) \in {"call", "invalid_params"}
      /\ CreateSessionRequest(p) \in {"call", "invalid_params"}
      /\ SpawnRequest(p) \in {"call", "invalid_params"}
      /\ PythonExecRequest(p) \in {"call", "invalid_params"}
      /\ PythonListRequest(p) \in {"call", "invalid_params"}
      /\ PythonInspectRequest(p) \in {"call", "invalid_params"}
  BY CheckedType
     DEF ScheduleRequest, SendMessageRequest, SetModelProfileRequest, UnwindRequest, InteractionRequest, ExitPlanModeRequest, CompactRequest,
         ContextRequest, CancelRequest, SignalRequest, LogRequest, SendIpcRequest, RecvIpcRequest,
         GetSkillRequest, CreateSessionRequest, SpawnRequest, PythonExecRequest, PythonListRequest, PythonInspectRequest
<1>3. \A method \in DOMAIN Handled(p) : Handled(p)[method] \in {"call", "invalid_params"}
  BY <1>2 DEF Handled
<1>4. request.method \in Methods /\ "garbled" \notin Methods
  BY DEF RequestLines, Methods
<1> QED
  BY <1>1, <1>3, <1>4 DEF Decision, Outcomes

\* The types at the start.
LEMMA IpcTypeInit == ASSUME IpcAssumption, IpcInit PROVE IpcTypeOK
<1>1. PICK library \in [Clients -> Libraries], program \in Programs :
         client = [c \in Clients |-> [library |-> library[c], program |-> program[c], next_id |-> 1, waiting |-> 0,
                                     turn |-> NoTurn, end |-> "running", own |-> TRUE]]
  BY DEF IpcInit
<1>2. program \in [Clients -> Lines]
  BY DEF IpcAssumption, Lines
<1>3. ASSUME NEW c \in Clients
      PROVE  [library |-> library[c], program |-> program[c], next_id |-> 1, waiting |-> 0,
              turn |-> NoTurn, end |-> "running", own |-> TRUE] \in ClientState
  <2>1. library[c] \in Libraries /\ program[c] \in Lines
    BY <1>2
  <2> QED
    BY <2>1 DEF ClientState, NoTurn
<1>4. client \in [Clients -> ClientState]
  BY <1>1, <1>3
<1> QED
  BY <1>4 DEF IpcInit, IpcTypeOK, Forwarder, Notes, NoTurn

\* The turns of the core keep the types.
LEMMA CoreTypeKept == ASSUME IpcTypeOK, TurnStarts \/ TurnGoesOn \/ TurnEnds PROVE IpcTypeOK'
<1>1. UNCHANGED <<serverVars, clientVars, requests>>
  BY DEF TurnStarts, TurnGoesOn, TurnEnds
<1>2. turns \in [queued : Seq(Nat), running : Nat, paused : BOOLEAN, next : Nat] /\ sent \in Seq(SentEvent)
  BY DEF IpcTypeOK
<1>3. turns' \in [queued : Seq(Nat), running : Nat, paused : BOOLEAN, next : Nat] /\ sent' \in Seq(SentEvent)
  <2>1. CASE TurnStarts
    <3>1. Head(turns.queued) \in Nat /\ Tail(turns.queued) \in Seq(Nat)
      BY <1>2, <2>1, SeqHead DEF TurnStarts
    <3>2. [kind |-> "turn_started", turn |-> Head(turns.queued)] \in SentEvent
      BY <3>1 DEF SentEvent, Kinds
    <3> QED
      BY <1>2, <2>1, <3>1, <3>2, SeqAppend DEF TurnStarts
  <2>2. CASE TurnGoesOn
    <3>1. PICK kind \in {"text_complete", "interaction_needed"} :
             sent' = Append(sent, Event(kind)) /\ turns' = [turns EXCEPT !.paused = (kind = "interaction_needed")]
      BY <2>2 DEF TurnGoesOn
    <3>2. Event(kind) \in SentEvent
      BY <1>2 DEF Event, SentEvent, Kinds
    <3>3. PICK asks \in BOOLEAN : asks = (kind = "interaction_needed")
      OBVIOUS
    <3>4. turns' = [turns EXCEPT !.paused = asks]
      BY <3>1, <3>3
    <3> QED
      BY <1>2, <3>1, <3>2, <3>4, SeqAppend
  <2>3. CASE TurnEnds
    <3>1. Event("turn_complete") \in SentEvent
      BY <1>2 DEF Event, SentEvent, Kinds
    <3> QED
      BY <1>2, <2>3, <3>1, SeqAppend DEF TurnEnds, NoTurn
  <2> QED
    BY <2>1, <2>2, <2>3
<1> QED
  BY <1>1, <1>3 DEF IpcTypeOK, serverVars, clientVars

(* What each step of a connection or of a client does. *)
LEMMA AcceptDoes ==
    ASSUME IpcTypeOK, NEW c \in Clients, Accept(c)
    PROVE  \E after \in Forwarder :
             /\ after.at = "receiving" /\ after.next = Len(sent) + 1 /\ after.held = forwarder[c].held
             /\ after.lagged = forwarder[c].lagged /\ after.foreign = forwarder[c].foreign
             /\ forwarder' = [forwarder EXCEPT ![c] = after]
<1>1. PICK before \in Forwarder : before = forwarder[c]
  BY DEF IpcTypeOK
<1>2. Len(sent) \in Nat
  BY DEF IpcTypeOK
<1>3. PICK n \in Nat : n = Len(sent) + 1
  BY <1>2
<1>4. PICK after : after = [before EXCEPT !.at = "receiving", !.next = n]
  OBVIOUS
<1>5. /\ after \in Forwarder /\ after.at = "receiving" /\ after.next = n /\ after.held = before.held
      /\ after.lagged = before.lagged /\ after.foreign = before.foreign
  BY <1>1, <1>3, <1>4 DEF Forwarder
<1>6. forwarder' = [forwarder EXCEPT ![c] = after]
  BY <1>1, <1>3, <1>4 DEF Accept
<1> QED
  BY <1>1, <1>3, <1>5, <1>6

\* The oldest event that is kept is labelled; whether one was skipped, or wrongly labelled, is noted.
LEMMA TrackDoes ==
    ASSUME IpcAssumption, IpcTypeOK, NEW c \in Clients, TrackTurn(c), forwarder[c].next > 0
    PROVE  \E i \in DOMAIN sent : \E after \in Forwarder, note \in Note :
             /\ forwarder[c].next <= i
             /\ ~after.lagged <=> ~forwarder[c].lagged /\ i = forwarder[c].next
             /\ ~after.foreign <=> ~forwarder[c].foreign /\ LabelOf(sent[i]) = sent[i].turn
             /\ after.at = "sending" /\ after.next = i + 1 /\ after.held = <<note>>
             /\ note.kind = sent[i].kind /\ note.turn = LabelOf(sent[i])
             /\ forwarder' = [forwarder EXCEPT ![c] = after]
             /\ active_turns' = ActiveAfter(sent[i]) /\ active_turns' \in Nat
<1>1. PICK before \in Forwarder : before = forwarder[c]
  BY DEF IpcTypeOK
<1>2. Len(sent) \in Nat /\ DOMAIN sent = 1..Len(sent) /\ sent \in Seq(SentEvent) /\ active_turns \in Nat
  BY DEF IpcTypeOK
<1>3. SubscriberRoom \in Nat /\ SubscriberRoom > 0
  BY DEF IpcAssumption
<1>4. PICK i : i = Oldest(before.next)
  OBVIOUS
<1>5. before.next \in Nat /\ before.next > 0 /\ before.next <= Len(sent)
  BY <1>1 DEF TrackTurn, Forwarder
<1>6. i \in 1..Len(sent) /\ before.next <= i
  <2>1. PICK n \in Nat : n = before.next
    BY <1>5
  <2>2. PICK l \in Nat : l = Len(sent)
    BY <1>2
  <2>3. i = IF l + 1 - n > SubscriberRoom THEN l + 1 - SubscriberRoom ELSE n
    BY <1>4, <2>1, <2>2 DEF Oldest
  <2>4. n > 0 /\ n <= l
    BY <1>5, <2>1, <2>2
  <2>5. i \in 1..l /\ n <= i
    BY <1>3, <2>1, <2>2, <2>3, <2>4
  <2> QED
    BY <2>1, <2>2, <2>5
<1>7. PICK event \in SentEvent : event = sent[i]
  BY <1>2, <1>6, SeqElement
<1>8. PICK note : note = Notification(event)
  OBVIOUS
<1>9. note \in Note /\ note.kind = event.kind /\ note.turn = LabelOf(event) /\ ActiveAfter(event) \in Nat
  BY <1>2, <1>7, <1>8 DEF Notification, LabelOf, ActiveAfter, Note, SentEvent, NoTurn
<1>13. PICK lagged \in BOOLEAN : lagged = (before.lagged \/ i # before.next)
  BY Zenon
<1>14. PICK foreign \in BOOLEAN : foreign = (before.foreign \/ LabelOf(event) # event.turn)
  BY Zenon
<1>10. PICK after : after = [at |-> "sending", next |-> i + 1, held |-> <<note>>, lagged |-> lagged, foreign |-> foreign]
  OBVIOUS
<1>11. /\ after \in Forwarder /\ after.at = "sending" /\ after.next = i + 1 /\ after.held = <<note>>
       /\ after.lagged = lagged /\ after.foreign = foreign
  BY <1>6, <1>9, <1>10, <1>13, <1>14 DEF Forwarder, Notes
<1>12. forwarder' = [forwarder EXCEPT ![c] = after] /\ active_turns' = ActiveAfter(event)
  <2>1. /\ forwarder' = [forwarder EXCEPT ![c] =
             [at |-> "sending", next |-> i + 1, held |-> <<note>>,
              lagged |-> before.lagged \/ i # before.next,
              foreign |-> before.foreign \/ LabelOf(event) # event.turn]]
        /\ active_turns' = ActiveAfter(event)
    BY <1>1, <1>4, <1>7, <1>8 DEF TrackTurn
  <2> QED
    BY <1>10, <1>13, <1>14, <2>1, Zenon
<1>15. /\ ~after.lagged <=> ~before.lagged /\ i = before.next
       /\ ~after.foreign <=> ~before.foreign /\ LabelOf(event) = event.turn
  BY <1>11, <1>13, <1>14, Zenon
<1> QED
  BY <1>1, <1>2, <1>6, <1>7, <1>9, <1>11, <1>12, <1>15

\* The event is handed to the writer, unless the connection is closed.
LEMMA ForwardDoes ==
    ASSUME IpcTypeOK, NEW c \in Clients, ForwardEvent(c)
    PROVE  \E after \in Forwarder :
             /\ after.at # "sending" /\ after.next = forwarder[c].next /\ after.held = <<>>
             /\ after.lagged = forwarder[c].lagged /\ after.foreign = forwarder[c].foreign
             /\ connection[c] = "open" => after.at = "receiving"
             /\ connection[c] = "closed" => after.at = "ended"
             /\ forwarder' = [forwarder EXCEPT ![c] = after]
             /\ notify' \in [Clients -> Seq(Note)]
             /\ \A d \in Clients : d # c => notify'[d] = notify[d]
             /\ notify'[c] = IF connection[c] = "closed" THEN notify[c] ELSE notify[c] \o forwarder[c].held
<1>1. PICK before \in Forwarder : before = forwarder[c]
  BY DEF IpcTypeOK
<1>2. PICK at \in {"receiving", "ended"} : at = IF connection[c] = "closed" THEN "ended" ELSE "receiving"
  OBVIOUS
<1>3. PICK after : after = [before EXCEPT !.held = <<>>, !.at = at]
  OBVIOUS
<1>4. /\ after \in Forwarder /\ after.at = at /\ after.next = before.next /\ after.held = <<>>
      /\ after.lagged = before.lagged /\ after.foreign = before.foreign
  <2>1. <<>> \in Notes
    BY DEF Notes
  <2> QED
    BY <1>1, <1>2, <1>3, <2>1 DEF Forwarder
<1>5. forwarder' = [forwarder EXCEPT ![c] = after]
  BY <1>1, <1>2, <1>3 DEF ForwardEvent
<1>6. notify \in [Clients -> Seq(Note)] /\ before.held \in Seq(Note)
  BY <1>1 DEF IpcTypeOK, Forwarder, Notes
<1>7. PICK q \in Seq(Note) : q = IF connection[c] = "closed" THEN notify[c] ELSE notify[c] \o before.held
  <2>1. notify[c] \in Seq(Note)
    BY <1>6
  <2>2. notify[c] \o before.held \in Seq(Note)
    BY <1>6, <2>1, SeqConcat
  <2> QED
    BY <2>1, <2>2
<1>8. notify' = [notify EXCEPT ![c] = q]
  BY <1>1, <1>7 DEF ForwardEvent
<1> QED
  BY <1>1, <1>2, <1>4, <1>5, <1>6, <1>7, <1>8

TurnsType == [queued : Seq(Nat), running : Nat, paused : BOOLEAN, next : Nat]

\* A served request leaves its answer on the wire; a message takes the next turn.
LEMMA ServeDoes ==
    ASSUME IpcTypeOK, NEW c \in Clients, ServeRequest(c)
    PROVE  /\ connection[c] = "open" /\ requests[c] # <<>>
           /\ requests' = [requests EXCEPT ![c] = Tail(requests[c])]
           /\ Tail(requests[c]) \in Seq(RequestLines)
           /\ turns' \in TurnsType /\ turns'.running = turns.running
           /\ \E answer \in Answer :
                /\ answer.id = requests[c][1].id
                /\ wire' = [wire EXCEPT ![c] = Append(wire[c], answer)]
                /\ Append(wire[c], answer) \in Seq(Line)
                /\ \/ answer.turn = turns.next /\ turns'.next = turns.next + 1
                      /\ turns'.queued = Append(turns.queued, turns.next)
                   \/ answer.turn = 0 /\ turns'.next = turns.next /\ turns'.queued = turns.queued
                   \/ answer.turn = 0 /\ turns'.next = turns.next + 1
                      /\ turns'.queued = Append(turns.queued, turns.next)
<1>1. /\ connection[c] = "open" /\ requests[c] # <<>> /\ requests[c] \in Seq(RequestLines)
      /\ requests' = [requests EXCEPT ![c] = Tail(requests[c])]
      /\ turns \in TurnsType /\ wire[c] \in Seq(Line)
  BY DEF ServeRequest, IpcTypeOK, TurnsType
<1>2. /\ Head(requests[c]) \in RequestLines /\ Head(requests[c]) = requests[c][1]
      /\ Tail(requests[c]) \in Seq(RequestLines)
  BY <1>1, SeqHead
<1>3. PICK request \in RequestLines : request = Head(requests[c])
  BY <1>2
<1>4. Decision(request) \in Outcomes \cup {"call"} /\ request.method # "garbled"
  BY <1>3, DecisionType
<1>5. PICK outcome \in Outcomes, turn \in Nat :
         /\ wire' = [wire EXCEPT ![c] = Append(@, Response(request, outcome, turn))]
         /\ \/ Effect(request) /\ turn = IF request.method = "send_message" THEN turns.next ELSE 0
            \/ turns' = turns /\ turn = 0
  <2>1. turns.next \in Nat
    BY <1>1 DEF TurnsType
  <2>2. "result" \in Outcomes /\ "internal_error" \in Outcomes
    BY DEF Outcomes
  <2>3. CASE /\ Decision(request) = "call"
             /\ wire' = [wire EXCEPT ![c] = Append(@, Response(request, "result",
                           IF request.method = "send_message" THEN turns.next ELSE NoTurn))]
             /\ Effect(request)
    BY <2>1, <2>2, <2>3 DEF NoTurn
  <2>4. CASE /\ wire' = [wire EXCEPT ![c] = Append(@, Response(request, "internal_error", NoTurn))]
             /\ turns' = turns
    BY <2>2, <2>4 DEF NoTurn
  <2>5. CASE /\ Decision(request) # "call"
             /\ wire' = [wire EXCEPT ![c] = Append(@, Response(request, Decision(request), NoTurn))]
             /\ turns' = turns
    BY <1>4, <2>5 DEF NoTurn
  <2> QED
    BY <1>3, <2>3, <2>4, <2>5 DEF ServeRequest
<1>6. PICK answer : answer = Response(request, outcome, turn)
  OBVIOUS
<1>7. answer \in Answer /\ answer.id = request.id /\ answer.turn = turn
  BY <1>3, <1>4, <1>5, <1>6 DEF Response, Answer, RequestLines
<1>8. wire' = [wire EXCEPT ![c] = Append(wire[c], answer)] /\ Append(wire[c], answer) \in Seq(Line)
  <2>1. answer \in Line
    BY <1>7 DEF Line
  <2> QED
    BY <1>1, <1>5, <1>6, <2>1, SeqAppend
<1>9. turns' = turns \/ turns' = [turns EXCEPT !.paused = FALSE]
        \/ (turns' = [turns EXCEPT !.queued = Append(@, turns.next), !.next = @ + 1] /\ turn \in {0, turns.next})
  BY <1>5 DEF Effect
<1>10. ~(turns' = [turns EXCEPT !.queued = Append(@, turns.next), !.next = @ + 1]) => turn = 0
  BY <1>5 DEF Effect
<1>11. /\ turns' \in TurnsType /\ turns'.running = turns.running
       /\ \/ turn = turns.next /\ turns'.next = turns.next + 1 /\ turns'.queued = Append(turns.queued, turns.next)
          \/ turn = 0 /\ turns'.next = turns.next /\ turns'.queued = turns.queued
          \/ turn = 0 /\ turns'.next = turns.next + 1 /\ turns'.queued = Append(turns.queued, turns.next)
  <2>1. CASE turns' = [turns EXCEPT !.queued = Append(@, turns.next), !.next = @ + 1]
    <3>1. turns.next \in Nat /\ turns.queued \in Seq(Nat)
      BY <1>1 DEF TurnsType
    <3>2. PICK q \in Seq(Nat) : q = Append(turns.queued, turns.next)
      BY <3>1, SeqAppend
    <3>3. PICK n \in Nat : n = turns.next + 1
      BY <3>1
    <3>4. turns' = [turns EXCEPT !.queued = q, !.next = n]
      BY <2>1, <3>2, <3>3
    <3>5. turns' \in TurnsType /\ turns'.running = turns.running /\ turns'.next = n /\ turns'.queued = q
      BY <1>1, <3>4 DEF TurnsType
    <3>6. turn \in {0, turns.next}
      BY <1>5
    <3> QED
      BY <3>2, <3>3, <3>5, <3>6
  <2>2. CASE ~(turns' = [turns EXCEPT !.queued = Append(@, turns.next), !.next = @ + 1])
    <3>1. turns' = turns \/ turns' = [turns EXCEPT !.paused = FALSE]
      BY <1>9, <2>2
    <3> QED
      BY <1>1, <1>10, <2>2, <3>1 DEF TurnsType
  <2> QED
    BY <2>1, <2>2
<1> QED
  BY <1>1, <1>2, <1>3, <1>7, <1>8, <1>11

\* A notification goes to the client.
LEMMA WriteDoes ==
    ASSUME IpcTypeOK, NEW c \in Clients, WriteNotification(c)
    PROVE  /\ notify[c] # <<>> /\ notify[c] \in Seq(Note) /\ wire[c] \in Seq(Line)
           /\ notify' = [notify EXCEPT ![c] = Tail(notify[c])] /\ Tail(notify[c]) \in Seq(Note)
           /\ notify[c][1] \in Note /\ wire' = [wire EXCEPT ![c] = Append(wire[c], notify[c][1])]
           /\ Append(wire[c], notify[c][1]) \in Seq(Line)
<1>1. notify[c] # <<>> /\ notify[c] \in Seq(Note) /\ wire[c] \in Seq(Line)
  BY DEF WriteNotification, IpcTypeOK
<1>2. Head(notify[c]) \in Note /\ Head(notify[c]) = notify[c][1] /\ Tail(notify[c]) \in Seq(Note)
  BY <1>1, SeqHead
<1>3. Append(wire[c], Head(notify[c])) \in Seq(Line)
  <2>1. Head(notify[c]) \in Line
    BY <1>2 DEF Line
  <2> QED
    BY <1>1, <2>1, SeqAppend
<1> QED
  BY <1>1, <1>2, <1>3 DEF WriteNotification

\* What a client reads goes to one of its queues, or is dropped: a response without an id.
LEMMA ReadDoes ==
    ASSUME IpcTypeOK, NEW c \in Clients, ReadLine(c)
    PROVE  /\ wire[c] # <<>> /\ wire[c] \in Seq(Line) /\ Tail(wire[c]) \in Seq(Line)
           /\ wire' = [wire EXCEPT ![c] = Tail(wire[c])]
           /\ \E line \in Line :
                /\ line = wire[c][1]
                /\ \/ /\ client[c].library = "sdk" \/ (line.kind = "response" /\ line.id # 0)
                      /\ response_rx' = [response_rx EXCEPT ![c] = Append(response_rx[c], line)]
                      /\ Append(response_rx[c], line) \in Seq(Line)
                   \/ /\ client[c].library # "sdk" /\ ~(line.kind = "response" /\ line.id # 0)
                      /\ response_rx' = response_rx
                /\ \/ /\ client[c].library = "cli" /\ line \in Note
                      /\ notification_rx' = [notification_rx EXCEPT ![c] = Append(notification_rx[c], line)]
                      /\ Append(notification_rx[c], line) \in Seq(Note)
                   \/ /\ client[c].library # "cli" \/ line.kind = "response"
                      /\ notification_rx' = notification_rx
<1>1. /\ wire[c] # <<>> /\ wire[c] \in Seq(Line) /\ wire' = [wire EXCEPT ![c] = Tail(wire[c])]
      /\ response_rx[c] \in Seq(Line) /\ notification_rx[c] \in Seq(Note)
  BY DEF ReadLine, IpcTypeOK
<1>2. Head(wire[c]) \in Line /\ Head(wire[c]) = wire[c][1] /\ Tail(wire[c]) \in Seq(Line)
  BY <1>1, SeqHead
<1>3. PICK line \in Line : line = Head(wire[c])
  BY <1>2
<1>4. line.kind # "response" => line \in Note
  BY <1>3 DEF Line, Answer
<1>5. Append(response_rx[c], line) \in Seq(Line) /\ (line \in Note => Append(notification_rx[c], line) \in Seq(Note))
  BY <1>1, <1>3, SeqAppend
<1>6. /\ response_rx' = IF client[c].library = "sdk" \/ (line.kind = "response" /\ line.id # 0)
                        THEN [response_rx EXCEPT ![c] = Append(response_rx[c], line)] ELSE response_rx
      /\ notification_rx' = IF client[c].library = "cli" /\ line.kind # "response"
                            THEN [notification_rx EXCEPT ![c] = Append(notification_rx[c], line)] ELSE notification_rx
  BY <1>3 DEF ReadLine
<1> QED
  BY <1>1, <1>2, <1>3, <1>4, <1>5, <1>6

\* A call takes the next number and waits for it.
LEMMA CallDoes ==
    ASSUME IpcTypeOK, NEW c \in Clients, Call(c)
    PROVE  /\ connection[c] = "open" /\ client[c].program # <<>>
           /\ \E request \in RequestLines :
                /\ request.id = client[c].next_id /\ requests[c] \in Seq(RequestLines)
                /\ requests' = [requests EXCEPT ![c] = Append(requests[c], request)]
                /\ Append(requests[c], request) \in Seq(RequestLines)
           /\ \E after \in ClientState :
                /\ client' = [client EXCEPT ![c] = after]
                /\ after.next_id = client[c].next_id + 1 /\ after.waiting = client[c].next_id
                /\ after.turn = client[c].turn /\ after.program = client[c].program
                /\ after.end = client[c].end /\ after.library = client[c].library
<1>1. PICK before \in ClientState : before = client[c]
  BY DEF IpcTypeOK
<1>2. before.next_id \in Nat /\ before.program \in Seq(RequestLines) /\ before.program # <<>>
      /\ requests[c] \in Seq(RequestLines) /\ connection[c] = "open"
  BY <1>1 DEF ClientState, Lines, Call, Running, IpcTypeOK
<1>3. Head(before.program) \in RequestLines
  BY <1>2, SeqHead
<1>4. PICK line \in RequestLines : line = Head(before.program)
  BY <1>3
<1>5. PICK request : request = [line EXCEPT !.id = before.next_id]
  OBVIOUS
<1>6. request \in RequestLines /\ request.id = before.next_id
  BY <1>2, <1>4, <1>5 DEF RequestLines
<1>7. requests' = [requests EXCEPT ![c] = Append(requests[c], request)]
  BY <1>1, <1>4, <1>5 DEF Call
<1>8. PICK n \in Nat : n = before.next_id + 1
  BY <1>2
<1>9. PICK after : after = [before EXCEPT !.next_id = n, !.waiting = before.next_id]
  OBVIOUS
<1>10. /\ after \in ClientState /\ after.next_id = n /\ after.waiting = before.next_id /\ after.turn = before.turn
       /\ after.program = before.program /\ after.end = before.end /\ after.library = before.library
  BY <1>1, <1>2, <1>9 DEF ClientState
<1>11. client' = [client EXCEPT ![c] = after]
  BY <1>1, <1>8, <1>9 DEF Call
<1>12. Append(requests[c], request) \in Seq(RequestLines)
  BY <1>2, <1>6, SeqAppend
<1> QED
  BY <1>1, <1>2, <1>6, <1>7, <1>8, <1>10, <1>11, <1>12

\* A response that is taken ends the call; what it says of a turn is noted, if it is accepted.
LEMMA TakeDoes ==
    ASSUME IpcTypeOK, NEW c \in Clients, TakeResponse(c), client[c].program # <<>>
    PROVE  /\ connection[c] = "open" /\ client[c].waiting # 0
           /\ response_rx[c] # <<>> /\ response_rx[c] \in Seq(Line) /\ Tail(response_rx[c]) \in Seq(Line)
           /\ response_rx' = [response_rx EXCEPT ![c] = Tail(response_rx[c])]
           /\ response_rx[c][1] \in Line
           /\ \E after \in ClientState :
                /\ client' = [client EXCEPT ![c] = after]
                /\ after.next_id = client[c].next_id /\ after.waiting = 0 /\ after.library = client[c].library
                /\ after.program = Tail(client[c].program)
                /\ after.end = "running" => client[c].end = "running"
                /\ \/ after.turn = client[c].turn
                   \/ after.turn = response_rx[c][1].turn /\ response_rx[c][1].kind = "response"
<1>1. PICK before \in ClientState : before = client[c]
  BY DEF IpcTypeOK
<1>2. /\ response_rx[c] # <<>> /\ response_rx[c] \in Seq(Line)
      /\ response_rx' = [response_rx EXCEPT ![c] = Tail(response_rx[c])]
      /\ before.end = "running" /\ connection[c] = "open" /\ before.waiting # 0
  BY <1>1 DEF TakeResponse, Running, IpcTypeOK
<1>3. Head(response_rx[c]) \in Line /\ Head(response_rx[c]) = response_rx[c][1] /\ Tail(response_rx[c]) \in Seq(Line)
  BY <1>2, SeqHead
<1>4. PICK line \in Line : line = Head(response_rx[c])
  BY <1>3
<1>5. PICK accepted \in BOOLEAN : accepted = Accepted(c, line)
  BY Zenon DEF Accepted
<1>6. PICK turn \in Nat : turn = IF accepted THEN line.turn ELSE before.turn
  BY <1>1, <1>4 DEF Line, Note, Answer, ClientState
<1>7. PICK end \in {"running", "failed"} : end = IF accepted THEN "running" ELSE Failed(c)
  BY DEF Failed
<1>8. PICK own \in BOOLEAN : own = (before.own /\ (Accepted(c, line) => line.id = before.waiting))
  OBVIOUS
<1>9. before.program # <<>> => Tail(before.program) \in Lines
  BY <1>1, SeqHead DEF ClientState, Lines
<1>10. PICK program : program = Tail(before.program)
  OBVIOUS
<1>11. PICK after : after = [before EXCEPT !.waiting = 0, !.program = program, !.turn = turn, !.own = own, !.end = end]
  OBVIOUS
<1>12. client' = [client EXCEPT ![c] = after]
  <2>1. client' = [client EXCEPT ![c] =
            [before EXCEPT !.waiting = 0, !.program = Tail(before.program),
                      !.turn = IF Accepted(c, line) THEN line.turn ELSE before.turn,
                      !.own = before.own /\ (Accepted(c, line) => line.id = before.waiting),
                      !.end = IF Accepted(c, line) THEN before.end ELSE Failed(c)]]
    BY <1>1, <1>4 DEF TakeResponse, ClientState
  <2>2. turn = IF Accepted(c, line) THEN line.turn ELSE before.turn
    BY <1>5, <1>6
  <2>3. end = IF Accepted(c, line) THEN before.end ELSE Failed(c)
    BY <1>2, <1>5, <1>7
  <2>4. PICK mine : mine = (before.own /\ (Accepted(c, line) => line.id = before.waiting))
    OBVIOUS
  <2>5. mine = own
    BY <1>8, <2>4, Zenon
  <2>6. client' = [client EXCEPT ![c] = [before EXCEPT !.waiting = 0, !.program = program, !.turn = turn,
                      !.own = (before.own /\ (Accepted(c, line) => line.id = before.waiting)), !.end = end]]
    BY <1>10, <2>1, <2>2, <2>3, Zenon
  <2>7. client' = [client EXCEPT ![c] = [before EXCEPT !.waiting = 0, !.program = program, !.turn = turn,
                      !.own = own, !.end = end]]
    BY <2>4, <2>5, <2>6, Zenon
  <2> QED
    BY <1>11, <2>7
<1>13. before.program # <<>>
  BY <1>1
<1>14. after \in ClientState
  BY <1>1, <1>9, <1>10, <1>11, <1>13 DEF ClientState
<1>15. /\ after.next_id = before.next_id /\ after.waiting = 0 /\ after.library = before.library
       /\ after.program = Tail(before.program)
       /\ after.turn = turn /\ after.end = end
  BY <1>1, <1>10, <1>11 DEF ClientState
<1>16. turn = before.turn \/ (turn = line.turn /\ line.kind = "response")
  BY <1>5, <1>6 DEF Accepted
<1> QED
  BY <1>1, <1>2, <1>3, <1>4, <1>12, <1>14, <1>15, <1>16

\* A call that gives up goes on to the next request, or ends the command.
LEMMA TimeoutDoes ==
    ASSUME IpcTypeOK, NEW c \in Clients, CallTimesOut(c), client[c].program # <<>>
    PROVE  /\ connection[c] = "open" /\ client[c].waiting # 0
           /\ \E after \in ClientState :
                /\ client' = [client EXCEPT ![c] = after]
                /\ after.next_id = client[c].next_id /\ after.waiting = 0 /\ after.library = client[c].library
                /\ after.program = Tail(client[c].program) /\ after.turn = client[c].turn
                /\ after.end = "running" => client[c].end = "running"
<1>1. PICK before \in ClientState : before = client[c]
  BY DEF IpcTypeOK
<1>2. before.end = "running" /\ connection[c] = "open" /\ before.waiting # 0
  BY <1>1 DEF CallTimesOut, Running
<1>3. PICK end \in {"running", "failed"} : end = Failed(c)
  BY DEF Failed
<1>4. Tail(before.program) \in Lines
  BY <1>1, SeqHead DEF ClientState, Lines
<1>5. PICK program \in Lines : program = Tail(before.program)
  BY <1>4
<1>6. PICK after : after = [before EXCEPT !.waiting = 0, !.program = program, !.end = end]
  OBVIOUS
<1>7. client' = [client EXCEPT ![c] = after]
  BY <1>1, <1>3, <1>5, <1>6 DEF CallTimesOut, ClientState
<1>8. /\ after \in ClientState /\ after.next_id = before.next_id /\ after.waiting = 0 /\ after.library = before.library
      /\ after.program = program /\ after.turn = before.turn /\ after.end = end
  BY <1>1, <1>6 DEF ClientState
<1> QED
  BY <1>1, <1>2, <1>5, <1>7, <1>8

\* A client that goes on collecting has not read the end of its turn.
LEMMA CollectDoes ==
    ASSUME IpcTypeOK, NEW c \in Clients, CollectNotification(c)
    PROVE  /\ connection[c] = "open" /\ client[c].program = <<>> /\ client[c].turn # 0
           /\ notification_rx[c] # <<>> /\ notification_rx[c] \in Seq(Note) /\ Tail(notification_rx[c]) \in Seq(Note)
           /\ notification_rx' = [notification_rx EXCEPT ![c] = Tail(notification_rx[c])]
           /\ \E after \in ClientState :
                /\ client' = [client EXCEPT ![c] = after]
                /\ after.next_id = client[c].next_id /\ after.waiting = client[c].waiting
                /\ after.library = client[c].library
                /\ after.program = client[c].program /\ after.turn = client[c].turn
                /\ after.end = "running" =>
                     /\ client[c].end = "running"
                     /\ ~(notification_rx[c][1].turn = client[c].turn /\ notification_rx[c][1].kind = "turn_complete")
<1>1. PICK before \in ClientState : before = client[c]
  BY DEF IpcTypeOK
<1>2. /\ connection[c] = "open" /\ before.end = "running" /\ before.program = <<>> /\ before.turn # 0
      /\ notification_rx[c] # <<>> /\ notification_rx[c] \in Seq(Note)
      /\ notification_rx' = [notification_rx EXCEPT ![c] = Tail(notification_rx[c])]
  BY <1>1 DEF CollectNotification, Running, IpcTypeOK, NoTurn
<1>3. Head(notification_rx[c]) = notification_rx[c][1] /\ Tail(notification_rx[c]) \in Seq(Note)
  BY <1>2, SeqHead
<1>4. PICK line : line = Head(notification_rx[c])
  OBVIOUS
<1>5. PICK end : end = IF MatchesTurn(c, line) /\ line.kind = "turn_complete" THEN "collected"
                       ELSE IF MatchesTurn(c, line) /\ line.kind = "interaction_needed" THEN "asked"
                       ELSE before.end
  OBVIOUS
<1>6. end \in {"running", "collected", "asked"}
      /\ (end = "running" => ~(line.turn = before.turn /\ line.kind = "turn_complete"))
  BY <1>1, <1>2, <1>5 DEF MatchesTurn
<1>7. PICK after : after = [before EXCEPT !.end = end]
  OBVIOUS
<1>8. client' = [client EXCEPT ![c] = after]
  BY <1>1, <1>4, <1>5, <1>7 DEF CollectNotification
<1>9. /\ after \in ClientState /\ after.next_id = before.next_id /\ after.waiting = before.waiting
      /\ after.library = before.library /\ after.program = before.program /\ after.turn = before.turn
      /\ after.end = end
  BY <1>1, <1>6, <1>7 DEF ClientState
<1> QED
  BY <1>1, <1>2, <1>3, <1>4, <1>6, <1>8, <1>9

(* A call waits only while its request heads the program. *)
WaitsInProgram == \A c \in Clients : client[c].waiting # 0 => client[c].program # <<>>

(* The numbers on a client's lines: those it will receive first are the     *)
(* lowest, and there are all of them up to the last it gave.                *)
Consecutive(r, w, q, next, waiting) ==
    /\ r \cup w \cup q \subseteq Nat \ {0} /\ next \in Nat \ {0} /\ waiting \in Nat
    /\ AllBelow(r, w \cup q) /\ AllBelow(w, q)
    /\ \A id \in r \cup w \cup q : id < next /\ id..(next - 1) \subseteq r \cup w \cup q
    /\ waiting # 0 => waiting = next - 1 /\ waiting \in r \cup w \cup q

Numbering(c) ==
    /\ Rising(response_rx[c]) /\ Rising(wire[c]) /\ Rising(requests[c])
    /\ \A i \in DOMAIN requests[c] : requests[c][i].id # 0
    /\ Consecutive(Ids(response_rx[c]), Ids(wire[c]), Ids(requests[c]), client[c].next_id, client[c].waiting)

\* A number moves along the queues; the next one joins the last; the first one leaves.
LEMMA FirstMoves ==
    ASSUME NEW r, NEW w, NEW q, NEW next, NEW waiting, NEW id, Consecutive(r, w, q \cup {id}, next, waiting),
           \A n \in q : id < n
    PROVE  Consecutive(r, w \cup {id}, q, next, waiting) /\ \A n \in w : n < id
BY DEF Consecutive, AllBelow

LEMMA LineMoves ==
    ASSUME NEW r, NEW w, NEW q, NEW next, NEW waiting, NEW id, Consecutive(r, w \cup {id}, q, next, waiting),
           \A n \in w : id < n
    PROVE  Consecutive(r \cup {id}, w, q, next, waiting) /\ \A n \in r : n < id
BY DEF Consecutive, AllBelow

LEMMA NextJoins ==
    ASSUME NEW r, NEW w, NEW q, NEW next, NEW waiting, Consecutive(r, w, q, next, waiting)
    PROVE  Consecutive(r, w, q \cup {next}, next + 1, next) /\ \A n \in q : n < next
<1>1. r \cup w \cup q \subseteq Nat \ {0} /\ next \in Nat \ {0} /\ next + 1 \in Nat \ {0} /\ (next + 1) - 1 = next
  BY DEF Consecutive
<1>2. \A id \in r \cup w \cup q : id < next /\ id < next + 1
  BY <1>1 DEF Consecutive
<1>3. AllBelow(r, w \cup (q \cup {next})) /\ AllBelow(w, q \cup {next})
  BY <1>1, <1>2 DEF Consecutive, AllBelow
<1>4. ASSUME NEW id \in r \cup w \cup (q \cup {next}), NEW n \in id..next
      PROVE  n \in r \cup w \cup (q \cup {next})
  <2>1. CASE n = next
    BY <2>1
  <2>2. CASE n # next
    <3>1. id # next /\ n \in id..(next - 1)
      BY <1>1, <2>2
    <3> QED
      BY <3>1 DEF Consecutive
  <2> QED
    BY <2>1, <2>2
<1> QED
  BY <1>1, <1>2, <1>3, <1>4 DEF Consecutive

LEMMA FirstLeaves ==
    ASSUME NEW r, NEW w, NEW q, NEW next, NEW waiting, NEW id, Consecutive(r \cup {id}, w, q, next, waiting),
           \A n \in r : id < n
    PROVE  Consecutive(r, w, q, next, 0)
<1>1. /\ r \cup w \cup q \subseteq Nat \ {0} /\ next \in Nat \ {0} /\ id \in Nat \ {0}
      /\ AllBelow(r, w \cup q) /\ AllBelow(w, q)
      /\ \A n \in r \cup w \cup q : n < next
  BY DEF Consecutive, AllBelow
<1>2. \A n \in r \cup w \cup q : id < n
  BY DEF Consecutive, AllBelow
<1>3. ASSUME NEW n \in r \cup w \cup q, NEW m \in n..(next - 1)
      PROVE  m \in r \cup w \cup q
  <2>1. m \in r \cup {id} \cup w \cup q
    BY DEF Consecutive
  <2>2. m # id
    BY <1>1, <1>2
  <2> QED
    BY <2>1, <2>2
<1> QED
  BY <1>1, <1>3 DEF Consecutive

LEMMA StopsWaiting ==
    ASSUME NEW r, NEW w, NEW q, NEW next, NEW waiting, Consecutive(r, w, q, next, waiting)
    PROVE  Consecutive(r, w, q, next, 0)
BY DEF Consecutive

(* Queues of lines with numbers. *)
HasIds(lines) == lines \in Seq(Line) \/ lines \in Seq(RequestLines)

\* The numbers of a queue that gains a line at its end, or loses its first.
LEMMA IdsAreNumbers ==
    ASSUME NEW q, HasIds(q)
    PROVE  Ids(q) \subseteq Nat \ {0} /\ \A i \in DOMAIN q : q[i].id \in Nat
<1>1. \A i \in DOMAIN q : q[i].id \in Nat
  <2>1. CASE q \in Seq(Line)
    BY <2>1, SeqElement DEF Line, Note, Answer
  <2>2. CASE q \in Seq(RequestLines)
    <3>1. \A line \in RequestLines : line.id \in Nat
      BY DEF RequestLines
    <3> QED
      BY <2>2, <3>1, SeqElement
  <2> QED
    BY <2>1, <2>2 DEF HasIds
<1> QED
  BY <1>1 DEF Ids

Appended(q, e, r) == r = Append(q, e) /\ HasIds(q) /\ e.id \in Nat
Shortened(q, r) == r = Tail(q) /\ HasIds(q) /\ q # <<>>

LEMMA AppendIds ==
    ASSUME NEW q, NEW e, NEW r, Appended(q, e, r)
    PROVE  /\ Ids(r) = Ids(q) \cup ({e.id} \ {0})
           /\ Rising(q) /\ (e.id # 0 => \A id \in Ids(q) : id < e.id) => Rising(r)
<1>1. r = Append(q, e) /\ e.id \in Nat /\ HasIds(q) /\ \E S : q \in Seq(S)
  BY DEF HasIds, Appended
<1>2. /\ DOMAIN r = 1..(Len(q) + 1) /\ DOMAIN q = 1..Len(q) /\ Len(q) \in Nat
      /\ r[Len(q) + 1] = e /\ \A i \in 1..Len(q) : r[i] = q[i]
  BY <1>1
<1>3. Ids(r) = Ids(q) \cup ({e.id} \ {0})
  BY <1>2 DEF Ids
<1>4. ASSUME Rising(q), e.id # 0 => \A id \in Ids(q) : id < e.id PROVE Rising(r)
  <2> SUFFICES ASSUME NEW i \in DOMAIN r, NEW j \in DOMAIN r, i < j, r[i].id # 0, r[j].id # 0
               PROVE  r[i].id < r[j].id
    BY DEF Rising
  <2>1. i \in DOMAIN q
    BY <1>2
  <2>2. CASE j \in DOMAIN q
    BY <1>2, <1>4, <2>1, <2>2 DEF Rising
  <2>3. CASE j = Len(q) + 1
    BY <1>2, <1>4, <2>1, <2>3 DEF Ids
  <2> QED
    BY <1>2, <2>2, <2>3
<1> QED
  BY <1>3, <1>4

LEMMA TailIds ==
    ASSUME NEW q, NEW r, Shortened(q, r)
    PROVE  /\ Ids(q) = Ids(r) \cup ({q[1].id} \ {0})
           /\ Rising(q) => Rising(r) /\ (q[1].id # 0 => \A id \in Ids(r) : q[1].id < id)
<1>1. r = Tail(q) /\ q # <<>> /\ HasIds(q) /\ \E S : q \in Seq(S)
  BY DEF HasIds, Shortened
<1>2. /\ DOMAIN r = 1..(Len(q) - 1) /\ DOMAIN q = 1..Len(q) /\ Len(q) \in Nat \ {0}
      /\ \A i \in 1..(Len(q) - 1) : r[i] = q[i + 1]
  BY <1>1
<1>3. Ids(r) \subseteq Ids(q) /\ {q[1].id} \ {0} \subseteq Ids(q)
  BY <1>2 DEF Ids
<1>4. Ids(q) \subseteq Ids(r) \cup ({q[1].id} \ {0})
  <2> SUFFICES ASSUME NEW i \in DOMAIN q, q[i].id # 0, i # 1 PROVE q[i].id \in Ids(r)
    BY DEF Ids
  <2>1. i - 1 \in DOMAIN r /\ r[i - 1] = q[i]
    BY <1>2
  <2> QED
    BY <2>1 DEF Ids
<1>5. ASSUME Rising(q) PROVE Rising(r) /\ (q[1].id # 0 => \A id \in Ids(r) : q[1].id < id)
  <2>1. \A i \in DOMAIN r : i + 1 \in DOMAIN q /\ 1 \in DOMAIN q /\ 1 < i + 1 /\ r[i] = q[i + 1]
    BY <1>2
  <2>2. \A i, j \in DOMAIN r : i < j => i + 1 < j + 1
    BY <1>2
  <2>3. Rising(r)
    BY <1>5, <2>1, <2>2 DEF Rising
  <2>4. q[1].id # 0 => \A id \in Ids(r) : q[1].id < id
    BY <1>5, <2>1 DEF Rising, Ids
  <2> QED
    BY <2>3, <2>4
<1> QED
  BY <1>3, <1>4, <1>5

\* Steps that move no line, and each step that moves one.
LEMMA NumberingStays ==
    ASSUME NEW c \in Clients, Numbering(c),
           response_rx'[c] = response_rx[c], wire'[c] = wire[c], requests'[c] = requests[c],
           client'[c].next_id = client[c].next_id, client'[c].waiting \in {client[c].waiting, 0}
    PROVE  Numbering(c)'
BY StopsWaiting DEF Numbering

LEMMA ServeNumbers ==
    ASSUME IpcTypeOK, NEW c \in Clients, Numbering(c), ServeRequest(c)
    PROVE  Numbering(c)'
<1>1. PICK answer \in Answer :
        /\ answer.id = requests[c][1].id /\ wire' = [wire EXCEPT ![c] = Append(wire[c], answer)]
  BY ServeDoes
<1>2. /\ requests[c] # <<>> /\ requests' = [requests EXCEPT ![c] = Tail(requests[c])]
      /\ response_rx' = response_rx /\ client' = client
      /\ requests[c] \in Seq(RequestLines) /\ wire[c] \in Seq(Line)
      /\ requests \in [Clients -> Seq(RequestLines)] /\ wire \in [Clients -> Seq(Line)]
  BY DEF ServeRequest, clientVars, IpcTypeOK
<1>3. wire'[c] = Append(wire[c], answer) /\ requests'[c] = Tail(requests[c])
  BY <1>1, <1>2
<1>4. PICK id : id = requests[c][1].id
  OBVIOUS
<1>5. 1 \in DOMAIN requests[c]
  BY <1>2, SeqHead
<1>6. id # 0 /\ answer.id = id /\ id \in Nat
  BY <1>1, <1>4, <1>5 DEF Numbering, Answer
<1>7. HasIds(requests[c]) /\ HasIds(wire[c])
  BY <1>2 DEF HasIds
<1>8. /\ Ids(requests[c]) = Ids(requests'[c]) \cup {id} /\ Rising(requests'[c])
      /\ \A n \in Ids(requests'[c]) : id < n
  <2>1. Shortened(requests[c], requests'[c])
    BY <1>2, <1>3, <1>7 DEF Shortened
  <2> QED
    BY <1>4, <1>6, <2>1, TailIds DEF Numbering
<1>9. /\ Consecutive(Ids(response_rx[c]), Ids(wire[c]) \cup {id}, Ids(requests'[c]), client[c].next_id, client[c].waiting)
      /\ \A n \in Ids(wire[c]) : n < id
  <2>1. Consecutive(Ids(response_rx[c]), Ids(wire[c]), Ids(requests'[c]) \cup {id}, client[c].next_id, client[c].waiting)
    BY <1>8 DEF Numbering
  <2> QED
    BY <1>8, <2>1, FirstMoves
<1>10. Ids(wire'[c]) = Ids(wire[c]) \cup {id} /\ Rising(wire'[c])
  <2>1. Appended(wire[c], answer, wire'[c])
    BY <1>3, <1>6, <1>7 DEF Appended
  <2> QED
    BY <1>6, <1>9, <2>1, AppendIds DEF Numbering
<1>11. \A i \in DOMAIN requests'[c] : requests'[c][i].id # 0
  <2>1. \A i \in DOMAIN requests'[c] : i + 1 \in DOMAIN requests[c] /\ requests'[c][i] = requests[c][i + 1]
    BY <1>2, <1>3
  <2> QED
    BY <2>1 DEF Numbering
<1> QED
  BY <1>2, <1>8, <1>9, <1>10, <1>11 DEF Numbering

LEMMA WriteNumbers ==
    ASSUME IpcTypeOK, NEW c \in Clients, Numbering(c), WriteNotification(c)
    PROVE  Numbering(c)'
<1>1. PICK note \in Note : wire' = [wire EXCEPT ![c] = Append(wire[c], note)]
  BY WriteDoes
<1>2. /\ requests' = requests /\ response_rx' = response_rx /\ client' = client
      /\ wire[c] \in Seq(Line) /\ wire \in [Clients -> Seq(Line)]
  BY DEF WriteNotification, clientVars, IpcTypeOK
<1>3. wire'[c] = Append(wire[c], note) /\ HasIds(wire[c]) /\ note.id = 0
  BY <1>1, <1>2 DEF Note, HasIds
<1>4. Ids(wire'[c]) = Ids(wire[c]) /\ Rising(wire'[c])
  <2>1. Appended(wire[c], note, wire'[c])
    BY <1>3 DEF Appended
  <2>2. /\ Ids(wire'[c]) = Ids(wire[c]) \cup ({note.id} \ {0})
        /\ Rising(wire[c]) /\ (note.id # 0 => \A id \in Ids(wire[c]) : id < note.id) => Rising(wire'[c])
    BY <2>1, AppendIds
  <2> QED
    BY <1>3, <2>2 DEF Numbering
<1> QED
  BY <1>2, <1>4 DEF Numbering

LEMMA ReadNumbers ==
    ASSUME IpcTypeOK, NEW c \in Clients, Numbering(c), ReadLine(c)
    PROVE  Numbering(c)'
<1>1. PICK line \in Line :
        /\ line = wire[c][1]
        /\ \/ response_rx' = [response_rx EXCEPT ![c] = Append(response_rx[c], line)]
           \/ ~(line.kind = "response" /\ line.id # 0) /\ response_rx' = response_rx
  BY ReadDoes
<1>2. /\ wire[c] # <<>> /\ wire' = [wire EXCEPT ![c] = Tail(wire[c])]
      /\ requests' = requests /\ client' = client
      /\ wire[c] \in Seq(Line) /\ wire \in [Clients -> Seq(Line)]
      /\ response_rx[c] \in Seq(Line) /\ response_rx \in [Clients -> Seq(Line)]
  BY DEF ReadLine, IpcTypeOK
<1>3. wire'[c] = Tail(wire[c]) /\ HasIds(wire[c]) /\ HasIds(response_rx[c])
  BY <1>2 DEF HasIds
<1>4. PICK id : id = line.id
  OBVIOUS
<1>5. id \in Nat /\ (id # 0 => line.kind = "response")
  BY <1>1, <1>4 DEF Line, Note, Answer
<1>6. /\ Ids(wire[c]) = Ids(wire'[c]) \cup ({id} \ {0}) /\ Rising(wire'[c])
      /\ id # 0 => \A n \in Ids(wire'[c]) : id < n
  <2>1. Shortened(wire[c], wire'[c])
    BY <1>2, <1>3 DEF Shortened
  <2> QED
    BY <1>1, <1>4, <2>1, TailIds DEF Numbering
<1>7. CASE id = 0
  <2>1. Ids(wire[c]) = Ids(wire'[c])
    BY <1>6, <1>7
  <2>2. Ids(response_rx'[c]) = Ids(response_rx[c]) /\ Rising(response_rx'[c])
    <3>1. CASE response_rx' = [response_rx EXCEPT ![c] = Append(response_rx[c], line)]
      <4>1. response_rx'[c] = Append(response_rx[c], line) /\ line.id = 0
        BY <1>2, <1>4, <1>7, <3>1
      <4>2. Appended(response_rx[c], line, response_rx'[c])
        BY <1>3, <4>1 DEF Appended
      <4>3. /\ Ids(response_rx'[c]) = Ids(response_rx[c]) \cup ({line.id} \ {0})
            /\ Rising(response_rx[c]) /\ (line.id # 0 => \A n \in Ids(response_rx[c]) : n < line.id)
                 => Rising(response_rx'[c])
        BY <4>2, AppendIds
      <4> QED
        BY <4>1, <4>3 DEF Numbering
    <3>2. CASE response_rx' = response_rx
      BY <3>2 DEF Numbering
    <3> QED
      BY <1>1, <3>1, <3>2
  <2> QED
    BY <1>2, <1>6, <2>1, <2>2 DEF Numbering
<1>8. CASE id # 0
  <2>1. /\ Consecutive(Ids(response_rx[c]) \cup {id}, Ids(wire'[c]), Ids(requests[c]), client[c].next_id, client[c].waiting)
        /\ \A n \in Ids(response_rx[c]) : n < id
    <3>1. Consecutive(Ids(response_rx[c]), Ids(wire'[c]) \cup {id}, Ids(requests[c]), client[c].next_id, client[c].waiting)
      <4>1. Ids(wire[c]) = Ids(wire'[c]) \cup {id}
        BY <1>6, <1>8
      <4> QED
        BY <4>1 DEF Numbering
    <3>2. \A n \in Ids(wire'[c]) : id < n
      BY <1>6, <1>8
    <3> QED
      BY <3>1, <3>2, LineMoves
  <2>2. response_rx'[c] = Append(response_rx[c], line)
    BY <1>1, <1>2, <1>4, <1>5, <1>8
  <2>3. Ids(response_rx'[c]) = Ids(response_rx[c]) \cup {id} /\ Rising(response_rx'[c])
    <3>1. Appended(response_rx[c], line, response_rx'[c])
      BY <1>3, <1>4, <1>5, <2>2 DEF Appended
    <3> QED
      BY <1>4, <1>8, <2>1, <3>1, AppendIds DEF Numbering
  <2> QED
    BY <1>2, <1>6, <2>1, <2>3 DEF Numbering
<1> QED
  BY <1>7, <1>8

LEMMA CallNumbers ==
    ASSUME IpcTypeOK, NEW c \in Clients, Numbering(c), Call(c)
    PROVE  Numbering(c)'
<1>1. PICK request \in RequestLines :
        request.id = client[c].next_id /\ requests' = [requests EXCEPT ![c] = Append(requests[c], request)]
  BY CallDoes
<1>2. PICK after \in ClientState :
        /\ client' = [client EXCEPT ![c] = after]
        /\ after.next_id = client[c].next_id + 1 /\ after.waiting = client[c].next_id
  BY CallDoes
<1>3. /\ response_rx' = response_rx /\ wire' = wire /\ client \in [Clients -> ClientState]
      /\ requests[c] \in Seq(RequestLines) /\ requests \in [Clients -> Seq(RequestLines)]
  BY DEF Call, serverVars, IpcTypeOK
<1>4. requests'[c] = Append(requests[c], request) /\ client'[c] = after /\ HasIds(requests[c])
  BY <1>1, <1>2, <1>3 DEF HasIds
<1>5. PICK next : next = client[c].next_id
  OBVIOUS
<1>6. next \in Nat \ {0}
  BY <1>5 DEF Numbering, Consecutive
<1>7. /\ Consecutive(Ids(response_rx[c]), Ids(wire[c]), Ids(requests[c]) \cup {next}, next + 1, next)
      /\ \A n \in Ids(requests[c]) : n < next
  BY <1>5, NextJoins DEF Numbering
<1>8. Ids(requests'[c]) = Ids(requests[c]) \cup {next} /\ Rising(requests'[c])
  <2>1. Appended(requests[c], request, requests'[c])
    BY <1>1, <1>4, <1>5, <1>6 DEF Appended
  <2> QED
    BY <1>1, <1>5, <1>6, <1>7, <2>1, AppendIds DEF Numbering
<1>9. \A i \in DOMAIN requests'[c] : requests'[c][i].id # 0
  <2>1. \A i \in DOMAIN requests'[c] : (i \in DOMAIN requests[c] /\ requests'[c][i] = requests[c][i])
                                         \/ requests'[c][i] = request
    BY <1>3, <1>4
  <2> QED
    BY <1>1, <1>5, <1>6, <2>1 DEF Numbering
<1> QED
  BY <1>2, <1>3, <1>4, <1>5, <1>7, <1>8, <1>9 DEF Numbering

LEMMA TakeNumbers ==
    ASSUME IpcTypeOK, NEW c \in Clients, Numbering(c), client[c].program # <<>>, TakeResponse(c)
    PROVE  Numbering(c)'
<1>1. PICK after \in ClientState :
        client' = [client EXCEPT ![c] = after] /\ after.next_id = client[c].next_id /\ after.waiting = 0
  BY TakeDoes
<1>2. /\ response_rx[c] # <<>> /\ response_rx' = [response_rx EXCEPT ![c] = Tail(response_rx[c])]
      /\ wire' = wire /\ requests' = requests /\ client \in [Clients -> ClientState]
      /\ response_rx[c] \in Seq(Line) /\ response_rx \in [Clients -> Seq(Line)]
  BY DEF TakeResponse, serverVars, IpcTypeOK
<1>3. response_rx'[c] = Tail(response_rx[c]) /\ client'[c] = after /\ HasIds(response_rx[c])
  BY <1>1, <1>2 DEF HasIds
<1>4. PICK id : id = response_rx[c][1].id
  OBVIOUS
<1>5. /\ Ids(response_rx[c]) = Ids(response_rx'[c]) \cup ({id} \ {0}) /\ Rising(response_rx'[c])
      /\ id # 0 => \A n \in Ids(response_rx'[c]) : id < n
  <2>1. Shortened(response_rx[c], response_rx'[c])
    BY <1>2, <1>3 DEF Shortened
  <2> QED
    BY <1>4, <2>1, TailIds DEF Numbering
<1>6. Consecutive(Ids(response_rx'[c]), Ids(wire[c]), Ids(requests[c]), client[c].next_id, 0)
  <2>1. CASE id = 0
    <3>1. Ids(response_rx'[c]) = Ids(response_rx[c])
      BY <1>5, <2>1
    <3> QED
      BY <3>1, StopsWaiting DEF Numbering
  <2>2. CASE id # 0
    <3>1. Ids(response_rx[c]) = Ids(response_rx'[c]) \cup {id} /\ \A n \in Ids(response_rx'[c]) : id < n
      BY <1>5, <2>2
    <3>2. Consecutive(Ids(response_rx'[c]) \cup {id}, Ids(wire[c]), Ids(requests[c]), client[c].next_id, client[c].waiting)
      BY <3>1 DEF Numbering
    <3> QED
      BY <3>1, <3>2, FirstLeaves
  <2> QED
    BY <2>1, <2>2
<1> QED
  BY <1>1, <1>2, <1>3, <1>5, <1>6 DEF Numbering

\* Every step keeps the types, and what a client waits for in its program.
LEMMA TypeStep ==
    ASSUME IpcAssumption, IpcTypeOK, WaitsInProgram, \A c \in Clients : forwarder[c].next > 0, [IpcNext]_ipcVars
    PROVE  IpcTypeOK' /\ WaitsInProgram' /\ \A c \in Clients : forwarder'[c].next > 0
<1> DEFINE Goal == IpcTypeOK' /\ WaitsInProgram' /\ \A c \in Clients : forwarder'[c].next > 0
<1>1. CASE UNCHANGED ipcVars
  BY <1>1 DEF ipcVars, coreVars, serverVars, clientVars, IpcTypeOK, WaitsInProgram
<1>2. CASE TurnStarts \/ TurnGoesOn \/ TurnEnds
  <2>1. UNCHANGED <<client, forwarder>>
    BY <1>2 DEF TurnStarts, TurnGoesOn, TurnEnds, serverVars, clientVars
  <2> QED
    BY <1>2, <2>1, CoreTypeKept DEF WaitsInProgram
<1>3. ASSUME NEW c \in Clients, Accept(c) PROVE Goal
  <2>1. PICK after \in Forwarder : after.next = Len(sent) + 1 /\ forwarder' = [forwarder EXCEPT ![c] = after]
    BY <1>3, AcceptDoes
  <2>2. Len(sent) \in Nat
    BY DEF IpcTypeOK
  <2>3. connection' = [connection EXCEPT ![c] = "open"]
        /\ UNCHANGED <<coreVars, clientVars, requests, active_turns, notify, wire>>
    BY <1>3 DEF Accept
  <2> QED
    BY <2>1, <2>2, <2>3 DEF IpcTypeOK, WaitsInProgram, coreVars, clientVars
<1>4. ASSUME NEW c \in Clients, TrackTurn(c) PROVE Goal
  <2>1. \E i \in DOMAIN sent : \E after \in Forwarder :
          after.next = i + 1 /\ forwarder' = [forwarder EXCEPT ![c] = after] /\ active_turns' \in Nat
    BY <1>4, TrackDoes
  <2>2. PICK i \in DOMAIN sent, after \in Forwarder :
          after.next = i + 1 /\ forwarder' = [forwarder EXCEPT ![c] = after] /\ active_turns' \in Nat
    BY <2>1
  <2>3. i \in Nat
    BY DEF IpcTypeOK
  <2>4. UNCHANGED <<coreVars, clientVars, requests, connection, notify, wire>>
    BY <1>4 DEF TrackTurn
  <2> QED
    BY <2>2, <2>3, <2>4 DEF IpcTypeOK, WaitsInProgram, coreVars, clientVars
<1>5. ASSUME NEW c \in Clients, ForwardEvent(c) PROVE Goal
  <2>1. PICK after \in Forwarder : after.next = forwarder[c].next /\ forwarder' = [forwarder EXCEPT ![c] = after]
                                     /\ notify' \in [Clients -> Seq(Note)]
    BY <1>5, ForwardDoes
  <2>2. UNCHANGED <<coreVars, clientVars, requests, active_turns, connection, wire>>
    BY <1>5 DEF ForwardEvent
  <2> QED
    BY <2>1, <2>2 DEF IpcTypeOK, WaitsInProgram, coreVars, clientVars
<1>6. ASSUME NEW c \in Clients, ServeRequest(c) PROVE Goal
  <2>1. /\ requests' = [requests EXCEPT ![c] = Tail(requests[c])] /\ Tail(requests[c]) \in Seq(RequestLines)
        /\ turns' \in TurnsType
        /\ \E q \in Seq(Line) : wire' = [wire EXCEPT ![c] = q]
    BY <1>6, ServeDoes
  <2>2. UNCHANGED <<sent, clientVars, active_turns, connection, forwarder, notify>>
    BY <1>6 DEF ServeRequest
  <2> QED
    BY <2>1, <2>2 DEF IpcTypeOK, WaitsInProgram, TurnsType, clientVars
<1>7. ASSUME NEW c \in Clients, WriteNotification(c) PROVE Goal
  <2>1. \E q \in Seq(Line), r \in Seq(Note) : wire' = [wire EXCEPT ![c] = q] /\ notify' = [notify EXCEPT ![c] = r]
    BY <1>7, WriteDoes
  <2>2. UNCHANGED <<coreVars, clientVars, requests, active_turns, connection, forwarder>>
    BY <1>7 DEF WriteNotification
  <2> QED
    BY <2>1, <2>2 DEF IpcTypeOK, WaitsInProgram, coreVars, clientVars
<1>8. ASSUME NEW c \in Clients, ReadLine(c) PROVE Goal
  <2>1. /\ \E q \in Seq(Line) : wire' = [wire EXCEPT ![c] = q]
        /\ response_rx' = response_rx \/ \E q \in Seq(Line) : response_rx' = [response_rx EXCEPT ![c] = q]
        /\ notification_rx' = notification_rx \/ \E q \in Seq(Note) : notification_rx' = [notification_rx EXCEPT ![c] = q]
    BY <1>8, ReadDoes
  <2>2. UNCHANGED <<coreVars, active_turns, connection, forwarder, notify, requests, client, timeouts>>
    BY <1>8 DEF ReadLine
  <2>3. wire' \in [Clients -> Seq(Line)]
    BY <2>1 DEF IpcTypeOK
  <2>4. response_rx' \in [Clients -> Seq(Line)]
    BY <2>1 DEF IpcTypeOK
  <2>5. notification_rx' \in [Clients -> Seq(Note)]
    BY <2>1 DEF IpcTypeOK
  <2> QED
    BY <2>2, <2>3, <2>4, <2>5 DEF IpcTypeOK, WaitsInProgram, coreVars
<1>9. ASSUME NEW c \in Clients, Call(c) PROVE Goal
  <2>1. \E q \in Seq(RequestLines) : requests' = [requests EXCEPT ![c] = q]
    BY <1>9, CallDoes
  <2>2. PICK after \in ClientState : client' = [client EXCEPT ![c] = after] /\ after.program = client[c].program
    BY <1>9, CallDoes
  <2>3. UNCHANGED <<coreVars, serverVars, response_rx, notification_rx, timeouts>> /\ client[c].program # <<>>
    BY <1>9 DEF Call
  <2> QED
    BY <2>1, <2>2, <2>3 DEF IpcTypeOK, WaitsInProgram, coreVars, serverVars
<1>10. ASSUME NEW c \in Clients, TakeResponse(c) PROVE Goal
  <2>1. client[c].program # <<>>
    BY <1>10 DEF WaitsInProgram, TakeResponse
  <2>2. PICK after \in ClientState : client' = [client EXCEPT ![c] = after] /\ after.waiting = 0
    BY <1>10, <2>1, TakeDoes
  <2>3. \E q \in Seq(Line) : response_rx' = [response_rx EXCEPT ![c] = q]
    BY <1>10, <2>1, TakeDoes
  <2>4. UNCHANGED <<coreVars, serverVars, requests, notification_rx, timeouts>>
    BY <1>10 DEF TakeResponse
  <2> QED
    BY <2>2, <2>3, <2>4 DEF IpcTypeOK, WaitsInProgram, coreVars, serverVars
<1>11. ASSUME NEW c \in Clients, CallTimesOut(c) PROVE Goal
  <2>1. client[c].program # <<>>
    BY <1>11 DEF WaitsInProgram, CallTimesOut
  <2>2. PICK after \in ClientState : client' = [client EXCEPT ![c] = after] /\ after.waiting = 0
    BY <1>11, <2>1, TimeoutDoes
  <2>3. UNCHANGED <<coreVars, serverVars, requests, response_rx, notification_rx>>
    BY <1>11 DEF CallTimesOut
  <2> QED
    BY <2>2, <2>3 DEF IpcTypeOK, WaitsInProgram, coreVars, serverVars
<1>12. ASSUME NEW c \in Clients, CollectNotification(c) PROVE Goal
  <2>1. PICK after \in ClientState : /\ client' = [client EXCEPT ![c] = after]
                                     /\ after.waiting = client[c].waiting /\ after.program = client[c].program
    BY <1>12, CollectDoes
  <2>2. \E q \in Seq(Note) : notification_rx' = [notification_rx EXCEPT ![c] = q]
    BY <1>12, CollectDoes
  <2>3. UNCHANGED <<coreVars, serverVars, requests, response_rx, timeouts>>
    BY <1>12 DEF CollectNotification
  <2> QED
    BY <2>1, <2>2, <2>3 DEF IpcTypeOK, WaitsInProgram, coreVars, serverVars
<1>13. ASSUME NEW c \in Clients, Leave(c) PROVE Goal
  BY <1>13 DEF Leave, IpcTypeOK, WaitsInProgram, coreVars, clientVars
<1> HIDE DEF Goal
<1>14. Goal
  BY <1>1, <1>2, <1>3, <1>4, <1>5, <1>6, <1>7, <1>8, <1>9, <1>10, <1>11, <1>12, <1>13 DEF IpcNext, Goal
<1> QED
  BY <1>14 DEF Goal

(* A step of one client leaves the others as they are. *)
SideOf(d) == <<connection[d], forwarder[d], notify[d], requests[d], wire[d], response_rx[d], notification_rx[d], client[d]>>

StepOf(c) ==
    \/ Accept(c) \/ TrackTurn(c) \/ ForwardEvent(c)
    \/ ServeRequest(c) \/ WriteNotification(c)
    \/ ReadLine(c) \/ Call(c) \/ TakeResponse(c) \/ CallTimesOut(c)
    \/ CollectNotification(c) \/ Leave(c)

LEMMA OthersStay ==
    ASSUME IpcTypeOK, NEW c \in Clients, NEW d \in Clients, d # c, StepOf(c)
    PROVE  SideOf(d)' = SideOf(d)
<1>1. connection'[d] = connection[d]
  BY DEF StepOf, Accept, TrackTurn, ForwardEvent, ServeRequest, WriteNotification, ReadLine, Call, TakeResponse,
         CallTimesOut, CollectNotification, Leave, IpcTypeOK, serverVars
<1>2. forwarder'[d] = forwarder[d]
  BY DEF StepOf, Accept, TrackTurn, ForwardEvent, ServeRequest, WriteNotification, ReadLine, Call, TakeResponse,
         CallTimesOut, CollectNotification, Leave, IpcTypeOK, serverVars
<1>3. notify'[d] = notify[d]
  BY DEF StepOf, Accept, TrackTurn, ForwardEvent, ServeRequest, WriteNotification, ReadLine, Call, TakeResponse,
         CallTimesOut, CollectNotification, Leave, IpcTypeOK, serverVars
<1>4. requests'[d] = requests[d]
  BY DEF StepOf, Accept, TrackTurn, ForwardEvent, ServeRequest, WriteNotification, ReadLine, Call, TakeResponse,
         CallTimesOut, CollectNotification, Leave, IpcTypeOK
<1>5. wire'[d] = wire[d]
  BY DEF StepOf, Accept, TrackTurn, ForwardEvent, ServeRequest, WriteNotification, ReadLine, Call, TakeResponse,
         CallTimesOut, CollectNotification, Leave, IpcTypeOK, serverVars
<1>6. response_rx'[d] = response_rx[d]
  BY DEF StepOf, Accept, TrackTurn, ForwardEvent, ServeRequest, WriteNotification, ReadLine, Call, TakeResponse,
         CallTimesOut, CollectNotification, Leave, IpcTypeOK, clientVars
<1>7. notification_rx'[d] = notification_rx[d]
  BY DEF StepOf, Accept, TrackTurn, ForwardEvent, ServeRequest, WriteNotification, ReadLine, Call, TakeResponse,
         CallTimesOut, CollectNotification, Leave, IpcTypeOK, clientVars
<1>8. client'[d] = client[d]
  BY DEF StepOf, Accept, TrackTurn, ForwardEvent, ServeRequest, WriteNotification, ReadLine, Call, TakeResponse,
         CallTimesOut, CollectNotification, Leave, IpcTypeOK, clientVars
<1> QED
  BY <1>1, <1>2, <1>3, <1>4, <1>5, <1>6, <1>7, <1>8 DEF SideOf

\* Every step keeps the numbers of every client.
LEMMA NumberingStep ==
    ASSUME IpcTypeOK, WaitsInProgram, NEW d \in Clients, Numbering(d), [IpcNext]_ipcVars
    PROVE  Numbering(d)'
<1>1. CASE UNCHANGED ipcVars
  BY <1>1, NumberingStays DEF ipcVars, coreVars, serverVars, clientVars
<1>2. CASE TurnStarts \/ TurnGoesOn \/ TurnEnds
  BY <1>2, NumberingStays DEF TurnStarts, TurnGoesOn, TurnEnds, serverVars, clientVars
<1>3. ASSUME NEW c \in Clients, StepOf(c), c # d PROVE Numbering(d)'
  <2>1. SideOf(d)' = SideOf(d)
    BY <1>3, OthersStay
  <2> QED
    BY <2>1, NumberingStays DEF SideOf
<1>4. CASE Accept(d) \/ TrackTurn(d) \/ ForwardEvent(d) \/ Leave(d)
  BY <1>4, NumberingStays DEF Accept, TrackTurn, ForwardEvent, Leave, clientVars
<1>5. CASE ServeRequest(d)
  BY <1>5, ServeNumbers
<1>6. CASE WriteNotification(d)
  BY <1>6, WriteNumbers
<1>7. CASE ReadLine(d)
  BY <1>7, ReadNumbers
<1>8. CASE Call(d)
  BY <1>8, CallNumbers
<1>9. CASE TakeResponse(d)
  BY <1>9, TakeNumbers DEF WaitsInProgram, TakeResponse
<1>10. CASE CallTimesOut(d)
  <2>1. client[d].program # <<>> /\ client \in [Clients -> ClientState]
    BY <1>10 DEF WaitsInProgram, CallTimesOut, IpcTypeOK
  <2>2. client'[d].next_id = client[d].next_id /\ client'[d].waiting = 0
    BY <1>10, <2>1, TimeoutDoes
  <2> QED
    BY <1>10, <2>2, NumberingStays DEF CallTimesOut, serverVars
<1>11. CASE CollectNotification(d)
  <2>1. client \in [Clients -> ClientState]
    BY DEF IpcTypeOK
  <2>2. client'[d].next_id = client[d].next_id /\ client'[d].waiting = client[d].waiting
    BY <1>11, <2>1, CollectDoes
  <2> QED
    BY <1>11, <2>2, NumberingStays DEF CollectNotification, serverVars
<1> QED
  BY <1>1, <1>2, <1>3, <1>4, <1>5, <1>6, <1>7, <1>8, <1>9, <1>10, <1>11 DEF IpcNext, StepOf

NumberingInv ==
    /\ IpcTypeOK /\ WaitsInProgram
    /\ \A c \in Clients : forwarder[c].next > 0
    /\ \A c \in Clients : Numbering(c)

\* No line at the start.
LEMMA NumberingInit == ASSUME IpcAssumption, IpcInit PROVE NumberingInv
<1>1. IpcTypeOK
  BY IpcTypeInit
<1>2. \A c \in Clients : client[c].next_id = 1 /\ client[c].waiting = 0
  BY DEF IpcInit
<1>3. \A c \in Clients : forwarder[c].next > 0
  <2>1. forwarder = [c \in Clients |-> [at |-> "ended", next |-> 1, held |-> <<>>, lagged |-> FALSE, foreign |-> FALSE]]
    BY DEF IpcInit
  <2>2. PICK first : first = [at |-> "ended", next |-> 1, held |-> <<>>, lagged |-> FALSE, foreign |-> FALSE]
    OBVIOUS
  <2>3. first.next = 1
    BY <2>2
  <2>4. \A c \in Clients : forwarder[c] = first
    BY <2>1, <2>2
  <2>5. \A c \in Clients : forwarder[c].next = 1
    BY <2>3, <2>4, Zenon
  <2>6. 1 > 0
    OBVIOUS
  <2> QED
    BY <2>5, <2>6
<1>4. WaitsInProgram
  BY <1>2 DEF WaitsInProgram
<1>5. ASSUME NEW c \in Clients PROVE Numbering(c)
  <2>1. response_rx[c] = <<>> /\ wire[c] = <<>> /\ requests[c] = <<>>
    BY DEF IpcInit
  <2>2. Ids(<<>>) = {} /\ Rising(<<>>) /\ DOMAIN <<>> = {}
    BY DEF Ids, Rising
  <2>3. Consecutive({}, {}, {}, 1, 0)
    BY DEF Consecutive, AllBelow
  <2> QED
    BY <1>2, <2>1, <2>2, <2>3 DEF Numbering
<1> QED
  BY <1>1, <1>3, <1>4, <1>5 DEF NumberingInv

\* The numbers of a connection's lines stay in order and complete through
\* every step of the daemon and its clients (handle_connection, IpcClient).
THEOREM NumberingInductive == IpcSpec => []NumberingInv
<1>1. IpcInit => NumberingInv
  BY NumberingInit, IpcAssumption
<1>2. NumberingInv /\ [IpcNext]_ipcVars => NumberingInv'
  <2> SUFFICES ASSUME NumberingInv, [IpcNext]_ipcVars PROVE NumberingInv'
    OBVIOUS
  <2>1. IpcTypeOK' /\ WaitsInProgram' /\ \A c \in Clients : forwarder'[c].next > 0
    BY TypeStep, IpcAssumption DEF NumberingInv
  <2>2. \A c \in Clients : Numbering(c)'
    BY NumberingStep DEF NumberingInv
  <2> QED
    BY <2>1, <2>2 DEF NumberingInv
<1> QED
  BY <1>1, <1>2, PTL DEF IpcSpec

\* Each request of a connection is answered once and in order: no id is lost
\* or answered twice, and what a client waits for is on its way (server.rs
\* handle_connection against client.rs call_with_timeout).
THEOREM AnsweredInOrderCorrect == IpcSpec => []AnsweredInOrder
<1>1. NumberingInv => AnsweredInOrder
  BY DEF NumberingInv, Numbering, Consecutive, AnsweredInOrder, PendingIds, AllBelow
<1> QED
  BY <1>1, NumberingInductive, PTL

(* The events of a turn follow each other: only its start follows another   *)
(* turn, and nothing follows its end.                                       *)
Stream ==
    /\ \A i \in DOMAIN sent : sent[i].kind # "turn_started" =>
         i > 1 /\ sent[i - 1].turn = sent[i].turn /\ sent[i - 1].kind # "turn_complete"
    /\ turns.running # 0 =>
         Len(sent) > 0 /\ sent[Len(sent)].turn = turns.running /\ sent[Len(sent)].kind # "turn_complete"

(* The next turn is a new one. *)
Numbers ==
    /\ turns.next > 0 /\ turns.running < turns.next
    /\ \A i \in DOMAIN sent : sent[i].turn > 0 /\ sent[i].turn < turns.next
    /\ \A i \in DOMAIN turns.queued : turns.queued[i] > 0 /\ turns.queued[i] < turns.next

(* Before a client connects there are no turns. *)
NoTurnsYet == (\A d \in Clients : connection[d] = "none") => sent = <<>> /\ turns.queued = <<>> /\ turns.running = 0

Forwards(d) ==
    /\ connection[d] = "none" => forwarder[d].at = "ended"
    /\ forwarder[d].at # "sending" => forwarder[d].held = <<>>
    /\ forwarder[d].next > 0 /\ forwarder[d].next <= Len(sent) + 1

(* A client that is not connected has been told of no turn. *)
Untouched(c) == connection[c] = "none" => client[c].turn = 0 /\ wire[c] = <<>> /\ response_rx[c] = <<>>

(* The map names the turn of the last event a lone connection has seen. *)
Labelled(c) ==
    forwarder[c].next > 1 /\ sent[forwarder[c].next - 1].kind # "turn_complete"
        => active_turns = sent[forwarder[c].next - 1].turn

HasEnd(lines, turn) == \E i \in DOMAIN lines : lines[i].kind = "turn_complete" /\ lines[i].turn = turn
HasAnswer(lines, turn) == \E i \in DOMAIN lines : lines[i].kind = "response" /\ lines[i].turn = turn

Announced(c, turn) ==
    HasEnd(forwarder[c].held, turn) \/ HasEnd(notify[c], turn) \/ HasEnd(wire[c], turn) \/ HasEnd(notification_rx[c], turn)

(* The turns that a client knows for its own, or is about to. *)
Owns(c, turn) == turn = client[c].turn \/ HasAnswer(response_rx[c], turn) \/ HasAnswer(wire[c], turn)

(* The end of a client's turn that has been forwarded is under way; once it *)
(* has begun to collect, that of the turn it waits for.                     *)
Noted(c) ==
    \A i \in DOMAIN sent :
        /\ i < forwarder[c].next /\ sent[i].kind = "turn_complete"
        /\ client[c].program = <<>> => sent[i].turn = client[c].turn
        /\ Owns(c, sent[i].turn)
        => Announced(c, sent[i].turn)

Listens(c) == connection[c] = "open" /\ client[c].library = "cli" /\ client[c].end = "running"

(* Every event was forwarded, with its own turn. *)
Exact(c) == ~forwarder[c].lagged /\ ~forwarder[c].foreign

EndInv ==
    /\ Stream /\ Numbers /\ NoTurnsYet
    /\ \A d \in Clients : Forwards(d) /\ Untouched(d)
    /\ LabelsAreOwn
    /\ \A c \in Clients : TracksAlone(c) /\ connection[c] # "none" => Labelled(c)
    /\ \A c \in Clients : Exact(c) /\ Listens(c) => Noted(c)

\* The end of a turn in a queue that grows, that is joined to another, that loses its first.
LEMMA EndAppended ==
    ASSUME NEW S, NEW q \in Seq(S), NEW e, NEW turn
    PROVE  /\ HasEnd(q, turn) => HasEnd(Append(q, e), turn)
           /\ e.kind = "turn_complete" /\ e.turn = turn => HasEnd(Append(q, e), turn)
<1>1. /\ \A i \in DOMAIN q : i \in DOMAIN Append(q, e) /\ Append(q, e)[i] = q[i]
      /\ Len(q) + 1 \in DOMAIN Append(q, e) /\ Append(q, e)[Len(q) + 1] = e
  OBVIOUS
<1> QED
  BY <1>1 DEF HasEnd

LEMMA EndJoined ==
    ASSUME NEW S, NEW p \in Seq(S), NEW q \in Seq(S), NEW turn
    PROVE  HasEnd(p, turn) \/ HasEnd(q, turn) => HasEnd(p \o q, turn)
<1>1. /\ \A i \in DOMAIN p : i \in DOMAIN (p \o q) /\ (p \o q)[i] = p[i]
      /\ \A i \in DOMAIN q : Len(p) + i \in DOMAIN (p \o q) /\ (p \o q)[Len(p) + i] = q[i]
  OBVIOUS
<1> QED
  BY <1>1 DEF HasEnd

LEMMA EndInTail ==
    ASSUME NEW S, NEW q \in Seq(S), q # <<>>, NEW turn, HasEnd(q, turn)
    PROVE  (q[1].kind = "turn_complete" /\ q[1].turn = turn) \/ HasEnd(Tail(q), turn)
<1>1. \A i \in DOMAIN q : i = 1 \/ (i - 1 \in DOMAIN Tail(q) /\ Tail(q)[i - 1] = q[i])
  OBVIOUS
<1>2. PICK i \in DOMAIN q : q[i].kind = "turn_complete" /\ q[i].turn = turn
  BY DEF HasEnd
<1>3. CASE i = 1
  BY <1>2, <1>3
<1>4. CASE i # 1
  BY <1>1, <1>2, <1>4 DEF HasEnd
<1> QED
  BY <1>3, <1>4

\* The same of an answer, the other way round.
LEMMA AnswerAppended ==
    ASSUME NEW S, NEW q \in Seq(S), NEW e, NEW turn, HasAnswer(Append(q, e), turn)
    PROVE  HasAnswer(q, turn) \/ (e.kind = "response" /\ e.turn = turn)
<1>1. \A i \in DOMAIN Append(q, e) : (i \in DOMAIN q /\ Append(q, e)[i] = q[i]) \/ Append(q, e)[i] = e
  OBVIOUS
<1> QED
  BY <1>1 DEF HasAnswer

LEMMA AnswerInTail ==
    ASSUME NEW S, NEW q \in Seq(S), q # <<>>, NEW turn
    PROVE  /\ HasAnswer(Tail(q), turn) => HasAnswer(q, turn)
           /\ q[1].kind = "response" /\ q[1].turn = turn => HasAnswer(q, turn)
<1>1. /\ \A i \in DOMAIN Tail(q) : i + 1 \in DOMAIN q /\ Tail(q)[i] = q[i + 1]
      /\ 1 \in DOMAIN q
  OBVIOUS
<1> QED
  BY <1>1 DEF HasAnswer

\* What a forwarder skipped or labelled wrongly is not forgotten.
LEMMA FlawsStay ==
    ASSUME IpcAssumption, IpcTypeOK, [IpcNext]_ipcVars, NEW c \in Clients, forwarder[c].next > 0
    PROVE  /\ ~forwarder'[c].lagged => ~forwarder[c].lagged
           /\ ~forwarder'[c].foreign => ~forwarder[c].foreign
<1>1. CASE Accept(c)
  <2>1. PICK after \in Forwarder :
          /\ after.lagged = forwarder[c].lagged /\ after.foreign = forwarder[c].foreign
          /\ forwarder' = [forwarder EXCEPT ![c] = after]
    BY <1>1, AcceptDoes
  <2>2. forwarder'[c] = after
    BY <2>1 DEF IpcTypeOK
  <2> QED
    BY <2>1, <2>2
<1>2. CASE TrackTurn(c)
  <2>1. PICK i \in DOMAIN sent : \E after \in Forwarder :
          /\ ~after.lagged <=> ~forwarder[c].lagged /\ i = forwarder[c].next
          /\ ~after.foreign <=> ~forwarder[c].foreign /\ LabelOf(sent[i]) = sent[i].turn
          /\ forwarder' = [forwarder EXCEPT ![c] = after]
    BY <1>2, TrackDoes
  <2>2. PICK after \in Forwarder :
          /\ ~after.lagged <=> ~forwarder[c].lagged /\ i = forwarder[c].next
          /\ ~after.foreign <=> ~forwarder[c].foreign /\ LabelOf(sent[i]) = sent[i].turn
          /\ forwarder' = [forwarder EXCEPT ![c] = after]
    BY <2>1
  <2>3. forwarder'[c] = after
    BY <2>2 DEF IpcTypeOK
  <2> QED
    BY <2>2, <2>3
<1>3. CASE ForwardEvent(c)
  <2>1. PICK after \in Forwarder :
          /\ after.lagged = forwarder[c].lagged /\ after.foreign = forwarder[c].foreign
          /\ forwarder' = [forwarder EXCEPT ![c] = after]
    BY <1>3, ForwardDoes
  <2>2. forwarder'[c] = after
    BY <2>1 DEF IpcTypeOK
  <2> QED
    BY <2>1, <2>2
<1>4. CASE ~(Accept(c) \/ TrackTurn(c) \/ ForwardEvent(c))
  <2>1. CASE UNCHANGED ipcVars \/ TurnStarts \/ TurnGoesOn \/ TurnEnds
    BY <2>1 DEF ipcVars, serverVars, TurnStarts, TurnGoesOn, TurnEnds
  <2>2. ASSUME NEW d \in Clients, d # c, StepOf(d) PROVE forwarder'[c] = forwarder[c]
    BY <2>2, OthersStay DEF SideOf
  <2>3. CASE StepOf(c)
    BY <1>4, <2>3 DEF StepOf, ServeRequest, WriteNotification, ReadLine, Call, TakeResponse,
           CallTimesOut, CollectNotification, Leave, serverVars
  <2> QED
    BY <2>1, <2>2, <2>3 DEF IpcNext, StepOf
<1> QED
  BY <1>1, <1>2, <1>3, <1>4

(* What is said of a lone client now was so before. *)
Remembers(c) == (TracksAlone(c)' => TracksAlone(c)) /\ (Exact(c)' => Exact(c))

LEMMA AloneBefore ==
    ASSUME IpcTypeOK, [IpcNext]_ipcVars, NEW c \in Clients, forwarder[c].next > 0
    PROVE  (TracksAlone(c)' => TracksAlone(c)) /\ (Exact(c)' => Exact(c))
<1>1. ASSUME NEW d \in Clients, connection'[d] = "none" PROVE connection[d] = "none"
  BY <1>1 DEF IpcNext, ipcVars, coreVars, serverVars, clientVars, TurnStarts, TurnGoesOn, TurnEnds,
         Accept, TrackTurn, ForwardEvent, ServeRequest, WriteNotification, ReadLine, Call, TakeResponse,
         CallTimesOut, CollectNotification, Leave, IpcTypeOK
<1>2. /\ ~forwarder'[c].lagged => ~forwarder[c].lagged
      /\ ~forwarder'[c].foreign => ~forwarder[c].foreign
  BY FlawsStay, IpcAssumption
<1> QED
  BY <1>1, <1>2 DEF TracksAlone, Exact

(* Nothing that is said of a turn that was sent is new, or lost while it is *)
(* waited for.                                                              *)
Hears(c) ==
    \A i \in DOMAIN sent : \A turn \in {sent[i].turn} :
        /\ Owns(c, turn)' => Owns(c, turn)
        /\ (client'[c].program = <<>> => turn = client'[c].turn) => (Announced(c, turn) => Announced(c, turn)')

\* An end that was announced stays announced when no line is lost.
LEMMA NotedStays ==
    ASSUME NEW c \in Clients, Noted(c), Hears(c),
           \A i \in DOMAIN sent' : i < forwarder'[c].next /\ sent'[i].kind = "turn_complete"
               => i \in DOMAIN sent /\ i < forwarder[c].next /\ sent'[i] = sent[i],
           client'[c].program # <<>> => client[c].program # <<>>,
           client[c].program = <<>> => client'[c].turn = client[c].turn
    PROVE  Noted(c)'
<1>1. ASSUME NEW i \in DOMAIN sent', i < forwarder'[c].next, sent'[i].kind = "turn_complete",
             NEW turn, turn = sent'[i].turn, client'[c].program = <<>> => turn = client'[c].turn, Owns(c, turn)'
      PROVE  Announced(c, turn)'
  <2>1. i \in DOMAIN sent /\ i < forwarder[c].next /\ sent'[i] = sent[i]
    BY <1>1
  <2>2. turn \in {sent[i].turn} /\ sent[i].kind = "turn_complete"
    BY <1>1, <2>1
  <2>3. Owns(c, turn) /\ (Announced(c, turn) => Announced(c, turn)')
    BY <1>1, <2>1, <2>2 DEF Hears
  <2>4. client[c].program = <<>> => turn = client[c].turn
    BY <1>1
  <2>5. Announced(c, turn)
    BY <2>1, <2>2, <2>3, <2>4 DEF Noted
  <2> QED
    BY <2>3, <2>5
<1> QED
  BY <1>1 DEF Noted

\* Nothing that is said of a connection and its client changes when neither it nor the stream does.
LEMMA SameSide ==
    ASSUME NEW c \in Clients, SideOf(c)' = SideOf(c), sent' = sent
    PROVE  /\ (Forwards(c) => Forwards(c)') /\ (Untouched(c) => Untouched(c)')
           /\ Listens(c)' = Listens(c)
           /\ Noted(c) => Noted(c)'
           /\ active_turns' = active_turns /\ Labelled(c) => Labelled(c)'
<1>1. /\ connection'[c] = connection[c] /\ forwarder'[c] = forwarder[c] /\ notify'[c] = notify[c]
      /\ wire'[c] = wire[c] /\ response_rx'[c] = response_rx[c]
      /\ notification_rx'[c] = notification_rx[c] /\ client'[c] = client[c]
  BY DEF SideOf
<1>2. ASSUME Noted(c) PROVE Noted(c)'
  <2>1. \A turn : (Owns(c, turn)' <=> Owns(c, turn)) /\ (Announced(c, turn)' <=> Announced(c, turn))
    BY <1>1 DEF Owns, Announced
  <2>2. Hears(c)
    BY <2>1 DEF Hears
  <2> QED
    BY <1>1, <1>2, <2>2, NotedStays
<1> QED
  BY <1>1, <1>2 DEF Forwards, Untouched, Listens, Labelled

\* The core's own steps append an event that goes with the ones before it.
LEMMA CoreKeepsEnds ==
    ASSUME IpcTypeOK, EndInv, TurnStarts \/ TurnGoesOn \/ TurnEnds,
           \A c \in Clients : Remembers(c)
    PROVE  EndInv'
<1>1. PICK e : sent' = Append(sent, e)
  BY DEF TurnStarts, TurnGoesOn, TurnEnds
<1>2. UNCHANGED <<serverVars, clientVars, requests>>
  BY DEF TurnStarts, TurnGoesOn, TurnEnds
<1>3. PICK l \in Nat : l = Len(sent)
  BY DEF IpcTypeOK
<1>4. /\ DOMAIN sent = 1..l /\ DOMAIN sent' = 1..(l + 1) /\ Len(sent') = l + 1 /\ sent'[l + 1] = e
      /\ \A i \in 1..l : sent'[i] = sent[i]
  BY <1>1, <1>3 DEF IpcTypeOK
<1>5. /\ e.kind # "turn_started" => l > 0 /\ sent[l].turn = e.turn /\ sent[l].kind # "turn_complete"
      /\ turns'.running # 0 => e.turn = turns'.running /\ e.kind # "turn_complete"
  <2>0. turns \in TurnsType
    BY DEF IpcTypeOK, TurnsType
  <2>1. CASE TurnStarts
    <3>1. sent' = Append(sent, [kind |-> "turn_started", turn |-> Head(turns.queued)])
      BY <2>1 DEF TurnStarts
    <3>2. e = [kind |-> "turn_started", turn |-> Head(turns.queued)]
      BY <1>3, <1>4, <3>1 DEF IpcTypeOK
    <3>3. turns'.running = Head(turns.queued)
      BY <2>0, <2>1 DEF TurnStarts, TurnsType
    <3> QED
      BY <3>2, <3>3
  <2>2. CASE TurnGoesOn
    <3>1. PICK kind \in {"text_complete", "interaction_needed"} :
             sent' = Append(sent, Event(kind)) /\ turns' = [turns EXCEPT !.paused = (kind = "interaction_needed")]
      BY <2>2 DEF TurnGoesOn
    <3>2. e = [kind |-> kind, turn |-> turns.running]
      BY <1>3, <1>4, <3>1 DEF IpcTypeOK, Event
    <3>3. turns'.running = turns.running /\ turns.running # 0
      BY <2>0, <2>2, <3>1 DEF TurnGoesOn, TurnsType, NoTurn
    <3> QED
      BY <1>3, <3>2, <3>3 DEF EndInv, Stream
  <2>3. CASE TurnEnds
    <3>1. sent' = Append(sent, Event("turn_complete")) /\ turns.running # 0
      BY <2>3 DEF TurnEnds, NoTurn
    <3>2. e = [kind |-> "turn_complete", turn |-> turns.running]
      BY <1>3, <1>4, <3>1 DEF IpcTypeOK, Event
    <3>3. turns'.running = 0
      BY <2>0, <2>3 DEF TurnEnds, TurnsType, NoTurn
    <3> QED
      BY <1>3, <3>1, <3>2, <3>3 DEF EndInv, Stream
  <2> QED
    BY <2>1, <2>2, <2>3
<1>6. Stream'
  <2>1. ASSUME NEW i \in DOMAIN sent', sent'[i].kind # "turn_started"
        PROVE  i > 1 /\ sent'[i - 1].turn = sent'[i].turn /\ sent'[i - 1].kind # "turn_complete"
    <3>1. CASE i \in 1..l
      <4>1. i > 1 /\ sent[i - 1].turn = sent[i].turn /\ sent[i - 1].kind # "turn_complete"
        BY <1>4, <2>1, <3>1 DEF EndInv, Stream
      <4>2. i - 1 \in 1..l
        BY <3>1, <4>1
      <4> QED
        BY <1>4, <3>1, <4>1, <4>2
    <3>2. CASE i = l + 1
      <4>1. l > 0 /\ sent[l].turn = e.turn /\ sent[l].kind # "turn_complete"
        BY <1>4, <1>5, <2>1, <3>2
      <4>2. i - 1 = l /\ l \in 1..l /\ i > 1
        BY <3>2, <4>1
      <4> QED
        BY <1>4, <3>2, <4>1, <4>2
    <3> QED
      BY <1>4, <3>1, <3>2
  <2>2. turns'.running # 0 =>
         Len(sent') > 0 /\ sent'[Len(sent')].turn = turns'.running /\ sent'[Len(sent')].kind # "turn_complete"
    BY <1>4, <1>5
  <2> QED
    BY <2>1, <2>2 DEF Stream
<1>7. NoTurnsYet'
  <2>1. turns.running # 0 \/ turns.queued # <<>>
    BY DEF TurnStarts, TurnGoesOn, TurnEnds, NoTurn
  <2> QED
    BY <1>2, <2>1 DEF EndInv, NoTurnsYet, serverVars
<1>8. ASSUME NEW c \in Clients PROVE Forwards(c)' /\ forwarder'[c] = forwarder[c]
                                     /\ (forwarder[c].next = 1 \/ forwarder[c].next - 1 \in 1..l)
  <2>1. forwarder'[c] = forwarder[c] /\ connection'[c] = connection[c]
    BY <1>2 DEF serverVars
  <2>2. PICK n \in Nat : n = forwarder[c].next
    BY DEF IpcTypeOK, Forwarder
  <2>3. n > 0 /\ n <= l + 1
    BY <1>3, <2>2 DEF EndInv, Forwards
  <2>4. n <= (l + 1) + 1 /\ (n = 1 \/ n - 1 \in 1..l)
    BY <2>3
  <2> QED
    BY <1>4, <2>1, <2>2, <2>3, <2>4 DEF EndInv, Forwards
<1>9. ASSUME NEW c \in Clients, TracksAlone(c)', connection'[c] # "none" PROVE Labelled(c)'
  <2>1. Labelled(c) /\ active_turns' = active_turns
    BY <1>2, <1>9 DEF EndInv, Remembers, serverVars
  <2> QED
    BY <1>4, <1>8, <2>1 DEF Labelled
<1>10. ASSUME NEW c \in Clients, Exact(c)', Listens(c)' PROVE Noted(c)'
  <2>1. Noted(c)
    BY <1>2, <1>10 DEF EndInv, Remembers, Listens, serverVars, clientVars
  <2>2. \A turn : (Announced(c, turn)' <=> Announced(c, turn)) /\ (Owns(c, turn)' <=> Owns(c, turn))
    BY <1>2 DEF Announced, Owns, serverVars, clientVars
  <2>3. ASSUME NEW i \in DOMAIN sent', i < forwarder'[c].next
        PROVE  i \in DOMAIN sent /\ i < forwarder[c].next /\ sent'[i] = sent[i]
    <3>1. PICK n \in Nat : n = forwarder[c].next
      BY DEF IpcTypeOK, Forwarder
    <3>2. n <= l + 1 /\ i < n /\ i \in 1..(l + 1)
      BY <1>3, <1>4, <1>8, <2>3, <3>1 DEF EndInv, Forwards
    <3>3. i \in 1..l
      BY <3>2
    <3> QED
      BY <1>4, <3>1, <3>2, <3>3
  <2>4. client' = client
    BY <1>2 DEF clientVars
  <2>5. Hears(c)
    BY <2>2 DEF Hears
  <2> QED
    BY <2>1, <2>3, <2>4, <2>5, NotedStays
<1>11. ASSUME NEW c \in Clients PROVE Untouched(c)'
  BY <1>2 DEF EndInv, Untouched, serverVars, clientVars
<1>12. LabelsAreOwn'
  <2>1. \A c \in Clients : TracksAlone(c)' => TracksAlone(c)
    BY DEF Remembers
  <2> QED
    BY <1>8, <2>1 DEF EndInv, LabelsAreOwn
<1>13. Numbers'
  <2>1. turns \in TurnsType
    BY DEF IpcTypeOK, TurnsType
  <2>2. /\ turns'.next = turns.next /\ (turns'.running = turns.running \/ turns'.running = 0 \/ turns'.running = Head(turns.queued))
        /\ (turns'.queued = turns.queued \/ (turns.queued # <<>> /\ turns'.queued = Tail(turns.queued)))
        /\ turns'.running = Head(turns.queued) => turns.queued # <<>> \/ turns'.running = turns.running \/ turns'.running = 0
    BY <2>1 DEF TurnStarts, TurnGoesOn, TurnEnds, TurnsType, NoTurn
  <2>3. PICK n \in Nat : n = turns.next
    BY <2>1 DEF TurnsType
  <2>4. e.turn > 0 /\ e.turn < n /\ turns'.running < n
    <3>1. CASE TurnStarts
      <4>1. turns.queued \in Seq(Nat) /\ turns.queued # <<>>
        BY <2>1, <3>1 DEF TurnStarts, TurnsType
      <4>2. Head(turns.queued) = turns.queued[1] /\ 1 \in DOMAIN turns.queued
        BY <4>1
      <4>3. Head(turns.queued) > 0 /\ Head(turns.queued) < n
        BY <2>3, <4>2 DEF EndInv, Numbers
      <4>4. e = [kind |-> "turn_started", turn |-> Head(turns.queued)] /\ turns'.running = Head(turns.queued)
        BY <1>3, <1>4, <2>1, <3>1 DEF TurnStarts, TurnsType, IpcTypeOK
      <4> QED
        BY <4>3, <4>4
    <3>2. CASE TurnGoesOn \/ TurnEnds
      <4>1. e.turn = turns.running /\ turns.running # 0
        BY <1>3, <1>4, <3>2 DEF TurnGoesOn, TurnEnds, Event, IpcTypeOK, NoTurn
      <4>2. turns'.running \in {0, turns.running}
        BY <2>1, <3>2 DEF TurnGoesOn, TurnEnds, TurnsType, NoTurn
      <4>3. turns.running \in Nat /\ turns.running < n /\ n > 0
        BY <2>1, <2>3 DEF EndInv, Numbers, TurnsType
      <4> QED
        BY <2>3, <4>1, <4>2, <4>3
    <3> QED
      BY <3>1, <3>2
  <2>5. ASSUME NEW i \in DOMAIN sent' PROVE sent'[i].turn > 0 /\ sent'[i].turn < n
    <3>1. CASE i \in 1..l
      BY <1>4, <2>3, <3>1 DEF EndInv, Numbers
    <3>2. CASE i = l + 1
      BY <1>4, <2>4, <3>2
    <3> QED
      BY <1>4, <3>1, <3>2
  <2>6. ASSUME NEW i \in DOMAIN turns'.queued PROVE turns'.queued[i] > 0 /\ turns'.queued[i] < n
    <3>1. CASE turns'.queued = turns.queued
      BY <2>3, <2>6, <3>1 DEF EndInv, Numbers
    <3>2. CASE turns.queued # <<>> /\ turns'.queued = Tail(turns.queued)
      <4>1. turns.queued \in Seq(Nat)
        BY <2>1 DEF TurnsType
      <4>2. i + 1 \in DOMAIN turns.queued /\ turns'.queued[i] = turns.queued[i + 1]
        BY <2>6, <3>2, <4>1
      <4> QED
        BY <2>3, <4>2 DEF EndInv, Numbers
    <3> QED
      BY <2>2, <3>1, <3>2
  <2>7. turns'.next = n /\ n > 0
    BY <2>2, <2>3 DEF EndInv, Numbers
  <2> QED
    BY <2>4, <2>5, <2>6, <2>7 DEF Numbers
<1> QED
  BY <1>6, <1>7, <1>8, <1>9, <1>10, <1>11, <1>12, <1>13 DEF EndInv

Mine(c) ==
    /\ Forwards(c) /\ Untouched(c)
    /\ TracksAlone(c) => ~forwarder[c].foreign
    /\ TracksAlone(c) /\ connection[c] # "none" => Labelled(c)
    /\ Exact(c) /\ Listens(c) => Noted(c)

\* A step that leaves a connection and its forwarder, and loses no end its client waits for.
LEMMA MineStays ==
    ASSUME NEW c \in Clients, Mine(c),
           UNCHANGED <<sent, active_turns, connection, forwarder>>,
           Untouched(c)',
           Listens(c)' => /\ Listens(c)
                          /\ client'[c].program # <<>> => client[c].program # <<>>
                          /\ client[c].program = <<>> => client'[c].turn = client[c].turn
                          /\ Hears(c)
    PROVE  Mine(c)'
<1>1. Forwards(c)' /\ (TracksAlone(c)' <=> TracksAlone(c)) /\ (Exact(c)' <=> Exact(c)) /\ (Labelled(c) => Labelled(c)')
  BY DEF Mine, Forwards, TracksAlone, Exact, Labelled
<1>2. ASSUME Exact(c), Listens(c)' PROVE Noted(c)'
  <2>1. Noted(c)
    BY <1>2 DEF Mine
  <2> QED
    BY <1>2, <2>1, NotedStays
<1> QED
  BY <1>1, <1>2 DEF Mine

\* A connection that opens alone has everything before it: the first event is
\* still to come. One that opens later has no turn yet.
LEMMA AcceptKeepsMine ==
    ASSUME IpcTypeOK, NoTurnsYet, Numbers, NEW c \in Clients, Mine(c), Accept(c), Remembers(c)
    PROVE  Mine(c)'
<1>1. PICK after \in Forwarder :
        /\ after.at = "receiving" /\ after.next = Len(sent) + 1 /\ after.held = forwarder[c].held
        /\ after.lagged = forwarder[c].lagged /\ after.foreign = forwarder[c].foreign
        /\ forwarder' = [forwarder EXCEPT ![c] = after]
  BY AcceptDoes
<1>2. connection[c] = "none" /\ connection' = [connection EXCEPT ![c] = "open"]
      /\ UNCHANGED <<coreVars, clientVars, requests, active_turns, notify, wire>>
  BY DEF Accept
<1>3. forwarder'[c] = after /\ connection'[c] = "open" /\ sent' = sent /\ Len(sent) \in Nat
  BY <1>1, <1>2 DEF IpcTypeOK, coreVars
<1>4. Forwards(c)' /\ Untouched(c)'
  BY <1>1, <1>2, <1>3 DEF Mine, Forwards, Untouched
<1>5. ASSUME TracksAlone(c)' PROVE Labelled(c)'
  <2>1. \A d \in Clients : connection[d] = "none"
    BY <1>2, <1>5 DEF TracksAlone, Remembers
  <2>2. sent' = <<>> /\ Len(sent) = 0 /\ after.next = 1
    BY <1>1, <1>3, <2>1 DEF NoTurnsYet
  <2> QED
    BY <1>3, <2>2 DEF Labelled
<1>6. Noted(c)'
  <2>1. client'[c].turn = 0 /\ wire'[c] = <<>> /\ response_rx'[c] = <<>>
    BY <1>2 DEF Mine, Untouched, clientVars
  <2>2. ASSUME NEW i \in DOMAIN sent', NEW turn, turn = sent'[i].turn, Owns(c, turn)' PROVE FALSE
    <3>1. sent[i].turn > 0 /\ turn = sent[i].turn
      BY <1>3, <2>2 DEF Numbers
    <3>2. DOMAIN <<>> = {}
      OBVIOUS
    <3> QED
      BY <2>1, <2>2, <3>1, <3>2 DEF Owns, HasAnswer
  <2> QED
    BY <2>2 DEF Noted
<1>7. TracksAlone(c)' => ~forwarder'[c].foreign
  BY <1>1, <1>3 DEF Mine, Remembers
<1> QED
  BY <1>4, <1>5, <1>6, <1>7 DEF Mine

\* The label of an event is the turn of the event: they follow each other.
LEMMA TrackKeepsMine ==
    ASSUME IpcAssumption, IpcTypeOK, Stream, NEW c \in Clients, Mine(c), TrackTurn(c), Remembers(c)
    PROVE  Mine(c)'
<1>1. forwarder[c].at = "receiving" /\ forwarder[c].next > 0
      /\ UNCHANGED <<coreVars, clientVars, requests, connection, notify, wire>>
  BY DEF TrackTurn, Mine, Forwards
<1>2. PICK i \in DOMAIN sent :
        \E after \in Forwarder, note \in Note :
             /\ forwarder[c].next <= i
             /\ ~after.lagged <=> ~forwarder[c].lagged /\ i = forwarder[c].next
             /\ ~after.foreign <=> ~forwarder[c].foreign /\ LabelOf(sent[i]) = sent[i].turn
             /\ after.at = "sending" /\ after.next = i + 1 /\ after.held = <<note>>
             /\ note.kind = sent[i].kind /\ note.turn = LabelOf(sent[i])
             /\ forwarder' = [forwarder EXCEPT ![c] = after]
             /\ active_turns' = ActiveAfter(sent[i]) /\ active_turns' \in Nat
  BY <1>1, TrackDoes
<1>3. PICK after \in Forwarder, note \in Note :
             /\ forwarder[c].next <= i
             /\ ~after.lagged <=> ~forwarder[c].lagged /\ i = forwarder[c].next
             /\ ~after.foreign <=> ~forwarder[c].foreign /\ LabelOf(sent[i]) = sent[i].turn
             /\ after.at = "sending" /\ after.next = i + 1 /\ after.held = <<note>>
             /\ note.kind = sent[i].kind /\ note.turn = LabelOf(sent[i])
             /\ forwarder' = [forwarder EXCEPT ![c] = after]
             /\ active_turns' = ActiveAfter(sent[i]) /\ active_turns' \in Nat
  BY <1>2
<1>4. forwarder'[c] = after /\ sent' = sent /\ Len(sent) \in Nat /\ DOMAIN sent = 1..Len(sent) /\ i \in Nat /\ i > 0 /\ i <= Len(sent)
  BY <1>1, <1>3 DEF IpcTypeOK, coreVars
<1>5. Forwards(c)'
  <2>1. connection'[c] # "none"
    BY <1>1 DEF Mine, Forwards
  <2> QED
    BY <1>3, <1>4, <2>1 DEF Forwards
<1>6. connection[c] # "none" /\ Untouched(c)'
  BY <1>1 DEF Mine, Forwards, Untouched
<1>7. ASSUME TracksAlone(c)'
      PROVE  /\ i = forwarder[c].next /\ ~forwarder'[c].foreign
             /\ (sent[i].kind # "turn_started" => active_turns = sent[i].turn)
  <2>1. TracksAlone(c) /\ ~after.lagged
    BY <1>4, <1>7 DEF Remembers, TracksAlone
  <2>2. i = forwarder[c].next /\ Labelled(c) /\ ~forwarder[c].foreign
    BY <1>3, <1>6, <2>1 DEF Mine
  <2>3. ASSUME sent[i].kind # "turn_started" PROVE active_turns = sent[i].turn
    <3>1. i > 1 /\ sent[i - 1].turn = sent[i].turn /\ sent[i - 1].kind # "turn_complete"
      BY <2>3 DEF Stream
    <3> QED
      BY <2>2, <3>1 DEF Labelled
  <2>4. LabelOf(sent[i]) = sent[i].turn
    BY <2>3 DEF LabelOf
  <2>5. ~after.foreign <=> ~forwarder[c].foreign /\ LabelOf(sent[i]) = sent[i].turn
    BY <1>3
  <2>6. ~after.foreign
    BY <2>2, <2>4, <2>5, Zenon
  <2>7. ~forwarder'[c].foreign
    BY <1>4, <2>6, Zenon
  <2> QED
    BY <2>2, <2>3, <2>7
<1>8. ASSUME TracksAlone(c)' PROVE Labelled(c)'
  <2>1. forwarder'[c].next - 1 = i
    <3>1. forwarder'[c] = after /\ after.next = i + 1 /\ i \in Nat
      BY <1>3, <1>4
    <3>2. (i + 1) - 1 = i
      BY <3>1
    <3> QED
      BY <3>1, <3>2
  <2>2. sent[i].kind # "turn_complete" => active_turns' = sent[i].turn
    BY <1>3, <1>7, <1>8 DEF ActiveAfter
  <2> QED
    BY <1>4, <2>1, <2>2 DEF Labelled
<1>9. ASSUME Exact(c)', Listens(c)' PROVE Noted(c)'
  <2>1. Listens(c) /\ client' = client /\ notify' = notify /\ wire' = wire /\ notification_rx' = notification_rx
        /\ response_rx' = response_rx
    BY <1>1, <1>9 DEF Listens, clientVars
  <2>2. ~after.lagged /\ ~after.foreign
    BY <1>4, <1>9 DEF Exact
  <2>3. i = forwarder[c].next /\ LabelOf(sent[i]) = sent[i].turn
    BY <1>3, <2>2, Zenon
  <2>4. Noted(c)
    BY <1>9, <2>1 DEF Mine, Remembers
  <2>5. forwarder[c].held = <<>>
    BY <1>1 DEF Mine, Forwards
  <2>6. \A turn : ~HasEnd(<<>>, turn)
    BY DEF HasEnd
  <2>7. \A turn : (Announced(c, turn) => Announced(c, turn)') /\ (Owns(c, turn)' <=> Owns(c, turn))
    BY <2>1, <2>5, <2>6 DEF Announced, Owns
  <2>8. sent[i].kind = "turn_complete" => HasEnd(forwarder'[c].held, sent[i].turn)
    <3>1. ASSUME sent[i].kind = "turn_complete" PROVE note.kind = "turn_complete" /\ note.turn = sent[i].turn
      BY <1>3, <2>3, <3>1
    <3>2. 1 \in DOMAIN <<note>> /\ <<note>>[1] = note
      OBVIOUS
    <3> QED
      BY <1>3, <1>4, <3>1, <3>2 DEF HasEnd
  <2>9. \A j \in DOMAIN sent : j < forwarder'[c].next => j < forwarder[c].next \/ j = i
    BY <1>3, <1>4, <2>3
  <2>10. ASSUME NEW j \in DOMAIN sent, j < forwarder'[c].next, sent[j].kind = "turn_complete",
                NEW turn, turn = sent[j].turn, client[c].program = <<>> => turn = client[c].turn, Owns(c, turn)
         PROVE  Announced(c, turn)'
    <3>1. CASE j < forwarder[c].next
      <4>1. Announced(c, turn)
        BY <2>4, <2>10, <3>1 DEF Noted
      <4> QED
        BY <2>7, <4>1
    <3>2. CASE j = i
      BY <2>8, <2>10, <3>2 DEF Announced
    <3> QED
      BY <2>9, <2>10, <3>1, <3>2
  <2>11. \A turn : Owns(c, turn)' <=> Owns(c, turn)
    BY <2>7
  <2> QED
    BY <1>4, <2>1, <2>10, <2>11 DEF Noted
<1> QED
  BY <1>5, <1>6, <1>7, <1>8, <1>9 DEF Mine

\* From the forwarder to the writer, to the wire, to the client: no end is lost.
LEMMA ForwardKeepsMine ==
    ASSUME IpcTypeOK, NEW c \in Clients, Mine(c), ForwardEvent(c), Remembers(c)
    PROVE  Mine(c)'
<1>1. /\ forwarder[c].at = "sending"
      /\ UNCHANGED <<coreVars, clientVars, requests, active_turns, connection, wire>>
  BY DEF ForwardEvent
<1>2. PICK after \in Forwarder :
             /\ after.at # "sending" /\ after.next = forwarder[c].next /\ after.held = <<>>
             /\ after.lagged = forwarder[c].lagged /\ after.foreign = forwarder[c].foreign
             /\ connection[c] = "open" => after.at = "receiving"
             /\ connection[c] = "closed" => after.at = "ended"
             /\ forwarder' = [forwarder EXCEPT ![c] = after]
             /\ notify' \in [Clients -> Seq(Note)]
             /\ \A d \in Clients : d # c => notify'[d] = notify[d]
             /\ notify'[c] = IF connection[c] = "closed" THEN notify[c] ELSE notify[c] \o forwarder[c].held
  BY ForwardDoes
<1>3. forwarder'[c] = after /\ sent' = sent
  BY <1>1, <1>2 DEF IpcTypeOK, coreVars
<1>4. Forwards(c)' /\ Untouched(c)'
  BY <1>1, <1>2, <1>3 DEF Mine, Forwards, Untouched, clientVars
<1>5. (Labelled(c) => Labelled(c)') /\ (Exact(c)' <=> Exact(c)) /\ (TracksAlone(c)' <=> TracksAlone(c))
      /\ (forwarder'[c].foreign <=> forwarder[c].foreign)
  BY <1>1, <1>2, <1>3 DEF Labelled, Exact, TracksAlone
<1>6. ASSUME Exact(c), Listens(c)' PROVE Noted(c)'
  <2>1. Noted(c) /\ connection[c] = "open" /\ client' = client /\ wire' = wire /\ notification_rx' = notification_rx
        /\ response_rx' = response_rx
    BY <1>1, <1>6 DEF Mine, Listens, clientVars
  <2>2. notify[c] \in Seq(Note) /\ forwarder[c].held \in Seq(Note)
    BY DEF IpcTypeOK, Forwarder, Notes
  <2>3. notify'[c] = notify[c] \o forwarder[c].held
    BY <1>2, <2>1
  <2>4. \A turn : HasEnd(notify[c], turn) \/ HasEnd(forwarder[c].held, turn) => HasEnd(notify'[c], turn)
    BY <2>2, <2>3, EndJoined
  <2>5. \A turn : (Announced(c, turn) => Announced(c, turn)') /\ (Owns(c, turn)' <=> Owns(c, turn))
    BY <2>1, <2>4 DEF Announced, Owns
  <2>6. Hears(c)
    BY <2>5 DEF Hears
  <2> QED
    BY <1>2, <1>3, <2>1, <2>6, NotedStays
<1> QED
  BY <1>1, <1>4, <1>5, <1>6 DEF Mine

\* The turn of a new message is one of which nothing was sent yet.
LEMMA ServeKeepsMine ==
    ASSUME IpcTypeOK, Numbers, NEW c \in Clients, Mine(c), ServeRequest(c)
    PROVE  Mine(c)'
<1>1. PICK answer \in Answer :
        wire' = [wire EXCEPT ![c] = Append(wire[c], answer)] /\ answer.turn \in {0, turns.next}
  BY ServeDoes
<1>2. UNCHANGED <<sent, clientVars, active_turns, connection, forwarder, notify>> /\ connection[c] = "open"
  BY DEF ServeRequest
<1>3. wire'[c] = Append(wire[c], answer) /\ wire[c] \in Seq(Line)
  BY <1>1 DEF IpcTypeOK
<1>4. \A turn : HasEnd(wire[c], turn) => HasEnd(wire'[c], turn)
  BY <1>3, EndAppended
<1>5. \A turn : Announced(c, turn) => Announced(c, turn)'
  BY <1>2, <1>4 DEF Announced, clientVars
<1>6. client' = client /\ Listens(c)' = Listens(c)
  BY <1>2 DEF Listens, clientVars
<1>7. ASSUME NEW i \in DOMAIN sent, NEW turn \in {sent[i].turn}, Owns(c, turn)' PROVE Owns(c, turn)
  <2>1. answer.turn # turn
    <3>1. sent[i].turn > 0 /\ sent[i].turn < turns.next
      BY DEF Numbers
    <3>2. sent[i].turn \in Nat /\ turns.next \in Nat
      <4>1. sent \in Seq(SentEvent)
        BY DEF IpcTypeOK
      <4>2. sent[i] \in SentEvent
        BY <4>1
      <4> QED
        BY <4>2 DEF SentEvent, IpcTypeOK
    <3> QED
      BY <1>1, <3>1, <3>2
  <2>2. HasAnswer(wire'[c], turn) => HasAnswer(wire[c], turn)
    BY <1>3, <2>1, AnswerAppended
  <2> QED
    BY <1>2, <1>6, <1>7, <2>2 DEF Owns, clientVars
<1>8. Hears(c)
  BY <1>5, <1>7 DEF Hears
<1>9. Untouched(c)'
  BY <1>2 DEF Untouched
<1> QED
  BY <1>2, <1>6, <1>8, <1>9, MineStays

LEMMA WriteKeepsMine ==
    ASSUME IpcTypeOK, NEW c \in Clients, Mine(c), WriteNotification(c)
    PROVE  Mine(c)'
<1>1. /\ notify[c] # <<>> /\ notify[c] \in Seq(Note) /\ wire[c] \in Seq(Line)
      /\ notify' = [notify EXCEPT ![c] = Tail(notify[c])]
      /\ notify[c][1] \in Note /\ wire' = [wire EXCEPT ![c] = Append(wire[c], notify[c][1])]
  BY WriteDoes
<1>2. UNCHANGED <<coreVars, clientVars, requests, active_turns, connection, forwarder>>
  BY DEF WriteNotification
<1>3. notify'[c] = Tail(notify[c]) /\ wire'[c] = Append(wire[c], notify[c][1])
  BY <1>1 DEF IpcTypeOK
<1>4. ASSUME NEW turn, HasEnd(notify[c], turn) PROVE HasEnd(notify'[c], turn) \/ HasEnd(wire'[c], turn)
  <2>1. (notify[c][1].kind = "turn_complete" /\ notify[c][1].turn = turn) \/ HasEnd(Tail(notify[c]), turn)
    BY <1>1, <1>4, EndInTail
  <2> QED
    BY <1>1, <1>3, <2>1, EndAppended
<1>5. \A turn : HasEnd(wire[c], turn) => HasEnd(wire'[c], turn)
  BY <1>1, <1>3, EndAppended
<1>6. \A turn : Announced(c, turn) => Announced(c, turn)'
  BY <1>2, <1>4, <1>5 DEF Announced, clientVars
<1>7. client' = client /\ Listens(c)' = Listens(c) /\ Untouched(c)'
  BY <1>2 DEF Listens, Untouched, clientVars, WriteNotification
<1>8. ASSUME NEW turn, Owns(c, turn)' PROVE Owns(c, turn)
  <2>1. notify[c][1].kind # "response"
    BY <1>1 DEF Note, Kinds
  <2>2. HasAnswer(wire'[c], turn) => HasAnswer(wire[c], turn)
    BY <1>1, <1>3, <2>1, AnswerAppended
  <2> QED
    BY <1>2, <1>7, <1>8, <2>2 DEF Owns, clientVars
<1>9. Hears(c)
  BY <1>6, <1>8 DEF Hears
<1> QED
  BY <1>2, <1>7, <1>9, MineStays DEF coreVars

LEMMA ReadKeepsMine ==
    ASSUME IpcTypeOK, NEW c \in Clients, Mine(c), ReadLine(c)
    PROVE  Mine(c)'
<1>1. /\ wire[c] # <<>> /\ wire[c] \in Seq(Line) /\ wire' = [wire EXCEPT ![c] = Tail(wire[c])]
      /\ notification_rx[c] \in Seq(Note) /\ response_rx[c] \in Seq(Line)
  BY ReadDoes DEF IpcTypeOK
<1>2. PICK line \in Line :
        /\ line = wire[c][1]
        /\ response_rx' = response_rx \/ response_rx' = [response_rx EXCEPT ![c] = Append(response_rx[c], line)]
        /\ \/ notification_rx' = [notification_rx EXCEPT ![c] = Append(notification_rx[c], line)]
           \/ /\ client[c].library # "cli" \/ line.kind = "response"
              /\ notification_rx' = notification_rx
  BY ReadDoes
<1>3. UNCHANGED <<coreVars, active_turns, connection, forwarder, notify, requests, client, timeouts>>
  BY DEF ReadLine
<1>4. wire'[c] = Tail(wire[c])
  BY <1>1 DEF IpcTypeOK
<1>5. \A turn : HasEnd(notification_rx[c], turn) => HasEnd(notification_rx'[c], turn)
  <2>1. CASE notification_rx' = [notification_rx EXCEPT ![c] = Append(notification_rx[c], line)]
    <3>1. notification_rx'[c] = Append(notification_rx[c], line)
      BY <2>1 DEF IpcTypeOK
    <3> QED
      BY <1>1, <3>1, EndAppended
  <2>2. CASE notification_rx' = notification_rx
    BY <2>2
  <2> QED
    BY <1>2, <2>1, <2>2
<1>6. ASSUME client[c].library = "cli", NEW turn, HasEnd(wire[c], turn)
      PROVE  HasEnd(wire'[c], turn) \/ HasEnd(notification_rx'[c], turn)
  <2>1. (line.kind = "turn_complete" /\ line.turn = turn) \/ HasEnd(wire'[c], turn)
    BY <1>1, <1>2, <1>4, <1>6, EndInTail
  <2>2. CASE line.kind = "turn_complete" /\ line.turn = turn
    <3>1. notification_rx' = [notification_rx EXCEPT ![c] = Append(notification_rx[c], line)]
      BY <1>2, <1>6, <2>2
    <3>2. notification_rx'[c] = Append(notification_rx[c], line)
      BY <3>1 DEF IpcTypeOK
    <3> QED
      BY <1>1, <2>2, <3>2, EndAppended
  <2> QED
    BY <2>1, <2>2
<1>7. client' = client /\ Listens(c)' = Listens(c) /\ Untouched(c)'
  BY <1>1, <1>3 DEF Listens, Untouched, Mine
<1>8. Listens(c) => \A turn : Announced(c, turn) => Announced(c, turn)'
  BY <1>3, <1>5, <1>6 DEF Announced, Listens
<1>9. ASSUME NEW turn, Owns(c, turn)' PROVE Owns(c, turn)
  <2>1. HasAnswer(wire'[c], turn) => HasAnswer(wire[c], turn)
    BY <1>1, <1>4, AnswerInTail
  <2>2. HasAnswer(response_rx'[c], turn) => HasAnswer(response_rx[c], turn) \/ HasAnswer(wire[c], turn)
    <3>1. CASE response_rx' = response_rx
      BY <3>1
    <3>2. CASE response_rx' = [response_rx EXCEPT ![c] = Append(response_rx[c], line)]
      <4>1. response_rx'[c] = Append(response_rx[c], line)
        BY <3>2 DEF IpcTypeOK
      <4>2. HasAnswer(response_rx'[c], turn) => HasAnswer(response_rx[c], turn) \/ (line.kind = "response" /\ line.turn = turn)
        BY <1>1, <4>1, AnswerAppended
      <4>3. line.kind = "response" /\ line.turn = turn => HasAnswer(wire[c], turn)
        BY <1>1, <1>2, AnswerInTail
      <4> QED
        BY <4>2, <4>3
    <3> QED
      BY <1>2, <3>1, <3>2
  <2> QED
    BY <1>7, <1>9, <2>1, <2>2 DEF Owns
<1>10. Listens(c) => Hears(c)
  BY <1>8, <1>9 DEF Hears
<1> QED
  BY <1>3, <1>7, <1>10, MineStays DEF coreVars

LEMMA CallKeepsMine ==
    ASSUME IpcTypeOK, NEW c \in Clients, Mine(c), Call(c)
    PROVE  Mine(c)'
<1>1. PICK after \in ClientState :
        /\ client' = [client EXCEPT ![c] = after]
        /\ after.turn = client[c].turn /\ after.program = client[c].program
        /\ after.end = client[c].end /\ after.library = client[c].library
  BY CallDoes
<1>2. UNCHANGED <<coreVars, serverVars, response_rx, notification_rx, timeouts>>
  BY DEF Call
<1>3. client'[c] = after
  BY <1>1 DEF IpcTypeOK
<1>4. Hears(c)
  BY <1>1, <1>2, <1>3 DEF Hears, Owns, Announced, serverVars
<1>5. Untouched(c)'
  BY <1>1, <1>2, <1>3 DEF Mine, Untouched, serverVars
<1> QED
  BY <1>1, <1>2, <1>3, <1>4, <1>5, MineStays DEF Listens, coreVars, serverVars

\* While requests are left, nothing is collected: the turn may still change,
\* to one whose answer has come.
LEMMA AnswerKeepsMine ==
    ASSUME IpcTypeOK, WaitsInProgram, NEW c \in Clients, Mine(c), TakeResponse(c) \/ CallTimesOut(c)
    PROVE  Mine(c)'
<1>1. client[c].program # <<>> /\ connection[c] = "open"
  BY DEF WaitsInProgram, TakeResponse, CallTimesOut, Running
<1>2. PICK after \in ClientState :
        /\ client' = [client EXCEPT ![c] = after] /\ after.library = client[c].library
        /\ after.end = "running" => client[c].end = "running"
        /\ after.turn = client[c].turn \/ HasAnswer(response_rx[c], after.turn)
  <2>1. CASE CallTimesOut(c)
    BY <1>1, <2>1, TimeoutDoes
  <2>2. CASE TakeResponse(c)
    <3>1. response_rx[c] # <<>> /\ response_rx[c] \in Seq(Line)
      BY <1>1, <2>2, TakeDoes
    <3>2. PICK after \in ClientState :
        /\ client' = [client EXCEPT ![c] = after] /\ after.library = client[c].library
        /\ after.end = "running" => client[c].end = "running"
        /\ \/ after.turn = client[c].turn
           \/ after.turn = response_rx[c][1].turn /\ response_rx[c][1].kind = "response"
      BY <1>1, <2>2, TakeDoes
    <3>3. response_rx[c][1].kind = "response" /\ response_rx[c][1].turn = after.turn => HasAnswer(response_rx[c], after.turn)
      BY <3>1, AnswerInTail
    <3> QED
      BY <3>2, <3>3
  <2> QED
    BY <2>1, <2>2
<1>3. UNCHANGED <<coreVars, serverVars, notification_rx>>
  BY DEF TakeResponse, CallTimesOut
<1>4. client'[c] = after
  BY <1>2 DEF IpcTypeOK
<1>5. \A turn : Announced(c, turn) => Announced(c, turn)'
  BY <1>3 DEF Announced, serverVars
<1>6. ASSUME NEW turn, HasAnswer(response_rx'[c], turn) PROVE HasAnswer(response_rx[c], turn)
  <2>1. CASE CallTimesOut(c)
    BY <1>6, <2>1 DEF CallTimesOut
  <2>2. CASE TakeResponse(c)
    <3>1. /\ response_rx[c] # <<>> /\ response_rx[c] \in Seq(Line)
          /\ response_rx' = [response_rx EXCEPT ![c] = Tail(response_rx[c])]
      BY <1>1, <2>2, TakeDoes
    <3>2. response_rx'[c] = Tail(response_rx[c])
      BY <3>1 DEF IpcTypeOK
    <3> QED
      BY <1>6, <3>1, <3>2, AnswerInTail
  <2> QED
    BY <2>1, <2>2
<1>7. \A turn : Owns(c, turn)' => Owns(c, turn)
  BY <1>2, <1>3, <1>4, <1>6 DEF Owns, serverVars
<1>8. Hears(c)
  BY <1>5, <1>7 DEF Hears
<1>9. Untouched(c)'
  BY <1>1, <1>3 DEF Untouched, serverVars
<1> QED
  BY <1>1, <1>2, <1>3, <1>4, <1>8, <1>9, MineStays DEF Listens, coreVars, serverVars

\* What is read and passed over is not the end that is waited for.
LEMMA CollectKeepsMine ==
    ASSUME IpcTypeOK, NEW c \in Clients, Mine(c), CollectNotification(c)
    PROVE  Mine(c)'
<1>1. /\ client[c].program = <<>>
      /\ notification_rx[c] # <<>> /\ notification_rx[c] \in Seq(Note)
      /\ notification_rx' = [notification_rx EXCEPT ![c] = Tail(notification_rx[c])]
  BY CollectDoes
<1>2. PICK after \in ClientState :
        /\ client' = [client EXCEPT ![c] = after] /\ after.library = client[c].library
        /\ after.program = client[c].program /\ after.turn = client[c].turn
        /\ after.end = "running" =>
             /\ client[c].end = "running"
             /\ ~(notification_rx[c][1].turn = client[c].turn /\ notification_rx[c][1].kind = "turn_complete")
  BY CollectDoes
<1>3. UNCHANGED <<coreVars, serverVars, requests, response_rx, timeouts>>
  BY DEF CollectNotification
<1>4. client'[c] = after /\ notification_rx'[c] = Tail(notification_rx[c])
  BY <1>1, <1>2 DEF IpcTypeOK
<1>5. ASSUME Listens(c)', NEW turn, turn = client[c].turn, Announced(c, turn) PROVE Announced(c, turn)'
  <2>1. HasEnd(notification_rx[c], turn) => HasEnd(notification_rx'[c], turn)
    BY <1>1, <1>2, <1>4, <1>5, EndInTail DEF Listens
  <2> QED
    BY <1>3, <1>5, <2>1 DEF Announced, serverVars
<1>6. ASSUME Listens(c)' PROVE Hears(c)
  <2>1. \A turn : Owns(c, turn)' <=> Owns(c, turn)
    BY <1>2, <1>3, <1>4 DEF Owns, serverVars
  <2>2. ASSUME NEW i \in DOMAIN sent, NEW turn \in {sent[i].turn},
               client'[c].program = <<>> => turn = client'[c].turn, Announced(c, turn)
        PROVE  Announced(c, turn)'
    <3>1. turn = client[c].turn
      BY <1>1, <1>2, <1>4, <2>2
    <3> QED
      BY <1>5, <1>6, <2>2, <3>1
  <2> QED
    BY <2>1, <2>2 DEF Hears
<1>7. Untouched(c)'
  BY <1>2, <1>3, <1>4 DEF Mine, Untouched, serverVars
<1> QED
  BY <1>1, <1>2, <1>3, <1>4, <1>6, <1>7, MineStays DEF Listens, coreVars, serverVars

\* A command that has left collects nothing.
LEMMA LeaveKeepsMine ==
    ASSUME IpcTypeOK, NEW c \in Clients, Mine(c), Leave(c), Remembers(c)
    PROVE  Mine(c)'
<1>1. connection[c] = "open" /\ connection'[c] = "closed"
      /\ UNCHANGED <<coreVars, clientVars, requests, active_turns, forwarder, notify, wire>>
  BY DEF Leave, IpcTypeOK
<1>2. Forwards(c)' /\ Untouched(c)' /\ ~Listens(c)' /\ (Labelled(c) => Labelled(c)')
  BY <1>1 DEF Mine, Forwards, Untouched, Labelled, Listens, coreVars
<1>3. TracksAlone(c)' => TracksAlone(c)
  BY DEF Remembers
<1> QED
  BY <1>1, <1>2, <1>3 DEF Mine

\* Every step of a client keeps what is said of it.
LEMMA StepKeepsMine ==
    ASSUME IpcTypeOK, WaitsInProgram, Stream, Numbers, NoTurnsYet, NEW c \in Clients, Mine(c), StepOf(c),
           Remembers(c)
    PROVE  Mine(c)'
BY IpcAssumption, AcceptKeepsMine, TrackKeepsMine, ForwardKeepsMine, ServeKeepsMine, WriteKeepsMine, ReadKeepsMine,
   CallKeepsMine, AnswerKeepsMine, CollectKeepsMine, LeaveKeepsMine DEF StepOf

\* A client that was never connected does nothing that another one could notice.
LEMMA StrangerKeepsMine ==
    ASSUME IpcTypeOK, NEW c \in Clients, NEW d \in Clients, d # c, Mine(c), Mine(d), StepOf(c),
           Remembers(d)
    PROVE  Mine(d)'
<1>1. SideOf(d)' = SideOf(d) /\ connection'[d] = connection[d] /\ forwarder'[d] = forwarder[d]
  BY OthersStay DEF SideOf
<1>2. sent' = sent
  BY DEF StepOf, Accept, TrackTurn, ForwardEvent, ServeRequest, WriteNotification, ReadLine, Call, TakeResponse,
         CallTimesOut, CollectNotification, Leave, coreVars
<1>3. Forwards(d)' /\ Untouched(d)' /\ Listens(d)' = Listens(d) /\ (Noted(d) => Noted(d)')
  BY <1>1, <1>2, SameSide DEF Mine
<1>4. ASSUME TracksAlone(d)' PROVE active_turns' = active_turns
  <2>1. connection[c] = "none"
    BY <1>4 DEF Remembers, TracksAlone
  <2>2. ~TrackTurn(c)
    BY <2>1 DEF Mine, Forwards, TrackTurn
  <2> QED
    BY <2>2 DEF StepOf, Accept, ForwardEvent, ServeRequest, WriteNotification, ReadLine, Call, TakeResponse,
           CallTimesOut, CollectNotification, Leave, serverVars
<1>5. ASSUME TracksAlone(d)', Labelled(d) PROVE Labelled(d)'
  BY <1>1, <1>2, <1>4, <1>5, SameSide
<1>6. (Exact(d)' => Exact(d)) /\ (TracksAlone(d)' => TracksAlone(d))
  BY DEF Remembers
<1> QED
  BY <1>1, <1>3, <1>5, <1>6 DEF Mine

\* A new turn has the next number.
LEMMA ServeNumbersTurns ==
    ASSUME IpcTypeOK, Numbers, NEW c \in Clients, ServeRequest(c), sent' = sent
    PROVE  Numbers'
<1>1. /\ turns'.running = turns.running
      /\ \/ turns'.next = turns.next /\ turns'.queued = turns.queued
         \/ turns'.next = turns.next + 1 /\ turns'.queued = Append(turns.queued, turns.next)
  BY ServeDoes
<1>2. PICK n \in Nat : n = turns.next
  BY DEF IpcTypeOK
<1>3. turns.queued \in Seq(Nat) /\ turns.running \in Nat /\ sent \in Seq(SentEvent)
  BY DEF IpcTypeOK
<1>4. n > 0 /\ turns.running < n
  BY <1>2 DEF Numbers
<1>5. \A i \in DOMAIN sent : sent[i].turn > 0 /\ sent[i].turn < n /\ sent[i].turn < n + 1
  <2> SUFFICES ASSUME NEW i \in DOMAIN sent PROVE sent[i].turn > 0 /\ sent[i].turn < n /\ sent[i].turn < n + 1
    OBVIOUS
  <2>1. sent[i].turn \in Nat
    <3>1. sent[i] \in SentEvent
      BY <1>3
    <3> QED
      BY <3>1 DEF SentEvent
  <2> QED
    BY <1>2, <2>1 DEF Numbers
<1>6. \A i \in DOMAIN turns.queued : turns.queued[i] > 0 /\ turns.queued[i] < n /\ turns.queued[i] < n + 1
  BY <1>2, <1>3 DEF Numbers
<1>7. CASE turns'.next = turns.next /\ turns'.queued = turns.queued
  BY <1>1, <1>7 DEF Numbers
<1>8. CASE turns'.next = turns.next + 1 /\ turns'.queued = Append(turns.queued, turns.next)
  <2>1. turns'.next = n + 1 /\ n + 1 > 0 /\ turns'.running < n + 1
    BY <1>1, <1>2, <1>3, <1>4, <1>8
  <2>2. \A i \in DOMAIN turns'.queued : (i \in DOMAIN turns.queued /\ turns'.queued[i] = turns.queued[i]) \/ turns'.queued[i] = n
    BY <1>2, <1>3, <1>8
  <2>3. n < n + 1
    OBVIOUS
  <2> QED
    BY <1>4, <1>5, <1>6, <2>1, <2>2, <2>3 DEF Numbers
<1> QED
  BY <1>1, <1>7, <1>8

\* Every step keeps the invariant.
LEMMA EndStep ==
    ASSUME IpcTypeOK, WaitsInProgram, EndInv, [IpcNext]_ipcVars
    PROVE  EndInv'
<1>1. \A c \in Clients : Remembers(c)
  <2>1. \A c \in Clients : forwarder[c].next > 0
    BY DEF EndInv, Forwards
  <2> QED
    BY <2>1, AloneBefore, IpcAssumption DEF Remembers
<1>2. CASE UNCHANGED ipcVars
  <2>1. UNCHANGED <<sent, turns, active_turns>> /\ \A d \in Clients : SideOf(d)' = SideOf(d)
    BY <1>2 DEF ipcVars, coreVars, serverVars, clientVars, SideOf
  <2>2. \A d \in Clients : (TracksAlone(d)' => TracksAlone(d)) /\ (Exact(d)' => Exact(d))
    BY <1>1 DEF Remembers
  <2>3. Stream' /\ Numbers' /\ NoTurnsYet' /\ LabelsAreOwn'
    BY <1>2, <2>2 DEF ipcVars, coreVars, serverVars, EndInv, Stream, Numbers, NoTurnsYet, LabelsAreOwn
  <2>4. \A d \in Clients : /\ Forwards(d)' /\ Untouched(d)' /\ Listens(d)' = Listens(d)
                           /\ (Noted(d) => Noted(d)') /\ (Labelled(d) => Labelled(d)')
                           /\ connection'[d] = connection[d]
    BY <1>2, <2>1, SameSide DEF EndInv, ipcVars, serverVars
  <2> QED
    BY <2>2, <2>3, <2>4 DEF EndInv
<1>3. CASE TurnStarts \/ TurnGoesOn \/ TurnEnds
  BY <1>1, <1>3, CoreKeepsEnds
<1>4. ASSUME NEW c \in Clients, StepOf(c) PROVE EndInv'
  <2>1. \A d \in Clients : Mine(d)
    BY DEF EndInv, Mine, LabelsAreOwn
  <2>2. Mine(c)'
    BY <1>1, <1>4, <2>1, StepKeepsMine DEF EndInv
  <2>3. \A d \in Clients : d # c => Mine(d)'
    BY <1>1, <1>4, <2>1, StrangerKeepsMine
  <2>4. \/ ServeRequest(c)
        \/ UNCHANGED <<sent, turns>>
    BY <1>4 DEF StepOf, Accept, TrackTurn, ForwardEvent, WriteNotification, ReadLine, Call, TakeResponse,
           CallTimesOut, CollectNotification, Leave, coreVars
  <2>5. sent' = sent /\ turns'.running = turns.running
        /\ (turns' = turns \/ (connection[c] = "open" /\ connection' = connection))
    <3>1. CASE ServeRequest(c)
      BY <3>1, ServeDoes DEF ServeRequest
    <3> QED
      BY <2>4, <3>1
  <2>6. Stream'
    BY <2>5 DEF EndInv, Stream
  <2>7. NoTurnsYet'
    <3>1. ASSUME \A d \in Clients : connection'[d] = "none" PROVE \A d \in Clients : connection[d] = "none"
      BY <1>4, <3>1 DEF StepOf, Accept, TrackTurn, ForwardEvent, ServeRequest, WriteNotification, ReadLine, Call,
             TakeResponse, CallTimesOut, CollectNotification, Leave, IpcTypeOK, serverVars
    <3> QED
      BY <2>5, <3>1 DEF EndInv, NoTurnsYet
  <2>8. Numbers'
    <3>1. CASE UNCHANGED <<sent, turns>>
      BY <3>1 DEF EndInv, Numbers
    <3>2. CASE ServeRequest(c)
      BY <2>5, <3>2, ServeNumbersTurns DEF EndInv
    <3> QED
      BY <2>4, <3>1, <3>2
  <2>9. \A d \in Clients : Mine(d)'
    BY <2>2, <2>3
  <2>10. LabelsAreOwn'
    BY <2>9 DEF Mine, LabelsAreOwn
  <2> QED
    BY <2>6, <2>7, <2>8, <2>9, <2>10 DEF EndInv, Mine
<1> QED
  BY <1>2, <1>3, <1>4 DEF IpcNext, StepOf

\* Nothing is sent at the start.
LEMMA EndInit == ASSUME IpcInit PROVE EndInv
<1>1. /\ sent = <<>> /\ turns.queued = <<>> /\ turns.running = 0
      /\ \A d \in Clients : connection[d] = "none"
  BY DEF IpcInit, NoTurn
<1>2. PICK first : first = [at |-> "ended", next |-> 1, held |-> <<>>, lagged |-> FALSE, foreign |-> FALSE]
  OBVIOUS
<1>3. first.at = "ended" /\ first.next = 1 /\ first.held = <<>> /\ ~first.foreign
  BY <1>2
<1>4. \A d \in Clients : forwarder[d] = first
  BY <1>2 DEF IpcInit
<1>6. \A d \in Clients : Untouched(d)
  BY DEF IpcInit, Untouched, NoTurn
<1>7. LabelsAreOwn
  BY <1>3, <1>4 DEF LabelsAreOwn
<1>8. Numbers
  <2>1. turns.next = 1 /\ turns.running = 0 /\ turns.queued = <<>>
    BY DEF IpcInit, NoTurn
  <2> QED
    BY <1>1, <2>1 DEF Numbers
<1>5. \A d \in Clients : Forwards(d)
  <2>1. Len(sent) = 0
    BY <1>1
  <2>2. 1 > 0 /\ 1 <= 0 + 1
    OBVIOUS
  <2> QED
    BY <1>3, <1>4, <2>1, <2>2 DEF Forwards
<1> QED
  BY <1>1, <1>5, <1>6, <1>7, <1>8 DEF EndInv, Stream, NoTurnsYet, Listens

\* A lone connection's label is the turn of the last event it saw, and the end
\* of its turn that a forwarder passed on is on its way until its client has read it
\* (core_output_to_notification_with_turn_tracking).
THEOREM TurnEndsInductive == IpcSpec => [](NumberingInv /\ EndInv)
<1>1. IpcInit => EndInv
  BY EndInit
<1>2. NumberingInv /\ EndInv /\ [IpcNext]_ipcVars => EndInv'
  BY EndStep DEF NumberingInv
<1> QED
  BY <1>1, <1>2, NumberingInductive, PTL DEF IpcSpec

\* A one-shot command whose subscriber skipped no event and found no other
\* turn's entry in the map does not wait for a turn that is over (run.rs
\* execute_oneshot).
THEOREM TurnEndIsSeenCorrect == IpcSpec => []TurnEndIsSeen
<1>1. ASSUME NumberingInv, EndInv PROVE TurnEndIsSeen
  <2> SUFFICES ASSUME NEW c \in Clients, ~forwarder[c].lagged, ~forwarder[c].foreign,
                      Collects(c), AllHandled(c), NEW i \in DOMAIN sent,
                      sent[i].kind = "turn_complete", sent[i].turn = client[c].turn
               PROVE  FALSE
    BY DEF TurnEndIsSeen, EndIsSeen
  <2>1. Noted(c) /\ forwarder[c].held = <<>>
    BY <1>1 DEF EndInv, Exact, Collects, Running, Listens, AllHandled, Forwards
  <2>2. i < forwarder[c].next
    <3>1. i \in Nat /\ i <= Len(sent) /\ Len(sent) \in Nat /\ forwarder[c].next \in Nat
      BY <1>1 DEF NumberingInv, IpcTypeOK, Forwarder
    <3> QED
      BY <3>1 DEF AllHandled
  <2>3. Announced(c, client[c].turn)
    BY <2>1, <2>2 DEF Noted, Owns, Collects
  <2>4. \A turn : ~HasEnd(<<>>, turn)
    BY DEF HasEnd
  <2> QED
    BY <2>1, <2>3, <2>4 DEF Announced, AllHandled
<1> QED
  BY <1>1, TurnEndsInductive, PTL

\* Answers in order, the end of the turn a command collects, and the label of
\* every event where there is no second connection (server.rs, client.rs, run.rs).
THEOREM RequestsAreAnsweredCorrect == IpcSpec => []RequestsAreAnswered
<1>1. EndInv => LabelsAreOwn
  BY DEF EndInv
<1> QED
  BY <1>1, TurnEndsInductive, AnsweredInOrderCorrect, TurnEndIsSeenCorrect, PTL DEF RequestsAreAnswered
==============================================================================
