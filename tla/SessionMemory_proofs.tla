-------------------------- MODULE SessionMemory_proofs --------------------------
(***************************************************************************)
(* A first compaction drops nothing of what the session is about, whatever  *)
(* a refresh is doing to the two files, and no compaction, unwind or        *)
(* restart separates a result from its call.                                *)
(***************************************************************************)
EXTENDS SessionMemory, Positions_proofs

USE DEF vars, memory, memory_files

Stages == {"scheduled", "summary", "metadata"}
Tasks == [stage : Stages, history : Histories]
Counters == {"compactions", "unwinds", "checkpoints", "restarts", "failures"}

MemoryTypeOK ==
  /\ history \in Histories
  /\ saved \in [taken : BOOLEAN, history : Histories, last_index : Nat]
  /\ place \in {"ready", "model"}
  /\ loaded \in Seq(Files) /\ Len(loaded) <= 1
  /\ in_flight \in BOOLEAN /\ last_index \in Nat
  /\ summary \in Files /\ metadata \in Nat
  /\ tasks \in Seq(Tasks) /\ finished \in Seq(Nat)
  /\ said \in Nat /\ said <= MaxMessages /\ live \subseteq Ids
  /\ counts \in [Counters -> Nat]

\* Every result of a history is right behind its call.
ResultsFollow(h) ==
  \A i \in DOMAIN h : h[i].kind = "result" => IsKind(h, i - 1, "use")

HistoriesInRounds == ResultsFollow(history) /\ ResultsFollow(saved.history)

\* Without an unwind, a restart or a failed write there is at most one refresh,
\* from its start until its report is taken.
OneRefresh ==
  /\ Len(tasks) + Len(finished) <= 1
  /\ in_flight = TRUE <=> Len(tasks) + Len(finished) = 1

\* What the first n messages of a history stand for, and a file that tells of
\* just those.
UpTo(h, n) == UNION {h[i].covers : i \in 1 .. n}
TellsOf(h, file, n) == file.covers = UpTo(h, n) /\ (file.written = TRUE <=> n # 0)

\* A refresh has a beginning of the history that goes beyond the last one's.
RefreshesGoOn ==
  \A t \in DOMAIN tasks :
    /\ last_index < Len(tasks[t].history)
    /\ Len(tasks[t].history) <= Len(history)
    /\ \A i \in DOMAIN tasks[t].history : tasks[t].history[i] = history[i]

\* The two files tell of the same messages but for the time between the two
\* writes; the session knows the boundary but for the time until the report.
FilesInStep ==
  /\ Len(tasks) = 0 => TellsOf(history, summary, metadata)
  /\ \A t \in DOMAIN tasks :
       /\ tasks[t].stage = "scheduled" => TellsOf(history, summary, metadata)
       /\ tasks[t].stage # "scheduled" => TellsOf(history, summary, Len(tasks[t].history))
       /\ tasks[t].stage # "metadata" => metadata = last_index
       /\ tasks[t].stage = "metadata" => metadata = Len(tasks[t].history)
  /\ Len(tasks) = 0 /\ Len(finished) = 0 => metadata = last_index
  /\ \A i \in DOMAIN finished : finished[i] = metadata
  /\ metadata <= Len(history) /\ last_index <= metadata

\* The summary a compaction has read is that of one of the two boundaries it
\* compares, unless it found the file emptied.
LoadedIsKnown ==
  Len(loaded) = 1 =>
    \/ loaded[1].written = FALSE
    \/ TellsOf(history, loaded[1], metadata)
    \/ TellsOf(history, loaded[1], last_index)

NothingSummarized == \A i \in DOMAIN history : history[i].kind # "summary"

\* Nothing went wrong, and no compaction has changed the history yet.
Undisturbed == Incidents = 0
Uncompacted ==
  /\ Undisturbed
  /\ counts.compactions = 0 \/ (counts.compactions = 1 /\ Len(loaded) = 1)

BoundaryIsTold ==
  /\ NothingSummarized
  /\ RefreshesGoOn
  /\ FilesInStep
  /\ LoadedIsKnown

\* A compaction that has read the summary is counted.
CompactionsAreCounted == Len(loaded) <= counts.compactions

MemoryInv ==
  /\ MemoryTypeOK
  /\ CompactionsAreCounted
  /\ HistoriesInRounds
  /\ Undisturbed => OneRefresh
  /\ Uncompacted => BoundaryIsTold
  /\ FirstCompactionLosesNothing
-------------------------------------------------------------------------------
(* Histories.                                                               *)

Entry == [kind : {"user", "text", "use", "result", "summary"}, covers : SUBSET Ids]

LEMMA HistoryFacts ==
  ASSUME NEW h \in Histories
  PROVE  /\ h \in Seq(Entry) /\ Len(h) \in Nat /\ DOMAIN h = 1 .. Len(h)
         /\ \A i \in DOMAIN h : h[i] \in Entry /\ h[i].covers \subseteq Ids
         /\ Covers(h) \subseteq Ids
<1>1. h \in Seq(Entry)
  BY DEF Histories, Entry
<1>2. \A i \in DOMAIN h : h[i] \in Entry
  BY <1>1
<1>3. \A i \in DOMAIN h : h[i].covers \subseteq Ids
  BY <1>2 DEF Entry
<1>4. Len(h) \in Nat /\ DOMAIN h = 1 .. Len(h)
  BY <1>1
<1> QED
  BY <1>1, <1>2, <1>3, <1>4 DEF Covers

LEMMA UpToFacts ==
  ASSUME NEW h \in Histories
  PROVE  /\ UpTo(h, Len(h)) = Covers(h)
         /\ UpTo(h, 0) = {}
         /\ \A n \in Nat : n <= Len(h) => UpTo(h, n) \subseteq Ids
<1>1. DOMAIN h = 1 .. Len(h) /\ Len(h) \in Nat /\ \A i \in DOMAIN h : h[i].covers \subseteq Ids
  BY HistoryFacts
<1>2. UpTo(h, Len(h)) = Covers(h)
  BY <1>1 DEF UpTo, Covers
<1>3. UpTo(h, 0) = {}
  BY DEF UpTo
<1>4. ASSUME NEW n \in Nat, n <= Len(h) PROVE UpTo(h, n) \subseteq Ids
  <2>1. \A i \in 1 .. n : i \in DOMAIN h
    BY <1>1, <1>4
  <2> QED
    BY <1>1, <2>1 DEF UpTo
<1> QED
  BY <1>2, <1>3, <1>4

\* What is said is added at the end.
Grows(h, g) ==
  /\ h \in Histories /\ g \in Histories
  /\ Len(h) <= Len(g)
  /\ \A i \in 1 .. Len(h) : g[i] = h[i]

LEMMA GrownCovers ==
  ASSUME NEW h, NEW g, Grows(h, g)
  PROVE  /\ Covers(h) \subseteq Covers(g)
         /\ \A n \in Nat : n <= Len(h) => UpTo(g, n) = UpTo(h, n)
<1>1. /\ DOMAIN h = 1 .. Len(h) /\ Len(h) \in Nat
      /\ DOMAIN g = 1 .. Len(g) /\ Len(g) \in Nat
  BY HistoryFacts DEF Grows
<1>2. Covers(h) \subseteq Covers(g)
  <2>1. \A i \in DOMAIN h : i \in DOMAIN g /\ g[i] = h[i]
    BY <1>1 DEF Grows
  <2> QED
    BY <2>1 DEF Covers
<1>3. ASSUME NEW n \in Nat, n <= Len(h) PROVE UpTo(g, n) = UpTo(h, n)
  <2>1. \A i \in 1 .. n : g[i] = h[i]
    <3>1. \A i \in 1 .. n : i \in 1 .. Len(h)
      BY <1>1, <1>3
    <3> QED
      BY <3>1 DEF Grows
  <2> QED
    BY <2>1 DEF UpTo
<1> QED
  BY <1>2, <1>3

\* live_tail_start and provider_safe_tail_start leave no result first.
LEMMA LiveTailIsSafe ==
  ASSUME NEW h \in Histories, ResultsFollow(h)
  PROVE  /\ LiveTailStart(h) \in 1 .. Len(h) + 1
         /\ ~ IsKind(h, LiveTailStart(h), "result")
<1>1. DOMAIN h = 1 .. Len(h) /\ Len(h) \in Nat
  BY HistoryFacts
<1>2. PICK n : n = Len(h)
  OBVIOUS
<1>3. CASE IsKind(h, n, "result")
  <2>1. IsKind(h, n - 1, "use")
    BY <1>3 DEF IsKind, ResultsFollow
  <2>2. LiveTailStart(h) = n - 1
    BY <1>2, <1>3, <2>1 DEF LiveTailStart
  <2>3. n - 1 \in 1 .. Len(h) /\ ~ IsKind(h, n - 1, "result")
    BY <1>1, <2>1 DEF IsKind
  <2> QED
    BY <1>1, <2>2, <2>3
<1>4. CASE ~ IsKind(h, n, "result") /\ (IsKind(h, n, "use") \/ IsKind(h, n, "user"))
  <2>1. LiveTailStart(h) = n
    BY <1>2, <1>4 DEF LiveTailStart
  <2>2. n \in 1 .. Len(h)
    BY <1>1, <1>4 DEF IsKind
  <2> QED
    BY <1>1, <1>4, <2>1, <2>2
<1>5. CASE ~ IsKind(h, n, "result") /\ ~ (IsKind(h, n, "use") \/ IsKind(h, n, "user"))
  <2>1. LiveTailStart(h) = n + 1
    BY <1>2, <1>5 DEF LiveTailStart
  <2>2. n + 1 \in 1 .. Len(h) + 1 /\ n + 1 \notin DOMAIN h
    BY <1>1, <1>2
  <2> QED
    BY <2>1, <2>2 DEF IsKind
<1> QED
  BY <1>3, <1>4, <1>5

LEMMA SafeTailIsSafe ==
  ASSUME NEW h \in Histories, NEW candidate \in Nat, candidate >= 1,
         ProviderSafeTailStart(h, candidate) # 0
  PROVE  /\ ProviderSafeTailStart(h, candidate) \in 1 .. Len(h) + 1
         /\ ProviderSafeTailStart(h, candidate) <= candidate
         /\ ~ IsKind(h, ProviderSafeTailStart(h, candidate), "result")
<1>1. DOMAIN h = 1 .. Len(h) /\ Len(h) \in Nat
  BY HistoryFacts
<1>2. ~ candidate > Len(h) + 1
  BY DEF ProviderSafeTailStart
<1>3. candidate \in 1 .. Len(h) + 1
  BY <1>1, <1>2
<1>4. CASE ~ IsKind(h, candidate, "result")
  <2>1. ProviderSafeTailStart(h, candidate) = candidate
    BY <1>2, <1>4 DEF ProviderSafeTailStart
  <2> QED
    BY <1>3, <1>4, <2>1
<1>5. CASE IsKind(h, candidate, "result")
  <2>1. IsKind(h, candidate - 1, "use") /\ ProviderSafeTailStart(h, candidate) = candidate - 1
    BY <1>2, <1>5 DEF ProviderSafeTailStart
  <2>2. candidate - 1 \in 1 .. Len(h) /\ ~ IsKind(h, candidate - 1, "result")
    BY <1>1, <2>1 DEF IsKind
  <2> QED
    BY <1>1, <1>3, <2>1, <2>2
<1> QED
  BY <1>4, <1>5

\* A plan for a history and what it makes of it.
Planned(h, ids, t, g) ==
  /\ h \in Histories /\ ids \in SUBSET Ids /\ t \in 1 .. Len(h) + 1
  /\ g = <<CompactSummary(ids)>> \o SubSeq(h, t, Len(h))

\* It drops nothing when it covers all that is not behind the tail, and keeps
\* the rounds when the tail does not begin within one.
PlanKeeps(h, ids, t, g) ==
  /\ g \in Histories
  /\ \A n \in Nat : t <= n + 1 /\ n <= Len(h) /\ UpTo(h, n) \subseteq ids
       => Covers(h) \subseteq Covers(g)
  /\ ResultsFollow(h) /\ ~ IsKind(h, t, "result") => ResultsFollow(g)

\* apply_compaction_plan: what the plan covers and what is behind the tail.
LEMMA PlanApplied ==
  ASSUME NEW h, NEW ids, NEW t, NEW g, Planned(h, ids, t, g)
  PROVE  PlanKeeps(h, ids, t, g)
<1> SUFFICES ASSUME h \in Histories, ids \in SUBSET Ids, t \in 1 .. Len(h) + 1,
                    g = <<CompactSummary(ids)>> \o SubSeq(h, t, Len(h))
             PROVE  PlanKeeps(h, ids, t, g)
  BY DEF Planned
<1>1. h \in Seq(Entry) /\ DOMAIN h = 1 .. Len(h) /\ Len(h) \in Nat
  BY HistoryFacts
<1> DEFINE tail == SubSeq(h, t, Len(h))
           top == CompactSummary(ids)
<1>2. /\ tail \in Seq(Entry) /\ Len(tail) = Len(h) - t + 1
      /\ \A n \in 1 .. Len(h) - t + 1 : tail[n] = h[t + n - 1]
  BY <1>1
<1>3. top \in Entry /\ top.kind = "summary" /\ top.covers = ids
  BY DEF CompactSummary, Entry
<1> HIDE DEF tail, top
<1>4. <<top>> \in Seq(Entry) /\ Len(<<top>>) = 1 /\ <<top>>[1] = top
  BY <1>3
<1>5. g = <<top>> \o tail
  BY DEF tail, top
<1>6. g \in Seq(Entry) /\ Len(g) = Len(h) - t + 2 /\ g[1] = top
  BY <1>1, <1>2, <1>4, <1>5
<1>7. ASSUME NEW n \in 2 .. Len(h) - t + 2
      PROVE  t + n - 2 \in DOMAIN h /\ g[n] = h[t + n - 2]
  <2>1. n - 1 \in 1 .. Len(h) - t + 1 /\ t + n - 2 \in DOMAIN h
    BY <1>1
  <2>2. g[n] = tail[n - 1]
    <3>1. n \in Nat /\ n > Len(<<top>>) /\ n <= Len(<<top>>) + Len(tail)
      BY <1>1, <1>2, <1>4
    <3>2. (<<top>> \o tail)[n] = tail[n - Len(<<top>>)]
      BY <1>2, <1>4, <3>1
    <3> QED
      BY <1>4, <1>5, <3>2
  <2>3. tail[n - 1] = h[t + (n - 1) - 1]
    BY <1>2, <2>1
  <2>4. t + (n - 1) - 1 = t + n - 2
    BY <2>1
  <2> QED
    BY <2>1, <2>2, <2>3, <2>4
<1>8. DOMAIN g = 1 .. Len(h) - t + 2
  BY <1>6
<1>9. ASSUME NEW n \in Nat, t <= n + 1, n <= Len(h), UpTo(h, n) \subseteq ids
      PROVE  Covers(h) \subseteq Covers(g)
  <2>1. ASSUME NEW i \in DOMAIN h PROVE h[i].covers \subseteq Covers(g)
    <3>1. CASE i \in 1 .. n
      <4>1. h[i].covers \subseteq ids
        BY <1>9, <3>1 DEF UpTo
      <4>2. ids \subseteq Covers(g)
        <5>1. 1 \in DOMAIN g
          BY <1>1, <1>8
        <5> QED
          BY <1>3, <1>6, <5>1 DEF Covers
      <4> QED
        BY <4>1, <4>2
    <3>2. CASE i \notin 1 .. n
      <4>0. i \in Nat /\ i >= t /\ i <= Len(h)
        <5>1. i \in 1 .. Len(h) /\ ~ i <= n
          BY <1>1, <3>2
        <5> QED
          BY <1>1, <1>9, <5>1
      <4>1. i - t + 2 \in 2 .. Len(h) - t + 2 /\ t + (i - t + 2) - 2 = i
        BY <1>1, <4>0
      <4>2. i - t + 2 \in DOMAIN g /\ g[i - t + 2] = h[i]
        BY <1>7, <1>8, <4>1
      <4> QED
        BY <4>2 DEF Covers
    <3> QED
      BY <3>1, <3>2
  <2> QED
    BY <2>1 DEF Covers
<1>10. ASSUME ResultsFollow(h), ~ IsKind(h, t, "result"),
              NEW n \in DOMAIN g, g[n].kind = "result"
       PROVE  IsKind(g, n - 1, "use")
  <2>1. n # 1
    BY <1>3, <1>6, <1>10
  <2>2. n \in 2 .. Len(h) - t + 2
    BY <1>1, <1>8, <2>1
  <2>3. t + n - 2 \in DOMAIN h /\ g[n] = h[t + n - 2]
    BY <1>7, <2>2
  <2>4. n # 2
    <3>1. ASSUME n = 2 PROVE FALSE
      <4>1. t + n - 2 = t
        BY <3>1
      <4> QED
        BY <1>10, <2>3, <4>1 DEF IsKind
    <3> QED
      BY <3>1
  <2>5. IsKind(h, (t + n - 2) - 1, "use")
    BY <1>10, <2>3 DEF ResultsFollow
  <2>6. n - 1 \in 2 .. Len(h) - t + 2 /\ (t + n - 2) - 1 = t + (n - 1) - 2
    BY <1>1, <2>2, <2>4
  <2>7. g[n - 1] = h[t + (n - 1) - 2]
    BY <1>7, <2>6
  <2> QED
    BY <1>8, <2>2, <2>5, <2>6, <2>7 DEF IsKind
<1> QED
  BY <1>6, <1>9, <1>10 DEF Histories, Entry, ResultsFollow, PlanKeeps

\* sanitize_restored_history and the cut of unwind_history.
LEMMA SanitizeInRounds ==
  ASSUME NEW h \in Histories, ResultsFollow(h)
  PROVE  Sanitize(h) \in Histories /\ ResultsFollow(Sanitize(h))
<1> DEFINE answered == {i \in DOMAIN h : h[i].kind = "use" => IsKind(h, i + 1, "result")}
           size == Cardinality(answered)
           g == Sanitize(h)
<1>1. /\ DOMAIN h = 1 .. Len(h) /\ Len(h) \in Nat
      /\ \A i \in DOMAIN h : h[i] \in Entry
  BY HistoryFacts
<1>2. answered \in SUBSET (1 .. Len(h))
  BY <1>1
<1>3. g = [n \in 1 .. size |->
             h[CHOOSE i \in answered : Cardinality({j \in answered : j <= i}) = n]]
  BY DEF Sanitize
<1>4. \A i \in DOMAIN h : i \in answered <=> (h[i].kind = "use" => IsKind(h, i + 1, "result"))
  OBVIOUS
<1> HIDE DEF answered, g
<1>5. PICK pos \in [1 .. size -> answered] :
        /\ size \in Nat
        /\ \A m, n \in 1 .. size : m < n => pos[m] < pos[n]
        /\ \A p \in answered : \E n \in 1 .. size : pos[n] = p
        /\ g = [n \in 1 .. size |-> h[pos[n]]]
  <2>1. /\ size \in Nat
        /\ \E pos \in [1 .. size -> answered] :
             /\ \A m, n \in 1 .. size : m < n => pos[m] < pos[n]
             /\ \A p \in answered : \E n \in 1 .. size : pos[n] = p
             /\ \A s : [n \in 1 .. size |->
                          s[CHOOSE p \in answered : Cardinality({q \in answered : q <= p}) = n]]
                       = [n \in 1 .. size |-> s[pos[n]]]
    BY <1>1, <1>2, PositionsInOrder
  <2>2. PICK pos \in [1 .. size -> answered] :
          /\ \A m, n \in 1 .. size : m < n => pos[m] < pos[n]
          /\ \A p \in answered : \E n \in 1 .. size : pos[n] = p
          /\ \A s : [n \in 1 .. size |->
                       s[CHOOSE p \in answered : Cardinality({q \in answered : q <= p}) = n]]
                    = [n \in 1 .. size |-> s[pos[n]]]
    BY <2>1, Zenon
  <2>3. g = [n \in 1 .. size |-> h[pos[n]]]
    BY <1>3, <2>2, Zenon
  <2> QED
    BY <2>1, <2>2, <2>3
<1> HIDE DEF size
<1>6. \A n \in 1 .. size : pos[n] \in DOMAIN h /\ g[n] = h[pos[n]] /\ pos[n] \in answered
  BY <1>1, <1>2, <1>5
<1>7. g \in Seq(Entry) /\ Len(g) = size /\ DOMAIN g = 1 .. size
  BY <1>1, <1>5, <1>6
<1>8. ASSUME NEW n \in DOMAIN g, g[n].kind = "result" PROVE IsKind(g, n - 1, "use")
  <2>1. n \in 1 .. size /\ n \in Nat
    BY <1>5, <1>7
  <2>2. PICK p : p = pos[n]
    OBVIOUS
  <2>3. p \in DOMAIN h /\ g[n] = h[p] /\ p \in Nat
    BY <1>1, <1>6, <2>1, <2>2
  <2>4. p - 1 \in DOMAIN h /\ h[p - 1].kind = "use"
    BY <1>8, <2>3 DEF ResultsFollow, IsKind
  <2>5. (p - 1) + 1 = p
    BY <2>3
  <2>6. p - 1 \in answered
    BY <1>4, <1>8, <2>3, <2>4, <2>5 DEF IsKind
  <2>7. PICK m \in 1 .. size : pos[m] = p - 1
    BY <1>5, <2>6
  <2>8. m \in Int /\ n \in Int /\ size \in Int
    BY <1>5, <2>1
  <2>9. m < n
    <3>1. ~ n < m
      <4>1. n < m => p < p - 1
        BY <1>5, <2>1, <2>2, <2>7, Zenon
      <4> QED
        BY <2>3, <4>1
    <3>2. n # m
      BY <2>2, <2>3, <2>7
    <3> QED
      BY <2>8, <3>1, <3>2
  <2>10. m = n - 1
    <3>1. ASSUME m < n - 1 PROVE FALSE
      <4>1. PICK k : k = n - 1
        OBVIOUS
      <4>2. k \in 1 .. size /\ m < k /\ k < n
        BY <2>1, <2>8, <3>1, <4>1
      <4>3. pos[m] < pos[k] /\ pos[k] < pos[n]
        BY <1>5, <2>1, <4>2, Zenon
      <4>4. pos[k] \in Nat
        BY <1>1, <1>6, <4>2
      <4> QED
        BY <2>2, <2>3, <2>7, <4>3, <4>4
    <3> QED
      BY <2>8, <2>9, <3>1
  <2>11. g[m] = h[p - 1] /\ m \in DOMAIN g
    BY <1>6, <1>7, <2>7
  <2> QED
    BY <2>4, <2>10, <2>11 DEF IsKind
<1>9. g \in Histories
  BY <1>7 DEF Histories, Entry
<1>10. ResultsFollow(g)
  BY <1>8 DEF ResultsFollow
<1> QED
  BY <1>9, <1>10 DEF g

LEMMA PrefixInRounds ==
  ASSUME NEW h \in Histories, ResultsFollow(h), NEW i \in DOMAIN h
  PROVE  SubSeq(h, 1, i - 1) \in Histories /\ ResultsFollow(SubSeq(h, 1, i - 1))
<1>1. h \in Seq(Entry) /\ DOMAIN h = 1 .. Len(h) /\ Len(h) \in Nat
  BY HistoryFacts
<1>2. PICK g : g = SubSeq(h, 1, i - 1)
  OBVIOUS
<1>3. /\ g \in Seq(Entry) /\ DOMAIN g = 1 .. i - 1
      /\ \A n \in DOMAIN g : n \in DOMAIN h /\ g[n] = h[n]
  BY <1>1, <1>2
<1>4. ASSUME NEW n \in DOMAIN g, g[n].kind = "result" PROVE IsKind(g, n - 1, "use")
  <2>1. IsKind(h, n - 1, "use")
    BY <1>3, <1>4 DEF ResultsFollow
  <2>2. n - 1 \in DOMAIN g
    BY <1>1, <1>3, <2>1 DEF IsKind
  <2> QED
    BY <1>3, <2>1, <2>2 DEF IsKind
<1> QED
  BY <1>2, <1>3, <1>4 DEF ResultsFollow, Histories, Entry

-------------------------------------------------------------------------------
(* What is said.                                                            *)

Kinds == {"user", "text", "use", "result"}

LEMMA SayGrows ==
  ASSUME MemoryTypeOK, MemoryAssumption, NEW kinds \in Seq(Kinds), Say(kinds),
         \A i \in DOMAIN kinds : kinds[i] = "result" =>
           i - 1 \in DOMAIN kinds /\ kinds[i - 1] = "use"
  PROVE  /\ Grows(history, history')
         /\ said' \in Nat /\ said' <= MaxMessages /\ live' \subseteq Ids
         /\ live \subseteq Covers(history) => live' \subseteq Covers(history')
         /\ ResultsFollow(history) => ResultsFollow(history')
         /\ NothingSummarized => NothingSummarized'
<1> DEFINE added == [i \in DOMAIN kinds |-> Message(kinds[i], said + i)]
           n == Len(history)
           k == Len(kinds)
<1>1. /\ history \in Seq(Entry) /\ n \in Nat /\ DOMAIN history = 1 .. n
      /\ k \in Nat /\ DOMAIN kinds = 1 .. k
      /\ said \in Nat /\ said + k <= MaxMessages /\ MaxMessages \in Nat
  BY HistoryFacts DEF MemoryTypeOK, Say, MemoryAssumption
<1>2. \A i \in 1 .. k : /\ said + i \in Ids
                        /\ added[i] \in Entry
                        /\ added[i].kind = kinds[i] /\ added[i].covers = {said + i}
  <2> TAKE i \in 1 .. k
  <2>1. said + i \in Ids
    BY <1>1 DEF Ids
  <2>2. kinds[i] \in Kinds
    BY <1>1
  <2>3. added[i] = [kind |-> kinds[i], covers |-> {said + i}]
    BY <1>1 DEF Message
  <2> QED
    BY <2>1, <2>2, <2>3 DEF Entry, Kinds
<1>3. added \in Seq(Entry) /\ Len(added) = k
  BY <1>1, <1>2
<1>4. history' = history \o added
  BY DEF Say
<1> HIDE DEF added, k, n
<1>5. history' \in Seq(Entry) /\ Len(history') = n + k
  <2>1. history \in Seq(Entry) /\ added \in Seq(Entry)
    BY <1>1, <1>3
  <2>2. history \o added \in Seq(Entry) /\ Len(history \o added) = Len(history) + Len(added)
    BY <2>1
  <2> QED
    BY <1>3, <1>4, <2>2 DEF n
<1>6. \A i \in 1 .. n : history'[i] = history[i]
  BY <1>1, <1>3, <1>4 DEF n
<1>7. \A i \in 1 .. k : history'[n + i] = added[i]
  BY <1>1, <1>3, <1>4 DEF n
<1>8. DOMAIN history' = 1 .. n + k /\ Len(history) = n
  BY <1>5 DEF n
<1>9. Grows(history, history')
  <2>1. history \in Histories /\ history' \in Histories
    BY <1>1, <1>5 DEF Histories, Entry
  <2>2. Len(history) <= Len(history')
    BY <1>1, <1>5, <1>8
  <2> QED
    BY <1>6, <1>8, <2>1, <2>2 DEF Grows
<1>10. ASSUME NEW i \in DOMAIN history'
       PROVE  i \in 1 .. n \/ \E j \in 1 .. k : i = n + j /\ history'[i] = added[j]
  <2>1. i \in 1 .. n \/ i - n \in 1 .. k
    BY <1>1, <1>8
  <2>2. CASE i - n \in 1 .. k
    <3>1. i = n + (i - n)
      BY <1>1, <1>8
    <3> QED
      BY <1>7, <2>2, <3>1
  <2> QED
    BY <2>1, <2>2
<1>11. said' = said + k /\ live' = live \cup (said + 1 .. said + k)
  BY DEF Say, k
<1>12. said' \in Nat /\ said' <= MaxMessages /\ live' \subseteq Ids
  <2>1. live \subseteq Ids
    BY DEF MemoryTypeOK
  <2>2. said + 1 .. said + k \subseteq Ids
    BY <1>1 DEF Ids
  <2> QED
    BY <1>1, <1>11, <2>1, <2>2
<1>13. ASSUME live \subseteq Covers(history) PROVE live' \subseteq Covers(history')
  <2>1. ASSUME NEW x \in said + 1 .. said + k PROVE x \in Covers(history')
    <3>1. x - said \in 1 .. k /\ x = said + (x - said)
      BY <1>1, <2>1
    <3>2. PICK i \in 1 .. k : x = said + i
      BY <3>1
    <3>3. x \in history'[n + i].covers /\ n + i \in DOMAIN history'
      <4>1. history'[n + i].covers = {said + i}
        BY <1>2, <1>7
      <4>2. n + i \in 1 .. n + k
        BY <1>1
      <4> QED
        BY <1>8, <3>2, <4>1, <4>2
    <3> QED
      BY <3>3 DEF Covers
  <2>2. Covers(history) \subseteq Covers(history')
    BY <1>9, GrownCovers
  <2> QED
    BY <1>11, <1>13, <2>1, <2>2
<1>14. ASSUME ResultsFollow(history), NEW i \in DOMAIN history', history'[i].kind = "result"
       PROVE  IsKind(history', i - 1, "use")
  <2>1. CASE i \in 1 .. n
    <3>1. IsKind(history, i - 1, "use")
      BY <1>1, <1>6, <1>14, <2>1 DEF ResultsFollow
    <3>2. i - 1 \in 1 .. n /\ i - 1 \in DOMAIN history'
      BY <1>1, <1>8, <3>1 DEF IsKind
    <3> QED
      BY <1>6, <3>1, <3>2 DEF IsKind
  <2>2. CASE i \notin 1 .. n
    <3>1. PICK j \in 1 .. k : i = n + j /\ history'[i] = added[j]
      BY <1>10, <2>2
    <3>2. kinds[j] = "result"
      BY <1>2, <1>14, <3>1
    <3>3. j - 1 \in 1 .. k /\ kinds[j - 1] = "use"
      BY <1>1, <3>1, <3>2
    <3>4. i - 1 = n + (j - 1) /\ n + (j - 1) \in 1 .. n + k
      BY <1>1, <3>1, <3>3
    <3>5. history'[i - 1].kind = "use"
      BY <1>2, <1>7, <3>3, <3>4
    <3> QED
      BY <1>8, <3>4, <3>5 DEF IsKind
  <2> QED
    BY <2>1, <2>2
<1>15. ASSUME NothingSummarized, NEW i \in DOMAIN history' PROVE history'[i].kind # "summary"
  <2>1. CASE i \in 1 .. n
    BY <1>1, <1>6, <1>15, <2>1 DEF NothingSummarized
  <2>2. CASE i \notin 1 .. n
    <3>1. PICK j \in 1 .. k : i = n + j /\ history'[i] = added[j]
      BY <1>10, <2>2
    <3>2. kinds[j] \in Kinds /\ added[j].kind = kinds[j]
      BY <1>1, <1>2, <3>1
    <3> QED
      BY <3>1, <3>2 DEF Kinds
  <2> QED
    BY <2>1, <2>2
<1> QED
  BY <1>9, <1>12, <1>13, <1>14, <1>15 DEF ResultsFollow, NothingSummarized

-------------------------------------------------------------------------------
(* Counters and tasks.                                                      *)

LEMMA Counted ==
  ASSUME MemoryTypeOK, NEW what \in Counters, NEW bound, Count(what, bound)
  PROVE  /\ counts' \in [Counters -> Nat]
         /\ counts'[what] = counts[what] + 1
         /\ \A c \in Counters \ {what} : counts'[c] = counts[c]
  BY DEF MemoryTypeOK, Count

LEMMA IncidentDisturbs ==
  ASSUME MemoryTypeOK, NEW what \in {"unwinds", "restarts", "failures"}, NEW bound,
         Incident(what, bound)
  PROVE  /\ counts' \in [Counters -> Nat] /\ counts'.compactions = counts.compactions
         /\ ~ Undisturbed'
<1>1. what \in Counters /\ Count(what, bound)
  BY DEF Incident, Counters
<1>2. /\ counts' \in [Counters -> Nat] /\ counts \in [Counters -> Nat]
      /\ counts'[what] = counts[what] + 1
      /\ counts'.compactions = counts.compactions
  BY <1>1, Counted DEF MemoryTypeOK, Counters
<1>3. /\ counts'.unwinds \in Nat /\ counts'.restarts \in Nat /\ counts'.failures \in Nat
      /\ counts[what] \in Nat
  BY <1>1, <1>2 DEF Counters
<1>4. counts'.unwinds >= 1 \/ counts'.restarts >= 1 \/ counts'.failures >= 1
  BY <1>2, <1>3
<1>5. Incidents' # 0
  BY <1>3, <1>4 DEF Incidents
<1> QED
  BY <1>2, <1>5 DEF Undisturbed

LEMMA Removed ==
  ASSUME NEW S, NEW s \in Seq(S), NEW i \in 1 .. Len(s)
  PROVE  RemoveAt(s, i) \in Seq(S) /\ Len(RemoveAt(s, i)) = Len(s) - 1
<1>1. /\ SubSeq(s, 1, i - 1) \in Seq(S) /\ Len(SubSeq(s, 1, i - 1)) = i - 1
      /\ SubSeq(s, i + 1, Len(s)) \in Seq(S) /\ Len(SubSeq(s, i + 1, Len(s))) = Len(s) - i
  OBVIOUS
<1>2. RemoveAt(s, i) = SubSeq(s, 1, i - 1) \o SubSeq(s, i + 1, Len(s))
  BY DEF RemoveAt
<1>3. \A a, b \in Seq(S) : a \o b \in Seq(S) /\ Len(a \o b) = Len(a) + Len(b)
  OBVIOUS
<1>4. /\ RemoveAt(s, i) \in Seq(S)
      /\ Len(RemoveAt(s, i)) = (i - 1) + (Len(s) - i)
  BY <1>1, <1>2, <1>3
<1> QED
  BY <1>4

LEMMA Advanced ==
  ASSUME MemoryTypeOK, NEW i \in DOMAIN tasks, NEW stage \in Stages, Advance(i, stage)
  PROVE  /\ tasks' \in Seq(Tasks) /\ Len(tasks') = Len(tasks)
         /\ tasks'[i].stage = stage /\ tasks'[i].history = tasks[i].history
<1>1. tasks \in Seq(Tasks) /\ tasks[i] \in Tasks
  BY DEF MemoryTypeOK
<1>2. PICK task : task = [stage |-> stage, history |-> tasks[i].history]
  OBVIOUS
<1>3. task \in Tasks /\ task.stage = stage /\ task.history = tasks[i].history
  BY <1>1, <1>2 DEF Tasks
<1>4. [tasks[i] EXCEPT !.stage = stage] = task
  BY <1>1, <1>2 DEF Tasks
<1>5. tasks' = [tasks EXCEPT ![i] = task]
  BY <1>4 DEF Advance
<1> QED
  BY <1>1, <1>3, <1>5

\* What a reader, a failed write or a crash finds: the files or an emptied one.
LEMMA FoundFacts ==
  ASSUME MemoryTypeOK, NEW text, NEW index, Found(text, index)
  PROVE  text \in Files /\ index \in Nat
<1>1. NoSummary \in Files
  BY DEF NoSummary, Files
<1> QED
  BY <1>1 DEF Found, MemoryTypeOK

-------------------------------------------------------------------------------
(* The steps.                                                               *)

LEMMA MemoryInit ==
  ASSUME MemoryAssumption, Init PROVE MemoryInv
<1>1. /\ <<>> \in Histories /\ <<>> \in Seq(Files) /\ <<>> \in Seq(Tasks)
      /\ <<>> \in Seq(Nat) /\ Len(<<>>) = 0 /\ DOMAIN <<>> = {}
  BY DEF Histories
<1>2. /\ history = <<>> /\ loaded = <<>> /\ tasks = <<>> /\ finished = <<>>
      /\ saved = [taken |-> FALSE, history |-> <<>>, last_index |-> 0]
      /\ summary = [written |-> FALSE, covers |-> {}] /\ metadata = 0 /\ last_index = 0
      /\ in_flight = FALSE /\ said = 0 /\ live = {} /\ place = "ready"
  BY DEF Init, NoSummary
<1>3. saved.history = <<>>
      /\ saved \in [taken : BOOLEAN, history : Histories, last_index : Nat]
  BY <1>1, <1>2
<1>4. counts \in [Counters -> Nat]
  BY DEF Init, Counters
<1>5. summary \in Files
  BY <1>2 DEF Files
<1>6. MemoryTypeOK
  <2>1. history \in Histories /\ place \in {"ready", "model"} /\ in_flight \in BOOLEAN
    BY <1>1, <1>2
  <2>2. loaded \in Seq(Files) /\ Len(loaded) <= 1
    BY <1>1, <1>2
  <2>3. tasks \in Seq(Tasks) /\ finished \in Seq(Nat)
    BY <1>1, <1>2
  <2>4. /\ last_index \in Nat /\ metadata \in Nat /\ said \in Nat /\ said <= MaxMessages
        /\ live \subseteq Ids
    BY <1>2 DEF MemoryAssumption
  <2> QED
    BY <1>3, <1>4, <1>5, <2>1, <2>2, <2>3, <2>4 DEF MemoryTypeOK
<1>7. HistoriesInRounds
  BY <1>1, <1>2, <1>3 DEF HistoriesInRounds, ResultsFollow
<1>8. OneRefresh
  BY <1>1, <1>2 DEF OneRefresh
<1>9. UpTo(history, 0) = {}
  BY DEF UpTo
<1>10. BoundaryIsTold
  <2>1. NothingSummarized /\ RefreshesGoOn
    BY <1>1, <1>2 DEF NothingSummarized, RefreshesGoOn
  <2>2. TellsOf(history, summary, metadata)
    <3>1. summary.covers = {} /\ summary.written = FALSE
      BY <1>2
    <3> QED
      BY <1>2, <1>9, <3>1 DEF TellsOf
  <2>3. FilesInStep
    BY <1>1, <1>2, <2>2 DEF FilesInStep
  <2>4. LoadedIsKnown
    BY <1>1, <1>2 DEF LoadedIsKnown
  <2> QED
    BY <2>1, <2>3, <2>4 DEF BoundaryIsTold
<1>11. FirstCompactionLosesNothing
  BY <1>2 DEF FirstCompactionLosesNothing, CompactionLosesNothing
<1>12. CompactionsAreCounted
  BY <1>1, <1>2, <1>4 DEF CompactionsAreCounted, Counters
<1> QED
  BY <1>6, <1>7, <1>8, <1>10, <1>11, <1>12 DEF MemoryInv

\* Once something went wrong only the rounds are to be kept.
LEMMA DisturbedIsEnough ==
  ASSUME MemoryTypeOK', CompactionsAreCounted', HistoriesInRounds', ~ Undisturbed'
  PROVE  MemoryInv'
  BY DEF MemoryInv, Uncompacted, FirstCompactionLosesNothing, Undisturbed

\* Steps that touch neither the memory nor the history.
LEMMA MemoryRests ==
  ASSUME MemoryInv, place' \in {"ready", "model"},
         UNCHANGED <<history, loaded, memory, live, said>>,
         counts' \in [Counters -> Nat],
         \A c \in Counters \ {"checkpoints"} : counts'[c] = counts[c],
         saved' \in [taken : BOOLEAN, history : Histories, last_index : Nat],
         saved'.history \in {saved.history, history}
  PROVE  MemoryInv'
<1>1. MemoryTypeOK'
  BY DEF MemoryInv, MemoryTypeOK
<1>2. HistoriesInRounds'
  <2>1. PICK old : old = saved'.history
    OBVIOUS
  <2> QED
    BY <2>1 DEF MemoryInv, HistoriesInRounds
<1>0. /\ counts'.compactions = counts.compactions /\ counts'.unwinds = counts.unwinds
      /\ counts'.restarts = counts.restarts /\ counts'.failures = counts.failures
  BY DEF Counters
<1>3. /\ Undisturbed' = Undisturbed /\ Uncompacted' = Uncompacted
      /\ CompactionsAreCounted' = CompactionsAreCounted
  BY <1>0 DEF Undisturbed, Uncompacted, Incidents, CompactionsAreCounted
<1>4. OneRefresh' = OneRefresh /\ BoundaryIsTold' = BoundaryIsTold
  BY DEF OneRefresh, BoundaryIsTold, NothingSummarized, RefreshesGoOn, FilesInStep,
         LoadedIsKnown
<1>5. FirstCompactionLosesNothing'
  BY <1>0 DEF MemoryInv, FirstCompactionLosesNothing, CompactionLosesNothing, Incidents
<1> QED
  BY <1>1, <1>2, <1>3, <1>4, <1>5 DEF MemoryInv


\* UserMessage, ModelText, ToolRound, ToolCancelled and CallCut: what is said,
\* and the refresh that may be spawned for it.
LEMMA SayingIsSafe ==
  ASSUME MemoryInv, MemoryAssumption, NEW kinds \in Seq(Kinds), Say(kinds),
         \A i \in DOMAIN kinds : kinds[i] = "result" =>
           i - 1 \in DOMAIN kinds /\ kinds[i - 1] = "use",
         place' \in {"ready", "model"},
         UNCHANGED <<loaded, last_index, summary, metadata, finished, saved, counts>>,
         UNCHANGED <<in_flight, tasks>> \/ ScheduleRefresh(history')
  PROVE  MemoryInv'
<1>1. /\ Grows(history, history')
      /\ said' \in Nat /\ said' <= MaxMessages /\ live' \subseteq Ids
      /\ live \subseteq Covers(history) => live' \subseteq Covers(history')
      /\ ResultsFollow(history) => ResultsFollow(history')
      /\ NothingSummarized => NothingSummarized'
  BY SayGrows DEF MemoryInv
<1>2. PICK h : h = history'
  OBVIOUS
<1>3. /\ h \in Histories /\ Len(h) \in Nat /\ DOMAIN h = 1 .. Len(h) /\ Len(history) \in Nat
      /\ DOMAIN history = 1 .. Len(history)
      /\ Len(history) <= Len(h)
      /\ \A i \in 1 .. Len(history) : h[i] = history[i]
  BY <1>1, <1>2, HistoryFacts DEF Grows
<1>4. \/ UNCHANGED <<in_flight, tasks>>
      \/ /\ in_flight = FALSE /\ in_flight' = TRUE /\ Len(h) > last_index
         /\ tasks' = Append(tasks, [stage |-> "scheduled", history |-> h])
  BY <1>2 DEF ScheduleRefresh, ShouldRefresh, MemoryInv, MemoryTypeOK
<1>5. PICK task : task = [stage |-> "scheduled", history |-> h]
  OBVIOUS
<1>6. task \in Tasks /\ task.stage = "scheduled" /\ task.history = h
  BY <1>3, <1>5 DEF Tasks, Stages
<1>7. tasks \in Seq(Tasks) /\ Len(tasks) \in Nat /\ Len(finished) \in Nat /\ in_flight \in BOOLEAN
  BY DEF MemoryInv, MemoryTypeOK
<1>0. /\ Append(tasks, task) \in Seq(Tasks) /\ Len(Append(tasks, task)) = Len(tasks) + 1
      /\ \A t \in DOMAIN tasks : Append(tasks, task)[t] = tasks[t]
      /\ Append(tasks, task)[Len(tasks) + 1] = task
  BY <1>6, <1>7
<1>8. MemoryTypeOK'
  <2>1. tasks' \in Seq(Tasks) /\ in_flight' \in BOOLEAN
    BY <1>0, <1>4, <1>5, <1>7
  <2>2. history' \in Histories
    BY <1>2, <1>3
  <2> QED
    BY <1>1, <2>1, <2>2 DEF MemoryInv, MemoryTypeOK
<1>9. HistoriesInRounds'
  BY <1>1 DEF MemoryInv, HistoriesInRounds
<1>10. Undisturbed' = Undisturbed /\ Uncompacted' = Uncompacted
  BY DEF Undisturbed, Uncompacted, Incidents
<1>11. ASSUME OneRefresh, in_flight = FALSE PROVE Len(tasks) = 0 /\ Len(finished) = 0
  BY <1>7, <1>11 DEF OneRefresh
<1>12. Undisturbed' => OneRefresh'
  <2>1. SUFFICES ASSUME OneRefresh PROVE OneRefresh'
    BY <1>10 DEF MemoryInv
  <2>2. CASE UNCHANGED <<in_flight, tasks>>
    BY <2>1, <2>2 DEF OneRefresh
  <2>3. CASE in_flight = FALSE /\ in_flight' = TRUE /\ tasks' = Append(tasks, task)
    <3>1. Len(tasks) = 0 /\ Len(finished) = 0
      BY <1>11, <2>1, <2>3
    <3>2. Len(tasks') = 1
      BY <1>0, <2>3, <3>1
    <3>3. finished' = finished
      OBVIOUS
    <3> QED
      BY <2>3, <3>1, <3>2, <3>3 DEF OneRefresh
  <2> QED
    BY <1>4, <1>5, <2>2, <2>3
<1>13. ASSUME NEW file, NEW n \in Nat, n <= Len(history), TellsOf(history, file, n)
       PROVE  TellsOf(h, file, n)
  BY <1>1, <1>2, <1>13, GrownCovers DEF TellsOf
<1>14. ASSUME Uncompacted PROVE BoundaryIsTold'
  <2>1. BoundaryIsTold /\ OneRefresh
    BY <1>14 DEF MemoryInv, Uncompacted
  <2>2. RefreshesGoOn'
    <3>1. ASSUME NEW t \in DOMAIN tasks, UNCHANGED tasks \/ tasks' = Append(tasks, task)
          PROVE  tasks'[t] = tasks[t]
      BY <1>0, <3>1
    <3>2. ASSUME NEW t \in DOMAIN tasks
          PROVE  /\ last_index < Len(tasks[t].history) /\ Len(tasks[t].history) <= Len(h)
                 /\ \A i \in DOMAIN tasks[t].history : tasks[t].history[i] = h[i]
      <4>1. PICK g : g = tasks[t].history
        OBVIOUS
      <4>2. /\ last_index < Len(g) /\ Len(g) <= Len(history)
            /\ \A i \in DOMAIN g : g[i] = history[i]
        BY <2>1, <4>1 DEF BoundaryIsTold, RefreshesGoOn
      <4>3. g \in Histories
        <5>1. tasks[t] \in Tasks
          BY <1>7
        <5> QED
          BY <4>1, <5>1 DEF Tasks
      <4>4. Len(g) \in Nat /\ DOMAIN g = 1 .. Len(g)
        BY <4>3, HistoryFacts
      <4>5. \A i \in DOMAIN g : i \in 1 .. Len(history)
        BY <1>3, <4>2, <4>4
      <4> QED
        BY <1>3, <4>1, <4>2, <4>4, <4>5
    <3>3. ASSUME NEW t \in DOMAIN tasks'
          PROVE  /\ last_index < Len(tasks'[t].history) /\ Len(tasks'[t].history) <= Len(h)
                 /\ \A i \in DOMAIN tasks'[t].history : tasks'[t].history[i] = h[i]
      <4>1. CASE UNCHANGED tasks
        BY <3>2, <3>3, <4>1
      <4>2. CASE tasks' = Append(tasks, task) /\ Len(h) > last_index
        <5>1. CASE t \in DOMAIN tasks
          BY <3>1, <3>2, <4>2, <5>1
        <5>2. CASE t \notin DOMAIN tasks
          <6>1. tasks'[t] = task
            BY <1>6, <1>7, <3>3, <4>2, <5>2
          <6>2. last_index \in Nat
            BY DEF MemoryInv, MemoryTypeOK
          <6> QED
            BY <1>3, <1>6, <4>2, <6>1, <6>2
        <5> QED
          BY <5>1, <5>2
      <4> QED
        BY <1>4, <1>5, <4>1, <4>2
    <3> QED
      BY <1>2, <3>3 DEF RefreshesGoOn
  <2>3. FilesInStep'
    <3>0. /\ metadata \in Nat /\ metadata <= Len(history) /\ last_index <= metadata
          /\ last_index \in Nat
      BY <2>1 DEF BoundaryIsTold, FilesInStep, MemoryInv, MemoryTypeOK
    <3>1. CASE UNCHANGED <<in_flight, tasks>>
      <4>1. ASSUME NEW t \in DOMAIN tasks
            PROVE  /\ tasks[t].stage = "scheduled" => TellsOf(h, summary, metadata)
                   /\ tasks[t].stage # "scheduled" => TellsOf(h, summary, Len(tasks[t].history))
        <5>1. Len(tasks[t].history) <= Len(history)
          BY <2>1 DEF BoundaryIsTold, RefreshesGoOn
        <5>2. Len(tasks[t].history) \in Nat
          <6>1. tasks[t] \in Tasks
            BY <1>7
          <6> QED
            BY <6>1 DEF Tasks, Histories
        <5>3. /\ tasks[t].stage = "scheduled" => TellsOf(history, summary, metadata)
              /\ tasks[t].stage # "scheduled" =>
                   TellsOf(history, summary, Len(tasks[t].history))
          BY <2>1 DEF BoundaryIsTold, FilesInStep
        <5> QED
          BY <1>13, <3>0, <5>1, <5>2, <5>3
      <4>2. Len(tasks) = 0 => TellsOf(h, summary, metadata)
        BY <1>13, <2>1, <3>0 DEF BoundaryIsTold, FilesInStep
      <4>3. metadata <= Len(h)
        BY <1>3, <3>0
      <4> QED
        BY <1>2, <2>1, <3>1, <4>1, <4>2, <4>3 DEF BoundaryIsTold, FilesInStep
    <3>2. CASE in_flight = FALSE /\ tasks' = Append(tasks, task)
      <4>1. Len(tasks) = 0 /\ Len(finished) = 0
        BY <1>11, <2>1, <3>2
      <4>2. Len(tasks') = 1 /\ DOMAIN tasks' = {1} /\ tasks'[1] = task
        BY <1>6, <1>7, <3>2, <4>1
      <4>3. TellsOf(history, summary, metadata) /\ metadata = last_index
        BY <2>1, <4>1 DEF BoundaryIsTold, FilesInStep
      <4>4. TellsOf(h, summary, metadata)
        BY <1>13, <3>0, <4>3
      <4>5. metadata <= Len(h)
        BY <1>3, <3>0
      <4>6. DOMAIN finished = {}
        BY <4>1 DEF MemoryInv, MemoryTypeOK
      <4> QED
        BY <1>2, <1>6, <3>0, <4>2, <4>3, <4>4, <4>5, <4>6 DEF FilesInStep
    <3> QED
      BY <1>4, <1>5, <3>1, <3>2
  <2>4. LoadedIsKnown'
    <3>1. /\ metadata \in Nat /\ metadata <= Len(history) /\ last_index <= metadata
          /\ last_index \in Nat /\ last_index <= Len(history)
      BY <1>3, <2>1 DEF BoundaryIsTold, FilesInStep, MemoryInv, MemoryTypeOK
    <3>2. Len(loaded) = 1 =>
            \/ loaded[1].written = FALSE
            \/ TellsOf(h, loaded[1], metadata) \/ TellsOf(h, loaded[1], last_index)
      BY <1>13, <2>1, <3>1 DEF BoundaryIsTold, LoadedIsKnown
    <3> QED
      BY <1>2, <3>2 DEF LoadedIsKnown
  <2>5. NothingSummarized'
    BY <1>1, <2>1 DEF BoundaryIsTold
  <2> QED
    BY <2>2, <2>3, <2>4, <2>5 DEF BoundaryIsTold
<1>15. FirstCompactionLosesNothing'
  BY <1>1 DEF MemoryInv, FirstCompactionLosesNothing, CompactionLosesNothing, Incidents
<1>16. CompactionsAreCounted'
  BY DEF MemoryInv, CompactionsAreCounted
<1> QED
  BY <1>8, <1>9, <1>10, <1>12, <1>14, <1>15, <1>16 DEF MemoryInv

LEMMA TurnStepsAreSafe ==
  ASSUME MemoryInv, MemoryAssumption,
         UserMessage \/ ModelText \/ ToolRound \/ ToolCancelled \/ CallCut
  PROVE  MemoryInv'
<1>1. /\ <<"user">> \in Seq(Kinds) /\ DOMAIN <<"user">> = {1} /\ <<"user">>[1] = "user"
      /\ <<"text">> \in Seq(Kinds) /\ DOMAIN <<"text">> = {1} /\ <<"text">>[1] = "text"
      /\ <<"use">> \in Seq(Kinds) /\ DOMAIN <<"use">> = {1} /\ <<"use">>[1] = "use"
  BY DEF Kinds
<1>2. /\ <<"use", "result">> \in Seq(Kinds) /\ DOMAIN <<"use", "result">> = {1, 2}
      /\ <<"use", "result">>[1] = "use" /\ <<"use", "result">>[2] = "result"
  BY DEF Kinds
<1>0. PICK round : round = <<"use", "result">>
  OBVIOUS
<1>8. /\ round \in Seq(Kinds)
      /\ \A i \in DOMAIN round : round[i] = "result" =>
           i - 1 \in DOMAIN round /\ round[i - 1] = "use"
  BY <1>0, <1>2
<1>3. CASE UserMessage
  BY <1>1, <1>3, SayingIsSafe DEF UserMessage
<1>4. CASE ModelText
  BY <1>1, <1>4, SayingIsSafe DEF ModelText
<1>5. CASE ToolRound
  <2>1. place' \in {"ready", "model"}
    BY <1>5 DEF ToolRound, MemoryInv, MemoryTypeOK
  <2> QED
    BY <1>0, <1>5, <1>8, <2>1, SayingIsSafe DEF ToolRound
<1>6. CASE ToolCancelled
  BY <1>0, <1>6, <1>8, SayingIsSafe DEF ToolCancelled
<1>7. CASE CallCut
  BY <1>1, <1>7, SayingIsSafe DEF CallCut
<1> QED
  BY <1>3, <1>4, <1>5, <1>6, <1>7

-------------------------------------------------------------------------------
(* The refresh.                                                             *)

\* Steps of a refresh leave the history and what the session is about alone.
LEMMA RefreshMoves ==
  ASSUME MemoryInv,
         UNCHANGED <<history, place, loaded, live, said, saved, counts>>,
         in_flight' \in BOOLEAN, last_index' \in Nat, summary' \in Files,
         metadata' \in Nat, tasks' \in Seq(Tasks), finished' \in Seq(Nat),
         Undisturbed => OneRefresh',
         Uncompacted => RefreshesGoOn' /\ FilesInStep' /\ LoadedIsKnown'
  PROVE  MemoryInv'
<1>1. MemoryTypeOK' /\ HistoriesInRounds' /\ CompactionsAreCounted'
  BY DEF MemoryInv, MemoryTypeOK, HistoriesInRounds, CompactionsAreCounted
<1>2. Undisturbed' = Undisturbed /\ Uncompacted' = Uncompacted
  BY DEF Undisturbed, Uncompacted, Incidents
<1>3. FirstCompactionLosesNothing'
  BY DEF MemoryInv, FirstCompactionLosesNothing, CompactionLosesNothing, Incidents
<1>4. NothingSummarized' = NothingSummarized
  BY DEF NothingSummarized
<1> QED
  BY <1>1, <1>2, <1>3, <1>4 DEF MemoryInv, BoundaryIsTold

\* What is known of the task of the only refresh.
LEMMA TaskFacts ==
  ASSUME MemoryInv, NEW i \in DOMAIN tasks
  PROVE  /\ tasks \in Seq(Tasks) /\ tasks[i] \in Tasks /\ finished \in Seq(Nat)
         /\ tasks[i].history \in Histories /\ Len(tasks[i].history) \in Nat
         /\ i \in 1 .. Len(tasks) /\ Len(tasks) \in Nat /\ Len(finished) \in Nat
         /\ Undisturbed => /\ Len(tasks) = 1 /\ Len(finished) = 0 /\ i = 1
                           /\ DOMAIN tasks = {1} /\ in_flight = TRUE
<1>1. tasks \in Seq(Tasks) /\ tasks[i] \in Tasks /\ finished \in Seq(Nat)
  BY DEF MemoryInv, MemoryTypeOK
<1>2. tasks[i].history \in Histories
  BY <1>1 DEF Tasks
<1>3. Len(tasks[i].history) \in Nat
  BY <1>2 DEF Histories
<1>4. i \in 1 .. Len(tasks) /\ Len(tasks) \in Nat /\ Len(finished) \in Nat
  BY <1>1
<1>5. ASSUME Undisturbed
      PROVE  /\ Len(tasks) = 1 /\ Len(finished) = 0 /\ i = 1
             /\ DOMAIN tasks = {1} /\ in_flight = TRUE
  <2>1. OneRefresh
    BY <1>5 DEF MemoryInv
  <2>2. Len(tasks) + Len(finished) <= 1
    BY <2>1 DEF OneRefresh
  <2>3. Len(tasks) = 1 /\ Len(finished) = 0 /\ i = 1
    BY <1>4, <2>2
  <2>4. DOMAIN tasks = {1}
    BY <1>1, <2>3
  <2>5. in_flight = TRUE
    BY <2>1, <2>3 DEF OneRefresh
  <2> QED
    BY <2>3, <2>4, <2>5
<1> QED
  BY <1>1, <1>2, <1>3, <1>4, <1>5

\* Before the first compaction a refresh summarizes all of its history.
LEMMA SummarizedIsUpTo ==
  ASSUME NEW h \in Histories, NEW g \in Histories, Len(g) <= Len(h),
         \A i \in DOMAIN g : g[i] = h[i], \A i \in DOMAIN h : h[i].kind # "summary"
  PROVE  Summarized(g) = UpTo(h, Len(g))
<1>1. /\ DOMAIN g = 1 .. Len(g) /\ Len(g) \in Nat
      /\ DOMAIN h = 1 .. Len(h) /\ Len(h) \in Nat
  BY HistoryFacts
<1>2. \A i \in DOMAIN g : i \in DOMAIN h
  BY <1>1
<1>3. {i \in DOMAIN g : g[i].kind # "summary"} = 1 .. Len(g)
  BY <1>1, <1>2
<1>4. \A i \in 1 .. Len(g) : g[i].covers = h[i].covers
  BY <1>1
<1> QED
  BY <1>3, <1>4 DEF Summarized, UpTo

LEMMA WriteSummaryIsSafe ==
  ASSUME MemoryInv, WriteSummary PROVE MemoryInv'
<1>1. PICK i \in DOMAIN tasks :
        /\ tasks[i].stage = "scheduled"
        /\ summary' = SummaryOf(Summarized(tasks[i].history))
        /\ Advance(i, "summary")
        /\ UNCHANGED <<history, place, loaded, in_flight, last_index, metadata, finished,
                       live, said, saved, counts>>
  BY Zenon DEF WriteSummary
<1>2. /\ tasks' \in Seq(Tasks) /\ Len(tasks') = Len(tasks)
      /\ tasks'[i].stage = "summary" /\ tasks'[i].history = tasks[i].history
  BY <1>1, Advanced DEF MemoryInv, Stages
<1>3. PICK g : g = tasks[i].history
  OBVIOUS
<1>4. /\ g \in Histories /\ Len(g) \in Nat /\ Len(tasks) \in Nat
      /\ Undisturbed => Len(tasks) = 1 /\ Len(finished) = 0 /\ i = 1
  BY <1>3, TaskFacts
<1>5. summary' \in Files
  <2>1. Summarized(g) \subseteq Ids
    <3>1. \A j \in DOMAIN g : g[j].covers \subseteq Ids
      BY <1>4, HistoryFacts
    <3> QED
      BY <3>1 DEF Summarized
  <2> QED
    BY <1>1, <1>3, <2>1 DEF SummaryOf, Files
<1>6. Undisturbed => OneRefresh'
  BY <1>1, <1>2 DEF MemoryInv, OneRefresh
<1>7. ASSUME Uncompacted PROVE RefreshesGoOn' /\ FilesInStep' /\ LoadedIsKnown'
  <2>1. BoundaryIsTold /\ Undisturbed
    BY <1>7 DEF MemoryInv, Uncompacted
  <2>2. /\ Len(tasks') = 1 /\ DOMAIN tasks' = {1} /\ i = 1
        /\ tasks'[1].stage = "summary" /\ tasks'[1].history = g
    <3>1. Len(tasks') = 1 /\ i = 1
      BY <1>2, <1>4, <2>1
    <3>2. DOMAIN tasks' = {1}
      BY <1>2, <3>1
    <3> QED
      BY <1>2, <1>3, <3>1, <3>2
  <2>3. /\ last_index < Len(g) /\ Len(g) <= Len(history)
        /\ \A j \in DOMAIN g : g[j] = history[j]
    BY <1>3, <2>1 DEF BoundaryIsTold, RefreshesGoOn
  <2>4. RefreshesGoOn'
    BY <1>1, <2>2, <2>3 DEF RefreshesGoOn
  <2>5. TellsOf(history, summary', Len(g))
    <3>1. Summarized(g) = UpTo(history, Len(g))
      BY <1>4, <2>1, <2>3, SummarizedIsUpTo
         DEF BoundaryIsTold, NothingSummarized, MemoryInv, MemoryTypeOK
    <3>2. summary' = [written |-> TRUE, covers |-> UpTo(history, Len(g))]
      BY <1>1, <1>3, <3>1 DEF SummaryOf
    <3>3. Len(g) # 0
      BY <1>4, <2>3 DEF MemoryInv, MemoryTypeOK
    <3> QED
      BY <3>2, <3>3 DEF TellsOf
  <2>6. metadata = last_index
    BY <1>1, <2>1 DEF BoundaryIsTold, FilesInStep
  <2>7. FilesInStep'
    <3>1. /\ \A j \in DOMAIN finished : finished[j] = metadata
          /\ metadata <= Len(history) /\ last_index <= metadata
      BY <2>1 DEF BoundaryIsTold, FilesInStep
    <3>2. \A t \in DOMAIN tasks' :
            /\ tasks'[t].stage = "summary" /\ tasks'[t].history = g
      BY <2>2
    <3> QED
      BY <1>1, <2>2, <2>5, <2>6, <3>1, <3>2 DEF FilesInStep
  <2>8. LoadedIsKnown'
    BY <1>1, <2>1 DEF BoundaryIsTold, LoadedIsKnown
  <2> QED
    BY <2>4, <2>7, <2>8
<1>8. /\ in_flight' \in BOOLEAN /\ last_index' \in Nat /\ metadata' \in Nat
      /\ finished' \in Seq(Nat)
  BY <1>1 DEF MemoryInv, MemoryTypeOK
<1> QED
  BY <1>1, <1>2, <1>5, <1>6, <1>7, <1>8, RefreshMoves

LEMMA WriteMetadataIsSafe ==
  ASSUME MemoryInv, WriteMetadata PROVE MemoryInv'
<1>1. PICK i \in DOMAIN tasks :
        /\ tasks[i].stage = "summary"
        /\ metadata' = Len(tasks[i].history)
        /\ Advance(i, "metadata")
        /\ UNCHANGED <<history, place, loaded, in_flight, last_index, summary, finished,
                       live, said, saved, counts>>
  BY Zenon DEF WriteMetadata
<1>2. /\ tasks' \in Seq(Tasks) /\ Len(tasks') = Len(tasks)
      /\ tasks'[i].stage = "metadata" /\ tasks'[i].history = tasks[i].history
  BY <1>1, Advanced DEF MemoryInv, Stages
<1>3. PICK g : g = tasks[i].history
  OBVIOUS
<1>4. /\ g \in Histories /\ Len(g) \in Nat /\ Len(tasks) \in Nat
      /\ Undisturbed => Len(tasks) = 1 /\ Len(finished) = 0 /\ i = 1
  BY <1>3, TaskFacts
<1>5. Undisturbed => OneRefresh'
  BY <1>1, <1>2 DEF MemoryInv, OneRefresh
<1>6. ASSUME Uncompacted PROVE RefreshesGoOn' /\ FilesInStep' /\ LoadedIsKnown'
  <2>1. BoundaryIsTold /\ Undisturbed
    BY <1>6 DEF MemoryInv, Uncompacted
  <2>2. /\ Len(tasks') = 1 /\ DOMAIN tasks' = {1} /\ i = 1
        /\ tasks'[1].stage = "metadata" /\ tasks'[1].history = g
    <3>1. Len(tasks') = 1 /\ i = 1
      BY <1>2, <1>4, <2>1
    <3>2. DOMAIN tasks' = {1}
      BY <1>2, <3>1
    <3> QED
      BY <1>2, <1>3, <3>1, <3>2
  <2>3. /\ last_index < Len(g) /\ Len(g) <= Len(history)
        /\ \A j \in DOMAIN g : g[j] = history[j]
    BY <1>3, <2>1 DEF BoundaryIsTold, RefreshesGoOn
  <2>4. RefreshesGoOn'
    BY <1>1, <2>2, <2>3 DEF RefreshesGoOn
  <2>5. TellsOf(history, summary, Len(g)) /\ metadata = last_index
    BY <1>1, <1>3, <2>1 DEF BoundaryIsTold, FilesInStep
  <2>6. FilesInStep'
    <3>1. metadata' = Len(g) /\ last_index' <= Len(g)
      BY <1>1, <1>3, <1>4, <2>3 DEF MemoryInv, MemoryTypeOK
    <3>2. \A t \in DOMAIN tasks' :
            /\ tasks'[t].stage = "metadata" /\ tasks'[t].history = g
      BY <2>2
    <3>3. Len(finished) = 0 /\ DOMAIN finished = {}
      BY <1>4, <2>1 DEF MemoryInv, MemoryTypeOK
    <3> QED
      BY <1>1, <2>2, <2>3, <2>5, <3>1, <3>2, <3>3 DEF FilesInStep
  <2>7. LoadedIsKnown'
    BY <1>1, <2>1, <2>5 DEF BoundaryIsTold, LoadedIsKnown
  <2> QED
    BY <2>4, <2>6, <2>7
<1>7. /\ in_flight' \in BOOLEAN /\ last_index' \in Nat /\ summary' \in Files
      /\ finished' \in Seq(Nat) /\ metadata' \in Nat
  BY <1>1, <1>3, <1>4 DEF MemoryInv, MemoryTypeOK
<1> QED
  BY <1>1, <1>2, <1>5, <1>6, <1>7, RefreshMoves

LEMMA ReportIsSafe ==
  ASSUME MemoryInv, Report PROVE MemoryInv'
<1>1. PICK i \in DOMAIN tasks :
        /\ tasks[i].stage = "metadata"
        /\ tasks' = RemoveAt(tasks, i)
        /\ finished' = Append(finished, Len(tasks[i].history))
        /\ UNCHANGED <<history, place, loaded, in_flight, last_index, summary, metadata,
                       live, said, saved, counts>>
  BY Zenon DEF Report
<1>2. PICK n : n = Len(tasks[i].history)
  OBVIOUS
<1>3. /\ tasks \in Seq(Tasks) /\ finished \in Seq(Nat) /\ n \in Nat
      /\ i \in 1 .. Len(tasks) /\ Len(tasks) \in Nat /\ Len(finished) \in Nat
      /\ Undisturbed => Len(tasks) = 1 /\ Len(finished) = 0 /\ i = 1 /\ in_flight = TRUE
  BY <1>2, TaskFacts
<1>4. tasks' \in Seq(Tasks) /\ Len(tasks') = Len(tasks) - 1
  BY <1>1, <1>3, Removed
<1>5. /\ finished' \in Seq(Nat) /\ Len(finished') = Len(finished) + 1
      /\ Len(finished) = 0 => finished'[1] = n
  BY <1>1, <1>2, <1>3
<1>6. Undisturbed => OneRefresh'
  BY <1>1, <1>3, <1>4, <1>5 DEF OneRefresh
<1>7. ASSUME Uncompacted PROVE RefreshesGoOn' /\ FilesInStep' /\ LoadedIsKnown'
  <2>1. BoundaryIsTold /\ Undisturbed
    BY <1>7 DEF MemoryInv, Uncompacted
  <2>2. Len(tasks') = 0 /\ DOMAIN tasks' = {}
    BY <1>3, <1>4, <2>1
  <2>3. Len(finished') = 1 /\ DOMAIN finished' = {1} /\ finished'[1] = n
    BY <1>3, <1>5, <2>1
  <2>4. metadata = n /\ TellsOf(history, summary, n)
    BY <1>1, <1>2, <2>1 DEF BoundaryIsTold, FilesInStep
  <2>5. metadata <= Len(history) /\ last_index <= metadata
    BY <2>1 DEF BoundaryIsTold, FilesInStep
  <2>6. RefreshesGoOn'
    BY <2>2 DEF RefreshesGoOn
  <2>7. FilesInStep'
    BY <1>1, <2>2, <2>3, <2>4, <2>5 DEF FilesInStep
  <2>8. LoadedIsKnown'
    BY <1>1, <2>1 DEF BoundaryIsTold, LoadedIsKnown
  <2> QED
    BY <2>6, <2>7, <2>8
<1>8. /\ in_flight' \in BOOLEAN /\ last_index' \in Nat /\ summary' \in Files
      /\ metadata' \in Nat
  BY <1>1 DEF MemoryInv, MemoryTypeOK
<1> QED
  BY <1>1, <1>4, <1>5, <1>6, <1>7, <1>8, RefreshMoves

LEMMA RefreshFinishedIsSafe ==
  ASSUME MemoryInv, RefreshFinished PROVE MemoryInv'
<1>1. /\ loaded = <<>> /\ finished # <<>> /\ finished' = Tail(finished)
      /\ in_flight' = FALSE
      /\ last_index' = IF Head(finished) # 0 THEN Head(finished) ELSE last_index
      /\ UNCHANGED <<history, place, loaded, summary, metadata, tasks, live, said, saved,
                     counts>>
  BY DEF RefreshFinished, At
<1>2. /\ finished \in Seq(Nat) /\ tasks \in Seq(Tasks) /\ Len(tasks) \in Nat
      /\ Len(finished) \in Nat /\ last_index \in Nat
  BY DEF MemoryInv, MemoryTypeOK
<1>3. /\ Len(finished) >= 1 /\ Head(finished) = finished[1] /\ 1 \in DOMAIN finished
      /\ Head(finished) \in Nat
      /\ finished' \in Seq(Nat) /\ Len(finished') = Len(finished) - 1
  BY <1>1, <1>2
<1>4. Undisturbed => Len(tasks) = 0 /\ Len(finished) = 1
  BY <1>2, <1>3 DEF MemoryInv, OneRefresh
<1>5. Undisturbed => OneRefresh'
  BY <1>1, <1>3, <1>4 DEF OneRefresh
<1>6. ASSUME Uncompacted PROVE RefreshesGoOn' /\ FilesInStep' /\ LoadedIsKnown'
  <2>1. BoundaryIsTold /\ Undisturbed
    BY <1>6 DEF MemoryInv, Uncompacted
  <2>2. Len(tasks) = 0 /\ DOMAIN tasks = {} /\ tasks' = tasks
    <3>1. Len(tasks) = 0
      BY <1>4, <2>1
    <3> QED
      BY <1>1, <1>2, <3>1
  <2>3. Len(finished') = 0 /\ DOMAIN finished' = {}
    <3>1. Len(finished) = 1
      BY <1>4, <2>1
    <3>2. Len(finished') = 0
      BY <1>3, <3>1
    <3> QED
      BY <1>3, <3>2
  <2>4. TellsOf(history, summary, metadata) /\ metadata <= Len(history)
    BY <2>1, <2>2 DEF BoundaryIsTold, FilesInStep
  <2>5. last_index' = metadata
    <3>1. Head(finished) = metadata /\ last_index <= metadata /\ metadata \in Nat
      BY <1>3, <2>1 DEF BoundaryIsTold, FilesInStep, MemoryInv, MemoryTypeOK
    <3> QED
      BY <1>1, <1>2, <3>1
  <2>6. RefreshesGoOn'
    BY <2>2 DEF RefreshesGoOn
  <2>7. FilesInStep'
    <3>1. metadata' \in Nat /\ metadata' = metadata
      BY <1>1 DEF MemoryInv, MemoryTypeOK
    <3> QED
      BY <1>1, <2>2, <2>3, <2>4, <2>5, <3>1 DEF FilesInStep
  <2>8. LoadedIsKnown'
    BY <1>1 DEF LoadedIsKnown
  <2> QED
    BY <2>6, <2>7, <2>8
<1>7. /\ in_flight' \in BOOLEAN /\ last_index' \in Nat /\ summary' \in Files
      /\ metadata' \in Nat /\ tasks' \in Seq(Tasks)
  BY <1>1, <1>2, <1>3 DEF MemoryInv, MemoryTypeOK
<1> QED
  BY <1>1, <1>3, <1>5, <1>6, <1>7, RefreshMoves

LEMMA ReportFailureIsSafe ==
  ASSUME MemoryInv, ReportFailure PROVE MemoryInv'
<1>1. PICK i \in DOMAIN tasks :
        /\ Incident("failures", MaxFailures)
        /\ tasks' = RemoveAt(tasks, i)
        /\ finished' = Append(finished, 0)
        /\ Found(summary', metadata')
        /\ UNCHANGED <<history, place, loaded, in_flight, last_index, live, said, saved>>
  BY Zenon DEF ReportFailure
<1>6. summary' \in Files /\ metadata' \in Nat
  BY <1>1, FoundFacts DEF MemoryInv
<1>2. /\ counts' \in [Counters -> Nat] /\ counts'.compactions = counts.compactions
      /\ ~ Undisturbed'
  BY <1>1, IncidentDisturbs DEF MemoryInv
<1>3. tasks' \in Seq(Tasks) /\ finished' \in Seq(Nat)
  <2>1. tasks \in Seq(Tasks) /\ finished \in Seq(Nat) /\ i \in 1 .. Len(tasks)
    BY TaskFacts
  <2> QED
    BY <1>1, <2>1, Removed
<1>4. MemoryTypeOK'
  BY <1>1, <1>2, <1>3, <1>6 DEF MemoryInv, MemoryTypeOK
<1>5. HistoriesInRounds' /\ CompactionsAreCounted'
  BY <1>1, <1>2 DEF MemoryInv, HistoriesInRounds, CompactionsAreCounted
<1> QED
  BY <1>2, <1>4, <1>5, DisturbedIsEnough

-------------------------------------------------------------------------------
(* Compaction.                                                              *)

\* What a plan makes of the history: nothing is dropped (where nothing was
\* missing before), and results stay with their calls.
Compacts ==
  /\ history' \in Histories
  /\ ResultsFollow(history')
  /\ Covers(history) \subseteq Covers(history')

LEMMA LegacyPlanCompacts ==
  ASSUME MemoryInv, LegacyPlan PROVE Compacts
<1>1. history \in Histories /\ ResultsFollow(history)
  BY DEF MemoryInv, MemoryTypeOK, HistoriesInRounds
<1>2. /\ history \in Seq(Entry) /\ Len(history) \in Nat /\ DOMAIN history = 1 .. Len(history)
      /\ \A i \in DOMAIN history : history[i] \in Entry /\ history[i].covers \subseteq Ids
  BY <1>1, HistoryFacts
<1>3. PICK t : t = LiveTailStart(history)
  OBVIOUS
<1>4. t \in 1 .. Len(history) + 1 /\ ~ IsKind(history, t, "result")
  BY <1>1, <1>3, LiveTailIsSafe
<1>5. PICK before : before = SubSeq(history, 1, t - 1)
  OBVIOUS
<1>6. before \in Seq(Entry) /\ DOMAIN before = 1 .. t - 1
  BY <1>2, <1>4, <1>5
<1>7. \A i \in 1 .. t - 1 : before[i] = history[i] /\ i \in DOMAIN history
  BY <1>2, <1>4, <1>5
<1>8. Covers(before) = UpTo(history, t - 1)
  BY <1>6, <1>7 DEF Covers, UpTo
<1>9. Covers(before) \in SUBSET Ids
  BY <1>2, <1>6, <1>7 DEF Covers
<1>10. history' = <<CompactSummary(Covers(before))>> \o SubSeq(history, t, Len(history))
  BY <1>3, <1>5 DEF LegacyPlan, ApplyPlan
<1>11. t - 1 \in Nat /\ t <= (t - 1) + 1 /\ t - 1 <= Len(history)
  BY <1>2, <1>4
<1>12. PICK g : g = history'
  OBVIOUS
<1>13. Planned(history, Covers(before), t, g)
  BY <1>1, <1>4, <1>9, <1>10, <1>12 DEF Planned
<1>14. PlanKeeps(history, Covers(before), t, g)
  BY <1>13, PlanApplied
<1>15. Covers(history) \subseteq Covers(g)
  BY <1>8, <1>11, <1>14 DEF PlanKeeps
<1> QED
  BY <1>1, <1>4, <1>12, <1>14, <1>15 DEF Compacts, PlanKeeps

\* A compaction that used up the one that is known to be safe.
LEMMA CompactionEnds ==
  ASSUME MemoryInv, history' \in Histories, ResultsFollow(history'),
         UNCHANGED <<place, memory, live, said, saved>>,
         loaded' = <<>>,
         counts' \in [Counters -> Nat], counts'.compactions >= 1,
         Incidents' = Incidents,
         counts'.compactions <= 1 /\ Incidents = 0 => live \subseteq Covers(history')
  PROVE  MemoryInv'
<1>1. loaded' \in Seq(Files) /\ Len(loaded') = 0
  OBVIOUS
<1>2. MemoryTypeOK'
  BY <1>1 DEF MemoryInv, MemoryTypeOK
<1>3. HistoriesInRounds'
  <2>1. saved'.history = saved.history
    OBVIOUS
  <2> QED
    BY <2>1 DEF MemoryInv, HistoriesInRounds
<1>4. Undisturbed' => OneRefresh'
  BY DEF MemoryInv, Undisturbed, OneRefresh
<1>5. counts'.compactions \in Nat
  BY DEF Counters
<1>6. ~ Uncompacted' /\ CompactionsAreCounted'
  BY <1>1, <1>5 DEF Uncompacted, CompactionsAreCounted
<1>7. FirstCompactionLosesNothing'
  <2>1. live' = live
    OBVIOUS
  <2> QED
    BY <2>1 DEF FirstCompactionLosesNothing, CompactionLosesNothing
<1> QED
  BY <1>2, <1>3, <1>4, <1>6, <1>7 DEF MemoryInv

LEMMA CompactTimeoutIsSafe ==
  ASSUME MemoryInv, CompactTimeout PROVE MemoryInv'
<1>1. /\ loaded = <<>> /\ Count("compactions", MaxCompactions)
      /\ LegacyPlan /\ UNCHANGED <<place, loaded, memory, live, said, saved>>
  BY DEF CompactTimeout, CanCompact
<1>2. Compacts
  BY <1>1, LegacyPlanCompacts
<1>3. /\ counts' \in [Counters -> Nat] /\ counts'["compactions"] = counts["compactions"] + 1
      /\ \A c \in Counters \ {"compactions"} : counts'[c] = counts[c]
  BY <1>1, Counted DEF MemoryInv, Counters
<1>4. counts \in [Counters -> Nat] /\ counts.compactions \in Nat
  BY DEF MemoryInv, MemoryTypeOK, Counters
<1>5. /\ counts'.compactions = counts.compactions + 1 /\ counts'.compactions >= 1
      /\ counts'.unwinds = counts.unwinds /\ counts'.restarts = counts.restarts
      /\ counts'.failures = counts.failures
  BY <1>3, <1>4 DEF Counters
<1>6. Incidents' = Incidents
  BY <1>5 DEF Incidents
<1>7. ASSUME counts'.compactions <= 1, Incidents = 0 PROVE live \subseteq Covers(history')
  <2>1. counts.compactions <= 1
    BY <1>4, <1>5, <1>7
  <2>2. live \subseteq Covers(history)
    BY <1>7, <2>1 DEF MemoryInv, FirstCompactionLosesNothing, CompactionLosesNothing
  <2> QED
    BY <1>2, <2>2 DEF Compacts
<1>8. loaded' = <<>>
  BY <1>1
<1>9. history' \in Histories /\ ResultsFollow(history')
  BY <1>2 DEF Compacts
<1> QED
  BY <1>1, <1>3, <1>5, <1>6, <1>7, <1>8, <1>9, CompactionEnds

LEMMA CompactReadsIsSafe ==
  ASSUME MemoryInv, CompactReads PROVE MemoryInv'
<1>1. /\ loaded = <<>> /\ Count("compactions", MaxCompactions)
      /\ ~ (in_flight /\ LockHeld)
      /\ UNCHANGED <<history, place, memory, live, said, saved>>
  BY DEF CompactReads, CanCompact
<1>0. PICK text \in {summary, NoSummary} : loaded' = <<text>>
  BY DEF CompactReads
<1>2. /\ counts' \in [Counters -> Nat] /\ counts'["compactions"] = counts["compactions"] + 1
      /\ \A c \in Counters \ {"compactions"} : counts'[c] = counts[c]
  BY <1>1, Counted DEF MemoryInv, Counters
<1>3. counts \in [Counters -> Nat] /\ counts.compactions \in Nat
  BY DEF MemoryInv, MemoryTypeOK, Counters
<1>4. /\ counts'.compactions = counts.compactions + 1
      /\ counts'.unwinds = counts.unwinds /\ counts'.restarts = counts.restarts
      /\ counts'.failures = counts.failures
  BY <1>2, <1>3 DEF Counters
<1>5. text \in Files
  <2>1. NoSummary \in Files
    BY DEF NoSummary, Files
  <2>2. summary \in Files
    BY DEF MemoryInv, MemoryTypeOK
  <2> QED
    BY <2>1, <2>2
<1>6. loaded' \in Seq(Files) /\ Len(loaded') = 1 /\ loaded'[1] = text
  BY <1>0, <1>5
<1>7. MemoryTypeOK'
  BY <1>1, <1>2, <1>6 DEF MemoryInv, MemoryTypeOK
<1>8. HistoriesInRounds' /\ CompactionsAreCounted'
  <2>1. saved' = saved /\ history' = history
    BY <1>1
  <2>2. HistoriesInRounds'
    BY <2>1 DEF MemoryInv, HistoriesInRounds
  <2>3. CompactionsAreCounted'
    BY <1>3, <1>4, <1>6 DEF CompactionsAreCounted
  <2> QED
    BY <2>2, <2>3
<1>9. Incidents' = Incidents
  BY <1>4 DEF Incidents
<1>10. Undisturbed' => OneRefresh'
  BY <1>1, <1>9 DEF MemoryInv, Undisturbed, OneRefresh
<1>11. ASSUME Uncompacted' PROVE BoundaryIsTold'
  <2>1. counts.compactions = 0
    BY <1>3, <1>4, <1>11 DEF Uncompacted
  <2>2. BoundaryIsTold /\ OneRefresh
    BY <1>9, <1>11, <2>1 DEF MemoryInv, Uncompacted, Undisturbed
  <2>3. NothingSummarized' /\ RefreshesGoOn' /\ FilesInStep'
    BY <1>1, <2>2 DEF BoundaryIsTold, NothingSummarized, RefreshesGoOn, FilesInStep
  <2>4. TellsOf(history, summary, metadata)
    <3>1. tasks \in Seq(Tasks) /\ Len(tasks) \in Nat /\ Len(finished) \in Nat
      BY DEF MemoryInv, MemoryTypeOK
    <3>2. CASE Len(tasks) = 0
      BY <2>2, <3>2 DEF BoundaryIsTold, FilesInStep
    <3>3. CASE Len(tasks) # 0
      <4>1. 1 \in DOMAIN tasks
        BY <3>1, <3>3
      <4>2. in_flight = TRUE
        BY <1>9, <1>11, <4>1, TaskFacts DEF Uncompacted, Undisturbed
      <4>3. tasks[1].stage = "scheduled"
        BY <1>1, <4>1, <4>2 DEF LockHeld
      <4> QED
        BY <2>2, <4>1, <4>3 DEF BoundaryIsTold, FilesInStep
    <3> QED
      BY <3>2, <3>3
  <2>5. LoadedIsKnown'
    <3>1. CASE text = summary
      BY <1>1, <1>6, <2>4, <3>1 DEF LoadedIsKnown
    <3>2. CASE text = NoSummary
      <4>1. text.written = FALSE
        BY <3>2 DEF NoSummary
      <4> QED
        BY <1>6, <4>1 DEF LoadedIsKnown
    <3> QED
      BY <3>1, <3>2
  <2> QED
    BY <2>3, <2>5 DEF BoundaryIsTold
<1>12. FirstCompactionLosesNothing'
  <2>1. ASSUME counts'.compactions <= 1, Incidents' = 0 PROVE live' \subseteq Covers(history')
    <3>1. counts.compactions <= 1
      BY <1>3, <1>4, <2>1
    <3> QED
      BY <1>1, <1>9, <2>1, <3>1
         DEF MemoryInv, FirstCompactionLosesNothing, CompactionLosesNothing
  <2> QED
    BY <2>1 DEF FirstCompactionLosesNothing, CompactionLosesNothing
<1> QED
  BY <1>7, <1>8, <1>10, <1>11, <1>12 DEF MemoryInv

LEMMA CompactPlansIsSafe ==
  ASSUME MemoryInv, CompactPlans PROVE MemoryInv'
<1>1. /\ loaded # <<>> /\ loaded' = <<>>
      /\ UNCHANGED <<place, memory, live, said, saved, counts>>
  BY DEF CompactPlans
<1>2. /\ loaded \in Seq(Files) /\ Len(loaded) = 1 /\ loaded[1] \in Files
      /\ history \in Histories /\ ResultsFollow(history) /\ metadata \in Nat
      /\ counts \in [Counters -> Nat] /\ counts.compactions \in Nat /\ last_index \in Nat
  <2>1. loaded \in Seq(Files) /\ Len(loaded) <= 1
    BY DEF MemoryInv, MemoryTypeOK
  <2>3. counts \in [Counters -> Nat]
    BY DEF MemoryInv, MemoryTypeOK
  <2>2. Len(loaded) = 1 /\ loaded[1] \in Files
    <3>1. Len(loaded) # 0
      BY <1>1, <2>1
    <3>2. Len(loaded) = 1
      <4>1. PICK n : n = Len(loaded)
        OBVIOUS
      <4>2. n \in Nat /\ n <= 1 /\ n # 0
        BY <2>1, <3>1, <4>1
      <4> QED
        BY <4>1, <4>2
    <3> QED
      BY <2>1, <3>2
  <2> QED
    BY <2>1, <2>2, <2>3 DEF MemoryInv, MemoryTypeOK, HistoriesInRounds, Counters
<1>3. counts.compactions >= 1
  BY <1>2 DEF MemoryInv, CompactionsAreCounted
<1>0. PICK index \in {metadata, 0} :
        IF /\ SnapshotUsable(index) /\ ProviderSafeTailStart(history, index + 1) # 0
           /\ ProviderSafeTailStart(history, index + 1) <= LiveTailStart(history)
        THEN ApplyPlan(loaded[1].covers, ProviderSafeTailStart(history, index + 1))
        ELSE LegacyPlan
  BY Zenon DEF CompactPlans
<1>4. PICK t : t = ProviderSafeTailStart(history, index + 1)
  OBVIOUS
<1>5. CASE SnapshotUsable(index) /\ t # 0 /\ t <= LiveTailStart(history)
  <2>0. index = metadata
    BY <1>5 DEF SnapshotUsable
  <2>1. ApplyPlan(loaded[1].covers, t)
    BY <1>0, <1>4, <1>5
  <2>2. metadata + 1 \in Nat /\ metadata + 1 >= 1
    BY <1>2
  <2>3. t \in 1 .. Len(history) + 1 /\ t <= metadata + 1 /\ ~ IsKind(history, t, "result")
    BY <1>2, <1>4, <1>5, <2>0, <2>2, SafeTailIsSafe
  <2>4. PICK ids : ids = loaded[1].covers
    OBVIOUS
  <2>5. ids \in SUBSET Ids
    BY <1>2, <2>4 DEF Files
  <2>6. PICK g : g = history'
    OBVIOUS
  <2>7. g = <<CompactSummary(ids)>> \o SubSeq(history, t, Len(history))
    BY <2>1, <2>4, <2>6 DEF ApplyPlan
  <2>8. PlanKeeps(history, ids, t, g)
    <3>1. Planned(history, ids, t, g)
      BY <1>2, <2>3, <2>5, <2>7 DEF Planned
    <3> QED
      BY <3>1, PlanApplied
  <2>9. ASSUME counts.compactions <= 1, Incidents = 0 PROVE live \subseteq Covers(g)
    <3>1. counts.compactions = 1
      BY <1>2, <1>3, <2>9
    <3>2. BoundaryIsTold
      BY <1>2, <2>9, <3>1 DEF MemoryInv, Uncompacted, Undisturbed
    <3>3. TellsOf(history, loaded[1], metadata)
      <4>0. loaded[1].written = TRUE
        BY <1>2, <1>5 DEF SnapshotUsable, Files
      <4>1. CASE TellsOf(history, loaded[1], last_index)
        <5>1. last_index = metadata
          BY <1>5, <2>0, <4>0, <4>1 DEF TellsOf, SnapshotUsable
        <5> QED
          BY <4>1, <5>1
      <4> QED
        BY <1>2, <3>2, <4>0, <4>1 DEF BoundaryIsTold, LoadedIsKnown
    <3>4. UpTo(history, metadata) \subseteq ids /\ metadata <= Len(history)
      BY <2>4, <3>2, <3>3 DEF TellsOf, BoundaryIsTold, FilesInStep
    <3>5. Covers(history) \subseteq Covers(g)
      BY <1>2, <2>3, <2>8, <3>4 DEF PlanKeeps
    <3>6. live \subseteq Covers(history)
      BY <2>9 DEF MemoryInv, FirstCompactionLosesNothing, CompactionLosesNothing
    <3> QED
      BY <3>5, <3>6
  <2>10. Incidents' = Incidents /\ counts' = counts
    BY <1>1 DEF Incidents
  <2>11. history' \in Histories /\ ResultsFollow(history')
    BY <1>2, <2>3, <2>6, <2>8 DEF PlanKeeps
  <2> QED
    BY <1>1, <1>2, <1>3, <2>6, <2>9, <2>10, <2>11, CompactionEnds
<1>6. CASE ~ (SnapshotUsable(index) /\ t # 0 /\ t <= LiveTailStart(history))
  <2>1. LegacyPlan
    BY <1>0, <1>4, <1>6
  <2>2. Compacts
    BY <2>1, LegacyPlanCompacts
  <2>3. ASSUME counts.compactions <= 1, Incidents = 0 PROVE live \subseteq Covers(history')
    BY <2>2, <2>3
       DEF Compacts, MemoryInv, FirstCompactionLosesNothing, CompactionLosesNothing
  <2>4. Incidents' = Incidents /\ counts' = counts
    BY <1>1 DEF Incidents
  <2>5. history' \in Histories /\ ResultsFollow(history')
    BY <2>2 DEF Compacts
  <2> QED
    BY <1>1, <1>2, <1>3, <2>3, <2>4, <2>5, CompactionEnds
<1> QED
  BY <1>5, <1>6

-------------------------------------------------------------------------------
(* Unwind and restart, and the theorem.                                     *)

LEMMA UnwindIsSafe ==
  ASSUME MemoryInv, Unwind PROVE MemoryInv'
<1>1. PICK i \in DOMAIN history : history' = Sanitize(SubSeq(history, 1, i - 1))
  BY DEF Unwind
<1>2. /\ Incident("unwinds", MaxUnwinds)
      /\ live' = live \cap Covers(history')
      /\ in_flight' = FALSE /\ last_index' = 0
      /\ summary' = NoSummary /\ metadata' = 0
      /\ UNCHANGED <<place, loaded, finished, said, saved>>
  BY DEF Unwind
<1>0. tasks' \in Seq(Tasks)
  <2>1. CASE UNCHANGED tasks
    BY <2>1 DEF MemoryInv, MemoryTypeOK
  <2>2. ASSUME NEW j \in DOMAIN tasks, NEW stage \in Stages, Advance(j, stage)
        PROVE  tasks' \in Seq(Tasks)
    BY <2>2, Advanced DEF MemoryInv
  <2>3. \/ UNCHANGED tasks
        \/ \E j \in DOMAIN tasks : Advance(j, "summary") \/ Advance(j, "metadata")
    BY Zenon DEF Unwind
  <2>4. "summary" \in Stages /\ "metadata" \in Stages
    BY DEF Stages
  <2> QED
    BY <2>1, <2>2, <2>3, <2>4
<1>3. history' \in Histories /\ ResultsFollow(history')
  <2>1. PICK h : h = SubSeq(history, 1, i - 1)
    OBVIOUS
  <2>2. h \in Histories /\ ResultsFollow(h)
    BY <2>1, PrefixInRounds DEF MemoryInv, MemoryTypeOK, HistoriesInRounds
  <2> QED
    BY <1>1, <2>1, <2>2, SanitizeInRounds
<1>4. /\ counts' \in [Counters -> Nat] /\ counts'.compactions = counts.compactions
      /\ ~ Undisturbed'
  BY <1>2, IncidentDisturbs DEF MemoryInv
<1>5. summary' \in Files
  BY <1>2 DEF NoSummary, Files
<1>6. MemoryTypeOK'
  BY <1>0, <1>2, <1>3, <1>4, <1>5 DEF MemoryInv, MemoryTypeOK
<1>7. HistoriesInRounds' /\ CompactionsAreCounted'
  <2>1. saved' = saved /\ loaded' = loaded
    BY <1>2
  <2> QED
    BY <1>3, <1>4, <2>1 DEF MemoryInv, HistoriesInRounds, CompactionsAreCounted
<1> QED
  BY <1>4, <1>6, <1>7, DisturbedIsEnough

LEMMA RestartIsSafe ==
  ASSUME MemoryInv, Restart PROVE MemoryInv'
<1>1. /\ Incident("restarts", MaxRestarts)
      /\ history' = Sanitize(saved.history)
      /\ live' = Covers(history')
      /\ last_index' = saved.last_index
      /\ in_flight' = FALSE /\ tasks' = <<>> /\ finished' = <<>>
      /\ place' = "ready" /\ loaded' = <<>>
      /\ UNCHANGED <<said, saved>>
  BY DEF Restart
<1>0. summary' \in Files /\ metadata' \in Nat
  <2>1. Found(summary', metadata')
    BY DEF Restart
  <2> QED
    BY <2>1, FoundFacts DEF MemoryInv
<1>2. PICK h : h = saved.history
  OBVIOUS
<1>3. h \in Histories /\ ResultsFollow(h) /\ saved.last_index \in Nat
  BY <1>2 DEF MemoryInv, MemoryTypeOK, HistoriesInRounds
<1>4. PICK g : g = Sanitize(h)
  OBVIOUS
<1>5. g \in Histories /\ ResultsFollow(g) /\ history' = g
  BY <1>1, <1>2, <1>3, <1>4, SanitizeInRounds
<1>6. /\ counts' \in [Counters -> Nat] /\ counts'.compactions = counts.compactions
      /\ ~ Undisturbed'
  BY <1>1, IncidentDisturbs DEF MemoryInv
<1>7. live' \subseteq Ids
  BY <1>1, <1>5, HistoryFacts
<1>8. loaded' \in Seq(Files) /\ Len(loaded') = 0
  BY <1>1
<1>9. tasks' \in Seq(Tasks) /\ finished' \in Seq(Nat)
  BY <1>1
<1>10. MemoryTypeOK'
  <2>1. /\ history' \in Histories /\ place' \in {"ready", "model"} /\ in_flight' \in BOOLEAN
        /\ last_index' \in Nat
    BY <1>1, <1>3, <1>5
  <2>2. loaded' \in Seq(Files) /\ Len(loaded') <= 1
    BY <1>8
  <2>3. /\ summary' \in Files /\ metadata' \in Nat /\ said' \in Nat /\ said' <= MaxMessages
        /\ saved' \in [taken : BOOLEAN, history : Histories, last_index : Nat]
    BY <1>0, <1>1 DEF MemoryInv, MemoryTypeOK
  <2> QED
    BY <1>6, <1>7, <1>9, <2>1, <2>2, <2>3 DEF MemoryTypeOK
<1>11. HistoriesInRounds'
  <2>1. saved'.history = h
    BY <1>1, <1>2
  <2> QED
    BY <1>3, <1>5, <2>1 DEF HistoriesInRounds
<1>12. CompactionsAreCounted'
  <2>1. counts'.compactions \in Nat
    BY <1>6 DEF Counters
  <2> QED
    BY <1>8, <2>1 DEF CompactionsAreCounted
<1> QED
  BY <1>6, <1>10, <1>11, <1>12, DisturbedIsEnough

LEMMA CheckpointIsSafe ==
  ASSUME MemoryInv, Checkpoint PROVE MemoryInv'
<1>1. /\ Count("checkpoints", MaxRestarts)
      /\ saved' = [taken |-> TRUE, history |-> history, last_index |-> last_index]
      /\ UNCHANGED <<history, place, loaded, memory, live, said>>
  BY DEF Checkpoint
<1>2. /\ counts' \in [Counters -> Nat]
      /\ \A c \in Counters \ {"checkpoints"} : counts'[c] = counts[c]
  BY <1>1, Counted DEF MemoryInv, Counters
<1>3. saved' \in [taken : BOOLEAN, history : Histories, last_index : Nat]
  BY <1>1 DEF MemoryInv, MemoryTypeOK
<1>4. saved'.history = history /\ place' \in {"ready", "model"}
  BY <1>1 DEF MemoryInv, MemoryTypeOK
<1> QED
  BY <1>1, <1>2, <1>3, <1>4, MemoryRests

LEMMA RestIsSafe ==
  ASSUME MemoryInv, ModelFails \/ UNCHANGED vars PROVE MemoryInv'
<1>1. /\ UNCHANGED <<history, loaded, memory, live, said, saved, counts>>
      /\ place' \in {"ready", "model"}
  BY DEF ModelFails, MemoryInv, MemoryTypeOK
<1>2. /\ counts' \in [Counters -> Nat]
      /\ saved' \in [taken : BOOLEAN, history : Histories, last_index : Nat]
      /\ saved'.history = saved.history /\ counts' = counts
  BY <1>1 DEF MemoryInv, MemoryTypeOK
<1> QED
  BY <1>1, <1>2, MemoryRests

\* The first compaction of a session, at whatever stage a refresh is and with
\* whichever report on its way, drops no message the session is about, and no
\* compaction, unwind or restart leaves a result without its call
\* (compaction_plan_from_snapshot and provider_safe_tail_start of
\* memory/session.rs, the refresh task of engine.rs).
THEOREM FirstCompactionIsSafeCorrect == Spec => []FirstCompactionIsSafe
<1>1. ASSUME Init PROVE MemoryInv
  BY <1>1, MemoryInit, MemoryAssumption
<1>2. ASSUME MemoryInv, [Next]_vars PROVE MemoryInv'
  <2>1. CASE UserMessage \/ ModelText \/ ToolRound \/ ToolCancelled \/ CallCut
    BY <1>2, <2>1, TurnStepsAreSafe, MemoryAssumption
  <2>2. CASE ModelFails \/ UNCHANGED vars
    BY <1>2, <2>2, RestIsSafe
  <2>3. CASE WriteSummary
    BY <1>2, <2>3, WriteSummaryIsSafe
  <2>4. CASE WriteMetadata
    BY <1>2, <2>4, WriteMetadataIsSafe
  <2>5. CASE Report
    BY <1>2, <2>5, ReportIsSafe
  <2>6. CASE ReportFailure
    BY <1>2, <2>6, ReportFailureIsSafe
  <2>7. CASE RefreshFinished
    BY <1>2, <2>7, RefreshFinishedIsSafe
  <2>8. CASE CompactTimeout
    BY <1>2, <2>8, CompactTimeoutIsSafe
  <2>9. CASE CompactReads
    BY <1>2, <2>9, CompactReadsIsSafe
  <2>10. CASE CompactPlans
    BY <1>2, <2>10, CompactPlansIsSafe
  <2>11. CASE Unwind
    BY <1>2, <2>11, UnwindIsSafe
  <2>12. CASE Checkpoint
    BY <1>2, <2>12, CheckpointIsSafe
  <2>13. CASE Restart
    BY <1>2, <2>13, RestartIsSafe
  <2> QED
    BY <1>2, <2>1, <2>2, <2>3, <2>4, <2>5, <2>6, <2>7, <2>8, <2>9, <2>10, <2>11,
       <2>12, <2>13 DEF Next
<1>3. ASSUME MemoryInv PROVE FirstCompactionIsSafe
  BY <1>3 DEF MemoryInv, HistoriesInRounds, ResultsFollow, FirstCompactionIsSafe, PairsKept
<1> QED
  BY <1>1, <1>2, <1>3, PTL DEF Spec
===============================================================================
