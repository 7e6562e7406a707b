--------------------------- MODULE ActorTurn_proofs ---------------------------
(***************************************************************************)
(* A tool is started at most once, and one that needs an approval only      *)
(* after it: interrupts, restarts, denials and cancelled waits never bring  *)
(* the loop over a batch back to a call it has left.  And the history that  *)
(* the loop, its interruptions, compactions, unwinds and restarts leave     *)
(* pairs each result with its call.                                         *)
(***************************************************************************)
EXTENDS ActorTurn, Positions_proofs

USE DEF vars, batch_vars, outside

\* The parts of the state the loop over a batch moves by.
LoopTypeOK ==
  /\ place \in {"ready", "model", "next", "approval", "tool"}
  /\ calls \in Seq(Calls)
  /\ completed \in Seq([call : Calls, outcome : {"done", "cancelled"}])
  /\ next_call \in 1 .. MaxCalls + 1
  /\ runs \in [Calls -> Nat]
  /\ asked \subseteq Calls

\* Where the loop is: outside it there is no batch, and what is being run or
\* asked about is a call of the batch.
LoopIsPlaced ==
  /\ Len(completed) <= Len(calls)
  /\ place \in {"ready", "model"} => calls = <<>> /\ completed = <<>>
  /\ place \in {"tool", "approval"} => Len(completed) < Len(calls)

\* The calls of a batch are fresh and one after the other.
BatchIsFresh ==
  /\ \A i \in 1 .. Len(calls) : calls[i] < next_call
  /\ \A i, j \in 1 .. Len(calls) : i < j => calls[i] < calls[j]

Untouched(c) == runs[c] = 0 /\ c \notin asked

\* What the loop has not reached has neither been started nor asked about.
AheadIsUntouched ==
  /\ \A c \in Calls : c >= next_call => Untouched(c)
  /\ \A i \in 1 .. Len(calls) : i > Len(completed) + 1 => Untouched(calls[i])
  /\ place = "next" /\ Len(completed) < Len(calls) => Untouched(current)
  /\ place = "approval" => runs[current] = 0

RunsInv ==
  /\ LoopTypeOK
  /\ LoopIsPlaced
  /\ BatchIsFresh
  /\ AheadIsUntouched
  /\ ApprovedRunsOnce

-------------------------------------------------------------------------------
(* The five things a step can do to the loop.                               *)

Outcomes == [call : Calls, outcome : {"done", "cancelled"}]

\* The call the loop is at is a call of the batch, below the fresh ones and
\* other than those behind it.
LEMMA TheCurrentCall ==
  ASSUME LoopTypeOK, BatchIsFresh, Len(completed) < Len(calls)
  PROVE  /\ current \in Calls
         /\ current < next_call
         /\ \A i \in 1 .. Len(calls) : i > Len(completed) + 1 => calls[i] # current
<1>1. Len(completed) \in Nat /\ Len(calls) \in Nat
  BY DEF LoopTypeOK
<1>2. Len(completed) + 1 \in 1 .. Len(calls)
  BY <1>1
<1>3. \A i \in 1 .. Len(calls) : calls[i] \in Calls
  BY DEF LoopTypeOK
<1>4. Calls \subseteq Nat
  BY DEF Calls
<1>5. PICK at : at = Len(completed) + 1
  OBVIOUS
<1>6. current = calls[at] /\ at \in 1 .. Len(calls)
  BY <1>2, <1>5 DEF current
<1>7. current \in Calls /\ current < next_call
  BY <1>3, <1>6 DEF BatchIsFresh
<1>8. ASSUME NEW i \in 1 .. Len(calls), i > at PROVE calls[i] # current
  <2>1. calls[at] < calls[i] /\ calls[at] \in Nat /\ calls[i] \in Nat
    BY <1>3, <1>4, <1>6, <1>8 DEF BatchIsFresh
  <2> QED
    BY <1>6, <2>1
<1> QED
  BY <1>5, <1>7, <1>8

\* Nothing about the batch changes.
Stays == UNCHANGED <<calls, completed, next_call, runs, asked, approved>>

LEMMA LoopStays ==
  ASSUME RunsInv, Stays,
         \/ place' = place
         \/ {place, place'} \subseteq {"ready", "model"}
  PROVE  RunsInv'
<1>1. LoopTypeOK' /\ BatchIsFresh' /\ ApprovedRunsOnce'
  BY DEF RunsInv, LoopTypeOK, BatchIsFresh, ApprovedRunsOnce, Stays
<1>2. LoopIsPlaced'
  BY DEF RunsInv, LoopIsPlaced, Stays
<1>3. AheadIsUntouched'
  BY DEF RunsInv, AheadIsUntouched, Untouched, current, Stays
<1> QED
  BY <1>1, <1>2, <1>3 DEF RunsInv

\* The batch is over.
LEMMA LoopEnds ==
  ASSUME RunsInv, calls' = <<>>, completed' = <<>>, place' \in {"ready", "model"},
         UNCHANGED <<next_call, runs, asked, approved>>
  PROVE  RunsInv'
<1>1. <<>> \in Seq(Calls) /\ <<>> \in Seq(Outcomes) /\ Len(<<>>) = 0
  OBVIOUS
<1>2. LoopTypeOK'
  BY <1>1 DEF RunsInv, LoopTypeOK, Outcomes
<1>3. LoopIsPlaced' /\ BatchIsFresh'
  BY <1>1 DEF LoopIsPlaced, BatchIsFresh
<1>4. AheadIsUntouched'
  BY <1>1 DEF RunsInv, AheadIsUntouched, Untouched
<1>5. ApprovedRunsOnce'
  BY DEF RunsInv, ApprovedRunsOnce
<1> QED
  BY <1>2, <1>3, <1>4, <1>5 DEF RunsInv

\* The call the loop is at is done with, one way or another.
LEMMA LoopAdvances ==
  ASSUME RunsInv, Len(completed) < Len(calls),
         NEW outcome \in {"done", "cancelled"}, Complete(outcome), place' = "next",
         approved \subseteq approved',
         UNCHANGED <<calls, next_call, runs, asked>>
  PROVE  RunsInv'
<1>1. PICK entry : entry = [call |-> current, outcome |-> outcome]
  OBVIOUS
<1>2. entry \in Outcomes
  BY <1>1, TheCurrentCall DEF Outcomes, RunsInv
<1>3. completed \in Seq(Outcomes) /\ completed' = Append(completed, entry)
  BY <1>1 DEF RunsInv, LoopTypeOK, Outcomes, Complete
<1>4. completed' \in Seq(Outcomes) /\ Len(completed') = Len(completed) + 1
  BY <1>2, <1>3
<1>5. Len(completed) \in Nat /\ Len(calls) \in Nat
  BY DEF RunsInv, LoopTypeOK
<1>6. LoopTypeOK'
  BY <1>4 DEF RunsInv, LoopTypeOK, Outcomes
<1>7. LoopIsPlaced' /\ BatchIsFresh' /\ ApprovedRunsOnce'
  BY <1>4, <1>5 DEF RunsInv, LoopIsPlaced, BatchIsFresh, ApprovedRunsOnce
<1>8. AheadIsUntouched'
  BY <1>4, <1>5 DEF RunsInv, AheadIsUntouched, Untouched, current
<1> QED
  BY <1>6, <1>7, <1>8 DEF RunsInv

\* The tool of the call the loop is at is started.
LEMMA LoopRuns ==
  ASSUME RunsInv, Len(completed) < Len(calls), RunTool,
         runs[current] = 0, current \in asked => current \in approved',
         approved \subseteq approved',
         UNCHANGED <<calls, completed, next_call, asked>>
  PROVE  RunsInv'
<1>1. PICK call : call = current
  OBVIOUS
<1>2. /\ call \in Calls /\ call < next_call
      /\ \A i \in 1 .. Len(calls) : i > Len(completed) + 1 => calls[i] # call
  BY <1>1, TheCurrentCall DEF RunsInv
<1>3. place' = "tool" /\ runs' = [runs EXCEPT ![call] = @ + 1]
  BY <1>1 DEF RunTool
<1>4. runs \in [Calls -> Nat] /\ runs[call] = 0
  BY <1>1 DEF RunsInv, LoopTypeOK
<1>5. runs' \in [Calls -> Nat] /\ runs'[call] = 1
      /\ \A c \in Calls \ {call} : runs'[c] = runs[c]
  BY <1>2, <1>3, <1>4
<1>6. LoopTypeOK' /\ LoopIsPlaced' /\ BatchIsFresh'
  BY <1>3, <1>5 DEF RunsInv, LoopTypeOK, LoopIsPlaced, BatchIsFresh
<1>7. ApprovedRunsOnce'
  <2>1. call \in asked => call \in approved'
    BY <1>1
  <2> QED
    BY <1>5, <2>1 DEF RunsInv, ApprovedRunsOnce
<1>8. AheadIsUntouched'
  <2>1. ASSUME NEW c \in Calls, c >= next_call PROVE runs'[c] = 0 /\ c \notin asked
    <3>1. c # call
      BY <1>2, <2>1 DEF RunsInv, LoopTypeOK, Calls
    <3> QED
      BY <1>5, <2>1, <3>1 DEF RunsInv, AheadIsUntouched, Untouched
  <2>2. ASSUME NEW i \in 1 .. Len(calls), i > Len(completed) + 1
        PROVE  runs'[calls[i]] = 0 /\ calls[i] \notin asked
    <3>1. calls[i] \in Calls /\ calls[i] # call
      BY <1>2, <2>2 DEF RunsInv, LoopTypeOK
    <3> QED
      BY <1>5, <2>2, <3>1 DEF RunsInv, AheadIsUntouched, Untouched
  <2> QED
    BY <1>3, <2>1, <2>2 DEF AheadIsUntouched, Untouched
<1> QED
  BY <1>6, <1>7, <1>8 DEF RunsInv

-------------------------------------------------------------------------------
(* The steps, one by one.                                                   *)

LEMMA RunsInit ==
  ASSUME TurnAssumption, Init PROVE RunsInv
<1>1. <<>> \in Seq(Calls) /\ <<>> \in Seq(Outcomes) /\ Len(<<>>) = 0
  OBVIOUS
<1>2. 1 \in 1 .. MaxCalls + 1
  BY DEF TurnAssumption
<1>3. LoopTypeOK
  BY <1>1, <1>2 DEF Init, LoopTypeOK, Outcomes
<1>4. LoopIsPlaced /\ BatchIsFresh
  BY <1>1 DEF Init, LoopIsPlaced, BatchIsFresh
<1>5. AheadIsUntouched /\ ApprovedRunsOnce
  BY <1>1 DEF Init, AheadIsUntouched, Untouched, ApprovedRunsOnce
<1> QED
  BY <1>3, <1>4, <1>5 DEF RunsInv

\* A batch takes the next numbers, all of them fresh.
LEMMA RunsModelCalls ==
  ASSUME TurnAssumption, RunsInv, ModelCalls PROVE RunsInv'
<1>1. PICK n \in 1 .. MaxBatch :
        /\ next_call + n - 1 <= MaxCalls
        /\ calls' = [i \in 1 .. n |-> next_call + i - 1]
        /\ next_call' = next_call + n
  BY DEF ModelCalls
<1>2. n \in Nat /\ n >= 1 /\ next_call \in Nat /\ next_call >= 1 /\ MaxCalls \in Nat
  BY DEF TurnAssumption, RunsInv, LoopTypeOK
<1>3. calls' \in Seq(Calls) /\ Len(calls') = n
  <2>1. \A i \in 1 .. n : next_call + i - 1 \in Calls
    BY <1>1, <1>2 DEF Calls
  <2> QED
    BY <1>1, <1>2, <2>1
<1>4. \A i \in 1 .. n : calls'[i] = next_call + i - 1
  BY <1>1
<1>5. completed' = <<>> /\ place' = "next" /\ UNCHANGED <<runs, asked, approved>>
  BY DEF ModelCalls
<1>6. Len(completed') = 0 /\ <<>> \in Seq(Outcomes)
  BY <1>5
<1>7. LoopTypeOK'
  <2>1. next_call' \in 1 .. MaxCalls + 1
    BY <1>1, <1>2
  <2> QED
    BY <1>3, <1>5, <1>6, <2>1 DEF RunsInv, LoopTypeOK, Outcomes
<1>8. LoopIsPlaced'
  BY <1>2, <1>3, <1>5, <1>6 DEF LoopIsPlaced
<1>9. BatchIsFresh'
  BY <1>1, <1>2, <1>3, <1>4 DEF BatchIsFresh
<1>10. ASSUME NEW c \in Calls, c >= next_call PROVE runs'[c] = 0 /\ c \notin asked'
  BY <1>5, <1>10 DEF RunsInv, AheadIsUntouched, Untouched
<1>11. \A i \in 1 .. n : calls'[i] \in Calls /\ calls'[i] >= next_call
  BY <1>1, <1>2, <1>4 DEF Calls
<1>12. \A c \in Calls : c >= next_call' => c >= next_call
  BY <1>1, <1>2 DEF Calls
<1>13. current' = calls'[1] /\ 1 \in 1 .. n
  BY <1>2, <1>6 DEF current
<1>14. AheadIsUntouched'
  BY <1>3, <1>5, <1>10, <1>11, <1>12, <1>13 DEF AheadIsUntouched, Untouched
<1>15. ApprovedRunsOnce'
  BY <1>5 DEF RunsInv, ApprovedRunsOnce
<1> QED
  BY <1>7, <1>8, <1>9, <1>14, <1>15 DEF RunsInv

\* Only the call the loop is at is asked about.
LEMMA RunsCallAsks ==
  ASSUME RunsInv, CallAsks PROVE RunsInv'
<1>1. PICK call : call = current
  OBVIOUS
<1>2. /\ place = "next" /\ Len(completed) < Len(calls)
      /\ asked' = asked \cup {call} /\ place' = "approval"
      /\ UNCHANGED <<calls, completed, next_call, runs, approved>>
  BY <1>1 DEF CallAsks, AtCall
<1>3. /\ call \in Calls /\ call < next_call
      /\ \A i \in 1 .. Len(calls) : i > Len(completed) + 1 => calls[i] # call
  BY <1>1, <1>2, TheCurrentCall DEF RunsInv
<1>4. runs[call] = 0
  BY <1>1, <1>2 DEF RunsInv, AheadIsUntouched, Untouched
<1>5. LoopTypeOK' /\ LoopIsPlaced' /\ BatchIsFresh'
  BY <1>2, <1>3 DEF RunsInv, LoopTypeOK, LoopIsPlaced, BatchIsFresh
<1>6. ApprovedRunsOnce'
  BY <1>2, <1>4 DEF RunsInv, ApprovedRunsOnce
<1>7. AheadIsUntouched'
  <2>1. ASSUME NEW c \in Calls, c >= next_call PROVE runs[c] = 0 /\ c \notin asked'
    <3>1. c # call
      BY <1>3, <2>1 DEF RunsInv, LoopTypeOK, Calls
    <3> QED
      BY <1>2, <2>1, <3>1 DEF RunsInv, AheadIsUntouched, Untouched
  <2>2. ASSUME NEW i \in 1 .. Len(calls), i > Len(completed) + 1
        PROVE  runs[calls[i]] = 0 /\ calls[i] \notin asked'
    BY <1>2, <1>3, <2>2 DEF RunsInv, AheadIsUntouched, Untouched
  <2>3. runs[current]' = 0
    BY <1>1, <1>2, <1>4 DEF current
  <2> QED
    BY <1>2, <2>1, <2>2, <2>3 DEF AheadIsUntouched, Untouched
<1> QED
  BY <1>5, <1>6, <1>7 DEF RunsInv

LEMMA RunsApprove ==
  ASSUME RunsInv, Approve PROVE RunsInv'
<1>1. /\ place = "approval" /\ Len(completed) < Len(calls) /\ runs[current] = 0
      /\ approved' = approved \cup {current}
      /\ UNCHANGED <<calls, next_call, asked>>
  BY DEF Approve, RunsInv, LoopIsPlaced, AheadIsUntouched
<1>2. CASE RunTool /\ UNCHANGED completed
  BY <1>1, <1>2, LoopRuns
<1>3. CASE SuspendAt /\ UNCHANGED runs
  BY <1>1, <1>3, LoopAdvances DEF SuspendAt
<1> QED
  BY <1>2, <1>3 DEF Approve

LEMMA RunsStep ==
  ASSUME TurnAssumption, RunsInv, [Next]_vars PROVE RunsInv'
<1> USE DEF Stays, BackToReady
<1>1. CASE UNCHANGED vars
  BY <1>1, LoopStays
<1>2. CASE \/ UserMessage \/ Resume \/ InterruptIdle \/ Continue
           \/ Unwind \/ Compact \/ AnswerInvalid \/ Checkpoint
  BY <1>2, LoopStays DEF UserMessage, Resume, InterruptIdle, Continue, Unwind,
                         Compact, AnswerInvalid, Checkpoint
<1>3. CASE \/ EndTurn \/ AbandonBatch \/ StoreAndSuspend \/ StoreAndGoOn
           \/ StoreFails \/ Restart
  BY <1>3, LoopEnds DEF EndTurn, AbandonBatch, StoreAndSuspend, StoreAndGoOn,
                        StoreFails, Restart
<1>4. CASE ModelCalls
  BY <1>4, RunsModelCalls
<1>5. CASE CallAnswered \/ CallWait
  BY <1>5, LoopAdvances DEF CallAnswered, CallWait, AtCall, SuspendAt
<1>6. CASE CallTool
  <2>1. Len(completed) < Len(calls) /\ runs[current] = 0 /\ current \notin asked
    BY <1>6 DEF CallTool, AtCall, RunsInv, AheadIsUntouched, Untouched
  <2> QED
    BY <1>6, <2>1, LoopRuns DEF CallTool
<1>7. CASE CallAsks
  BY <1>7, RunsCallAsks
<1>8. CASE Approve
  BY <1>8, RunsApprove
<1>9. CASE Deny \/ ToolDone
  <2>1. Len(completed) < Len(calls)
    BY <1>9 DEF Deny, ToolDone, RunsInv, LoopIsPlaced
  <2> QED
    BY <1>9, <2>1, LoopAdvances DEF Deny, ToolDone
<1>10. CASE InterruptTurn
  <2>1. CASE place = "model" /\ BackToReady
    BY <1>10, <2>1, LoopEnds DEF InterruptTurn
  <2>2. CASE place # "model" /\ Complete("cancelled") /\ place' = "next" /\ UNCHANGED calls
    <3>1. Len(completed) < Len(calls)
      BY <1>10, <2>2 DEF InterruptTurn, RunsInv, LoopIsPlaced
    <3> QED
      BY <1>10, <2>2, <3>1, LoopAdvances DEF InterruptTurn
  <2> QED
    BY <1>10, <2>1, <2>2 DEF InterruptTurn
<1> QED
  BY <1>1, <1>2, <1>3, <1>4, <1>5, <1>6, <1>7, <1>8, <1>9, <1>10 DEF Next

-------------------------------------------------------------------------------
(* Histories whose calls and results are paired.                            *)

\* At gives the members at some positions in the order of those positions.
LEMMA AtInOrder ==
  ASSUME NEW N \in Nat, NEW P \in SUBSET (1 .. N)
  PROVE  /\ Cardinality(P) \in Nat
         /\ \E pos \in [1 .. Cardinality(P) -> P] :
              /\ \A m, n \in 1 .. Cardinality(P) : m < n => pos[m] < pos[n]
              /\ \A p \in P : \E n \in 1 .. Cardinality(P) : pos[n] = p
              /\ \A s : At(s, P) = [n \in 1 .. Cardinality(P) |-> s[pos[n]]]
  BY PositionsInOrder DEF At

Messages ==
  {UserText, Text} \cup {Message("use", s) : s \in SUBSET Calls}
                   \cup {Result(c) : c \in Calls}

\* The result at j is in the row of results that follows the message at i.
Follows(h, i, j) ==
  i < j /\ \A k \in DOMAIN h : i < k /\ k < j => h[k].kind = "result"

\* A call is made once and answered at most once, in the row of results that
\* follows it.
Paired(h) ==
  /\ \A c \in Calls : \A i, j \in UsesOf(h, c) : i = j
  /\ \A c \in Calls : \A i, j \in ResultsOf(h, c) : i = j
  /\ \A c \in Calls : \A j \in ResultsOf(h, c) :
       \E i \in UsesOf(h, c) : Follows(h, i, j)

OpenCalls(h) == {c \in CallsIn(h) : ~ Answered(h, c)}

\* The message at i makes the call w, only results follow it, and none is w's.
OpenAt(h, i, w) ==
  /\ i \in UsesOf(h, w)
  /\ \A k \in DOMAIN h : i < k => h[k].kind = "result"
  /\ ResultsOf(h, w) = {}

LEMMA MessageFacts ==
  /\ \A m \in Messages :
       /\ m = [kind |-> m.kind, calls |-> m.calls]
       /\ m.kind \in {"user", "text", "use", "result"}
       /\ m.calls \subseteq Calls
       /\ m.kind \in {"user", "text"} => m.calls = {}
       /\ m.kind = "use" => m = Message("use", m.calls)
       /\ m.kind = "result" => \E c \in Calls : m = Result(c)
  /\ \A c \in Calls : /\ Result(c) \in Messages
                      /\ Result(c).kind = "result" /\ Result(c).calls = {c}
  /\ UserText \in Messages /\ Text \in Messages
  /\ UserText.kind = "user" /\ UserText.calls = {}
  /\ Text.kind = "text" /\ Text.calls = {}
  /\ \A s \in SUBSET Calls : /\ Message("use", s) \in Messages
                             /\ Message("use", s).kind = "use"
                             /\ Message("use", s).calls = s
<1> USE DEF Messages
<1>1. \A c \in Calls : Result(c) \in Messages /\ Result(c).kind = "result" /\ Result(c).calls = {c}
  BY DEF Message, Result
<1>2. /\ UserText \in Messages /\ Text \in Messages
      /\ UserText.kind = "user" /\ UserText.calls = {}
      /\ Text.kind = "text" /\ Text.calls = {}
  BY DEF UserText, Text, Message
<1>3. \A s \in SUBSET Calls : /\ Message("use", s) \in Messages
                              /\ Message("use", s).kind = "use"
                              /\ Message("use", s).calls = s
  BY DEF Message
<1>4. ASSUME NEW m \in Messages
      PROVE  /\ m = [kind |-> m.kind, calls |-> m.calls]
             /\ m.kind \in {"user", "text", "use", "result"}
             /\ m.calls \subseteq Calls
             /\ m.kind \in {"user", "text"} => m.calls = {}
             /\ m.kind = "use" => m = Message("use", m.calls)
             /\ m.kind = "result" => \E c \in Calls : m = Result(c)
  <2>1. CASE m \in {UserText, Text}
    BY <2>1 DEF UserText, Text, Message
  <2>2. CASE \E s \in SUBSET Calls : m = Message("use", s)
    BY <2>2 DEF Message
  <2>3. CASE \E c \in Calls : m = Result(c)
    <3>1. PICK c \in Calls : m = Result(c)
      BY <2>3
    <3>2. m = [kind |-> "result", calls |-> {c}]
      BY <3>1 DEF Result, Message
    <3>3. m.kind = "result" /\ m.calls = {c}
      BY <3>2
    <3>4. m = [kind |-> m.kind, calls |-> m.calls]
      BY <3>2
    <3> QED
      BY <3>1, <3>3, <3>4
  <2> QED
    BY <2>1, <2>2, <2>3
<1> QED
  BY <1>1, <1>2, <1>3, <1>4

\* A result of c is a result message whose only call is c.
LEMMA ResultsAt ==
  ASSUME NEW h \in Seq(Messages), NEW i \in DOMAIN h, NEW c \in Calls
  PROVE  /\ i \in ResultsOf(h, c) <=> h[i].kind = "result" /\ c \in h[i].calls
         /\ i \in UsesOf(h, c) <=> h[i].kind = "use" /\ c \in h[i].calls
<1>1. h[i] \in Messages
  OBVIOUS
<1>2. h[i].kind = "result" => \E d \in Calls : h[i] = Result(d) /\ h[i].calls = {d}
  BY <1>1, MessageFacts
<1>3. Result(c).kind = "result" /\ Result(c).calls = {c}
  BY MessageFacts
<1> QED
  BY <1>2, <1>3 DEF ResultsOf, UsesOf

LEMMA CallsOf ==
  ASSUME NEW h \in Seq(Messages)
  PROVE  /\ CallsIn(h) \subseteq Calls
         /\ \A c \in Calls : c \in CallsIn(h) <=> UsesOf(h, c) \cup ResultsOf(h, c) # {}
         /\ \A c \in Calls : \A i \in DOMAIN h : c \in h[i].calls => c \in CallsIn(h)
<1>1. \A i \in DOMAIN h : h[i] \in Messages
  OBVIOUS
<1>2. CallsIn(h) \subseteq Calls
  BY <1>1, MessageFacts DEF CallsIn
<1>3. ASSUME NEW c \in Calls
      PROVE  c \in CallsIn(h) <=> UsesOf(h, c) \cup ResultsOf(h, c) # {}
  <2>1. \A i \in DOMAIN h : c \in h[i].calls => h[i].kind \in {"use", "result"}
    BY <1>1, MessageFacts
  <2>2. \A i \in DOMAIN h : c \in h[i].calls <=> i \in UsesOf(h, c) \/ i \in ResultsOf(h, c)
    BY <2>1, ResultsAt
  <2>3. UsesOf(h, c) \subseteq DOMAIN h /\ ResultsOf(h, c) \subseteq DOMAIN h
    BY DEF UsesOf, ResultsOf
  <2> QED
    BY <2>2, <2>3 DEF CallsIn
<1> QED
  BY <1>2, <1>3 DEF CallsIn

-------------------------------------------------------------------------------
(* What a cut leaves of a history.                                          *)

\* The messages of g come from h in their order, perhaps with fewer calls, but
\* for some without calls at its start.
Embeds(h, g, d, pos) ==
  /\ \A n \in DOMAIN g : n < d => g[n].calls = {}
  /\ \A n \in DOMAIN g : n >= d => /\ pos[n] \in DOMAIN h
                                   /\ g[n].kind = h[pos[n]].kind
                                   /\ g[n].calls \subseteq h[pos[n]].calls
  /\ \A m, n \in DOMAIN g : d <= m /\ m < n => pos[m] < pos[n]

\* With each of its results g has the call that had it in h.
KeepsCalls(h, g, pos) ==
  \A c \in Calls : \A j \in ResultsOf(g, c) : \A i \in UsesOf(h, c) :
    Follows(h, i, pos[j]) => \E n \in UsesOf(g, c) : pos[n] = i

LEMMA EmbeddedIsPaired ==
  ASSUME NEW h \in Seq(Messages), NEW g \in Seq(Messages), Paired(h),
         NEW d \in Nat, NEW pos, Embeds(h, g, d, pos), KeepsCalls(h, g, pos)
  PROVE  /\ Paired(g)
         /\ CallsIn(g) \subseteq CallsIn(h)
         /\ \A c \in Calls : \A n \in UsesOf(g, c) : n >= d /\ pos[n] \in UsesOf(h, c)
<1>1. DOMAIN g = 1 .. Len(g) /\ Len(g) \in Nat /\ DOMAIN h = 1 .. Len(h) /\ Len(h) \in Nat
  OBVIOUS
<1> USE DEF Embeds, KeepsCalls
<1>2. ASSUME NEW c \in Calls, NEW n \in UsesOf(g, c)
      PROVE  n \in DOMAIN g /\ n >= d /\ pos[n] \in UsesOf(h, c)
  <2>1. n \in DOMAIN g /\ g[n].kind = "use" /\ c \in g[n].calls
    BY DEF UsesOf
  <2>2. n \in Int /\ ~ n < d
    BY <1>1, <2>1
  <2>3. n >= d
    BY <2>2
  <2> QED
    BY <2>1, <2>3 DEF UsesOf
<1>3. ASSUME NEW c \in Calls, NEW n \in ResultsOf(g, c)
      PROVE  n \in DOMAIN g /\ n >= d /\ pos[n] \in ResultsOf(h, c)
  <2>1. n \in DOMAIN g /\ g[n].kind = "result" /\ c \in g[n].calls
    BY MessageFacts DEF ResultsOf
  <2>2. n \in Int /\ ~ n < d
    BY <1>1, <2>1
  <2>3. n >= d
    BY <2>2
  <2>4. pos[n] \in DOMAIN h /\ h[pos[n]].kind = "result" /\ c \in h[pos[n]].calls
    BY <2>1, <2>3
  <2> QED
    BY <2>1, <2>3, <2>4, ResultsAt
<1>4. ASSUME NEW m \in DOMAIN g, NEW n \in DOMAIN g, m >= d, n >= d, pos[m] = pos[n]
      PROVE  m = n
  <2>1. pos[m] \in Int /\ pos[n] \in Int /\ m \in Int /\ n \in Int
    BY <1>1, <1>4
  <2>2. ~ m < n /\ ~ n < m
    BY <1>4, <2>1
  <2> QED
    BY <2>1, <2>2
<1>5. ASSUME NEW c \in Calls, NEW i \in UsesOf(g, c), NEW j \in UsesOf(g, c)
      PROVE  i = j
  BY <1>2, <1>4 DEF Paired
<1>6. ASSUME NEW c \in Calls, NEW i \in ResultsOf(g, c), NEW j \in ResultsOf(g, c)
      PROVE  i = j
  BY <1>3, <1>4 DEF Paired
<1>7. ASSUME NEW c \in Calls, NEW j \in ResultsOf(g, c)
      PROVE  \E i \in UsesOf(g, c) : Follows(g, i, j)
  <2>1. PICK i \in UsesOf(h, c) : Follows(h, i, pos[j])
    BY <1>3 DEF Paired
  <2>2. PICK n \in UsesOf(g, c) : pos[n] = i
    BY <2>1
  <2>3. n \in DOMAIN g /\ j \in DOMAIN g /\ n >= d /\ j >= d /\ n \in Int /\ j \in Int
    BY <1>1, <1>2, <1>3
  <2>4. pos[n] \in Int /\ pos[j] \in Int /\ pos[n] < pos[j]
    BY <1>1, <2>1, <2>2, <2>3 DEF Follows
  <2>5. n < j
    <3>1. ~ j < n /\ j # n
      BY <2>3, <2>4
    <3> QED
      BY <2>3, <3>1
  <2>6. ASSUME NEW k \in DOMAIN g, n < k, k < j PROVE g[k].kind = "result"
    <3>1. k \in Int /\ k >= d
      BY <1>1, <2>3, <2>6
    <3>2. pos[k] \in DOMAIN h /\ pos[n] < pos[k] /\ pos[k] < pos[j]
      BY <2>3, <2>6, <3>1
    <3> QED
      BY <2>1, <2>2, <3>1, <3>2 DEF Follows
  <2> QED
    BY <2>5, <2>6 DEF Follows
<1>8. CallsIn(g) \subseteq CallsIn(h)
  <2>1. ASSUME NEW c \in CallsIn(g) PROVE c \in CallsIn(h)
    <3>1. PICK n \in DOMAIN g : c \in g[n].calls
      BY DEF CallsIn
    <3>2. n >= d
      BY <1>1, <3>1
    <3> QED
      BY <3>1, <3>2 DEF CallsIn
  <2> QED
    BY <2>1
<1>9. Paired(g)
  BY <1>5, <1>6, <1>7 DEF Paired
<1> QED
  BY <1>2, <1>8, <1>9

\* unwind_history first cuts the history at a message.
LEMMA PrefixIsPaired ==
  ASSUME NEW h \in Seq(Messages), Paired(h), NEW i \in DOMAIN h
  PROVE  /\ SubSeq(h, 1, i - 1) \in Seq(Messages)
         /\ Paired(SubSeq(h, 1, i - 1))
         /\ CallsIn(SubSeq(h, 1, i - 1)) \subseteq CallsIn(h)
<1> DEFINE g == SubSeq(h, 1, i - 1)
           pos == [n \in Nat |-> n]
<1>1. /\ g \in Seq(Messages) /\ DOMAIN g = 1 .. i - 1
      /\ \A n \in DOMAIN g : n \in DOMAIN h /\ g[n] = h[n]
  OBVIOUS
<1>2. \A n \in DOMAIN g : pos[n] = n /\ n \in Nat /\ n >= 1
  BY <1>1
<1> HIDE DEF g, pos
<1>3. ASSUME NEW c \in Calls, NEW j \in ResultsOf(g, c), NEW u \in UsesOf(h, c),
             Follows(h, u, pos[j])
      PROVE  \E n \in UsesOf(g, c) : pos[n] = u
  <2>1. j \in DOMAIN g /\ pos[j] = j
    BY <1>2 DEF ResultsOf
  <2>2. u \in DOMAIN h /\ u < j
    BY <1>3, <2>1 DEF UsesOf, Follows
  <2>3. u \in DOMAIN g
    BY <1>1, <2>1, <2>2
  <2>4. u \in UsesOf(g, c)
    BY <1>1, <2>3 DEF UsesOf
  <2> QED
    BY <1>2, <2>3, <2>4
<1>4. Paired(g) /\ CallsIn(g) \subseteq CallsIn(h)
  <2>1. Embeds(h, g, 1, pos)
    BY <1>1, <1>2 DEF Embeds
  <2>2. KeepsCalls(h, g, pos)
    BY <1>3 DEF KeepsCalls
  <2> QED
    BY <1>1, <2>1, <2>2, EmbeddedIsPaired
<1> QED
  BY <1>1, <1>4 DEF g

\* sanitize_restored_history leaves each call with its result, and none open.
LEMMA SanitizeIsPaired ==
  ASSUME NEW h \in Seq(Messages), Paired(h)
  PROVE  /\ Sanitize(h) \in Seq(Messages)
         /\ Paired(Sanitize(h))
         /\ CallsIn(Sanitize(h)) \subseteq CallsIn(h)
         /\ OpenCalls(Sanitize(h)) = {}
<1> DEFINE valid == {c \in CallsIn(h) : Answered(h, c)}
           kept == [i \in DOMAIN h |-> Message(h[i].kind, h[i].calls \cap valid)]
           stays == {i \in DOMAIN h : h[i].kind \in {"use", "result"} => kept[i].calls # {}}
           g == Sanitize(h)
<1>1. g = At(kept, stays)
  BY DEF Sanitize
<1>2. DOMAIN h = 1 .. Len(h) /\ Len(h) \in Nat /\ stays \in SUBSET (1 .. Len(h))
  OBVIOUS
<1>3. \A i \in DOMAIN h : h[i] \in Messages
  OBVIOUS
<1> HIDE DEF valid
<1>4. ASSUME NEW i \in DOMAIN h
      PROVE  /\ kept[i].kind = h[i].kind
             /\ kept[i].calls = h[i].calls \cap valid
             /\ kept[i] = [kind |-> h[i].kind, calls |-> h[i].calls \cap valid]
  BY DEF Message
<1> HIDE DEF kept, g
<1>5. ASSUME NEW c \in Calls, NEW j \in ResultsOf(h, c)
      PROVE  /\ c \in valid
             /\ \E i \in UsesOf(h, c) : Follows(h, i, j)
  <2>1. PICK i \in UsesOf(h, c) : Follows(h, i, j)
    BY DEF Paired
  <2>2. i < j
    BY <2>1 DEF Follows
  <2>3. c \in CallsIn(h)
    BY CallsOf
  <2> QED
    BY <2>1, <2>2, <2>3 DEF valid, Answered
<1>6. ASSUME NEW c \in Calls, NEW j \in ResultsOf(h, c)
      PROVE  j \in stays /\ kept[j].kind = "result" /\ c \in kept[j].calls
  <2>1. j \in DOMAIN h /\ h[j].kind = "result" /\ c \in h[j].calls
    BY MessageFacts DEF ResultsOf
  <2> QED
    BY <1>4, <1>5, <2>1
<1>7. ASSUME NEW c \in Calls, NEW i \in UsesOf(h, c), c \in valid
      PROVE  i \in stays /\ kept[i].kind = "use" /\ c \in kept[i].calls
  <2>1. i \in DOMAIN h /\ h[i].kind = "use" /\ c \in h[i].calls
    BY DEF UsesOf
  <2> QED
    BY <1>4, <1>7, <2>1
<1>8. \A i \in stays : kept[i] \in Messages
  <2> TAKE i \in stays
  <2>1. i \in DOMAIN h
    OBVIOUS
  <2>2. PICK m \in Messages : m = h[i]
    BY <1>3, <2>1
  <2>3. CASE m.kind \in {"user", "text"}
    <3>1. m.calls \cap valid = m.calls /\ m = [kind |-> m.kind, calls |-> m.calls]
      BY <2>3, MessageFacts
    <3> QED
      BY <1>4, <2>1, <2>2, <3>1
  <2>4. CASE m.kind = "use"
    <3>1. m.calls \cap valid \in SUBSET Calls
      BY MessageFacts
    <3>2. kept[i] = Message("use", m.calls \cap valid)
      BY <1>4, <2>1, <2>2, <2>4 DEF Message
    <3> QED
      BY <3>1, <3>2, MessageFacts
  <2>5. CASE m.kind = "result"
    <3>1. PICK c \in Calls : m = Result(c)
      BY <2>5, MessageFacts
    <3>2. i \in ResultsOf(h, c) /\ m.calls = {c}
      BY <2>1, <2>2, <3>1, MessageFacts DEF ResultsOf
    <3>3. m.calls \cap valid = m.calls /\ m = [kind |-> m.kind, calls |-> m.calls]
      BY <1>5, <3>2, MessageFacts
    <3> QED
      BY <1>4, <2>1, <2>2, <3>3
  <2> QED
    BY <2>3, <2>4, <2>5, MessageFacts
<1> DEFINE size == Cardinality(stays)
<1> HIDE DEF stays
<1>9. /\ size \in Nat
      /\ \E pos \in [1 .. size -> stays] :
           /\ \A m, n \in 1 .. size : m < n => pos[m] < pos[n]
           /\ \A p \in stays : \E n \in 1 .. size : pos[n] = p
           /\ g = [n \in 1 .. size |-> kept[pos[n]]]
  <2>1. /\ size \in Nat
        /\ \E pos \in [1 .. size -> stays] :
             /\ \A m, n \in 1 .. size : m < n => pos[m] < pos[n]
             /\ \A p \in stays : \E n \in 1 .. size : pos[n] = p
             /\ \A s : At(s, stays) = [n \in 1 .. size |-> s[pos[n]]]
    BY <1>2, AtInOrder
  <2> HIDE DEF size
  <2>2. PICK pos \in [1 .. size -> stays] :
             /\ \A m, n \in 1 .. size : m < n => pos[m] < pos[n]
             /\ \A p \in stays : \E n \in 1 .. size : pos[n] = p
             /\ \A s : At(s, stays) = [n \in 1 .. size |-> s[pos[n]]]
    BY <2>1
  <2>3. g = [n \in 1 .. size |-> kept[pos[n]]]
    BY <1>1, <2>2
  <2> QED
    BY <2>1, <2>2, <2>3
<1> HIDE DEF size
<1>10. PICK pos \in [1 .. size -> stays] :
           /\ \A m, n \in 1 .. size : m < n => pos[m] < pos[n]
           /\ \A p \in stays : \E n \in 1 .. size : pos[n] = p
           /\ g = [n \in 1 .. size |-> kept[pos[n]]]
  BY <1>9
<1>11. DOMAIN g = 1 .. size /\ \A n \in 1 .. size : g[n] = kept[pos[n]] /\ pos[n] \in stays
  BY <1>10
<1>12. g \in Seq(Messages)
  BY <1>8, <1>9, <1>10, <1>11
<1>13. stays \subseteq DOMAIN h
  BY DEF stays
<1>14. Embeds(h, g, 1, pos)
  <2>1. ASSUME NEW n \in DOMAIN g
        PROVE  /\ pos[n] \in DOMAIN h /\ g[n].kind = h[pos[n]].kind
               /\ g[n].calls \subseteq h[pos[n]].calls
               /\ ~ n < 1
    <3>1. n \in 1 .. size /\ g[n] = kept[pos[n]] /\ pos[n] \in DOMAIN h
      BY <1>11, <1>13
    <3>2. n \in Int /\ n >= 1
      BY <1>9, <3>1
    <3>3. ~ n < 1
      BY <3>2
    <3> QED
      BY <1>4, <3>1, <3>3
  <2> QED
    BY <1>10, <1>11, <2>1 DEF Embeds
<1>15. ASSUME NEW c \in Calls, NEW i \in UsesOf(h, c), c \in valid
       PROVE  \E n \in UsesOf(g, c) : pos[n] = i
  <2>1. PICK n \in 1 .. size : pos[n] = i
    BY <1>7, <1>10, <1>15
  <2>2. n \in UsesOf(g, c)
    BY <1>7, <1>11, <1>15, <2>1 DEF UsesOf
  <2> QED
    BY <2>1, <2>2
<1>16. ASSUME NEW c \in Calls, NEW j \in ResultsOf(h, c)
       PROVE  \E n \in ResultsOf(g, c) : pos[n] = j
  <2>1. PICK n \in 1 .. size : pos[n] = j
    BY <1>6, <1>10
  <2>2. n \in DOMAIN g /\ g[n].kind = "result" /\ c \in g[n].calls
    BY <1>6, <1>11, <2>1
  <2>3. n \in ResultsOf(g, c)
    BY <1>12, <2>2, ResultsAt
  <2> QED
    BY <2>1, <2>3
<1>17. ASSUME NEW c \in Calls, NEW n \in ResultsOf(g, c)
       PROVE  c \in valid
  <2>1. n \in DOMAIN g /\ g[n].kind = "result" /\ c \in g[n].calls
    BY MessageFacts DEF ResultsOf
  <2>2. g[n] = kept[pos[n]] /\ pos[n] \in DOMAIN h
    BY <1>11, <1>13, <2>1
  <2>3. g[n].calls = h[pos[n]].calls \cap valid
    BY <1>4, <2>2
  <2> QED
    BY <2>1, <2>3
<1>18. KeepsCalls(h, g, pos)
  BY <1>15, <1>17 DEF KeepsCalls
<1>19. /\ Paired(g) /\ CallsIn(g) \subseteq CallsIn(h)
       /\ \A c \in Calls : \A n \in UsesOf(g, c) : n >= 1 /\ pos[n] \in UsesOf(h, c)
  BY <1>12, <1>14, <1>18, EmbeddedIsPaired
<1>20. ASSUME NEW c \in CallsIn(g) PROVE Answered(g, c)
  <2>1. c \in Calls
    BY <1>12, CallsOf
  <2>2. CASE \E j \in ResultsOf(g, c) : TRUE
    BY <1>19, <2>1, <2>2 DEF Paired, Follows, Answered
  <2>3. CASE \E n \in UsesOf(g, c) : TRUE
    <3>1. PICK n \in UsesOf(g, c) : n \in DOMAIN g /\ c \in g[n].calls
      BY <2>3 DEF UsesOf
    <3>2. c \in valid
      <4>1. g[n] = kept[pos[n]] /\ pos[n] \in DOMAIN h
        BY <1>11, <1>13, <3>1
      <4>2. g[n].calls = h[pos[n]].calls \cap valid
        BY <1>4, <4>1
      <4> QED
        BY <3>1, <4>2
    <3>3. PICK i \in UsesOf(h, c), j \in ResultsOf(h, c) : i < j
      BY <3>2 DEF valid, Answered
    <3>4. PICK m \in ResultsOf(g, c) : pos[m] = j
      BY <1>16, <2>1
    <3> QED
      BY <2>1, <2>2, <3>4
  <2> QED
    BY <1>12, <2>1, <2>2, <2>3, CallsOf
<1> QED
  BY <1>12, <1>19, <1>20 DEF OpenCalls, g

\* The live tail holds the call of each of its results, and a call that only
\* results follow.
LEMMA TailHoldsCalls ==
  ASSUME NEW h \in Seq(Messages), Paired(h)
  PROVE  /\ TailStart(h) \in 1 .. Len(h) + 1
         /\ \A c \in Calls : \A i \in UsesOf(h, c) : \A j \in ResultsOf(h, c) :
              Follows(h, i, j) /\ j >= TailStart(h) => i >= TailStart(h)
         /\ \A c \in Calls : \A i \in DOMAIN h : OpenAt(h, i, c) => i >= TailStart(h)
<1> DEFINE t == TailStart(h)
<1>1. Len(h) \in Nat /\ DOMAIN h = 1 .. Len(h) /\ (h = <<>> <=> Len(h) = 0)
  OBVIOUS
<1>2. \A c \in Calls : /\ \A j \in ResultsOf(h, c) : j \in DOMAIN h /\ h[j].kind = "result"
                       /\ \A i \in UsesOf(h, c) : i \in DOMAIN h /\ h[i].kind = "use"
  BY MessageFacts DEF ResultsOf, UsesOf
<1>3. CASE h = <<>> \/ h[Len(h)].kind = "text"
  <2>1. t = Len(h) + 1
    BY <1>3 DEF TailStart
  <2>2. ASSUME NEW c \in Calls, NEW i \in DOMAIN h, OpenAt(h, i, c) PROVE FALSE
    <3>1. i \in UsesOf(h, c) /\ \A k \in DOMAIN h : i < k => h[k].kind = "result"
      BY <2>2 DEF OpenAt
    <3>2. Len(h) \in DOMAIN h /\ h[Len(h)].kind = "text" /\ i \in Int /\ i <= Len(h)
      BY <1>1, <1>3, <2>2
    <3>3. i # Len(h)
      BY <1>2, <3>1, <3>2
    <3> QED
      BY <1>1, <3>1, <3>2, <3>3
  <2> HIDE DEF t
  <2>3. \A c \in Calls : \A j \in ResultsOf(h, c) : ~ j >= t
    BY <1>1, <1>2, <2>1
  <2> QED
    BY <1>1, <2>1, <2>2, <2>3 DEF t
<1>4. CASE ~ (h = <<>> \/ h[Len(h)].kind = "text") /\ h[Len(h)].kind # "result"
  <2>1. t = Len(h) /\ Len(h) \in DOMAIN h
    BY <1>1, <1>4 DEF TailStart
  <2>2. ASSUME NEW c \in Calls, NEW i \in DOMAIN h, OpenAt(h, i, c) PROVE i = Len(h)
    BY <1>1, <1>4, <2>1, <2>2 DEF OpenAt
  <2> HIDE DEF t
  <2>3. \A c \in Calls : \A j \in ResultsOf(h, c) : ~ j >= t
    <3>1. SUFFICES ASSUME NEW c \in Calls, NEW j \in ResultsOf(h, c), j >= t PROVE FALSE
      OBVIOUS
    <3>2. j = Len(h)
      BY <1>1, <1>2, <2>1, <3>1
    <3> QED
      BY <1>2, <1>4, <3>2
  <2> QED
    BY <1>1, <2>1, <2>2, <2>3 DEF t
<1>5. CASE ~ (h = <<>> \/ h[Len(h)].kind = "text") /\ h[Len(h)].kind = "result"
  <2> DEFINE row == {i \in DOMAIN h : \A j \in i .. Len(h) : h[j].kind = "result"}
             first == Min(row)
  <2>1. t = IF first > 1 /\ h[first - 1].kind = "use" THEN first - 1 ELSE first
    BY <1>5 DEF TailStart
  <2>2. row \in SUBSET Nat /\ Len(h) \in row
    BY <1>1, <1>5
  <2> HIDE DEF row
  <2>3. first \in row /\ \A y \in row : first <= y
    BY <2>2, LeastExists
  <2> HIDE DEF first, t
  <2>4. first \in DOMAIN h /\ \A j \in DOMAIN h : j >= first => h[j].kind = "result"
    BY <1>1, <2>3 DEF row
  <2>5. first > 1 => h[first - 1].kind # "result"
    <3>1. SUFFICES ASSUME first > 1, h[first - 1].kind = "result" PROVE FALSE
      OBVIOUS
    <3>2. first - 1 \in DOMAIN h /\ first \in Nat
      BY <1>1, <2>4, <3>1
    <3>3. ASSUME NEW j \in first - 1 .. Len(h) PROVE h[j].kind = "result"
      <4>1. CASE j = first - 1
        BY <3>1, <4>1
      <4>2. CASE j # first - 1
        <5>1. j \in DOMAIN h /\ j >= first
          BY <1>1, <3>2, <3>3, <4>2
        <5> QED
          BY <2>4, <5>1
      <4> QED
        BY <4>1, <4>2
    <3>4. first - 1 \in row
      BY <3>2, <3>3 DEF row
    <3>5. first <= first - 1
      BY <2>3, <3>4
    <3> QED
      BY <3>2, <3>5
  \* A use with only results up to the row stands right before the row.
  <2>6. ASSUME NEW i \in DOMAIN h, h[i].kind = "use",
               \A k \in DOMAIN h : i < k /\ k <= first => h[k].kind = "result"
        PROVE  i >= t
    <3>1. i \in Nat /\ i >= 1 /\ first \in Nat /\ i <= Len(h) /\ first <= Len(h)
      BY <1>1, <2>4, <2>6
    <3>2. i < first
      BY <2>4, <2>6, <3>1
    <3>3. first - 1 \in DOMAIN h /\ first > 1
      BY <1>1, <3>1, <3>2
    <3>4. ~ i < first - 1
      BY <2>5, <2>6, <3>1, <3>3
    <3>5. i = first - 1
      BY <3>1, <3>2, <3>4
    <3> QED
      BY <2>1, <2>6, <3>1, <3>3, <3>5
  <2>7. t \in 1 .. Len(h) + 1
    BY <1>1, <2>1, <2>4
  <2>8. ASSUME NEW c \in Calls, NEW i \in UsesOf(h, c), NEW j \in ResultsOf(h, c),
               Follows(h, i, j), j >= t
        PROVE  i >= t
    <3>1. j \in DOMAIN h /\ h[j].kind = "result" /\ i \in DOMAIN h /\ h[i].kind = "use"
      BY <1>2
    <3>2. j >= first
      <4>1. j \in Nat /\ first \in Nat /\ t \in Nat
        BY <1>1, <2>4, <2>7, <3>1
      <4>2. CASE first > 1 /\ h[first - 1].kind = "use"
        <5>1. t = first - 1 /\ j # t
          BY <2>1, <3>1, <4>2
        <5> QED
          BY <2>8, <4>1, <5>1
      <4>3. CASE ~ (first > 1 /\ h[first - 1].kind = "use")
        BY <2>1, <2>8, <4>3
      <4> QED
        BY <4>2, <4>3
    <3>3. ASSUME NEW k \in DOMAIN h, i < k, k <= first PROVE h[k].kind = "result"
      <4>1. CASE k < j
        BY <2>8, <3>3, <4>1 DEF Follows
      <4>2. CASE ~ k < j
        <5>1. k = first
          BY <1>1, <2>4, <3>1, <3>2, <3>3, <4>2
        <5> QED
          BY <2>4, <5>1
      <4> QED
        BY <4>1, <4>2
    <3> QED
      BY <2>6, <3>1, <3>3
  <2>9. ASSUME NEW c \in Calls, NEW i \in DOMAIN h, OpenAt(h, i, c) PROVE i >= t
    <3>1. h[i].kind = "use" /\ \A k \in DOMAIN h : i < k => h[k].kind = "result"
      BY <1>2, <2>9 DEF OpenAt
    <3> QED
      BY <2>6, <3>1
  <2> QED
    BY <2>7, <2>8, <2>9 DEF t
<1> QED
  BY <1>3, <1>4, <1>5

\* compact_session_history: what was open stays open, and nothing else opens.
LEMMA CompactedIsPaired ==
  ASSUME NEW h \in Seq(Messages), Paired(h)
  PROVE  /\ Compacted(h) \in Seq(Messages)
         /\ Paired(Compacted(h))
         /\ CallsIn(Compacted(h)) \subseteq CallsIn(h)
         /\ OpenCalls(Compacted(h)) \subseteq OpenCalls(h)
         /\ \A c \in Calls : \A i \in DOMAIN h : OpenAt(h, i, c) =>
              \E n \in DOMAIN Compacted(h) : OpenAt(Compacted(h), n, c)
<1> DEFINE g == Compacted(h)
           pos == [n \in Nat |-> TailStart(h) + n - 2]
<1>1. PICK t \in 1 .. Len(h) + 1 : t = TailStart(h)
  BY TailHoldsCalls
<1>2. Len(h) \in Nat /\ DOMAIN h = 1 .. Len(h) /\ t \in Nat /\ t >= 1 /\ t <= Len(h) + 1
  BY <1>1
<1>3. /\ g \in Seq(Messages) /\ DOMAIN g = 1 .. Len(h) - t + 2
      /\ g[1] = Text
      /\ \A n \in DOMAIN g : n >= 2 => t + n - 2 \in DOMAIN h /\ g[n] = h[t + n - 2]
  <2> DEFINE tail == SubSeq(h, t, Len(h))
  <2>1. /\ tail \in Seq(Messages) /\ Len(tail) = Len(h) - t + 1
        /\ \A n \in 1 .. Len(h) - t + 1 : tail[n] = h[t + n - 1]
    BY <1>2
  <2>2. <<Text>> \in Seq(Messages) /\ Len(<<Text>>) = 1 /\ <<Text>>[1] = Text
    BY MessageFacts
  <2>3. g = <<Text>> \o tail
    BY <1>1 DEF Compacted
  <2> HIDE DEF tail, g
  <2>4. g \in Seq(Messages) /\ Len(g) = Len(h) - t + 2 /\ g[1] = Text
    BY <1>2, <2>1, <2>2, <2>3
  <2>5. ASSUME NEW n \in 1 .. Len(h) - t + 2, n >= 2
        PROVE  t + n - 2 \in DOMAIN h /\ g[n] = h[t + n - 2]
    <3>1. n - 1 \in 1 .. Len(h) - t + 1 /\ t + n - 2 \in DOMAIN h
      BY <1>2, <2>5
    <3>2. g[n] = tail[n - 1]
      BY <1>2, <2>1, <2>2, <2>3, <2>5
    <3>3. tail[n - 1] = h[t + (n - 1) - 1]
      BY <2>1, <3>1
    <3>4. t + (n - 1) - 1 = t + n - 2
      BY <1>2, <3>1
    <3> QED
      BY <3>1, <3>2, <3>3, <3>4
  <2> QED
    BY <2>4, <2>5 DEF g
<1>4. \A n \in DOMAIN g : pos[n] = t + n - 2 /\ n \in Nat /\ n >= 1
  BY <1>1, <1>2, <1>3
<1> HIDE DEF g, pos
\* Every message of the tail has its place behind the summary.
<1>5. ASSUME NEW k \in DOMAIN h, k >= t
      PROVE  /\ k - t + 2 \in DOMAIN g /\ pos[k - t + 2] = k
             /\ g[k - t + 2] = h[k] /\ k - t + 2 >= 2
  <2>1. k - t + 2 \in DOMAIN g /\ k - t + 2 >= 2 /\ t + (k - t + 2) - 2 = k
    BY <1>2, <1>3, <1>5
  <2> QED
    BY <1>3, <1>4, <2>1
<1>6. Embeds(h, g, 2, pos)
  <2>1. ASSUME NEW n \in DOMAIN g, n < 2 PROVE g[n].calls = {}
    <3>1. n = 1
      BY <1>4, <2>1
    <3> QED
      BY <1>3, <3>1, MessageFacts
  <2>2. \A n \in DOMAIN g : n >= 2 => pos[n] \in DOMAIN h /\ g[n] = h[pos[n]]
    BY <1>3, <1>4
  <2>3. \A m, n \in DOMAIN g : 2 <= m /\ m < n => pos[m] < pos[n]
    BY <1>2, <1>4
  <2> QED
    BY <2>1, <2>2, <2>3 DEF Embeds
<1>7. \A c \in Calls : \A n \in ResultsOf(g, c) : n \in DOMAIN g /\ n >= 2 /\ pos[n] \in ResultsOf(h, c)
  <2> TAKE c \in Calls
  <2> TAKE n \in ResultsOf(g, c)
  <2>1. n \in DOMAIN g /\ g[n] = Result(c) /\ g[n].kind = "result"
    BY MessageFacts DEF ResultsOf
  <2>2. n # 1
    BY <1>3, <2>1, MessageFacts
  <2>3. n >= 2
    BY <1>4, <2>1, <2>2
  <2> QED
    BY <1>3, <1>4, <2>1, <2>3 DEF ResultsOf
<1>8. \A c \in Calls : \A i \in UsesOf(h, c) : i >= t =>
        \E n \in UsesOf(g, c) : pos[n] = i /\ n = i - t + 2
  BY <1>5 DEF UsesOf
<1>9. KeepsCalls(h, g, pos)
  <2> SUFFICES ASSUME NEW c \in Calls, NEW j \in ResultsOf(g, c), NEW i \in UsesOf(h, c),
                      Follows(h, i, pos[j])
               PROVE  \E n \in UsesOf(g, c) : pos[n] = i
    BY DEF KeepsCalls
  <2>1. pos[j] \in ResultsOf(h, c) /\ pos[j] >= t
    <3>1. j \in DOMAIN g /\ j >= 2 /\ pos[j] = t + j - 2 /\ j \in Nat
      BY <1>4, <1>7
    <3> QED
      BY <1>2, <1>7, <3>1
  <2>2. i >= t
    BY <1>1, <2>1, TailHoldsCalls
  <2> QED
    BY <1>8, <2>2
<1>10. /\ Paired(g) /\ CallsIn(g) \subseteq CallsIn(h)
       /\ \A c \in Calls : \A n \in UsesOf(g, c) : n >= 2 /\ pos[n] \in UsesOf(h, c)
  BY <1>3, <1>6, <1>9, EmbeddedIsPaired
<1>11. ASSUME NEW c \in CallsIn(g), Answered(h, c) PROVE Answered(g, c)
  <2>1. c \in Calls
    BY <1>3, CallsOf
  <2>2. CASE \E j \in ResultsOf(g, c) : TRUE
    BY <1>10, <2>1, <2>2 DEF Paired, Follows, Answered
  <2>3. CASE \E n \in UsesOf(g, c) : TRUE
    <3>1. PICK n \in UsesOf(g, c) : n \in DOMAIN g
      BY <2>3 DEF UsesOf
    <3>2. PICK i \in UsesOf(h, c), j \in ResultsOf(h, c) : i < j
      BY <1>11 DEF Answered
    <3>3. i = pos[n] /\ n >= 2
      BY <1>10, <2>1, <3>1, <3>2 DEF Paired
    <3>4. j \in DOMAIN h /\ h[j] = Result(c) /\ j >= t
      <4>1. pos[n] = t + n - 2 /\ n \in Nat
        BY <1>4, <3>1
      <4>2. j \in DOMAIN h /\ h[j] = Result(c)
        BY DEF ResultsOf
      <4> QED
        BY <1>2, <3>2, <3>3, <4>1, <4>2
    <3>5. j - t + 2 \in ResultsOf(g, c)
      BY <1>5, <3>4 DEF ResultsOf
    <3> QED
      BY <2>2, <3>5
  <2> QED
    BY <1>3, <2>1, <2>2, <2>3, CallsOf
<1>12. ASSUME NEW c \in Calls, NEW i \in DOMAIN h, OpenAt(h, i, c)
       PROVE  \E n \in DOMAIN g : OpenAt(g, n, c)
  <2>1. i \in UsesOf(h, c) /\ i >= t
    BY <1>1, <1>12, TailHoldsCalls DEF OpenAt
  <2>2. PICK n \in UsesOf(g, c) : pos[n] = i
    BY <1>8, <2>1
  <2>3. n \in DOMAIN g /\ n >= 2 /\ n \in Nat
    BY <1>4, <1>10, <2>2 DEF UsesOf
  <2>4. ASSUME NEW k \in DOMAIN g, n < k PROVE g[k].kind = "result"
    <3>1. k >= 2 /\ pos[k] \in DOMAIN h /\ g[k] = h[pos[k]] /\ pos[n] < pos[k]
      BY <1>2, <1>3, <1>4, <2>3, <2>4
    <3> QED
      BY <1>12, <2>2, <3>1 DEF OpenAt
  <2>5. ResultsOf(g, c) = {}
    BY <1>7, <1>12 DEF OpenAt
  <2> QED
    BY <2>2, <2>3, <2>4, <2>5 DEF OpenAt
<1>13. OpenCalls(g) \subseteq OpenCalls(h)
  BY <1>10, <1>11 DEF OpenCalls
<1> QED
  BY <1>3, <1>10, <1>12, <1>13 DEF g
-------------------------------------------------------------------------------
(* What an addition at its end makes of a history.                          *)

Grows(h, g) ==
  /\ h \in Seq(Messages) /\ g \in Seq(Messages)
  /\ Len(h) <= Len(g)
  /\ \A i \in 1 .. Len(h) : g[i] = h[i]

\* What was there is still there, and means the same.
LEMMA GrownKeeps ==
  ASSUME NEW h, NEW g, Grows(h, g)
  PROVE  /\ DOMAIN h \subseteq DOMAIN g
         /\ \A i \in DOMAIN g : i \notin DOMAIN h => \A j \in DOMAIN h : j < i
         /\ \A c \in Calls : UsesOf(h, c) \subseteq UsesOf(g, c)
                             /\ ResultsOf(h, c) \subseteq ResultsOf(g, c)
         /\ \A c \in Calls : \A i \in DOMAIN h :
              /\ i \in UsesOf(g, c) => i \in UsesOf(h, c)
              /\ i \in ResultsOf(g, c) => i \in ResultsOf(h, c)
         /\ \A c \in Calls :
              /\ UsesOf(g, c) \subseteq DOMAIN h => UsesOf(g, c) = UsesOf(h, c)
              /\ ResultsOf(g, c) \subseteq DOMAIN h => ResultsOf(g, c) = ResultsOf(h, c)
         /\ \A i, j \in DOMAIN h : Follows(h, i, j) => Follows(g, i, j)
         /\ \A c \in Calls : Answered(h, c) => Answered(g, c)
<1> USE DEF Grows
<1>1. /\ DOMAIN h = 1 .. Len(h) /\ DOMAIN g = 1 .. Len(g)
      /\ Len(h) \in Nat /\ Len(g) \in Nat
  OBVIOUS
<1>2. DOMAIN h \subseteq DOMAIN g
  BY <1>1
<1>3. \A i \in DOMAIN g : i \notin DOMAIN h => \A j \in DOMAIN h : j < i
  BY <1>1
<1>4. \A i \in DOMAIN h : g[i] = h[i]
  BY <1>1
<1>5. ASSUME NEW c \in Calls
      PROVE  /\ UsesOf(h, c) \subseteq UsesOf(g, c)
             /\ ResultsOf(h, c) \subseteq ResultsOf(g, c)
             /\ \A i \in DOMAIN h : /\ i \in UsesOf(g, c) => i \in UsesOf(h, c)
                                    /\ i \in ResultsOf(g, c) => i \in ResultsOf(h, c)
  BY <1>2, <1>4 DEF UsesOf, ResultsOf
<1>6. ASSUME NEW i \in DOMAIN h, NEW j \in DOMAIN h, Follows(h, i, j)
      PROVE  Follows(g, i, j)
  <2>1. i < j
    BY <1>6 DEF Follows
  <2>2. ASSUME NEW k \in DOMAIN g, i < k, k < j PROVE g[k].kind = "result"
    <3>1. k \in DOMAIN h
      BY <1>1, <2>2
    <3> QED
      BY <1>4, <1>6, <2>2, <3>1 DEF Follows
  <2> QED
    BY <2>1, <2>2 DEF Follows
<1>7. \A c \in Calls : Answered(h, c) => Answered(g, c)
  BY <1>5 DEF Answered
<1>8. ASSUME NEW c \in Calls
      PROVE  /\ UsesOf(g, c) \subseteq DOMAIN h => UsesOf(g, c) = UsesOf(h, c)
             /\ ResultsOf(g, c) \subseteq DOMAIN h => ResultsOf(g, c) = ResultsOf(h, c)
  <2>1. /\ UsesOf(g, c) \subseteq DOMAIN h => UsesOf(g, c) \subseteq UsesOf(h, c)
        /\ ResultsOf(g, c) \subseteq DOMAIN h => ResultsOf(g, c) \subseteq ResultsOf(h, c)
    BY <1>5
  <2> QED
    BY <1>5, <2>1
<1> QED
  BY <1>2, <1>3, <1>5, <1>6, <1>7, <1>8

\* A prompt, or a text of the model.
LEMMA TextKeepsPairs ==
  ASSUME NEW h, NEW g, Grows(h, g), Paired(h),
         \A i \in DOMAIN g \ DOMAIN h : g[i].calls = {} /\ g[i].kind \in {"user", "text"}
  PROVE  /\ Paired(g) /\ CallsIn(g) \subseteq CallsIn(h)
         /\ OpenCalls(g) \subseteq OpenCalls(h)
<1>1. \A i \in DOMAIN g : g[i] \in Messages
  BY DEF Grows
<1>2. \A c \in Calls : UsesOf(g, c) = UsesOf(h, c) /\ ResultsOf(g, c) = ResultsOf(h, c)
  <2> TAKE c \in Calls
  <2>1. UsesOf(g, c) \subseteq DOMAIN h
    BY DEF UsesOf
  <2>2. ResultsOf(g, c) \subseteq DOMAIN h
    BY MessageFacts DEF ResultsOf
  <2> QED
    BY <2>1, <2>2, GrownKeeps
<1>3. Paired(g)
  <2>1. ASSUME NEW c \in Calls, NEW j \in ResultsOf(g, c)
        PROVE  \E i \in UsesOf(g, c) : Follows(g, i, j)
    <3>1. PICK i \in UsesOf(h, c) : Follows(h, i, j)
      BY <1>2, <2>1 DEF Paired
    <3>2. i \in DOMAIN h /\ j \in DOMAIN h
      BY <1>2, <2>1 DEF UsesOf, ResultsOf
    <3> QED
      BY <1>2, <3>1, <3>2, GrownKeeps
  <2> QED
    BY <1>2, <2>1 DEF Paired
<1>4. CallsIn(g) \subseteq CallsIn(h)
  BY <1>2, CallsOf DEF Grows
<1>5. OpenCalls(g) \subseteq OpenCalls(h)
  <2>1. CallsIn(h) \subseteq Calls
    BY CallsOf DEF Grows
  <2> QED
    BY <1>4, <2>1, GrownKeeps DEF OpenCalls
<1> QED
  BY <1>3, <1>4, <1>5

\* A batch of calls the history does not have.
LEMMA UseKeepsPairs ==
  ASSUME NEW h, NEW g, Grows(h, g), Paired(h), NEW S \in SUBSET Calls,
         Len(g) = Len(h) + 1, g[Len(g)] = Message("use", S), S \cap CallsIn(h) = {}
  PROVE  /\ Paired(g) /\ CallsIn(g) \subseteq CallsIn(h) \cup S
         /\ OpenCalls(g) \subseteq OpenCalls(h) \cup S
<1>1. /\ DOMAIN h = 1 .. Len(h) /\ Len(h) \in Nat /\ h \in Seq(Messages)
      /\ DOMAIN g = 1 .. Len(h) + 1 /\ g \in Seq(Messages)
  BY DEF Grows
<1>2. PICK last : last = Len(h) + 1
  OBVIOUS
<1>3. /\ last \in DOMAIN g /\ last \notin DOMAIN h
      /\ \A i \in DOMAIN g : i \in DOMAIN h \/ i = last
  BY <1>1, <1>2
<1>4. g[last].kind = "use" /\ g[last].calls = S
  BY <1>2, MessageFacts
<1>5. \A c \in Calls : ResultsOf(g, c) = ResultsOf(h, c)
  <2> TAKE c \in Calls
  <2>1. last \notin ResultsOf(g, c)
    BY <1>4, MessageFacts DEF ResultsOf
  <2>2. ResultsOf(g, c) \subseteq DOMAIN h
    BY <1>3, <2>1 DEF ResultsOf
  <2> QED
    BY <2>2, GrownKeeps
<1>6. ASSUME NEW c \in Calls, c \notin S PROVE UsesOf(g, c) = UsesOf(h, c)
  <2>1. UsesOf(g, c) \subseteq DOMAIN h
    BY <1>3, <1>4, <1>6 DEF UsesOf
  <2> QED
    BY <2>1, GrownKeeps
<1>7. ASSUME NEW c \in Calls, c \in S
      PROVE  UsesOf(g, c) = {last} /\ ResultsOf(g, c) = {}
  <2>1. UsesOf(h, c) = {} /\ ResultsOf(h, c) = {}
    BY <1>1, <1>7, CallsOf
  <2>2. UsesOf(g, c) \subseteq {last}
    <3>1. UsesOf(g, c) \subseteq DOMAIN g
      BY DEF UsesOf
    <3> QED
      BY <1>3, <2>1, <3>1, GrownKeeps
  <2>3. last \in UsesOf(g, c)
    BY <1>3, <1>4, <1>7 DEF UsesOf
  <2> QED
    BY <1>5, <2>1, <2>2, <2>3
<1>8. Paired(g)
  <2>1. ASSUME NEW c \in Calls PROVE \A i, j \in UsesOf(g, c) : i = j
    BY <1>6, <1>7 DEF Paired
  <2>2. ASSUME NEW c \in Calls, NEW j \in ResultsOf(g, c)
        PROVE  \E i \in UsesOf(g, c) : Follows(g, i, j)
    <3>1. c \notin S
      BY <1>7, <2>2
    <3>2. PICK i \in UsesOf(h, c) : Follows(h, i, j)
      BY <1>5, <2>2 DEF Paired
    <3>3. i \in DOMAIN h /\ j \in DOMAIN h
      BY <1>5, <2>2 DEF UsesOf, ResultsOf
    <3> QED
      BY <1>6, <3>1, <3>2, <3>3, GrownKeeps
  <2> QED
    BY <1>5, <2>1, <2>2 DEF Paired
<1>9. CallsIn(g) \subseteq CallsIn(h) \cup S
  BY <1>1, <1>5, <1>6, CallsOf
<1>10. OpenCalls(g) \subseteq OpenCalls(h) \cup S
  <2>1. CallsIn(h) \subseteq Calls
    BY <1>1, CallsOf
  <2> QED
    BY <1>9, <2>1, GrownKeeps DEF OpenCalls
<1> QED
  BY <1>8, <1>9, <1>10

\* Results of calls the last calls message has made, one for each.
AddsResults(h, g, u, n, f) ==
  /\ u \in DOMAIN h /\ h[u].kind = "use"
  /\ \A k \in DOMAIN h : u < k => h[k].kind = "result"
  /\ n \in Nat /\ Len(g) = Len(h) + n
  /\ f \in [1 .. n -> h[u].calls]
  /\ \A i, j \in 1 .. n : f[i] = f[j] => i = j
  /\ \A i \in 1 .. n : ResultsOf(h, f[i]) = {} /\ g[Len(h) + i] = Result(f[i])

LEMMA ResultsKeepPairs ==
  ASSUME NEW h, NEW g, NEW u, NEW n, NEW f,
         Grows(h, g), Paired(h), AddsResults(h, g, u, n, f)
  PROVE  /\ Paired(g) /\ CallsIn(g) \subseteq CallsIn(h)
         /\ OpenCalls(g) \subseteq OpenCalls(h) \ {f[i] : i \in 1 .. n}
         /\ \A w \in h[u].calls \ {f[i] : i \in 1 .. n} :
              ResultsOf(h, w) = {} => OpenAt(g, u, w)
<1> USE DEF AddsResults
<1>1. /\ DOMAIN h = 1 .. Len(h) /\ Len(h) \in Nat /\ h \in Seq(Messages)
      /\ DOMAIN g = 1 .. Len(h) + n /\ g \in Seq(Messages)
  BY DEF Grows
<1>2. h[u] \in Messages /\ h[u].calls \subseteq Calls
  BY <1>1, MessageFacts
<1>3. \A c \in h[u].calls : c \in Calls /\ u \in UsesOf(h, c) /\ u \in UsesOf(g, c)
  <2>1. \A c \in h[u].calls : c \in Calls /\ u \in UsesOf(h, c)
    BY <1>2 DEF UsesOf
  <2> QED
    BY <2>1, GrownKeeps
\* The messages that are added.
<1>4. ASSUME NEW k \in DOMAIN g, k \notin DOMAIN h
      PROVE  \E i \in 1 .. n : k = Len(h) + i /\ g[k] = Result(f[i])
                               /\ f[i] \in h[u].calls /\ f[i] \in Calls
  <2>1. k - Len(h) \in 1 .. n /\ k = Len(h) + (k - Len(h))
    BY <1>1, <1>4
  <2>2. PICK i \in 1 .. n : k = Len(h) + i
    BY <2>1
  <2> QED
    BY <1>3, <2>2
<1>5. \A c, d \in Calls : Result(c) = Result(d) => c = d
  BY DEF Result, Message
<1>6. \A k \in DOMAIN g : u < k => g[k].kind = "result"
  <2> TAKE k \in DOMAIN g
  <2> HAVE u < k
  <2>1. CASE k \in DOMAIN h
    BY <2>1 DEF Grows
  <2>2. CASE k \notin DOMAIN h
    BY <1>4, <2>2, MessageFacts
  <2> QED
    BY <2>1, <2>2
<1>7. \A c \in Calls : UsesOf(g, c) = UsesOf(h, c)
  <2> TAKE c \in Calls
  <2>1. ASSUME NEW k \in UsesOf(g, c) PROVE k \in DOMAIN h
    <3>1. k \in DOMAIN g /\ g[k].kind = "use"
      BY DEF UsesOf
    <3> QED
      BY <1>4, <3>1, MessageFacts
  <2>2. UsesOf(g, c) \subseteq DOMAIN h
    BY <2>1
  <2> QED
    BY <2>2, GrownKeeps
<1>8. ASSUME NEW c \in Calls, NEW j \in ResultsOf(g, c)
      PROVE  j \in ResultsOf(h, c) \/ (\E i \in 1 .. n : j = Len(h) + i /\ c = f[i] /\ j \notin DOMAIN h)
  <2>1. j \in DOMAIN g /\ g[j] = Result(c)
    BY DEF ResultsOf
  <2>2. CASE j \in DOMAIN h
    BY <2>2, GrownKeeps
  <2>3. CASE j \notin DOMAIN h
    BY <1>4, <1>5, <2>1, <2>3
  <2> QED
    BY <2>2, <2>3
<1>9. ASSUME NEW c \in Calls, NEW i \in ResultsOf(g, c), NEW j \in ResultsOf(g, c)
      PROVE  i = j
  <2>1. CASE i \in ResultsOf(h, c) /\ j \in ResultsOf(h, c)
    BY <2>1 DEF Paired
  <2>2. CASE i \notin ResultsOf(h, c) /\ j \notin ResultsOf(h, c)
    BY <1>8, <2>2
  <2>3. CASE ResultsOf(h, c) # {}
    <3>1. \A k \in 1 .. n : c # f[k]
      BY <2>3
    <3>2. i \in ResultsOf(h, c) /\ j \in ResultsOf(h, c)
      BY <1>8, <3>1
    <3> QED
      BY <2>1, <3>2
  <2> QED
    BY <2>1, <2>2, <2>3
<1>10. ASSUME NEW c \in Calls, NEW j \in ResultsOf(g, c)
       PROVE  \E i \in UsesOf(g, c) : Follows(g, i, j)
  <2>1. CASE j \in ResultsOf(h, c)
    <3>1. PICK i \in UsesOf(h, c) : Follows(h, i, j)
      BY <2>1 DEF Paired
    <3>2. i \in DOMAIN h /\ j \in DOMAIN h
      BY <2>1 DEF UsesOf, ResultsOf
    <3> QED
      BY <1>7, <3>1, <3>2, GrownKeeps
  <2>2. CASE \E i \in 1 .. n : j = Len(h) + i /\ c = f[i] /\ j \notin DOMAIN h
    <3>1. u \in UsesOf(g, c)
      BY <1>3, <2>2
    <3>2. u < j
      BY <1>1, <2>2
    <3>3. Follows(g, u, j)
      BY <1>6, <3>2 DEF Follows
    <3> QED
      BY <3>1, <3>3
  <2> QED
    BY <1>8, <2>1, <2>2
<1>11. Paired(g)
  BY <1>7, <1>9, <1>10 DEF Paired
<1>12. CallsIn(g) \subseteq CallsIn(h)
  <2>1. ASSUME NEW c \in CallsIn(g) PROVE c \in CallsIn(h)
    <3>1. c \in Calls /\ UsesOf(g, c) \cup ResultsOf(g, c) # {}
      BY <1>1, CallsOf
    <3>2. UsesOf(g, c) # {}
      BY <1>10, <3>1
    <3> QED
      BY <1>1, <1>7, <3>1, <3>2, CallsOf
  <2> QED
    BY <2>1
<1>13. ASSUME NEW i \in 1 .. n PROVE Answered(g, f[i])
  <2>1. PICK j : j = Len(h) + i
    OBVIOUS
  <2>2. j \in DOMAIN g /\ u < j /\ g[j] = Result(f[i])
    BY <1>1, <2>1
  <2>3. u \in UsesOf(g, f[i]) /\ j \in ResultsOf(g, f[i])
    BY <1>3, <2>2 DEF ResultsOf
  <2> QED
    BY <2>2, <2>3 DEF Answered
<1>14. OpenCalls(g) \subseteq OpenCalls(h) \ {f[i] : i \in 1 .. n}
  <2>1. CallsIn(h) \subseteq Calls
    BY <1>1, CallsOf
  <2> QED
    BY <1>12, <1>13, <2>1, GrownKeeps DEF OpenCalls
<1>15. ASSUME NEW w \in h[u].calls \ {f[i] : i \in 1 .. n}, ResultsOf(h, w) = {}
       PROVE  OpenAt(g, u, w)
  <2>1. ResultsOf(g, w) = {}
    BY <1>3, <1>8, <1>15
  <2> QED
    BY <1>3, <1>6, <2>1 DEF OpenAt
<1> QED
  BY <1>11, <1>12, <1>14, <1>15
-------------------------------------------------------------------------------
(* What holds of the histories, and of the loop, between the steps.         *)

HistoryTypeOK ==
  /\ history \in Seq(Messages) /\ saved.history \in Seq(Messages)
  /\ suspended_wait \in Calls \cup {NoCall}
  /\ cut \subseteq Calls

\* The calls of the histories are no fresh ones.
HistoriesAreOld ==
  /\ \A c \in CallsIn(history) : c < next_call
  /\ \A c \in CallsIn(saved.history) : c < next_call

\* While the loop is over a batch the history ends with its calls, and what is
\* completed are the first of them.
BatchIsLast ==
  /\ place \in {"next", "tool", "approval"} =>
       /\ Len(history) > 0
       /\ history[Len(history)] = Use(calls)
  /\ \A i \in 1 .. Len(completed) : completed[i].call = calls[i]

\* The loop suspends at the last call it completed, as cancelled.
WaitIsLast ==
  /\ Suspended => state = "Waiting" /\ place \in {"ready", "next"}
  /\ place = "next" /\ Suspended =>
       /\ Len(completed) > 0
       /\ suspended_wait = calls[Len(completed)]
       /\ completed[Len(completed)].outcome = "cancelled"

HistoriesArePaired == Paired(history) /\ Paired(saved.history)

\* Only results follow the call of a wait, and none of them is its own.
WaitIsAtTheEnd ==
  place = "ready" /\ Suspended =>
    \E i \in DOMAIN history : OpenAt(history, i, suspended_wait)

\* The open calls of the history are those of a cut batch, of the wait and of
\* the batch.
OpenAreKnown ==
  OpenCalls(history) \subseteq
    cut \cup {suspended_wait} \cup {calls[i] : i \in 1 .. Len(calls)}

HistInv ==
  /\ HistoryTypeOK
  /\ HistoriesAreOld
  /\ BatchIsLast
  /\ WaitIsLast
  /\ HistoriesArePaired
  /\ WaitIsAtTheEnd
  /\ OpenAreKnown

PairInv ==
  /\ RunsInv
  /\ archive_failed \in BOOLEAN
  /\ archive_failed = FALSE => HistInv

\* The four things a step can do to them.

\* The loop moves, or stays, over the same history.
LEMMA HistoryStays ==
  ASSUME HistInv,
         UNCHANGED <<history, calls, completed, next_call, suspended_wait, cut>>,
         saved'.history \in {saved.history, history},
         Suspended => state' = "Waiting",
         \/ place' = place
         \/ {place, place'} \subseteq {"next", "tool", "approval"} /\ ~ Suspended
  PROVE  HistInv'
<1>1. PICK old : old = saved'.history
  OBVIOUS
<1>2. old \in {saved.history, history}
  BY <1>1
<1>3. HistoryTypeOK'
  BY <1>1, <1>2 DEF HistInv, HistoryTypeOK
<1>4. HistoriesAreOld'
  BY <1>1, <1>2 DEF HistInv, HistoriesAreOld
<1>5. BatchIsLast'
  BY DEF HistInv, BatchIsLast
<1>6. WaitIsLast' /\ WaitIsAtTheEnd'
  BY DEF HistInv, WaitIsLast, WaitIsAtTheEnd, Suspended
<1>7. HistoriesArePaired'
  BY <1>1, <1>2 DEF HistInv, HistoriesArePaired
<1>8. OpenAreKnown'
  BY DEF HistInv, OpenAreKnown
<1> QED
  BY <1>3, <1>4, <1>5, <1>6, <1>7, <1>8 DEF HistInv

\* The call the loop is at is done with; it may suspend the session.
LEMMA HistoryAdvances ==
  ASSUME RunsInv, HistInv, ~ Suspended, Len(completed) < Len(calls),
         place \in {"next", "tool", "approval"}, place' = "next",
         NEW outcome \in {"done", "cancelled"}, Complete(outcome),
         \/ UNCHANGED suspended_wait
         \/ suspended_wait' = current /\ outcome = "cancelled" /\ state' = "Waiting",
         UNCHANGED <<history, calls, next_call, cut, saved>>
  PROVE  HistInv'
<1>1. PICK entry : entry = [call |-> current, outcome |-> outcome]
  OBVIOUS
<1>2. PICK at : at = Len(completed) + 1
  OBVIOUS
<1>3. /\ current = calls[at] /\ current \in Calls
      /\ entry \in Outcomes /\ entry.call = calls[at] /\ entry.outcome = outcome
  BY <1>1, <1>2, TheCurrentCall DEF current, Outcomes, RunsInv
<1>4. completed \in Seq(Outcomes) /\ completed' = Append(completed, entry)
  BY <1>1 DEF RunsInv, LoopTypeOK, Outcomes, Complete
<1>5. /\ Len(completed) \in Nat /\ Len(completed') = at
      /\ completed'[at] = entry
      /\ \A i \in 1 .. Len(completed) : completed'[i] = completed[i]
  BY <1>2, <1>3, <1>4
<1>6. HistoryTypeOK'
  BY <1>3 DEF HistInv, HistoryTypeOK
<1>7. HistoriesAreOld' /\ HistoriesArePaired'
  BY DEF HistInv, HistoriesAreOld, HistoriesArePaired
<1>8. BatchIsLast'
  <2>1. ASSUME NEW i \in 1 .. at PROVE completed'[i].call = calls[i]
    <3>1. i \in 1 .. Len(completed) \/ i = at
      BY <1>2, <1>5
    <3>2. ASSUME i \in 1 .. Len(completed) PROVE completed[i].call = calls[i]
      BY <3>2 DEF HistInv, BatchIsLast
    <3> QED
      BY <1>3, <1>5, <3>1, <3>2
  <2> QED
    BY <1>5, <2>1 DEF HistInv, BatchIsLast
<1>9. WaitIsLast'
  BY <1>2, <1>3, <1>5 DEF HistInv, WaitIsLast, Suspended
<1>10. WaitIsAtTheEnd'
  BY DEF WaitIsAtTheEnd
<1>11. OpenAreKnown'
  <2>1. OpenCalls(history) \subseteq cut \cup {NoCall} \cup {calls[i] : i \in 1 .. Len(calls)}
    BY DEF HistInv, OpenAreKnown, Suspended
  <2>2. OpenCalls(history) \subseteq Calls
    BY CallsOf DEF OpenCalls, HistInv, HistoryTypeOK
  <2>3. NoCall \notin Calls
    BY DEF NoCall, Calls
  <2> QED
    BY <2>1, <2>2, <2>3 DEF OpenAreKnown
<1> QED
  BY <1>6, <1>7, <1>8, <1>9, <1>10, <1>11 DEF HistInv

\* The loop is not over a batch afterwards: what it leaves in the history.
LEMMA HistoryBetween ==
  ASSUME HistInv, calls' = <<>>, completed' = <<>>, place' \in {"ready", "model"},
         UNCHANGED <<next_call, saved>>,
         cut \subseteq cut', cut' \subseteq Calls,
         history' \in Seq(Messages), Paired(history'),
         CallsIn(history') \subseteq CallsIn(history) \cup CallsIn(saved.history),
         OpenCalls(history') \subseteq cut' \cup {suspended_wait'},
         \/ suspended_wait' = NoCall
         \/ /\ UNCHANGED suspended_wait /\ place' = "ready" /\ state' = "Waiting"
            /\ \E i \in DOMAIN history' : OpenAt(history', i, suspended_wait)
  PROVE  HistInv'
<1>1. HistoryTypeOK'
  BY DEF HistInv, HistoryTypeOK
<1>2. HistoriesAreOld'
  BY DEF HistInv, HistoriesAreOld
<1>3. BatchIsLast'
  BY DEF BatchIsLast
<1>4. WaitIsLast' /\ WaitIsAtTheEnd'
  BY DEF WaitIsLast, WaitIsAtTheEnd, Suspended
<1>5. HistoriesArePaired'
  BY DEF HistInv, HistoriesArePaired
<1>6. OpenAreKnown'
  BY DEF OpenAreKnown
<1> QED
  BY <1>1, <1>2, <1>3, <1>4, <1>5, <1>6 DEF HistInv

-------------------------------------------------------------------------------
(* What the handlers add to the history.                                    *)

LEMMA OpenAreCalls ==
  ASSUME NEW h \in Seq(Messages)
  PROVE  OpenCalls(h) \subseteq Calls /\ NoCall \notin OpenCalls(h)
<1>1. OpenCalls(h) \subseteq Calls
  BY CallsOf DEF OpenCalls
<1> QED
  BY <1>1 DEF NoCall, Calls

\* append_suspended_wait_result closes the call of the wait.
LEMMA AnswerWaitKeepsPairs ==
  ASSUME HistInv, place = "ready", calls = <<>>, NEW g, g = AnswerWait(history)
  PROVE  /\ g \in Seq(Messages) /\ Paired(g)
         /\ CallsIn(g) \subseteq CallsIn(history)
         /\ OpenCalls(g) \subseteq cut
<1>1. /\ history \in Seq(Messages) /\ Paired(history)
      /\ suspended_wait \in Calls \cup {NoCall}
      /\ OpenCalls(history) \subseteq cut \cup {suspended_wait}
  BY DEF HistInv, HistoryTypeOK, HistoriesArePaired, OpenAreKnown
<1>2. CASE ~ Suspended
  <2>1. g = history /\ suspended_wait = NoCall
    BY <1>2 DEF AnswerWait, Suspended
  <2> QED
    BY <1>1, <2>1, OpenAreCalls
<1>3. CASE Suspended
  <2>1. g = Append(history, Result(suspended_wait)) /\ suspended_wait \in Calls
    BY <1>1, <1>3 DEF AnswerWait, Suspended
  <2>2. PICK u \in DOMAIN history : OpenAt(history, u, suspended_wait)
    BY <1>3 DEF HistInv, WaitIsAtTheEnd
  <2>3. PICK f : f = [i \in 1 .. 1 |-> suspended_wait]
    OBVIOUS
  <2>4. /\ history[u].kind = "use" /\ suspended_wait \in history[u].calls
        /\ \A k \in DOMAIN history : u < k => history[k].kind = "result"
        /\ ResultsOf(history, suspended_wait) = {}
    BY <2>2 DEF OpenAt, UsesOf
  <2>5. Result(suspended_wait) \in Messages
    BY <2>1, MessageFacts
  <2>6. /\ Grows(history, g) /\ Len(g) = Len(history) + 1
        /\ g[Len(history) + 1] = Result(suspended_wait)
    BY <1>1, <2>1, <2>5 DEF Grows
  <2>7. /\ f \in [1 .. 1 -> history[u].calls]
        /\ \A i \in 1 .. 1 : i = 1 /\ f[i] = suspended_wait
    BY <2>3, <2>4
  <2>8. /\ \A i, j \in 1 .. 1 : f[i] = f[j] => i = j
        /\ \A i \in 1 .. 1 : ResultsOf(history, f[i]) = {}
                             /\ g[Len(history) + i] = Result(f[i])
    BY <2>4, <2>6, <2>7
  <2>9. /\ Paired(g) /\ CallsIn(g) \subseteq CallsIn(history)
        /\ OpenCalls(g) \subseteq OpenCalls(history) \ {f[i] : i \in 1 .. 1}
    <3>1. AddsResults(history, g, u, 1, f)
      BY <2>4, <2>6, <2>7, <2>8 DEF AddsResults
    <3> QED
      BY <1>1, <2>6, <3>1, ResultsKeepPairs
  <2>10. suspended_wait \in {f[i] : i \in 1 .. 1}
    BY <2>7
  <2>11. g \in Seq(Messages)
    BY <2>6 DEF Grows
  <2> QED
    BY <1>1, <2>9, <2>10, <2>11
<1> QED
  BY <1>2, <1>3

\* The results of the first n calls of the batch close those calls, and leave
\* the call of a wait open.
LEMMA BatchKeepsPairs ==
  ASSUME RunsInv, HistInv, place = "next", NEW n \in 0 .. Len(completed),
         NEW g, g = WithResults(n)
  PROVE  /\ g \in Seq(Messages) /\ Paired(g)
         /\ CallsIn(g) \subseteq CallsIn(history)
         /\ OpenCalls(g) \subseteq OpenCalls(history) \ {calls[i] : i \in 1 .. n}
         /\ Suspended /\ n < Len(completed) =>
              \E i \in DOMAIN g : OpenAt(g, i, suspended_wait)
<1>1. /\ history \in Seq(Messages) /\ Paired(history) /\ Len(history) > 0
      /\ history[Len(history)] = Use(calls)
      /\ \A i \in 1 .. Len(completed) : completed[i].call = calls[i]
  BY DEF HistInv, HistoryTypeOK, HistoriesArePaired, BatchIsLast
<1>2. /\ Len(completed) \in Nat /\ Len(calls) \in Nat /\ Len(completed) <= Len(calls)
      /\ DOMAIN calls = 1 .. Len(calls) /\ n \in Nat /\ n <= Len(completed)
      /\ \A i \in 1 .. Len(calls) : calls[i] \in Calls
  BY DEF RunsInv, LoopTypeOK, LoopIsPlaced
<1>3. Len(history) \in Nat /\ DOMAIN history = 1 .. Len(history)
  BY <1>1
<1>4. PICK u : u = Len(history)
  OBVIOUS
<1>5. u \in DOMAIN history /\ \A k \in DOMAIN history : ~ u < k
  BY <1>1, <1>3, <1>4
<1>6. PICK S : S = {calls[i] : i \in 1 .. Len(calls)}
  OBVIOUS
<1>7. S \in SUBSET Calls /\ history[u] = Message("use", S)
  BY <1>1, <1>2, <1>4, <1>6 DEF Use, ToSet
<1>8. history[u].kind = "use" /\ history[u].calls = S
  BY <1>7, MessageFacts
\* None of these calls has a result yet.
<1>9. ASSUME NEW c \in S PROVE ResultsOf(history, c) = {}
  <2>1. c \in Calls /\ u \in UsesOf(history, c)
    BY <1>5, <1>7, <1>8 DEF UsesOf
  <2>2. ASSUME NEW j \in ResultsOf(history, c) PROVE FALSE
    <3>1. PICK i \in UsesOf(history, c) : Follows(history, i, j)
      BY <1>1, <2>1 DEF Paired
    <3>2. i = u
      BY <1>1, <2>1 DEF Paired
    <3>3. j \in DOMAIN history
      BY DEF ResultsOf
    <3> QED
      BY <1>5, <3>1, <3>2, <3>3 DEF Follows
  <2> QED
    BY <2>2
<1>10. ASSUME NEW i \in 1 .. Len(calls), NEW j \in 1 .. Len(calls), calls[i] = calls[j]
       PROVE  i = j
  <2>1. calls[i] \in Nat /\ calls[j] \in Nat
    BY <1>2 DEF Calls
  <2>2. ~ i < j /\ ~ j < i
    BY <1>10, <2>1 DEF RunsInv, BatchIsFresh
  <2> QED
    BY <2>2
<1>11. PICK f : f = [i \in 1 .. n |-> calls[i]]
  OBVIOUS
<1>12. \A i \in 1 .. n : /\ i \in 1 .. Len(calls) /\ i \in 1 .. Len(completed)
                         /\ f[i] = calls[i] /\ f[i] \in S /\ f[i] \in Calls
                         /\ completed[i].call = f[i]
  BY <1>1, <1>2, <1>6, <1>11
<1>13. PICK r : r = [i \in 1 .. n |-> Result(completed[i].call)]
  OBVIOUS
<1>14. /\ r \in Seq(Messages) /\ Len(r) = n
       /\ \A i \in 1 .. n : r[i] = Result(f[i])
  <2>1. \A i \in 1 .. n : r[i] = Result(f[i]) /\ Result(f[i]) \in Messages
    BY <1>12, <1>13, MessageFacts
  <2> QED
    BY <1>2, <1>13, <2>1
<1>15. g = history \o r
  BY <1>13 DEF WithResults
<1>16. /\ Grows(history, g) /\ Len(g) = Len(history) + n
       /\ \A i \in 1 .. n : g[Len(history) + i] = Result(f[i])
  <2>1. Len(g) = Len(history) + n /\ g \in Seq(Messages)
    <3>1. history \in Seq(Messages) /\ r \in Seq(Messages)
      BY <1>1, <1>14
    <3>2. Len(history \o r) = Len(history) + Len(r) /\ history \o r \in Seq(Messages)
      BY <3>1
    <3> QED
      BY <1>14, <1>15, <3>2
  <2>2. \A i \in 1 .. Len(history) : g[i] = history[i]
    BY <1>1, <1>14, <1>15
  <2>3. ASSUME NEW i \in 1 .. n PROVE g[Len(history) + i] = Result(f[i])
    <3>1. g[Len(history) + i] = r[i]
      BY <1>1, <1>14, <1>15
    <3> QED
      BY <1>14, <3>1
  <2>4. Len(history) <= Len(g)
    BY <1>2, <1>3, <2>1
  <2>5. Grows(history, g)
    BY <1>1, <2>1, <2>2, <2>4 DEF Grows
  <2> QED
    BY <2>1, <2>3, <2>5
<1>17. /\ f \in [1 .. n -> history[u].calls]
       /\ \A i, j \in 1 .. n : f[i] = f[j] => i = j
       /\ \A i \in 1 .. n : ResultsOf(history, f[i]) = {}
                            /\ g[Len(history) + i] = Result(f[i])
  BY <1>8, <1>9, <1>10, <1>11, <1>12, <1>16
<1>18. {f[i] : i \in 1 .. n} = {calls[i] : i \in 1 .. n}
  BY <1>12
<1>19. /\ Paired(g) /\ CallsIn(g) \subseteq CallsIn(history)
       /\ OpenCalls(g) \subseteq OpenCalls(history) \ {f[i] : i \in 1 .. n}
       /\ \A w \in history[u].calls \ {f[i] : i \in 1 .. n} :
            ResultsOf(history, w) = {} => OpenAt(g, u, w)
  <2>1. AddsResults(history, g, u, n, f)
    BY <1>2, <1>5, <1>8, <1>16, <1>17 DEF AddsResults
  <2> QED
    BY <1>1, <1>16, <2>1, ResultsKeepPairs
<1>20. ASSUME Suspended, n < Len(completed)
       PROVE  \E i \in DOMAIN g : OpenAt(g, i, suspended_wait)
  <2>1. Len(completed) > 0 /\ suspended_wait = calls[Len(completed)]
    BY <1>20 DEF HistInv, WaitIsLast
  <2>2. PICK m : m = Len(completed)
    OBVIOUS
  <2>3. m \in 1 .. Len(calls) /\ suspended_wait = calls[m] /\ n < m
    BY <1>2, <1>20, <2>1, <2>2
  <2>4. suspended_wait \in S
    BY <1>6, <2>3
  <2>5. \A i \in 1 .. n : f[i] # suspended_wait
    <3> TAKE i \in 1 .. n
    <3>1. i # m /\ i \in 1 .. Len(calls)
      BY <1>12, <2>3
    <3> QED
      BY <1>10, <1>12, <2>3, <3>1
  <2>6. OpenAt(g, u, suspended_wait)
    BY <1>8, <1>9, <1>19, <2>4, <2>5
  <2>7. u \in DOMAIN g
    BY <1>5, <1>16, GrownKeeps
  <2> QED
    BY <2>6, <2>7
<1>21. g \in Seq(Messages)
  BY <1>16 DEF Grows
<1> QED
  BY <1>18, <1>19, <1>20, <1>21

LEMMA TextAppended ==
  ASSUME NEW h \in Seq(Messages), Paired(h), NEW m \in {UserText, Text}
  PROVE  /\ Append(h, m) \in Seq(Messages) /\ Paired(Append(h, m))
         /\ CallsIn(Append(h, m)) \subseteq CallsIn(h)
         /\ OpenCalls(Append(h, m)) \subseteq OpenCalls(h)
<1>1. m \in Messages /\ m.calls = {} /\ m.kind \in {"user", "text"}
  BY MessageFacts
<1>2. PICK g : g = Append(h, m)
  OBVIOUS
<1>3. /\ g \in Seq(Messages) /\ Len(g) = Len(h) + 1 /\ Len(h) \in Nat
      /\ \A i \in 1 .. Len(h) : g[i] = h[i]
      /\ g[Len(h) + 1] = m
  BY <1>1, <1>2
<1>4. Grows(h, g)
  BY <1>3 DEF Grows
<1>5. ASSUME NEW i \in DOMAIN g \ DOMAIN h
      PROVE  g[i].calls = {} /\ g[i].kind \in {"user", "text"}
  <2>1. i = Len(h) + 1
    BY <1>3
  <2> QED
    BY <1>1, <1>3, <2>1
<1>6. Paired(g) /\ CallsIn(g) \subseteq CallsIn(h) /\ OpenCalls(g) \subseteq OpenCalls(h)
  BY <1>4, <1>5, TextKeepsPairs
<1> QED
  BY <1>2, <1>3, <1>6

-------------------------------------------------------------------------------
(* The steps, one by one.                                                   *)

LEMMA PairInit ==
  ASSUME Init PROVE HistInv
<1>1. <<>> \in Seq(Messages) /\ Len(<<>>) = 0 /\ DOMAIN <<>> = {}
  OBVIOUS
<1>2. CallsIn(<<>>) = {} /\ OpenCalls(<<>>) = {} /\ Paired(<<>>)
  BY <1>1 DEF CallsIn, OpenCalls, Paired, UsesOf, ResultsOf
<1>3. history = <<>> /\ saved.history = <<>> /\ suspended_wait = NoCall
      /\ completed = <<>> /\ cut = {} /\ place = "ready"
  BY DEF Init
<1>4. HistoryTypeOK /\ HistoriesAreOld /\ HistoriesArePaired
  BY <1>1, <1>2, <1>3 DEF HistoryTypeOK, HistoriesAreOld, HistoriesArePaired
<1>5. BatchIsLast
  BY <1>1, <1>3 DEF BatchIsLast
<1>6. WaitIsLast /\ WaitIsAtTheEnd
  BY <1>3 DEF WaitIsLast, WaitIsAtTheEnd, Suspended
<1>7. OpenAreKnown
  BY <1>2, <1>3 DEF OpenAreKnown
<1> QED
  BY <1>4, <1>5, <1>6, <1>7 DEF HistInv

\* Between the batches the open calls are known from cut and the wait alone.
LEMMA NoBatch ==
  ASSUME RunsInv, HistInv, place \in {"ready", "model"}
  PROVE  /\ calls = <<>> /\ completed = <<>>
         /\ OpenCalls(history) \subseteq cut \cup {suspended_wait}
         /\ ~ Suspended => suspended_wait = NoCall /\ OpenCalls(history) \subseteq cut
         /\ place = "model" => ~ Suspended
<1>1. calls = <<>> /\ completed = <<>>
  BY DEF RunsInv, LoopIsPlaced
<1>2. OpenCalls(history) \subseteq cut \cup {suspended_wait}
  BY <1>1 DEF HistInv, OpenAreKnown
<1>3. NoCall \notin OpenCalls(history)
  BY OpenAreCalls DEF HistInv, HistoryTypeOK
<1> QED
  BY <1>1, <1>2, <1>3 DEF Suspended, HistInv, WaitIsLast

LEMMA PairUserMessage ==
  ASSUME RunsInv, HistInv, UserMessage PROVE HistInv'
<1>1. place = "ready" /\ calls = <<>> /\ completed = <<>>
  BY NoBatch DEF UserMessage
<1>2. PICK g : g = AnswerWait(history)
  OBVIOUS
<1>3. /\ g \in Seq(Messages) /\ Paired(g) /\ CallsIn(g) \subseteq CallsIn(history)
      /\ OpenCalls(g) \subseteq cut
  BY <1>1, <1>2, AnswerWaitKeepsPairs
<1>4. history' = Append(g, UserText)
  BY <1>2 DEF UserMessage
<1>5. /\ history' \in Seq(Messages) /\ Paired(history')
      /\ CallsIn(history') \subseteq CallsIn(g) /\ OpenCalls(history') \subseteq OpenCalls(g)
  BY <1>3, <1>4, TextAppended
<1>6. cut \subseteq Calls
  BY DEF HistInv, HistoryTypeOK
<1> QED
  BY <1>1, <1>3, <1>5, <1>6, HistoryBetween DEF UserMessage

LEMMA PairAnswersWait ==
  ASSUME RunsInv, HistInv, Resume \/ InterruptIdle PROVE HistInv'
<1>1. /\ place = "ready" /\ calls = <<>> /\ completed = <<>>
      /\ history' = AnswerWait(history) /\ suspended_wait' = NoCall
      /\ place' \in {"ready", "model"}
      /\ UNCHANGED <<calls, completed, next_call, saved, cut>>
  BY NoBatch DEF Resume, InterruptIdle
<1>2. /\ history' \in Seq(Messages) /\ Paired(history')
      /\ CallsIn(history') \subseteq CallsIn(history) /\ OpenCalls(history') \subseteq cut
  BY <1>1, AnswerWaitKeepsPairs
<1>3. cut \subseteq Calls
  BY DEF HistInv, HistoryTypeOK
<1> QED
  BY <1>1, <1>2, <1>3, HistoryBetween

\* unwind_history leaves no call open, and needs none: an idle session waits
\* for nothing.
LEMMA PairUnwind ==
  ASSUME RunsInv, HistInv, Unwind PROVE HistInv'
<1>1. /\ place = "ready" /\ state = "Idle"
      /\ UNCHANGED <<place, suspended_wait, calls, completed, next_call, saved, cut>>
  BY DEF Unwind
<1>2. PICK i \in DOMAIN history : history' = Sanitize(SubSeq(history, 1, i - 1))
  BY DEF Unwind
<1>3. suspended_wait = NoCall /\ calls = <<>> /\ completed = <<>>
  BY <1>1, NoBatch DEF HistInv, WaitIsLast
<1>4. PICK g : g = SubSeq(history, 1, i - 1)
  OBVIOUS
<1>5. g \in Seq(Messages) /\ Paired(g) /\ CallsIn(g) \subseteq CallsIn(history)
  BY <1>4, PrefixIsPaired DEF HistInv, HistoryTypeOK, HistoriesArePaired
<1>6. /\ history' \in Seq(Messages) /\ Paired(history')
      /\ CallsIn(history') \subseteq CallsIn(g) /\ OpenCalls(history') = {}
  BY <1>2, <1>4, <1>5, SanitizeIsPaired
<1>7. cut \subseteq Calls
  BY DEF HistInv, HistoryTypeOK
<1> QED
  BY <1>1, <1>3, <1>5, <1>6, <1>7, HistoryBetween

\* compact_session_history does not close the wait it goes on behind of.
LEMMA PairCompact ==
  ASSUME RunsInv, HistInv, Compact PROVE HistInv'
<1>1. /\ place \in {"ready", "model"} /\ history' = Compacted(history)
      /\ UNCHANGED <<place, state, suspended_wait, calls, completed, next_call, saved, cut>>
  BY DEF Compact
<1>2. /\ calls = <<>> /\ completed = <<>>
      /\ OpenCalls(history) \subseteq cut \cup {suspended_wait}
      /\ ~ Suspended => suspended_wait = NoCall
      /\ Suspended => place = "ready"
  BY <1>1, NoBatch
<1>3. /\ history \in Seq(Messages) /\ Paired(history) /\ cut \subseteq Calls
      /\ suspended_wait \in Calls \cup {NoCall}
  BY DEF HistInv, HistoryTypeOK, HistoriesArePaired
<1>4. /\ history' \in Seq(Messages) /\ Paired(history')
      /\ CallsIn(history') \subseteq CallsIn(history)
      /\ OpenCalls(history') \subseteq OpenCalls(history)
      /\ \A c \in Calls : \A i \in DOMAIN history : OpenAt(history, i, c) =>
           \E n \in DOMAIN history' : OpenAt(history', n, c)
  BY <1>1, <1>3, CompactedIsPaired
<1>5. CASE ~ Suspended
  BY <1>1, <1>2, <1>3, <1>4, <1>5, HistoryBetween
<1>6. CASE Suspended
  <2>1. suspended_wait \in Calls /\ state = "Waiting"
    BY <1>3, <1>6 DEF Suspended, HistInv, WaitIsLast
  <2>2. \E i \in DOMAIN history : OpenAt(history, i, suspended_wait)
    BY <1>2, <1>6 DEF HistInv, WaitIsAtTheEnd
  <2>3. \E n \in DOMAIN history' : OpenAt(history', n, suspended_wait)
    BY <1>4, <2>1, <2>2
  <2> QED
    BY <1>1, <1>2, <1>3, <1>4, <1>6, <2>1, <2>3, HistoryBetween
<1> QED
  BY <1>5, <1>6

LEMMA PairEndTurn ==
  ASSUME RunsInv, HistInv, EndTurn PROVE HistInv'
<1>1. /\ place = "model" /\ place' = "ready" /\ calls' = <<>> /\ completed' = <<>>
      /\ UNCHANGED <<suspended_wait, next_call, saved, cut>>
      /\ history' = Append(history, Text) \/ history' = history
  BY DEF EndTurn, BackToReady
<1>2. suspended_wait = NoCall /\ OpenCalls(history) \subseteq cut
  BY <1>1, NoBatch
<1>3. history \in Seq(Messages) /\ Paired(history) /\ cut \subseteq Calls
  BY DEF HistInv, HistoryTypeOK, HistoriesArePaired
<1>4. /\ history' \in Seq(Messages) /\ Paired(history')
      /\ CallsIn(history') \subseteq CallsIn(history)
      /\ OpenCalls(history') \subseteq OpenCalls(history)
  BY <1>1, <1>3, TextAppended
<1> QED
  BY <1>1, <1>2, <1>3, <1>4, HistoryBetween

\* A batch of fresh calls is made for the first time.
LEMMA PairModelCalls ==
  ASSUME TurnAssumption, RunsInv, HistInv, ModelCalls PROVE HistInv'
<1>1. PICK n \in 1 .. MaxBatch :
        /\ next_call + n - 1 <= MaxCalls
        /\ history' = Append(history, Use([i \in 1 .. n |-> next_call + i - 1]))
        /\ calls' = [i \in 1 .. n |-> next_call + i - 1]
        /\ next_call' = next_call + n
  BY DEF ModelCalls
<1>2. /\ n \in Nat /\ n >= 1 /\ next_call \in Nat /\ next_call >= 1 /\ MaxCalls \in Nat
  BY DEF TurnAssumption, RunsInv, LoopTypeOK
<1>3. /\ place = "model" /\ completed' = <<>> /\ place' = "next"
      /\ UNCHANGED <<suspended_wait, cut, saved>>
  BY DEF ModelCalls
<1>4. suspended_wait = NoCall /\ OpenCalls(history) \subseteq cut
  BY <1>3, NoBatch
<1>5. /\ history \in Seq(Messages) /\ Paired(history) /\ Len(history) \in Nat
      /\ \A c \in CallsIn(history) : c < next_call
      /\ \A c \in CallsIn(saved.history) : c < next_call
      /\ saved.history \in Seq(Messages) /\ Paired(saved.history) /\ cut \subseteq Calls
  BY DEF HistInv, HistoryTypeOK, HistoriesArePaired, HistoriesAreOld
<1>6. PICK S : S = {calls'[i] : i \in 1 .. n}
  OBVIOUS
<1>7. \A i \in 1 .. n : /\ calls'[i] \in Calls /\ calls'[i] >= next_call
                        /\ calls'[i] < next_call' /\ calls'[i] \in Nat
  BY <1>1, <1>2 DEF Calls
<1>8. S \in SUBSET Calls /\ \A c \in S : c >= next_call /\ c < next_call' /\ c \in Nat
  BY <1>6, <1>7
<1>9. DOMAIN calls' = 1 .. n /\ Len(calls') = n
  BY <1>1, <1>2
<1>10. Use(calls') = Message("use", S)
  BY <1>6, <1>9 DEF Use, ToSet
<1>11. PICK g : g = Append(history, Message("use", S))
  OBVIOUS
<1>12. history' = g
  BY <1>1, <1>10, <1>11
<1>13. Message("use", S) \in Messages
  BY <1>8, MessageFacts
<1>14. /\ g \in Seq(Messages) /\ Len(g) = Len(history) + 1
       /\ \A i \in 1 .. Len(history) : g[i] = history[i]
       /\ g[Len(g)] = Message("use", S)
  BY <1>5, <1>11, <1>13
<1>15. Grows(history, g)
  BY <1>5, <1>14 DEF Grows
<1>16. CallsIn(history) \subseteq Nat /\ CallsIn(saved.history) \subseteq Nat
  BY <1>5, CallsOf DEF Calls
<1>17. S \cap CallsIn(history) = {}
  <2>1. ASSUME NEW c \in S, c \in CallsIn(history) PROVE FALSE
    <3>1. c >= next_call /\ c < next_call /\ c \in Nat
      BY <1>5, <1>8, <2>1
    <3> QED
      BY <1>2, <3>1
  <2> QED
    BY <2>1
<1>18. /\ Paired(g) /\ CallsIn(g) \subseteq CallsIn(history) \cup S
       /\ OpenCalls(g) \subseteq OpenCalls(history) \cup S
  BY <1>5, <1>8, <1>14, <1>15, <1>17, UseKeepsPairs
<1>19. HistoryTypeOK' /\ HistoriesArePaired'
  BY <1>3, <1>4, <1>5, <1>12, <1>14, <1>18 DEF HistoryTypeOK, HistoriesArePaired
<1>20. HistoriesAreOld'
  <2>1. ASSUME NEW c, c \in CallsIn(history) \cup CallsIn(saved.history)
        PROVE  c < next_call'
    <3>1. c < next_call /\ c \in Nat
      BY <1>5, <1>16, <2>1
    <3> QED
      BY <1>1, <1>2, <3>1
  <2>2. \A c \in CallsIn(g) : c < next_call'
    BY <1>8, <1>18, <2>1
  <2>3. \A c \in CallsIn(saved.history) : c < next_call'
    BY <2>1
  <2> QED
    BY <1>3, <1>12, <2>2, <2>3 DEF HistoriesAreOld
<1>21. BatchIsLast'
  <2>1. Len(history') > 0
    BY <1>5, <1>12, <1>14
  <2>2. history'[Len(history')] = Use(calls')
    BY <1>10, <1>12, <1>14
  <2> QED
    BY <1>3, <2>1, <2>2 DEF BatchIsLast
<1>22. WaitIsLast' /\ WaitIsAtTheEnd'
  BY <1>3, <1>4 DEF WaitIsLast, WaitIsAtTheEnd, Suspended
<1>23. OpenAreKnown'
  BY <1>3, <1>4, <1>6, <1>9, <1>12, <1>18 DEF OpenAreKnown
<1> QED
  BY <1>19, <1>20, <1>21, <1>22, <1>23 DEF HistInv

\* The calls of the batch are the calls of the loop.
LEMMA RestOfBatch ==
  ASSUME RunsInv, NEW n \in Nat
  PROVE  /\ Rest(n + 1) \subseteq Calls
         /\ {calls[i] : i \in 1 .. Len(calls)} \subseteq {calls[i] : i \in 1 .. n} \cup Rest(n + 1)
<1>1. Len(calls) \in Nat /\ \A i \in 1 .. Len(calls) : calls[i] \in Calls
  BY DEF RunsInv, LoopTypeOK
<1>2. \A i \in 1 .. Len(calls) : i \in 1 .. n \/ i \in n + 1 .. Len(calls)
  BY <1>1
<1>3. \A i \in n + 1 .. Len(calls) : i \in 1 .. Len(calls)
  BY <1>1
<1> QED
  BY <1>1, <1>2, <1>3 DEF Rest

LEMMA PairAbandonBatch ==
  ASSUME RunsInv, HistInv, AbandonBatch PROVE HistInv'
<1>1. /\ ~ Suspended /\ cut' = cut \cup Rest(1)
      /\ place' = "ready" /\ calls' = <<>> /\ completed' = <<>>
      /\ UNCHANGED <<history, suspended_wait, next_call, saved>>
  BY DEF AbandonBatch, AtCall, BackToReady
<1>2. 0 + 1 = 1 /\ 0 \in Nat /\ 1 .. 0 = {}
  OBVIOUS
<1>3. Rest(1) \subseteq Calls /\ {calls[i] : i \in 1 .. Len(calls)} \subseteq Rest(1)
  BY <1>2, RestOfBatch
<1>4. /\ history \in Seq(Messages) /\ Paired(history) /\ cut \subseteq Calls
      /\ OpenCalls(history) \subseteq
           cut \cup {suspended_wait} \cup {calls[i] : i \in 1 .. Len(calls)}
  BY DEF HistInv, HistoryTypeOK, HistoriesArePaired, OpenAreKnown
<1>5. suspended_wait = NoCall /\ OpenCalls(history) \subseteq cut'
  BY <1>1, <1>3, <1>4, OpenAreCalls DEF Suspended
<1> QED
  BY <1>1, <1>3, <1>4, <1>5, HistoryBetween

\* However many results are stored, the open calls are known: the others were
\* cut, but for the one the session waits at.
LEMMA PairStores ==
  ASSUME RunsInv, HistInv, place = "next", NEW n \in 0 .. Len(completed),
         history' = WithResults(n), calls' = <<>>, completed' = <<>>,
         cut \cup (Rest(n + 1) \ {suspended_wait}) = cut',
         UNCHANGED <<suspended_wait, next_call, saved>>,
         \/ ~ Suspended /\ place' \in {"ready", "model"}
         \/ Suspended /\ n < Len(completed) /\ place' = "ready" /\ UNCHANGED state
  PROVE  HistInv'
<1>0. n \in Nat
  BY DEF RunsInv, LoopTypeOK
<1>1. /\ history' \in Seq(Messages) /\ Paired(history')
      /\ CallsIn(history') \subseteq CallsIn(history)
      /\ OpenCalls(history') \subseteq OpenCalls(history) \ {calls[i] : i \in 1 .. n}
      /\ Suspended /\ n < Len(completed) =>
           \E i \in DOMAIN history' : OpenAt(history', i, suspended_wait)
  BY BatchKeepsPairs
<1>2. /\ cut \subseteq Calls
      /\ OpenCalls(history) \subseteq
           cut \cup {suspended_wait} \cup {calls[i] : i \in 1 .. Len(calls)}
      /\ Suspended => state = "Waiting"
  BY DEF HistInv, HistoryTypeOK, OpenAreKnown, WaitIsLast
<1>3. /\ Rest(n + 1) \subseteq Calls
      /\ {calls[i] : i \in 1 .. Len(calls)} \subseteq {calls[i] : i \in 1 .. n} \cup Rest(n + 1)
  BY <1>0, RestOfBatch
<1>4. /\ cut' \subseteq Calls /\ cut \subseteq cut'
      /\ OpenCalls(history') \subseteq cut' \cup {suspended_wait'}
  BY <1>1, <1>2, <1>3
<1>5. CASE ~ Suspended
  <2>1. suspended_wait' = NoCall /\ place' \in {"ready", "model"}
    BY <1>5 DEF Suspended
  <2> QED
    BY <1>1, <1>4, <2>1, HistoryBetween
<1>6. CASE Suspended
  <2>1. /\ UNCHANGED suspended_wait /\ place' = "ready" /\ state' = "Waiting"
        /\ \E i \in DOMAIN history' : OpenAt(history', i, suspended_wait)
    BY <1>1, <1>2, <1>6
  <2> QED
    BY <1>1, <1>4, <2>1, HistoryBetween
<1> QED
  BY <1>5, <1>6

\* With a wait at the end of the batch, not all of its results are stored.
LEMMA StoredBeforeTheWait ==
  ASSUME RunsInv, HistInv, place = "next"
  PROVE  /\ StoredResults \in 0 .. Len(completed)
         /\ Suspended => StoredResults < Len(completed)
<1> DEFINE stops == {i \in DOMAIN completed :
                       Suspended /\ completed[i].outcome = "cancelled"}
<1>1. Len(completed) \in Nat /\ DOMAIN completed = 1 .. Len(completed)
  BY DEF RunsInv, LoopTypeOK
<1>2. StoredResults = IF stops = {} THEN Len(completed) ELSE Min(stops) - 1
  BY DEF StoredResults
<1>3. Suspended => Len(completed) \in stops
  BY <1>1 DEF HistInv, WaitIsLast
<1>4. stops \subseteq 1 .. Len(completed) /\ stops \in SUBSET Nat
  BY <1>1
<1>5. Suspended \/ stops = {}
  OBVIOUS
<1> HIDE DEF stops
<1>6. CASE stops = {}
  BY <1>1, <1>2, <1>3, <1>6
<1>7. CASE stops # {}
  <2>1. Min(stops) \in stops
    BY <1>4, <1>7, LeastExists
  <2>2. PICK m : m = Min(stops)
    OBVIOUS
  <2>3. m \in 1 .. Len(completed) /\ StoredResults = m - 1
    BY <1>2, <1>4, <1>7, <2>1, <2>2
  <2> QED
    BY <1>1, <2>3
<1> QED
  BY <1>6, <1>7

LEMMA PairStoreAndSuspend ==
  ASSUME RunsInv, HistInv, StoreAndSuspend PROVE HistInv'
<1>1. PICK n : n = StoredResults
  OBVIOUS
<1>2. /\ place = "next" /\ Suspended /\ history' = WithResults(n)
      /\ cut' = cut \cup (Rest(n + 1) \ {suspended_wait})
      /\ place' = "ready" /\ calls' = <<>> /\ completed' = <<>>
      /\ UNCHANGED <<state, suspended_wait, next_call, saved>>
  BY <1>1 DEF StoreAndSuspend, BatchOver, BackToReady
<1>3. n \in 0 .. Len(completed) /\ n < Len(completed)
  BY <1>1, <1>2, StoredBeforeTheWait
<1> QED
  BY <1>2, <1>3, PairStores

LEMMA PairStoreAndGoOn ==
  ASSUME RunsInv, HistInv, StoreAndGoOn PROVE HistInv'
<1>1. /\ place = "next" /\ ~ Suspended /\ Len(completed) = Len(calls)
      /\ history' = WithResults(Len(completed))
      /\ place' \in {"ready", "model"} /\ calls' = <<>> /\ completed' = <<>>
      /\ UNCHANGED <<suspended_wait, next_call, saved, cut>>
  BY DEF StoreAndGoOn, BatchOver, BackToReady
<1>2. PICK n : n = Len(completed)
  OBVIOUS
<1>3. n \in Nat /\ n \in 0 .. Len(completed) /\ n + 1 .. Len(calls) = {}
  BY <1>1, <1>2 DEF RunsInv, LoopTypeOK
<1>4. Rest(n + 1) = {}
  BY <1>3 DEF Rest
<1>5. cut' = cut \cup (Rest(n + 1) \ {suspended_wait})
  BY <1>1, <1>4
<1> QED
  BY <1>1, <1>2, <1>3, <1>5, PairStores

\* Without a wait nothing but the results that were not stored is left open;
\* with one, archive_failed is set.
LEMMA PairStoreFails ==
  ASSUME RunsInv, HistInv, StoreFails, archive_failed' = FALSE PROVE HistInv'
<1>1. PICK n \in 0 .. StoredResults - 1 :
        /\ history' = WithResults(n)
        /\ cut' = cut \cup (Rest(n + 1) \ {suspended_wait})
  BY DEF StoreFails
<1>2. /\ place = "next" /\ ~ Suspended
      /\ place' = "ready" /\ calls' = <<>> /\ completed' = <<>>
      /\ UNCHANGED <<suspended_wait, next_call, saved>>
  <2>1. ~ Suspended
    BY Zenon DEF StoreFails
  <2> QED
    BY <2>1 DEF StoreFails, BatchOver, BackToReady
<1>3. StoredResults \in 0 .. Len(completed) /\ Len(completed) \in Nat
  BY <1>2, StoredBeforeTheWait DEF RunsInv, LoopTypeOK
<1>4. n \in 0 .. Len(completed)
  BY <1>3
<1> QED
  BY <1>1, <1>2, <1>4, PairStores

LEMMA PairRestart ==
  ASSUME RunsInv, HistInv, Restart PROVE HistInv'
<1>1. /\ history' = Sanitize(saved.history) /\ suspended_wait' = NoCall
      /\ place' = "ready" /\ calls' = <<>> /\ completed' = <<>>
      /\ UNCHANGED <<next_call, cut, saved>>
  BY DEF Restart, BackToReady
<1>2. saved.history \in Seq(Messages) /\ Paired(saved.history) /\ cut \subseteq Calls
  BY DEF HistInv, HistoryTypeOK, HistoriesArePaired
<1>3. /\ history' \in Seq(Messages) /\ Paired(history')
      /\ CallsIn(history') \subseteq CallsIn(saved.history)
      /\ OpenCalls(history') = {}
  BY <1>1, <1>2, SanitizeIsPaired
<1> QED
  BY <1>1, <1>2, <1>3, HistoryBetween

LEMMA PairInterruptTurn ==
  ASSUME RunsInv, HistInv, InterruptTurn PROVE HistInv'
<1>1. /\ place \in {"model", "tool", "approval"}
      /\ UNCHANGED <<history, suspended_wait, next_call, cut, saved>>
  BY DEF InterruptTurn
<1>2. ~ Suspended
  BY <1>1 DEF HistInv, WaitIsLast
<1>3. CASE place = "model" /\ BackToReady
  <2>1. /\ suspended_wait = NoCall /\ OpenCalls(history) \subseteq cut
        /\ calls' = <<>> /\ completed' = <<>> /\ place' = "ready"
    BY <1>3, NoBatch DEF BackToReady
  <2>2. history \in Seq(Messages) /\ Paired(history) /\ cut \subseteq Calls
    BY DEF HistInv, HistoryTypeOK, HistoriesArePaired
  <2> QED
    BY <1>1, <2>1, <2>2, HistoryBetween
<1>4. CASE place # "model" /\ Complete("cancelled") /\ place' = "next" /\ UNCHANGED calls
  <2>1. place \in {"next", "tool", "approval"} /\ Len(completed) < Len(calls)
    BY <1>1, <1>4 DEF RunsInv, LoopIsPlaced
  <2> QED
    BY <1>1, <1>2, <1>4, <2>1, HistoryAdvances
<1> QED
  BY <1>3, <1>4 DEF InterruptTurn

LEMMA PairApprove ==
  ASSUME RunsInv, HistInv, Approve PROVE HistInv'
<1>1. /\ place = "approval" /\ ~ Suspended /\ Len(completed) < Len(calls)
      /\ UNCHANGED <<history, calls, next_call, cut, saved>>
  BY DEF Approve, RunsInv, LoopIsPlaced, HistInv, WaitIsLast
<1>2. CASE RunTool /\ UNCHANGED <<suspended_wait, completed>>
  <2>1. place' = "tool"
    BY <1>2 DEF RunTool
  <2>2. UNCHANGED <<history, calls, completed, next_call, suspended_wait, cut>>
    BY <1>1, <1>2
  <2>3. saved'.history \in {saved.history, history}
    BY <1>1
  <2> QED
    BY <1>1, <2>1, <2>2, <2>3, HistoryStays
<1>3. CASE SuspendAt
  BY <1>1, <1>3, HistoryAdvances DEF SuspendAt
<1> QED
  BY <1>2, <1>3 DEF Approve

LEMMA PairStep ==
  ASSUME TurnAssumption, PairInv, [Next]_vars PROVE PairInv'
<1>1. RunsInv /\ RunsInv'
  BY RunsStep DEF PairInv
<1>2. archive_failed' \in BOOLEAN /\ (archive_failed' = FALSE => archive_failed = FALSE)
  <2>1. CASE StoreFails
    <3>1. archive_failed' = (archive_failed \/ Suspended)
      BY <2>1 DEF StoreFails
    <3> QED
      BY <3>1 DEF PairInv
  <2>2. CASE UNCHANGED archive_failed
    BY <2>2 DEF PairInv
  <2>3. StoreFails \/ UNCHANGED archive_failed
    BY DEF Next, Input, UserMessage, Resume, InterruptIdle, Continue, Unwind, Compact,
           EndTurn, ModelCalls, AbandonBatch, CallAnswered, CallTool, CallWait, CallAsks,
           Approve, Deny, AnswerInvalid, ToolDone, InterruptTurn, StoreAndSuspend,
           StoreAndGoOn, Checkpoint, Restart
  <2> QED
    BY <2>1, <2>2, <2>3
<1>3. ASSUME archive_failed' = FALSE PROVE HistInv'
  <2>1. HistInv
    BY <1>2, <1>3 DEF PairInv
  <2>2. CASE UNCHANGED vars
    <3>1. UNCHANGED <<history, calls, completed, next_call, suspended_wait, cut, place, state>>
          /\ saved' = saved
      BY <2>2
    <3>2. Suspended => state' = "Waiting"
      BY <2>1, <3>1 DEF HistInv, WaitIsLast
    <3> QED
      BY <2>1, <3>1, <3>2, HistoryStays
  <2>3. CASE UserMessage \/ Resume \/ InterruptIdle
    BY <1>1, <2>1, <2>3, PairUserMessage, PairAnswersWait
  <2>4. CASE Continue \/ AnswerInvalid \/ Checkpoint
    <3>1. /\ UNCHANGED <<history, calls, completed, next_call, suspended_wait, cut>>
          /\ place' = place /\ (state = "Waiting" => state' = "Waiting")
      BY <2>4 DEF Continue, AnswerInvalid, Checkpoint
    <3>2. saved'.history \in {saved.history, history}
      <4>1. CASE Checkpoint
        <5>1. PICK to : to = IF state = "Paused" THEN "Paused" ELSE "Idle"
          OBVIOUS
        <5>2. PICK pending : pending = pending_approval
          OBVIOUS
        <5>3. PICK now : now = history
          OBVIOUS
        <5>4. saved' = [taken |-> TRUE, history |-> now, state |-> to, pending |-> pending]
          BY <4>1, <5>1, <5>2, <5>3, Zenon DEF Checkpoint
        <5>5. saved'.history = now
          BY <5>4
        <5> QED
          BY <5>3, <5>5
      <4>2. CASE Continue \/ AnswerInvalid
        BY <4>2 DEF Continue, AnswerInvalid
      <4> QED
        BY <2>4, <4>1, <4>2
    <3>3. Suspended => state' = "Waiting"
      BY <2>1, <3>1 DEF HistInv, WaitIsLast
    <3> QED
      BY <2>1, <3>1, <3>2, <3>3, HistoryStays
  <2>5. CASE Unwind \/ Compact \/ EndTurn \/ ModelCalls
    BY <1>1, <2>1, <2>5, PairUnwind, PairCompact, PairEndTurn, PairModelCalls
  <2>6. CASE AbandonBatch
    BY <1>1, <2>1, <2>6, PairAbandonBatch
  <2>7. CASE CallAnswered \/ CallWait
    BY <1>1, <2>1, <2>7, HistoryAdvances DEF CallAnswered, CallWait, AtCall, SuspendAt
  <2>8. CASE CallTool \/ CallAsks
    <3>1. /\ UNCHANGED <<history, calls, completed, next_call, suspended_wait, cut>>
          /\ saved' = saved /\ ~ Suspended /\ place = "next" /\ place' \in {"tool", "approval"}
      BY <2>8 DEF CallTool, CallAsks, RunTool, AtCall
    <3> QED
      BY <2>1, <3>1, HistoryStays
  <2>9. CASE Approve
    BY <1>1, <2>1, <2>9, PairApprove
  <2>10. CASE Deny \/ ToolDone
    <3>1. /\ place \in {"tool", "approval"} /\ place' = "next"
          /\ \E outcome \in {"done", "cancelled"} : Complete(outcome)
          /\ UNCHANGED <<history, calls, next_call, suspended_wait, cut, saved>>
      BY <2>10 DEF Deny, ToolDone
    <3>2. Len(completed) < Len(calls) /\ ~ Suspended
      BY <1>1, <2>1, <3>1 DEF RunsInv, LoopIsPlaced, HistInv, WaitIsLast
    <3> QED
      BY <1>1, <2>1, <3>1, <3>2, HistoryAdvances
  <2>11. CASE InterruptTurn
    BY <1>1, <2>1, <2>11, PairInterruptTurn
  <2>12. CASE StoreAndSuspend \/ StoreAndGoOn
    BY <1>1, <2>1, <2>12, PairStoreAndSuspend, PairStoreAndGoOn
  <2>13. CASE StoreFails
    BY <1>1, <1>3, <2>1, <2>13, PairStoreFails
  <2>14. CASE Restart
    BY <1>1, <2>1, <2>14, PairRestart
  <2> QED
    BY <2>2, <2>3, <2>4, <2>5, <2>6, <2>7, <2>8, <2>9, <2>10, <2>11, <2>12,
       <2>13, <2>14 DEF Next
<1> QED
  BY <1>1, <1>2, <1>3 DEF PairInv

\* What a provider and what resumes a wait see follows from it.
LEMMA PairedIsEnough ==
  ASSUME PairInv PROVE HistoryIsPaired
<1>1. ASSUME archive_failed = FALSE
      PROVE  \A c \in CallsIn(history) :
               /\ Cardinality(UsesOf(history, c)) = 1
               /\ Cardinality(ResultsOf(history, c)) <= 1
               /\ \A i \in UsesOf(history, c), j \in ResultsOf(history, c) : i < j
  <2>1. history \in Seq(Messages) /\ Paired(history)
    BY <1>1 DEF PairInv, HistInv, HistoryTypeOK, HistoriesArePaired
  <2> TAKE c \in CallsIn(history)
  <2>2. c \in Calls /\ UsesOf(history, c) \cup ResultsOf(history, c) # {}
    BY <2>1, CallsOf
  <2>3. \A j \in ResultsOf(history, c) : \E i \in UsesOf(history, c) : i < j
    BY <2>1, <2>2 DEF Paired, Follows
  <2>4. PICK u : u \in UsesOf(history, c)
    BY <2>2, <2>3
  <2>5. UsesOf(history, c) = {u}
    BY <2>1, <2>2, <2>4 DEF Paired
  <2>6. Cardinality(UsesOf(history, c)) = 1
    BY <2>5, FS_Singleton
  <2>7. Cardinality(ResultsOf(history, c)) <= 1
    <3>1. CASE ResultsOf(history, c) = {}
      BY <3>1, FS_EmptySet
    <3>2. CASE ResultsOf(history, c) # {}
      <4>1. PICK r : r \in ResultsOf(history, c)
        BY <3>2
      <4>2. ResultsOf(history, c) = {r}
        BY <2>1, <2>2, <4>1 DEF Paired
      <4>3. Cardinality(ResultsOf(history, c)) = 1
        BY <4>2, FS_Singleton
      <4> QED
        BY <4>3
    <3> QED
      BY <3>1, <3>2
  <2>8. \A i \in UsesOf(history, c), j \in ResultsOf(history, c) : i < j
    BY <2>3, <2>5
  <2> QED
    BY <2>6, <2>7, <2>8
<1>2. EachResultOnce
  <2>1. CASE archive_failed = FALSE
    BY <1>1, <2>1, Zenon DEF EachResultOnce
  <2>2. CASE archive_failed = TRUE
    BY <2>2, Zenon DEF EachResultOnce
  <2> QED
    BY <2>1, <2>2 DEF PairInv
<1>3. WaitIsOpen
  <2>1. ASSUME archive_failed = FALSE, place = "ready", Suspended
        PROVE  UsesOf(history, suspended_wait) # {} /\ ResultsOf(history, suspended_wait) = {}
    BY <2>1 DEF PairInv, HistInv, WaitIsAtTheEnd, OpenAt
  <2>2. CASE archive_failed = FALSE
    BY <2>1, <2>2, Zenon DEF WaitIsOpen
  <2>3. CASE archive_failed = TRUE
    BY <2>3, Zenon DEF WaitIsOpen
  <2> QED
    BY <2>2, <2>3 DEF PairInv
<1>4. UnansweredWereCut
  <2>1. ASSUME archive_failed = FALSE, place = "model"
        PROVE  \A c \in CallsIn(history) \ cut : Answered(history, c)
    <3>1. OpenCalls(history) \subseteq cut
      BY <2>1, NoBatch DEF PairInv
    <3> QED
      BY <3>1 DEF OpenCalls
  <2>2. CASE archive_failed = FALSE
    BY <2>1, <2>2, Zenon DEF UnansweredWereCut
  <2>3. CASE archive_failed = TRUE
    BY <2>3, Zenon DEF UnansweredWereCut
  <2> QED
    BY <2>2, <2>3 DEF PairInv
<1> QED
  BY <1>2, <1>3, <1>4 DEF HistoryIsPaired

-------------------------------------------------------------------------------
(* Theorems.                                                                *)

\* "approve once resumes the paused tool exactly once" (features/046): whatever
\* interrupts, restarts, denials and waits come in between, execute_tool_call
\* starts no call twice, and none that asked before it was approved.
THEOREM ApprovedRunsOnceCorrect == Spec => []ApprovedRunsOnce
<1>1. Init => RunsInv
  BY RunsInit, TurnAssumption
<1>2. RunsInv /\ [Next]_vars => RunsInv'
  BY RunsStep, TurnAssumption
<1>3. RunsInv => ApprovedRunsOnce
  BY DEF RunsInv
<1> QED
  BY <1>1, <1>2, <1>3, PTL DEF Spec

\* Whatever handle_turn, its interruptions, append_suspended_wait_result,
\* unwind_history, compact_session_history, sanitize_restored_history and the
\* restarts do to a history: a result stands behind its call and is the only
\* one, a suspended wait has an open call to answer, and what the model is
\* asked about an unanswered call of is a batch that was cut short.
THEOREM HistoryIsPairedCorrect == Spec => []HistoryIsPaired
<1>1. Init => PairInv
  BY RunsInit, PairInit, TurnAssumption DEF PairInv, Init
<1>2. PairInv /\ [Next]_vars => PairInv'
  BY PairStep, TurnAssumption
<1>3. PairInv => HistoryIsPaired
  BY PairedIsEnough
<1> QED
  BY <1>1, <1>2, <1>3, PTL DEF Spec
===============================================================================
